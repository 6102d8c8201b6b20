--------------------------- MODULE MCTcpTransport ---------------------------
(* Two coroutines of node 1 send to nodes 2 and 3. *)
EXTENDS TcpTransport

MCCallers == {"a", "b"}
MCOwner == [c \in MCCallers |-> 1]
MCTargets == [c \in MCCallers |-> IF c = "a" THEN {2} ELSE {2, 3}]

=============================================================================
