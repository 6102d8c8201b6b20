---------------------------- MODULE MCSimNetwork ----------------------------
(* A small simulated network: node 1 runs two coroutines that send, node 2 one. *)
EXTENDS SimNetwork

MCCoroutines == {"a", "b", "c"}
MCOwner == [c \in MCCoroutines |-> IF c = "c" THEN 2 ELSE 1]
MCStrides == {1, 2}
MCLatencies == {0, 2}

=============================================================================
