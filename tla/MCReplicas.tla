----------------------------- MODULE MCReplicas -----------------------------
(***************************************************************************)
(* Two replicas of one task, and the records that one run of three peers   *)
(* sends about it: peer 1 submits the task, peers 1 and 2 claim it         *)
(* concurrently, peer 1 completes it; peer 3, which has no worker, does    *)
(* not know and releases the claim of peer 2 after its lease; peer 2       *)
(* claims again and fails.                                                 *)
(***************************************************************************)
EXTENDS Replicas

MCPeers == {1, 2, 3}

MCSigRank(v) == 25 * v[1] + 5 * v[2] + v[3]

Token(e, p) == [epoch |-> e, peer |-> p]

(* Peers are 1 .. 3, so a clock is a triple. *)
Sent(n, state, claimed_by, token, lease, vc) ==
    SealRecord(n, NewRecord(n, state, claimed_by, token, lease, vc))

MCUniverse ==
    { Sent(1, "PENDING", 0, NoToken, 0, <<1, 0, 0>>),
      Sent(1, "CLAIMED", 1, Token(1, 1), 1, <<2, 0, 0>>),
      Sent(2, "CLAIMED", 2, Token(1, 2), 2, <<1, 1, 0>>),
      Sent(2, "RUNNING", 2, Token(1, 2), 2, <<1, 1, 0>>),
      Sent(1, "DONE", 1, Token(1, 1), 0, <<3, 0, 0>>),
      Sent(3, "PENDING", 0, Token(2, 3), 0, <<1, 1, 1>>),
      Sent(2, "CLAIMED", 2, Token(3, 2), 4, <<1, 2, 1>>),
      Sent(2, "FAILED", 2, Token(3, 2), 0, <<1, 3, 1>>) }

=============================================================================
