--------------------------- MODULE ExclusiveRuns ---------------------------
(***************************************************************************)
(* What the Sync option of a command promises: the runners of a group run  *)
(* one at a time, and each of them waits, runs once and is finished.       *)
(***************************************************************************)
CONSTANTS Runners, GroupOf

VARIABLE state     \* [Runners -> waiting, running or finished]

Init == state = [r \in Runners |-> "waiting"]

Enter(r) ==
    /\ state[r] = "waiting"
    /\ \A q \in Runners : GroupOf[q] = GroupOf[r] => state[q] # "running"
    /\ state' = [state EXCEPT ![r] = "running"]

Leave(r) ==
    /\ state[r] = "running"
    /\ state' = [state EXCEPT ![r] = "finished"]

Next == \E r \in Runners : Enter(r) \/ Leave(r)

Spec == Init /\ [][Next]_state
=============================================================================
