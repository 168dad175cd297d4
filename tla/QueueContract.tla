---------------------------- MODULE QueueContract ----------------------------
(***************************************************************************)
(* What enqueue() promises the rest of wytui, with no worker in sight: a   *)
(* job waits, executes at most once at a time, and once closed never       *)
(* executes again.  An execution may be given up (the process died, no     *)
(* handler was registered, its outcome could not be recorded) and the job  *)
(* then waits again: execution is at least once, not exactly once.         *)
(***************************************************************************)
CONSTANT Jobs
VARIABLE phase

Phases == {"absent", "waiting", "executing", "closed", "withdrawn"}

Init == phase \in [Jobs -> {"absent", "waiting"}]

Move(j, from, to) ==
  /\ phase[j] = from
  /\ phase' = [phase EXCEPT ![j] = to]

Submit(j) == Move(j, "absent", "waiting")

Begin(j) == Move(j, "waiting", "executing")

Close(j) == Move(j, "executing", "closed")

Withdraw(j) == Move(j, "waiting", "withdrawn")

(* Every execution of a set of jobs is given up at once.  A job that was
   deleted while it executed is withdrawn by that. *)
GiveUp(S) ==
  /\ S # {} /\ \A j \in S : phase[j] = "executing"
  /\ \E W \in SUBSET S :
       phase' = [j \in Jobs |-> IF j \in W THEN "withdrawn"
                                ELSE IF j \in S THEN "waiting" ELSE phase[j]]

Next ==
  \/ \E j \in Jobs : Submit(j) \/ Begin(j) \/ Close(j) \/ Withdraw(j)
  \/ \E S \in SUBSET Jobs : GiveUp(S)

Spec == Init /\ [][Next]_phase
=============================================================================
