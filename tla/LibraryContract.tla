---------------------------- MODULE LibraryContract ----------------------------
(***************************************************************************)
(* What the library promises the owner of a finished download, with no     *)
(* files, passes or restarts in sight: it is in one place, goes from the   *)
(* cache to the library in a single step and never back, is lost only when *)
(* somebody asked for its removal, and does not come back.                 *)
(***************************************************************************)
CONSTANT Downloads
VARIABLE place \* "absent" | "cached" | "owed" (in the cache, meant for the library)
               \* | "kept" | "doomed" (to be removed: there or not) | "gone"

Init == place = [d \in Downloads |-> "absent"]

Move(d, from, to) ==
  /\ place[d] \in from
  /\ place' = [place EXCEPT ![d] = to]

Finish(d) == \E to \in {"cached", "owed"} : Move(d, {"absent"}, to)

Fail(d) == Move(d, {"absent"}, "gone")

Promote(d) == Move(d, {"cached", "owed"}, "kept")

Condemn(d) == Move(d, {"cached", "owed", "kept"}, "doomed")

Remove(d) == Move(d, {"doomed"}, "gone")

Next ==
  \E d \in Downloads : Finish(d) \/ Fail(d) \/ Promote(d) \/ Condemn(d) \/ Remove(d)

Spec == Init /\ [][Next]_place
=============================================================================
