-------------------------- MODULE VideoArchiveProofs --------------------------
(***************************************************************************)
(* Proofs about VideoArchive, for any number of rows, any subset of the    *)
(* checkers and any source of listings: the type invariant, that new       *)
(* subscriptions are future-only, and that what a check removes is dead    *)
(* unless it was started again while the check held it.                    *)
(*                                                                         *)
(* FutureOnly speaks of rows; what keeps them away is where the callers    *)
(* are: as long as nothing asked for the video nobody has got beyond the   *)
(* archive entry, and the entry is there (Kept).  OnlyDeadRowsDropped      *)
(* needs to know that a row a check has in hand is not active from the     *)
(* moment it was found (Dead), as only what is active gets a file.         *)
(***************************************************************************)
EXTENDS VideoArchive, TLAPS

(* The type invariant in three parts. *)
BaseType ==
  /\ era \in {"before", "after"} /\ public \in BOOLEAN /\ short \in BOOLEAN
  /\ seed \in {"pending", "done", "failed"} /\ arch \in Entries
  /\ row \in [Rows -> Statuses] /\ file \in [Rows -> BOOLEAN]
  /\ ending \in [Rows -> Endings]
  /\ pc \in [Callers -> Stages] /\ source \in [Callers -> {"rss", "flat", "feed"}]
  /\ found \in [Callers -> SUBSET Rows]
  /\ had \in BOOLEAN /\ asked \in BOOLEAN /\ revived \subseteq Callers

Files == \A r \in Rows : /\ file[r] => row[r] \in {"active", "completed"}
                         /\ ending[r] = "fail" => ~file[r] /\ row[r] # "completed"

InHand == \A c \in Callers :
            found[c] # {} <=> pc[c] \in {"probe", "dropArchive", "dropRow"}

(* While nothing asked for the back catalogue video. *)
Kept ==
  era = "before" /\ ~asked =>
    /\ \A r \in Rows : row[r] = "none" /\ ending[r] = "no"
    /\ \A c \in Callers : pc[c] \in {"idle", "archive", "download"}
    /\ \A c \in Callers : pc[c] = "download" => seed = "done"
    /\ seed = "done" => arch = "plain"
    /\ seed # "done" => arch = "none"

(* A row that a check has found is over, and stays so unless it is revived. *)
Dead ==
  \A c \in Callers \ revived : \A r \in found[c] :
    /\ row[r] # "active"
    /\ pc[c] \in {"dropArchive", "dropRow"} => ~file[r]

IInv == BaseType /\ Files /\ InHand /\ Kept /\ Dead

-----------------------------------------------------------------------------
LEMMA InitHolds == Init => IInv
<1> SUFFICES ASSUME Init PROVE IInv
  OBVIOUS
<1>1. BaseType
  BY DEF Init, BaseType, Entries, Statuses, Endings, Stages
<1>2. Files /\ InHand
  BY DEF Init, Files, InHand
<1>3. Kept /\ Dead
  BY DEF Init, Kept, Dead
<1>4. QED BY <1>1, <1>2, <1>3 DEF IInv

(* Every step keeps the types. *)
LEMMA NextBaseType ==
  ASSUME BaseType, [Next]_vars
  PROVE  BaseType'
<1>1. CASE Seed
  BY <1>1 DEF BaseType, Entries, Statuses, Endings, Stages, Seed, world,
       callVars
<1>2. CASE Premiere
  BY <1>2 DEF BaseType, Entries, Statuses, Endings, Stages, Premiere, dbVars,
       callVars
<1>3. CASE CooldownLapses
  BY <1>3 DEF BaseType, Entries, Statuses, Endings, Stages, CooldownLapses,
       world, callVars
<1>4. CASE Request
  BY <1>4 DEF BaseType, Entries, Statuses, Endings, Stages, Request, world,
       dbVars, Goto
<1>5. ASSUME NEW c \in Callers, Begin(c) PROVE BaseType'
  <2>1. PICK s \in Sources : source' = [source EXCEPT ![c] = s]
    BY <1>5 DEF Begin
  <2>2. source' \in [Callers -> {"rss", "flat", "feed"}]
    BY <2>1, SourcesAssumption DEF BaseType
  <2>3. pc' \in [Callers -> Stages]
    BY <1>5 DEF Begin, Goto, BaseType, Stages
  <2>4. QED BY <1>5, <2>2, <2>3 DEF BaseType, Begin, world, dbVars
<1>6. ASSUME NEW c \in Callers, ReadArchive(c) PROVE BaseType'
  BY <1>6 DEF BaseType, Entries, Statuses, Endings, Stages, ReadArchive,
       world, dbVars, Goto, Settle, Leave, LetGo
<1>7. ASSUME NEW c \in Callers, DropLapsed(c) PROVE BaseType'
  BY <1>7 DEF BaseType, Entries, Statuses, Endings, Stages, DropLapsed, world,
       Goto, Unarchive
<1>8. ASSUME NEW c \in Callers, FindCompleted(c) PROVE BaseType'
  BY <1>8 DEF BaseType, Entries, Statuses, Endings, Stages, FindCompleted,
       world, dbVars, Goto, Settle, Leave, LetGo, Reconsidered, With
<1>9. ASSUME NEW c \in Callers, ForgetSeed(c) PROVE BaseType'
  BY <1>9 DEF BaseType, Entries, Statuses, Endings, Stages, ForgetSeed, world,
       Goto, Unarchive
<1>10. ASSUME NEW c \in Callers, Probe(c) PROVE BaseType'
  BY <1>10 DEF BaseType, Entries, Statuses, Endings, Stages, Probe, world,
       dbVars, Goto, Leave, LetGo, Settle
<1>11. ASSUME NEW c \in Callers, DropArchive(c) PROVE BaseType'
  BY <1>11 DEF BaseType, Entries, Statuses, Endings, Stages, DropArchive,
       world, Goto, Leave, LetGo, Unarchive, Settle
<1>12. ASSUME NEW c \in Callers, DropRow(c) PROVE BaseType'
  BY <1>12 DEF BaseType, Entries, Statuses, Endings, Stages, DropRow, Gone,
       world, Goto, Leave, LetGo, Settle
<1>13. ASSUME NEW c \in Callers, FindExisting(c) PROVE BaseType'
  BY <1>13 DEF BaseType, Entries, Statuses, Endings, Stages, FindExisting,
       world, dbVars, Goto, Leave, LetGo, With, Settle
<1>14. ASSUME NEW c \in Callers, Offer(c) PROVE BaseType'
  BY <1>14 DEF BaseType, Entries, Statuses, Endings, Stages, Offer, world,
       dbVars, Goto, Leave, LetGo, With, Settle
<1>15. ASSUME NEW c \in Callers, Insert(c) PROVE BaseType'
  BY <1>15 DEF BaseType, Entries, Statuses, Endings, Stages, Insert, world,
       Leave, LetGo, Room, Goto, Settle, With, Named
<1>16. ASSUME NEW r \in Rows, Complete(r) PROVE BaseType'
  BY <1>16 DEF BaseType, Entries, Statuses, Endings, Stages, Complete, world,
       callVars
<1>17. ASSUME NEW r \in Rows, AddToArchive(r) PROVE BaseType'
  BY <1>17 DEF BaseType, Entries, Statuses, Endings, Stages, AddToArchive,
       world, callVars
<1>18. ASSUME NEW r \in Rows, FailArchive(r) PROVE BaseType'
  BY <1>18 DEF BaseType, Entries, Statuses, Endings, Stages, FailArchive,
       world, callVars
<1>19. ASSUME NEW r \in Rows, FailRow(r) PROVE BaseType'
  BY <1>19 DEF BaseType, Entries, Statuses, Endings, Stages, FailRow, world,
       callVars
<1>20. ASSUME NEW r \in Rows, Skip(r) PROVE BaseType'
  BY <1>20 DEF BaseType, Entries, Statuses, Endings, Stages, Skip, Gone,
       world, callVars
<1>21. ASSUME NEW r \in Rows, AutoDelete(r) PROVE BaseType'
  BY <1>21 DEF BaseType, Entries, Statuses, Endings, Stages, AutoDelete,
       world, callVars, Gone, Done
<1>22. ASSUME NEW r \in Rows, Evict(r) PROVE BaseType'
  BY <1>22 DEF BaseType, Entries, Statuses, Endings, Stages, Evict, world,
       callVars, Unarchive, Gone, Done
<1>23. ASSUME NEW r \in Rows, Reconcile(r) PROVE BaseType'
  BY <1>23 DEF BaseType, Entries, Statuses, Endings, Stages, Reconcile, world,
       callVars, Unarchive, Gone, Done
<1>24. ASSUME NEW r \in Rows, UserDelete(r) PROVE BaseType'
  BY <1>24 DEF BaseType, Entries, Statuses, Endings, Stages, UserDelete,
       world, callVars, Unarchive, Gone
<1>25. ASSUME NEW r \in Rows, Cancel(r) PROVE BaseType'
  BY <1>25 DEF BaseType, Entries, Statuses, Endings, Stages, Cancel, world,
       callVars, Gone
<1>26. ASSUME NEW r \in Rows, Retry(r) PROVE BaseType'
  <2>1. CASE Gone(r, "none") /\ UNCHANGED <<arch, had, revived>>
    BY <1>26, <2>1 DEF BaseType, Statuses, Retry, Gone, world
  <2>2. CASE Revive(r) /\ Unarchive
    BY <1>26, <2>2 DEF BaseType, Entries, Statuses, Retry, Revive, Unarchive,
         world
  <2>3. QED BY <1>26, <2>1, <2>2 DEF Retry
<1>27. ASSUME NEW r \in Rows, Rerun(r) PROVE BaseType'
  BY <1>27 DEF BaseType, Entries, Statuses, Endings, Stages, Rerun, Revive,
       world
<1>28. ASSUME NEW r \in Rows, LoseFile(r) PROVE BaseType'
  BY <1>28 DEF BaseType, Entries, Statuses, Endings, Stages, LoseFile, world,
       callVars, Done
<1>29. CASE UNCHANGED vars
  BY <1>29 DEF BaseType, Entries, Statuses, Endings, Stages, vars, world,
       dbVars, callVars
<1>30. QED BY <1>1, <1>2, <1>3, <1>4, <1>5, <1>6, <1>7, <1>8, <1>9, <1>10,
     <1>11, <1>12, <1>13, <1>14, <1>15, <1>16, <1>17, <1>18, <1>19, <1>20,
     <1>21, <1>22, <1>23, <1>24, <1>25, <1>26, <1>27, <1>28, <1>29 DEF Next,
     CallStep

(* A file goes before its row does. *)
LEMMA NextFiles ==
  ASSUME BaseType, Files, [Next]_vars
  PROVE  Files'
<1>1. CASE Seed
  BY <1>1 DEF BaseType, Files, Seed, world, callVars
<1>2. CASE Premiere
  BY <1>2 DEF BaseType, Files, Premiere, dbVars, callVars
<1>3. CASE CooldownLapses
  BY <1>3 DEF BaseType, Files, CooldownLapses, world, callVars
<1>4. CASE Request
  BY <1>4 DEF BaseType, Files, Request, world, dbVars, Goto
<1>5. ASSUME NEW c \in Callers, Begin(c) PROVE Files'
  BY <1>5 DEF BaseType, Files, Begin, world, dbVars, Goto
<1>6. ASSUME NEW c \in Callers, ReadArchive(c) PROVE Files'
  BY <1>6 DEF BaseType, Files, ReadArchive, world, dbVars, Goto, Settle,
       Leave, LetGo
<1>7. ASSUME NEW c \in Callers, DropLapsed(c) PROVE Files'
  BY <1>7 DEF BaseType, Files, DropLapsed, world, Goto, Unarchive
<1>8. ASSUME NEW c \in Callers, FindCompleted(c) PROVE Files'
  BY <1>8 DEF BaseType, Files, FindCompleted, world, dbVars, Goto, Settle,
       Leave, LetGo, Reconsidered, With
<1>9. ASSUME NEW c \in Callers, ForgetSeed(c) PROVE Files'
  BY <1>9 DEF BaseType, Files, ForgetSeed, world, Goto, Unarchive
<1>10. ASSUME NEW c \in Callers, Probe(c) PROVE Files'
  BY <1>10 DEF BaseType, Files, Probe, world, dbVars, Goto, Leave, LetGo,
       Settle
<1>11. ASSUME NEW c \in Callers, DropArchive(c) PROVE Files'
  BY <1>11 DEF BaseType, Files, DropArchive, world, Goto, Leave, LetGo,
       Unarchive, Settle
<1>12. ASSUME NEW c \in Callers, DropRow(c) PROVE Files'
  BY <1>12 DEF BaseType, Files, DropRow, Gone, world, Goto, Leave, LetGo,
       Settle
<1>13. ASSUME NEW c \in Callers, FindExisting(c) PROVE Files'
  BY <1>13 DEF BaseType, Files, FindExisting, world, dbVars, Goto, Leave,
       LetGo, With, Settle
<1>14. ASSUME NEW c \in Callers, Offer(c) PROVE Files'
  BY <1>14 DEF BaseType, Files, Offer, world, dbVars, Goto, Leave, LetGo,
       With, Settle
<1>15. ASSUME NEW c \in Callers, Insert(c) PROVE Files'
  BY <1>15 DEF BaseType, Files, Insert, world, Leave, LetGo, Room, Goto,
       Settle, With, Named
<1>16. ASSUME NEW r \in Rows, Complete(r) PROVE Files'
  BY <1>16 DEF BaseType, Files, Complete, world, callVars
<1>17. ASSUME NEW r \in Rows, AddToArchive(r) PROVE Files'
  BY <1>17 DEF BaseType, Files, AddToArchive, world, callVars
<1>18. ASSUME NEW r \in Rows, FailArchive(r) PROVE Files'
  BY <1>18 DEF BaseType, Files, FailArchive, world, callVars
<1>19. ASSUME NEW r \in Rows, FailRow(r) PROVE Files'
  BY <1>19 DEF BaseType, Files, FailRow, world, callVars
<1>20. ASSUME NEW r \in Rows, Skip(r) PROVE Files'
  BY <1>20 DEF BaseType, Files, Skip, Gone, world, callVars
<1>21. ASSUME NEW r \in Rows, AutoDelete(r) PROVE Files'
  BY <1>21 DEF BaseType, Files, AutoDelete, world, callVars, Gone, Done
<1>22. ASSUME NEW r \in Rows, Evict(r) PROVE Files'
  BY <1>22 DEF BaseType, Files, Evict, world, callVars, Unarchive, Gone, Done
<1>23. ASSUME NEW r \in Rows, Reconcile(r) PROVE Files'
  BY <1>23 DEF BaseType, Files, Reconcile, world, callVars, Unarchive, Gone,
       Done
<1>24. ASSUME NEW r \in Rows, UserDelete(r) PROVE Files'
  BY <1>24 DEF BaseType, Files, UserDelete, world, callVars, Unarchive, Gone
<1>25. ASSUME NEW r \in Rows, Cancel(r) PROVE Files'
  BY <1>25 DEF BaseType, Files, Cancel, world, callVars, Gone
<1>26. ASSUME NEW r \in Rows, Retry(r) PROVE Files'
  BY <1>26 DEF BaseType, Files, Retry, Revive, world, Unarchive, Gone, With
<1>27. ASSUME NEW r \in Rows, Rerun(r) PROVE Files'
  BY <1>27 DEF BaseType, Files, Rerun, Revive, world
<1>28. ASSUME NEW r \in Rows, LoseFile(r) PROVE Files'
  BY <1>28 DEF BaseType, Files, LoseFile, world, callVars, Done
<1>29. CASE UNCHANGED vars
  BY <1>29 DEF BaseType, Files, vars, world, dbVars, callVars
<1>30. QED BY <1>1, <1>2, <1>3, <1>4, <1>5, <1>6, <1>7, <1>8, <1>9, <1>10,
     <1>11, <1>12, <1>13, <1>14, <1>15, <1>16, <1>17, <1>18, <1>19, <1>20,
     <1>21, <1>22, <1>23, <1>24, <1>25, <1>26, <1>27, <1>28, <1>29 DEF Next,
     CallStep

(* A caller lets go of the row it found when it leaves. *)
LEMMA NextInHand ==
  ASSUME BaseType, InHand, [Next]_vars
  PROVE  InHand'
<1>1. CASE Seed
  BY <1>1 DEF BaseType, InHand, Seed, world, callVars
<1>2. CASE Premiere
  BY <1>2 DEF BaseType, InHand, Premiere, dbVars, callVars
<1>3. CASE CooldownLapses
  BY <1>3 DEF BaseType, InHand, CooldownLapses, world, callVars
<1>4. CASE Request
  BY <1>4 DEF BaseType, InHand, Request, world, dbVars, Goto
<1>5. ASSUME NEW c \in Callers, Begin(c) PROVE InHand'
  BY <1>5 DEF BaseType, InHand, Begin, world, dbVars, Goto
<1>6. ASSUME NEW c \in Callers, ReadArchive(c) PROVE InHand'
  BY <1>6 DEF BaseType, InHand, ReadArchive, world, dbVars, Goto, Settle,
       Leave, LetGo
<1>7. ASSUME NEW c \in Callers, DropLapsed(c) PROVE InHand'
  BY <1>7 DEF BaseType, InHand, DropLapsed, world, Goto, Unarchive
<1>8. ASSUME NEW c \in Callers, FindCompleted(c) PROVE InHand'
  BY <1>8 DEF BaseType, InHand, FindCompleted, world, dbVars, Goto, Settle,
       Leave, LetGo, Reconsidered, With
<1>9. ASSUME NEW c \in Callers, ForgetSeed(c) PROVE InHand'
  BY <1>9 DEF BaseType, InHand, ForgetSeed, world, Goto, Unarchive
<1>10. ASSUME NEW c \in Callers, Probe(c) PROVE InHand'
  BY <1>10 DEF BaseType, InHand, Probe, world, dbVars, Goto, Leave, LetGo,
       Settle
<1>11. ASSUME NEW c \in Callers, DropArchive(c) PROVE InHand'
  BY <1>11 DEF BaseType, InHand, DropArchive, world, Goto, Leave, LetGo,
       Unarchive, Settle
<1>12. ASSUME NEW c \in Callers, DropRow(c) PROVE InHand'
  BY <1>12 DEF BaseType, InHand, DropRow, Gone, world, Goto, Leave, LetGo,
       Settle
<1>13. ASSUME NEW c \in Callers, FindExisting(c) PROVE InHand'
  BY <1>13 DEF BaseType, InHand, FindExisting, world, dbVars, Goto, Leave,
       LetGo, With, Settle
<1>14. ASSUME NEW c \in Callers, Offer(c) PROVE InHand'
  BY <1>14 DEF BaseType, InHand, Offer, world, dbVars, Goto, Leave, LetGo,
       With, Settle
<1>15. ASSUME NEW c \in Callers, Insert(c) PROVE InHand'
  BY <1>15 DEF BaseType, InHand, Insert, world, Leave, LetGo, Room, Goto,
       Settle, With, Named
<1>16. ASSUME NEW r \in Rows, Complete(r) PROVE InHand'
  BY <1>16 DEF BaseType, InHand, Complete, world, callVars
<1>17. ASSUME NEW r \in Rows, AddToArchive(r) PROVE InHand'
  BY <1>17 DEF BaseType, InHand, AddToArchive, world, callVars
<1>18. ASSUME NEW r \in Rows, FailArchive(r) PROVE InHand'
  BY <1>18 DEF BaseType, InHand, FailArchive, world, callVars
<1>19. ASSUME NEW r \in Rows, FailRow(r) PROVE InHand'
  BY <1>19 DEF BaseType, InHand, FailRow, world, callVars
<1>20. ASSUME NEW r \in Rows, Skip(r) PROVE InHand'
  BY <1>20 DEF BaseType, InHand, Skip, Gone, world, callVars
<1>21. ASSUME NEW r \in Rows, AutoDelete(r) PROVE InHand'
  BY <1>21 DEF BaseType, InHand, AutoDelete, world, callVars, Gone, Done
<1>22. ASSUME NEW r \in Rows, Evict(r) PROVE InHand'
  BY <1>22 DEF BaseType, InHand, Evict, world, callVars, Unarchive, Gone, Done
<1>23. ASSUME NEW r \in Rows, Reconcile(r) PROVE InHand'
  BY <1>23 DEF BaseType, InHand, Reconcile, world, callVars, Unarchive, Gone,
       Done
<1>24. ASSUME NEW r \in Rows, UserDelete(r) PROVE InHand'
  BY <1>24 DEF BaseType, InHand, UserDelete, world, callVars, Unarchive, Gone
<1>25. ASSUME NEW r \in Rows, Cancel(r) PROVE InHand'
  BY <1>25 DEF BaseType, InHand, Cancel, world, callVars, Gone
<1>26. ASSUME NEW r \in Rows, Retry(r) PROVE InHand'
  BY <1>26 DEF BaseType, InHand, Retry, Revive, world, Unarchive, Gone, With
<1>27. ASSUME NEW r \in Rows, Rerun(r) PROVE InHand'
  BY <1>27 DEF BaseType, InHand, Rerun, Revive, world
<1>28. ASSUME NEW r \in Rows, LoseFile(r) PROVE InHand'
  BY <1>28 DEF BaseType, InHand, LoseFile, world, callVars, Done
<1>29. CASE UNCHANGED vars
  BY <1>29 DEF BaseType, InHand, vars, world, dbVars, callVars
<1>30. QED BY <1>1, <1>2, <1>3, <1>4, <1>5, <1>6, <1>7, <1>8, <1>9, <1>10,
     <1>11, <1>12, <1>13, <1>14, <1>15, <1>16, <1>17, <1>18, <1>19, <1>20,
     <1>21, <1>22, <1>23, <1>24, <1>25, <1>26, <1>27, <1>28, <1>29 DEF Next,
     CallStep

(* Nobody gets past the entry of a seeded video unasked. *)
LEMMA NextKept ==
  ASSUME BaseType, Files, Kept, [Next]_vars
  PROVE  Kept'
<1>1. CASE Seed
  BY <1>1 DEF BaseType, Files, Kept, Seed, world, callVars
<1>2. CASE Premiere
  BY <1>2 DEF BaseType, Files, Kept, Premiere, dbVars, callVars
<1>3. CASE CooldownLapses
  BY <1>3 DEF BaseType, Files, Kept, CooldownLapses, world, callVars
<1>4. CASE Request
  BY <1>4 DEF BaseType, Files, Kept, Request, world, dbVars, Goto
<1>5. ASSUME NEW c \in Callers, Begin(c) PROVE Kept'
  BY <1>5 DEF BaseType, Files, Kept, Begin, world, dbVars, Goto
<1>6. ASSUME NEW c \in Callers, ReadArchive(c) PROVE Kept'
  <2> SUFFICES ASSUME era = "before", ~asked, seed = "done" PROVE Kept'
    BY <1>6 DEF Kept, ReadArchive, world, dbVars
  <2>1. arch = "plain" /\ pc[c] = "archive"
    BY <1>6 DEF Kept, ReadArchive
  <2>2. pc' = [pc EXCEPT ![c] = "download"] /\ UNCHANGED <<source, found>>
    BY <1>6, <2>1 DEF ReadArchive, Goto
  <2>3. QED BY <1>6, <2>1, <2>2 DEF ReadArchive, BaseType, Kept, world, dbVars
<1>7. ASSUME NEW c \in Callers, DropLapsed(c) PROVE Kept'
  BY <1>7 DEF BaseType, Files, Kept, DropLapsed, world, Goto, Unarchive
<1>8. ASSUME NEW c \in Callers, FindCompleted(c) PROVE Kept'
  BY <1>8 DEF BaseType, Files, Kept, FindCompleted, world, dbVars, Goto,
       Settle, Leave, LetGo, Reconsidered, With
<1>9. ASSUME NEW c \in Callers, ForgetSeed(c) PROVE Kept'
  BY <1>9 DEF BaseType, Files, Kept, ForgetSeed, world, Goto, Unarchive
<1>10. ASSUME NEW c \in Callers, Probe(c) PROVE Kept'
  BY <1>10 DEF BaseType, Files, Kept, Probe, world, dbVars, Goto, Leave,
       LetGo, Settle
<1>11. ASSUME NEW c \in Callers, DropArchive(c) PROVE Kept'
  BY <1>11 DEF BaseType, Files, Kept, DropArchive, world, Goto, Leave, LetGo,
       Unarchive, Settle
<1>12. ASSUME NEW c \in Callers, DropRow(c) PROVE Kept'
  BY <1>12 DEF BaseType, Files, Kept, DropRow, Gone, world, Goto, Leave,
       LetGo, Settle
<1>13. ASSUME NEW c \in Callers, FindExisting(c) PROVE Kept'
  BY <1>13 DEF BaseType, Files, Kept, FindExisting, world, dbVars, Goto,
       Leave, LetGo, With, Settle
<1>14. ASSUME NEW c \in Callers, Offer(c) PROVE Kept'
  BY <1>14 DEF BaseType, Files, Kept, Offer, world, dbVars, Goto, Leave,
       LetGo, With, Settle
<1>15. ASSUME NEW c \in Callers, Insert(c) PROVE Kept'
  BY <1>15 DEF BaseType, Files, Kept, Insert, world, Leave, LetGo, Room, Goto,
       Settle, With, Named
<1>16. ASSUME NEW r \in Rows, Complete(r) PROVE Kept'
  BY <1>16 DEF BaseType, Files, Kept, Complete, world, callVars
<1>17. ASSUME NEW r \in Rows, AddToArchive(r) PROVE Kept'
  BY <1>17 DEF BaseType, Files, Kept, AddToArchive, world, callVars
<1>18. ASSUME NEW r \in Rows, FailArchive(r) PROVE Kept'
  BY <1>18 DEF BaseType, Files, Kept, FailArchive, world, callVars
<1>19. ASSUME NEW r \in Rows, FailRow(r) PROVE Kept'
  BY <1>19 DEF BaseType, Files, Kept, FailRow, world, callVars
<1>20. ASSUME NEW r \in Rows, Skip(r) PROVE Kept'
  BY <1>20 DEF BaseType, Files, Kept, Skip, Gone, world, callVars
<1>21. ASSUME NEW r \in Rows, AutoDelete(r) PROVE Kept'
  BY <1>21 DEF BaseType, Files, Kept, AutoDelete, world, callVars, Gone, Done
<1>22. ASSUME NEW r \in Rows, Evict(r) PROVE Kept'
  BY <1>22 DEF BaseType, Files, Kept, Evict, world, callVars, Unarchive, Gone,
       Done
<1>23. ASSUME NEW r \in Rows, Reconcile(r) PROVE Kept'
  BY <1>23 DEF BaseType, Files, Kept, Reconcile, world, callVars, Unarchive,
       Gone, Done
<1>24. ASSUME NEW r \in Rows, UserDelete(r) PROVE Kept'
  BY <1>24 DEF BaseType, Files, Kept, UserDelete, world, callVars, Unarchive,
       Gone
<1>25. ASSUME NEW r \in Rows, Cancel(r) PROVE Kept'
  BY <1>25 DEF BaseType, Files, Kept, Cancel, world, callVars, Gone
<1>26. ASSUME NEW r \in Rows, Retry(r) PROVE Kept'
  BY <1>26 DEF BaseType, Files, Kept, Retry, Revive, world, Unarchive, Gone,
       With
<1>27. ASSUME NEW r \in Rows, Rerun(r) PROVE Kept'
  BY <1>27 DEF BaseType, Files, Kept, Rerun, Revive, world
<1>28. ASSUME NEW r \in Rows, LoseFile(r) PROVE Kept'
  BY <1>28 DEF BaseType, Files, Kept, LoseFile, world, callVars, Done
<1>29. CASE UNCHANGED vars
  BY <1>29 DEF BaseType, Files, Kept, vars, world, dbVars, callVars
<1>30. QED BY <1>1, <1>2, <1>3, <1>4, <1>5, <1>6, <1>7, <1>8, <1>9, <1>10,
     <1>11, <1>12, <1>13, <1>14, <1>15, <1>16, <1>17, <1>18, <1>19, <1>20,
     <1>21, <1>22, <1>23, <1>24, <1>25, <1>26, <1>27, <1>28, <1>29 DEF Next,
     CallStep

(* What is made active is not in a check's hands. *)
LEMMA NextDead ==
  ASSUME BaseType, Files, InHand, Dead, [Next]_vars
  PROVE  Dead'
<1>1. CASE Seed
  BY <1>1 DEF BaseType, Files, InHand, Dead, Seed, world, callVars
<1>2. CASE Premiere
  BY <1>2 DEF BaseType, Files, InHand, Dead, Premiere, dbVars, callVars
<1>3. CASE CooldownLapses
  BY <1>3 DEF BaseType, Files, InHand, Dead, CooldownLapses, world, callVars
<1>4. CASE Request
  BY <1>4 DEF BaseType, Files, InHand, Dead, Request, world, dbVars, Goto
<1>5. ASSUME NEW c \in Callers, Begin(c) PROVE Dead'
  BY <1>5 DEF BaseType, Files, InHand, Dead, Begin, world, dbVars, Goto
<1>6. ASSUME NEW c \in Callers, ReadArchive(c) PROVE Dead'
  BY <1>6 DEF BaseType, Files, InHand, Dead, ReadArchive, world, dbVars, Goto,
       Settle, Leave, LetGo
<1>7. ASSUME NEW c \in Callers, DropLapsed(c) PROVE Dead'
  BY <1>7 DEF BaseType, Files, InHand, Dead, DropLapsed, world, Goto,
       Unarchive
<1>8. ASSUME NEW c \in Callers, FindCompleted(c) PROVE Dead'
  BY <1>8 DEF BaseType, Files, InHand, Dead, FindCompleted, world, dbVars,
       Goto, Settle, Leave, LetGo, Reconsidered, With
<1>9. ASSUME NEW c \in Callers, ForgetSeed(c) PROVE Dead'
  BY <1>9 DEF BaseType, Files, InHand, Dead, ForgetSeed, world, Goto,
       Unarchive
<1>10. ASSUME NEW c \in Callers, Probe(c) PROVE Dead'
  BY <1>10 DEF BaseType, Files, InHand, Dead, Probe, world, dbVars, Goto,
       Leave, LetGo, Settle
<1>11. ASSUME NEW c \in Callers, DropArchive(c) PROVE Dead'
  BY <1>11 DEF BaseType, Files, InHand, Dead, DropArchive, world, Goto, Leave,
       LetGo, Unarchive, Settle
<1>12. ASSUME NEW c \in Callers, DropRow(c) PROVE Dead'
  BY <1>12 DEF BaseType, Files, InHand, Dead, DropRow, Gone, world, Goto,
       Leave, LetGo, Settle
<1>13. ASSUME NEW c \in Callers, FindExisting(c) PROVE Dead'
  BY <1>13 DEF BaseType, Files, InHand, Dead, FindExisting, world, dbVars,
       Goto, Leave, LetGo, With, Settle
<1>14. ASSUME NEW c \in Callers, Offer(c) PROVE Dead'
  BY <1>14 DEF BaseType, Files, InHand, Dead, Offer, world, dbVars, Goto,
       Leave, LetGo, With, Settle
<1>15. ASSUME NEW c \in Callers, Insert(c) PROVE Dead'
  BY <1>15 DEF BaseType, Files, InHand, Dead, Insert, world, Leave, LetGo,
       Room, Goto, Settle, With, Named
<1>16. ASSUME NEW r \in Rows, Complete(r) PROVE Dead'
  BY <1>16 DEF BaseType, Files, InHand, Dead, Complete, world, callVars
<1>17. ASSUME NEW r \in Rows, AddToArchive(r) PROVE Dead'
  BY <1>17 DEF BaseType, Files, InHand, Dead, AddToArchive, world, callVars
<1>18. ASSUME NEW r \in Rows, FailArchive(r) PROVE Dead'
  BY <1>18 DEF BaseType, Files, InHand, Dead, FailArchive, world, callVars
<1>19. ASSUME NEW r \in Rows, FailRow(r) PROVE Dead'
  BY <1>19 DEF BaseType, Files, InHand, Dead, FailRow, world, callVars
<1>20. ASSUME NEW r \in Rows, Skip(r) PROVE Dead'
  BY <1>20 DEF BaseType, Files, InHand, Dead, Skip, Gone, world, callVars
<1>21. ASSUME NEW r \in Rows, AutoDelete(r) PROVE Dead'
  BY <1>21 DEF BaseType, Files, InHand, Dead, AutoDelete, world, callVars,
       Gone, Done
<1>22. ASSUME NEW r \in Rows, Evict(r) PROVE Dead'
  BY <1>22 DEF BaseType, Files, InHand, Dead, Evict, world, callVars,
       Unarchive, Gone, Done
<1>23. ASSUME NEW r \in Rows, Reconcile(r) PROVE Dead'
  BY <1>23 DEF BaseType, Files, InHand, Dead, Reconcile, world, callVars,
       Unarchive, Gone, Done
<1>24. ASSUME NEW r \in Rows, UserDelete(r) PROVE Dead'
  BY <1>24 DEF BaseType, Files, InHand, Dead, UserDelete, world, callVars,
       Unarchive, Gone
<1>25. ASSUME NEW r \in Rows, Cancel(r) PROVE Dead'
  BY <1>25 DEF BaseType, Files, InHand, Dead, Cancel, world, callVars, Gone
<1>26. ASSUME NEW r \in Rows, Retry(r) PROVE Dead'
  BY <1>26 DEF BaseType, Files, InHand, Dead, Retry, Revive, world, Unarchive,
       Gone, With
<1>27. ASSUME NEW r \in Rows, Rerun(r) PROVE Dead'
  BY <1>27 DEF BaseType, Files, InHand, Dead, Rerun, Revive, world
<1>28. ASSUME NEW r \in Rows, LoseFile(r) PROVE Dead'
  BY <1>28 DEF BaseType, Files, InHand, Dead, LoseFile, world, callVars, Done
<1>29. CASE UNCHANGED vars
  BY <1>29 DEF BaseType, Files, InHand, Dead, vars, world, dbVars, callVars
<1>30. QED BY <1>1, <1>2, <1>3, <1>4, <1>5, <1>6, <1>7, <1>8, <1>9, <1>10,
     <1>11, <1>12, <1>13, <1>14, <1>15, <1>16, <1>17, <1>18, <1>19, <1>20,
     <1>21, <1>22, <1>23, <1>24, <1>25, <1>26, <1>27, <1>28, <1>29 DEF Next,
     CallStep

LEMMA IInvHolds == Spec => []IInv
<1>1. IInv /\ [Next]_vars => IInv'
  BY NextBaseType, NextFiles, NextInHand, NextKept, NextDead DEF IInv
<1>2. QED BY <1>1, InitHolds, PTL DEF Spec

(* The types of VideoArchive hold for any constants. *)
THEOREM TypeOKHolds == Spec => []TypeOK
<1>1. IInv => TypeOK
  BY DEF IInv, BaseType, Files, InHand, TypeOK
<1>2. QED BY <1>1, IInvHolds, PTL

(* New subscriptions are future-only (subscription.service.ts:740), for any
   number of checks and backfills at once. *)
THEOREM FutureOnlyHolds == Spec => []FutureOnly
<1>1. IInv => FutureOnly
  BY DEF IInv, Kept, FutureOnly
<1>2. QED BY <1>1, IInvHolds, PTL

(* Between finding a file missing and deleting its row a check never gets hold
   of a running download or one that has its file
   (subscription.service.ts:892-904), unless that row was started again since
   the check found it. *)
THEOREM OnlyDeadRowsDroppedHolds == Spec => []OnlyDeadRowsDropped
<1>1. IInv => OnlyDeadRowsDropped
  BY DEF IInv, BaseType, Dead, OnlyDeadRowsDropped
<1>2. QED BY <1>1, IInvHolds, PTL
=============================================================================
