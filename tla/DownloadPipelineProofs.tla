---------------------- MODULE DownloadPipelineProofs ----------------------
(***************************************************************************)
(* What is proved about DownloadPipeline, for any number of jobs, retries  *)
(* and restarts: the types, that an active download is always driven by    *)
(* something, and that at most one process writes its file.                *)
(*                                                                         *)
(* Neither of the last two is inductive.  A job that is past its last      *)
(* write and still to be closed drives nothing, although an enqueue finds  *)
(* it and adds no other; so Driven counts the busy jobs only, and holds if *)
(* timers and requests come after that write (Patient).  Two processes     *)
(* could come from two busy jobs; OnePipeline says that there is one, and  *)
(* none while a start is under way, which a restart between the enqueue of *)
(* phase 2 and the end of phase 1 would break (Orderly).                   *)
(***************************************************************************)
EXTENDS DownloadPipeline, FiniteSetTheorems, TLAPS

(* The types in four parts: the row and its file, the jobs with their
   processes, what else is under way, and the flags. *)
RowType ==
  /\ status \in Active \cup Settled \cup {"NONE"}
  /\ retries \in 0 .. MaxRetries /\ seen \in 0 .. MaxRetries
  /\ file \in {"none", "partial", "full"}

Places ==
  {"idle", "metaRead", "metaMark", "metaFetch", "metaStore", "metaNext", "read",
   "mark", "prepare", "spawn", "wait", "complete", "error", "errorRead",
   "errorRetry", "errorClean", "errorFail", "close"}

JobType ==
  /\ job \in [Job -> JobRows \cup {Free}] /\ pc \in [Job -> Places]
  /\ proc \in [Job -> {"none", "running", "dying", "dead"}]
  /\ active \in Job \cup {0}

CallType ==
  /\ starting \in Nat /\ retryPc \in [Retriers -> {"idle", "reset", "check"}]
  /\ cancelPc \in {"idle", "kill", "clean", "write", "drop"}
  /\ bootPc \in {"reset", "resume", "start", "up"}
  /\ crashes \in Nat

FlagType ==
  /\ captured \in BOOLEAN /\ handling \in BOOLEAN /\ timer \in BOOLEAN
  /\ cancelled \in BOOLEAN /\ deleting \in BOOLEAN /\ died \in BOOLEAN

(* One error handler at a time, and it retries with a count below the limit. *)
Mending(j) == pc[j] \in {"errorRead", "errorRetry", "errorClean", "errorFail"}

OneMender ==
  /\ handling <=> \E j \in Job : Mending(j)
  /\ \A i, j \in Job : Mending(i) /\ Mending(j) => i = j
  /\ \A j \in Job : pc[j] = "errorRetry" => seen < MaxRetries

(* Where a handler is, there is its row; a registered process is waited for;
   the mark of a cancellation goes no later than the cancellation. *)
Owned ==
  /\ \A j \in Job : pc[j] # "idle" => job[j] # Free
  /\ active # 0 => pc[active] = "wait"
  /\ cancelled => cancelPc \in {"kill", "clean", "write"}

(* A process that boots has nothing from before in memory; once it has reset
   the rows an active one is PENDING. *)
Booting ==
  bootPc # "up" =>
    /\ \A j \in Job : pc[j] = "idle" /\ proc[j] = "none"
    /\ cancelPc = "idle" /\ ~timer
    /\ \A r \in Retriers : retryPc[r] = "idle"
    /\ bootPc \in {"reset", "resume"} => starting = 0
    /\ bootPc \in {"resume", "start"} => status \notin Active \ {"PENDING"}

(* A stalled process has ended when its handler goes on. *)
NoStray == "exit" \in Prompt \/ ~MayStall
WriterAwaited == NoStray => \A j \in Job : Alive(j) => pc[j] = "wait"

(* A job that has still something to do for the download. *)
Busy(j) == job[j] # Free /\ pc[j] # "close"

Driven ==
  status \in Active =>
    \/ \E j \in Job : Busy(j)
    \/ timer \/ starting > 0 \/ bootPc \in {"reset", "resume"} \/ cancelPc # "idle"
    \/ \E r \in Retriers : retryPc[r] = "check"

(* What is needed for Driven: neither a timer nor a retry takes the last write
   of a handler that is over for a pipeline. *)
Patient == {"timer", "request"} \subseteq Prompt /\ NoStray

(* One pipeline: no job while a start is under way, and one busy job.  It
   ends with the process that dies of an unhandled rejection, which leaves
   no row, and nothing is spawned without. *)
Spawning == {"mark", "prepare", "spawn", "wait"}

OnePipeline ==
  /\ died => status = "GONE" /\ \A j \in Job : pc[j] \notin Spawning
  /\ ~died => /\ starting \in {0, 1}
              /\ starting = 1 => ~HasPipeline
              /\ \A i, j \in Job : Busy(i) /\ Busy(j) => i = j
  /\ status = "NONE" =>
       /\ starting = 0 /\ ~HasPipeline /\ ~timer
       /\ \A r \in Retriers : retryPc[r] = "idle"

(* What is needed for OnePipeline: besides, no restart cuts a hand-over in two. *)
Orderly == Patient /\ ("restart" \in Prompt \/ MaxCrashes = 0)

(* The inductive invariant; Driven and OnePipeline are inductive beside it. *)
IInv == TypeOK /\ OneMender /\ Owned /\ Booting /\ WriterAwaited

-----------------------------------------------------------------------------
(* Bounds are numbers, and 0, for no job, is none. *)
LEMMA Constants == /\ MaxJobs \in Nat \ {0} /\ MaxRetries \in Nat
                   /\ MaxCrashes \in Nat /\ 0 \notin Job
BY BoundAssumption DEF Job

(* Before the first request nothing is there, and the invariant holds. *)
LEMMA InitHolds == Init => IInv
<1> SUFFICES ASSUME Init PROVE IInv
  OBVIOUS
<1>1. TypeOK
  <2>1. RowType
    BY Constants DEF Init, RowType
  <2>2. JobType
    BY DEF Init, JobType, Places
  <2>3. CallType
    BY DEF Init, CallType
  <2>4. FlagType
    BY DEF Init, FlagType
  <2>5. QED BY <2>1, <2>2, <2>3, <2>4 DEF TypeOK, RowType, JobType, CallType,
       FlagType, Places
<1>2. OneMender /\ Owned /\ Booting /\ WriterAwaited
  BY DEF Init, OneMender, Mending, Owned, Booting, WriterAwaited, Alive
<1>3. QED BY <1>1, <1>2 DEF IInv

(* A row of the table is of one of two types, and pending or running. *)
LEMMA JobRowFields ==
  /\ \A x \in JobRows : Pending(x[1]) \in JobRows
  /\ \A x \in JobRows : x # Free
  /\ \A t \in {"metadata", "download"} : Pending(t) # Free /\ Running(t) # Free
BY DEF JobRows, Pending, Running, Free

(* Every step keeps the types; a retry counts up from below the limit. *)
LEMMA NextType ==
  ASSUME TypeOK, OneMender, [Next]_vars
  PROVE  TypeOK'
<1>1. CASE Crash
  <2>1. RowType'
    BY <1>1, Constants DEF TypeOK, RowType, Crash, FreshMemory, rowVars
  <2>2. JobType'
    BY <1>1 DEF TypeOK, JobType, Places, Crash, FreshMemory
  <2>3. CallType'
    BY <1>1 DEF TypeOK, CallType, Crash, FreshMemory
  <2>4. FlagType'
    BY <1>1 DEF TypeOK, FlagType, Crash, FreshMemory, rowVars
  <2>5. QED BY <2>1, <2>2, <2>3, <2>4 DEF TypeOK, RowType, JobType, CallType,
       FlagType, Places
<1>2. CASE BootReset
  BY <1>2 DEF TypeOK, Active, BootReset, jobVars, procVars, errorVars,
       startVars, cancelVars
<1>3. CASE BootResume
  BY <1>3 DEF TypeOK, BootResume, rowVars, jobVars, procVars, errorVars,
       cancelVars
<1>4. CASE BootStart
  <2>1. RowType'
    BY <1>4 DEF TypeOK, RowType, BootStart, rowVars, procVars, errorVars
  <2>2. JobType'
    BY <1>4, JobRowFields DEF TypeOK, JobType, Places, BootStart, procVars
  <2>3. CallType'
    BY <1>4 DEF TypeOK, CallType, BootStart, startVars, cancelVars
  <2>4. FlagType'
    BY <1>4 DEF TypeOK, FlagType, BootStart, rowVars, errorVars, cancelVars
  <2>5. QED BY <2>1, <2>2, <2>3, <2>4 DEF TypeOK, RowType, JobType, CallType,
       FlagType, Places
<1>5. CASE Create
  BY <1>5 DEF TypeOK, Active, Create, jobVars, procVars, errorVars, cancelVars,
       sysVars
<1>6. CASE StartEnqueue
  BY <1>6 DEF TypeOK, JobRows, StartEnqueue, Enqueue, rowVars, procVars,
       errorVars, cancelVars, sysVars
<1>7. CASE RetryFires
  <2>1. RowType'
    BY <1>7 DEF TypeOK, RowType, RetryFires, rowVars, procVars
  <2>2. JobType'
    BY <1>7 DEF TypeOK, JobType, Places, RetryFires, jobVars, procVars
  <2>3. CallType'
    BY <1>7 DEF TypeOK, CallType, RetryFires, cancelVars, sysVars
  <2>4. FlagType'
    BY <1>7 DEF TypeOK, FlagType, RetryFires, rowVars, cancelVars, sysVars
  <2>5. QED BY <2>1, <2>2, <2>3, <2>4 DEF TypeOK, RowType, JobType, CallType,
       FlagType, Places
<1>8. ASSUME NEW j \in Job, Claim(j) PROVE TypeOK'
  BY <1>8 DEF TypeOK, JobRows, Claim, Goto, rowVars, procVars, errorVars,
       startVars, cancelVars, sysVars
<1>9. ASSUME NEW j \in Job, Close(j) PROVE TypeOK'
  BY <1>9 DEF TypeOK, Close, Goto, rowVars, procVars, errorVars, startVars,
       cancelVars, sysVars
<1>10. ASSUME NEW j \in Job, MetaRead(j) PROVE TypeOK'
  BY <1>10 DEF TypeOK, MetaRead, Goto, rowVars, procVars, errorVars, startVars,
       cancelVars, sysVars
<1>11. ASSUME NEW j \in Job, MetaMark(j) PROVE TypeOK'
  BY <1>11 DEF TypeOK, Active, MetaMark, Goto, procVars, errorVars, startVars,
       cancelVars, sysVars
<1>12. ASSUME NEW j \in Job, MetaFetch(j) PROVE TypeOK'
  <2>1. RowType'
    BY <1>12, Constants DEF TypeOK, Settled, RowType, MetaFetch, rowVars,
         DropRow, procVars, errorVars
  <2>2. JobType'
    BY <1>12 DEF TypeOK, JobType, Places, MetaFetch, Goto, procVars
  <2>3. CallType'
    BY <1>12 DEF TypeOK, CallType, MetaFetch, startVars, cancelVars, sysVars
  <2>4. FlagType'
    BY <1>12 DEF TypeOK, FlagType, MetaFetch, rowVars, DropRow, errorVars,
         cancelVars, sysVars
  <2>5. QED BY <2>1, <2>2, <2>3, <2>4 DEF TypeOK, RowType, JobType, CallType,
       FlagType, Places
<1>13. ASSUME NEW j \in Job, MetaStore(j) PROVE TypeOK'
  BY <1>13 DEF TypeOK, MetaStore, Goto, rowVars, procVars, errorVars,
       startVars, cancelVars, sysVars
<1>14. ASSUME NEW j \in Job, MetaNext(j) PROVE TypeOK'
  BY <1>14 DEF TypeOK, JobRows, MetaNext, Goto, Enqueue, rowVars, procVars,
       errorVars, startVars, cancelVars, sysVars
<1>15. ASSUME NEW j \in Job, DownloadRead(j) PROVE TypeOK'
  BY <1>15 DEF TypeOK, DownloadRead, Goto, rowVars, procVars, errorVars,
       startVars, cancelVars, sysVars
<1>16. ASSUME NEW j \in Job, DownloadMark(j) PROVE TypeOK'
  BY <1>16 DEF TypeOK, Active, DownloadMark, Goto, procVars, errorVars,
       startVars, cancelVars, sysVars
<1>17. ASSUME NEW j \in Job, Prepare(j) PROVE TypeOK'
  BY <1>17 DEF TypeOK, Prepare, Goto, rowVars, procVars, errorVars, startVars,
       cancelVars, sysVars
<1>18. ASSUME NEW j \in Job, Spawn(j) PROVE TypeOK'
  BY <1>18 DEF TypeOK, Spawn, Goto, rowVars, errorVars, startVars, cancelVars,
       sysVars
<1>19. ASSUME NEW j \in Job, Progress(j) PROVE TypeOK'
  <2>1. RowType'
    BY <1>19 DEF TypeOK, Active, RowType, Progress, procVars, errorVars
  <2>2. JobType'
    BY <1>19 DEF TypeOK, JobType, Places, Progress, jobVars, procVars
  <2>3. CallType'
    BY <1>19 DEF TypeOK, CallType, Progress, startVars, cancelVars, sysVars
  <2>4. FlagType'
    BY <1>19 DEF TypeOK, FlagType, Progress, errorVars, cancelVars, sysVars
  <2>5. QED BY <2>1, <2>2, <2>3, <2>4 DEF TypeOK, RowType, JobType, CallType,
       FlagType, Places
<1>20. ASSUME NEW j \in Job, ProgressLost(j) PROVE TypeOK'
  <2>1. RowType'
    BY <1>20, Constants DEF TypeOK, RowType, ProgressLost, Die, FreshMemory,
         rowVars
  <2>2. JobType'
    BY <1>20 DEF TypeOK, JobType, Places, ProgressLost, Die, FreshMemory
  <2>3. CallType'
    BY <1>20 DEF TypeOK, CallType, ProgressLost, Die, FreshMemory
  <2>4. FlagType'
    BY <1>20 DEF TypeOK, FlagType, ProgressLost, Die, FreshMemory, rowVars
  <2>5. QED BY <2>1, <2>2, <2>3, <2>4 DEF TypeOK, RowType, JobType, CallType,
       FlagType, Places
<1>21. ASSUME NEW j \in Job, Stall(j) PROVE TypeOK'
  BY <1>21 DEF TypeOK, Stall, Goto, rowVars, errorVars, startVars, cancelVars,
       sysVars
<1>22. ASSUME NEW j \in Job, Exit(j) PROVE TypeOK'
  BY <1>22 DEF TypeOK, Exit, Goto, AfterExit, rowVars, errorVars, startVars,
       cancelVars, sysVars
<1>23. ASSUME NEW j \in Job, Complete(j) PROVE TypeOK'
  BY <1>23 DEF TypeOK, Settled, Complete, Goto, procVars, errorVars, startVars,
       cancelVars, sysVars
<1>24. ASSUME NEW j \in Job, CompleteLost(j) PROVE TypeOK'
  <2>1. RowType'
    BY <1>24, Constants DEF TypeOK, RowType, CompleteLost, Die, FreshMemory,
         rowVars
  <2>2. JobType'
    BY <1>24 DEF TypeOK, JobType, Places, CompleteLost, Die, FreshMemory
  <2>3. CallType'
    BY <1>24 DEF TypeOK, CallType, CompleteLost, Die, FreshMemory
  <2>4. FlagType'
    BY <1>24 DEF TypeOK, FlagType, CompleteLost, Die, FreshMemory, rowVars
  <2>5. QED BY <2>1, <2>2, <2>3, <2>4 DEF TypeOK, RowType, JobType, CallType,
       FlagType, Places
<1>25. ASSUME NEW j \in Job, ErrorGuard(j) PROVE TypeOK'
  <2>1. RowType'
    BY <1>25 DEF TypeOK, RowType, ErrorGuard, rowVars, procVars
  <2>2. JobType'
    BY <1>25 DEF TypeOK, JobType, Places, ErrorGuard, Goto, procVars
  <2>3. CallType'
    BY <1>25 DEF TypeOK, CallType, ErrorGuard, startVars, cancelVars, sysVars
  <2>4. FlagType'
    BY <1>25 DEF TypeOK, FlagType, ErrorGuard, rowVars, cancelVars, sysVars
  <2>5. QED BY <2>1, <2>2, <2>3, <2>4 DEF TypeOK, RowType, JobType, CallType,
       FlagType, Places
<1>26. ASSUME NEW j \in Job, ErrorRead(j) PROVE TypeOK'
  <2>1. RowType'
    BY <1>26, Constants DEF TypeOK, RowType, ErrorRead, rowVars, procVars
  <2>2. JobType'
    BY <1>26 DEF TypeOK, JobType, Places, ErrorRead, Goto, procVars
  <2>3. CallType'
    BY <1>26 DEF TypeOK, CallType, ErrorRead, startVars, cancelVars, sysVars
  <2>4. FlagType'
    BY <1>26 DEF TypeOK, FlagType, ErrorRead, rowVars, cancelVars, sysVars
  <2>5. QED BY <2>1, <2>2, <2>3, <2>4 DEF TypeOK, RowType, JobType, CallType,
       FlagType, Places
<1>27. ASSUME NEW j \in Job, ErrorRetry(j) PROVE TypeOK'
  <2>1. RowType'
    BY <1>27, Constants DEF TypeOK, OneMender, RowType, ErrorRetry, procVars
  <2>2. JobType'
    BY <1>27 DEF TypeOK, JobType, Places, ErrorRetry, Goto, procVars
  <2>3. CallType'
    BY <1>27 DEF TypeOK, CallType, ErrorRetry, startVars, cancelVars, sysVars
  <2>4. FlagType'
    BY <1>27 DEF TypeOK, FlagType, ErrorRetry, ArmedTimer, cancelVars, sysVars
  <2>5. QED BY <2>1, <2>2, <2>3, <2>4 DEF TypeOK, RowType, JobType, CallType,
       FlagType, Places
<1>28. ASSUME NEW j \in Job, ErrorClean(j) PROVE TypeOK'
  BY <1>28 DEF TypeOK, ErrorClean, Goto, rowVars, errorVars, startVars,
       cancelVars, sysVars
<1>29. ASSUME NEW j \in Job, ErrorFail(j) PROVE TypeOK'
  <2>1. RowType'
    BY <1>29, Constants DEF TypeOK, Settled, RowType, ErrorFail, procVars
  <2>2. JobType'
    BY <1>29 DEF TypeOK, JobType, Places, ErrorFail, Goto, procVars
  <2>3. CallType'
    BY <1>29 DEF TypeOK, CallType, ErrorFail, startVars, cancelVars, sysVars
  <2>4. FlagType'
    BY <1>29 DEF TypeOK, FlagType, ErrorFail, cancelVars, sysVars
  <2>5. QED BY <2>1, <2>2, <2>3, <2>4 DEF TypeOK, RowType, JobType, CallType,
       FlagType, Places
<1>30. ASSUME NEW q \in {"cancel", "delete"}, CancelBegin(q) PROVE TypeOK'
  <2>1. RowType'
    BY <1>30 DEF TypeOK, RowType, CancelBegin, rowVars
  <2>2. JobType'
    BY <1>30 DEF TypeOK, JobType, Places, CancelBegin, jobVars
  <2>3. CallType'
    BY <1>30 DEF TypeOK, CallType, CancelBegin, startVars, sysVars
  <2>4. FlagType'
    BY <1>30 DEF TypeOK, FlagType, CancelBegin, rowVars, sysVars
  <2>5. QED BY <2>1, <2>2, <2>3, <2>4 DEF TypeOK, RowType, JobType, CallType,
       FlagType, Places
<1>31. CASE CancelKill
  BY <1>31 DEF TypeOK, CancelKill, rowVars, jobVars, errorVars, startVars,
       sysVars
<1>32. CASE CancelClean
  BY <1>32 DEF TypeOK, CancelClean, rowVars, jobVars, errorVars, startVars,
       sysVars
<1>33. CASE CancelWrite
  <2>1. RowType'
    BY <1>33 DEF TypeOK, Settled, RowType, CancelWrite, procVars, errorVars
  <2>2. JobType'
    BY <1>33 DEF TypeOK, JobType, Places, CancelWrite, jobVars, procVars
  <2>3. CallType'
    BY <1>33 DEF TypeOK, CallType, CancelWrite, startVars, sysVars
  <2>4. FlagType'
    BY <1>33 DEF TypeOK, FlagType, CancelWrite, errorVars, sysVars
  <2>5. QED BY <2>1, <2>2, <2>3, <2>4 DEF TypeOK, RowType, JobType, CallType,
       FlagType, Places
<1>34. CASE DeleteRow
  <2>1. RowType'
    BY <1>34, Constants DEF TypeOK, Settled, RowType, DeleteRow, DropRow,
         errorVars
  <2>2. JobType'
    BY <1>34 DEF TypeOK, JobType, Places, DeleteRow, jobVars
  <2>3. CallType'
    BY <1>34 DEF TypeOK, CallType, DeleteRow, startVars, sysVars
  <2>4. FlagType'
    BY <1>34 DEF TypeOK, FlagType, DeleteRow, DropRow, errorVars, sysVars
  <2>5. QED BY <2>1, <2>2, <2>3, <2>4 DEF TypeOK, RowType, JobType, CallType,
       FlagType, Places
<1>35. ASSUME NEW r \in Retriers, RetryBegin(r) PROVE TypeOK'
  BY <1>35 DEF TypeOK, RetryBegin, rowVars, jobVars, procVars, errorVars,
       cancelVars, sysVars
<1>36. ASSUME NEW r \in Retriers, RetryDuplicate(r) PROVE TypeOK'
  <2>1. RowType'
    BY <1>36, Constants DEF TypeOK, Settled, RowType, RetryDuplicate, DropRow,
         procVars, errorVars
  <2>2. JobType'
    BY <1>36 DEF TypeOK, JobType, Places, RetryDuplicate, jobVars, procVars
  <2>3. CallType'
    BY <1>36 DEF TypeOK, CallType, RetryDuplicate, sysVars
  <2>4. FlagType'
    BY <1>36 DEF TypeOK, FlagType, RetryDuplicate, DropRow, errorVars, sysVars
  <2>5. QED BY <2>1, <2>2, <2>3, <2>4 DEF TypeOK, RowType, JobType, CallType,
       FlagType, Places
<1>37. ASSUME NEW r \in Retriers, RetryReset(r) PROVE TypeOK'
  <2>1. RowType'
    BY <1>37, Constants DEF TypeOK, Active, RowType, RetryReset, procVars,
         errorVars
  <2>2. JobType'
    BY <1>37 DEF TypeOK, JobType, Places, RetryReset, jobVars, procVars
  <2>3. CallType'
    BY <1>37 DEF TypeOK, CallType, RetryReset, sysVars
  <2>4. FlagType'
    BY <1>37 DEF TypeOK, FlagType, RetryReset, errorVars, sysVars
  <2>5. QED BY <2>1, <2>2, <2>3, <2>4 DEF TypeOK, RowType, JobType, CallType,
       FlagType, Places
<1>38. ASSUME NEW r \in Retriers, RetryCheck(r) PROVE TypeOK'
  <2>1. RowType'
    BY <1>38 DEF TypeOK, RowType, RetryCheck, rowVars, procVars, errorVars
  <2>2. JobType'
    BY <1>38 DEF TypeOK, JobType, Places, RetryCheck, jobVars, procVars
  <2>3. CallType'
    BY <1>38 DEF TypeOK, CallType, RetryCheck, cancelVars, sysVars
  <2>4. FlagType'
    BY <1>38 DEF TypeOK, FlagType, RetryCheck, rowVars, errorVars, cancelVars,
         sysVars
  <2>5. QED BY <2>1, <2>2, <2>3, <2>4 DEF TypeOK, RowType, JobType, CallType,
       FlagType, Places
<1>39. CASE UNCHANGED vars
  BY <1>39 DEF TypeOK, vars, rowVars, jobVars, procVars, errorVars, startVars,
       cancelVars, sysVars
<1>40. QED BY <1>1, <1>2, <1>3, <1>4, <1>5, <1>6, <1>7, <1>8, <1>9, <1>10,
     <1>11, <1>12, <1>13, <1>14, <1>15, <1>16, <1>17, <1>18, <1>19, <1>20,
     <1>21, <1>22, <1>23, <1>24, <1>25, <1>26, <1>27, <1>28, <1>29, <1>30,
     <1>31, <1>32, <1>33, <1>34, <1>35, <1>36, <1>37, <1>38, <1>39 DEF Next,
     Boot, Handler, Metadata, Download, Error, Cancel, Retry

(* A handler begins to deal with an error only when no other does, and is the
   only one to end that. *)
LEMMA NextOneMender ==
  ASSUME TypeOK, OneMender, [Next]_vars
  PROVE  OneMender'
<1>1. CASE Crash
  BY <1>1 DEF OneMender, Mending, Crash, FreshMemory
<1>2. CASE BootReset
  BY <1>2 DEF OneMender, Mending, BootReset, jobVars, errorVars
<1>3. CASE BootResume
  BY <1>3 DEF OneMender, Mending, BootResume, jobVars, errorVars
<1>4. CASE BootStart
  BY <1>4 DEF OneMender, Mending, BootStart, errorVars
<1>5. CASE Create
  BY <1>5 DEF OneMender, Mending, Create, jobVars, errorVars
<1>6. CASE StartEnqueue
  BY <1>6 DEF OneMender, Mending, StartEnqueue, errorVars
<1>7. CASE RetryFires
  BY <1>7 DEF OneMender, Mending, RetryFires, jobVars
<1>8. ASSUME NEW j \in Job, Claim(j) PROVE OneMender'
  BY <1>8 DEF TypeOK, OneMender, Mending, Claim, Goto, errorVars
<1>9. ASSUME NEW j \in Job, Close(j) PROVE OneMender'
  BY <1>9 DEF OneMender, Mending, Close, Goto, errorVars
<1>10. ASSUME NEW j \in Job, MetaRead(j) PROVE OneMender'
  BY <1>10 DEF OneMender, Mending, MetaRead, Goto, errorVars
<1>11. ASSUME NEW j \in Job, MetaMark(j) PROVE OneMender'
  BY <1>11 DEF TypeOK, OneMender, Mending, MetaMark, Goto, errorVars
<1>12. ASSUME NEW j \in Job, MetaFetch(j) PROVE OneMender'
  BY <1>12 DEF TypeOK, OneMender, Mending, MetaFetch, Goto, errorVars
<1>13. ASSUME NEW j \in Job, MetaStore(j) PROVE OneMender'
  BY <1>13 DEF OneMender, Mending, MetaStore, Goto, errorVars
<1>14. ASSUME NEW j \in Job, MetaNext(j) PROVE OneMender'
  BY <1>14 DEF OneMender, Mending, MetaNext, Goto, errorVars
<1>15. ASSUME NEW j \in Job, DownloadRead(j) PROVE OneMender'
  BY <1>15 DEF OneMender, Mending, DownloadRead, Goto, errorVars
<1>16. ASSUME NEW j \in Job, DownloadMark(j) PROVE OneMender'
  BY <1>16 DEF TypeOK, OneMender, Mending, DownloadMark, Goto, errorVars
<1>17. ASSUME NEW j \in Job, Prepare(j) PROVE OneMender'
  BY <1>17 DEF TypeOK, OneMender, Mending, Prepare, Goto, errorVars
<1>18. ASSUME NEW j \in Job, Spawn(j) PROVE OneMender'
  BY <1>18 DEF OneMender, Mending, Spawn, Goto, errorVars
<1>19. ASSUME NEW j \in Job, Progress(j) PROVE OneMender'
  BY <1>19 DEF OneMender, Mending, Progress, jobVars, errorVars
<1>20. ASSUME NEW j \in Job, ProgressLost(j) PROVE OneMender'
  BY <1>20 DEF OneMender, Mending, ProgressLost, Die, FreshMemory
<1>21. ASSUME NEW j \in Job, Stall(j) PROVE OneMender'
  BY <1>21 DEF OneMender, Mending, Stall, Goto, errorVars
<1>22. ASSUME NEW j \in Job, Exit(j) PROVE OneMender'
  BY <1>22 DEF TypeOK, OneMender, Mending, Exit, Goto, AfterExit, errorVars
<1>23. ASSUME NEW j \in Job, Complete(j) PROVE OneMender'
  BY <1>23 DEF OneMender, Mending, Complete, Goto, errorVars
<1>24. ASSUME NEW j \in Job, CompleteLost(j) PROVE OneMender'
  BY <1>24 DEF OneMender, Mending, CompleteLost, Die, FreshMemory
<1>25. ASSUME NEW j \in Job, ErrorGuard(j) PROVE OneMender'
  BY <1>25 DEF TypeOK, OneMender, Mending, ErrorGuard, Goto
<1>26. ASSUME NEW j \in Job, ErrorRead(j) PROVE OneMender'
  BY <1>26 DEF TypeOK, OneMender, Mending, ErrorRead, MayRetry, Goto
<1>27. ASSUME NEW j \in Job, ErrorRetry(j) PROVE OneMender'
  BY <1>27 DEF TypeOK, OneMender, Mending, ErrorRetry, Goto
<1>28. ASSUME NEW j \in Job, ErrorClean(j) PROVE OneMender'
  BY <1>28 DEF OneMender, Mending, ErrorClean, Goto, errorVars
<1>29. ASSUME NEW j \in Job, ErrorFail(j) PROVE OneMender'
  BY <1>29 DEF TypeOK, OneMender, Mending, ErrorFail, Goto
<1>30. ASSUME NEW q \in {"cancel", "delete"}, CancelBegin(q) PROVE OneMender'
  BY <1>30 DEF OneMender, Mending, CancelBegin, jobVars
<1>31. CASE CancelKill
  BY <1>31 DEF OneMender, Mending, CancelKill, jobVars, errorVars
<1>32. CASE CancelClean
  BY <1>32 DEF OneMender, Mending, CancelClean, jobVars, errorVars
<1>33. CASE CancelWrite
  BY <1>33 DEF OneMender, Mending, CancelWrite, jobVars, errorVars
<1>34. CASE DeleteRow
  BY <1>34 DEF OneMender, Mending, DeleteRow, jobVars, errorVars
<1>35. ASSUME NEW r \in Retriers, RetryBegin(r) PROVE OneMender'
  BY <1>35 DEF OneMender, Mending, RetryBegin, jobVars, errorVars
<1>36. ASSUME NEW r \in Retriers, RetryDuplicate(r) PROVE OneMender'
  BY <1>36 DEF OneMender, Mending, RetryDuplicate, jobVars, errorVars
<1>37. ASSUME NEW r \in Retriers, RetryReset(r) PROVE OneMender'
  BY <1>37 DEF OneMender, Mending, RetryReset, jobVars, errorVars
<1>38. ASSUME NEW r \in Retriers, RetryCheck(r) PROVE OneMender'
  BY <1>38 DEF OneMender, Mending, RetryCheck, jobVars, errorVars
<1>39. CASE UNCHANGED vars
  BY <1>39 DEF OneMender, Mending, vars, jobVars, errorVars
<1>40. QED BY <1>1, <1>2, <1>3, <1>4, <1>5, <1>6, <1>7, <1>8, <1>9, <1>10,
     <1>11, <1>12, <1>13, <1>14, <1>15, <1>16, <1>17, <1>18, <1>19, <1>20,
     <1>21, <1>22, <1>23, <1>24, <1>25, <1>26, <1>27, <1>28, <1>29, <1>30,
     <1>31, <1>32, <1>33, <1>34, <1>35, <1>36, <1>37, <1>38, <1>39 DEF Next,
     Boot, Handler, Metadata, Download, Error, Cancel, Retry

(* A handler keeps its row until it is closed, and a process is registered by
   the handler that waits for it. *)
LEMMA NextOwned ==
  ASSUME TypeOK, Owned, [Next]_vars
  PROVE  Owned'
<1>1. CASE Crash
  BY <1>1 DEF Owned, Crash, FreshMemory
<1>2. CASE BootReset
  BY <1>2 DEF Owned, BootReset, jobVars, procVars, cancelVars
<1>3. CASE BootResume
  BY <1>3 DEF Owned, BootResume, jobVars, procVars, cancelVars
<1>4. CASE BootStart
  BY <1>4, JobRowFields DEF TypeOK, Owned, BootStart, procVars, cancelVars
<1>5. CASE Create
  BY <1>5 DEF Owned, Create, jobVars, procVars, cancelVars
<1>6. CASE StartEnqueue
  BY <1>6, JobRowFields DEF Owned, StartEnqueue, Enqueue, procVars, cancelVars
<1>7. CASE RetryFires
  BY <1>7 DEF Owned, RetryFires, jobVars, procVars, cancelVars
<1>8. ASSUME NEW j \in Job, Claim(j) PROVE Owned'
  BY <1>8, JobRowFields DEF TypeOK, Owned, Claim, Goto, procVars, cancelVars
<1>9. ASSUME NEW j \in Job, Close(j) PROVE Owned'
  BY <1>9 DEF TypeOK, Owned, Close, Goto, procVars, cancelVars
<1>10. ASSUME NEW j \in Job, MetaRead(j) PROVE Owned'
  BY <1>10 DEF Owned, MetaRead, Goto, procVars, cancelVars
<1>11. ASSUME NEW j \in Job, MetaMark(j) PROVE Owned'
  BY <1>11 DEF TypeOK, Owned, MetaMark, Goto, procVars, cancelVars
<1>12. ASSUME NEW j \in Job, MetaFetch(j) PROVE Owned'
  BY <1>12 DEF TypeOK, Owned, MetaFetch, Goto, procVars, cancelVars
<1>13. ASSUME NEW j \in Job, MetaStore(j) PROVE Owned'
  BY <1>13 DEF Owned, MetaStore, Goto, procVars, cancelVars
<1>14. ASSUME NEW j \in Job, MetaNext(j) PROVE Owned'
  BY <1>14, JobRowFields DEF Owned, MetaNext, Goto, Enqueue, procVars,
       cancelVars
<1>15. ASSUME NEW j \in Job, DownloadRead(j) PROVE Owned'
  BY <1>15 DEF Owned, DownloadRead, Goto, procVars, cancelVars
<1>16. ASSUME NEW j \in Job, DownloadMark(j) PROVE Owned'
  BY <1>16 DEF TypeOK, Owned, DownloadMark, Goto, procVars, cancelVars
<1>17. ASSUME NEW j \in Job, Prepare(j) PROVE Owned'
  BY <1>17 DEF TypeOK, Owned, Prepare, Goto, procVars, cancelVars
<1>18. ASSUME NEW j \in Job, Spawn(j) PROVE Owned'
  BY <1>18 DEF TypeOK, Owned, Spawn, Goto, cancelVars
<1>19. ASSUME NEW j \in Job, Progress(j) PROVE Owned'
  BY <1>19 DEF Owned, Progress, jobVars, procVars, cancelVars
<1>20. ASSUME NEW j \in Job, ProgressLost(j) PROVE Owned'
  BY <1>20 DEF Owned, ProgressLost, Die, FreshMemory
<1>21. ASSUME NEW j \in Job, Stall(j) PROVE Owned'
  BY <1>21 DEF Owned, Stall, Goto, cancelVars
<1>22. ASSUME NEW j \in Job, Exit(j) PROVE Owned'
  BY <1>22 DEF TypeOK, Owned, Exit, Goto, cancelVars
<1>23. ASSUME NEW j \in Job, Complete(j) PROVE Owned'
  BY <1>23 DEF Owned, Complete, Goto, procVars, cancelVars
<1>24. ASSUME NEW j \in Job, CompleteLost(j) PROVE Owned'
  BY <1>24 DEF Owned, CompleteLost, Die, FreshMemory
<1>25. ASSUME NEW j \in Job, ErrorGuard(j) PROVE Owned'
  BY <1>25 DEF TypeOK, Owned, ErrorGuard, Goto, procVars, cancelVars
<1>26. ASSUME NEW j \in Job, ErrorRead(j) PROVE Owned'
  BY <1>26 DEF TypeOK, Owned, ErrorRead, Goto, procVars, cancelVars
<1>27. ASSUME NEW j \in Job, ErrorRetry(j) PROVE Owned'
  BY <1>27 DEF Owned, ErrorRetry, Goto, procVars, cancelVars
<1>28. ASSUME NEW j \in Job, ErrorClean(j) PROVE Owned'
  BY <1>28 DEF Owned, ErrorClean, Goto, cancelVars
<1>29. ASSUME NEW j \in Job, ErrorFail(j) PROVE Owned'
  BY <1>29 DEF Owned, ErrorFail, Goto, procVars, cancelVars
<1>30. ASSUME NEW q \in {"cancel", "delete"}, CancelBegin(q) PROVE Owned'
  BY <1>30 DEF Owned, CancelBegin, jobVars
<1>31. CASE CancelKill
  BY <1>31 DEF Owned, CancelKill, jobVars
<1>32. CASE CancelClean
  BY <1>32 DEF Owned, CancelClean, jobVars
<1>33. CASE CancelWrite
  BY <1>33 DEF Owned, CancelWrite, jobVars, procVars
<1>34. CASE DeleteRow
  BY <1>34 DEF Owned, DeleteRow, jobVars
<1>35. ASSUME NEW r \in Retriers, RetryBegin(r) PROVE Owned'
  BY <1>35 DEF Owned, RetryBegin, jobVars, procVars, cancelVars
<1>36. ASSUME NEW r \in Retriers, RetryDuplicate(r) PROVE Owned'
  BY <1>36 DEF Owned, RetryDuplicate, jobVars, procVars
<1>37. ASSUME NEW r \in Retriers, RetryReset(r) PROVE Owned'
  BY <1>37 DEF Owned, RetryReset, jobVars, procVars
<1>38. ASSUME NEW r \in Retriers, RetryCheck(r) PROVE Owned'
  BY <1>38 DEF Owned, RetryCheck, jobVars, procVars, cancelVars
<1>39. CASE UNCHANGED vars
  BY <1>39 DEF Owned, vars, jobVars, procVars, cancelVars
<1>40. QED BY <1>1, <1>2, <1>3, <1>4, <1>5, <1>6, <1>7, <1>8, <1>9, <1>10,
     <1>11, <1>12, <1>13, <1>14, <1>15, <1>16, <1>17, <1>18, <1>19, <1>20,
     <1>21, <1>22, <1>23, <1>24, <1>25, <1>26, <1>27, <1>28, <1>29, <1>30,
     <1>31, <1>32, <1>33, <1>34, <1>35, <1>36, <1>37, <1>38, <1>39 DEF Next,
     Boot, Handler, Metadata, Download, Error, Cancel, Retry

(* Only a restart leaves "up", with fresh memory, and the boot sequence fills
   the memory after it has reset the rows. *)
LEMMA NextBooting ==
  ASSUME TypeOK, Owned, Booting, [Next]_vars
  PROVE  Booting'
<1>1. CASE Crash
  BY <1>1 DEF Booting, Crash, FreshMemory
<1>2. CASE BootReset
  BY <1>2 DEF Booting, BootReset, jobVars, procVars, errorVars, startVars,
       cancelVars
<1>3. CASE BootResume
  BY <1>3 DEF Booting, BootResume, rowVars, jobVars, procVars, errorVars,
       cancelVars
<1>4. CASE BootStart
  BY <1>4 DEF Booting, BootStart
<1>5. CASE Create
  BY <1>5 DEF Booting, Create, sysVars
<1>6. CASE StartEnqueue
  BY <1>6 DEF Booting, StartEnqueue, rowVars, procVars, errorVars, cancelVars,
       sysVars
<1>7. CASE RetryFires
  BY <1>7 DEF Booting, RetryFires, sysVars
<1>8. ASSUME NEW j \in Job, Claim(j) PROVE Booting'
  BY <1>8 DEF Booting, Claim, sysVars
<1>9. ASSUME NEW j \in Job, Close(j) PROVE Booting'
  BY <1>9 DEF Booting, Close, sysVars
<1>10. ASSUME NEW j \in Job, MetaRead(j) PROVE Booting'
  BY <1>10 DEF Booting, MetaRead, sysVars
<1>11. ASSUME NEW j \in Job, MetaMark(j) PROVE Booting'
  BY <1>11 DEF Booting, MetaMark, sysVars
<1>12. ASSUME NEW j \in Job, MetaFetch(j) PROVE Booting'
  BY <1>12 DEF Booting, MetaFetch, sysVars
<1>13. ASSUME NEW j \in Job, MetaStore(j) PROVE Booting'
  BY <1>13 DEF Booting, MetaStore, sysVars
<1>14. ASSUME NEW j \in Job, MetaNext(j) PROVE Booting'
  BY <1>14 DEF Booting, MetaNext, sysVars
<1>15. ASSUME NEW j \in Job, DownloadRead(j) PROVE Booting'
  BY <1>15 DEF Booting, DownloadRead, sysVars
<1>16. ASSUME NEW j \in Job, DownloadMark(j) PROVE Booting'
  BY <1>16 DEF Booting, DownloadMark, sysVars
<1>17. ASSUME NEW j \in Job, Prepare(j) PROVE Booting'
  BY <1>17 DEF Booting, Prepare, sysVars
<1>18. ASSUME NEW j \in Job, Spawn(j) PROVE Booting'
  BY <1>18 DEF Booting, Spawn, sysVars
<1>19. ASSUME NEW j \in Job, Progress(j) PROVE Booting'
  BY <1>19 DEF Booting, Progress, Alive, sysVars
<1>20. ASSUME NEW j \in Job, ProgressLost(j) PROVE Booting'
  BY <1>20 DEF Booting, ProgressLost, Die, FreshMemory
<1>21. ASSUME NEW j \in Job, Stall(j) PROVE Booting'
  BY <1>21 DEF Booting, Stall, sysVars
<1>22. ASSUME NEW j \in Job, Exit(j) PROVE Booting'
  BY <1>22 DEF Booting, Exit, sysVars
<1>23. ASSUME NEW j \in Job, Complete(j) PROVE Booting'
  BY <1>23 DEF Booting, Complete, sysVars
<1>24. ASSUME NEW j \in Job, CompleteLost(j) PROVE Booting'
  BY <1>24 DEF Booting, CompleteLost, Die, FreshMemory
<1>25. ASSUME NEW j \in Job, ErrorGuard(j) PROVE Booting'
  BY <1>25 DEF Booting, ErrorGuard, sysVars
<1>26. ASSUME NEW j \in Job, ErrorRead(j) PROVE Booting'
  BY <1>26 DEF Booting, ErrorRead, sysVars
<1>27. ASSUME NEW j \in Job, ErrorRetry(j) PROVE Booting'
  BY <1>27 DEF Booting, ErrorRetry, sysVars
<1>28. ASSUME NEW j \in Job, ErrorClean(j) PROVE Booting'
  BY <1>28 DEF Booting, ErrorClean, sysVars
<1>29. ASSUME NEW j \in Job, ErrorFail(j) PROVE Booting'
  BY <1>29 DEF Booting, ErrorFail, sysVars
<1>30. ASSUME NEW q \in {"cancel", "delete"}, CancelBegin(q) PROVE Booting'
  BY <1>30 DEF Booting, CancelBegin, sysVars
<1>31. CASE CancelKill
  BY <1>31 DEF Booting, CancelKill, sysVars
<1>32. CASE CancelClean
  BY <1>32 DEF Booting, CancelClean, sysVars
<1>33. CASE CancelWrite
  BY <1>33 DEF Booting, CancelWrite, sysVars
<1>34. CASE DeleteRow
  BY <1>34 DEF Booting, DeleteRow, sysVars
<1>35. ASSUME NEW r \in Retriers, RetryBegin(r) PROVE Booting'
  BY <1>35 DEF Booting, RetryBegin, sysVars
<1>36. ASSUME NEW r \in Retriers, RetryDuplicate(r) PROVE Booting'
  BY <1>36 DEF Booting, RetryDuplicate, sysVars
<1>37. ASSUME NEW r \in Retriers, RetryReset(r) PROVE Booting'
  BY <1>37 DEF Booting, RetryReset, sysVars
<1>38. ASSUME NEW r \in Retriers, RetryCheck(r) PROVE Booting'
  BY <1>38 DEF Booting, RetryCheck, sysVars
<1>39. CASE UNCHANGED vars
  BY <1>39 DEF Booting, vars, rowVars, jobVars, procVars, errorVars, startVars,
       cancelVars, sysVars
<1>40. QED BY <1>1, <1>2, <1>3, <1>4, <1>5, <1>6, <1>7, <1>8, <1>9, <1>10,
     <1>11, <1>12, <1>13, <1>14, <1>15, <1>16, <1>17, <1>18, <1>19, <1>20,
     <1>21, <1>22, <1>23, <1>24, <1>25, <1>26, <1>27, <1>28, <1>29, <1>30,
     <1>31, <1>32, <1>33, <1>34, <1>35, <1>36, <1>37, <1>38, <1>39 DEF Next,
     Boot, Handler, Metadata, Download, Error, Cancel, Retry

(* A handler waits for what it spawned until that has ended. *)
LEMMA NextWriterAwaited ==
  ASSUME TypeOK, WriterAwaited, [Next]_vars
  PROVE  WriterAwaited'
<1>1. CASE Crash
  BY <1>1 DEF WriterAwaited, Alive, Crash, FreshMemory
<1>2. CASE BootReset
  BY <1>2 DEF WriterAwaited, Alive, BootReset, jobVars, procVars
<1>3. CASE BootResume
  BY <1>3 DEF WriterAwaited, Alive, BootResume, jobVars, procVars
<1>4. CASE BootStart
  BY <1>4 DEF WriterAwaited, Alive, BootStart, procVars
<1>5. CASE Create
  BY <1>5 DEF WriterAwaited, Alive, Create, jobVars, procVars
<1>6. CASE StartEnqueue
  BY <1>6 DEF WriterAwaited, Alive, StartEnqueue, procVars
<1>7. CASE RetryFires
  BY <1>7 DEF WriterAwaited, Alive, RetryFires, jobVars, procVars
<1>8. ASSUME NEW j \in Job, Claim(j) PROVE WriterAwaited'
  BY <1>8 DEF TypeOK, WriterAwaited, Alive, Claim, Goto, procVars
<1>9. ASSUME NEW j \in Job, Close(j) PROVE WriterAwaited'
  BY <1>9 DEF WriterAwaited, Alive, Close, Goto, procVars
<1>10. ASSUME NEW j \in Job, MetaRead(j) PROVE WriterAwaited'
  BY <1>10 DEF WriterAwaited, Alive, MetaRead, Goto, procVars
<1>11. ASSUME NEW j \in Job, MetaMark(j) PROVE WriterAwaited'
  BY <1>11 DEF TypeOK, WriterAwaited, Alive, MetaMark, Goto, procVars
<1>12. ASSUME NEW j \in Job, MetaFetch(j) PROVE WriterAwaited'
  BY <1>12 DEF TypeOK, WriterAwaited, Alive, MetaFetch, Goto, procVars
<1>13. ASSUME NEW j \in Job, MetaStore(j) PROVE WriterAwaited'
  BY <1>13 DEF WriterAwaited, Alive, MetaStore, Goto, procVars
<1>14. ASSUME NEW j \in Job, MetaNext(j) PROVE WriterAwaited'
  BY <1>14 DEF WriterAwaited, Alive, MetaNext, Goto, procVars
<1>15. ASSUME NEW j \in Job, DownloadRead(j) PROVE WriterAwaited'
  BY <1>15 DEF WriterAwaited, Alive, DownloadRead, Goto, procVars
<1>16. ASSUME NEW j \in Job, DownloadMark(j) PROVE WriterAwaited'
  BY <1>16 DEF TypeOK, WriterAwaited, Alive, DownloadMark, Goto, procVars
<1>17. ASSUME NEW j \in Job, Prepare(j) PROVE WriterAwaited'
  BY <1>17 DEF TypeOK, WriterAwaited, Alive, Prepare, Goto, procVars
<1>18. ASSUME NEW j \in Job, Spawn(j) PROVE WriterAwaited'
  BY <1>18 DEF TypeOK, WriterAwaited, Alive, Spawn, Goto
<1>19. ASSUME NEW j \in Job, Progress(j) PROVE WriterAwaited'
  BY <1>19 DEF WriterAwaited, Alive, Progress, jobVars, procVars
<1>20. ASSUME NEW j \in Job, ProgressLost(j) PROVE WriterAwaited'
  BY <1>20 DEF WriterAwaited, Alive, ProgressLost, Die, FreshMemory
<1>21. ASSUME NEW j \in Job, Stall(j) PROVE WriterAwaited'
  BY <1>21 DEF TypeOK, WriterAwaited, NoStray, Alive, Stall, Goto
<1>22. ASSUME NEW j \in Job, Exit(j) PROVE WriterAwaited'
  BY <1>22 DEF TypeOK, WriterAwaited, Alive, Exit, Goto
<1>23. ASSUME NEW j \in Job, Complete(j) PROVE WriterAwaited'
  BY <1>23 DEF WriterAwaited, Alive, Complete, Goto, procVars
<1>24. ASSUME NEW j \in Job, CompleteLost(j) PROVE WriterAwaited'
  BY <1>24 DEF WriterAwaited, Alive, CompleteLost, Die, FreshMemory
<1>25. ASSUME NEW j \in Job, ErrorGuard(j) PROVE WriterAwaited'
  BY <1>25 DEF TypeOK, WriterAwaited, Alive, ErrorGuard, Goto, procVars
<1>26. ASSUME NEW j \in Job, ErrorRead(j) PROVE WriterAwaited'
  BY <1>26 DEF TypeOK, WriterAwaited, Alive, ErrorRead, Goto, procVars
<1>27. ASSUME NEW j \in Job, ErrorRetry(j) PROVE WriterAwaited'
  BY <1>27 DEF WriterAwaited, Alive, ErrorRetry, Goto, procVars
<1>28. ASSUME NEW j \in Job, ErrorClean(j) PROVE WriterAwaited'
  BY <1>28 DEF WriterAwaited, Alive, ErrorClean, Goto
<1>29. ASSUME NEW j \in Job, ErrorFail(j) PROVE WriterAwaited'
  BY <1>29 DEF WriterAwaited, Alive, ErrorFail, Goto, procVars
<1>30. ASSUME NEW q \in {"cancel", "delete"}, CancelBegin(q) PROVE
     WriterAwaited'
  BY <1>30 DEF TypeOK, WriterAwaited, Alive, CancelBegin, jobVars
<1>31. CASE CancelKill
  BY <1>31 DEF WriterAwaited, Alive, CancelKill, jobVars
<1>32. CASE CancelClean
  BY <1>32 DEF WriterAwaited, Alive, CancelClean, jobVars
<1>33. CASE CancelWrite
  BY <1>33 DEF WriterAwaited, Alive, CancelWrite, jobVars, procVars
<1>34. CASE DeleteRow
  BY <1>34 DEF WriterAwaited, Alive, DeleteRow, jobVars
<1>35. ASSUME NEW r \in Retriers, RetryBegin(r) PROVE WriterAwaited'
  BY <1>35 DEF WriterAwaited, Alive, RetryBegin, jobVars, procVars
<1>36. ASSUME NEW r \in Retriers, RetryDuplicate(r) PROVE WriterAwaited'
  BY <1>36 DEF WriterAwaited, Alive, RetryDuplicate, jobVars, procVars
<1>37. ASSUME NEW r \in Retriers, RetryReset(r) PROVE WriterAwaited'
  BY <1>37 DEF WriterAwaited, Alive, RetryReset, jobVars, procVars
<1>38. ASSUME NEW r \in Retriers, RetryCheck(r) PROVE WriterAwaited'
  BY <1>38 DEF WriterAwaited, Alive, RetryCheck, jobVars, procVars
<1>39. CASE UNCHANGED vars
  BY <1>39 DEF WriterAwaited, Alive, vars, jobVars, procVars
<1>40. QED BY <1>1, <1>2, <1>3, <1>4, <1>5, <1>6, <1>7, <1>8, <1>9, <1>10,
     <1>11, <1>12, <1>13, <1>14, <1>15, <1>16, <1>17, <1>18, <1>19, <1>20,
     <1>21, <1>22, <1>23, <1>24, <1>25, <1>26, <1>27, <1>28, <1>29, <1>30,
     <1>31, <1>32, <1>33, <1>34, <1>35, <1>36, <1>37, <1>38, <1>39 DEF Next,
     Boot, Handler, Metadata, Download, Error, Cancel, Retry

(* Whoever gives up the download either leaves it settled or hands it on to a
   job, a timer or a start. *)
LEMMA NextDriven ==
  ASSUME Patient, TypeOK, OneMender, Owned, Booting, WriterAwaited, Driven,
       [Next]_vars
  PROVE  Driven'
<1>1. CASE Crash
  BY <1>1 DEF Driven, Crash, FreshMemory
<1>2. CASE BootReset
  BY <1>2 DEF Driven, BootReset
<1>3. CASE BootResume
  BY <1>3 DEF Booting, Driven, Busy, BootResume, ShouldResume, rowVars,
       jobVars, AlreadyQueued, HasPipeline
<1>4. CASE BootStart
  BY <1>4 DEF Booting, Driven, Busy, BootStart, Free, Pending, rowVars,
       startVars
<1>5. CASE Create
  BY <1>5 DEF TypeOK, Driven, Create
<1>6. CASE StartEnqueue
  BY <1>6 DEF TypeOK, Owned, Driven, Busy, StartEnqueue, Enqueue, Unused,
       Pending, Free
<1>7. CASE RetryFires
  BY <1>7 DEF Patient, Driven, Busy, RetryFires, AlreadyQueued, jobVars,
       HasPipeline, Answered, Closing
<1>8. ASSUME NEW j \in Job, Claim(j) PROVE Driven'
  <2>1. job'[j] # Free /\ pc'[j] # "close"
    BY <1>8, JobRowFields DEF Claim, TypeOK, Goto
  <2>2. QED BY <2>1 DEF Driven, Busy
<1>9. ASSUME NEW j \in Job, Close(j) PROVE Driven'
  BY <1>9 DEF Booting, Driven, Busy, Close, Goto, rowVars, errorVars,
       startVars, cancelVars
<1>10. ASSUME NEW j \in Job, MetaRead(j) PROVE Driven'
  BY <1>10 DEF Owned, Driven, Busy, MetaRead, Goto
<1>11. ASSUME NEW j \in Job, MetaMark(j) PROVE Driven'
  BY <1>11 DEF TypeOK, Owned, Driven, Busy, MetaMark, Goto
<1>12. ASSUME NEW j \in Job, MetaFetch(j) PROVE Driven'
  BY <1>12 DEF TypeOK, Owned, Driven, Busy, Active, MetaFetch, Goto, DropRow
<1>13. ASSUME NEW j \in Job, MetaStore(j) PROVE Driven'
  BY <1>13 DEF Owned, Driven, Busy, MetaStore, Goto
<1>14. ASSUME NEW j \in Job, MetaNext(j) PROVE Driven'
  BY <1>14 DEF TypeOK, Owned, Driven, Busy, MetaNext, Goto, Enqueue, Unused,
       Pending, Free
<1>15. ASSUME NEW j \in Job, DownloadRead(j) PROVE Driven'
  BY <1>15 DEF TypeOK, Owned, Driven, Busy, Active, Settled, DownloadRead,
       Goto, NothingToDownload, rowVars, Exists
<1>16. ASSUME NEW j \in Job, DownloadMark(j) PROVE Driven'
  BY <1>16 DEF TypeOK, Owned, Driven, Busy, DownloadMark, Goto
<1>17. ASSUME NEW j \in Job, Prepare(j) PROVE Driven'
  BY <1>17 DEF TypeOK, Owned, Driven, Busy, Prepare, Goto
<1>18. ASSUME NEW j \in Job, Spawn(j) PROVE Driven'
  BY <1>18 DEF Owned, Driven, Busy, Spawn, Goto
<1>19. ASSUME NEW j \in Job, Progress(j) PROVE Driven'
  BY <1>19 DEF Patient, Owned, WriterAwaited, Driven, Busy, Progress, jobVars
<1>20. ASSUME NEW j \in Job, ProgressLost(j) PROVE Driven'
  BY <1>20 DEF Driven, ProgressLost, Die, FreshMemory
<1>21. ASSUME NEW j \in Job, Stall(j) PROVE Driven'
  BY <1>21 DEF Owned, Driven, Busy, Stall, Goto
<1>22. ASSUME NEW j \in Job, Exit(j) PROVE Driven'
  BY <1>22 DEF TypeOK, Owned, Booting, Driven, Busy, Exit, Goto, AfterExit,
       rowVars, errorVars, startVars, cancelVars
<1>23. ASSUME NEW j \in Job, Complete(j) PROVE Driven'
  BY <1>23 DEF Driven, Active, Complete
<1>24. ASSUME NEW j \in Job, CompleteLost(j) PROVE Driven'
  BY <1>24 DEF Driven, CompleteLost, Die, FreshMemory
<1>25. ASSUME NEW j \in Job, ErrorGuard(j) PROVE Driven'
  BY <1>25 DEF TypeOK, OneMender, Mending, Owned, Driven, Busy, ErrorGuard,
       Goto, cancelVars
<1>26. ASSUME NEW j \in Job, ErrorRead(j) PROVE Driven'
  BY <1>26 DEF TypeOK, Owned, Driven, Busy, Active, ErrorRead, Exists, Goto,
       rowVars
<1>27. ASSUME NEW j \in Job, ErrorRetry(j) PROVE Driven'
  BY <1>27 DEF Driven, Active, ErrorRetry, Exists, ArmedTimer
<1>28. ASSUME NEW j \in Job, ErrorClean(j) PROVE Driven'
  BY <1>28 DEF Owned, Driven, Busy, ErrorClean, Goto
<1>29. ASSUME NEW j \in Job, ErrorFail(j) PROVE Driven'
  BY <1>29 DEF Driven, Active, ErrorFail, Exists
<1>30. ASSUME NEW q \in {"cancel", "delete"}, CancelBegin(q) PROVE Driven'
  BY <1>30 DEF Driven, CancelBegin
<1>31. CASE CancelKill
  BY <1>31 DEF Driven, CancelKill
<1>32. CASE CancelClean
  BY <1>32 DEF Driven, CancelClean
<1>33. CASE CancelWrite
  BY <1>33 DEF Driven, Active, CancelWrite, Exists
<1>34. CASE DeleteRow
  BY <1>34 DEF Driven, Active, DeleteRow, DropRow
<1>35. ASSUME NEW r \in Retriers, RetryBegin(r) PROVE Driven'
  BY <1>35 DEF Driven, Active, RetryBegin, rowVars
<1>36. ASSUME NEW r \in Retriers, RetryDuplicate(r) PROVE Driven'
  BY <1>36 DEF Driven, Active, RetryDuplicate, DropRow
<1>37. ASSUME NEW r \in Retriers, RetryReset(r) PROVE Driven'
  BY <1>37 DEF TypeOK, Driven, Active, RetryReset, Exists
<1>38. ASSUME NEW r \in Retriers, RetryCheck(r) PROVE Driven'
  BY <1>38 DEF Patient, Driven, Busy, RetryCheck, AlreadyQueued, jobVars,
       HasPipeline, Answered, Closing
<1>39. CASE UNCHANGED vars
  BY <1>39 DEF Driven, Busy, vars, rowVars, jobVars, errorVars, startVars,
       cancelVars, sysVars
<1>40. QED BY <1>1, <1>2, <1>3, <1>4, <1>5, <1>6, <1>7, <1>8, <1>9, <1>10,
     <1>11, <1>12, <1>13, <1>14, <1>15, <1>16, <1>17, <1>18, <1>19, <1>20,
     <1>21, <1>22, <1>23, <1>24, <1>25, <1>26, <1>27, <1>28, <1>29, <1>30,
     <1>31, <1>32, <1>33, <1>34, <1>35, <1>36, <1>37, <1>38, <1>39 DEF Next,
     Boot, Handler, Metadata, Download, Error, Cancel, Retry

(* A start comes from a timer, a request or the boot, each only when no job is
   busy, and a job becomes another's successor only by ending itself. *)
LEMMA NextOnePipeline ==
  ASSUME Orderly, TypeOK, Owned, Booting, WriterAwaited, OnePipeline,
       [Next]_vars
  PROVE  OnePipeline'
<1>1. CASE Crash
  BY <1>1 DEF Orderly, TypeOK, OnePipeline, Busy, Spawning, HasPipeline, Crash,
       FreshMemory, rowVars, Answered, Closing
<1>2. CASE BootReset
  BY <1>2 DEF OnePipeline, Busy, HasPipeline, BootReset, jobVars, errorVars,
       startVars, Active
<1>3. CASE BootResume
  BY <1>3 DEF Booting, OnePipeline, Busy, HasPipeline, BootResume,
       ShouldResume, rowVars, jobVars, errorVars, AlreadyQueued
<1>4. CASE BootStart
  BY <1>4 DEF OnePipeline, Busy, HasPipeline, BootStart, rowVars, errorVars,
       startVars
<1>5. CASE Create
  BY <1>5 DEF OnePipeline, Busy, HasPipeline, Create, jobVars, sysVars
<1>6. CASE StartEnqueue
  BY <1>6 DEF OnePipeline, Busy, HasPipeline, StartEnqueue, Enqueue, rowVars,
       sysVars
<1>7. CASE RetryFires
  BY <1>7 DEF Orderly, Patient, OnePipeline, Busy, HasPipeline, RetryFires,
       AlreadyQueued, rowVars, jobVars, sysVars, Answered
<1>8. ASSUME NEW j \in Job, Claim(j) PROVE OnePipeline'
  <2>1. \A i \in Job : /\ Busy(i)' <=> Busy(i)
                       /\ job'[i] = Free <=> job[i] = Free
                       /\ pc'[i] \in Spawning => pc[i] \in Spawning
    <3>1. \A i \in Job : i # j => job'[i] = job[i] /\ pc'[i] = pc[i]
      BY <1>8 DEF Claim, TypeOK, Goto
    <3>2. job[j] # Free /\ job'[j] # Free /\ pc[j] = "idle"
      BY <1>8, JobRowFields DEF Claim, TypeOK
    <3>3. pc'[j] \in {"metaRead", "read"}
      BY <1>8 DEF Claim, TypeOK, Goto
    <3>4. QED BY <3>1, <3>2, <3>3 DEF Busy, Spawning
  <2>2. UNCHANGED <<status, died, starting, timer, retryPc>>
    BY <1>8 DEF Claim, rowVars, startVars, sysVars, errorVars
  <2>3. QED BY <2>1, <2>2 DEF OnePipeline, HasPipeline
<1>9. ASSUME NEW j \in Job, Close(j) PROVE OnePipeline'
  BY <1>9 DEF TypeOK, Owned, OnePipeline, Busy, Spawning, HasPipeline, Close,
       Goto, rowVars, startVars, sysVars
<1>10. ASSUME NEW j \in Job, MetaRead(j) PROVE OnePipeline'
  BY <1>10 DEF Owned, OnePipeline, Busy, Spawning, HasPipeline, MetaRead, Goto,
       rowVars, startVars, sysVars
<1>11. ASSUME NEW j \in Job, MetaMark(j) PROVE OnePipeline'
  BY <1>11 DEF TypeOK, Owned, OnePipeline, Busy, Spawning, HasPipeline,
       MetaMark, Exists, Goto, startVars, sysVars
<1>12. ASSUME NEW j \in Job, MetaFetch(j) PROVE OnePipeline'
  BY <1>12 DEF TypeOK, Owned, OnePipeline, Busy, Spawning, HasPipeline,
       MetaFetch, Goto, rowVars, DropRow, startVars, sysVars
<1>13. ASSUME NEW j \in Job, MetaStore(j) PROVE OnePipeline'
  BY <1>13 DEF Owned, OnePipeline, Busy, Spawning, HasPipeline, MetaStore,
       Goto, rowVars, startVars, sysVars
<1>14. ASSUME NEW j \in Job, MetaNext(j) PROVE OnePipeline'
  BY <1>14 DEF TypeOK, Owned, OnePipeline, Busy, Spawning, HasPipeline,
       MetaNext, Goto, Enqueue, rowVars, startVars, sysVars
<1>15. ASSUME NEW j \in Job, DownloadRead(j) PROVE OnePipeline'
  BY <1>15 DEF Owned, OnePipeline, Busy, Spawning, Settled, HasPipeline,
       DownloadRead, Goto, NothingToDownload, rowVars, startVars, sysVars
<1>16. ASSUME NEW j \in Job, DownloadMark(j) PROVE OnePipeline'
  BY <1>16 DEF TypeOK, Owned, OnePipeline, Busy, Spawning, HasPipeline,
       DownloadMark, Goto, startVars, sysVars
<1>17. ASSUME NEW j \in Job, Prepare(j) PROVE OnePipeline'
  BY <1>17 DEF TypeOK, Owned, OnePipeline, Busy, Spawning, HasPipeline,
       Prepare, Goto, rowVars, startVars, sysVars
<1>18. ASSUME NEW j \in Job, Spawn(j) PROVE OnePipeline'
  BY <1>18 DEF Owned, OnePipeline, Busy, Spawning, HasPipeline, Spawn, Goto,
       rowVars, startVars, sysVars
<1>19. ASSUME NEW j \in Job, Progress(j) PROVE OnePipeline'
  BY <1>19 DEF OnePipeline, Busy, HasPipeline, Progress, Exists, jobVars,
       startVars, sysVars
<1>20. ASSUME NEW j \in Job, ProgressLost(j) PROVE OnePipeline'
  BY <1>20 DEF Orderly, Patient, Owned, OnePipeline, Spawning, WriterAwaited,
       HasPipeline, ProgressLost, Exists, Die, FreshMemory, rowVars
<1>21. ASSUME NEW j \in Job, Stall(j) PROVE OnePipeline'
  BY <1>21 DEF Owned, OnePipeline, Busy, Spawning, HasPipeline, Stall, Goto,
       rowVars, startVars, sysVars
<1>22. ASSUME NEW j \in Job, Exit(j) PROVE OnePipeline'
  BY <1>22 DEF TypeOK, OnePipeline, Busy, Spawning, HasPipeline, Exit, Goto,
       rowVars, errorVars, startVars, sysVars
<1>23. ASSUME NEW j \in Job, Complete(j) PROVE OnePipeline'
  BY <1>23 DEF OnePipeline, Busy, HasPipeline, Complete, Exists, Goto,
       startVars, sysVars
<1>24. ASSUME NEW j \in Job, CompleteLost(j) PROVE OnePipeline'
  BY <1>24 DEF Owned, OnePipeline, Spawning, HasPipeline, CompleteLost, Exists,
       Die, FreshMemory, rowVars
<1>25. ASSUME NEW j \in Job, ErrorGuard(j) PROVE OnePipeline'
  BY <1>25 DEF TypeOK, OnePipeline, Busy, Spawning, HasPipeline, ErrorGuard,
       Goto, rowVars, startVars, sysVars
<1>26. ASSUME NEW j \in Job, ErrorRead(j) PROVE OnePipeline'
  BY <1>26 DEF TypeOK, OnePipeline, Busy, Spawning, HasPipeline, ErrorRead,
       Goto, rowVars, startVars, sysVars
<1>27. ASSUME NEW j \in Job, ErrorRetry(j) PROVE OnePipeline'
  BY <1>27 DEF OnePipeline, Busy, Spawning, HasPipeline, ErrorRetry, Goto,
       Exists, startVars, sysVars
<1>28. ASSUME NEW j \in Job, ErrorClean(j) PROVE OnePipeline'
  BY <1>28 DEF Owned, OnePipeline, Busy, Spawning, HasPipeline, ErrorClean,
       Goto, rowVars, startVars, sysVars
<1>29. ASSUME NEW j \in Job, ErrorFail(j) PROVE OnePipeline'
  BY <1>29 DEF OnePipeline, Busy, Spawning, HasPipeline, ErrorFail, Goto,
       Exists, startVars, sysVars
<1>30. ASSUME NEW q \in {"cancel", "delete"}, CancelBegin(q) PROVE OnePipeline'
  BY <1>30 DEF OnePipeline, Busy, HasPipeline, CancelBegin, rowVars, jobVars,
       startVars, sysVars
<1>31. CASE CancelKill
  BY <1>31 DEF OnePipeline, Busy, HasPipeline, CancelKill, rowVars, jobVars,
       errorVars, startVars, sysVars
<1>32. CASE CancelClean
  BY <1>32 DEF OnePipeline, Busy, HasPipeline, CancelClean, rowVars, jobVars,
       errorVars, startVars, sysVars
<1>33. CASE CancelWrite
  BY <1>33 DEF OnePipeline, Busy, HasPipeline, CancelWrite, Exists, jobVars,
       errorVars, startVars, sysVars
<1>34. CASE DeleteRow
  BY <1>34 DEF OnePipeline, Busy, HasPipeline, DeleteRow, DropRow, jobVars,
       startVars, sysVars
<1>35. ASSUME NEW r \in Retriers, RetryBegin(r) PROVE OnePipeline'
  BY <1>35 DEF OnePipeline, Busy, HasPipeline, RetryBegin, rowVars, jobVars,
       sysVars
<1>36. ASSUME NEW r \in Retriers, RetryDuplicate(r) PROVE OnePipeline'
  BY <1>36 DEF OnePipeline, Busy, HasPipeline, RetryDuplicate, DropRow,
       jobVars, sysVars
<1>37. ASSUME NEW r \in Retriers, RetryReset(r) PROVE OnePipeline'
  BY <1>37 DEF OnePipeline, Busy, HasPipeline, RetryReset, Exists, jobVars,
       sysVars
<1>38. ASSUME NEW r \in Retriers, RetryCheck(r) PROVE OnePipeline'
  BY <1>38 DEF Orderly, Patient, OnePipeline, Busy, HasPipeline, RetryCheck,
       AlreadyQueued, rowVars, jobVars, sysVars, Answered
<1>39. CASE UNCHANGED vars
  BY <1>39 DEF OnePipeline, Busy, HasPipeline, vars, rowVars, jobVars,
       errorVars, startVars, sysVars
<1>40. QED BY <1>1, <1>2, <1>3, <1>4, <1>5, <1>6, <1>7, <1>8, <1>9, <1>10,
     <1>11, <1>12, <1>13, <1>14, <1>15, <1>16, <1>17, <1>18, <1>19, <1>20,
     <1>21, <1>22, <1>23, <1>24, <1>25, <1>26, <1>27, <1>28, <1>29, <1>30,
     <1>31, <1>32, <1>33, <1>34, <1>35, <1>36, <1>37, <1>38, <1>39 DEF Next,
     Boot, Handler, Metadata, Download, Error, Cancel, Retry

(* The invariant is inductive. *)
LEMMA NextHolds == IInv /\ [Next]_vars => IInv'
BY NextType, NextOneMender, NextOwned, NextBooting, NextWriterAwaited DEF IInv

(* It holds in every reachable state. *)
LEMMA IInvHolds == Spec => []IInv
BY InitHolds, NextHolds, PTL DEF Spec

-----------------------------------------------------------------------------
(* The types of DownloadPipeline hold for any constants; in particular no
   interleaving counts a retry above the limit. *)
THEOREM TypeOKHolds == Spec => []TypeOK
<1>1. IInv => TypeOK
  BY DEF IInv
<1>2. QED BY <1>1, IInvHolds, PTL

(* A download in an active status is driven by something, however often the
   process is restarted, as long as the last write of a handler is answered
   before a retry asks whether the download has a job (download.service.ts:
   388-400, 1838-1857) and a stalled process ends. *)
THEOREM ActiveIsDrivenHolds ==
  ASSUME Patient
  PROVE  Spec => []ActiveIsDriven
<1>1. Init => IInv /\ Driven
  BY InitHolds DEF Init, Driven, Active
<1>2. (IInv /\ Driven) /\ [Next]_vars => (IInv /\ Driven)'
  BY NextHolds, NextDriven DEF IInv
<1>3. Driven => ActiveIsDriven
  BY DEF Driven, ActiveIsDriven, Busy, HasPipeline
<1>4. QED BY <1>1, <1>2, <1>3, PTL DEF Spec

(* A download has one pipeline: one busy job, prepared spawn or timer that will
   drive it further (752-756, 1838-1857), under the same conditions and if no
   restart falls between the last writes of a handler either. *)
THEOREM OnePipelineHolds ==
  ASSUME Orderly
  PROVE  Spec => []OnePipeline
<1>1. Init => IInv /\ OnePipeline
  BY InitHolds DEF Init, OnePipeline, HasPipeline, Busy
<1>2. (IInv /\ OnePipeline) /\ [Next]_vars => (IInv /\ OnePipeline)'
  BY NextHolds, NextOnePipeline DEF IInv
<1>3. QED BY <1>1, <1>2, PTL DEF Spec

(* No two yt-dlp processes write the output file of a download (752-754),
   for its one pipeline waits for the process it started. *)
THEOREM OneWriterHolds ==
  ASSUME Orderly
  PROVE  Spec => []OneWriter
<1>1. IInv /\ OnePipeline => OneWriter
  <2> SUFFICES ASSUME IInv, OnePipeline PROVE OneWriter
    OBVIOUS
  <2> DEFINE Writers == {j \in Job : Alive(j)}
  <2>1. \A j \in Writers : pc[j] = "wait" /\ job[j] # Free
    BY DEF IInv, WriterAwaited, Orderly, Patient, Owned
  <2>2. \A i, j \in Writers : i = j
    BY <2>1 DEF OnePipeline, Busy, Spawning
  <2>3. CASE Writers = {}
    BY <2>3, FS_EmptySet DEF OneWriter
  <2>4. ASSUME NEW j \in Writers PROVE OneWriter
    <3>1. Writers = {j}
      BY <2>2, <2>4
    <3>2. Cardinality(Writers) = 1
      BY <3>1, FS_Singleton
    <3>3. QED BY <3>2 DEF OneWriter
  <2>5. QED BY <2>3, <2>4
<1>2. QED BY <1>1, IInvHolds, OnePipelineHolds, PTL
=============================================================================
