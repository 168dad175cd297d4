--------------------------- MODULE JobQueueProofs ---------------------------
(***************************************************************************)
(* Theorems about JobQueue, for every set of jobs and types, every limit   *)
(* and every bound: the counter poll() checks the limits against is never  *)
(* too low although it is written from a value read before an await, so no *)
(* type runs more jobs than its limit and no job runs twice at once; and   *)
(* the slots that write leaks never use up a type whose limit is fixed.    *)
(***************************************************************************)
EXTENDS JobQueue, FiniteSetTheorems, TLAPS

USE JobTypeAssumption, PriorityAssumption, LimitAssumption,
    DownloadTypeAssumption, RequestAssumption, BoundAssumption

LEMMA ClampRange == ASSUME NEW m \in Int PROVE Clamp(m) \in 1 .. 20
  BY DEF Clamp

LEMMA ResetRowType ==
  ASSUME NEW r \in [status : Statuses, runAt : Nat]
  PROVE  ResetRow(r) \in [status : Statuses, runAt : Nat]
  BY DEF ResetRow, Statuses

LEMMA WriteStatusType ==
  ASSUME NEW r \in [status : Statuses, runAt : Nat], NEW s \in Statuses
  PROVE  WriteStatus(r, s) \in [status : Statuses, runAt : Nat]
  BY DEF WriteStatus

(* While a claim is outstanding its job is a job: NoClaim, which TypeOK also
   allows, does not occur then. *)
ClaimIsSet == pollPc \in {"claim", "claimed"} => claim \in Claims

TypeInv == TypeOK /\ ClaimIsSet

LEMMA TypeInitially == Init => TypeInv
<1> SUFFICES ASSUME Init PROVE TypeInv
  OBVIOUS
<1>1. row \in [Jobs -> [status : Statuses, runAt : Nat]]
  <2>1. [status : {"NONE", "PENDING", "RUNNING"}, runAt : {0}]
          \subseteq [status : Statuses, runAt : Nat]
    BY DEF Statuses
  <2>2. QED BY <2>1 DEF Init
<1>2. QED
  BY <1>1 DEF Init, MemoryInit, TypeInv, TypeOK, ClaimIsSet, ExecStates

LEMMA TypeStep == TypeInv /\ [Next]_vars => TypeInv'
<1> SUFFICES ASSUME TypeInv, [Next]_vars
             PROVE  TypeInv'
  OBVIOUS
<1> USE DEF TypeInv, TypeOK, ClaimIsSet
<1>1. CASE Crash
  <2>1. exec' \in [Jobs -> ExecStates] /\ activeByType' \in [Types -> Nat]
    BY <1>1 DEF Crash, ExecStates
  <2>2. crashes' \in Nat
    BY <1>1 DEF Crash
  <2>3. limit' \in [Types -> 1 .. 20]
    BY <1>1 DEF Crash
  <2>4. batch' \subseteq [job : Jobs, runAt : Nat]
    BY <1>1 DEF Crash
  <2>5. claim' \in Claims \cup {NoClaim}
    BY <1>1 DEF Crash
  <2>6. row' \in [Jobs -> [status : Statuses, runAt : Nat]] /\ clock' \in Nat
    BY <1>1 DEF Crash, dbVars
  <2>7. QED BY <1>1, <2>1, <2>2, <2>3, <2>4, <2>5, <2>6 DEF Crash
<1>2. CASE Tick
  BY <1>2 DEF Tick, bootVars, slotVars, pollVars
<1>3. CASE Boot
  <2>1. CASE StartBegin
    BY <2>1 DEF StartBegin, dbVars, slotVars, pollVars
  <2>2. CASE StartFinish
    BY <2>2, ResetRowType DEF StartFinish, slotVars, pollVars
  <2>3. ASSUME NEW t \in Types, RegisterHandler(t)
        PROVE  TypeInv'
    BY <2>3 DEF RegisterHandler, dbVars, slotVars, pollVars
  <2>4. QED BY <1>3, <2>1, <2>2, <2>3 DEF Boot
<1>4. ASSUME NEW j \in Jobs, NEW at \in 0 .. MaxClock, Enqueue(j, at)
      PROVE  TypeInv'
  BY <1>4 DEF Enqueue, bootVars, slotVars, pollVars, Statuses
<1>5. ASSUME NEW j \in Jobs, DeletePending(j)
      PROVE  TypeInv'
  BY <1>5 DEF DeletePending, bootVars, slotVars, pollVars, Statuses
<1>6. ASSUME NEW m \in LimitRequests, SetMaxConcurrent(m)
      PROVE  TypeInv'
  BY <1>6, ClampRange DEF SetMaxConcurrent, dbVars, bootVars, slotVars, pollVars
<1>7. CASE PollBegin
  <2>1. batch' \subseteq Candidates
    BY <1>7 DEF PollBegin, FirstRows
  <2>2. Candidates \subseteq [job : Jobs, runAt : Nat]
    BY DEF Candidates
  <2>3. QED BY <1>7, <2>1, <2>2 DEF PollBegin, dbVars, bootVars, slotVars
<1>8. CASE PollStep
  <2>1. ASSUME NEW b \in batch, SkipAtLimit(b)
        PROVE  TypeInv'
    BY <2>1 DEF SkipAtLimit, dbVars, bootVars, slotVars
  <2>2. ASSUME NEW b \in batch, ClaimSend(b)
        PROVE  TypeInv'
    <3>1. b.job \in Jobs /\ JobType[b.job] \in Types
      OBVIOUS
    <3>2. claim' \in Claims
      BY <2>2, <3>1 DEF ClaimSend, Claims
    <3>3. QED BY <2>2, <3>2 DEF ClaimSend, dbVars, bootVars, slotVars
  <2>3. CASE ClaimApply
    BY <2>3 DEF ClaimApply, bootVars, slotVars, Claims, Statuses
  <2>4. CASE ClaimMiss
    BY <2>4 DEF ClaimMiss, dbVars, bootVars, slotVars
  <2>5. CASE ClaimReturn
    <3>1. claim.job \in Jobs /\ claim.seen \in Nat
      BY <2>5 DEF ClaimReturn, Claims
    <3>2. exec' \in [Jobs -> ExecStates]
      BY <2>5, <3>1 DEF ClaimReturn, ExecStates
    <3>3. activeByType' \in [Types -> Nat] /\ activeJobs' \subseteq Jobs
      BY <2>5, <3>1 DEF ClaimReturn
    <3>4. batch' \subseteq batch
      BY <2>5 DEF ClaimReturn
    <3>5. QED BY <2>5, <3>2, <3>3, <3>4 DEF ClaimReturn, dbVars, bootVars
  <2>6. CASE PollEnd
    BY <2>6 DEF PollEnd, dbVars, bootVars, slotVars
  <2>7. QED BY <1>8, <2>1, <2>2, <2>3, <2>4, <2>5, <2>6 DEF PollStep
<1>9. ASSUME NEW j \in Jobs, Execute(j)
      PROVE  TypeInv'
  <2>1. ASSUME NEW s \in Terminal, HandlerReturn(j, s)
        PROVE  TypeInv'
    <3>1. s \in Statuses BY DEF Terminal, Statuses
    <3>2. WriteStatus(row[j], s) \in [status : Statuses, runAt : Nat]
      BY <3>1, WriteStatusType
    <3>3. QED BY <2>1, <3>2
              DEF HandlerReturn, bootVars, slotVars, pollVars, ExecStates
  <2>2. CASE Requeue(j)
    BY <2>2 DEF Requeue, bootVars, slotVars, pollVars, Statuses, ExecStates
  <2>3. CASE Cleanup(j)
    <3>1. \A n \in Nat : ReleaseSlot(n) \in Nat
      BY DEF ReleaseSlot
    <3>2. activeByType' \in [Types -> Nat]
      BY <2>3, <3>1 DEF Cleanup
    <3>3. QED BY <2>3, <3>2 DEF Cleanup, dbVars, bootVars, pollVars, ExecStates
  <2>4. QED BY <1>9, <2>1, <2>2, <2>3 DEF Execute
<1>10. ASSUME NEW j \in Jobs, WriteLost(j)
       PROVE  TypeInv'
  BY <1>10 DEF WriteLost, dbVars, bootVars, slotVars, pollVars, ExecStates
<1>11. CASE UNCHANGED vars
  BY <1>11 DEF vars, dbVars, bootVars, slotVars, pollVars
<1>12. QED
  BY <1>1, <1>2, <1>3, <1>4, <1>5, <1>6, <1>7, <1>8, <1>9, <1>10, <1>11 DEF Next

(* Every variable keeps its type: in particular the limits stay in 1..20
   whatever setMaxConcurrent is asked for. *)
THEOREM TypeCorrect == Spec => []TypeOK
<1>1. Init => TypeInv BY TypeInitially
<1>2. TypeInv /\ [Next]_vars => TypeInv' BY TypeStep
<1>3. TypeInv => TypeOK BY DEF TypeInv
<1>4. QED BY <1>1, <1>2, <1>3, PTL DEF Spec

-----------------------------------------------------------------------------
(* The inductive invariant behind the safety theorems. *)

(* activeJobs is the set of jobs executeJob is working on, always finite. *)
ActiveIffExecuting ==
  /\ IsFiniteSet(activeJobs)
  /\ \A j \in Jobs : j \in activeJobs <=> exec[j] # "idle"

(* What is left of the batch is fetched rows nobody executes, one per job. *)
BatchIsFree ==
  /\ \A b \in batch : b.job \notin activeJobs
  /\ \A b, c \in batch : b.job = c.job => b = c
  /\ pollPc = "idle" => batch = {}

(* While a claim is outstanding, the value of activeByType read for it still
   covers the executions: they may have finished since, but none started. *)
ClaimIsFresh ==
  pollPc \in {"claim", "claimed"} =>
    /\ claim.job \notin activeJobs
    /\ \A b \in batch : b.job # claim.job
    /\ Cardinality(Executing(JobType[claim.job])) <= claim.seen
    /\ claim.seen < claim.limit

SlotInv ==
  /\ TypeInv
  /\ ActiveIffExecuting
  /\ BatchIsFree
  /\ ClaimIsFresh
  /\ SlotsCoverExecutions

(* Facts about the jobs of one type in a set of active jobs. *)
OfType(S, t) == {j \in S : JobType[j] = t}

LEMMA OfTypeFinite ==
  ASSUME NEW S, IsFiniteSet(S), NEW t
  PROVE  IsFiniteSet(OfType(S, t)) /\ Cardinality(OfType(S, t)) \in Nat
<1>1. OfType(S, t) \in SUBSET S BY DEF OfType
<1>2. IsFiniteSet(OfType(S, t)) BY <1>1, FS_Subset
<1>3. QED BY <1>2, FS_CardinalityType

LEMMA OfTypeAdd ==
  ASSUME NEW S, IsFiniteSet(S), NEW j, j \notin S, NEW t
  PROVE  Cardinality(OfType(S \cup {j}, t)) =
           IF JobType[j] = t THEN Cardinality(OfType(S, t)) + 1
                             ELSE Cardinality(OfType(S, t))
<1>1. CASE JobType[j] = t
  <2>1. OfType(S \cup {j}, t) = OfType(S, t) \cup {j} /\ j \notin OfType(S, t)
    BY <1>1 DEF OfType
  <2>2. QED BY <1>1, <2>1, OfTypeFinite, FS_AddElement
<1>2. CASE JobType[j] # t
  <2>1. OfType(S \cup {j}, t) = OfType(S, t)
    BY <1>2 DEF OfType
  <2>2. QED BY <1>2, <2>1
<1>3. QED BY <1>1, <1>2

LEMMA OfTypeRemove ==
  ASSUME NEW S, IsFiniteSet(S), NEW j, j \in S, NEW t
  PROVE  Cardinality(OfType(S \ {j}, t)) =
           IF JobType[j] = t THEN Cardinality(OfType(S, t)) - 1
                             ELSE Cardinality(OfType(S, t))
<1>1. CASE JobType[j] = t
  <2>1. OfType(S \ {j}, t) = OfType(S, t) \ {j} /\ j \in OfType(S, t)
    BY <1>1 DEF OfType
  <2>2. QED BY <1>1, <2>1, OfTypeFinite, FS_RemoveElement
<1>2. CASE JobType[j] # t
  <2>1. OfType(S \ {j}, t) = OfType(S, t)
    BY <1>2 DEF OfType
  <2>2. QED BY <1>2, <2>1
<1>3. QED BY <1>1, <1>2

LEMMA OfTypeEmpty == \A t : Cardinality(OfType({}, t)) = 0
<1>1. \A t : OfType({}, t) = {} BY DEF OfType
<1>2. QED BY <1>1, FS_EmptySet

LEMMA ExecutingIsOfType == \A t : Executing(t) = OfType(activeJobs, t)
  BY DEF Executing, OfType

LEMMA ExecutingIsOfTypeNext == \A t : Executing(t)' = OfType(activeJobs', t)
  BY DEF Executing, OfType

LEMMA SlotInitially == Init => SlotInv
<1> SUFFICES ASSUME Init PROVE SlotInv
  OBVIOUS
<1>1. TypeInv BY TypeInitially
<1>2. ActiveIffExecuting
  BY FS_EmptySet DEF Init, MemoryInit, ActiveIffExecuting
<1>3. BatchIsFree /\ ClaimIsFresh
  BY DEF Init, MemoryInit, BatchIsFree, ClaimIsFresh
<1>4. SlotsCoverExecutions
  BY OfTypeEmpty, ExecutingIsOfType DEF Init, MemoryInit, SlotsCoverExecutions
<1>5. QED BY <1>1, <1>2, <1>3, <1>4 DEF SlotInv

(* A step that touches neither the slots, nor the poll, nor the set of
   executing jobs keeps the invariant. *)
LEMMA SlotFrame ==
  ASSUME SlotInv, TypeInv', UNCHANGED <<slotVars, pollVars>>,
         \A j \in Jobs : exec'[j] # "idle" <=> exec[j] # "idle"
  PROVE  SlotInv'
<1>1. /\ activeJobs' = activeJobs /\ activeByType' = activeByType
      /\ pollPc' = pollPc /\ batch' = batch /\ claim' = claim
  BY DEF slotVars, pollVars
<1>2. ActiveIffExecuting'
  BY <1>1 DEF SlotInv, ActiveIffExecuting
<1>3. BatchIsFree'
  BY <1>1 DEF SlotInv, BatchIsFree
<1>4. ClaimIsFresh' /\ SlotsCoverExecutions'
  BY <1>1 DEF SlotInv, ClaimIsFresh, SlotsCoverExecutions, Executing
<1>5. QED BY <1>2, <1>3, <1>4 DEF SlotInv

(* A step of the poll loop that starts no execution. *)
LEMMA SlotPollFrame ==
  ASSUME SlotInv, UNCHANGED <<slotVars, exec>>
  PROVE  ActiveIffExecuting' /\ SlotsCoverExecutions'
<1>1. activeJobs' = activeJobs /\ activeByType' = activeByType /\ exec' = exec
  BY DEF slotVars
<1>2. QED
  BY <1>1 DEF SlotInv, ActiveIffExecuting, SlotsCoverExecutions, Executing

(* poll() from its findMany to the return of a claim. *)
LEMMA SlotPollBegin == SlotInv /\ TypeInv' /\ PollBegin => SlotInv'
<1> SUFFICES ASSUME SlotInv, TypeInv', PollBegin PROVE SlotInv'
  OBVIOUS
<1>1. ActiveIffExecuting' /\ SlotsCoverExecutions'
  BY SlotPollFrame DEF PollBegin
<1>2. batch' \subseteq Candidates /\ activeJobs' = activeJobs
  BY DEF PollBegin, FirstRows, slotVars
<1>3. \A b \in Candidates : b.job \notin activeJobs
  BY DEF Candidates
<1>4. \A b, c \in Candidates : b.job = c.job => b = c
  BY DEF Candidates
<1>5. BatchIsFree'
  BY <1>2, <1>3, <1>4 DEF PollBegin, BatchIsFree
<1>6. ClaimIsFresh'
  BY DEF PollBegin, ClaimIsFresh
<1>7. QED BY <1>1, <1>5, <1>6 DEF SlotInv

LEMMA SlotClaimSend ==
  ASSUME NEW b \in batch, SlotInv, TypeInv', ClaimSend(b)
  PROVE  SlotInv'
<1>1. ActiveIffExecuting' /\ SlotsCoverExecutions'
  BY SlotPollFrame DEF ClaimSend
<1>2. /\ batch' = batch \ {b} /\ activeJobs' = activeJobs
      /\ claim' = [job |-> b.job, seen |-> activeByType[JobType[b.job]],
                   limit |-> limit[JobType[b.job]]]
      /\ pollPc' = "claim"
  BY DEF ClaimSend, slotVars
<1>3. BatchIsFree'
  BY <1>2 DEF SlotInv, BatchIsFree
<1>4. b.job \in Jobs /\ JobType[b.job] \in Types
  BY DEF SlotInv, TypeInv, TypeOK
<1>5. Cardinality(Executing(JobType[b.job])) <= activeByType[JobType[b.job]]
  BY <1>4 DEF SlotInv, SlotsCoverExecutions
<1>6. Executing(JobType[b.job])' = Executing(JobType[b.job])
  BY <1>2 DEF Executing
<1>7. ClaimIsFresh'
  <2>1. b.job \notin activeJobs /\ \A c \in batch \ {b} : c.job # b.job
    BY DEF SlotInv, BatchIsFree
  <2>2. activeByType[JobType[b.job]] < limit[JobType[b.job]]
    BY DEF ClaimSend
  <2>3. claim'.job = b.job
    BY <1>2
  <2>4. Cardinality(Executing(JobType[claim.job])') <= claim'.seen
    BY <1>2, <1>5, <1>6, <2>3 DEF Executing
  <2>5. claim'.seen < claim'.limit
    BY <1>2, <2>2
  <2>6. QED BY <1>2, <2>1, <2>3, <2>4, <2>5 DEF ClaimIsFresh, Executing
<1>8. QED BY <1>1, <1>3, <1>7 DEF SlotInv

LEMMA SlotClaimReturn == SlotInv /\ TypeInv' /\ ClaimReturn => SlotInv'
<1> SUFFICES ASSUME SlotInv, TypeInv', ClaimReturn PROVE SlotInv'
  OBVIOUS
<1> DEFINE j == claim.job
           t == JobType[j]
<1>1. /\ j \in Jobs /\ t \in Types /\ claim.seen \in Nat
      /\ j \notin activeJobs /\ IsFiniteSet(activeJobs)
      /\ Cardinality(Executing(t)) <= claim.seen
  BY DEF SlotInv, TypeInv, TypeOK, ClaimIsSet, Claims, ClaimReturn,
         ClaimIsFresh, ActiveIffExecuting
<1>2. /\ activeJobs' = activeJobs \cup {j}
      /\ activeByType' = [activeByType EXCEPT ![t] = claim.seen + 1]
      /\ exec' = [exec EXCEPT ![j] =
                    IF t \in registered THEN "running" ELSE "unhandled"]
      /\ batch' \subseteq batch /\ pollPc' = "scan"
  BY DEF ClaimReturn
<1>3. ActiveIffExecuting'
  <2>1. IsFiniteSet(activeJobs') BY <1>1, <1>2, FS_AddElement
  <2>2. \A k \in Jobs : k \in activeJobs' <=> exec'[k] # "idle"
    BY <1>1, <1>2 DEF SlotInv, ActiveIffExecuting, TypeInv, TypeOK
  <2>3. QED BY <2>1, <2>2 DEF ActiveIffExecuting
<1>4. BatchIsFree'
  <2>1. \A b \in batch : b.job # j
    BY DEF SlotInv, ClaimIsFresh, ClaimReturn
  <2>2. QED BY <1>2, <2>1 DEF SlotInv, BatchIsFree
<1>5. ClaimIsFresh'
  BY <1>2 DEF ClaimIsFresh
<1>6. ASSUME NEW u \in Types
      PROVE  Cardinality(OfType(activeJobs', u)) <= activeByType'[u]
  <2>1. Cardinality(OfType(activeJobs, u)) <= activeByType[u]
    BY ExecutingIsOfType DEF SlotInv, SlotsCoverExecutions
  <2>2. Cardinality(OfType(activeJobs, u)) \in Nat
    BY <1>1, OfTypeFinite
  <2>3. CASE u = t
    <3>1. activeByType'[u] = claim.seen + 1
      BY <1>1, <1>2, <2>3 DEF SlotInv, TypeInv, TypeOK
    <3>2. Cardinality(OfType(activeJobs', u)) = Cardinality(OfType(activeJobs, u)) + 1
      BY <1>1, <1>2, <2>3, OfTypeAdd
    <3>3. Cardinality(OfType(activeJobs, u)) <= claim.seen
      BY <1>1, <2>3, ExecutingIsOfType
    <3>4. QED BY <1>1, <2>2, <3>1, <3>2, <3>3
  <2>4. CASE u # t
    <3>1. activeByType'[u] = activeByType[u]
      BY <1>2, <2>4 DEF SlotInv, TypeInv, TypeOK
    <3>2. Cardinality(OfType(activeJobs', u)) = Cardinality(OfType(activeJobs, u))
      BY <1>1, <1>2, <2>4, OfTypeAdd
    <3>3. QED BY <2>1, <3>1, <3>2
  <2>5. QED BY <2>3, <2>4
<1>7. SlotsCoverExecutions'
  BY <1>6, ExecutingIsOfTypeNext DEF SlotsCoverExecutions
<1>8. QED BY <1>3, <1>4, <1>5, <1>7 DEF SlotInv

LEMMA SlotCleanup ==
  ASSUME NEW j \in Jobs, SlotInv, TypeInv', Cleanup(j)
  PROVE  SlotInv'
<1> DEFINE t == JobType[j]
<1>1. /\ j \in activeJobs /\ t \in Types /\ IsFiniteSet(activeJobs)
  BY DEF Cleanup, SlotInv, ActiveIffExecuting
<1>2. /\ activeJobs' = activeJobs \ {j}
      /\ activeByType' = [activeByType EXCEPT ![t] = ReleaseSlot(activeByType[t])]
      /\ exec' = [exec EXCEPT ![j] = "idle"]
      /\ pollPc' = pollPc /\ batch' = batch /\ claim' = claim
  BY DEF Cleanup, pollVars
<1>3. ActiveIffExecuting'
  <2>1. IsFiniteSet(activeJobs') BY <1>1, <1>2, FS_RemoveElement
  <2>2. \A k \in Jobs : k \in activeJobs' <=> exec'[k] # "idle"
    BY <1>1, <1>2 DEF SlotInv, ActiveIffExecuting, TypeInv, TypeOK
  <2>3. QED BY <2>1, <2>2 DEF ActiveIffExecuting
<1>4. BatchIsFree'
  BY <1>2 DEF SlotInv, BatchIsFree
<1>5. ASSUME NEW u
      PROVE  /\ Cardinality(OfType(activeJobs, u)) \in Nat
             /\ Cardinality(OfType(activeJobs', u)) =
                  IF t = u THEN Cardinality(OfType(activeJobs, u)) - 1
                           ELSE Cardinality(OfType(activeJobs, u))
  BY <1>1, <1>2, OfTypeFinite, OfTypeRemove
<1>6. ClaimIsFresh'
  <2> SUFFICES ASSUME pollPc \in {"claim", "claimed"}
               PROVE  /\ claim.job \notin activeJobs'
                      /\ \A b \in batch : b.job # claim.job
                      /\ Cardinality(OfType(activeJobs', JobType[claim.job]))
                           <= claim.seen
                      /\ claim.seen < claim.limit
    BY <1>2, ExecutingIsOfTypeNext DEF ClaimIsFresh
  <2>1. /\ claim.job \notin activeJobs
        /\ \A b \in batch : b.job # claim.job
        /\ Cardinality(OfType(activeJobs, JobType[claim.job])) <= claim.seen
        /\ claim.seen < claim.limit
    BY ExecutingIsOfType DEF SlotInv, ClaimIsFresh
  <2>2. claim.seen \in Nat
    BY DEF SlotInv, TypeInv, ClaimIsSet, Claims
  <2>3. Cardinality(OfType(activeJobs', JobType[claim.job])) <= claim.seen
    BY <1>5, <2>1, <2>2
  <2>4. QED BY <1>2, <2>1, <2>3
<1>7. ASSUME NEW u \in Types
      PROVE  Cardinality(OfType(activeJobs', u)) <= activeByType'[u]
  <2>1. /\ Cardinality(OfType(activeJobs, u)) <= activeByType[u]
        /\ activeByType[u] \in Nat
    BY ExecutingIsOfType DEF SlotInv, SlotsCoverExecutions, TypeInv, TypeOK
  <2>2. activeByType'[u] = IF u = t THEN ReleaseSlot(activeByType[u])
                                    ELSE activeByType[u]
    BY <1>2 DEF SlotInv, TypeInv, TypeOK
  <2>3. Cardinality(OfType(activeJobs, u)) \in Nat
    BY <1>5
  <2>4. QED BY <1>5, <2>1, <2>2, <2>3 DEF ReleaseSlot
<1>8. SlotsCoverExecutions'
  BY <1>7, ExecutingIsOfTypeNext DEF SlotsCoverExecutions
<1>9. QED BY <1>3, <1>4, <1>6, <1>8 DEF SlotInv

LEMMA SlotStep == SlotInv /\ [Next]_vars => SlotInv'
<1> SUFFICES ASSUME SlotInv, [Next]_vars PROVE SlotInv'
  OBVIOUS
<1>0. TypeInv'
  BY TypeStep DEF SlotInv
<1>1. CASE Crash
  <2>1. ActiveIffExecuting'
    BY <1>1, FS_EmptySet DEF Crash, ActiveIffExecuting
  <2>2. BatchIsFree' /\ ClaimIsFresh'
    BY <1>1 DEF Crash, BatchIsFree, ClaimIsFresh
  <2>3. SlotsCoverExecutions'
    BY <1>1, OfTypeEmpty, ExecutingIsOfTypeNext DEF Crash, SlotsCoverExecutions
  <2>4. QED BY <1>0, <2>1, <2>2, <2>3 DEF SlotInv
<1>2. CASE Tick
  BY <1>0, <1>2, SlotFrame DEF Tick
<1>3. CASE Boot
  <2>1. UNCHANGED <<slotVars, pollVars, exec>>
    BY <1>3 DEF Boot, StartBegin, StartFinish, RegisterHandler
  <2>2. QED BY <1>0, <2>1, SlotFrame
<1>4. ASSUME NEW j \in Jobs, NEW at \in 0 .. MaxClock, Enqueue(j, at)
      PROVE  SlotInv'
  BY <1>0, <1>4, SlotFrame DEF Enqueue
<1>5. ASSUME NEW j \in Jobs, DeletePending(j)
      PROVE  SlotInv'
  BY <1>0, <1>5, SlotFrame DEF DeletePending
<1>6. ASSUME NEW m \in LimitRequests, SetMaxConcurrent(m)
      PROVE  SlotInv'
  BY <1>0, <1>6, SlotFrame DEF SetMaxConcurrent
<1>7. CASE PollBegin
  BY <1>0, <1>7, SlotPollBegin
<1>8. CASE PollStep
  <2>1. ASSUME NEW b \in batch, SkipAtLimit(b)
        PROVE  SlotInv'
    <3>1. ActiveIffExecuting' /\ SlotsCoverExecutions'
      BY <2>1, SlotPollFrame DEF SkipAtLimit
    <3>2. BatchIsFree' /\ ClaimIsFresh'
      BY <2>1 DEF SkipAtLimit, SlotInv, BatchIsFree, ClaimIsFresh, slotVars
    <3>3. QED BY <1>0, <3>1, <3>2 DEF SlotInv
  <2>2. ASSUME NEW b \in batch, ClaimSend(b)
        PROVE  SlotInv'
    BY <1>0, <2>2, SlotClaimSend
  <2>3. CASE ClaimApply
    <3>1. ActiveIffExecuting' /\ SlotsCoverExecutions'
      BY <2>3, SlotPollFrame DEF ClaimApply
    <3>2. BatchIsFree' /\ ClaimIsFresh'
      BY <2>3 DEF ClaimApply, SlotInv, BatchIsFree, ClaimIsFresh, Executing, slotVars
    <3>3. QED BY <1>0, <3>1, <3>2 DEF SlotInv
  <2>4. CASE ClaimMiss
    <3>1. ActiveIffExecuting' /\ SlotsCoverExecutions'
      BY <2>4, SlotPollFrame DEF ClaimMiss
    <3>2. BatchIsFree' /\ ClaimIsFresh'
      BY <2>4 DEF ClaimMiss, SlotInv, BatchIsFree, ClaimIsFresh, slotVars
    <3>3. QED BY <1>0, <3>1, <3>2 DEF SlotInv
  <2>5. CASE ClaimReturn
    BY <1>0, <2>5, SlotClaimReturn
  <2>6. CASE PollEnd
    <3>1. ActiveIffExecuting' /\ SlotsCoverExecutions'
      BY <2>6, SlotPollFrame DEF PollEnd
    <3>2. BatchIsFree' /\ ClaimIsFresh'
      BY <2>6 DEF PollEnd, BatchIsFree, ClaimIsFresh
    <3>3. QED BY <1>0, <3>1, <3>2 DEF SlotInv
  <2>7. QED BY <1>8, <2>1, <2>2, <2>3, <2>4, <2>5, <2>6 DEF PollStep
<1>9. ASSUME NEW j \in Jobs, Execute(j)
      PROVE  SlotInv'
  <2>1. ASSUME NEW s \in Terminal, HandlerReturn(j, s)
        PROVE  SlotInv'
    <3>1. \A k \in Jobs : exec'[k] # "idle" <=> exec[k] # "idle"
      BY <2>1 DEF HandlerReturn, SlotInv, TypeInv, TypeOK
    <3>2. QED BY <1>0, <2>1, <3>1, SlotFrame DEF HandlerReturn
  <2>2. CASE Requeue(j)
    <3>1. \A k \in Jobs : exec'[k] # "idle" <=> exec[k] # "idle"
      BY <2>2 DEF Requeue, SlotInv, TypeInv, TypeOK
    <3>2. QED BY <1>0, <2>2, <3>1, SlotFrame DEF Requeue
  <2>3. CASE Cleanup(j)
    BY <1>0, <2>3, SlotCleanup
  <2>4. QED BY <1>9, <2>1, <2>2, <2>3 DEF Execute
<1>10. ASSUME NEW j \in Jobs, WriteLost(j)
       PROVE  SlotInv'
  <2>1. \A k \in Jobs : exec'[k] # "idle" <=> exec[k] # "idle"
    BY <1>10 DEF WriteLost, SlotInv, TypeInv, TypeOK
  <2>2. QED BY <1>0, <1>10, <2>1, SlotFrame DEF WriteLost
<1>11. CASE UNCHANGED vars
  BY <1>0, <1>11, SlotFrame DEF vars
<1>12. QED
  BY <1>1, <1>2, <1>3, <1>4, <1>5, <1>6, <1>7, <1>8, <1>9, <1>10, <1>11 DEF Next

LEMMA SlotInvariant == Spec => []SlotInv
<1>1. QED BY SlotInitially, SlotStep, PTL DEF Spec

(* The concurrency counter of a type is never below the number of jobs of
   that type that are executing. *)
THEOREM SlotsAreCovered == Spec => []SlotsCoverExecutions
<1>1. SlotInv => SlotsCoverExecutions BY DEF SlotInv
<1>2. QED BY <1>1, SlotInvariant, PTL

(* No row is claimed while an execution of it is in progress. *)
THEOREM NothingStartsTwice == Spec => []NoDoubleStart
<1>1. SlotInv => NoDoubleStart
  BY DEF SlotInv, NoDoubleStart, ClaimIsFresh, ActiveIffExecuting, TypeInv,
         ClaimIsSet, Claims
<1>2. QED BY <1>1, SlotInvariant, PTL

(* Only the return of a claim starts a job. *)
LEMMA OnlyClaimReturnStarts ==
  TypeInv /\ [Next]_vars /\ ~ClaimReturn => activeJobs' \subseteq activeJobs
<1> SUFFICES ASSUME TypeInv, [Next]_vars, ~ClaimReturn
             PROVE  activeJobs' \subseteq activeJobs
  OBVIOUS
<1>1. CASE Crash BY <1>1 DEF Crash
<1>2. CASE PollStep
  BY <1>2 DEF PollStep, SkipAtLimit, ClaimSend, ClaimApply, ClaimMiss, PollEnd,
              slotVars
<1>3. ASSUME NEW j \in Jobs, Execute(j)
      PROVE  activeJobs' \subseteq activeJobs
  BY <1>3 DEF Execute, HandlerReturn, Requeue, Cleanup, slotVars
<1>4. CASE Boot
  BY <1>4 DEF Boot, StartBegin, StartFinish, RegisterHandler, slotVars
<1>5. CASE Tick \/ PollBegin \/ UNCHANGED vars
  BY <1>5 DEF Tick, PollBegin, slotVars, vars
<1>6. ASSUME NEW j \in Jobs, DeletePending(j) \/ WriteLost(j)
      PROVE  activeJobs' \subseteq activeJobs
  BY <1>6 DEF DeletePending, WriteLost, slotVars
<1>7. ASSUME NEW j \in Jobs, NEW at \in 0 .. MaxClock, Enqueue(j, at)
      PROVE  activeJobs' \subseteq activeJobs
  BY <1>7 DEF Enqueue, slotVars
<1>8. ASSUME NEW m \in LimitRequests, SetMaxConcurrent(m)
      PROVE  activeJobs' \subseteq activeJobs
  BY <1>8 DEF SetMaxConcurrent, slotVars
<1>9. QED BY <1>1, <1>2, <1>3, <1>4, <1>5, <1>6, <1>7, <1>8 DEF Next

LEMMA StartStep == SlotInv /\ [Next]_vars => [StartsWithinLimit]_vars
<1> SUFFICES ASSUME SlotInv, [Next]_vars,
                    NEW j \in activeJobs' \ activeJobs
             PROVE  Cardinality(OfType(activeJobs', JobType[j])) <= claim.limit
  BY DEF StartsWithinLimit, OfType
<1>1. ClaimReturn
  BY OnlyClaimReturnStarts DEF SlotInv
<1>2. j = claim.job /\ activeJobs' = activeJobs \cup {j}
  BY <1>1 DEF ClaimReturn
<1>3. /\ Cardinality(OfType(activeJobs, JobType[j])) <= claim.seen
      /\ claim.seen < claim.limit /\ claim.seen \in Nat /\ claim.limit \in Nat
      /\ IsFiniteSet(activeJobs)
  BY <1>1, <1>2, ExecutingIsOfType
     DEF ClaimReturn, SlotInv, ClaimIsFresh, TypeInv, ClaimIsSet, Claims,
         ActiveIffExecuting
<1>4. Cardinality(OfType(activeJobs, JobType[j])) \in Nat
  BY <1>3, OfTypeFinite
<1>5. Cardinality(OfType(activeJobs', JobType[j])) =
        Cardinality(OfType(activeJobs, JobType[j])) + 1
  BY <1>2, <1>3, OfTypeAdd
<1>6. QED BY <1>3, <1>4, <1>5

(* No start takes a type past the limit that was read for it. *)
THEOREM StartsRespectTheLimit == Spec => ClaimWithinLimit
<1>1. SlotInv /\ [Next]_vars => [StartsWithinLimit]_vars BY StartStep
<1>2. QED BY <1>1, SlotInvariant, PTL DEF Spec, ClaimWithinLimit

-----------------------------------------------------------------------------
(* How much the stale write can leak.  The claim adds its own job to a count *)
(* it read below the limit, so however many jobs finished meanwhile the      *)
(* count exceeds the executions by less than the limit.                      *)

LeakBounded ==
  \A t \in Types :
    activeByType[t] - Cardinality(Executing(t)) < limit[t]

ClaimLimitCurrent ==
  pollPc \in {"claim", "claimed"} => claim.limit = limit[JobType[claim.job]]

LeakInv == SlotInv /\ LeakBounded /\ ClaimLimitCurrent

LEMMA LeakInitially == Init => LeakInv
<1> SUFFICES ASSUME Init PROVE LeakInv
  OBVIOUS
<1>1. SlotInv BY SlotInitially
<1>2. LeakBounded
  BY OfTypeEmpty, ExecutingIsOfType DEF Init, MemoryInit, LeakBounded
<1>3. ClaimLimitCurrent
  BY DEF Init, MemoryInit, ClaimLimitCurrent
<1>4. QED BY <1>1, <1>2, <1>3 DEF LeakInv

LEMMA LeakFrame ==
  ASSUME LeakInv, SlotInv', UNCHANGED <<limit, slotVars>>,
         \/ UNCHANGED pollVars
         \/ pollPc' \notin {"claim", "claimed"}
         \/ pollPc = "claim" /\ claim' = claim
  PROVE  LeakInv'
<1>1. activeJobs' = activeJobs /\ activeByType' = activeByType /\ limit' = limit
  BY DEF slotVars
<1>2. LeakBounded'
  BY <1>1 DEF LeakInv, LeakBounded, Executing
<1>3. ClaimLimitCurrent'
  BY <1>1 DEF LeakInv, ClaimLimitCurrent, pollVars
<1>4. QED BY <1>2, <1>3 DEF LeakInv

LEMMA LeakClaimReturn ==
  ASSUME LeakInv, SlotInv', ClaimReturn
  PROVE  LeakInv'
<1> DEFINE j == claim.job
           t == JobType[j]
<1>1. /\ j \in Jobs /\ t \in Types /\ j \notin activeJobs
      /\ claim.seen \in Nat /\ claim.seen < limit[t]
      /\ IsFiniteSet(activeJobs)
  BY DEF LeakInv, ClaimLimitCurrent, SlotInv, TypeInv, ClaimIsSet, Claims,
         ClaimReturn, ClaimIsFresh, ActiveIffExecuting
<1>2. /\ activeJobs' = activeJobs \cup {j}
      /\ activeByType' = [activeByType EXCEPT ![t] = claim.seen + 1]
      /\ limit' = limit /\ pollPc' = "scan"
  BY DEF ClaimReturn
<1>3. ASSUME NEW u \in Types
      PROVE  activeByType'[u] - Cardinality(OfType(activeJobs', u)) < limit[u]
  <2>1. /\ activeByType[u] - Cardinality(OfType(activeJobs, u)) < limit[u]
        /\ activeByType[u] \in Nat /\ limit[u] \in Nat
    BY ExecutingIsOfType DEF LeakInv, LeakBounded, SlotInv, TypeInv, TypeOK
  <2>2. Cardinality(OfType(activeJobs, u)) \in Nat
    BY <1>1, OfTypeFinite
  <2>3. Cardinality(OfType(activeJobs', u)) =
          IF t = u THEN Cardinality(OfType(activeJobs, u)) + 1
                   ELSE Cardinality(OfType(activeJobs, u))
    BY <1>1, <1>2, OfTypeAdd
  <2>4. activeByType'[u] = IF u = t THEN claim.seen + 1 ELSE activeByType[u]
    BY <1>1, <1>2 DEF LeakInv, SlotInv, TypeInv, TypeOK
  <2>5. QED BY <1>1, <2>1, <2>2, <2>3, <2>4
<1>4. LeakBounded'
  BY <1>2, <1>3, ExecutingIsOfTypeNext DEF LeakBounded
<1>5. ClaimLimitCurrent'
  BY <1>2 DEF ClaimLimitCurrent
<1>6. QED BY <1>4, <1>5 DEF LeakInv

LEMMA LeakCleanup ==
  ASSUME NEW j \in Jobs, LeakInv, SlotInv', Cleanup(j)
  PROVE  LeakInv'
<1> DEFINE t == JobType[j]
<1>1. j \in activeJobs /\ t \in Types /\ IsFiniteSet(activeJobs)
  BY DEF Cleanup, LeakInv, SlotInv, ActiveIffExecuting
<1>2. /\ activeJobs' = activeJobs \ {j}
      /\ activeByType' = [activeByType EXCEPT ![t] = ReleaseSlot(activeByType[t])]
      /\ limit' = limit /\ pollPc' = pollPc /\ claim' = claim
  BY DEF Cleanup, pollVars
<1>3. ASSUME NEW u \in Types
      PROVE  activeByType'[u] - Cardinality(OfType(activeJobs', u)) < limit[u]
  <2>1. /\ activeByType[u] - Cardinality(OfType(activeJobs, u)) < limit[u]
        /\ Cardinality(OfType(activeJobs, u)) <= activeByType[u]
        /\ activeByType[u] \in Nat /\ limit[u] \in 1 .. 20
    BY ExecutingIsOfType
       DEF LeakInv, LeakBounded, SlotInv, SlotsCoverExecutions, TypeInv, TypeOK
  <2>2. /\ Cardinality(OfType(activeJobs, u)) \in Nat
        /\ Cardinality(OfType(activeJobs', u)) \in Nat
    BY <1>1, <1>2, OfTypeFinite, FS_RemoveElement
  <2>3. Cardinality(OfType(activeJobs', u)) =
          IF t = u THEN Cardinality(OfType(activeJobs, u)) - 1
                   ELSE Cardinality(OfType(activeJobs, u))
    BY <1>1, <1>2, OfTypeRemove
  <2>4. activeByType'[u] = IF u = t THEN ReleaseSlot(activeByType[u])
                                    ELSE activeByType[u]
    BY <1>2 DEF LeakInv, SlotInv, TypeInv, TypeOK
  <2>5. QED BY <2>1, <2>2, <2>3, <2>4 DEF ReleaseSlot
<1>4. LeakBounded'
  BY <1>2, <1>3, ExecutingIsOfTypeNext DEF LeakBounded
<1>5. ClaimLimitCurrent'
  BY <1>2 DEF LeakInv, ClaimLimitCurrent
<1>6. QED BY <1>4, <1>5 DEF LeakInv

LEMMA LeakStep ==
  ASSUME LimitRequests = {}
  PROVE  LeakInv /\ [Next]_vars => LeakInv'
<1> SUFFICES ASSUME LeakInv, [Next]_vars PROVE LeakInv'
  OBVIOUS
<1>0. SlotInv'
  BY SlotStep DEF LeakInv
<1>1. CASE Crash
  <2>1. LeakBounded'
    BY <1>1, OfTypeEmpty, ExecutingIsOfTypeNext DEF Crash, LeakBounded
  <2>2. ClaimLimitCurrent'
    BY <1>1 DEF Crash, ClaimLimitCurrent
  <2>3. QED BY <1>0, <2>1, <2>2 DEF LeakInv
<1>2. CASE Tick
  BY <1>0, <1>2, LeakFrame DEF Tick
<1>3. CASE Boot
  <2>1. UNCHANGED <<limit, slotVars, pollVars>>
    BY <1>3 DEF Boot, StartBegin, StartFinish, RegisterHandler
  <2>2. QED BY <1>0, <2>1, LeakFrame
<1>4. ASSUME NEW j \in Jobs, NEW at \in 0 .. MaxClock, Enqueue(j, at)
      PROVE  LeakInv'
  BY <1>0, <1>4, LeakFrame DEF Enqueue
<1>5. ASSUME NEW j \in Jobs, DeletePending(j)
      PROVE  LeakInv'
  BY <1>0, <1>5, LeakFrame DEF DeletePending
<1>6. CASE PollBegin
  BY <1>0, <1>6, LeakFrame DEF PollBegin
<1>7. CASE PollStep
  <2>1. ASSUME NEW b \in batch, SkipAtLimit(b)
        PROVE  LeakInv'
    BY <1>0, <2>1, LeakFrame DEF SkipAtLimit
  <2>2. ASSUME NEW b \in batch, ClaimSend(b)
        PROVE  LeakInv'
    <3>1. activeJobs' = activeJobs /\ activeByType' = activeByType /\ limit' = limit
      BY <2>2 DEF ClaimSend, slotVars
    <3>2. LeakBounded'
      BY <3>1 DEF LeakInv, LeakBounded, Executing
    <3>3. ClaimLimitCurrent'
      BY <2>2, <3>1 DEF ClaimSend, ClaimLimitCurrent
    <3>4. QED BY <1>0, <3>2, <3>3 DEF LeakInv
  <2>3. CASE ClaimApply
    BY <1>0, <2>3, LeakFrame DEF ClaimApply
  <2>4. CASE ClaimMiss
    BY <1>0, <2>4, LeakFrame DEF ClaimMiss
  <2>5. CASE ClaimReturn
    BY <1>0, <2>5, LeakClaimReturn
  <2>6. CASE PollEnd
    BY <1>0, <2>6, LeakFrame DEF PollEnd
  <2>7. QED BY <1>7, <2>1, <2>2, <2>3, <2>4, <2>5, <2>6 DEF PollStep
<1>8. ASSUME NEW j \in Jobs, Execute(j)
      PROVE  LeakInv'
  <2>1. ASSUME NEW s \in Terminal, HandlerReturn(j, s)
        PROVE  LeakInv'
    BY <1>0, <2>1, LeakFrame DEF HandlerReturn
  <2>2. CASE Requeue(j)
    BY <1>0, <2>2, LeakFrame DEF Requeue
  <2>3. CASE Cleanup(j)
    BY <1>0, <2>3, LeakCleanup
  <2>4. QED BY <1>8, <2>1, <2>2, <2>3 DEF Execute
<1>9. ASSUME NEW j \in Jobs, WriteLost(j)
      PROVE  LeakInv'
  BY <1>0, <1>9, LeakFrame DEF WriteLost
<1>10. CASE UNCHANGED vars
  BY <1>0, <1>10, LeakFrame DEF vars
<1>11. QED
  BY <1>1, <1>2, <1>3, <1>4, <1>5, <1>6, <1>7, <1>8, <1>9, <1>10 DEF Next

(* While the limits are left alone a type with nothing executing always has
   a free slot, whatever the stale writes have leaked before. *)
THEOREM LeakNeverStarves ==
  ASSUME LimitRequests = {}
  PROVE  Spec => []OneSlotSurvives
<1>1. Init => LeakInv BY LeakInitially
<1>2. LeakInv /\ [Next]_vars => LeakInv' BY LeakStep
<1>3. LeakInv => OneSlotSurvives
  <2> SUFFICES ASSUME LeakInv, NEW t \in Types, Executing(t) = {}
               PROVE  activeByType[t] < limit[t]
    BY DEF OneSlotSurvives
  <2>1. Cardinality(Executing(t)) = 0 BY FS_EmptySet
  <2>2. activeByType[t] - Cardinality(Executing(t)) < limit[t]
    BY DEF LeakInv, LeakBounded
  <2>3. activeByType[t] \in Nat /\ limit[t] \in Nat
    BY DEF LeakInv, SlotInv, TypeInv, TypeOK
  <2>4. QED BY <2>1, <2>2, <2>3
<1>4. QED BY <1>1, <1>2, <1>3, PTL DEF Spec

-----------------------------------------------------------------------------
(* Rows that were claimed have somebody behind them. *)

(* The status of a job in progress; the row may have been put back to PENDING
   by start(), and deleted after that, but is not closed. *)
ProgressOnOpenRows ==
  \A j \in Jobs : InProgress(j) => row[j].status \in {"PENDING", "RUNNING", "DELETED"}

PhaseInv == SlotInv /\ ProgressOnOpenRows

(* An outstanding claim is of a job nobody executes. *)
LEMMA ClaimedIsIdle ==
  ASSUME SlotInv, pollPc \in {"claim", "claimed"}
  PROVE  claim.job \in Jobs /\ exec[claim.job] = "idle"
BY DEF SlotInv, ClaimIsFresh, ActiveIffExecuting, TypeInv, ClaimIsSet, Claims

LEMMA ProgressFrame ==
  ASSUME ProgressOnOpenRows,
         UNCHANGED <<exec, pollPc, claim>>,
         \A j \in Jobs : \/ row'[j].status = row[j].status
                         \/ row'[j].status \in {"PENDING", "RUNNING", "DELETED"}
  PROVE  ProgressOnOpenRows'
BY DEF ProgressOnOpenRows, InProgress

LEMMA ProgressStep ==
  ASSUME PhaseInv, [Next]_vars
  PROVE  ProgressOnOpenRows'
<1> USE DEF PhaseInv
<1>0. row \in [Jobs -> [status : Statuses, runAt : Nat]] /\ exec \in [Jobs -> ExecStates]
  BY DEF SlotInv, TypeInv, TypeOK
<1>1. CASE Crash
  BY <1>1 DEF Crash, ProgressOnOpenRows, InProgress
<1>2. CASE Tick \/ Boot \/ (\E m \in LimitRequests : SetMaxConcurrent(m))
  <2>1. UNCHANGED <<exec, pollPc, claim>>
    BY <1>2 DEF Tick, Boot, StartBegin, StartFinish, RegisterHandler, SetMaxConcurrent,
                pollVars
  <2>2. \A j \in Jobs : \/ row'[j].status = row[j].status
                        \/ row'[j].status \in {"PENDING", "RUNNING", "DELETED"}
    BY <1>0, <1>2 DEF Tick, Boot, StartBegin, StartFinish, RegisterHandler,
                SetMaxConcurrent, dbVars, ResetRow
  <2>3. QED BY <2>1, <2>2, ProgressFrame
<1>3. ASSUME NEW j \in Jobs, NEW at \in 0 .. MaxClock,
             Enqueue(j, at) \/ DeletePending(j)
      PROVE  ProgressOnOpenRows'
  <2>1. \A k \in Jobs : \/ row'[k].status = row[k].status
                        \/ row'[k].status \in {"PENDING", "RUNNING", "DELETED"}
    BY <1>0, <1>3 DEF Enqueue, DeletePending
  <2>2. QED BY <1>3, <2>1, ProgressFrame DEF Enqueue, DeletePending, pollVars
<1>4. CASE PollBegin \/ (\E b \in batch : SkipAtLimit(b) \/ ClaimSend(b))
           \/ ClaimMiss \/ PollEnd
  BY <1>4 DEF PollBegin, SkipAtLimit, ClaimSend, ClaimMiss, PollEnd, dbVars,
              ProgressOnOpenRows, InProgress
<1>5. CASE ClaimApply
  BY <1>0, <1>5, ClaimedIsIdle DEF ClaimApply, ProgressOnOpenRows, InProgress
<1>6. CASE ClaimReturn
  BY <1>0, <1>6, ClaimedIsIdle DEF ClaimReturn, dbVars, ProgressOnOpenRows, InProgress
<1>7. ASSUME NEW j \in Jobs,
             (\E s \in Terminal : HandlerReturn(j, s)) \/ Requeue(j) \/ Cleanup(j)
               \/ WriteLost(j)
      PROVE  ProgressOnOpenRows'
  <2>1. exec'[j] \in {"closing", "idle"} /\ exec[j] # "idle"
    BY <1>0, <1>7 DEF HandlerReturn, Requeue, Cleanup, WriteLost
  <2>2. ~InProgress(j)'
    BY <1>7, <2>1, ClaimedIsIdle
       DEF HandlerReturn, Requeue, Cleanup, WriteLost, pollVars, InProgress
  <2>3. \A k \in Jobs \ {j} : /\ row'[k] = row[k]
                              /\ InProgress(k)' <=> InProgress(k)
    BY <1>0, <1>7 DEF HandlerReturn, Requeue, Cleanup, WriteLost, pollVars, dbVars,
                      InProgress
  <2>4. QED BY <2>2, <2>3 DEF ProgressOnOpenRows
<1>8. CASE UNCHANGED vars
  BY <1>8, ProgressFrame DEF vars, dbVars, pollVars
<1>9. QED
  BY <1>1, <1>2, <1>3, <1>4, <1>5, <1>6, <1>7, <1>8
     DEF Next, PollStep, Execute

LEMMA PhaseInvariant == Spec => []PhaseInv
<1>1. Init => PhaseInv
  <2>1. Init => ProgressOnOpenRows
    BY DEF Init, MemoryInit, ProgressOnOpenRows, InProgress
  <2>2. QED BY <2>1, SlotInitially DEF PhaseInv
<1>2. PhaseInv /\ [Next]_vars => PhaseInv'
  BY SlotStep, ProgressStep DEF PhaseInv
<1>3. QED BY <1>1, <1>2, PTL DEF Spec

(* Without lost writes a row leaves RUNNING before its execution closes. *)
LEMMA OwnedStep ==
  ASSUME DbFaults = FALSE, PhaseInv, RunningRowsOwned, [Next]_vars
  PROVE  RunningRowsOwned'
<1> USE DEF PhaseInv, RunningRowsOwned
<1>0. row \in [Jobs -> [status : Statuses, runAt : Nat]] /\ exec \in [Jobs -> ExecStates]
  BY DEF SlotInv, TypeInv, TypeOK
<1>1. CASE Crash
  BY <1>1 DEF Crash
<1>2. CASE Boot
  BY <1>0, <1>2 DEF Boot, StartBegin, StartFinish, RegisterHandler, ResetRow,
                    pollVars, dbVars
<1>3. CASE Tick \/ (\E m \in LimitRequests : SetMaxConcurrent(m))
  BY <1>3 DEF Tick, SetMaxConcurrent, pollVars, dbVars, bootVars
<1>4. ASSUME NEW j \in Jobs, NEW at \in 0 .. MaxClock,
             Enqueue(j, at) \/ DeletePending(j)
      PROVE  RunningRowsOwned'
  <2>1. row'[j].status # "RUNNING" /\ \A k \in Jobs \ {j} : row'[k] = row[k]
    BY <1>0, <1>4 DEF Enqueue, DeletePending
  <2>2. UNCHANGED <<timer, exec, pollPc, claim>>
    BY <1>4 DEF Enqueue, DeletePending, bootVars, pollVars
  <2>3. QED BY <2>1, <2>2
<1>5. CASE PollBegin \/ (\E b \in batch : SkipAtLimit(b) \/ ClaimSend(b))
           \/ ClaimMiss \/ PollEnd
  BY <1>5 DEF PollBegin, SkipAtLimit, ClaimSend, ClaimMiss, PollEnd, dbVars, bootVars
<1>6. CASE ClaimApply
  BY <1>0, <1>6, ClaimedIsIdle DEF ClaimApply, bootVars
<1>7. CASE ClaimReturn
  BY <1>0, <1>7, ClaimedIsIdle DEF ClaimReturn, dbVars, bootVars
<1>8. ASSUME NEW j \in Jobs, NEW s \in Terminal, HandlerReturn(j, s)
      PROVE  RunningRowsOwned'
  <2>1. row'[j].status # "RUNNING"
    BY <1>0, <1>8 DEF HandlerReturn, WriteStatus, NoRow, Terminal
  <2>2. QED BY <1>0, <1>8, <2>1 DEF HandlerReturn, bootVars, pollVars
<1>9. ASSUME NEW j \in Jobs, Requeue(j)
      PROVE  RunningRowsOwned'
  <2>1. row'[j].status # "RUNNING"
    BY <1>0, <1>9 DEF Requeue, NoRow
  <2>2. QED BY <1>0, <1>9, <2>1 DEF Requeue, bootVars, pollVars
<1>10. ASSUME NEW j \in Jobs, Cleanup(j)
       PROVE  RunningRowsOwned'
  BY <1>0, <1>10 DEF Cleanup, dbVars, bootVars, pollVars
<1>11. ASSUME NEW j \in Jobs, WriteLost(j)
       PROVE  RunningRowsOwned'
  BY <1>11 DEF WriteLost
<1>12. CASE UNCHANGED vars
  BY <1>12 DEF vars, dbVars, bootVars, pollVars
<1>13. QED
  BY <1>1, <1>2, <1>3, <1>4, <1>5, <1>6, <1>7, <1>8, <1>9, <1>10, <1>11, <1>12
     DEF Next, PollStep, Execute

(* As long as the database answers, no RUNNING row is without an execution or
   a claim once the worker has started (queue.service.ts:45-53). *)
THEOREM RunningRowsAreOwned ==
  ASSUME DbFaults = FALSE
  PROVE  Spec => []RunningRowsOwned
<1>1. Init => RunningRowsOwned
  BY DEF Init, MemoryInit, RunningRowsOwned
<1>2. PhaseInv /\ RunningRowsOwned /\ [Next]_vars => RunningRowsOwned'
  BY OwnedStep
<1>3. QED BY <1>1, <1>2, PhaseInvariant, PTL DEF Spec

-----------------------------------------------------------------------------
(* The refinement: what a step of the worker is to the callers of enqueue().  *)
Phase == [j \in Jobs |-> JobPhase(j)]

LEMMA PhaseFrame ==
  ASSUME NEW j \in Jobs, InProgress(j)' <=> InProgress(j),
         ~InProgress(j) => \/ row'[j].status = row[j].status
                           \/ /\ row[j].status = "RUNNING"
                              /\ row'[j].status = "PENDING"
  PROVE  JobPhase(j)' = JobPhase(j)
BY DEF JobPhase, Terminal

LEMMA PhaseStutter ==
  ASSUME \A j \in Jobs : JobPhase(j)' = JobPhase(j)
  PROVE  Phase' = Phase
BY DEF Phase

LEMMA PhaseMove ==
  ASSUME NEW j \in Jobs, NEW from, NEW to,
         JobPhase(j) = from, JobPhase(j)' = to,
         \A k \in Jobs \ {j} : JobPhase(k)' = JobPhase(k)
  PROVE  Contract!Move(j, from, to)
BY DEF Phase, Contract!Move

(* Executions that end without an outcome. *)
LEMMA PhaseGiveUp ==
  ASSUME NEW S \in SUBSET Jobs, S # {},
         \A j \in S : /\ JobPhase(j) = "executing"
                      /\ JobPhase(j)' \in {"waiting", "withdrawn"},
         \A j \in Jobs \ S : JobPhase(j)' = JobPhase(j)
  PROVE  Contract!GiveUp(S)
<1> DEFINE W == {j \in S : JobPhase(j)' = "withdrawn"}
<1>1. W \in SUBSET S
  OBVIOUS
<1>2. Phase' = [j \in Jobs |-> IF j \in W THEN "withdrawn"
                               ELSE IF j \in S THEN "waiting" ELSE Phase[j]]
  BY DEF Phase
<1>3. QED BY <1>1, <1>2 DEF Phase, Contract!GiveUp

(* What an execution leaves when it ends without an outcome. *)
LEMMA EndedPhase ==
  ASSUME NEW j \in Jobs, ~InProgress(j)',
         row'[j].status \in {"PENDING", "RUNNING", "DELETED"}
  PROVE  JobPhase(j)' \in {"waiting", "withdrawn"}
BY DEF JobPhase, Terminal

LEMMA ContractStep ==
  ASSUME PhaseInv, [Next]_vars
  PROVE  Contract!Next \/ Phase' = Phase
<1> USE DEF PhaseInv
<1>0. row \in [Jobs -> [status : Statuses, runAt : Nat]] /\ exec \in [Jobs -> ExecStates]
  BY DEF SlotInv, TypeInv, TypeOK
<1>1. CASE Crash
  <2> DEFINE S == {j \in Jobs : InProgress(j)}
  <2>1. \A j \in Jobs : ~InProgress(j)' /\ row'[j] = row[j]
    BY <1>1 DEF Crash, InProgress, dbVars
  <2>2. \A j \in S : /\ JobPhase(j) = "executing"
                     /\ JobPhase(j)' \in {"waiting", "withdrawn"}
    BY <2>1, EndedPhase DEF ProgressOnOpenRows, JobPhase
  <2>3. \A j \in Jobs \ S : JobPhase(j)' = JobPhase(j)
    BY <2>1, PhaseFrame
  <2>4. CASE S = {}
    BY <2>3, <2>4, PhaseStutter
  <2>5. CASE S # {}
    BY <2>2, <2>3, <2>5, PhaseGiveUp DEF Contract!Next
  <2>6. QED BY <2>4, <2>5
<1>2. CASE Tick \/ Boot \/ (\E m \in LimitRequests : SetMaxConcurrent(m))
  <2>1. \A j \in Jobs : InProgress(j)' <=> InProgress(j)
    BY <1>2 DEF Tick, Boot, StartBegin, StartFinish, RegisterHandler, SetMaxConcurrent,
                pollVars, InProgress
  <2>2. \A j \in Jobs : \/ row'[j].status = row[j].status
                        \/ row[j].status = "RUNNING" /\ row'[j].status = "PENDING"
    BY <1>0, <1>2 DEF Tick, Boot, StartBegin, StartFinish, RegisterHandler,
                      SetMaxConcurrent, dbVars, ResetRow
  <2>3. QED BY <2>1, <2>2, PhaseFrame, PhaseStutter
<1>3. ASSUME NEW j \in Jobs, NEW at \in 0 .. MaxClock, Enqueue(j, at)
      PROVE  Contract!Next
  <2>1. \A k \in Jobs : InProgress(k)' <=> InProgress(k)
    BY <1>3 DEF Enqueue, pollVars, InProgress
  <2>2. ~InProgress(j) /\ row[j].status = "NONE" /\ row'[j].status = "PENDING"
    BY <1>0, <1>3 DEF Enqueue, ProgressOnOpenRows
  <2>3. JobPhase(j) = "absent" /\ JobPhase(j)' = "waiting"
    BY <2>1, <2>2 DEF JobPhase, Terminal
  <2>4. \A k \in Jobs \ {j} : JobPhase(k)' = JobPhase(k)
    BY <1>0, <1>3, <2>1, PhaseFrame DEF Enqueue
  <2>5. QED BY <2>3, <2>4, PhaseMove DEF Contract!Next, Contract!Submit
<1>4. ASSUME NEW j \in Jobs, DeletePending(j)
      PROVE  Contract!Next \/ Phase' = Phase
  <2>1. \A k \in Jobs : InProgress(k)' <=> InProgress(k)
    BY <1>4 DEF DeletePending, pollVars, InProgress
  <2>2. \A k \in Jobs \ {j} : JobPhase(k)' = JobPhase(k)
    BY <1>0, <1>4, <2>1, PhaseFrame DEF DeletePending
  <2>3. CASE InProgress(j)
    BY <2>1, <2>2, <2>3, PhaseFrame, PhaseStutter
  <2>4. CASE ~InProgress(j)
    <3>1. row[j].status = "PENDING" /\ row'[j].status = "DELETED"
      BY <1>0, <1>4 DEF DeletePending
    <3>2. JobPhase(j) = "waiting" /\ JobPhase(j)' = "withdrawn"
      BY <2>1, <2>4, <3>1 DEF JobPhase, Terminal
    <3>3. QED BY <2>2, <3>2, PhaseMove DEF Contract!Next, Contract!Withdraw
  <2>5. QED BY <2>3, <2>4
<1>5. CASE PollBegin \/ (\E b \in batch : SkipAtLimit(b) \/ ClaimSend(b))
           \/ ClaimMiss \/ PollEnd
  <2>1. \A j \in Jobs : InProgress(j)' <=> InProgress(j)
    BY <1>5 DEF PollBegin, SkipAtLimit, ClaimSend, ClaimMiss, PollEnd, InProgress
  <2>2. row' = row
    BY <1>5 DEF PollBegin, SkipAtLimit, ClaimSend, ClaimMiss, PollEnd, dbVars
  <2>3. QED BY <2>1, <2>2, PhaseFrame, PhaseStutter
<1>6. CASE ClaimApply
  <2>1. PICK j \in Jobs : j = claim.job /\ exec[j] = "idle" /\ pollPc = "claim"
    BY <1>6, ClaimedIsIdle DEF ClaimApply
  <2>2. ~InProgress(j) /\ InProgress(j)'
    BY <1>6, <2>1 DEF ClaimApply, InProgress
  <2>3. JobPhase(j) = "waiting" /\ JobPhase(j)' = "executing"
    BY <1>6, <2>1, <2>2 DEF ClaimApply, JobPhase, Terminal
  <2>4. \A k \in Jobs \ {j} : JobPhase(k)' = JobPhase(k)
    <3>1. \A k \in Jobs \ {j} : InProgress(k)' <=> InProgress(k)
      BY <1>6, <2>1 DEF ClaimApply, InProgress
    <3>2. QED BY <1>0, <1>6, <2>1, <3>1, PhaseFrame DEF ClaimApply
  <2>5. Contract!Begin(j)
    BY <2>1, <2>3, <2>4, PhaseMove DEF Contract!Begin
  <2>6. QED BY <2>1, <2>5 DEF Contract!Next
<1>7. CASE ClaimReturn
  <2>1. \A j \in Jobs : InProgress(j)' <=> InProgress(j)
    BY <1>0, <1>7 DEF ClaimReturn, InProgress
  <2>2. QED BY <1>7, <2>1, PhaseFrame, PhaseStutter DEF ClaimReturn, dbVars
<1>8. ASSUME NEW j \in Jobs, NEW s \in Terminal, HandlerReturn(j, s)
      PROVE  Contract!Next
  <2>1. InProgress(j) /\ ~InProgress(j)' /\ JobPhase(j) = "executing"
    BY <1>0, <1>8, ClaimedIsIdle DEF HandlerReturn, pollVars, InProgress, JobPhase
  <2>2. \A k \in Jobs \ {j} : JobPhase(k)' = JobPhase(k)
    <3>1. \A k \in Jobs \ {j} : InProgress(k)' <=> InProgress(k)
      BY <1>0, <1>8 DEF HandlerReturn, pollVars, InProgress
    <3>2. QED BY <1>0, <1>8, <3>1, PhaseFrame DEF HandlerReturn
  <2>3. CASE row[j].status = "DELETED"
    <3>1. row'[j].status = "DELETED"
      BY <1>0, <1>8, <2>3 DEF HandlerReturn, WriteStatus, NoRow
    <3>2. JobPhase(j)' \in {"waiting", "withdrawn"}
      BY <2>1, <3>1, EndedPhase
    <3>3. Contract!GiveUp({j})
      BY <2>1, <2>2, <3>2, PhaseGiveUp
    <3>4. QED BY <3>3 DEF Contract!Next
  <2>4. CASE row[j].status # "DELETED"
    <3>1. row'[j].status \in Terminal
      BY <1>0, <1>8, <2>1, <2>4
         DEF HandlerReturn, WriteStatus, NoRow, ProgressOnOpenRows
    <3>2. JobPhase(j)' = "closed"
      BY <2>1, <3>1 DEF JobPhase, Terminal
    <3>3. QED BY <2>1, <2>2, <3>2, PhaseMove DEF Contract!Next, Contract!Close
  <2>5. QED BY <2>3, <2>4
<1>9. ASSUME NEW j \in Jobs, Requeue(j) \/ WriteLost(j)
      PROVE  Contract!Next
  <2>1. InProgress(j) /\ ~InProgress(j)' /\ JobPhase(j) = "executing"
    BY <1>0, <1>9, ClaimedIsIdle
       DEF Requeue, WriteLost, pollVars, InProgress, JobPhase
  <2>2. \A k \in Jobs \ {j} : JobPhase(k)' = JobPhase(k)
    <3>1. \A k \in Jobs \ {j} : InProgress(k)' <=> InProgress(k)
      BY <1>0, <1>9 DEF Requeue, WriteLost, pollVars, InProgress
    <3>2. QED BY <1>0, <1>9, <3>1, PhaseFrame DEF Requeue, WriteLost, dbVars
  <2>3. row'[j].status \in {"PENDING", "RUNNING", "DELETED"}
    BY <1>0, <1>9, <2>1 DEF Requeue, WriteLost, dbVars, NoRow, ProgressOnOpenRows
  <2>4. JobPhase(j)' \in {"waiting", "withdrawn"}
    BY <2>1, <2>3, EndedPhase
  <2>5. Contract!GiveUp({j})
    BY <2>1, <2>2, <2>4, PhaseGiveUp
  <2>6. QED BY <2>5 DEF Contract!Next
<1>10. ASSUME NEW j \in Jobs, Cleanup(j)
       PROVE  Phase' = Phase
  <2>1. \A k \in Jobs : InProgress(k)' <=> InProgress(k)
    BY <1>0, <1>10 DEF Cleanup, pollVars, InProgress
  <2>2. QED BY <1>10, <2>1, PhaseFrame, PhaseStutter DEF Cleanup, dbVars
<1>11. CASE UNCHANGED vars
  <2>1. \A j \in Jobs : InProgress(j)' <=> InProgress(j)
    BY <1>11 DEF vars, pollVars, InProgress
  <2>2. QED BY <1>11, <2>1, PhaseFrame, PhaseStutter DEF vars, dbVars
<1>12. QED
  BY <1>1, <1>2, <1>3, <1>4, <1>5, <1>6, <1>7, <1>8, <1>9, <1>10, <1>11
     DEF Next, PollStep, Execute

(* The worker does what the callers of enqueue() may count on, whatever fails
   and however its polls, handlers and restarts interleave: a job executes at
   most once at a time, and never again once it was closed. *)
THEOREM WorkerImplementsContract == Spec => ImplementsContract
<1>1. Init => Contract!Init
  <2> SUFFICES ASSUME Init PROVE Contract!Init
    OBVIOUS
  <2>1. \A j \in Jobs : ~InProgress(j)
    BY DEF Init, MemoryInit, InProgress
  <2>2. \A j \in Jobs : row[j].status \in {"NONE", "PENDING", "RUNNING"}
    BY DEF Init
  <2>3. \A j \in Jobs : JobPhase(j) \in {"absent", "waiting"}
    BY <2>1, <2>2 DEF JobPhase, Terminal
  <2>4. QED BY <2>3 DEF Contract!Init
<1>2. PhaseInv /\ [Next]_vars => [Contract!Next]_([j \in Jobs |-> JobPhase(j)])
  BY ContractStep DEF Phase
<1>3. QED
  BY <1>1, <1>2, PhaseInvariant, PTL DEF Spec, ImplementsContract, Contract!Spec
=============================================================================
