------------------------------ MODULE JobQueue ------------------------------
(***************************************************************************)
(* The background worker of wytui (services/queue.service.ts): rows of the *)
(* table job_queue are claimed by a poll loop and executed by handlers.    *)
(*                                                                         *)
(* The worker is one Node process, so every piece of code between two      *)
(* awaits is atomic and everything else interleaves: other handlers        *)
(* finish, rows are enqueued or deleted and limits change while the poll   *)
(* loop waits for the database.  One action is one such piece.             *)
(*                                                                         *)
(* Polls are started by setImmediate (an enqueue, a finished job, a new    *)
(* limit) and by a 5 s interval; the model lets a poll start whenever the  *)
(* guard of poll() lets it, and only the interval is counted on for        *)
(* liveness.                                                               *)
(***************************************************************************)
EXTENDS Integers, FiniteSets

CONSTANTS
  Jobs,           \* the rows that may ever be created (a fresh cuid each)
  Types,          \* job types
  DownloadType,   \* the type whose limit is adjustable and that ends a batch
  JobType,        \* [Jobs -> Types]
  Priority,       \* [Jobs -> Nat], JobQueue.priority
  InitialLimit,   \* [Types -> Nat], maxConcurrentByType at process start
  LimitRequests,  \* the arguments setMaxConcurrent is called with
  Take,           \* rows fetched by one poll (20)
  MaxClock,       \* bound: instants of model time
  MaxCrashes,     \* bound: process restarts
  DbFaults        \* may a bookkeeping write be lost?

ASSUME JobTypeAssumption == JobType \in [Jobs -> Types]
ASSUME PriorityAssumption == Priority \in [Jobs -> Nat]
ASSUME LimitAssumption == InitialLimit \in [Types -> 1 .. 20]
ASSUME DownloadTypeAssumption == DownloadType \in Types
ASSUME RequestAssumption == LimitRequests \subseteq Int
ASSUME BoundAssumption == Take \in Nat /\ MaxClock \in Nat /\ MaxCrashes \in Nat

VARIABLES
  row,           \* the table: [Jobs -> [status, runAt]]
  clock,         \* now
  crashes,       \* restarts so far
  started,       \* QueueService.started
  timer,         \* pollingTimer is set
  resetting,     \* start() awaits its updateMany
  registered,    \* types with a handler
  limit,         \* maxConcurrentByType
  activeJobs,    \* QueueService.activeJobs
  activeByType,  \* QueueService.activeByType, absent keys are 0
  pollPc,        \* where poll() is; isPolling = (pollPc # "idle")
  batch,         \* rows of the batch not yet considered, as fetched
  claim,         \* the row being claimed and the locals that outlive the await
  exec           \* where executeJob(job) is

dbVars == <<row, clock>>
bootVars == <<started, timer, resetting, registered, crashes>>
slotVars == <<activeJobs, activeByType>>
pollVars == <<pollPc, batch, claim>>
vars == <<dbVars, bootVars, limit, slotVars, pollVars, exec>>

Statuses == {"NONE", "PENDING", "RUNNING", "COMPLETED", "FAILED", "DELETED"}
Terminal == {"COMPLETED", "FAILED"}
NoRow == {"NONE", "DELETED"}
ExecStates == {"idle", "running", "unhandled", "closing"}
NoClaim == [job |-> "none", seen |-> 0, limit |-> 0]
Claims == [job : Jobs, seen : Nat, limit : Nat]

(* Jobs of type t that executeJob is working on. *)
Executing(t) == {j \in activeJobs : JobType[j] = t}

Due(j) == row[j].status = "PENDING" /\ row[j].runAt <= clock

(* `where: { id }` updates of a status: a row that is gone is left alone. *)
WriteStatus(r, s) == IF r.status \in NoRow THEN r ELSE [r EXCEPT !.status = s]

(* setMaxConcurrent clamps its argument to 1..20. *)
Clamp(m) == IF m < 1 THEN 1 ELSE IF m > 20 THEN 20 ELSE m

-----------------------------------------------------------------------------
(* What a fresh process has in memory. *)
MemoryInit ==
  /\ started = FALSE /\ timer = FALSE /\ resetting = FALSE
  /\ registered = {}
  /\ limit = InitialLimit
  /\ activeJobs = {}
  /\ activeByType = [t \in Types |-> 0]
  /\ pollPc = "idle" /\ batch = {} /\ claim = NoClaim
  /\ exec = [j \in Jobs |-> "idle"]

(* A row a previous process left behind may be in any status. *)
Init ==
  /\ MemoryInit
  /\ clock = 0 /\ crashes = 0
  /\ row \in [Jobs -> [status : {"NONE", "PENDING", "RUNNING"}, runAt : {0}]]

(* The process dies, or a signal handler calls stop() and exits at once.
   Only the table survives. *)
Crash ==
  /\ crashes < MaxCrashes
  /\ crashes' = crashes + 1
  /\ started' = FALSE /\ timer' = FALSE /\ resetting' = FALSE
  /\ registered' = {}
  /\ limit' = InitialLimit
  /\ activeJobs' = {} /\ activeByType' = [t \in Types |-> 0]
  /\ pollPc' = "idle" /\ batch' = {} /\ claim' = NoClaim
  /\ exec' = [j \in Jobs |-> "idle"]
  /\ UNCHANGED dbVars

Tick ==
  /\ clock < MaxClock
  /\ clock' = clock + 1
  /\ UNCHANGED <<row, bootVars, limit, slotVars, pollVars, exec>>

RegisterHandler(t) ==
  /\ t \notin registered
  /\ registered' = registered \cup {t}
  /\ UNCHANGED <<dbVars, started, timer, resetting, crashes, limit, slotVars,
                 pollVars, exec>>

(* start(), up to its await: `started` is already set, so a poll queued by
   setImmediate during boot may run before the reset reaches the table. *)
StartBegin ==
  /\ ~timer /\ ~resetting
  /\ started' = TRUE
  /\ resetting' = TRUE
  /\ UNCHANGED <<dbVars, timer, registered, crashes, limit, slotVars, pollVars,
                 exec>>

(* Mutant: RUNNING rows of a previous process are not reset. *)
KeepRow(r) == r

ResetRow(r) == IF r.status = "RUNNING" THEN [r EXCEPT !.status = "PENDING"] ELSE r

(* The updateMany of start() and, after it, the interval. *)
StartFinish ==
  /\ resetting
  /\ row' = [j \in Jobs |-> ResetRow(row[j])]
  /\ resetting' = FALSE
  /\ timer' = TRUE
  /\ UNCHANGED <<clock, started, registered, crashes, limit, slotVars, pollVars,
                 exec>>

-----------------------------------------------------------------------------
(* Requests of the rest of the program. *)
Enqueue(j, at) ==
  /\ row[j].status = "NONE"
  /\ row' = [row EXCEPT ![j] = [status |-> "PENDING", runAt |-> at]]
  /\ UNCHANGED <<clock, bootVars, limit, slotVars, pollVars, exec>>

(* clearPending and unscheduleSubscription remove rows that are PENDING.
   They serve requests, which wait for the end of the boot sequence. *)
DeletePending(j) ==
  /\ timer
  /\ row[j].status = "PENDING"
  /\ row' = [row EXCEPT ![j].status = "DELETED"]
  /\ UNCHANGED <<clock, bootVars, limit, slotVars, pollVars, exec>>

SetMaxConcurrent(m) ==
  /\ limit' = [limit EXCEPT ![DownloadType] = Clamp(m)]
  /\ UNCHANGED <<dbVars, bootVars, slotVars, pollVars, exec>>

-----------------------------------------------------------------------------
(* poll() *)

(* findMany: due PENDING rows that are not in activeJobs, the Take first in
   the order (priority desc, runAt asc). *)
Before(a, b) ==
  \/ Priority[a.job] > Priority[b.job]
  \/ Priority[a.job] = Priority[b.job] /\ a.runAt < b.runAt

(* Mutant: rows in activeJobs are not excluded. *)
AllDueRows ==
  {[job |-> j, runAt |-> row[j].runAt] : j \in {k \in Jobs : Due(k)}}

Candidates ==
  {[job |-> j, runAt |-> row[j].runAt] : j \in {k \in Jobs \ activeJobs : Due(k)}}

FirstRows(C) ==
  {B \in SUBSET C :
     /\ Cardinality(B) = IF Cardinality(C) < Take THEN Cardinality(C) ELSE Take
     /\ \A b \in B, c \in C \ B : ~Before(c, b)}

PollBegin ==
  /\ pollPc = "idle"
  /\ started
  /\ pollPc' = "scan"
  /\ batch' \in FirstRows(Candidates)
  /\ UNCHANGED <<dbVars, bootVars, limit, slotVars, claim, exec>>

NextInBatch(b) == b \in batch /\ \A c \in batch : ~Before(c, b)

(* One turn of the loop up to the claim's await: the limit is checked on
   `active`, a local that is still in use when the await returns. *)
SkipAtLimit(b) ==
  /\ pollPc = "scan" /\ NextInBatch(b)
  /\ activeByType[JobType[b.job]] >= limit[JobType[b.job]]
  /\ batch' = batch \ {b}
  /\ UNCHANGED <<dbVars, bootVars, limit, slotVars, pollPc, claim, exec>>

(* Mutant: the limit is compared with <=. *)
ClaimOneTooMany(b) ==
  /\ pollPc = "scan" /\ NextInBatch(b)
  /\ activeByType[JobType[b.job]] <= limit[JobType[b.job]]
  /\ batch' = batch \ {b}
  /\ claim' = [job |-> b.job, seen |-> activeByType[JobType[b.job]],
               limit |-> limit[JobType[b.job]]]
  /\ pollPc' = "claim"
  /\ UNCHANGED <<dbVars, bootVars, limit, slotVars, exec>>

ClaimSend(b) ==
  /\ pollPc = "scan" /\ NextInBatch(b)
  /\ activeByType[JobType[b.job]] < limit[JobType[b.job]]
  /\ batch' = batch \ {b}
  /\ claim' = [job |-> b.job, seen |-> activeByType[JobType[b.job]],
               limit |-> limit[JobType[b.job]]]
  /\ pollPc' = "claim"
  /\ UNCHANGED <<dbVars, bootVars, limit, slotVars, exec>>

(* Mutant: the claim updates by id alone. *)
ClaimById ==
  /\ pollPc = "claim"
  /\ row' = [row EXCEPT ![claim.job].status = "RUNNING"]
  /\ pollPc' = "claimed"
  /\ UNCHANGED <<clock, bootVars, limit, slotVars, batch, claim, exec>>

(* The database executes `update where id and status = PENDING`. *)
ClaimApply ==
  /\ pollPc = "claim"
  /\ row[claim.job].status = "PENDING"
  /\ row' = [row EXCEPT ![claim.job].status = "RUNNING"]
  /\ pollPc' = "claimed"
  /\ UNCHANGED <<clock, bootVars, limit, slotVars, batch, claim, exec>>

(* The update matched no row, or failed: `continue`. *)
ClaimMiss ==
  /\ pollPc = "claim"
  /\ row[claim.job].status # "PENDING" \/ DbFaults
  /\ pollPc' = "scan" /\ claim' = NoClaim
  /\ UNCHANGED <<dbVars, bootVars, limit, slotVars, batch, exec>>

(* The claim's answer arrives: bookkeeping, executeJob up to its first
   await, and `break` after a download. *)
ClaimReturn ==
  /\ pollPc = "claimed"
  /\ LET j == claim.job
         t == JobType[j]
     IN /\ activeJobs' = activeJobs \cup {j}
        /\ activeByType' = [activeByType EXCEPT ![t] = claim.seen + 1]
        /\ exec' = [exec EXCEPT ![j] =
                      IF t \in registered THEN "running" ELSE "unhandled"]
        /\ batch' = IF t = DownloadType THEN {} ELSE batch
  /\ pollPc' = "scan" /\ claim' = NoClaim
  /\ UNCHANGED <<dbVars, bootVars, limit>>

(* Mutant: isPolling stays set after the batch. *)
PollNeverEnds ==
  /\ pollPc = "scan"
  /\ batch = {}
  /\ UNCHANGED vars

(* The batch is exhausted, or was never delivered. *)
PollEnd ==
  /\ pollPc = "scan"
  /\ batch = {} \/ DbFaults
  /\ pollPc' = "idle" /\ batch' = {}
  /\ UNCHANGED <<dbVars, bootVars, limit, slotVars, claim, exec>>

-----------------------------------------------------------------------------
(* executeJob() *)

(* The handler returns or throws and the terminal status is written; if the
   success write fails the failure write is tried. *)
HandlerReturn(j, s) ==
  /\ exec[j] = "running"
  /\ row' = [row EXCEPT ![j] = WriteStatus(row[j], s)]
  /\ exec' = [exec EXCEPT ![j] = "closing"]
  /\ UNCHANGED <<clock, bootVars, limit, slotVars, pollVars>>

(* Both writes fail, or the requeue write does: logged and swallowed. *)
WriteLost(j) ==
  /\ DbFaults
  /\ exec[j] \in {"running", "unhandled"}
  /\ exec' = [exec EXCEPT ![j] = "closing"]
  /\ UNCHANGED <<dbVars, bootVars, limit, slotVars, pollVars>>

(* No handler yet: back to PENDING, due 5 s from now. *)
Requeue(j) ==
  /\ exec[j] = "unhandled"
  /\ row' = [row EXCEPT ![j] =
               IF row[j].status \in NoRow THEN row[j]
               ELSE [status |-> "PENDING",
                     runAt |-> IF clock < MaxClock THEN clock + 1 ELSE clock]]
  /\ exec' = [exec EXCEPT ![j] = "closing"]
  /\ UNCHANGED <<clock, bootVars, limit, slotVars, pollVars>>

(* Mutants: the map entry is always deleted; it is never touched. *)
ReleaseAllSlots(n) == 0
NeverRelease(n) == n

(* The finally block. *)
ReleaseSlot(n) == IF n <= 1 THEN 0 ELSE n - 1

Cleanup(j) ==
  /\ exec[j] = "closing"
  /\ activeJobs' = activeJobs \ {j}
  /\ activeByType' = [activeByType EXCEPT ![JobType[j]] = ReleaseSlot(@)]
  /\ exec' = [exec EXCEPT ![j] = "idle"]
  /\ UNCHANGED <<dbVars, bootVars, limit, pollVars>>

-----------------------------------------------------------------------------
Execute(j) ==
  \/ \E s \in Terminal : HandlerReturn(j, s)
  \/ Requeue(j)
  \/ Cleanup(j)

PollStep ==
  \/ \E b \in batch : SkipAtLimit(b) \/ ClaimSend(b)
  \/ ClaimApply \/ ClaimMiss \/ ClaimReturn
  \/ PollEnd

Boot == StartBegin \/ StartFinish \/ \E t \in Types : RegisterHandler(t)

Next ==
  \/ Crash
  \/ Tick
  \/ Boot
  \/ \E j \in Jobs, at \in 0 .. MaxClock : clock <= at /\ Enqueue(j, at)
  \/ \E j \in Jobs : DeletePending(j)
  \/ \E m \in LimitRequests : SetMaxConcurrent(m)
  \/ PollBegin
  \/ PollStep
  \/ \E j \in Jobs : Execute(j)
  \/ \E j \in Jobs : WriteLost(j)

Spec == Init /\ [][Next]_vars

(* The boot sequence runs to its end, time passes, the interval keeps
   polling, the database answers and every handler returns. *)
Fairness ==
  /\ WF_vars(StartBegin) /\ WF_vars(StartFinish) /\ WF_vars(Tick)
  /\ \A t \in Types : WF_vars(RegisterHandler(t))
  /\ WF_vars(timer /\ PollBegin)
  /\ WF_vars(PollStep)
  /\ \A j \in Jobs : WF_vars(Execute(j))

FairSpec == Spec /\ Fairness

-----------------------------------------------------------------------------
TypeOK ==
  /\ row \in [Jobs -> [status : Statuses, runAt : Nat]]
  /\ clock \in Nat /\ crashes \in Nat
  /\ started \in BOOLEAN /\ timer \in BOOLEAN /\ resetting \in BOOLEAN
  /\ registered \subseteq Types
  /\ limit \in [Types -> 1 .. 20]
  /\ activeJobs \subseteq Jobs
  /\ activeByType \in [Types -> Nat]
  /\ pollPc \in {"idle", "scan", "claim", "claimed"}
  /\ batch \subseteq [job : Jobs, runAt : Nat]
  /\ claim \in Claims \cup {NoClaim}
  /\ exec \in [Jobs -> ExecStates]

(* The counter the limit is checked against never falls below the number of
   jobs really executing, although poll() writes it from a value read before
   an await (queue.service.ts:114, 129). *)
SlotsCoverExecutions ==
  \A t \in Types : Cardinality(Executing(t)) <= activeByType[t]

StartsWithinLimit ==
  \A j \in activeJobs' \ activeJobs :
    Cardinality({k \in activeJobs' : JobType[k] = JobType[j]}) <= claim.limit

(* Starting a job never takes its type past the limit poll() read for it. *)
ClaimWithinLimit == [][StartsWithinLimit]_vars

(* A row is never claimed while an execution of it is still in progress, even
   when start() has put the rows of running jobs back to PENDING. *)
NoDoubleStart ==
  pollPc \in {"claim", "claimed"} => exec[claim.job] = "idle"

(* Once the worker has started, every RUNNING row has an execution or a claim
   of this process behind it: no row is left that nothing will ever finish. *)
RunningRowsOwned ==
  timer => \A j \in Jobs :
    row[j].status = "RUNNING" =>
      \/ exec[j] \in {"running", "unhandled"}
      \/ pollPc = "claimed" /\ claim.job = j

(* With the limits left alone, what the stale write of activeByType leaks can
   never use up a type: when none of its jobs executes, a slot is free. *)
OneSlotSurvives ==
  \A t \in Types : Executing(t) = {} => activeByType[t] < limit[t]

(* Every due job is executed to a terminal status, or deleted. *)
DueJobFinishes ==
  \A j \in Jobs : Due(j) ~> row[j].status \in Terminal \cup NoRow

-----------------------------------------------------------------------------
(* What the queue promises its callers: see QueueContract. *)
InProgress(j) ==
  \/ exec[j] \in {"running", "unhandled"}
  \/ pollPc = "claimed" /\ claim.job = j

JobPhase(j) ==
  CASE InProgress(j) -> "executing"
    [] ~InProgress(j) /\ row[j].status = "NONE" -> "absent"
    [] ~InProgress(j) /\ row[j].status = "DELETED" -> "withdrawn"
    [] ~InProgress(j) /\ row[j].status \in Terminal -> "closed"
    [] OTHER -> "waiting"

Contract == INSTANCE QueueContract WITH phase <- [j \in Jobs |-> JobPhase(j)]

(* The worker implements the contract. *)
ImplementsContract == Contract!Spec
=============================================================================
