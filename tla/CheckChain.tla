----------------------------- MODULE CheckChain -----------------------------
(***************************************************************************)
(* How wytui keeps something happening at intervals.  There is no timer    *)
(* behind a recurring job (jobs/scheduler.ts) or the checks of a           *)
(* subscription (services/subscription.service.ts): each has a row in      *)
(* job_queue, and the handler that executes the row enqueues the next one. *)
(* The chain lives as long as every link is forged, and it is also cut and *)
(* started by requests (a PATCH, a DELETE, a settings change) and by every *)
(* start of the process.                                                   *)
(*                                                                         *)
(* One chain is modelled, of either kind; chains meet only in the worker's *)
(* limits.  The worker itself is taken at its word: rows are claimed and   *)
(* closed as QueueContract says.  Instants are abstracted away: a PENDING  *)
(* row may be due at any moment.  An action is one piece of code between   *)
(* two awaits.                                                             *)
(***************************************************************************)
EXTENDS Integers, FiniteSets

CONSTANTS
  Rows,        \* identities of job_queue rows, 1 .. N; a closed one is reused
  Limit,       \* how many of the chain's rows the worker executes at a time
  Kinds,       \* which of {"subscription", "system"} to consider
  MaxCrashes,  \* bound: process restarts
  Faults       \* may a database call fail?

ASSUME RowsAssumption == Rows \subseteq Nat
ASSUME LimitAssumption == Limit \in Nat /\ MaxCrashes \in Nat
ASSUME KindsAssumption == Kinds \subseteq {"subscription", "system"}
ASSUME FaultsAssumption == Faults \in BOOLEAN

(* Who may call the scheduling code: the handler of each row, the start of
   the process, an HTTP request.  manual is the "Check now" or "Run" of the
   user interface, which executes the body outside the queue.  They are
   numbers because rows are. *)
boot == -1
request == -2
manual == -3
Outside == {boot, request, manual}
Callers == Rows \cup Outside

VARIABLES
  kind,      \* which chain this is
  wanted,    \* Subscription.enabled, or the settings toggle; "gone" when deleted
  known,     \* enabled in jobRegistry (system)
  row,       \* the chain's rows; "closed" is COMPLETED, "none" deleted
  process,   \* "down", "booting" or "up"
  held,      \* the name is in runningJobs / activeChecks
  cooldown,  \* isRateLimitCooldownActive()
  at,        \* [Callers -> where the call is]
  todo,      \* [Callers -> rows the call has listed and not dealt with]
  leaving,   \* a DELETE of the subscription is being served
  lost,      \* history: a call that was to create the next row gave up
  crashes

dbVars == <<wanted, row>>
memVars == <<known, held, cooldown>>
callVars == <<at, todo, leaving>>
procVars == <<kind, process, crashes>>
vars == <<dbVars, memVars, callVars, procVars, lost>>

Stages == {"idle", "enter", "body", "read", "list", "clear", "create",
           "delist", "drop", "settings", "purge", "done"}

Pending == {r \in Rows : row[r] = "PENDING"}

(* Rows that are over and that no call can still name. *)
Fresh == {r \in Rows : row[r] \in {"none", "closed"} /\ at[r] = "idle"
                       /\ \A c \in Callers : r \notin todo[c]}

Handling == {r \in Rows : at[r] # "idle"}

(* The rows are deleted one by one in the order the query lists them. *)
FirstOf(S) == {r \in S : \A q \in S : r <= q}

-----------------------------------------------------------------------------
(* Where a caller goes when its part in the chain is over: a handler returns
   to executeJob, which still has to close the row. *)
Over(c) == IF c \in Rows THEN "done" ELSE "idle"

(* What follows the body: a handler reschedules in its finally block, the
   system one through scheduleNextRun, which asks the registry at once. *)
AfterBody(c) ==
  CASE c = manual -> "idle"
    [] c # manual /\ kind = "subscription" -> "read"
    [] OTHER -> IF known THEN "list" ELSE "done"

Go(c, stage) == at' = [at EXCEPT ![c] = stage]

(* Rows a process that is gone may have left, at most one of them. *)
Init ==
  /\ kind \in Kinds
  /\ wanted \in {"on", "off"}
  /\ row \in [Rows -> {"none", "PENDING", "RUNNING"}]
  /\ Cardinality({r \in Rows : row[r] # "none"}) <= 1
  /\ process = "down" /\ known = FALSE /\ held = FALSE /\ cooldown = FALSE
  /\ at = [c \in Callers |-> "idle"] /\ todo = [c \in Callers |-> {}]
  /\ leaving = FALSE /\ lost = FALSE
  /\ crashes = 0

-----------------------------------------------------------------------------
(* The life of the process. *)

(* start() registers the jobs and schedules what is enabled. *)
Boot ==
  /\ process = "down"
  /\ process' = "booting"
  /\ known' = (kind = "system" /\ wanted = "on")
  /\ Go(boot, IF wanted = "on" THEN "list" ELSE "idle")
  /\ lost' = FALSE
  /\ UNCHANGED <<dbVars, held, cooldown, todo, leaving, kind, crashes>>

(* Only then does the worker start, and put RUNNING rows back to PENDING. *)
StartWorker ==
  /\ process = "booting" /\ at[boot] = "idle"
  /\ process' = "up"
  /\ row' = [r \in Rows |-> IF row[r] = "RUNNING" THEN "PENDING" ELSE row[r]]
  /\ UNCHANGED <<wanted, memVars, callVars, kind, crashes, lost>>

(* Only the tables survive. *)
Dies ==
  /\ process' = "down"
  /\ known' = FALSE /\ held' = FALSE /\ cooldown' = FALSE
  /\ at' = [c \in Callers |-> "idle"] /\ todo' = [c \in Callers |-> {}]
  /\ leaving' = FALSE

Crash ==
  /\ process # "down" /\ crashes < MaxCrashes
  /\ crashes' = crashes + 1
  /\ Dies
  /\ UNCHANGED <<dbVars, kind, lost>>

-----------------------------------------------------------------------------
(* The body: the work of the job, or the check of the subscription. *)

(* A check is refused while YouTube's block lasts; a name that is held is
   skipped.  Either way the handler goes on to its finally block. *)
Refused == kind = "subscription" /\ cooldown

(* Mutant: runningJobs and activeChecks are not consulted. *)
ClaimRegardless(r) ==
  /\ process = "up" /\ row[r] = "PENDING" /\ at[r] = "idle"
  /\ Cardinality(Handling) < Limit
  /\ row' = [row EXCEPT ![r] = "RUNNING"]
  /\ Go(r, IF Refused THEN AfterBody(r) ELSE "enter")
  /\ held' = (held \/ ~Refused)
  /\ UNCHANGED <<wanted, known, cooldown, todo, leaving, procVars, lost>>

(* The worker starts the handler of a due row, which runs to its first
   await. *)
Claim(r) ==
  /\ process = "up" /\ row[r] = "PENDING" /\ at[r] = "idle"
  /\ Cardinality(Handling) < Limit
  /\ row' = [row EXCEPT ![r] = "RUNNING"]
  /\ Go(r, IF held \/ Refused THEN AfterBody(r) ELSE "enter")
  /\ held' = (held \/ ~Refused)
  /\ UNCHANGED <<wanted, known, cooldown, todo, leaving, procVars, lost>>

(* "Check now" forces its way past the cooldown, not past a running check. *)
RunByHand ==
  /\ process = "up" /\ at[manual] = "idle" /\ ~held
  /\ held' = TRUE
  /\ Go(manual, "enter")
  /\ UNCHANGED <<dbVars, known, cooldown, todo, leaving, procVars, lost>>

(* The first await of the body: the run is logged, the subscription read.  A
   subscription that is not enabled is left at once. *)
EnterBody(c) ==
  /\ at[c] = "enter"
  /\ IF kind = "subscription" /\ wanted # "on"
     THEN held' = FALSE /\ Go(c, AfterBody(c))
     ELSE held' = held /\ Go(c, "body")
  /\ UNCHANGED <<dbVars, known, cooldown, todo, leaving, procVars, lost>>

(* logJobRun writes its row outside the try block that releases the name. *)
EnterFails(c) ==
  /\ Faults /\ at[c] = "enter"
  /\ held' = (kind = "system")
  /\ Go(c, AfterBody(c))
  /\ UNCHANGED <<dbVars, known, cooldown, todo, leaving, procVars, lost>>

(* The body ends, well or badly; a check that met a rate limit arms the
   cooldown. *)
Returns(c) ==
  /\ Go(c, AfterBody(c))
  /\ held' = FALSE
  /\ cooldown' \in {cooldown, cooldown \/ kind = "subscription"}
  /\ UNCHANGED <<dbVars, known, todo, leaving, procVars, lost>>

(* Mutant: no finally, a body that throws ends the handler. *)
ThrowEndsHandler(c) ==
  /\ Go(c, Over(c))
  /\ held' = FALSE
  /\ UNCHANGED <<dbVars, known, cooldown, todo, leaving, procVars, lost>>

Throws(c) ==
  /\ Go(c, AfterBody(c))
  /\ held' = FALSE
  /\ UNCHANGED <<dbVars, known, cooldown, todo, leaving, procVars, lost>>

LeaveBody(c) == at[c] = "body" /\ (Returns(c) \/ Throws(c))

(* Downloads and other channels arm the cooldown too; it lapses by itself. *)
ArmCooldown ==
  /\ process = "up" /\ kind = "subscription" /\ ~cooldown
  /\ cooldown' = TRUE
  /\ UNCHANGED <<dbVars, known, held, callVars, procVars, lost>>

CooldownLapses ==
  /\ cooldown
  /\ cooldown' = FALSE
  /\ UNCHANGED <<dbVars, known, held, callVars, procVars, lost>>

-----------------------------------------------------------------------------
(* Forging the next link. *)

(* Mutant: the handler does not ask whether the channel is still enabled. *)
RescheduleAnyway(c) ==
  /\ at[c] = "read"
  /\ Go(c, "list")
  /\ UNCHANGED <<dbVars, memVars, todo, leaving, procVars, lost>>

(* The subscription handler asks whether the channel is still enabled. *)
ReadSubscription(c) ==
  /\ at[c] = "read"
  /\ Go(c, IF wanted = "on" THEN "list" ELSE "done")
  /\ UNCHANGED <<dbVars, memVars, todo, leaving, procVars, lost>>

(* findMany of the PENDING rows.  A system job that has one only moves its
   runAt; a subscription deletes what it finds. *)
ListPending(c) ==
  /\ at[c] = "list"
  /\ IF kind = "subscription"
     THEN /\ todo' = [todo EXCEPT ![c] = Pending]
          /\ Go(c, IF Pending = {} THEN "create" ELSE "clear")
     ELSE /\ todo' = todo
          /\ Go(c, IF Pending = {} THEN "create" ELSE Over(c))
  /\ UNCHANGED <<dbVars, memVars, leaving, procVars, lost>>

(* A delete by id: whatever has become of the row since it was listed.  One
   that is no longer there throws, and the schedule is abandoned. *)
ClearOne(c) ==
  /\ at[c] = "clear"
  /\ \E r \in FirstOf(todo[c]) :
       IF row[r] = "none"
       THEN /\ todo' = [todo EXCEPT ![c] = {}]
            /\ Go(c, Over(c))
            /\ row' = row
            /\ lost' = TRUE
       ELSE /\ todo' = [todo EXCEPT ![c] = @ \ {r}]
            /\ Go(c, IF todo[c] = {r} THEN "create" ELSE "clear")
            /\ row' = [row EXCEPT ![r] = "none"]
            /\ lost' = lost
  /\ UNCHANGED <<wanted, memVars, leaving, procVars>>

CreateRow(c) ==
  /\ at[c] = "create"
  /\ \E r \in Fresh : row' = [row EXCEPT ![r] = "PENDING"]
  /\ Go(c, Over(c))
  /\ lost' = FALSE
  /\ UNCHANGED <<wanted, memVars, todo, leaving, procVars>>

(* A failed call is caught and logged; the chain has no next link. *)
ScheduleFails(c) ==
  /\ Faults /\ at[c] \in {"read", "list", "clear", "create"}
  /\ Go(c, Over(c))
  /\ todo' = [todo EXCEPT ![c] = {}]
  /\ lost' = TRUE
  /\ UNCHANGED <<dbVars, memVars, leaving, procVars>>

(* The worker closes the row of a handler that has returned, if a stale
   delete has not taken it in the meantime. *)
Close(r) ==
  /\ at[r] = "done"
  /\ row' = [row EXCEPT ![r] = IF @ = "none" THEN "none" ELSE "closed"]
  /\ Go(r, "idle")
  /\ UNCHANGED <<wanted, memVars, todo, leaving, procVars, lost>>

-----------------------------------------------------------------------------
(* Requests, one at a time. *)
Serving == process = "up" /\ at[request] = "idle" /\ ~leaving /\ wanted # "gone"

(* PATCH of a subscription, or of the setting that enables a job. *)
Enable ==
  /\ Serving
  /\ wanted' = "on"
  /\ Go(request, IF kind = "subscription" THEN "list" ELSE "settings")
  /\ UNCHANGED <<row, memVars, todo, leaving, procVars, lost>>

Disable ==
  /\ Serving
  /\ wanted' = "off"
  /\ Go(request, IF kind = "subscription" THEN "delist" ELSE "settings")
  /\ UNCHANGED <<row, memVars, todo, leaving, procVars, lost>>

(* DELETE starts unscheduling and does not wait for it. *)
Unsubscribe ==
  /\ Serving /\ kind = "subscription"
  /\ leaving' = TRUE
  /\ Go(request, "delist")
  /\ UNCHANGED <<dbVars, memVars, todo, procVars, lost>>

DeleteSubscription ==
  /\ leaving
  /\ leaving' = FALSE
  /\ wanted' = "gone"
  /\ UNCHANGED <<row, memVars, at, todo, procVars, lost>>

(* unscheduleSubscription, called by the routes without await. *)
Delist ==
  /\ at[request] = "delist"
  /\ todo' = [todo EXCEPT ![request] = Pending]
  /\ Go(request, IF Pending = {} THEN "idle" ELSE "drop")
  /\ UNCHANGED <<dbVars, memVars, leaving, procVars, lost>>

DropOne ==
  /\ at[request] = "drop"
  /\ \E r \in FirstOf(todo[request]) :
       /\ row[r] # "none"
       /\ row' = [row EXCEPT ![r] = "none"]
       /\ todo' = [todo EXCEPT ![request] = @ \ {r}]
       /\ Go(request, IF todo[request] = {r} THEN "idle" ELSE "drop")
  /\ UNCHANGED <<wanted, memVars, leaving, procVars, lost>>

(* The row has been deleted in between: nobody handles the rejection. *)
DropRejects ==
  /\ at[request] = "drop"
  /\ \E r \in FirstOf(todo[request]) : row[r] = "none"
  /\ Dies
  /\ UNCHANGED <<dbVars, kind, crashes, lost>>

(* restartHealTask / restartCleanupTask: the settings are read again and the
   job registered as they say. *)
RestartTask ==
  /\ at[request] = "settings"
  /\ known' = (wanted = "on")
  /\ Go(request, IF wanted = "on" THEN "list" ELSE "purge")
  /\ UNCHANGED <<dbVars, held, cooldown, todo, leaving, procVars, lost>>

Purge ==
  /\ at[request] = "purge"
  /\ row' = [r \in Rows |-> IF row[r] = "PENDING" THEN "none" ELSE row[r]]
  /\ Go(request, "idle")
  /\ UNCHANGED <<wanted, memVars, todo, leaving, procVars, lost>>

-----------------------------------------------------------------------------
CallStep(c) ==
  \/ EnterBody(c) \/ LeaveBody(c)
  \/ ReadSubscription(c) \/ ListPending(c) \/ ClearOne(c) \/ CreateRow(c)

RequestStep ==
  \/ Delist \/ DropOne \/ DropRejects
  \/ RestartTask \/ Purge
  \/ DeleteSubscription

Next ==
  \/ Boot \/ StartWorker \/ Crash
  \/ \E r \in Rows : Claim(r) \/ Close(r)
  \/ \E c \in Callers : CallStep(c)
  \/ \E c \in Callers : EnterFails(c) \/ ScheduleFails(c)
  \/ RunByHand \/ ArmCooldown \/ CooldownLapses
  \/ Enable \/ Disable \/ Unsubscribe
  \/ RequestStep

Spec == Init /\ [][Next]_vars

(* The process is restarted when it dies, the database answers, bodies end,
   the cooldown lapses, and the worker reaches every due row. *)
Fairness ==
  /\ WF_vars(Boot) /\ WF_vars(StartWorker) /\ WF_vars(CooldownLapses)
  /\ \A c \in Callers : WF_vars(CallStep(c))
  /\ \A r \in Rows : SF_vars(Claim(r)) /\ WF_vars(Close(r))
  /\ WF_vars(RequestStep)

FairSpec == Spec /\ Fairness

-----------------------------------------------------------------------------
(* The types, what a caller holds in its hands, and what a dead process
   does not. *)
TypeOK ==
  /\ kind \in {"subscription", "system"}
  /\ wanted \in {"on", "off", "gone"}
  /\ row \in [Rows -> {"none", "PENDING", "RUNNING", "closed"}]
  /\ process \in {"down", "booting", "up"}
  /\ known \in BOOLEAN /\ held \in BOOLEAN /\ cooldown \in BOOLEAN
  /\ at \in [Callers -> Stages]
  /\ todo \in [Callers -> SUBSET Rows]
  /\ \A c \in Callers : todo[c] # {} <=> at[c] \in {"clear", "drop"}
  /\ process = "down" => ~known /\ ~held /\ ~leaving /\ \A c \in Callers : at[c] = "idle"
  /\ leaving \in BOOLEAN /\ lost \in BOOLEAN
  /\ crashes \in Nat

Inside == {c \in Callers : at[c] \in {"enter", "body"}}

(* A job never overlaps itself, and a channel is never checked twice at once,
   whoever started it: the queue, a duplicate row or a click (scheduler.ts:36,
   subscription.service.ts:138). *)
OneBody == \A c, d \in Inside : c = d

(* Links of the chain that are there or still to be forged. *)
Forging == {c \in Rows \cup {boot, request} :
              at[c] \in {"enter", "body", "read", "list", "clear", "create"}}

(* While the worker runs and no request is in hand, what is enabled has a
   next row, or a handler that is going to create one: neither a body that
   throws nor a skipped run, a duplicate or a restart cuts the chain.  Only a
   scheduling call that gives up does: one that meets a failing database, or
   a row it listed and another call has deleted since (scheduler.ts:221,
   subscription.service.ts:51, 92, 126). *)
ChainAlive ==
  process = "up" /\ wanted = "on" /\ at[request] = "idle" /\ ~leaving /\ ~lost
    => Pending # {} \/ Forging # {}

(* The name was left in runningJobs by a run that could not be logged. *)
Wedged == held /\ Inside = {}

Quiet == Pending = {} /\ Handling = {}

(* What stays enabled keeps running, as often as the cooldown lets it; what
   stays disabled, or is deleted, comes to rest. *)
Lively ==
  /\ <>[](wanted = "on" /\ ~lost /\ ~Wedged)
       => []<>(cooldown \/ Inside # {})
  /\ <>[](wanted # "on") => <>[]Quiet
=============================================================================
