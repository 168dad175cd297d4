------------------------------ MODULE Monitors ------------------------------
(***************************************************************************)
(* Livestream monitors (services/monitor.service.ts), one monitor of       *)
(* either type.  A YOUTUBE_LIVE monitor is a yt-dlp process that waits for *)
(* the stream; it is started again, after a delay, whenever it ends.  A    *)
(* TWITCH monitor is probed once a minute.  Either hands over to a         *)
(* download when the stream goes live.                                     *)
(*                                                                         *)
(* The service has no object for "one run of the monitor": it has          *)
(* processes, event callbacks, timers and unfinished promises, and one map *)
(* entry under the monitor's id.  A slot stands for what is left of one    *)
(* run: the process, then its close callback, then its restart timer.      *)
(* checkAllMonitors walks all TWITCH monitors with one snapshot; the other *)
(* monitors are the time between "queued" and the check.                   *)
(***************************************************************************)
EXTENDS Naturals

CONSTANTS
  Slots,        \* bound: runs of the monitor that overlap
  Types,        \* which of {"YOUTUBE_LIVE", "TWITCH"} to consider
  MaxRestarts   \* MAX_RESTARTS

ASSUME SlotsAssumption == Slots \subseteq Nat \ {0}
ASSUME TypesAssumption == Types \subseteq {"YOUTUBE_LIVE", "TWITCH"}
ASSUME MaxRestartsAssumption == MaxRestarts \in Nat

VARIABLES
  type,         \* Monitor.type
  enabled,      \* Monitor.enabled: "on" or "off"; "gone" when deleted
  isLive,       \* Monitor.isLive
  downloading,  \* a download of the stream's URL is active
  onAir,        \* whether a TWITCH stream is live, in the world
  stage,        \* [Slots -> what is left of the run]
  snap,         \* [Slots -> isLive as checkAllMonitors read it]
  live,         \* [Slots -> where its handleStreamLive is]
  active,       \* activeMonitors.get(id), 0 if there is none
  restarts,     \* restartCounts.get(id), 0 if there is none
  hour,         \* handlers whose one-hour timer is pending
  answer,       \* what PATCH requests have yet to call: "start", "stop"
  sweeping,     \* monitor-check is between stopAll and its findMany
  process,      \* "up" or "down"
  spent,        \* history: a restart was withheld because the stream was live
  rejected      \* history: the process died of an unhandled rejection

dbVars == <<type, enabled, isLive, downloading>>
runVars == <<stage, snap, active, restarts, spent>>
liveVars == <<live, hour>>
procVars == <<process, rejected>>
vars == <<dbVars, onAir, runVars, liveVars, answer, sweeping, procVars>>

Stages == {"none", "resolving", "alive", "dying", "asking", "waiting",
           "queued", "probing"}

YouTube == type = "YOUTUBE_LIVE"
Twitch == type = "TWITCH"

Free == {p \in Slots : stage[p] = "none" /\ live[p] = "no"}

(* twitchChecksInFlight.has(id) *)
InFlight == \E p \in Slots : stage[p] = "probing"

Init ==
  /\ type \in Types
  /\ enabled \in {"on", "off"} /\ isLive \in BOOLEAN /\ downloading \in BOOLEAN
  /\ onAir = FALSE
  /\ stage = [p \in Slots |-> "none"] /\ snap = [p \in Slots |-> FALSE]
  /\ live = [p \in Slots |-> "no"] /\ hour = {}
  /\ active = 0 /\ restarts = 0 /\ spent = FALSE
  /\ answer = {} /\ sweeping = FALSE
  /\ process = "down" /\ rejected = FALSE

-----------------------------------------------------------------------------
(* stopMonitor: the process under the monitor's id is killed, and its entry
   removed before it has ended. *)
Killed == [p \in Slots |-> IF p = active /\ stage[p] = "alive" THEN "dying" ELSE stage[p]]

StopMonitor ==
  /\ stage' = Killed
  /\ active' = 0 /\ restarts' = 0
  /\ UNCHANGED <<snap, spent>>

(* startMonitor: stops, then resolves the cookies for a new process without
   waiting.  There is nothing to start for TWITCH. *)
StartMonitor(p) ==
  /\ stage' = IF YouTube THEN [Killed EXCEPT ![p] = "resolving"] ELSE stage
  /\ active' = 0 /\ restarts' = 0
  /\ spent' = FALSE
  /\ UNCHANGED snap

(* startMonitoring, here and in Boot: what is enabled is started. *)
StartAll == IF enabled = "on" THEN \E p \in Free : StartMonitor(p) ELSE UNCHANGED runVars

Dies ==
  /\ process' = "down"
  /\ stage' = [p \in Slots |-> "none"] /\ snap' = [p \in Slots |-> FALSE]
  /\ live' = [p \in Slots |-> "no"] /\ hour' = {}
  /\ active' = 0 /\ restarts' = 0 /\ spent' = FALSE
  /\ answer' = {} /\ sweeping' = FALSE

Crash ==
  /\ process = "up"
  /\ Dies
  /\ UNCHANGED <<dbVars, onAir, rejected>>

(* An async event callback that throws has no one to catch it. *)
Rejects ==
  /\ Dies
  /\ rejected' = TRUE
  /\ UNCHANGED <<dbVars, onAir>>

Boot ==
  /\ process = "down"
  /\ process' = "up" /\ rejected' = FALSE
  /\ StartAll
  /\ UNCHANGED <<dbVars, onAir, liveVars, answer, sweeping>>

-----------------------------------------------------------------------------
(* The YouTube probe. *)

(* withYouTubeCookies has the cookie file ready: the process is spawned and
   takes the entry, whoever holds it. *)
Spawn(p) ==
  /\ stage[p] = "resolving"
  /\ stage' = [stage EXCEPT ![p] = "alive"]
  /\ active' = p
  /\ UNCHANGED <<dbVars, onAir, snap, restarts, spent, liveVars, answer, sweeping, procVars>>

(* The cookies cannot be had; the service goes straight to the restart. *)
ResolveFails(p) ==
  /\ stage[p] = "resolving"
  /\ stage' = [stage EXCEPT ![p] = "asking"]
  /\ UNCHANGED <<dbVars, onAir, snap, active, restarts, spent, liveVars, answer, sweeping, procVars>>

(* A process that cannot be spawned emits error and then close, each of which
   asks for a restart. *)
SpawnFails(p) ==
  /\ stage[p] = "resolving"
  /\ \E q \in Free : stage' = [stage EXCEPT ![p] = "asking", ![q] = "asking"]
  /\ active' = 0
  /\ UNCHANGED <<dbVars, onAir, snap, restarts, spent, liveVars, answer, sweeping, procVars>>

(* yt-dlp ends by itself, or says how long it waits. *)
Exit(p) ==
  /\ stage[p] = "alive"
  /\ stage' = [stage EXCEPT ![p] = "dying"]
  /\ UNCHANGED <<dbVars, onAir, snap, active, restarts, spent, liveVars, answer, sweeping, procVars>>

Output(p) ==
  /\ stage[p] = "alive" /\ restarts > 0
  /\ restarts' = 0
  /\ UNCHANGED <<dbVars, onAir, stage, snap, active, spent, liveVars, answer, sweeping, procVars>>

(* Mutant: close restarts only what the map still holds. *)
CloseIfCurrent(p) ==
  /\ stage[p] = "dying"
  /\ active' = IF active = p THEN 0 ELSE active
  /\ stage' = [stage EXCEPT ![p] = IF active = p THEN "asking" ELSE "none"]
  /\ UNCHANGED <<dbVars, onAir, snap, restarts, spent, liveVars, answer, sweeping, procVars>>

(* The close callback removes the entry of the id, also that of a successor,
   and asks for a restart, also after stopMonitor. *)
Close(p) ==
  /\ stage[p] = "dying"
  /\ active' = 0
  /\ stage' = [stage EXCEPT ![p] = "asking"]
  /\ UNCHANGED <<dbVars, onAir, snap, restarts, spent, liveVars, answer, sweeping, procVars>>

(* restartMonitorIfEnabled: the row decides. *)
WithholdRestart(p) ==
  /\ stage[p] = "asking"
  /\ enabled # "on" \/ isLive
  /\ stage' = [stage EXCEPT ![p] = "none"]
  /\ spent' = (spent \/ isLive)
  /\ UNCHANGED <<dbVars, onAir, snap, active, restarts, liveVars, answer, sweeping, procVars>>

ScheduleRestart(p) ==
  /\ stage[p] = "asking" /\ enabled = "on" /\ ~isLive
  /\ restarts < MaxRestarts
  /\ restarts' = restarts + 1
  /\ stage' = [stage EXCEPT ![p] = "waiting"]
  /\ UNCHANGED <<dbVars, onAir, snap, active, spent, liveVars, answer, sweeping, procVars>>

GiveUp(p) ==
  /\ stage[p] = "asking" /\ enabled = "on" /\ ~isLive
  /\ restarts = MaxRestarts
  /\ restarts' = 0
  /\ enabled' = "off"
  /\ stage' = [stage EXCEPT ![p] = "none"]
  /\ UNCHANGED <<type, isLive, downloading, onAir, snap, active, spent, liveVars, answer, sweeping, procVars>>

(* The timer starts the monitor it was set for, whatever has become of it. *)
TimerFires(p) ==
  /\ stage[p] = "waiting"
  /\ StartMonitor(p)
  /\ UNCHANGED <<dbVars, onAir, liveVars, answer, sweeping, procVars>>

SeesStream(p) ==
  /\ stage[p] = "alive" /\ live[p] = "no"
  /\ restarts' = 0
  /\ live' = [live EXCEPT ![p] = "marking"]
  /\ UNCHANGED <<dbVars, onAir, stage, snap, active, spent, hour, answer, sweeping, procVars>>

-----------------------------------------------------------------------------
(* The Twitch probe. *)

(* checkAllMonitors reads every monitor, then checks them one by one. *)
Tick(p) ==
  /\ process = "up" /\ Twitch /\ enabled = "on" /\ ~sweeping /\ p \in Free
  /\ stage' = [stage EXCEPT ![p] = "queued"]
  /\ snap' = [snap EXCEPT ![p] = isLive]
  /\ UNCHANGED <<dbVars, onAir, active, restarts, spent, liveVars, answer, sweeping, procVars>>

(* Mutant: twitchChecksInFlight is not consulted. *)
CheckRegardless(p) ==
  /\ stage[p] = "queued"
  /\ stage' = [stage EXCEPT ![p] = "probing"]
  /\ UNCHANGED <<dbVars, onAir, snap, active, restarts, spent, liveVars, answer, sweeping, procVars>>

BeginCheck(p) ==
  /\ stage[p] = "queued"
  /\ stage' = [stage EXCEPT ![p] = IF InFlight THEN "none" ELSE "probing"]
  /\ UNCHANGED <<dbVars, onAir, snap, active, restarts, spent, liveVars, answer, sweeping, procVars>>

Checked(p) ==
  /\ stage' = [stage EXCEPT ![p] = "none"]
  /\ snap' = [snap EXCEPT ![p] = FALSE]
  /\ UNCHANGED <<type, enabled, downloading, onAir, active, restarts, spent, hour, answer, sweeping, procVars>>

(* A title comes back: news, if the snapshot says the stream was off. *)
ProbeFindsStream(p) ==
  /\ stage[p] = "probing" /\ live[p] = "no" /\ onAir
  /\ IF snap[p]
     THEN Checked(p) /\ UNCHANGED <<isLive, live>>
     ELSE /\ live' = [live EXCEPT ![p] = "marking"]
          /\ UNCHANGED <<dbVars, onAir, runVars, hour, answer, sweeping, procVars>>

(* A rate limit or a refused session keeps the state. *)
ProbeRefused(p) ==
  /\ stage[p] = "probing" /\ live[p] = "no"
  /\ Checked(p) /\ UNCHANGED <<isLive, live>>

(* What the snapshot says was live has ended. *)
TakenOffline(p) ==
  IF snap[p] /\ enabled = "gone"
  THEN Rejects
  ELSE Checked(p) /\ isLive' = (isLive /\ ~snap[p]) /\ UNCHANGED live

(* Mutant: an exit code other than 0 keeps the state, though it is how yt-dlp
   says that nothing is on air. *)
OfflineKeepsState(p) ==
  /\ stage[p] = "probing" /\ live[p] = "no" /\ ~onAir
  /\ Checked(p) /\ UNCHANGED <<isLive, live>>

(* yt-dlp finds that nothing is on air. *)
ProbeFindsNothing(p) ==
  /\ stage[p] = "probing" /\ live[p] = "no" /\ ~onAir
  /\ TakenOffline(p)

(* Any other failure, a timeout or a network error, is treated like that,
   whatever is on air (against the comment above it, see NoFalseEnd). *)
ProbeFails(p) ==
  /\ stage[p] = "probing" /\ live[p] = "no"
  /\ TakenOffline(p)

-----------------------------------------------------------------------------
(* handleStreamLive.  In a YouTube probe the output callback catches what it
   throws; in a Twitch probe it runs in the async close callback. *)
Throws(p) ==
  IF Twitch
  THEN Rejects
  ELSE /\ live' = [live EXCEPT ![p] = "no"]
       /\ UNCHANGED <<dbVars, onAir, runVars, hour, answer, sweeping, procVars>>

MarkLive(p) ==
  /\ live[p] = "marking"
  /\ IF enabled = "gone"
     THEN Throws(p)
     ELSE /\ isLive' = TRUE
          /\ live' = [live EXCEPT ![p] = "fetching"]
          /\ UNCHANGED <<type, enabled, downloading, onAir, runVars, hour, answer, sweeping, procVars>>

(* createDownload refuses a URL that is being downloaded. *)
FetchRefused(p) ==
  /\ live[p] = "fetching" /\ downloading
  /\ Throws(p)

(* The download is created, if autoDownload asks for one; then the monitor is
   stopped and its state reset in an hour. *)
FetchLive(p) ==
  /\ live[p] = "fetching"
  /\ downloading' \in {downloading, TRUE}
  /\ live' = [live EXCEPT ![p] = "no"]
  /\ stage' = IF Twitch THEN [stage EXCEPT ![p] = "none"] ELSE Killed
  /\ snap' = [snap EXCEPT ![p] = FALSE]
  /\ active' = 0 /\ restarts' = 0
  /\ hour' = hour \cup {p}
  /\ UNCHANGED <<type, enabled, isLive, onAir, spent, answer, sweeping, procVars>>

HourPasses(p) ==
  /\ p \in hour
  /\ hour' = hour \ {p}
  /\ isLive' = FALSE
  /\ UNCHANGED <<type, enabled, downloading, onAir, runVars, live, answer, sweeping, procVars>>

-----------------------------------------------------------------------------
(* Requests: the row is written, then the service is told. *)
Enable ==
  /\ process = "up" /\ enabled # "gone" /\ answer = {}
  /\ enabled' = "on"
  /\ answer' = answer \cup {"start"}
  /\ UNCHANGED <<type, isLive, downloading, onAir, runVars, liveVars, sweeping, procVars>>

Disable ==
  /\ process = "up" /\ enabled # "gone" /\ answer = {}
  /\ enabled' = "off"
  /\ answer' = answer \cup {"stop"}
  /\ UNCHANGED <<type, isLive, downloading, onAir, runVars, liveVars, sweeping, procVars>>

AnswerStart ==
  /\ "start" \in answer
  /\ \E p \in Free : StartMonitor(p)
  /\ answer' = answer \ {"start"}
  /\ UNCHANGED <<dbVars, onAir, liveVars, sweeping, procVars>>

AnswerStop ==
  /\ "stop" \in answer
  /\ StopMonitor
  /\ answer' = answer \ {"stop"}
  /\ UNCHANGED <<dbVars, onAir, liveVars, sweeping, procVars>>

(* DELETE stops the monitor before it deletes the row; nothing in between
   starts it that a later action does not. *)
DeleteMonitor ==
  /\ process = "up" /\ enabled # "gone"
  /\ StopMonitor
  /\ enabled' = "gone"
  /\ UNCHANGED <<type, isLive, downloading, onAir, liveVars, answer, sweeping, procVars>>

(* The monitor-check job: stopAll, then startMonitoring.  The timers and the
   restart counts are left as they are. *)
StopAll ==
  /\ process = "up" /\ ~sweeping
  /\ sweeping' = TRUE
  /\ stage' = Killed /\ active' = 0
  /\ UNCHANGED <<dbVars, onAir, snap, restarts, spent, liveVars, answer, procVars>>

SweepStarts ==
  /\ sweeping
  /\ sweeping' = FALSE
  /\ StartAll
  /\ UNCHANGED <<dbVars, onAir, liveVars, answer, procVars>>

(* The world: a stream starts and ends (a YouTube probe that sees one is
   enough), and so does its download. *)
StreamToggles ==
  /\ Twitch
  /\ onAir' = ~onAir
  /\ UNCHANGED <<dbVars, runVars, liveVars, answer, sweeping, procVars>>

DownloadEnds ==
  /\ downloading
  /\ downloading' = FALSE
  /\ UNCHANGED <<type, enabled, isLive, onAir, runVars, liveVars, answer, sweeping, procVars>>

-----------------------------------------------------------------------------
ProbeStep(p) ==
  \/ Spawn(p) \/ ResolveFails(p) \/ SpawnFails(p) \/ Close(p)
  \/ WithholdRestart(p) \/ ScheduleRestart(p) \/ GiveUp(p) \/ TimerFires(p)

CheckStep(p) ==
  \/ BeginCheck(p) \/ ProbeFindsStream(p) \/ ProbeRefused(p)
  \/ ProbeFindsNothing(p) \/ ProbeFails(p)

HandlerStep(p) == MarkLive(p) \/ FetchRefused(p) \/ FetchLive(p)

Next ==
  \/ Boot \/ Crash
  \/ \E p \in Slots : ProbeStep(p) \/ CheckStep(p) \/ HandlerStep(p)
  \/ \E p \in Slots : Exit(p) \/ Output(p) \/ SeesStream(p) \/ Tick(p) \/ HourPasses(p)
  \/ Enable \/ Disable \/ AnswerStart \/ AnswerStop \/ DeleteMonitor
  \/ StopAll \/ SweepStarts
  \/ StreamToggles \/ DownloadEnds

Spec == Init /\ [][Next]_vars

(* Callbacks and timers run, spawning and the database answer one way or the
   other, the minute tick fires, and the checks of a Twitch channel do not end
   in failures and rate limits for ever once nothing is on air. *)
Fairness ==
  /\ WF_vars(SweepStarts)
  /\ WF_vars(AnswerStart) /\ WF_vars(AnswerStop)
  /\ \A p \in Slots : WF_vars(ProbeStep(p)) /\ WF_vars(CheckStep(p)) /\ WF_vars(HandlerStep(p))
  /\ SF_vars(\E p \in Slots : Tick(p))
  /\ SF_vars(\E p \in Slots : ProbeFindsNothing(p))

FairSpec == Spec /\ Fairness

-----------------------------------------------------------------------------
(* The types, and which stages belong to which type of monitor. *)
TypeOK ==
  /\ type \in {"YOUTUBE_LIVE", "TWITCH"} /\ enabled \in {"on", "off", "gone"}
  /\ isLive \in BOOLEAN /\ downloading \in BOOLEAN /\ onAir \in BOOLEAN
  /\ stage \in [Slots -> Stages] /\ snap \in [Slots -> BOOLEAN]
  /\ live \in [Slots -> {"no", "marking", "fetching"}]
  /\ active \in Slots \cup {0} /\ restarts \in 0 .. MaxRestarts
  /\ active # 0 => stage[active] \in {"alive", "dying"}
  /\ hour \subseteq Slots /\ answer \subseteq {"start", "stop"}
  /\ sweeping \in BOOLEAN /\ spent \in BOOLEAN /\ rejected \in BOOLEAN
  /\ process \in {"up", "down"}
  /\ YouTube => \A p \in Slots : stage[p] \notin {"queued", "probing"}
  /\ Twitch => \A p \in Slots : stage[p] \in {"none", "queued", "probing"}

(* Something will look at the stream: a process, or a callback or timer that
   leads to one. *)
Watched ==
  \E p \in Slots : stage[p] \in {"resolving", "alive", "dying", "asking", "waiting"}

(* An enabled YouTube monitor is never silently dead (monitor.service.ts:68):
   whatever process fails, is killed by its successor, by a request or by the
   job, and in whatever order the callbacks come, a run or its restart is
   under way, unless a restart was withheld because the stream was live. *)
NeverSilentlyDead ==
  process = "up" /\ YouTube /\ enabled = "on" /\ ~spent /\ "start" \notin answer
    => Watched

(* One Twitch monitor never has two probes, hence never two live handlers, at
   once, though its check may outlast many ticks (monitor.service.ts:14). *)
OneLiveHandler ==
  Twitch => \A p \in Slots :
              /\ live[p] # "no" => stage[p] = "probing"
              /\ \A q \in Slots : stage[p] = "probing" /\ stage[q] = "probing" => p = q

(* While the server stays up, an enabled YouTube monitor keeps getting a
   process, through every failure.  A Twitch stream that has ended is noticed
   for good from the answers that nothing is on air alone, stale snapshots,
   pending resets and what an earlier life of the server has left in the row
   notwithstanding; failed checks need not count as evidence for this. *)
Attentive ==
  /\ <>[](process = "up" /\ YouTube /\ enabled = "on" /\ ~isLive /\ ~spent)
       => []<>(\E p \in Slots : stage[p] \in {"resolving", "alive"})
  /\ <>[](process = "up" /\ Twitch /\ enabled = "on" /\ ~onAir) => <>[]~isLive

-----------------------------------------------------------------------------
(* Not true of this code: TLC finds a counterexample (README). *)

(* "Async work in an event callback becomes an unhandled rejection if it
   throws - route it through .catch explicitly." (monitor.service.ts:100) *)
NoUnhandledRejection == ~rejected

(* "A failed check is not evidence the stream ended - a rate limit, auth
   failure, or network blip must not flip an active stream to offline."
   (monitor.service.ts:325): while the stream is on air, only the reset of an
   hour ago takes the monitor for offline. *)
NoFalseEnd == [][~(onAir /\ isLive /\ ~isLive' /\ hour' = hour)]_vars
=============================================================================
