--------------------------- MODULE DownloadPipeline ---------------------------
(***************************************************************************)
(* The life of one download (services/download.service.ts): its row, the   *)
(* queue jobs of its two phases, the yt-dlp processes spawned for it, the  *)
(* retry timer, and the requests that cancel, delete or retry it.          *)
(*                                                                         *)
(* One action is the code between two awaits: what was read before an      *)
(* await may be stale when the next action runs.  Of the queue the module  *)
(* keeps what its callers see (JobQueue models the worker itself): a job   *)
(* is PENDING, then RUNNING while its handler executes, then gone.         *)
(***************************************************************************)
EXTENDS Integers, FiniteSets

CONSTANTS
  MaxJobs,       \* bound: job rows of the download live at the same time
  MaxRetries,    \* automatic retries of a failed download (3)
  MaxCrashes,    \* bound: process restarts
  DownloadLimit, \* queue slots of type download (2); metadata has 1
  Requests,      \* which of "cancel", "delete", "retry", "heal" are made
  MayStall,      \* may yt-dlp fall silent past the stall timeout?
  Prompt         \* which of "timer", "request", "restart" come only when the
                 \* enqueues and last writes under way have been answered;
                 \* "exit": a stalled process ends at its SIGTERM

ASSUME BoundAssumption ==
  /\ MaxJobs \in Nat \ {0} /\ MaxRetries \in Nat /\ MaxCrashes \in Nat
  /\ DownloadLimit \in Nat \ {0}
ASSUME RequestAssumption == Requests \subseteq {"cancel", "delete", "retry", "heal"}
ASSUME SwitchAssumption ==
  MayStall \in BOOLEAN /\ Prompt \subseteq {"timer", "request", "restart", "exit"}

Job == 1 .. MaxJobs
Retriers == Requests \cap {"retry", "heal"}

VARIABLES
  status,     \* Download.status; "NONE" before and "GONE" after the row exists
  retries,    \* Download.retryCount
  captured,   \* Download.filepath is set
  file,       \* the media file: "none", "partial" or "full"
  job,        \* job_queue rows, <<type, status>>, or Free
  pc,         \* where the handler of each job is
  proc,       \* the process each handler spawned
  active,     \* activeProcesses.get(id): the job whose process it is, or 0
  handling,   \* id in handlingError
  seen,       \* download.retryCount as handleDownloadError read it
  timer,      \* id in retryTimeouts
  starting,   \* processDownload calls between their query and the enqueue
  retryPc,    \* where each retryDownload call is
  cancelled,  \* id in cancelledDownloads
  cancelPc,   \* where cancelDownload is
  deleting,   \* it was called by deleteDownload
  bootPc,     \* where the boot sequence is
  crashes,    \* restarts so far
  died        \* the process has died of an unhandled rejection

rowVars == <<status, retries, captured>>
jobVars == <<job, pc>>
procVars == <<proc, active, file>>
errorVars == <<handling, seen, timer>>
startVars == <<starting, retryPc>>
cancelVars == <<cancelled, cancelPc, deleting>>
sysVars == <<bootPc, crashes, died>>
vars == <<rowVars, jobVars, procVars, errorVars, startVars, cancelVars, sysVars>>

Active == {"PENDING", "FETCHING_INFO", "DOWNLOADING", "PROCESSING"}
Settled == {"COMPLETED", "FAILED", "CANCELLED", "GONE"}
Exists == status \notin {"NONE", "GONE"}

Free == <<"none", "FREE">>
Pending(type) == <<type, "PENDING">>
Running(type) == <<type, "RUNNING">>
JobRows == {Pending(t) : t \in {"metadata", "download"}}
             \cup {Running(t) : t \in {"metadata", "download"}}
RunningJobs(type) == {j \in Job : job[j] = Running(type)}

(* A process that may still write the output file. *)
Alive(j) == proc[j] \in {"running", "dying"}

(* The columns of a row that is gone mean nothing. *)
DropRow == status' = "GONE" /\ retries' = 0 /\ captured' = FALSE

Goto(j, l) == pc' = [pc EXCEPT ![j] = l]

(* queueService.enqueue creates a row; the number of a job that is over is
   used again once its process, if any, has ended. *)
Unused(j) == job[j] = Free /\ proc[j] = "none"

Enqueue(type) ==
  \E j \in Job :
    /\ Unused(j) /\ \A i \in 1 .. j - 1 : ~Unused(i)
    /\ job' = [job EXCEPT ![j] = Pending(type)]

HasPipeline == \E j \in Job : job[j] # Free

(* Mutant: processDownload enqueues without looking. *)
NeverQueued == FALSE

(* The query of processDownload: is a pipeline queued or running already? *)
AlreadyQueued == HasPipeline

(* The queries that enqueue a job, and those that end a handler. *)
Enqueued(by) == by \in Prompt => starting = 0
Closing ==
  {"complete", "error", "errorRead", "errorRetry", "errorClean", "errorFail", "close"}
Answered(by) ==
  by \in Prompt => starting = 0 /\ \A j \in Job : pc[j] \notin Closing

-----------------------------------------------------------------------------
(* What a fresh process has in memory; the old one's yt-dlp is gone, too. *)
FreshMemory ==
  /\ pc' = [j \in Job |-> "idle"]
  /\ proc' = [j \in Job |-> "none"] /\ active' = 0
  /\ handling' = FALSE /\ seen' = 0 /\ timer' = FALSE
  /\ starting' = 0 /\ retryPc' = [r \in Retriers |-> "idle"]
  /\ cancelled' = FALSE /\ cancelPc' = "idle" /\ deleting' = FALSE
  /\ bootPc' = "reset"

Init ==
  /\ status = "NONE" /\ retries = 0 /\ captured = FALSE /\ file = "none"
  /\ job = [j \in Job |-> Free] /\ pc = [j \in Job |-> "idle"]
  /\ proc = [j \in Job |-> "none"] /\ active = 0
  /\ handling = FALSE /\ seen = 0 /\ timer = FALSE
  /\ starting = 0 /\ retryPc = [r \in Retriers |-> "idle"]
  /\ cancelled = FALSE /\ cancelPc = "idle" /\ deleting = FALSE
  /\ bootPc = "up" /\ crashes = 0 /\ died = FALSE

Crash ==
  /\ crashes < MaxCrashes /\ crashes' = crashes + 1
  /\ Answered("restart")
  /\ FreshMemory
  /\ UNCHANGED <<rowVars, file, job, died>>

(* A rejected promise nobody awaits ends the process; what keeps Node
   running (the container) restarts it. *)
Die ==
  /\ died' = TRUE
  /\ FreshMemory
  /\ UNCHANGED <<rowVars, file, job, crashes>>

(* ensureDefaults: interrupted downloads become PENDING, *)
BootReset ==
  /\ bootPc = "reset" /\ bootPc' = "resume"
  /\ status' = IF status \in Active THEN "PENDING" ELSE status
  /\ UNCHANGED <<retries, captured, jobVars, procVars, errorVars, startVars,
                 cancelVars, crashes, died>>

(* Mutant: a download is resumed only if its job is still there. *)
ResumeOnlyQueued == FALSE

ShouldResume == status = "PENDING" /\ ~AlreadyQueued

(* every PENDING download is handed to processDownload, *)
BootResume ==
  /\ bootPc = "resume" /\ bootPc' = "start"
  /\ starting' = IF ShouldResume THEN starting + 1 ELSE starting
  /\ UNCHANGED <<rowVars, jobVars, procVars, errorVars, retryPc, cancelVars,
                 crashes, died>>

(* and QueueService.start puts RUNNING jobs back to PENDING. *)
BootStart ==
  /\ bootPc = "start" /\ bootPc' = "up"
  /\ job' = [j \in Job |-> IF job[j] = Free THEN Free ELSE Pending(job[j][1])]
  /\ UNCHANGED <<rowVars, pc, procVars, errorVars, startVars, cancelVars,
                 crashes, died>>

-----------------------------------------------------------------------------
(* createDownload, and the two halves of processDownload. *)
Create ==
  /\ status = "NONE" /\ bootPc = "up"
  /\ status' = "PENDING" /\ starting' = starting + 1
  /\ UNCHANGED <<retries, captured, jobVars, procVars, errorVars, retryPc,
                 cancelVars, sysVars>>

StartEnqueue ==
  /\ starting > 0 /\ starting' = starting - 1
  /\ Enqueue("metadata")
  /\ UNCHANGED <<rowVars, pc, procVars, errorVars, retryPc, cancelVars, sysVars>>

RetryFires ==
  /\ timer /\ Answered("timer")
  /\ timer' = FALSE
  /\ starting' = IF AlreadyQueued THEN starting ELSE starting + 1
  /\ UNCHANGED <<rowVars, jobVars, procVars, handling, seen, retryPc,
                 cancelVars, sysVars>>

(* poll() claims a job: other downloads may hold the slots for any time. *)
Claim(j) ==
  /\ bootPc = "up" /\ pc[j] = "idle"
  /\ \/ /\ job[j] = Pending("metadata") /\ RunningJobs("metadata") = {}
        /\ job' = [job EXCEPT ![j] = Running("metadata")] /\ Goto(j, "metaRead")
     \/ /\ job[j] = Pending("download")
        /\ Cardinality(RunningJobs("download")) < DownloadLimit
        /\ job' = [job EXCEPT ![j] = Running("download")] /\ Goto(j, "read")
  /\ UNCHANGED <<rowVars, procVars, errorVars, startVars, cancelVars, sysVars>>

(* The handler is over; executeJob writes the job's terminal status. *)
Close(j) ==
  /\ pc[j] = "close" /\ Goto(j, "idle")
  /\ job' = [job EXCEPT ![j] = Free]
  /\ UNCHANGED <<rowVars, procVars, errorVars, startVars, cancelVars, sysVars>>

-----------------------------------------------------------------------------
(* Phase 1: fetchMetadata, then the job of phase 2. *)
MetaRead(j) ==
  /\ pc[j] = "metaRead"
  /\ Goto(j, IF Exists /\ status # "CANCELLED" THEN "metaMark" ELSE "metaNext")
  /\ UNCHANGED <<rowVars, job, procVars, errorVars, startVars, cancelVars, sysVars>>

MetaMark(j) ==
  /\ pc[j] = "metaMark"
  /\ IF Exists THEN status' = "FETCHING_INFO" /\ Goto(j, "metaFetch")
     ELSE status' = status /\ Goto(j, "error")
  /\ UNCHANGED <<retries, captured, job, procVars, errorVars, startVars,
                 cancelVars, sysVars>>

(* yt-dlp answers, fails, or what it says excludes the video: the row goes. *)
MetaFetch(j) ==
  /\ pc[j] = "metaFetch"
  /\ \/ Goto(j, "metaStore") /\ UNCHANGED rowVars
     \/ Goto(j, "error") /\ UNCHANGED rowVars
     \/ Goto(j, "close") /\ DropRow
  /\ UNCHANGED <<job, procVars, errorVars, startVars, cancelVars, sysVars>>

MetaStore(j) ==
  /\ pc[j] = "metaStore"
  /\ Goto(j, IF Exists THEN "metaNext" ELSE "error")
  /\ UNCHANGED <<rowVars, job, procVars, errorVars, startVars, cancelVars, sysVars>>

MetaNext(j) ==
  /\ pc[j] = "metaNext" /\ Goto(j, "close")
  /\ Enqueue("download")
  /\ UNCHANGED <<rowVars, procVars, errorVars, startVars, cancelVars, sysVars>>

Metadata(j) ==
  MetaRead(j) \/ MetaMark(j) \/ MetaFetch(j) \/ MetaStore(j) \/ MetaNext(j)

-----------------------------------------------------------------------------
(* Phase 2: executeDownload. *)

NothingToDownload == ~Exists \/ status \in Settled \/ active # 0

DownloadRead(j) ==
  /\ pc[j] = "read"
  /\ Goto(j, IF NothingToDownload THEN "close" ELSE "mark")
  /\ UNCHANGED <<rowVars, job, procVars, errorVars, startVars, cancelVars, sysVars>>

DownloadMark(j) ==
  /\ pc[j] = "mark"
  /\ IF Exists THEN status' = "DOWNLOADING" /\ Goto(j, "prepare")
     ELSE status' = status /\ Goto(j, "error")
  /\ UNCHANGED <<retries, captured, job, procVars, errorVars, startVars,
                 cancelVars, sysVars>>

(* The disk check may refuse, and the task rows need the download's row. *)
Prepare(j) ==
  /\ pc[j] = "prepare"
  /\ \/ Goto(j, "error")
     \/ Exists /\ Goto(j, "spawn")
  /\ UNCHANGED <<rowVars, job, procVars, errorVars, startVars, cancelVars, sysVars>>

Spawn(j) ==
  /\ pc[j] = "spawn" /\ Goto(j, "wait")
  /\ proc' = [proc EXCEPT ![j] = "running"] /\ active' = j
  /\ file' = IF file = "full" THEN "full" ELSE "partial"
  /\ UNCHANGED <<rowVars, job, errorVars, startVars, cancelVars, sysVars>>

(* handleProgress: the row is updated and nobody awaits the promise. *)
Progress(j) ==
  /\ Alive(j) /\ Exists
  /\ \/ captured' = TRUE /\ UNCHANGED status
     \/ captured /\ status' = "PROCESSING" /\ UNCHANGED captured
  /\ UNCHANGED <<retries, jobVars, procVars, errorVars, startVars, cancelVars,
                 sysVars>>

(* The update finds no row. *)
ProgressLost(j) == Alive(j) /\ ~Exists /\ Die

(* No output for downloadStallTimeoutSeconds: SIGTERM is sent, the entry is
   removed and the promise rejected at once. *)
Stall(j) ==
  /\ MayStall /\ pc[j] = "wait" /\ proc[j] = "running"
  /\ proc' = [proc EXCEPT ![j] = IF "exit" \in Prompt THEN "dead" ELSE "dying"]
  /\ active' = 0 /\ Goto(j, "error")
  /\ UNCHANGED <<rowVars, file, job, errorVars, startVars, cancelVars, sysVars>>

(* Where the close handler goes: a cancel's kill is no failure. *)
AfterExit(ok) == IF cancelled THEN "close" ELSE IF ok THEN "complete" ELSE "error"

(* The queries of a retry do not take as long as a run of yt-dlp. *)
RetryAnswered ==
  "request" \in Prompt => \A r \in Retriers : retryPc[r] = "idle"

(* The process ends and its close event is handled.  "full" is exit code 0,
   or a failure of the subtitles alone with the media file on disk. *)
Exit(j) ==
  /\ proc[j] # "none" /\ proc' = [proc EXCEPT ![j] = "none"]
  /\ active' = IF pc[j] = "wait" THEN 0 ELSE active
  /\ \E ok \in BOOLEAN :
       /\ ok => captured /\ Alive(j) /\ file # "none" /\ RetryAnswered
       /\ file' = IF ok THEN "full" ELSE file
       /\ IF pc[j] = "wait" THEN Goto(j, AfterExit(ok)) ELSE pc' = pc
  /\ UNCHANGED <<rowVars, job, errorVars, startVars, cancelVars, sysVars>>

(* completeDownload reads the row, then writes COMPLETED; it runs in an event
   listener, so the exception of a row that is gone is never caught. *)
Complete(j) ==
  /\ pc[j] = "complete" /\ Exists
  /\ status' = "COMPLETED" /\ Goto(j, "close")
  /\ UNCHANGED <<retries, captured, job, procVars, errorVars, startVars,
                 cancelVars, sysVars>>

CompleteLost(j) == pc[j] = "complete" /\ ~Exists /\ Die

Download(j) ==
  \/ DownloadRead(j) \/ DownloadMark(j) \/ Prepare(j) \/ Spawn(j)
  \/ Exit(j) \/ Complete(j) \/ CompleteLost(j)

-----------------------------------------------------------------------------
(* handleDownloadError *)
ErrorGuard(j) ==
  /\ pc[j] = "error"
  /\ IF cancelled \/ handling THEN handling' = handling /\ Goto(j, "close")
     ELSE handling' = TRUE /\ Goto(j, "errorRead")
  /\ UNCHANGED <<rowVars, job, procVars, seen, timer, startVars, cancelVars, sysVars>>

(* Mutant: the retry budget is not looked at. *)
RetryForEver == TRUE

MayRetry == retries < MaxRetries

(* Rate limits and deterministic errors skip the retries. *)
ErrorRead(j) ==
  /\ pc[j] = "errorRead"
  /\ IF Exists /\ status # "CANCELLED"
     THEN /\ \/ MayRetry /\ Goto(j, "errorRetry")
             \/ Goto(j, IF captured THEN "errorClean" ELSE "errorFail")
          /\ seen' = retries /\ handling' = handling
     ELSE handling' = FALSE /\ seen' = 0 /\ Goto(j, "close")
  /\ UNCHANGED <<rowVars, job, procVars, timer, startVars, cancelVars, sysVars>>

(* Mutant: the timer of the retry is not set. *)
NoTimer == timer

ArmedTimer == TRUE

ErrorRetry(j) ==
  /\ pc[j] = "errorRetry" /\ Goto(j, "close")
  /\ IF Exists THEN retries' = seen + 1 /\ timer' = ArmedTimer
     ELSE UNCHANGED <<retries, timer>>
  /\ handling' = FALSE /\ seen' = 0
  /\ UNCHANGED <<status, captured, job, procVars, startVars, cancelVars, sysVars>>

(* Terminal: the files next to the known path are removed, *)
ErrorClean(j) ==
  /\ pc[j] = "errorClean" /\ Goto(j, "errorFail")
  /\ file' = "none"
  /\ UNCHANGED <<rowVars, job, proc, active, errorVars, startVars, cancelVars,
                 sysVars>>

(* and the row, if it is still there, becomes FAILED without a path. *)
ErrorFail(j) ==
  /\ pc[j] = "errorFail" /\ Goto(j, "close")
  /\ IF Exists THEN status' = "FAILED" /\ captured' = FALSE
     ELSE UNCHANGED <<status, captured>>
  /\ handling' = FALSE /\ seen' = 0
  /\ UNCHANGED <<retries, job, procVars, timer, startVars, cancelVars, sysVars>>

Error(j) ==
  ErrorGuard(j) \/ ErrorRead(j) \/ ErrorRetry(j) \/ ErrorClean(j) \/ ErrorFail(j)

-----------------------------------------------------------------------------
(* cancelDownload and deleteDownload.  No status is checked. *)
CancelBegin(request) ==
  /\ request \in Requests \cap {"cancel", "delete"}
  /\ bootPc = "up" /\ cancelPc = "idle" /\ Exists /\ Enqueued("request")
  /\ cancelled' = TRUE /\ timer' = FALSE /\ deleting' = (request = "delete")
  /\ IF active # 0
     THEN /\ cancelPc' = "kill"
          /\ proc' = [proc EXCEPT ![active] = IF @ = "running" THEN "dying" ELSE @]
     ELSE cancelPc' = "clean" /\ proc' = proc
  /\ UNCHANGED <<rowVars, jobVars, active, file, handling, seen, startVars, sysVars>>

(* killProcess: 5 s after SIGTERM whatever is left gets SIGKILL. *)
CancelKill ==
  /\ cancelPc = "kill" /\ cancelPc' = "clean"
  /\ proc' = [j \in Job |-> IF proc[j] = "dying" THEN "dead" ELSE proc[j]]
  /\ active' = 0
  /\ UNCHANGED <<rowVars, jobVars, file, errorVars, startVars, cancelled, deleting,
                 sysVars>>

CancelClean ==
  /\ cancelPc = "clean" /\ cancelPc' = "write"
  /\ file' = IF Exists /\ captured THEN "none" ELSE file
  /\ UNCHANGED <<rowVars, jobVars, proc, active, errorVars, startVars, cancelled,
                 deleting, sysVars>>

CancelWrite ==
  /\ cancelPc = "write"
  /\ status' = IF Exists THEN "CANCELLED" ELSE status
  /\ cancelled' = FALSE
  /\ IF Exists /\ deleting THEN cancelPc' = "drop" /\ UNCHANGED deleting
     ELSE cancelPc' = "idle" /\ deleting' = FALSE
  /\ UNCHANGED <<retries, captured, jobVars, procVars, errorVars, startVars, sysVars>>

(* The files are unlinked and the row is deleted, if nobody else did it. *)
DeleteRow ==
  /\ cancelPc = "drop" /\ cancelPc' = "idle" /\ deleting' = FALSE
  /\ DropRow /\ file' = IF captured THEN "none" ELSE file
  /\ UNCHANGED <<jobVars, proc, active, errorVars, startVars, cancelled, sysVars>>

Cancel == CancelKill \/ CancelClean \/ CancelWrite \/ DeleteRow

-----------------------------------------------------------------------------
(* retryDownload, called by a user or by the heal pass (FAILED rows only). *)
RetryBegin(r) ==
  /\ bootPc = "up" /\ retryPc[r] = "idle" /\ Answered("request")
  /\ status \in IF r = "retry" THEN {"FAILED", "CANCELLED"} ELSE {"FAILED"}
  /\ retryPc' = [retryPc EXCEPT ![r] = "reset"]
  /\ UNCHANGED <<rowVars, jobVars, procVars, errorVars, starting, cancelVars, sysVars>>

(* Another row has completed the same video: this one is discarded. *)
RetryDuplicate(r) ==
  /\ retryPc[r] = "reset" /\ retryPc' = [retryPc EXCEPT ![r] = "idle"]
  /\ DropRow /\ cancelled' = FALSE
  /\ UNCHANGED <<jobVars, procVars, errorVars, starting, cancelPc, deleting, sysVars>>

RetryReset(r) ==
  /\ retryPc[r] = "reset" /\ Answered("request")
  /\ cancelled' = FALSE
  /\ IF Exists THEN /\ status' = "PENDING" /\ retries' = 0
                    /\ retryPc' = [retryPc EXCEPT ![r] = "check"]
     ELSE /\ UNCHANGED <<status, retries>>
          /\ retryPc' = [retryPc EXCEPT ![r] = "idle"]
  /\ UNCHANGED <<captured, jobVars, procVars, errorVars, starting, cancelPc,
                 deleting, sysVars>>

RetryCheck(r) ==
  /\ retryPc[r] = "check" /\ Answered("request")
  /\ retryPc' = [retryPc EXCEPT ![r] = "idle"]
  /\ starting' = IF AlreadyQueued THEN starting ELSE starting + 1
  /\ UNCHANGED <<rowVars, jobVars, procVars, errorVars, cancelVars, sysVars>>

Retry(r) == RetryReset(r) \/ RetryCheck(r)

-----------------------------------------------------------------------------
Boot == BootReset \/ BootResume \/ BootStart

Handler(j) == Metadata(j) \/ Download(j) \/ Error(j) \/ Close(j)

Next ==
  \/ Crash \/ Boot
  \/ Create \/ StartEnqueue \/ RetryFires
  \/ \E j \in Job :
       \/ Claim(j) \/ Handler(j)
       \/ Progress(j) \/ ProgressLost(j) \/ Stall(j)
  \/ \E q \in {"cancel", "delete"} : CancelBegin(q)
  \/ Cancel
  \/ \E r \in Retriers : RetryBegin(r) \/ RetryDuplicate(r) \/ Retry(r)

Spec == Init /\ [][Next]_vars

(* The boot sequence, timers, requests and handlers run on, a freed slot is
   given to every job in the end, and every process exits. *)
Fairness ==
  /\ WF_vars(Boot) /\ WF_vars(StartEnqueue) /\ WF_vars(RetryFires)
  /\ WF_vars(Cancel)
  /\ \A r \in Retriers : WF_vars(Retry(r))
  /\ \A j \in Job : WF_vars(Handler(j)) /\ SF_vars(Claim(j))

FairSpec == Spec /\ Fairness

-----------------------------------------------------------------------------
TypeOK ==
  /\ status \in Active \cup Settled \cup {"NONE"}
  /\ retries \in 0 .. MaxRetries /\ captured \in BOOLEAN
  /\ file \in {"none", "partial", "full"}
  /\ job \in [Job -> JobRows \cup {Free}]
  /\ pc \in [Job -> {"idle", "metaRead", "metaMark", "metaFetch", "metaStore",
                     "metaNext", "read", "mark", "prepare", "spawn", "wait",
                     "complete", "error", "errorRead", "errorRetry",
                     "errorClean", "errorFail", "close"}]
  /\ proc \in [Job -> {"none", "running", "dying", "dead"}]
  /\ active \in Job \cup {0}
  /\ handling \in BOOLEAN /\ seen \in 0 .. MaxRetries /\ timer \in BOOLEAN
  /\ starting \in Nat /\ retryPc \in [Retriers -> {"idle", "reset", "check"}]
  /\ cancelled \in BOOLEAN /\ deleting \in BOOLEAN
  /\ cancelPc \in {"idle", "kill", "clean", "write", "drop"}
  /\ bootPc \in {"reset", "resume", "start", "up"}
  /\ crashes \in Nat /\ died \in BOOLEAN

(* executeDownload must "never spawn a second process" (752-754): no two
   yt-dlp processes write the same output file. *)
OneWriter == Cardinality({j \in Job : Alive(j)}) <= 1

(* Whatever the timing of a failure, a restart or a request, a download in
   an active status always has something that will move it on. *)
ActiveIsDriven ==
  status \in Active =>
    \/ HasPipeline
    \/ timer \/ starting > 0 \/ bootPc \in {"reset", "resume"} \/ cancelPc # "idle"
    \/ \E r \in Retriers : retryPc[r] = "check"

(* Every download settles. *)
Settles == status \in Active ~> status \in Settled

-----------------------------------------------------------------------------
(* None of these is true of this code: TLC finds counterexamples (README). *)

(* "Never re-run a download that already reached a terminal state (e.g. a stale
   job row racing the post-restart resume)" (752-754): executeDownload looks at
   all of them, fetchMetadata (412) at CANCELLED alone. *)
Rerun == status \in {"COMPLETED", "FAILED"} /\ status' = "FETCHING_INFO"
FinishedIsNotRerun == [][~Rerun]_vars

(* No yt-dlp runs for a download whose cancellation is over (a spawn that was
   being prepared, download.service.ts:857, makes one). *)
CancelledIsStopped ==
  status = "CANCELLED" /\ cancelPc = "idle" => \A j \in Job : proc[j] # "running"

(* No promise is rejected without a handler, which ends the server: a progress
   line after the row was deleted (download.service.ts:982) does it. *)
NoUnhandledRejection == ~died
=============================================================================
