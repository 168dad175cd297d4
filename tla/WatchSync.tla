------------------------------ MODULE WatchSync ------------------------------
(***************************************************************************)
(* The watched marks of one account and their exchange with its YouTube    *)
(* history: saveProgress, markWatched and markUnwatched                    *)
(* (services/watch-progress.service.ts), and the passes that push the new  *)
(* marks and pull the history (services/youtube-sync.service.ts).  The     *)
(* scheduled pass and "Sync now" may overlap, and so may any number of     *)
(* saves of one video: nothing keeps them apart.                           *)
(*                                                                         *)
(* One action is the code between two awaits.  Dates are instants of a     *)
(* clock that every new Date() advances: no two of them are the same.  0   *)
(* is no date.  A mark and its date are one write.                         *)
(*                                                                         *)
(* The account stays linked, with both directions switched on.             *)
(***************************************************************************)
EXTENDS Naturals

CONSTANTS
  Videos, \* downloaded videos
  Syncs,  \* passes that may overlap: "job", "manual"
  MaxNow  \* bound: the last instant at which something is dated

ASSUME MaxNowAssumption == MaxNow \in Nat \ {0}

VARIABLES
  watched,   \* [Videos -> WatchProgress.watched]
  watchedAt, \* [Videos -> WatchProgress.watchedAt]
  lastSync,  \* YouTubeLink.lastHistorySync
  now,       \* the last instant that was used
  history,   \* the videos in the history YouTube keeps
  save,      \* [Videos -> what the saves that have read the row found]
  pc,        \* [Syncs -> where the pass is]
  since,     \* [Syncs -> lastHistorySync as it was read]
  todo,      \* [Syncs -> the videos to push or to mark]
  stamp,     \* [Syncs -> syncedAt]
  excused,   \* history: marked under a pass's eyes, or their push failed
  restored   \* history: marks a save brought back that a pass has overlooked

progressVars == <<watched, watchedAt, save>>
passVars == <<pc, since, todo, stamp>>
lossVars == <<excused, restored>>
syncVars == <<progressVars, passVars, lastSync, now, history, lossVars>>

Stages == {"idle", "query", "send", "fetch", "load", "mark"}
Readings == {"unwatched", "watched"} \* what a save may have read

SyncInit ==
  /\ watched = [v \in Videos |-> FALSE] /\ watchedAt = [v \in Videos |-> 0]
  /\ save = [v \in Videos |-> {}]
  /\ lastSync = 0 /\ now = 0 /\ history \in SUBSET Videos
  /\ pc = [s \in Syncs |-> "idle"] /\ since = [s \in Syncs |-> 0]
  /\ todo = [s \in Syncs |-> {}] /\ stamp = [s \in Syncs |-> 0]
  /\ excused = {} /\ restored = {}

(* new Date() *)
NewDate == now < MaxNow /\ now' = now + 1

-----------------------------------------------------------------------------
(* The user.  A mark made after a pass has looked for marks, and before the
   date the watermark is going to get, is one that no pass looks for. *)
Overlooked == \E s \in Syncs : pc[s] \in {"send", "fetch"}

Mark(v) ==
  /\ NewDate
  /\ watched' = [watched EXCEPT ![v] = TRUE]
  /\ watchedAt' = [watchedAt EXCEPT ![v] = now']
  /\ excused' = IF Overlooked THEN excused \cup {v} ELSE excused \ {v}
  /\ restored' = restored \ {v}

MarkWatched(v) ==
  /\ Mark(v)
  /\ UNCHANGED <<save, passVars, lastSync, history>>

MarkUnwatched(v) ==
  /\ watched' = [watched EXCEPT ![v] = FALSE]
  /\ watchedAt' = [watchedAt EXCEPT ![v] = 0]
  /\ excused' = excused \ {v} /\ restored' = restored \ {v}
  /\ UNCHANGED <<save, passVars, lastSync, now, history>>

(* saveProgress looks whether the video is marked, ... *)
SaveRead(v) ==
  /\ LET reading == IF watched[v] THEN "watched" ELSE "unwatched"
     IN save' = [save EXCEPT ![v] = @ \cup {reading}]
  /\ UNCHANGED <<watched, watchedAt, passVars, lastSync, now, history>>
  /\ UNCHANGED lossVars

(* The date an unmarked video kept is one that a pass has passed over, or will
   have when it is done. *)
PassedOver(v) ==
  \/ Overlooked
  \/ watchedAt[v] <= lastSync
  \/ \E s \in Syncs : watchedAt[v] <= since[s] \/ watchedAt[v] <= stamp[s]

(* ... and writes what it found, leaving the date alone: it may undo the
   marking, or the unmarking, that came between. *)
WriteBack(v, reading) ==
  /\ watched' = [watched EXCEPT ![v] = reading = "watched"]
  /\ restored' = IF reading = "watched" /\ ~watched[v] /\ PassedOver(v)
                 THEN restored \cup {v} ELSE restored
  /\ UNCHANGED <<watchedAt, now, excused>>

(* Past 90 per cent it is a mark instead, unless there was one.  Another save
   may have found the same. *)
SaveWrite(v) ==
  /\ \E reading \in save[v] :
       /\ save' \in {save, [save EXCEPT ![v] = @ \ {reading}]}
       /\ \/ reading = "unwatched" /\ Mark(v)
          \/ WriteBack(v, reading)
  /\ UNCHANGED <<passVars, lastSync, history>>

(* The account watches something at YouTube. *)
WatchAtYouTube(v) ==
  /\ v \notin history
  /\ history' = history \cup {v}
  /\ UNCHANGED <<progressVars, passVars, lastSync, now, lossVars>>

-----------------------------------------------------------------------------
Goto(s, stage) == pc' = [pc EXCEPT ![s] = stage]

(* Mutant: the list of the pass is carried over. *)
LeaveWithList(s) ==
  /\ Goto(s, "idle")
  /\ since' = [since EXCEPT ![s] = 0]
  /\ todo' = todo
  /\ stamp' = [stamp EXCEPT ![s] = 0]

Leave(s) ==
  /\ Goto(s, "idle")
  /\ since' = [since EXCEPT ![s] = 0]
  /\ todo' = [todo EXCEPT ![s] = {}]
  /\ stamp' = [stamp EXCEPT ![s] = 0]

(* syncForUser and pushWatchedToYouTube: the link is read, ... *)
Begin(s) ==
  /\ pc[s] = "idle"
  /\ Goto(s, "query")
  /\ since' = [since EXCEPT ![s] = lastSync]
  /\ UNCHANGED <<progressVars, todo, stamp, lastSync, now, history, lossVars>>

NewMarks(s) == {v \in Videos : watched[v] /\ watchedAt[v] > since[s]}

(* ... the marks made since the last pass are looked for, ... *)
PushQuery(s) ==
  /\ pc[s] = "query"
  /\ Goto(s, "send")
  /\ todo' = [todo EXCEPT ![s] = NewMarks(s)]
  /\ UNCHANGED <<progressVars, since, stamp, lastSync, now, history, lossVars>>

(* ... each is sent once, whether YouTube accepts it or not, ... *)
PushSend(s) ==
  /\ pc[s] = "send"
  /\ \E v \in todo[s] :
       /\ todo' = [todo EXCEPT ![s] = @ \ {v}]
       /\ \/ history' = history \cup {v} /\ UNCHANGED excused
          \/ excused' = excused \cup {v} /\ UNCHANGED history
  /\ UNCHANGED <<progressVars, pc, since, stamp, lastSync, now, restored>>

(* ... and the watermark is set. *)
PushDone(s) ==
  /\ pc[s] = "send" /\ todo[s] = {}
  /\ NewDate
  /\ lastSync' = now'
  /\ Goto(s, "fetch")
  /\ UNCHANGED <<progressVars, since, todo, stamp, history, lossVars>>

(* reconcileHistory: fetchHistory has answered, at the instant that will be
   the watermark. *)
Fetch(s) ==
  /\ pc[s] = "fetch"
  /\ NewDate
  /\ Goto(s, "load")
  /\ todo' = [todo EXCEPT ![s] = history]
  /\ stamp' = [stamp EXCEPT ![s] = now']
  /\ UNCHANGED <<progressVars, since, lastSync, history, lossVars>>

(* What is marked already is left alone. *)
Load(s) ==
  /\ pc[s] = "load"
  /\ Goto(s, "mark")
  /\ todo' = [todo EXCEPT ![s] = {v \in @ : ~watched[v]}]
  /\ UNCHANGED <<progressVars, since, stamp, lastSync, now, history, lossVars>>

MarkPulled(s) ==
  /\ pc[s] = "mark"
  /\ \E v \in todo[s] :
       /\ todo' = [todo EXCEPT ![s] = @ \ {v}]
       /\ watched' = [watched EXCEPT ![v] = TRUE]
       /\ watchedAt' = [watchedAt EXCEPT ![v] = stamp[s]]
  /\ UNCHANGED <<save, pc, since, stamp, lastSync, now, history, lossVars>>

(* Mutant: the watermark is the time at which the pass is done. *)
AdvanceToNow(s) ==
  /\ pc[s] = "mark" /\ todo[s] = {}
  /\ lastSync' = now
  /\ Leave(s)
  /\ UNCHANGED <<progressVars, now, history, lossVars>>

(* The watermark moves to the instant of the stamp, or the write is lost. *)
Advance(s) ==
  /\ pc[s] = "mark" /\ todo[s] = {}
  /\ lastSync' \in {stamp[s], lastSync}
  /\ Leave(s)
  /\ UNCHANGED <<progressVars, now, history, lossVars>>

(* The history cannot be fetched, a query is rejected, the server restarts. *)
Abort(s) ==
  /\ pc[s] # "idle"
  /\ Leave(s)
  /\ UNCHANGED <<progressVars, lastSync, now, history, lossVars>>

-----------------------------------------------------------------------------
Pass(s) ==
  \/ Begin(s) \/ PushQuery(s) \/ PushSend(s) \/ PushDone(s)
  \/ Fetch(s) \/ Load(s) \/ MarkPulled(s) \/ Advance(s) \/ Abort(s)

SyncNext ==
  \/ \E v \in Videos : \/ MarkWatched(v) \/ MarkUnwatched(v)
                       \/ SaveRead(v) \/ SaveWrite(v) \/ WatchAtYouTube(v)
  \/ \E s \in Syncs : Pass(s)

SyncSpec == SyncInit /\ [][SyncNext]_syncVars

-----------------------------------------------------------------------------
(* The types; nothing is dated ahead of the clock, and a pass keeps no list
   and no date longer than it needs them. *)
SyncTypeOK ==
  /\ watched \in [Videos -> BOOLEAN] /\ watchedAt \in [Videos -> 0 .. MaxNow]
  /\ save \in [Videos -> SUBSET Readings]
  /\ now \in 0 .. MaxNow /\ lastSync \in 0 .. now
  /\ history \cup excused \cup restored \subseteq Videos
  /\ pc \in [Syncs -> Stages] /\ since \in [Syncs -> 0 .. MaxNow]
  /\ todo \in [Syncs -> SUBSET Videos] /\ stamp \in [Syncs -> 0 .. MaxNow]
  /\ \A v \in Videos : watchedAt[v] <= now
  /\ \A s \in Syncs : /\ stamp[s] <= now
                      /\ pc[s] \in {"idle", "query"} => todo[s] = {}

(* The dated marks at or before lastHistorySync: no push selects them. *)
Behind ==
  {v \in Videos : watched[v] /\ watchedAt[v] # 0 /\ watchedAt[v] <= lastSync}

(* What lies before the watermark is done with (youtube-sync.service.ts:66-82,
   128-132, 163-167): a dated mark at or before lastHistorySync is in the
   YouTube history, unless its one push failed, or it was made while a pass was
   between its query and its stamp, or a save had written it off and another
   brought it back with its old date when a pass had gone by. *)
WatermarkCovers == Behind \subseteq history \cup excused \cup restored

-----------------------------------------------------------------------------
(* Not true of this code: TLC finds a counterexample (README). *)

(* "Don't un-watch something that was already marked watched"
   (watch-progress.service.ts:13): no mark is lost to the exchange because a
   save took it for unwatched. *)
NothingWrittenOff == Behind \subseteq history \cup excused
=============================================================================
