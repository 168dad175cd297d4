------------------------------ MODULE Retention ------------------------------
(***************************************************************************)
(* Automated deletion, followed for one downloaded video: the auto-delete  *)
(* pass (services/auto-delete.service.ts), the Jellyfin watched-cleanup    *)
(* (services/cleanup.service.ts) and the purge of a deleted subscription   *)
(* (services/download.service.ts), against the pins that forbid them and   *)
(* the watch states they go by.                                            *)
(*                                                                         *)
(* The passes are different scheduled jobs and run concurrently; one       *)
(* action of a pass is the code between two of its queries.  What a pass   *)
(* has read stays as it was read, until it acts on it: minutes may go by,  *)
(* with other videos dealt with.  A removal is one action here; Library    *)
(* and CacheQuota take it apart.                                           *)
(*                                                                         *)
(* Ages are counted in periods; -1 is the age of what has not happened.    *)
(***************************************************************************)
EXTENDS Integers

CONSTANTS
  Viewers,     \* accounts that watch the video in wytui
  CacheDays,   \* settings.autoDeleteWatchedDays; 0 is off
  LibraryDays, \* settings.autoDeleteLibraryDays; 0 is off
  Grace,       \* settings.cleanupGraceHours
  MaxAge,      \* bound: ages are not told apart beyond it
  MaxFaults    \* bound: restarts, and failed answers of Jellyfin

ASSUME DaysAssumption ==
  /\ CacheDays \in Nat /\ LibraryDays \in Nat /\ Grace \in Nat
  /\ MaxAge \in Nat /\ CacheDays <= MaxAge /\ LibraryDays <= MaxAge /\ Grace <= MaxAge
ASSUME FaultAssumption == MaxFaults \in Nat

VARIABLES
  row,         \* the download: "cache", "library", "tombstone" or "none"
  pins,        \* download.protected: "video"; channelOverride.protected: "channel"
  watch,       \* [Viewers -> age of the watched mark]
  allWatched,  \* age of download.allWatchedAt
  played,      \* Jellyfin: every cleanup user has played it
  autoPc,      \* where deleteWatchedOverThreshold is
  autoChannel, \* what it has read: the channel is protected
  autoPool,    \* the pool of the download
  autoWatch,   \* the oldest watched mark, if the download qualifies
  autoAll,     \* allWatchedAt, if the download qualifies
  cleanPc,     \* where doCleanup is
  cleanChannel,
  cleanAll,    \* allWatchedAt as it was read
  looked,      \* checkAllUsersWatched
  purge,       \* the purge: "no", "captured" or "over"
  kept,        \* history: reasons to keep the video that came in time
  faults

rowVars == <<row, pins, watch, allWatched>>
autoVars == <<autoPc, autoChannel, autoPool, autoWatch, autoAll>>
cleanVars == <<cleanPc, cleanChannel, cleanAll, looked>>
vars == <<rowVars, played, autoVars, cleanVars, purge, kept, faults>>

Pins == {"video", "channel"}
Pools == {"cache", "library"}
Age == -1 .. MaxAge

Present == row \in Pools

(* Who has not yet looked at the watch state and the pin of the video, and
   not yet at that of the channel. *)
RowsUnread == autoPc \in {"idle", "rows"} /\ cleanPc \in {"idle", "rows"}
ChannelUnread == autoPc = "idle" /\ cleanPc = "idle"

Init ==
  /\ row \in Pools /\ pins = {}
  /\ watch = [v \in Viewers |-> -1] /\ allWatched = -1 /\ played = FALSE
  /\ autoPc = "idle" /\ autoChannel = FALSE /\ autoPool = "none"
  /\ autoWatch = -1 /\ autoAll = -1
  /\ cleanPc = "idle" /\ cleanChannel = FALSE /\ cleanAll = -1 /\ looked = FALSE
  /\ purge = "no" /\ kept = {"unwatched"} /\ faults = 0

-----------------------------------------------------------------------------
(* The world. *)
Older(age) == IF age \in 0 .. MaxAge - 1 THEN age + 1 ELSE age

TimePasses ==
  /\ watch' = [v \in Viewers |-> Older(watch[v])]
  /\ allWatched' = Older(allWatched)
  /\ autoWatch' = Older(autoWatch) /\ autoAll' = Older(autoAll)
  /\ cleanAll' = Older(cleanAll)
  /\ UNCHANGED <<row, pins, played, autoPc, autoChannel, autoPool,
                 cleanPc, cleanChannel, looked, purge, kept, faults>>

(* A pin counts from the moment that every pass is going to read it. *)
Pin(p) ==
  /\ p \in Pins \ pins /\ row # "none"
  /\ pins' = pins \cup {p}
  /\ kept' = IF Present /\ \/ p = "video" /\ RowsUnread /\ purge # "captured"
                           \/ p = "channel" /\ ChannelUnread /\ purge # "captured"
             THEN kept \cup {p} ELSE kept
  /\ UNCHANGED <<row, watch, allWatched, played, autoVars, cleanVars, purge, faults>>

Unpin(p) ==
  /\ p \in pins
  /\ pins' = pins \ {p} /\ kept' = kept \ {p}
  /\ UNCHANGED <<row, watch, allWatched, played, autoVars, cleanVars, purge, faults>>

(* By the player, the user or the YouTube sync (WatchSync). *)
SetWatched(v) ==
  /\ row # "none"
  /\ watch' = [watch EXCEPT ![v] = 0]
  /\ kept' = kept \ {"unwatched"}
  /\ UNCHANGED <<row, pins, allWatched, played, autoVars, cleanVars, purge, faults>>

(* Taken back by the last one who had watched it. *)
ClearWatched(v) ==
  /\ watch[v] # -1
  /\ watch' = [watch EXCEPT ![v] = -1]
  /\ kept' = IF /\ Present /\ \A u \in Viewers \ {v} : watch[u] = -1
                /\ allWatched = -1 /\ ~played /\ RowsUnread /\ purge # "captured"
             THEN kept \cup {"unwatched"} ELSE kept
  /\ UNCHANGED <<row, pins, allWatched, played, autoVars, cleanVars, purge, faults>>

Play ==
  /\ ~played
  /\ played' = TRUE
  /\ kept' = kept \ {"unwatched"}
  /\ UNCHANGED <<rowVars, autoVars, cleanVars, purge, faults>>

Unplay ==
  /\ played
  /\ played' = FALSE
  /\ UNCHANGED <<rowVars, autoVars, cleanVars, purge, kept, faults>>

(* A cached item is kept for good. *)
Promote ==
  /\ row = "cache"
  /\ row' = "library"
  /\ UNCHANGED <<pins, watch, allWatched, played, autoVars, cleanVars, purge, kept, faults>>

-----------------------------------------------------------------------------
(* Mutant: the watch progress is left behind. *)
DropOnlyRow ==
  /\ row' = "none"
  /\ pins' = pins \ {"video"}
  /\ watch' = watch
  /\ allWatched' = -1

(* With the row go its columns, and the watch progress by cascade. *)
DropRow ==
  /\ row' = "none"
  /\ pins' = pins \ {"video"}
  /\ watch' = [v \in Viewers |-> -1]
  /\ allWatched' = -1

Entomb == row' = "tombstone" /\ UNCHANGED <<pins, watch, allWatched>>

(* deleteWatchedOverThreshold. *)
AutoIdle ==
  /\ autoPc' = "idle" /\ autoChannel' = FALSE /\ autoPool' = "none"
  /\ autoWatch' = -1 /\ autoAll' = -1

AutoBegin ==
  /\ autoPc = "idle" /\ (CacheDays > 0 \/ LibraryDays > 0)
  /\ autoPc' = "rows" /\ autoChannel' = ("channel" \in pins)
  /\ UNCHANGED <<rowVars, played, autoPool, autoWatch, autoAll, cleanVars,
                 purge, kept, faults>>

(* The oldest of the marks: one that is over the threshold is enough. *)
Oldest(a) ==
  /\ \A v \in Viewers : watch[v] <= a
  /\ a = -1 \/ \E v \in Viewers : watch[v] = a

(* Mutant: the pass looks at the pin of the channel only. *)
QualifiesUnlessChannel == Present /\ ~autoChannel

(* Completed and not protected, neither itself nor by its channel. *)
Qualifies == Present /\ "video" \notin pins /\ ~autoChannel

(* watchProgress.findMany with its downloads. *)
AutoRows ==
  /\ autoPc = "rows"
  /\ autoPc' = "jellyfin"
  /\ autoPool' = row
  /\ \E a \in Age : Oldest(a) /\ autoWatch' = IF Qualifies THEN a ELSE -1
  /\ UNCHANGED <<rowVars, played, autoChannel, autoAll, cleanVars, purge, kept, faults>>

(* The library items that Jellyfin's users have watched. *)
AutoJellyfin ==
  /\ autoPc = "jellyfin"
  /\ autoPc' = "act"
  /\ autoAll' = IF LibraryDays > 0 /\ row = "library" /\ Qualifies THEN allWatched ELSE -1
  /\ UNCHANGED <<rowVars, played, autoChannel, autoPool, autoWatch, cleanVars,
                 purge, kept, faults>>

Days(pool) == IF pool = "library" THEN LibraryDays ELSE CacheDays
Over(age, days) == age # -1 /\ days > 0 /\ age >= days

(* A cache item's row is deleted, a library item's stays as a tombstone; where
   the row is gone the write throws. *)
Remove(pool) ==
  \/ row = "none" /\ UNCHANGED rowVars
  \/ row # "none" /\ pool = "library" /\ Entomb
  \/ row # "none" /\ pool # "library" /\ DropRow

AutoAct ==
  /\ autoPc = "act"
  /\ \/ Over(autoWatch, Days(autoPool)) /\ Remove(autoPool)
     \/ /\ ~Over(autoWatch, Days(autoPool)) /\ Over(autoAll, LibraryDays)
        /\ Remove("library")
     \/ /\ ~Over(autoWatch, Days(autoPool)) /\ ~Over(autoAll, LibraryDays)
        /\ UNCHANGED rowVars
  /\ AutoIdle
  /\ UNCHANGED <<played, cleanVars, purge, kept, faults>>

-----------------------------------------------------------------------------
(* doCleanup. *)
CleanIdle ==
  cleanPc' = "idle" /\ cleanChannel' = FALSE /\ cleanAll' = -1 /\ looked' = FALSE

CleanBegin ==
  /\ cleanPc = "idle"
  /\ cleanPc' = "rows" /\ cleanChannel' = ("channel" \in pins)
  /\ UNCHANGED <<rowVars, played, autoVars, cleanAll, looked, purge, kept, faults>>

CleanRows ==
  /\ cleanPc = "rows"
  /\ IF row = "library" /\ "video" \notin pins /\ ~cleanChannel
     THEN cleanPc' = "look" /\ cleanAll' = allWatched /\ UNCHANGED <<cleanChannel, looked>>
     ELSE CleanIdle
  /\ UNCHANGED <<rowVars, played, autoVars, purge, kept, faults>>

(* findJellyfinItem and checkAllUsersWatched. *)
CleanLook ==
  /\ cleanPc = "look"
  /\ cleanPc' = "act" /\ looked' = played
  /\ UNCHANGED <<rowVars, played, autoVars, cleanChannel, cleanAll, purge, kept, faults>>

(* A timeout or an unknown item ends the item's turn; an error about one user
   counts as "not watched". *)
CleanLookFails ==
  /\ cleanPc = "look" /\ faults < MaxFaults
  /\ faults' = faults + 1
  /\ \/ CleanIdle
     \/ cleanPc' = "act" /\ looked' = FALSE /\ UNCHANGED <<cleanChannel, cleanAll>>
  /\ UNCHANGED <<rowVars, played, autoVars, purge, kept>>

(* Mutant: the grace period starts over with every pass. *)
StartsAlways == looked

(* What was read decides which of the three writes is made. *)
StartsGrace == looked /\ cleanAll = -1
GraceOver == looked /\ cleanAll # -1 /\ cleanAll >= Grace

CleanAct ==
  /\ cleanPc = "act"
  /\ \/ /\ StartsGrace
        /\ allWatched' = IF row = "none" THEN -1 ELSE 0
        /\ UNCHANGED <<row, pins, watch>>
     \/ /\ GraceOver /\ ~StartsGrace
        /\ IF Present THEN Entomb ELSE UNCHANGED rowVars \* the unlink finds no file
     \/ /\ ~looked
        /\ allWatched' = IF cleanAll = -1 THEN allWatched ELSE -1
        /\ UNCHANGED <<row, pins, watch>>
     \/ looked /\ ~StartsGrace /\ ~GraceOver /\ UNCHANGED rowVars
  /\ CleanIdle
  /\ UNCHANGED <<played, autoVars, purge, kept, faults>>

-----------------------------------------------------------------------------
(* DELETE of the subscription with its videos: the ids are captured, and a
   queue job deletes them one by one, whatever they are by then.  Only the pin
   of the video itself is respected, and only at the capture. *)
PurgeCapture ==
  /\ purge = "no" /\ Present
  /\ purge' = IF "video" \in pins THEN "over" ELSE "captured"
  /\ kept' = IF "video" \in pins THEN kept ELSE {}
  /\ UNCHANGED <<rowVars, played, autoVars, cleanVars, faults>>

PurgeRun ==
  /\ purge = "captured"
  /\ purge' = "over"
  /\ IF row = "none" THEN UNCHANGED rowVars ELSE DropRow
  /\ UNCHANGED <<played, autoVars, cleanVars, kept, faults>>

(* The passes start afresh; the purge is a queue job and is found again. *)
Crash ==
  /\ faults < MaxFaults /\ ~(autoPc = "idle" /\ cleanPc = "idle")
  /\ faults' = faults + 1
  /\ AutoIdle /\ CleanIdle
  /\ UNCHANGED <<rowVars, played, purge, kept>>

-----------------------------------------------------------------------------
Next ==
  \/ TimePasses \/ Play \/ Unplay \/ Promote
  \/ \E p \in Pins : Pin(p) \/ Unpin(p)
  \/ \E v \in Viewers : SetWatched(v) \/ ClearWatched(v)
  \/ AutoBegin \/ AutoRows \/ AutoJellyfin \/ AutoAct
  \/ CleanBegin \/ CleanRows \/ CleanLook \/ CleanLookFails \/ CleanAct
  \/ PurgeCapture \/ PurgeRun \/ Crash

Spec == Init /\ [][Next]_vars

(* The scheduler starts both passes again and again (CheckChain) and a pass
   comes to its end; time goes by. *)
Fairness ==
  /\ WF_vars(TimePasses)
  /\ WF_vars(AutoBegin \/ AutoRows \/ AutoJellyfin \/ AutoAct)
  /\ WF_vars(CleanBegin \/ CleanRows \/ CleanLook \/ CleanAct)

FairSpec == Spec /\ Fairness

-----------------------------------------------------------------------------
(* The types; a row that is gone has no watch state; a pass knows nothing it
   has not read. *)
TypeOK ==
  /\ row \in {"cache", "library", "tombstone", "none"} /\ pins \subseteq Pins
  /\ watch \in [Viewers -> Age] /\ allWatched \in Age /\ played \in BOOLEAN
  /\ autoPc \in {"idle", "rows", "jellyfin", "act"} /\ autoChannel \in BOOLEAN
  /\ autoPool \in {"cache", "library", "tombstone", "none"}
  /\ autoWatch \in Age /\ autoAll \in Age
  /\ cleanPc \in {"idle", "rows", "look", "act"} /\ cleanChannel \in BOOLEAN
  /\ cleanAll \in Age /\ looked \in BOOLEAN
  /\ purge \in {"no", "captured", "over"}
  /\ kept \subseteq Pins \cup {"unwatched"} /\ faults \in 0 .. MaxFaults
  /\ row = "none" => allWatched = -1 /\ \A v \in Viewers : watch[v] = -1

(* "Protection always wins over retention" (auto-delete.service.ts:21), and
   nothing is deleted for having been watched that nobody has watched, or that
   the last viewer has taken back: no pass and no purge deletes the video
   while a reason to keep it stands that came before any of them had read what
   it goes by. *)
KeptSurvives == kept # {} => Present

(* The video is over its threshold in wytui. *)
Overdue == Present /\ pins = {} /\ \E v \in Viewers : Over(watch[v], Days(row))

(* Retention happens (auto-delete.service.ts:8-15, cleanup.service.ts:106-118):
   an unprotected video does not stay for ever once it is over the threshold,
   nor one of the library that all of Jellyfin's users have played. *)
AgesOut ==
  /\ ~<>[]Overdue
  /\ ~<>[](row = "library" /\ pins = {} /\ played)
=============================================================================
