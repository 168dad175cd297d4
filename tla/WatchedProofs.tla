---------------------------- MODULE WatchedProofs ----------------------------
(***************************************************************************)
(* Proofs about the two components that act on what was watched, Retention *)
(* and WatchSync.                                                          *)
(*                                                                         *)
(* Retention, for any number of viewers, any thresholds, any number of     *)
(* restarts and failed answers: the type invariant, and that a video with  *)
(* a reason to be kept is kept.  KeptSurvives is not inductive: whether a  *)
(* pass will delete the video is decided by what it has read.  VideoKept,  *)
(* ChannelKept and UnwatchedKept strengthen it by what the passes hold     *)
(* while a reason stands: either they have not read the part of the state  *)
(* it is about, or what they have read excludes the video.                 *)
(*                                                                         *)
(* WatchSync, for any number of videos and of overlapping passes and any   *)
(* length of time: the type invariant, and that what lies before the       *)
(* watermark is done with.  WatermarkCovers is not inductive: the          *)
(* watermark moves to a date that a pass has kept, and it may move back.   *)
(* Covering strengthens it by what is true of every date a pass keeps      *)
(* (since, stamp) and of the marks at the moments before it takes a new    *)
(* one: while it pushes, every mark is done with or on its list; when it   *)
(* has pushed, all are done with.                                          *)
(***************************************************************************)
EXTENDS Retention, WatchSync, TLAPS

(* The type invariant in two parts. *)
RowType ==
  /\ row \in {"cache", "library", "tombstone", "none"} /\ pins \subseteq Pins
  /\ watch \in [Viewers -> Age] /\ allWatched \in Age
  /\ row = "none" => allWatched = -1 /\ \A v \in Viewers : watch[v] = -1

PassType ==
  /\ played \in BOOLEAN
  /\ autoPc \in {"idle", "rows", "jellyfin", "act"} /\ autoChannel \in BOOLEAN
  /\ autoPool \in {"cache", "library", "tombstone", "none"}
  /\ autoWatch \in Age /\ autoAll \in Age
  /\ cleanPc \in {"idle", "rows", "look", "act"} /\ cleanChannel \in BOOLEAN
  /\ cleanAll \in Age /\ looked \in BOOLEAN
  /\ purge \in {"no", "captured", "over"}
  /\ kept \subseteq Pins \cup {"unwatched"} /\ faults \in 0 .. MaxFaults

LEMMA TypeParts == TypeOK <=> RowType /\ PassType
BY DEF TypeOK, RowType, PassType

(* What a pass has not read it does not hold. *)
Unread ==
  /\ autoPc \in {"idle", "rows"} => autoWatch = -1
  /\ autoPc # "act" => autoAll = -1
  /\ cleanPc \in {"idle", "rows"} => cleanAll = -1
  /\ cleanPc # "act" => ~looked

(* The pin of the video. *)
VideoKept ==
  "video" \in kept =>
    /\ "video" \in pins /\ purge # "captured"
    /\ autoWatch = -1 /\ autoAll = -1 /\ cleanPc \in {"idle", "rows"}

(* The pin of its channel. *)
ChannelKept ==
  "channel" \in kept =>
    /\ "channel" \in pins /\ purge # "captured"
    /\ autoPc # "idle" => autoChannel
    /\ autoWatch = -1 /\ autoAll = -1
    /\ cleanPc \in {"idle", "rows"} /\ (cleanPc = "rows" => cleanChannel)

(* Nobody has watched it. *)
UnwatchedKept ==
  "unwatched" \in kept =>
    /\ \A v \in Viewers : watch[v] = -1
    /\ allWatched = -1 /\ ~played /\ purge # "captured"
    /\ autoWatch = -1 /\ autoAll = -1 /\ cleanAll = -1 /\ ~looked

IInv ==
  /\ RowType /\ PassType /\ Unread
  /\ VideoKept /\ ChannelKept /\ UnwatchedKept
  /\ KeptSurvives

-----------------------------------------------------------------------------
(* Ages stay ages, and what has not happened does not age. *)
LEMMA AgeType == -1 \in Age /\ 0 \in Age
BY DaysAssumption DEF Age

LEMMA FaultType ==
  /\ 0 \in 0 .. MaxFaults
  /\ \A f \in 0 .. MaxFaults : f < MaxFaults => f + 1 \in 0 .. MaxFaults
BY FaultAssumption

LEMMA OlderType ==
  ASSUME NEW a \in Age
  PROVE  Older(a) \in Age /\ (a = -1 => Older(a) = -1)
BY DaysAssumption DEF Older, Age

LEMMA InitHolds == Init => IInv
<1> SUFFICES ASSUME Init PROVE IInv
  OBVIOUS
<1>1. RowType
  BY AgeType DEF Init, RowType, Pools
<1>2. PassType
  <2>1. faults \in 0 .. MaxFaults
    BY FaultType DEF Init
  <2>2. QED BY <2>1, AgeType DEF Init, PassType
<1>3. Unread /\ VideoKept /\ ChannelKept
  BY DEF Init, Unread, VideoKept, ChannelKept
<1>4. UnwatchedKept /\ KeptSurvives
  BY DEF Init, UnwatchedKept, KeptSurvives, Present
<1>5. QED BY <1>1, <1>2, <1>3, <1>4 DEF IInv

(* Removals keep the types. *)
LEMMA DropRowType ==
  ASSUME RowType, DropRow
  PROVE  RowType'
BY AgeType DEF DropRow, RowType

LEMMA EntombType ==
  ASSUME RowType, Entomb, row # "none"
  PROVE  RowType'
BY DEF Entomb, RowType

LEMMA RemoveType ==
  ASSUME RowType, NEW pool, Remove(pool)
  PROVE  RowType'
<1>1. CASE row = "none" /\ UNCHANGED rowVars
  BY <1>1 DEF rowVars, RowType
<1>2. CASE row # "none" /\ Entomb
  BY <1>2, EntombType
<1>3. CASE DropRow
  BY <1>3, DropRowType
<1>4. QED BY <1>1, <1>2, <1>3 DEF Remove

(* Every step keeps the types. *)
LEMMA NextRowType ==
  ASSUME RowType, PassType, [Next]_vars
  PROVE  RowType'
<1>1. CASE TimePasses
  BY <1>1, OlderType DEF RowType, TimePasses
<1>2. CASE Play
  BY <1>2 DEF RowType, Play, rowVars
<1>3. CASE Unplay
  BY <1>3 DEF RowType, Unplay, rowVars
<1>4. CASE Promote
  BY <1>4 DEF RowType, Promote
<1>5. ASSUME NEW p \in Pins, Pin(p) PROVE RowType'
  BY <1>5 DEF RowType, Pin, Pins
<1>6. ASSUME NEW p \in Pins, Unpin(p) PROVE RowType'
  BY <1>6 DEF RowType, Unpin, Pins
<1>7. ASSUME NEW v \in Viewers, SetWatched(v) PROVE RowType'
  BY <1>7, AgeType DEF RowType, SetWatched
<1>8. ASSUME NEW v \in Viewers, ClearWatched(v) PROVE RowType'
  BY <1>8, AgeType DEF RowType, ClearWatched
<1>9. CASE AutoBegin
  BY <1>9 DEF RowType, AutoBegin, rowVars
<1>10. CASE AutoRows
  BY <1>10 DEF RowType, AutoRows, rowVars
<1>11. CASE AutoJellyfin
  BY <1>11 DEF RowType, AutoJellyfin, rowVars
<1>12. CASE AutoAct
  <2>1. CASE UNCHANGED rowVars
    BY <2>1 DEF rowVars, RowType
  <2>2. CASE \E pool : Remove(pool)
    BY <2>2, RemoveType
  <2>3. QED BY <1>12, <2>1, <2>2 DEF AutoAct
<1>13. CASE CleanBegin
  BY <1>13 DEF RowType, CleanBegin, rowVars
<1>14. CASE CleanRows
  BY <1>14 DEF RowType, CleanRows, rowVars
<1>15. CASE CleanLook
  BY <1>15 DEF RowType, CleanLook, rowVars
<1>16. CASE CleanLookFails
  BY <1>16 DEF RowType, CleanLookFails, rowVars
<1>17. CASE CleanAct
  <2>1. CASE allWatched' \in {-1, 0, allWatched} /\ (row = "none" => allWatched' \in {-1, allWatched}) /\ UNCHANGED <<row, pins, watch>>
    BY <2>1, AgeType DEF RowType
  <2>2. CASE Entomb /\ row # "none"
    BY <2>2, EntombType
  <2>3. CASE UNCHANGED rowVars
    BY <2>3 DEF rowVars, RowType
  <2>4. QED BY <1>17, <2>1, <2>2, <2>3 DEF CleanAct, Present, Pools, rowVars
<1>18. CASE PurgeCapture
  BY <1>18 DEF RowType, PurgeCapture, rowVars
<1>19. CASE PurgeRun
  <2>1. CASE UNCHANGED rowVars
    BY <2>1 DEF rowVars, RowType
  <2>2. CASE DropRow
    BY <2>2, DropRowType
  <2>3. QED BY <1>19, <2>1, <2>2 DEF PurgeRun
<1>20. CASE Crash
  BY <1>20 DEF RowType, Crash, rowVars
<1>21. CASE UNCHANGED vars
  BY <1>21 DEF RowType, vars, rowVars, autoVars, cleanVars
<1>22. QED BY <1>1, <1>2, <1>3, <1>4, <1>5, <1>6, <1>7, <1>8, <1>9, <1>10,
     <1>11, <1>12, <1>13, <1>14, <1>15, <1>16, <1>17, <1>18, <1>19, <1>20,
     <1>21 DEF Next

(* The same of what the passes hold. *)
LEMMA NextPassType ==
  ASSUME RowType, PassType, [Next]_vars
  PROVE  PassType'
<1>1. CASE TimePasses
  BY <1>1, OlderType DEF RowType, PassType, TimePasses
<1>2. CASE Play
  BY <1>2 DEF RowType, PassType, Play, autoVars, cleanVars
<1>3. CASE Unplay
  BY <1>3 DEF RowType, PassType, Unplay, autoVars, cleanVars
<1>4. CASE Promote
  BY <1>4 DEF RowType, PassType, Promote, autoVars, cleanVars
<1>5. ASSUME NEW p \in Pins, Pin(p) PROVE PassType'
  BY <1>5 DEF RowType, PassType, Pin, Pins, autoVars, cleanVars
<1>6. ASSUME NEW p \in Pins, Unpin(p) PROVE PassType'
  BY <1>6 DEF RowType, PassType, Unpin, autoVars, cleanVars
<1>7. ASSUME NEW v \in Viewers, SetWatched(v) PROVE PassType'
  BY <1>7 DEF RowType, PassType, SetWatched, autoVars, cleanVars
<1>8. ASSUME NEW v \in Viewers, ClearWatched(v) PROVE PassType'
  BY <1>8 DEF RowType, PassType, ClearWatched, autoVars, cleanVars
<1>9. CASE AutoBegin
  BY <1>9 DEF RowType, PassType, AutoBegin, cleanVars
<1>10. CASE AutoRows
  BY <1>10, AgeType DEF RowType, PassType, AutoRows, cleanVars
<1>11. CASE AutoJellyfin
  BY <1>11, AgeType DEF RowType, PassType, AutoJellyfin, cleanVars
<1>12. CASE AutoAct
  BY <1>12, AgeType DEF RowType, PassType, AutoAct, AutoIdle, cleanVars
<1>13. CASE CleanBegin
  BY <1>13 DEF RowType, PassType, CleanBegin, autoVars
<1>14. CASE CleanRows
  BY <1>14, AgeType DEF RowType, PassType, CleanRows, CleanIdle, autoVars
<1>15. CASE CleanLook
  BY <1>15 DEF RowType, PassType, CleanLook, autoVars
<1>16. CASE CleanLookFails
  <2>1. faults' \in 0 .. MaxFaults
    BY <1>16, FaultType DEF PassType, CleanLookFails
  <2>2. CASE CleanIdle
    BY <1>16, <2>1, <2>2, AgeType DEF PassType, CleanLookFails, CleanIdle,
       autoVars
  <2>3. CASE cleanPc' = "act" /\ looked' = FALSE /\ UNCHANGED <<cleanChannel, cleanAll>>
    BY <1>16, <2>1, <2>3 DEF PassType, CleanLookFails, autoVars
  <2>4. QED BY <1>16, <2>2, <2>3 DEF CleanLookFails
<1>17. CASE CleanAct
  BY <1>17, AgeType DEF RowType, PassType, CleanAct, CleanIdle, autoVars
<1>18. CASE PurgeCapture
  BY <1>18 DEF RowType, PassType, PurgeCapture, autoVars, cleanVars
<1>19. CASE PurgeRun
  BY <1>19 DEF RowType, PassType, PurgeRun, autoVars, cleanVars
<1>20. CASE Crash
  <2>1. faults' \in 0 .. MaxFaults
    BY <1>20, FaultType DEF PassType, Crash
  <2>2. QED BY <1>20, <2>1, AgeType DEF PassType, Crash, AutoIdle, CleanIdle
<1>21. CASE UNCHANGED vars
  BY <1>21 DEF RowType, PassType, vars, rowVars, autoVars, cleanVars
<1>22. QED BY <1>1, <1>2, <1>3, <1>4, <1>5, <1>6, <1>7, <1>8, <1>9, <1>10,
     <1>11, <1>12, <1>13, <1>14, <1>15, <1>16, <1>17, <1>18, <1>19, <1>20,
     <1>21 DEF Next

(* What has not been read is not held. *)
LEMMA NextUnread ==
  ASSUME PassType, Unread, [Next]_vars
  PROVE  Unread'
<1>1. CASE TimePasses
  BY <1>1, OlderType DEF Unread, TimePasses, PassType
<1>2. CASE Play
  BY <1>2 DEF Unread, Play, autoVars, cleanVars
<1>3. CASE Unplay
  BY <1>3 DEF Unread, Unplay, autoVars, cleanVars
<1>4. CASE Promote
  BY <1>4 DEF Unread, Promote, autoVars, cleanVars
<1>5. ASSUME NEW p \in Pins, Pin(p) PROVE Unread'
  BY <1>5 DEF Unread, Pin, autoVars, cleanVars
<1>6. ASSUME NEW p \in Pins, Unpin(p) PROVE Unread'
  BY <1>6 DEF Unread, Unpin, autoVars, cleanVars
<1>7. ASSUME NEW v \in Viewers, SetWatched(v) PROVE Unread'
  BY <1>7 DEF Unread, SetWatched, autoVars, cleanVars
<1>8. ASSUME NEW v \in Viewers, ClearWatched(v) PROVE Unread'
  BY <1>8 DEF Unread, ClearWatched, autoVars, cleanVars
<1>9. CASE AutoBegin
  BY <1>9 DEF Unread, AutoBegin, cleanVars
<1>10. CASE AutoRows
  BY <1>10 DEF Unread, AutoRows, cleanVars
<1>11. CASE AutoJellyfin
  BY <1>11 DEF Unread, AutoJellyfin, cleanVars
<1>12. CASE AutoAct
  BY <1>12 DEF Unread, AutoAct, AutoIdle, cleanVars
<1>13. CASE CleanBegin
  BY <1>13 DEF Unread, CleanBegin, autoVars
<1>14. CASE CleanRows
  BY <1>14 DEF Unread, CleanRows, CleanIdle, autoVars
<1>15. CASE CleanLook
  BY <1>15 DEF Unread, CleanLook, autoVars
<1>16. CASE CleanLookFails
  BY <1>16 DEF Unread, CleanLookFails, CleanIdle, autoVars
<1>17. CASE CleanAct
  BY <1>17 DEF Unread, CleanAct, CleanIdle, autoVars
<1>18. CASE PurgeCapture
  BY <1>18 DEF Unread, PurgeCapture, autoVars, cleanVars
<1>19. CASE PurgeRun
  BY <1>19 DEF Unread, PurgeRun, autoVars, cleanVars
<1>20. CASE Crash
  BY <1>20 DEF Unread, Crash, AutoIdle, CleanIdle
<1>21. CASE UNCHANGED vars
  BY <1>21 DEF Unread, vars, rowVars, autoVars, cleanVars
<1>22. QED BY <1>1, <1>2, <1>3, <1>4, <1>5, <1>6, <1>7, <1>8, <1>9, <1>10,
     <1>11, <1>12, <1>13, <1>14, <1>15, <1>16, <1>17, <1>18, <1>19, <1>20,
     <1>21 DEF Next

(* A pin of the video stays respected. *)
LEMMA NextVideoKept ==
  ASSUME PassType, Unread, VideoKept, [Next]_vars
  PROVE  VideoKept'
<1>1. CASE TimePasses
  BY <1>1, OlderType DEF PassType, Unread, VideoKept, TimePasses, PassType
<1>2. CASE Play
  BY <1>2 DEF PassType, Unread, VideoKept, Play, autoVars, cleanVars, rowVars
<1>3. CASE Unplay
  BY <1>3 DEF PassType, Unread, VideoKept, Unplay, autoVars, cleanVars, rowVars
<1>4. CASE Promote
  BY <1>4 DEF PassType, Unread, VideoKept, Promote, autoVars, cleanVars
<1>5. ASSUME NEW p \in Pins, Pin(p) PROVE VideoKept'
  BY <1>5 DEF PassType, Unread, VideoKept, Pin, autoVars, cleanVars,
     RowsUnread, ChannelUnread, Pins
<1>6. ASSUME NEW p \in Pins, Unpin(p) PROVE VideoKept'
  BY <1>6 DEF PassType, Unread, VideoKept, Unpin, autoVars, cleanVars
<1>7. ASSUME NEW v \in Viewers, SetWatched(v) PROVE VideoKept'
  BY <1>7 DEF PassType, Unread, VideoKept, SetWatched, autoVars, cleanVars
<1>8. ASSUME NEW v \in Viewers, ClearWatched(v) PROVE VideoKept'
  BY <1>8 DEF PassType, Unread, VideoKept, ClearWatched, autoVars, cleanVars,
     RowsUnread
<1>9. CASE AutoBegin
  BY <1>9 DEF PassType, Unread, VideoKept, AutoBegin, cleanVars, rowVars
<1>10. CASE AutoRows
  BY <1>10 DEF PassType, Unread, VideoKept, AutoRows, cleanVars, rowVars,
     Qualifies
<1>11. CASE AutoJellyfin
  BY <1>11 DEF PassType, Unread, VideoKept, AutoJellyfin, cleanVars, rowVars,
     Qualifies
<1>12. CASE AutoAct
  <2> SUFFICES ASSUME "video" \in kept PROVE VideoKept'
    BY <1>12 DEF VideoKept, AutoAct
  <2>1. UNCHANGED rowVars
    BY <1>12 DEF AutoAct, Over, VideoKept
  <2>2. QED BY <1>12, <2>1 DEF VideoKept, AutoAct, AutoIdle, rowVars, cleanVars
<1>13. CASE CleanBegin
  BY <1>13 DEF PassType, Unread, VideoKept, CleanBegin, autoVars, rowVars
<1>14. CASE CleanRows
  BY <1>14 DEF PassType, Unread, VideoKept, CleanRows, CleanIdle, autoVars,
     rowVars
<1>15. CASE CleanLook
  BY <1>15 DEF PassType, Unread, VideoKept, CleanLook, autoVars, rowVars
<1>16. CASE CleanLookFails
  BY <1>16 DEF PassType, Unread, VideoKept, CleanLookFails, CleanIdle,
     autoVars, rowVars
<1>17. CASE CleanAct
  BY <1>17 DEF VideoKept, CleanAct
<1>18. CASE PurgeCapture
  BY <1>18 DEF PassType, Unread, VideoKept, PurgeCapture, autoVars, cleanVars,
     rowVars
<1>19. CASE PurgeRun
  BY <1>19 DEF VideoKept, PurgeRun
<1>20. CASE Crash
  BY <1>20 DEF PassType, Unread, VideoKept, Crash, AutoIdle, CleanIdle, rowVars
<1>21. CASE UNCHANGED vars
  BY <1>21 DEF PassType, Unread, VideoKept, vars, rowVars, autoVars, cleanVars
<1>22. QED BY <1>1, <1>2, <1>3, <1>4, <1>5, <1>6, <1>7, <1>8, <1>9, <1>10,
     <1>11, <1>12, <1>13, <1>14, <1>15, <1>16, <1>17, <1>18, <1>19, <1>20,
     <1>21 DEF Next

(* A pin of the channel stays respected. *)
LEMMA NextChannelKept ==
  ASSUME PassType, Unread, ChannelKept, [Next]_vars
  PROVE  ChannelKept'
<1>1. CASE TimePasses
  BY <1>1, OlderType DEF PassType, Unread, ChannelKept, TimePasses, PassType
<1>2. CASE Play
  BY <1>2 DEF PassType, Unread, ChannelKept, Play, autoVars, cleanVars, rowVars
<1>3. CASE Unplay
  BY <1>3 DEF PassType, Unread, ChannelKept, Unplay, autoVars, cleanVars,
     rowVars
<1>4. CASE Promote
  BY <1>4 DEF PassType, Unread, ChannelKept, Promote, autoVars, cleanVars
<1>5. ASSUME NEW p \in Pins, Pin(p) PROVE ChannelKept'
  BY <1>5 DEF PassType, Unread, ChannelKept, Pin, autoVars, cleanVars,
     RowsUnread, ChannelUnread, Pins
<1>6. ASSUME NEW p \in Pins, Unpin(p) PROVE ChannelKept'
  BY <1>6 DEF PassType, Unread, ChannelKept, Unpin, autoVars, cleanVars
<1>7. ASSUME NEW v \in Viewers, SetWatched(v) PROVE ChannelKept'
  BY <1>7 DEF PassType, Unread, ChannelKept, SetWatched, autoVars, cleanVars
<1>8. ASSUME NEW v \in Viewers, ClearWatched(v) PROVE ChannelKept'
  BY <1>8 DEF PassType, Unread, ChannelKept, ClearWatched, autoVars,
     cleanVars, RowsUnread
<1>9. CASE AutoBegin
  BY <1>9 DEF PassType, Unread, ChannelKept, AutoBegin, cleanVars, rowVars
<1>10. CASE AutoRows
  BY <1>10 DEF PassType, Unread, ChannelKept, AutoRows, cleanVars, rowVars,
     Qualifies
<1>11. CASE AutoJellyfin
  BY <1>11 DEF PassType, Unread, ChannelKept, AutoJellyfin, cleanVars, rowVars,
     Qualifies
<1>12. CASE AutoAct
  <2> SUFFICES ASSUME "channel" \in kept PROVE ChannelKept'
    BY <1>12 DEF ChannelKept, AutoAct
  <2>1. UNCHANGED rowVars
    BY <1>12 DEF AutoAct, Over, ChannelKept
  <2>2. QED BY <1>12, <2>1 DEF ChannelKept, AutoAct, AutoIdle, rowVars,
     cleanVars
<1>13. CASE CleanBegin
  BY <1>13 DEF PassType, Unread, ChannelKept, CleanBegin, autoVars, rowVars
<1>14. CASE CleanRows
  BY <1>14 DEF PassType, Unread, ChannelKept, CleanRows, CleanIdle, autoVars,
     rowVars
<1>15. CASE CleanLook
  BY <1>15 DEF PassType, Unread, ChannelKept, CleanLook, autoVars, rowVars
<1>16. CASE CleanLookFails
  BY <1>16 DEF PassType, Unread, ChannelKept, CleanLookFails, CleanIdle,
     autoVars, rowVars
<1>17. CASE CleanAct
  BY <1>17 DEF ChannelKept, CleanAct
<1>18. CASE PurgeCapture
  BY <1>18 DEF PassType, Unread, ChannelKept, PurgeCapture, autoVars,
     cleanVars, rowVars
<1>19. CASE PurgeRun
  BY <1>19 DEF ChannelKept, PurgeRun
<1>20. CASE Crash
  BY <1>20 DEF PassType, Unread, ChannelKept, Crash, AutoIdle, CleanIdle,
     rowVars
<1>21. CASE UNCHANGED vars
  BY <1>21 DEF PassType, Unread, ChannelKept, vars, rowVars, autoVars, cleanVars
<1>22. QED BY <1>1, <1>2, <1>3, <1>4, <1>5, <1>6, <1>7, <1>8, <1>9, <1>10,
     <1>11, <1>12, <1>13, <1>14, <1>15, <1>16, <1>17, <1>18, <1>19, <1>20,
     <1>21 DEF Next

(* So is that nobody has watched it. *)
LEMMA NextUnwatchedKept ==
  ASSUME RowType, PassType, Unread, UnwatchedKept, [Next]_vars
  PROVE  UnwatchedKept'
<1>1. CASE TimePasses
  BY <1>1, OlderType DEF PassType, Unread, UnwatchedKept, TimePasses, RowType,
     PassType
<1>2. CASE Play
  BY <1>2 DEF PassType, Unread, UnwatchedKept, Play, autoVars, cleanVars,
     rowVars
<1>3. CASE Unplay
  BY <1>3 DEF PassType, Unread, UnwatchedKept, Unplay, autoVars, cleanVars,
     rowVars
<1>4. CASE Promote
  BY <1>4 DEF PassType, Unread, UnwatchedKept, Promote, autoVars, cleanVars
<1>5. ASSUME NEW p \in Pins, Pin(p) PROVE UnwatchedKept'
  BY <1>5 DEF PassType, Unread, UnwatchedKept, Pin, autoVars, cleanVars,
     RowsUnread, ChannelUnread, Pins
<1>6. ASSUME NEW p \in Pins, Unpin(p) PROVE UnwatchedKept'
  BY <1>6 DEF PassType, Unread, UnwatchedKept, Unpin, autoVars, cleanVars
<1>7. ASSUME NEW v \in Viewers, SetWatched(v) PROVE UnwatchedKept'
  BY <1>7 DEF PassType, Unread, UnwatchedKept, SetWatched, autoVars,
     cleanVars, RowType
<1>8. ASSUME NEW v \in Viewers, ClearWatched(v) PROVE UnwatchedKept'
  BY <1>8 DEF PassType, Unread, UnwatchedKept, ClearWatched, autoVars,
     cleanVars, RowsUnread, RowType
<1>9. CASE AutoBegin
  BY <1>9 DEF PassType, Unread, UnwatchedKept, AutoBegin, cleanVars, rowVars
<1>10. CASE AutoRows
  BY <1>10, AgeType DEF UnwatchedKept, AutoRows, Oldest, rowVars, cleanVars
<1>11. CASE AutoJellyfin
  BY <1>11 DEF PassType, Unread, UnwatchedKept, AutoJellyfin, cleanVars,
     rowVars, Qualifies
<1>12. CASE AutoAct
  <2> SUFFICES ASSUME "unwatched" \in kept PROVE UnwatchedKept'
    BY <1>12 DEF UnwatchedKept, AutoAct
  <2>1. UNCHANGED rowVars
    BY <1>12 DEF AutoAct, Over, UnwatchedKept
  <2>2. QED BY <1>12, <2>1 DEF UnwatchedKept, AutoAct, AutoIdle, rowVars,
     cleanVars
<1>13. CASE CleanBegin
  BY <1>13 DEF PassType, Unread, UnwatchedKept, CleanBegin, autoVars, rowVars
<1>14. CASE CleanRows
  BY <1>14 DEF PassType, Unread, UnwatchedKept, CleanRows, CleanIdle, autoVars,
     rowVars
<1>15. CASE CleanLook
  BY <1>15 DEF PassType, Unread, UnwatchedKept, CleanLook, autoVars, rowVars
<1>16. CASE CleanLookFails
  BY <1>16 DEF PassType, Unread, UnwatchedKept, CleanLookFails, CleanIdle,
     autoVars, rowVars
<1>17. CASE CleanAct
  <2> SUFFICES ASSUME "unwatched" \in kept PROVE UnwatchedKept'
    BY <1>17 DEF UnwatchedKept, CleanAct
  <2>1. UNCHANGED rowVars
    BY <1>17 DEF CleanAct, UnwatchedKept, StartsGrace, GraceOver, rowVars
  <2>2. QED BY <1>17, <2>1 DEF UnwatchedKept, CleanAct, CleanIdle, rowVars,
     autoVars
<1>18. CASE PurgeCapture
  BY <1>18 DEF PassType, Unread, UnwatchedKept, PurgeCapture, autoVars,
     cleanVars, rowVars
<1>19. CASE PurgeRun
  BY <1>19 DEF UnwatchedKept, PurgeRun
<1>20. CASE Crash
  BY <1>20 DEF PassType, Unread, UnwatchedKept, Crash, AutoIdle, CleanIdle,
     rowVars
<1>21. CASE UNCHANGED vars
  BY <1>21 DEF PassType, Unread, UnwatchedKept, vars, rowVars, autoVars,
     cleanVars
<1>22. QED BY <1>1, <1>2, <1>3, <1>4, <1>5, <1>6, <1>7, <1>8, <1>9, <1>10,
     <1>11, <1>12, <1>13, <1>14, <1>15, <1>16, <1>17, <1>18, <1>19, <1>20,
     <1>21 DEF Next

(* No removal finds a reason standing. *)
LEMMA NextKept ==
  ASSUME PassType, VideoKept, ChannelKept, UnwatchedKept, KeptSurvives, [Next]_vars
  PROVE  KeptSurvives'
<1>1. CASE TimePasses
  BY <1>1 DEF KeptSurvives, Present, TimePasses, Pools
<1>2. CASE Play
  BY <1>2 DEF KeptSurvives, Present, Play, rowVars
<1>3. CASE Unplay
  BY <1>3 DEF KeptSurvives, Present, Unplay, rowVars
<1>4. CASE Promote
  BY <1>4 DEF KeptSurvives, Present, Promote, Pools
<1>5. ASSUME NEW p \in Pins, Pin(p) PROVE KeptSurvives'
  BY <1>5 DEF KeptSurvives, Present, Pin, Pools
<1>6. ASSUME NEW p \in Pins, Unpin(p) PROVE KeptSurvives'
  BY <1>6 DEF KeptSurvives, Present, Unpin, Pools
<1>7. ASSUME NEW v \in Viewers, SetWatched(v) PROVE KeptSurvives'
  BY <1>7 DEF KeptSurvives, Present, SetWatched, Pools
<1>8. ASSUME NEW v \in Viewers, ClearWatched(v) PROVE KeptSurvives'
  BY <1>8 DEF KeptSurvives, Present, ClearWatched, Pools
<1>9. CASE AutoBegin
  BY <1>9 DEF KeptSurvives, Present, AutoBegin, rowVars
<1>10. CASE AutoRows
  BY <1>10 DEF KeptSurvives, Present, AutoRows, rowVars
<1>11. CASE AutoJellyfin
  BY <1>11 DEF KeptSurvives, Present, AutoJellyfin, rowVars
<1>12. CASE AutoAct
  <2> SUFFICES ASSUME kept # {} PROVE KeptSurvives'
    BY <1>12 DEF KeptSurvives, AutoAct
  <2>1. autoWatch = -1 /\ autoAll = -1
    BY DEF PassType, VideoKept, ChannelKept, UnwatchedKept, Pins
  <2>2. UNCHANGED rowVars
    BY <1>12, <2>1 DEF AutoAct, Over
  <2>3. QED BY <1>12, <2>2 DEF KeptSurvives, Present, AutoAct, rowVars
<1>13. CASE CleanBegin
  BY <1>13 DEF KeptSurvives, Present, CleanBegin, rowVars
<1>14. CASE CleanRows
  BY <1>14 DEF KeptSurvives, Present, CleanRows, rowVars
<1>15. CASE CleanLook
  BY <1>15 DEF KeptSurvives, Present, CleanLook, rowVars
<1>16. CASE CleanLookFails
  BY <1>16 DEF KeptSurvives, Present, CleanLookFails, rowVars
<1>17. CASE CleanAct
  <2> SUFFICES ASSUME kept # {} PROVE KeptSurvives'
    BY <1>17 DEF KeptSurvives, CleanAct
  <2>1. "unwatched" \in kept
    BY <1>17 DEF PassType, VideoKept, ChannelKept, CleanAct, Pins
  <2>2. ~GraceOver
    BY <2>1 DEF UnwatchedKept, GraceOver
  <2>3. row' = row
    BY <1>17, <2>2 DEF CleanAct, rowVars
  <2>4. QED BY <1>17, <2>3 DEF KeptSurvives, Present, CleanAct
<1>18. CASE PurgeCapture
  BY <1>18 DEF KeptSurvives, Present, PurgeCapture, rowVars
<1>19. CASE PurgeRun
  <2>1. kept = {}
    BY <1>19 DEF PassType, PurgeRun, VideoKept, ChannelKept, UnwatchedKept, Pins
  <2>2. QED BY <1>19, <2>1 DEF KeptSurvives, PurgeRun
<1>20. CASE Crash
  BY <1>20 DEF KeptSurvives, Present, Crash, rowVars
<1>21. CASE UNCHANGED vars
  BY <1>21 DEF KeptSurvives, Present, vars, rowVars, autoVars, cleanVars
<1>22. QED BY <1>1, <1>2, <1>3, <1>4, <1>5, <1>6, <1>7, <1>8, <1>9, <1>10,
     <1>11, <1>12, <1>13, <1>14, <1>15, <1>16, <1>17, <1>18, <1>19, <1>20,
     <1>21 DEF Next

LEMMA NextHolds == IInv /\ [Next]_vars => IInv'
BY NextRowType, NextPassType, NextUnread, NextVideoKept, NextChannelKept,
   NextUnwatchedKept, NextKept DEF IInv

LEMMA IInvHolds == Spec => []IInv
BY InitHolds, NextHolds, PTL DEF Spec

(* The types of Retention hold for any constants. *)
THEOREM TypeOKHolds == Spec => []TypeOK
<1>1. IInv => TypeOK
  BY TypeParts DEF IInv
<1>2. QED BY <1>1, IInvHolds, PTL

(* No automated removal takes a video that has, in time, been pinned, had its
   channel pinned, or been left unwatched (auto-delete.service.ts:21). *)
THEOREM KeptSurvivesHolds == Spec => []KeptSurvives
<1>1. IInv => KeptSurvives
  BY DEF IInv
<1>2. QED BY <1>1, IInvHolds, PTL

-----------------------------------------------------------------------------
(* WatchSync. *)

(* The type invariant in two parts, with what no pass has ahead of the
   clock. *)
MarkType ==
  /\ watched \in [Videos -> BOOLEAN] /\ watchedAt \in [Videos -> 0 .. MaxNow]
  /\ save \in [Videos -> SUBSET Readings]
  /\ now \in 0 .. MaxNow /\ lastSync \in 0 .. now
  /\ history \cup excused \cup restored \subseteq Videos
  /\ \A v \in Videos : watchedAt[v] <= now

SyncType ==
  /\ pc \in [Syncs -> Stages] /\ since \in [Syncs -> 0 .. MaxNow]
  /\ todo \in [Syncs -> SUBSET Videos] /\ stamp \in [Syncs -> 0 .. MaxNow]
  /\ \A s \in Syncs : /\ since[s] <= now /\ stamp[s] <= now
                      /\ pc[s] \in {"idle", "query"} => todo[s] = {}

(* What a pass pulls is in the history. *)
Pulling == \A s \in Syncs : pc[s] \in {"load", "mark"} => todo[s] \subseteq history

(* The dated marks, and that those up to t are done with. *)
Dated == {v \in Videos : watched[v] /\ watchedAt[v] # 0}
DoneWith == history \cup excused \cup restored
CoversTo(t) == \A v \in Dated : watchedAt[v] <= t => v \in DoneWith

Covering ==
  /\ CoversTo(lastSync)
  /\ \A s \in Syncs :
       /\ CoversTo(since[s])
       /\ pc[s] = "send" => Dated \subseteq DoneWith \cup todo[s]
       /\ pc[s] = "fetch" => Dated \subseteq DoneWith
       /\ pc[s] \in {"load", "mark"} => CoversTo(stamp[s])

SyncInv == MarkType /\ SyncType /\ Pulling /\ Covering

-----------------------------------------------------------------------------
LEMMA SyncInitHolds == SyncInit => SyncInv
<1> SUFFICES ASSUME SyncInit PROVE SyncInv
  OBVIOUS
<1>1. MarkType /\ SyncType
  BY MaxNowAssumption DEF SyncInit, MarkType, SyncType, Stages
<1>2. Pulling /\ Covering
  BY DEF SyncInit, Pulling, Covering, CoversTo, Dated, DoneWith
<1>3. QED BY <1>1, <1>2 DEF SyncInv

(* Every step keeps the types. *)
LEMMA NextMarkType ==
  ASSUME MarkType, SyncType, [SyncNext]_syncVars
  PROVE  MarkType'
<1>1. ASSUME NEW v \in Videos, MarkWatched(v) PROVE MarkType'
  BY <1>1, MaxNowAssumption DEF MarkType, SyncType, MarkWatched, Mark, NewDate,
       passVars
<1>2. ASSUME NEW v \in Videos, MarkUnwatched(v) PROVE MarkType'
  BY <1>2, MaxNowAssumption DEF MarkType, SyncType, MarkUnwatched, passVars
<1>3. ASSUME NEW v \in Videos, SaveRead(v) PROVE MarkType'
  BY <1>3, MaxNowAssumption DEF MarkType, SyncType, SaveRead, Readings,
       passVars, lossVars
<1>4. ASSUME NEW v \in Videos, SaveWrite(v) PROVE MarkType'
  <2>1. save' \in [Videos -> SUBSET Readings]
    BY <1>4 DEF MarkType, SaveWrite, Readings
  <2>2. CASE Mark(v)
    BY <1>4, <2>1, <2>2, MaxNowAssumption DEF MarkType, SaveWrite, Mark, NewDate
  <2>3. CASE \E reading \in save[v] : WriteBack(v, reading)
    BY <1>4, <2>1, <2>3 DEF MarkType, SaveWrite, WriteBack
  <2>4. QED BY <1>4, <2>2, <2>3 DEF SaveWrite
<1>5. ASSUME NEW v \in Videos, WatchAtYouTube(v) PROVE MarkType'
  BY <1>5, MaxNowAssumption DEF MarkType, SyncType, WatchAtYouTube,
       progressVars, passVars, lossVars
<1>6. ASSUME NEW s \in Syncs, Begin(s) PROVE MarkType'
  BY <1>6, MaxNowAssumption DEF MarkType, SyncType, Begin, Goto, progressVars,
       lossVars
<1>7. ASSUME NEW s \in Syncs, PushQuery(s) PROVE MarkType'
  BY <1>7, MaxNowAssumption DEF MarkType, SyncType, PushQuery, Goto, NewMarks,
       progressVars, lossVars
<1>8. ASSUME NEW s \in Syncs, PushSend(s) PROVE MarkType'
  BY <1>8, MaxNowAssumption DEF MarkType, SyncType, PushSend, progressVars
<1>9. ASSUME NEW s \in Syncs, PushDone(s) PROVE MarkType'
  BY <1>9, MaxNowAssumption DEF MarkType, SyncType, PushDone, Goto, NewDate,
       progressVars, lossVars
<1>10. ASSUME NEW s \in Syncs, Fetch(s) PROVE MarkType'
  BY <1>10, MaxNowAssumption DEF MarkType, SyncType, Fetch, Goto, NewDate,
       progressVars, lossVars
<1>11. ASSUME NEW s \in Syncs, Load(s) PROVE MarkType'
  BY <1>11, MaxNowAssumption DEF MarkType, SyncType, Load, Goto, progressVars,
       lossVars
<1>12. ASSUME NEW s \in Syncs, MarkPulled(s) PROVE MarkType'
  BY <1>12, MaxNowAssumption DEF MarkType, SyncType, MarkPulled, lossVars
<1>13. ASSUME NEW s \in Syncs, Advance(s) PROVE MarkType'
  BY <1>13, MaxNowAssumption DEF MarkType, SyncType, Advance, Leave, Goto,
       progressVars, lossVars
<1>14. ASSUME NEW s \in Syncs, Abort(s) PROVE MarkType'
  BY <1>14, MaxNowAssumption DEF MarkType, SyncType, Abort, Leave, Goto,
       progressVars, lossVars
<1>15. CASE UNCHANGED syncVars
  BY <1>15 DEF MarkType, SyncType, syncVars, progressVars, passVars, lossVars
<1>16. QED BY <1>1, <1>2, <1>3, <1>4, <1>5, <1>6, <1>7, <1>8, <1>9, <1>10,
     <1>11, <1>12, <1>13, <1>14, <1>15 DEF SyncNext, Pass

(* The same of what the passes keep. *)
LEMMA NextSyncType ==
  ASSUME MarkType, SyncType, [SyncNext]_syncVars
  PROVE  SyncType'
<1>1. ASSUME NEW v \in Videos, MarkWatched(v) PROVE SyncType'
  BY <1>1, MaxNowAssumption DEF MarkType, SyncType, Stages, MarkWatched, Mark,
       NewDate, passVars
<1>2. ASSUME NEW v \in Videos, MarkUnwatched(v) PROVE SyncType'
  BY <1>2, MaxNowAssumption DEF MarkType, SyncType, Stages, MarkUnwatched,
       passVars
<1>3. ASSUME NEW v \in Videos, SaveRead(v) PROVE SyncType'
  BY <1>3, MaxNowAssumption DEF MarkType, SyncType, Stages, SaveRead, Readings,
       passVars, lossVars
<1>4. ASSUME NEW v \in Videos, SaveWrite(v) PROVE SyncType'
  BY <1>4, MaxNowAssumption DEF MarkType, SyncType, Stages, SaveWrite,
       Readings, Mark, NewDate, passVars, WriteBack
<1>5. ASSUME NEW v \in Videos, WatchAtYouTube(v) PROVE SyncType'
  BY <1>5, MaxNowAssumption DEF MarkType, SyncType, Stages, WatchAtYouTube,
       progressVars, passVars, lossVars
<1>6. ASSUME NEW s \in Syncs, Begin(s) PROVE SyncType'
  BY <1>6, MaxNowAssumption DEF MarkType, SyncType, Stages, Begin, Goto,
       progressVars, lossVars
<1>7. ASSUME NEW s \in Syncs, PushQuery(s) PROVE SyncType'
  BY <1>7, MaxNowAssumption DEF MarkType, SyncType, Stages, PushQuery, Goto,
       NewMarks, progressVars, lossVars
<1>8. ASSUME NEW s \in Syncs, PushSend(s) PROVE SyncType'
  BY <1>8, MaxNowAssumption DEF MarkType, SyncType, Stages, PushSend,
       progressVars
<1>9. ASSUME NEW s \in Syncs, PushDone(s) PROVE SyncType'
  BY <1>9, MaxNowAssumption DEF MarkType, SyncType, Stages, PushDone, Goto,
       NewDate, progressVars, lossVars
<1>10. ASSUME NEW s \in Syncs, Fetch(s) PROVE SyncType'
  BY <1>10, MaxNowAssumption DEF MarkType, SyncType, Stages, Fetch, Goto,
       NewDate, progressVars, lossVars
<1>11. ASSUME NEW s \in Syncs, Load(s) PROVE SyncType'
  BY <1>11, MaxNowAssumption DEF MarkType, SyncType, Stages, Load, Goto,
       progressVars, lossVars
<1>12. ASSUME NEW s \in Syncs, MarkPulled(s) PROVE SyncType'
  BY <1>12, MaxNowAssumption DEF MarkType, SyncType, Stages, MarkPulled,
       lossVars
<1>13. ASSUME NEW s \in Syncs, Advance(s) PROVE SyncType'
  BY <1>13, MaxNowAssumption DEF MarkType, SyncType, Stages, Advance, Leave,
       Goto, progressVars, lossVars
<1>14. ASSUME NEW s \in Syncs, Abort(s) PROVE SyncType'
  BY <1>14, MaxNowAssumption DEF MarkType, SyncType, Stages, Abort, Leave,
       Goto, progressVars, lossVars
<1>15. CASE UNCHANGED syncVars
  BY <1>15 DEF MarkType, SyncType, Stages, syncVars, progressVars, passVars,
       lossVars
<1>16. QED BY <1>1, <1>2, <1>3, <1>4, <1>5, <1>6, <1>7, <1>8, <1>9, <1>10,
     <1>11, <1>12, <1>13, <1>14, <1>15 DEF SyncNext, Pass

(* The history only grows. *)
LEMMA NextPulling ==
  ASSUME MarkType, SyncType, Pulling, [SyncNext]_syncVars
  PROVE  Pulling'
<1>1. ASSUME NEW v \in Videos, MarkWatched(v) PROVE Pulling'
  BY <1>1 DEF MarkType, SyncType, Pulling, MarkWatched, Mark, NewDate, passVars
<1>2. ASSUME NEW v \in Videos, MarkUnwatched(v) PROVE Pulling'
  BY <1>2 DEF MarkType, SyncType, Pulling, MarkUnwatched, passVars
<1>3. ASSUME NEW v \in Videos, SaveRead(v) PROVE Pulling'
  BY <1>3 DEF MarkType, SyncType, Pulling, SaveRead, Readings, passVars,
       lossVars
<1>4. ASSUME NEW v \in Videos, SaveWrite(v) PROVE Pulling'
  BY <1>4 DEF MarkType, SyncType, Pulling, SaveWrite, Readings, Mark, NewDate,
       passVars, WriteBack
<1>5. ASSUME NEW v \in Videos, WatchAtYouTube(v) PROVE Pulling'
  BY <1>5 DEF MarkType, SyncType, Pulling, WatchAtYouTube, progressVars,
       passVars, lossVars
<1>6. ASSUME NEW s \in Syncs, Begin(s) PROVE Pulling'
  BY <1>6 DEF MarkType, SyncType, Pulling, Begin, Goto, progressVars, lossVars
<1>7. ASSUME NEW s \in Syncs, PushQuery(s) PROVE Pulling'
  BY <1>7 DEF MarkType, SyncType, Pulling, PushQuery, Goto, NewMarks,
       progressVars, lossVars
<1>8. ASSUME NEW s \in Syncs, PushSend(s) PROVE Pulling'
  BY <1>8 DEF MarkType, SyncType, Pulling, PushSend, progressVars
<1>9. ASSUME NEW s \in Syncs, PushDone(s) PROVE Pulling'
  BY <1>9 DEF MarkType, SyncType, Pulling, PushDone, Goto, NewDate,
       progressVars, lossVars
<1>10. ASSUME NEW s \in Syncs, Fetch(s) PROVE Pulling'
  BY <1>10 DEF MarkType, SyncType, Pulling, Fetch, Goto, NewDate, progressVars,
       lossVars
<1>11. ASSUME NEW s \in Syncs, Load(s) PROVE Pulling'
  BY <1>11 DEF MarkType, SyncType, Pulling, Load, Goto, progressVars, lossVars
<1>12. ASSUME NEW s \in Syncs, MarkPulled(s) PROVE Pulling'
  BY <1>12 DEF MarkType, SyncType, Pulling, MarkPulled, lossVars
<1>13. ASSUME NEW s \in Syncs, Advance(s) PROVE Pulling'
  BY <1>13 DEF MarkType, SyncType, Pulling, Advance, Leave, Goto, progressVars,
       lossVars
<1>14. ASSUME NEW s \in Syncs, Abort(s) PROVE Pulling'
  BY <1>14 DEF MarkType, SyncType, Pulling, Abort, Leave, Goto, progressVars,
       lossVars
<1>15. CASE UNCHANGED syncVars
  BY <1>15 DEF MarkType, SyncType, Pulling, syncVars, progressVars, passVars,
       lossVars
<1>16. QED BY <1>1, <1>2, <1>3, <1>4, <1>5, <1>6, <1>7, <1>8, <1>9, <1>10,
     <1>11, <1>12, <1>13, <1>14, <1>15 DEF SyncNext, Pass

(* A new mark is dated after every date that is kept, and is excused where a
   pass would not look for it. *)
LEMMA MarkCovering ==
  ASSUME MarkType, SyncType, Covering, NEW v \in Videos, Mark(v),
         UNCHANGED <<passVars, lastSync, history>>
  PROVE  Covering'
<1>1. /\ now' = now + 1 /\ watchedAt'[v] = now'
      /\ \A u \in Dated' : u # v => u \in Dated /\ watchedAt'[u] = watchedAt[u]
  BY DEF Mark, NewDate, MarkType, Dated
<1>2. DoneWith \ {v} \subseteq DoneWith' \cup history
  BY DEF Mark, DoneWith
<1>3. CoversTo(lastSync)'
  BY <1>1, <1>2 DEF Covering, CoversTo, MarkType, DoneWith
<1>4. ASSUME NEW s \in Syncs PROVE CoversTo(since[s])'
  BY <1>1, <1>2 DEF Covering, CoversTo, SyncType, MarkType, passVars, DoneWith
<1>5. ASSUME NEW s \in Syncs, pc[s] \in {"load", "mark"} PROVE CoversTo(stamp[s])'
  BY <1>1, <1>2, <1>5 DEF Covering, CoversTo, SyncType, MarkType, passVars,
       DoneWith
<1>6. ASSUME NEW s \in Syncs, pc[s] \in {"send", "fetch"} PROVE v \in excused'
  BY <1>6 DEF Mark, Overlooked
<1>7. ASSUME NEW s \in Syncs, pc[s] = "send"
      PROVE  Dated' \subseteq DoneWith' \cup todo[s]
  BY <1>1, <1>2, <1>6, <1>7 DEF Covering, DoneWith
<1>8. ASSUME NEW s \in Syncs, pc[s] = "fetch"
      PROVE  Dated' \subseteq DoneWith'
  BY <1>1, <1>2, <1>6, <1>8 DEF Covering, DoneWith
<1>9. QED BY <1>3, <1>4, <1>5, <1>7, <1>8 DEF Covering, passVars

(* A mark that is brought back keeps its date, and is counted in restored where
   a pass has passed that date over. *)
LEMMA WriteBackCovering ==
  ASSUME MarkType, SyncType, Covering, NEW v \in Videos, NEW reading,
         WriteBack(v, reading), UNCHANGED <<passVars, lastSync, history>>
  PROVE  Covering'
<1>1. DoneWith \subseteq DoneWith' /\ watchedAt' = watchedAt
  BY DEF WriteBack, DoneWith
<1>2. \A u \in Dated' : u # v => u \in Dated
  BY DEF WriteBack, MarkType, Dated
<1>3. v \in Dated' => v \in Dated \cup restored' \/ ~PassedOver(v)
  BY DEF WriteBack, MarkType, Dated
<1>4. CASE v \in Dated' /\ ~PassedOver(v)
  <2>1. /\ ~(watchedAt[v] <= lastSync)
        /\ \A s \in Syncs : /\ pc[s] \notin {"send", "fetch"}
                            /\ ~(watchedAt[v] <= since[s])
                            /\ ~(watchedAt[v] <= stamp[s])
    BY <1>4 DEF PassedOver, Overlooked
  <2>2. QED BY <1>1, <1>2, <2>1 DEF Covering, CoversTo, passVars
<1>5. CASE v \in Dated' => v \in Dated \cup restored'
  <2>1. Dated' \subseteq Dated \cup DoneWith'
    BY <1>2, <1>5 DEF DoneWith
  <2>2. QED BY <1>1, <2>1 DEF Covering, CoversTo, passVars
<1>6. QED BY <1>3, <1>4, <1>5

(* No step leaves a mark behind. *)
LEMMA NextCovering ==
  ASSUME MarkType, SyncType, Pulling, Covering, [SyncNext]_syncVars
  PROVE  Covering'
<1>1. ASSUME NEW v \in Videos, MarkWatched(v) PROVE Covering'
  BY <1>1, MarkCovering DEF MarkWatched
<1>2. ASSUME NEW v \in Videos, MarkUnwatched(v) PROVE Covering'
  BY <1>2 DEF MarkType, SyncType, Covering, CoversTo, Dated, MarkUnwatched,
       passVars, DoneWith
<1>3. ASSUME NEW v \in Videos, SaveRead(v) PROVE Covering'
  BY <1>3 DEF MarkType, SyncType, Covering, CoversTo, Dated, SaveRead,
       Readings, passVars, lossVars, DoneWith
<1>4. ASSUME NEW v \in Videos, SaveWrite(v) PROVE Covering'
  <2>1. CASE Mark(v)
    BY <1>4, <2>1, MarkCovering DEF SaveWrite
  <2>2. CASE \E reading \in save[v] : WriteBack(v, reading)
    BY <1>4, <2>2, WriteBackCovering DEF SaveWrite
  <2>3. QED BY <1>4, <2>1, <2>2 DEF SaveWrite
<1>5. ASSUME NEW v \in Videos, WatchAtYouTube(v) PROVE Covering'
  BY <1>5 DEF MarkType, SyncType, Covering, CoversTo, Dated, WatchAtYouTube,
       progressVars, passVars, lossVars, DoneWith
<1>6. ASSUME NEW s \in Syncs, Begin(s) PROVE Covering'
  BY <1>6 DEF MarkType, SyncType, Covering, CoversTo, Dated, Begin, Goto,
       progressVars, lossVars, DoneWith
<1>7. ASSUME NEW s \in Syncs, PushQuery(s) PROVE Covering'
  BY <1>7 DEF MarkType, SyncType, Covering, CoversTo, Dated, PushQuery, Goto,
       NewMarks, progressVars, lossVars, DoneWith
<1>8. ASSUME NEW s \in Syncs, PushSend(s) PROVE Covering'
  BY <1>8 DEF MarkType, SyncType, Covering, CoversTo, Dated, PushSend,
       progressVars, DoneWith
<1>9. ASSUME NEW s \in Syncs, PushDone(s) PROVE Covering'
  BY <1>9 DEF MarkType, SyncType, Covering, CoversTo, Dated, PushDone, Goto,
       NewDate, progressVars, lossVars, DoneWith
<1>10. ASSUME NEW s \in Syncs, Fetch(s) PROVE Covering'
  BY <1>10 DEF MarkType, SyncType, Covering, CoversTo, Dated, Fetch, Goto,
       NewDate, progressVars, lossVars, DoneWith
<1>11. ASSUME NEW s \in Syncs, Load(s) PROVE Covering'
  BY <1>11 DEF MarkType, SyncType, Covering, CoversTo, Dated, Load, Goto,
       progressVars, lossVars, DoneWith
<1>12. ASSUME NEW s \in Syncs, MarkPulled(s) PROVE Covering'
  <2>1. PICK u \in todo[s] :
           /\ todo' = [todo EXCEPT ![s] = @ \ {u}]
           /\ watched' = [watched EXCEPT ![u] = TRUE]
           /\ watchedAt' = [watchedAt EXCEPT ![u] = stamp[s]]
    BY <1>12 DEF MarkPulled, lossVars
  <2>2. u \in history /\ u \in Videos
    BY <1>12 DEF MarkPulled, MarkType, Pulling
  <2>3. \A x \in Dated' : x # u => x \in Dated /\ watchedAt'[x] = watchedAt[x]
    BY <2>1, <2>2 DEF MarkType, Dated
  <2>4. UNCHANGED <<pc, since, stamp, lastSync, DoneWith>>
    BY <1>12 DEF MarkPulled, lossVars, DoneWith
  <2>5. \A q \in Syncs : pc[q] = "send" => todo'[q] = todo[q]
    BY <1>12, <2>1 DEF MarkPulled, SyncType, lossVars
  <2>6. u \in DoneWith
    BY <2>2 DEF DoneWith
  <2>7. QED BY <2>3, <2>4, <2>5, <2>6 DEF Covering, CoversTo
<1>13. ASSUME NEW s \in Syncs, Advance(s) PROVE Covering'
  BY <1>13 DEF MarkType, SyncType, Covering, CoversTo, Dated, Advance, Leave,
       Goto, progressVars, lossVars, DoneWith
<1>14. ASSUME NEW s \in Syncs, Abort(s) PROVE Covering'
  BY <1>14 DEF MarkType, SyncType, Covering, CoversTo, Dated, Abort, Leave,
       Goto, progressVars, lossVars, DoneWith
<1>15. CASE UNCHANGED syncVars
  BY <1>15 DEF MarkType, SyncType, Covering, CoversTo, Dated, syncVars,
       progressVars, passVars, lossVars, DoneWith
<1>16. QED BY <1>1, <1>2, <1>3, <1>4, <1>5, <1>6, <1>7, <1>8, <1>9, <1>10,
     <1>11, <1>12, <1>13, <1>14, <1>15 DEF SyncNext, Pass

LEMMA SyncNextHolds == SyncInv /\ [SyncNext]_syncVars => SyncInv'
BY NextMarkType, NextSyncType, NextPulling, NextCovering DEF SyncInv

LEMMA SyncInvHolds == SyncSpec => []SyncInv
BY SyncInitHolds, SyncNextHolds, PTL DEF SyncSpec

(* The types of WatchSync hold for any constants. *)
THEOREM SyncTypeOKHolds == SyncSpec => []SyncTypeOK
<1>1. SyncInv => SyncTypeOK
  BY DEF SyncInv, MarkType, SyncType, SyncTypeOK
<1>2. QED BY <1>1, SyncInvHolds, PTL

(* However many passes and saves overlap, are interrupted or lose their last
   write, no mark falls behind the watermark without its push, unless it was
   made between a pass's query and its stamp, or written off by one save and
   brought back by another (youtube-sync.service.ts:66-82). *)
THEOREM WatermarkCoversHolds == SyncSpec => []WatermarkCovers
<1>1. SyncInv => WatermarkCovers
  BY DEF SyncInv, MarkType, Covering, CoversTo, Dated, WatermarkCovers,
       DoneWith, Behind
<1>2. QED BY <1>1, SyncInvHolds, PTL

=============================================================================
