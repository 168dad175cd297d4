------------------------------ MODULE LiveProofs ------------------------------
(***************************************************************************)
(* Proofs about the two components that follow something live: Monitors,   *)
(* which watch a channel or a streamer, and LiveView, the page's list of   *)
(* running downloads.                                                      *)
(*                                                                         *)
(* Monitors, for any number of overlapping runs and any MAX_RESTARTS: the  *)
(* type invariant, that an enabled YouTube monitor is never silently dead, *)
(* and that a Twitch monitor has one live handler.  The two invariants are *)
(* inductive once it is known which stages belong to which type of monitor *)
(* (Proper): every action that ends a run leaves a callback or a timer of  *)
(* the same run behind, a killed process included, and only a Twitch check *)
(* can start a Twitch live handler.                                        *)
(*                                                                         *)
(* LiveView, for any number of retries and of broken connections: the type *)
(* invariant, and that a running download is on the page.  RunningIsShown  *)
(* speaks of the moment when nothing is under way.  Its invariant says     *)
(* where the card is at every other moment: its event is still to be       *)
(* emitted, or the initial state is going to name it, or a message that    *)
(* creates it is in the pipe with nothing behind it that takes it away, or *)
(* it is there (Promised).  For the events emitted while the download runs *)
(* to be the right ones, what was announced about a row must be over when  *)
(* it runs again (Announced).                                              *)
(***************************************************************************)
EXTENDS Monitors, LiveView, TLAPS

(* The type invariant in three parts. *)
BaseType ==
  /\ type \in {"YOUTUBE_LIVE", "TWITCH"} /\ enabled \in {"on", "off", "gone"}
  /\ isLive \in BOOLEAN /\ downloading \in BOOLEAN /\ onAir \in BOOLEAN
  /\ stage \in [Slots -> Stages] /\ snap \in [Slots -> BOOLEAN]
  /\ live \in [Slots -> {"no", "marking", "fetching"}]
  /\ active \in Slots \cup {0} /\ restarts \in 0 .. MaxRestarts
  /\ hour \subseteq Slots /\ answer \subseteq {"start", "stop"}
  /\ sweeping \in BOOLEAN /\ spent \in BOOLEAN /\ rejected \in BOOLEAN
  /\ process \in {"up", "down"}

(* The map holds a process, be it one that has just been killed. *)
Entry == active # 0 => stage[active] \in {"alive", "dying"}

(* Which stages belong to which type of monitor. *)
Proper ==
  /\ YouTube => \A p \in Slots : stage[p] \notin {"queued", "probing"}
  /\ Twitch => \A p \in Slots : stage[p] \in {"none", "queued", "probing"}

IInv == BaseType /\ Entry /\ Proper /\ NeverSilentlyDead /\ OneLiveHandler

-----------------------------------------------------------------------------
(* The restart count stays within its bound. *)
LEMMA Counts ==
  /\ 0 \in 0 .. MaxRestarts
  /\ \A n \in 0 .. MaxRestarts : n < MaxRestarts => n + 1 \in 0 .. MaxRestarts
BY MaxRestartsAssumption

LEMMA SlotsType == \A p \in Slots : p # 0
BY SlotsAssumption

LEMMA InitHolds == Init => IInv
<1> SUFFICES ASSUME Init PROVE IInv
  OBVIOUS
<1>1. BaseType
  BY TypesAssumption, Counts DEF Init, BaseType, Stages
<1>2. Entry /\ Proper
  BY DEF Init, Entry, Proper
<1>3. NeverSilentlyDead /\ OneLiveHandler
  BY DEF Init, NeverSilentlyDead, OneLiveHandler
<1>4. QED BY <1>1, <1>2, <1>3 DEF IInv

(* Every step keeps the types. *)
LEMMA NextBaseType ==
  ASSUME BaseType, [Next]_vars
  PROVE  BaseType'
<1>1. CASE Boot
  BY <1>1, Counts DEF BaseType, Stages, Boot, dbVars, liveVars, StartAll,
       runVars, StartMonitor, Free, Killed, YouTube
<1>2. CASE Crash
  BY <1>2, Counts DEF BaseType, Stages, Crash, dbVars, Dies
<1>3. ASSUME NEW p \in Slots, Spawn(p) PROVE BaseType'
  BY <1>3, Counts DEF BaseType, Stages, Spawn, dbVars, liveVars, procVars
<1>4. ASSUME NEW p \in Slots, ResolveFails(p) PROVE BaseType'
  BY <1>4, Counts DEF BaseType, Stages, ResolveFails, dbVars, liveVars,
       procVars
<1>5. ASSUME NEW p \in Slots, SpawnFails(p) PROVE BaseType'
  BY <1>5, Counts DEF BaseType, Stages, SpawnFails, dbVars, liveVars, procVars,
       Free
<1>6. ASSUME NEW p \in Slots, Close(p) PROVE BaseType'
  BY <1>6, Counts DEF BaseType, Stages, Close, dbVars, liveVars, procVars
<1>7. ASSUME NEW p \in Slots, WithholdRestart(p) PROVE BaseType'
  BY <1>7, Counts DEF BaseType, Stages, WithholdRestart, dbVars, liveVars,
       procVars
<1>8. ASSUME NEW p \in Slots, ScheduleRestart(p) PROVE BaseType'
  BY <1>8, Counts DEF BaseType, Stages, ScheduleRestart, dbVars, liveVars,
       procVars
<1>9. ASSUME NEW p \in Slots, GiveUp(p) PROVE BaseType'
  BY <1>9, Counts DEF BaseType, Stages, GiveUp, liveVars, procVars
<1>10. ASSUME NEW p \in Slots, TimerFires(p) PROVE BaseType'
  BY <1>10, Counts DEF BaseType, Stages, TimerFires, dbVars, liveVars,
       procVars, StartMonitor, Killed, YouTube
<1>11. ASSUME NEW p \in Slots, BeginCheck(p) PROVE BaseType'
  BY <1>11, Counts DEF BaseType, Stages, BeginCheck, dbVars, liveVars,
       procVars, InFlight
<1>12. ASSUME NEW p \in Slots, ProbeFindsStream(p) PROVE BaseType'
  BY <1>12, Counts DEF BaseType, Stages, ProbeFindsStream, dbVars, runVars,
       procVars, Checked
<1>13. ASSUME NEW p \in Slots, ProbeRefused(p) PROVE BaseType'
  BY <1>13, Counts DEF BaseType, Stages, ProbeRefused, Checked, procVars
<1>14. ASSUME NEW p \in Slots, ProbeFindsNothing(p) \/ ProbeFails(p)
      PROVE  BaseType'
  <2>1. CASE snap[p] /\ enabled = "gone"
    BY <1>14, <2>1, Counts DEF BaseType, Stages, ProbeFindsNothing,
         ProbeFails, TakenOffline, Rejects, dbVars, Dies, procVars
  <2>2. CASE ~(snap[p] /\ enabled = "gone")
    BY <1>14, <2>2, Counts DEF BaseType, Stages, ProbeFindsNothing,
         ProbeFails, TakenOffline, Checked, procVars
  <2>3. QED BY <2>1, <2>2
<1>15. ASSUME NEW p \in Slots, MarkLive(p) PROVE BaseType'
  BY <1>15, Counts DEF BaseType, Stages, MarkLive, runVars, procVars, Throws,
       dbVars, Rejects, Twitch, Dies
<1>16. ASSUME NEW p \in Slots, FetchRefused(p) PROVE BaseType'
  BY <1>16, Counts DEF BaseType, Stages, FetchRefused, Throws, dbVars, runVars,
       procVars, Rejects, Twitch, Dies
<1>17. ASSUME NEW p \in Slots, FetchLive(p) PROVE BaseType'
  BY <1>17, Counts DEF BaseType, Stages, FetchLive, procVars, Killed, Twitch
<1>18. ASSUME NEW p \in Slots, Exit(p) PROVE BaseType'
  BY <1>18, Counts DEF BaseType, Stages, Exit, dbVars, liveVars, procVars
<1>19. ASSUME NEW p \in Slots, Output(p) PROVE BaseType'
  BY <1>19, Counts DEF BaseType, Stages, Output, dbVars, liveVars, procVars
<1>20. ASSUME NEW p \in Slots, SeesStream(p) PROVE BaseType'
  BY <1>20, Counts DEF BaseType, Stages, SeesStream, dbVars, procVars
<1>21. ASSUME NEW p \in Slots, Tick(p) PROVE BaseType'
  BY <1>21, Counts DEF BaseType, Stages, Tick, dbVars, liveVars, procVars,
       Free, Twitch
<1>22. ASSUME NEW p \in Slots, HourPasses(p) PROVE BaseType'
  BY <1>22, Counts DEF BaseType, Stages, HourPasses, runVars, procVars
<1>23. CASE Enable
  BY <1>23, Counts DEF BaseType, Stages, Enable, runVars, liveVars, procVars
<1>24. CASE Disable
  BY <1>24, Counts DEF BaseType, Stages, Disable, runVars, liveVars, procVars
<1>25. CASE AnswerStart
  BY <1>25, Counts DEF BaseType, Stages, AnswerStart, dbVars, liveVars,
       procVars, StartMonitor, Free, Killed, YouTube
<1>26. CASE AnswerStop
  BY <1>26, Counts DEF BaseType, Stages, AnswerStop, dbVars, liveVars,
       procVars, StopMonitor, Killed
<1>27. CASE DeleteMonitor
  BY <1>27, Counts DEF BaseType, Stages, DeleteMonitor, liveVars, procVars,
       StopMonitor, Killed
<1>28. CASE StopAll
  BY <1>28, Counts DEF BaseType, Stages, StopAll, dbVars, liveVars, procVars,
       Killed
<1>29. CASE SweepStarts
  BY <1>29, Counts DEF BaseType, Stages, SweepStarts, dbVars, liveVars,
       procVars, StartAll, runVars, StartMonitor, Free, Killed, YouTube
<1>30. CASE StreamToggles
  BY <1>30, Counts DEF BaseType, Stages, StreamToggles, dbVars, runVars,
       liveVars, procVars, Twitch
<1>31. CASE DownloadEnds
  BY <1>31, Counts DEF BaseType, Stages, DownloadEnds, runVars, liveVars,
       procVars
<1>32. CASE UNCHANGED vars
  BY <1>32 DEF BaseType, Stages, vars, dbVars, runVars, liveVars, procVars
<1>33. QED BY <1>1, <1>2, <1>3, <1>4, <1>5, <1>6, <1>7, <1>8, <1>9, <1>10,
     <1>11, <1>12, <1>13, <1>14, <1>15, <1>16, <1>17, <1>18, <1>19, <1>20,
     <1>21, <1>22, <1>23, <1>24, <1>25, <1>26, <1>27, <1>28, <1>29, <1>30,
     <1>31, <1>32 DEF Next, ProbeStep, CheckStep, HandlerStep

(* Whoever takes the entry is a process, and an entry is removed before its
     process is forgotten. *)
LEMMA NextEntry ==
  ASSUME BaseType, Proper, Entry, [Next]_vars
  PROVE  Entry'
<1>1. CASE Boot
  BY <1>1, SlotsType DEF BaseType, Proper, Entry, YouTube, Twitch, Boot,
       dbVars, liveVars, StartAll, runVars, StartMonitor, Free, Killed
<1>2. CASE Crash
  BY <1>2, SlotsType DEF BaseType, Proper, Entry, YouTube, Twitch, Crash,
       dbVars, Dies
<1>3. ASSUME NEW p \in Slots, Spawn(p) PROVE Entry'
  BY <1>3, SlotsType DEF BaseType, Proper, Entry, YouTube, Twitch, Spawn,
       dbVars, liveVars, procVars
<1>4. ASSUME NEW p \in Slots, ResolveFails(p) PROVE Entry'
  BY <1>4, SlotsType DEF BaseType, Proper, Entry, YouTube, Twitch,
       ResolveFails, dbVars, liveVars, procVars
<1>5. ASSUME NEW p \in Slots, SpawnFails(p) PROVE Entry'
  BY <1>5, SlotsType DEF BaseType, Proper, Entry, YouTube, Twitch, SpawnFails,
       dbVars, liveVars, procVars, Free
<1>6. ASSUME NEW p \in Slots, Close(p) PROVE Entry'
  BY <1>6, SlotsType DEF BaseType, Proper, Entry, YouTube, Twitch, Close,
       dbVars, liveVars, procVars
<1>7. ASSUME NEW p \in Slots, WithholdRestart(p) PROVE Entry'
  BY <1>7, SlotsType DEF BaseType, Proper, Entry, YouTube, Twitch,
       WithholdRestart, dbVars, liveVars, procVars
<1>8. ASSUME NEW p \in Slots, ScheduleRestart(p) PROVE Entry'
  BY <1>8, SlotsType DEF BaseType, Proper, Entry, YouTube, Twitch,
       ScheduleRestart, dbVars, liveVars, procVars
<1>9. ASSUME NEW p \in Slots, GiveUp(p) PROVE Entry'
  BY <1>9, SlotsType DEF BaseType, Proper, Entry, YouTube, Twitch, GiveUp,
       liveVars, procVars
<1>10. ASSUME NEW p \in Slots, TimerFires(p) PROVE Entry'
  BY <1>10, SlotsType DEF BaseType, Proper, Entry, YouTube, Twitch, TimerFires,
       dbVars, liveVars, procVars, StartMonitor, Killed
<1>11. ASSUME NEW p \in Slots, BeginCheck(p) PROVE Entry'
  BY <1>11, SlotsType DEF BaseType, Proper, Entry, YouTube, Twitch, BeginCheck,
       dbVars, liveVars, procVars, InFlight
<1>12. ASSUME NEW p \in Slots, ProbeFindsStream(p) PROVE Entry'
  BY <1>12, SlotsType DEF BaseType, Proper, Entry, YouTube, Twitch,
       ProbeFindsStream, dbVars, runVars, procVars, Checked
<1>13. ASSUME NEW p \in Slots, ProbeRefused(p) PROVE Entry'
  BY <1>13, SlotsType DEF BaseType, Proper, Entry, YouTube, Twitch,
       ProbeRefused, Checked, procVars
<1>14. ASSUME NEW p \in Slots, ProbeFindsNothing(p) \/ ProbeFails(p)
      PROVE  Entry'
  BY <1>14, SlotsType DEF BaseType, Proper, Entry, YouTube, Twitch, ProbeFindsNothing,
       ProbeFails, TakenOffline, Rejects, Checked, dbVars, Dies, procVars
<1>15. ASSUME NEW p \in Slots, MarkLive(p) PROVE Entry'
  BY <1>15, SlotsType DEF BaseType, Proper, Entry, YouTube, Twitch, MarkLive,
       runVars, procVars, Throws, dbVars, Rejects, Dies
<1>16. ASSUME NEW p \in Slots, FetchRefused(p) PROVE Entry'
  BY <1>16, SlotsType DEF BaseType, Proper, Entry, YouTube, Twitch,
       FetchRefused, Throws, dbVars, runVars, procVars, Rejects, Dies
<1>17. ASSUME NEW p \in Slots, FetchLive(p) PROVE Entry'
  BY <1>17, SlotsType DEF BaseType, Proper, Entry, YouTube, Twitch, FetchLive,
       procVars, Killed
<1>18. ASSUME NEW p \in Slots, Exit(p) PROVE Entry'
  BY <1>18, SlotsType DEF BaseType, Proper, Entry, YouTube, Twitch, Exit,
       dbVars, liveVars, procVars
<1>19. ASSUME NEW p \in Slots, Output(p) PROVE Entry'
  BY <1>19, SlotsType DEF BaseType, Proper, Entry, YouTube, Twitch, Output,
       dbVars, liveVars, procVars
<1>20. ASSUME NEW p \in Slots, SeesStream(p) PROVE Entry'
  BY <1>20, SlotsType DEF BaseType, Proper, Entry, YouTube, Twitch, SeesStream,
       dbVars, procVars
<1>21. ASSUME NEW p \in Slots, Tick(p) PROVE Entry'
  BY <1>21, SlotsType DEF BaseType, Proper, Entry, YouTube, Twitch, Tick,
       dbVars, liveVars, procVars, Free
<1>22. ASSUME NEW p \in Slots, HourPasses(p) PROVE Entry'
  BY <1>22, SlotsType DEF BaseType, Proper, Entry, YouTube, Twitch, HourPasses,
       runVars, procVars
<1>23. CASE Enable
  BY <1>23, SlotsType DEF BaseType, Proper, Entry, YouTube, Twitch, Enable,
       runVars, liveVars, procVars
<1>24. CASE Disable
  BY <1>24, SlotsType DEF BaseType, Proper, Entry, YouTube, Twitch, Disable,
       runVars, liveVars, procVars
<1>25. CASE AnswerStart
  BY <1>25, SlotsType DEF BaseType, Proper, Entry, YouTube, Twitch,
       AnswerStart, dbVars, liveVars, procVars, StartMonitor, Free, Killed
<1>26. CASE AnswerStop
  BY <1>26, SlotsType DEF BaseType, Proper, Entry, YouTube, Twitch, AnswerStop,
       dbVars, liveVars, procVars, StopMonitor, Killed
<1>27. CASE DeleteMonitor
  BY <1>27, SlotsType DEF BaseType, Proper, Entry, YouTube, Twitch,
       DeleteMonitor, liveVars, procVars, StopMonitor, Killed
<1>28. CASE StopAll
  BY <1>28, SlotsType DEF BaseType, Proper, Entry, YouTube, Twitch, StopAll,
       dbVars, liveVars, procVars, Killed
<1>29. CASE SweepStarts
  BY <1>29, SlotsType DEF BaseType, Proper, Entry, YouTube, Twitch,
       SweepStarts, dbVars, liveVars, procVars, StartAll, runVars,
       StartMonitor, Free, Killed
<1>30. CASE StreamToggles
  BY <1>30, SlotsType DEF BaseType, Proper, Entry, YouTube, Twitch,
       StreamToggles, dbVars, runVars, liveVars, procVars
<1>31. CASE DownloadEnds
  BY <1>31, SlotsType DEF BaseType, Proper, Entry, YouTube, Twitch,
       DownloadEnds, runVars, liveVars, procVars
<1>32. CASE UNCHANGED vars
  BY <1>32 DEF BaseType, Proper, Entry, YouTube, Twitch, vars, dbVars, runVars,
       liveVars, procVars
<1>33. QED BY <1>1, <1>2, <1>3, <1>4, <1>5, <1>6, <1>7, <1>8, <1>9, <1>10,
     <1>11, <1>12, <1>13, <1>14, <1>15, <1>16, <1>17, <1>18, <1>19, <1>20,
     <1>21, <1>22, <1>23, <1>24, <1>25, <1>26, <1>27, <1>28, <1>29, <1>30,
     <1>31, <1>32 DEF Next, ProbeStep, CheckStep, HandlerStep

(* No action moves a run into a stage of the other type. *)
LEMMA NextProper ==
  ASSUME BaseType, Proper, [Next]_vars
  PROVE  Proper'
<1>1. CASE Boot
  BY <1>1 DEF BaseType, Proper, YouTube, Twitch, Boot, dbVars, liveVars,
       StartAll, runVars, StartMonitor, Free, Killed
<1>2. CASE Crash
  BY <1>2 DEF BaseType, Proper, YouTube, Twitch, Crash, dbVars, Dies
<1>3. ASSUME NEW p \in Slots, Spawn(p) PROVE Proper'
  BY <1>3 DEF BaseType, Proper, YouTube, Twitch, Spawn, dbVars, liveVars,
       procVars
<1>4. ASSUME NEW p \in Slots, ResolveFails(p) PROVE Proper'
  BY <1>4 DEF BaseType, Proper, YouTube, Twitch, ResolveFails, dbVars,
       liveVars, procVars
<1>5. ASSUME NEW p \in Slots, SpawnFails(p) PROVE Proper'
  BY <1>5 DEF BaseType, Proper, YouTube, Twitch, SpawnFails, dbVars, liveVars,
       procVars, Free
<1>6. ASSUME NEW p \in Slots, Close(p) PROVE Proper'
  BY <1>6 DEF BaseType, Proper, YouTube, Twitch, Close, dbVars, liveVars,
       procVars
<1>7. ASSUME NEW p \in Slots, WithholdRestart(p) PROVE Proper'
  BY <1>7 DEF BaseType, Proper, YouTube, Twitch, WithholdRestart, dbVars,
       liveVars, procVars
<1>8. ASSUME NEW p \in Slots, ScheduleRestart(p) PROVE Proper'
  BY <1>8 DEF BaseType, Proper, YouTube, Twitch, ScheduleRestart, dbVars,
       liveVars, procVars
<1>9. ASSUME NEW p \in Slots, GiveUp(p) PROVE Proper'
  BY <1>9 DEF BaseType, Proper, YouTube, Twitch, GiveUp, liveVars, procVars
<1>10. ASSUME NEW p \in Slots, TimerFires(p) PROVE Proper'
  BY <1>10 DEF BaseType, Proper, YouTube, Twitch, TimerFires, dbVars, liveVars,
       procVars, StartMonitor, Killed
<1>11. ASSUME NEW p \in Slots, BeginCheck(p) PROVE Proper'
  BY <1>11 DEF BaseType, Proper, YouTube, Twitch, BeginCheck, dbVars, liveVars,
       procVars, InFlight
<1>12. ASSUME NEW p \in Slots, ProbeFindsStream(p) PROVE Proper'
  BY <1>12 DEF BaseType, Proper, YouTube, Twitch, ProbeFindsStream, dbVars,
       runVars, procVars, Checked
<1>13. ASSUME NEW p \in Slots, ProbeRefused(p) PROVE Proper'
  BY <1>13 DEF BaseType, Proper, YouTube, Twitch, ProbeRefused, Checked,
       procVars
<1>14. ASSUME NEW p \in Slots, ProbeFindsNothing(p) \/ ProbeFails(p)
      PROVE  Proper'
  BY <1>14 DEF BaseType, Proper, YouTube, Twitch, ProbeFindsNothing,
       ProbeFails, TakenOffline, Rejects, Checked, dbVars, Dies, procVars
<1>15. ASSUME NEW p \in Slots, MarkLive(p) PROVE Proper'
  BY <1>15 DEF BaseType, Proper, YouTube, Twitch, MarkLive, runVars, procVars,
       Throws, dbVars, Rejects, Dies
<1>16. ASSUME NEW p \in Slots, FetchRefused(p) PROVE Proper'
  BY <1>16 DEF BaseType, Proper, YouTube, Twitch, FetchRefused, Throws, dbVars,
       runVars, procVars, Rejects, Dies
<1>17. ASSUME NEW p \in Slots, FetchLive(p) PROVE Proper'
  BY <1>17 DEF BaseType, Proper, YouTube, Twitch, FetchLive, procVars, Killed
<1>18. ASSUME NEW p \in Slots, Exit(p) PROVE Proper'
  BY <1>18 DEF BaseType, Proper, YouTube, Twitch, Exit, dbVars, liveVars,
       procVars
<1>19. ASSUME NEW p \in Slots, Output(p) PROVE Proper'
  BY <1>19 DEF BaseType, Proper, YouTube, Twitch, Output, dbVars, liveVars,
       procVars
<1>20. ASSUME NEW p \in Slots, SeesStream(p) PROVE Proper'
  BY <1>20 DEF BaseType, Proper, YouTube, Twitch, SeesStream, dbVars, procVars
<1>21. ASSUME NEW p \in Slots, Tick(p) PROVE Proper'
  BY <1>21 DEF BaseType, Proper, YouTube, Twitch, Tick, dbVars, liveVars,
       procVars, Free
<1>22. ASSUME NEW p \in Slots, HourPasses(p) PROVE Proper'
  BY <1>22 DEF BaseType, Proper, YouTube, Twitch, HourPasses, runVars, procVars
<1>23. CASE Enable
  BY <1>23 DEF BaseType, Proper, YouTube, Twitch, Enable, runVars, liveVars,
       procVars
<1>24. CASE Disable
  BY <1>24 DEF BaseType, Proper, YouTube, Twitch, Disable, runVars, liveVars,
       procVars
<1>25. CASE AnswerStart
  BY <1>25 DEF BaseType, Proper, YouTube, Twitch, AnswerStart, dbVars,
       liveVars, procVars, StartMonitor, Free, Killed
<1>26. CASE AnswerStop
  BY <1>26 DEF BaseType, Proper, YouTube, Twitch, AnswerStop, dbVars, liveVars,
       procVars, StopMonitor, Killed
<1>27. CASE DeleteMonitor
  BY <1>27 DEF BaseType, Proper, YouTube, Twitch, DeleteMonitor, liveVars,
       procVars, StopMonitor, Killed
<1>28. CASE StopAll
  BY <1>28 DEF BaseType, Proper, YouTube, Twitch, StopAll, dbVars, liveVars,
       procVars, Killed
<1>29. CASE SweepStarts
  BY <1>29 DEF BaseType, Proper, YouTube, Twitch, SweepStarts, dbVars,
       liveVars, procVars, StartAll, runVars, StartMonitor, Free, Killed
<1>30. CASE StreamToggles
  BY <1>30 DEF BaseType, Proper, YouTube, Twitch, StreamToggles, dbVars,
       runVars, liveVars, procVars
<1>31. CASE DownloadEnds
  BY <1>31 DEF BaseType, Proper, YouTube, Twitch, DownloadEnds, runVars,
       liveVars, procVars
<1>32. CASE UNCHANGED vars
  BY <1>32 DEF BaseType, Proper, YouTube, Twitch, vars, dbVars, runVars,
       liveVars, procVars
<1>33. QED BY <1>1, <1>2, <1>3, <1>4, <1>5, <1>6, <1>7, <1>8, <1>9, <1>10,
     <1>11, <1>12, <1>13, <1>14, <1>15, <1>16, <1>17, <1>18, <1>19, <1>20,
     <1>21, <1>22, <1>23, <1>24, <1>25, <1>26, <1>27, <1>28, <1>29, <1>30,
     <1>31, <1>32 DEF Next, ProbeStep, CheckStep, HandlerStep

(* Every run that ends leaves its callback or its restart behind. *)
LEMMA NextAlive ==
  ASSUME BaseType, Proper, NeverSilentlyDead, [Next]_vars
  PROVE  NeverSilentlyDead'
<1>1. CASE Boot
  BY <1>1 DEF BaseType, Proper, NeverSilentlyDead, Watched, YouTube, Twitch,
       Boot, dbVars, liveVars, StartAll, runVars, StartMonitor, Free, Killed
<1>2. CASE Crash
  BY <1>2 DEF BaseType, Proper, NeverSilentlyDead, Watched, YouTube, Twitch,
       Crash, dbVars, Dies
<1>3. ASSUME NEW p \in Slots, Spawn(p) PROVE NeverSilentlyDead'
  BY <1>3 DEF BaseType, Proper, NeverSilentlyDead, Watched, YouTube, Twitch,
       Spawn, dbVars, liveVars, procVars
<1>4. ASSUME NEW p \in Slots, ResolveFails(p) PROVE NeverSilentlyDead'
  BY <1>4 DEF BaseType, Proper, NeverSilentlyDead, Watched, YouTube, Twitch,
       ResolveFails, dbVars, liveVars, procVars
<1>5. ASSUME NEW p \in Slots, SpawnFails(p) PROVE NeverSilentlyDead'
  BY <1>5 DEF BaseType, Proper, NeverSilentlyDead, Watched, YouTube, Twitch,
       SpawnFails, dbVars, liveVars, procVars, Free
<1>6. ASSUME NEW p \in Slots, Close(p) PROVE NeverSilentlyDead'
  BY <1>6 DEF BaseType, Proper, NeverSilentlyDead, Watched, YouTube, Twitch,
       Close, dbVars, liveVars, procVars
<1>7. ASSUME NEW p \in Slots, WithholdRestart(p) PROVE NeverSilentlyDead'
  BY <1>7 DEF BaseType, Proper, NeverSilentlyDead, Watched, YouTube, Twitch,
       WithholdRestart, dbVars, liveVars, procVars
<1>8. ASSUME NEW p \in Slots, ScheduleRestart(p) PROVE NeverSilentlyDead'
  BY <1>8 DEF BaseType, Proper, NeverSilentlyDead, Watched, YouTube, Twitch,
       ScheduleRestart, dbVars, liveVars, procVars
<1>9. ASSUME NEW p \in Slots, GiveUp(p) PROVE NeverSilentlyDead'
  BY <1>9 DEF BaseType, Proper, NeverSilentlyDead, Watched, YouTube, Twitch,
       GiveUp, liveVars, procVars
<1>10. ASSUME NEW p \in Slots, TimerFires(p) PROVE NeverSilentlyDead'
  BY <1>10 DEF BaseType, Proper, NeverSilentlyDead, Watched, YouTube, Twitch,
       TimerFires, dbVars, liveVars, procVars, StartMonitor, Killed
<1>11. ASSUME NEW p \in Slots, BeginCheck(p) PROVE NeverSilentlyDead'
  BY <1>11 DEF BaseType, Proper, NeverSilentlyDead, Watched, YouTube, Twitch,
       BeginCheck, dbVars, liveVars, procVars, InFlight
<1>12. ASSUME NEW p \in Slots, ProbeFindsStream(p) PROVE NeverSilentlyDead'
  BY <1>12 DEF BaseType, Proper, NeverSilentlyDead, Watched, YouTube, Twitch,
       ProbeFindsStream, dbVars, runVars, procVars, Checked
<1>13. ASSUME NEW p \in Slots, ProbeRefused(p) PROVE NeverSilentlyDead'
  BY <1>13 DEF BaseType, Proper, NeverSilentlyDead, Watched, YouTube, Twitch,
       ProbeRefused, Checked, procVars
<1>14. ASSUME NEW p \in Slots, ProbeFindsNothing(p) \/ ProbeFails(p)
      PROVE  NeverSilentlyDead'
  BY <1>14 DEF BaseType, Proper, NeverSilentlyDead, Watched, YouTube, Twitch,
       ProbeFindsNothing,
       ProbeFails, TakenOffline, Rejects, Checked, dbVars, Dies, procVars
<1>15. ASSUME NEW p \in Slots, MarkLive(p) PROVE NeverSilentlyDead'
  BY <1>15 DEF BaseType, Proper, NeverSilentlyDead, Watched, YouTube, Twitch,
       MarkLive, runVars, procVars, Throws, dbVars, Rejects, Dies
<1>16. ASSUME NEW p \in Slots, FetchRefused(p) PROVE NeverSilentlyDead'
  BY <1>16 DEF BaseType, Proper, NeverSilentlyDead, Watched, YouTube, Twitch,
       FetchRefused, Throws, dbVars, runVars, procVars, Rejects, Dies
<1>17. ASSUME NEW p \in Slots, FetchLive(p) PROVE NeverSilentlyDead'
  BY <1>17 DEF BaseType, Proper, NeverSilentlyDead, Watched, YouTube, Twitch,
       FetchLive, procVars, Killed
<1>18. ASSUME NEW p \in Slots, Exit(p) PROVE NeverSilentlyDead'
  BY <1>18 DEF BaseType, Proper, NeverSilentlyDead, Watched, YouTube, Twitch,
       Exit, dbVars, liveVars, procVars
<1>19. ASSUME NEW p \in Slots, Output(p) PROVE NeverSilentlyDead'
  BY <1>19 DEF BaseType, Proper, NeverSilentlyDead, Watched, YouTube, Twitch,
       Output, dbVars, liveVars, procVars
<1>20. ASSUME NEW p \in Slots, SeesStream(p) PROVE NeverSilentlyDead'
  BY <1>20 DEF BaseType, Proper, NeverSilentlyDead, Watched, YouTube, Twitch,
       SeesStream, dbVars, procVars
<1>21. ASSUME NEW p \in Slots, Tick(p) PROVE NeverSilentlyDead'
  BY <1>21 DEF BaseType, Proper, NeverSilentlyDead, Watched, YouTube, Twitch,
       Tick, dbVars, liveVars, procVars, Free
<1>22. ASSUME NEW p \in Slots, HourPasses(p) PROVE NeverSilentlyDead'
  BY <1>22 DEF BaseType, Proper, NeverSilentlyDead, Watched, YouTube, Twitch,
       HourPasses, runVars, procVars
<1>23. CASE Enable
  BY <1>23 DEF BaseType, Proper, NeverSilentlyDead, Watched, YouTube, Twitch,
       Enable, runVars, liveVars, procVars
<1>24. CASE Disable
  BY <1>24 DEF BaseType, Proper, NeverSilentlyDead, Watched, YouTube, Twitch,
       Disable, runVars, liveVars, procVars
<1>25. CASE AnswerStart
  BY <1>25 DEF BaseType, Proper, NeverSilentlyDead, Watched, YouTube, Twitch,
       AnswerStart, dbVars, liveVars, procVars, StartMonitor, Free, Killed
<1>26. CASE AnswerStop
  BY <1>26 DEF BaseType, Proper, NeverSilentlyDead, Watched, YouTube, Twitch,
       AnswerStop, dbVars, liveVars, procVars, StopMonitor, Killed
<1>27. CASE DeleteMonitor
  BY <1>27 DEF BaseType, Proper, NeverSilentlyDead, Watched, YouTube, Twitch,
       DeleteMonitor, liveVars, procVars, StopMonitor, Killed
<1>28. CASE StopAll
  BY <1>28 DEF BaseType, Proper, NeverSilentlyDead, Watched, YouTube, Twitch,
       StopAll, dbVars, liveVars, procVars, Killed
<1>29. CASE SweepStarts
  BY <1>29 DEF BaseType, Proper, NeverSilentlyDead, Watched, YouTube, Twitch,
       SweepStarts, dbVars, liveVars, procVars, StartAll, runVars,
       StartMonitor, Free, Killed
<1>30. CASE StreamToggles
  BY <1>30 DEF BaseType, Proper, NeverSilentlyDead, Watched, YouTube, Twitch,
       StreamToggles, dbVars, runVars, liveVars, procVars
<1>31. CASE DownloadEnds
  BY <1>31 DEF BaseType, Proper, NeverSilentlyDead, Watched, YouTube, Twitch,
       DownloadEnds, runVars, liveVars, procVars
<1>32. CASE UNCHANGED vars
  BY <1>32 DEF BaseType, Proper, NeverSilentlyDead, Watched, YouTube, Twitch,
       vars, dbVars, runVars, liveVars, procVars
<1>33. QED BY <1>1, <1>2, <1>3, <1>4, <1>5, <1>6, <1>7, <1>8, <1>9, <1>10,
     <1>11, <1>12, <1>13, <1>14, <1>15, <1>16, <1>17, <1>18, <1>19, <1>20,
     <1>21, <1>22, <1>23, <1>24, <1>25, <1>26, <1>27, <1>28, <1>29, <1>30,
     <1>31, <1>32 DEF Next, ProbeStep, CheckStep, HandlerStep

(* A check begins when no other is under way. *)
LEMMA NextOneLive ==
  ASSUME BaseType, Proper, OneLiveHandler, [Next]_vars
  PROVE  OneLiveHandler'
<1>1. CASE Boot
  BY <1>1 DEF BaseType, Proper, OneLiveHandler, YouTube, Twitch, Boot, dbVars,
       liveVars, StartAll, runVars, StartMonitor, Free, Killed
<1>2. CASE Crash
  BY <1>2 DEF BaseType, Proper, OneLiveHandler, YouTube, Twitch, Crash, dbVars,
       Dies
<1>3. ASSUME NEW p \in Slots, Spawn(p) PROVE OneLiveHandler'
  BY <1>3 DEF BaseType, Proper, OneLiveHandler, YouTube, Twitch, Spawn, dbVars,
       liveVars, procVars
<1>4. ASSUME NEW p \in Slots, ResolveFails(p) PROVE OneLiveHandler'
  BY <1>4 DEF BaseType, Proper, OneLiveHandler, YouTube, Twitch, ResolveFails,
       dbVars, liveVars, procVars
<1>5. ASSUME NEW p \in Slots, SpawnFails(p) PROVE OneLiveHandler'
  BY <1>5 DEF BaseType, Proper, OneLiveHandler, YouTube, Twitch, SpawnFails,
       dbVars, liveVars, procVars, Free
<1>6. ASSUME NEW p \in Slots, Close(p) PROVE OneLiveHandler'
  BY <1>6 DEF BaseType, Proper, OneLiveHandler, YouTube, Twitch, Close, dbVars,
       liveVars, procVars
<1>7. ASSUME NEW p \in Slots, WithholdRestart(p) PROVE OneLiveHandler'
  BY <1>7 DEF BaseType, Proper, OneLiveHandler, YouTube, Twitch,
       WithholdRestart, dbVars, liveVars, procVars
<1>8. ASSUME NEW p \in Slots, ScheduleRestart(p) PROVE OneLiveHandler'
  BY <1>8 DEF BaseType, Proper, OneLiveHandler, YouTube, Twitch,
       ScheduleRestart, dbVars, liveVars, procVars
<1>9. ASSUME NEW p \in Slots, GiveUp(p) PROVE OneLiveHandler'
  BY <1>9 DEF BaseType, Proper, OneLiveHandler, YouTube, Twitch, GiveUp,
       liveVars, procVars
<1>10. ASSUME NEW p \in Slots, TimerFires(p) PROVE OneLiveHandler'
  BY <1>10 DEF BaseType, Proper, OneLiveHandler, YouTube, Twitch, TimerFires,
       dbVars, liveVars, procVars, StartMonitor, Killed
<1>11. ASSUME NEW p \in Slots, BeginCheck(p) PROVE OneLiveHandler'
  BY <1>11 DEF BaseType, Proper, OneLiveHandler, YouTube, Twitch, BeginCheck,
       dbVars, liveVars, procVars, InFlight
<1>12. ASSUME NEW p \in Slots, ProbeFindsStream(p) PROVE OneLiveHandler'
  BY <1>12 DEF BaseType, Proper, OneLiveHandler, YouTube, Twitch,
       ProbeFindsStream, dbVars, runVars, procVars, Checked
<1>13. ASSUME NEW p \in Slots, ProbeRefused(p) PROVE OneLiveHandler'
  BY <1>13 DEF BaseType, Proper, OneLiveHandler, YouTube, Twitch, ProbeRefused,
       Checked, procVars
<1>14. ASSUME NEW p \in Slots, ProbeFindsNothing(p) \/ ProbeFails(p)
      PROVE  OneLiveHandler'
  BY <1>14 DEF BaseType, Proper, OneLiveHandler, YouTube, Twitch, ProbeFindsNothing,
       ProbeFails, TakenOffline, Rejects, Checked, dbVars, Dies, procVars
<1>15. ASSUME NEW p \in Slots, MarkLive(p) PROVE OneLiveHandler'
  BY <1>15 DEF BaseType, Proper, OneLiveHandler, YouTube, Twitch, MarkLive,
       runVars, procVars, Throws, dbVars, Rejects, Dies
<1>16. ASSUME NEW p \in Slots, FetchRefused(p) PROVE OneLiveHandler'
  BY <1>16 DEF BaseType, Proper, OneLiveHandler, YouTube, Twitch, FetchRefused,
       Throws, dbVars, runVars, procVars, Rejects, Dies
<1>17. ASSUME NEW p \in Slots, FetchLive(p) PROVE OneLiveHandler'
  BY <1>17 DEF BaseType, Proper, OneLiveHandler, YouTube, Twitch, FetchLive,
       procVars, Killed
<1>18. ASSUME NEW p \in Slots, Exit(p) PROVE OneLiveHandler'
  BY <1>18 DEF BaseType, Proper, OneLiveHandler, YouTube, Twitch, Exit, dbVars,
       liveVars, procVars
<1>19. ASSUME NEW p \in Slots, Output(p) PROVE OneLiveHandler'
  BY <1>19 DEF BaseType, Proper, OneLiveHandler, YouTube, Twitch, Output,
       dbVars, liveVars, procVars
<1>20. ASSUME NEW p \in Slots, SeesStream(p) PROVE OneLiveHandler'
  BY <1>20 DEF BaseType, Proper, OneLiveHandler, YouTube, Twitch, SeesStream,
       dbVars, procVars
<1>21. ASSUME NEW p \in Slots, Tick(p) PROVE OneLiveHandler'
  BY <1>21 DEF BaseType, Proper, OneLiveHandler, YouTube, Twitch, Tick, dbVars,
       liveVars, procVars, Free
<1>22. ASSUME NEW p \in Slots, HourPasses(p) PROVE OneLiveHandler'
  BY <1>22 DEF BaseType, Proper, OneLiveHandler, YouTube, Twitch, HourPasses,
       runVars, procVars
<1>23. CASE Enable
  BY <1>23 DEF BaseType, Proper, OneLiveHandler, YouTube, Twitch, Enable,
       runVars, liveVars, procVars
<1>24. CASE Disable
  BY <1>24 DEF BaseType, Proper, OneLiveHandler, YouTube, Twitch, Disable,
       runVars, liveVars, procVars
<1>25. CASE AnswerStart
  BY <1>25 DEF BaseType, Proper, OneLiveHandler, YouTube, Twitch, AnswerStart,
       dbVars, liveVars, procVars, StartMonitor, Free, Killed
<1>26. CASE AnswerStop
  BY <1>26 DEF BaseType, Proper, OneLiveHandler, YouTube, Twitch, AnswerStop,
       dbVars, liveVars, procVars, StopMonitor, Killed
<1>27. CASE DeleteMonitor
  BY <1>27 DEF BaseType, Proper, OneLiveHandler, YouTube, Twitch,
       DeleteMonitor, liveVars, procVars, StopMonitor, Killed
<1>28. CASE StopAll
  BY <1>28 DEF BaseType, Proper, OneLiveHandler, YouTube, Twitch, StopAll,
       dbVars, liveVars, procVars, Killed
<1>29. CASE SweepStarts
  BY <1>29 DEF BaseType, Proper, OneLiveHandler, YouTube, Twitch, SweepStarts,
       dbVars, liveVars, procVars, StartAll, runVars, StartMonitor, Free,
       Killed
<1>30. CASE StreamToggles
  BY <1>30 DEF BaseType, Proper, OneLiveHandler, YouTube, Twitch,
       StreamToggles, dbVars, runVars, liveVars, procVars
<1>31. CASE DownloadEnds
  BY <1>31 DEF BaseType, Proper, OneLiveHandler, YouTube, Twitch, DownloadEnds,
       runVars, liveVars, procVars
<1>32. CASE UNCHANGED vars
  BY <1>32 DEF BaseType, Proper, OneLiveHandler, YouTube, Twitch, vars, dbVars,
       runVars, liveVars, procVars
<1>33. QED BY <1>1, <1>2, <1>3, <1>4, <1>5, <1>6, <1>7, <1>8, <1>9, <1>10,
     <1>11, <1>12, <1>13, <1>14, <1>15, <1>16, <1>17, <1>18, <1>19, <1>20,
     <1>21, <1>22, <1>23, <1>24, <1>25, <1>26, <1>27, <1>28, <1>29, <1>30,
     <1>31, <1>32 DEF Next, ProbeStep, CheckStep, HandlerStep

LEMMA IInvHolds == Spec => []IInv
<1>1. IInv /\ [Next]_vars => IInv'
  BY NextBaseType, NextEntry, NextProper, NextAlive, NextOneLive DEF IInv
<1>2. QED BY <1>1, InitHolds, PTL DEF Spec

(* The types of Monitors hold for any constants. *)
THEOREM TypeOKHolds == Spec => []TypeOK
<1>1. IInv => TypeOK
  BY DEF IInv, BaseType, Entry, Proper, TypeOK
<1>2. QED BY <1>1, IInvHolds, PTL

(* However its runs overlap, and through failures, timers, toggles and the
   monitor-check job, an enabled YouTube monitor has a run or a restart under
   way (monitor.service.ts:68). *)
THEOREM NeverSilentlyDeadHolds == Spec => []NeverSilentlyDead
<1>1. IInv => NeverSilentlyDead
  BY DEF IInv
<1>2. QED BY <1>1, IInvHolds, PTL

(* One Twitch monitor has one probe and one live handler at a time
   (monitor.service.ts:14). *)
THEOREM OneLiveHandlerHolds == Spec => []OneLiveHandler
<1>1. IInv => OneLiveHandler
  BY DEF IInv
<1>2. QED BY <1>1, IInvHolds, PTL

-----------------------------------------------------------------------------
(* LiveView. *)

Messages == Events \cup {"connected"}

(* The type invariant in two parts. *)
ViewType ==
  /\ row \in {"none", "active", "failed", "ended", "gone"}
  /\ announce \subseteq Events /\ retries \in 0 .. MaxRetries
  /\ registered \in BOOLEAN /\ snapshot \in {"off", "asked", "active", "inactive"}
  /\ link \in {"closed", "open", "silent"}
  /\ pipe \in Seq(Messages)
  /\ card \in BOOLEAN /\ timers \in Nat
  /\ breaks \in 0 .. MaxBreaks
  /\ cut \in BOOLEAN /\ late \in BOOLEAN /\ blind \in BOOLEAN

Wire ==
  /\ pipe # <<>> => link = "open"
  /\ link = "closed" => ~registered /\ snapshot = "off"
  /\ link = "open" => registered
  /\ \A i \in 1 .. Len(pipe) : pipe[i] = "connected" => i = 1

(* What may still be emitted about a row. *)
Announced ==
  /\ row = "none" => announce = {}
  /\ row = "active" => announce \subseteq {"created"}
  /\ row \in {"failed", "ended"} => announce \subseteq {"ended"}

(* After the n-th message, nothing takes the card away at once. *)
Harmless(n) == \A k \in 1 .. Len(pipe) : k > n => pipe[k] = "ended"

Promised ==
  row = "active" /\ link = "open" /\ ~blind =>
    \/ "created" \in announce
    \/ snapshot \in {"asked", "active"}
    \/ \E i \in 1 .. Len(pipe) : pipe[i] = "created" /\ Harmless(i)
    \/ (card \/ cut) /\ Harmless(0)

ViewInv == ViewType /\ Wire /\ Announced /\ Promised

-----------------------------------------------------------------------------
LEMMA EmptySeq == <<>> \in Seq(Messages)
  OBVIOUS

LEMMA HeadTail ==
  ASSUME NEW S, NEW s \in Seq(S), s # <<>>
  PROVE  Head(s) \in S /\ Tail(s) \in Seq(S)
  OBVIOUS

LEMMA ViewInitHolds == ViewInit => ViewInv
<1> SUFFICES ASSUME ViewInit PROVE ViewInv
  OBVIOUS
<1>1. 0 \in 0 .. MaxRetries /\ 0 \in 0 .. MaxBreaks
  BY BoundAssumption
<1>2. ViewType
  BY <1>1, EmptySeq DEF ViewInit, ViewType
<1>3. Wire /\ Announced /\ Promised
  BY DEF ViewInit, Wire, Announced, Promised
<1>4. QED BY <1>2, <1>3 DEF ViewInv

(* Every step keeps the types. *)
LEMMA NextViewType ==
  ASSUME ViewType, Wire, [ViewNext]_viewVars
  PROVE  ViewType'
<1>1. CASE CreateDownload
  BY <1>1 DEF ViewType, Messages, Events, CreateDownload, Write, serverVars,
       pageVars
<1>2. CASE CompleteDownload
  BY <1>2 DEF ViewType, Messages, Events, CompleteDownload, Write, Running,
       serverVars, pageVars
<1>3. CASE StopDownload
  BY <1>3 DEF ViewType, Messages, Events, StopDownload, Write, Running,
       serverVars, pageVars
<1>4. CASE DeleteDownload
  BY <1>4 DEF ViewType, Messages, Events, DeleteDownload, Write, Running,
       serverVars, pageVars
<1>5. CASE RetryDownload
  BY <1>5, BoundAssumption DEF ViewType, Messages, Events, RetryDownload,
       Write, serverVars, pageVars
<1>6. ASSUME NEW event \in announce, Emit(event) PROVE ViewType'
  BY <1>6 DEF ViewType, Messages, Events, Emit, serverVars, pageVars, Send
<1>7. CASE ReadSnapshot
  BY <1>7 DEF ViewType, Messages, Events, ReadSnapshot, rowVars, pageVars
<1>8. CASE SnapshotFails
  BY <1>8 DEF ViewType, Messages, Events, SnapshotFails, rowVars, pageVars
<1>9. CASE SendSnapshot
  BY <1>9 DEF ViewType, Messages, Events, SendSnapshot, rowVars, pageVars, Send
<1>10. CASE Connect
  <2>1. <<"connected">> \in Seq(Messages)
    BY DEF Messages
  <2>2. QED BY <1>10, <2>1 DEF ViewType, Messages, Events, Connect, rowVars,
       pageVars
<1>11. CASE ConnectionFails
  <2>1. pipe' = <<>> /\ pipe' \in Seq(Messages)
    BY <1>11, EmptySeq DEF ConnectionFails, Closed
  <2>2. breaks' \in 0 .. MaxBreaks
    BY <1>11, BoundAssumption DEF ConnectionFails, ViewType
  <2>3. QED BY <1>11, <2>1, <2>2 DEF ViewType, Messages, Events,
       ConnectionFails, rowVars, pageVars, Closed
<1>12. CASE ConnectionDies
  <2>1. pipe' = <<>> /\ pipe' \in Seq(Messages)
    BY <1>12, EmptySeq DEF ConnectionDies, Closed
  <2>2. breaks' \in 0 .. MaxBreaks
    BY <1>12, BoundAssumption DEF ConnectionDies, ViewType
  <2>3. QED BY <1>12, <2>1, <2>2 DEF ViewType, Messages, Events, ConnectionDies,
       rowVars, serverVars, pageVars
<1>13. CASE Watchdog
  <2>1. pipe' = <<>> /\ pipe' \in Seq(Messages)
    BY <1>13, EmptySeq DEF Watchdog, Closed
  <2>2. QED BY <1>13, <2>1 DEF ViewType, Messages, Events, Watchdog, rowVars,
       pageVars, Closed
<1>14. CASE ServerRestarts
  <2>1. pipe' \in Seq(Messages)
    BY <1>14, EmptySeq DEF ServerRestarts, Closed, ViewType
  <2>2. breaks' \in 0 .. MaxBreaks
    BY <1>14, BoundAssumption DEF ServerRestarts, ViewType
  <2>3. QED BY <1>14, <2>1, <2>2 DEF ViewType, Messages, Events, ServerRestarts,
       pageVars, Closed
<1>15. CASE Handle
  <2>1. Head(pipe) \in Messages /\ Tail(pipe) \in Seq(Messages)
    BY <1>15, HeadTail DEF Handle, ViewType
  <2>2. timers' \in Nat
    BY <1>15 DEF Handle, Removals, ViewType
  <2>3. QED BY <1>15, <2>1, <2>2 DEF ViewType, Messages, Events, Handle,
       rowVars, serverVars, Listed, Removals
<1>16. CASE RemovalDue
  <2>1. timers' \in Nat
    BY <1>16 DEF RemovalDue, ViewType
  <2>2. QED BY <1>16, <2>1 DEF ViewType, Messages, Events, RemovalDue, rowVars,
       serverVars
<1>17. CASE UNCHANGED viewVars
  BY <1>17 DEF ViewType, Messages, Events, viewVars, rowVars, serverVars, pageVars
<1>18. QED BY <1>1, <1>2, <1>3, <1>4, <1>5, <1>6, <1>7, <1>8, <1>9, <1>10,
     <1>11, <1>12, <1>13, <1>14, <1>15, <1>16, <1>17 DEF ViewNext, DownloadStep,
     ServerStep

(* Only an open connection carries messages, the greeting first. *)
LEMMA NextWire ==
  ASSUME ViewType, Wire, [ViewNext]_viewVars
  PROVE  Wire'
<1>1. CASE CreateDownload
  BY <1>1 DEF ViewType, Wire, Messages, Events, CreateDownload, Write,
       serverVars, pageVars
<1>2. CASE CompleteDownload
  BY <1>2 DEF ViewType, Wire, Messages, Events, CompleteDownload, Write,
       Running, serverVars, pageVars
<1>3. CASE StopDownload
  BY <1>3 DEF ViewType, Wire, Messages, Events, StopDownload, Write, Running,
       serverVars, pageVars
<1>4. CASE DeleteDownload
  BY <1>4 DEF ViewType, Wire, Messages, Events, DeleteDownload, Write, Running,
       serverVars, pageVars
<1>5. CASE RetryDownload
  BY <1>5 DEF ViewType, Wire, Messages, Events, RetryDownload, Write,
       serverVars, pageVars
<1>6. ASSUME NEW event \in announce, Emit(event) PROVE Wire'
  BY <1>6 DEF ViewType, Wire, Messages, Events, Emit, serverVars, pageVars,
       Send
<1>7. CASE ReadSnapshot
  BY <1>7 DEF ViewType, Wire, Messages, Events, ReadSnapshot, rowVars, pageVars
<1>8. CASE SnapshotFails
  BY <1>8 DEF ViewType, Wire, Messages, Events, SnapshotFails, rowVars,
       pageVars
<1>9. CASE SendSnapshot
  BY <1>9 DEF ViewType, Wire, Messages, Events, SendSnapshot, rowVars,
       pageVars, Send
<1>10. CASE Connect
  BY <1>10 DEF ViewType, Wire, Messages, Events, Connect, rowVars, pageVars
<1>11. CASE ConnectionFails
  BY <1>11 DEF ViewType, Wire, Messages, Events, ConnectionFails, rowVars,
       pageVars, Closed
<1>12. CASE ConnectionDies
  BY <1>12 DEF ViewType, Wire, Messages, Events, ConnectionDies, rowVars,
       serverVars, pageVars
<1>13. CASE Watchdog
  BY <1>13 DEF ViewType, Wire, Messages, Events, Watchdog, rowVars, pageVars,
       Closed
<1>14. CASE ServerRestarts
  BY <1>14 DEF ViewType, Wire, Messages, Events, ServerRestarts, pageVars,
       Closed
<1>15. CASE Handle
  BY <1>15 DEF ViewType, Wire, Messages, Events, Handle, rowVars, serverVars,
       Listed, Removals
<1>16. CASE RemovalDue
  BY <1>16 DEF ViewType, Wire, Messages, Events, RemovalDue, rowVars,
       serverVars
<1>17. CASE UNCHANGED viewVars
  BY <1>17 DEF ViewType, Wire, Messages, Events, viewVars, rowVars, serverVars,
       pageVars
<1>18. QED BY <1>1, <1>2, <1>3, <1>4, <1>5, <1>6, <1>7, <1>8, <1>9, <1>10,
     <1>11, <1>12, <1>13, <1>14, <1>15, <1>16, <1>17 DEF ViewNext, DownloadStep,
     ServerStep

(* What is announced fits the row. *)
LEMMA NextAnnounced ==
  ASSUME ViewType, Announced, [ViewNext]_viewVars
  PROVE  Announced'
<1>1. CASE CreateDownload
  BY <1>1 DEF ViewType, Announced, Events, CreateDownload, Write, serverVars,
       pageVars
<1>2. CASE CompleteDownload
  BY <1>2 DEF ViewType, Announced, Events, CompleteDownload, Write, Running,
       serverVars, pageVars
<1>3. CASE StopDownload
  BY <1>3 DEF ViewType, Announced, Events, StopDownload, Write, Running,
       serverVars, pageVars
<1>4. CASE DeleteDownload
  BY <1>4 DEF ViewType, Announced, Events, DeleteDownload, Write, Running,
       serverVars, pageVars
<1>5. CASE RetryDownload
  BY <1>5 DEF ViewType, Announced, Events, RetryDownload, Write, serverVars,
       pageVars
<1>6. ASSUME NEW event \in announce, Emit(event) PROVE Announced'
  BY <1>6 DEF ViewType, Announced, Events, Emit, serverVars, pageVars, Send
<1>7. CASE ReadSnapshot
  BY <1>7 DEF ViewType, Announced, Events, ReadSnapshot, rowVars, pageVars
<1>8. CASE SnapshotFails
  BY <1>8 DEF ViewType, Announced, Events, SnapshotFails, rowVars, pageVars
<1>9. CASE SendSnapshot
  BY <1>9 DEF ViewType, Announced, Events, SendSnapshot, rowVars, pageVars,
       Send
<1>10. CASE Connect
  BY <1>10 DEF ViewType, Announced, Events, Connect, rowVars, pageVars
<1>11. CASE ConnectionFails
  BY <1>11 DEF ViewType, Announced, Events, ConnectionFails, rowVars, pageVars,
       Closed
<1>12. CASE ConnectionDies
  BY <1>12 DEF ViewType, Announced, Events, ConnectionDies, rowVars,
       serverVars, pageVars
<1>13. CASE Watchdog
  BY <1>13 DEF ViewType, Announced, Events, Watchdog, rowVars, pageVars, Closed
<1>14. CASE ServerRestarts
  BY <1>14 DEF ViewType, Announced, Events, ServerRestarts, pageVars, Closed
<1>15. CASE Handle
  BY <1>15 DEF ViewType, Announced, Events, Handle, rowVars, serverVars,
       Listed, Removals
<1>16. CASE RemovalDue
  BY <1>16 DEF ViewType, Announced, Events, RemovalDue, rowVars, serverVars
<1>17. CASE UNCHANGED viewVars
  BY <1>17 DEF ViewType, Announced, Events, viewVars, rowVars, serverVars, pageVars
<1>18. QED BY <1>1, <1>2, <1>3, <1>4, <1>5, <1>6, <1>7, <1>8, <1>9, <1>10,
     <1>11, <1>12, <1>13, <1>14, <1>15, <1>16, <1>17 DEF ViewNext, DownloadStep,
     ServerStep

(* The card stays on its way to the page. *)
LEMMA NextPromised ==
  ASSUME ViewType, Wire, Announced, Promised, [ViewNext]_viewVars
  PROVE  Promised'
<1>1. CASE CreateDownload
  BY <1>1 DEF ViewType, Messages, Events, Wire, Announced, Promised, Harmless,
       CreateDownload, Write, serverVars, pageVars
<1>2. CASE CompleteDownload
  BY <1>2 DEF ViewType, Messages, Events, Wire, Announced, Promised, Harmless,
       CompleteDownload, Write, Running, serverVars, pageVars
<1>3. CASE StopDownload
  BY <1>3 DEF ViewType, Messages, Events, Wire, Announced, Promised, Harmless,
       StopDownload, Write, Running, serverVars, pageVars
<1>4. CASE DeleteDownload
  BY <1>4 DEF ViewType, Messages, Events, Wire, Announced, Promised, Harmless,
       DeleteDownload, Write, Running, serverVars, pageVars
<1>5. CASE RetryDownload
  BY <1>5 DEF ViewType, Messages, Events, Wire, Announced, Promised, Harmless,
       RetryDownload, Write, serverVars, pageVars
<1>6. ASSUME NEW event \in announce, Emit(event) PROVE Promised'
  BY <1>6 DEF ViewType, Messages, Events, Wire, Announced, Promised, Harmless,
       Emit, serverVars, pageVars, Send
<1>7. CASE ReadSnapshot
  BY <1>7 DEF ViewType, Messages, Events, Wire, Announced, Promised, Harmless,
       ReadSnapshot, rowVars, pageVars
<1>8. CASE SnapshotFails
  BY <1>8 DEF ViewType, Messages, Events, Wire, Announced, Promised, Harmless,
       SnapshotFails, rowVars, pageVars
<1>9. CASE SendSnapshot
  BY <1>9 DEF ViewType, Messages, Events, Wire, Announced, Promised, Harmless,
       SendSnapshot, rowVars, pageVars, Send
<1>10. CASE Connect
  BY <1>10 DEF ViewType, Messages, Events, Wire, Announced, Promised, Harmless,
       Connect, rowVars, pageVars
<1>11. CASE ConnectionFails
  BY <1>11 DEF ViewType, Messages, Events, Wire, Announced, Promised, Harmless,
       ConnectionFails, rowVars, pageVars, Closed
<1>12. CASE ConnectionDies
  BY <1>12 DEF ViewType, Messages, Events, Wire, Announced, Promised, Harmless,
       ConnectionDies, rowVars, serverVars, pageVars
<1>13. CASE Watchdog
  BY <1>13 DEF ViewType, Messages, Events, Wire, Announced, Promised, Harmless,
       Watchdog, rowVars, pageVars, Closed
<1>14. CASE ServerRestarts
  BY <1>14 DEF ViewType, Messages, Events, Wire, Announced, Promised, Harmless,
       ServerRestarts, pageVars, Closed
<1>15. CASE Handle
  <2> SUFFICES ASSUME row' = "active", link' = "open", ~blind',
                      "created" \notin announce',
                      snapshot' \notin {"asked", "active"}
               PROVE  \/ \E i \in 1 .. Len(pipe') : pipe'[i] = "created" /\ Harmless(i)'
                      \/ (card' \/ cut') /\ Harmless(0)'
    BY DEF Promised, Harmless
  <2>1. /\ pipe \in Seq(Messages) /\ pipe # <<>> /\ pipe' = Tail(pipe)
        /\ row = "active" /\ link = "open" /\ ~blind /\ "created" \notin announce
        /\ snapshot \notin {"asked", "active"}
    BY <1>15 DEF Handle, ViewType, rowVars, serverVars
  <2>2. /\ Len(pipe) \in Nat /\ Len(pipe') = Len(pipe) - 1
        /\ \A k \in 1 .. Len(pipe') : pipe'[k] = pipe[k + 1]
    BY <2>1
  <2>3. \/ \E i \in 1 .. Len(pipe) : pipe[i] = "created" /\ Harmless(i)
        \/ (card \/ cut) /\ Harmless(0)
    BY <2>1 DEF Promised
  <2>4. CASE \E i \in 1 .. Len(pipe) : pipe[i] = "created" /\ Harmless(i)
    <3>1. PICK i \in 1 .. Len(pipe) : pipe[i] = "created" /\ Harmless(i)
      BY <2>4
    <3>2. CASE i = 1
      <4>1. Harmless(0)'
        BY <2>2, <3>1, <3>2 DEF Harmless
      <4>2. Head(pipe) = "created"
        BY <2>1, <3>1, <3>2
      <4>3. card'
        BY <1>15, <4>2 DEF Handle, Listed
      <4>4. QED BY <4>1, <4>3
    <3>3. CASE i # 1
      <4>1. i - 1 \in 1 .. Len(pipe') /\ pipe'[i - 1] = "created"
        BY <2>2, <3>1, <3>3
      <4>2. Harmless(i - 1)'
        BY <2>2, <3>1, <3>3 DEF Harmless
      <4>3. QED BY <4>1, <4>2
    <3>4. QED BY <3>2, <3>3
  <2>5. CASE (card \/ cut) /\ Harmless(0)
    <3>1. Head(pipe) = "ended"
      BY <2>1, <2>2, <2>5 DEF Harmless
    <3>2. Harmless(0)'
      BY <2>2, <2>5 DEF Harmless
    <3>3. card' \/ cut'
      BY <1>15, <2>5, <3>1 DEF Handle, Listed
    <3>4. QED BY <3>2, <3>3
  <2>6. QED BY <2>3, <2>4, <2>5
<1>16. CASE RemovalDue
  BY <1>16 DEF ViewType, Messages, Events, Wire, Announced, Promised, Harmless,
       RemovalDue, rowVars, serverVars
<1>17. CASE UNCHANGED viewVars
  BY <1>17 DEF ViewType, Messages, Events, Wire, Announced, Promised, Harmless,
       viewVars, rowVars, serverVars, pageVars
<1>18. QED BY <1>1, <1>2, <1>3, <1>4, <1>5, <1>6, <1>7, <1>8, <1>9, <1>10,
     <1>11, <1>12, <1>13, <1>14, <1>15, <1>16, <1>17 DEF ViewNext, DownloadStep,
     ServerStep

LEMMA ViewInvHolds == ViewSpec => []ViewInv
<1>1. ViewInv /\ [ViewNext]_viewVars => ViewInv'
  BY NextViewType, NextWire, NextAnnounced, NextPromised DEF ViewInv
<1>2. QED BY <1>1, ViewInitHolds, PTL DEF ViewSpec

(* The types of LiveView hold for any constants: only an open connection
   carries messages, and a closed one is in no registry. *)
THEOREM ViewTypeOKHolds == ViewSpec => []ViewTypeOK
<1>1. ViewInv => ViewTypeOK
  BY DEF ViewInv, ViewType, Wire, ViewTypeOK, Messages
<1>2. QED BY <1>1, ViewInvHolds, PTL

(* However often connections break and the download is retried, a running
   download is on the connected page when nothing is under way to it. *)
THEOREM RunningIsShownHolds == ViewSpec => []RunningIsShown
<1>1. ViewInv => RunningIsShown
  BY DEF ViewInv, ViewType, Promised, RunningIsShown, Settled
<1>2. QED BY <1>1, ViewInvHolds, PTL

=============================================================================
