--------------------------- MODULE CheckChainProofs ---------------------------
(***************************************************************************)
(* Proofs about CheckChain, for any set of rows, any limit of the worker,  *)
(* any number of restarts and any database faults: the type invariant,     *)
(* that the body of a job never overlaps itself, and that a chain is alive.*)
(*                                                                         *)
(* OneBody needs that the name is held while somebody is inside.           *)
(* ChainAlive needs more: it only speaks of moments without a request, but *)
(* a request may cut the chain at any moment.  ChainInv says what must be  *)
(* true all the time: who may delete rows does it to a chain that is to    *)
(* end, and the registry of the scheduler agrees with the settings, so     *)
(* that every handler that ends leaves a link or somebody forging one.     *)
(***************************************************************************)
EXTENDS CheckChain, TLAPS

(* The type invariant in three parts. *)
BaseType ==
  /\ kind \in {"subscription", "system"}
  /\ wanted \in {"on", "off", "gone"}
  /\ row \in [Rows -> {"none", "PENDING", "RUNNING", "closed"}]
  /\ process \in {"down", "booting", "up"}
  /\ known \in BOOLEAN /\ held \in BOOLEAN /\ cooldown \in BOOLEAN
  /\ at \in [Callers -> Stages]
  /\ todo \in [Callers -> SUBSET Rows]
  /\ leaving \in BOOLEAN /\ lost \in BOOLEAN
  /\ crashes \in Nat

(* A click runs the body and nothing else; the other callers have a list
   while they work through it. *)
Lists ==
  /\ \A c \in Callers : todo[c] # {} <=> at[c] \in {"clear", "drop"}
  /\ at[manual] \in {"idle", "enter", "body"}

Down == process = "down" =>
          ~known /\ ~held /\ ~leaving /\ \A c \in Callers : at[c] = "idle"

(* Who is inside holds the name. *)
Holding == \A c \in Callers : at[c] \in {"enter", "body"} => held

(* A row that is being handled is RUNNING, if it has not been deleted. *)
Handled == \A r \in Rows : at[r] # "idle" => row[r] \in {"RUNNING", "none"}

(* Before the worker starts nothing but the start of the process is at work. *)
Booting ==
  process = "booting" => ~leaving /\ \A c \in Callers \ {boot} : at[c] = "idle"

(* The registry says what the settings say, once a change has been answered. *)
Registered ==
  /\ process # "down" /\ kind = "system" /\ at[request] # "settings"
       => (known <=> wanted = "on")
  /\ at[request] = "settings" => kind = "system"
  /\ leaving => kind = "subscription"
  /\ wanted = "gone" => kind = "subscription"

(* Links are taken away only from a chain that is to end. *)
Ending == at[request] \in {"delist", "drop", "purge"} => wanted # "on" \/ leaving

(* What is to go on has a next link, or somebody is at it. *)
Linked ==
  process # "down" /\ wanted = "on" /\ ~leaving /\ ~lost /\ at[request] # "settings"
    => Pending # {} \/ Forging # {}

ChainInv == Handled /\ Booting /\ Registered /\ Ending /\ Linked

IInv == BaseType /\ Lists /\ Down /\ Holding /\ OneBody /\ ChainInv

-----------------------------------------------------------------------------
LEMMA CallersType ==
  /\ Rows \subseteq Callers
  /\ boot \in Callers /\ request \in Callers /\ manual \in Callers
  /\ boot \notin Rows /\ request \notin Rows /\ manual \notin Rows
  /\ boot # request /\ boot # manual /\ request # manual
BY RowsAssumption DEF Callers, Outside, boot, request, manual

LEMMA StageTypes ==
  ASSUME NEW c \in Callers
  PROVE  /\ AfterBody(c) \in {"idle", "read", "list", "done"}
         /\ Over(c) \in {"idle", "done"}
BY DEF AfterBody, Over

LEMMA InitHolds == Init => IInv
<1> SUFFICES ASSUME Init PROVE IInv
  OBVIOUS
<1>1. BaseType
  BY KindsAssumption DEF Init, BaseType, Stages
<1>2. Lists /\ Down /\ Holding /\ OneBody
  BY CallersType DEF Init, Lists, Down, Holding, OneBody, Inside
<1>3. ChainInv
  BY CallersType DEF Init, ChainInv, Handled, Booting, Registered, Ending, Linked
<1>4. QED BY <1>1, <1>2, <1>3 DEF IInv

(* Every step keeps the types. *)
LEMMA NextBaseType ==
  ASSUME BaseType, [Next]_vars
  PROVE  BaseType'
<1>1. CASE Boot
  BY <1>1, CallersType, StageTypes DEF BaseType, Stages, Boot, Go, dbVars
<1>2. CASE StartWorker
  BY <1>2, CallersType, StageTypes DEF BaseType, Stages, StartWorker, memVars,
       callVars
<1>3. CASE Crash
  <2>1. /\ at' \in [Callers -> Stages] /\ todo' \in [Callers -> SUBSET Rows]
        /\ process' = "down"
    BY <1>3 DEF Crash, Dies, Stages
  <2>2. crashes' \in Nat
    BY <1>3 DEF Crash, BaseType
  <2>3. QED BY <1>3, <2>1, <2>2 DEF BaseType, Crash, Dies, dbVars
<1>4. ASSUME NEW r \in Rows, Claim(r) PROVE BaseType'
  BY <1>4, CallersType, StageTypes DEF BaseType, Stages, Claim, Go, procVars
<1>5. ASSUME NEW r \in Rows, Close(r) PROVE BaseType'
  BY <1>5, CallersType, StageTypes DEF BaseType, Stages, Close, Go, memVars,
       procVars
<1>6. ASSUME NEW c \in Callers, EnterBody(c) PROVE BaseType'
  BY <1>6, CallersType, StageTypes DEF BaseType, Stages, EnterBody, Go, dbVars,
       procVars
<1>7. ASSUME NEW c \in Callers, LeaveBody(c) PROVE BaseType'
  BY <1>7, CallersType, StageTypes DEF BaseType, Stages, LeaveBody, Returns,
       Throws, Go, dbVars, procVars
<1>8. ASSUME NEW c \in Callers, ReadSubscription(c) PROVE BaseType'
  BY <1>8, CallersType, StageTypes DEF BaseType, Stages, ReadSubscription, Go,
       dbVars, memVars, procVars
<1>9. ASSUME NEW c \in Callers, ListPending(c) PROVE BaseType'
  BY <1>9, CallersType, StageTypes DEF BaseType, Stages, ListPending, Go,
       dbVars, memVars, procVars, Pending
<1>10. ASSUME NEW c \in Callers, ClearOne(c) PROVE BaseType'
  <2>1. PICK r \in FirstOf(todo[c]) :
          IF row[r] = "none"
          THEN /\ todo' = [todo EXCEPT ![c] = {}]
               /\ at' = [at EXCEPT ![c] = Over(c)]
               /\ row' = row
               /\ lost' = TRUE
          ELSE /\ todo' = [todo EXCEPT ![c] = @ \ {r}]
               /\ at' = [at EXCEPT ![c] = IF todo[c] = {r} THEN "create" ELSE "clear"]
               /\ row' = [row EXCEPT ![r] = "none"]
               /\ lost' = lost
    BY <1>10 DEF ClearOne, Go
  <2>2. r \in Rows
    BY DEF FirstOf, BaseType
  <2>3. /\ at' \in [Callers -> Stages] /\ todo' \in [Callers -> SUBSET Rows]
        /\ row' \in [Rows -> {"none", "PENDING", "RUNNING", "closed"}]
        /\ lost' \in BOOLEAN
    <3>1. CASE row[r] = "none"
      BY <2>1, <2>2, <3>1, StageTypes DEF BaseType, Stages
    <3>2. CASE row[r] # "none"
      BY <2>1, <2>2, <3>2 DEF BaseType, Stages
    <3>3. QED BY <3>1, <3>2
  <2>4. QED BY <1>10, <2>3 DEF BaseType, ClearOne, memVars, procVars
<1>11. ASSUME NEW c \in Callers, CreateRow(c) PROVE BaseType'
  BY <1>11, CallersType, StageTypes DEF BaseType, Stages, CreateRow, Go,
       memVars, procVars
<1>12. ASSUME NEW c \in Callers, EnterFails(c) PROVE BaseType'
  BY <1>12, CallersType, StageTypes DEF BaseType, Stages, EnterFails, Go,
       dbVars, procVars
<1>13. ASSUME NEW c \in Callers, ScheduleFails(c) PROVE BaseType'
  BY <1>13, CallersType, StageTypes DEF BaseType, Stages, ScheduleFails, Go,
       dbVars, memVars, procVars
<1>14. CASE RunByHand
  BY <1>14, CallersType, StageTypes DEF BaseType, Stages, RunByHand, Go,
       dbVars, procVars
<1>15. CASE ArmCooldown
  BY <1>15, CallersType, StageTypes DEF BaseType, Stages, ArmCooldown, dbVars,
       callVars, procVars
<1>16. CASE CooldownLapses
  BY <1>16, CallersType, StageTypes DEF BaseType, Stages, CooldownLapses,
       dbVars, callVars, procVars
<1>17. CASE Enable
  BY <1>17, CallersType, StageTypes DEF BaseType, Stages, Enable, Go, Serving,
       memVars, procVars
<1>18. CASE Disable
  BY <1>18, CallersType, StageTypes DEF BaseType, Stages, Disable, Go, Serving,
       memVars, procVars
<1>19. CASE Unsubscribe
  BY <1>19, CallersType, StageTypes DEF BaseType, Stages, Unsubscribe, Go,
       Serving, dbVars, memVars, procVars
<1>20. CASE Delist
  BY <1>20, CallersType, StageTypes DEF BaseType, Stages, Delist, Go, dbVars,
       memVars, procVars, Pending
<1>21. CASE DropOne
  BY <1>21, CallersType, StageTypes DEF BaseType, Stages, DropOne, Go, FirstOf,
       memVars, procVars
<1>22. CASE DropRejects
  BY <1>22, CallersType, StageTypes DEF BaseType, Stages, DropRejects, Dies,
       dbVars
<1>23. CASE RestartTask
  BY <1>23, CallersType, StageTypes DEF BaseType, Stages, RestartTask, Go,
       dbVars, procVars
<1>24. CASE Purge
  BY <1>24, CallersType, StageTypes DEF BaseType, Stages, Purge, Go, memVars,
       procVars
<1>25. CASE DeleteSubscription
  BY <1>25, CallersType, StageTypes DEF BaseType, Stages, DeleteSubscription,
       memVars, procVars
<1>26. CASE UNCHANGED vars
  BY <1>26 DEF BaseType, Stages, vars, callVars, dbVars, memVars, procVars
<1>27. QED BY <1>1, <1>2, <1>3, <1>4, <1>5, <1>6, <1>7, <1>8, <1>9, <1>10,
     <1>11, <1>12, <1>13, <1>14, <1>15, <1>16, <1>17, <1>18, <1>19, <1>20,
     <1>21, <1>22, <1>23, <1>24, <1>25, <1>26 DEF Next, CallStep, RequestStep

(* A caller has a list while it works through it. *)
LEMMA NextLists ==
  ASSUME BaseType, Lists, Down, [Next]_vars
  PROVE  Lists'
<1>1. CASE Boot
  BY <1>1, CallersType, StageTypes DEF BaseType, Lists, Down, Boot, Go, dbVars
<1>2. CASE StartWorker
  BY <1>2, CallersType, StageTypes DEF BaseType, Lists, Down, StartWorker,
       memVars, callVars
<1>3. CASE Crash
  BY <1>3, CallersType, StageTypes DEF BaseType, Lists, Down, Crash, Dies,
       dbVars
<1>4. ASSUME NEW r \in Rows, Claim(r) PROVE Lists'
  BY <1>4, CallersType, StageTypes DEF BaseType, Lists, Down, Claim, Go,
       procVars
<1>5. ASSUME NEW r \in Rows, Close(r) PROVE Lists'
  BY <1>5, CallersType, StageTypes DEF BaseType, Lists, Down, Close, Go,
       memVars, procVars
<1>6. ASSUME NEW c \in Callers, EnterBody(c) PROVE Lists'
  BY <1>6, CallersType, StageTypes DEF BaseType, Lists, Down, EnterBody, Go,
       dbVars, procVars, AfterBody
<1>7. ASSUME NEW c \in Callers, LeaveBody(c) PROVE Lists'
  BY <1>7, CallersType, StageTypes DEF BaseType, Lists, Down, LeaveBody,
       Returns, Throws, Go, dbVars, procVars, AfterBody
<1>8. ASSUME NEW c \in Callers, ReadSubscription(c) PROVE Lists'
  BY <1>8, CallersType, StageTypes DEF BaseType, Lists, Down, ReadSubscription,
       Go, dbVars, memVars, procVars
<1>9. ASSUME NEW c \in Callers, ListPending(c) PROVE Lists'
  BY <1>9, CallersType, StageTypes DEF BaseType, Lists, Down, ListPending, Go,
       dbVars, memVars, procVars, Pending
<1>10. ASSUME NEW c \in Callers, ClearOne(c) PROVE Lists'
  BY <1>10, CallersType, StageTypes DEF BaseType, Lists, Down, ClearOne, Go,
       FirstOf, memVars, procVars
<1>11. ASSUME NEW c \in Callers, CreateRow(c) PROVE Lists'
  BY <1>11, CallersType, StageTypes DEF BaseType, Lists, Down, CreateRow, Go,
       memVars, procVars
<1>12. ASSUME NEW c \in Callers, EnterFails(c) PROVE Lists'
  BY <1>12, CallersType, StageTypes DEF BaseType, Lists, Down, EnterFails, Go,
       dbVars, procVars, AfterBody
<1>13. ASSUME NEW c \in Callers, ScheduleFails(c) PROVE Lists'
  BY <1>13, CallersType, StageTypes DEF BaseType, Lists, Down, ScheduleFails,
       Go, dbVars, memVars, procVars
<1>14. CASE RunByHand
  BY <1>14, CallersType, StageTypes DEF BaseType, Lists, Down, RunByHand, Go,
       dbVars, procVars
<1>15. CASE ArmCooldown
  BY <1>15, CallersType, StageTypes DEF BaseType, Lists, Down, ArmCooldown,
       dbVars, callVars, procVars
<1>16. CASE CooldownLapses
  BY <1>16, CallersType, StageTypes DEF BaseType, Lists, Down, CooldownLapses,
       dbVars, callVars, procVars
<1>17. CASE Enable
  BY <1>17, CallersType, StageTypes DEF BaseType, Lists, Down, Enable, Go,
       Serving, memVars, procVars
<1>18. CASE Disable
  BY <1>18, CallersType, StageTypes DEF BaseType, Lists, Down, Disable, Go,
       Serving, memVars, procVars
<1>19. CASE Unsubscribe
  BY <1>19, CallersType, StageTypes DEF BaseType, Lists, Down, Unsubscribe, Go,
       Serving, dbVars, memVars, procVars
<1>20. CASE Delist
  BY <1>20, CallersType, StageTypes DEF BaseType, Lists, Down, Delist, Go,
       dbVars, memVars, procVars, Pending
<1>21. CASE DropOne
  BY <1>21, CallersType, StageTypes DEF BaseType, Lists, Down, DropOne, Go,
       FirstOf, memVars, procVars
<1>22. CASE DropRejects
  BY <1>22, CallersType, StageTypes DEF BaseType, Lists, Down, DropRejects,
       Dies, dbVars
<1>23. CASE RestartTask
  BY <1>23, CallersType, StageTypes DEF BaseType, Lists, Down, RestartTask, Go,
       dbVars, procVars
<1>24. CASE Purge
  BY <1>24, CallersType, StageTypes DEF BaseType, Lists, Down, Purge, Go,
       memVars, procVars
<1>25. CASE DeleteSubscription
  BY <1>25, CallersType, StageTypes DEF BaseType, Lists, Down,
       DeleteSubscription, memVars, procVars
<1>26. CASE UNCHANGED vars
  BY <1>26 DEF BaseType, Lists, Down, vars, callVars, dbVars, memVars, procVars
<1>27. QED BY <1>1, <1>2, <1>3, <1>4, <1>5, <1>6, <1>7, <1>8, <1>9, <1>10,
     <1>11, <1>12, <1>13, <1>14, <1>15, <1>16, <1>17, <1>18, <1>19, <1>20,
     <1>21, <1>22, <1>23, <1>24, <1>25, <1>26 DEF Next, CallStep, RequestStep

(* A dead process does nothing. *)
LEMMA NextDown ==
  ASSUME BaseType, Down, [Next]_vars
  PROVE  Down'
<1>1. CASE Boot
  BY <1>1, CallersType DEF BaseType, Down, Boot, Go, dbVars
<1>2. CASE StartWorker
  BY <1>2, CallersType DEF BaseType, Down, StartWorker, memVars, callVars
<1>3. CASE Crash
  BY <1>3, CallersType DEF BaseType, Down, Crash, Dies, dbVars
<1>4. ASSUME NEW r \in Rows, Claim(r) PROVE Down'
  BY <1>4, CallersType DEF BaseType, Down, Claim, Go, procVars
<1>5. ASSUME NEW r \in Rows, Close(r) PROVE Down'
  BY <1>5, CallersType DEF BaseType, Down, Close, Go, memVars, procVars
<1>6. ASSUME NEW c \in Callers, EnterBody(c) PROVE Down'
  BY <1>6, CallersType DEF BaseType, Down, EnterBody, Go, dbVars, procVars
<1>7. ASSUME NEW c \in Callers, LeaveBody(c) PROVE Down'
  BY <1>7, CallersType DEF BaseType, Down, LeaveBody, Returns, Throws, Go,
       dbVars, procVars
<1>8. ASSUME NEW c \in Callers, ReadSubscription(c) PROVE Down'
  BY <1>8, CallersType DEF BaseType, Down, ReadSubscription, Go, dbVars,
       memVars, procVars
<1>9. ASSUME NEW c \in Callers, ListPending(c) PROVE Down'
  BY <1>9, CallersType DEF BaseType, Down, ListPending, Go, dbVars, memVars,
       procVars
<1>10. ASSUME NEW c \in Callers, ClearOne(c) PROVE Down'
  BY <1>10, CallersType DEF BaseType, Down, ClearOne, Go, FirstOf, memVars,
       procVars
<1>11. ASSUME NEW c \in Callers, CreateRow(c) PROVE Down'
  BY <1>11, CallersType DEF BaseType, Down, CreateRow, Go, memVars, procVars
<1>12. ASSUME NEW c \in Callers, EnterFails(c) PROVE Down'
  BY <1>12, CallersType DEF BaseType, Down, EnterFails, Go, dbVars, procVars
<1>13. ASSUME NEW c \in Callers, ScheduleFails(c) PROVE Down'
  BY <1>13, CallersType DEF BaseType, Down, ScheduleFails, Go, dbVars, memVars,
       procVars
<1>14. CASE RunByHand
  BY <1>14, CallersType DEF BaseType, Down, RunByHand, Go, dbVars, procVars
<1>15. CASE ArmCooldown
  BY <1>15, CallersType DEF BaseType, Down, ArmCooldown, dbVars, callVars,
       procVars
<1>16. CASE CooldownLapses
  BY <1>16, CallersType DEF BaseType, Down, CooldownLapses, dbVars, callVars,
       procVars
<1>17. CASE Enable
  BY <1>17, CallersType DEF BaseType, Down, Enable, Go, Serving, memVars,
       procVars
<1>18. CASE Disable
  BY <1>18, CallersType DEF BaseType, Down, Disable, Go, Serving, memVars,
       procVars
<1>19. CASE Unsubscribe
  BY <1>19, CallersType DEF BaseType, Down, Unsubscribe, Go, Serving, dbVars,
       memVars, procVars
<1>20. CASE Delist
  BY <1>20, CallersType DEF BaseType, Down, Delist, Go, dbVars, memVars,
       procVars
<1>21. CASE DropOne
  BY <1>21, CallersType DEF BaseType, Down, DropOne, Go, FirstOf, memVars,
       procVars
<1>22. CASE DropRejects
  BY <1>22, CallersType DEF BaseType, Down, DropRejects, Dies, dbVars
<1>23. CASE RestartTask
  BY <1>23, CallersType DEF BaseType, Down, RestartTask, Go, dbVars, procVars
<1>24. CASE Purge
  BY <1>24, CallersType DEF BaseType, Down, Purge, Go, memVars, procVars
<1>25. CASE DeleteSubscription
  BY <1>25, CallersType DEF BaseType, Down, DeleteSubscription, memVars,
       procVars
<1>26. CASE UNCHANGED vars
  BY <1>26 DEF BaseType, Down, vars, callVars, dbVars, memVars, procVars
<1>27. QED BY <1>1, <1>2, <1>3, <1>4, <1>5, <1>6, <1>7, <1>8, <1>9, <1>10,
     <1>11, <1>12, <1>13, <1>14, <1>15, <1>16, <1>17, <1>18, <1>19, <1>20,
     <1>21, <1>22, <1>23, <1>24, <1>25, <1>26 DEF Next, CallStep, RequestStep

(* The name is held by whoever is inside. *)
LEMMA NextHolding ==
  ASSUME BaseType, Holding, OneBody, [Next]_vars
  PROVE  Holding'
<1>1. CASE Boot
  BY <1>1, CallersType, StageTypes DEF BaseType, Holding, OneBody, Inside,
       Boot, Go, dbVars
<1>2. CASE StartWorker
  BY <1>2, CallersType, StageTypes DEF BaseType, Holding, OneBody, Inside,
       StartWorker, memVars, callVars
<1>3. CASE Crash
  BY <1>3, CallersType, StageTypes DEF BaseType, Holding, OneBody, Inside,
       Crash, Dies, dbVars
<1>4. ASSUME NEW r \in Rows, Claim(r) PROVE Holding'
  BY <1>4, CallersType, StageTypes DEF BaseType, Holding, OneBody, Inside,
       Claim, Go, procVars
<1>5. ASSUME NEW r \in Rows, Close(r) PROVE Holding'
  BY <1>5, CallersType, StageTypes DEF BaseType, Holding, OneBody, Inside,
       Close, Go, memVars, procVars
<1>6. ASSUME NEW c \in Callers, EnterBody(c) PROVE Holding'
  BY <1>6, CallersType, StageTypes DEF BaseType, Holding, OneBody, Inside,
       EnterBody, Go, dbVars, procVars
<1>7. ASSUME NEW c \in Callers, LeaveBody(c) PROVE Holding'
  BY <1>7, CallersType, StageTypes DEF BaseType, Holding, OneBody, Inside,
       LeaveBody, Returns, Throws, Go, dbVars, procVars
<1>8. ASSUME NEW c \in Callers, ReadSubscription(c) PROVE Holding'
  BY <1>8, CallersType, StageTypes DEF BaseType, Holding, OneBody, Inside,
       ReadSubscription, Go, dbVars, memVars, procVars
<1>9. ASSUME NEW c \in Callers, ListPending(c) PROVE Holding'
  BY <1>9, CallersType, StageTypes DEF BaseType, Holding, OneBody, Inside,
       ListPending, Go, dbVars, memVars, procVars
<1>10. ASSUME NEW c \in Callers, ClearOne(c) PROVE Holding'
  BY <1>10, CallersType, StageTypes DEF BaseType, Holding, OneBody, Inside,
       ClearOne, Go, FirstOf, memVars, procVars
<1>11. ASSUME NEW c \in Callers, CreateRow(c) PROVE Holding'
  BY <1>11, CallersType, StageTypes DEF BaseType, Holding, OneBody, Inside,
       CreateRow, Go, memVars, procVars
<1>12. ASSUME NEW c \in Callers, EnterFails(c) PROVE Holding'
  BY <1>12, CallersType, StageTypes DEF BaseType, Holding, OneBody, Inside,
       EnterFails, Go, dbVars, procVars
<1>13. ASSUME NEW c \in Callers, ScheduleFails(c) PROVE Holding'
  BY <1>13, CallersType, StageTypes DEF BaseType, Holding, OneBody, Inside,
       ScheduleFails, Go, dbVars, memVars, procVars
<1>14. CASE RunByHand
  BY <1>14, CallersType, StageTypes DEF BaseType, Holding, OneBody, Inside,
       RunByHand, Go, dbVars, procVars
<1>15. CASE ArmCooldown
  BY <1>15, CallersType, StageTypes DEF BaseType, Holding, OneBody, Inside,
       ArmCooldown, dbVars, callVars, procVars
<1>16. CASE CooldownLapses
  BY <1>16, CallersType, StageTypes DEF BaseType, Holding, OneBody, Inside,
       CooldownLapses, dbVars, callVars, procVars
<1>17. CASE Enable
  BY <1>17, CallersType, StageTypes DEF BaseType, Holding, OneBody, Inside,
       Enable, Go, Serving, memVars, procVars
<1>18. CASE Disable
  BY <1>18, CallersType, StageTypes DEF BaseType, Holding, OneBody, Inside,
       Disable, Go, Serving, memVars, procVars
<1>19. CASE Unsubscribe
  BY <1>19, CallersType, StageTypes DEF BaseType, Holding, OneBody, Inside,
       Unsubscribe, Go, Serving, dbVars, memVars, procVars
<1>20. CASE Delist
  BY <1>20, CallersType, StageTypes DEF BaseType, Holding, OneBody, Inside,
       Delist, Go, dbVars, memVars, procVars
<1>21. CASE DropOne
  BY <1>21, CallersType, StageTypes DEF BaseType, Holding, OneBody, Inside,
       DropOne, Go, FirstOf, memVars, procVars
<1>22. CASE DropRejects
  BY <1>22, CallersType, StageTypes DEF BaseType, Holding, OneBody, Inside,
       DropRejects, Dies, dbVars
<1>23. CASE RestartTask
  BY <1>23, CallersType, StageTypes DEF BaseType, Holding, OneBody, Inside,
       RestartTask, Go, dbVars, procVars
<1>24. CASE Purge
  BY <1>24, CallersType, StageTypes DEF BaseType, Holding, OneBody, Inside,
       Purge, Go, memVars, procVars
<1>25. CASE DeleteSubscription
  BY <1>25, CallersType, StageTypes DEF BaseType, Holding, OneBody, Inside,
       DeleteSubscription, memVars, procVars
<1>26. CASE UNCHANGED vars
  BY <1>26 DEF BaseType, Holding, OneBody, Inside, vars, callVars, dbVars,
       memVars, procVars
<1>27. QED BY <1>1, <1>2, <1>3, <1>4, <1>5, <1>6, <1>7, <1>8, <1>9, <1>10,
     <1>11, <1>12, <1>13, <1>14, <1>15, <1>16, <1>17, <1>18, <1>19, <1>20,
     <1>21, <1>22, <1>23, <1>24, <1>25, <1>26 DEF Next, CallStep, RequestStep

(* Nobody enters while the name is held. *)
LEMMA NextOneBody ==
  ASSUME BaseType, Holding, OneBody, [Next]_vars
  PROVE  OneBody'
<1>1. CASE Boot
  BY <1>1, CallersType, StageTypes DEF BaseType, Holding, OneBody, Inside,
       Boot, Go, dbVars
<1>2. CASE StartWorker
  BY <1>2, CallersType, StageTypes DEF BaseType, Holding, OneBody, Inside,
       StartWorker, memVars, callVars
<1>3. CASE Crash
  BY <1>3, CallersType, StageTypes DEF BaseType, Holding, OneBody, Inside,
       Crash, Dies, dbVars
<1>4. ASSUME NEW r \in Rows, Claim(r) PROVE OneBody'
  BY <1>4, CallersType, StageTypes DEF BaseType, Holding, OneBody, Inside,
       Claim, Go, procVars
<1>5. ASSUME NEW r \in Rows, Close(r) PROVE OneBody'
  BY <1>5, CallersType, StageTypes DEF BaseType, Holding, OneBody, Inside,
       Close, Go, memVars, procVars
<1>6. ASSUME NEW c \in Callers, EnterBody(c) PROVE OneBody'
  BY <1>6, CallersType, StageTypes DEF BaseType, Holding, OneBody, Inside,
       EnterBody, Go, dbVars, procVars
<1>7. ASSUME NEW c \in Callers, LeaveBody(c) PROVE OneBody'
  BY <1>7, CallersType, StageTypes DEF BaseType, Holding, OneBody, Inside,
       LeaveBody, Returns, Throws, Go, dbVars, procVars
<1>8. ASSUME NEW c \in Callers, ReadSubscription(c) PROVE OneBody'
  BY <1>8, CallersType, StageTypes DEF BaseType, Holding, OneBody, Inside,
       ReadSubscription, Go, dbVars, memVars, procVars
<1>9. ASSUME NEW c \in Callers, ListPending(c) PROVE OneBody'
  BY <1>9, CallersType, StageTypes DEF BaseType, Holding, OneBody, Inside,
       ListPending, Go, dbVars, memVars, procVars
<1>10. ASSUME NEW c \in Callers, ClearOne(c) PROVE OneBody'
  BY <1>10, CallersType, StageTypes DEF BaseType, Holding, OneBody, Inside,
       ClearOne, Go, FirstOf, memVars, procVars
<1>11. ASSUME NEW c \in Callers, CreateRow(c) PROVE OneBody'
  BY <1>11, CallersType, StageTypes DEF BaseType, Holding, OneBody, Inside,
       CreateRow, Go, memVars, procVars
<1>12. ASSUME NEW c \in Callers, EnterFails(c) PROVE OneBody'
  BY <1>12, CallersType, StageTypes DEF BaseType, Holding, OneBody, Inside,
       EnterFails, Go, dbVars, procVars
<1>13. ASSUME NEW c \in Callers, ScheduleFails(c) PROVE OneBody'
  BY <1>13, CallersType, StageTypes DEF BaseType, Holding, OneBody, Inside,
       ScheduleFails, Go, dbVars, memVars, procVars
<1>14. CASE RunByHand
  BY <1>14, CallersType, StageTypes DEF BaseType, Holding, OneBody, Inside,
       RunByHand, Go, dbVars, procVars
<1>15. CASE ArmCooldown
  BY <1>15, CallersType, StageTypes DEF BaseType, Holding, OneBody, Inside,
       ArmCooldown, dbVars, callVars, procVars
<1>16. CASE CooldownLapses
  BY <1>16, CallersType, StageTypes DEF BaseType, Holding, OneBody, Inside,
       CooldownLapses, dbVars, callVars, procVars
<1>17. CASE Enable
  BY <1>17, CallersType, StageTypes DEF BaseType, Holding, OneBody, Inside,
       Enable, Go, Serving, memVars, procVars
<1>18. CASE Disable
  BY <1>18, CallersType, StageTypes DEF BaseType, Holding, OneBody, Inside,
       Disable, Go, Serving, memVars, procVars
<1>19. CASE Unsubscribe
  BY <1>19, CallersType, StageTypes DEF BaseType, Holding, OneBody, Inside,
       Unsubscribe, Go, Serving, dbVars, memVars, procVars
<1>20. CASE Delist
  BY <1>20, CallersType, StageTypes DEF BaseType, Holding, OneBody, Inside,
       Delist, Go, dbVars, memVars, procVars
<1>21. CASE DropOne
  BY <1>21, CallersType, StageTypes DEF BaseType, Holding, OneBody, Inside,
       DropOne, Go, FirstOf, memVars, procVars
<1>22. CASE DropRejects
  BY <1>22, CallersType, StageTypes DEF BaseType, Holding, OneBody, Inside,
       DropRejects, Dies, dbVars
<1>23. CASE RestartTask
  BY <1>23, CallersType, StageTypes DEF BaseType, Holding, OneBody, Inside,
       RestartTask, Go, dbVars, procVars
<1>24. CASE Purge
  BY <1>24, CallersType, StageTypes DEF BaseType, Holding, OneBody, Inside,
       Purge, Go, memVars, procVars
<1>25. CASE DeleteSubscription
  BY <1>25, CallersType, StageTypes DEF BaseType, Holding, OneBody, Inside,
       DeleteSubscription, memVars, procVars
<1>26. CASE UNCHANGED vars
  BY <1>26 DEF BaseType, Holding, OneBody, Inside, vars, callVars, dbVars,
       memVars, procVars
<1>27. QED BY <1>1, <1>2, <1>3, <1>4, <1>5, <1>6, <1>7, <1>8, <1>9, <1>10,
     <1>11, <1>12, <1>13, <1>14, <1>15, <1>16, <1>17, <1>18, <1>19, <1>20,
     <1>21, <1>22, <1>23, <1>24, <1>25, <1>26 DEF Next, CallStep, RequestStep

(* A handled row changes hands only when its handler is over. *)
LEMMA NextHandled ==
  ASSUME BaseType, Down, Booting, Handled, [Next]_vars
  PROVE  Handled'
<1>1. CASE Boot
  BY <1>1, CallersType, StageTypes DEF BaseType, Down, Booting, Handled, Boot,
       Go, dbVars
<1>2. CASE StartWorker
  BY <1>2, CallersType, StageTypes DEF BaseType, Down, Booting, Handled,
       StartWorker, memVars, callVars
<1>3. CASE Crash
  BY <1>3, CallersType, StageTypes DEF BaseType, Down, Booting, Handled, Crash,
       Dies, dbVars
<1>4. ASSUME NEW r \in Rows, Claim(r) PROVE Handled'
  BY <1>4, CallersType, StageTypes DEF BaseType, Down, Booting, Handled, Claim,
       Go, procVars, Pending
<1>5. ASSUME NEW r \in Rows, Close(r) PROVE Handled'
  BY <1>5, CallersType, StageTypes DEF BaseType, Down, Booting, Handled, Close,
       Go, memVars, procVars
<1>6. ASSUME NEW c \in Callers, EnterBody(c) PROVE Handled'
  BY <1>6, CallersType, StageTypes DEF BaseType, Down, Booting, Handled,
       EnterBody, Go, dbVars, procVars
<1>7. ASSUME NEW c \in Callers, LeaveBody(c) PROVE Handled'
  BY <1>7, CallersType, StageTypes DEF BaseType, Down, Booting, Handled,
       LeaveBody, Returns, Throws, Go, dbVars, procVars
<1>8. ASSUME NEW c \in Callers, ReadSubscription(c) PROVE Handled'
  BY <1>8, CallersType, StageTypes DEF BaseType, Down, Booting, Handled,
       ReadSubscription, Go, dbVars, memVars, procVars
<1>9. ASSUME NEW c \in Callers, ListPending(c) PROVE Handled'
  BY <1>9, CallersType, StageTypes DEF BaseType, Down, Booting, Handled,
       ListPending, Go, dbVars, memVars, procVars, Pending
<1>10. ASSUME NEW c \in Callers, ClearOne(c) PROVE Handled'
  BY <1>10, CallersType, StageTypes DEF BaseType, Down, Booting, Handled,
       ClearOne, Go, FirstOf, memVars, procVars
<1>11. ASSUME NEW c \in Callers, CreateRow(c) PROVE Handled'
  BY <1>11, CallersType, StageTypes DEF BaseType, Down, Booting, Handled,
       CreateRow, Go, memVars, procVars, Fresh
<1>12. ASSUME NEW c \in Callers, EnterFails(c) PROVE Handled'
  BY <1>12, CallersType, StageTypes DEF BaseType, Down, Booting, Handled,
       EnterFails, Go, dbVars, procVars
<1>13. ASSUME NEW c \in Callers, ScheduleFails(c) PROVE Handled'
  BY <1>13, CallersType, StageTypes DEF BaseType, Down, Booting, Handled,
       ScheduleFails, Go, dbVars, memVars, procVars
<1>14. CASE RunByHand
  BY <1>14, CallersType, StageTypes DEF BaseType, Down, Booting, Handled,
       RunByHand, Go, dbVars, procVars
<1>15. CASE ArmCooldown
  BY <1>15, CallersType, StageTypes DEF BaseType, Down, Booting, Handled,
       ArmCooldown, dbVars, callVars, procVars
<1>16. CASE CooldownLapses
  BY <1>16, CallersType, StageTypes DEF BaseType, Down, Booting, Handled,
       CooldownLapses, dbVars, callVars, procVars
<1>17. CASE Enable
  BY <1>17, CallersType, StageTypes DEF BaseType, Down, Booting, Handled,
       Enable, Go, Serving, memVars, procVars
<1>18. CASE Disable
  BY <1>18, CallersType, StageTypes DEF BaseType, Down, Booting, Handled,
       Disable, Go, Serving, memVars, procVars
<1>19. CASE Unsubscribe
  BY <1>19, CallersType, StageTypes DEF BaseType, Down, Booting, Handled,
       Unsubscribe, Go, Serving, dbVars, memVars, procVars
<1>20. CASE Delist
  BY <1>20, CallersType, StageTypes DEF BaseType, Down, Booting, Handled,
       Delist, Go, dbVars, memVars, procVars, Pending
<1>21. CASE DropOne
  BY <1>21, CallersType, StageTypes DEF BaseType, Down, Booting, Handled,
       DropOne, Go, FirstOf, memVars, procVars
<1>22. CASE DropRejects
  BY <1>22, CallersType, StageTypes DEF BaseType, Down, Booting, Handled,
       DropRejects, Dies, dbVars
<1>23. CASE RestartTask
  BY <1>23, CallersType, StageTypes DEF BaseType, Down, Booting, Handled,
       RestartTask, Go, dbVars, procVars
<1>24. CASE Purge
  BY <1>24, CallersType, StageTypes DEF BaseType, Down, Booting, Handled,
       Purge, Go, memVars, procVars
<1>25. CASE DeleteSubscription
  BY <1>25, CallersType, StageTypes DEF BaseType, Down, Booting, Handled,
       DeleteSubscription, memVars, procVars
<1>26. CASE UNCHANGED vars
  BY <1>26 DEF BaseType, Down, Booting, Handled, vars, callVars, dbVars,
       memVars, procVars
<1>27. QED BY <1>1, <1>2, <1>3, <1>4, <1>5, <1>6, <1>7, <1>8, <1>9, <1>10,
     <1>11, <1>12, <1>13, <1>14, <1>15, <1>16, <1>17, <1>18, <1>19, <1>20,
     <1>21, <1>22, <1>23, <1>24, <1>25, <1>26 DEF Next, CallStep, RequestStep

(* The start is alone. *)
LEMMA NextBooting ==
  ASSUME BaseType, Down, Booting, [Next]_vars
  PROVE  Booting'
<1>1. CASE Boot
  BY <1>1, CallersType, StageTypes DEF BaseType, Down, Booting, Boot, Go,
       dbVars
<1>2. CASE StartWorker
  BY <1>2, CallersType, StageTypes DEF BaseType, Down, Booting, StartWorker,
       memVars, callVars
<1>3. CASE Crash
  BY <1>3, CallersType, StageTypes DEF BaseType, Down, Booting, Crash, Dies,
       dbVars
<1>4. ASSUME NEW r \in Rows, Claim(r) PROVE Booting'
  BY <1>4, CallersType, StageTypes DEF BaseType, Down, Booting, Claim, Go,
       procVars
<1>5. ASSUME NEW r \in Rows, Close(r) PROVE Booting'
  BY <1>5, CallersType, StageTypes DEF BaseType, Down, Booting, Close, Go,
       memVars, procVars
<1>6. ASSUME NEW c \in Callers, EnterBody(c) PROVE Booting'
  BY <1>6, CallersType, StageTypes DEF BaseType, Down, Booting, EnterBody, Go,
       dbVars, procVars
<1>7. ASSUME NEW c \in Callers, LeaveBody(c) PROVE Booting'
  BY <1>7, CallersType, StageTypes DEF BaseType, Down, Booting, LeaveBody,
       Returns, Throws, Go, dbVars, procVars
<1>8. ASSUME NEW c \in Callers, ReadSubscription(c) PROVE Booting'
  BY <1>8, CallersType, StageTypes DEF BaseType, Down, Booting,
       ReadSubscription, Go, dbVars, memVars, procVars
<1>9. ASSUME NEW c \in Callers, ListPending(c) PROVE Booting'
  BY <1>9, CallersType, StageTypes DEF BaseType, Down, Booting, ListPending,
       Go, dbVars, memVars, procVars
<1>10. ASSUME NEW c \in Callers, ClearOne(c) PROVE Booting'
  BY <1>10, CallersType, StageTypes DEF BaseType, Down, Booting, ClearOne, Go,
       FirstOf, memVars, procVars
<1>11. ASSUME NEW c \in Callers, CreateRow(c) PROVE Booting'
  BY <1>11, CallersType, StageTypes DEF BaseType, Down, Booting, CreateRow, Go,
       memVars, procVars
<1>12. ASSUME NEW c \in Callers, EnterFails(c) PROVE Booting'
  BY <1>12, CallersType, StageTypes DEF BaseType, Down, Booting, EnterFails,
       Go, dbVars, procVars
<1>13. ASSUME NEW c \in Callers, ScheduleFails(c) PROVE Booting'
  BY <1>13, CallersType, StageTypes DEF BaseType, Down, Booting, ScheduleFails,
       Go, dbVars, memVars, procVars
<1>14. CASE RunByHand
  BY <1>14, CallersType, StageTypes DEF BaseType, Down, Booting, RunByHand, Go,
       dbVars, procVars
<1>15. CASE ArmCooldown
  BY <1>15, CallersType, StageTypes DEF BaseType, Down, Booting, ArmCooldown,
       dbVars, callVars, procVars
<1>16. CASE CooldownLapses
  BY <1>16, CallersType, StageTypes DEF BaseType, Down, Booting,
       CooldownLapses, dbVars, callVars, procVars
<1>17. CASE Enable
  BY <1>17, CallersType, StageTypes DEF BaseType, Down, Booting, Enable, Go,
       Serving, memVars, procVars
<1>18. CASE Disable
  BY <1>18, CallersType, StageTypes DEF BaseType, Down, Booting, Disable, Go,
       Serving, memVars, procVars
<1>19. CASE Unsubscribe
  BY <1>19, CallersType, StageTypes DEF BaseType, Down, Booting, Unsubscribe,
       Go, Serving, dbVars, memVars, procVars
<1>20. CASE Delist
  BY <1>20, CallersType, StageTypes DEF BaseType, Down, Booting, Delist, Go,
       dbVars, memVars, procVars
<1>21. CASE DropOne
  BY <1>21, CallersType, StageTypes DEF BaseType, Down, Booting, DropOne, Go,
       FirstOf, memVars, procVars
<1>22. CASE DropRejects
  BY <1>22, CallersType, StageTypes DEF BaseType, Down, Booting, DropRejects,
       Dies, dbVars
<1>23. CASE RestartTask
  BY <1>23, CallersType, StageTypes DEF BaseType, Down, Booting, RestartTask,
       Go, dbVars, procVars
<1>24. CASE Purge
  BY <1>24, CallersType, StageTypes DEF BaseType, Down, Booting, Purge, Go,
       memVars, procVars
<1>25. CASE DeleteSubscription
  BY <1>25, CallersType, StageTypes DEF BaseType, Down, Booting,
       DeleteSubscription, memVars, procVars
<1>26. CASE UNCHANGED vars
  BY <1>26 DEF BaseType, Down, Booting, vars, callVars, dbVars, memVars,
       procVars
<1>27. QED BY <1>1, <1>2, <1>3, <1>4, <1>5, <1>6, <1>7, <1>8, <1>9, <1>10,
     <1>11, <1>12, <1>13, <1>14, <1>15, <1>16, <1>17, <1>18, <1>19, <1>20,
     <1>21, <1>22, <1>23, <1>24, <1>25, <1>26 DEF Next, CallStep, RequestStep

(* The registry follows the settings. *)
LEMMA NextRegistered ==
  ASSUME BaseType, Down, Booting, Registered, [Next]_vars
  PROVE  Registered'
<1>1. CASE Boot
  BY <1>1, CallersType, StageTypes DEF BaseType, Down, Booting, Registered,
       Boot, Go, dbVars
<1>2. CASE StartWorker
  BY <1>2, CallersType, StageTypes DEF BaseType, Down, Booting, Registered,
       StartWorker, memVars, callVars
<1>3. CASE Crash
  BY <1>3, CallersType, StageTypes DEF BaseType, Down, Booting, Registered,
       Crash, Dies, dbVars
<1>4. ASSUME NEW r \in Rows, Claim(r) PROVE Registered'
  BY <1>4, CallersType, StageTypes DEF BaseType, Down, Booting, Registered,
       Claim, Go, procVars
<1>5. ASSUME NEW r \in Rows, Close(r) PROVE Registered'
  BY <1>5, CallersType, StageTypes DEF BaseType, Down, Booting, Registered,
       Close, Go, memVars, procVars
<1>6. ASSUME NEW c \in Callers, EnterBody(c) PROVE Registered'
  BY <1>6, CallersType, StageTypes DEF BaseType, Down, Booting, Registered,
       EnterBody, Go, dbVars, procVars
<1>7. ASSUME NEW c \in Callers, LeaveBody(c) PROVE Registered'
  BY <1>7, CallersType, StageTypes DEF BaseType, Down, Booting, Registered,
       LeaveBody, Returns, Throws, Go, dbVars, procVars
<1>8. ASSUME NEW c \in Callers, ReadSubscription(c) PROVE Registered'
  BY <1>8, CallersType, StageTypes DEF BaseType, Down, Booting, Registered,
       ReadSubscription, Go, dbVars, memVars, procVars
<1>9. ASSUME NEW c \in Callers, ListPending(c) PROVE Registered'
  BY <1>9, CallersType, StageTypes DEF BaseType, Down, Booting, Registered,
       ListPending, Go, dbVars, memVars, procVars
<1>10. ASSUME NEW c \in Callers, ClearOne(c) PROVE Registered'
  BY <1>10, CallersType, StageTypes DEF BaseType, Down, Booting, Registered,
       ClearOne, Go, FirstOf, memVars, procVars
<1>11. ASSUME NEW c \in Callers, CreateRow(c) PROVE Registered'
  BY <1>11, CallersType, StageTypes DEF BaseType, Down, Booting, Registered,
       CreateRow, Go, memVars, procVars
<1>12. ASSUME NEW c \in Callers, EnterFails(c) PROVE Registered'
  BY <1>12, CallersType, StageTypes DEF BaseType, Down, Booting, Registered,
       EnterFails, Go, dbVars, procVars
<1>13. ASSUME NEW c \in Callers, ScheduleFails(c) PROVE Registered'
  BY <1>13, CallersType, StageTypes DEF BaseType, Down, Booting, Registered,
       ScheduleFails, Go, dbVars, memVars, procVars
<1>14. CASE RunByHand
  BY <1>14, CallersType, StageTypes DEF BaseType, Down, Booting, Registered,
       RunByHand, Go, dbVars, procVars
<1>15. CASE ArmCooldown
  BY <1>15, CallersType, StageTypes DEF BaseType, Down, Booting, Registered,
       ArmCooldown, dbVars, callVars, procVars
<1>16. CASE CooldownLapses
  BY <1>16, CallersType, StageTypes DEF BaseType, Down, Booting, Registered,
       CooldownLapses, dbVars, callVars, procVars
<1>17. CASE Enable
  BY <1>17, CallersType, StageTypes DEF BaseType, Down, Booting, Registered,
       Enable, Go, Serving, memVars, procVars
<1>18. CASE Disable
  BY <1>18, CallersType, StageTypes DEF BaseType, Down, Booting, Registered,
       Disable, Go, Serving, memVars, procVars
<1>19. CASE Unsubscribe
  BY <1>19, CallersType, StageTypes DEF BaseType, Down, Booting, Registered,
       Unsubscribe, Go, Serving, dbVars, memVars, procVars
<1>20. CASE Delist
  BY <1>20, CallersType, StageTypes DEF BaseType, Down, Booting, Registered,
       Delist, Go, dbVars, memVars, procVars
<1>21. CASE DropOne
  BY <1>21, CallersType, StageTypes DEF BaseType, Down, Booting, Registered,
       DropOne, Go, FirstOf, memVars, procVars
<1>22. CASE DropRejects
  BY <1>22, CallersType, StageTypes DEF BaseType, Down, Booting, Registered,
       DropRejects, Dies, dbVars
<1>23. CASE RestartTask
  BY <1>23, CallersType, StageTypes DEF BaseType, Down, Booting, Registered,
       RestartTask, Go, dbVars, procVars
<1>24. CASE Purge
  BY <1>24, CallersType, StageTypes DEF BaseType, Down, Booting, Registered,
       Purge, Go, memVars, procVars
<1>25. CASE DeleteSubscription
  BY <1>25, CallersType, StageTypes DEF BaseType, Down, Booting, Registered,
       DeleteSubscription, memVars, procVars
<1>26. CASE UNCHANGED vars
  BY <1>26 DEF BaseType, Down, Booting, Registered, vars, callVars, dbVars,
       memVars, procVars
<1>27. QED BY <1>1, <1>2, <1>3, <1>4, <1>5, <1>6, <1>7, <1>8, <1>9, <1>10,
     <1>11, <1>12, <1>13, <1>14, <1>15, <1>16, <1>17, <1>18, <1>19, <1>20,
     <1>21, <1>22, <1>23, <1>24, <1>25, <1>26 DEF Next, CallStep, RequestStep

(* What takes links away was started by a change that ends the chain. *)
LEMMA NextEnding ==
  ASSUME BaseType, Down, Registered, Ending, [Next]_vars
  PROVE  Ending'
<1>1. CASE Boot
  BY <1>1, CallersType, StageTypes DEF BaseType, Down, Registered, Ending,
       Boot, Go, dbVars
<1>2. CASE StartWorker
  BY <1>2, CallersType, StageTypes DEF BaseType, Down, Registered, Ending,
       StartWorker, memVars, callVars
<1>3. CASE Crash
  BY <1>3, CallersType, StageTypes DEF BaseType, Down, Registered, Ending,
       Crash, Dies, dbVars
<1>4. ASSUME NEW r \in Rows, Claim(r) PROVE Ending'
  BY <1>4, CallersType, StageTypes DEF BaseType, Down, Registered, Ending,
       Claim, Go, procVars
<1>5. ASSUME NEW r \in Rows, Close(r) PROVE Ending'
  BY <1>5, CallersType, StageTypes DEF BaseType, Down, Registered, Ending,
       Close, Go, memVars, procVars
<1>6. ASSUME NEW c \in Callers, EnterBody(c) PROVE Ending'
  BY <1>6, CallersType, StageTypes DEF BaseType, Down, Registered, Ending,
       EnterBody, Go, dbVars, procVars
<1>7. ASSUME NEW c \in Callers, LeaveBody(c) PROVE Ending'
  BY <1>7, CallersType, StageTypes DEF BaseType, Down, Registered, Ending,
       LeaveBody, Returns, Throws, Go, dbVars, procVars
<1>8. ASSUME NEW c \in Callers, ReadSubscription(c) PROVE Ending'
  BY <1>8, CallersType, StageTypes DEF BaseType, Down, Registered, Ending,
       ReadSubscription, Go, dbVars, memVars, procVars
<1>9. ASSUME NEW c \in Callers, ListPending(c) PROVE Ending'
  BY <1>9, CallersType, StageTypes DEF BaseType, Down, Registered, Ending,
       ListPending, Go, dbVars, memVars, procVars
<1>10. ASSUME NEW c \in Callers, ClearOne(c) PROVE Ending'
  BY <1>10, CallersType, StageTypes DEF BaseType, Down, Registered, Ending,
       ClearOne, Go, FirstOf, memVars, procVars
<1>11. ASSUME NEW c \in Callers, CreateRow(c) PROVE Ending'
  BY <1>11, CallersType, StageTypes DEF BaseType, Down, Registered, Ending,
       CreateRow, Go, memVars, procVars
<1>12. ASSUME NEW c \in Callers, EnterFails(c) PROVE Ending'
  BY <1>12, CallersType, StageTypes DEF BaseType, Down, Registered, Ending,
       EnterFails, Go, dbVars, procVars
<1>13. ASSUME NEW c \in Callers, ScheduleFails(c) PROVE Ending'
  BY <1>13, CallersType, StageTypes DEF BaseType, Down, Registered, Ending,
       ScheduleFails, Go, dbVars, memVars, procVars
<1>14. CASE RunByHand
  BY <1>14, CallersType, StageTypes DEF BaseType, Down, Registered, Ending,
       RunByHand, Go, dbVars, procVars
<1>15. CASE ArmCooldown
  BY <1>15, CallersType, StageTypes DEF BaseType, Down, Registered, Ending,
       ArmCooldown, dbVars, callVars, procVars
<1>16. CASE CooldownLapses
  BY <1>16, CallersType, StageTypes DEF BaseType, Down, Registered, Ending,
       CooldownLapses, dbVars, callVars, procVars
<1>17. CASE Enable
  BY <1>17, CallersType, StageTypes DEF BaseType, Down, Registered, Ending,
       Enable, Go, Serving, memVars, procVars
<1>18. CASE Disable
  BY <1>18, CallersType, StageTypes DEF BaseType, Down, Registered, Ending,
       Disable, Go, Serving, memVars, procVars
<1>19. CASE Unsubscribe
  BY <1>19, CallersType, StageTypes DEF BaseType, Down, Registered, Ending,
       Unsubscribe, Go, Serving, dbVars, memVars, procVars
<1>20. CASE Delist
  BY <1>20, CallersType, StageTypes DEF BaseType, Down, Registered, Ending,
       Delist, Go, dbVars, memVars, procVars
<1>21. CASE DropOne
  BY <1>21, CallersType, StageTypes DEF BaseType, Down, Registered, Ending,
       DropOne, Go, FirstOf, memVars, procVars
<1>22. CASE DropRejects
  BY <1>22, CallersType, StageTypes DEF BaseType, Down, Registered, Ending,
       DropRejects, Dies, dbVars
<1>23. CASE RestartTask
  BY <1>23, CallersType, StageTypes DEF BaseType, Down, Registered, Ending,
       RestartTask, Go, dbVars, procVars
<1>24. CASE Purge
  BY <1>24, CallersType, StageTypes DEF BaseType, Down, Registered, Ending,
       Purge, Go, memVars, procVars
<1>25. CASE DeleteSubscription
  BY <1>25, CallersType, StageTypes DEF BaseType, Down, Registered, Ending,
       DeleteSubscription, memVars, procVars
<1>26. CASE UNCHANGED vars
  BY <1>26 DEF BaseType, Down, Registered, Ending, vars, callVars, dbVars,
       memVars, procVars
<1>27. QED BY <1>1, <1>2, <1>3, <1>4, <1>5, <1>6, <1>7, <1>8, <1>9, <1>10,
     <1>11, <1>12, <1>13, <1>14, <1>15, <1>16, <1>17, <1>18, <1>19, <1>20,
     <1>21, <1>22, <1>23, <1>24, <1>25, <1>26 DEF Next, CallStep, RequestStep

(* Every handler leaves a link or somebody forging one. *)
LEMMA NextLinked ==
  ASSUME BaseType, Lists, Down, Handled, Booting, Registered, Ending, Linked,
       [Next]_vars
  PROVE  Linked'
<1>1. CASE Boot
  BY <1>1, CallersType, StageTypes DEF BaseType, Down, Handled, Booting,
       Registered, Ending, Linked, Pending, Forging, Boot, Go, dbVars
<1>2. CASE StartWorker
  BY <1>2, CallersType, StageTypes DEF BaseType, Down, Handled, Booting,
       Registered, Ending, Linked, Pending, Forging, StartWorker, memVars,
       callVars
<1>3. CASE Crash
  BY <1>3, CallersType, StageTypes DEF BaseType, Down, Handled, Booting,
       Registered, Ending, Linked, Pending, Forging, Crash, Dies, dbVars
<1>4. ASSUME NEW r \in Rows, Claim(r) PROVE Linked'
  BY <1>4, CallersType, StageTypes DEF BaseType, Down, Handled, Booting,
       Registered, Ending, Linked, Pending, Forging, Claim, Go, procVars,
       AfterBody, Over
<1>5. ASSUME NEW r \in Rows, Close(r) PROVE Linked'
  BY <1>5, CallersType, StageTypes DEF BaseType, Down, Handled, Booting,
       Registered, Ending, Linked, Pending, Forging, Close, Go, memVars,
       procVars
<1>6. ASSUME NEW c \in Callers, EnterBody(c) PROVE Linked'
  BY <1>6, CallersType, StageTypes DEF BaseType, Down, Handled, Booting,
       Registered, Ending, Linked, Pending, Forging, EnterBody, Go, dbVars,
       procVars, AfterBody, Over
<1>7. ASSUME NEW c \in Callers, LeaveBody(c) PROVE Linked'
  BY <1>7, CallersType, StageTypes DEF BaseType, Down, Handled, Booting,
       Registered, Ending, Linked, Pending, Forging, LeaveBody, Returns,
       Throws, Go, dbVars, procVars, AfterBody, Over
<1>8. ASSUME NEW c \in Callers, ReadSubscription(c) PROVE Linked'
  BY <1>8, CallersType, StageTypes DEF BaseType, Down, Handled, Booting,
       Registered, Ending, Linked, Pending, Forging, ReadSubscription, Go,
       dbVars, memVars, procVars
<1>9. ASSUME NEW c \in Callers, ListPending(c) PROVE Linked'
  BY <1>9, CallersType, StageTypes DEF BaseType, Down, Handled, Booting,
       Registered, Ending, Linked, Pending, Forging, ListPending, Go, dbVars,
       memVars, procVars, AfterBody, Over
<1>10. ASSUME NEW c \in Callers, ClearOne(c) PROVE Linked'
  <2>1. c \in Rows \cup {boot, request}
    BY <1>10 DEF ClearOne, Lists, Callers, Outside
  <2>2. lost' \/ at'[c] \in {"create", "clear"}
    BY <1>10 DEF ClearOne, Go, BaseType
  <2>3. CASE at'[c] \in {"create", "clear"}
    BY <2>1, <2>3 DEF Linked, Forging
  <2>4. QED BY <2>2, <2>3 DEF Linked
<1>11. ASSUME NEW c \in Callers, CreateRow(c) PROVE Linked'
  <2>1. PICK r \in Fresh : row' = [row EXCEPT ![r] = "PENDING"]
    BY <1>11 DEF CreateRow
  <2>2. r \in Pending'
    BY <2>1 DEF Fresh, Pending, BaseType
  <2>3. QED BY <2>2 DEF Linked
<1>12. ASSUME NEW c \in Callers, EnterFails(c) PROVE Linked'
  BY <1>12, CallersType, StageTypes DEF BaseType, Down, Handled, Booting,
       Registered, Ending, Linked, Pending, Forging, EnterFails, Go, dbVars,
       procVars, AfterBody, Over
<1>13. ASSUME NEW c \in Callers, ScheduleFails(c) PROVE Linked'
  BY <1>13, CallersType, StageTypes DEF BaseType, Down, Handled, Booting,
       Registered, Ending, Linked, Pending, Forging, ScheduleFails, Go, dbVars,
       memVars, procVars
<1>14. CASE RunByHand
  BY <1>14, CallersType, StageTypes DEF BaseType, Down, Handled, Booting,
       Registered, Ending, Linked, Pending, Forging, RunByHand, Go, dbVars,
       procVars
<1>15. CASE ArmCooldown
  BY <1>15, CallersType, StageTypes DEF BaseType, Down, Handled, Booting,
       Registered, Ending, Linked, Pending, Forging, ArmCooldown, dbVars,
       callVars, procVars
<1>16. CASE CooldownLapses
  BY <1>16, CallersType, StageTypes DEF BaseType, Down, Handled, Booting,
       Registered, Ending, Linked, Pending, Forging, CooldownLapses, dbVars,
       callVars, procVars
<1>17. CASE Enable
  BY <1>17, CallersType, StageTypes DEF BaseType, Down, Handled, Booting,
       Registered, Ending, Linked, Pending, Forging, Enable, Go, Serving,
       memVars, procVars
<1>18. CASE Disable
  BY <1>18, CallersType, StageTypes DEF BaseType, Down, Handled, Booting,
       Registered, Ending, Linked, Pending, Forging, Disable, Go, Serving,
       memVars, procVars
<1>19. CASE Unsubscribe
  BY <1>19, CallersType, StageTypes DEF BaseType, Down, Handled, Booting,
       Registered, Ending, Linked, Pending, Forging, Unsubscribe, Go, Serving,
       dbVars, memVars, procVars
<1>20. CASE Delist
  BY <1>20, CallersType, StageTypes DEF BaseType, Down, Handled, Booting,
       Registered, Ending, Linked, Pending, Forging, Delist, Go, dbVars,
       memVars, procVars
<1>21. CASE DropOne
  BY <1>21, CallersType, StageTypes DEF BaseType, Down, Handled, Booting,
       Registered, Ending, Linked, Pending, Forging, DropOne, Go, FirstOf,
       memVars, procVars
<1>22. CASE DropRejects
  BY <1>22, CallersType, StageTypes DEF BaseType, Down, Handled, Booting,
       Registered, Ending, Linked, Pending, Forging, DropRejects, Dies, dbVars
<1>23. CASE RestartTask
  BY <1>23, CallersType, StageTypes DEF BaseType, Down, Handled, Booting,
       Registered, Ending, Linked, Pending, Forging, RestartTask, Go, dbVars,
       procVars
<1>24. CASE Purge
  BY <1>24, CallersType, StageTypes DEF BaseType, Down, Handled, Booting,
       Registered, Ending, Linked, Pending, Forging, Purge, Go, memVars,
       procVars
<1>25. CASE DeleteSubscription
  BY <1>25, CallersType, StageTypes DEF BaseType, Down, Handled, Booting,
       Registered, Ending, Linked, Pending, Forging, DeleteSubscription,
       memVars, procVars
<1>26. CASE UNCHANGED vars
  BY <1>26 DEF BaseType, Down, Handled, Booting, Registered, Ending, Linked,
       Pending, Forging, vars, callVars, dbVars, memVars, procVars
<1>27. QED BY <1>1, <1>2, <1>3, <1>4, <1>5, <1>6, <1>7, <1>8, <1>9, <1>10,
     <1>11, <1>12, <1>13, <1>14, <1>15, <1>16, <1>17, <1>18, <1>19, <1>20,
     <1>21, <1>22, <1>23, <1>24, <1>25, <1>26 DEF Next, CallStep, RequestStep

LEMMA NextHolds == IInv /\ [Next]_vars => IInv'
<1> SUFFICES ASSUME IInv, [Next]_vars PROVE IInv'
  OBVIOUS
<1>1. (BaseType /\ Lists /\ Down /\ Holding /\ OneBody)'
  BY NextBaseType, NextLists, NextDown, NextHolding, NextOneBody DEF IInv
<1>2. ChainInv'
  BY NextHandled, NextBooting, NextRegistered, NextEnding, NextLinked
     DEF IInv, ChainInv
<1>3. QED BY <1>1, <1>2 DEF IInv

LEMMA IInvHolds == Spec => []IInv
BY InitHolds, NextHolds, PTL DEF Spec

(* The types of CheckChain hold for any constants. *)
THEOREM TypeOKHolds == Spec => []TypeOK
<1>1. IInv => TypeOK
  BY DEF IInv, BaseType, Lists, Down, TypeOK
<1>2. QED BY <1>1, IInvHolds, PTL

(* However many rows the chain has and whoever starts it, the work of a job,
   or the check of a channel, is done by one caller at a time (scheduler.ts:36,
   subscription.service.ts:138). *)
THEOREM OneBodyHolds == Spec => []OneBody
<1>1. IInv => OneBody
  BY DEF IInv
<1>2. QED BY <1>1, IInvHolds, PTL

(* Bodies that throw, skipped runs, duplicates and restarts do not cut the
   chain of what is enabled; only a scheduling call that gives up does
   (scheduler.ts:221, subscription.service.ts:51, 92, 126). *)
THEOREM ChainAliveHolds == Spec => []ChainAlive
<1>1. IInv => ChainAlive
  BY DEF IInv, ChainInv, Linked, ChainAlive
<1>2. QED BY <1>1, IInvHolds, PTL
=============================================================================
