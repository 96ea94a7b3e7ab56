----------------------------- MODULE RoomProofs -----------------------------
(***************************************************************************)
(* For any cameras and any number of sessions: a session whose room lives  *)
(* keeps its cameras, and a camera that outlives its session was told to   *)
(* end. What ends a session belongs to it: the callback of its own room,   *)
(* the stop that callback starts and that run() awaits before the next     *)
(* claim, the reconnect that was asked of it.                              *)
(***************************************************************************)
EXTENDS Room, TLAPS

\* Where run() is says which room is current, and who may still stop cameras.
Rooms ==
  /\ pc \in {"joining", "loop", "event", "shutdown"} => room = session /\ session # 0
  /\ pc \in {"claim", "pause", "over"} => room = 0
  /\ pc \notin {"joining", "loop"} => session < MaxSessions
  /\ open \subseteq 1 .. session
  /\ pc = "joining" => session \notin open /\ ~ event /\ ~ connected
  /\ running /\ (event \/ pc # "loop") => ~ connected
  /\ session \in open \/ pc \in {"claim", "joining", "pause", "over"} => Idle("stop")
  /\ pc = "loop" /\ session \in open /\ ~ asked /\ ~ overtaken => Idle("force")

\* A runtime names a task of its camera. The supervisor waits for the one its
\* camera names, or whose name is cleared.
Supervised ==
  /\ \A c \in Cameras : task[c] # None => task[c].camera = c
  /\ left["supervisor"] = {}
  /\ tk["supervisor"] # None =>
       task[tk["supervisor"].camera] \in {tk["supervisor"], None}

\* Names in use. Before a session has begun one task at most belongs to it: that
\* of a camera the supervisor was restarting.
InUse == (alive \cup {tk[a] : a \in Actors}) \ {None}

Names ==
  /\ \A t \in InUse : t.session <= session
  /\ pc = "joining" =>
       \A t \in InUse : t.session = session =>
          /\ tk["supervisor"] = None
          /\ \A u \in InUse : u.session = session => u = t

Untold == alive \ (told \cup strays)

\* A camera that was not told to end is the one its runtime names, of the session
\* that runs; the stop has yet to visit it where its room has reported its end.
Told ==
  /\ \A t \in Untold : task[t.camera] = t
  /\ pc = "loop" => \A t \in Untold : t.session = session
  /\ pc = "joining" \/ (running /\ pc \in {"claim", "pause"}) => Untold = {}
  /\ running /\ (pc = "shutdown" \/ (event /\ pc \in {"loop", "event"})) =>
       \A t \in Untold : t.camera \in left["stop"]

IInv == TypeOK /\ Rooms /\ Supervised /\ Names /\ Told /\ SessionKeepsItsCameras

-----------------------------------------------------------------------------
(* Names.                                                                  *)

LEMMA ActorsAre ==
  /\ "stop" \in Actors /\ "force" \in Actors /\ "supervisor" \in Actors
  /\ \A a \in Actors : a \in {"stop", "force", "supervisor"}
BY DEF Actors

LEMMA TasksAre ==
  ASSUME NEW t \in Tasks
  PROVE  t.camera \in Cameras /\ t.session \in Sessions /\ t # None
BY NoTask DEF Tasks

LEMMA NewTaskIsFresh ==
  ASSUME NEW c \in Cameras, NEW s \in Sessions, Fresh(c, s) # {}
  PROVE  LET t == NewTask(c, s) IN
         /\ t \in Tasks /\ t # None
         /\ t.camera = c /\ t.session = s
         /\ t \notin alive /\ \A a \in Actors : tk[a] # t
<1>1. NewTask(c, s) \in Fresh(c, s) BY DEF NewTask
<1> QED BY <1>1, NoTask DEF Fresh

\* Two copies are enough: when a session begins, one name is in use at most.
LEMMA NamesAreFree ==
  ASSUME IInv, pc = "joining", NEW c \in Cameras
  PROVE  Fresh(c, session) # {}
<1> DEFINE t(i) == [camera |-> c, session |-> session, copy |-> i]
<1>1. session \in Sessions
  BY RoomAssumption DEF IInv, Rooms, TypeOK, Sessions
<1>2. \A i \in {1, 2} : t(i) \in Tasks /\ t(i).camera = c /\ t(i).session = session
  BY <1>1, RoomAssumption DEF Tasks
<1>3. t(1) # t(2)
  <2>1. t(1).copy = 1 /\ t(2).copy = 2 OBVIOUS
  <2> QED BY <2>1
<1>4. PICK i \in {1, 2} : t(i) \notin InUse
  <2>1. t(1) \in InUse /\ t(2) \in InUse => t(1) = t(2)
    BY <1>2 DEF IInv, Names
  <2> QED BY <1>3, <2>1
<1>5. t(i) \in Fresh(c, session)
  BY <1>2, <1>4, NoTask DEF Fresh, InUse
<1> QED BY <1>5

-----------------------------------------------------------------------------
(* Types.                                                                  *)

LEMMA RestartIsTyped ==
  ASSUME TypeOK, NEW c \in Cameras, Restart(c)
  PROVE  /\ task' \in [Cameras -> Tasks \cup {None}]
         /\ alive' \subseteq Tasks /\ alive \subseteq alive' /\ strays' \subseteq alive'
<1>1. CASE room = 0
  BY <1>1 DEF Restart, TypeOK
<1>2. CASE room # 0
  <2>1. room \in Sessions BY <1>2 DEF TypeOK
  <2> QED BY <1>2, <2>1, NewTaskIsFresh DEF Restart, TypeOK
<1> QED BY <1>1, <1>2

LEMMA TypesAreKept ==
  ASSUME IInv, [Next]_vars
  PROVE  TypeOK'
<1> USE DEF IInv, TypeOK
<1>0. 0 \notin Sessions /\ \A s : s \in Sessions <=> s \in Nat /\ 1 <= s /\ s <= MaxSessions
  BY RoomAssumption DEF Sessions
<1>1. CASE Claim
  <2>1. session + 1 \in Sessions
    BY <1>0, <1>1, RoomAssumption DEF Claim, Rooms
  <2> QED BY <1>1, <2>1 DEF Claim, cameraVars, actorVars, forceVars, gatewayVars
<1>2. CASE Join
  <2>1. session \in Sessions BY <1>2 DEF Join, Rooms
  <2>2. \A c \in Cameras : NewTask(c, session) \in Tasks
    BY <1>2, <2>1, NamesAreFree, NewTaskIsFresh DEF Join
  <2>3. task' \in [Cameras -> Tasks \cup {None}] /\ alive' \subseteq Tasks /\ alive \subseteq alive'
    BY <1>2, <2>2 DEF Join
  <2>4. open' \subseteq Sessions BY <1>2, <2>1 DEF Join
  <2>5. connected' \in BOOLEAN /\ overtaken' \in BOOLEAN /\ pc' = "loop" BY <1>2 DEF Join
  <2> QED BY <1>2, <2>3, <2>4, <2>5 DEF Join, actorVars, forceVars, gatewayVars
<1>3. CASE JoinFails
  BY <1>3 DEF JoinFails, roomVars, cameraVars, actorVars, forceVars, gatewayVars
<1>4. CASE LeaveLoop \/ EventIsSet \/ EventTimesOut \/ ShutdownIsOver \/ Pause
  <2>1. EndUnchanged BY <1>4 DEF LeaveLoop, EventIsSet, EventTimesOut, ShutdownIsOver, Pause
  <2>2. room' \in Sessions \cup {0} /\ pc' \in {"claim", "joining", "loop", "event", "shutdown", "pause", "over"}
    BY <1>4 DEF LeaveLoop, EventIsSet, EventTimesOut, ShutdownIsOver, Pause, GiveUp
  <2>3. strays' \subseteq alive
    BY <1>4 DEF LeaveLoop, EventIsSet, EventTimesOut, ShutdownIsOver, Pause
  <2> QED BY <2>1, <2>2, <2>3 DEF EndUnchanged, roomVars, actorVars, forceVars, gatewayVars
<1>5. ASSUME NEW s \in Sessions, Disconnected(s) PROVE TypeOK'
  <2>1. left' \in [Actors -> SUBSET Cameras] /\ tk' = tk
    BY <1>5 DEF Disconnected, StartStop, actorVars
  <2>2. outage' \in {"no", "on", "lost"} /\ connected' \in BOOLEAN /\ event' \in BOOLEAN
    BY <1>5 DEF Disconnected
  <2> QED BY <1>5, <2>1, <2>2 DEF Disconnected, runVars, cameraVars, forceVars
<1>6. ASSUME NEW a \in Actors, Visit(a) PROVE TypeOK'
  <2> DEFINE c == CHOOSE d \in left[a] : TRUE
  <2>1. c \in left[a] /\ c \in Cameras BY <1>6 DEF Visit
  <2>2. /\ left' = [left EXCEPT ![a] = @ \ {c}]
        /\ IF Live(c) THEN told' = told \cup {task[c]} /\ tk' = [tk EXCEPT ![a] = task[c]]
                      ELSE UNCHANGED <<told, tk>>
        /\ UNCHANGED <<task, strays>> /\ VisitUnchanged
    BY <1>6 DEF Visit
  <2>3. left' \in [Actors -> SUBSET Cameras] BY <2>1, <2>2
  <2>4. told' \subseteq alive /\ tk' \in [Actors -> Tasks \cup {None}]
    BY <2>1, <2>2 DEF Live
  <2> QED BY <2>2, <2>3, <2>4 DEF VisitUnchanged, runVars, roomVars, forceVars, gatewayVars
<1>7. ASSUME NEW a \in Actors, CameraIsStopped(a) PROVE TypeOK'
  BY <1>7 DEF CameraIsStopped, VisitUnchanged, runVars, roomVars, forceVars, gatewayVars
<1>8. ASSUME NEW a \in Actors, CameraIsLate(a) PROVE TypeOK'
  BY <1>8 DEF CameraIsLate, VisitUnchanged, runVars, roomVars, forceVars, gatewayVars
<1>9. ASSUME NEW t \in alive, CameraEnds(t) PROVE TypeOK'
  BY <1>9 DEF CameraEnds, runVars, roomVars, actorVars, forceVars, gatewayVars
<1>10. ASSUME NEW c \in Cameras, RestartFinished(c) PROVE TypeOK'
  BY <1>10, RestartIsTyped DEF RestartFinished, RestartUnchanged, runVars, roomVars, forceVars, gatewayVars
<1>11. ASSUME NEW c \in Cameras, CancelStalled(c) PROVE TypeOK'
  BY <1>11 DEF CancelStalled, Live, VisitUnchanged, runVars, roomVars, forceVars, gatewayVars
<1>12. CASE RestartStalled
  <2>1. tk["supervisor"].camera \in Cameras
    BY <1>12, ActorsAre, TasksAre DEF RestartStalled
  <2> QED BY <1>12, <2>1, RestartIsTyped DEF RestartStalled, RestartUnchanged, runVars, roomVars, forceVars, gatewayVars
<1>13. CASE PlannedShutdown \/ EarlyIsOver \/ ControlIsLost \/ ControlReturns
  BY <1>13 DEF PlannedShutdown, EarlyIsOver, ControlIsLost, ControlReturns,
               runVars, roomVars, cameraVars, actorVars, forceVars
<1>14. CASE RecoveryIsDue
  <2>1. left' \in [Actors -> SUBSET Cameras] BY <1>14 DEF RecoveryIsDue
  <2> QED BY <1>14, <2>1 DEF RecoveryIsDue, runVars, cameraVars, gatewayVars
<1>15. CASE ForceDisconnects \/ ForceIsOver
  BY <1>15 DEF ForceDisconnects, ForceIsOver, ForceUnchanged, runVars, roomVars, cameraVars, actorVars, gatewayVars
<1>16. CASE Shutdown
  BY <1>16 DEF Shutdown, roomVars, cameraVars, actorVars, forceVars, gatewayVars
<1>17. CASE UNCHANGED vars
  BY <1>17 DEF vars, runVars, roomVars, cameraVars, actorVars, forceVars, gatewayVars
<1> QED BY <1>1, <1>2, <1>3, <1>4, <1>5, <1>6, <1>7, <1>8, <1>9, <1>10, <1>11, <1>12,
           <1>13, <1>14, <1>15, <1>16, <1>17 DEF Next, RunStep, StopStep, ForceStep

-----------------------------------------------------------------------------
(* Rooms and stops.                                                        *)

\* An actor that has nothing to do stays that way, whoever else takes a step.
LEMMA IdleStays ==
  ASSUME TypeOK, NEW a \in Actors, NEW b \in Actors, StopStep(b), Idle(a)
  PROVE  Idle(a)'
<1> USE DEF TypeOK
<1>1. CASE a = b
  BY <1>1 DEF StopStep, Visit, CameraIsStopped, CameraIsLate, Idle
<1>2. CASE a # b
  BY <1>2 DEF StopStep, Visit, CameraIsStopped, CameraIsLate, Idle
<1> QED BY <1>1, <1>2

LEMMA RoomsStay ==
  ASSUME Rooms, UNCHANGED <<runVars, connected, roomVars, actorVars>>
  PROVE  Rooms'
BY DEF Rooms, Idle, runVars, roomVars, actorVars

LEMMA RoomsAreKept ==
  ASSUME IInv, [Next]_vars
  PROVE  Rooms'
<1> USE DEF IInv
<1>0. session \in Nat /\ \A s \in Sessions : s \in Nat /\ s # 0
  BY RoomAssumption DEF TypeOK, Sessions
<1>1. CASE Claim
  BY <1>0, <1>1 DEF Claim, Rooms, actorVars, Idle
<1>2. CASE Join
  <2>1. /\ pc = "joining" /\ pc' = "loop" /\ open' = open \cup {session}
        /\ UNCHANGED <<running, session, room, event, asked, left, tk>>
    BY <1>2 DEF Join, actorVars
  <2>2. Idle("stop") BY <2>1 DEF Rooms
  <2>3. ~ overtaken' => Idle("force")
    BY <1>2 DEF Join
  <2> QED BY <1>0, <2>1, <2>2, <2>3 DEF Rooms, Idle
<1>3. CASE JoinFails
  BY <1>3 DEF JoinFails, Rooms, roomVars, actorVars, Idle
<1>4. CASE LeaveLoop \/ EventIsSet \/ EventTimesOut \/ ShutdownIsOver \/ Pause
  <2>1. EndUnchanged BY <1>4 DEF LeaveLoop, EventIsSet, EventTimesOut, ShutdownIsOver, Pause
  <2>2. Idle("stop") <=> Idle("stop")'
    BY <2>1 DEF EndUnchanged, actorVars, Idle
  <2> QED BY <1>4, <2>1, <2>2 DEF LeaveLoop, EventIsSet, EventTimesOut, ShutdownIsOver, Pause, GiveUp,
             EndUnchanged, roomVars, Rooms
<1>5. ASSUME NEW s \in Sessions, Disconnected(s) PROVE Rooms'
  <2>1. /\ s \in open /\ open' = open \ {s} /\ event' = (event \/ s = session)
        /\ UNCHANGED <<running, pc, session, room, overtaken, asked>>
    BY <1>5 DEF Disconnected, runVars
  <2>2. CASE room = s
    <3>1. session = s BY <1>0, <2>2 DEF Rooms, TypeOK
    <3>2. connected' = (connected /\ ~ running)
      BY <1>5, <2>2 DEF Disconnected, IsCurrentRoom
    <3>3. pc \in {"loop", "event", "shutdown"}
      BY <1>0, <2>1, <2>2, <3>1 DEF Rooms, TypeOK
    <3> QED BY <2>1, <2>2, <3>1, <3>2, <3>3 DEF Rooms
  <2>3. CASE room # s
    <3>1. UNCHANGED <<connected, left, tk>>
      BY <1>5, <2>3 DEF Disconnected, IsCurrentRoom, actorVars
    <3>2. s = session => pc \in {"claim", "pause", "over"}
      BY <2>1, <2>3 DEF Rooms, TypeOK
    <3> QED BY <2>1, <3>1, <3>2 DEF Rooms, Idle
  <2> QED BY <2>2, <2>3
<1>6. ASSUME NEW a \in Actors, StopStep(a) PROVE Rooms'
  <2>1. UNCHANGED <<runVars, connected, roomVars, forceVars, gatewayVars>>
    BY <1>6 DEF StopStep, Visit, CameraIsStopped, CameraIsLate, VisitUnchanged
  <2>2. (Idle("stop") => Idle("stop")') /\ (Idle("force") => Idle("force")')
    BY <1>6, IdleStays, ActorsAre
  <2> QED BY <2>1, <2>2 DEF Rooms, runVars, roomVars
<1>7. ASSUME NEW t \in alive, CameraEnds(t) PROVE Rooms'
  BY <1>7, RoomsStay DEF CameraEnds
<1>8. ASSUME NEW c \in Cameras, RestartFinished(c) PROVE Rooms'
  BY <1>8 DEF RestartFinished, RestartUnchanged, Rooms, Idle, runVars, roomVars
<1>9. ASSUME NEW c \in Cameras, CancelStalled(c) PROVE Rooms'
  <2>1. tk'["stop"] = tk["stop"] /\ tk'["force"] = tk["force"]
    BY <1>9, ActorsAre DEF CancelStalled, TypeOK
  <2> QED BY <1>9, <2>1 DEF CancelStalled, VisitUnchanged, Rooms, Idle, runVars, roomVars
<1>10. CASE RestartStalled
  <2>1. tk'["stop"] = tk["stop"] /\ tk'["force"] = tk["force"]
    BY <1>10, ActorsAre DEF RestartStalled, TypeOK
  <2> QED BY <1>10, <2>1 DEF RestartStalled, RestartUnchanged, Rooms, Idle, runVars, roomVars
<1>11. CASE PlannedShutdown
  BY <1>11 DEF PlannedShutdown, Rooms, Idle, runVars, actorVars
<1>12. CASE EarlyIsOver \/ ControlIsLost \/ ControlReturns
  BY <1>12, RoomsStay DEF EarlyIsOver, ControlIsLost, ControlReturns
<1>13. CASE RecoveryIsDue
  <2>1. Idle("stop") <=> Idle("stop")'
    BY <1>13, ActorsAre DEF RecoveryIsDue, Idle, TypeOK
  <2>2. UNCHANGED <<runVars, open, event, tk>>
    BY <1>13 DEF RecoveryIsDue
  <2>3. (connected' /\ UNCHANGED <<asked, left>>) \/ asked' \/ UNCHANGED <<connected, asked, left>>
    BY <1>13 DEF RecoveryIsDue
  <2>4. connected' => connected
    BY <1>13 DEF RecoveryIsDue
  <2> QED BY <2>1, <2>2, <2>3, <2>4 DEF Rooms, Idle, runVars
<1>14. CASE ForceDisconnects \/ ForceIsOver
  BY <1>14, RoomsStay DEF ForceDisconnects, ForceIsOver, ForceUnchanged
<1>15. CASE Shutdown
  BY <1>15 DEF Shutdown, Rooms, Idle, roomVars, actorVars
<1>16. CASE UNCHANGED vars
  BY <1>16, RoomsStay DEF vars
<1> QED BY <1>1, <1>2, <1>3, <1>4, <1>5, <1>6, <1>7, <1>8, <1>9, <1>10, <1>11, <1>12,
           <1>13, <1>14, <1>15, <1>16 DEF Next, RunStep, ForceStep

-----------------------------------------------------------------------------
(* The supervisor, and the names in use.                                   *)

\* What a restart changes: nothing, or one camera has a task of the current room.
LEMMA RestartStartsOne ==
  ASSUME TypeOK, NEW c \in Cameras, Restart(c)
  PROVE  \/ UNCHANGED <<task, alive, strays>>
         \/ /\ room # 0
            /\ \E n \in Tasks :
                 /\ n.camera = c /\ n.session = room /\ n # None
                 /\ n \notin alive /\ \A a \in Actors : tk[a] # n
                 /\ task' = [task EXCEPT ![c] = n]
                 /\ alive' = alive \cup {n}
                 /\ strays' = IF connected THEN strays ELSE strays \cup {n}
<1>1. CASE room = 0
  BY <1>1 DEF Restart
<1>2. CASE room # 0
  <2>1. room \in Sessions BY <1>2 DEF TypeOK
  <2>2. Fresh(c, room) # {} BY <1>2 DEF Restart
  <2>3. LET n == NewTask(c, room) IN
          /\ n \in Tasks /\ n.camera = c /\ n.session = room /\ n # None
          /\ n \notin alive /\ \A a \in Actors : tk[a] # n
    BY <2>1, <2>2, NewTaskIsFresh
  <2> QED BY <1>2, <2>3 DEF Restart
<1> QED BY <1>1, <1>2

LEMMA SupervisedStays ==
  ASSUME Supervised, UNCHANGED <<task, left, tk>>
  PROVE  Supervised'
BY DEF Supervised

LEMMA SupervisedIsKept ==
  ASSUME IInv, [Next]_vars
  PROVE  Supervised'
<1> USE ActorsAre DEF IInv, TypeOK, Supervised
<1>1. CASE Join
  <2>1. session \in Sessions BY <1>1 DEF Join, Rooms
  <2>2. \A c \in Cameras : NewTask(c, session).camera = c
    BY <1>1, <2>1, NamesAreFree, NewTaskIsFresh DEF Join
  <2> QED BY <1>1, <2>2 DEF Join, Idle, actorVars
<1>2. ASSUME NEW s \in Sessions, Disconnected(s) PROVE Supervised'
  <2>1. left'["supervisor"] = left["supervisor"] /\ UNCHANGED <<task, tk>>
    BY <1>2 DEF Disconnected, StartStop, actorVars, cameraVars
  <2> QED BY <2>1
<1>3. ASSUME NEW a \in Actors, Visit(a) PROVE Supervised'
  <2>1. a # "supervisor" BY <1>3 DEF Visit
  <2>2. left'["supervisor"] = left["supervisor"] /\ tk'["supervisor"] = tk["supervisor"] /\ task' = task
    BY <1>3, <2>1 DEF Visit
  <2> QED BY <2>2
<1>4. ASSUME NEW a \in Actors, CameraIsStopped(a) PROVE Supervised'
  <2>1. left' = left /\ tk'["supervisor"] = tk["supervisor"]
    BY <1>4 DEF CameraIsStopped
  <2>2. \A c \in Cameras : task'[c] \in {task[c], None}
    BY <1>4 DEF CameraIsStopped
  <2>3. tk["supervisor"] # None => tk["supervisor"].camera \in Cameras
    BY TasksAre
  <2> QED BY <2>1, <2>2, <2>3
<1>5. ASSUME NEW a \in Actors, CameraIsLate(a) PROVE Supervised'
  BY <1>5 DEF CameraIsLate
<1>6. ASSUME NEW c \in Cameras, RestartFinished(c) PROVE Supervised'
  <2>1. tk["supervisor"] = None /\ UNCHANGED <<left, tk>>
    BY <1>6 DEF RestartFinished, RestartUnchanged, Idle
  <2> QED BY <1>6, <2>1, RestartStartsOne DEF RestartFinished
<1>7. ASSUME NEW c \in Cameras, CancelStalled(c) PROVE Supervised'
  <2>1. tk'["supervisor"] = task[c] /\ task[c] # None /\ UNCHANGED <<left, task>>
    BY <1>7, NoTask DEF CancelStalled, Live
  <2> QED BY <2>1
<1>8. CASE RestartStalled
  <2>1. tk["supervisor"].camera \in Cameras BY <1>8, TasksAre DEF RestartStalled
  <2>2. tk'["supervisor"] = None /\ left' = left
    BY <1>8 DEF RestartStalled, RestartUnchanged
  <2> QED BY <1>8, <2>1, <2>2, RestartStartsOne DEF RestartStalled
<1>9. CASE RecoveryIsDue
  <2>1. left'["supervisor"] = left["supervisor"] /\ UNCHANGED <<task, tk>>
    BY <1>9 DEF RecoveryIsDue, cameraVars
  <2> QED BY <2>1
<1>10. ASSUME UNCHANGED <<task, left, tk>> PROVE Supervised'
  BY <1>10, SupervisedStays
<1>11. CASE Claim \/ JoinFails
  BY <1>10, <1>11 DEF Claim, JoinFails, cameraVars, actorVars
<1>12. CASE LeaveLoop \/ EventIsSet \/ EventTimesOut \/ ShutdownIsOver \/ Pause
  BY <1>10, <1>12 DEF LeaveLoop, EventIsSet, EventTimesOut, ShutdownIsOver, Pause, EndUnchanged, actorVars
<1>13. ASSUME NEW t \in alive, CameraEnds(t) PROVE Supervised'
  BY <1>10, <1>13 DEF CameraEnds, actorVars
<1>14. CASE PlannedShutdown \/ EarlyIsOver \/ ControlIsLost \/ ControlReturns
  BY <1>10, <1>14 DEF PlannedShutdown, EarlyIsOver, ControlIsLost, ControlReturns, cameraVars, actorVars
<1>15. CASE ForceDisconnects \/ ForceIsOver \/ Shutdown
  BY <1>10, <1>15 DEF ForceDisconnects, ForceIsOver, ForceUnchanged, Shutdown, cameraVars, actorVars
<1>16. CASE UNCHANGED vars
  BY <1>10, <1>16 DEF vars, cameraVars, actorVars
<1> QED BY <1>1, <1>2, <1>3, <1>4, <1>5, <1>6, <1>7, <1>8, <1>9, <1>11, <1>12,
           <1>13, <1>14, <1>15, <1>16 DEF Next, RunStep, StopStep, ForceStep

\* Where no name is taken into use.
LEMMA NamesStay ==
  ASSUME Names, InUse' \subseteq InUse, session' = session,
         pc' = "joining" => pc = "joining" /\ tk'["supervisor"] \in {tk["supervisor"], None}
  PROVE  Names'
BY DEF Names

LEMMA NamesAreKept ==
  ASSUME IInv, [Next]_vars
  PROVE  Names'
<1> USE ActorsAre DEF IInv
<1>0. session \in Nat /\ \A t \in InUse : t.session \in Nat
  <2>1. \A t \in InUse : t \in Tasks BY DEF TypeOK, InUse
  <2>2. \A s \in Sessions : s \in Nat BY RoomAssumption DEF Sessions
  <2> QED BY <2>1, <2>2, TasksAre DEF TypeOK
<1>1. ASSUME UNCHANGED <<alive, tk, session>>, pc' = "joining" => pc = "joining"
      PROVE  Names'
  BY <1>1, NamesStay DEF InUse
<1>2. CASE Claim
  <2>1. InUse' = InUse /\ session' = session + 1
    BY <1>2 DEF Claim, InUse, cameraVars, actorVars
  <2> QED BY <1>0, <2>1 DEF Names
<1>3. CASE Join
  <2>1. session \in Sessions BY <1>3 DEF Join, Rooms, TypeOK
  <2>2. \A c \in Cameras : NewTask(c, session).session = session
    BY <1>3, <2>1, NamesAreFree, NewTaskIsFresh DEF Join
  <2>3. \A t \in InUse' : t \in InUse \/ t.session = session
    BY <1>3, <2>2 DEF Join, InUse, actorVars
  <2>4. session' = session /\ pc' = "loop" BY <1>3 DEF Join
  <2> QED BY <1>0, <2>3, <2>4 DEF Names
<1>4. CASE JoinFails
  BY <1>1, <1>4 DEF JoinFails, cameraVars, actorVars
<1>5. CASE LeaveLoop \/ EventIsSet \/ EventTimesOut \/ ShutdownIsOver \/ Pause
  BY <1>1, <1>5 DEF LeaveLoop, EventIsSet, EventTimesOut, ShutdownIsOver, Pause, GiveUp, EndUnchanged, actorVars
<1>6. ASSUME NEW s \in Sessions, Disconnected(s) PROVE Names'
  BY <1>1, <1>6 DEF Disconnected, StartStop, runVars, cameraVars, actorVars
<1>7. ASSUME NEW a \in Actors, Visit(a) PROVE Names'
  <2>1. UNCHANGED <<alive, session, pc>> BY <1>7 DEF Visit, VisitUnchanged, runVars
  <2>2. \A b \in Actors : tk'[b] = tk[b] \/ tk'[b] \in alive
    BY <1>7 DEF Visit, Live, TypeOK
  <2>3. tk'["supervisor"] = tk["supervisor"]
    BY <1>7 DEF Visit, Supervised, TypeOK
  <2> QED BY <2>1, <2>2, <2>3, NamesStay DEF InUse
<1>8. ASSUME NEW a \in Actors, CameraIsStopped(a) \/ CameraIsLate(a) PROVE Names'
  <2>1. UNCHANGED <<alive, session, pc>> /\ \A b \in Actors : tk'[b] \in {tk[b], None}
    BY <1>8 DEF CameraIsStopped, CameraIsLate, VisitUnchanged, runVars, TypeOK
  <2> QED BY <2>1, NamesStay DEF InUse
<1>9. ASSUME NEW t \in alive, CameraEnds(t) PROVE Names'
  BY <1>9, NamesStay DEF CameraEnds, InUse, runVars, actorVars
<1>10. ASSUME NEW c \in Cameras, Restart(c), UNCHANGED <<session, pc>>,
              \A b \in Actors : tk'[b] \in {tk[b], None},
              pc = "joining" => tk["supervisor"] # None /\ tk'["supervisor"] = None
       PROVE  Names'
  <2>1. CASE UNCHANGED alive
    BY <1>10, <2>1, NamesStay DEF InUse
  <2>2. CASE room # 0 /\ \E n \in Tasks : alive' = alive \cup {n} /\ n.session = room
    <3>1. PICK n \in Tasks : alive' = alive \cup {n} /\ n.session = room
      BY <2>2
    <3>2. room = session BY <2>2 DEF Rooms, TypeOK
    <3>3. \A t \in InUse' : t \in InUse \/ t = n
      BY <1>10, <3>1 DEF InUse
    <3>4. \A t \in InUse' : t.session <= session'
      BY <1>0, <1>10, <3>1, <3>2, <3>3 DEF Names
    <3>5. pc = "joining" => \A t \in InUse : t.session # session
      BY <1>10 DEF Names
    <3> QED BY <1>10, <3>1, <3>3, <3>4, <3>5 DEF Names
  <2> QED BY <1>10, <2>1, <2>2, RestartStartsOne
<1>11. ASSUME NEW c \in Cameras, RestartFinished(c) PROVE Names'
  <2>1. pc # "joining" BY <1>11 DEF RestartFinished, Rooms
  <2> QED BY <1>10, <1>11, <2>1 DEF RestartFinished, RestartUnchanged, runVars
<1>12. ASSUME NEW c \in Cameras, CancelStalled(c) PROVE Names'
  <2>1. pc # "joining" BY <1>12 DEF CancelStalled, Rooms
  <2>2. UNCHANGED <<alive, session, pc>> BY <1>12 DEF CancelStalled, VisitUnchanged, runVars
  <2>3. \A b \in Actors : tk'[b] = tk[b] \/ tk'[b] \in alive
    BY <1>12 DEF CancelStalled, Live, TypeOK
  <2> QED BY <2>1, <2>2, <2>3, NamesStay DEF InUse
<1>13. CASE RestartStalled
  <2>1. tk["supervisor"].camera \in Cameras BY <1>13, TasksAre DEF RestartStalled, TypeOK
  <2>2. \A b \in Actors : tk'[b] \in {tk[b], None}
    BY <1>13 DEF RestartStalled, TypeOK
  <2>3. tk["supervisor"] # None /\ tk'["supervisor"] = None
    BY <1>13 DEF RestartStalled, TypeOK
  <2>4. Restart(tk["supervisor"].camera) /\ UNCHANGED <<session, pc>>
    BY <1>13 DEF RestartStalled, RestartUnchanged, runVars
  <2> QED BY <1>10, <2>1, <2>2, <2>3, <2>4
<1>14. CASE PlannedShutdown \/ EarlyIsOver \/ ControlIsLost \/ ControlReturns
  BY <1>1, <1>14 DEF PlannedShutdown, EarlyIsOver, ControlIsLost, ControlReturns, runVars, cameraVars, actorVars
<1>15. CASE RecoveryIsDue \/ ForceDisconnects \/ ForceIsOver \/ Shutdown
  BY <1>1, <1>15 DEF RecoveryIsDue, ForceDisconnects, ForceIsOver, ForceUnchanged, Shutdown,
                     runVars, cameraVars, actorVars
<1>16. CASE UNCHANGED vars
  BY <1>1, <1>16 DEF vars, runVars, cameraVars, actorVars
<1> QED BY <1>2, <1>3, <1>4, <1>5, <1>6, <1>7, <1>8, <1>9, <1>11, <1>12,
           <1>13, <1>14, <1>15, <1>16 DEF Next, RunStep, StopStep, ForceStep

-----------------------------------------------------------------------------
(* Who was told to end.                                                    *)

LEMMA ToldStays ==
  ASSUME Told, Untold' \subseteq Untold, UNCHANGED <<task, running, pc, session, event>>,
         left'["stop"] = left["stop"]
  PROVE  Told'
BY DEF Told

\* A restart, of a camera whose task has ended.
LEMMA RestartKeepsTold ==
  ASSUME IInv, NEW c \in Cameras, Restart(c), ~ Live(c),
         UNCHANGED <<connected, runVars, told, left, event>>
  PROVE  Told'
<1> USE DEF IInv
<1>1. CASE UNCHANGED <<task, alive, strays>>
  <2>1. Untold' = Untold BY <1>1 DEF Untold
  <2> QED BY <1>1, <2>1, ToldStays DEF runVars
<1>2. ASSUME room # 0, NEW n \in Tasks, n.camera = c, n.session = room, n \notin alive,
             task' = [task EXCEPT ![c] = n], alive' = alive \cup {n},
             strays' = IF connected THEN strays ELSE strays \cup {n}
      PROVE  Told'
  <2>1. UNCHANGED <<running, pc, session, room, event, left, told, connected>>
    BY DEF runVars
  <2>2. \A t \in Untold : task'[t.camera] = t
    <3> SUFFICES ASSUME NEW t \in Untold PROVE task'[t.camera] = t
      OBVIOUS
    <3>1. task[t.camera] = t /\ t \in alive /\ t.camera \in Cameras
      BY TasksAre DEF Told, Untold, TypeOK
    <3>2. t.camera # c BY <3>1 DEF Live
    <3> QED BY <1>2, <3>1, <3>2 DEF TypeOK
  <2>3. task'[n.camera] = n BY <1>2 DEF TypeOK
  <2>4. CASE ~ connected
    <3>1. Untold' \subseteq Untold BY <1>2, <2>1, <2>4 DEF Untold
    <3> QED BY <2>1, <2>2, <3>1 DEF Told
  <2>5. CASE connected
    <3>1. Untold' \subseteq Untold \cup {n} BY <1>2, <2>1, <2>5 DEF Untold
    <3>2. pc # "joining" /\ (running => pc = "loop" /\ ~ event)
      BY <2>5 DEF Rooms
    <3>3. pc = "loop" => n.session = session
      BY <1>2 DEF Rooms
    <3> QED BY <2>1, <2>2, <2>3, <3>1, <3>2, <3>3 DEF Told
  <2> QED BY <2>4, <2>5
<1> QED BY <1>1, <1>2, RestartStartsOne

LEMMA ToldIsKept ==
  ASSUME IInv, [Next]_vars
  PROVE  Told'
<1> USE ActorsAre DEF IInv
<1>1. CASE Claim
  <2>1. Untold' = Untold BY <1>1 DEF Claim, cameraVars, Untold
  <2> QED BY <1>1, <2>1 DEF Claim, Told, cameraVars
<1>2. CASE Join
  <2>1. session \in Sessions BY <1>2 DEF Join, Rooms, TypeOK
  <2>2. \A c \in Cameras : NewTask(c, session).session = session /\ NewTask(c, session).camera = c
    BY <1>2, <2>1, NamesAreFree, NewTaskIsFresh DEF Join
  <2>3. Untold = {} /\ ~ event BY <1>2 DEF Join, Told, Rooms
  <2>4. /\ pc' = "loop" /\ UNCHANGED <<event, session, told, strays>>
        /\ task' = [c \in Cameras |-> NewTask(c, session)]
        /\ alive' = alive \cup {NewTask(c, session) : c \in Cameras}
    BY <1>2 DEF Join
  <2>5. \A t \in Untold' : \E c \in Cameras : t = NewTask(c, session)
    BY <2>3, <2>4 DEF Untold
  <2>6. \A t \in Untold' : task'[t.camera] = t /\ t.session = session'
    BY <2>2, <2>4, <2>5
  <2> QED BY <2>3, <2>4, <2>6 DEF Told
<1>3. CASE JoinFails
  <2>1. Untold' = Untold /\ Untold = {} BY <1>3 DEF JoinFails, cameraVars, Untold, Told
  <2> QED BY <2>1 DEF Told
<1>4. CASE LeaveLoop \/ EventIsSet \/ ShutdownIsOver \/ Pause
  <2>1. Untold' = Untold /\ UNCHANGED <<task, running, session, event, left>>
    BY <1>4 DEF LeaveLoop, EventIsSet, ShutdownIsOver, Pause, EndUnchanged, Untold, roomVars, actorVars
  <2>2. \A t \in Untold : t.camera \in left["stop"] => ~ Idle("stop")
    BY DEF Idle
  <2>3. CASE LeaveLoop
    BY <2>1, <2>3 DEF LeaveLoop, Told
  <2>4. CASE EventIsSet
    BY <2>1, <2>2, <2>4 DEF EventIsSet, GiveUp, Told
  <2>5. CASE ShutdownIsOver
    BY <2>1, <2>2, <2>5 DEF ShutdownIsOver, Told
  <2>6. CASE Pause
    BY <2>1, <2>6 DEF Pause, Told
  <2> QED BY <1>4, <2>3, <2>4, <2>5, <2>6
<1>5. CASE EventTimesOut
  <2>1. Untold' = {} BY <1>5 DEF EventTimesOut, EndUnchanged, Untold
  <2> QED BY <2>1 DEF Told
<1>6. ASSUME NEW s \in Sessions, Disconnected(s) PROVE Told'
  <2>1. /\ Untold' = Untold /\ s \in open /\ event' = (event \/ s = session)
        /\ UNCHANGED <<task, running, session, pc, room>>
    BY <1>6 DEF Disconnected, Untold, cameraVars, runVars
  <2>2. CASE room = s /\ running
    <3>1. session = s BY <2>2, RoomAssumption DEF Rooms, TypeOK, Sessions
    <3>2. Idle("stop") BY <2>1, <3>1 DEF Rooms
    <3>3. left' = [left EXCEPT !["stop"] = Cameras]
      BY <1>6, <2>2, <3>2 DEF Disconnected, IsCurrentRoom, StartStop
    <3>4. \A t \in Untold : t.camera \in left'["stop"]
      BY <3>3, TasksAre DEF Untold, TypeOK
    <3> QED BY <2>1, <3>4 DEF Told
  <2>3. CASE room # s
    <3>1. left' = left
      BY <1>6, <2>3 DEF Disconnected, IsCurrentRoom, actorVars
    <3>2. s = session => pc \in {"claim", "pause", "over"}
      BY <2>1, <2>3 DEF Rooms, TypeOK
    <3> QED BY <2>1, <3>1, <3>2 DEF Told
  <2>4. CASE room = s /\ ~ running
    <3>1. left' = left
      BY <1>6, <2>4 DEF Disconnected, actorVars
    <3> QED BY <2>1, <2>4, <3>1 DEF Told
  <2> QED BY <2>2, <2>3, <2>4
<1>7. ASSUME NEW a \in Actors, Visit(a) PROVE Told'
  <2>1. PICK c \in left[a] :
          /\ left' = [left EXCEPT ![a] = @ \ {c}]
          /\ IF Live(c) THEN told' = told \cup {task[c]} ELSE told' = told
          /\ UNCHANGED <<task, strays, alive, running, session, pc, event>>
    BY <1>7 DEF Visit, VisitUnchanged, runVars, roomVars
  <2>2. Untold' \subseteq Untold BY <2>1 DEF Untold
  <2>3. \A t \in Untold' : t.camera # c
    <3> SUFFICES ASSUME NEW t \in Untold', t.camera = c PROVE FALSE
      OBVIOUS
    <3>1. task[c] = t /\ t \in alive BY <2>1, <2>2 DEF Told, Untold
    <3> QED BY <2>1, <3>1 DEF Live, Untold
  <2>4. \A t \in Untold' : t.camera \in left["stop"] => t.camera \in left'["stop"]
    BY <2>1, <2>3 DEF TypeOK
  <2> QED BY <2>1, <2>2, <2>4 DEF Told
<1>8. ASSUME NEW a \in Actors, CameraIsStopped(a) PROVE Told'
  <2>1. PICK c \in Cameras :
          /\ task' = [task EXCEPT ![c] = None]
          /\ strays' = strays \cup ({task[c]} \cap (alive \ told))
          /\ UNCHANGED <<left, told, alive, running, session, pc, event>>
    <3>1. tk[a].camera \in Cameras BY <1>8, TasksAre DEF CameraIsStopped, TypeOK
    <3> QED BY <1>8, <3>1 DEF CameraIsStopped, VisitUnchanged, runVars, roomVars
  <2>2. Untold' \subseteq Untold BY <2>1 DEF Untold
  <2>3. \A t \in Untold' : task'[t.camera] = t
    <3> SUFFICES ASSUME NEW t \in Untold' PROVE task'[t.camera] = t
      OBVIOUS
    <3>1. task[t.camera] = t /\ t.camera \in Cameras
      BY <2>2, TasksAre DEF Told, Untold, TypeOK
    <3>2. t.camera # c BY <2>1, <3>1 DEF Untold
    <3> QED BY <2>1, <3>1, <3>2 DEF TypeOK
  <2> QED BY <2>1, <2>2, <2>3 DEF Told
<1>9. ASSUME NEW a \in Actors, CameraIsLate(a) PROVE Told'
  BY <1>9, ToldStays DEF CameraIsLate, VisitUnchanged, Untold, runVars, roomVars
<1>10. ASSUME NEW t \in alive, CameraEnds(t) PROVE Told'
  <2>1. Untold' \subseteq Untold BY <1>10 DEF CameraEnds, Untold
  <2> QED BY <1>10, <2>1, ToldStays DEF CameraEnds, runVars, roomVars, actorVars
<1>11. ASSUME NEW c \in Cameras, RestartFinished(c) PROVE Told'
  BY <1>11, RestartKeepsTold DEF RestartFinished, RestartUnchanged, roomVars
<1>12. ASSUME NEW c \in Cameras, CancelStalled(c) PROVE Told'
  <2>1. Untold' \subseteq Untold /\ UNCHANGED <<task, left, running, pc, session, event>>
    BY <1>12 DEF CancelStalled, VisitUnchanged, Untold, runVars, roomVars
  <2> QED BY <2>1, ToldStays
<1>13. CASE RestartStalled
  <2> DEFINE c == tk["supervisor"].camera
  <2>1. c \in Cameras BY <1>13, TasksAre DEF RestartStalled, TypeOK
  <2>2. ~ Live(c)
    BY <1>13, NoTask DEF RestartStalled, Supervised, Live, TypeOK
  <2> QED BY <1>13, <2>1, <2>2, RestartKeepsTold DEF RestartStalled, RestartUnchanged, roomVars
<1>14. CASE PlannedShutdown \/ EarlyIsOver \/ ControlIsLost \/ ControlReturns
  <2>1. Untold' = Untold /\ UNCHANGED <<task, left, running, pc, session, event>>
    BY <1>14 DEF PlannedShutdown, EarlyIsOver, ControlIsLost, ControlReturns, Untold,
                 runVars, roomVars, cameraVars, actorVars
  <2> QED BY <2>1, ToldStays
<1>15. CASE RecoveryIsDue
  <2>1. Untold' = Untold /\ UNCHANGED <<task, running, pc, session, event>>
    BY <1>15 DEF RecoveryIsDue, Untold, runVars, cameraVars
  <2>2. left'["stop"] = left["stop"]
    BY <1>15 DEF RecoveryIsDue, TypeOK
  <2> QED BY <2>1, <2>2, ToldStays
<1>16. CASE ForceDisconnects \/ ForceIsOver
  <2>1. Untold' = Untold /\ UNCHANGED <<task, left, running, pc, session, event>>
    BY <1>16 DEF ForceDisconnects, ForceIsOver, ForceUnchanged, Untold, runVars, roomVars, cameraVars, actorVars
  <2> QED BY <2>1, ToldStays
<1>17. CASE Shutdown
  <2>1. Untold' = Untold /\ UNCHANGED <<task, left, pc, session, event>> /\ ~ running'
    BY <1>17 DEF Shutdown, Untold, roomVars, cameraVars, actorVars
  <2> QED BY <2>1 DEF Told
<1>18. CASE UNCHANGED vars
  BY <1>18, ToldStays DEF vars, Untold, runVars, roomVars, cameraVars, actorVars
<1> QED BY <1>1, <1>2, <1>3, <1>4, <1>5, <1>6, <1>7, <1>8, <1>9, <1>10, <1>11, <1>12,
           <1>13, <1>14, <1>15, <1>16, <1>17, <1>18 DEF Next, RunStep, StopStep, ForceStep

-----------------------------------------------------------------------------
(* The session that runs.                                                  *)

Undisturbed == pc = "loop" /\ running /\ session \in open /\ ~ asked /\ ~ overtaken

LEMMA KeepsStays ==
  ASSUME SessionKeepsItsCameras, Undisturbed' => Undisturbed,
         UNCHANGED <<connected, room, session, task>>
  PROVE  SessionKeepsItsCameras'
BY DEF SessionKeepsItsCameras, Undisturbed

LEMMA RestartKeepsSession ==
  ASSUME IInv, NEW c \in Cameras, Restart(c),
         UNCHANGED <<connected, runVars, open, asked>>
  PROVE  SessionKeepsItsCameras'
<1> USE DEF IInv
<1>1. CASE UNCHANGED task
  BY <1>1, KeepsStays DEF runVars, Undisturbed
<1>2. ASSUME NEW n \in Tasks, n.session = room, n # None, task' = [task EXCEPT ![c] = n]
      PROVE  SessionKeepsItsCameras'
  <2>1. pc = "loop" => room = session BY DEF Rooms
  <2> QED BY <1>2, <2>1 DEF SessionKeepsItsCameras, runVars, TypeOK
<1> QED BY <1>1, <1>2, RestartStartsOne

LEMMA SessionIsKept ==
  ASSUME IInv, [Next]_vars
  PROVE  SessionKeepsItsCameras'
<1> USE ActorsAre DEF IInv
<1>1. CASE Claim \/ JoinFails \/ LeaveLoop \/ EventIsSet \/ EventTimesOut \/ ShutdownIsOver \/ Pause
  <2>1. pc' # "loop"
    BY <1>1 DEF Claim, JoinFails, LeaveLoop, EventIsSet, EventTimesOut, ShutdownIsOver, Pause, GiveUp
  <2> QED BY <2>1 DEF SessionKeepsItsCameras
<1>2. CASE Join
  <2>1. session \in Sessions /\ room = session BY <1>2 DEF Join, Rooms, TypeOK
  <2>2. \A c \in Cameras : NewTask(c, session).session = session /\ NewTask(c, session) # None
    BY <1>2, <2>1, NamesAreFree, NewTaskIsFresh DEF Join
  <2> QED BY <1>2, <2>1, <2>2 DEF Join, SessionKeepsItsCameras
<1>3. ASSUME NEW s \in Sessions, Disconnected(s) PROVE SessionKeepsItsCameras'
  <2>1. open' = open \ {s} /\ UNCHANGED <<runVars, asked, task>>
    BY <1>3 DEF Disconnected, cameraVars
  <2>2. CASE s = session
    BY <2>1, <2>2 DEF SessionKeepsItsCameras, runVars
  <2>3. CASE s # session /\ pc = "loop"
    <3>1. connected' = connected
      BY <1>3, <2>3 DEF Disconnected, IsCurrentRoom, Rooms
    <3> QED BY <2>1, <3>1, KeepsStays DEF Undisturbed, runVars
  <2>4. CASE pc # "loop"
    BY <2>1, <2>4 DEF SessionKeepsItsCameras, runVars
  <2> QED BY <2>2, <2>3, <2>4
<1>4. ASSUME NEW a \in Actors, CameraIsStopped(a) PROVE SessionKeepsItsCameras'
  <2>1. UNCHANGED <<runVars, connected, roomVars>> /\ ~ Idle(a) /\ a # "supervisor"
    BY <1>4 DEF CameraIsStopped, VisitUnchanged, Idle
  <2>2. ~ Undisturbed
    BY <2>1 DEF Undisturbed, Rooms
  <2> QED BY <2>1, <2>2 DEF Undisturbed, SessionKeepsItsCameras, runVars, roomVars
<1>5. ASSUME NEW a \in Actors, Visit(a) \/ CameraIsLate(a) PROVE SessionKeepsItsCameras'
  <2>1. UNCHANGED <<runVars, connected, roomVars, task>>
    BY <1>5 DEF Visit, CameraIsLate, VisitUnchanged
  <2> QED BY <2>1, KeepsStays DEF Undisturbed, runVars, roomVars
<1>6. ASSUME NEW t \in alive, CameraEnds(t) PROVE SessionKeepsItsCameras'
  BY <1>6, KeepsStays DEF CameraEnds, Undisturbed, runVars, roomVars
<1>7. ASSUME NEW c \in Cameras, RestartFinished(c) PROVE SessionKeepsItsCameras'
  BY <1>7, RestartKeepsSession DEF RestartFinished, RestartUnchanged, roomVars
<1>8. ASSUME NEW c \in Cameras, CancelStalled(c) PROVE SessionKeepsItsCameras'
  BY <1>8, KeepsStays DEF CancelStalled, VisitUnchanged, Undisturbed, runVars, roomVars
<1>9. CASE RestartStalled
  <2>1. tk["supervisor"].camera \in Cameras BY <1>9, TasksAre DEF RestartStalled, TypeOK
  <2> QED BY <1>9, <2>1, RestartKeepsSession DEF RestartStalled, RestartUnchanged, roomVars
<1>10. CASE PlannedShutdown
  BY <1>10 DEF PlannedShutdown, SessionKeepsItsCameras
<1>11. CASE EarlyIsOver \/ ControlIsLost \/ ControlReturns
  <2>1. UNCHANGED <<runVars, connected, roomVars, task>>
    BY <1>11 DEF EarlyIsOver, ControlIsLost, ControlReturns, cameraVars
  <2> QED BY <2>1, KeepsStays DEF Undisturbed, runVars, roomVars
<1>12. CASE RecoveryIsDue
  <2>1. asked' \/ UNCHANGED <<connected, asked>>
    BY <1>12 DEF RecoveryIsDue
  <2>2. UNCHANGED <<runVars, open, task>>
    BY <1>12 DEF RecoveryIsDue, cameraVars
  <2> QED BY <2>1, <2>2 DEF SessionKeepsItsCameras, runVars
<1>13. CASE ForceDisconnects \/ ForceIsOver
  BY <1>13, KeepsStays DEF ForceDisconnects, ForceIsOver, ForceUnchanged, Undisturbed, runVars, roomVars, cameraVars
<1>14. CASE Shutdown
  BY <1>14 DEF Shutdown, SessionKeepsItsCameras
<1>15. CASE UNCHANGED vars
  BY <1>15, KeepsStays DEF vars, Undisturbed, runVars, roomVars, cameraVars
<1> QED BY <1>1, <1>2, <1>3, <1>4, <1>5, <1>6, <1>7, <1>8, <1>9, <1>10, <1>11, <1>12,
           <1>13, <1>14, <1>15 DEF Next, RunStep, StopStep, ForceStep

-----------------------------------------------------------------------------
(* The theorems.                                                           *)

LEMMA InitHolds == Init => IInv
<1> SUFFICES ASSUME Init PROVE IInv
  OBVIOUS
<1> USE ActorsAre DEF Init
<1>1. TypeOK BY DEF TypeOK
<1>2. Rooms BY RoomAssumption DEF Rooms, Idle
<1>3. Supervised BY DEF Supervised
<1>4. Names BY DEF Names, InUse
<1>5. Told BY DEF Told, Untold
<1>6. SessionKeepsItsCameras BY DEF SessionKeepsItsCameras
<1> QED BY <1>1, <1>2, <1>3, <1>4, <1>5, <1>6 DEF IInv

LEMMA Invariance == Spec => []IInv
<1>1. IInv /\ [Next]_vars => IInv'
  BY TypesAreKept, RoomsAreKept, SupervisedIsKept, NamesAreKept, ToldIsKept, SessionIsKept DEF IInv
<1> QED BY <1>1, InitHolds, PTL DEF Spec

\* Every variable has its type.
THEOREM RoomTypes == Spec => []TypeOK
<1>1. IInv => TypeOK BY DEF IInv
<1> QED BY <1>1, Invariance, PTL

\* A session whose room lives, which nobody asked to end and no reconnect of the
\* last one still stops, is connected and has a task of its own for every camera,
\* however many sessions came before it and whatever they left behind.
THEOREM LivingSessionIsUndisturbed == Spec => []SessionKeepsItsCameras
<1>1. IInv => SessionKeepsItsCameras BY DEF IInv
<1> QED BY <1>1, Invariance, PTL

\* While a session runs, a camera of an earlier one that was not told to end is
\* one of the strays that the property names.
THEOREM OldCamerasAreAccountedFor == Spec => []OldCamerasWereTold
<1>1. IInv => OldCamerasWereTold BY DEF IInv, Told, Untold, OldCamerasWereTold
<1> QED BY <1>1, Invariance, PTL
=============================================================================
