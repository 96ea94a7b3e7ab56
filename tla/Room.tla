--------------------------------- MODULE Room ---------------------------------
(***************************************************************************)
(* The media sessions of a client that publishes from Python: run() joins  *)
(* one LiveKit room after the other (client_runtime.py), and four other    *)
(* coroutines end a session or its cameras: the callback of the room, the  *)
(* forced reconnect after a long control outage, the early disconnect      *)
(* before a planned shutdown (client_media.py) and the supervisor          *)
(* (client_ops.py). They share _room, _livekit_connected and the tasks of  *)
(* the cameras, and outlive the session they were started for.             *)
(*                                                                         *)
(* A camera is a task with the room it was started with; what it owns is   *)
(* in Publisher, how restarts of one camera exclude each other in Media.   *)
(* Every wait with a deadline may end at any moment: of the clock only one *)
(* comparison is kept, in Join.                                            *)
(***************************************************************************)
EXTENDS Naturals, FiniteSets

CONSTANTS Cameras,      \* enabled and published
          MaxSessions,  \* bound: rooms that are joined or tried
          Copies,       \* bound: tasks of one camera in one session at a time
          None          \* no task

ASSUME RoomAssumption ==
  /\ IsFiniteSet(Cameras) /\ MaxSessions \in Nat \ {0} /\ Copies \in Nat \ {0, 1}

Sessions == 1 .. MaxSessions
Tasks == [camera : Cameras, session : Sessions, copy : 1 .. Copies]

\* Who cancels cameras and waits for them: _room_shutdown_task, the forced
\* reconnect, the supervisor.
Actors == {"stop", "force", "supervisor"}

ASSUME NoTask == None \notin Tasks

VARIABLES
  running,    \* _running
  connected,  \* _livekit_connected
  pc,         \* where run() is
  session,    \* _active_room_session_id
  room,       \* the session of _room, 0 for None
  open,       \* sessions whose rooms were joined and have not reported their end
  event,      \* _active_room_disconnected_event is set
  asked,      \* the client ends the room of the current session
  task,       \* CameraRuntime.task
  alive,      \* camera tasks that are not done
  told,       \* those that were cancelled
  left,       \* the cameras an actor has yet to visit
  tk,         \* the task it waits for
  force,      \* where the forced reconnect is
  early,      \* the room _shutdown_disconnect_task disconnects, 0 for none
  outage,     \* of the control channel, and whether the room was lost in it
  recovery,   \* _recovery_restart_task waits its 5 s
  overtaken,  \* history: this session began before a forced reconnect had stopped the last
  strays      \* history: cameras whose session was given up before its room reported
              \* its end, that the supervisor started after the connection was lost, or
              \* whose runtime was cleared by a stop that had waited for another task

runVars == <<running, pc, session, room, overtaken>>
roomVars == <<open, event, asked>>
cameraVars == <<task, alive, told, strays>>
actorVars == <<left, tk>>
forceVars == <<force, recovery>>
gatewayVars == <<early, outage>>
vars == <<runVars, connected, roomVars, cameraVars, actorVars, forceVars, gatewayVars>>

Live(c) == task[c] \in alive
Idle(a) == left[a] = {} /\ tk[a] = None

Init ==
  /\ running = TRUE /\ connected = FALSE
  /\ pc = "claim" /\ session = 0 /\ room = 0
  /\ open = {} /\ event = FALSE /\ asked = FALSE
  /\ task = [c \in Cameras |-> None] /\ alive = {} /\ told = {} /\ strays = {}
  /\ left = [a \in Actors |-> {}] /\ tk = [a \in Actors |-> None]
  /\ force = "idle" /\ recovery = FALSE
  /\ early = 0 /\ outage = "no"
  /\ overtaken = FALSE

-----------------------------------------------------------------------------
(* run() and _connect.                                                     *)

\* A token, a session number, a room.
Claim ==
  /\ pc = "claim" /\ running
  /\ pc' = "joining" /\ session' = session + 1 /\ room' = session + 1
  /\ event' = FALSE /\ asked' = FALSE
  /\ UNCHANGED <<running, overtaken, connected, open, cameraVars, actorVars,
                 forceVars, gatewayVars>>

\* Names of tasks of c in session s that nothing refers to.
Fresh(c, s) ==
  {t \in Tasks : t.camera = c /\ t.session = s /\ t \notin alive
                 /\ \A a \in Actors : tk[a] # t}

NewTask(c, s) == CHOOSE t \in Fresh(c, s) : TRUE

\* room.connect, then _start_all_cameras, which replaces every task without a
\* look at it. The wait of the supervisor (6.5 s) is shorter than what lies
\* between the end of a session and this (the 6 s for the event or the stop of
\* the same camera, and the pause of 2 s).
Join ==
  /\ pc = "joining" /\ Idle("supervisor")
  /\ pc' = "loop" /\ open' = open \cup {session}
  /\ connected' = TRUE
  /\ task' = [c \in Cameras |-> NewTask(c, session)]
  /\ alive' = alive \cup {NewTask(c, session) : c \in Cameras}
  /\ overtaken' = ~ Idle("force")
  /\ UNCHANGED <<running, session, room, event, asked, told, strays, actorVars,
                 forceVars, gatewayVars>>

JoinFails ==
  /\ pc = "joining" /\ session < MaxSessions
  /\ pc' = "event" /\ connected' = FALSE
  /\ UNCHANGED <<running, session, room, overtaken, roomVars, cameraVars, actorVars,
                 forceVars, gatewayVars>>

EndUnchanged ==
  UNCHANGED <<running, session, overtaken, connected, roomVars, task, alive, told,
              actorVars, forceVars, gatewayVars>>

\* The loop looks at its two flags once a second. (Bound: the last session is
\* not left.)
LeaveLoop ==
  /\ pc = "loop" /\ ~ (running /\ connected) /\ session < MaxSessions
  /\ pc' = "event"
  /\ UNCHANGED <<room, strays>> /\ EndUnchanged

\* Mutant: the stop of the media tasks is not awaited.
GiveUpAtOnce == pc' = "pause" /\ room' = 0

\* _room_shutdown_task is awaited where it runs; then the room is cleared.
GiveUp == IF Idle("stop") THEN pc' = "pause" /\ room' = 0
                          ELSE pc' = "shutdown" /\ UNCHANGED room

EventIsSet ==
  /\ pc = "event" /\ event
  /\ GiveUp
  /\ UNCHANGED strays /\ EndUnchanged

\* Mutant: no deadline for the event.
EventNeverTimesOut == FALSE /\ UNCHANGED vars

\* 6 s.
EventTimesOut ==
  /\ pc = "event" /\ ~ event
  /\ GiveUp
  /\ strays' = strays \cup (alive \ told)
  /\ EndUnchanged

ShutdownIsOver ==
  /\ pc = "shutdown" /\ Idle("stop")
  /\ pc' = "pause" /\ room' = 0
  /\ UNCHANGED strays /\ EndUnchanged

\* The reconnect delay.
Pause ==
  /\ pc = "pause"
  /\ pc' = IF running THEN "claim" ELSE "over"
  /\ UNCHANGED <<room, strays>> /\ EndUnchanged

-----------------------------------------------------------------------------
(* The callback of a room.                                                 *)

StartStop == left' = [left EXCEPT !["stop"] = Cameras] /\ UNCHANGED tk

\* Mutant: the callback does not look whether its room is the current one.
IsAnyRoom(s) == TRUE
IsCurrentRoom(s) == room = s

\* on_disconnected of the room of session s: the server, the network, or the
\* client's own disconnect(), at any time after it was joined.
Disconnected(s) ==
  /\ s \in open /\ open' = open \ {s}
  /\ event' = (event \/ s = session)
  /\ IF IsCurrentRoom(s)
     THEN /\ outage' = IF outage = "no" THEN "no" ELSE "lost"
          /\ connected' = (connected /\ ~ running)
          /\ IF running /\ Idle("stop") THEN StartStop ELSE UNCHANGED actorVars
     ELSE UNCHANGED <<outage, connected, actorVars>>
  /\ UNCHANGED <<runVars, asked, cameraVars, forceVars, early>>

-----------------------------------------------------------------------------
(* _cancel_camera_task and _stop_media_tasks.                              *)

VisitUnchanged == UNCHANGED <<runVars, connected, roomVars, forceVars, gatewayVars, alive>>

\* The next camera, in the order of _camera_runtimes: a task that is done is
\* left as it is.
Visit(a) ==
  /\ left[a] # {} /\ tk[a] = None
  /\ LET c == CHOOSE d \in left[a] : TRUE IN
     /\ left' = [left EXCEPT ![a] = @ \ {c}]
     /\ IF Live(c)
        THEN /\ told' = told \cup {task[c]}
             /\ tk' = [tk EXCEPT ![a] = task[c]]
        ELSE UNCHANGED <<told, tk>>
  /\ UNCHANGED <<task, strays>> /\ VisitUnchanged

\* It is done: runtime.task is cleared, whatever it names by now. (The end of
\* its microphone, which is awaited next, is in Publisher.)
CameraIsStopped(a) ==
  /\ a # "supervisor"
  /\ tk[a] # None /\ tk[a] \notin alive
  /\ LET c == tk[a].camera IN
     /\ task' = [task EXCEPT ![c] = None]
     /\ strays' = strays \cup ({task[c]} \cap (alive \ told))
  /\ tk' = [tk EXCEPT ![a] = None]
  /\ UNCHANGED <<left, told>> /\ VisitUnchanged

\* 6.5 s: the camera keeps its task.
CameraIsLate(a) ==
  /\ tk[a] \in alive
  /\ tk' = [tk EXCEPT ![a] = None]
  /\ UNCHANGED <<left, task, told, strays>> /\ VisitUnchanged

\* A task ends: because it was cancelled, with an error, because a frame finds
\* the connection gone.
CameraEnds(t) ==
  /\ t \in alive
  /\ alive' = alive \ {t} /\ told' = told \ {t} /\ strays' = strays \ {t}
  /\ UNCHANGED <<runVars, connected, roomVars, task, actorVars, forceVars, gatewayVars>>

-----------------------------------------------------------------------------
(* The supervisor.                                                         *)

\* A camera that starts without a room raises at once: its task is done, as the
\* one it replaces.
Restart(c) ==
  IF room = 0
  THEN UNCHANGED <<task, alive, strays>>
  ELSE /\ Fresh(c, room) # {}
       /\ task' = [task EXCEPT ![c] = NewTask(c, room)]
       /\ alive' = alive \cup {NewTask(c, room)}
       /\ strays' = IF connected THEN strays ELSE strays \cup {NewTask(c, room)}

RestartUnchanged == UNCHANGED <<runVars, connected, roomVars, told, left, forceVars, gatewayVars>>

\* A camera whose task has ended is started anew.
RestartFinished(c) ==
  /\ connected /\ Idle("supervisor") /\ task[c] # None /\ ~ Live(c)
  /\ Restart(c)
  /\ UNCHANGED tk /\ RestartUnchanged

\* One that delivers no frames for 15 s is cancelled...
CancelStalled(c) ==
  /\ connected /\ Idle("supervisor") /\ Live(c)
  /\ told' = told \cup {task[c]}
  /\ tk' = [tk EXCEPT !["supervisor"] = task[c]]
  /\ UNCHANGED <<left, task, strays>> /\ VisitUnchanged

\* ...and started anew once it is done, connected or not.
RestartStalled ==
  /\ tk["supervisor"] # None /\ tk["supervisor"] \notin alive
  /\ Restart(tk["supervisor"].camera)
  /\ tk' = [tk EXCEPT !["supervisor"] = None]
  /\ RestartUnchanged

-----------------------------------------------------------------------------
(* What the control gateway makes of its own losses.                       *)

\* _handle_gateway_shutdown with scope "full", and the first step of
\* _disconnect_livekit_for_shutdown. Where such a task still waits, or has ended
\* this session, another announcement changes nothing.
PlannedShutdown ==
  /\ connected /\ room # 0 /\ early = 0
  /\ early' = room /\ connected' = FALSE /\ asked' = TRUE
  /\ UNCHANGED <<runVars, open, event, cameraVars, actorVars, forceVars, outage>>

\* room.disconnect() has no deadline there.
EarlyIsOver ==
  /\ early # 0 /\ early \notin open
  /\ early' = 0
  /\ UNCHANGED <<runVars, connected, roomVars, cameraVars, actorVars, forceVars, outage>>

ControlIsLost ==
  /\ running /\ outage = "no"
  /\ outage' = "on"
  /\ UNCHANGED <<runVars, connected, roomVars, cameraVars, actorVars, forceVars, early>>

\* _handle_gateway_reconnected: a long outage the room survived as far as anyone
\* knows. A timer that runs is replaced.
ControlReturns ==
  /\ running /\ outage # "no" /\ outage' = "no"
  /\ recovery' \in IF connected /\ outage = "on" THEN {recovery, TRUE} ELSE {recovery}
  /\ UNCHANGED <<runVars, connected, roomVars, cameraVars, actorVars, force, early>>

-----------------------------------------------------------------------------
(* _force_livekit_reconnect_after_gateway_recovery.                        *)

\* Five seconds later. One reconnect at a time, and of a session that is there.
RecoveryIsDue ==
  /\ recovery /\ recovery' = FALSE
  /\ IF running /\ connected /\ room # 0 /\ force = "idle"
     THEN /\ force' = "stopping"
          /\ connected' = FALSE
          /\ asked' = TRUE
          /\ left' = [left EXCEPT !["force"] = Cameras]
     ELSE UNCHANGED <<force, connected, asked, left>>
  /\ UNCHANGED <<runVars, open, event, cameraVars, tk, gatewayVars>>

ForceUnchanged ==
  UNCHANGED <<runVars, connected, roomVars, cameraVars, actorVars, recovery, gatewayVars>>

\* disconnect() returns, raises, or takes 5 s.
ForceDisconnects ==
  /\ force = "stopping" /\ Idle("force")
  /\ force' = "leaving"
  /\ ForceUnchanged

\* The event of a session that is still the current one, or 6 s; then
\* _room_shutdown_task where it runs.
ForceIsOver ==
  /\ force = "leaving" /\ Idle("stop")
  /\ force' = "idle"
  /\ ForceUnchanged

\* shutdown(): its flags. What it does to the tasks is in Media and Control.
Shutdown ==
  /\ running /\ running' = FALSE /\ connected' = FALSE
  /\ UNCHANGED <<pc, session, room, overtaken, roomVars, cameraVars, actorVars,
                 forceVars, gatewayVars>>

-----------------------------------------------------------------------------

RunStep ==
  \/ Claim \/ Join \/ JoinFails \/ LeaveLoop
  \/ EventIsSet \/ EventTimesOut \/ ShutdownIsOver \/ Pause

StopStep(a) == Visit(a) \/ CameraIsStopped(a) \/ CameraIsLate(a)

ForceStep ==
  RecoveryIsDue \/ ForceDisconnects \/ ForceIsOver

Next ==
  \/ RunStep
  \/ \E s \in Sessions : Disconnected(s)
  \/ \E a \in Actors : StopStep(a)
  \/ \E t \in alive : CameraEnds(t)
  \/ \E c \in Cameras : RestartFinished(c) \/ CancelStalled(c)
  \/ RestartStalled
  \/ PlannedShutdown \/ EarlyIsOver \/ ControlIsLost \/ ControlReturns
  \/ ForceStep
  \/ Shutdown

Spec == Init /\ [][Next]_vars

\* The claim is answered, a join succeeds or fails, the timers fire. No room has
\* to report its end, no camera to obey.
FairSpec ==
  /\ Spec
  /\ WF_vars(RunStep)
  /\ \A a \in Actors : WF_vars(StopStep(a))
  /\ WF_vars(RestartStalled)

-----------------------------------------------------------------------------
(* Properties.                                                             *)

TypeOK ==
  /\ {running, connected, event, asked, recovery, overtaken} \subseteq BOOLEAN
  /\ pc \in {"claim", "joining", "loop", "event", "shutdown", "pause", "over"}
  /\ {session, room, early} \subseteq Sessions \cup {0}
  /\ open \subseteq Sessions
  /\ task \in [Cameras -> Tasks \cup {None}]
  /\ alive \subseteq Tasks /\ told \subseteq alive /\ strays \subseteq alive
  /\ left \in [Actors -> SUBSET Cameras] /\ tk \in [Actors -> Tasks \cup {None}]
  /\ force \in {"idle", "stopping", "leaving"}
  /\ outage \in {"no", "on", "lost"}

\* While its room lives and nobody has asked it to end, a session is connected
\* and every camera's runtime names a task of this session: neither the end of an
\* earlier room, nor the stop of an earlier session's media, nor a restart
\* reaches it - except a forced reconnect that still stops media when the next
\* session begins.
SessionKeepsItsCameras ==
  pc = "loop" /\ running /\ session \in open /\ ~ asked /\ ~ overtaken
    => /\ connected /\ room = session
       /\ \A c \in Cameras : task[c] # None /\ task[c].session = session

\* A camera that outlives its session was told to end, unless nobody heard of
\* the end of its room within 6 s, the supervisor was restarting it then, or a
\* forced reconnect of the session before had cleared its runtime: no other
\* camera publishes into an old room beside its successor.
OldCamerasWereTold ==
  pc = "loop" =>
    \A t \in alive \ (told \cup strays) : t.session = session

\* A session that has lost its connection is followed by another attempt, however
\* long its room, its cameras and the other coroutines take.
LostMediaIsRetried ==
  \A s \in 1 .. MaxSessions - 1 :
    (session = s /\ pc # "joining" /\ ~ connected) ~> (session # s \/ ~ running)
=============================================================================
