-------------------------------- MODULE Media --------------------------------
(***************************************************************************)
(* Who owns a camera: the publisher tasks of a client whose profiles       *)
(* publish directly (client_media.py, client_ops.py, client_runtime.py,    *)
(* publisher.py). One asyncio loop runs several coroutines that start,     *)
(* cancel and replace the same tasks: the supervisor, the gateway          *)
(* connection and the action poll, which apply stream policies and remote  *)
(* restarts, the recovery after a control outage, run() and shutdown().    *)
(*                                                                         *)
(* A coroutine runs until its next await, which is the unit of an action   *)
(* here. Only restarts take _camera_restart_lock; a stream policy and the  *)
(* end of run() touch the same runtimes without it.                        *)
(*                                                                         *)
(* A publisher is alive from the creation of its task until the task is    *)
(* done, teardown included; its retries without audio or with another      *)
(* codec happen inside the task. Names of publishers are used again once   *)
(* nothing refers to them. Time is what the code measures of it: a camera  *)
(* without frames for 15 s, 60 s of stable frames, a publisher that is not *)
(* done 6.5 s after its cancellation.                                      *)
(***************************************************************************)
EXTENDS Naturals, FiniteSets

CONSTANTS Cameras,     \* the enabled cameras
          OnDemand,    \* those with publish_mode "on_demand"
          Publishers,  \* names of publisher tasks
          Coroutines,  \* those that restart publishers, besides run()
          Budget,      \* restarts the supervisor gives a camera
          None         \* no publisher, no camera, no coroutine

Supervisor == "supervisor"
Recovery == "recovery"
Run == "run"

Appliers == {"gateway", "poll"}    \* they apply remote action payloads

Actors == Coroutines \cup {Run}
AlwaysOn == Cameras \ OnDemand

ASSUME MediaAssumption ==
  /\ OnDemand \subseteq Cameras
  /\ Coroutines \subseteq Appliers \cup {Supervisor, Recovery}
  /\ Budget \in Nat
  /\ None \notin Cameras \cup Publishers \cup Appliers \cup {Supervisor, Recovery, Run}

VARIABLES
  phase,    \* of the client: before, in and after its media session
  primary,  \* _primary_camera_id
  task,     \* CameraRuntime.task
  alive,    \* the publisher tasks of a camera that are not done
  ending,   \* those of them that were cancelled
  held,     \* CameraRuntime.state is "restarting" or "failed"
  count,    \* CameraRuntime.restart_count, capped at Budget + 1
  late,     \* no frame was recorded for 15 s, nor was the camera started
  lock,     \* who holds _camera_restart_lock
  pc,       \* what a coroutine is doing
  left,     \* the cameras it still has to visit
  cam,      \* the camera it cancels, in _cancel_camera_task
  tk,       \* the task it waits for there
  prev      \* previous_primary of the policy it applies

runtimeVars == <<task, alive, ending, held, count, late>>
waitVars == <<cam, tk>>
actorVars == <<lock, pc, left, prev, waitVars>>
vars == <<phase, primary, runtimeVars, actorVars>>

-----------------------------------------------------------------------------

\* Mutant: shutdown() leaves _livekit_connected set.
ConnectedForever == phase # "starting"

Connected == phase = "connected"    \* _livekit_connected

\* runtime.task is not None and not runtime.task.done().
Live(c) == task[c] \in alive[c]

\* runtime.task is not None and runtime.task.done().
Finished(c) == task[c] # None /\ ~ Live(c)

Wanted == AlwaysOn \cup (Cameras \cap {primary})

\* Names nothing refers to.
Free(c) == Publishers \ (alive[c] \cup {task[c]} \cup {tk[a] : a \in {b \in Actors : cam[b] = c}})

Named(c) == CHOOSE t \in Free(c) : TRUE

Waiting(a) == tk[a] # None

\* A coroutine between two awaits, and the turn of one that is not held up.
Busy(a) == pc[a] \in {"restart", "sync", "stop"} /\ ~ Waiting(a)

Turn(a) == \A b \in Actors \ {a} : ~ Busy(b)

LoopIsFree == \A a \in Actors : ~ Busy(a)

\* The cameras are visited in the order of _camera_runtimes.
NextOf(a) == CHOOSE c \in left[a] : TRUE

Init ==
  /\ phase = "starting"
  /\ primary \in Cameras
  /\ task = [c \in Cameras |-> None]
  /\ alive = [c \in Cameras |-> {}]
  /\ ending = [c \in Cameras |-> {}]
  /\ held = [c \in Cameras |-> FALSE]
  /\ count = [c \in Cameras |-> 0]
  /\ late = [c \in Cameras |-> FALSE]
  /\ lock = None
  /\ pc = [a \in Actors |-> "idle"]
  /\ left = [a \in Actors |-> {}]
  /\ cam = [a \in Actors |-> None]
  /\ tk = [a \in Actors |-> None]
  /\ prev = [a \in Actors |-> None]

\* A task for the publisher of c takes the place of whatever runtime.task is.
\* Before the claim was answered there is no token: the publisher raises at once.
StartCamera(c) ==
  /\ Free(c) # {}
  /\ task' = [task EXCEPT ![c] = Named(c)]
  /\ alive' = IF phase = "starting" THEN alive ELSE [alive EXCEPT ![c] = @ \cup {Named(c)}]
  /\ held' = [held EXCEPT ![c] = FALSE]
  /\ late' = [late EXCEPT ![c] = FALSE]

\* task.cancel(), then asyncio.wait for it.
CancelCamera(a, c) ==
  /\ ending' = [ending EXCEPT ![c] = @ \cup {task[c]}]
  /\ cam' = [cam EXCEPT ![a] = c]
  /\ tk' = [tk EXCEPT ![a] = task[c]]

StopWaiting(a) ==
  /\ cam' = [cam EXCEPT ![a] = None]
  /\ tk' = [tk EXCEPT ![a] = None]

-----------------------------------------------------------------------------
(* The media session and what happens to a publisher by itself.            *)

\* _start_all_cameras: the tasks are replaced without a look at them.
Connect ==
  /\ LoopIsFree /\ phase = "starting"
  /\ phase' = "connected"
  /\ \A c \in Wanted : Free(c) # {}
  /\ task' = [c \in Cameras |-> IF c \in Wanted THEN Named(c) ELSE None]
  /\ alive' = [c \in Cameras |-> IF c \in Wanted THEN alive[c] \cup {Named(c)} ELSE alive[c]]
  /\ held' = [c \in Cameras |-> FALSE]
  /\ count' = [c \in Cameras |-> 0]
  /\ late' = [c \in Cameras |-> FALSE]
  /\ UNCHANGED <<primary, ending, actorVars>>

\* The process exits, the task raises, or its teardown is complete.
PublisherEnds(c, t) ==
  /\ LoopIsFree /\ t \in alive[c]
  /\ alive' = [alive EXCEPT ![c] = @ \ {t}]
  /\ ending' = [ending EXCEPT ![c] = @ \ {t}]
  /\ UNCHANGED <<phase, primary, task, held, count, late, actorVars>>

Quiet(c) ==
  /\ phase # "stopping"
  /\ Live(c) /\ ~ late[c]
  /\ late' = [late EXCEPT ![c] = TRUE]
  /\ UNCHANGED <<phase, primary, task, alive, ending, held, count, actorVars>>

-----------------------------------------------------------------------------
(* The supervisor's look at one camera, once a second. It may find new     *)
(* frames, of whichever publisher of the camera, or none.                  *)

\* _record_camera_progress; the count starts again after 60 stable seconds.
Progress(c) == [held : {FALSE}, late : {FALSE}, count : {0, count[c]}]

NoProgress(c) == [held |-> held[c], late |-> late[c], count |-> count[c]]

\* restart_count + 1: within the budget a restart is asked for.
Retry(c, found) ==
  IF found.count + 1 > Budget
  THEN /\ count' = [count EXCEPT ![c] = Budget + 1]
       /\ held' = [held EXCEPT ![c] = TRUE]
       /\ UNCHANGED actorVars
  ELSE /\ count' = [count EXCEPT ![c] = found.count + 1]
       /\ held' = [held EXCEPT ![c] = found.held]
       /\ pc' = [pc EXCEPT ![Supervisor] = "lock"]
       /\ left' = [left EXCEPT ![Supervisor] = {c}]
       /\ UNCHANGED <<lock, prev, waitVars>>

Looks == LoopIsFree /\ Supervisor \in Coroutines /\ pc[Supervisor] = "idle" /\ phase # "stopping"

RecordProgress(c) ==
  /\ Looks
  /\ task[c] # None \/ alive[c] # {}
  /\ ~ (Finished(c) /\ Connected)
  /\ \E found \in Progress(c) :
       /\ held' = [held EXCEPT ![c] = found.held]
       /\ late' = [late EXCEPT ![c] = found.late]
       /\ count' = [count EXCEPT ![c] = found.count]
  /\ UNCHANGED <<phase, primary, task, alive, ending, actorVars>>

RestartFinished(c) ==
  /\ Looks /\ Connected
  /\ Finished(c)
  /\ \E found \in Progress(c) \cup {NoProgress(c)} :
       /\ Retry(c, found)
       /\ late' = [late EXCEPT ![c] = found.late]
  /\ UNCHANGED <<phase, primary, task, alive, ending>>

RestartStalled(c) ==
  /\ Looks /\ Connected
  /\ Live(c) /\ late[c] /\ ~ held[c]
  /\ Retry(c, [NoProgress(c) EXCEPT !.held = TRUE])
  /\ UNCHANGED <<phase, primary, task, alive, ending, late>>

-----------------------------------------------------------------------------
(* _restart_camera_pipeline, under _camera_restart_lock.                   *)

Acquire(a) ==
  /\ Turn(a) /\ pc[a] = "lock" /\ lock = None
  /\ IF Connected
     THEN /\ lock' = a
          /\ pc' = [pc EXCEPT ![a] = "restart"]
          /\ left' = [left EXCEPT ![a] = IF a = Supervisor THEN @ ELSE Wanted]
     ELSE /\ pc' = [pc EXCEPT ![a] = "idle"]
          /\ left' = [left EXCEPT ![a] = {}]
          /\ UNCHANGED lock
  /\ UNCHANGED <<phase, primary, runtimeVars, prev, waitVars>>

\* The lock is given back after the last camera.
Continue(a, rest) ==
  /\ left' = [left EXCEPT ![a] = rest]
  /\ IF rest = {}
     THEN lock' = None /\ pc' = [pc EXCEPT ![a] = "idle"]
     ELSE UNCHANGED <<lock, pc>>

\* A live publisher is cancelled and waited for, another one replaced.
VisitRestart(a) ==
  /\ pc[a] = "restart" /\ ~ Waiting(a)
  /\ IF Live(NextOf(a))
     THEN /\ CancelCamera(a, NextOf(a))
          /\ UNCHANGED <<task, alive, held, late, lock, pc, left>>
     ELSE /\ StartCamera(NextOf(a))
          /\ Continue(a, left[a] \ {NextOf(a)})
          /\ UNCHANGED <<ending, waitVars>>
  /\ UNCHANGED <<phase, primary, count, prev>>

\* The task is done in time: runtime.task is cleared and started anew.
RestartCancelled(a) ==
  /\ pc[a] = "restart" /\ Waiting(a) /\ tk[a] \notin alive[cam[a]]
  /\ StartCamera(cam[a])
  /\ StopWaiting(a)
  /\ Continue(a, left[a] \ {cam[a]})
  /\ UNCHANGED <<phase, primary, ending, count, prev>>

\* It is not: the restart is blocked while runtime.task is not done.
RestartOverdue(a) ==
  /\ pc[a] = "restart" /\ Waiting(a) /\ tk[a] \in alive[cam[a]]
  /\ IF Live(cam[a])
     THEN /\ held' = [held EXCEPT ![cam[a]] = TRUE]
          /\ UNCHANGED <<task, alive, late>>
     ELSE StartCamera(cam[a])
  /\ StopWaiting(a)
  /\ Continue(a, left[a] \ {cam[a]})
  /\ UNCHANGED <<phase, primary, ending, count, prev>>

-----------------------------------------------------------------------------
(* Remote payloads: a stream policy that names a camera or only a bitrate, *)
(* and restart_video.                                                      *)

Idle(a) == Turn(a) /\ a \in Appliers \cap Coroutines /\ pc[a] = "idle" /\ phase # "stopping"

SelectCamera(a, c) ==
  /\ Idle(a)
  /\ prev' = [prev EXCEPT ![a] = primary]
  /\ primary' = c
  /\ pc' = [pc EXCEPT ![a] = "sync"]
  /\ left' = [left EXCEPT ![a] = OnDemand]
  /\ UNCHANGED <<phase, runtimeVars, lock, waitVars>>

RestartAll(a) ==
  /\ Idle(a) /\ Connected
  /\ pc' = [pc EXCEPT ![a] = "lock"]
  /\ UNCHANGED <<phase, primary, runtimeVars, lock, left, prev, waitVars>>

\* Mutant: the selected camera is started though its publisher is live.
VisitSyncAnew(a) ==
  /\ pc[a] = "sync" /\ ~ Waiting(a) /\ left[a] # {}
  /\ IF NextOf(a) = primary
     THEN StartCamera(NextOf(a))
     ELSE UNCHANGED <<task, alive, held, late>>
  /\ left' = [left EXCEPT ![a] = @ \ {NextOf(a)}]
  /\ UNCHANGED <<phase, primary, ending, count, lock, pc, prev, waitVars>>

\* _sync_on_demand_cameras, without the lock.
VisitSync(a) ==
  /\ pc[a] = "sync" /\ ~ Waiting(a) /\ left[a] # {}
  /\ LET c == NextOf(a) IN
       \/ /\ c = primary /\ ~ Live(c)
          /\ StartCamera(c)
          /\ left' = [left EXCEPT ![a] = @ \ {c}]
          /\ UNCHANGED <<ending, waitVars>>
       \/ /\ c # primary /\ Live(c)
          /\ CancelCamera(a, c)
          /\ UNCHANGED <<task, alive, held, late, left>>
       \/ /\ (c = primary) <=> Live(c)
          /\ left' = [left EXCEPT ![a] = @ \ {c}]
          /\ UNCHANGED <<task, alive, ending, held, late, waitVars>>
  /\ UNCHANGED <<phase, primary, count, lock, pc, prev>>

\* Done in time or not, the camera becomes "idle"; only then is it cleared.
SyncCancelled(a) ==
  /\ pc[a] = "sync" /\ Waiting(a)
  /\ task' = IF tk[a] \in alive[cam[a]] THEN task ELSE [task EXCEPT ![cam[a]] = None]
  /\ held' = [held EXCEPT ![cam[a]] = FALSE]
  /\ left' = [left EXCEPT ![a] = @ \ {cam[a]}]
  /\ StopWaiting(a)
  /\ UNCHANGED <<phase, primary, alive, ending, count, late, lock, pc, prev>>

\* A new primary or a new bitrate restarts what is published.
SyncEnds(a) ==
  /\ pc[a] = "sync" /\ ~ Waiting(a) /\ left[a] = {}
  /\ \/ Connected /\ pc' = [pc EXCEPT ![a] = "lock"]
     \/ (prev[a] = primary \/ ~ Connected) /\ pc' = [pc EXCEPT ![a] = "idle"]
  /\ prev' = [prev EXCEPT ![a] = None]
  /\ UNCHANGED <<phase, primary, runtimeVars, lock, left, waitVars>>

-----------------------------------------------------------------------------
(* The recovery after a control outage of 25 s or more.                    *)

\* async with gives the lock back when its coroutine is cancelled.
LockWithout(a) == IF lock = a THEN None ELSE lock

\* Mutant: the cancelled recovery keeps the lock.
ReconnectedLocked ==
  /\ LoopIsFree /\ Connected /\ Recovery \in Coroutines
  /\ pc' = [pc EXCEPT ![Recovery] = "sleep"]
  /\ left' = [left EXCEPT ![Recovery] = {}]
  /\ StopWaiting(Recovery)
  /\ UNCHANGED <<phase, primary, runtimeVars, lock, prev>>

\* A recovery that is still at work is cancelled, wherever it is.
Reconnected ==
  /\ LoopIsFree /\ Connected /\ Recovery \in Coroutines
  /\ lock' = LockWithout(Recovery)
  /\ pc' = [pc EXCEPT ![Recovery] = "sleep"]
  /\ left' = [left EXCEPT ![Recovery] = {}]
  /\ StopWaiting(Recovery)
  /\ UNCHANGED <<phase, primary, runtimeVars, prev>>

Recover ==
  /\ LoopIsFree /\ Recovery \in Coroutines /\ pc[Recovery] = "sleep"
  /\ pc' = [pc EXCEPT ![Recovery] = IF Connected THEN "lock" ELSE "idle"]
  /\ UNCHANGED <<phase, primary, runtimeVars, lock, left, prev, waitVars>>

-----------------------------------------------------------------------------
(* The end: shutdown() clears the flags and cancels what it finds, while   *)
(* _connect_direct_livekit stops the media tasks, each without the lock.   *)

Shutdown ==
  /\ LoopIsFree /\ phase # "stopping"
  /\ phase' = "stopping"
  /\ IF Connected
     THEN /\ pc' = [pc EXCEPT ![Run] = "stop"]
          /\ left' = [left EXCEPT ![Run] = Cameras]
     ELSE UNCHANGED <<pc, left>>
  /\ UNCHANGED <<primary, runtimeVars, lock, prev, waitVars>>

Leave(rest) ==
  /\ left' = [left EXCEPT ![Run] = rest]
  /\ pc' = IF rest = {} THEN [pc EXCEPT ![Run] = "idle"] ELSE pc

VisitStop ==
  /\ pc[Run] = "stop" /\ ~ Waiting(Run)
  /\ IF Live(NextOf(Run))
     THEN CancelCamera(Run, NextOf(Run)) /\ UNCHANGED <<left, pc>>
     ELSE Leave(left[Run] \ {NextOf(Run)}) /\ UNCHANGED <<ending, waitVars>>
  /\ UNCHANGED <<phase, primary, task, alive, held, count, late, lock, prev>>

\* Done in time or not, the next camera follows.
StopCancelled ==
  /\ pc[Run] = "stop" /\ Waiting(Run)
  /\ IF tk[Run] \in alive[cam[Run]]
     THEN /\ held' = [held EXCEPT ![cam[Run]] = TRUE]
          /\ UNCHANGED task
     ELSE /\ task' = [task EXCEPT ![cam[Run]] = None]
          /\ held' = [held EXCEPT ![cam[Run]] = FALSE]
  /\ StopWaiting(Run)
  /\ Leave(left[Run] \ {cam[Run]})
  /\ UNCHANGED <<phase, primary, alive, ending, count, late, lock, prev>>

ShutdownCancels(c) ==
  /\ LoopIsFree /\ phase = "stopping" /\ Live(c)
  /\ ending' = [ending EXCEPT ![c] = @ \cup {task[c]}]
  /\ UNCHANGED <<phase, primary, task, alive, held, count, late, actorVars>>

ShutdownDrops(a) ==
  /\ LoopIsFree /\ phase = "stopping" /\ pc[a] # "idle"
  /\ lock' = LockWithout(a)
  /\ pc' = [pc EXCEPT ![a] = "idle"]
  /\ left' = [left EXCEPT ![a] = {}]
  /\ StopWaiting(a)
  /\ UNCHANGED <<phase, primary, runtimeVars, prev>>

-----------------------------------------------------------------------------

Supervise(c) == RecordProgress(c) \/ RestartFinished(c) \/ RestartStalled(c)

Restart(a) == Turn(a) /\ (VisitRestart(a) \/ RestartCancelled(a) \/ RestartOverdue(a))

Sync(a) == Turn(a) /\ (VisitSync(a) \/ SyncCancelled(a) \/ SyncEnds(a))

Stop == Turn(Run) /\ (VisitStop \/ StopCancelled)

Apply(a) == (\E c \in Cameras : SelectCamera(a, c)) \/ RestartAll(a)

Next ==
  \/ Connect \/ Reconnected \/ Recover \/ Shutdown \/ Stop
  \/ \E c \in Cameras :
       \/ Quiet(c) \/ Supervise(c) \/ ShutdownCancels(c)
       \/ \E t \in Publishers : PublisherEnds(c, t)
  \/ \E a \in Actors : Apply(a) \/ Sync(a) \/ Acquire(a) \/ Restart(a) \/ ShutdownDrops(a)

Spec == Init /\ [][Next]_vars

(* The event loop runs what is ready in turn, timers and the supervisor's  *)
(* next look included, and asyncio.Lock is first come, first served: a     *)
(* step that can be taken again and again is taken. A cancelled publisher, *)
(* and one that sees running cleared, ends.                                *)
Fairness ==
  /\ \A c \in Cameras :
       /\ SF_vars(RestartFinished(c) \/ RestartStalled(c))
       /\ SF_vars(\E t \in Publishers :
                    PublisherEnds(c, t) /\ (t \in ending[c] \/ phase = "stopping"))
  /\ SF_vars(\E a \in Actors : Acquire(a))
  /\ SF_vars(\E a \in Actors : Restart(a))
  /\ SF_vars(\E a \in Actors : Sync(a))
  /\ WF_vars(Stop)

FairSpec == Spec /\ Fairness

-----------------------------------------------------------------------------

TypeOK ==
  /\ phase \in {"starting", "connected", "stopping"}
  /\ primary \in Cameras
  /\ task \in [Cameras -> Publishers \cup {None}]
  /\ alive \in [Cameras -> SUBSET Publishers]
  /\ ending \in [Cameras -> SUBSET Publishers]
  /\ held \in [Cameras -> BOOLEAN]
  /\ count \in [Cameras -> 0 .. Budget + 1]
  /\ late \in [Cameras -> BOOLEAN]
  /\ lock \in Actors \cup {None}
  /\ pc \in [Actors -> {"idle", "sleep", "lock", "restart", "sync", "stop"}]
  /\ left \in [Actors -> SUBSET Cameras]
  /\ cam \in [Actors -> Cameras \cup {None}]
  /\ tk \in [Actors -> Publishers \cup {None}]
  /\ prev \in [Actors -> Cameras \cup {None}]

OneOwnerOf(c) ==
  /\ \A t, u \in alive[c] : t = u
  /\ phase # "stopping" => alive[c] \subseteq {task[c]}

\* A camera never has two publishers, and while the client runs the one it
\* has is the one a restart would cancel (architecture.md, multi-camera.md).
OneOwner == \A c \in Cameras : OneOwnerOf(c)

\* A camera that lost its publisher, or whose publisher shows nothing for
\* 15 s, gets a new one, or frames again, or has used up its restarts.
CamerasRecover ==
  \A c \in AlwaysOn :
    Connected /\ (Finished(c) \/ late[c])
      ~> (Live(c) /\ ~ late[c]) \/ count[c] > Budget \/ ~ Connected

\* After shutdown() no publisher stays, nor does one that a restart under
\* way still starts.
ShutdownEndsPublishers ==
  phase = "stopping" ~> [](\A c \in Cameras : alive[c] = {})
==============================================================================
