--------------------------- MODULE CommandPipeline ---------------------------
(***************************************************************************)
(* The way of a hardware command through the client (client_commands.py    *)
(* and command_queue.py): validation and replay protection, the bounded    *)
(* latest-wins queue, the command loop, the adapter call in a thread, and  *)
(* what runs against it: stops, resets, the motion deadline, media that    *)
(* comes and goes, deliveries of the same action id, a ledger that cannot  *)
(* be written.                                                             *)
(*                                                                         *)
(* The event loop runs each handler up to its first await, so a handler is *)
(* one action. _hardware_lock has only the command loop as its user and is *)
(* never waited for: from pop_nowait to the adapter call is one action     *)
(* too. The safety latch appears as far as the pipeline reads it; the      *)
(* protocol behind a stop is SafetyStop. The deque is a set of items that  *)
(* carry their order of arrival.                                           *)
(***************************************************************************)
EXTENDS Naturals, FiniteSets

CONSTANTS Ids,            \* action ids of hardware commands
          Motion,         \* those whose command moves the robot
          Nobody,         \* "no command"
          Capacity,       \* of the hardware command queue
          MaxDeliveries,  \* bound: deliveries, repeated ones included
          MaxStops,       \* bound: stops other than those of the deadline
          MaxFailures     \* bound: outcomes that cannot be persisted

ASSUME PipelineAssumption ==
  /\ Motion \subseteq Ids
  /\ Nobody \notin Ids
  /\ Capacity \in Nat \ {0}
  /\ MaxDeliveries \in Nat /\ MaxStops \in Nat /\ MaxFailures \in Nat

VARIABLES
  queue,      \* HardwareCommandQueue._pending
  arrivals,   \* items appended since the queue was last found empty
  seen,       \* _processed_action_ids
  latest,     \* _latest_motion_command_id
  deadline,   \* a motion deadline timer is armed
  latched,    \* the safety latch
  media,      \* _media_operational()
  stopTasks,  \* stops started in the background that have not run yet
  loop,       \* the command loop: "alive", or "dead" from an exception
  current,    \* the command the loop has taken, or Nobody
  phase,      \* where that command is
  permitted,  \* no stop and no reset since its permit was issued
  outcome,    \* Ids -> what the ledger says of the command
  deliveries, \* deliveries so far
  stops,      \* stops requested so far
  failures,   \* ledger writes that may still fail
  runs,       \* history: Ids -> how often the adapter was entered
  overtaken,  \* history: motion overtaken, before it ran, by a motion or a stop
  driving     \* history: the robot obeys a motion that was not stopped since

queueVars == <<queue, arrivals, latest, deadline>>
loopVars == <<loop, current, phase, permitted>>
ledgerVars == <<outcome, failures>>
historyVars == <<runs, overtaken, driving>>
vars == <<queueVars, loopVars, ledgerVars, historyVars,
          seen, latched, media, stopTasks, deliveries, stops>>

None == [state |-> "none", code |-> "none"]
States == {"none", "accepted", "completed", "rejected", "superseded", "cancelled_by_stop"}
\* Of the codes, those some property tells apart; "refused" stands for the
\* others a command is rejected with.
Codes == States \cup {"refused", "replayed_action", "hardware_error"}
Items == [id : Ids, number : Nat, order : Nat]   \* number 0: not a motion
Phases == {"idle", "issued", "running", "completed", "cancelled", "error"}

TypeOK ==
  /\ queue \subseteq Items
  /\ Cardinality(queue) <= Capacity
  /\ arrivals \in Nat
  /\ seen \subseteq Ids
  /\ latest \in Nat
  /\ deadline \in BOOLEAN
  /\ latched \in BOOLEAN
  /\ media \in BOOLEAN
  /\ stopTasks \in Nat
  /\ loop \in {"alive", "dead"}
  /\ current \in Ids \cup {Nobody}
  /\ phase \in Phases
  /\ permitted \in BOOLEAN
  /\ outcome \in [Ids -> [state : States, code : Codes]]
  /\ deliveries \in 0 .. MaxDeliveries
  /\ stops \in 0 .. MaxStops
  /\ failures \in 0 .. MaxFailures
  /\ runs \in [Ids -> Nat]
  /\ overtaken \subseteq Motion
  /\ driving \in BOOLEAN

Init ==
  /\ queue = {} /\ arrivals = 0 /\ latest = 0 /\ deadline = FALSE
  /\ seen = {}
  /\ latched = FALSE
  /\ media \in BOOLEAN
  /\ stopTasks = 0
  /\ loop = "alive" /\ current = Nobody /\ phase = "idle" /\ permitted = FALSE
  /\ outcome = [id \in Ids |-> None]
  /\ failures = MaxFailures
  /\ deliveries = 0
  /\ stops = 0
  /\ runs = [id \in Ids |-> 0] /\ overtaken = {} /\ driving = FALSE

-----------------------------------------------------------------------------
(* Outcomes.                                                               *)

Final(id) == outcome[id].state \notin {"none", "accepted"}

\* The ledger after _emit_command_result(state, code) for each command of a
\* set: a terminal outcome stays, and so does an acceptance that is repeated.
Reported(ledger, ids, state, code) ==
  [id \in Ids |->
     IF id \in ids /\ ledger[id].state \in {"none", "accepted"} \ {state}
     THEN [state |-> state, code |-> code]
     ELSE ledger[id]]

\* An emission that succeeds, or whose RuntimeError leaves the handler: an
\* earlier emission of that handler may have succeeded.
Emit(before, after) ==
  \/ outcome' = after /\ UNCHANGED failures
  \/ failures > 0 /\ failures' = failures - 1 /\ outcome' \in {outcome, before}

\* An emission from an except clause of _run_hardware_command: a RuntimeError
\* ends the command loop.
EndWith(id, state, code) ==
  \/ /\ outcome' = Reported(outcome, {id}, state, code)
     /\ loop' = "alive" /\ UNCHANGED failures
  \/ /\ failures > 0 /\ failures' = failures - 1
     /\ loop' = "dead" /\ UNCHANGED outcome

\* An emission from its try body: a RuntimeError is handled as an adapter
\* error, with an emission of its own.
TryEndWith(id, state, code) ==
  \/ /\ outcome' = Reported(outcome, {id}, state, code)
     /\ loop' = "alive" /\ UNCHANGED failures
  \/ /\ failures > 0 /\ failures' = failures - 1
     /\ outcome' = Reported(outcome, {id}, "rejected", "hardware_error")
     /\ loop' = "alive"
  \/ /\ failures > 1 /\ failures' = failures - 2
     /\ loop' = "dead" /\ UNCHANGED outcome

-----------------------------------------------------------------------------
(* _process_command.                                                       *)

\* Can the command of a new and well formed delivery be dispatched?
Admissible(id) == id \in Motion => ~latched /\ media

\* Mutant: only refused deliveries are remembered.
RememberRefused(id) == IF outcome[id].state = "rejected" THEN seen \cup {id} ELSE seen

\* _processed_action_ids after a delivery that passed timestamp and TTL.
Remember(id) == seen \cup {id}

Delivered ==
  /\ deliveries < MaxDeliveries
  /\ deliveries' = deliveries + 1

\* A delivery without a readable timestamp or, if it is new, beyond its TTL: it
\* is rejected and not remembered.
RefuseUndated(id) ==
  /\ Delivered
  /\ Emit(outcome, Reported(outcome, {id}, "rejected", "refused"))
  /\ UNCHANGED <<queueVars, loopVars, historyVars, seen, latched, media, stopTasks, stops>>

\* An id that was processed before.
RefuseReplay(id) ==
  /\ Delivered
  /\ id \in seen
  /\ Emit(outcome, Reported(outcome, {id}, "rejected", "replayed_action"))
  /\ UNCHANGED <<queueVars, loopVars, historyVars, seen, latched, media, stopTasks, stops>>

\* A new command that is not admissible, or has a value or a name that is not.
RefuseNew(id) ==
  /\ Delivered
  /\ id \notin seen
  /\ seen' = Remember(id)
  /\ Emit(outcome, Reported(outcome, {id}, "rejected", "refused"))
  /\ UNCHANGED <<queueVars, loopVars, historyVars, latched, media, stopTasks, stops>>

MotionItems == {item \in queue : item.number > 0}
IdsOf(items) == {item.id : item \in items}

\* Mutant: offer leaves older motion in the queue, for the loop to skip.
SupersededByNothing(id) == {}

\* offer: the queued motion a new motion replaces, before the queue is found
\* full or not.
SupersededBy(id) == IF id \in Motion THEN MotionItems ELSE {}

HasRoom(kept) == Cardinality(kept) < Capacity

\* The order of an item appended to what is left of the queue.
Place(kept) == IF kept = {} THEN 0 ELSE arrivals

\* _dispatch_hardware_command with offer: a motion is numbered and arms the
\* deadline even when the queue then turns out to be full.
Dispatch(id) ==
  /\ Delivered
  /\ id \notin seen
  /\ Admissible(id)
  /\ seen' = Remember(id)
  /\ latest' = IF id \in Motion THEN latest + 1 ELSE latest
  /\ deadline' = (deadline \/ id \in Motion)
  /\ LET older == SupersededBy(id)
         kept  == queue \ older
         item  == [id |-> id, order |-> Place(kept),
                   number |-> IF id \in Motion THEN latest + 1 ELSE 0]
         known == Reported(outcome, IdsOf(older), "superseded", "superseded")
     IN /\ overtaken' = overtaken \cup IdsOf(older)
        /\ IF HasRoom(kept)
           THEN /\ queue' = kept \cup {item}
                /\ arrivals' = Place(kept) + 1
                /\ Emit(known, Reported(known, {id}, "accepted", "accepted"))
           ELSE /\ queue' = kept /\ UNCHANGED arrivals
                /\ Emit(known, Reported(known, {id}, "rejected", "refused"))
  /\ UNCHANGED <<loopVars, runs, driving, latched, media, stopTasks, stops>>

-----------------------------------------------------------------------------
(* The command loop.                                                       *)

Oldest(item) == item \in queue /\ \A other \in queue : item.order <= other.order

\* pop_nowait and _run_hardware_command up to the await of the adapter: the
\* checks of the number, media and latch, then the permit.
Take(item) ==
  /\ loop = "alive" /\ phase = "idle"
  /\ Oldest(item)
  /\ queue' = queue \ {item}
  /\ \/ /\ item.number > 0 /\ item.number < latest
        /\ EndWith(item.id, "superseded", "superseded")
        /\ UNCHANGED <<current, phase, permitted>>
     \/ /\ item.number = latest /\ item.number > 0 /\ ~media
        /\ TryEndWith(item.id, "rejected", "refused")
        /\ UNCHANGED <<current, phase, permitted>>
     \/ /\ item.number > 0 => item.number = latest /\ media
        /\ latched
        /\ EndWith(item.id, "rejected", "refused")
        /\ UNCHANGED <<current, phase, permitted>>
     \/ /\ item.number > 0 => item.number = latest /\ media
        /\ ~latched
        /\ current' = item.id /\ phase' = "issued" /\ permitted' = TRUE
        /\ UNCHANGED <<loop, ledgerVars>>
  /\ UNCHANGED <<arrivals, latest, deadline, historyVars,
                 seen, latched, media, stopTasks, deliveries, stops>>

ThreadUnchanged ==
  UNCHANGED <<queueVars, loop, current, permitted, ledgerVars, overtaken,
              seen, latched, media, stopTasks, deliveries, stops>>

\* Mutant: execute enters the adapter without looking at the permit.
EnterAdapterUnchecked ==
  /\ phase = "issued"
  /\ phase' = "running"
  /\ runs' = [runs EXCEPT ![current] = @ + 1]
  /\ driving' = (driving \/ current \in Motion)
  /\ ThreadUnchanged

\* HardwareBase.execute in its thread: a valid permit lets it into the adapter.
EnterAdapter ==
  /\ phase = "issued"
  /\ \/ /\ permitted
        /\ phase' = "running"
        /\ runs' = [runs EXCEPT ![current] = @ + 1]
        /\ driving' = (driving \/ current \in Motion)
     \/ /\ ~permitted
        /\ phase' = "cancelled"
        /\ UNCHANGED <<runs, driving>>
  /\ ThreadUnchanged

\* on_command returns or raises; a permit that died meanwhile is noticed.
LeaveAdapter ==
  /\ phase = "running"
  /\ phase' \in {IF permitted THEN "completed" ELSE "cancelled", "error"}
  /\ UNCHANGED <<runs, driving>>
  /\ ThreadUnchanged

\* Mutant: the loop forgets to report a cancelled command.
FinishSilently ==
  /\ phase \in {"completed", "cancelled", "error"}
  /\ \/ phase = "completed" /\ TryEndWith(current, "completed", "completed")
     \/ phase = "cancelled" /\ UNCHANGED <<loop, ledgerVars>>
     \/ phase = "error"     /\ EndWith(current, "rejected", "hardware_error")
  /\ current' = Nobody /\ phase' = "idle" /\ permitted' = FALSE
  /\ UNCHANGED <<queueVars, historyVars, seen, latched, media, stopTasks, deliveries, stops>>

\* Mutant: the deadline is disarmed once the motion has been executed.
FinishDisarming ==
  /\ phase \in {"completed", "cancelled", "error"}
  /\ \/ phase = "completed" /\ TryEndWith(current, "completed", "completed")
     \/ phase = "cancelled" /\ EndWith(current, "rejected", "cancelled_by_stop")
     \/ phase = "error"     /\ EndWith(current, "rejected", "hardware_error")
  /\ current' = Nobody /\ phase' = "idle" /\ permitted' = FALSE
  /\ deadline' = (deadline /\ current \notin Motion)
  /\ UNCHANGED <<queue, arrivals, latest, historyVars,
                 seen, latched, media, stopTasks, deliveries, stops>>

\* The await of the thread ends in _run_hardware_command, which reports it.
Finish ==
  /\ phase \in {"completed", "cancelled", "error"}
  /\ \/ phase = "completed" /\ TryEndWith(current, "completed", "completed")
     \/ phase = "cancelled" /\ EndWith(current, "rejected", "cancelled_by_stop")
     \/ phase = "error"     /\ EndWith(current, "rejected", "hardware_error")
  /\ current' = Nobody /\ phase' = "idle" /\ permitted' = FALSE
  /\ UNCHANGED <<queueVars, historyVars, seen, latched, media, stopTasks, deliveries, stops>>

\* _ensure_background_tasks, which only a new media session calls.
RestartLoop ==
  /\ loop = "dead"
  /\ loop' = "alive"
  /\ UNCHANGED <<queueVars, current, phase, permitted, ledgerVars, historyVars,
                 seen, latched, media, stopTasks, deliveries, stops>>

-----------------------------------------------------------------------------
(* What runs against it.                                                   *)

EnvironmentUnchanged ==
  UNCHANGED <<loopVars, ledgerVars, historyVars, queue, arrivals, latest, seen, deliveries>>

\* A stop command, an emergency stop, a disconnect...: a background task.
RequestStop ==
  /\ stops < MaxStops
  /\ stops' = stops + 1
  /\ stopTasks' = stopTasks + 1
  /\ UNCHANGED <<deadline, latched, media>>
  /\ EnvironmentUnchanged

\* Mutant: the timer fires while an adapter call runs, and finds it busy.
ExpireDeadlineIdle ==
  /\ deadline
  /\ deadline' = FALSE
  /\ stopTasks' = IF phase = "idle" THEN stopTasks + 1 ELSE stopTasks
  /\ UNCHANGED <<latched, media, stops>>
  /\ EnvironmentUnchanged

\* _expire, for the newest timer: a stop in the background.
ExpireDeadline ==
  /\ deadline
  /\ deadline' = FALSE
  /\ stopTasks' = stopTasks + 1
  /\ UNCHANGED <<latched, media, stops>>
  /\ EnvironmentUnchanged

\* _trigger_hardware_stop up to its first await: latch, renumber, cancel the
\* queued motion, report it, disarm the deadline, and go on to the adapter's
\* stop. A report that fails ends it before the last two.
RunStop ==
  /\ stopTasks > 0
  /\ stopTasks' = stopTasks - 1
  /\ latched' = TRUE
  /\ permitted' = FALSE
  /\ latest' = latest + 1
  /\ queue' = queue \ MotionItems
  /\ overtaken' = overtaken \cup IdsOf(MotionItems)
                   \cup (IF phase = "issued" THEN {current} \cap Motion ELSE {})
  /\ \/ /\ outcome' = Reported(outcome, IdsOf(MotionItems),
                               "cancelled_by_stop", "cancelled_by_stop")
        /\ deadline' = FALSE
        /\ driving' = FALSE
        /\ UNCHANGED failures
     \/ /\ MotionItems # {} /\ failures > 0
        /\ failures' = failures - 1
        /\ UNCHANGED <<outcome, deadline, driving>>
  /\ UNCHANGED <<arrivals, loop, current, phase, runs, seen, media, deliveries, stops>>

\* SafetyController.reset: a new epoch, also when nothing was latched.
Reset ==
  /\ latched' = FALSE
  /\ permitted' = FALSE
  /\ UNCHANGED <<queueVars, loop, current, phase, ledgerVars, historyVars,
                 seen, media, stopTasks, deliveries, stops>>

\* Cameras and the media connection come and go.
MediaChanges ==
  /\ media' = ~media
  /\ UNCHANGED <<deadline, latched, stopTasks, stops>>
  /\ EnvironmentUnchanged

-----------------------------------------------------------------------------

Receive(id) == RefuseUndated(id) \/ RefuseReplay(id) \/ RefuseNew(id) \/ Dispatch(id)

LoopStep == (\E item \in queue : Take(item)) \/ EnterAdapter \/ LeaveAdapter \/ Finish

Next ==
  \/ \E id \in Ids : Receive(id)
  \/ LoopStep
  \/ RestartLoop
  \/ RequestStop \/ ExpireDeadline \/ RunStop
  \/ Reset
  \/ MediaChanges

Spec == Init /\ [][Next]_vars

\* The event loop runs what is ready, timers fire, and adapters return. A
\* dead command loop is not revived by any of it.
FairSpec == Spec /\ WF_vars(LoopStep) /\ WF_vars(ExpireDeadline) /\ WF_vars(RunStop)

-----------------------------------------------------------------------------
(* Properties.                                                             *)

\* Latest wins: motion in the queue is the newest motion there is, so there
\* is at most one, and none that a stop has overtaken. Relates the queue to
\* the number that both admission and stops advance.
OnlyNewestMotionIsQueued == \A item \in MotionItems : item.number = latest

\* Motion that a newer motion replaced in the queue, or that a stop found
\* queued or on its way into the adapter, never reaches the adapter,
\* whatever is reset or delivered again afterwards.
OvertakenMotionNeverRuns == \A id \in overtaken : runs[id] = 0

\* A command enters the adapter at most once, however often it is delivered,
\* and never once it was reported as superseded or cancelled before it ran.
RunsAtMostOnce ==
  \A id \in Ids :
    /\ runs[id] <= 1
    /\ outcome[id].state \in {"superseded", "cancelled_by_stop"} => runs[id] = 0

\* Every outcome could be persisted so far.
LedgerIntact == failures = MaxFailures

\* Motion is never without a deadline: while a motion is in the adapter with
\* a valid permit, or the robot still obeys one, the deadline is armed or a
\* stop is on its way, as long as the ledger can be written.
DrivingIsDeadlined ==
  LedgerIntact /\ (driving \/ (phase = "issued" /\ permitted /\ current \in Motion))
    => deadline \/ stopTasks > 0

\* A robot that moves is stopped, by a command or else by its deadline, as
\* long as the ledger can be written: a stop that cannot report what it
\* cancelled ends before it reaches the adapter.
EveryDriveIsStopped == driving ~> (~driving \/ ~LedgerIntact)

\* docs/architecture.md: an accepted command reaches a terminal outcome. One
\* write that fails ends the command loop, and what is queued then stays so
\* until a new media session starts another.
EveryAcceptedCommandEnds ==
  \A id \in Ids : outcome[id].state = "accepted" ~> (Final(id) \/ ~LedgerIntact)
=============================================================================
