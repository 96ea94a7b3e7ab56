----------------------------- MODULE SafetyStop -----------------------------
(***************************************************************************)
(* The safety latch and everything that runs against it at the same time:  *)
(*   - SafetyController and CommandPermit (safety.py): the epoch, the      *)
(*     latch, one cancellation Event per reset generation;                 *)
(*   - hardware worker threads (hardware/base.py, execute) that write to   *)
(*     the actuator through run_if_epoch_active, whose check and whose     *)
(*     operation are separate steps because the lock is not held across    *)
(*     device I/O;                                                         *)
(*   - _trigger_hardware_stop (client_commands.py): the latch step, the    *)
(*     stop lock, the adapter stop in a thread of its own, its timeout;    *)
(*   - _reset_hardware_stop (remote_actions.py): its checks, the await of  *)
(*     the adapter hook, and the reset that follows it.                    *)
(* Identifiers in Commands, Stops and Resets are used once each, so the    *)
(* three sets bound the number of permits, stop calls and reset actions.   *)
(***************************************************************************)
EXTENDS Naturals, Sequences

CONSTANTS Commands,       \* hardware commands taken from the queue
          Stops,          \* calls of _trigger_hardware_stop
          Resets,         \* reset_safety actions that reached the executor
          Nobody,         \* "no stop call" / "no command"
          OutboxMayFail   \* may persisting a cancelled_by_stop outcome fail

ASSUME SafetyStopAssumption ==
  /\ Nobody \notin Stops
  /\ Nobody \notin Commands
  /\ OutboxMayFail \in BOOLEAN

VARIABLES
  epoch,       \* SafetyController._epoch
  latched,     \* SafetyController._latched
  generation,  \* which Event object SafetyController._cancelled refers to
  setEvents,   \* the Event objects that have been set
  permit,      \* Commands -> [epoch, event] of the CommandPermit it was issued
  pc,          \* Commands -> where its worker thread is
  actuator,    \* the command whose write the device obeys, or Nobody: at rest
  overrun,     \* Commands -> writes that reached the device after its epoch ended
  stopPc,      \* Stops -> where that call of _trigger_hardware_stop is
  waiters,     \* calls waiting for _stop_lock, oldest first
  holder,      \* the call inside _stop_lock, or Nobody
  stopWorker,  \* _stop_worker_task: "none", "running", "ok" or "error"
  lastStop,    \* stats.last_stop_status
  resetPc      \* Resets -> where that reset action is

controllerVars == <<epoch, latched, generation, setEvents>>
commandVars == <<permit, pc, overrun>>
stopVars == <<stopPc, waiters, holder, stopWorker, lastStop>>
vars == <<controllerVars, commandVars, actuator, stopVars, resetPc>>

Executing == {"issued", "running", "writing", "wrote", "pausing"}
CommandPc == Executing \cup {"queued", "refused", "completed", "cancelled", "failed"}
Answers == {"confirmed", "timeout", "failed"}
StopPc == Answers \cup {"idle", "queued", "waiting", "aborted"}
ResetPc == {"idle", "awaiting", "done", "rejected", "failed"}

TypeOK ==
  /\ epoch \in Nat
  /\ latched \in BOOLEAN
  /\ generation \in Nat
  /\ setEvents \in SUBSET (0 .. generation)
  /\ permit \in [Commands -> [epoch : Nat, event : Nat]]
  /\ pc \in [Commands -> CommandPc]
  /\ actuator \in Commands \cup {Nobody}
  /\ overrun \in [Commands -> Nat]
  /\ stopPc \in [Stops -> StopPc]
  /\ waiters \in Seq(Stops)
  /\ holder \in Stops \cup {Nobody}
  /\ stopWorker \in {"none", "running", "ok", "error"}
  /\ lastStop \in {"never", "pending"} \cup Answers
  /\ resetPc \in [Resets -> ResetPc]

Init ==
  /\ epoch = 0
  /\ latched = FALSE
  /\ generation = 0
  /\ setEvents = {}
  /\ permit = [c \in Commands |-> [epoch |-> 0, event |-> 0]]
  /\ pc = [c \in Commands |-> "queued"]
  /\ actuator = Nobody
  /\ overrun = [c \in Commands |-> 0]
  /\ stopPc = [s \in Stops |-> "idle"]
  /\ waiters = <<>>
  /\ holder = Nobody
  /\ stopWorker = "none"
  /\ lastStop = "never"
  /\ resetPc = [r \in Resets |-> "idle"]

-----------------------------------------------------------------------------
(* The permit of a command.                                                *)

\* SafetyController.is_epoch_active, for the epoch the permit carries.
EpochActive(c) == ~latched /\ permit[c].epoch = epoch

\* CommandPermit.ensure_active: neither the event is set nor the epoch over.
PermitActive(c) == permit[c].event \notin setEvents /\ EpochActive(c)

\* _hardware_lock is held from issue_permit until the worker thread returns.
HardwareIdle == \A c \in Commands : pc[c] \notin Executing

Goto(c, from, to) == pc[c] = from /\ pc' = [pc EXCEPT ![c] = to]

-----------------------------------------------------------------------------
(* A hardware command, from the loop that issues its permit to the thread  *)
(* that ends.                                                              *)

\* issue_permit under the hardware lock; a latched controller raises
\* SafetyLatchedError and the command is refused.
IssuePermit(c) ==
  /\ HardwareIdle
  /\ Goto(c, "queued", IF latched THEN "refused" ELSE "issued")
  /\ permit' = IF latched THEN permit
               ELSE [permit EXCEPT ![c] = [epoch |-> epoch, event |-> generation]]
  /\ UNCHANGED <<controllerVars, overrun, actuator, stopVars, resetPc>>

\* execute: the permit is checked once before the adapter is entered.
EnterAdapter(c) ==
  /\ Goto(c, "issued", IF PermitActive(c) THEN "running" ELSE "cancelled")
  /\ UNCHANGED <<controllerVars, permit, overrun, actuator, stopVars, resetPc>>

\* run_if_epoch_active, first half: the check, after which the lock is released.
CheckWrite(c) ==
  /\ Goto(c, "running", IF EpochActive(c) THEN "writing" ELSE "cancelled")
  /\ UNCHANGED <<controllerVars, permit, overrun, actuator, stopVars, resetPc>>

\* operation(): the device write takes effect, whatever the latch says by now.
LandWrite(c) ==
  /\ Goto(c, "writing", "wrote")
  /\ actuator' = c
  /\ overrun' = IF EpochActive(c) THEN overrun ELSE [overrun EXCEPT ![c] = @ + 1]
  /\ UNCHANGED <<controllerVars, permit, stopVars, resetPc>>

\* Mutant: the second epoch check is dropped.
RecheckWriteDropped(c) ==
  /\ Goto(c, "wrote", "running")
  /\ UNCHANGED <<controllerVars, permit, overrun, actuator, stopVars, resetPc>>

\* run_if_epoch_active, second half: a late write is noticed and raises.
RecheckWrite(c) ==
  /\ Goto(c, "wrote", IF EpochActive(c) THEN "running" ELSE "cancelled")
  /\ UNCHANGED <<controllerVars, permit, overrun, actuator, stopVars, resetPc>>

\* CommandPermit.wait: the check before the Event wait of a pulse.
BeginPause(c) ==
  /\ Goto(c, "running", IF PermitActive(c) THEN "pausing" ELSE "cancelled")
  /\ UNCHANGED <<controllerVars, permit, overrun, actuator, stopVars, resetPc>>

\* The wait ends, by its event or by its timeout, and the permit is checked.
EndPause(c) ==
  /\ Goto(c, "pausing", IF PermitActive(c) THEN "running" ELSE "cancelled")
  /\ UNCHANGED <<controllerVars, permit, overrun, actuator, stopVars, resetPc>>

\* Mutant: execute returns without its last check.
LeaveAdapterUnchecked(c) ==
  /\ Goto(c, "running", "completed")
  /\ UNCHANGED <<controllerVars, permit, overrun, actuator, stopVars, resetPc>>

\* execute: on_command returned; the last check decides what is reported.
LeaveAdapter(c) ==
  /\ Goto(c, "running", IF PermitActive(c) THEN "completed" ELSE "cancelled")
  /\ UNCHANGED <<controllerVars, permit, overrun, actuator, stopVars, resetPc>>

\* The adapter raises (unsupported command, device error, failing write).
AdapterRaises(c) ==
  /\ \/ Goto(c, "running", "failed")
     \/ Goto(c, "writing", "failed")
  /\ UNCHANGED <<controllerVars, permit, overrun, actuator, stopVars, resetPc>>

-----------------------------------------------------------------------------
(* _trigger_hardware_stop.                                                 *)

\* SafetyController.stop: set the event, end the epoch, latch.
Latch ==
  /\ setEvents' = setEvents \cup {generation}
  /\ epoch' = epoch + 1
  /\ latched' = TRUE
  /\ UNCHANGED generation

\* The body of _stop_lock up to its await: an adapter stop that is still
\* running from an earlier call fails this one at once, otherwise a new one
\* is started.
EnterStopLock(s) ==
  IF stopWorker = "running"
  THEN /\ lastStop' = "failed"
       /\ stopPc' = [stopPc EXCEPT ![s] = "failed"]
       /\ UNCHANGED <<holder, stopWorker>>
  ELSE /\ lastStop' = "pending"
       /\ stopPc' = [stopPc EXCEPT ![s] = "waiting"]
       /\ holder' = s
       /\ stopWorker' = "running"

\* A stop call runs, without giving up the loop, to its first await: the
\* latch, then the outcomes of cancelled queued motion (whose persistence may
\* raise and end the call), then the stop lock, which is fair.
RequestStop(s) ==
  /\ stopPc[s] = "idle"
  /\ Latch
  /\ \/ /\ OutboxMayFail
        /\ stopPc' = [stopPc EXCEPT ![s] = "aborted"]
        /\ UNCHANGED <<waiters, holder, stopWorker, lastStop>>
     \/ /\ holder = Nobody /\ waiters = <<>>
        /\ EnterStopLock(s)
        /\ UNCHANGED waiters
     \/ /\ holder # Nobody \/ waiters # <<>>
        /\ stopPc' = [stopPc EXCEPT ![s] = "queued"]
        /\ waiters' = Append(waiters, s)
        /\ UNCHANGED <<holder, stopWorker, lastStop>>
  /\ UNCHANGED <<commandVars, actuator, resetPc>>

\* The oldest waiter gets the stop lock.
TakeStopLock ==
  /\ holder = Nobody
  /\ waiters # <<>>
  /\ EnterStopLock(Head(waiters))
  /\ waiters' = Tail(waiters)
  /\ UNCHANGED <<controllerVars, commandVars, actuator, resetPc>>

\* The adapter's emergency_stop returns in its thread: the device is at rest.
AdapterStopReturns ==
  /\ stopWorker = "running"
  /\ stopWorker' = "ok"
  /\ actuator' = Nobody
  /\ UNCHANGED <<controllerVars, commandVars, stopPc, waiters, holder, lastStop, resetPc>>

\* The adapter's emergency_stop raises, before or after it reached the device.
AdapterStopRaises ==
  /\ stopWorker = "running"
  /\ stopWorker' = "error"
  /\ actuator' \in {actuator, Nobody}
  /\ UNCHANGED <<controllerVars, commandVars, stopPc, waiters, holder, lastStop, resetPc>>

\* The call inside the stop lock returns with an answer and releases the lock.
AnswerStop(s, answer) ==
  /\ holder = s
  /\ holder' = Nobody
  /\ stopPc' = [stopPc EXCEPT ![s] = answer]
  /\ lastStop' = answer
  /\ UNCHANGED <<controllerVars, commandVars, actuator, waiters, stopWorker, resetPc>>

ConfirmStop(s) == stopWorker = "ok" /\ AnswerStop(s, "confirmed")
FailStop(s)    == stopWorker = "error" /\ AnswerStop(s, "failed")

\* Mutant: a stop that timed out is reported as confirmed.
TimeOutStopSwallowed(s) == AnswerStop(s, "confirmed")

\* Mutant: the timeout cancels the adapter stop and waits for its thread.
TimeOutStopUnshielded(s) == stopWorker # "running" /\ AnswerStop(s, "timeout")

\* wait_for gives up after stop_timeout_ms; the shielded thread goes on.
TimeOutStop(s) == AnswerStop(s, "timeout")

-----------------------------------------------------------------------------
(* _reset_hardware_stop.                                                   *)

\* The checks, and the await of handler.reset_stop in a thread.
BeginReset(r) ==
  /\ resetPc[r] = "idle"
  /\ resetPc' = [resetPc EXCEPT ![r] =
        IF stopWorker # "running" /\ lastStop \in {"never", "confirmed"}
        THEN "awaiting" ELSE "rejected"]
  /\ UNCHANGED <<controllerVars, commandVars, actuator, stopVars>>

\* The hook returned: SafetyController.reset.
FinishReset(r) ==
  /\ resetPc[r] = "awaiting"
  /\ resetPc' = [resetPc EXCEPT ![r] = "done"]
  /\ epoch' = epoch + 1
  /\ generation' = generation + 1
  /\ latched' = FALSE
  /\ UNCHANGED <<setEvents, commandVars, actuator, stopVars>>

\* The hook raised: the latch is left alone.
FailReset(r) ==
  /\ resetPc[r] = "awaiting"
  /\ resetPc' = [resetPc EXCEPT ![r] = "failed"]
  /\ UNCHANGED <<controllerVars, commandVars, actuator, stopVars>>

-----------------------------------------------------------------------------

CommandStep(c) ==
  \/ IssuePermit(c) \/ EnterAdapter(c)
  \/ CheckWrite(c) \/ LandWrite(c) \/ RecheckWrite(c)
  \/ BeginPause(c) \/ EndPause(c)
  \/ LeaveAdapter(c) \/ AdapterRaises(c)

StopStep(s) == RequestStop(s) \/ ConfirmStop(s) \/ FailStop(s) \/ TimeOutStop(s)

ResetStep(r) == BeginReset(r) \/ FinishReset(r) \/ FailReset(r)

Next ==
  \/ \E c \in Commands : CommandStep(c)
  \/ \E s \in Stops : StopStep(s)
  \/ \E r \in Resets : ResetStep(r)
  \/ TakeStopLock
  \/ AdapterStopReturns
  \/ AdapterStopRaises

Spec == Init /\ [][Next]_vars

\* The loop keeps running and its timers fire. Nothing is assumed of threads:
\* an adapter stop may hang for ever.
FairSpec == /\ Spec
            /\ WF_vars(TakeStopLock)
            /\ \A s \in Stops : WF_vars(TimeOutStop(s))

-----------------------------------------------------------------------------
(* Properties.                                                             *)

\* run_if_epoch_active bounds and reports what its unlocked operation can do
\* wrong: whatever stops and resets interleave, a command puts at most one
\* write on the device after its epoch ended, the one that was already past
\* its check, and that write is its last: the command is then cancelled and
\* can neither write again nor be reported as completed.
OverrunsAreObserved ==
  \A c \in Commands :
    /\ overrun[c] <= 1
    /\ overrun[c] > 0 => pc[c] \in {"wrote", "cancelled"}

\* With no stop call in progress, a latched controller whose last stop was
\* confirmed has the device at rest, unless a write that was past its check
\* overran the stop. This relates the controller (latch), the stop pipeline
\* (last_stop_status, the lock) and the device.
ConfirmedStopIsAtRest ==
  latched /\ lastStop = "confirmed" /\ holder = Nobody /\ waiters = <<>>
    => actuator = Nobody \/ overrun[actuator] > 0

\* ADR 0001: a stop that is pending, timed out or failed leaves the client
\* latched; only a confirmed stop may be reset.
OnlyAConfirmedStopIsReset ==
  [][latched /\ ~latched' => lastStop = "confirmed" /\ holder = Nobody]_vars

\* Every stop call is answered, even if the adapter stop never returns and
\* other calls are queued before it: nobody waits for ever on the stop lock.
EveryStopIsAnswered ==
  \A s \in Stops : stopPc[s] \in {"queued", "waiting"} ~> stopPc[s] \in Answers

\* The epoch and event machinery implements the abstract promise: authority
\* that a stop or a reset took from a command is never given back.
AuthorityAt(place, active) ==
  CASE place \in {"queued", "refused"} -> "none"
    [] place = "completed" -> "spent"
    [] place \in Executing /\ active -> "held"
    [] OTHER -> "revoked"

authorityOf == [c \in Commands |-> AuthorityAt(pc[c], EpochActive(c))]

Authority == INSTANCE CommandAuthority
               WITH armed <- ~latched, authority <- authorityOf

AuthorityIsNeverRevived == Authority!Spec
=============================================================================
