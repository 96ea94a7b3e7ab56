------------------------------- MODULE Adapter -------------------------------
(***************************************************************************)
(* A hardware adapter at work (hardware/base.py): the thread of a command  *)
(* runs the steps of its driver under a permit, the thread of a stop runs  *)
(* emergency_stop beside it, and any device write may fail. What a driver  *)
(* does is a constant, Table; DriverTable.tla has the adapters of the      *)
(* repository.                                                             *)
(*                                                                         *)
(* SafetyStop has the latch, the stop lock and the timeouts in full and    *)
(* one actuator; here a device has many outputs, and what matters is which *)
(* of them a stop, a pulse that ends and a write that fails leave on.      *)
(***************************************************************************)
EXTENDS AdapterContract

CONSTANTS Drivers,    \* names of adapters
          Table,      \* what each does, see DriverTable
          Workers,    \* threads of commands
          MaxFaults   \* device writes that fail

ASSUME AdapterAssumption == MaxFaults \in Nat

VARIABLES
  driver,    \* the adapter in use
  out,       \* outputs that are not at rest
  todo,      \* the steps a command has left
  active,    \* is its permit's epoch the current one
  latched,   \* SafetyController._latched
  stop,      \* the last stop: "none", "running", "confirmed" or "failed"
  stopTodo,  \* the writes emergency_stop has left
  deadline,  \* the control deadline is armed (client_commands.py)
  ready,     \* navq: _ready, which a stop clears for good
  late,      \* a write that landed after its epoch and after the last stop began
  hidden,    \* a failure was suppressed since the last stop began
  unclean,   \* a command raised since the last confirmed stop
  faults     \* failures so far

deviceVars == <<out, faults, hidden>>
stopVars == <<latched, stop, stopTodo, deadline, ready>>
adapterVars == <<driver, deviceVars, todo, active, stopVars, late, unclean>>

Device == Table[driver]

Idle(w) == todo[w] = <<>>

AllIdle == \A w \in Workers : Idle(w)

\* setup() writes the neutral values.
AdapterInit ==
  /\ driver \in Drivers
  /\ out = {}
  /\ todo = [w \in Workers |-> <<>>]
  /\ active = [w \in Workers |-> FALSE]
  /\ latched = FALSE
  /\ stop = "none"
  /\ stopTodo = <<>>
  /\ deadline = FALSE
  /\ ready = TRUE
  /\ late = FALSE
  /\ hidden = FALSE
  /\ unclean = FALSE
  /\ faults = 0

EnsureActive == [write |-> {}, on |-> FALSE, quiet |-> FALSE]

\* The device obeys one write.
Obey(step) == out' = IF step.on THEN out \cup step.write ELSE out \ step.write

-----------------------------------------------------------------------------
(* A command.                                                              *)

\* execute: a permit is issued unless the latch is set, and is checked before
\* and after on_command. _hardware_lock is held until the thread returns, not
\* until what it left on the loop has run.
Execute(w, c) ==
  /\ ~ latched /\ Idle(w)
  /\ Device.detached \/ AllIdle
  /\ todo' = [todo EXCEPT ![w] = IF ready THEN <<EnsureActive>> \o Device.run[c] \o <<EnsureActive>> ELSE <<>>]
  /\ active' = [active EXCEPT ![w] = TRUE]
  /\ deadline' = (deadline \/ c \in Device.motion)
  /\ UNCHANGED <<driver, deviceVars, latched, stop, stopTodo, ready, late, unclean>>

\* HardwareCommandCancelled, or the exception of a device, ends on_command.
Raise(w) ==
  /\ todo' = [todo EXCEPT ![w] = <<>>]
  /\ unclean' = TRUE

Advance(w) ==
  /\ todo' = [todo EXCEPT ![w] = Tail(@)]
  /\ UNCHANGED unclean

Step(w) ==
  /\ ~ Idle(w)
  /\ LET step == Head(todo[w]) IN
       IF step = EnsureActive
       THEN /\ IF active[w] THEN Advance(w) ELSE Raise(w)
            /\ UNCHANGED <<out, late>>
       ELSE /\ Obey(step)
            /\ Advance(w)
            /\ late' = (late \/ (step.on /\ ~ active[w]))
  /\ UNCHANGED <<driver, active, stopVars, hidden, faults>>

\* A device write fails, after it landed or before.
StepFails(w) ==
  /\ ~ Idle(w) /\ Head(todo[w]) # EnsureActive /\ faults < MaxFaults
  /\ LET step == Head(todo[w]) IN
       /\ \/ Obey(step) /\ late' = (late \/ (step.on /\ ~ active[w]))
          \/ UNCHANGED <<out, late>>
       /\ IF step.quiet THEN Advance(w) ELSE Raise(w)
       /\ hidden' = (hidden \/ step.quiet)
  /\ faults' = faults + 1
  /\ UNCHANGED <<driver, active, stopVars>>

-----------------------------------------------------------------------------
(* A stop and the reset after it.                                          *)

\* SafetyController.stop and apply_emergency_stop in a thread without permit.
Stop ==
  /\ stop # "running"
  /\ latched' = TRUE
  /\ active' = [w \in Workers |-> FALSE]
  /\ stop' = IF Device.stop = <<>> THEN "confirmed" ELSE "running"
  /\ stopTodo' = Device.stop
  /\ deadline' = FALSE
  /\ late' = FALSE
  /\ hidden' = FALSE
  /\ unclean' = (unclean \/ hidden)
  /\ UNCHANGED <<driver, out, faults, todo, ready>>

StopGoesOn ==
  /\ stopTodo' = Tail(stopTodo)
  /\ IF Tail(stopTodo) = <<>>
     THEN /\ stop' = "confirmed"
          /\ ready' = (ready /\ ~ Device.detached)
     ELSE UNCHANGED <<stop, ready>>

StopStep ==
  /\ stop = "running"
  /\ Obey(Head(stopTodo))
  /\ StopGoesOn
  /\ unclean' = (unclean /\ (stop' = "running" \/ late))
  /\ UNCHANGED <<driver, faults, hidden, todo, active, latched, deadline, late>>

\* The first failure ends emergency_stop, unless it is suppressed.
StopFails ==
  /\ stop = "running" /\ faults < MaxFaults
  /\ Obey(Head(stopTodo)) \/ UNCHANGED out
  /\ IF Head(stopTodo).quiet
     THEN /\ StopGoesOn
          /\ hidden' = TRUE
     ELSE /\ stop' = "failed"
          /\ stopTodo' = <<>>
          /\ UNCHANGED <<ready, hidden>>
  /\ faults' = faults + 1
  /\ UNCHANGED <<driver, todo, active, latched, deadline, late, unclean>>

\* _reset_hardware_stop refuses unless the last stop was confirmed.
Reset ==
  /\ latched /\ stop = "confirmed"
  /\ latched' = FALSE
  /\ stop' = "none"
  /\ UNCHANGED <<driver, deviceVars, todo, active, stopTodo, deadline, ready, late, unclean>>

-----------------------------------------------------------------------------

AdapterNext ==
  \/ Stop \/ StopStep \/ StopFails \/ Reset
  \/ \E w \in Workers :
       \/ \E c \in DOMAIN Device.run : Execute(w, c)
       \/ Step(w) \/ StepFails(w)

AdapterSpec == AdapterInit /\ [][AdapterNext]_adapterVars

-----------------------------------------------------------------------------

Driven == out \cap Device.drives # {}

AdapterTypeOK ==
  /\ driver \in Drivers
  /\ out \subseteq Outputs(Device)
  /\ todo \in [Workers -> Seq(Steps(Device))]
  /\ active \in [Workers -> BOOLEAN]
  /\ latched \in BOOLEAN
  /\ stop \in {"none", "running", "confirmed", "failed"}
  /\ stopTodo \in Seq(Steps(Device))
  /\ stop = "running" <=> stopTodo # <<>>
  /\ deadline \in BOOLEAN
  /\ ready \in BOOLEAN
  /\ late \in BOOLEAN
  /\ hidden \in BOOLEAN
  /\ unclean \in BOOLEAN
  /\ faults \in 0 .. MaxFaults

\* A confirmed stop leaves no output of any board driven, whatever the command
\* was doing, unless a write it had begun landed late, or a failure to write
\* was suppressed (base.py, apply_emergency_stop; gpio.py, set_low).
ConfirmedStopIsNeutral ==
  latched /\ stop = "confirmed" => ~ Driven \/ late \/ hidden

\* "Apply a stop and propagate failure to the safety controller" (base.py:197).
StopFailuresPropagate ==
  latched /\ stop = "confirmed" => ~ Driven \/ late

\* A command that returns without an error has ended what it started, unless
\* its board is told to stop in a message of its own.
PulsesEndAtRest ==
  AllIdle /\ ~ unclean /\ ~ hidden /\ ~ Device.relays => ~ Driven

\* Whatever is driven has an end: its command still holds a permit, the control
\* deadline is armed, or a stop has latched. So every command that drives an
\* output counts as motion.
DrivenIsBounded ==
  Driven => deadline \/ latched \/ late \/ hidden
==============================================================================
