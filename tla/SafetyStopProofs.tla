-------------------------- MODULE SafetyStopProofs --------------------------
(***************************************************************************)
(* Theorems about SafetyStop, for any sets of commands, stop calls and     *)
(* reset actions.                                                          *)
(***************************************************************************)
EXTENDS SafetyStop, TLAPS

USE SafetyStopAssumption

\* Type correctness: the epoch and the event generation only grow, every call
\* and every command is in one of the places the code has for it.
THEOREM TypeCorrect == Spec => []TypeOK
<1>1. Init => TypeOK
  <2> SUFFICES ASSUME Init PROVE TypeOK
    OBVIOUS
  <2>1. waiters \in Seq(Stops)
    BY DEF Init
  <2>2. setEvents \in SUBSET (0 .. generation)
    BY DEF Init
  <2> QED
    BY <2>1, <2>2 DEF Init, TypeOK, Executing, CommandPc, Answers, StopPc, ResetPc
<1>2. TypeOK /\ [Next]_vars => TypeOK'
  <2> SUFFICES ASSUME TypeOK, [Next]_vars PROVE TypeOK'
    OBVIOUS
  <2> USE DEF TypeOK, controllerVars, commandVars, stopVars, Executing, CommandPc,
              Answers, StopPc, ResetPc
  <2>1. ASSUME NEW c \in Commands, CommandStep(c) PROVE TypeOK'
    <3>1. CASE IssuePermit(c)
      BY <3>1 DEF IssuePermit, Goto
    <3>2. CASE EnterAdapter(c)
      BY <3>2 DEF EnterAdapter, Goto
    <3>3. CASE CheckWrite(c)
      BY <3>3 DEF CheckWrite, Goto
    <3>4. CASE LandWrite(c)
      BY <3>4 DEF LandWrite, Goto
    <3>5. CASE RecheckWrite(c)
      BY <3>5 DEF RecheckWrite, Goto
    <3>6. CASE BeginPause(c)
      BY <3>6 DEF BeginPause, Goto
    <3>7. CASE EndPause(c)
      BY <3>7 DEF EndPause, Goto
    <3>8. CASE LeaveAdapter(c)
      BY <3>8 DEF LeaveAdapter, Goto
    <3>9. CASE AdapterRaises(c)
      BY <3>9 DEF AdapterRaises, Goto
    <3>10. QED
      BY <2>1, <3>1, <3>2, <3>3, <3>4, <3>5, <3>6, <3>7, <3>8, <3>9 DEF CommandStep
  <2>2. ASSUME NEW s \in Stops, RequestStop(s) PROVE TypeOK'
    <3>1. setEvents' \in SUBSET (0 .. generation') /\ epoch' \in Nat
      BY <2>2 DEF RequestStop, Latch
    <3>2. waiters' \in Seq(Stops)
      <4>1. Append(waiters, s) \in Seq(Stops)
        OBVIOUS
      <4>2. waiters' = waiters \/ waiters' = Append(waiters, s)
        BY <2>2 DEF RequestStop
      <4> QED
        BY <4>1, <4>2
    <3>3. /\ stopPc' \in [Stops -> StopPc]
          /\ holder' \in Stops \cup {Nobody}
          /\ stopWorker' \in {"none", "running", "ok", "error"}
          /\ lastStop' \in {"never", "pending"} \cup Answers
      BY <2>2 DEF RequestStop, EnterStopLock
    <3> QED
      BY <2>2, <3>1, <3>2, <3>3 DEF RequestStop, Latch
  <2>3. ASSUME NEW s \in Stops, NEW answer \in Answers, AnswerStop(s, answer) PROVE TypeOK'
    BY <2>3 DEF AnswerStop
  <2>4. ASSUME NEW s \in Stops, ConfirmStop(s) \/ FailStop(s) \/ TimeOutStop(s) PROVE TypeOK'
    BY <2>3, <2>4 DEF ConfirmStop, FailStop, TimeOutStop
  <2>5. ASSUME NEW r \in Resets, ResetStep(r) PROVE TypeOK'
    <3>1. CASE BeginReset(r)
      BY <3>1 DEF BeginReset
    <3>2. CASE FinishReset(r)
      <4>1. setEvents' \in SUBSET (0 .. generation')
        BY <3>2 DEF FinishReset
      <4>2. epoch' \in Nat /\ generation' \in Nat
        BY <3>2 DEF FinishReset
      <4>3. latched' \in BOOLEAN
        BY <3>2 DEF FinishReset
      <4>4. resetPc' \in [Resets -> ResetPc]
        BY <3>2 DEF FinishReset
      <4>5. UNCHANGED <<permit, pc, overrun, actuator, stopPc, waiters, holder,
                        stopWorker, lastStop>>
        BY <3>2 DEF FinishReset
      <4> QED
        BY <4>1, <4>2, <4>3, <4>4, <4>5
    <3>3. CASE FailReset(r)
      BY <3>3 DEF FailReset
    <3> QED
      BY <2>5, <3>1, <3>2, <3>3 DEF ResetStep
  <2>6. CASE TakeStopLock
    <3>1. Head(waiters) \in Stops /\ Tail(waiters) \in Seq(Stops)
      BY <2>6 DEF TakeStopLock
    <3>2. waiters' \in Seq(Stops)
      BY <2>6, <3>1 DEF TakeStopLock
    <3>3. stopPc' \in [Stops -> StopPc] /\ holder' \in Stops \cup {Nobody}
      BY <2>6, <3>1 DEF TakeStopLock, EnterStopLock
    <3> QED
      BY <2>6, <3>2, <3>3 DEF TakeStopLock, EnterStopLock
  <2>7. CASE AdapterStopReturns
    BY <2>7 DEF AdapterStopReturns
  <2>8. CASE AdapterStopRaises
    BY <2>8 DEF AdapterStopRaises
  <2>9. CASE UNCHANGED vars
    BY <2>9 DEF vars
  <2>10. QED
    BY <2>1, <2>2, <2>4, <2>5, <2>6, <2>7, <2>8, <2>9 DEF Next, StopStep
<1>3. QED
  BY <1>1, <1>2, PTL DEF Spec

-----------------------------------------------------------------------------
(***************************************************************************)
(* The permits. A permit's epoch never lies ahead of the controller's, and *)
(* lies strictly behind it for every command in execution while the latch  *)
(* is set: this is what makes the second check of run_if_epoch_active      *)
(* catch every write that overran a stop, even when a reset has followed.  *)
(***************************************************************************)
PermitInv ==
  \A c \in Commands :
    /\ permit[c].epoch <= epoch
    /\ latched /\ pc[c] \notin {"queued", "refused"} => permit[c].epoch < epoch
    /\ overrun[c] > 0 => permit[c].epoch < epoch

Inv == PermitInv /\ OverrunsAreObserved

\* A step that leaves the permits, the places and the overruns alone and does
\* not latch without ending the epoch preserves the invariant.
LEMMA ControllerStepsPreserveInv ==
  ASSUME TypeOK, Inv, UNCHANGED commandVars,
         \/ UNCHANGED <<epoch, latched>>
         \/ epoch' = epoch + 1
  PROVE  Inv'
BY DEF TypeOK, Inv, PermitInv, OverrunsAreObserved, commandVars

LEMMA InvStep == TypeOK /\ Inv /\ [Next]_vars => Inv'
<1> SUFFICES ASSUME TypeOK, Inv, [Next]_vars PROVE Inv'
  OBVIOUS
<1>1. ASSUME NEW c \in Commands, CommandStep(c) PROVE Inv'
  <2> USE DEF TypeOK, Inv, PermitInv, OverrunsAreObserved, Goto, controllerVars, Executing,
              CommandPc
  <2>1. CASE IssuePermit(c)
    BY <2>1 DEF IssuePermit
  <2>2. CASE EnterAdapter(c)
    BY <2>2 DEF EnterAdapter, PermitActive, EpochActive
  <2>3. CASE CheckWrite(c)
    BY <2>3 DEF CheckWrite
  <2>4. CASE LandWrite(c)
    <3>1. ASSUME NEW d \in Commands, d # c
          PROVE  pc'[d] = pc[d] /\ overrun'[d] = overrun[d]
      BY <2>4, <3>1 DEF LandWrite
    <3>2. overrun[c] = 0 /\ pc'[c] = "wrote"
      <4>1. overrun[c] \in Nat /\ pc[c] = "writing"
        BY <2>4 DEF LandWrite
      <4>2. ~(overrun[c] > 0) /\ overrun[c] <= 1
        BY <4>1
      <4>3. pc'[c] = "wrote"
        BY <2>4 DEF LandWrite
      <4> QED
        BY <4>1, <4>2, <4>3
    <3>3. \/ overrun'[c] = 0
          \/ overrun'[c] = 1 /\ permit[c].epoch < epoch
      <4>1. CASE EpochActive(c)
        BY <2>4, <3>2, <4>1 DEF LandWrite
      <4>2. CASE ~EpochActive(c)
        <5>1. permit[c].epoch < epoch
          <6>1. permit[c].epoch \in Nat /\ pc[c] = "writing"
            BY <2>4 DEF LandWrite
          <6>2. CASE latched
            BY <6>1, <6>2
          <6>3. CASE ~latched
            BY <4>2, <6>1, <6>3 DEF EpochActive
          <6> QED
            BY <6>2, <6>3
        <5>2. overrun'[c] = 1
          BY <2>4, <3>2, <4>2 DEF LandWrite
        <5> QED
          BY <5>1, <5>2
      <4> QED
        BY <4>1, <4>2
    <3> QED
      BY <2>4, <3>1, <3>2, <3>3 DEF LandWrite
  <2>5. CASE RecheckWrite(c)
    BY <2>5 DEF RecheckWrite, EpochActive
  <2>6. CASE BeginPause(c)
    BY <2>6 DEF BeginPause
  <2>7. CASE EndPause(c)
    BY <2>7 DEF EndPause
  <2>8. CASE LeaveAdapter(c)
    BY <2>8 DEF LeaveAdapter
  <2>9. CASE AdapterRaises(c)
    BY <2>9 DEF AdapterRaises
  <2> QED
    BY <1>1, <2>1, <2>2, <2>3, <2>4, <2>5, <2>6, <2>7, <2>8, <2>9 DEF CommandStep
<1>2. ASSUME NEW s \in Stops, StopStep(s) PROVE Inv'
  BY <1>2, ControllerStepsPreserveInv
     DEF StopStep, RequestStop, Latch, ConfirmStop, FailStop, TimeOutStop, AnswerStop,
         controllerVars, commandVars
<1>3. ASSUME NEW r \in Resets, ResetStep(r) PROVE Inv'
  BY <1>3, ControllerStepsPreserveInv
     DEF ResetStep, BeginReset, FinishReset, FailReset, controllerVars, commandVars
<1>4. CASE TakeStopLock \/ AdapterStopReturns \/ AdapterStopRaises
  BY <1>4, ControllerStepsPreserveInv
     DEF TakeStopLock, AdapterStopReturns, AdapterStopRaises, controllerVars, commandVars
<1>5. CASE UNCHANGED vars
  BY <1>5, ControllerStepsPreserveInv DEF vars, controllerVars, commandVars
<1> QED
  BY <1>1, <1>2, <1>3, <1>4, <1>5 DEF Next

\* Whatever stops and resets interleave with the unlocked device writes of
\* run_if_epoch_active, a command overruns its epoch by one write at most, and
\* that command is cancelled, never completed.
THEOREM OverrunsObserved == Spec => []OverrunsAreObserved
<1>1. Init => Inv
  BY DEF Init, Inv, PermitInv, OverrunsAreObserved
<1>2. Inv => OverrunsAreObserved
  BY DEF Inv
<1> QED
  BY <1>1, <1>2, InvStep, TypeCorrect, PTL DEF Spec

-----------------------------------------------------------------------------
(***************************************************************************)
(* The confirmed stop. Between the moment the adapter stop returned and    *)
(* the moment its answer is recorded, the device must already be known to  *)
(* be at rest, or to have been moved by an overrun.                        *)
(***************************************************************************)
AtRest == actuator = Nobody \/ overrun[actuator] > 0

RestInv ==
  latched /\ waiters = <<>> =>
    /\ holder # Nobody /\ stopWorker = "ok" => AtRest
    /\ holder = Nobody /\ lastStop = "confirmed" => AtRest

LEMMA RestStep == ~OutboxMayFail /\ TypeOK /\ RestInv /\ [Next]_vars => RestInv'
<1> SUFFICES ASSUME ~OutboxMayFail, TypeOK, RestInv, [Next]_vars PROVE RestInv'
  OBVIOUS
<1> USE DEF RestInv, AtRest, controllerVars, commandVars, stopVars
<1>1. ASSUME NEW c \in Commands, CommandStep(c) PROVE RestInv'
  <2>1. CASE LandWrite(c)
    BY <2>1 DEF LandWrite, EpochActive, TypeOK
  <2>2. CASE ~LandWrite(c)
    <3>1. UNCHANGED <<controllerVars, overrun, actuator, stopVars>>
      BY <1>1, <2>2 DEF CommandStep, IssuePermit, EnterAdapter, CheckWrite, RecheckWrite,
                        BeginPause, EndPause, LeaveAdapter, AdapterRaises
    <3> QED
      BY <3>1
  <2> QED
    BY <2>1, <2>2
<1>2. ASSUME NEW s \in Stops, RequestStop(s) PROVE RestInv'
  <2>1. CASE holder = Nobody /\ waiters = <<>>
    BY <1>2, <2>1 DEF RequestStop, EnterStopLock
  <2>2. CASE holder # Nobody \/ waiters # <<>>
    <3>1. Append(waiters, s) # <<>>
      <4>1. waiters \in Seq(Stops)
        BY DEF TypeOK
      <4>2. Len(Append(waiters, s)) = Len(waiters) + 1 /\ Len(waiters) \in Nat
        BY <4>1
      <4> QED
        BY <4>2
    <3> QED
      BY <1>2, <2>2, <3>1 DEF RequestStop
  <2> QED
    BY <2>1, <2>2
<1>3. ASSUME NEW s \in Stops, ConfirmStop(s) \/ FailStop(s) \/ TimeOutStop(s) PROVE RestInv'
  BY <1>3 DEF ConfirmStop, FailStop, TimeOutStop, AnswerStop
<1>4. ASSUME NEW r \in Resets, ResetStep(r) PROVE RestInv'
  BY <1>4 DEF ResetStep, BeginReset, FinishReset, FailReset
<1>5. CASE TakeStopLock
  BY <1>5 DEF TakeStopLock, EnterStopLock
<1>6. CASE AdapterStopReturns
  BY <1>6 DEF AdapterStopReturns
<1>7. CASE AdapterStopRaises
  BY <1>7 DEF AdapterStopRaises
<1>8. CASE UNCHANGED vars
  BY <1>8 DEF vars
<1> QED
  BY <1>1, <1>2, <1>3, <1>4, <1>5, <1>6, <1>7, <1>8 DEF Next, StopStep

\* With a ledger that can always be written, a latched client whose last stop
\* is confirmed and which is processing no other stop has its device at rest,
\* but for a write that had passed its check before the stop.
THEOREM ConfirmedStopRests == ASSUME ~OutboxMayFail PROVE Spec => []ConfirmedStopIsAtRest
<1>1. Init => RestInv
  BY DEF Init, RestInv, AtRest
<1>2. RestInv => ConfirmedStopIsAtRest
  BY DEF RestInv, AtRest, ConfirmedStopIsAtRest
<1> QED
  BY <1>1, <1>2, RestStep, TypeCorrect, PTL DEF Spec

-----------------------------------------------------------------------------
(***************************************************************************)
(* The abstract promise. Under the mapping, a step of one command moves    *)
(* the authority of that command only, and the steps that change the epoch *)
(* or the latch revoke every authority that was held.                      *)
(***************************************************************************)

\* The abstract steps that a step of one command can map to.
AuthorityStep(c) ==
  \/ authorityOf' = authorityOf
  \/ Authority!Grant(c)
  \/ Authority!Spend(c)
  \/ Authority!Drop(c)

\* Which authority goes with which place.
LEMMA AuthorityCases ==
  ASSUME NEW place \in CommandPc, NEW active
  PROVE  /\ place \in {"queued", "refused"} => AuthorityAt(place, active) = "none"
         /\ place = "completed" => AuthorityAt(place, active) = "spent"
         /\ place \in {"cancelled", "failed"} => AuthorityAt(place, active) = "revoked"
         /\ place \in Executing /\ active => AuthorityAt(place, active) = "held"
         /\ place \in Executing /\ ~active => AuthorityAt(place, active) = "revoked"
BY DEF AuthorityAt, Executing, CommandPc

\* A command step other than IssuePermit keeps the permits and the controller,
\* moves one command, and completes it only while its epoch is active.
LEMMA WorkerStep ==
  ASSUME TypeOK, NEW c \in Commands, CommandStep(c), ~IssuePermit(c)
  PROVE  /\ UNCHANGED <<epoch, latched, permit>>
         /\ pc[c] \in Executing
         /\ \A d \in Commands \ {c} : pc'[d] = pc[d]
         /\ pc'[c] \in Executing \cup {"completed", "cancelled", "failed"}
         /\ pc'[c] = "completed" => EpochActive(c)
<1> USE DEF Goto, TypeOK, Executing, CommandPc, controllerVars, PermitActive
<1>1. CASE EnterAdapter(c)
  BY <1>1 DEF EnterAdapter
<1>2. CASE CheckWrite(c)
  BY <1>2 DEF CheckWrite
<1>3. CASE LandWrite(c)
  BY <1>3 DEF LandWrite
<1>4. CASE RecheckWrite(c)
  BY <1>4 DEF RecheckWrite
<1>5. CASE BeginPause(c)
  BY <1>5 DEF BeginPause
<1>6. CASE EndPause(c)
  BY <1>6 DEF EndPause
<1>7. CASE LeaveAdapter(c)
  BY <1>7 DEF LeaveAdapter
<1>8. CASE AdapterRaises(c)
  BY <1>8 DEF AdapterRaises
<1> QED
  BY <1>1, <1>2, <1>3, <1>4, <1>5, <1>6, <1>7, <1>8 DEF CommandStep

\* authorityOf reads the place and the permit of one command, and the epoch
\* and the latch of the controller.
LEMMA AuthorityIsLocal ==
  ASSUME NEW d \in Commands, UNCHANGED <<epoch, latched, permit[d], pc[d]>>
  PROVE  authorityOf'[d] = authorityOf[d]
BY DEF authorityOf, EpochActive

LEMMA AuthorityOfCommand ==
  ASSUME NEW c \in Commands
  PROVE  /\ authorityOf[c] = AuthorityAt(pc[c], EpochActive(c))
         /\ authorityOf'[c] = AuthorityAt(pc'[c], EpochActive(c)')
BY DEF authorityOf

LEMMA CommandStepRefines ==
  ASSUME TypeOK, TypeOK', NEW c \in Commands, CommandStep(c)
  PROVE  UNCHANGED latched /\ AuthorityStep(c)
<1> DEFINE a == authorityOf[c]
           b == authorityOf'[c]
<1>0. pc[c] \in CommandPc /\ pc'[c] \in CommandPc
  BY DEF TypeOK
<1>1. CASE IssuePermit(c)
  <2>1. UNCHANGED <<epoch, latched>>
    BY <1>1 DEF IssuePermit, controllerVars
  <2>2. \A d \in Commands \ {c} : authorityOf'[d] = authorityOf[d]
    <3>1. \A d \in Commands \ {c} : permit'[d] = permit[d] /\ pc'[d] = pc[d]
      BY <1>1 DEF IssuePermit, Goto, TypeOK
    <3> QED
      BY <2>1, <3>1, AuthorityIsLocal
  <2>3. a = "none"
    BY <1>0, <1>1, AuthorityCases, AuthorityOfCommand DEF IssuePermit, Goto
  <2>4. CASE latched
    <3>1. pc'[c] = "refused"
      BY <1>1, <2>4 DEF IssuePermit, Goto, TypeOK
    <3>2. b = "none"
      BY <1>0, <3>1, AuthorityCases, AuthorityOfCommand
    <3> QED
      BY <2>1, <2>2, <2>3, <3>2 DEF AuthorityStep, authorityOf
  <2>5. CASE ~latched
    <3>1. pc'[c] = "issued"
      BY <1>1, <2>5 DEF IssuePermit, Goto, TypeOK
    <3>2. permit'[c].epoch = epoch
      BY <1>1, <2>5 DEF IssuePermit, TypeOK
    <3>3. EpochActive(c)'
      BY <2>1, <2>5, <3>2 DEF EpochActive
    <3>4. b = "held"
      BY <1>0, <3>1, <3>3, AuthorityCases, AuthorityOfCommand DEF Executing
    <3> QED
      BY <2>1, <2>2, <2>3, <2>5, <3>4
         DEF AuthorityStep, authorityOf, Authority!Grant, Authority!Move
  <2> QED
    BY <2>4, <2>5
<1>2. CASE ~IssuePermit(c)
  <2>1. UNCHANGED <<epoch, latched, permit>> /\ pc[c] \in Executing
    BY <1>2, WorkerStep
  <2>2. \A d \in Commands \ {c} : authorityOf'[d] = authorityOf[d]
    BY <1>2, WorkerStep, AuthorityIsLocal
  <2>3. EpochActive(c)' <=> EpochActive(c)
    BY <2>1 DEF EpochActive
  <2>4. /\ EpochActive(c) => a = "held"
        /\ ~EpochActive(c) => a = "revoked"
    BY <1>0, <2>1, AuthorityCases, AuthorityOfCommand
  <2>5. CASE pc'[c] \in Executing
    <3>1. b = a
      BY <1>0, <2>3, <2>4, <2>5, AuthorityCases, AuthorityOfCommand
    <3> QED
      BY <2>1, <2>2, <3>1 DEF AuthorityStep, authorityOf
  <2>6. CASE pc'[c] = "completed"
    <3>1. a = "held" /\ b = "spent"
      BY <1>0, <1>2, <2>4, <2>6, WorkerStep, AuthorityCases, AuthorityOfCommand
    <3> QED
      BY <2>1, <2>2, <3>1 DEF AuthorityStep, authorityOf, Authority!Spend, Authority!Move
  <2>7. CASE pc'[c] \in {"cancelled", "failed"}
    <3>1. a \in {"held", "revoked"} /\ b = "revoked"
      BY <1>0, <2>4, <2>7, AuthorityCases, AuthorityOfCommand
    <3> QED
      BY <2>1, <2>2, <3>1 DEF AuthorityStep, authorityOf, Authority!Drop, Authority!Move
  <2> QED
    BY <1>2, <2>5, <2>6, <2>7, WorkerStep
<1> QED
  BY <1>1, <1>2

\* A step that ends the epoch takes the authority of every command holding one.
LEMMA EndOfEpochRevokes ==
  ASSUME TypeOK, Inv, epoch' = epoch + 1, UNCHANGED commandVars
  PROVE  Authority!RevokeAll
<1>1. ASSUME NEW c \in Commands
      PROVE  authorityOf'[c] = IF authorityOf[c] = "held" THEN "revoked" ELSE authorityOf[c]
  <2>1. pc'[c] = pc[c] /\ permit'[c] = permit[c] /\ pc[c] \in CommandPc
    BY DEF commandVars, TypeOK
  <2>2. ~EpochActive(c)'
    <3>1. permit[c].epoch \in Nat /\ epoch \in Nat /\ permit[c].epoch <= epoch
      BY DEF Inv, PermitInv, TypeOK
    <3> QED
      BY <2>1, <3>1 DEF EpochActive
  <2>3. CASE pc[c] \in Executing
    BY <2>1, <2>2, <2>3, AuthorityCases, AuthorityOfCommand
  <2>4. CASE pc[c] \notin Executing
    BY <2>1, <2>4, AuthorityCases, AuthorityOfCommand DEF CommandPc
  <2> QED
    BY <2>3, <2>4
<1> QED
  BY <1>1 DEF Authority!RevokeAll, authorityOf

LEMMA AuthorityUnchanged ==
  ASSUME UNCHANGED <<epoch, latched, permit, pc>>
  PROVE  UNCHANGED <<~latched, authorityOf>>
BY DEF authorityOf, EpochActive

LEMMA RefinementStep ==
  TypeOK /\ TypeOK' /\ Inv /\ [Next]_vars => [Authority!Next]_(Authority!vars)
<1> SUFFICES ASSUME TypeOK, TypeOK', Inv, [Next]_vars
             PROVE  Authority!Next \/ UNCHANGED <<~latched, authorityOf>>
  BY DEF Authority!vars
<1>1. ASSUME NEW c \in Commands, CommandStep(c)
      PROVE  Authority!Next \/ UNCHANGED <<~latched, authorityOf>>
  BY <1>1, CommandStepRefines
     DEF AuthorityStep, Authority!Next, Authority!Grant, Authority!Spend, Authority!Drop
<1>2. ASSUME NEW s \in Stops, RequestStop(s) PROVE Authority!Next
  <2>1. Authority!RevokeAll
    BY <1>2, EndOfEpochRevokes DEF RequestStop, Latch
  <2>2. latched'
    BY <1>2 DEF RequestStop, Latch
  <2> QED
    BY <2>1, <2>2 DEF Authority!Next, Authority!Stop
<1>3. ASSUME NEW r \in Resets, FinishReset(r) PROVE Authority!Next
  <2>1. Authority!RevokeAll
    BY <1>3, EndOfEpochRevokes DEF FinishReset
  <2>2. ~latched'
    BY <1>3 DEF FinishReset
  <2> QED
    BY <2>1, <2>2 DEF Authority!Next, Authority!Rearm
<1>4. ASSUME \/ \E s \in Stops : ConfirmStop(s) \/ FailStop(s) \/ TimeOutStop(s)
             \/ \E r \in Resets : BeginReset(r) \/ FailReset(r)
             \/ TakeStopLock \/ AdapterStopReturns \/ AdapterStopRaises
             \/ UNCHANGED vars
      PROVE  UNCHANGED <<~latched, authorityOf>>
  <2>1. UNCHANGED <<controllerVars, commandVars>>
    BY <1>4 DEF ConfirmStop, FailStop, TimeOutStop, AnswerStop, BeginReset, FailReset,
                TakeStopLock, AdapterStopReturns, AdapterStopRaises, vars
  <2> QED
    BY <2>1, AuthorityUnchanged DEF controllerVars, commandVars
<1> QED
  BY <1>1, <1>2, <1>3, <1>4 DEF Next, StopStep, ResetStep

\* The epochs, events, threads and locks of the client implement the abstract
\* promise of CommandAuthority: authority taken by a stop or a reset is never
\* given back, so a command stopped at any point of its execution can no longer
\* be reported as completed.
THEOREM AuthorityRefinement == Spec => AuthorityIsNeverRevived
<1>1. Init => Authority!Init
  <2> SUFFICES ASSUME Init PROVE ~latched = TRUE /\ authorityOf = [c \in Commands |-> "none"]
    BY DEF Authority!Init
  <2>1. ASSUME NEW c \in Commands PROVE AuthorityAt(pc[c], EpochActive(c)) = "none"
    <3>1. pc[c] = "queued"
      BY DEF Init
    <3> QED
      BY <3>1, AuthorityCases DEF CommandPc
  <2> QED
    BY <2>1 DEF Init, authorityOf
<1>2. Init => Inv
  BY DEF Init, Inv, PermitInv, OverrunsAreObserved
<1> QED
  BY <1>1, <1>2, InvStep, RefinementStep, TypeCorrect, PTL
     DEF Spec, AuthorityIsNeverRevived, Authority!Spec
-----------------------------------------------------------------------------
(***************************************************************************)
(* Resets. A stop that begins while a reset awaits the adapter's hook is   *)
(* unlatched by that reset (SafetyStopReset.cfg). The resets this may      *)
(* happen to are recorded here: those in whose await a stop held the stop  *)
(* lock or waited for it. All the others keep what ADR 0001 promises.      *)
(***************************************************************************)
VARIABLE overlapped   \* history: resets that awaited the hook beside a stop

Contested == holder # Nobody \/ waiters # <<>>

RecordedInit == Init /\ overlapped = {}

Record == overlapped' = overlapped \cup {r \in Resets : Contested' /\ resetPc'[r] = "awaiting"}

RecordedSpec == RecordedInit /\ [][Next /\ Record]_<<vars, overlapped>>

\* Until a stop begins, what a reset checked before its await stays true.
Undisturbed ==
  /\ Contested \/ latched => lastStop # "never"
  /\ \A r \in Resets \ overlapped :
       resetPc[r] = "awaiting" =>
         ~ Contested /\ stopWorker # "running" /\ lastStop \in {"never", "confirmed"}

LEMMA UndisturbedStep ==
  ASSUME ~ OutboxMayFail, TypeOK, Undisturbed, Next, Record
  PROVE  Undisturbed'
<1> USE DEF Undisturbed, Contested, Record, controllerVars, commandVars, stopVars
<1>1. ASSUME UNCHANGED <<latched, stopVars, resetPc>>
      PROVE  Undisturbed'
  BY <1>1
<1>2. ASSUME NEW c \in Commands, CommandStep(c)
      PROVE  Undisturbed'
  BY <1>1, <1>2 DEF CommandStep, IssuePermit, EnterAdapter, CheckWrite, LandWrite, RecheckWrite,
                    BeginPause, EndPause, LeaveAdapter, AdapterRaises
<1>3. ASSUME NEW s \in Stops, RequestStop(s)
      PROVE  Undisturbed'
  <2>1. CASE holder = Nobody /\ waiters = <<>> /\ EnterStopLock(s)
    BY <1>3, <2>1 DEF RequestStop, EnterStopLock
  <2>2. CASE (holder # Nobody \/ waiters # <<>>) /\ UNCHANGED lastStop
    BY <1>3, <2>2 DEF RequestStop, EnterStopLock, TypeOK
  <2> QED BY <1>3, <2>1, <2>2 DEF RequestStop
<1>4. ASSUME NEW s \in Stops, ConfirmStop(s) \/ FailStop(s) \/ TimeOutStop(s)
      PROVE  Undisturbed'
  BY <1>4 DEF ConfirmStop, FailStop, TimeOutStop, AnswerStop
<1>5. ASSUME NEW r \in Resets, ResetStep(r)
      PROVE  Undisturbed'
  BY <1>5 DEF ResetStep, BeginReset, FinishReset, FailReset, TypeOK
<1>6. CASE TakeStopLock
  BY <1>6 DEF TakeStopLock, EnterStopLock
<1>7. CASE AdapterStopReturns \/ AdapterStopRaises
  BY <1>7 DEF AdapterStopReturns, AdapterStopRaises
<1> QED BY <1>2, <1>3, <1>4, <1>5, <1>6, <1>7 DEF Next, StopStep

\* ADR 0001, but for the resets that overlapped a stop: the latch is taken off
\* only when the last stop was confirmed, no stop is under way, and the device is
\* at rest (remote_actions.py, reset_safety; client_commands.py,
\* _reset_hardware_stop). Recording which ones did hinders no step.
THEOREM ResetsFindTheDeviceAtRest ==
  ASSUME ~ OutboxMayFail
  PROVE  RecordedSpec =>
           /\ Spec
           /\ [][latched /\ ~ latched' =>
                   \/ lastStop = "confirmed" /\ ~ Contested /\ AtRest
                   \/ \E r \in overlapped : FinishReset(r)]_<<vars, overlapped>>
<1>1. RecordedInit => Init /\ RestInv /\ Undisturbed
  BY DEF RecordedInit, Init, RestInv, Undisturbed, Contested
<1>2. ASSUME TypeOK, Undisturbed, [Next /\ Record]_<<vars, overlapped>>
      PROVE  Undisturbed'
  <2>1. CASE Next /\ Record
    BY <1>2, <2>1, UndisturbedStep
  <2>2. CASE UNCHANGED <<vars, overlapped>>
    BY <1>2, <2>2 DEF vars, controllerVars, stopVars, Undisturbed, Contested
  <2> QED BY <1>2, <2>1, <2>2
<1>3. ASSUME TypeOK, RestInv, Undisturbed, Next, latched, ~ latched'
      PROVE  \/ lastStop = "confirmed" /\ ~ Contested /\ AtRest
             \/ \E r \in overlapped : FinishReset(r)
  <2>1. PICK r \in Resets : FinishReset(r)
    <3>1. ASSUME NEW c \in Commands, CommandStep(c) PROVE latched' = latched
      BY <3>1 DEF CommandStep, IssuePermit, EnterAdapter, CheckWrite, LandWrite, RecheckWrite,
                  BeginPause, EndPause, LeaveAdapter, AdapterRaises, controllerVars
    <3>2. ASSUME NEW s \in Stops, StopStep(s) PROVE latched' = latched \/ latched'
      BY <3>2 DEF StopStep, RequestStop, Latch, ConfirmStop, FailStop, TimeOutStop, AnswerStop,
                  controllerVars
    <3>3. ASSUME NEW r \in Resets, BeginReset(r) \/ FailReset(r) PROVE latched' = latched
      BY <3>3 DEF BeginReset, FailReset, controllerVars
    <3>4. ASSUME TakeStopLock \/ AdapterStopReturns \/ AdapterStopRaises PROVE latched' = latched
      BY <3>4 DEF TakeStopLock, AdapterStopReturns, AdapterStopRaises, controllerVars
    <3> QED BY <1>3, <3>1, <3>2, <3>3, <3>4 DEF Next, ResetStep
  <2>2. CASE r \notin overlapped
    <3>1. lastStop = "confirmed" /\ ~ Contested
      BY <1>3, <2>1, <2>2 DEF FinishReset, Undisturbed
    <3> QED BY <1>3, <3>1 DEF RestInv, Contested
  <2> QED BY <2>1, <2>2
<1>4. [Next /\ Record]_<<vars, overlapped>> => [Next]_vars
  BY DEF vars
<1>5. TypeOK /\ RestInv /\ [Next]_vars => RestInv'
  BY RestStep
<1>6. TypeOK /\ RestInv /\ Undisturbed /\ [Next /\ Record]_<<vars, overlapped>> =>
        [latched /\ ~ latched' => \/ lastStop = "confirmed" /\ ~ Contested /\ AtRest
                                  \/ \E r \in overlapped : FinishReset(r)]_<<vars, overlapped>>
  BY <1>3
<1>7. RecordedSpec => Spec
  BY <1>1, <1>4, PTL DEF RecordedSpec, Spec
<1> QED BY <1>1, <1>2, <1>4, <1>5, <1>6, <1>7, TypeCorrect, PTL DEF RecordedSpec
=============================================================================
