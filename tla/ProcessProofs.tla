--------------------------- MODULE ProcessProofs ----------------------------
(***************************************************************************)
(* Proofs about the processes the client starts and replaces: its own, by  *)
(* an update and the launcher (Ota), and those of a publishing task        *)
(* (Publisher).                                                            *)
(*                                                                         *)
(* Ota, for any set of updates: wherever the update, the launcher or the   *)
(* process is interrupted, the next boot finds a release to start, and the *)
(* only release it starts again is one that has confirmed itself.          *)
(*                                                                         *)
(* Publisher, for any queue, limit of failed reads, number of              *)
(* cancellations and temper of the parts: a task that is done leaves       *)
(* nothing behind, neither a process nor a microphone.                     *)
(***************************************************************************)
EXTENDS Ota, Publisher, TLAPS

-----------------------------------------------------------------------------
(* Ota.                                                                    *)

Announced == pending # NoPending

\* The types, and which variables a step may count on.
Types ==
  /\ TypeOK
  /\ phase = "up" /\ step # "idle" => update \in Updates
  /\ step \in {"swap", "mark", "exec", "restore", "forget", "activate", "attempt"}
       => Announced

\* What the state directory promises the next boot.
Directory ==
  /\ ~Announced /\ current # "none" => slots[current] \in proved
  /\ Announced =>
       /\ pending.previous # "none" => slots[pending.previous] \in proved
       /\ pending.previous # pending.target
       /\ slots[pending.target] = pending.update
       /\ current \in {pending.target, pending.previous}
       /\ attempted \/ pending.update \notin tried

\* Where the update and the launcher stand with the directory.
Steps ==
  /\ phase # "refused"
  /\ step \in {"stage", "place", "announce", "unmark"} => ~Announced
  /\ step = "announce" => slots[InactiveSlot] = update
  /\ step \in {"swap", "forget"} => current = pending.previous
  /\ step \in {"mark", "exec", "attempt"} => current = pending.target
  /\ step \in {"swap", "mark", "exec"} => pending.update = update
  /\ step = "exec" => attempted
  /\ step = "launch" /\ Announced => attempted /\ current = pending.target
  /\ phase = "up" /\ step = "idle" /\ Announced => program = pending.update
  /\ confirming # "none" => phase = "up" /\ ~Announced /\ step \in {"idle", "stage"}

\* What has not been started yet.
Fresh ==
  /\ tried \subseteq requested /\ proved \subseteq requested
  /\ Announced => pending.update \in requested
  /\ step \in InstallSteps => update \notin tried
  /\ step \in {"activate", "attempt"} => pending.update \notin tried
  /\ step = "launch" /\ Announced => pending.update \notin tried

\* What has not been reported yet.
Reports ==
  /\ \A u \in Updates : u \notin requested => verdicts[u] = {}
  /\ \A u \in Updates : verdicts[u] # {"completed", "failed"}
  /\ Announced => verdicts[pending.update] = {}
  /\ phase = "up" /\ step # "idle" => update \in requested /\ verdicts[update] = {}
  /\ confirming # "none" =>
       /\ confirming \in requested /\ verdicts[confirming] = {}
       /\ step # "idle" => confirming # update

IInv == Types /\ (clean => Directory /\ Steps /\ Fresh /\ Reports)

-----------------------------------------------------------------------------
(* Every step keeps the types.                                             *)

\* What the expansion of the types needs.
LEMMA NoPendingIsNoUpdate == NoPending \notin Pendings
<1>1. "none" \notin Slots  BY DEF Slots
<1> QED  BY <1>1 DEF NoPending, Pendings

LEMMA InitTypes == Init => Types
<1>1. \A u \in Updates : {} \in SUBSET {"completed", "failed"}  OBVIOUS
<1> QED  BY <1>1 DEF Init, Types, TypeOK, PhaseOK, Announced

LEMMA PhaseNext ==
  ASSUME Types, [Next]_vars
  PROVE  PhaseOK'
<1> USE OtaAssumption DEF Types, TypeOK, PhaseOK, InstallSteps, RollbackSteps, BootSteps
<1>1. ASSUME NEW u \in Updates, RequestUpdate(u)  PROVE PhaseOK'
  BY <1>1 DEF RequestUpdate
<1>2. CASE StageFails  BY <1>2 DEF StageFails, Fail
<1>3. CASE Discard  BY <1>3 DEF Discard
<1>4. CASE Place  BY <1>4 DEF Place
<1>5. CASE Announce  BY <1>5 DEF Announce
<1>6. CASE SwapCurrent  BY <1>6 DEF SwapCurrent
<1>7. CASE Mark  BY <1>7 DEF Mark
<1>8. CASE WriteFails  BY <1>8 DEF WriteFails, Fail
<1>9. CASE Exec  BY <1>9 DEF Exec, Started
<1>10. CASE ExecFails  BY <1>10 DEF ExecFails, Fail, PreviousIsUsable
<1>11. CASE Restore  BY <1>11 DEF Restore
<1>12. CASE Forget  BY <1>12 DEF Forget
<1>13. CASE Unmark  BY <1>13 DEF Unmark, Ended
<1>14. CASE Confirm  BY <1>14 DEF Confirm, Checks, Confirmable
<1>15. CASE FinishConfirm  BY <1>15 DEF FinishConfirm
<1>16. CASE ConfirmRaises  BY <1>16 DEF ConfirmRaises, Checks
<1>17. CASE EnsureBackgroundTasks  BY <1>17 DEF EnsureBackgroundTasks
<1>18. CASE Crash  BY <1>18 DEF Crash, Ended
<1>19. CASE PrepareBoot  BY <1>19 DEF PrepareBoot, Proceed, Refuse, PreviousIsUsable
<1>20. CASE Activate  BY <1>20 DEF Activate
<1>21. CASE Attempt  BY <1>21 DEF Attempt
<1>22. CASE Launch  BY <1>22 DEF Launch, Started, Ended
<1>23. CASE UNCHANGED vars  BY <1>23 DEF vars
<1> QED
  BY <1>1, <1>2, <1>3, <1>4, <1>5, <1>6, <1>7, <1>8, <1>9, <1>10, <1>11, <1>12, <1>13, <1>14, <1>15, <1>16, <1>17, <1>18, <1>19, <1>20, <1>21, <1>22, <1>23
  DEF Next, InstallStep, RollbackStep, ConfirmStep, BootStep

LEMMA TypesNext ==
  ASSUME Types, [Next]_vars
  PROVE  Types'
<1> USE OtaAssumption, NoPendingIsNoUpdate, PhaseNext
        DEF Types, TypeOK, Announced, disk, memory, history
<1>1. ASSUME NEW u \in Updates, RequestUpdate(u)  PROVE Types'
  BY <1>1 DEF RequestUpdate
<1>2. CASE StageFails
  BY <1>2 DEF StageFails, Fail
<1>3. CASE Discard
  BY <1>3 DEF Discard, InactiveSlot, Slots
<1>4. CASE Place
  BY <1>4 DEF Place, InactiveSlot, Slots
<1>5. CASE Announce
  BY <1>5 DEF Announce, InactiveSlot, Slots, Pendings
<1>6. CASE SwapCurrent
  BY <1>6 DEF SwapCurrent, Pendings
<1>7. CASE Mark
  BY <1>7 DEF Mark
<1>8. CASE WriteFails
  BY <1>8 DEF WriteFails, Fail
<1>9. CASE Exec
  BY <1>9 DEF Exec, Started
<1>10. CASE ExecFails
  BY <1>10 DEF ExecFails, Fail, PreviousIsUsable
<1>11. CASE Restore
  BY <1>11 DEF Restore, Pendings
<1>12. CASE Forget
  BY <1>12 DEF Forget
<1>13. CASE Unmark
  <2>1. CASE phase = "boot"  BY <1>13, <2>1 DEF Unmark, PhaseOK
  <2>2. CASE phase # "boot"
    <3>1. phase = "up" /\ update \in Updates  BY <1>13, <2>2 DEF Unmark, PhaseOK
    <3>2. verdicts[update] \cup {"failed"} \in SUBSET {"completed", "failed"}  BY <3>1
    <3>3. verdicts' = [verdicts EXCEPT ![update] = @ \cup {"failed"}]
          /\ UNCHANGED <<requested, tried, proved, clean, slots, current, pending>>
      BY <1>13, <2>2 DEF Unmark
    <3>4. verdicts' \in [Updates -> SUBSET {"completed", "failed"}]  BY <3>1, <3>2, <3>3
    <3>5. attempted' = FALSE /\ Ended("stopped")  BY <1>13, <2>2 DEF Unmark
    <3> HIDE DEF memory, history
    <3> QED  BY <3>3, <3>4, <3>5 DEF Ended
  <2> QED  BY <2>1, <2>2
<1>14. CASE Confirm
  <2>1. pending.update \in Updates  BY <1>14 DEF Confirm, Confirmable, Pendings
  <2>2. proved' \subseteq Updates /\ confirming' \in Updates  BY <1>14, <2>1 DEF Confirm
  <2> QED  BY <1>14, <2>2 DEF Confirm, Checks
<1>15. CASE FinishConfirm
  BY <1>15 DEF FinishConfirm
<1>16. CASE ConfirmRaises
  BY <1>16 DEF ConfirmRaises, Checks
<1>17. CASE EnsureBackgroundTasks
  BY <1>17 DEF EnsureBackgroundTasks
<1>18. CASE Crash
  BY <1>18 DEF Crash, Ended
<1>19. CASE PrepareBoot
  BY <1>19 DEF PrepareBoot, Proceed, Refuse, PreviousIsUsable
<1>20. CASE Activate
  BY <1>20 DEF Activate, Pendings
<1>21. CASE Attempt
  BY <1>21 DEF Attempt
<1>22. CASE Launch
  BY <1>22 DEF Launch, Started, Ended
<1>23. CASE UNCHANGED vars
  BY <1>23 DEF vars
<1> QED
  BY <1>1, <1>2, <1>3, <1>4, <1>5, <1>6, <1>7, <1>8, <1>9, <1>10, <1>11, <1>12, <1>13, <1>14, <1>15, <1>16, <1>17, <1>18, <1>19, <1>20, <1>21, <1>22, <1>23
  DEF Next, InstallStep, RollbackStep, ConfirmStep, BootStep

-----------------------------------------------------------------------------
(* The rollback always has somewhere to go.                                *)

LEMMA PendingTypes ==
  ASSUME TypeOK, Announced
  PROVE  /\ pending.target \in Slots /\ pending.update \in Updates
         /\ pending.previous \in Slots \cup {"none"}
BY DEF TypeOK, Announced, Pendings

LEMMA PreviousIsThere ==
  ASSUME IInv, clean, Announced
  PROVE  PreviousIsUsable
<1>1. \A s \in {pending.previous} \cap Slots : slots[s] \in proved  BY DEF IInv, Directory, Slots
<1>2. "absent" \notin proved  BY OtaAssumption DEF IInv, Types, TypeOK
<1> QED  BY <1>1, <1>2 DEF PreviousIsUsable

LEMMA TargetIsThere ==
  ASSUME IInv, clean, Announced
  PROVE  slots[pending.target] # "absent"
BY PendingTypes, OtaAssumption DEF IInv, Types, Directory

LEMMA ExecFailsEffect ==
  ASSUME IInv, clean, ExecFails
  PROVE  /\ phase = "up" /\ step = "exec" /\ step' = "restore"
         /\ UNCHANGED <<disk, phase, program, update, memory, history>>
<1>1. Announced  BY DEF ExecFails, IInv, Types
<1> QED  BY <1>1, PreviousIsThere DEF ExecFails

LEMMA PrepareBootEffect ==
  ASSUME IInv, clean, PrepareBoot
  PROVE  /\ \/ Announced /\ attempted /\ step' = "restore"
            \/ Announced /\ ~attempted /\ step' = "activate"
            \/ ~Announced /\ step' = "launch"
         /\ phase \in {"down", "stopped", "refused"} /\ phase' = "boot"
         /\ UNCHANGED <<disk, program, update, memory, history>>
<1>1. CASE pending # NoPending /\ attempted
  <2>1. PreviousIsUsable  BY <1>1, PreviousIsThere DEF Announced
  <2> QED  BY <1>1, <2>1 DEF PrepareBoot, Proceed, Announced
<1>2. CASE pending # NoPending /\ ~attempted
  <2>1. slots[pending.target] # "absent"  BY <1>2, TargetIsThere DEF Announced
  <2> QED  BY <1>2, <2>1 DEF PrepareBoot, Proceed, Announced
<1>3. CASE pending = NoPending  BY <1>3 DEF PrepareBoot, Proceed, Announced
<1> QED  BY <1>1, <1>2, <1>3 DEF PrepareBoot

-----------------------------------------------------------------------------
(* Every step keeps the invariant.                                         *)

LEMMA DirectoryNext ==
  ASSUME IInv, Types', clean, clean', Next
  PROVE  Directory'
<1> USE OtaAssumption, NoPendingIsNoUpdate
    DEF IInv, Types, TypeOK, PhaseOK, Announced, InstallSteps, RollbackSteps, BootSteps,
        disk, memory, history, Directory, Steps, Fresh
<1>1. ASSUME NEW u \in Updates, RequestUpdate(u)  PROVE Directory'
  BY <1>1 DEF RequestUpdate
<1>2. CASE StageFails
  BY <1>2 DEF StageFails, Fail
<1>3. CASE Discard
  BY <1>3 DEF Discard, InactiveSlot, Slots
<1>4. CASE Place
  BY <1>4 DEF Place, InactiveSlot, Slots
<1>5. CASE Announce
  BY <1>5 DEF Announce, InactiveSlot, Slots, Pendings
<1>6. CASE SwapCurrent
  BY <1>6 DEF SwapCurrent, Pendings
<1>7. CASE Mark
  BY <1>7 DEF Mark
<1>8. CASE WriteFails
  BY <1>8 DEF WriteFails, Fail
<1>9. CASE Exec
  BY <1>9 DEF Exec, Started, Pendings
<1>10. CASE ExecFails
  BY <1>10, ExecFailsEffect
<1>11. CASE Restore
  BY <1>11 DEF Restore, Pendings
<1>12. CASE Forget
  BY <1>12 DEF Forget
<1>13. CASE Unmark
  BY <1>13 DEF Unmark, Ended
<1>14. CASE Confirm
  BY <1>14 DEF Confirm, Checks, Confirmable, Pendings
<1>15. CASE FinishConfirm
  BY <1>15 DEF FinishConfirm
<1>16. CASE ConfirmRaises
  BY <1>16 DEF ConfirmRaises, Checks
<1>17. CASE EnsureBackgroundTasks
  BY <1>17 DEF EnsureBackgroundTasks
<1>18. CASE Crash
  BY <1>18 DEF Crash, Ended
<1>19. CASE PrepareBoot
  BY <1>19, PrepareBootEffect
<1>20. CASE Activate
  BY <1>20 DEF Activate, Pendings
<1>21. CASE Attempt
  BY <1>21 DEF Attempt
<1>22. CASE Launch
  BY <1>22 DEF Launch, Started, Ended
<1> QED
  BY <1>1, <1>2, <1>3, <1>4, <1>5, <1>6, <1>7, <1>8, <1>9, <1>10, <1>11, <1>12, <1>13, <1>14, <1>15, <1>16, <1>17, <1>18, <1>19, <1>20, <1>21, <1>22
  DEF Next, InstallStep, RollbackStep, ConfirmStep, BootStep

LEMMA StepsNext ==
  ASSUME IInv, Types', clean, clean', Next
  PROVE  Steps'
<1> USE OtaAssumption, NoPendingIsNoUpdate
    DEF IInv, Types, TypeOK, PhaseOK, Announced, InstallSteps, RollbackSteps, BootSteps,
        disk, memory, history, Directory, Steps
<1>1. ASSUME NEW u \in Updates, RequestUpdate(u)  PROVE Steps'
  BY <1>1 DEF RequestUpdate
<1>2. CASE StageFails
  BY <1>2 DEF StageFails, Fail
<1>3. CASE Discard
  BY <1>3 DEF Discard, InactiveSlot, Slots
<1>4. CASE Place
  BY <1>4 DEF Place, InactiveSlot, Slots
<1>5. CASE Announce
  BY <1>5 DEF Announce, InactiveSlot, Slots, Pendings
<1>6. CASE SwapCurrent
  BY <1>6 DEF SwapCurrent, Pendings
<1>7. CASE Mark
  BY <1>7 DEF Mark
<1>8. CASE WriteFails
  BY <1>8 DEF WriteFails, Fail
<1>9. CASE Exec
  BY <1>9 DEF Exec, Started, Pendings
<1>10. CASE ExecFails
  BY <1>10, ExecFailsEffect
<1>11. CASE Restore
  BY <1>11 DEF Restore, Pendings
<1>12. CASE Forget
  BY <1>12 DEF Forget
<1>13. CASE Unmark
  BY <1>13 DEF Unmark, Ended
<1>14. CASE Confirm
  BY <1>14 DEF Confirm, Checks, Confirmable, Pendings
<1>15. CASE FinishConfirm
  BY <1>15 DEF FinishConfirm
<1>16. CASE ConfirmRaises
  BY <1>16 DEF ConfirmRaises, Checks
<1>17. CASE EnsureBackgroundTasks
  BY <1>17 DEF EnsureBackgroundTasks, InactiveSlot
<1>18. CASE Crash
  BY <1>18 DEF Crash, Ended
<1>19. CASE PrepareBoot
  BY <1>19, PrepareBootEffect
<1>20. CASE Activate
  BY <1>20 DEF Activate, Pendings
<1>21. CASE Attempt
  BY <1>21 DEF Attempt
<1>22. CASE Launch
  <2>1. current # "none" => slots[current] \in Updates  BY <1>22, PendingTypes DEF Launch, Fresh
  <2>2. CASE current = "none"  BY <1>22, <2>2, PendingTypes DEF Launch, Started, Slots
  <2>3. CASE current # "none"  BY <1>22, <2>1, <2>3, PendingTypes DEF Launch, Started
  <2> QED  BY <2>2, <2>3
<1> QED
  BY <1>1, <1>2, <1>3, <1>4, <1>5, <1>6, <1>7, <1>8, <1>9, <1>10, <1>11, <1>12, <1>13, <1>14, <1>15, <1>16, <1>17, <1>18, <1>19, <1>20, <1>21, <1>22
  DEF Next, InstallStep, RollbackStep, ConfirmStep, BootStep

LEMMA FreshNext ==
  ASSUME IInv, Types', clean, clean', Next
  PROVE  Fresh'
<1> USE OtaAssumption, NoPendingIsNoUpdate
    DEF IInv, Types, TypeOK, PhaseOK, Announced, InstallSteps, RollbackSteps, BootSteps,
        disk, memory, history, Directory, Steps, Fresh
<1>1. ASSUME NEW u \in Updates, RequestUpdate(u)  PROVE Fresh'
  BY <1>1 DEF RequestUpdate
<1>2. CASE StageFails
  BY <1>2 DEF StageFails, Fail
<1>3. CASE Discard
  BY <1>3 DEF Discard, InactiveSlot, Slots
<1>4. CASE Place
  BY <1>4 DEF Place, InactiveSlot, Slots
<1>5. CASE Announce
  <2>1. pending'.update = update /\ update \in requested \cup Updates  BY <1>5 DEF Announce
  <2>2. step' = "swap" /\ UNCHANGED <<update, requested, tried, proved>>  BY <1>5 DEF Announce
  <2>3. update \in requested  BY <1>5 DEF Announce, Reports
  <2> QED  BY <1>5, <2>1, <2>2, <2>3 DEF Announce
<1>6. CASE SwapCurrent
  BY <1>6 DEF SwapCurrent, Pendings
<1>7. CASE Mark
  BY <1>7 DEF Mark
<1>8. CASE WriteFails
  BY <1>8 DEF WriteFails, Fail
<1>9. CASE Exec
  <2>1. /\ step = "exec" /\ step' = "idle" /\ UNCHANGED <<pending, requested, proved>>
        /\ tried' \subseteq tried \cup {slots[pending.target]}
    BY <1>9 DEF Exec, Started
  <2>2. Announced /\ slots[pending.target] = pending.update /\ pending.update \in requested
    BY <2>1
  <2> HIDE DEF Types, Directory, Steps
  <2> QED BY <2>1, <2>2
<1>10. CASE ExecFails
  BY <1>10, ExecFailsEffect
<1>11. CASE Restore
  BY <1>11 DEF Restore, Pendings
<1>12. CASE Forget
  BY <1>12 DEF Forget
<1>13. CASE Unmark
  BY <1>13 DEF Unmark, Ended
<1>14. CASE Confirm
  BY <1>14 DEF Confirm, Checks, Confirmable, Pendings
<1>15. CASE FinishConfirm
  BY <1>15 DEF FinishConfirm
<1>16. CASE ConfirmRaises
  BY <1>16 DEF ConfirmRaises, Checks
<1>17. CASE EnsureBackgroundTasks
  BY <1>17 DEF EnsureBackgroundTasks
<1>18. CASE Crash
  BY <1>18 DEF Crash, Ended
<1>19. CASE PrepareBoot
  BY <1>19, PrepareBootEffect
<1>20. CASE Activate
  BY <1>20 DEF Activate, Pendings
<1>21. CASE Attempt
  BY <1>21 DEF Attempt
<1>22. CASE Launch
  BY <1>22 DEF Launch, Started, Ended
<1> QED
  BY <1>1, <1>2, <1>3, <1>4, <1>5, <1>6, <1>7, <1>8, <1>9, <1>10, <1>11, <1>12, <1>13, <1>14, <1>15, <1>16, <1>17, <1>18, <1>19, <1>20, <1>21, <1>22
  DEF Next, InstallStep, RollbackStep, ConfirmStep, BootStep

LEMMA ReportsNext ==
  ASSUME IInv, Types', clean, clean', Next
  PROVE  Reports'
<1> USE OtaAssumption, NoPendingIsNoUpdate
    DEF IInv, Types, TypeOK, PhaseOK, Announced, InstallSteps, RollbackSteps, BootSteps,
        disk, memory, history, Directory, Steps, Fresh, Reports
<1>1. ASSUME NEW u \in Updates, RequestUpdate(u)  PROVE Reports'
  BY <1>1 DEF RequestUpdate
<1>2. CASE StageFails
  BY <1>2 DEF StageFails, Fail
<1>3. CASE Discard
  BY <1>3 DEF Discard, InactiveSlot, Slots
<1>4. CASE Place
  BY <1>4 DEF Place, InactiveSlot, Slots
<1>5. CASE Announce
  BY <1>5 DEF Announce, InactiveSlot, Slots, Pendings
<1>6. CASE SwapCurrent
  BY <1>6 DEF SwapCurrent, Pendings
<1>7. CASE Mark
  BY <1>7 DEF Mark
<1>8. CASE WriteFails
  <2>1. update \in requested /\ verdicts[update] = {} /\ ~Announced  BY <1>8 DEF WriteFails, Fail
  <2>2. verdicts' = [verdicts EXCEPT ![update] = {"failed"}]  BY <1>8, <2>1 DEF WriteFails, Fail
  <2>3. step' = "idle" /\ confirming = "none"  BY <1>8 DEF WriteFails, Fail
  <2> QED  BY <1>8, <2>1, <2>2, <2>3 DEF WriteFails, Fail
<1>9. CASE Exec
  BY <1>9 DEF Exec, Started, Pendings
<1>10. CASE ExecFails
  BY <1>10, ExecFailsEffect
<1>11. CASE Restore
  BY <1>11 DEF Restore, Pendings
<1>12. CASE Forget
  BY <1>12 DEF Forget
<1>13. CASE Unmark
  BY <1>13 DEF Unmark, Ended
<1>14. CASE Confirm
  BY <1>14 DEF Confirm, Checks, Confirmable, Pendings
<1>15. CASE FinishConfirm
  BY <1>15 DEF FinishConfirm
<1>16. CASE ConfirmRaises
  BY <1>16 DEF ConfirmRaises, Checks
<1>17. CASE EnsureBackgroundTasks
  BY <1>17 DEF EnsureBackgroundTasks
<1>18. CASE Crash
  BY <1>18 DEF Crash, Ended
<1>19. CASE PrepareBoot
  BY <1>19, PrepareBootEffect
<1>20. CASE Activate
  BY <1>20 DEF Activate, Pendings
<1>21. CASE Attempt
  BY <1>21 DEF Attempt
<1>22. CASE Launch
  BY <1>22 DEF Launch, Started, Ended
<1> QED
  BY <1>1, <1>2, <1>3, <1>4, <1>5, <1>6, <1>7, <1>8, <1>9, <1>10, <1>11, <1>12, <1>13, <1>14, <1>15, <1>16, <1>17, <1>18, <1>19, <1>20, <1>21, <1>22
  DEF Next, InstallStep, RollbackStep, ConfirmStep, BootStep

-----------------------------------------------------------------------------
(* The invariant, and the theorems.                                        *)

LEMMA CleanIsLost ==
  ASSUME Next, clean'
  PROVE  clean
<1> USE DEF history
<1>1. ASSUME NEW u \in Updates, RequestUpdate(u)  PROVE clean  BY <1>1 DEF RequestUpdate
<1>2. CASE StageFails  BY <1>2 DEF StageFails
<1>3. CASE Discard \/ Place \/ Announce \/ SwapCurrent \/ Mark
  BY <1>3 DEF Discard, Place, Announce, SwapCurrent, Mark
<1>4. CASE WriteFails \/ Exec \/ ExecFails  BY <1>4 DEF WriteFails, Exec, ExecFails
<1>5. CASE RollbackStep  BY <1>5 DEF RollbackStep, Restore, Forget, Unmark
<1>6. CASE ConfirmStep
  BY <1>6 DEF ConfirmStep, Confirm, FinishConfirm, ConfirmRaises, EnsureBackgroundTasks
<1>7. CASE BootStep
  BY <1>7 DEF BootStep, Crash, PrepareBoot, Proceed, Refuse, Activate, Attempt, Launch
<1> QED  BY <1>1, <1>2, <1>3, <1>4, <1>5, <1>6, <1>7 DEF Next, InstallStep

LEMMA InitIInv == Init => IInv
<1> SUFFICES ASSUME Init PROVE IInv  OBVIOUS
<1>1. Types  BY InitTypes
<1>2. Directory  BY DEF Init, Directory, Announced
<1>3. Steps  BY DEF Init, Steps, Announced
<1>4. Fresh  BY DEF Init, Fresh, Announced, InstallSteps
<1>5. Reports  BY DEF Init, Reports, Announced
<1> QED  BY <1>1, <1>2, <1>3, <1>4, <1>5 DEF IInv

LEMMA NextIInv == IInv /\ [Next]_vars => IInv'
<1> SUFFICES ASSUME IInv, [Next]_vars PROVE IInv'  OBVIOUS
<1>1. Types'  BY TypesNext DEF IInv
<1>2. CASE Next
  <2> SUFFICES ASSUME clean' PROVE Directory' /\ Steps' /\ Fresh' /\ Reports'
    BY <1>1 DEF IInv
  <2>1. clean  BY <1>2, CleanIsLost
  <2> QED  BY <1>1, <1>2, <2>1, DirectoryNext, StepsNext, FreshNext, ReportsNext
<1>3. CASE UNCHANGED vars
  BY <1>1, <1>3 DEF IInv, vars, disk, memory, history, Directory, Steps, Fresh, Reports,
                    Announced, InactiveSlot
<1> QED  BY <1>2, <1>3

LEMMA Invariance == Spec => []IInv
BY InitIInv, NextIInv, PTL DEF Spec

\* Every variable keeps its type, and each phase its process and its steps.
THEOREM OtaTypes == Spec => []TypeOK
<1>1. IInv => TypeOK  BY DEF IInv, Types
<1> QED  BY <1>1, Invariance, PTL

\* However the update, the launcher and the process are interrupted, the next
\* boot finds a release to start: prepare_boot and rollback_state_directory.
THEOREM BootFindsARelease == Spec => []BootIsNeverRefused
<1>1. IInv => BootIsNeverRefused  BY DEF IInv, Steps, BootIsNeverRefused
<1> QED  BY <1>1, Invariance, PTL

\* A release is only kept without a pending marker once it confirmed itself.
THEOREM OnlyProvenReleasesAreKept == Spec => []NothingUnprovenIsKept
<1>1. IInv => NothingUnprovenIsKept
  BY DEF IInv, Directory, Announced, NothingUnprovenIsKept
<1> QED  BY <1>1, Invariance, PTL

\* The action of an update has one terminal result.
THEOREM UpdatesHaveOneVerdict == Spec => []OneVerdict
<1>1. IInv => OneVerdict  BY DEF IInv, Reports, OneVerdict
<1> QED  BY <1>1, Invariance, PTL

\* A release that did not become ready on its first start is not started again.
THEOREM UnprovenReleasesStartOnce == Spec => UnprovenStartsOnce
<1> DEFINE Once == clean /\ program' \in Updates /\ program' # program
                     => program' \notin tried \/ program' \in proved
<1>1. ASSUME IInv, Next  PROVE Once
  <2> SUFFICES ASSUME clean, program' \in Updates, program' # program
               PROVE  program' \notin tried \/ program' \in proved
    OBVIOUS
  <2>1. CASE Exec
    BY <2>1, <1>1, PendingTypes
    DEF Exec, Started, IInv, Types, Directory, Steps, Fresh, InstallSteps
  <2>2. CASE Launch
    <3>1. program' = slots[current] /\ current # "none"
      BY <2>2, OtaAssumption DEF Launch, Started, Ended
    <3> QED  BY <2>2, <1>1, <3>1 DEF Launch, IInv, Directory, Steps, Fresh
  <2>3. CASE Crash \/ Unmark
    BY <2>3, OtaAssumption DEF Crash, Unmark, Ended
  <2>4. CASE UNCHANGED program  BY <2>4
  <2>5. Exec \/ Launch \/ Crash \/ Unmark \/ UNCHANGED program
    BY <1>1 DEF Next, InstallStep, RollbackStep, ConfirmStep, BootStep,
      RequestUpdate, StageFails, Fail, Discard, Place, Announce, SwapCurrent, Mark,
      WriteFails, ExecFails, Restore, Forget, Confirm, FinishConfirm, ConfirmRaises,
      EnsureBackgroundTasks, PrepareBoot, Proceed, Refuse, Activate, Attempt
  <2> QED  BY <2>1, <2>2, <2>3, <2>4, <2>5
<1>2. IInv /\ [Next]_vars => [Once]_vars  BY <1>1
<1> HIDE DEF Once
<1>3. Spec => [][Once]_vars  BY <1>2, Invariance, PTL DEF Spec
<1> QED  BY <1>3 DEF UnprovenStartsOnce, Once

-----------------------------------------------------------------------------
(* Publisher. What runs, and whose microphone it is.                       *)

\* What an attempt may run.
Team == IF Grouped THEN {First, "ffmpeg"} ELSE {First}

Ownership ==
  /\ alive \subseteq Team
  /\ pc \in {"connect", "starting", "loop"} => closing = "none"
  /\ pc \in {"undoing", "closing"} => closing # "none"
  /\ pc = "microphone" => closing = "over"
  /\ pc = "starting" => Grouped /\ alive \subseteq {First}
  /\ pc \in {"connect", "done"} \/ closing = "over" => alive = {}
  /\ orphans \subseteq Like("stuck")

Microphones ==
  /\ "new" \in mic \/ named = "new" => restart = "over"
  /\ restart = "no" /\ "own" \in mic => named = "own"
  /\ pc = "connect" => named = "none"
  /\ kind = "audio" => named = "none"
  /\ kind = "audio" \/ (pc = "connect" /\ ~ Direct) => mic = {} /\ restart = "no"
  /\ ~ Direct /\ restart # "no" /\ "own" \in mic => "own" \in dismissed
  /\ pc \in {"microphone", "done"} /\ "own" \in mic => "own" \in dismissed
  /\ Direct /\ pc \in {"connect", "done"} => "own" \notin mic
  /\ pc = "done" /\ restart = "no" => named # "own" /\ mic = {}

TaskTypes == PublisherTypeOK /\ retries \in Retries

PublisherInv == TaskTypes /\ (~ rude => Ownership /\ Microphones)

-----------------------------------------------------------------------------
LEMMA FirstParts ==
  ASSUME kind \in Kinds
  PROVE  /\ First \in Parts
         /\ First = "thread" <=> kind = "opencv"
         /\ Retries \subseteq 0 .. 2
         /\ kind \notin {"direct", "audio"} => Retries = {0}
         /\ 0 \in Retries
BY DEF Kinds, First, FirstOf, Parts, Retries

LEMMA RetriesGoDown ==
  ASSUME kind \in Kinds, NEW n \in Retries, n > 0
  PROVE  n - 1 \in Retries
BY DEF Kinds, Retries

LEMMA ChoiceIsKept ==
  ASSUME [PublisherNext]_publisherVars
  PROVE  UNCHANGED <<kind, temper>>
<1> USE DEF choiceVars
<1>1. CASE TaskStep
  BY <1>1 DEF TaskStep, StartCamera, StartDirect, StartAudio, StartIsRefused, StartSecond, FirstIsGone,
     SecondFails, Take, ReadFails, LoopEnds, Poll, Drain, PartsAreReaped, TermTimesOut,
     KillTimesOut, ThreadIsGivenUp, DismissMicrophone, Retry, Finish,
     StartUnchanged, LoopUnchanged, TeardownUnchanged
<1>2. ASSUME NEW p \in Parts, PartEnds(p) \/ Obeys(p)
      PROVE  UNCHANGED <<kind, temper>>
  BY <1>2 DEF PartEnds, Obeys
<1>3. CASE PipeBreaks
  BY <1>3 DEF PipeBreaks, PartEnds
<1>4. CASE FrameArrives \/ ChunkArrives \/ ThreadDelivers \/ StreamEnds
  BY <1>4 DEF FrameArrives, ChunkArrives, ThreadDelivers, StreamEnds, FlowUnchanged
<1>5. ASSUME NEW m \in {"own", "new"}, MicrophoneEnds(m)
      PROVE  UNCHANGED <<kind, temper>>
  BY <1>5 DEF MicrophoneEnds
<1>6. CASE Lose \/ RestartAudio \/ AudioRestarts
  BY <1>6 DEF Lose, RestartAudio, AudioRestarts
<1>7. CASE Cancel
  BY <1>7 DEF Cancel, CancelInTime, CancelTheStart, CancelTheTeardown, CancelIsLost, CancelUnchanged
<1>8. CASE UNCHANGED publisherVars
  BY <1>8 DEF publisherVars
<1> QED BY <1>1, <1>2, <1>3, <1>4, <1>5, <1>6, <1>7, <1>8 DEF PublisherNext

LEMMA TypesAreKept ==
  ASSUME TaskTypes, [PublisherNext]_publisherVars
  PROVE  TaskTypes'
<1>1. kind' = kind /\ temper' = temper
  BY ChoiceIsKept DEF choiceVars
<1>2. Direct' = Direct /\ Grouped' = Grouped /\ First' = First /\ Retries' = Retries /\ kind \in Kinds
  BY <1>1 DEF Direct, Grouped, First, Retries, TaskTypes, PublisherTypeOK
<1>3. First \in Parts /\ Retries \subseteq 0 .. 2 /\ 0 \in Retries /\ "ffmpeg" \in Parts
  BY <1>2, FirstParts DEF Parts
<1> USE <1>1, <1>2, <1>3, PublisherAssumption
    DEF TaskTypes, PublisherTypeOK, choiceVars, taskVars, partVars, flowVars, micVars
<1>4. ASSUME Leave
      PROVE  pc' = "closing" /\ closing' \in {"drain", "term", "reap", "over"}
  BY <1>4 DEF Leave, Terminate
<1>5. CASE StartCamera \/ StartDirect \/ StartAudio
  <2>1. StartUnchanged /\ (StartMicrophone \/ UNCHANGED <<mic, named, dismissed>>)
    BY <1>5 DEF StartCamera, StartDirect, StartAudio
  <2>2. mic' \subseteq {"own", "new"} /\ dismissed' \subseteq {"own", "new"} /\ named' \in {"none", "own", "new"}
    BY <2>1 DEF StartMicrophone
  <2>3. pc' \in {"starting", "loop"} /\ alive' = {First} /\ reader' \in {reader, "on"}
    BY <1>5 DEF StartCamera, StartDirect, StartAudio
  <2> QED BY <2>1, <2>2, <2>3 DEF StartUnchanged
<1>6. CASE StartIsRefused
  BY <1>6 DEF StartIsRefused, StartMicrophone
<1>7. CASE StartSecond \/ FirstIsGone \/ SecondFails
  BY <1>7 DEF StartSecond, FirstIsGone, SecondFails
<1>8. CASE Take
  <2>1. queue' \in 0 .. (IF kind = "audio" THEN QueueFrames ELSE 1) /\ misses' \in 0 .. MaxReads - 1
    BY <1>8 DEF Take
  <2>2. /\ pc' \in {"loop", "closing"} /\ error' \in BOOLEAN
        /\ closing' \in {"none", "drain", "term", "kill", "reap", "over"}
    BY <1>4, <1>8 DEF Take
  <2> QED BY <1>8, <2>1, <2>2 DEF Take, LoopUnchanged
<1>9. CASE ReadFails
  BY <1>4, <1>9 DEF ReadFails, LoopUnchanged
<1>10. CASE LoopEnds \/ Poll
  <2>1. LoopUnchanged /\ UNCHANGED <<queue, misses>> /\ Leave /\ error' \in BOOLEAN
    BY <1>10 DEF LoopEnds, Poll
  <2> QED BY <1>4, <2>1 DEF LoopUnchanged
<1>11. CASE Drain
  BY <1>11 DEF Drain, Terminate, TeardownUnchanged
<1>12. CASE PartsAreReaped \/ TermTimesOut \/ KillTimesOut
  <2>1. /\ TeardownUnchanged /\ error' = error /\ closing' \in {"kill", "over"}
        /\ alive' \in {{}, alive} /\ orphans' \in {orphans, orphans \cup alive}
    BY <1>12 DEF PartsAreReaped, TermTimesOut, KillTimesOut
  <2> QED BY <2>1 DEF TeardownUnchanged
<1>13. CASE ThreadIsGivenUp
  <2>1. error' \in BOOLEAN
    BY <1>13 DEF ThreadIsGivenUp
  <2> QED BY <1>13, <2>1 DEF ThreadIsGivenUp, TeardownUnchanged
<1>14. CASE DismissMicrophone
  BY <1>14 DEF DismissMicrophone
<1>15. CASE Retry
  <2>1. retries' \in Retries
    BY <1>15, RetriesGoDown DEF Retry, MayRetry
  <2>2. 0 \in 0 .. MaxReads - 1 /\ 0 \in 0 .. QueueFrames
    OBVIOUS
  <2>3. queue' \in 0 .. (IF kind = "audio" THEN QueueFrames ELSE 1) /\ misses' \in 0 .. MaxReads - 1
    BY <1>15, <2>2 DEF Retry
  <2>4. /\ pc' = "connect" /\ error' = FALSE /\ closing' = "none" /\ ended' = {}
        /\ reader' = "none" /\ told' = FALSE /\ named' = "none"
        /\ UNCHANGED <<choiceVars, wanted, cancels, rude, alive, orphans, mic, dismissed, restart>>
    BY <1>15 DEF Retry
  <2> QED BY <2>1, <2>3, <2>4
<1>16. CASE Finish
  <2>1. pc' = "done" /\ named' \in {"none", named}
    BY <1>16 DEF Finish
  <2>2. UNCHANGED <<choiceVars, wanted, cancels, rude, error, retries, partVars, flowVars,
                    mic, dismissed, restart>>
    BY <1>16 DEF Finish
  <2> QED BY <2>1, <2>2
<1>17. ASSUME NEW p \in Parts, PartEnds(p)
       PROVE  TaskTypes'
  BY <1>17 DEF PartEnds
<1>18. CASE FrameArrives \/ ChunkArrives \/ ThreadDelivers \/ StreamEnds
  <2>1. FlowUnchanged /\ misses' = misses
    BY <1>18 DEF FrameArrives, ChunkArrives, ThreadDelivers, StreamEnds
  <2>2. queue' \in 0 .. (IF kind = "audio" THEN QueueFrames ELSE 1)
    BY <1>18 DEF FrameArrives, ChunkArrives, ThreadDelivers, StreamEnds
  <2>3. reader' \in {"over", reader}
    BY <1>18 DEF FrameArrives, ChunkArrives, ThreadDelivers, StreamEnds
  <2>4. told' \in BOOLEAN
    <3>1. (queue < QueueFrames) \in BOOLEAN
      OBVIOUS
    <3>2. told' \in {told, TRUE, queue < QueueFrames}
      BY <1>18 DEF FrameArrives, ChunkArrives, ThreadDelivers, StreamEnds
    <3> QED BY <3>1, <3>2
  <2> QED BY <2>1, <2>2, <2>3, <2>4 DEF FlowUnchanged
<1>19. ASSUME NEW m \in {"own", "new"}, MicrophoneEnds(m)
       PROVE  TaskTypes'
  BY <1>19 DEF MicrophoneEnds
<1>20. CASE Lose
  <2>1. wanted' = FALSE /\ UNCHANGED <<choiceVars, taskVars, partVars, flowVars, micVars>>
    BY <1>20 DEF Lose
  <2>2. {wanted', rude', error', told'} \subseteq BOOLEAN
    BY <2>1
  <2>3. queue' \in 0 .. (IF kind = "audio" THEN QueueFrames ELSE 1)
    BY <2>1
  <2> QED BY <2>1, <2>2, <2>3
<1>21. CASE RestartAudio \/ AudioRestarts
  <2>1. /\ restart' \in {"waiting", "over"} /\ named' \in {named, "new"}
        /\ mic' \in {mic, mic \cup {"new"}} /\ dismissed' \in {dismissed, dismissed \cup (mic \cap {named})}
    BY <1>21 DEF RestartAudio, AudioRestarts
  <2>2. UNCHANGED <<choiceVars, wanted, taskVars, partVars, flowVars>>
    BY <1>21 DEF RestartAudio, AudioRestarts
  <2> QED BY <2>1, <2>2
<1>22. CASE Cancel
  <2>1. cancels' \in 0 .. MaxCancels /\ UNCHANGED <<wanted, retries, ended, flowVars, mic, named, restart>>
    BY <1>22 DEF Cancel, CancelInTime, CancelTheStart, CancelTheTeardown, CancelIsLost, CancelUnchanged
  <2>2. CASE CancelInTime
    BY <1>4, <2>1, <2>2 DEF CancelInTime
  <2>3. CASE CancelTheStart \/ CancelTheTeardown \/ CancelIsLost
    <3>1. /\ rude' = TRUE /\ error' \in {error, FALSE} /\ closing' \in {closing, "none", "over"}
          /\ alive' \in {{}, alive} /\ orphans' \in {orphans, orphans \cup alive}
      BY <2>3 DEF CancelTheStart, CancelTheTeardown, CancelIsLost
    <3>2. pc' \in {pc, "closing", "done", "microphone"} /\ dismissed' \in {dismissed, dismissed \cup (mic \cap Mine)}
      BY <2>3 DEF CancelTheStart, CancelTheTeardown, CancelIsLost
    <3>3. {wanted', rude', error', told'} \subseteq BOOLEAN /\ UNCHANGED choiceVars
      BY <1>1, <2>1, <3>1
    <3>4. alive' \subseteq Parts /\ orphans' \subseteq Parts
      BY <3>1
    <3>5. queue' \in 0 .. (IF kind = "audio" THEN QueueFrames ELSE 1) /\ misses' \in 0 .. MaxReads - 1
      BY <2>1
    <3>6. dismissed' \subseteq {"own", "new"}
      BY <3>2
    <3> QED BY <2>1, <3>1, <3>2, <3>3, <3>4, <3>5, <3>6
  <2> QED BY <1>22, <2>2, <2>3 DEF Cancel
<1>23. CASE UNCHANGED publisherVars
  BY <1>23 DEF publisherVars
<1> QED BY <1>5, <1>6, <1>7, <1>8, <1>9, <1>10, <1>11, <1>12, <1>13, <1>14, <1>15, <1>16,
           <1>17, <1>18, <1>19, <1>20, <1>21, <1>22, <1>23
        DEF PublisherNext, TaskStep, Obeys, PipeBreaks

-----------------------------------------------------------------------------
(* What runs belongs to the attempt, and what was given up is stuck.       *)

\* A part that ends, whoever told it to.
LEMMA EndingKeepsOwnership ==
  ASSUME Ownership, NEW p \in Parts, PartEnds(p)
  PROVE  Ownership'
<1>1. alive' = alive \ {p} /\ UNCHANGED <<kind, temper, pc, closing, orphans>>
  BY DEF PartEnds, choiceVars, taskVars
<1>2. Team' = Team /\ First' = First /\ Grouped' = Grouped /\ Like("stuck")' = Like("stuck")
  BY <1>1 DEF Team, First, Grouped, Like
<1> QED BY <1>1, <1>2 DEF Ownership

LEMMA OwnershipIsKept ==
  ASSUME TaskTypes, Ownership, [PublisherNext]_publisherVars, ~ rude'
  PROVE  Ownership'
<1>1. kind' = kind /\ temper' = temper /\ kind \in Kinds
  BY ChoiceIsKept DEF TaskTypes, PublisherTypeOK
<1>2. /\ Team' = Team /\ First' = First /\ Grouped' = Grouped /\ Direct' = Direct
      /\ Like("stuck")' = Like("stuck")
  BY <1>1 DEF Team, First, Grouped, Direct, Like
<1>3. First \in Team /\ (Grouped => Team = {First, "ffmpeg"}) /\ (Direct => Grouped)
      /\ (~ Grouped => Team = {First})
      /\ pc \in {"connect", "starting", "undoing", "loop", "closing", "microphone", "done"}
  BY DEF Team, Grouped, Direct, TaskTypes, PublisherTypeOK
<1>4. CASE UNCHANGED <<alive, pc, closing, orphans>>
  BY <1>2, <1>4 DEF Ownership
<1> USE <1>2, <1>3 DEF Ownership
<1>5. ASSUME Leave, alive' = alive, orphans' = orphans, closing = "none", pc = "loop"
      PROVE  Ownership'
  BY <1>5 DEF Leave, Terminate
<1>6. CASE StartCamera
  BY <1>1, <1>6 DEF StartCamera, StartUnchanged, Grouped
<1>7. CASE StartDirect
  BY <1>7 DEF StartDirect, StartUnchanged
<1>8. CASE StartAudio
  BY <1>8 DEF StartAudio, StartUnchanged
<1>9. CASE StartIsRefused
  BY <1>9 DEF StartIsRefused
<1>10. CASE StartSecond
  BY <1>10 DEF StartSecond
<1>11. CASE FirstIsGone
  BY <1>11 DEF FirstIsGone
<1>12. CASE SecondFails
  BY <1>12 DEF SecondFails
<1>13. CASE Take \/ ReadFails \/ LoopEnds \/ Poll
  BY <1>4, <1>5, <1>13 DEF Take, ReadFails, LoopEnds, Poll, LoopUnchanged
<1>14. CASE Drain
  BY <1>14 DEF Drain, Terminate, TeardownUnchanged
<1>15. CASE PartsAreReaped \/ TermTimesOut
  BY <1>15 DEF PartsAreReaped, TermTimesOut, TeardownUnchanged
<1>16. CASE KillTimesOut
  BY <1>16 DEF KillTimesOut, TeardownUnchanged
<1>17. CASE ThreadIsGivenUp
  <2>1. kind = "opencv" /\ alive = {"thread"}
    BY <1>1, <1>17, FirstParts DEF ThreadIsGivenUp, Grouped
  <2>2. alive \subseteq Like("stuck")
    BY <1>17, <2>1 DEF ThreadIsGivenUp, Like, Parts
  <2> QED BY <1>17, <2>2 DEF ThreadIsGivenUp, TeardownUnchanged
<1>18. CASE DismissMicrophone
  BY <1>18 DEF DismissMicrophone, partVars
<1>19. CASE Retry \/ Finish
  BY <1>19 DEF Retry, Finish, partVars
<1>20. ASSUME NEW p \in Parts, PartEnds(p)
       PROVE  Ownership'
  BY <1>20, EndingKeepsOwnership
<1>21. CASE FrameArrives \/ ChunkArrives \/ ThreadDelivers \/ StreamEnds
  BY <1>4, <1>21 DEF FrameArrives, ChunkArrives, ThreadDelivers, StreamEnds, FlowUnchanged,
     partVars, taskVars
<1>22. ASSUME NEW m \in {"own", "new"}, MicrophoneEnds(m)
       PROVE  Ownership'
  BY <1>4, <1>22 DEF MicrophoneEnds, partVars, taskVars
<1>23. CASE Lose \/ RestartAudio \/ AudioRestarts
  BY <1>4, <1>23 DEF Lose, RestartAudio, AudioRestarts, partVars, taskVars
<1>24. CASE Cancel
  <2>1. CancelInTime
    BY <1>24 DEF Cancel, CancelTheStart, CancelTheTeardown, CancelIsLost
  <2> QED BY <1>5, <2>1 DEF CancelInTime
<1>25. CASE UNCHANGED publisherVars
  BY <1>4, <1>25 DEF publisherVars, partVars, taskVars
<1>26. "ffmpeg" \in Parts
  BY DEF Parts
<1> QED BY <1>6, <1>7, <1>8, <1>9, <1>10, <1>11, <1>12, <1>13, <1>14, <1>15, <1>16,
           <1>17, <1>18, <1>19, <1>20, <1>21, <1>22, <1>23, <1>24, <1>25, <1>26
        DEF PublisherNext, TaskStep, Obeys, PipeBreaks

-----------------------------------------------------------------------------
(* Whose microphone it is.                                                 *)

LEMMA MicrophonesAreKept ==
  ASSUME TaskTypes, Ownership, Microphones, [PublisherNext]_publisherVars, ~ rude'
  PROVE  Microphones'
<1>1. kind' = kind /\ kind \in Kinds /\ Direct' = Direct
  BY ChoiceIsKept DEF TaskTypes, PublisherTypeOK, Direct
<1>2. /\ mic \subseteq {"own", "new"} /\ dismissed \subseteq {"own", "new"}
      /\ named \in {"none", "own", "new"} /\ restart \in {"no", "waiting", "over"}
  BY DEF TaskTypes, PublisherTypeOK
<1>3. Direct => kind # "audio"
  BY DEF Direct
<1>4. kind \notin {"direct", "audio"} => retries = 0
  BY <1>1, FirstParts DEF TaskTypes
<1> USE <1>1, <1>2, <1>3 DEF Microphones
<1>5. CASE UNCHANGED <<mic, named, dismissed, restart>> /\ pc' \notin {"connect", "microphone", "done"}
  BY <1>5
<1>6. CASE UNCHANGED <<mic, named, dismissed, restart>> /\ pc' = pc
  BY <1>6
<1>7. ASSUME StartMicrophone, kind # "audio", pc = "connect",
             pc' \in {"starting", "loop", "closing"}, restart' = restart
      PROVE  Microphones'
  BY <1>7 DEF StartMicrophone
<1>8. CASE StartCamera \/ StartDirect
  BY <1>7, <1>8 DEF StartCamera, StartDirect, StartUnchanged, Direct
<1>9. CASE StartAudio
  BY <1>5, <1>9 DEF StartAudio, StartUnchanged
<1>10. CASE StartIsRefused
  BY <1>5, <1>7, <1>10 DEF StartIsRefused
<1>11. CASE StartSecond \/ FirstIsGone \/ SecondFails
  BY <1>5, <1>11 DEF StartSecond, FirstIsGone, SecondFails, micVars
<1>12. CASE Take \/ ReadFails \/ LoopEnds \/ Poll
  BY <1>5, <1>6, <1>12 DEF Take, ReadFails, LoopEnds, Poll, LoopUnchanged, Leave, micVars
<1>13. CASE Drain \/ PartsAreReaped \/ TermTimesOut \/ KillTimesOut \/ ThreadIsGivenUp
  BY <1>6, <1>13 DEF Drain, PartsAreReaped, TermTimesOut, KillTimesOut, ThreadIsGivenUp,
     TeardownUnchanged, micVars
<1>14. CASE DismissMicrophone
  <2>1. pc' = "microphone" /\ dismissed' = dismissed \cup (mic \cap Mine) /\ UNCHANGED <<mic, named, restart>>
    BY <1>14 DEF DismissMicrophone
  <2>2. "own" \in mic => "own" \in dismissed'
    BY <2>1 DEF Mine
  <2> QED BY <2>1, <2>2
<1>15. CASE Retry
  <2>1. pc = "microphone" /\ pc' = "connect" /\ named' = "none" /\ UNCHANGED <<mic, dismissed, restart>>
    BY <1>15 DEF Retry
  <2>2. retries # 0
    BY <1>15 DEF Retry, MayRetry
  <2>3. CASE kind = "audio"
    BY <2>1, <2>3
  <2>4. CASE Direct
    <3>1. "own" \notin mic
      BY <1>15, <2>1, <2>4 DEF Retry, Awaited, Mine
    <3> QED BY <2>1, <2>4, <3>1
  <2> QED BY <1>4, <2>2, <2>3, <2>4 DEF Direct
<1>16. CASE Finish
  <2>1. /\ pc = "microphone" /\ pc' = "done" /\ UNCHANGED <<mic, dismissed, restart>>
        /\ named' = IF mic \cap Mine = {} \/ Direct THEN "none" ELSE named
        /\ mic \cap dismissed \cap Mine = {}
    BY <1>16 DEF Finish, Awaited
  <2>2. Direct \/ restart = "no" => "own" \notin mic
    BY <2>1 DEF Mine
  <2>3. restart = "no" => mic = {} /\ named' # "own"
    BY <2>1, <2>2 DEF Mine
  <2> QED BY <2>1, <2>2, <2>3
<1>17. ASSUME NEW p \in Parts, PartEnds(p)
       PROVE  Microphones'
  BY <1>6, <1>17 DEF PartEnds, taskVars, micVars
<1>18. CASE FrameArrives \/ ChunkArrives \/ ThreadDelivers \/ StreamEnds
  BY <1>6, <1>18 DEF FrameArrives, ChunkArrives, ThreadDelivers, StreamEnds, FlowUnchanged, taskVars, micVars
<1>19. ASSUME NEW m \in {"own", "new"}, MicrophoneEnds(m)
       PROVE  Microphones'
  BY <1>19 DEF MicrophoneEnds, taskVars
<1>20. CASE Lose
  BY <1>6, <1>20 DEF Lose, taskVars, micVars
<1>21. CASE RestartAudio
  BY <1>21 DEF RestartAudio, taskVars
<1>22. CASE AudioRestarts
  BY <1>22 DEF AudioRestarts, taskVars
<1>23. CASE Cancel
  <2>1. CancelInTime
    BY <1>23 DEF Cancel, CancelTheStart, CancelTheTeardown, CancelIsLost
  <2>2. UNCHANGED <<mic, named, dismissed, restart>> /\ ((pc = "connect" /\ pc' = "done") \/ pc' = "closing")
    BY <2>1 DEF CancelInTime, CancelUnchanged, Leave
  <2> QED BY <1>5, <2>2
<1>24. CASE UNCHANGED publisherVars
  BY <1>6, <1>24 DEF publisherVars, taskVars, micVars
<1>25. "ffmpeg" \in Parts
  BY DEF Parts
<1> QED BY <1>8, <1>9, <1>10, <1>11, <1>12, <1>13, <1>14, <1>15, <1>16,
           <1>17, <1>18, <1>19, <1>20, <1>21, <1>22, <1>23, <1>24, <1>25
        DEF PublisherNext, TaskStep, Obeys, PipeBreaks

-----------------------------------------------------------------------------
(* The results.                                                            *)

\* A rude cancellation stays one.
LEMMA RudeStays ==
  ASSUME [PublisherNext]_publisherVars, rude
  PROVE  rude'
<1> USE DEF taskVars
<1>1. CASE TaskStep
  BY <1>1 DEF TaskStep, StartCamera, StartDirect, StartAudio, StartIsRefused, StartSecond, FirstIsGone,
     SecondFails, Take, ReadFails, LoopEnds, Poll, Drain, PartsAreReaped, TermTimesOut,
     KillTimesOut, ThreadIsGivenUp, DismissMicrophone, Retry, Finish,
     StartUnchanged, LoopUnchanged, TeardownUnchanged
<1>2. ASSUME NEW p \in Parts, PartEnds(p) \/ Obeys(p)
      PROVE  rude'
  BY <1>2 DEF PartEnds, Obeys
<1>3. CASE PipeBreaks
  BY <1>3 DEF PipeBreaks, PartEnds
<1>4. CASE FrameArrives \/ ChunkArrives \/ ThreadDelivers \/ StreamEnds
  BY <1>4 DEF FrameArrives, ChunkArrives, ThreadDelivers, StreamEnds, FlowUnchanged
<1>5. ASSUME NEW m \in {"own", "new"}, MicrophoneEnds(m)
      PROVE  rude'
  BY <1>5 DEF MicrophoneEnds
<1>6. CASE Lose \/ RestartAudio \/ AudioRestarts
  BY <1>6 DEF Lose, RestartAudio, AudioRestarts
<1>7. CASE Cancel
  BY <1>7 DEF Cancel, CancelInTime, CancelTheStart, CancelTheTeardown, CancelIsLost
<1>8. CASE UNCHANGED publisherVars
  BY <1>8 DEF publisherVars
<1> QED BY <1>1, <1>2, <1>3, <1>4, <1>5, <1>6, <1>7, <1>8 DEF PublisherNext

LEMMA PublisherInvariance == PublisherSpec => []PublisherInv
<1>1. PublisherInit => PublisherInv
  <2> SUFFICES ASSUME PublisherInit PROVE PublisherInv
    OBVIOUS
  <2>1. Retries \subseteq 0 .. 2
    BY FirstParts DEF PublisherInit
  <2>2. 0 \in 0 .. MaxCancels /\ 0 \in 0 .. MaxReads - 1 /\ 0 \in 0 .. QueueFrames /\ 0 \in 0 .. 1
    BY PublisherAssumption
  <2>3. TaskTypes
    BY <2>1, <2>2 DEF PublisherInit, TaskTypes, PublisherTypeOK
  <2> QED BY <2>3 DEF PublisherInit, PublisherInv, Ownership, Microphones
<1>2. PublisherInv /\ [PublisherNext]_publisherVars => PublisherInv'
  <2> SUFFICES ASSUME PublisherInv, [PublisherNext]_publisherVars PROVE PublisherInv'
    OBVIOUS
  <2>1. TaskTypes'
    BY TypesAreKept DEF PublisherInv
  <2>2. ~ rude' => ~ rude
    BY RudeStays
  <2>3. ~ rude' => Ownership'
    BY <2>2, OwnershipIsKept DEF PublisherInv
  <2>4. ~ rude' => Microphones'
    BY <2>2, MicrophonesAreKept DEF PublisherInv
  <2> QED BY <2>1, <2>3, <2>4 DEF PublisherInv
<1> QED BY <1>1, <1>2, PTL DEF PublisherSpec

\* Through every start, teardown, retry and cancellation a publishing task stays
\* within its types: the queues within their limits, the failed reads below the
\* number that ends the loop (audio.py, camera.py, publisher.py).
THEOREM PublisherIsTyped == PublisherSpec => []PublisherTypeOK
<1>1. PublisherInv => PublisherTypeOK
  BY DEF PublisherInv, TaskTypes
<1> QED BY <1>1, PublisherInvariance, PTL

\* A task that is done, or tries again, and was not cancelled in the middle of a
\* start or a teardown, leaves no process and no thread behind but one that
\* SIGKILL does not end (process_group.py, terminate_async_process; video/,
\* _OpenCVCaptureWorker.close).
THEOREM TasksCleanUp == PublisherSpec => []NothingLeftBehind
<1>1. PublisherInv => NothingLeftBehind
  BY DEF PublisherInv, Ownership, NothingLeftBehind
<1> QED BY <1>1, PublisherInvariance, PTL

\* Nor does it leave a microphone that was not told to end, except the one the
\* remote action has started in its place (audio.py; remote_actions.py,
\* _restart_audio).
THEOREM MicrophonesEnd == PublisherSpec => []MicrophoneEndsWithItsTask
<1>1. PublisherInv => MicrophoneEndsWithItsTask
  <2> SUFFICES ASSUME TaskTypes, Microphones, pc = "done"
               PROVE  /\ mic \ dismissed \subseteq {"new"}
                      /\ restart = "no" => mic = {}
    BY DEF PublisherInv, MicrophoneEndsWithItsTask
  <2> QED BY DEF TaskTypes, PublisherTypeOK, Microphones
<1> QED BY <1>1, PublisherInvariance, PTL
=============================================================================
