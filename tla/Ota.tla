--------------------------------- MODULE Ota ---------------------------------
(***************************************************************************)
(* The A/B update: the state directory (two slots, the link to the current *)
(* one, the pending and the boot-attempted marker), the update process and *)
(* the supervisor that confirms it, and the launcher that prepares a boot. *)
(* Every write to the directory is a step of its own, so that the process, *)
(* the launcher or the machine may end between any two of them.            *)
(*                                                                         *)
(* An update is one authorized update_client action together with the      *)
(* release it installs.                                                    *)
(***************************************************************************)
EXTENDS TLC

CONSTANT Updates  \* the update actions the backend may send

Slots == {"a", "b"}

ASSUME OtaAssumption == Updates \cap {"none", "installer", "absent", "torn"} = {}

VARIABLES
  \* the state directory
  slots,       \* what each slot holds: an update, nothing, or half of something
  current,     \* the slot the current link names
  pending,     \* pending.json
  attempted,   \* boot-attempted exists
  \* the service
  phase,       \* "down", "boot" (the launcher), "up", "stopped" or "refused"
  program,     \* what the process runs: an update, or the installer's environment
  step,        \* the next write of the update or of the launcher
  update,      \* the update under way
  confirming,  \* the update whose pending.json, not yet boot-attempted, is removed
  confirmed,   \* _ota_confirmed
  supervisor,  \* the supervisor task is alive
  \* history
  requested,   \* the updates that were requested
  tried,       \* the updates that were ever started
  proved,      \* those that became ready and confirmed themselves
  verdicts,    \* the terminal results reported for each update
  clean        \* each update was requested after the one before had settled, and
               \* no write failed between pending.json and the new process

disk    == <<slots, current, pending, attempted>>
memory  == <<confirming, confirmed, supervisor>>
history == <<requested, tried, proved, verdicts, clean>>
vars    == <<disk, phase, program, step, update, memory, history>>

Pendings == [target : Slots, previous : Slots \cup {"none"}, update : Updates]
NoPending == [target |-> "none", previous |-> "none", update |-> "none"]

InstallSteps  == {"stage", "place", "announce", "swap", "mark", "exec"}
RollbackSteps == {"restore", "forget", "unmark"}
BootSteps     == RollbackSteps \cup {"activate", "attempt", "launch"}

\* What the phase says of the process and its next step.
PhaseOK ==
  \/ phase = "up" /\ program # "none" /\ step \in {"idle"} \cup InstallSteps \cup RollbackSteps
  \/ phase = "boot" /\ program = "none" /\ step \in BootSteps
  \/ phase \in {"down", "stopped", "refused"} /\ program = "none" /\ step = "idle"

\* The types, and where a process, the launcher or neither is at work.
TypeOK ==
  /\ slots \in [Slots -> Updates \cup {"absent", "torn"}]
  /\ current \in Slots \cup {"none"}
  /\ pending = NoPending \/ pending \in Pendings
  /\ attempted \in BOOLEAN
  /\ PhaseOK
  /\ program \in Updates \cup {"none", "installer"}
  /\ update \in Updates \cup {"none"}
  /\ confirming \in Updates \cup {"none"}
  /\ confirmed \in BOOLEAN /\ supervisor \in BOOLEAN
  /\ requested \subseteq Updates /\ tried \subseteq Updates /\ proved \subseteq Updates
  /\ verdicts \in [Updates -> SUBSET {"completed", "failed"}]
  /\ clean \in BOOLEAN

\* A new installation: the installer's environment runs, no slot was filled.
Init ==
  /\ slots = [s \in Slots |-> "absent"] /\ current = "none"
  /\ pending = NoPending /\ attempted = FALSE
  /\ phase = "up" /\ program = "installer" /\ step = "idle" /\ update = "none"
  /\ confirming = "none" /\ confirmed = FALSE /\ supervisor = TRUE
  /\ requested = {} /\ tried = {} /\ proved = {}
  /\ verdicts = [u \in Updates |-> {}]
  /\ clean = TRUE

\* A process that has just been started.
Started(p) ==
  /\ phase' = "up" /\ program' = p /\ step' = "idle" /\ update' = "none"
  /\ confirming' = "none" /\ confirmed' = FALSE /\ supervisor' = TRUE
  /\ tried' = tried \cup ({p} \cap Updates)

\* There is none any more.
Ended(as) ==
  /\ phase' = as /\ program' = "none" /\ step' = "idle" /\ update' = "none"
  /\ confirming' = "none" /\ confirmed' = FALSE /\ supervisor' = TRUE

-----------------------------------------------------------------------------
(* The update process: _perform_client_update and UpdateManager.install.   *)

\* Mutant: the update always goes to the first slot.
InactiveSlotFixed == "a"

InactiveSlot == IF current = "a" THEN "b" ELSE "a"

\* execute accepts update_client unless an update is in progress.
RequestUpdate(u) ==
  /\ phase = "up" /\ step = "idle" /\ u \notin requested
  /\ requested' = requested \cup {u}
  /\ step' = "stage" /\ update' = u
  /\ clean' = (clean /\ pending = NoPending)
  /\ UNCHANGED <<disk, phase, program, memory, tried, proved, verdicts>>

Fail ==
  /\ step' = "idle" /\ update' = "none"
  /\ verdicts' = [verdicts EXCEPT ![update] = @ \cup {"failed"}]
  /\ UNCHANGED <<disk, phase, program, memory, requested, tried, proved>>

\* The stop is not confirmed, or the download, the signature, the staging tree
\* or the validation of the config fails: nothing was written.
StageFails ==
  /\ phase = "up" /\ step = "stage"
  /\ UNCHANGED clean
  /\ Fail

\* The release is staged, and the inactive slot is being removed. The few
\* writes of a confirm are over before a staging of minutes is.
Discard ==
  /\ phase = "up" /\ step = "stage" /\ confirming = "none"
  /\ \E left \in {"absent", "torn"} : slots' = [slots EXCEPT ![InactiveSlot] = left]
  /\ step' = "place"
  /\ UNCHANGED <<current, pending, attempted, phase, program, update, memory, history>>

\* os.replace of the staging tree.
Place ==
  /\ phase = "up" /\ step = "place"
  /\ slots' = [slots EXCEPT ![InactiveSlot] = update]
  /\ step' = "announce"
  /\ UNCHANGED <<current, pending, attempted, phase, program, update, memory, history>>

\* pending.json is written.
Announce ==
  /\ phase = "up" /\ step = "announce"
  /\ pending' = [target |-> InactiveSlot, previous |-> current, update |-> update]
  /\ step' = "swap"
  /\ UNCHANGED <<slots, current, attempted, phase, program, update, memory, history>>

\* The current link is replaced.
SwapCurrent ==
  /\ phase = "up" /\ step = "swap"
  /\ current' = pending.target
  /\ step' = "mark"
  /\ UNCHANGED <<slots, pending, attempted, phase, program, update, memory, history>>

\* boot-attempted is written.
Mark ==
  /\ phase = "up" /\ step = "mark"
  /\ attempted' = TRUE
  /\ step' = "exec"
  /\ UNCHANGED <<slots, current, pending, phase, program, update, memory, history>>

\* One of these writes raises, and the update is reported as failed.
WriteFails ==
  /\ phase = "up" /\ step \in {"place", "announce", "swap", "mark"}
  /\ clean' = (clean /\ step \in {"place", "announce"})
  /\ Fail

\* _restart_process_after_update replaces the process.
Exec ==
  /\ phase = "up" /\ step = "exec"
  /\ slots[pending.target] \in Updates
  /\ Started(slots[pending.target])
  /\ UNCHANGED <<disk, requested, proved, verdicts, clean>>

\* rollback_state_directory goes on only if the previous slot has a Python.
PreviousIsUsable ==
  \A s \in {pending.previous} \cap Slots : slots[s] # "absent"

\* os.execv raises: the markers are rolled back before the process ends, or
\* their rollback raises as well.
ExecFails ==
  /\ phase = "up" /\ step = "exec"
  /\ IF PreviousIsUsable
     THEN /\ step' = "restore"
          /\ UNCHANGED <<disk, phase, program, update, memory, history>>
     ELSE UNCHANGED clean /\ Fail

-----------------------------------------------------------------------------
(* rollback_state_directory, called by the launcher and by a failed exec.  *)

\* Mutant: the markers are removed and the link is not restored.
RestoreNothing ==
  /\ step = "restore"
  /\ step' = "forget"
  /\ UNCHANGED <<disk, phase, program, update, memory, history>>

Restore ==
  /\ step = "restore"
  /\ current' = pending.previous
  /\ step' = "forget"
  /\ UNCHANGED <<slots, pending, attempted, phase, program, update, memory, history>>

Forget ==
  /\ step = "forget"
  /\ pending' = NoPending
  /\ step' = "unmark"
  /\ UNCHANGED <<slots, current, attempted, phase, program, update, memory, history>>

\* The launcher goes on to start what was restored. A process reports the
\* failure and leaves run(), without an error for systemd to restart it after.
Unmark ==
  /\ step = "unmark"
  /\ attempted' = FALSE
  /\ IF phase = "boot"
     THEN /\ step' = "launch"
          /\ UNCHANGED <<phase, program, update, memory, history>>
     ELSE /\ Ended("stopped")
          /\ verdicts' = [verdicts EXCEPT ![update] = @ \cup {"failed"}]
          /\ UNCHANGED <<requested, tried, proved, clean>>
  /\ UNCHANGED <<slots, current, pending>>

-----------------------------------------------------------------------------
(* _confirm_ready_update and UpdateManager.confirm.                        *)

\* What sys.executable of any slot resolves to: a virtual environment links
\* its interpreter to the one that made it.
ResolvedInterpreter(p) == "base"

Confirmable ==
  /\ pending # NoPending
  /\ ResolvedInterpreter(program) = ResolvedInterpreter(pending.update)
  /\ current = pending.target
  /\ slots[pending.target] = pending.update

\* The supervisor sees the control plane and the media ready.
Checks ==
  phase = "up" /\ step = "idle" /\ supervisor /\ ~confirmed /\ confirming = "none"

Confirm ==
  /\ Checks /\ Confirmable
  /\ pending' = NoPending
  /\ confirming' = pending.update
  /\ proved' = proved \cup ({program} \cap {pending.update})
  /\ UNCHANGED <<slots, current, attempted, phase, program, step, update, confirmed,
                 supervisor, requested, tried, verdicts, clean>>

\* boot-attempted is removed and the action reported as completed.
FinishConfirm ==
  /\ confirming # "none"
  /\ attempted' = FALSE
  /\ confirming' = "none" /\ confirmed' = TRUE
  /\ verdicts' = [verdicts EXCEPT ![confirming] = @ \cup {"completed"}]
  /\ UNCHANGED <<slots, current, pending, phase, program, step, update, supervisor,
                 requested, tried, proved, clean>>

\* Without an update to confirm, confirm raises and the supervisor ends.
ConfirmRaises ==
  /\ Checks /\ ~Confirmable
  /\ supervisor' = FALSE
  /\ UNCHANGED <<disk, phase, program, step, update, confirming, confirmed, history>>

\* run() reconnects the media and starts the tasks that have ended.
EnsureBackgroundTasks ==
  /\ phase = "up" /\ ~supervisor
  /\ supervisor' = TRUE
  /\ UNCHANGED <<disk, phase, program, step, update, confirming, confirmed, history>>

-----------------------------------------------------------------------------
(* The end of a process, and botparty-service-launcher.sh.                 *)

\* A crash, a shutdown, systemd's watchdog after the supervisor has ended, or a
\* power loss on a file system that keeps renames in order: also between two
\* writes of the launcher.
Crash ==
  /\ phase \in {"up", "boot"}
  /\ Ended("down")
  /\ UNCHANGED <<disk, history>>

Refuse ==
  /\ phase' = "refused"
  /\ UNCHANGED <<disk, program, step, update, memory, history>>

Proceed(next) ==
  /\ phase' = "boot" /\ step' = next
  /\ UNCHANGED <<disk, program, update, memory, history>>

\* prepare_boot reads the markers: an update that was attempted is rolled
\* back, a new one activated.
PrepareBoot ==
  /\ phase \in {"down", "stopped", "refused"}
  /\ \/ /\ pending # NoPending /\ attempted
        /\ IF PreviousIsUsable THEN Proceed("restore") ELSE Refuse
     \/ /\ pending # NoPending /\ ~attempted
        /\ IF slots[pending.target] # "absent" THEN Proceed("activate") ELSE Refuse
     \/ pending = NoPending /\ Proceed("launch")

Activate ==
  /\ step = "activate"
  /\ current' = pending.target
  /\ step' = "attempt"
  /\ UNCHANGED <<slots, pending, attempted, phase, program, update, memory, history>>

\* Mutant: the attempt leaves no marker.
AttemptUnmarked ==
  /\ step = "attempt"
  /\ step' = "launch"
  /\ UNCHANGED <<disk, phase, program, update, memory, history>>

Attempt ==
  /\ step = "attempt"
  /\ attempted' = TRUE
  /\ step' = "launch"
  /\ UNCHANGED <<slots, current, pending, phase, program, update, memory, history>>

\* The prepared interpreter replaces the launcher, or the installer's one if
\* there is no slot. Half a release ends at once.
Launch ==
  /\ step = "launch"
  /\ \/ current = "none" /\ Started("installer")
     \/ /\ current # "none" /\ slots[current] \in Updates
        /\ Started(slots[current])
     \/ /\ current # "none" /\ slots[current] \notin Updates
        /\ Ended(IF slots[current] = "torn" THEN "down" ELSE "refused")
        /\ UNCHANGED tried
  /\ UNCHANGED <<disk, requested, proved, verdicts, clean>>

-----------------------------------------------------------------------------

InstallStep ==
  \/ \E u \in Updates : RequestUpdate(u)
  \/ StageFails \/ Discard \/ Place \/ Announce \/ SwapCurrent \/ Mark
  \/ WriteFails \/ Exec \/ ExecFails

RollbackStep == Restore \/ Forget \/ Unmark

ConfirmStep == Confirm \/ FinishConfirm \/ ConfirmRaises \/ EnsureBackgroundTasks

BootStep == Crash \/ PrepareBoot \/ Activate \/ Attempt \/ Launch

Next == InstallStep \/ RollbackStep \/ ConfirmStep \/ BootStep

Spec == Init /\ [][Next]_vars

-----------------------------------------------------------------------------
(* Properties. Those with clean hold until an update is requested over one *)
(* that has not settled, or a write fails after pending.json.              *)

\* Wherever the last process, the update or the launcher was interrupted, the
\* launcher finds an interpreter to start.
BootIsNeverRefused == clean => phase # "refused"

\* Without an update pending, the release that boots is one that became ready
\* and confirmed itself, or that of the installer: an interrupted or failing
\* update is undone completely.
NothingUnprovenIsKept ==
  clean /\ pending = NoPending /\ current # "none" => slots[current] \in proved

\* ADR 0004: a release that was started once and did not become ready is never
\* started again.
UnprovenStartsOnce ==
  [][clean /\ program' \in Updates /\ program' # program
       => program' \notin tried \/ program' \in proved]_vars

\* An update is never reported both as completed and as failed.
OneVerdict == clean => \A u \in Updates : verdicts[u] # {"completed", "failed"}
=============================================================================
