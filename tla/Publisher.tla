------------------------------ MODULE Publisher ------------------------------
(***************************************************************************)
(* One publishing task and what it owns, from its first await to the last  *)
(* process it ends: the direct publisher (publisher.py), the camera of a   *)
(* LiveKit room (camera.py) and the microphone (audio.py), with the        *)
(* processes and the thread behind them (process_group.py, video/).        *)
(* Media and Room take such a task for something that is alive until it is *)
(* done; here is what "done" leaves behind.                                *)
(*                                                                         *)
(* Five kinds of task share one life: an await before anything runs, the   *)
(* start of one part or two, a loop, the teardown of the parts with its    *)
(* deadlines, the end of the microphone, and perhaps another attempt. How  *)
(* a part takes being told to end is chosen once: it "hears", it is "deaf" *)
(* to SIGTERM (a thread: its read returns only when the device is          *)
(* released) or "stuck" (SIGKILL does not end it before the last deadline).*)
(***************************************************************************)
EXTENDS Naturals, FiniteSets

CONSTANTS QueueFrames,  \* audio_queue_frames
          MaxReads,     \* failed reads in a row that end an OpenCV loop
          MaxCancels,   \* cancellations of the task
          Tempers       \* what parts may be like

ASSUME PublisherAssumption ==
  /\ QueueFrames \in Nat \ {0} /\ MaxReads \in Nat \ {0} /\ MaxCancels \in Nat
  /\ Tempers \subseteq {"hears", "deaf", "stuck"} /\ "hears" \in Tempers

Kinds == {"direct", "pipe", "libcamera", "opencv", "audio"}

Parts == {"streamer", "libcamera", "ffmpeg", "thread", "arecord"}

\* What is started first; a group has an ffmpeg besides.
FirstOf == [direct |-> "streamer", pipe |-> "ffmpeg", libcamera |-> "libcamera",
            opencv |-> "thread", audio |-> "arecord"]

VARIABLES
  kind,      \* of the task
  temper,    \* of each part
  pc,        \* where the task is
  wanted,    \* running_fn() and connected_fn()
  cancels,   \* cancellations it was given
  rude,      \* one of them came in the middle of a start or a teardown
  error,     \* the finally clauses were entered with an error
  retries,   \* attempts it may still make with other settings
  alive,     \* parts of this attempt that run
  ended,     \* parts of this attempt that ended
  closing,   \* terminate_async_process, or _OpenCVCaptureWorker.close
  orphans,   \* parts that run and that nobody waits for any more
  reader,    \* what reads the output of the parts
  queue,     \* results it handed over and the loop did not take
  told,      \* the loop can see that there will be no more
  misses,    \* consecutive_failures
  mic,       \* microphone tasks that are not done
  named,     \* _audio_task
  dismissed, \* microphone tasks that were cancelled
  restart    \* the remote action restart_audio

choiceVars == <<kind, temper>>
taskVars == <<pc, cancels, rude, error, retries>>
partVars == <<alive, ended, closing, orphans>>
flowVars == <<reader, queue, told, misses>>
micVars == <<mic, named, dismissed, restart>>
publisherVars == <<choiceVars, wanted, taskVars, partVars, flowVars, micVars>>

Direct == kind = "direct"
Grouped == kind \in {"direct", "libcamera"}     \* a ManagedProcessGroup
First == FirstOf[kind]
Like(t) == {p \in Parts : temper[p] = t}

\* The output comes from the last part of a pipeline.
Sources == alive \ {"libcamera"}

Retries == CASE kind = "direct" -> 0 .. 2    \* without audio, with libx264
             [] kind = "audio"  -> 0 .. 1    \* another capture device
             [] OTHER           -> {0}

PublisherInit ==
  /\ kind \in Kinds
  /\ temper \in [Parts -> Tempers]
  /\ \A p \in Parts \ {First, "ffmpeg"} : temper[p] = "hears"
  /\ pc = "connect" /\ cancels = 0 /\ rude = FALSE /\ error = FALSE
  /\ retries \in Retries
  /\ wanted = TRUE
  /\ alive = {} /\ ended = {} /\ closing = "none" /\ orphans = {}
  /\ reader = "none" /\ queue = 0 /\ told = FALSE /\ misses = 0
  /\ mic = {} /\ named = "none" /\ dismissed = {} /\ restart = "no"

-----------------------------------------------------------------------------
(* The start.                                                              *)

\* The microphone of a camera that has one: after its room was joined (direct)
\* or after the video track was published.
StartMicrophone ==
  \/ /\ "own" \notin mic
     /\ mic' = mic \cup {"own"} /\ named' = "own"
     /\ dismissed' = dismissed \ {"own"}
  \/ UNCHANGED <<mic, named, dismissed>>

StartUnchanged ==
  UNCHANGED <<choiceVars, wanted, cancels, rude, error, retries,
              ended, closing, orphans, queue, told, misses, restart>>

\* CameraManager.run: the room has the track, the first part runs. A group goes
\* on starting.
StartCamera ==
  /\ pc = "connect" /\ kind \in {"pipe", "libcamera", "opencv"}
  /\ StartMicrophone
  /\ alive' = {First}
  /\ IF Grouped
     THEN pc' = "starting" /\ UNCHANGED reader
     ELSE pc' = "loop" /\ reader' = "on"
  /\ StartUnchanged

\* The direct publisher: the streamer first, then a pause of 0.4 s.
StartDirect ==
  /\ pc = "connect" /\ Direct
  /\ StartMicrophone
  /\ alive' = {First} /\ pc' = "starting"
  /\ UNCHANGED reader /\ StartUnchanged

\* AudioCapture.publish, with one of its devices.
StartAudio ==
  /\ pc = "connect" /\ kind = "audio"
  /\ alive' = {First} /\ pc' = "loop" /\ reader' = "on"
  /\ UNCHANGED <<mic, named, dismissed>> /\ StartUnchanged

\* No token, no binary, no room, no encoder: nothing was started, and only the
\* direct publisher may try again.
StartIsRefused ==
  /\ pc = "connect"
  /\ IF kind = "audio" THEN UNCHANGED <<mic, named, dismissed>> ELSE StartMicrophone
  /\ pc' = "closing" /\ closing' = "over"
  /\ error' = TRUE
  /\ retries' \in IF Direct THEN {0, retries} ELSE {0}
  /\ UNCHANGED <<choiceVars, wanted, cancels, rude, alive, ended, orphans,
                 flowVars, restart>>

StartSecond ==
  /\ pc = "starting" /\ (Direct => First \in alive)
  /\ alive' = alive \cup {"ffmpeg"}
  /\ pc' = "loop"
  /\ reader' = IF Direct THEN "none" ELSE "on"
  /\ UNCHANGED <<choiceVars, wanted, cancels, rude, error, retries,
                 ended, closing, orphans, queue, told, misses, micVars>>

\* botparty-streamer exited during startup.
FirstIsGone ==
  /\ pc = "starting" /\ Direct /\ First \notin alive
  /\ pc' = "closing" /\ closing' = "over"
  /\ error' = TRUE
  /\ UNCHANGED <<choiceVars, wanted, cancels, rude, retries, alive, ended, orphans,
                 flowVars, micVars>>

\* Mutant: the first part is left to itself.
SecondFailsAlone ==
  /\ pc = "starting"
  /\ pc' = "undoing" /\ closing' = "over"
  /\ orphans' = orphans \cup alive /\ alive' = {}
  /\ error' = TRUE /\ retries' = 0
  /\ UNCHANGED <<choiceVars, wanted, cancels, rude, ended, flowVars, micVars>>

\* The second part cannot be created: the first is terminated inside the start.
\* An OSError is not tried again.
SecondFails ==
  /\ pc = "starting"
  /\ pc' = "undoing"
  /\ closing' = IF alive = {} THEN "over" ELSE "term"
  /\ error' = TRUE /\ retries' = 0
  /\ UNCHANGED <<choiceVars, wanted, cancels, rude, alive, ended, orphans, flowVars, micVars>>

-----------------------------------------------------------------------------
(* The parts and what they hand over.                                      *)

\* A process exits, a thread leaves its loop with an exception: at any time.
PartEnds(p) ==
  /\ p \in alive
  /\ alive' = alive \ {p} /\ ended' = ended \cup {p}
  /\ reader' = IF p = "thread" THEN "over" ELSE reader
  /\ UNCHANGED <<choiceVars, wanted, taskVars, closing, orphans, queue, told, misses, micVars>>

\* ffmpeg reads from libcamera, whose exit ends its input.
PipeBreaks == "libcamera" \in ended /\ PartEnds("ffmpeg")

FlowUnchanged == UNCHANGED <<choiceVars, wanted, taskVars, partVars, micVars>>

\* read_frames keeps the latest frame.
FrameArrives ==
  /\ kind \in {"pipe", "libcamera"} /\ reader = "on" /\ Sources # {}
  /\ queue' = 1
  /\ UNCHANGED <<reader, told, misses>> /\ FlowUnchanged

\* read_stdout drops the oldest chunk of a full queue.
ChunkArrives ==
  /\ kind = "audio" /\ reader = "on" /\ Sources # {}
  /\ queue' = IF queue < QueueFrames THEN queue + 1 ELSE queue
  /\ UNCHANGED <<reader, told, misses>> /\ FlowUnchanged

\* The thread of OpenCV waits for the only place, or for its stop event.
ThreadDelivers ==
  /\ kind = "opencv" /\ reader = "on" /\ Sources # {}
  /\ closing = "none" /\ queue = 0 /\ queue' = 1
  /\ UNCHANGED <<reader, told, misses>> /\ FlowUnchanged

\* The end of the output: a frame that was not taken is given up; the None goes
\* behind the chunks, unless their queue is full.
StreamEnds ==
  /\ reader = "on" /\ kind # "opencv" /\ Sources = {}
  /\ reader' = "over"
  /\ IF kind = "audio"
     THEN told' = (queue < QueueFrames) /\ UNCHANGED queue
     ELSE told' = TRUE /\ queue' = 0
  /\ UNCHANGED misses /\ FlowUnchanged

-----------------------------------------------------------------------------
(* The loop.                                                               *)

\* How terminate_async_process starts: a process that has exited needs no more,
\* and of a group all count as such once one has exited.
Terminate == closing' = CASE alive = {}            -> "over"
                          [] Grouped /\ ended # {} -> "reap"
                          [] OTHER                 -> "term"

\* Into the finally clauses. The direct publisher reads its log to the end first.
Leave ==
  /\ pc' = "closing"
  /\ IF Direct THEN closing' = "drain" ELSE Terminate

LoopUnchanged ==
  UNCHANGED <<choiceVars, wanted, cancels, rude, retries, alive, ended, orphans, reader, told, micVars>>

\* A loop that waits for a result looks at nothing else. It goes on with the
\* next one, fails on this one, or finds that it is not wanted any more.
Take ==
  /\ pc = "loop" /\ queue > 0
  /\ queue' = queue - 1 /\ misses' = 0
  /\ \/ UNCHANGED <<pc, closing, error>>
     \/ Leave /\ error' = TRUE
     \/ ~ wanted /\ Leave /\ UNCHANGED error
  /\ LoopUnchanged

\* _loop_cv2: a failed read; too many of them in a row end the loop.
ReadFails ==
  /\ pc = "loop" /\ queue > 0 /\ kind = "opencv"
  /\ queue' = queue - 1
  /\ IF misses + 1 < MaxReads /\ wanted
     THEN misses' = misses + 1 /\ UNCHANGED <<pc, closing>>
     ELSE misses' = 0 /\ Leave
  /\ UNCHANGED error /\ LoopUnchanged

\* The end of the output, with an error or without.
LoopEnds ==
  /\ pc = "loop" /\ queue = 0 /\ told
  /\ error' \in BOOLEAN
  /\ Leave
  /\ UNCHANGED <<queue, misses>> /\ LoopUnchanged

\* The direct publisher looks at its processes, and whether it is wanted, once
\* a second.
Poll ==
  /\ pc = "loop" /\ Direct
  /\ \/ ~ wanted /\ UNCHANGED error
     \/ wanted /\ ended # {} /\ error' \in BOOLEAN
  /\ Leave
  /\ UNCHANGED <<queue, misses>> /\ LoopUnchanged

\* The client stops, or its media connection is lost.
Lose ==
  /\ wanted
  /\ wanted' = FALSE
  /\ UNCHANGED <<choiceVars, taskVars, partVars, flowVars, micVars>>

-----------------------------------------------------------------------------
(* The teardown.                                                           *)

TeardownUnchanged ==
  UNCHANGED <<choiceVars, wanted, pc, cancels, rude, retries, ended, flowVars, micVars>>

Drain ==
  /\ closing = "drain"
  /\ Terminate
  /\ UNCHANGED <<alive, orphans, error>> /\ TeardownUnchanged

\* SIGTERM, or the stop event of the thread; SIGKILL, or the released device.
Obeys(p) ==
  /\ \/ closing \in {"term", "kill", "reap"} /\ temper[p] = "hears"
     \/ closing = "kill" /\ temper[p] = "deaf"
  /\ PartEnds(p)

\* Mutant: no deadline for SIGTERM.
TermNeverTimesOut ==
  /\ closing = "term" /\ alive # {} /\ alive \cap Like("hears") = {}
  /\ UNCHANGED publisherVars

\* 5 s, 1.2 s for a thread.
TermTimesOut ==
  /\ closing = "term" /\ alive # {} /\ alive \cap Like("hears") = {}
  /\ closing' = "kill"
  /\ UNCHANGED <<alive, orphans, error>> /\ TeardownUnchanged

\* 2 s: the process is given up, with a log line at most.
KillTimesOut ==
  /\ closing = "kill" /\ alive # {} /\ alive \subseteq Like("stuck") \ {"thread"}
  /\ closing' = "over"
  /\ orphans' = orphans \cup alive /\ alive' = {}
  /\ UNCHANGED error /\ TeardownUnchanged

\* 0.5 s: the thread is given up with a RuntimeError.
ThreadIsGivenUp ==
  /\ closing = "kill" /\ "thread" \in alive /\ temper["thread"] = "stuck"
  /\ closing' = "over"
  /\ orphans' = orphans \cup alive /\ alive' = {}
  /\ error' = (error \/ pc = "closing")
  /\ TeardownUnchanged

PartsAreReaped ==
  /\ closing \in {"term", "kill", "reap"} /\ alive = {}
  /\ closing' = "over"
  /\ UNCHANGED <<alive, orphans, error>> /\ TeardownUnchanged

\* A camera in a room ends the microphone its manager names, the direct
\* publisher the one it has started itself.
Mine == IF Direct THEN {"own"} ELSE {named}

\* Mutant: the microphone is not cancelled.
KeepMicrophone ==
  /\ pc \in {"undoing", "closing"} /\ closing = "over"
  /\ pc' = "microphone"
  /\ UNCHANGED <<choiceVars, wanted, cancels, rude, error, retries, partVars, flowVars, micVars>>

DismissMicrophone ==
  /\ pc \in {"undoing", "closing"} /\ closing = "over"
  /\ pc' = "microphone"
  /\ dismissed' = dismissed \cup (mic \cap Mine)
  /\ UNCHANGED <<choiceVars, wanted, cancels, rude, error, retries, partVars, flowVars,
                 mic, named, restart>>

\* A microphone task ends: because it was cancelled, or at any time.
MicrophoneEnds(m) ==
  /\ m \in mic
  /\ mic' = mic \ {m}
  /\ UNCHANGED <<choiceVars, wanted, taskVars, partVars, flowVars, named, dismissed, restart>>

Awaited == mic \cap dismissed \cap Mine

\* An attempt of the direct publisher that failed within 8 s, whether or not it
\* is still wanted, and a capture device that does not work.
MayRetry == error /\ retries > 0 /\ (kind = "audio" => wanted)

Retry ==
  /\ pc = "microphone" /\ Awaited = {} /\ MayRetry
  /\ pc' = "connect" /\ retries' = retries - 1 /\ error' = FALSE
  /\ ended' = {} /\ closing' = "none"
  /\ reader' = "none" /\ queue' = 0 /\ told' = FALSE /\ misses' = 0
  /\ named' = "none"
  /\ UNCHANGED <<choiceVars, wanted, cancels, rude, alive, orphans, mic, dismissed, restart>>

\* After 8 s the direct publisher does not try again.
Finish ==
  /\ pc = "microphone" /\ Awaited = {} /\ (MayRetry => Direct)
  /\ pc' = "done"
  /\ named' = IF mic \cap Mine = {} \/ Direct THEN "none" ELSE named
  /\ UNCHANGED <<choiceVars, wanted, cancels, rude, error, retries, partVars, flowVars,
                 mic, dismissed, restart>>

-----------------------------------------------------------------------------
(* What is done to it.                                                     *)

CancelUnchanged == UNCHANGED <<choiceVars, wanted, retries, ended, flowVars, mic, named, restart>>

\* Before anything runs, or in the loop: the parts are torn down.
CancelInTime ==
  /\ \/ pc = "connect" /\ pc' = "done" /\ UNCHANGED closing
     \/ pc = "loop" /\ Leave
  /\ error' = FALSE
  /\ UNCHANGED <<rude, alive, orphans, dismissed>> /\ CancelUnchanged

\* Neither start looks for a CancelledError: what runs is forgotten.
CancelTheStart ==
  /\ pc \in {"starting", "undoing"}
  /\ pc' = "closing" /\ closing' = "over" /\ error' = FALSE
  /\ orphans' = orphans \cup alive /\ alive' = {}
  /\ rude' = TRUE
  /\ UNCHANGED dismissed /\ CancelUnchanged

\* The direct publisher gives its teardown up where it waits for its parts, the
\* others leave it to itself.
CancelTheTeardown ==
  /\ pc = "closing" /\ closing \in {"term", "kill", "reap"}
  /\ rude' = TRUE
  /\ \/ /\ Direct
        /\ pc' = "done" /\ closing' = "none"
        /\ orphans' = orphans \cup alive /\ alive' = {}
        /\ UNCHANGED dismissed
     \/ /\ kind = "audio"
        /\ pc' = "done"
        /\ UNCHANGED <<closing, orphans, alive, dismissed>>
     \/ /\ kind \in {"pipe", "libcamera", "opencv"}
        /\ pc' = "microphone"
        /\ dismissed' = dismissed \cup (mic \cap Mine)
        /\ UNCHANGED <<closing, orphans, alive>>
  /\ error' = FALSE
  /\ CancelUnchanged

\* The log and the microphone are awaited with CancelledError suppressed.
CancelIsLost ==
  /\ closing = "drain" \/ (pc = "microphone" /\ Awaited # {})
  /\ rude' = TRUE
  /\ UNCHANGED <<pc, closing, error, alive, orphans, dismissed>> /\ CancelUnchanged

Cancel ==
  /\ cancels < MaxCancels
  /\ cancels' = cancels + 1
  /\ CancelInTime \/ CancelTheStart \/ CancelTheTeardown \/ CancelIsLost

\* RemoteActions._restart_audio cancels the microphone and waits 2 s for it...
RestartAudio ==
  /\ restart = "no" /\ kind # "audio" /\ named = "own"
  /\ restart' = "waiting"
  /\ dismissed' = dismissed \cup (mic \cap {named})
  /\ UNCHANGED <<choiceVars, wanted, taskVars, partVars, flowVars, mic, named>>

\* ...and starts another, where the direct publisher has an audio room.
AudioRestarts ==
  /\ restart = "waiting"
  /\ restart' = "over"
  /\ IF Direct /\ named = "none"
     THEN UNCHANGED <<mic, named>>
     ELSE mic' = mic \cup {"new"} /\ named' = "new"
  /\ UNCHANGED <<choiceVars, wanted, taskVars, partVars, flowVars, dismissed>>

-----------------------------------------------------------------------------

TaskStep ==
  \/ StartCamera \/ StartDirect \/ StartAudio \/ StartIsRefused \/ StartSecond \/ FirstIsGone \/ SecondFails
  \/ Take \/ ReadFails \/ LoopEnds \/ Poll
  \/ Drain \/ PartsAreReaped \/ TermTimesOut \/ KillTimesOut \/ ThreadIsGivenUp
  \/ DismissMicrophone \/ Retry \/ Finish

PublisherNext ==
  \/ TaskStep
  \/ \E p \in Parts : PartEnds(p) \/ Obeys(p)
  \/ PipeBreaks
  \/ FrameArrives \/ ChunkArrives \/ ThreadDelivers \/ StreamEnds
  \/ \E m \in {"own", "new"} : MicrophoneEnds(m)
  \/ Lose \/ Cancel
  \/ RestartAudio \/ AudioRestarts

PublisherSpec == PublisherInit /\ [][PublisherNext]_publisherVars

\* The loop runs what is ready and its timers fire; a part that can hear what it
\* is told ends, and so does a microphone that was cancelled. No part has to
\* fail, deliver or exit by itself.
PublisherFairSpec ==
  /\ PublisherSpec
  /\ WF_publisherVars(TaskStep)
  /\ WF_publisherVars(PipeBreaks) /\ WF_publisherVars(StreamEnds)
  /\ \A p \in Parts : WF_publisherVars(Obeys(p))
  /\ \A m \in {"own", "new"} : WF_publisherVars(m \in dismissed /\ MicrophoneEnds(m))

-----------------------------------------------------------------------------
(* Properties.                                                             *)

PublisherTypeOK ==
  /\ kind \in Kinds /\ temper \in [Parts -> Tempers]
  /\ pc \in {"connect", "starting", "undoing", "loop", "closing", "microphone", "done"}
  /\ closing \in {"none", "drain", "term", "kill", "reap", "over"}
  /\ {wanted, rude, error, told} \subseteq BOOLEAN
  /\ cancels \in 0 .. MaxCancels /\ retries \in 0 .. 2 /\ misses \in 0 .. MaxReads - 1
  /\ alive \subseteq Parts /\ ended \subseteq Parts /\ orphans \subseteq Parts
  /\ reader \in {"none", "on", "over"}
  /\ queue \in 0 .. (IF kind = "audio" THEN QueueFrames ELSE 1)
  /\ mic \subseteq {"own", "new"} /\ dismissed \subseteq {"own", "new"}
  /\ named \in {"none", "own", "new"}
  /\ restart \in {"no", "waiting", "over"}

\* A task that is done, or tries again, leaves no process and no thread behind
\* but one that SIGKILL does not end - unless it was cancelled inside a start
\* or a teardown. The next publisher finds device and port free.
NothingLeftBehind ==
  ~ rude => /\ orphans \subseteq Like("stuck")
            /\ pc \in {"connect", "done"} => alive = {}

\* The microphone ends with the task that started it: no microphone is left that
\* was not told to end, except one that the remote action started.
MicrophoneEndsWithItsTask ==
  pc = "done" /\ ~ rude => /\ mic \ dismissed \subseteq {"new"}
                           /\ restart = "no" => mic = {}

\* The unbounded wait of terminate_async_process: one part of the group has
\* exited, and another does not hear SIGTERM.
Stranded == closing = "reap" /\ alive # {} /\ alive \cap Like("hears") = {}

\* A cancelled task ends, whatever its parts are like: the deadlines see to it,
\* except in the wait that has none, and for cancellations that come rudely.
CancelledTaskEnds == cancels > 0 ~> (pc = "done" \/ rude \/ Stranded)

\* docs/adr/0003-direct-publisher.md:23, "A producer or publisher exit tears down
\* the whole pipeline": when one of two processes has exited, the other ends.
ExitTearsDownThePipeline == (Grouped /\ ended # {}) ~> alive = {}
=============================================================================
