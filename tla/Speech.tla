------------------------------- MODULE Speech -------------------------------
(***************************************************************************)
(* Speech: the queue and its loop on the event loop (client_commands.py),  *)
(* the thread of each message (tts/base.py, run_say), the programs and     *)
(* services it calls (tts/common.py and the profiles), and what cuts it    *)
(* short: mute, its deadline, restart_tts.                                 *)
(*                                                                         *)
(* A thread cannot be cancelled: what its message may still do is decided  *)
(* by a generation that it compares, by the flag "enabled", and by signals *)
(* to the processes that are registered at that moment. Filters are one    *)
(* refusal; the budget of characters is kept with its file and its clock.  *)
(***************************************************************************)
EXTENDS Naturals, Sequences

CONSTANTS Messages,
          Cost,        \* Messages -> characters
          Profiles,    \* tts.type: the profiles that may be configured
          Capacity,    \* of the queue
          Delayed,     \* delay_ms > 0
          Budget,      \* daily_character_budget
          Nobody,      \* no message
          Days,        \* what the clock may show: it is set forwards and back
          MaxMutes,    \* bound: commands that mute
          MaxRestarts  \* bound: restart_tts

-----------------------------------------------------------------------------
(* What the thread of a message does, by profile. "enabled" is can_handle, *)
(* "active" is operation_is_active, "call" a cloud service, "make" a       *)
(* program without sound, "play" a program or a pipeline with sound, "sdk" *)
(* a call that speaks and cannot be told to end.                           *)

espeak       == <<"enabled", "play">>
festival     == <<"enabled", "make", "active", "play">>
pico         == <<"enabled", "make", "active", "play">>
google_cloud == <<"enabled", "call", "active", "active", "play">>
polly        == <<"enabled", "call", "active", "active", "play">>
cozmo_tts    == <<"sdk">>
vector_tts   == <<"sdk">>
custom       == <<"sdk">>

PlanOf == [espeak |-> espeak, festival |-> festival, pico |-> pico,
           google_cloud |-> google_cloud, polly |-> polly,
           cozmo_tts |-> cozmo_tts, vector_tts |-> vector_tts, custom |-> custom]

ASSUME SpeechAssumption ==
  /\ Cost \in [Messages -> Nat \ {0}] /\ Nobody \notin Messages
  /\ Profiles \subseteq DOMAIN PlanOf /\ Profiles # {}
  /\ Capacity \in Nat \ {0} /\ Delayed \in BOOLEAN
  /\ Budget \in Nat /\ Days \subseteq Nat \ {0} /\ Days # {}
  /\ MaxMutes \in Nat /\ MaxRestarts \in Nat

VARIABLES
  profile,  \* the configured one
  tts,      \* which BaseTTSProfile object the client names
  enabled,  \* of each object
  queue,    \* _tts_queue
  loop,     \* _tts_loop: "waiting", "delaying", "playing"
  current,  \* the message it has taken
  at,       \* where the thread of a message is
  step,     \* the step of its plan it is at
  on,       \* the object whose run_say it is in
  stale,    \* messages whose generation is not that of their object any more
  slipped,  \* history: cancelled with no check left ahead of their sound
  outcome,  \* of a message
  file,     \* tts-budget.json: a day and the characters spent on it
  mutes     \* commands that muted

objectVars == <<tts, enabled>>
loopVars == <<queue, loop, current>>
threadVars == <<at, step, on, stale, slipped>>
boundVars == <<profile, mutes>>
vars == <<objectVars, loopVars, threadVars, outcome, file, boundVars>>

Objects == 1 .. MaxRestarts + 1
Plan == PlanOf[profile]
StepOf(m) == IF step[m] <= Len(Plan) THEN Plan[step[m]] ELSE "end"

\* A thread that has begun and not ended.
Begun(m) == at[m] \in {"next", "calling", "speaking", "spawned", "running", "told"}

\* A program of this message plays, or its SDK speaks.
Sounds(m) == \/ at[m] \in {"spawned", "running", "told"} /\ StepOf(m) = "play"
             \/ at[m] = "speaking"

Init ==
  /\ profile \in Profiles
  /\ tts = 1 /\ enabled = [i \in Objects |-> TRUE]
  /\ queue = <<>> /\ loop = "waiting" /\ current = Nobody
  /\ at = [m \in Messages |-> "none"] /\ step = [m \in Messages |-> 1]
  /\ on = [m \in Messages |-> 1]
  /\ stale = {} /\ slipped = {}
  /\ outcome = [m \in Messages |-> "none"]
  /\ file = [day |-> 0, spent |-> 0]
  /\ mutes = 0

-----------------------------------------------------------------------------
(* The loop.                                                               *)

\* A "say", or a chat message that is spoken.
Ask(m) ==
  /\ outcome[m] = "none"
  /\ IF Len(queue) < Capacity
     THEN queue' = Append(queue, m) /\ outcome' = [outcome EXCEPT ![m] = "accepted"]
     ELSE UNCHANGED queue /\ outcome' = [outcome EXCEPT ![m] = "rejected"]
  /\ UNCHANGED <<objectVars, loop, current, threadVars, file, boundVars>>

Later(d, e) == IF d < e THEN e ELSE d

\* Mutant: the day of the file is not kept when the clock shows an earlier one.
BookedByTheClock(m, today) ==
  [day |-> today, spent |-> Cost[m] + IF file.day < today THEN 0 ELSE file.spent]

\* What _consume_daily_budget writes for a message: a new day starts at nothing,
\* and a clock behind the file books on the day of the file.
Booked(m, today) ==
  [day |-> Later(file.day, today),
   spent |-> Cost[m] + IF file.day < today THEN 0 ELSE file.spent]

\* The loop turns to the next message.
Wait == loop' = "waiting" /\ current' = Nobody

\* asyncio.to_thread: the thread is queued, not begun.
Schedule(m) ==
  /\ loop' = "playing" /\ at' = [at EXCEPT ![m] = "scheduled"] /\ on' = [on EXCEPT ![m] = tts]

Reject(m) == outcome' = [outcome EXCEPT ![m] = "rejected"]

\* should_speak lets the message through, and books it before it is spoken.
TakeSpoken ==
  /\ loop = "waiting" /\ queue # <<>>
  /\ enabled[tts]
  /\ \E today \in Days : LET m == Head(queue) IN
     /\ Booked(m, today).spent <= Budget
     /\ queue' = Tail(queue) /\ current' = m
     /\ file' = Booked(m, today)
     /\ IF Delayed THEN loop' = "delaying" /\ UNCHANGED <<at, on>> ELSE Schedule(m)
  /\ UNCHANGED <<objectVars, step, stale, slipped, outcome, boundVars>>

\* Disabled, filtered, over its rate or the budget, or the file cannot be written.
TakeRefused ==
  /\ loop = "waiting" /\ queue # <<>>
  /\ queue' = Tail(queue)
  /\ Reject(Head(queue))
  /\ UNCHANGED <<objectVars, loop, current, threadVars, file, boundVars>>

DelayEnds ==
  /\ loop = "delaying"
  /\ IF enabled[tts]
     THEN Schedule(current) /\ UNCHANGED <<current, outcome>>
     ELSE Wait /\ Reject(current) /\ UNCHANGED <<at, on>>
  /\ UNCHANGED <<objectVars, queue, step, stale, slipped, file, boundVars>>

-----------------------------------------------------------------------------
(* What cuts speech short.                                                 *)

\* No check of the generation is left before the sound of this message, and no
\* process is there that a signal could reach.
OutOfReach(m) ==
  \/ at[m] = "scheduled"
  \/ /\ at[m] \in {"next", "calling", "spawned"}
     /\ \A k \in step[m] .. Len(Plan) : Plan[k] # "active"

\* cancel_active of the object the client names; the processes belong to all.
\* The threads in ended have done so, or never begin.
CancelActive(ended) ==
  /\ stale' = stale \cup {m \in Messages : Begun(m) /\ on[m] = tts}
  /\ slipped' = slipped \cup {m \in Messages \ ended : OutOfReach(m)}
  /\ at' = [m \in Messages |-> CASE m \in ended       -> "over"
                                 [] at[m] = "running" -> "told"
                                 [] OTHER             -> at[m]]

Mute ==
  /\ mutes < MaxMutes /\ mutes' = mutes + 1
  /\ enabled' = [enabled EXCEPT ![tts] = FALSE]
  /\ CancelActive({})
  /\ queue' = <<>>
  /\ outcome' = [m \in Messages |->
                   IF \E k \in DOMAIN queue : queue[k] = m THEN "rejected" ELSE outcome[m]]
  /\ UNCHANGED <<tts, loop, current, step, on, file, profile>>

Unmute ==
  /\ ~ enabled[tts]
  /\ enabled' = [enabled EXCEPT ![tts] = TRUE]
  /\ UNCHANGED <<tts, loopVars, threadVars, outcome, file, boundVars>>

\* The remote action: a new object, which is enabled.
RestartTts ==
  /\ tts <= MaxRestarts
  /\ CancelActive({})
  /\ tts' = tts + 1
  /\ UNCHANGED <<enabled, loopVars, step, on, outcome, file, boundVars>>

\* Mutant: wait_for without its timeout.
OperationNeverTimesOut == FALSE /\ UNCHANGED vars

\* operation_timeout_sec: a thread that has not begun never will, another goes
\* on; speech is muted until somebody unmutes it.
OperationTimesOut ==
  /\ loop = "playing" /\ at[current] \notin {"fine", "failed", "overdue"}
  /\ enabled' = [enabled EXCEPT ![tts] = FALSE]
  /\ CancelActive({current} \cap {m \in Messages : at[m] = "scheduled"})
  /\ Reject(current) /\ Wait
  /\ UNCHANGED <<tts, queue, step, on, file, boundVars>>

\* The thread has ended: what the loop reports.
Returned ==
  /\ loop = "playing" /\ at[current] = "fine"
  /\ outcome' = [outcome EXCEPT ![current] = "completed"] /\ Wait
  /\ at' = [at EXCEPT ![current] = "over"]
  /\ UNCHANGED <<objectVars, queue, step, on, stale, slipped, file, boundVars>>

Raised ==
  /\ loop = "playing" /\ at[current] \in {"failed", "overdue"}
  /\ Reject(current) /\ Wait
  /\ at' = [at EXCEPT ![current] = "over"]
  /\ UNCHANGED <<objectVars, queue, step, on, stale, slipped, file, boundVars>>

\* Since Python 3.11 the TimeoutError of run_process is the one of wait_for.
RaisedTimeout ==
  /\ loop = "playing" /\ at[current] = "overdue"
  /\ enabled' = [enabled EXCEPT ![tts] = FALSE]
  /\ Reject(current) /\ Wait
  /\ CancelActive({current})
  /\ UNCHANGED <<tts, queue, step, on, file, boundVars>>

-----------------------------------------------------------------------------
(* The thread of a message.                                                *)

ThreadUnchanged == UNCHANGED <<objectVars, loopVars, outcome, file, boundVars>>

To(m, place) == at' = [at EXCEPT ![m] = place] /\ UNCHANGED <<step, on, stale, slipped>>

GoOn(m) ==
  /\ at' = [at EXCEPT ![m] = "next"] /\ step' = [step EXCEPT ![m] = @ + 1]
  /\ UNCHANGED <<on, stale, slipped>>

\* The loop may wait for the thread, or have given it up.
Leave(m, how) ==
  /\ at' = [at EXCEPT ![m] = IF current = m THEN how ELSE "over"]
  /\ step' = [step EXCEPT ![m] = 1] /\ on' = [on EXCEPT ![m] = 1]
  /\ stale' = stale \ {m} /\ slipped' = slipped \ {m}

\* run_say remembers the generation.
Begin(m) == at[m] = "scheduled" /\ To(m, "next") /\ ThreadUnchanged

\* Mutant: the generation is not compared.
OperationIsEnabled(m) == enabled[on[m]]

OperationIsActive(m) == enabled[on[m]] /\ m \notin stale

Check(m) ==
  /\ at[m] = "next" /\ StepOf(m) \in {"enabled", "active", "end"}
  /\ IF \/ StepOf(m) = "enabled" /\ enabled[on[m]]
        \/ StepOf(m) = "active" /\ OperationIsActive(m)
     THEN GoOn(m)
     ELSE Leave(m, "fine")
  /\ ThreadUnchanged

Call(m) == at[m] = "next" /\ StepOf(m) = "call" /\ To(m, "calling") /\ ThreadUnchanged

\* The service answers, with speech or without, or fails; its own deadline is
\* that of the operation.
CallEnds(m) ==
  /\ at[m] = "calling"
  /\ GoOn(m) \/ Leave(m, "fine") \/ Leave(m, "failed")
  /\ ThreadUnchanged

Speak(m) == at[m] = "next" /\ StepOf(m) = "sdk" /\ To(m, "speaking") /\ ThreadUnchanged

SpeakEnds(m) ==
  /\ at[m] = "speaking"
  /\ GoOn(m) \/ Leave(m, "failed")
  /\ ThreadUnchanged

\* Between Popen and _register_process nobody else knows the process.
Spawn(m) ==
  /\ at[m] = "next" /\ StepOf(m) \in {"make", "play"}
  /\ To(m, "spawned")
  /\ ThreadUnchanged

Register(m) == at[m] = "spawned" /\ To(m, "running") /\ ThreadUnchanged

ProcessEnds(m) ==
  /\ at[m] = "running"
  /\ GoOn(m) \/ Leave(m, "failed")
  /\ ThreadUnchanged

\* SIGTERM, and SIGKILL from a timer after 0.5 s; it may have ended just before.
ProcessObeys(m) ==
  /\ at[m] = "told"
  /\ GoOn(m) \/ Leave(m, "failed")
  /\ ThreadUnchanged

\* Mutant: a program may take as long as it likes.
ProcessNeverTimesOut(m) == FALSE /\ UNCHANGED vars

\* The 20 s of run_process, and the end of its group.
ProcessTimesOut(m) ==
  /\ at[m] \in {"running", "told"}
  /\ Leave(m, "overdue")
  /\ ThreadUnchanged

-----------------------------------------------------------------------------

LoopStep ==
  \/ TakeSpoken \/ TakeRefused \/ DelayEnds
  \/ OperationTimesOut \/ Returned \/ Raised \/ RaisedTimeout

ThreadStep(m) ==
  \/ Begin(m) \/ Check(m) \/ Call(m) \/ CallEnds(m) \/ Speak(m)
  \/ Spawn(m) \/ Register(m) \/ ProcessObeys(m) \/ ProcessTimesOut(m)

Next ==
  \/ \E m \in Messages : Ask(m) \/ ThreadStep(m) \/ SpeakEnds(m) \/ ProcessEnds(m)
  \/ LoopStep
  \/ Mute \/ Unmute \/ RestartTts

Spec == Init /\ [][Next]_vars

\* The event loop and the threads run, their timers fire, and the services
\* answer or time out. A program need not end by itself, nor an SDK call.
FairSpec ==
  /\ Spec
  /\ WF_vars(LoopStep)
  /\ \A m \in Messages : WF_vars(ThreadStep(m))

-----------------------------------------------------------------------------
(* Properties.                                                             *)

Places == {"none", "scheduled", "next", "calling", "speaking", "spawned", "running",
           "told", "fine", "failed", "overdue", "over"}

TypeOK ==
  /\ profile \in Profiles
  /\ tts \in Objects /\ enabled \in [Objects -> BOOLEAN]
  /\ queue \in Seq(Messages) /\ Len(queue) <= Capacity
  /\ loop \in {"waiting", "delaying", "playing"}
  /\ current \in Messages \cup {Nobody} /\ (current = Nobody <=> loop = "waiting")
  /\ at \in [Messages -> Places]
  /\ step \in [Messages -> 1 .. Len(Plan) + 1]
  /\ on \in [Messages -> Objects]
  /\ stale \subseteq Messages /\ slipped \subseteq Messages
  /\ outcome \in [Messages -> {"none", "accepted", "completed", "rejected"}]
  /\ file \in [day : Days \cup {0}, spent : 0 .. Budget]
  /\ mutes \in 0 .. MaxMutes

\* One message at a time: of the programs that play and were not told to end, all
\* but one belong to messages that were cancelled with no check left ahead of
\* them. A message that was given up does not come back when speech is unmuted.
OneVoice ==
  \A m, n \in Messages :
    /\ Sounds(m) /\ at[m] \notin {"told", "speaking"} /\ m \notin slipped
    /\ Sounds(n) /\ at[n] \notin {"told", "speaking"} /\ n \notin slipped
    => m = n

\* Whatever the clock shows and however often it is set: a day that was booked on
\* is booked on until a later one, and up to its budget. (Each booking adds.)
NoDayIsBookedAnew ==
  [][/\ file'.spent <= Budget
     /\ \/ file'.day > file.day
        \/ file'.day = file.day /\ file'.spent > file.spent]_file

\* Every message that was accepted gets its final outcome, however long its
\* program or its SDK takes.
EveryMessageEnds ==
  \A m \in Messages :
    outcome[m] = "accepted" ~> (outcome[m] \in {"completed", "rejected"})

\* Muted speech falls silent, the programs that slipped through included.
MutedFallsSilent ==
  ~ enabled[tts] ~> (enabled[tts] \/ \A m \in Messages : Sounds(m) => at[m] = "speaking")
=============================================================================
