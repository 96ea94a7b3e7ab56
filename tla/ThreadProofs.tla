---------------------------- MODULE ThreadProofs ----------------------------
(***************************************************************************)
(* Proofs about the two places where the client leaves work to threads it  *)
(* cannot take it back from: the thread of a spoken message (Speech) and   *)
(* the thread of a hardware command (Adapter). In both the invariant says  *)
(* what is still ahead of a thread: a check that it will fail, or the step *)
(* that ends what it has begun.                                            *)
(*                                                                         *)
(* Speech, for any messages, profiles, budget and clock: one message plays *)
(* at a time, and no day is booked anew. Adapter, for any adapters that    *)
(* honour AdapterContract, any threads and any number of failures: a       *)
(* confirmed stop leaves nothing driven, a pulse ends, what is driven has  *)
(* a deadline.                                                             *)
(***************************************************************************)
EXTENDS Speech, Adapter, TLAPS

-----------------------------------------------------------------------------
(* Speech. What a plan may hold, and where a thread may be in it.          *)

\* What a plan may hold: only the last step has sound, and a program without
\* sound is followed by a comparison of the generation.
WellFormed(p) ==
  /\ p \in Seq({"enabled", "active", "call", "make", "play", "sdk"})
  /\ \A k \in 1 .. Len(p) :
       /\ p[k] = "play" => k = Len(p)
       /\ p[k] = "make" => \E j \in k + 1 .. Len(p) : p[j] = "active"
       /\ p[k] = "sdk" => k = Len(p)

LEMMA PlansAreWellFormed ==
  ASSUME profile \in Profiles
  PROVE  WellFormed(Plan)
<1>1. WellFormed(espeak) BY DEF WellFormed, espeak
<1>2. WellFormed(festival)
  <2>1. festival[3] = "active" BY DEF festival
  <2> QED BY <2>1 DEF WellFormed, festival
<1>3. WellFormed(google_cloud) BY DEF WellFormed, google_cloud
<1>4. WellFormed(cozmo_tts) BY DEF WellFormed, cozmo_tts
<1>5. pico = festival /\ polly = google_cloud /\ vector_tts = cozmo_tts /\ custom = cozmo_tts
  BY DEF pico, festival, polly, google_cloud, vector_tts, cozmo_tts, custom
<1>6. profile \in DOMAIN PlanOf
  BY SpeechAssumption
<1>7. Plan \in {espeak, festival, google_cloud, cozmo_tts}
  BY <1>5, <1>6 DEF Plan, PlanOf
<1> QED BY <1>1, <1>2, <1>3, <1>4, <1>7
-----------------------------------------------------------------------------
(* The invariant.                                                          *)

\* Where a thread is says what it does there.
Positioned(m) ==
  /\ at[m] = "calling" => StepOf(m) = "call"
  /\ at[m] = "speaking" => StepOf(m) = "sdk"
  /\ at[m] \in {"spawned", "running", "told"} => StepOf(m) \in {"make", "play"}

\* Only the current message has a thread that is yet to begin.
Awaited(m) ==
  at[m] = "scheduled" => /\ loop = "playing" /\ m = current
                         /\ on[m] = tts \/ m \in slipped

\* The sound that lies ahead of m was told to end, or a check that fails comes
\* before it.
Harmless(m) ==
  \A k \in step[m] .. Len(Plan) :
    Plan[k] = "play" => \/ k = step[m] /\ at[m] = "told"
                        \/ m \in stale /\ \E j \in step[m] .. k : Plan[j] = "active"

\* The loop waits for m, which nothing has cut short.
InCharge(m) == loop = "playing" /\ m = current /\ on[m] = tts

Covered(m) == Begun(m) => m \in slipped \/ Harmless(m)

Threads ==
  \A m \in Messages : Positioned(m) /\ Awaited(m) /\ (InCharge(m) \/ Covered(m))

IInv == TypeOK /\ Threads

-----------------------------------------------------------------------------
(* A thread makes one of three moves.                                      *)

Moves(m, p) ==
  \/ at[m] = "scheduled" /\ p = "next"
  \/ at[m] = "next" /\ p = "calling" /\ StepOf(m) = "call"
  \/ at[m] = "next" /\ p = "speaking" /\ StepOf(m) = "sdk"
  \/ at[m] = "next" /\ p = "spawned" /\ StepOf(m) \in {"make", "play"}
  \/ at[m] = "spawned" /\ p = "running"

Passes(m) ==
  Begun(m) /\ step[m] <= Len(Plan) /\ ~ (StepOf(m) = "active" /\ m \in stale)

ThreadMove(m) ==
  \/ \E p \in {"next", "calling", "speaking", "spawned", "running"} : Moves(m, p) /\ To(m, p)
  \/ Passes(m) /\ GoOn(m)
  \/ \E how \in {"fine", "failed", "overdue"} : Leave(m, how)

LEMMA ThreadsMove ==
  ASSUME IInv, NEW m \in Messages, ThreadStep(m) \/ SpeakEnds(m) \/ ProcessEnds(m)
  PROVE  ThreadUnchanged /\ ThreadMove(m)
<1>1. Positioned(m) /\ at[m] \in Places /\ step[m] \in Nat
  BY PlansAreWellFormed DEF IInv, Threads, TypeOK, WellFormed
<1>2. StepOf(m) # "end" => step[m] <= Len(Plan)
  BY DEF StepOf
<1> USE <1>1, <1>2 DEF ThreadMove
<1>3. CASE Begin(m) BY <1>3 DEF Begin, Moves
<1>4. CASE Check(m)
  BY <1>4 DEF Check, Passes, Begun, OperationIsActive
<1>5. CASE Call(m) BY <1>5 DEF Call, Moves
<1>6. CASE CallEnds(m) BY <1>6 DEF CallEnds, Passes, Begun, Positioned
<1>7. CASE Speak(m) BY <1>7 DEF Speak, Moves
<1>8. CASE Spawn(m) BY <1>8 DEF Spawn, Moves
<1>9. CASE Register(m) BY <1>9 DEF Register, Moves
<1>10. CASE ProcessObeys(m) BY <1>10 DEF ProcessObeys, Passes, Begun, Positioned
<1>11. CASE ProcessTimesOut(m) BY <1>11 DEF ProcessTimesOut
<1>12. CASE SpeakEnds(m) BY <1>12 DEF SpeakEnds, Passes, Begun, Positioned
<1>13. CASE ProcessEnds(m) BY <1>13 DEF ProcessEnds, Passes, Begun, Positioned
<1> QED BY <1>3, <1>4, <1>5, <1>6, <1>7, <1>8, <1>9, <1>10, <1>11, <1>12, <1>13 DEF ThreadStep

\* What the others' threads do does not concern n.
LEMMA OthersStay ==
  ASSUME IInv, NEW m \in Messages, NEW n \in Messages \ {m},
         ThreadUnchanged, ThreadMove(m)
  PROVE  /\ Positioned(n)' /\ Awaited(n)'
         /\ (InCharge(n) \/ Covered(n))'
<1>1. at'[n] = at[n] /\ step'[n] = step[n] /\ on'[n] = on[n]
      /\ (n \in stale' <=> n \in stale) /\ (n \in slipped' <=> n \in slipped)
  BY DEF ThreadMove, To, GoOn, Leave, IInv, TypeOK
<1>2. loop' = loop /\ current' = current /\ tts' = tts /\ Plan' = Plan
  BY DEF ThreadUnchanged, loopVars, objectVars, boundVars, Plan
<1>3. Positioned(n) /\ Awaited(n) /\ (InCharge(n) \/ Covered(n))
  BY DEF IInv, Threads
<1>4. (Positioned(n) <=> Positioned(n)') /\ (Awaited(n) <=> Awaited(n)')
      /\ (InCharge(n) <=> InCharge(n)')
  BY <1>1, <1>2 DEF Positioned, Awaited, InCharge, StepOf
<1>5. Harmless(n) <=> Harmless(n)'
  BY <1>1, <1>2 DEF Harmless
<1>6. Covered(n) <=> Covered(n)'
  BY <1>1, <1>5 DEF Covered, Begun
<1> QED BY <1>3, <1>4, <1>6

LEMMA ThreadKeepsTypes ==
  ASSUME IInv, NEW m \in Messages, ThreadUnchanged, ThreadMove(m)
  PROVE  TypeOK'
<1> USE DEF TypeOK, IInv, ThreadUnchanged, objectVars, loopVars, boundVars
<1>1. Plan' = Plan /\ Len(Plan) \in Nat /\ 1 \in Objects
  BY PlansAreWellFormed, SpeechAssumption DEF Plan, WellFormed, Objects
<1>2. Objects' = Objects BY DEF Objects
<1>3. ASSUME NEW p \in {"next", "calling", "speaking", "spawned", "running"}, To(m, p)
      PROVE  TypeOK'
  BY <1>1, <1>3 DEF To, Places
<1>4. CASE Passes(m) /\ GoOn(m)
  <2>1. step' \in [Messages -> 1 .. Len(Plan) + 1]
    BY <1>1, <1>4 DEF GoOn, Passes
  <2> QED BY <1>1, <1>4, <2>1 DEF GoOn, Places
<1>5. ASSUME NEW how \in {"fine", "failed", "overdue"}, Leave(m, how)
      PROVE  TypeOK'
  BY <1>1, <1>5 DEF Leave, Places
<1> QED BY <1>3, <1>4, <1>5 DEF ThreadMove

LEMMA ThreadKeepsInvariant ==
  ASSUME IInv, NEW m \in Messages, ThreadUnchanged, ThreadMove(m)
  PROVE  IInv'
<1> USE DEF IInv, TypeOK
<1>1. loop' = loop /\ current' = current /\ tts' = tts /\ Plan' = Plan
      /\ WellFormed(Plan)
  BY PlansAreWellFormed DEF ThreadUnchanged, loopVars, objectVars, boundVars, Plan
<1>2. Positioned(m) /\ Awaited(m) /\ (InCharge(m) \/ Covered(m))
  BY DEF Threads
<1>3. Positioned(m)' /\ Awaited(m)' /\ (InCharge(m) \/ Covered(m))'
  <2>1. ASSUME NEW p \in {"next", "calling", "speaking", "spawned", "running"},
               Moves(m, p), To(m, p)
        PROVE  Positioned(m)' /\ Awaited(m)' /\ (InCharge(m) \/ Covered(m))'
    <3>1. at'[m] = p /\ step' = step /\ on' = on /\ stale' = stale /\ slipped' = slipped
      BY <2>1 DEF To
    <3>2. Positioned(m)' /\ Awaited(m)'
      BY <1>1, <1>2, <2>1, <3>1 DEF Moves, Positioned, Awaited, StepOf
    <3>3. CASE InCharge(m)
      BY <1>1, <3>1, <3>2, <3>3 DEF InCharge
    <3>4. CASE ~ InCharge(m)
      <4>1. m \in slipped \/ Harmless(m)
        BY <1>2, <2>1, <3>4 DEF Covered, Begun, Moves, Awaited, InCharge
      <4>2. at[m] # "told" BY <2>1 DEF Moves
      <4>3. Harmless(m) => Harmless(m)'
        BY <1>1, <3>1, <4>2 DEF Harmless
      <4> QED BY <3>1, <3>2, <4>1, <4>3 DEF Covered
    <3> QED BY <3>3, <3>4
  <2>2. CASE Passes(m) /\ GoOn(m)
    <3>1. /\ at'[m] = "next" /\ step'[m] = step[m] + 1
          /\ on' = on /\ stale' = stale /\ slipped' = slipped
      BY <2>2 DEF GoOn
    <3>2. Positioned(m)' /\ Awaited(m)'
      BY <3>1 DEF Positioned, Awaited
    <3>3. Harmless(m) => Harmless(m)'
      <4> SUFFICES ASSUME Harmless(m), NEW k \in step[m] + 1 .. Len(Plan), Plan[k] = "play"
                   PROVE  m \in stale /\ \E j \in step[m] + 1 .. k : Plan[j] = "active"
        BY <1>1, <3>1 DEF Harmless
      <4>1. step[m] \in Nat /\ step[m] <= Len(Plan) /\ Len(Plan) \in Nat
        BY <1>1, <2>2 DEF Passes, WellFormed
      <4>2. m \in stale /\ \E j \in step[m] .. k : Plan[j] = "active"
        <5>1. k \in step[m] .. Len(Plan) /\ k # step[m]
          BY <4>1
        <5> QED BY <5>1 DEF Harmless
      <4>3. Plan[step[m]] # "active"
        BY <2>2, <4>1, <4>2 DEF Passes, StepOf
      <4> QED BY <4>1, <4>2, <4>3
    <3>4. InCharge(m) => InCharge(m)'
      BY <1>1, <3>1 DEF InCharge
    <3>5. Covered(m) => Covered(m)'
      BY <2>2, <3>1, <3>3 DEF Covered, Passes
    <3> QED BY <1>2, <3>2, <3>4, <3>5
  <2>3. ASSUME NEW how \in {"fine", "failed", "overdue"}, Leave(m, how)
        PROVE  Positioned(m)' /\ Awaited(m)' /\ (InCharge(m) \/ Covered(m))'
    <3>1. at'[m] \in {"fine", "failed", "overdue", "over"}
      BY <2>3 DEF Leave
    <3> QED BY <3>1 DEF Positioned, Awaited, Covered, Begun
  <2> QED BY <2>1, <2>2, <2>3 DEF ThreadMove
<1>4. TypeOK' BY ThreadKeepsTypes
<1>5. Threads' BY <1>3, OthersStay DEF Threads
<1> QED BY <1>4, <1>5

-----------------------------------------------------------------------------
(* What cuts speech short.                                                 *)

\* After cancel_active nothing plays on that was not told, or slipped through.
LEMMA CancelCoversAll ==
  ASSUME IInv, NEW ended \in SUBSET Messages, CancelActive(ended),
         \A m \in ended : at[m] # "running",
         UNCHANGED <<step, on, profile>>
  PROVE  \A m \in Messages : Positioned(m)' /\ Covered(m)'
<1> SUFFICES ASSUME NEW m \in Messages
             PROVE  Positioned(m)' /\ Covered(m)'
  OBVIOUS
<1>1. Positioned(m) /\ Awaited(m) /\ (InCharge(m) \/ Covered(m)) /\ WellFormed(Plan)
  BY PlansAreWellFormed DEF IInv, Threads, TypeOK
<1>2. /\ m \in ended => at'[m] = "over"
      /\ m \notin ended /\ at[m] = "running" => at'[m] = "told"
      /\ m \notin ended /\ at[m] # "running" => at'[m] = at[m]
      /\ stale \subseteq stale' /\ slipped \subseteq slipped'
      /\ Begun(m) /\ on[m] = tts => m \in stale'
      /\ OutOfReach(m) /\ m \notin ended => m \in slipped'
      /\ Plan' = Plan
  BY DEF CancelActive, Plan
<1>3. Positioned(m)' BY <1>1, <1>2 DEF Positioned, StepOf
<1>4. ASSUME ~ Begun(m) PROVE Covered(m)'
  BY <1>2, <1>4 DEF Covered, Begun
<1>5. ASSUME m \in ended PROVE Covered(m)'
  BY <1>2, <1>5 DEF Covered, Begun
<1>6. ASSUME Begun(m) /\ Covered(m) /\ m \notin ended PROVE Covered(m)'
  <2>1. Harmless(m) => Harmless(m)'
    BY <1>2, <1>6 DEF Harmless
  <2> QED BY <1>2, <1>6, <2>1 DEF Covered
<1>7. ASSUME Begun(m) /\ InCharge(m) /\ m \notin ended PROVE Covered(m)'
  <2>1. m \in stale' BY <1>2, <1>7 DEF InCharge
  <2>2. /\ step[m] \in Nat \ {0} /\ Len(Plan) \in Nat
        /\ StepOf(m) # "end" => step[m] \in 1 .. Len(Plan) /\ StepOf(m) = Plan[step[m]]
    BY <1>1 DEF IInv, TypeOK, WellFormed, StepOf
  <2>3. CASE \E j \in step[m] .. Len(Plan) : Plan[j] = "active"
    <3> SUFFICES ASSUME NEW k \in step[m] .. Len(Plan), Plan[k] = "play"
                 PROVE  \E j \in step[m] .. k : Plan[j] = "active"
      BY <1>2, <2>1 DEF Harmless, Covered
    <3>1. k = Len(Plan) BY <1>1, <2>2 DEF WellFormed
    <3> QED BY <2>3, <3>1
  <2>4. CASE \A j \in step[m] .. Len(Plan) : Plan[j] # "active"
    <3>1. CASE at[m] \in {"next", "calling", "spawned"}
      BY <1>2, <1>7, <2>4, <3>1 DEF OutOfReach, Covered
    <3>2. CASE at[m] \in {"running", "told", "speaking"}
      <4>1. StepOf(m) \in {"make", "play", "sdk"} /\ step[m] \in 1 .. Len(Plan)
        BY <1>1, <2>2, <3>2 DEF Positioned
      <4>2. StepOf(m) # "make"
        BY <1>1, <2>2, <2>4, <4>1 DEF WellFormed
      <4>3. step[m] = Len(Plan)
        BY <1>1, <2>2, <4>1, <4>2 DEF WellFormed
      <4>4. StepOf(m) = "play" => at'[m] = "told"
        BY <1>1, <1>2, <1>7, <3>2 DEF Positioned
      <4>5. Harmless(m)'
        BY <1>2, <2>2, <4>1, <4>3, <4>4 DEF Harmless
      <4> QED BY <4>5 DEF Covered
    <3> QED BY <1>7, <3>1, <3>2 DEF Begun
  <2> QED BY <2>3, <2>4
<1> QED BY <1>1, <1>3, <1>4, <1>5, <1>6, <1>7

LEMMA CancelledKeepsThreads ==
  ASSUME IInv, Mute \/ RestartTts \/ OperationTimesOut \/ RaisedTimeout
  PROVE  Threads'
<1>1. PICK ended \in SUBSET Messages :
        /\ CancelActive(ended) /\ UNCHANGED <<step, on, profile>>
        /\ \A m \in ended : at[m] # "running"
        /\ \/ ended = {} /\ UNCHANGED <<loop, current>>
           \/ \A m \in Messages : at[m] = "scheduled" => m \in ended
  <2>1. CASE Mute
    BY <2>1 DEF Mute, boundVars
  <2>2. CASE RestartTts
    BY <2>2 DEF RestartTts, boundVars, loopVars
  <2>3. CASE OperationTimesOut
    BY <2>3 DEF OperationTimesOut, boundVars, IInv, Threads, Awaited
  <2>4. CASE RaisedTimeout
    <3>1. current \in Messages
      BY <2>4 DEF RaisedTimeout, IInv, TypeOK
    <3> QED BY <2>4, <3>1 DEF RaisedTimeout, boundVars, IInv, Threads, Awaited
  <2> QED BY <2>1, <2>2, <2>3, <2>4
<1>2. ASSUME NEW m \in Messages PROVE Awaited(m)'
  <2>1. /\ m \in ended => at'[m] = "over"
        /\ at'[m] = "scheduled" => at[m] = "scheduled"
        /\ at[m] = "scheduled" /\ m \notin ended => m \in slipped'
    BY <1>1 DEF CancelActive, OutOfReach
  <2>2. Awaited(m) BY DEF IInv, Threads
  <2> QED BY <1>1, <2>1, <2>2 DEF Awaited
<1> QED BY <1>1, <1>2, CancelCoversAll DEF Threads

\* What the loop does with a message and its thread, where nothing is cut short.
LEMMA LoopKeepsThreads ==
  ASSUME IInv, TakeSpoken \/ TakeRefused \/ DelayEnds \/ Returned \/ Raised
  PROVE  Threads'
<1>1. ASSUME NEW n \in Messages
      PROVE  Positioned(n) /\ Awaited(n) /\ (InCharge(n) \/ Covered(n))
  BY DEF IInv, Threads
<1>2. UNCHANGED <<step, stale, slipped, tts, Plan>>
  BY DEF TakeSpoken, TakeRefused, DelayEnds, Returned, Raised, threadVars, objectVars, boundVars, Plan
<1>3. CASE UNCHANGED <<at, on, loop, current>>
  BY <1>1, <1>2, <1>3 DEF Threads, Positioned, Awaited, InCharge, Covered, Harmless, Begun, StepOf
<1>4. ASSUME loop # "playing", UNCHANGED <<at, on>>, loop' # "playing"
      PROVE  Threads'
  BY <1>1, <1>2, <1>4 DEF Threads, Positioned, Awaited, InCharge, Covered, Harmless, Begun, StepOf
<1>5. ASSUME loop # "playing", NEW m, Schedule(m), current' = m
      PROVE  Threads'
  <2> SUFFICES ASSUME NEW n \in Messages
               PROVE  Positioned(n)' /\ Awaited(n)' /\ Covered(n)'
    BY DEF Threads
  <2>1. CASE n = m
    <3>1. at'[n] = "scheduled" /\ on'[n] = tts' /\ loop' = "playing"
      BY <1>2, <1>5, <2>1 DEF Schedule, IInv, TypeOK
    <3> QED BY <1>5, <2>1, <3>1 DEF Positioned, Awaited, Covered, Begun
  <2>2. CASE n # m
    <3>1. at'[n] = at[n] BY <1>5, <2>2 DEF Schedule
    <3> QED BY <1>1, <1>2, <1>5, <3>1
          DEF Positioned, Awaited, InCharge, Covered, Harmless, Begun, StepOf
  <2> QED BY <2>1, <2>2
<1>6. ASSUME loop = "playing", at[current] \in {"fine", "failed", "overdue"},
             at' = [at EXCEPT ![current] = "over"], on' = on, loop' = "waiting"
      PROVE  Threads'
  <2> SUFFICES ASSUME NEW n \in Messages
               PROVE  Positioned(n)' /\ Awaited(n)' /\ Covered(n)'
    BY DEF Threads
  <2>1. CASE n = current
    <3>1. at'[n] = "over" BY <1>6, <2>1 DEF IInv, TypeOK
    <3> QED BY <3>1 DEF Positioned, Awaited, Covered, Begun
  <2>2. CASE n # current
    <3>1. at'[n] = at[n] BY <1>6, <2>2
    <3> QED BY <1>1, <1>2, <2>2, <3>1
          DEF Positioned, Awaited, InCharge, Covered, Harmless, Begun, StepOf
  <2> QED BY <2>1, <2>2
<1>7. CASE TakeSpoken
  BY <1>4, <1>5, <1>7 DEF TakeSpoken, Schedule
<1>8. CASE TakeRefused
  BY <1>3, <1>8 DEF TakeRefused, threadVars
<1>9. CASE DelayEnds
  BY <1>4, <1>5, <1>9 DEF DelayEnds, Wait
<1>10. CASE Returned \/ Raised
  BY <1>6, <1>10 DEF Returned, Raised, Wait
<1> QED BY <1>7, <1>8, <1>9, <1>10

-----------------------------------------------------------------------------
(* Types, and the budget.                                                  *)

LEMMA QueueFacts ==
  ASSUME TypeOK, queue # <<>>
  PROVE  Head(queue) \in Messages /\ Tail(queue) \in Seq(Messages) /\ Len(Tail(queue)) <= Capacity
BY SpeechAssumption DEF TypeOK

\* What is booked is booked on the day of the file or a later one.
LEMMA BookedAdds ==
  ASSUME TypeOK, NEW m \in Messages, NEW today \in Days, Booked(m, today).spent <= Budget
  PROVE  LET f == Booked(m, today) IN
         /\ f \in [day : Days \cup {0}, spent : 0 .. Budget]
         /\ f.day > file.day \/ (f.day = file.day /\ f.spent > file.spent)
<1>1. /\ Cost[m] \in Nat \ {0} /\ today \in Nat \ {0} /\ Budget \in Nat
      /\ file.day \in Nat /\ file.day \in Days \cup {0} /\ file.spent \in Nat
  <2>1. Cost[m] \in Nat \ {0} /\ Budget \in Nat /\ Days \subseteq Nat \ {0}
    BY SpeechAssumption
  <2>2. file.day \in Days \cup {0} /\ file.spent \in 0 .. Budget
    BY DEF TypeOK
  <2>3. \A d \in Days \cup {0} : d \in Nat
    BY <2>1
  <2>4. file.spent \in Nat
    BY <2>1, <2>2
  <2>5. today \in Nat \ {0}
    BY <2>1
  <2> QED BY <2>1, <2>2, <2>3, <2>4, <2>5
<1>2. /\ Booked(m, today).day = Later(file.day, today)
      /\ Booked(m, today).spent = Cost[m] + IF file.day < today THEN 0 ELSE file.spent
      /\ Booked(m, today) = [day |-> Booked(m, today).day, spent |-> Booked(m, today).spent]
  BY DEF Booked
<1>3. Later(file.day, today) = IF file.day < today THEN today ELSE file.day
  BY DEF Later
<1>4. CASE file.day < today
  <2>1. Booked(m, today).day = today /\ Booked(m, today).spent = Cost[m]
    BY <1>1, <1>2, <1>3, <1>4
  <2> QED BY <1>1, <1>2, <1>4, <2>1
<1>5. CASE ~ (file.day < today)
  <2>1. Booked(m, today).day = file.day /\ Booked(m, today).spent = Cost[m] + file.spent
    BY <1>1, <1>2, <1>3, <1>5
  <2> QED BY <1>1, <1>2, <2>1
<1> QED BY <1>4, <1>5

LEMMA CancelKeepsTypes ==
  ASSUME TypeOK, NEW ended, CancelActive(ended)
  PROVE  /\ at' \in [Messages -> Places]
         /\ stale' \subseteq Messages /\ slipped' \subseteq Messages
BY DEF TypeOK, CancelActive, Places

LEMMA OthersKeepTypes ==
  ASSUME IInv,
         \/ LoopStep \/ Mute \/ Unmute \/ RestartTts
         \/ \E m \in Messages : Ask(m)
  PROVE  TypeOK'
<1> USE DEF IInv, TypeOK
<1>0. /\ Objects' = Objects /\ (profile' = profile => Plan' = Plan)
      /\ Nobody \notin Messages /\ Capacity \in Nat
  BY SpeechAssumption DEF Objects, Plan
<1>a. ASSUME NEW m, Schedule(m)
      PROVE  at' \in [Messages -> Places] /\ on' \in [Messages -> Objects]
  BY <1>a DEF Schedule, Places
<1>1. ASSUME NEW m \in Messages, Ask(m) PROVE TypeOK'
  <2>1. queue' \in Seq(Messages) /\ Len(queue') <= Capacity
    <3>1. CASE Len(queue) < Capacity
      <4>1. Append(queue, m) \in Seq(Messages) /\ Len(Append(queue, m)) = Len(queue) + 1
        OBVIOUS
      <4>2. queue' = Append(queue, m) /\ Len(queue) \in Nat
        BY <1>1, <3>1 DEF Ask
      <4> QED BY <1>0, <3>1, <4>1, <4>2
    <3>2. CASE ~ (Len(queue) < Capacity)
      BY <1>1, <3>2 DEF Ask
    <3> QED BY <3>1, <3>2
  <2>2. outcome' \in [Messages -> {"none", "accepted", "completed", "rejected"}]
    BY <1>1 DEF Ask
  <2> QED BY <1>0, <1>1, <2>1, <2>2 DEF Ask, objectVars, threadVars, boundVars
<1>2. CASE TakeSpoken
  <2>1. PICK today \in Days :
          /\ Booked(Head(queue), today).spent <= Budget
          /\ queue' = Tail(queue) /\ current' = Head(queue)
          /\ file' = Booked(Head(queue), today)
          /\ IF Delayed THEN loop' = "delaying" /\ UNCHANGED <<at, on>>
                        ELSE Schedule(Head(queue))
    BY <1>2 DEF TakeSpoken
  <2>2. queue # <<>> BY <1>2 DEF TakeSpoken
  <2>3. file' \in [day : Days \cup {0}, spent : 0 .. Budget]
    BY <2>1, <2>2, QueueFacts, BookedAdds
  <2>4. UNCHANGED <<profile, tts, enabled, step, stale, slipped, outcome, mutes>>
    BY <1>2 DEF TakeSpoken, objectVars, boundVars
  <2>5. loop' \in {"delaying", "playing"} /\ at' \in [Messages -> Places] /\ on' \in [Messages -> Objects]
    <3>1. CASE Delayed
      BY <2>1, <3>1
    <3>2. CASE ~ Delayed
      <4>1. Schedule(Head(queue)) /\ loop' = "playing"
        BY <2>1, <3>2 DEF Schedule
      <4> QED BY <1>a, <4>1
    <3> QED BY <3>1, <3>2
  <2> QED BY <1>0, <2>1, <2>2, <2>3, <2>4, <2>5, QueueFacts
<1>3. CASE TakeRefused
  BY <1>0, <1>3, QueueFacts DEF TakeRefused, Reject, objectVars, threadVars, boundVars
<1>4. CASE DelayEnds
  <2>1. at' \in [Messages -> Places] /\ on' \in [Messages -> Objects]
    <3>1. Schedule(current) \/ UNCHANGED <<at, on>>
      BY <1>4 DEF DelayEnds
    <3> QED BY <1>a, <3>1
  <2>2. outcome' \in [Messages -> {"none", "accepted", "completed", "rejected"}]
    BY <1>4 DEF DelayEnds, Reject
  <2>3. /\ loop' \in {"waiting", "delaying", "playing"} /\ current' \in Messages \cup {Nobody}
        /\ current' = Nobody <=> loop' = "waiting"
    BY <1>0, <1>4 DEF DelayEnds, Schedule, Wait
  <2> QED BY <1>0, <1>4, <2>1, <2>2, <2>3 DEF DelayEnds, objectVars, boundVars
<1>5. CASE OperationTimesOut
  BY <1>0, <1>5, CancelKeepsTypes DEF OperationTimesOut, Wait, Reject, boundVars
<1>6. CASE Returned
  BY <1>0, <1>6 DEF Returned, Wait, objectVars, boundVars, Places
<1>7. CASE Raised
  BY <1>0, <1>7 DEF Raised, Wait, Reject, objectVars, boundVars, Places
<1>8. CASE RaisedTimeout
  BY <1>0, <1>8, CancelKeepsTypes DEF RaisedTimeout, Wait, Reject, boundVars
<1>9. CASE Mute
  <2>1. queue' = <<>> /\ Len(queue') = 0 BY <1>9 DEF Mute
  <2>2. mutes' \in 0 .. MaxMutes BY <1>9, SpeechAssumption DEF Mute
  <2> QED BY <1>0, <1>9, <2>1, <2>2, CancelKeepsTypes DEF Mute
<1>10. CASE Unmute
  BY <1>0, <1>10 DEF Unmute, loopVars, threadVars, boundVars
<1>11. CASE RestartTts
  <2>1. tts' \in Objects BY <1>11, SpeechAssumption DEF RestartTts, Objects
  <2> QED BY <1>0, <1>11, <2>1, CancelKeepsTypes DEF RestartTts, loopVars, boundVars
<1> QED BY <1>1, <1>2, <1>3, <1>4, <1>5, <1>6, <1>7, <1>8, <1>9, <1>10, <1>11 DEF LoopStep

-----------------------------------------------------------------------------
(* The theorems.                                                           *)

LEMMA InitHolds == Init => IInv
<1> SUFFICES ASSUME Init PROVE IInv
  OBVIOUS
<1>1. TypeOK
  BY SpeechAssumption, PlansAreWellFormed DEF Init, TypeOK, Objects, Places, WellFormed
<1>2. Threads
  BY DEF Init, Threads, Positioned, Awaited, Covered, Begun
<1> QED BY <1>1, <1>2 DEF IInv

LEMMA StepKeepsInvariant == IInv /\ [Next]_vars => IInv'
<1> SUFFICES ASSUME IInv, [Next]_vars PROVE IInv'
  OBVIOUS
<1>1. ASSUME NEW m \in Messages, ThreadStep(m) \/ SpeakEnds(m) \/ ProcessEnds(m)
      PROVE  IInv'
  BY <1>1, ThreadsMove, ThreadKeepsInvariant
<1>2. ASSUME UNCHANGED <<profile, tts, loop, current, threadVars>>
      PROVE  Threads'
  BY <1>2 DEF IInv, Threads, Positioned, Awaited, InCharge, Covered, Harmless, Begun,
              StepOf, Plan, threadVars
<1>3. ASSUME NEW m \in Messages, Ask(m)
      PROVE  IInv'
  <2>1. UNCHANGED <<profile, tts, loop, current, threadVars>>
    BY <1>3 DEF Ask, objectVars, boundVars
  <2> QED BY <1>2, <1>3, <2>1, OthersKeepTypes DEF IInv
<1>4. CASE Unmute
  <2>1. UNCHANGED <<profile, tts, loop, current, threadVars>>
    BY <1>4 DEF Unmute, loopVars, boundVars
  <2> QED BY <1>2, <1>4, <2>1, OthersKeepTypes DEF IInv
<1>5. CASE LoopStep \/ Mute \/ RestartTts
  <2>1. Threads'
    BY <1>5, CancelledKeepsThreads, LoopKeepsThreads DEF LoopStep
  <2> QED BY <1>5, <2>1, OthersKeepTypes DEF IInv
<1>6. CASE UNCHANGED vars
  <2>1. UNCHANGED <<profile, tts, loop, current, threadVars>>
    BY <1>6 DEF vars, objectVars, loopVars, boundVars
  <2>2. TypeOK'
    BY <1>6 DEF IInv, TypeOK, vars, objectVars, loopVars, threadVars, boundVars, Plan, Objects
  <2> QED BY <1>2, <2>1, <2>2 DEF IInv
<1> QED BY <1>1, <1>3, <1>4, <1>5, <1>6 DEF Next

LEMMA Invariance == Spec => []IInv
BY InitHolds, StepKeepsInvariant, PTL DEF Spec

\* Every variable has its type.
THEOREM SpeechTypes == Spec => []TypeOK
<1>1. IInv => TypeOK BY DEF IInv
<1> QED BY <1>1, Invariance, PTL

\* Of the programs that play and were not told to end, all but one have slipped
\* through: who plays without that is the message the loop waits for.
THEOREM OneVoiceAtATime == Spec => []OneVoice
<1>1. ASSUME IInv, NEW m \in Messages,
             Sounds(m), at[m] \notin {"told", "speaking"}, m \notin slipped
      PROVE  m = current
  <2>1. at[m] \in {"spawned", "running"} /\ StepOf(m) = "play" /\ Begun(m)
    BY <1>1 DEF Sounds, Begun
  <2>2. step[m] \in Nat /\ Len(Plan) \in Nat
    BY <1>1, PlansAreWellFormed DEF IInv, TypeOK, WellFormed
  <2>3. step[m] \in step[m] .. Len(Plan) /\ Plan[step[m]] = "play"
    BY <2>1, <2>2 DEF StepOf
  <2>4. ~ Harmless(m)
    BY <2>1, <2>2, <2>3 DEF Harmless
  <2> QED BY <1>1, <2>1, <2>4 DEF IInv, Threads, Covered, InCharge
<1>2. IInv => OneVoice
  BY <1>1 DEF OneVoice
<1> QED BY <1>2, Invariance, PTL

\* Only a message that is let through changes the file, and what it writes
\* follows what was there, whatever the clock shows.
THEOREM NoDayTwice == Spec => NoDayIsBookedAnew
<1>1. ASSUME IInv, [Next]_vars, file' # file
      PROVE  /\ file'.spent <= Budget
             /\ \/ file'.day > file.day
                \/ file'.day = file.day /\ file'.spent > file.spent
  <2>1. ASSUME NEW m \in Messages, ThreadStep(m) \/ SpeakEnds(m) \/ ProcessEnds(m)
        PROVE  FALSE
    BY <1>1, <2>1, ThreadsMove DEF ThreadUnchanged
  <2>2. TakeSpoken
    BY <1>1, <2>1 DEF Next, vars, Ask, Mute, Unmute, RestartTts, LoopStep, TakeRefused,
                      DelayEnds, OperationTimesOut, Returned, Raised, RaisedTimeout
  <2>3. PICK today \in Days : /\ Booked(Head(queue), today).spent <= Budget
                              /\ file' = Booked(Head(queue), today)
    BY <2>2 DEF TakeSpoken
  <2>4. TypeOK /\ Head(queue) \in Messages
    BY <1>1, <2>2, QueueFacts DEF IInv, TakeSpoken
  <2> QED BY <2>3, <2>4, BookedAdds
<1>2. IInv /\ [Next]_vars =>
        [/\ file'.spent <= Budget
         /\ \/ file'.day > file.day
            \/ file'.day = file.day /\ file'.spent > file.spent]_file
  BY <1>1
<1> QED BY <1>2, Invariance, PTL DEF Spec, NoDayIsBookedAnew

-----------------------------------------------------------------------------
(* Adapter. What comes to rest, and what is ahead of a thread or a stop.   *)

\* o comes to rest in steps.
Silences(steps, o) == \E i \in DOMAIN steps : Ends(steps, i, o)

Stopping ==
  /\ \A i \in DOMAIN stopTodo : ~ stopTodo[i].on
  /\ latched <=> stop # "none"
  /\ latched => \A w \in Workers : ~ active[w]
  /\ stop \in {"running", "confirmed"} /\ ~ late /\ ~ hidden =>
       \A o \in out \cap Device.drives : Silences(stopTodo, o)

StopInv == AdapterTypeOK /\ Stopping

Pulses ==
  ~ Device.relays =>
    /\ \A w \in Workers : ComesToRest(todo[w], Device.drives)
    /\ ~ unclean /\ ~ hidden =>
         \A o \in out \cap Device.drives : \E w \in Workers : Silences(todo[w], o)

Deadlines ==
  /\ \A w \in Workers : active[w] /\ DrivesIn(todo[w], Device.drives) => deadline
  /\ DrivenIsBounded

-----------------------------------------------------------------------------
(* Sequences of steps.                                                     *)

LEMMA TailFacts ==
  ASSUME NEW S, NEW s \in Seq(S), s # <<>>
  PROVE  /\ Head(s) \in S /\ Head(s) = s[1] /\ 1 \in DOMAIN s
         /\ Tail(s) \in Seq(S)
         /\ DOMAIN s = 1 .. Len(s) /\ Len(s) \in Nat
         /\ DOMAIN Tail(s) = 1 .. Len(s) - 1
         /\ \A i \in DOMAIN Tail(s) : Tail(s)[i] = s[i + 1] /\ i + 1 \in DOMAIN s
OBVIOUS

\* What o waits for is the head of s, or is still ahead behind it.
LEMMA SilenceAhead ==
  ASSUME NEW S, NEW s \in Seq(S), s # <<>>, NEW o, Silences(s, o)
  PROVE  (o \in Head(s).write /\ ~ Head(s).on) \/ Silences(Tail(s), o)
<1>1. PICK i \in DOMAIN s : Ends(s, i, o)
  BY DEF Silences
<1>2. CASE i = 1
  BY <1>1, <1>2, TailFacts DEF Ends
<1>3. CASE i # 1
  <2>1. i - 1 \in DOMAIN Tail(s) /\ Tail(s)[i - 1] = s[i]
    BY <1>3, TailFacts
  <2>2. Ends(Tail(s), i - 1, o)
    BY <1>1, <2>1 DEF Ends
  <2> QED BY <2>1, <2>2 DEF Silences
<1> QED BY <1>2, <1>3

LEMMA TailComesToRest ==
  ASSUME NEW S, NEW s \in Seq(S), s # <<>>, NEW outputs, ComesToRest(s, outputs)
  PROVE  /\ ComesToRest(Tail(s), outputs)
         /\ \A o \in outputs : o \in Head(s).write /\ Head(s).on => Silences(Tail(s), o)
<1>1. ASSUME NEW i \in DOMAIN s, NEW o \in outputs, Starts(s, i, o)
      PROVE  \E j \in DOMAIN Tail(s) : j > i - 1 /\ Ends(Tail(s), j, o)
  <2>1. PICK j \in DOMAIN s : j > i /\ Ends(s, j, o)
    BY <1>1 DEF ComesToRest
  <2>2. j - 1 \in DOMAIN Tail(s) /\ Tail(s)[j - 1] = s[j] /\ j - 1 > i - 1
    BY <2>1, TailFacts
  <2> QED BY <2>1, <2>2 DEF Ends
<1>2. ComesToRest(Tail(s), outputs)
  <2> SUFFICES ASSUME NEW i \in DOMAIN Tail(s), NEW o \in outputs, Starts(Tail(s), i, o)
               PROVE  \E j \in DOMAIN Tail(s) : j > i /\ Ends(Tail(s), j, o)
    BY DEF ComesToRest
  <2>1. i + 1 \in DOMAIN s /\ Starts(s, i + 1, o) /\ i + 1 - 1 = i
    BY TailFacts DEF Starts
  <2> QED BY <1>1, <2>1
<1>3. ASSUME NEW o \in outputs, o \in Head(s).write, Head(s).on
      PROVE  Silences(Tail(s), o)
  <2>1. 1 \in DOMAIN s /\ Starts(s, 1, o)
    BY <1>3, TailFacts DEF Starts
  <2> QED BY <1>1, <2>1 DEF Silences
<1> QED BY <1>2, <1>3

LEMMA TailDrives ==
  ASSUME NEW S, NEW s \in Seq(S), s # <<>>, NEW outputs
  PROVE  /\ DrivesIn(Tail(s), outputs) => DrivesIn(s, outputs)
         /\ \A o \in outputs : o \in Head(s).write /\ Head(s).on => DrivesIn(s, outputs)
<1>1. ASSUME NEW i \in DOMAIN Tail(s), NEW o \in outputs, Starts(Tail(s), i, o)
      PROVE  DrivesIn(s, outputs)
  BY <1>1, TailFacts DEF DrivesIn, Starts
<1>2. ASSUME NEW o \in outputs, o \in Head(s).write, Head(s).on
      PROVE  DrivesIn(s, outputs)
  BY <1>2, TailFacts DEF DrivesIn, Starts
<1> QED BY <1>1, <1>2 DEF DrivesIn

\* The checks around on_command change nothing of what its steps do.
Framed(steps) == <<EnsureActive>> \o steps \o <<EnsureActive>>

LEMMA FrameFacts ==
  ASSUME NEW S, NEW s \in Seq(S), EnsureActive \in S
  PROVE  /\ Framed(s) \in Seq(S)
         /\ DOMAIN s = 1 .. Len(s) /\ Len(s) \in Nat
         /\ DOMAIN Framed(s) = 1 .. Len(s) + 2
         /\ \A i \in DOMAIN s : Framed(s)[i + 1] = s[i] /\ i + 1 \in DOMAIN Framed(s)
         /\ Framed(s)[1] = EnsureActive /\ Framed(s)[Len(s) + 2] = EnsureActive
BY DEF Framed

LEMMA FrameStarts ==
  ASSUME NEW S, NEW s \in Seq(S), EnsureActive \in S,
         NEW i \in DOMAIN Framed(s), NEW o, Starts(Framed(s), i, o)
  PROVE  i - 1 \in DOMAIN s /\ Starts(s, i - 1, o)
<1>1. ~ EnsureActive.on
  BY DEF EnsureActive
<1>2. i # 1 /\ i # Len(s) + 2
  BY <1>1, FrameFacts DEF Starts
<1>3. i - 1 \in DOMAIN s /\ Framed(s)[i - 1 + 1] = s[i - 1] /\ i - 1 + 1 = i
  BY <1>2, FrameFacts
<1> QED BY <1>3 DEF Starts

LEMMA FrameKeeps ==
  ASSUME NEW S, NEW s \in Seq(S), EnsureActive \in S, NEW outputs
  PROVE  /\ ComesToRest(s, outputs) => ComesToRest(Framed(s), outputs)
         /\ DrivesIn(Framed(s), outputs) => DrivesIn(s, outputs)
<1>1. ASSUME ComesToRest(s, outputs),
             NEW i \in DOMAIN Framed(s), NEW o \in outputs, Starts(Framed(s), i, o)
      PROVE  \E j \in DOMAIN Framed(s) : j > i /\ Ends(Framed(s), j, o)
  <2>1. PICK j \in DOMAIN s : j > i - 1 /\ Ends(s, j, o)
    BY <1>1, FrameStarts DEF ComesToRest
  <2>2. j + 1 \in DOMAIN Framed(s) /\ Framed(s)[j + 1] = s[j] /\ j + 1 > i
    BY <2>1, FrameFacts
  <2> QED BY <2>1, <2>2 DEF Ends
<1>2. ASSUME DrivesIn(Framed(s), outputs)
      PROVE  DrivesIn(s, outputs)
  BY <1>2, FrameStarts DEF DrivesIn
<1> QED BY <1>1, <1>2 DEF ComesToRest

-----------------------------------------------------------------------------
(* What a thread of a command does in a step: the device obeys the write,  *)
(* a failure is suppressed, or the command is over.                        *)

Lands(w) ==
  /\ Obey(Head(todo[w]))
  /\ late' = (late \/ (Head(todo[w]).on /\ ~ active[w]))

Skips == UNCHANGED <<out, late>>

WorkerMove(w) ==
  /\ ~ Idle(w)
  /\ UNCHANGED <<driver, active, stopVars>>
  /\ hidden => hidden'
  /\ \/ Advance(w) /\ Lands(w)
     \/ Advance(w) /\ Skips /\ hidden'
     \/ Raise(w) /\ (Lands(w) \/ Skips)

LEMMA HeadsAreSteps ==
  ASSUME AdapterTypeOK
  PROVE  /\ \A w \in Workers : ~ Idle(w) =>
              /\ todo[w] \in Seq(Steps(Device)) /\ todo[w] # <<>>
              /\ Head(todo[w]) \in Steps(Device)
              /\ Tail(todo[w]) \in Seq(Steps(Device))
         /\ stop = "running" =>
              /\ stopTodo \in Seq(Steps(Device)) /\ stopTodo # <<>>
              /\ Head(stopTodo) \in Steps(Device)
              /\ Tail(stopTodo) \in Seq(Steps(Device))
<1>1. \A w \in Workers : todo[w] \in Seq(Steps(Device))
  BY DEF AdapterTypeOK
<1>2. \A w \in Workers : ~ Idle(w) => todo[w] # <<>>
  BY DEF Idle
<1>3. stopTodo \in Seq(Steps(Device)) /\ (stop = "running" => stopTodo # <<>>)
  BY DEF AdapterTypeOK
<1> QED BY <1>1, <1>2, <1>3, TailFacts

LEMMA WorkersMove ==
  ASSUME AdapterTypeOK, NEW w \in Workers, Step(w) \/ StepFails(w)
  PROVE  WorkerMove(w) /\ hidden' \in BOOLEAN /\ faults' \in 0 .. MaxFaults
<1> USE AdapterAssumption DEF AdapterTypeOK
<1>1. ASSUME ~ Idle(w), Head(todo[w]) = EnsureActive, Skips
      PROVE  Lands(w)
  BY <1>1 DEF Lands, Skips, Obey, EnsureActive
<1>2. CASE Step(w)
  <2>1. hidden' = hidden /\ faults' = faults /\ ~ Idle(w) /\ UNCHANGED <<driver, active, stopVars>>
    BY <1>2 DEF Step
  <2>2. CASE Head(todo[w]) = EnsureActive
    <3>1. Skips /\ (Advance(w) \/ Raise(w))
      BY <1>2, <2>2 DEF Step, Skips
    <3> QED BY <1>1, <2>1, <2>2, <3>1 DEF WorkerMove
  <2>3. CASE Head(todo[w]) # EnsureActive
    <3>1. Lands(w) /\ Advance(w)
      BY <1>2, <2>3 DEF Step, Lands
    <3> QED BY <2>1, <3>1 DEF WorkerMove
  <2> QED BY <2>2, <2>3
<1>3. CASE StepFails(w)
  <2>1. faults' = faults + 1 /\ faults < MaxFaults /\ ~ Idle(w) /\ UNCHANGED <<driver, active, stopVars>>
    BY <1>3 DEF StepFails
  <2>2. Lands(w) \/ Skips
    BY <1>3 DEF StepFails, Lands, Skips
  <2>3. Head(todo[w]).quiet \in BOOLEAN
    BY <2>1, HeadsAreSteps DEF Steps
  <2>4. CASE Head(todo[w]).quiet
    <3>1. Advance(w) /\ hidden' = TRUE
      BY <1>3, <2>4 DEF StepFails
    <3> QED BY <2>1, <2>2, <3>1 DEF WorkerMove
  <2>5. CASE ~ Head(todo[w]).quiet
    <3>1. Raise(w) /\ hidden' = hidden
      BY <1>3, <2>3, <2>5 DEF StepFails
    <3> QED BY <2>1, <2>2, <3>1 DEF WorkerMove
  <2> QED BY <2>4, <2>5
<1> QED BY <1>2, <1>3

\* What the stop does in a step.
StopUnchanged == UNCHANGED <<driver, todo, active, latched, deadline, late>>

StopMove ==
  /\ stop = "running" /\ StopUnchanged
  /\ \/ /\ StopGoesOn
        /\ \/ Obey(Head(stopTodo)) /\ UNCHANGED hidden /\ unclean' = (unclean /\ (stop' = "running" \/ late))
           \/ (Obey(Head(stopTodo)) \/ UNCHANGED out) /\ hidden' = TRUE /\ UNCHANGED unclean
     \/ /\ stop' = "failed" /\ stopTodo' = <<>>
        /\ Obey(Head(stopTodo)) \/ UNCHANGED out
        /\ UNCHANGED <<ready, hidden, unclean>>

LEMMA StopMoves ==
  ASSUME AdapterTypeOK, StopStep \/ StopFails
  PROVE  StopMove /\ faults' \in 0 .. MaxFaults
<1>1. CASE StopStep
  BY <1>1 DEF StopStep, StopMove, StopUnchanged, AdapterTypeOK
<1>2. CASE StopFails
  <2>1. Head(stopTodo).quiet \in BOOLEAN
    BY <1>2, HeadsAreSteps DEF StopFails, Steps
  <2> QED BY <1>2, <2>1, AdapterAssumption DEF StopFails, StopMove, StopUnchanged, AdapterTypeOK
<1> QED BY <1>1, <1>2

-----------------------------------------------------------------------------
(* Types.                                                                  *)

LEMMA FramesAreSteps ==
  ASSUME NEW device
  PROVE  EnsureActive \in Steps(device)
BY DEF EnsureActive, Steps

LEMMA ObeyKeepsOutputs ==
  ASSUME NEW device, NEW s \in Steps(device), out \subseteq Outputs(device), Obey(s)
  PROVE  out' \subseteq Outputs(device)
BY DEF Obey, Steps

LEMMA AdapterKeepsTypes ==
  ASSUME \A d \in Drivers : Described(Table[d]),
         AdapterTypeOK, [AdapterNext]_adapterVars
  PROVE  AdapterTypeOK'
<1> USE DEF AdapterTypeOK
<1>1. Described(Device)
  BY DEF Device
<1>2. driver' = driver => Device' = Device
  BY DEF Device
<1>3. CASE Stop
  <2>1. stop' \in {"running", "confirmed"} /\ (stop' = "running" <=> stopTodo' # <<>>)
    BY <1>3 DEF Stop
  <2>2. active' \in [Workers -> BOOLEAN] /\ unclean' \in BOOLEAN
    BY <1>3 DEF Stop
  <2>3. stopTodo' \in Seq(Steps(Device))
    BY <1>1, <1>3 DEF Stop, Described
  <2> QED BY <1>2, <1>3, <2>1, <2>2, <2>3 DEF Stop
<1>4. CASE StopStep \/ StopFails
  <2>1. StopMove /\ faults' \in 0 .. MaxFaults
    BY <1>4, StopMoves
  <2>2. Head(stopTodo) \in Steps(Device) /\ Tail(stopTodo) \in Seq(Steps(Device))
    BY <2>1, HeadsAreSteps DEF StopMove
  <2>3. out' \subseteq Outputs(Device)
    BY <2>1, <2>2, ObeyKeepsOutputs DEF StopMove
  <2>4. /\ stop' \in {"running", "confirmed", "failed"}
        /\ stop' = "running" <=> stopTodo' # <<>>
        /\ stopTodo' \in Seq(Steps(Device))
    <3>1. CASE StopGoesOn
      BY <2>1, <2>2, <3>1 DEF StopMove, StopGoesOn
    <3>2. CASE stop' = "failed" /\ stopTodo' = <<>>
      BY <3>2
    <3> QED BY <2>1, <3>1, <3>2 DEF StopMove
  <2>5. ready' \in BOOLEAN
    BY <2>1 DEF StopMove, StopGoesOn
  <2>6. hidden' \in BOOLEAN /\ unclean' \in BOOLEAN
    BY <2>1 DEF StopMove
  <2> QED BY <1>2, <2>1, <2>3, <2>4, <2>5, <2>6 DEF StopMove, StopUnchanged
<1>5. CASE Reset
  BY <1>2, <1>5 DEF Reset, deviceVars
<1>6. ASSUME NEW w \in Workers, NEW c \in DOMAIN Device.run, Execute(w, c)
      PROVE  AdapterTypeOK'
  <2>1. Framed(Device.run[c]) \in Seq(Steps(Device)) /\ <<>> \in Seq(Steps(Device))
    BY <1>1, FramesAreSteps, FrameFacts DEF Described
  <2>2. todo' \in [Workers -> Seq(Steps(Device))]
    BY <1>6, <2>1 DEF Execute, Framed
  <2> QED BY <1>2, <1>6, <2>2 DEF Execute, deviceVars
<1>7. ASSUME NEW w \in Workers, Step(w) \/ StepFails(w)
      PROVE  AdapterTypeOK'
  <2>1. WorkerMove(w) /\ hidden' \in BOOLEAN /\ faults' \in 0 .. MaxFaults
    BY <1>7, WorkersMove
  <2>2. Head(todo[w]) \in Steps(Device) /\ Tail(todo[w]) \in Seq(Steps(Device))
    BY <2>1, HeadsAreSteps DEF WorkerMove
  <2>3. out' \subseteq Outputs(Device)
    BY <2>1, <2>2, ObeyKeepsOutputs DEF WorkerMove, Lands, Skips
  <2>4. late' \in BOOLEAN
    BY <2>1, <2>2 DEF WorkerMove, Lands, Skips, Steps
  <2>5. <<>> \in Seq(Steps(Device))
    OBVIOUS
  <2>6. todo' \in [Workers -> Seq(Steps(Device))]
    BY <2>1, <2>2, <2>5 DEF WorkerMove, Advance, Raise
  <2>7. unclean' \in BOOLEAN
    BY <2>1 DEF WorkerMove, Advance, Raise
  <2> QED BY <1>2, <2>1, <2>3, <2>4, <2>6, <2>7 DEF WorkerMove, stopVars
<1>8. CASE UNCHANGED adapterVars
  BY <1>2, <1>8 DEF adapterVars, deviceVars, stopVars
<1> QED BY <1>3, <1>4, <1>5, <1>6, <1>7, <1>8 DEF AdapterNext

-----------------------------------------------------------------------------
(* What a step does to the outputs.                                        *)

LEMMA WorkerOutputs ==
  ASSUME AdapterTypeOK, NEW w \in Workers, WorkerMove(w)
  PROVE  /\ Device' = Device
         /\ late => late'
         /\ \A o \in out' \ out : /\ o \in Head(todo[w]).write /\ Head(todo[w]).on
                                  /\ active[w] \/ late'
         /\ Advance(w) \/ Raise(w)
         /\ ~ hidden' /\ ~ unclean' =>
              Advance(w) /\ \A o \in out' : o \in Head(todo[w]).write => Head(todo[w]).on
<1>1. Device' = Device
  BY DEF WorkerMove, Device
<1>2. Head(todo[w]).on \in BOOLEAN /\ active[w] \in BOOLEAN /\ late \in BOOLEAN
  BY HeadsAreSteps DEF WorkerMove, Steps, AdapterTypeOK
<1>3. CASE Lands(w)
  BY <1>1, <1>2, <1>3 DEF WorkerMove, Lands, Obey, Raise
<1>4. CASE Skips
  <2>1. ~ hidden' /\ ~ unclean' => Advance(w) /\ Lands(w)
    BY <1>4 DEF WorkerMove, Raise
  <2> QED BY <1>1, <1>2, <1>3, <1>4, <2>1 DEF WorkerMove, Skips
<1> QED BY <1>3, <1>4 DEF WorkerMove

LEMMA StopOutputs ==
  ASSUME StopInv, StopMove
  PROVE  /\ Device' = Device
         /\ out' \subseteq out
         /\ StopGoesOn /\ ~ hidden' => \A o \in out' : o \notin Head(stopTodo).write
<1>1. Head(stopTodo) \in Steps(Device) /\ Head(stopTodo) = stopTodo[1] /\ 1 \in DOMAIN stopTodo
  BY HeadsAreSteps, TailFacts DEF StopInv, StopMove
<1>2. ~ Head(stopTodo).on
  BY <1>1 DEF StopInv, Stopping
<1>3. Device' = Device
  BY DEF StopMove, StopUnchanged, Device
<1>4. stop' = "failed" => ~ StopGoesOn
  BY DEF StopMove, StopGoesOn
<1> QED BY <1>2, <1>3, <1>4 DEF StopMove, Obey

-----------------------------------------------------------------------------
(* A stop that goes on, or is confirmed, has every output it has to end    *)
(* before it or behind it.                                                 *)

LEMMA AdapterKeepsStopping ==
  ASSUME \A d \in Drivers : Described(Table[d]) /\ StopsWhatItDrives(Table[d]),
         StopInv, [AdapterNext]_adapterVars
  PROVE  Stopping'
<1> USE DEF StopInv
<1>1. driver \in Drivers /\ Described(Device) /\ StopsWhatItDrives(Device)
  BY DEF Device, AdapterTypeOK
<1>2. CASE Stop
  <2>1. Device' = Device /\ out' = out
    BY <1>2 DEF Stop, Device
  <2>2. \A i \in DOMAIN stopTodo' : ~ stopTodo'[i].on
    BY <1>1, <1>2 DEF Stop, Described
  <2>3. \A o \in Device.drives : Silences(stopTodo', o)
    BY <1>1, <1>2 DEF Stop, StopsWhatItDrives, Silences
  <2>4. latched' /\ stop' # "none" /\ \A w \in Workers : ~ active'[w]
    BY <1>2 DEF Stop
  <2> QED BY <2>1, <2>2, <2>3, <2>4 DEF Stopping
<1>3. CASE StopStep \/ StopFails
  <2>1. StopMove
    BY <1>3, StopMoves
  <2>2. stop' # "none" /\ stop # "none" /\ UNCHANGED <<latched, active, late>>
    BY <2>1 DEF StopMove, StopUnchanged, StopGoesOn
  <2>3. CASE StopGoesOn
    <3>1. stopTodo' = Tail(stopTodo) /\ stopTodo \in Seq(Steps(Device)) /\ stopTodo # <<>>
      BY <2>1, <2>3, HeadsAreSteps DEF StopMove, StopGoesOn
    <3>2. \A i \in DOMAIN stopTodo' : ~ stopTodo'[i].on
      BY <3>1, TailFacts DEF Stopping
    <3>3. ASSUME ~ late', ~ hidden', NEW o \in out' \cap Device.drives
          PROVE  Silences(stopTodo', o)
      <4>1. ~ hidden
        BY <2>1, <2>3, <3>3 DEF StopMove, StopGoesOn
      <4>2. o \in out \cap Device.drives /\ o \notin Head(stopTodo).write
        BY <2>1, <2>3, <3>3, StopOutputs
      <4>3. Silences(stopTodo, o)
        BY <2>1, <2>2, <3>3, <4>1, <4>2 DEF Stopping, StopMove
      <4> QED BY <3>1, <4>2, <4>3, SilenceAhead
    <3> QED BY <2>1, <2>2, <3>2, <3>3, StopOutputs DEF Stopping
  <2>4. CASE stop' = "failed" /\ stopTodo' = <<>>
    BY <2>2, <2>4 DEF Stopping
  <2> QED BY <2>1, <2>3, <2>4 DEF StopMove
<1>4. CASE Reset
  BY <1>4 DEF Reset, Stopping
<1>5. ASSUME NEW w \in Workers, NEW c \in DOMAIN Device.run, Execute(w, c)
      PROVE  Stopping'
  <2>1. ~ latched /\ stop = "none" /\ latched' = latched /\ stop' = stop /\ stopTodo' = stopTodo
    BY <1>5 DEF Execute, Stopping
  <2> QED BY <2>1 DEF Stopping
<1>6. ASSUME NEW w \in Workers, Step(w) \/ StepFails(w)
      PROVE  Stopping'
  <2>1. WorkerMove(w)
    BY <1>6, WorkersMove
  <2>2. UNCHANGED <<active, latched, stop, stopTodo>> /\ (hidden => hidden')
    BY <2>1 DEF WorkerMove, stopVars
  <2>3. ASSUME stop \in {"running", "confirmed"}, ~ late', ~ hidden', NEW o \in out' \cap Device.drives
        PROVE  Silences(stopTodo, o)
    <3>1. latched /\ ~ active[w] /\ ~ late /\ ~ hidden
      BY <2>1, <2>2, <2>3, WorkerOutputs DEF Stopping
    <3>2. o \in out
      BY <2>1, <2>3, <3>1, WorkerOutputs
    <3> QED BY <2>3, <3>1, <3>2 DEF Stopping
  <2> QED BY <2>1, <2>2, <2>3, WorkerOutputs DEF Stopping
<1>7. CASE UNCHANGED adapterVars
  BY <1>7 DEF adapterVars, deviceVars, stopVars, Stopping, Device
<1> QED BY <1>2, <1>3, <1>4, <1>5, <1>6, <1>7 DEF AdapterNext

LEMMA AdapterStartsTyped ==
  ASSUME \A d \in Drivers : Described(Table[d]), AdapterInit
  PROVE  AdapterTypeOK
<1>1. <<>> \in Seq(Steps(Device))
  OBVIOUS
<1>2. todo \in [Workers -> Seq(Steps(Device))] /\ stopTodo \in Seq(Steps(Device)) /\ stopTodo = <<>>
  BY <1>1 DEF AdapterInit
<1>3. active \in [Workers -> BOOLEAN]
  BY DEF AdapterInit
<1>4. faults \in 0 .. MaxFaults
  BY AdapterAssumption DEF AdapterInit
<1>5. stop = "running" <=> stopTodo # <<>>
  BY <1>2 DEF AdapterInit
<1>6. driver \in Drivers /\ out \subseteq Outputs(Device)
  BY DEF AdapterInit
<1> QED BY <1>2, <1>3, <1>4, <1>5, <1>6 DEF AdapterInit, AdapterTypeOK

\* Whatever a command, a stop and the device do, the adapter has only steps of
\* its own ahead and only outputs of its own on, and a stop runs exactly while
\* it has writes left (base.py, apply_emergency_stop).
THEOREM AdapterIsTyped ==
  ASSUME \A d \in Drivers : Described(Table[d])
  PROVE  AdapterSpec => []AdapterTypeOK
<1>1. AdapterInit => AdapterTypeOK
  BY AdapterStartsTyped
<1>2. AdapterTypeOK /\ [AdapterNext]_adapterVars => AdapterTypeOK'
  BY AdapterKeepsTypes
<1> QED BY <1>1, <1>2, PTL DEF AdapterSpec

LEMMA StopInvariance ==
  ASSUME \A d \in Drivers : Described(Table[d]) /\ StopsWhatItDrives(Table[d])
  PROVE  AdapterSpec => []StopInv
<1>1. AdapterInit => StopInv
  <2> SUFFICES ASSUME AdapterInit PROVE StopInv
    OBVIOUS
  <2>1. AdapterTypeOK
    BY AdapterStartsTyped
  <2>2. DOMAIN stopTodo = {}
    BY DEF AdapterInit
  <2>3. Stopping
    BY <2>2 DEF AdapterInit, Stopping
  <2> QED BY <2>1, <2>3 DEF StopInv
<1>2. StopInv /\ [AdapterNext]_adapterVars => StopInv'
  BY AdapterKeepsTypes, AdapterKeepsStopping DEF StopInv
<1> QED BY <1>1, <1>2, PTL DEF AdapterSpec

LEMMA NeutralWhenConfirmed == StopInv => ConfirmedStopIsNeutral
<1> SUFFICES ASSUME StopInv, stop = "confirmed", ~ late, ~ hidden
             PROVE  ~ Driven
  BY DEF ConfirmedStopIsNeutral
<1>1. stopTodo = <<>>
  BY DEF StopInv, AdapterTypeOK
<1>2. \A o : ~ Silences(stopTodo, o)
  BY <1>1 DEF Silences
<1> QED BY <1>2 DEF StopInv, Stopping, Driven

\* The confirmation of a stop can be believed, for any adapter whose
\* emergency_stop writes each output that stays on by itself, and for any number
\* of threads: no output is driven unless a write that a command had begun landed
\* after the stop, or a failure was suppressed (base.py, apply_emergency_stop).
THEOREM ConfirmedStopIsEmpty ==
  ASSUME \A d \in Drivers : Described(Table[d]) /\ StopsWhatItDrives(Table[d])
  PROVE  AdapterSpec => []ConfirmedStopIsNeutral
BY NeutralWhenConfirmed, StopInvariance, PTL

\* While the latch is set no command turns an output on, except by a write it had
\* begun when the stop came: the permit is checked before each (base.py,
\* ensure_active).
THEOREM NothingStartsUnderTheLatch ==
  ASSUME \A d \in Drivers : Described(Table[d]) /\ StopsWhatItDrives(Table[d])
  PROVE  AdapterSpec => [][latched => out' \subseteq out \/ late']_adapterVars
<1>1. StopInv /\ [AdapterNext]_adapterVars => [latched => out' \subseteq out \/ late']_adapterVars
  <2> SUFFICES ASSUME StopInv, AdapterNext, latched, NEW o \in out' \ out
               PROVE  late'
    OBVIOUS
  <2>1. CASE StopStep \/ StopFails
    BY <2>1, StopMoves, StopOutputs DEF StopInv
  <2>2. CASE Stop \/ Reset \/ \E w \in Workers : \E c \in DOMAIN Device.run : Execute(w, c)
    BY <2>2 DEF Stop, Reset, Execute, deviceVars
  <2>3. ASSUME NEW w \in Workers, Step(w) \/ StepFails(w)
        PROVE  late'
    BY <2>3, WorkersMove, WorkerOutputs DEF StopInv, Stopping
  <2> QED BY <2>1, <2>2, <2>3 DEF AdapterNext
<1> QED BY <1>1, StopInvariance, PTL DEF AdapterSpec

-----------------------------------------------------------------------------
(* An output that a command drives is ended by a step that is still ahead. *)

PulseInv == StopInv /\ Pulses

LEMMA AdapterKeepsPulses ==
  ASSUME \A d \in Drivers : Described(Table[d]) /\ EndsItsPulses(Table[d]),
         PulseInv, StopInv', [AdapterNext]_adapterVars
  PROVE  Pulses'
<1> USE DEF PulseInv
<1>1. AdapterTypeOK /\ driver \in Drivers /\ Described(Device) /\ EndsItsPulses(Device)
  BY DEF StopInv, AdapterTypeOK, Device
<1>2. driver' = driver
  BY DEF AdapterNext, Stop, StopStep, StopFails, Reset, Execute, Step, StepFails, adapterVars
<1>3. Device' = Device
  BY <1>2 DEF Device
<1> SUFFICES ASSUME ~ Device.relays
             PROVE  /\ \A w \in Workers : ComesToRest(todo'[w], Device.drives)
                    /\ ~ unclean' /\ ~ hidden' =>
                         \A o \in out' \cap Device.drives :
                           \E w \in Workers : Silences(todo'[w], o)
  BY <1>3 DEF Pulses
<1>4. \A w \in Workers : ComesToRest(todo[w], Device.drives)
  BY DEF Pulses
<1>5. \A o \in out \cap Device.drives :
        ~ unclean /\ ~ hidden => \E w \in Workers : Silences(todo[w], o)
  BY DEF Pulses
<1>6. CASE UNCHANGED <<out, todo>> /\ (unclean \/ hidden => unclean' \/ hidden')
  BY <1>4, <1>5, <1>6
<1>7. CASE Stop
  BY <1>6, <1>7 DEF Stop
<1>8. CASE StopStep \/ StopFails
  <2>1. StopMove
    BY <1>1, <1>8, StopMoves
  <2>2. todo' = todo /\ late' = late
    BY <2>1 DEF StopMove, StopUnchanged
  <2>3. CASE unclean' = unclean /\ (hidden => hidden')
    <3>1. out' \subseteq out
      BY <2>1, StopOutputs
    <3> QED BY <1>4, <1>5, <2>2, <2>3, <3>1
  <2>4. CASE hidden' = hidden /\ stop' = "confirmed" /\ ~ late
    <3>1. stopTodo' = <<>> /\ latched'
      BY <2>4 DEF StopInv, AdapterTypeOK, Stopping
    <3>2. ~ hidden' => \A o \in out' \cap Device.drives : Silences(stopTodo', o)
      BY <1>3, <2>2, <2>4 DEF StopInv, Stopping
    <3>3. ~ hidden' => out' \cap Device.drives = {}
      BY <3>1, <3>2 DEF Silences
    <3> QED BY <1>4, <2>2, <3>3
  <2>5. stop' \in {"running", "confirmed"} \/ unclean' = unclean
    BY <2>1 DEF StopMove, StopGoesOn
  <2> QED BY <2>1, <2>3, <2>4, <2>5 DEF StopMove, StopInv, AdapterTypeOK
<1>9. CASE Reset
  BY <1>6, <1>9 DEF Reset, deviceVars
<1>10. ASSUME NEW v \in Workers, NEW c \in DOMAIN Device.run, Execute(v, c)
       PROVE  /\ \A w \in Workers : ComesToRest(todo'[w], Device.drives)
              /\ ~ unclean' /\ ~ hidden' =>
                   \A o \in out' \cap Device.drives : \E w \in Workers : Silences(todo'[w], o)
  <2>1. /\ \A w \in Workers \ {v} : todo'[w] = todo[w]
        /\ todo'[v] \in {<<>>, Framed(Device.run[c])}
        /\ todo[v] = <<>> /\ UNCHANGED <<out, unclean, hidden>>
    BY <1>1, <1>10 DEF Execute, Idle, Framed, AdapterTypeOK, deviceVars
  <2>2. ComesToRest(Framed(Device.run[c]), Device.drives)
    BY <1>1, FramesAreSteps, FrameKeeps DEF Described, EndsItsPulses
  <2>3. ComesToRest(<<>>, Device.drives) /\ \A o : ~ Silences(todo[v], o)
    BY <2>1 DEF ComesToRest, Silences
  <2> QED BY <1>4, <1>5, <2>1, <2>2, <2>3
<1>11. ASSUME NEW v \in Workers, Step(v) \/ StepFails(v)
       PROVE  /\ \A w \in Workers : ComesToRest(todo'[w], Device.drives)
              /\ ~ unclean' /\ ~ hidden' =>
                   \A o \in out' \cap Device.drives : \E w \in Workers : Silences(todo'[w], o)
  <2>1. WorkerMove(v)
    BY <1>1, <1>11, WorkersMove
  <2>2. todo[v] \in Seq(Steps(Device)) /\ todo[v] # <<>>
    BY <1>1, <2>1, HeadsAreSteps DEF WorkerMove
  <2>3. /\ ComesToRest(Tail(todo[v]), Device.drives)
        /\ \A o \in Device.drives :
             o \in Head(todo[v]).write /\ Head(todo[v]).on => Silences(Tail(todo[v]), o)
    BY <1>4, <2>2, TailComesToRest
  <2>4. ComesToRest(<<>>, Device.drives)
    BY DEF ComesToRest
  <2>5. \A w \in Workers \ {v} : todo'[w] = todo[w]
    BY <1>1, <2>1 DEF WorkerMove, Advance, Raise, AdapterTypeOK
  <2>6. todo'[v] \in {<<>>, Tail(todo[v])} /\ (Advance(v) => todo'[v] = Tail(todo[v]))
    BY <1>1, <2>1 DEF WorkerMove, Advance, Raise, AdapterTypeOK
  <2>7. ASSUME ~ unclean', ~ hidden', NEW o \in out' \cap Device.drives
        PROVE  \E w \in Workers : Silences(todo'[w], o)
    <3>1. /\ Advance(v) /\ (o \in Head(todo[v]).write => Head(todo[v]).on)
          /\ o \notin out => o \in Head(todo[v]).write /\ Head(todo[v]).on
      BY <1>1, <2>1, <2>7, WorkerOutputs
    <3>2. ~ unclean /\ ~ hidden
      BY <2>1, <2>7, <3>1 DEF WorkerMove, Advance
    <3>3. CASE o \notin out
      BY <2>3, <2>6, <3>1, <3>3
    <3>4. CASE o \in out
      <4>1. PICK w \in Workers : Silences(todo[w], o)
        BY <1>5, <2>7, <3>2, <3>4
      <4>2. CASE w # v
        BY <2>5, <4>1, <4>2
      <4>3. CASE w = v
        BY <2>2, <2>6, <3>1, <4>1, <4>3, SilenceAhead
      <4> QED BY <4>2, <4>3
    <3> QED BY <3>3, <3>4
  <2> QED BY <1>4, <2>3, <2>4, <2>5, <2>6, <2>7
<1>12. CASE UNCHANGED adapterVars
  BY <1>6, <1>12 DEF adapterVars, deviceVars
<1> QED BY <1>7, <1>8, <1>9, <1>10, <1>11, <1>12 DEF AdapterNext

\* Every command ends what it drives, whatever the stops between its steps: once
\* no command has a step left, and none raised since the last confirmed stop,
\* nothing is driven (hardware/*.py, on_command).
THEOREM PulsesEnd ==
  ASSUME \A d \in Drivers :
           Described(Table[d]) /\ StopsWhatItDrives(Table[d]) /\ EndsItsPulses(Table[d])
  PROVE  AdapterSpec => []PulsesEndAtRest
<1>1. AdapterInit => Pulses
  <2> SUFFICES ASSUME AdapterInit, NEW w \in Workers PROVE ComesToRest(todo[w], Device.drives)
    BY DEF AdapterInit, Pulses
  <2> QED BY DEF AdapterInit, ComesToRest
<1>2. PulseInv /\ StopInv' /\ [AdapterNext]_adapterVars => PulseInv'
  BY AdapterKeepsPulses DEF PulseInv
<1>3. PulseInv => PulsesEndAtRest
  <2> SUFFICES ASSUME PulseInv, AllIdle, ~ unclean, ~ hidden, ~ Device.relays,
                      NEW o \in out \cap Device.drives
               PROVE  FALSE
    BY DEF PulsesEndAtRest, Driven
  <2>1. PICK w \in Workers : Silences(todo[w], o)
    BY DEF PulseInv, Pulses
  <2>2. todo[w] = <<>>
    BY DEF AllIdle, Idle
  <2> QED BY <2>1, <2>2 DEF Silences
<1>4. AdapterSpec => []StopInv
  BY StopInvariance
<1>5. AdapterInit /\ StopInv => PulseInv
  BY <1>1 DEF PulseInv
<1> QED BY <1>2, <1>3, <1>4, <1>5, PTL DEF AdapterSpec

-----------------------------------------------------------------------------
(* A command that still holds a permit and has an output to drive has armed *)
(* the deadline.                                                           *)

DeadlineInv == StopInv /\ Deadlines

LEMMA AdapterKeepsDeadlines ==
  ASSUME \A d \in Drivers : Described(Table[d]) /\ DeclaresMotion(Table[d]),
         StopInv => ConfirmedStopIsNeutral,
         DeadlineInv, StopInv', [AdapterNext]_adapterVars
  PROVE  Deadlines'
<1> USE DEF DeadlineInv
<1>1. AdapterTypeOK /\ driver \in Drivers /\ Described(Device) /\ DeclaresMotion(Device)
  BY DEF StopInv, AdapterTypeOK, Device
<1>2. driver' = driver
  BY DEF AdapterNext, Stop, StopStep, StopFails, Reset, Execute, Step, StepFails, adapterVars
<1>3. Device' = Device
  BY <1>2 DEF Device
<1>4. /\ \A w \in Workers : active[w] /\ DrivesIn(todo[w], Device.drives) => deadline
      /\ out \cap Device.drives # {} => deadline \/ latched \/ late \/ hidden
  BY DEF Deadlines, DrivenIsBounded, Driven
<1> SUFFICES /\ \A w \in Workers : active'[w] /\ DrivesIn(todo'[w], Device.drives) => deadline'
             /\ out' \cap Device.drives # {} => deadline' \/ latched' \/ late' \/ hidden'
  BY <1>3 DEF Deadlines, DrivenIsBounded, Driven
<1>5. CASE Stop
  BY <1>5 DEF Stop
<1>6. CASE StopStep \/ StopFails
  <2>1. StopMove
    BY <1>1, <1>6, StopMoves
  <2>2. latched' /\ UNCHANGED <<active, todo, deadline>>
    BY <2>1 DEF StopMove, StopUnchanged, StopInv, Stopping
  <2> QED BY <1>4, <2>2
<1>7. CASE Reset
  <2>1. UNCHANGED <<active, todo, deadline, out, late, hidden>> /\ latched /\ stop = "confirmed"
    BY <1>7 DEF Reset, deviceVars
  <2>2. out \cap Device.drives # {} => late \/ hidden
    BY <2>1 DEF ConfirmedStopIsNeutral, Driven
  <2> QED BY <1>4, <2>1, <2>2
<1>8. ASSUME NEW v \in Workers, NEW c \in DOMAIN Device.run, Execute(v, c)
      PROVE  /\ \A w \in Workers : active'[w] /\ DrivesIn(todo'[w], Device.drives) => deadline'
             /\ out' \cap Device.drives # {} => deadline' \/ latched' \/ late' \/ hidden'
  <2>1. /\ \A w \in Workers \ {v} : todo'[w] = todo[w] /\ active'[w] = active[w]
        /\ todo'[v] \in {<<>>, Framed(Device.run[c])}
        /\ UNCHANGED <<out, latched, late, hidden>>
        /\ deadline' = (deadline \/ c \in Device.motion)
    BY <1>1, <1>8 DEF Execute, Framed, AdapterTypeOK, deviceVars
  <2>2. DrivesIn(Framed(Device.run[c]), Device.drives) => c \in Device.motion
    BY <1>1, FramesAreSteps, FrameKeeps DEF Described, DeclaresMotion
  <2>3. ~ DrivesIn(<<>>, Device.drives)
    BY DEF DrivesIn
  <2> QED BY <1>4, <2>1, <2>2, <2>3
<1>9. ASSUME NEW v \in Workers, Step(v) \/ StepFails(v)
      PROVE  /\ \A w \in Workers : active'[w] /\ DrivesIn(todo'[w], Device.drives) => deadline'
             /\ out' \cap Device.drives # {} => deadline' \/ latched' \/ late' \/ hidden'
  <2>1. WorkerMove(v)
    BY <1>1, <1>9, WorkersMove
  <2>2. todo[v] \in Seq(Steps(Device)) /\ todo[v] # <<>>
    BY <1>1, <2>1, HeadsAreSteps DEF WorkerMove
  <2>3. UNCHANGED <<active, latched, deadline>> /\ (hidden => hidden')
    BY <2>1 DEF WorkerMove, stopVars
  <2>4. /\ \A w \in Workers \ {v} : todo'[w] = todo[w]
        /\ todo'[v] \in {<<>>, Tail(todo[v])}
    BY <1>1, <2>1 DEF WorkerMove, Advance, Raise, AdapterTypeOK
  <2>5. /\ DrivesIn(Tail(todo[v]), Device.drives) => DrivesIn(todo[v], Device.drives)
        /\ \A o \in Device.drives :
             o \in Head(todo[v]).write /\ Head(todo[v]).on => DrivesIn(todo[v], Device.drives)
    BY <2>2, TailDrives
  <2>6. ~ DrivesIn(<<>>, Device.drives)
    BY DEF DrivesIn
  <2>7. ASSUME NEW o \in out' \cap Device.drives
        PROVE  deadline \/ latched \/ late' \/ hidden'
    <3>1. CASE o \in out
      BY <1>1, <1>4, <2>1, <2>3, <3>1, WorkerOutputs
    <3>2. CASE o \notin out
      BY <1>1, <1>4, <2>1, <2>5, <3>2, WorkerOutputs
    <3> QED BY <3>1, <3>2
  <2> QED BY <1>4, <2>3, <2>4, <2>5, <2>6, <2>7
<1>10. CASE UNCHANGED adapterVars
  BY <1>4, <1>10 DEF adapterVars, deviceVars, stopVars
<1> QED BY <1>5, <1>6, <1>7, <1>8, <1>9, <1>10 DEF AdapterNext

\* Nothing is driven without an end in sight: whatever a command turned on is
\* bounded by the control deadline or by a stop, because every command that
\* drives is listed as motion (client_commands.py; base.py, motion_commands).
THEOREM DrivenHasAnEnd ==
  ASSUME \A d \in Drivers :
           Described(Table[d]) /\ StopsWhatItDrives(Table[d]) /\ DeclaresMotion(Table[d])
  PROVE  AdapterSpec => []DrivenIsBounded
<1>1. AdapterInit => Deadlines
  BY DEF AdapterInit, Deadlines, DrivenIsBounded, Driven
<1>2. DeadlineInv /\ StopInv' /\ [AdapterNext]_adapterVars => DeadlineInv'
  BY AdapterKeepsDeadlines, NeutralWhenConfirmed DEF DeadlineInv
<1>3. DeadlineInv => DrivenIsBounded
  BY DEF DeadlineInv, Deadlines
<1>4. AdapterSpec => []StopInv
  BY StopInvariance
<1>5. AdapterInit /\ StopInv => DeadlineInv
  BY <1>1 DEF DeadlineInv
<1> QED BY <1>2, <1>3, <1>4, <1>5, PTL DEF AdapterSpec
=============================================================================
