---------------------------- MODULE OutboxProofs ----------------------------
(***************************************************************************)
(* Proofs about Outbox, for any set of subjects, any terminal states and   *)
(* any limit that _trim does not reach (NoTrim). The inductive invariant   *)
(* says what memory, the file and everything under way agree on.           *)
(***************************************************************************)
EXTENDS Outbox, FiniteSetTheorems, SequenceTheorems, TLAPS

\* There are not more subjects than the ledger may hold.
NoTrim == Cardinality(Subjects) <= MaxEntries

-----------------------------------------------------------------------------
(* Sequences.                                                              *)

\* Append adds one element at the end.
LEMMA AppendFacts ==
  ASSUME NEW T, NEW s \in Seq(T), NEW e \in T
  PROVE  /\ Append(s, e) \in Seq(T)
         /\ Len(Append(s, e)) = Len(s) + 1
         /\ Range(Append(s, e)) = Range(s) \cup {e}
<1>1. /\ Append(s, e) \in Seq(T)
      /\ Len(Append(s, e)) = Len(s) + 1
      /\ DOMAIN Append(s, e) = 1 .. Len(s) + 1
      /\ DOMAIN s = 1 .. Len(s)
      /\ \A i \in 1 .. Len(s) : Append(s, e)[i] = s[i]
      /\ Append(s, e)[Len(s) + 1] = e
  OBVIOUS
<1>2. Range(Append(s, e)) = Range(s) \cup {e}
  <2>1. Len(s) \in Nat
    OBVIOUS
  <2> QED  BY <1>1, <2>1 DEF Range
<1> QED  BY <1>1, <1>2

\* A nonempty sequence is its head and its tail.
LEMMA TailFacts ==
  ASSUME NEW T, NEW s \in Seq(T), s # <<>>
  PROVE  /\ Tail(s) \in Seq(T)
         /\ Head(s) \in T
         /\ Head(s) \in Range(s)
         /\ Range(Tail(s)) \subseteq Range(s)
<1>1. /\ Tail(s) \in Seq(T)
      /\ Head(s) \in T
      /\ Len(s) \in Nat \ {0}
      /\ Head(s) = s[1]
      /\ DOMAIN s = 1 .. Len(s)
      /\ DOMAIN Tail(s) = 1 .. Len(s) - 1
      /\ \A i \in 1 .. Len(s) - 1 : Tail(s)[i] = s[i + 1]
  OBVIOUS
<1>2. Head(s) \in Range(s)
  BY <1>1 DEF Range
<1>3. Range(Tail(s)) \subseteq Range(s)
  BY <1>1 DEF Range
<1> QED  BY <1>1, <1>2, <1>3

\* What is left of a sequence from one of its positions on.
LEMMA SuffixFacts ==
  ASSUME NEW T, NEW s \in Seq(T), NEW i \in DOMAIN s
  PROVE  /\ SubSeq(s, i, Len(s)) \in Seq(T)
         /\ Range(SubSeq(s, i, Len(s))) \subseteq Range(s)
         /\ s[i] \in T
         /\ s[i] \in Range(s)
<1>1. /\ DOMAIN s = 1 .. Len(s)
      /\ Len(s) \in Nat
      /\ i \in 1 .. Len(s)
      /\ s[i] \in T
  OBVIOUS
<1>2. /\ SubSeq(s, i, Len(s)) \in Seq(T)
      /\ DOMAIN SubSeq(s, i, Len(s)) = 1 .. Len(s) - i + 1
      /\ \A j \in 1 .. Len(s) - i + 1 : SubSeq(s, i, Len(s))[j] = s[i + j - 1]
  BY <1>1
<1>3. Range(SubSeq(s, i, Len(s))) \subseteq Range(s)
  BY <1>1, <1>2 DEF Range
<1>4. s[i] \in Range(s)
  BY <1>1 DEF Range
<1> QED  BY <1>1, <1>2, <1>3, <1>4

\* RemoveAt takes one element away and adds none.
LEMMA RemoveAtFacts ==
  ASSUME NEW T, NEW s \in Seq(T), NEW i \in DOMAIN s
  PROVE  /\ RemoveAt(s, i) \in Seq(T)
         /\ Len(RemoveAt(s, i)) = Len(s) - 1
         /\ \A j \in 1 .. Len(s) - 1 : RemoveAt(s, i)[j] = IF j < i THEN s[j] ELSE s[j + 1]
         /\ Range(RemoveAt(s, i)) \subseteq Range(s)
         /\ Range(s) \subseteq Range(RemoveAt(s, i)) \cup {s[i]}
<1>1. DOMAIN s = 1 .. Len(s) /\ Len(s) \in Nat /\ i \in 1 .. Len(s)
  OBVIOUS
<1>2. PICK a : a = SubSeq(s, 1, i - 1)
  OBVIOUS
<1>3. PICK b : b = SubSeq(s, i + 1, Len(s))
  OBVIOUS
<1>4. PICK c : /\ c = RemoveAt(s, i)
               /\ c \in Seq(T)
               /\ Len(c) = Len(s) - 1
               /\ \A j \in 1 .. Len(s) - 1 : c[j] = IF j < i THEN s[j] ELSE s[j + 1]
  <2>1. a \in Seq(T) /\ Len(a) = i - 1 /\ \A j \in 1 .. i - 1 : a[j] = s[j]
    BY <1>1, <1>2
  <2>2. b \in Seq(T) /\ Len(b) = Len(s) - i /\ \A j \in 1 .. Len(s) - i : b[j] = s[i + j]
    BY <1>1, <1>3
  <2>3. RemoveAt(s, i) = a \o b
    BY <1>2, <1>3 DEF RemoveAt
  <2>4. /\ a \o b \in Seq(T)
        /\ Len(a \o b) = Len(a) + Len(b)
        /\ \A j \in 1 .. Len(a) + Len(b) :
             (a \o b)[j] = IF j <= Len(a) THEN a[j] ELSE b[j - Len(a)]
    BY <2>1, <2>2, ConcatProperties
  <2>5. Len(a) + Len(b) = Len(s) - 1
    BY <1>1, <2>1, <2>2
  <2>6. ASSUME NEW j \in 1 .. Len(s) - 1
        PROVE  (a \o b)[j] = IF j < i THEN s[j] ELSE s[j + 1]
    <3>1. (a \o b)[j] = IF j <= i - 1 THEN a[j] ELSE b[j - (i - 1)]
      BY <2>1, <2>4, <2>5
    <3>2. CASE j < i
      BY <1>1, <2>1, <3>1, <3>2
    <3>3. CASE j >= i
      <4>1. j - (i - 1) \in 1 .. Len(s) - i /\ i + (j - (i - 1)) = j + 1
        BY <1>1, <3>3
      <4>2. b[j - (i - 1)] = s[j + 1]
        BY <2>2, <4>1
      <4> QED  BY <1>1, <3>1, <3>3, <4>2
    <3>4. j < i \/ j >= i
      BY <1>1
    <3> QED  BY <3>2, <3>3, <3>4
  <2> QED  BY <2>3, <2>4, <2>5, <2>6
<1>5. DOMAIN c = 1 .. Len(s) - 1
  BY <1>4
<1>6. Range(c) \subseteq Range(s)
  BY <1>1, <1>4, <1>5 DEF Range
<1>7. Range(s) \subseteq Range(c) \cup {s[i]}
  <2>1. ASSUME NEW j \in 1 .. Len(s), j # i  PROVE s[j] \in Range(c)
    <3>1. CASE j < i
      BY <1>1, <1>4, <1>5, <3>1 DEF Range
    <3>2. CASE j > i
      <4>1. j - 1 \in DOMAIN c /\ c[j - 1] = s[j]
        BY <1>1, <1>4, <1>5, <3>2
      <4> QED  BY <4>1 DEF Range
    <3> QED  BY <1>1, <2>1, <3>1, <3>2
  <2> QED  BY <1>1, <2>1 DEF Range
<1> QED  BY <1>4, <1>6, <1>7

-----------------------------------------------------------------------------
(* The invariant.                                                          *)

\* A record is what the ledger says of its subject, or the acceptance that a
\* terminal state has superseded.
Matches(st, r) == \/ st[r.subject] = r.state
                  \/ r.state = "accepted" /\ st[r.subject] \in Terminal

Sound(image) ==
  /\ image \in Images
  /\ Len(image.pending) <= MaxEntries
  /\ \A r \in Range(image.pending) : Matches(image.states, r)

\* Every record that left the pending list for the backend.
UnderWay == Range(queue) \cup Range(wire) \cup received

\* The part of the ledger that is persisted.
Memory == [states |-> states, pending |-> pending]

\* Memory and the file are each sound; memory may lag behind the file only in
\* subjects that are not terminal, so both agree on every terminal outcome
\* that was ever offered to the backend.
IInv ==
  /\ running \in BOOLEAN
  /\ Sound(Memory)
  /\ Sound(disk)
  /\ queue \in Seq(Records) /\ wire \in Seq(Records) /\ acks \in Seq(Records)
  /\ received \subseteq Records
  /\ Range(acks) \subseteq received
  /\ \A r \in UnderWay : r.state \in Terminal =>
       /\ disk.states[r.subject] = r.state
       /\ running => states[r.subject] = r.state
  /\ running => \A s \in Subjects :
       states[s] \in Terminal => disk.states[s] = states[s]
  /\ ~running => pending = <<>>

\* There are finitely many subjects, so no set of keys is too large.
LEMMA KeysFit ==
  ASSUME NoTrim, NEW st
  PROVE  Cardinality(Keys(st)) \in Nat /\ Cardinality(Keys(st)) <= MaxEntries
<1>1. KeyOrder \in Surjection(1 .. Len(KeyOrder), Subjects)
  <2>1. KeyOrder \in [1 .. Len(KeyOrder) -> Subjects] /\ DOMAIN KeyOrder = 1 .. Len(KeyOrder)
    BY OutboxAssumption
  <2> QED  BY <2>1 DEF Subjects, Range, Surjection
<1>2. IsFiniteSet(1 .. Len(KeyOrder))
  BY OutboxAssumption, FS_Interval
<1>3. IsFiniteSet(Subjects)
  BY <1>1, <1>2, FS_Surjection
<1>4. Keys(st) \subseteq Subjects
  BY DEF Keys
<1>5. Cardinality(Keys(st)) <= Cardinality(Subjects)
  BY <1>3, <1>4, FS_Subset
<1>6. Cardinality(Keys(st)) \in Nat /\ Cardinality(Subjects) \in Nat
  BY <1>3, <1>4, FS_Subset, FS_CardinalityType
<1> QED  BY <1>5, <1>6, OutboxAssumption DEF NoTrim

\* Without a trim, admitting an outcome changes the state of its subject and
\* adds its record.
LEMMA AdmitFacts ==
  ASSUME NoTrim, NEW s \in Subjects, NEW state \in States,
         states \in [Subjects -> States \cup {"none"}],
         pending \in Seq(Records)
  PROVE  LET new == Admit(s, state)
             r   == [subject |-> s, state |-> state]
         IN /\ new.states = [states EXCEPT ![s] = state]
            /\ new.pending \in Seq(Records)
            /\ Range(new.pending) = Range(pending) \cup {r}
<1> DEFINE r    == [subject |-> s, state |-> state]
           st   == [states EXCEPT ![s] = state]
<1>1. st \in [Subjects -> States \cup {"none"}]
  OBVIOUS
<1>2. r \in Records
  BY DEF Records
<1>3. ~(Cardinality(Keys(st)) > MaxEntries)
  BY KeysFit, OutboxAssumption
<1>4. Admit(s, state).states = [x \in Subjects |-> st[x]]
  BY <1>3 DEF Admit
<1>5. Admit(s, state).pending = IF r \in Range(pending) THEN pending ELSE Append(pending, r)
  BY DEF Admit
<1>6. /\ Append(pending, r) \in Seq(Records)
      /\ Range(Append(pending, r)) = Range(pending) \cup {r}
  BY <1>2, AppendFacts
<1> QED  BY <1>1, <1>4, <1>5, <1>6

\* What enqueue persists is sound, because only a subject that is not terminal
\* changes its state.
LEMMA AdmitIsSound ==
  ASSUME NoTrim, Sound(Memory), NEW s \in Subjects, NEW state \in States,
         Admissible(s, state), Fits(Admit(s, state))
  PROVE  /\ Sound(Image(Admit(s, state)))
         /\ Image(Admit(s, state)).states = [states EXCEPT ![s] = state]
         /\ Image(Admit(s, state)) = [states  |-> Admit(s, state).states,
                                      pending |-> Admit(s, state).pending]
<1> DEFINE new == Admit(s, state)
           r   == [subject |-> s, state |-> state]
<1>1. /\ states \in [Subjects -> States \cup {"none"}]
      /\ pending \in Seq(Records)
      /\ \A q \in Range(pending) : Matches(states, q)
  BY DEF Sound, Memory, Images
<1>2. /\ new.states = [states EXCEPT ![s] = state]
      /\ new.pending \in Seq(Records)
      /\ Range(new.pending) = Range(pending) \cup {r}
  BY <1>1, AdmitFacts
<1> HIDE DEF new
<1>3. [states EXCEPT ![s] = state] \in [Subjects -> States \cup {"none"}]
  BY <1>1
<1>4. ASSUME NEW q \in Range(pending)  PROVE Matches([states EXCEPT ![s] = state], q)
  <2>1. q \in Records /\ Matches(states, q)
    BY <1>1 DEF Range
  <2>2. q.subject \in Subjects
    BY <2>1 DEF Records
  <2>3. CASE q.subject # s
    BY <1>1, <2>1, <2>2, <2>3 DEF Matches
  <2>4. CASE q.subject = s /\ states[s] = "none"
    BY <2>1, <2>4, OutboxAssumption DEF Matches, Records, States
  <2>5. CASE q.subject = s /\ states[s] = "accepted" /\ state \in Terminal
    BY <1>1, <2>1, <2>5, OutboxAssumption DEF Matches
  <2> QED  BY <2>3, <2>4, <2>5 DEF Admissible
<1>5. Matches([states EXCEPT ![s] = state], r)
  BY <1>1 DEF Matches
<1>6. Len(new.pending) <= MaxEntries
  BY DEF Fits, new
<1>7. Sound(Image(new))
  BY <1>2, <1>3, <1>4, <1>5, <1>6 DEF Sound, Image, Images
<1> QED  BY <1>2, <1>7 DEF Image, new

\* A drain moves records of its snapshot into the queue and onto the wire.
LEMMA SendNextFacts ==
  ASSUME NEW records \in Seq(Records), NEW left, NEW who,
         wire \in Seq(Records), SendNext(records, left, who)
  PROVE  /\ queue' \in Seq(Records) /\ wire' \in Seq(Records)
         /\ Range(queue') \subseteq Range(records)
         /\ Range(wire') \subseteq Range(wire) \cup Range(records)
<1>1. CASE \E i \in DOMAIN records : /\ queue' = SubSeq(records, i, Len(records))
                                     /\ wire' = Append(wire, records[i])
  <2>1. PICK i \in DOMAIN records : /\ queue' = SubSeq(records, i, Len(records))
                                    /\ wire' = Append(wire, records[i])
    BY <1>1
  <2>2. /\ queue' \in Seq(Records) /\ Range(queue') \subseteq Range(records)
        /\ records[i] \in Records /\ records[i] \in Range(records)
    BY <2>1, SuffixFacts
  <2>3. wire' \in Seq(Records) /\ Range(wire') = Range(wire) \cup {records[i]}
    BY <2>1, <2>2, AppendFacts
  <2> QED  BY <2>2, <2>3
<1>2. CASE queue' = <<>> /\ wire' = wire
  BY <1>2 DEF Range
<1> QED  BY <1>1, <1>2 DEF SendNext

\* IInv holds initially.
LEMMA InitIInv == ASSUME Init  PROVE IInv
<1>1. Empty \in Images
  BY DEF Empty, Images, States
<1>2. Sound(Empty)
  BY <1>1, OutboxAssumption DEF Sound, Empty, Range
<1>3. Memory = Empty
  BY DEF Init, Empty, Memory
<1>4. \A s \in Subjects : states[s] \notin Terminal
  BY OutboxAssumption DEF Init, Empty
<1> QED  BY <1>2, <1>3, <1>4 DEF Init, IInv, UnderWay, Range

\* Every record offered for delivery whose state is terminal is the state of
\* its subject, in memory and in the file.
LEMMA PendingAgrees ==
  ASSUME IInv, NEW r \in Range(pending), r.state \in Terminal
  PROVE  /\ r \in Records
         /\ states[r.subject] = r.state
         /\ disk.states[r.subject] = r.state
<1>1. pending \in Seq(Records) /\ Matches(states, r)
  BY DEF IInv, Sound, Memory, Images
<1>2. r \in Records
  BY <1>1, RangeOfSeq
<1>5. r.subject \in Subjects
  BY <1>2 DEF Records
<1>3. states[r.subject] = r.state
  BY <1>1, OutboxAssumption DEF Matches
<1>4. running
  BY DEF IInv, Range
<1> QED  BY <1>2, <1>5, <1>3, <1>4 DEF IInv

\* Enqueue preserves IInv: only a subject none of whose terminal states is
\* under way changes.
LEMMA EnqueueStep ==
  ASSUME NoTrim, IInv, NEW s \in Subjects, NEW state \in States,
         Enqueue(s, state) \/ EnqueueFails(s, state)
  PROVE  IInv'
<1> DEFINE image == Image(Admit(s, state))
<1>1. /\ Sound(image)
      /\ image.states = [states EXCEPT ![s] = state]
      /\ image = [states |-> Admit(s, state).states, pending |-> Admit(s, state).pending]
  BY AdmitIsSound DEF IInv, Enqueue, EnqueueFails
<1> HIDE DEF image
<1>2. /\ running /\ running' = running
      /\ states[s] \notin Terminal
      /\ states \in [Subjects -> States \cup {"none"}]
  BY OutboxAssumption DEF Enqueue, EnqueueFails, Admissible, IInv, Sound, Memory, Images
<1>3. /\ disk' = image
      /\ Memory' \in {Memory, image}
      /\ states' \in {states, image.states}
      /\ UNCHANGED <<queue, wire, acks, received>>
  <2>1. disk' = image
    BY DEF Enqueue, EnqueueFails, image
  <2>2. UNCHANGED <<queue, wire, acks, received>>
    BY DEF Enqueue, EnqueueFails, network, drainVars
  <2>3. CASE Enqueue(s, state)
    BY <1>1, <2>1, <2>2, <2>3 DEF Enqueue, Memory
  <2>4. CASE EnqueueFails(s, state)
    BY <2>1, <2>2, <2>4 DEF EnqueueFails, memory, Memory
  <2> QED  BY <2>3, <2>4
<1>4. Sound(Memory') /\ Sound(disk')
  BY <1>1, <1>3 DEF IInv
<1>5. \A r \in UnderWay : r.state \in Terminal =>
        disk'.states[r.subject] = r.state /\ states'[r.subject] = r.state
  <2>1. ASSUME NEW r \in UnderWay, r.state \in Terminal
        PROVE  /\ r.subject \in Subjects /\ r.subject # s
               /\ states[r.subject] = r.state
    <3>1. states[r.subject] = r.state
      BY <1>2, <2>1 DEF IInv
    <3>2. r \in Records
      BY DEF IInv, UnderWay, Range
    <3> QED  BY <1>2, <2>1, <3>1, <3>2 DEF Records
  <2> QED  BY <1>1, <1>2, <1>3, <2>1
<1>6. \A x \in Subjects : states'[x] \in Terminal => disk'.states[x] = states'[x]
  BY <1>1, <1>2, <1>3 DEF IInv
<1>7. UnderWay' = UnderWay
  BY <1>3 DEF UnderWay
<1> QED  BY <1>2, <1>3, <1>4, <1>5, <1>6, <1>7 DEF IInv

\* A drain step preserves IInv: what it sends is pending.
LEMMA DrainStep ==
  ASSUME IInv, (\E who \in {"task", "greeting"} : StartDrain(who)) \/ SendReturns
  PROVE  IInv'
<1>1. /\ UNCHANGED <<running, states, pending, disk, acks, received>>
  BY DEF StartDrain, SendReturns, memory
<1>2. /\ pending \in Seq(Records) /\ queue \in Seq(Records) /\ wire \in Seq(Records)
  BY DEF IInv, Sound, Memory, Images
<1>3. /\ queue' \in Seq(Records) /\ wire' \in Seq(Records)
      /\ UnderWay' \subseteq UnderWay \cup Range(pending)
  <2>1. CASE \E who \in {"task", "greeting"} : StartDrain(who)
    <3>1. PICK who : SendNext(pending, attempted, who)
      BY <2>1 DEF StartDrain
    <3> QED  BY <1>1, <1>2, <3>1, SendNextFacts DEF UnderWay
  <2>2. CASE SendReturns
    <3>1. SendNext(Tail(queue), skip, drainer) /\ queue # <<>>
      BY <2>2 DEF SendReturns
    <3>2. Tail(queue) \in Seq(Records) /\ Range(Tail(queue)) \subseteq Range(queue)
      BY <1>2, <3>1, TailFacts
    <3> QED  BY <1>1, <1>2, <3>1, <3>2, SendNextFacts DEF UnderWay
  <2> QED  BY <2>1, <2>2
<1>4. \A r \in UnderWay' : r.state \in Terminal =>
        disk.states[r.subject] = r.state /\ (running => states[r.subject] = r.state)
  BY <1>3, PendingAgrees DEF IInv
<1>5. Memory' = Memory
  BY <1>1 DEF Memory
<1> QED  BY <1>1, <1>3, <1>4, <1>5 DEF IInv

\* The backend receives what was on the wire.
LEMMA ReceiveStep ==
  ASSUME IInv, Receive
  PROVE  IInv'
<1>1. /\ UNCHANGED <<running, states, pending, disk, queue>>
      /\ received' = received \cup {Head(wire)}
      /\ acks' = Append(acks, Head(wire))
      /\ wire' = Tail(wire)
      /\ wire # <<>>
  BY DEF Receive, memory, drainVars
<1>2. wire \in Seq(Records) /\ acks \in Seq(Records)
  BY DEF IInv
<1>3. /\ Head(wire) \in Records /\ Head(wire) \in Range(wire)
      /\ wire' \in Seq(Records) /\ Range(wire') \subseteq Range(wire)
  BY <1>1, <1>2, TailFacts
<1>4. acks' \in Seq(Records) /\ Range(acks') = Range(acks) \cup {Head(wire)}
  BY <1>1, <1>2, <1>3, AppendFacts
<1>5. UnderWay' \subseteq UnderWay
  BY <1>1, <1>3 DEF UnderWay
<1>6. Memory' = Memory
  BY <1>1 DEF Memory
<1> QED  BY <1>1, <1>3, <1>4, <1>5, <1>6 DEF IInv

\* An acknowledgement takes a record off the pending list of memory, of the
\* file, or of both, and puts none on.
LEMMA AckStep ==
  ASSUME IInv, OnOutcomeAck
  PROVE  IInv'
<1>1. /\ UNCHANGED <<running, states, queue, wire, received>>
      /\ acks' = Tail(acks) /\ acks # <<>>
  BY DEF OnOutcomeAck, memory, drainVars, Confirm, FailToConfirm
<1>2. /\ pending \in Seq(Records) /\ acks \in Seq(Records)
      /\ Sound(Memory) /\ Sound(disk)
  BY DEF IInv, Sound, Memory, Images
<1>3. acks' \in Seq(Records) /\ Range(acks') \subseteq received
  BY <1>1, <1>2, TailFacts DEF IInv
<1>4. /\ Sound(Memory') /\ Sound(disk')
      /\ disk'.states \in {disk.states, states}
      /\ ~running => pending' = <<>>
  <2>1. CASE UNCHANGED <<memory, disk>>
    BY <1>2, <2>1 DEF memory, Memory, IInv
  <2>2. CASE \E i \in DOMAIN pending : Confirm(i) \/ FailToConfirm(i)
    <3>1. PICK i \in DOMAIN pending : Confirm(i) \/ FailToConfirm(i)
      BY <2>2
    <3> DEFINE rest == RemoveAt(pending, i)
               image == [states |-> states, pending |-> rest]
               back == Append(rest, pending[i])
    <3>2. /\ rest \in Seq(Records)
          /\ Len(rest) = Len(pending) - 1
          /\ Range(rest) \subseteq Range(pending)
          /\ pending[i] \in Records /\ pending[i] \in Range(pending)
      BY <1>2, RemoveAtFacts, SuffixFacts
    <3>3. /\ back \in Seq(Records)
          /\ Len(back) = Len(pending)
          /\ Range(back) \subseteq Range(pending)
      <4>1. Len(back) = Len(rest) + 1 /\ back \in Seq(Records)
            /\ Range(back) = Range(rest) \cup {pending[i]}
        BY <3>2, AppendFacts
      <4>2. Len(pending) \in Nat
        BY <1>2
      <4> QED  BY <3>2, <4>1, <4>2
    <3>4. \/ pending' = rest /\ disk' = image
          \/ pending' = back /\ disk' \in {disk, image}
      BY <3>1 DEF Confirm, FailToConfirm
    <3> HIDE DEF rest, back
    <3>5. Len(pending) \in Nat /\ Len(pending) <= MaxEntries
      BY <1>2 DEF Sound, Memory
    <3>6. Sound(image)
      BY <1>2, <3>2, <3>5, OutboxAssumption DEF Sound, Memory, Images
    <3>7. Sound([states |-> states, pending |-> back])
      BY <1>2, <3>3, <3>5 DEF Sound, Memory, Images
    <3>8. Memory' \in {image, [states |-> states, pending |-> back]}
      BY <1>1, <3>4 DEF Memory
    <3>9. pending # <<>>
      BY <1>2
    <3> QED  BY <1>2, <3>4, <3>6, <3>7, <3>8, <3>9 DEF IInv
  <2> QED  BY <2>1, <2>2 DEF OnOutcomeAck
<1>5. UnderWay' = UnderWay
  BY <1>1 DEF UnderWay
<1>6. \A r \in UnderWay : r.state \in Terminal => disk'.states[r.subject] = r.state
  <2>1. ASSUME NEW r \in UnderWay, r.state \in Terminal
        PROVE  disk'.states[r.subject] = r.state
    <3>1. CASE running
      BY <1>4, <2>1, <3>1 DEF IInv
    <3>2. CASE ~running
      <4>1. disk' = disk
        BY <3>2 DEF OnOutcomeAck, IInv
      <4> QED  BY <2>1, <4>1 DEF IInv
    <3> QED  BY <3>1, <3>2
  <2> QED  BY <2>1
<1> QED  BY <1>1, <1>3, <1>4, <1>5, <1>6 DEF IInv

\* Losing the connection or the process only takes records away; a new process
\* starts from the file.
LEMMA LifecycleStep ==
  ASSUME IInv, Connect \/ Disconnect \/ Crash \/ Restart
  PROVE  IInv'
<1>1. <<>> \in Seq(Records) /\ Range(<<>>) = {}
  BY DEF Range
<1>2. CASE Connect
  BY <1>2 DEF Connect, memory, drainVars, network, IInv, Memory, UnderWay
<1>3. CASE Disconnect
  <2>1. UNCHANGED <<running, states, pending, disk, received>>
        /\ queue' = <<>> /\ wire' = <<>> /\ acks' = <<>>
    BY <1>3 DEF Disconnect, memory
  <2>2. UnderWay' \subseteq UnderWay /\ Memory' = Memory
    BY <1>1, <2>1 DEF UnderWay, Memory
  <2> QED  BY <1>1, <2>1, <2>2 DEF IInv
<1>4. CASE Crash
  <2>1. /\ running' = FALSE /\ UNCHANGED <<disk, received>>
        /\ queue' = <<>> /\ wire' = <<>> /\ acks' = <<>> /\ pending' = <<>>
        /\ Memory' = Empty
    BY <1>4 DEF Crash, Memory, Empty
  <2>2. UnderWay' \subseteq UnderWay
    BY <1>1, <2>1 DEF UnderWay
  <2>3. Sound(Empty)
    BY <1>1, OutboxAssumption DEF Sound, Empty, Images, States
  <2> QED  BY <1>1, <2>1, <2>2, <2>3 DEF IInv
<1>5. CASE Restart
  <2>1. /\ running' = TRUE /\ UNCHANGED <<disk, queue, wire, acks, received>>
        /\ states' = disk.states /\ pending' = disk.pending
    BY <1>5 DEF Restart, network, drainVars
  <2>2. Memory' = disk /\ UnderWay' = UnderWay
    BY <2>1 DEF Memory, UnderWay, IInv, Sound, Images
  <2> QED  BY <2>1, <2>2 DEF IInv
<1> QED  BY <1>2, <1>3, <1>4, <1>5

\* IInv is inductive.
LEMMA NextIInv ==
  ASSUME NoTrim, IInv, [Next]_vars
  PROVE  IInv'
<1>1. CASE UNCHANGED vars
  BY <1>1 DEF vars, memory, drainVars, network, IInv, Memory, UnderWay
<1> QED  BY <1>1, EnqueueStep, DrainStep, ReceiveStep, AckStep, LifecycleStep DEF Next

\* Whatever _persist writes, in whatever order of failures, acknowledgements
\* and restarts, _load accepts.
THEOREM ReloadAlwaysSucceeds ==
  ASSUME NoTrim
  PROVE  Spec => []ReloadSucceeds
<1>1. IInv => ReloadSucceeds
  BY KeysFit DEF IInv, Sound, Matches, ReloadSucceeds, Loadable
<1> QED  BY <1>1, InitIInv, NextIInv, PTL DEF Spec

\* A terminal outcome the backend has learned is the one on disk.
THEOREM DeliveryIsDurable ==
  ASSUME NoTrim
  PROVE  Spec => []DeliveredIsDurable
<1>1. IInv => DeliveredIsDurable
  BY DEF IInv, UnderWay, DeliveredIsDurable
<1> QED  BY <1>1, InitIInv, NextIInv, PTL DEF Spec

-----------------------------------------------------------------------------
(* No outcome is lost.                                                     *)

\* An acknowledged record may leave the pending list: the backend has it.
LEMMA KeptAfterAck ==
  ASSUME IInv, NothingIsLost, OnOutcomeAck
  PROVE  NothingIsLost'
<1>1. /\ UNCHANGED <<states, received>> /\ acks # <<>>
      /\ pending \in Seq(Records) /\ acks \in Seq(Records)
  BY DEF OnOutcomeAck, memory, Confirm, FailToConfirm, IInv, Sound, Memory, Images
<1>2. Head(acks) \in received
  BY <1>1, TailFacts DEF IInv
<1>3. CASE UNCHANGED <<memory, disk>>
  BY <1>1, <1>3 DEF memory, NothingIsLost, Kept
<1>4. CASE \E i \in DOMAIN pending : pending[i] = Head(acks) /\ (Confirm(i) \/ FailToConfirm(i))
  <2>1. PICK i \in DOMAIN pending : pending[i] = Head(acks) /\ (Confirm(i) \/ FailToConfirm(i))
    BY <1>4
  <2> DEFINE rest == RemoveAt(pending, i)
             back == Append(rest, pending[i])
  <2>2. /\ rest \in Seq(Records)
        /\ Range(pending) \subseteq Range(rest) \cup {pending[i]}
        /\ pending[i] \in Records
    BY <1>1, RemoveAtFacts, SuffixFacts
  <2>3. Range(back) = Range(rest) \cup {pending[i]}
    BY <2>2, AppendFacts
  <2>4. \/ pending' = rest /\ disk' = [states |-> states, pending |-> rest]
        \/ pending' = back /\ disk' \in {disk, [states |-> states, pending |-> rest]}
    BY <2>1 DEF Confirm, FailToConfirm
  <2> HIDE DEF rest, back
  <2>5. Kept(states, rest) /\ Kept(states, back)
    BY <1>2, <2>1, <2>2, <2>3 DEF NothingIsLost, Kept
  <2>6. Kept(states', pending')
    BY <1>1, <2>4, <2>5 DEF Kept
  <2>7. Kept(disk'.states, disk'.pending)
    BY <1>1, <2>4, <2>5 DEF Kept, NothingIsLost
  <2> QED  BY <1>1, <2>6, <2>7 DEF NothingIsLost, Kept
<1> QED  BY <1>3, <1>4 DEF OnOutcomeAck

\* An admitted outcome is pending, in what is persisted as in memory.
LEMMA KeptAfterEnqueue ==
  ASSUME NoTrim, IInv, NothingIsLost, NEW s \in Subjects, NEW state \in States,
         Enqueue(s, state) \/ EnqueueFails(s, state)
  PROVE  NothingIsLost'
<1> DEFINE new == Admit(s, state)
<1>1. /\ states \in [Subjects -> States \cup {"none"}]
      /\ pending \in Seq(Records)
  BY DEF IInv, Sound, Memory, Images
<1>2. /\ new.states = [states EXCEPT ![s] = state]
      /\ Range(new.pending) = Range(pending) \cup {[subject |-> s, state |-> state]}
  BY <1>1, AdmitFacts
<1> HIDE DEF new
<1>3. Kept(new.states, new.pending)
  BY <1>1, <1>2 DEF NothingIsLost, Kept
<1>4. received' = received
  BY DEF Enqueue, EnqueueFails, network
<1>5. /\ disk'.states = new.states /\ disk'.pending = new.pending
      /\ \/ states' = new.states /\ pending' = new.pending
         \/ states' = states /\ pending' = pending
  BY DEF Enqueue, EnqueueFails, Image, memory, new
<1> QED  BY <1>3, <1>4, <1>5 DEF NothingIsLost, Kept

\* Neither a failed write, a lost connection, a crash nor an acknowledgement
\* loses an outcome that was persisted.
THEOREM OutcomesAreKept ==
  ASSUME NoTrim
  PROVE  Spec => []NothingIsLost
<1>1. ASSUME Init  PROVE NothingIsLost
  BY <1>1 DEF Init, Empty, NothingIsLost, Kept
<1>2. ASSUME IInv, NothingIsLost, [Next]_vars  PROVE NothingIsLost'
  <2>1. CASE UNCHANGED vars
    BY <1>2, <2>1 DEF vars, memory, network, NothingIsLost, Kept
  <2>2. CASE \E s \in Subjects, state \in States : Enqueue(s, state) \/ EnqueueFails(s, state)
    BY <1>2, <2>2, KeptAfterEnqueue
  <2>3. CASE OnOutcomeAck
    BY <1>2, <2>3, KeptAfterAck
  <2>4. CASE Connect
    BY <1>2, <2>4 DEF Connect, memory, network, NothingIsLost, Kept
  <2>5. CASE \E who \in {"task", "greeting"} : StartDrain(who)
    BY <1>2, <2>5 DEF StartDrain, memory, NothingIsLost, Kept
  <2>6. CASE SendReturns
    BY <1>2, <2>6 DEF SendReturns, memory, NothingIsLost, Kept
  <2>7. CASE Receive
    BY <1>2, <2>7 DEF Receive, memory, NothingIsLost, Kept
  <2>8. CASE Disconnect
    BY <1>2, <2>8 DEF Disconnect, memory, NothingIsLost, Kept
  <2>9. CASE Crash
    BY <1>2, <2>9 DEF Crash, Empty, NothingIsLost, Kept
  <2>10. CASE Restart
    BY <1>2, <2>10 DEF Restart, network, NothingIsLost, Kept
  <2> QED  BY <1>2, <2>1, <2>2, <2>3, <2>4, <2>5, <2>6, <2>7, <2>8, <2>9, <2>10 DEF Next
<1> QED  BY <1>1, <1>2, InitIInv, NextIInv, PTL DEF Spec

-----------------------------------------------------------------------------
(* The refinement.                                                         *)

\* A backend that has one terminal outcome of a subject knows that one.
LEMMA KnowsTerminal ==
  ASSUME NEW got, NEW s, NEW t \in Terminal, [subject |-> s, state |-> t] \in got,
         \A u \in Terminal : [subject |-> s, state |-> u] \in got => u = t
  PROVE  Known(got, s) = t
<1>1. {u \in Terminal : [subject |-> s, state |-> u] \in got} = {t}
  OBVIOUS
<1>2. AnyOf({t}) = t
  BY DEF AnyOf
<1> QED  BY <1>1, <1>2 DEF Known

\* A backend that has none knows the acceptance, if it has that.
LEMMA KnowsNoTerminal ==
  ASSUME NEW got, NEW s, \A t \in Terminal : [subject |-> s, state |-> t] \notin got
  PROVE  Known(got, s) = IF [subject |-> s, state |-> "accepted"] \in got
                         THEN "accepted" ELSE "none"
<1>1. {t \in Terminal : [subject |-> s, state |-> t] \in got} = {}
  OBVIOUS
<1> QED  BY <1>1 DEF Known

\* A record that arrives tells nothing of other subjects.
LEMMA OthersUnchanged ==
  ASSUME NEW got, NEW r, NEW s, s # r.subject
  PROVE  Known(got \cup {r}, s) = Known(got, s)
<1>1. \A t : [subject |-> s, state |-> t] \in got \cup {r}
               <=> [subject |-> s, state |-> t] \in got
  OBVIOUS
<1>2. {t \in Terminal : [subject |-> s, state |-> t] \in got \cup {r}}
        = {t \in Terminal : [subject |-> s, state |-> t] \in got}
  BY <1>1
<1> QED  BY <1>1, <1>2 DEF Known

\* Of its own subject it tells what the lifecycle allows next, or nothing new,
\* as long as no two terminal outcomes of a subject arrive.
LEMMA ArrivalReports ==
  ASSUME NEW got, NEW s \in Subjects, NEW x \in States,
         NEW more, more = got \cup {[subject |-> s, state |-> x]},
         [subject |-> s, state |-> x] \notin got,
         \A t, u \in Terminal :
           [subject |-> s, state |-> t] \in more /\ [subject |-> s, state |-> u] \in more
             => t = u
  PROVE  \/ Known(more, s) = Known(got, s)
         \/ /\ Known(more, s) = x
            /\ \/ Known(got, s) = "none"
               \/ Known(got, s) = "accepted" /\ x \in Terminal
<1>1. CASE x \in Terminal
  <2>1. Known(more, s) = x
    BY <1>1, KnowsTerminal
  <2>2. \A u \in Terminal : [subject |-> s, state |-> u] \notin got
    BY <1>1
  <2>3. Known(got, s) \in {"none", "accepted"}
    BY <2>2, KnowsNoTerminal
  <2> QED  BY <1>1, <2>1, <2>3
<1>2. CASE x = "accepted"
  <2>1. \A u \in Terminal : [subject |-> s, state |-> u] \in more
                              <=> [subject |-> s, state |-> u] \in got
    BY <1>2, OutboxAssumption
  <2>2. CASE \E t \in Terminal : [subject |-> s, state |-> t] \in got
    <3>1. PICK t \in Terminal : [subject |-> s, state |-> t] \in got
      BY <2>2
    <3>2. Known(got, s) = t /\ Known(more, s) = t
      BY <2>1, <3>1, KnowsTerminal
    <3> QED  BY <3>2
  <2>3. CASE \A t \in Terminal : [subject |-> s, state |-> t] \notin got
    <3>1. Known(got, s) = "none"
      BY <1>2, <2>3, KnowsNoTerminal
    <3>2. Known(more, s) = "accepted"
      BY <1>2, <2>1, <2>3, KnowsNoTerminal
    <3> QED  BY <1>2, <3>1, <3>2
  <2> QED  BY <2>2, <2>3
<1> QED  BY <1>1, <1>2 DEF States

\* Delivery with deduplication implements the abstract lifecycle: one
\* acceptance, one terminal outcome, in that order, immutable.
THEOREM LifecycleRefinement ==
  ASSUME NoTrim
  PROVE  Spec => ImplementsLifecycle
<1> DEFINE known == [s \in Subjects |-> Known(received, s)]
<1>1. ASSUME Init  PROVE Lifecycle!Init
  <2>1. \A s \in Subjects : Known(received, s) = "none"
    BY <1>1, KnowsNoTerminal DEF Init
  <2> QED  BY <2>1 DEF Lifecycle!Init
<1>2. ASSUME IInv, IInv', [Next]_vars  PROVE [Lifecycle!Next]_known
  <2>1. CASE received' = received
    BY <2>1
  <2>2. CASE Receive
    <3> DEFINE r == Head(wire)
               s == r.subject
    <3>1. /\ received' = received \cup {r}
          /\ r \in Records
      BY <1>2, <2>2, TailFacts DEF Receive, IInv
    <3>2. CASE r \in received
      BY <2>1, <3>1, <3>2
    <3>3. CASE r \notin received
      <4>1. /\ s \in Subjects /\ r.state \in States
            /\ r = [subject |-> s, state |-> r.state]
        BY <3>1 DEF Records
      <4>2. ASSUME NEW x \in Subjects, x # s
            PROVE  Known(received', x) = Known(received, x)
        BY <3>1, <4>2, OthersUnchanged
      <4>6. \A t \in Terminal : [subject |-> s, state |-> t] \in received'
                                   => disk'.states[s] = t
        <5>1. ASSUME NEW t \in Terminal, [subject |-> s, state |-> t] \in received'
              PROVE  disk'.states[s] = t
          <6>1. [subject |-> s, state |-> t] \in UnderWay'
            BY <5>1 DEF UnderWay
          <6> QED  BY <1>2, <5>1, <6>1 DEF IInv
        <5> QED  BY <5>1
      <4>3. \/ Known(received', s) = Known(received, s)
            \/ /\ Known(received', s) = r.state
               /\ \/ Known(received, s) = "none"
                  \/ Known(received, s) = "accepted" /\ r.state \in Terminal
        BY <3>1, <3>3, <4>1, <4>6, ArrivalReports
      <4> HIDE DEF r, s
      <4>4. CASE Known(received', s) = Known(received, s)
        <5>1. \A x \in Subjects : Known(received', x) = Known(received, x)
          BY <4>2, <4>4
        <5> QED  BY <5>1
      <4>5. CASE /\ Known(received', s) = r.state
                 /\ \/ Known(received, s) = "none"
                    \/ Known(received, s) = "accepted" /\ r.state \in Terminal
        <5>1. known' = [known EXCEPT ![s] = r.state]
          BY <4>1, <4>2, <4>5
        <5>2. known[s] = Known(received, s)
          BY <4>1
        <5>3. Lifecycle!Report(s, r.state)
          BY <4>1, <4>5, <5>1, <5>2 DEF Lifecycle!Report, States
        <5> QED  BY <4>1, <5>3 DEF Lifecycle!Next, States
      <4> QED  BY <4>3, <4>4, <4>5
    <3> QED  BY <3>2, <3>3
  <2>3. CASE UNCHANGED vars
    BY <2>1, <2>3 DEF vars, network
  <2>4. CASE Next /\ ~Receive
    <3>1. received' = received
      BY <2>4 DEF Next, Enqueue, EnqueueFails, Connect, StartDrain, SendReturns,
                  OnOutcomeAck, Disconnect, Crash, Restart, network
    <3> QED  BY <2>1, <3>1
  <2> QED  BY <1>2, <2>2, <2>3, <2>4
<1> QED  BY <1>1, <1>2, InitIInv, NextIInv, PTL DEF Spec, ImplementsLifecycle, Lifecycle!Spec

-----------------------------------------------------------------------------
(* The order of arrival.                                                   *)

\* Every x in a sequence has an a before it.
Precedes(q, a, x) ==
  \A j \in 1 .. Len(q) : q[j] = x => \E i \in 1 .. j - 1 : q[i] = a

Acceptance(s) == [subject |-> s, state |-> "accepted"]
Ending(s, t) == [subject |-> s, state |-> t]

\* What memory or the file has still to deliver.
Held == (Range(pending) \cup Range(disk.pending)) \ received

\* Before the acceptance has arrived no end of its subject overtakes it, in
\* memory, in the file, in a drain or on the wire.
Ordered(a, x) ==
  /\ x \notin received
  /\ Precedes(pending, a, x) /\ Precedes(disk.pending, a, x) /\ Precedes(wire, a, x)
  /\ a \in Range(wire) \/ Precedes(queue, a, x)

Order ==
  \A s \in Subjects, t \in Terminal :
    Acceptance(s) \in Held => Ordered(Acceptance(s), Ending(s, t))

Sent == Range(wire) \cup received

\* What a drain skips, and what it is sending, is on the wire of this connection.
Flow ==
  /\ link = "down" => queue = <<>> /\ drainer = "none"
  /\ queue # <<>> => drainer # "none" /\ Head(queue) \in Sent
  /\ link # "down" => attempted \subseteq Sent
  /\ link # "down" /\ drainer # "none" => skip \subseteq Sent

LEMMA PrecedesAppend ==
  ASSUME NEW T, NEW q \in Seq(T), NEW e \in T, NEW a, NEW x,
         Precedes(q, a, x), e = x => a \in Range(q)
  PROVE  Precedes(Append(q, e), a, x)
<1>1. /\ Len(Append(q, e)) = Len(q) + 1 /\ Len(q) \in Nat
      /\ DOMAIN q = 1 .. Len(q)
      /\ \A i \in 1 .. Len(q) : Append(q, e)[i] = q[i]
      /\ Append(q, e)[Len(q) + 1] = e
  OBVIOUS
<1>2. ASSUME NEW j \in 1 .. Len(q) + 1, Append(q, e)[j] = x
      PROVE  \E i \in 1 .. j - 1 : Append(q, e)[i] = a
  <2>1. CASE j \in 1 .. Len(q)
    <3>1. PICK i \in 1 .. j - 1 : q[i] = a
      BY <1>1, <1>2, <2>1 DEF Precedes
    <3> QED  BY <1>1, <2>1, <3>1
  <2>2. CASE j = Len(q) + 1
    <3>1. PICK i \in 1 .. Len(q) : q[i] = a
      BY <1>1, <1>2, <2>2 DEF Range
    <3> QED  BY <1>1, <2>2, <3>1
  <2> QED  BY <1>1, <2>1, <2>2
<1> QED  BY <1>1, <1>2 DEF Precedes

\* Where there is no x every x has an a before it.
LEMMA PrecedesNothing ==
  ASSUME NEW T, NEW q \in Seq(T), NEW a, NEW x, x \notin Range(q)
  PROVE  Precedes(q, a, x)
<1>1. DOMAIN q = 1 .. Len(q)
  OBVIOUS
<1> QED  BY <1>1 DEF Precedes, Range

\* Another record may leave from between them.
LEMMA PrecedesRemove ==
  ASSUME NEW T, NEW q \in Seq(T), NEW i \in DOMAIN q, NEW a, NEW x,
         Precedes(q, a, x), q[i] # a
  PROVE  Precedes(RemoveAt(q, i), a, x)
<1>1. PICK c : c = RemoveAt(q, i)
  OBVIOUS
<1>2. /\ c \in Seq(T)
      /\ Len(c) = Len(q) - 1
      /\ \A j \in 1 .. Len(q) - 1 : c[j] = IF j < i THEN q[j] ELSE q[j + 1]
  BY <1>1, RemoveAtFacts
<1>3. Len(q) \in Nat /\ i \in 1 .. Len(q)
  OBVIOUS
<1>4. ASSUME NEW j \in 1 .. Len(c), c[j] = x
      PROVE  \E k \in 1 .. j - 1 : c[k] = a
  <2>1. CASE j < i
    <3>1. q[j] = x
      BY <1>2, <1>3, <1>4, <2>1
    <3>2. PICK k \in 1 .. j - 1 : q[k] = a
      BY <1>3, <2>1, <3>1 DEF Precedes
    <3>3. c[k] = a
      BY <1>2, <1>3, <2>1, <3>2
    <3> QED  BY <3>3
  <2>2. CASE ~(j < i)
    <3>1. q[j + 1] = x /\ j + 1 \in 1 .. Len(q) /\ (j + 1) - 1 = j
      BY <1>2, <1>3, <1>4, <2>2
    <3>2. PICK k \in 1 .. j : q[k] = a
      BY <3>1 DEF Precedes
    <3>3. k # i
      BY <3>2
    <3>4. CASE k < i
      <4>1. k \in 1 .. j - 1 /\ c[k] = a
        BY <1>2, <1>3, <2>2, <3>2, <3>4
      <4> QED  BY <4>1
    <3>5. CASE k > i
      <4>1. k - 1 \in 1 .. j - 1 /\ c[k - 1] = a
        BY <1>2, <1>3, <2>2, <3>2, <3>5, SMTT(20)
      <4> QED  BY <4>1
    <3> QED  BY <1>3, <3>3, <3>4, <3>5
  <2> QED  BY <2>1, <2>2
<1> QED  BY <1>1, <1>4 DEF Precedes

\* The first of a queue leaves it.
LEMMA TailRange ==
  ASSUME NEW T, NEW q \in Seq(T), q # <<>>
  PROVE  Range(q) \subseteq Range(Tail(q)) \cup {Head(q)}
<1>1. /\ Len(q) \in Nat \ {0} /\ Head(q) = q[1]
      /\ DOMAIN q = 1 .. Len(q)
      /\ DOMAIN Tail(q) = 1 .. Len(q) - 1
      /\ \A j \in 1 .. Len(q) - 1 : Tail(q)[j] = q[j + 1]
  OBVIOUS
<1>2. ASSUME NEW j \in 1 .. Len(q), j # 1  PROVE q[j] \in Range(Tail(q))
  <2>1. j - 1 \in DOMAIN Tail(q) /\ Tail(q)[j - 1] = q[j]
    BY <1>1, <1>2
  <2> QED  BY <2>1 DEF Range
<1> QED  BY <1>1, <1>2 DEF Range

\* Only an acceptance that leaves a queue first leaves an ending behind.
LEMMA PrecedesTail ==
  ASSUME NEW T, NEW q \in Seq(T), q # <<>>, NEW a, NEW x, Precedes(q, a, x), Head(q) # a
  PROVE  /\ Precedes(Tail(q), a, x)
         /\ Head(q) # x
<1>1. /\ Len(q) \in Nat \ {0} /\ Head(q) = q[1]
      /\ DOMAIN q = 1 .. Len(q)
      /\ Len(Tail(q)) = Len(q) - 1
      /\ DOMAIN Tail(q) = 1 .. Len(q) - 1
      /\ \A j \in 1 .. Len(q) - 1 : Tail(q)[j] = q[j + 1]
  OBVIOUS
<1>2. ASSUME NEW j \in 1 .. Len(q) - 1, Tail(q)[j] = x
      PROVE  \E k \in 1 .. j - 1 : Tail(q)[k] = a
  <2>1. PICK k \in 1 .. j : q[k] = a
    <3>1. j + 1 \in 1 .. Len(q) /\ q[j + 1] = x /\ (j + 1) - 1 = j
      BY <1>1, <1>2
    <3> QED  BY <3>1 DEF Precedes
  <2>2. k # 1
    BY <1>1, <2>1
  <2>3. k - 1 \in 1 .. j - 1 /\ Tail(q)[k - 1] = a
    BY <1>1, <2>1, <2>2
  <2> QED  BY <2>3
<1>3. Head(q) # x
  BY <1>1 DEF Precedes
<1> QED  BY <1>1, <1>2, <1>3 DEF Precedes

\* Only records that are sent already are skipped, so a drain that comes
\* across an ending has the acceptance on the wire.
LEMMA SendNextOrder ==
  ASSUME NEW records \in Seq(Records), NEW left, NEW who, NEW a, NEW x,
         wire \in Seq(Records), SendNext(records, left, who),
         link # "down" /\ a \in left => a \in Range(wire),
         Precedes(wire, a, x),
         a \in Range(wire) \/ Precedes(records, a, x)
  PROVE  Precedes(wire', a, x) /\ (a \in Range(wire') \/ Precedes(queue', a, x))
<1>1. CASE queue' = <<>> /\ wire' = wire
  BY <1>1 DEF Precedes
<1>2. CASE /\ link # "down"
           /\ \E i \in DOMAIN records : /\ FirstReady(records, left, i)
                                       /\ queue' = SubSeq(records, i, Len(records))
                                       /\ wire' = Append(wire, records[i])
  <2>1. PICK i \in DOMAIN records : /\ FirstReady(records, left, i)
                                    /\ queue' = SubSeq(records, i, Len(records))
                                    /\ wire' = Append(wire, records[i])
    BY <1>2
  <2>2. /\ Len(records) \in Nat /\ i \in 1 .. Len(records) /\ records[i] \in Records
    OBVIOUS
  <2>3. Range(wire') = Range(wire) \cup {records[i]}
    BY <2>1, <2>2, AppendFacts
  <2>4. CASE a \in Range(wire)
    BY <2>1, <2>2, <2>3, <2>4, PrecedesAppend
  <2>5. CASE a \notin Range(wire)
    <3>1. a \notin left /\ Precedes(records, a, x)
      BY <1>2, <2>5
    <3>2. \A k \in 1 .. i - 1 : records[k] # a
      BY <2>1, <3>1 DEF FirstReady
    <3>3. records[i] # x
      BY <2>2, <3>1, <3>2 DEF Precedes
    <3>4. Precedes(wire', a, x)
      BY <2>1, <2>2, <3>3, PrecedesAppend
    <3>5. /\ Len(queue') = Len(records) - i + 1
          /\ \A j \in 1 .. Len(records) - i + 1 : queue'[j] = records[i + j - 1]
      BY <2>1, <2>2
    <3>6. ASSUME NEW j \in 1 .. Len(queue'), queue'[j] = x
          PROVE  \E k \in 1 .. j - 1 : queue'[k] = a
      <4>1. records[i + j - 1] = x /\ i + j - 1 \in 1 .. Len(records)
        BY <2>2, <3>5, <3>6
      <4>2. PICK k \in 1 .. (i + j - 1) - 1 : records[k] = a
        BY <3>1, <4>1 DEF Precedes
      <4>3. k >= i
        BY <2>2, <3>2, <3>5, <4>2, SMTT(20)
      <4>7. i \in Nat /\ j \in Nat /\ k \in Nat /\ k <= i + j - 2
        BY <2>2, <3>5, <4>2, SMTT(20)
      <4>4. k - i + 1 \in 1 .. j - 1 /\ i + (k - i + 1) - 1 = k
        BY <4>3, <4>7, SMTT(20)
      <4>5. k - i + 1 \in 1 .. Len(records) - i + 1
        BY <2>2, <3>5, <4>4
      <4>6. queue'[k - i + 1] = a
        BY <3>5, <4>2, <4>4, <4>5
      <4> QED  BY <4>4, <4>6
    <3> QED  BY <3>4, <3>6 DEF Precedes
  <2> QED  BY <2>4, <2>5
<1>3. \/ /\ link # "down"
         /\ \E i \in DOMAIN records : /\ FirstReady(records, left, i)
                                     /\ queue' = SubSeq(records, i, Len(records))
                                     /\ wire' = Append(wire, records[i])
      \/ queue' = <<>> /\ wire' = wire
  BY Zenon DEF SendNext
<1> QED  BY <1>1, <1>2, <1>3

\* A drain sends the head of what it keeps, and keeps nothing without a
\* connection.
LEMMA SendNextFlow ==
  ASSUME NEW records \in Seq(Records), NEW left, NEW who, who # "none",
         who = "greeting" => link # "down",
         SendNext(records, left, who), wire \in Seq(Records), UNCHANGED received
  PROVE  /\ Sent \subseteq Sent'
         /\ link' = "down" <=> link = "down"
         /\ link' = "down" => queue' = <<>> /\ drainer' = "none"
         /\ queue' # <<>> => drainer' # "none" /\ Head(queue') \in Sent'
<1>1. CASE /\ link # "down" /\ UNCHANGED link /\ drainer' = who
           /\ \E i \in DOMAIN records : /\ queue' = SubSeq(records, i, Len(records))
                                       /\ wire' = Append(wire, records[i])
  <2>1. PICK i \in DOMAIN records : /\ queue' = SubSeq(records, i, Len(records))
                                    /\ wire' = Append(wire, records[i])
    BY <1>1
  <2>2. Len(records) \in Nat /\ i \in 1 .. Len(records) /\ records[i] \in Records
    OBVIOUS
  <2>3. Range(wire') = Range(wire) \cup {records[i]}
    BY <2>1, <2>2, AppendFacts
  <2>4. Head(queue') = records[i]
    BY <2>1, <2>2
  <2> QED  BY <1>1, <2>3, <2>4 DEF Sent
<1>2. CASE /\ link' = IF who = "greeting" THEN "open" ELSE link
           /\ queue' = <<>> /\ drainer' = "none" /\ UNCHANGED wire
  BY <1>2 DEF Sent
<1>3. \/ /\ link # "down" /\ UNCHANGED link /\ drainer' = who
         /\ \E i \in DOMAIN records : /\ queue' = SubSeq(records, i, Len(records))
                                     /\ wire' = Append(wire, records[i])
      \/ /\ link' = IF who = "greeting" THEN "open" ELSE link
         /\ queue' = <<>> /\ drainer' = "none" /\ UNCHANGED wire
  BY Zenon DEF SendNext
<1> QED  BY <1>1, <1>2, <1>3

\* Flow is an invariant: the attempts and what a drain skips belong to the
\* present connection.
LEMMA FlowStep ==
  ASSUME IInv, Flow, [Next]_vars
  PROVE  Flow'
<1>0. /\ pending \in Seq(Records) /\ queue \in Seq(Records) /\ wire \in Seq(Records)
  BY DEF IInv, Sound, Memory, Images
<1>1. CASE UNCHANGED vars
  BY <1>1 DEF vars, drainVars, network, Flow, Sent
<1>2. CASE \E s \in Subjects, state \in States : Enqueue(s, state) \/ EnqueueFails(s, state)
  <2>1. UNCHANGED <<attempted, link, drainer, queue, skip, wire, received>>
    BY <1>2 DEF Enqueue, EnqueueFails, drainVars, network
  <2> QED  BY <2>1 DEF Flow, Sent
<1>3. CASE Connect
  BY <1>3 DEF Connect, drainVars, network, Flow, Sent
<1>4. CASE \E who \in {"task", "greeting"} : StartDrain(who)
  <2>1. PICK who \in {"task", "greeting"} : StartDrain(who)
    BY <1>4
  <2>2. /\ SendNext(pending, attempted, who) /\ UNCHANGED <<attempted, received>>
        /\ skip' = attempted
        /\ who # "none" /\ (who = "greeting" => link # "down")
    BY <2>1 DEF StartDrain
  <2> QED  BY <1>0, <2>2, SendNextFlow DEF Flow
<1>5. CASE SendReturns
  <2>1. /\ SendNext(Tail(queue), skip, drainer) /\ queue # <<>>
        /\ MarkAttempted /\ UNCHANGED <<skip, received>>
    BY <1>5 DEF SendReturns
  <2>2. Tail(queue) \in Seq(Records)
    BY <1>0, <2>1, TailFacts
  <2>3. link # "down" /\ drainer # "none" /\ Head(queue) \in Sent
    BY <2>1 DEF Flow
  <2>4. attempted' \subseteq attempted \cup {Head(queue)}
    BY <2>1 DEF MarkAttempted
  <2> QED  BY <1>0, <2>1, <2>2, <2>3, <2>4, SendNextFlow DEF Flow
<1>6. CASE Receive
  <2>1. /\ UNCHANGED <<attempted, link, drainer, queue, skip>> /\ wire # <<>>
        /\ received' = received \cup {Head(wire)} /\ wire' = Tail(wire)
    BY <1>6 DEF Receive, drainVars
  <2>2. Range(wire) \subseteq Range(Tail(wire)) \cup {Head(wire)}
    BY <1>0, <2>1, TailRange
  <2>3. Sent \subseteq Sent'
    BY <2>1, <2>2 DEF Sent
  <2> QED  BY <2>1, <2>3 DEF Flow
<1>7. CASE OnOutcomeAck
  <2>1. /\ attempted' \subseteq attempted
        /\ UNCHANGED <<link, drainer, queue, skip, wire, received>>
    BY <1>7 DEF OnOutcomeAck, drainVars
  <2> QED  BY <2>1 DEF Flow, Sent
<1>8. CASE Disconnect \/ Crash
  BY <1>8 DEF Disconnect, Crash, Flow
<1>9. CASE Restart
  BY <1>9 DEF Restart, drainVars, network, Flow, Sent
<1> QED  BY <1>1, <1>2, <1>3, <1>4, <1>5, <1>6, <1>7, <1>8, <1>9 DEF Next

\* An outcome that may be admitted comes after the acceptance of its subject,
\* and an acceptance before every end of it.
LEMMA AdmittedInOrder ==
  ASSUME IInv, Order, running, NEW s \in Subjects, NEW state \in States,
         Admissible(s, state), NEW u \in Subjects, NEW t \in Terminal,
         Acceptance(u) \in Range(Admit(s, state).pending) \ received
  PROVE  LET a == Acceptance(u)
             x == Ending(u, t)
         IN /\ x \notin received
            /\ Precedes(pending, a, x) /\ Precedes(wire, a, x)
            /\ a \in Range(wire) \/ Precedes(queue, a, x)
            /\ Precedes(Admit(s, state).pending, a, x)
<1> DEFINE a == Acceptance(u)
           x == Ending(u, t)
           r == [subject |-> s, state |-> state]
<1>1. /\ pending \in Seq(Records) /\ queue \in Seq(Records) /\ wire \in Seq(Records)
      /\ r \in Records
      /\ \A q \in Range(pending) : Matches(states, q)
  BY DEF IInv, Sound, Memory, Images, Records
<1>2. PICK new : /\ new = Admit(s, state).pending
                 /\ new = IF r \in Range(pending) THEN pending ELSE Append(pending, r)
  BY DEF Admit
<1>3. Range(Append(pending, r)) = Range(pending) \cup {r}
  BY <1>1, AppendFacts
<1>4. CASE a \in Range(pending)
  <2>1. Ordered(a, x)
    BY <1>4, <1>2 DEF Held, Order
  <2>2. Precedes(new, a, x)
    BY <1>1, <1>2, <1>4, <2>1, PrecedesAppend DEF Ordered
  <2> QED  BY <1>2, <2>1, <2>2 DEF Ordered
<1>5. CASE a \notin Range(pending)
  <2>1. a = r
    BY <1>2, <1>3, <1>5
  <2>2. u = s /\ state = "accepted"
    BY <2>1 DEF Acceptance
  <2>3. states[u] = "none"
    BY <2>2, OutboxAssumption DEF Admissible
  <2>4. x.subject = u /\ x.state = t /\ t # "accepted" /\ t # "none"
    BY OutboxAssumption DEF Ending
  <2>5. x \notin Range(pending)
    BY <1>1, <2>3, <2>4 DEF Matches
  <2>6. x \notin UnderWay
    BY <2>3, <2>4 DEF IInv
  <2>7. x # r
    BY <2>2, <2>4
  <2>8. Precedes(pending, a, x) /\ Precedes(wire, a, x) /\ Precedes(queue, a, x)
    BY <1>1, <2>5, <2>6, PrecedesNothing DEF UnderWay
  <2>9. Precedes(new, a, x)
    BY <1>1, <1>2, <2>7, <2>8, PrecedesAppend
  <2> QED  BY <1>2, <2>6, <2>8, <2>9 DEF UnderWay
<1> QED  BY <1>4, <1>5

\* Nobody but an admission adds an acceptance to what is held.
LEMMA OrderAfterAck ==
  ASSUME IInv, Order, OnOutcomeAck
  PROVE  Order'
<1>1. /\ UNCHANGED <<queue, wire, received>> /\ acks # <<>>
      /\ pending \in Seq(Records) /\ acks \in Seq(Records)
  BY DEF OnOutcomeAck, drainVars, IInv, Sound, Memory, Images
<1>2. Head(acks) \in received
  BY <1>1, TailFacts DEF IInv
<1>3. CASE UNCHANGED <<memory, disk>>
  BY <1>1, <1>3 DEF memory, Order, Ordered, Held
<1>4. CASE \E i \in DOMAIN pending : pending[i] = Head(acks) /\ (Confirm(i) \/ FailToConfirm(i))
  <2>1. PICK i \in DOMAIN pending : pending[i] = Head(acks) /\ (Confirm(i) \/ FailToConfirm(i))
    BY <1>4
  <2>2. PICK rest : rest = RemoveAt(pending, i)
    OBVIOUS
  <2>3. PICK back : back = Append(rest, pending[i])
    OBVIOUS
  <2>4. /\ rest \in Seq(Records) /\ Range(rest) \subseteq Range(pending)
        /\ pending[i] \in Records /\ pending[i] \in Range(pending)
    BY <1>1, <2>2, RemoveAtFacts, SuffixFacts
  <2>5. Range(back) \subseteq Range(pending)
    BY <2>3, <2>4, AppendFacts
  <2>6. /\ pending' \in {rest, back}
        /\ disk'.pending \in {disk.pending, rest}
    BY <2>1, <2>2, <2>3 DEF Confirm, FailToConfirm
  <2>7. Held' \subseteq Held
    BY <1>1, <2>4, <2>5, <2>6 DEF Held
  <2>8. ASSUME NEW s \in Subjects, NEW t \in Terminal, Acceptance(s) \in Held'
        PROVE  Ordered(Acceptance(s), Ending(s, t))'
    <3> DEFINE a == Acceptance(s)
               x == Ending(s, t)
    <3>1. Ordered(a, x) /\ a \notin received /\ x \notin received
      BY <2>7, <2>8 DEF Held, Order, Ordered
    <3> HIDE DEF a, x
    <3>2. pending[i] # a /\ pending[i] # x
      BY <1>2, <2>1, <3>1
    <3>3. Precedes(rest, a, x)
      BY <1>1, <2>2, <3>1, <3>2, PrecedesRemove DEF Ordered
    <3>4. Precedes(back, a, x)
      BY <2>3, <2>4, <3>2, <3>3, PrecedesAppend
    <3>5. Ordered(a, x)'
      BY <1>1, <2>6, <3>1, <3>3, <3>4 DEF Ordered
    <3> QED  BY <3>5 DEF a, x
  <2> QED  BY <2>8 DEF Order
<1> QED  BY <1>3, <1>4 DEF OnOutcomeAck

\* Order is an invariant: no step lets an ending overtake its acceptance.
LEMMA OrderStep ==
  ASSUME NoTrim, IInv, Flow, Order, [Next]_vars
  PROVE  Order'
<1>0. /\ pending \in Seq(Records) /\ queue \in Seq(Records) /\ wire \in Seq(Records)
  BY DEF IInv, Sound, Memory, Images
<1>1. CASE UNCHANGED vars
  BY <1>1 DEF vars, memory, drainVars, network, Order, Ordered, Held
<1>2. ASSUME NEW s \in Subjects, NEW state \in States,
             Enqueue(s, state) \/ EnqueueFails(s, state)
      PROVE  Order'
  <2>1. PICK new : new = Admit(s, state).pending
    OBVIOUS
  <2>2. /\ running /\ Admissible(s, state)
        /\ UNCHANGED <<queue, wire, received>>
        /\ disk'.pending = new /\ pending' \in {pending, new}
    BY <1>2, <2>1 DEF Enqueue, EnqueueFails, Image, memory, drainVars, network
  <2>3. ASSUME NEW u \in Subjects, NEW t \in Terminal, Acceptance(u) \in Held'
        PROVE  Ordered(Acceptance(u), Ending(u, t))'
    <3> DEFINE r == [subject |-> s, state |-> state]
    <3>1. new = IF r \in Range(pending) THEN pending ELSE Append(pending, r)
      BY <2>1 DEF Admit
    <3>2. Range(pending) \subseteq Range(new)
      <4>1. r \in Records
        BY DEF Records
      <4> QED  BY <1>0, <3>1, <4>1, AppendFacts
    <3>3. Acceptance(u) \in Range(new) \ received
      BY <2>2, <2>3, <3>2 DEF Held
    <3>4. /\ Ending(u, t) \notin received
          /\ Precedes(pending, Acceptance(u), Ending(u, t))
          /\ Precedes(wire, Acceptance(u), Ending(u, t))
          /\ Acceptance(u) \in Range(wire) \/ Precedes(queue, Acceptance(u), Ending(u, t))
          /\ Precedes(new, Acceptance(u), Ending(u, t))
      BY <2>1, <2>2, <3>3, AdmittedInOrder
    <3> QED  BY <2>2, <3>4 DEF Ordered
  <2> QED  BY <2>3 DEF Order
<1>3. CASE Connect
  BY <1>3 DEF Connect, memory, drainVars, network, Order, Ordered, Held
<1>4. CASE (\E who \in {"task", "greeting"} : StartDrain(who)) \/ SendReturns
  <2>1. UNCHANGED <<pending, disk, received>>
    BY <1>4 DEF StartDrain, SendReturns, memory
  <2>2. ASSUME NEW s \in Subjects, NEW t \in Terminal, Acceptance(s) \in Held'
        PROVE  Ordered(Acceptance(s), Ending(s, t))'
    <3> DEFINE a == Acceptance(s)
               x == Ending(s, t)
    <3>1. Ordered(a, x) /\ a \notin received
      BY <2>1, <2>2 DEF Held, Order
    <3> HIDE DEF a, x
    <3>2. Precedes(wire', a, x) /\ (a \in Range(wire') \/ Precedes(queue', a, x))
      <4>1. CASE \E who \in {"task", "greeting"} : StartDrain(who)
        <5>1. PICK who : SendNext(pending, attempted, who)
          BY <4>1 DEF StartDrain
        <5>2. link # "down" /\ a \in attempted => a \in Range(wire)
          BY <3>1 DEF Flow, Sent
        <5> QED  BY <1>0, <3>1, <5>1, <5>2, SendNextOrder DEF Ordered
      <4>2. CASE SendReturns
        <5>1. SendNext(Tail(queue), skip, drainer) /\ queue # <<>>
          BY <4>2 DEF SendReturns
        <5>2. /\ link # "down" /\ a \in skip => a \in Range(wire)
              /\ Head(queue) \in Sent
          BY <3>1, <5>1 DEF Flow, Sent
        <5>3. Tail(queue) \in Seq(Records)
          BY <1>0, <5>1, TailFacts
        <5>4. a \in Range(wire) \/ Precedes(Tail(queue), a, x)
          BY <1>0, <3>1, <5>1, <5>2, PrecedesTail DEF Ordered, Sent
        <5> QED  BY <1>0, <3>1, <5>1, <5>2, <5>3, <5>4, SendNextOrder DEF Ordered
      <4> QED  BY <1>4, <4>1, <4>2
    <3>3. Ordered(a, x)'
      BY <2>1, <3>1, <3>2 DEF Ordered
    <3> QED  BY <3>3 DEF a, x
  <2> QED  BY <2>2 DEF Order
<1>5. CASE Receive
  <2>1. /\ UNCHANGED <<pending, disk, queue>> /\ wire # <<>>
        /\ received' = received \cup {Head(wire)} /\ wire' = Tail(wire)
    BY <1>5 DEF Receive, memory, drainVars
  <2>2. ASSUME NEW s \in Subjects, NEW t \in Terminal, Acceptance(s) \in Held'
        PROVE  Ordered(Acceptance(s), Ending(s, t))'
    <3> DEFINE a == Acceptance(s)
               x == Ending(s, t)
    <3>1. Ordered(a, x) /\ a # Head(wire)
      BY <2>1, <2>2 DEF Held, Order
    <3> HIDE DEF a, x
    <3>2. /\ Precedes(Tail(wire), a, x) /\ Head(wire) # x
          /\ a \in Range(wire) => a \in Range(Tail(wire))
      BY <1>0, <2>1, <3>1, PrecedesTail, TailRange DEF Ordered
    <3>3. Ordered(a, x)'
      BY <2>1, <3>1, <3>2 DEF Ordered
    <3> QED  BY <3>3 DEF a, x
  <2> QED  BY <2>2 DEF Order
<1>6. CASE OnOutcomeAck
  BY <1>6, OrderAfterAck
<1>7. CASE Disconnect \/ Crash \/ Restart
  <2>1. /\ UNCHANGED <<disk, received>>
        /\ pending' \in {pending, <<>>, disk.pending}
        /\ \/ UNCHANGED <<wire, queue>>
           \/ wire' = <<>> /\ queue' = <<>>
    BY <1>7 DEF Disconnect, Crash, Restart, memory, drainVars, network
  <2>2. Held' \subseteq Held
    BY <2>1 DEF Held, Range
  <2>3. \A a, x : Precedes(<<>>, a, x)
    BY DEF Precedes
  <2>4. ASSUME NEW s \in Subjects, NEW t \in Terminal, Acceptance(s) \in Held'
        PROVE  Ordered(Acceptance(s), Ending(s, t))'
    <3>1. Ordered(Acceptance(s), Ending(s, t))
      BY <2>2, <2>4 DEF Order
    <3> QED  BY <2>1, <2>3, <3>1 DEF Ordered
  <2> QED  BY <2>4 DEF Order
<1> QED  BY <1>1, <1>2, <1>3, <1>4, <1>5, <1>6, <1>7 DEF Next

\* A backend never learns of the end of a command whose acceptance it has
\* still to get.
THEOREM AcceptanceArrivesFirst ==
  ASSUME NoTrim
  PROVE  Spec => []AcceptedArrivesFirst
<1>1. Init => Order /\ Flow
  <2>1. ASSUME Init  PROVE Held = {}
    BY <2>1 DEF Init, Empty, Held, Range
  <2> QED  BY <2>1 DEF Init, Order, Flow
<1>2. IInv /\ Order => AcceptedArrivesFirst
  <2>1. ASSUME IInv, Order, NEW s \in Subjects,
               Acceptance(s) \in Range(pending) \ received,
               NEW r \in received, r.subject = s
        PROVE  FALSE
    <3>1. r \in Records
      BY <2>1 DEF IInv
    <3>2. r = [subject |-> s, state |-> r.state] /\ r.state \in States
      BY <2>1, <3>1 DEF Records
    <3>3. r.state \in Terminal
      BY <2>1, <3>2 DEF States, Acceptance
    <3>4. Ordered(Acceptance(s), Ending(s, r.state))
      BY <2>1, <3>3 DEF Order, Held
    <3> QED  BY <2>1, <3>2, <3>4 DEF Ordered, Ending
  <2> QED  BY <2>1 DEF AcceptedArrivesFirst, Acceptance
<1> QED  BY <1>1, <1>2, InitIInv, NextIInv, FlowStep, OrderStep, PTL DEF Spec
=============================================================================
