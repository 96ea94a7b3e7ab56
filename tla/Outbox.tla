------------------------------- MODULE Outbox -------------------------------
(***************************************************************************)
(* The durable outcome outbox and its delivery over a connection that is   *)
(* lost at any time, by a process that dies at any time:                   *)
(*   - OutcomeOutbox (outbox.py): the ledger of subject states, the        *)
(*     pending records, the records attempted on this connection, and the  *)
(*     file that _persist replaces and _load validates;                    *)
(*   - _drain_outcome_outbox, _on_gateway_connected and _on_outcome_ack    *)
(*     (client_commands.py);                                               *)
(*   - the backend, as far as it records and acknowledges outcomes.        *)
(* An outcome id is a function of subject and state, so a record stands    *)
(* for its own id. A failure before os.replace leaves memory and file as   *)
(* they were, so it is a stutter; a process that dies inside _persist is   *)
(* one that dies before or after the whole call.                           *)
(***************************************************************************)
EXTENDS Naturals, SequencesExt

CONSTANTS KeyOrder,    \* the subjects, in the order of their JSON keys
          Terminal,    \* the members of TERMINAL_STATES in use
          MaxEntries   \* MAX_OUTBOX_ENTRIES

Subjects == Range(KeyOrder)
States == Terminal \cup {"accepted"}
Records == [subject : Subjects, state : States]
Images == [states : [Subjects -> States \cup {"none"}], pending : Seq(Records)]

ASSUME OutboxAssumption ==
  /\ KeyOrder \in Seq(Subjects) /\ IsInjective(KeyOrder)
  /\ "accepted" \notin Terminal
  /\ "none" \notin Terminal
  /\ MaxEntries \in Nat

VARIABLES
  running,    \* the client process is up, its ledger loaded
  states,     \* Subjects -> _states, "none" for an absent key
  order,      \* the keys of _states in insertion order
  pending,    \* _pending, in insertion order
  attempted,  \* _attempted
  disk,       \* the content of outcomes.json
  link,       \* "down", "greeting" (in _on_gateway_connected) or "open"
  tasks,      \* background drains that wait for _outbox_drain_lock
  drainer,    \* who holds it: "none", "task" or "greeting"
  queue,      \* what the drain has left of its snapshot; it is sending the head
  skip,       \* what was attempted when the snapshot was taken
  wire,       \* records written to the socket
  acks,       \* robot:outcome-ack messages on their way back
  received    \* the records the backend has

memory == <<states, order, pending>>
drainVars == <<tasks, drainer, queue, skip>>
network == <<wire, acks, received>>
vars == <<running, memory, attempted, disk, link, drainVars, network>>

TypeOK ==
  /\ running \in BOOLEAN
  /\ states \in [Subjects -> States \cup {"none"}]
  /\ order \in Seq(Subjects)
  /\ pending \in Seq(Records)
  /\ attempted \subseteq Range(pending)
  /\ disk \in Images
  /\ link \in {"down", "greeting", "open"}
  /\ tasks \in Nat
  /\ drainer \in {"none", "task", "greeting"}
  /\ queue \in Seq(Records)
  /\ skip \subseteq Records
  /\ wire \in Seq(Records)
  /\ acks \in Seq(Records)
  /\ received \subseteq Records

Empty == [states |-> [s \in Subjects |-> "none"], pending |-> <<>>]

Init ==
  /\ running = TRUE
  /\ states = Empty.states /\ order = <<>> /\ pending = <<>>
  /\ attempted = {}
  /\ disk = Empty
  /\ link = "down"
  /\ tasks = 0 /\ drainer = "none" /\ queue = <<>> /\ skip = {}
  /\ wire = <<>> /\ acks = <<>> /\ received = {}

-----------------------------------------------------------------------------
(* The ledger.                                                             *)

Keys(st) == {s \in Subjects : st[s] # "none"}

\* Mutant: a terminal state may be replaced.
AdmissibleAlways(s, state) == states[s] # state

\* enqueue returns None for a subject that is terminal, and for a second
\* acceptance.
Admissible(s, state) ==
  \/ states[s] = "none"
  \/ states[s] = "accepted" /\ state \in Terminal

\* _trim: of too many keys the oldest terminal ones go, as many as needed.
Trimmed(st, keys) ==
  {s \in Keys(st) : \E i \in DOMAIN keys :
     /\ keys[i] = s
     /\ st[s] \in Terminal
     /\ Cardinality({j \in 1 .. i : st[keys[j]] \in Terminal})
          + MaxEntries <= Cardinality(Keys(st))}

\* Mutant: the newest record is delivered first.
AdmitInFront(s, state) ==
  LET st   == [states EXCEPT ![s] = state]
      keys == IF states[s] = "none" THEN Append(order, s) ELSE order
  IN [states |-> st, order |-> keys,
      pending |-> <<[subject |-> s, state |-> state]>> \o pending]

\* What enqueue makes of the ledger, before it persists it.
Admit(s, state) ==
  LET r    == [subject |-> s, state |-> state]
      st   == [states EXCEPT ![s] = state]
      keys == IF states[s] = "none" THEN Append(order, s) ELSE order
      gone == IF Cardinality(Keys(st)) > MaxEntries THEN Trimmed(st, keys) ELSE {}
  IN [states  |-> [x \in Subjects |-> IF x \in gone THEN "none" ELSE st[x]],
      order   |-> IF gone = {} THEN keys ELSE SelectSeq(keys, LAMBDA x : x \notin gone),
      pending |-> IF r \in Range(pending) THEN pending ELSE Append(pending, r)]

Image(new) == [states |-> new.states, pending |-> new.pending]

\* The pending limit is checked after the trim; beyond it enqueue raises and
\* restores the ledger.
Fits(new) == Len(new.pending) <= MaxEntries

\* enqueue, and the background drain that _queue_outcome starts.
Enqueue(s, state) ==
  /\ running /\ Admissible(s, state)
  /\ LET new == Admit(s, state)
     IN /\ Fits(new)
        /\ states' = new.states /\ order' = new.order /\ pending' = new.pending
        /\ disk' = Image(new)
  /\ tasks' = tasks + 1
  /\ UNCHANGED <<running, attempted, link, drainer, queue, skip, network>>

\* Mutant: memory keeps what could not be persisted.
EnqueueFailsUnrestored(s, state) ==
  /\ running /\ Admissible(s, state)
  /\ LET new == Admit(s, state)
     IN /\ Fits(new)
        /\ states' = new.states /\ order' = new.order /\ pending' = new.pending
  /\ UNCHANGED <<running, attempted, disk, link, drainVars, network>>

\* _persist fails after os.replace (the directory fsync): memory is restored
\* and the caller gets an error, but the file has the new content.
EnqueueFails(s, state) ==
  /\ running /\ Admissible(s, state)
  /\ LET new == Admit(s, state) IN Fits(new) /\ disk' = Image(new)
  /\ UNCHANGED <<running, memory, attempted, link, drainVars, network>>

-----------------------------------------------------------------------------
(* Delivery.                                                               *)

\* Mutant: attempts of the previous connection are remembered.
ConnectRemembers ==
  /\ running /\ link = "down"
  /\ link' = "greeting"
  /\ UNCHANGED <<running, memory, attempted, disk, drainVars, network>>

\* The claim was accepted: reset_delivery_attempts, then a drain that the
\* gateway awaits before it receives anything.
Connect ==
  /\ running /\ link = "down"
  /\ link' = "greeting"
  /\ attempted' = {}
  /\ UNCHANGED <<running, memory, disk, drainVars, network>>

\* i is the first of records that was not attempted when the snapshot was taken.
FirstReady(records, left, i) ==
  /\ i \in DOMAIN records
  /\ records[i] \notin left
  /\ \A j \in 1 .. i - 1 : records[j] \in left

\* send_event of the next ready record; the drain ends when none is left or
\* when there is no connection to write to.
SendNext(records, left, who) ==
  \/ /\ link # "down"
     /\ \E i \in DOMAIN records :
          /\ FirstReady(records, left, i)
          /\ queue' = SubSeq(records, i, Len(records))
          /\ wire' = Append(wire, records[i])
     /\ drainer' = who
     /\ UNCHANGED link
  \/ /\ link = "down" \/ \A i \in DOMAIN records : records[i] \in left
     /\ queue' = <<>>
     /\ drainer' = "none"
     /\ link' = IF who = "greeting" THEN "open" ELSE link
     /\ UNCHANGED wire

\* A drain gets the lock and takes its snapshot, ready_for_delivery.
StartDrain(who) ==
  /\ running /\ drainer = "none"
  /\ \/ who = "task" /\ tasks > 0 /\ tasks' = tasks - 1
     \/ who = "greeting" /\ link = "greeting" /\ UNCHANGED tasks
  /\ skip' = attempted
  /\ SendNext(pending, attempted, who)
  /\ UNCHANGED <<running, memory, attempted, disk, acks, received>>

\* mark_attempted
MarkAttempted ==
  attempted' = IF Head(queue) \in Range(pending) THEN attempted \cup {Head(queue)}
               ELSE attempted

\* Mutant: a write to the socket counts as delivery.
SendReturnsDelivered ==
  /\ running /\ queue # <<>>
  /\ LET rest == SelectSeq(pending, LAMBDA r : r # Head(queue))
     IN pending' = rest /\ disk' = [states |-> states, pending |-> rest]
  /\ attempted' = attempted \ {Head(queue)}
  /\ SendNext(Tail(queue), skip, drainer)
  /\ UNCHANGED <<running, states, order, tasks, skip, acks, received>>

\* The suspended send returns True, and the drain goes on to its next record.
SendReturns ==
  /\ running /\ queue # <<>>
  /\ MarkAttempted
  /\ SendNext(Tail(queue), skip, drainer)
  /\ UNCHANGED <<running, memory, disk, tasks, skip, acks, received>>

\* The backend stores a record, idempotently, and acknowledges it.
Receive ==
  /\ wire # <<>>
  /\ received' = received \cup {Head(wire)}
  /\ acks' = Append(acks, Head(wire))
  /\ wire' = Tail(wire)
  /\ UNCHANGED <<running, memory, attempted, disk, link, drainVars>>

\* Mutant: the acknowledged record takes its subject out of the ledger.
ConfirmForgets(i) ==
  /\ pending' = RemoveAt(pending, i)
  /\ states' = [states EXCEPT ![pending[i].subject] = "none"]
  /\ disk' = [states |-> states', pending |-> pending']
  /\ order' = SelectSeq(order, LAMBDA s : s # pending[i].subject)

\* mark_confirmed: the record is removed and the ledger persisted.
Confirm(i) ==
  /\ pending' = RemoveAt(pending, i)
  /\ disk' = [states |-> states, pending |-> pending']
  /\ UNCHANGED <<states, order>>

\* Its persistence fails, before or after os.replace: the record is put back,
\* as the last of the pending ones.
FailToConfirm(i) ==
  /\ pending' = Append(RemoveAt(pending, i), pending[i])
  /\ disk' \in {disk, [states |-> states, pending |-> RemoveAt(pending, i)]}
  /\ UNCHANGED <<states, order>>

\* _on_outcome_ack; an unknown id is ignored.
OnOutcomeAck ==
  /\ link = "open" /\ acks # <<>>
  /\ acks' = Tail(acks)
  /\ attempted' = attempted \ {Head(acks)}
  /\ \/ /\ Head(acks) \notin Range(pending)
        /\ UNCHANGED <<memory, disk>>
     \/ \E i \in DOMAIN pending :
          /\ pending[i] = Head(acks)
          /\ Confirm(i) \/ FailToConfirm(i)
  /\ UNCHANGED <<running, link, drainVars, wire, received>>

-----------------------------------------------------------------------------
(* Losing the connection, the process, and coming back.                    *)

\* The connection is lost with everything in flight: the suspended send
\* raises, send_event returns False and the drain returns.
Disconnect ==
  /\ link # "down"
  /\ link' = "down"
  /\ drainer' = "none" /\ queue' = <<>> /\ wire' = <<>> /\ acks' = <<>>
  /\ UNCHANGED <<running, memory, attempted, disk, tasks, skip, received>>

\* The process ends, by a crash, an update or a shutdown.
Crash ==
  /\ running
  /\ running' = FALSE
  /\ states' = Empty.states /\ order' = <<>> /\ pending' = <<>> /\ attempted' = {}
  /\ link' = "down" /\ tasks' = 0 /\ drainer' = "none" /\ queue' = <<>> /\ skip' = {}
  /\ wire' = <<>> /\ acks' = <<>>
  /\ UNCHANGED <<disk, received>>

\* What _load accepts.
Loadable(image) ==
  /\ Cardinality(Keys(image.states)) <= MaxEntries
  /\ Len(image.pending) <= MaxEntries
  /\ \A r \in Range(image.pending) :
       \/ image.states[r.subject] = r.state
       \/ r.state = "accepted" /\ image.states[r.subject] \in Terminal

\* OutcomeOutbox.__init__ in a new process. JSON sorts the keys of an object,
\* so the states come back in the order of their keys. A file that is refused
\* ends the new process.
Restart ==
  /\ ~running /\ Loadable(disk)
  /\ running' = TRUE
  /\ states' = disk.states /\ pending' = disk.pending
  /\ order' = SelectSeq(KeyOrder, LAMBDA s : disk.states[s] # "none")
  /\ UNCHANGED <<attempted, disk, link, drainVars, network>>

-----------------------------------------------------------------------------

Next ==
  \/ \E s \in Subjects, state \in States : Enqueue(s, state) \/ EnqueueFails(s, state)
  \/ Connect
  \/ \E who \in {"task", "greeting"} : StartDrain(who)
  \/ SendReturns
  \/ Receive
  \/ OnOutcomeAck
  \/ Disconnect
  \/ Crash
  \/ Restart

Spec == Init /\ [][Next]_vars

\* The event loop runs its tasks and the backend reads its socket.
FairSpec == /\ Spec
            /\ WF_vars(StartDrain("task")) /\ WF_vars(StartDrain("greeting"))
            /\ WF_vars(SendReturns)
            /\ WF_vars(Receive)

-----------------------------------------------------------------------------
(* Properties.                                                             *)

\* A terminal outcome the backend has learned is the one the file records, so
\* no crash, no rolled-back write and no retry can make the client report
\* another one.
DeliveredIsDurable ==
  \A r \in received : r.state \in Terminal => disk.states[r.subject] = r.state

\* The last state of every subject is with the backend or still pending.
Kept(st, records) ==
  \A s \in Subjects :
    st[s] # "none" => [subject |-> s, state |-> st[s]] \in received \cup Range(records)

\* An outcome that reached the file is never lost: the backend has it, or it
\* is still in the pending list of the file and, while the process is up, of
\* the ledger, whatever was acknowledged, retried or rolled back in between.
NothingIsLost == Kept(disk.states, disk.pending) /\ Kept(states, pending)

\* protocol.md: "Unconfirmed entries are resent after reconnect or process
\* restart": what _persist wrote, in whatever state of the ledger, is accepted
\* by _load.
ReloadSucceeds == Loadable(disk)

\* A backend never sees the end of a command before its acceptance, unless the
\* acceptance was dropped before it was persisted: order survives reconnects,
\* reloads and failed acknowledgements.
AcceptedArrivesFirst ==
  \A s \in Subjects :
    LET accepted == [subject |-> s, state |-> "accepted"]
    IN accepted \in Range(pending) \ received
         => \A r \in received : r.subject # s

\* At-least-once delivery: once the process and its connection stay up, the
\* backend catches up with all that is pending, again and again.
EveryOutcomeArrives ==
  <>[](running /\ link # "down") => []<>(Range(pending) \subseteq received)

AnyOf(S) == CHOOSE t \in S : TRUE

\* What a backend that got these records knows of a subject.
Known(got, s) ==
  LET ended == {t \in Terminal : [subject |-> s, state |-> t] \in got}
  IN IF ended # {} THEN AnyOf(ended)
     ELSE IF [subject |-> s, state |-> "accepted"] \in got THEN "accepted"
     ELSE "none"

Lifecycle == INSTANCE OutcomeLifecycle
               WITH outcome <- [s \in Subjects |-> Known(received, s)]

\* Delivery, deduplicated by outcome id, implements the lifecycle.
ImplementsLifecycle == Lifecycle!Spec
=============================================================================
