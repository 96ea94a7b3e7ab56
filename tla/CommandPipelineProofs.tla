------------------------ MODULE CommandPipelineProofs ------------------------
(***************************************************************************)
(* Proofs about CommandPipeline, for any commands and any bounds. The      *)
(* inductive invariant says where an action id may be: unseen, in the      *)
(* queue, with the loop, or done for ever, and what each place rules out.  *)
(* The last theorem says that its permits keep the promise SafetyStop      *)
(* makes, CommandAuthority.                                                *)
(***************************************************************************)
EXTENDS CommandPipeline, FiniteSetTheorems, TLAPS

Ledgers == [Ids -> [state : States, code : Codes]]

\* The outcomes of a command that never ran.
Ended == {"superseded", "cancelled_by_stop"}

-----------------------------------------------------------------------------
(* The inductive invariant.                                                *)

\* Types, in parts a step preserves together. The queue is finite.
QueueTypes ==
  /\ queue \subseteq Items
  /\ IsFiniteSet(queue)
  /\ Cardinality(queue) <= Capacity
  /\ arrivals \in Nat
  /\ latest \in Nat

FlagTypes ==
  /\ deadline \in BOOLEAN
  /\ latched \in BOOLEAN
  /\ media \in BOOLEAN
  /\ permitted \in BOOLEAN
  /\ driving \in BOOLEAN

CounterTypes ==
  /\ stopTasks \in Nat
  /\ deliveries \in 0 .. MaxDeliveries
  /\ stops \in 0 .. MaxStops

PlaceTypes ==
  /\ seen \subseteq Ids
  /\ loop \in {"alive", "dead"}
  /\ current \in Ids \cup {Nobody}
  /\ phase \in Phases
  /\ runs \in [Ids -> Nat]
  /\ overtaken \subseteq Motion

LedgerTypes == outcome \in Ledgers /\ failures \in 0 .. MaxFailures

Types == QueueTypes /\ FlagTypes /\ CounterTypes /\ PlaceTypes /\ LedgerTypes

\* Only motion is numbered, and queued motion has the newest number.
Numbers ==
  \A item \in queue :
    /\ item.number > 0 <=> item.id \in Motion
    /\ item.number > 0 => item.number = latest

\* What has not run: it is not with the loop, not overtaken, not ended.
Fresh(id) ==
  /\ id # current
  /\ runs[id] = 0
  /\ id \notin overtaken
  /\ outcome[id].state \notin Ended

\* Unseen ids are fresh, queued ones are seen, fresh and queued once.
Places ==
  /\ \A id \in Ids \ seen : Fresh(id)
  /\ \A item \in queue : item.id \in seen /\ Fresh(item.id)
  /\ \A item, other \in queue : item.id = other.id => item = other

\* What the loop works on. Its permit dies when it is overtaken.
Loop ==
  /\ phase = "idle" <=> current = Nobody
  /\ current # Nobody => outcome[current].state \notin Ended
  /\ phase = "issued" => runs[current] = 0
  /\ phase = "issued" /\ permitted => current \notin overtaken

\* What happened to each id.
History ==
  \A id \in Ids :
    /\ runs[id] <= 1
    /\ id \in overtaken => runs[id] = 0
    /\ outcome[id].state \in Ended => runs[id] = 0

IInv == Types /\ Numbers /\ Places /\ Loop /\ History

-----------------------------------------------------------------------------
(* Outcomes.                                                               *)

\* A step after which only ids of the given set may have ended unrun.
EndsOnly(ids) ==
  /\ outcome' \in Ledgers
  /\ failures' \in 0 .. MaxFailures
  /\ \A id \in Ids : outcome'[id].state \in Ended =>
       outcome[id].state \in Ended \/ id \in ids

\* A ledger that differs from an earlier one at most in that some of the given
\* ids now have the given state.
Writes(after, before, ids, st) ==
  /\ after \in Ledgers
  /\ \A x \in Ids : after[x].state = before[x].state \/ (x \in ids /\ after[x].state = st)

\* Reporting writes the state reported to ids that are reported on.
LEMMA ReportedWrites ==
  ASSUME NEW ledger \in Ledgers, NEW ids, NEW st \in States, NEW cd \in Codes
  PROVE  Writes(Reported(ledger, ids, st, cd), ledger, ids, st)
<1> DEFINE r == Reported(ledger, ids, st, cd)
<1>1. r = [x \in Ids |-> IF x \in ids /\ ledger[x].state \in {"none", "accepted"} \ {st}
                         THEN [state |-> st, code |-> cd] ELSE ledger[x]]
  BY DEF Reported
<1>2. \A x \in Ids : ledger[x] \in [state : States, code : Codes]
  BY DEF Ledgers
<1>3. [state |-> st, code |-> cd] \in [state : States, code : Codes]
  OBVIOUS
<1> HIDE DEF r
<1>4. r \in Ledgers
  BY <1>1, <1>2, <1>3 DEF Ledgers
<1>5. \A x \in Ids : r[x].state = ledger[x].state \/ (x \in ids /\ r[x].state = st)
  BY <1>1
<1>6. Writes(r, ledger, ids, st)
  BY <1>4, <1>5 DEF Writes
<1> QED  BY <1>6 DEF r

\* No emission but that of "superseded" or "cancelled_by_stop" ends an id so.
LEMMA EmitEnds ==
  ASSUME outcome \in Ledgers, failures \in 0 .. MaxFailures,
         NEW ids, NEW before \in Ledgers, NEW after \in Ledgers,
         \A id \in Ids : before[id].state \in Ended =>
            outcome[id].state \in Ended \/ id \in ids,
         \A id \in Ids : after[id].state \in Ended =>
            outcome[id].state \in Ended \/ id \in ids,
         Emit(before, after)
  PROVE  EndsOnly(ids)
<1>1. outcome' = after \/ outcome' = outcome \/ outcome' = before
  BY DEF Emit
<1>2. failures' \in 0 .. MaxFailures
  BY PipelineAssumption DEF Emit
<1> QED  BY <1>1, <1>2 DEF EndsOnly

\* Either way in which _run_hardware_command ends a command leaves the loop
\* in one of its two states.
LEMMA EndWithEnds ==
  ASSUME outcome \in Ledgers, failures \in 0 .. MaxFailures,
         NEW id \in Ids, NEW st \in States \ Ended, NEW cd \in Codes,
         EndWith(id, st, cd) \/ TryEndWith(id, st, cd)
  PROVE  EndsOnly({}) /\ loop' \in {"alive", "dead"}
<1> DEFINE good == Reported(outcome, {id}, st, cd)
           bad == Reported(outcome, {id}, "rejected", "hardware_error")
<1>1. outcome' = good \/ outcome' = bad \/ outcome' = outcome
  BY DEF EndWith, TryEndWith
<1>2. /\ failures' \in 0 .. MaxFailures
      /\ loop' \in {"alive", "dead"}
  BY PipelineAssumption DEF EndWith, TryEndWith
<1>0. st \in States /\ outcome \in Ledgers /\ cd \in Codes
  OBVIOUS
<1>3. Writes(good, outcome, {id}, st)
  BY <1>0, ReportedWrites, Zenon
<1>4. "rejected" \in States /\ "hardware_error" \in Codes
  BY DEF States, Codes
<1>5. Writes(bad, outcome, {id}, "rejected")
  BY <1>0, <1>4, ReportedWrites, Zenon
<1>6. st \notin Ended /\ "rejected" \notin Ended
  BY DEF Ended
<1> HIDE DEF good, bad
<1> QED  BY <1>0, <1>1, <1>2, <1>3, <1>5, <1>6 DEF EndsOnly, Writes

-----------------------------------------------------------------------------

\* The invariant holds initially.
LEMMA InitIInv == Init => IInv
<1> SUFFICES ASSUME Init PROVE IInv
  OBVIOUS
<1> USE PipelineAssumption DEF Init
<1>1. QueueTypes
  BY FS_EmptySet DEF QueueTypes
<1>2. FlagTypes
  BY DEF FlagTypes
<1>3. CounterTypes
  BY DEF CounterTypes
<1>4. PlaceTypes
  BY DEF PlaceTypes, Phases
<1>5. None \in [state : States, code : Codes]
  BY DEF None, States, Codes
<1>6. LedgerTypes
  BY <1>5 DEF LedgerTypes, Ledgers
<1>7. \A id \in Ids : outcome[id].state \notin Ended /\ id # Nobody
  BY DEF None, Ended
<1>8. Numbers /\ Places /\ Loop /\ History
  BY <1>7 DEF Numbers, Places, Fresh, Loop, History
<1> QED  BY <1>1, <1>2, <1>3, <1>4, <1>6, <1>8 DEF IInv, Types

\* A step that moves no id, ends none unrun and renews no permit keeps where
\* everything is.
LEMMA QuietStep ==
  ASSUME IInv, EndsOnly({}),
         UNCHANGED <<queue, latest, current, phase, runs, overtaken>>,
         seen \subseteq seen',
         permitted' => permitted
  PROVE  (Numbers /\ Places /\ Loop /\ History)'
<1> USE DEF IInv
<1>1. \A id \in Ids : Fresh(id) => Fresh(id)'
  BY DEF EndsOnly, Fresh
<1>2. \A item \in queue : item.id \in Ids
  BY DEF Types, QueueTypes, Items
<1>3. Numbers'
  BY DEF Numbers
<1>4. Places'
  BY <1>1, <1>2 DEF Places
<1>5. current # Nobody => current \in Ids
  BY DEF Types, PlaceTypes
<1>6. Loop'
  BY <1>5 DEF Loop, EndsOnly
<1>7. History'
  BY DEF History, EndsOnly
<1> QED  BY <1>3, <1>4, <1>6, <1>7

\* A step that leaves the ledger alone ends nothing.
LEMMA LedgerUnchanged ==
  ASSUME LedgerTypes, UNCHANGED ledgerVars, NEW ids
  PROVE  EndsOnly(ids)
BY DEF LedgerTypes, ledgerVars, EndsOnly

\* Rejecting a delivery ends nothing unrun.
LEMMA RejectionEnds ==
  ASSUME LedgerTypes, NEW id \in Ids, NEW cd \in Codes,
         Emit(outcome, Reported(outcome, {id}, "rejected", cd))
  PROVE  EndsOnly({})
<1> DEFINE after == Reported(outcome, {id}, "rejected", cd)
<1>1. "rejected" \in States /\ "rejected" \notin Ended
  BY DEF States, Ended
<1>2. Writes(after, outcome, {id}, "rejected")
  <2>1. outcome \in Ledgers
    BY DEF LedgerTypes
  <2> QED  BY <1>1, <2>1, ReportedWrites, Zenon
<1>3. Emit(outcome, after)
  OBVIOUS
<1> HIDE DEF after
<1>4. outcome \in Ledgers /\ failures \in 0 .. MaxFailures
  BY DEF LedgerTypes
<1>5. /\ after \in Ledgers
      /\ \A x \in Ids : after[x].state \in Ended => outcome[x].state \in Ended \/ x \in {}
  BY <1>1, <1>2 DEF Writes
<1> QED  BY <1>3, <1>4, <1>5, EmitEnds

\* Removing items from the queue keeps its types.
LEMMA SmallerQueue ==
  ASSUME QueueTypes, NEW items
  PROVE  /\ queue \ items \subseteq Items
         /\ IsFiniteSet(queue \ items)
         /\ Cardinality(queue \ items) <= Capacity
         /\ Cardinality(queue \ items) \in Nat
<1>1. IsFiniteSet(queue) /\ queue \ items \subseteq queue
  BY DEF QueueTypes
<1>2. /\ IsFiniteSet(queue \ items)
      /\ Cardinality(queue \ items) <= Cardinality(queue)
      /\ Cardinality(queue) \in Nat
      /\ Cardinality(queue \ items) \in Nat
  BY <1>1, FS_Subset, FS_CardinalityType
<1>3. Capacity \in Nat /\ Cardinality(queue) <= Capacity /\ queue \subseteq Items
  BY PipelineAssumption DEF QueueTypes
<1> QED  BY <1>2, <1>3

\* A new command: it supersedes queued motion and takes its place, or is
\* refused by a full queue.
LEMMA DispatchStep ==
  ASSUME IInv, NEW id \in Ids, Dispatch(id)
  PROVE  IInv'
<1> DEFINE older == SupersededBy(id)
           kept == queue \ older
           item == [id |-> id, order |-> Place(kept),
                    number |-> IF id \in Motion THEN latest + 1 ELSE 0]
           known == Reported(outcome, IdsOf(older), "superseded", "superseded")
           admitted == Reported(known, {id}, "accepted", "accepted")
           refused == Reported(known, {id}, "rejected", "refused")
<1>1. /\ QueueTypes /\ FlagTypes /\ CounterTypes /\ PlaceTypes /\ LedgerTypes
      /\ Numbers /\ Places /\ Loop /\ History
  BY DEF IInv, Types
<1>2. /\ id \notin seen
      /\ seen' = seen \cup {id}
      /\ latest' = IF id \in Motion THEN latest + 1 ELSE latest
      /\ overtaken' = overtaken \cup IdsOf(older)
      /\ \/ HasRoom(kept) /\ queue' = kept \cup {item} /\ arrivals' = Place(kept) + 1
         \/ queue' = kept /\ arrivals' = arrivals
      /\ Emit(known, admitted) \/ Emit(known, refused)
      /\ UNCHANGED <<current, phase, permitted, loop, runs, driving, latched, media,
                     stopTasks, stops>>
  BY DEF Dispatch, Remember, loopVars
<1>3. /\ deadline' \in BOOLEAN
      /\ deliveries' \in 0 .. MaxDeliveries
  BY <1>1, PipelineAssumption DEF Dispatch, Delivered, CounterTypes
<1>4. older \subseteq MotionItems /\ MotionItems \subseteq queue
      /\ (id \in Motion => older = MotionItems)
      /\ \A x \in kept : id \in Motion => ~(x.number > 0)
  BY DEF SupersededBy, MotionItems
<1>5. item \in Items /\ item.id = id /\ item.order = Place(kept)
      /\ item.number = (IF id \in Motion THEN latest + 1 ELSE 0) /\ Place(kept) \in Nat
  BY <1>1 DEF QueueTypes, Items, Place
<1>6. /\ kept \subseteq Items
      /\ IsFiniteSet(kept)
      /\ Cardinality(kept) <= Capacity
      /\ Cardinality(kept) \in Nat
  BY <1>1, SmallerQueue
<1>7. \A x \in queue : x.id \in Ids /\ x.number \in Nat
  BY <1>1 DEF QueueTypes, Items
<1>8. EndsOnly(IdsOf(older))
  <2>1. /\ "superseded" \in States /\ "superseded" \in Codes
        /\ "accepted" \in States /\ "accepted" \in Codes /\ "accepted" \notin Ended
        /\ "rejected" \in States /\ "refused" \in Codes /\ "rejected" \notin Ended
    BY DEF States, Codes, Ended
  <2>2. outcome \in Ledgers /\ failures \in 0 .. MaxFailures
    BY <1>1 DEF LedgerTypes
  <2>3. Writes(known, outcome, IdsOf(older), "superseded")
    BY <2>1, <2>2, ReportedWrites, Zenon
  <2>4. known \in Ledgers
    BY <2>3 DEF Writes
  <2>5. Writes(admitted, known, {id}, "accepted")
    BY <2>1, <2>4, ReportedWrites, Zenon
  <2>6. Writes(refused, known, {id}, "rejected")
    BY <2>1, <2>4, ReportedWrites, Zenon
  <2> HIDE DEF known, admitted, refused, older
  <2>7. \A x \in Ids : known[x].state \in Ended => outcome[x].state \in Ended \/ x \in IdsOf(older)
    BY <2>3 DEF Writes
  <2>8. /\ admitted \in Ledgers /\ refused \in Ledgers
        /\ \A x \in Ids : admitted[x].state \in Ended => outcome[x].state \in Ended \/ x \in IdsOf(older)
        /\ \A x \in Ids : refused[x].state \in Ended => outcome[x].state \in Ended \/ x \in IdsOf(older)
    BY <2>1, <2>5, <2>6, <2>7 DEF Writes
  <2>9. Emit(known, admitted) \/ Emit(known, refused)
    BY <1>2
  <2>10. CASE Emit(known, admitted)
    BY <2>2, <2>4, <2>7, <2>8, <2>10, EmitEnds
  <2>11. CASE Emit(known, refused)
    BY <2>2, <2>4, <2>7, <2>8, <2>11, EmitEnds
  <2> QED  BY <2>9, <2>10, <2>11
<1> HIDE DEF older, kept, item, known, admitted, refused
<1>9. kept = queue \ older
  BY DEF kept
<1>10. QueueTypes'
  <2>1. CASE HasRoom(kept) /\ queue' = kept \cup {item} /\ arrivals' = Place(kept) + 1
    <3>1. /\ IsFiniteSet(kept \cup {item})
          /\ Cardinality(kept \cup {item}) <= Cardinality(kept) + 1
      <4>1. /\ IsFiniteSet(kept \cup {item})
            /\ Cardinality(kept \cup {item}) =
                 IF item \in kept THEN Cardinality(kept) ELSE Cardinality(kept) + 1
        BY <1>6, FS_AddElement
      <4> QED  BY <1>6, <4>1
    <3>2. Cardinality(kept) < Capacity /\ Capacity \in Nat
      BY <2>1, PipelineAssumption DEF HasRoom
    <3>3. Cardinality(kept \cup {item}) \in Nat
      BY <3>1, FS_CardinalityType
    <3>4. Cardinality(kept \cup {item}) <= Capacity
      BY <1>6, <3>1, <3>2, <3>3
    <3>5. arrivals' \in Nat /\ latest' \in Nat
      BY <1>1, <1>2, <1>5, <2>1 DEF QueueTypes
    <3>6. kept \cup {item} \subseteq Items
      BY <1>5, <1>6
    <3> QED  BY <2>1, <3>1, <3>4, <3>5, <3>6 DEF QueueTypes
  <2>2. CASE queue' = kept /\ arrivals' = arrivals
    BY <1>1, <1>2, <1>6, <2>2 DEF QueueTypes
  <2> QED  BY <1>2, <2>1, <2>2
<1>11. Types'
  <2>1. IdsOf(older) \subseteq Motion
    BY <1>1, <1>4, <1>7 DEF IdsOf, Numbers, MotionItems
  <2>2. PlaceTypes'
    BY <1>1, <1>2, <2>1 DEF PlaceTypes
  <2>3. FlagTypes'
    BY <1>1, <1>2, <1>3 DEF FlagTypes
  <2>4. CounterTypes'
    BY <1>1, <1>2, <1>3 DEF CounterTypes
  <2>5. LedgerTypes'
    BY <1>8 DEF EndsOnly, LedgerTypes
  <2> QED  BY <1>10, <2>2, <2>3, <2>4, <2>5 DEF Types
<1>12. Numbers'
  <2>1. \A x \in kept : /\ x.number > 0 <=> x.id \in Motion
                        /\ x.number > 0 => x.number = latest'
    BY <1>1, <1>2, <1>4, <1>7, <1>9 DEF Numbers
  <2>2. /\ item.number > 0 <=> item.id \in Motion
        /\ item.number > 0 => item.number = latest'
    BY <1>1, <1>2, <1>5 DEF QueueTypes
  <2>3. queue' \subseteq kept \cup {item}
    BY <1>2
  <2> QED  BY <2>1, <2>2, <2>3 DEF Numbers
<1>13. \A x \in IdsOf(older) : x \in seen /\ Fresh(x) /\ x # id
  BY <1>1, <1>2, <1>4 DEF IdsOf, Places
<1>14. \A x \in Ids : Fresh(x) /\ x \notin IdsOf(older) => Fresh(x)'
  BY <1>2, <1>8 DEF Fresh, EndsOnly
<1>15. \A x \in kept : x \in queue /\ x.id \notin IdsOf(older)
  BY <1>1, <1>4, <1>9 DEF Places, IdsOf
<1>16. Fresh(id)'
  BY <1>1, <1>2, <1>13, <1>14 DEF Places
<1>17. Places'
  <2>1. \A x \in Ids \ seen' : Fresh(x)'
    BY <1>1, <1>2, <1>13, <1>14 DEF Places
  <2>2. \A x \in kept : x.id \in seen' /\ Fresh(x.id)' /\ x.id # id
    BY <1>1, <1>2, <1>7, <1>14, <1>15 DEF Places
  <2>3. queue' \subseteq kept \cup {item} /\ id \in seen'
    BY <1>2
  <2>4. \A x, y \in kept : x.id = y.id => x = y
    BY <1>1, <1>15 DEF Places
  <2> QED  BY <1>5, <1>16, <2>1, <2>2, <2>3, <2>4 DEF Places
<1>18. current \in Ids \cup {Nobody} /\ current \notin IdsOf(older)
  BY <1>1, <1>13 DEF PlaceTypes, Fresh
<1>19. Loop'
  BY <1>1, <1>2, <1>8, <1>18 DEF Loop, EndsOnly
<1>20. History'
  BY <1>1, <1>2, <1>8, <1>13 DEF History, EndsOnly, Fresh
<1> QED  BY <1>11, <1>12, <1>17, <1>19, <1>20 DEF IInv

\* The loop takes a command: a stale number cannot occur, so it is either
\* rejected or goes to the adapter with a new permit.
LEMMA TakeStep ==
  ASSUME IInv, NEW item \in queue, Take(item)
  PROVE  IInv'
<1>1. /\ QueueTypes /\ FlagTypes /\ CounterTypes /\ PlaceTypes /\ LedgerTypes
      /\ Numbers /\ Places /\ Loop /\ History
  BY DEF IInv, Types
<1>2. /\ phase = "idle"
      /\ queue' = queue \ {item}
      /\ UNCHANGED <<arrivals, latest, deadline, runs, overtaken, driving,
                     seen, latched, media, stopTasks, deliveries, stops>>
  BY DEF Take, historyVars
<1>3. item.id \in Ids /\ item.number \in Nat /\ latest \in Nat
  BY <1>1 DEF QueueTypes, Items
<1>4. ~(item.number > 0 /\ item.number < latest)
  BY <1>1, <1>3 DEF Numbers
<1>5. \/ /\ \/ TryEndWith(item.id, "rejected", "refused")
            \/ EndWith(item.id, "rejected", "refused")
         /\ UNCHANGED <<current, phase, permitted>>
      \/ /\ current' = item.id /\ phase' = "issued" /\ permitted' = TRUE
         /\ UNCHANGED <<loop, ledgerVars>>
  BY <1>4 DEF Take
<1>6. EndsOnly({}) /\ loop' \in {"alive", "dead"}
  <2>1. CASE \/ TryEndWith(item.id, "rejected", "refused")
             \/ EndWith(item.id, "rejected", "refused")
    <3>1. "rejected" \in States \ Ended /\ "refused" \in Codes
      BY DEF States, Codes, Ended
    <3>2. outcome \in Ledgers /\ failures \in 0 .. MaxFailures
      BY <1>1 DEF LedgerTypes
    <3> QED  BY <1>3, <2>1, <3>1, <3>2, EndWithEnds
  <2>2. CASE UNCHANGED <<loop, ledgerVars>>
    BY <1>1, <2>2, LedgerUnchanged DEF PlaceTypes
  <2> QED  BY <1>5, <2>1, <2>2
<1>7. /\ current = Nobody
      /\ current' \in {Nobody, item.id}
      /\ current' = item.id => phase' = "issued" /\ permitted' = TRUE
      /\ current' = Nobody => phase' = "idle" /\ permitted' = permitted
  <2>1. current = Nobody /\ Nobody \notin Ids
    BY <1>1, <1>2, PipelineAssumption DEF Loop
  <2> QED  BY <1>2, <1>3, <1>5, <2>1
<1>8. Types'
  <2>1. /\ queue' \subseteq Items
        /\ IsFiniteSet(queue')
        /\ Cardinality(queue') <= Capacity
    BY <1>1, <1>2, SmallerQueue
  <2>2. QueueTypes'
    BY <1>1, <1>2, <2>1 DEF QueueTypes
  <2>3. PlaceTypes'
    BY <1>1, <1>2, <1>3, <1>6, <1>7 DEF PlaceTypes, Phases
  <2>4. FlagTypes'
    BY <1>1, <1>2, <1>7 DEF FlagTypes
  <2>5. CounterTypes' /\ LedgerTypes'
    BY <1>1, <1>2, <1>6 DEF CounterTypes, LedgerTypes, EndsOnly
  <2> QED  BY <2>2, <2>3, <2>4, <2>5 DEF Types
<1>9. Numbers'
  BY <1>1, <1>2 DEF Numbers
<1>10. item.id \in seen /\ Fresh(item.id)
  BY <1>1 DEF Places
<1>11. \A x \in Ids : Fresh(x) /\ x # item.id => Fresh(x)'
  <2>1. \A x \in Ids : x # Nobody
    BY PipelineAssumption
  <2> QED  BY <1>2, <1>6, <1>7, <2>1 DEF Fresh, EndsOnly
<1>12. Places'
  <2>1. \A x \in Ids \ seen' : Fresh(x)'
    BY <1>1, <1>2, <1>10, <1>11 DEF Places
  <2>2. \A x \in queue' : x \in queue /\ x.id # item.id /\ x.id \in Ids
    BY <1>1, <1>2 DEF Places, QueueTypes, Items
  <2>3. \A x \in queue' : x.id \in seen' /\ Fresh(x.id)'
    BY <1>1, <1>2, <1>11, <2>2 DEF Places
  <2>4. \A x, y \in queue' : x.id = y.id => x = y
    BY <1>1, <2>2 DEF Places
  <2> QED  BY <2>1, <2>3, <2>4 DEF Places
<1>13. Loop'
  BY <1>2, <1>3, <1>6, <1>7, <1>10, PipelineAssumption DEF Loop, Fresh, EndsOnly
<1>14. History'
  BY <1>1, <1>2, <1>6 DEF History, EndsOnly
<1> QED  BY <1>8, <1>9, <1>12, <1>13, <1>14 DEF IInv

\* The thread enters the adapter only on a permit no stop has taken away.
LEMMA EnterAdapterStep ==
  ASSUME IInv, EnterAdapter
  PROVE  IInv'
<1>1. /\ QueueTypes /\ FlagTypes /\ CounterTypes /\ PlaceTypes /\ LedgerTypes
      /\ Numbers /\ Places /\ Loop /\ History
  BY DEF IInv, Types
<1>2. /\ phase = "issued"
      /\ UNCHANGED <<queue, arrivals, latest, deadline, loop, current, permitted, outcome,
                     failures, overtaken, seen, latched, media, stopTasks, deliveries, stops>>
      /\ \/ /\ permitted /\ phase' = "running"
            /\ runs' = [runs EXCEPT ![current] = @ + 1]
            /\ driving' = (driving \/ current \in Motion)
         \/ /\ phase' = "cancelled" /\ runs' = runs /\ driving' = driving
  BY DEF EnterAdapter, ThreadUnchanged, queueVars, ledgerVars
<1>3. current \in Ids /\ runs[current] = 0 /\ (permitted => current \notin overtaken)
  BY <1>1, <1>2 DEF Loop, PlaceTypes
<1>4. /\ runs' \in [Ids -> Nat]
      /\ \A x \in Ids : x # current => runs'[x] = runs[x]
      /\ runs'[current] <= 1
      /\ current \in overtaken => runs'[current] = 0
  BY <1>1, <1>2, <1>3 DEF PlaceTypes
<1>5. Types'
  <2>1. QueueTypes' /\ CounterTypes' /\ LedgerTypes'
    BY <1>1, <1>2 DEF QueueTypes, CounterTypes, LedgerTypes
  <2>2. FlagTypes'
    BY <1>1, <1>2 DEF FlagTypes
  <2>3. PlaceTypes'
    BY <1>1, <1>2, <1>4 DEF PlaceTypes, Phases
  <2> QED  BY <2>1, <2>2, <2>3 DEF Types
<1>6. \A x \in Ids : Fresh(x) => Fresh(x)'
  BY <1>2, <1>4 DEF Fresh
<1>7. Numbers' /\ Places'
  BY <1>1, <1>2, <1>6 DEF Numbers, Places, QueueTypes, Items
<1>8. Loop'
  BY <1>1, <1>2 DEF Loop
<1>9. outcome[current].state \notin Ended
  BY <1>1, <1>2 DEF Loop
<1>10. History'
  BY <1>1, <1>2, <1>4, <1>9 DEF History
<1> QED  BY <1>5, <1>7, <1>8, <1>10 DEF IInv

\* The thread leaves the adapter.
LEMMA LeaveAdapterStep ==
  ASSUME IInv, LeaveAdapter
  PROVE  IInv'
<1>1. /\ QueueTypes /\ FlagTypes /\ CounterTypes /\ PlaceTypes /\ LedgerTypes
      /\ Numbers /\ Places /\ Loop /\ History
  BY DEF IInv, Types
<1>2. /\ phase = "running"
      /\ phase' \in {"completed", "cancelled", "error"}
      /\ UNCHANGED <<queue, arrivals, latest, deadline, loop, current, permitted, outcome,
                     failures, overtaken, seen, latched, media, stopTasks, deliveries, stops,
                     runs, driving>>
  BY DEF LeaveAdapter, ThreadUnchanged, queueVars, ledgerVars
<1>3. Types'
  <2>1. QueueTypes' /\ CounterTypes' /\ LedgerTypes'
    BY <1>1, <1>2 DEF QueueTypes, CounterTypes, LedgerTypes
  <2>2. FlagTypes'
    BY <1>1, <1>2 DEF FlagTypes
  <2>3. PlaceTypes'
    BY <1>1, <1>2 DEF PlaceTypes, Phases
  <2> QED  BY <2>1, <2>2, <2>3 DEF Types
<1>4. Numbers' /\ Places' /\ History'
  BY <1>1, <1>2 DEF Numbers, Places, Fresh, History
<1>5. Loop'
  BY <1>1, <1>2 DEF Loop
<1> QED  BY <1>3, <1>4, <1>5 DEF IInv

\* The loop reports what became of the command and is idle again.
LEMMA FinishStep ==
  ASSUME IInv, Finish
  PROVE  IInv'
<1>1. /\ QueueTypes /\ FlagTypes /\ CounterTypes /\ PlaceTypes /\ LedgerTypes
      /\ Numbers /\ Places /\ Loop /\ History
  BY DEF IInv, Types
<1>2. /\ phase # "idle"
      /\ current' = Nobody /\ phase' = "idle" /\ permitted' = FALSE
      /\ UNCHANGED <<queue, arrivals, latest, deadline, runs, overtaken, driving,
                     seen, latched, media, stopTasks, deliveries, stops>>
  BY DEF Finish, queueVars, historyVars
<1>3. current \in Ids
  BY <1>1, <1>2 DEF Loop, PlaceTypes
<1>4. EndsOnly({}) /\ loop' \in {"alive", "dead"}
  <2>1. /\ "completed" \in States \ Ended /\ "completed" \in Codes
        /\ "rejected" \in States \ Ended
        /\ "cancelled_by_stop" \in Codes /\ "hardware_error" \in Codes
    BY DEF States, Codes, Ended
  <2>2. outcome \in Ledgers /\ failures \in 0 .. MaxFailures
    BY <1>1 DEF LedgerTypes
  <2>3. CASE TryEndWith(current, "completed", "completed")
    BY <1>3, <2>1, <2>2, <2>3, EndWithEnds
  <2>4. CASE EndWith(current, "rejected", "cancelled_by_stop")
    BY <1>3, <2>1, <2>2, <2>4, EndWithEnds
  <2>5. CASE EndWith(current, "rejected", "hardware_error")
    BY <1>3, <2>1, <2>2, <2>5, EndWithEnds
  <2> QED  BY <2>3, <2>4, <2>5 DEF Finish
<1>5. Types'
  <2>1. QueueTypes' /\ CounterTypes' /\ LedgerTypes'
    BY <1>1, <1>2, <1>4 DEF QueueTypes, CounterTypes, LedgerTypes, EndsOnly
  <2>2. FlagTypes'
    BY <1>1, <1>2 DEF FlagTypes
  <2>3. PlaceTypes'
    BY <1>1, <1>2, <1>4 DEF PlaceTypes, Phases
  <2> QED  BY <2>1, <2>2, <2>3 DEF Types
<1>6. \A x \in Ids : Fresh(x) => Fresh(x)'
  BY <1>2, <1>4, PipelineAssumption DEF Fresh, EndsOnly
<1>7. Numbers' /\ Places'
  BY <1>1, <1>2, <1>6 DEF Numbers, Places, QueueTypes, Items
<1>8. Loop'
  BY <1>2 DEF Loop
<1>9. History'
  BY <1>1, <1>2, <1>4 DEF History, EndsOnly
<1> QED  BY <1>5, <1>7, <1>8, <1>9 DEF IInv

\* A stop empties the queue of motion and takes the permit away.
LEMMA RunStopStep ==
  ASSUME IInv, RunStop
  PROVE  IInv'
<1> DEFINE gone == IdsOf(MotionItems)
           reached == IF phase = "issued" THEN {current} \cap Motion ELSE {}
           after == Reported(outcome, gone, "cancelled_by_stop", "cancelled_by_stop")
<1>1. /\ QueueTypes /\ FlagTypes /\ CounterTypes /\ PlaceTypes /\ LedgerTypes
      /\ Numbers /\ Places /\ Loop /\ History
  BY DEF IInv, Types
<1>2. /\ queue' = queue \ MotionItems
      /\ overtaken' = overtaken \cup gone \cup reached
      /\ latest' = latest + 1
      /\ latched' = TRUE /\ permitted' = FALSE
      /\ UNCHANGED <<arrivals, loop, current, phase, runs, seen, media, deliveries, stops>>
  BY DEF RunStop
<1>3. /\ stopTasks' \in Nat
      /\ deadline' \in BOOLEAN /\ driving' \in BOOLEAN
  <2>1. stopTasks > 0 /\ stopTasks' = stopTasks - 1 /\ stopTasks \in Nat
    BY <1>1 DEF RunStop, CounterTypes
  <2>2. /\ deadline' = FALSE \/ deadline' = deadline
        /\ driving' = FALSE \/ driving' = driving
    BY DEF RunStop
  <2>3. stopTasks' \in Nat
    BY <2>1
  <2>4. deadline' \in BOOLEAN /\ driving' \in BOOLEAN
    BY <1>1, <2>2 DEF FlagTypes
  <2> QED  BY <2>3, <2>4
<1>4. \A x \in queue : x.id \in Ids /\ x.number \in Nat
  BY <1>1 DEF QueueTypes, Items
<1>5. EndsOnly(gone)
  <2>1. "cancelled_by_stop" \in States /\ "cancelled_by_stop" \in Codes
    BY DEF States, Codes
  <2>2. outcome \in Ledgers /\ failures \in 0 .. MaxFailures
    BY <1>1 DEF LedgerTypes
  <2>3. Writes(after, outcome, gone, "cancelled_by_stop")
    BY <2>1, <2>2, ReportedWrites, Zenon
  <2>4. \/ outcome' = after /\ failures' = failures
        \/ outcome' = outcome /\ failures > 0 /\ failures' = failures - 1
    BY DEF RunStop
  <2> HIDE DEF after, gone
  <2>5. failures' \in 0 .. MaxFailures
    BY <2>2, <2>4, PipelineAssumption
  <2> QED  BY <2>2, <2>3, <2>4, <2>5 DEF EndsOnly, Writes
<1>6. gone \subseteq Motion /\ reached \subseteq Motion
  BY <1>1, <1>4 DEF IdsOf, Numbers, MotionItems
<1>7. \A x \in gone : x \in seen /\ Fresh(x)
  BY <1>1 DEF IdsOf, MotionItems, Places
<1>8. \A x \in queue' : x \in queue /\ ~(x.number > 0) /\ x.id \notin gone
  BY <1>1, <1>2 DEF MotionItems, IdsOf, Places
<1>9. \A x \in reached : x = current /\ runs[x] = 0
  BY <1>1 DEF Loop
<1>10. Types'
  <2>1. /\ queue' \subseteq Items
        /\ IsFiniteSet(queue')
        /\ Cardinality(queue') <= Capacity
    BY <1>1, <1>2, SmallerQueue
  <2>2. latest' \in Nat /\ arrivals' \in Nat
    BY <1>1, <1>2 DEF QueueTypes
  <2>3. QueueTypes'
    BY <2>1, <2>2 DEF QueueTypes
  <2>4. FlagTypes'
    BY <1>1, <1>2, <1>3 DEF FlagTypes
  <2>5. CounterTypes'
    BY <1>1, <1>2, <1>3 DEF CounterTypes
  <2>6. overtaken' \subseteq Motion
    BY <1>1, <1>2, <1>6 DEF PlaceTypes
  <2>7. PlaceTypes'
    BY <1>1, <1>2, <2>6 DEF PlaceTypes
  <2>8. LedgerTypes'
    BY <1>5 DEF LedgerTypes, EndsOnly
  <2> QED  BY <2>3, <2>4, <2>5, <2>7, <2>8 DEF Types
<1> HIDE DEF gone, reached, after
<1>11. Numbers'
  BY <1>1, <1>2, <1>8 DEF Numbers
<1>12. \A x \in Ids : Fresh(x) /\ x \notin gone => Fresh(x)'
  BY <1>2, <1>5, <1>9 DEF Fresh, EndsOnly
<1>13. Places'
  BY <1>1, <1>2, <1>4, <1>7, <1>8, <1>12 DEF Places
<1>14. current \notin gone
  BY <1>7 DEF Fresh
<1>15. current # Nobody => current \in Ids
  BY <1>1 DEF PlaceTypes
<1>16. Loop'
  BY <1>1, <1>2, <1>5, <1>14, <1>15 DEF Loop, EndsOnly
<1>17. \A x \in Ids : x \in overtaken' => runs[x] = 0
  BY <1>1, <1>2, <1>7, <1>9 DEF History, Fresh
<1>18. \A x \in Ids : outcome'[x].state \in Ended => runs[x] = 0
  BY <1>1, <1>5, <1>7 DEF History, Fresh, EndsOnly
<1>19. History'
  BY <1>1, <1>2, <1>17, <1>18 DEF History
<1> QED  BY <1>10, <1>11, <1>13, <1>16, <1>19 DEF IInv

\* A delivery that is rejected moves nothing but the ids that were seen.
LEMMA RejectionStep ==
  ASSUME IInv, NEW id \in Ids,
         RefuseUndated(id) \/ RefuseReplay(id) \/ RefuseNew(id)
  PROVE  IInv'
<1>1. Types
  BY DEF IInv
<1>2. /\ seen' = seen \/ seen' = seen \cup {id}
      /\ Delivered
      /\ UNCHANGED <<queueVars, loopVars, historyVars, latched, media, stopTasks, stops>>
  BY DEF RefuseUndated, RefuseReplay, RefuseNew, Remember
<1>3. EndsOnly({})
  <2>1. "refused" \in Codes /\ "replayed_action" \in Codes
    BY DEF Codes
  <2>2. LedgerTypes
    BY <1>1 DEF Types
  <2>3. \/ Emit(outcome, Reported(outcome, {id}, "rejected", "refused"))
        \/ Emit(outcome, Reported(outcome, {id}, "rejected", "replayed_action"))
    BY DEF RefuseUndated, RefuseReplay, RefuseNew
  <2>4. CASE Emit(outcome, Reported(outcome, {id}, "rejected", "refused"))
    BY <2>1, <2>2, <2>4, RejectionEnds
  <2>5. CASE Emit(outcome, Reported(outcome, {id}, "rejected", "replayed_action"))
    BY <2>1, <2>2, <2>5, RejectionEnds
  <2> QED  BY <2>3, <2>4, <2>5
<1>4. deliveries' \in 0 .. MaxDeliveries
  BY <1>1, PipelineAssumption DEF Delivered, RefuseUndated, RefuseReplay, RefuseNew, Types, CounterTypes
<1>5. Types'
  <2>1. QueueTypes' /\ FlagTypes'
    BY <1>1, <1>2 DEF Types, QueueTypes, FlagTypes, queueVars, loopVars, historyVars
  <2>2. CounterTypes' /\ LedgerTypes'
    BY <1>1, <1>2, <1>3, <1>4 DEF Types, CounterTypes, LedgerTypes, EndsOnly
  <2>3. PlaceTypes'
    BY <1>1, <1>2 DEF Types, PlaceTypes, loopVars, historyVars
  <2> QED  BY <2>1, <2>2, <2>3 DEF Types
<1>6. (Numbers /\ Places /\ Loop /\ History)'
  BY <1>2, <1>3, QuietStep DEF queueVars, loopVars, historyVars
<1> QED  BY <1>5, <1>6 DEF IInv

\* A restarted loop, a requested stop, an expired deadline, a reset and a
\* change of the media move no id.
LEMMA OutsideStep ==
  ASSUME IInv, RestartLoop \/ RequestStop \/ ExpireDeadline \/ Reset \/ MediaChanges
  PROVE  IInv'
<1>1. Types
  BY DEF IInv
<1>2. /\ UNCHANGED <<queue, arrivals, latest, current, phase, runs, overtaken, driving,
                     seen, outcome, failures, deliveries>>
      /\ permitted' = permitted \/ permitted' = FALSE
      /\ loop' = loop \/ loop' = "alive"
      /\ latched' = latched \/ latched' = FALSE
      /\ deadline' = deadline \/ deadline' = FALSE
      /\ media' = media \/ media' = ~media
  BY DEF RestartLoop, RequestStop, ExpireDeadline, Reset, MediaChanges,
         EnvironmentUnchanged, queueVars, loopVars, ledgerVars, historyVars
<1>3. /\ stopTasks' \in Nat
      /\ stops' \in 0 .. MaxStops
  BY <1>1, PipelineAssumption
     DEF RestartLoop, RequestStop, ExpireDeadline, Reset, MediaChanges, Types, CounterTypes
<1>4. EndsOnly({})
  BY <1>1, <1>2, LedgerUnchanged DEF Types, ledgerVars
<1>5. Types'
  <2>1. QueueTypes' /\ CounterTypes' /\ LedgerTypes'
    BY <1>1, <1>2, <1>3 DEF Types, QueueTypes, CounterTypes, LedgerTypes
  <2>2. FlagTypes'
    BY <1>1, <1>2 DEF Types, FlagTypes
  <2>3. PlaceTypes'
    BY <1>1, <1>2 DEF Types, PlaceTypes
  <2> QED  BY <2>1, <2>2, <2>3 DEF Types
<1>6. (Numbers /\ Places /\ Loop /\ History)'
  BY <1>2, <1>4, QuietStep
<1> QED  BY <1>5, <1>6 DEF IInv

\* Every step preserves the invariant.
LEMMA NextIInv == IInv /\ [Next]_vars => IInv'
<1> SUFFICES ASSUME IInv, [Next]_vars PROVE IInv'
  OBVIOUS
<1>1. CASE \E id \in Ids : Receive(id)
  <2>1. PICK id \in Ids : Receive(id)
    BY <1>1
  <2>2. CASE RefuseUndated(id) \/ RefuseReplay(id) \/ RefuseNew(id)
    BY <2>2, RejectionStep
  <2>3. CASE Dispatch(id)
    BY <2>3, DispatchStep
  <2> QED  BY <2>1, <2>2, <2>3 DEF Receive
<1>2. CASE \E item \in queue : Take(item)
  BY <1>2, TakeStep
<1>3. CASE EnterAdapter
  BY <1>3, EnterAdapterStep
<1>4. CASE LeaveAdapter
  BY <1>4, LeaveAdapterStep
<1>5. CASE Finish
  BY <1>5, FinishStep
<1>6. CASE RunStop
  BY <1>6, RunStopStep
<1>7. CASE RestartLoop \/ RequestStop \/ ExpireDeadline \/ Reset \/ MediaChanges
  BY <1>7, OutsideStep
<1>8. CASE UNCHANGED vars
  BY <1>8 DEF vars, queueVars, loopVars, ledgerVars, historyVars, IInv, Types, QueueTypes,
     FlagTypes, CounterTypes, PlaceTypes, LedgerTypes, Numbers, Places, Fresh, Loop, History
<1> QED  BY <1>1, <1>2, <1>3, <1>4, <1>5, <1>6, <1>7, <1>8 DEF Next, LoopStep

LEMMA Invariance == Spec => []IInv
<1> QED  BY InitIInv, NextIInv, PTL DEF Spec

-----------------------------------------------------------------------------

\* Type correctness, the capacity of the queue (offer) included.
THEOREM PipelineTypes == Spec => []TypeOK
<1>1. IInv => TypeOK
  <2> SUFFICES ASSUME IInv PROVE TypeOK
    OBVIOUS
  <2>1. /\ queue \subseteq Items /\ Cardinality(queue) <= Capacity
        /\ arrivals \in Nat /\ latest \in Nat
    BY DEF IInv, Types, QueueTypes
  <2>2. /\ deadline \in BOOLEAN /\ latched \in BOOLEAN /\ media \in BOOLEAN
        /\ permitted \in BOOLEAN /\ driving \in BOOLEAN
    BY DEF IInv, Types, FlagTypes
  <2>3. stopTasks \in Nat /\ deliveries \in 0 .. MaxDeliveries /\ stops \in 0 .. MaxStops
    BY DEF IInv, Types, CounterTypes
  <2>4. /\ seen \subseteq Ids /\ loop \in {"alive", "dead"} /\ current \in Ids \cup {Nobody}
        /\ phase \in Phases /\ runs \in [Ids -> Nat] /\ overtaken \subseteq Motion
    BY DEF IInv, Types, PlaceTypes
  <2>5. outcome \in [Ids -> [state : States, code : Codes]] /\ failures \in 0 .. MaxFailures
    BY DEF IInv, Types, LedgerTypes, Ledgers
  <2> QED  BY <2>1, <2>2, <2>3, <2>4, <2>5 DEF TypeOK
<1> QED  BY Invariance, <1>1, PTL

\* Latest wins: what offer and cancel_motion leave queued of motion is the
\* newest motion.
THEOREM NewestMotionOnly == Spec => []OnlyNewestMotionIsQueued
<1>1. IInv => OnlyNewestMotionIsQueued
  BY DEF IInv, Numbers, OnlyNewestMotionIsQueued, MotionItems
<1> QED  BY Invariance, <1>1, PTL

\* Overtaken motion never enters the adapter (execute).
THEOREM OvertakenNeverRuns == Spec => []OvertakenMotionNeverRuns
<1>1. IInv => OvertakenMotionNeverRuns
  <2> SUFFICES ASSUME IInv PROVE OvertakenMotionNeverRuns
    OBVIOUS
  <2>1. overtaken \subseteq Ids
    BY PipelineAssumption DEF IInv, Types, PlaceTypes
  <2> QED  BY <2>1 DEF IInv, History, OvertakenMotionNeverRuns
<1> QED  BY Invariance, <1>1, PTL

\* Replay protection (_validate_command): one run per action id, and none
\* after it was superseded or cancelled.
THEOREM AtMostOnce == Spec => []RunsAtMostOnce
<1>1. IInv => RunsAtMostOnce
  BY DEF IInv, History, RunsAtMostOnce, Ended
<1> QED  BY Invariance, <1>1, PTL

-----------------------------------------------------------------------------
(* Deadlines.                                                              *)

\* As DrivingIsDeadlined, and queued motion has a deadline already.
Deadlined ==
  LedgerIntact /\ (driving \/ (phase = "issued" /\ permitted /\ current \in Motion) \/ MotionItems # {})
    => deadline \/ stopTasks > 0

\* A write that failed is not taken back.
LEMMA FailuresStay ==
  ASSUME IInv, failures' = failures \/ (failures > 0 /\ failures' = failures - 1)
                 \/ (failures > 1 /\ failures' = failures - 2)
  PROVE  LedgerIntact' => LedgerIntact /\ failures' = failures
BY PipelineAssumption DEF IInv, Types, LedgerTypes, LedgerIntact

\* A stop that lets go of motion has cancelled what is queued.
LEMMA DeadlinedStep ==
  ASSUME IInv, Deadlined, [Next]_vars
  PROVE  Deadlined'
<1> USE DEF queueVars, loopVars, ledgerVars, historyVars
<1>0. stopTasks \in Nat
  BY DEF IInv, Types, CounterTypes
<1>1. ASSUME NEW id \in Ids, RefuseUndated(id) \/ RefuseReplay(id) \/ RefuseNew(id)
      PROVE  Deadlined'
  <2>1. LedgerIntact' => LedgerIntact
    BY <1>1, FailuresStay DEF RefuseUndated, RefuseReplay, RefuseNew, Emit
  <2> QED BY <1>1, <2>1 DEF RefuseUndated, RefuseReplay, RefuseNew, Deadlined, MotionItems
\* Motion arms the deadline before it is queued.
<1>2. ASSUME NEW id \in Ids, Dispatch(id) PROVE Deadlined'
  <2>1. LedgerIntact' => LedgerIntact
    BY <1>2, FailuresStay DEF Dispatch, Emit
  <2>2. /\ deadline' = (deadline \/ id \in Motion)
        /\ UNCHANGED <<stopTasks, driving, phase, permitted, current>>
    BY <1>2 DEF Dispatch
  <2>3. CASE id \in Motion
    BY <2>2, <2>3 DEF Deadlined
  <2>4. CASE id \notin Motion
    <3>1. \A item \in queue' : item.number > 0 => item \in queue
      BY <1>2, <2>4 DEF Dispatch
    <3> QED BY <2>1, <2>2, <3>1 DEF Deadlined, MotionItems
  <2> QED BY <2>3, <2>4
<1>3. ASSUME NEW item \in queue, Take(item) PROVE Deadlined'
  <2>1. LedgerIntact' => LedgerIntact
    BY <1>3, FailuresStay DEF Take, EndWith, TryEndWith
  <2>2. /\ queue' \subseteq queue /\ UNCHANGED <<deadline, stopTasks, driving>>
        /\ UNCHANGED <<phase, permitted, current>> \/ current' = item.id
    BY <1>3 DEF Take
  <2>3. item.id \in Motion => item \in MotionItems
    BY DEF IInv, Numbers, MotionItems
  <2> QED BY <2>1, <2>2, <2>3 DEF Deadlined, MotionItems
<1>4. CASE EnterAdapter \/ LeaveAdapter
  BY <1>4 DEF EnterAdapter, LeaveAdapter, ThreadUnchanged, Deadlined, MotionItems, LedgerIntact
<1>5. CASE Finish
  <2>1. LedgerIntact' => LedgerIntact
    BY <1>5, FailuresStay DEF Finish, EndWith, TryEndWith
  <2> QED BY <1>5, <2>1 DEF Finish, Deadlined, MotionItems
<1>6. CASE RestartLoop \/ RequestStop \/ Reset \/ MediaChanges
  BY <1>0, <1>6 DEF RestartLoop, RequestStop, Reset, MediaChanges, EnvironmentUnchanged,
                    Deadlined, MotionItems, LedgerIntact
<1>7. CASE ExpireDeadline
  BY <1>0, <1>7 DEF ExpireDeadline, Deadlined
\* A stop that reports what it cancelled leaves nothing that drives or may.
<1>8. CASE RunStop
  <2>1. LedgerIntact' => failures' = failures
    BY <1>8, FailuresStay DEF RunStop
  <2>2. LedgerIntact' => ~ driving'
    BY <1>8, <2>1 DEF RunStop, IInv, Types, LedgerTypes
  <2>3. ~ permitted' /\ MotionItems' = {}
    BY <1>8 DEF RunStop, MotionItems
  <2> QED BY <2>2, <2>3 DEF Deadlined
<1>9. CASE UNCHANGED vars
  BY <1>9 DEF vars, Deadlined, MotionItems, LedgerIntact
<1> QED
  BY <1>1, <1>2, <1>3, <1>4, <1>5, <1>6, <1>7, <1>8, <1>9 DEF Next, Receive, LoopStep

\* _arm_motion_deadline: as long as every outcome could be persisted, motion is
\* never in the adapter, or on its way into it, without a deadline or a stop.
THEOREM MotionIsDeadlined == Spec => []DrivingIsDeadlined
<1>1. Init => Deadlined
  BY DEF Init, Deadlined, MotionItems
<1>2. IInv /\ Deadlined /\ [Next]_vars => Deadlined'
  BY DeadlinedStep
<1>3. Deadlined => DrivingIsDeadlined
  BY DEF Deadlined, DrivingIsDeadlined
<1> QED  BY Invariance, <1>1, <1>2, <1>3, PTL DEF Spec
-----------------------------------------------------------------------------
(* Authority. The pipeline has of the safety latch only latched and        *)
(* permitted; SafetyStop has all of it. What a permit promises is the same *)
(* for both, CommandAuthority. What became of the permit of a command that *)
(* the loop has let go of is recorded beside the pipeline, which it leaves *)
(* as it is.                                                               *)

VARIABLE authority   \* history: Ids -> what became of the permit

\* What the permit of the current command is worth.
Standing ==
  IF phase = "completed" THEN "spent"
  ELSE IF permitted /\ phase \in {"issued", "running"} THEN "held" ELSE "revoked"

RecordedInit == Init /\ authority = [id \in Ids |-> "none"]

Record == authority' = IF current' = Nobody THEN authority
                       ELSE [authority EXCEPT ![current'] = Standing']

RecordedSpec == RecordedInit /\ [][Next /\ Record]_<<vars, authority>>

Authority == INSTANCE CommandAuthority WITH Commands <- Ids, armed <- ~latched

\* The loop has not taken the command yet.
Untaken(id) == id \notin seen \/ \E item \in queue : item.id = id

\* Only the current command holds authority; one that waits has had none.
Accounted ==
  /\ authority \in [Ids -> Authority!Authority]
  /\ current # Nobody => authority[current] = Standing
  /\ \A id \in Ids \ {current} : authority[id] # "held"
  /\ \A id \in Ids : Untaken(id) => authority[id] = "none"

\* Nothing puts a command back before the loop, and the loop takes what waits.
LEMMA UntakenStep ==
  ASSUME IInv, [Next]_vars, NEW id \in Ids
  PROVE  /\ Untaken(id)' => Untaken(id)
         /\ current' \in {current, Nobody} \/ (Untaken(current') /\ current' \in Ids /\ current = Nobody)
<1> USE DEF queueVars, loopVars, ledgerVars, historyVars, Untaken
<1>1. ASSUME NEW i \in Ids, RefuseUndated(i) \/ RefuseReplay(i) \/ RefuseNew(i)
      PROVE  seen \subseteq seen' /\ UNCHANGED <<queue, current>>
  BY <1>1 DEF RefuseUndated, RefuseReplay, RefuseNew, Remember
<1>2. ASSUME NEW i \in Ids, Dispatch(i)
      PROVE  /\ seen \subseteq seen' /\ i \notin seen /\ current' = current
             /\ \A item \in queue' : item \in queue \/ item.id = i
  BY <1>2 DEF Dispatch, Remember
<1>3. ASSUME NEW item \in queue, Take(item)
      PROVE  /\ queue' \subseteq queue /\ seen' = seen
             /\ current' \in {current, item.id} /\ item.id \in Ids /\ current = Nobody
  BY <1>3 DEF Take, IInv, Types, QueueTypes, Items, Loop
<1>4. CASE EnterAdapter \/ LeaveAdapter
  BY <1>4 DEF EnterAdapter, LeaveAdapter, ThreadUnchanged
<1>5. CASE Finish
  BY <1>5 DEF Finish
<1>6. CASE RestartLoop \/ RequestStop \/ ExpireDeadline \/ Reset \/ MediaChanges
  BY <1>6 DEF RestartLoop, RequestStop, ExpireDeadline, Reset, MediaChanges, EnvironmentUnchanged
<1>7. CASE RunStop
  BY <1>7 DEF RunStop
<1>8. CASE UNCHANGED vars
  BY <1>8 DEF vars
<1> QED BY <1>1, <1>2, <1>3, <1>4, <1>5, <1>6, <1>7, <1>8 DEF Next, Receive, LoopStep

\* What a step does to the latch and to the permit of a command the loop keeps.
LEMMA StandingStep ==
  ASSUME IInv, Next
  PROVE  \/ /\ latched' = latched
            /\ \/ current' = current /\ Standing' = Standing
               \/ current' = Nobody /\ Standing # "held"
         \/ /\ latched' = latched /\ current' = current
            /\ Standing = "held" /\ Standing' \in {"spent", "revoked"}
         \/ /\ ~ latched /\ ~ latched' /\ current = Nobody /\ current' # Nobody
            /\ Standing' = "held"
         \/ /\ current' = current
            /\ Standing' = IF Standing = "held" THEN "revoked" ELSE Standing
<1> USE DEF queueVars, loopVars, ledgerVars, historyVars, Standing
<1>1. ASSUME NEW i \in Ids, Receive(i)
      PROVE  UNCHANGED <<latched, current, phase, permitted>>
  BY <1>1 DEF Receive, RefuseUndated, RefuseReplay, RefuseNew, Dispatch
<1>2. ASSUME NEW item \in queue, Take(item)
      PROVE  \/ UNCHANGED <<latched, current, phase, permitted>>
             \/ /\ ~ latched /\ ~ latched' /\ current = Nobody /\ current' # Nobody
                /\ phase' = "issued" /\ permitted'
  BY <1>2, PipelineAssumption DEF Take, IInv, Types, QueueTypes, Items, Loop
<1>3. CASE EnterAdapter \/ LeaveAdapter
  BY <1>3 DEF EnterAdapter, LeaveAdapter, ThreadUnchanged
<1>4. CASE Finish
  BY <1>4 DEF Finish
<1>5. CASE RestartLoop \/ RequestStop \/ ExpireDeadline \/ MediaChanges
  BY <1>5 DEF RestartLoop, RequestStop, ExpireDeadline, MediaChanges, EnvironmentUnchanged
<1>6. CASE Reset
  BY <1>6 DEF Reset
<1>7. CASE RunStop
  BY <1>7 DEF RunStop
<1> QED BY <1>1, <1>2, <1>3, <1>4, <1>5, <1>6, <1>7 DEF Next, LoopStep
\* Each step of the pipeline is one of the permits' life, or none.
LEMMA AuthorityStep ==
  ASSUME IInv, IInv', Accounted, Next, Record
  PROVE  Accounted' /\ (Authority!Next \/ UNCHANGED <<latched, authority>>)
<1>1. Types /\ Loop /\ Types' /\ Loop' /\ Nobody \notin Ids
  BY PipelineAssumption DEF IInv
<1>2. /\ current \in Ids \cup {Nobody} /\ current' \in Ids \cup {Nobody}
      /\ latched \in BOOLEAN /\ latched' \in BOOLEAN
  BY <1>1 DEF Types, PlaceTypes, FlagTypes
<1>3. Standing \in Authority!Authority \ {"none"} /\ Standing' \in Authority!Authority \ {"none"}
  BY DEF Standing, Authority!Authority
<1>4. authority' \in [Ids -> Authority!Authority]
  BY <1>2, <1>3 DEF Accounted, Record
<1>5. \A id \in Ids : authority'[id] = IF id = current' THEN Standing' ELSE authority[id]
  BY <1>1, <1>2, <1>4 DEF Accounted, Record
<1>6. \A id \in Ids : Untaken(id) => id # current
  BY DEF Untaken, IInv, Places, Fresh
<1>7. \A id \in Ids : Untaken(id)' => id # current' /\ Untaken(id)
  <2>1. \A id \in Ids : Untaken(id)' => id # current'
    BY DEF Untaken, IInv, Places, Fresh
  <2> QED BY <2>1, UntakenStep
<1>8. \/ current' \in {current, Nobody}
      \/ Untaken(current') /\ current' \in Ids /\ current = Nobody
  BY <1>2, UntakenStep
<1>9. current # Nobody /\ current' = Nobody => Standing # "held"
  BY StandingStep
<1>10. Accounted'
  <2>1. current' # Nobody => authority'[current'] = Standing'
    BY <1>2, <1>5
  <2>2. \A id \in Ids \ {current'} : authority'[id] # "held"
    BY <1>1, <1>2, <1>5, <1>8, <1>9 DEF Accounted
  <2>3. \A id \in Ids : Untaken(id)' => authority'[id] = "none"
    BY <1>5, <1>7 DEF Accounted
  <2> QED BY <1>4, <2>1, <2>2, <2>3 DEF Accounted
\* What one command loses or gets changes nothing for the others.
<1>11. ASSUME current' # Nobody
       PROVE  authority' = [authority EXCEPT ![current'] = Standing']
  BY <1>11 DEF Record
<1>12. ASSUME current' = current, current # Nobody, Standing' = Standing
       PROVE  authority' = authority
  BY <1>2, <1>4, <1>5, <1>12 DEF Accounted
<1>13. ASSUME current' = Nobody
       PROVE  authority' = authority
  BY <1>13 DEF Record
<1>14. CASE latched' = latched /\ (current' = Nobody \/ (current' = current /\ Standing' = Standing))
  BY <1>10, <1>12, <1>13, <1>14
<1>15. CASE /\ latched' = latched /\ current' = current /\ current # Nobody
            /\ Standing = "held" /\ Standing' \in {"spent", "revoked"}
  <2>1. authority[current] = "held" /\ current \in Ids
    BY <1>2, <1>15 DEF Accounted
  <2>2. Authority!Spend(current) \/ Authority!Drop(current)
    BY <1>11, <1>15, <2>1 DEF Authority!Spend, Authority!Drop, Authority!Move
  <2> QED BY <1>10, <2>1, <2>2 DEF Authority!Next
<1>16. CASE ~ latched /\ ~ latched' /\ current = Nobody /\ current' # Nobody /\ Standing' = "held"
  <2>1. current' \in Ids /\ authority[current'] = "none"
    BY <1>1, <1>2, <1>8, <1>16 DEF Accounted
  <2>2. Authority!Grant(current')
    BY <1>11, <1>16, <2>1 DEF Authority!Grant, Authority!Move
  <2> QED BY <1>10, <2>1, <2>2 DEF Authority!Next
<1>17. CASE current' = current /\ Standing' = IF Standing = "held" THEN "revoked" ELSE Standing
  <2>1. \A id \in Ids : authority'[id] = IF authority[id] = "held" THEN "revoked" ELSE authority[id]
    BY <1>1, <1>2, <1>5, <1>17 DEF Accounted
  <2>3. Authority!RevokeAll
    BY <1>4, <2>1 DEF Authority!RevokeAll
  <2>2. Authority!Stop \/ Authority!Rearm
    BY <1>2, <2>3 DEF Authority!Stop, Authority!Rearm
  <2> QED BY <1>10, <2>2 DEF Authority!Next
<1> QED BY <1>14, <1>15, <1>16, <1>17, StandingStep

\* The pipeline keeps the promise of the safety latch as it sees it: a command
\* gets a permit only while the latch is off, a stop and a reset take it, and one
\* that was taken neither comes back nor lets the command complete (safety.py;
\* client_commands.py, _run_hardware_command). Recording what became of a permit
\* hinders no step of the pipeline.
THEOREM PermitsAreKept == RecordedSpec => Spec /\ Authority!Spec
<1>1. ASSUME RecordedInit PROVE Init /\ Accounted /\ Authority!Init
  <2>1. Init /\ authority = [id \in Ids |-> "none"]
    BY <1>1 DEF RecordedInit
  <2>2. Accounted
    BY <2>1 DEF Init, Accounted, Authority!Authority
  <2>3. Authority!Init
    BY <2>1 DEF Init, Authority!Init
  <2> QED BY <2>1, <2>2, <2>3
<1>2. ASSUME IInv, IInv', Accounted, [Next /\ Record]_<<vars, authority>>
      PROVE  Accounted' /\ [Authority!Next]_<<~ latched, authority>>
  <2>1. CASE UNCHANGED <<vars, authority>>
    BY <1>2, <2>1 DEF vars, queueVars, loopVars, ledgerVars, historyVars, Accounted, Standing, Untaken
  <2>2. CASE Next /\ Record
    <3>1. UNCHANGED <<latched, authority>> => UNCHANGED <<~ latched, authority>>
      OBVIOUS
    <3> QED BY <1>2, <2>2, <3>1, AuthorityStep
  <2> QED BY <1>2, <2>1, <2>2
<1>3. [Next /\ Record]_<<vars, authority>> => [Next]_vars
  BY DEF vars
<1>4. RecordedSpec => Spec
  BY <1>1, <1>3, PTL DEF RecordedSpec, Spec
<1> QED BY <1>1, <1>2, <1>4, Invariance, PTL DEF RecordedSpec, Authority!Spec, Authority!vars
=============================================================================
