----------------------------- MODULE MediaProofs -----------------------------
(***************************************************************************)
(* For any cameras, publishers and coroutines: a camera that is published  *)
(* all the time has one owner. Only the holder of _camera_restart_lock     *)
(* starts its publisher again, and what it waited for is what it replaces; *)
(* what stops cameras without the lock only clears the runtime of a task   *)
(* that is done. A camera on demand is started by policies as well, which  *)
(* do not take the lock: it has one owner where nothing but run() works    *)
(* beside the one coroutine that applies them. With any second coroutine   *)
(* that is false, and TLC finds the two owners.                            *)
(***************************************************************************)
EXTENDS Media, TLAPS

\* Where a coroutine may stand, and what it still has to visit then.
Coroutine(a) ==
  /\ pc[a] = "restart" <=> lock = a
  /\ pc[a] = "restart" => /\ phase # "starting" /\ left[a] # {}
                          /\ Waiting(a) => cam[a] \in left[a]
  /\ pc[a] = "sync" => /\ a \in Appliers /\ left[a] \subseteq OnDemand
                       /\ Waiting(a) => cam[a] \in left[a]
  /\ pc[a] = "stop" => a = Run /\ phase = "stopping" /\ left[a] # {}
  /\ Waiting(a) => cam[a] \in Cameras /\ pc[a] \in {"restart", "sync", "stop"}
  /\ a = Supervisor /\ pc[a] = "lock" => left[a] # {}
  /\ a = Run => pc[a] \in {"idle", "stop"}

\* No policy competes for cameras on demand: there are none, nobody applies one,
\* or nobody works beside the coroutine that does.
Uncontested ==
  \/ OnDemand = {}
  \/ Coroutines \cap Appliers = {}
  \/ \E a \in Appliers : Coroutines \subseteq {a}

\* The cameras that can be relied on to have one owner.
Protected == IF Uncontested THEN Cameras ELSE AlwaysOn

\* The holder of the lock, or a policy, has yet to visit camera c.
Visits(a, c) == pc[a] \in {"restart", "sync"} /\ c \in left[a]

Pending(c) == \E a \in Actors : Visits(a, c)

\* Whoever restarts c meets the only publisher it has, and has it replaced
\* only after that one is done. A run() that stops c may have cleared it.
Owned(c) ==
  /\ \A t, u \in alive[c] : t = u
  /\ phase = "starting" => alive[c] = {} /\ \A a \in Actors : ~ (Waiting(a) /\ cam[a] = c)
  /\ phase # "stopping" \/ Pending(c) => alive[c] \subseteq {task[c]}
  /\ \A a \in Actors :
       Waiting(a) /\ cam[a] = c /\ Pending(c) => task[c] \in {tk[a], None}

Protocol == \A a \in Actors : Coroutine(a)

Owners == \A c \in Protected : Owned(c)

IInv == TypeOK /\ Protocol /\ Owners

-----------------------------------------------------------------------------
(* Facts about names, and the choices the definitions make.                *)

LEMMA NamesDiffer ==
  /\ Run \in Actors /\ None \notin Actors
  /\ Run # Supervisor /\ Run # Recovery /\ Run \notin Appliers
  /\ Supervisor # Recovery /\ Supervisor \notin Appliers /\ Recovery \notin Appliers
  /\ None \notin Cameras /\ None \notin Publishers
BY MediaAssumption DEF Actors, Appliers, Run, Supervisor, Recovery

LEMMA NamedIsFree ==
  ASSUME NEW c \in Cameras, Free(c) # {}
  PROVE  Named(c) \in Publishers \ alive[c]
BY DEF Named, Free

LEMMA NextOfIsLeft ==
  ASSUME NEW a \in Actors, left[a] # {}
  PROVE  NextOf(a) \in left[a]
BY DEF NextOf

\* A restart or a stop has a camera before it, and only these and the sync wait.
LEMMA Visiting ==
  ASSUME TypeOK, Protocol, NEW a \in Actors
  PROVE  /\ pc[a] \in {"restart", "stop"} => NextOf(a) \in left[a] /\ NextOf(a) \in Cameras
         /\ left[a] # {} => NextOf(a) \in left[a] /\ NextOf(a) \in Cameras
         /\ Waiting(a) => cam[a] \in Cameras
BY NextOfIsLeft DEF TypeOK, Protocol, Coroutine

-----------------------------------------------------------------------------
(* Every step keeps the types.                                             *)

LEMMA StartTypes ==
  ASSUME TypeOK, NEW c \in Cameras, StartCamera(c)
  PROVE  /\ task' \in [Cameras -> Publishers \cup {None}]
         /\ alive' \in [Cameras -> SUBSET Publishers]
         /\ held' \in [Cameras -> BOOLEAN]
         /\ late' \in [Cameras -> BOOLEAN]
BY NamedIsFree DEF StartCamera, TypeOK

LEMMA CancelTypes ==
  ASSUME TypeOK, NEW c \in Cameras, NEW a \in Actors, Live(c), CancelCamera(a, c)
  PROVE  /\ ending' \in [Cameras -> SUBSET Publishers]
         /\ cam' \in [Actors -> Cameras \cup {None}]
         /\ tk' \in [Actors -> Publishers \cup {None}]
BY DEF CancelCamera, TypeOK, Live

LEMMA RetryTypes ==
  ASSUME TypeOK, NEW c \in Cameras, Supervisor \in Coroutines,
         NEW found \in [held : BOOLEAN, late : BOOLEAN, count : 0 .. Budget + 1], Retry(c, found)
  PROVE  /\ count' \in [Cameras -> 0 .. Budget + 1]
         /\ held' \in [Cameras -> BOOLEAN]
         /\ pc' \in [Actors -> {"idle", "sleep", "lock", "restart", "sync", "stop"}]
         /\ left' \in [Actors -> SUBSET Cameras]
         /\ UNCHANGED <<lock, prev, waitVars>>
<1>1. Supervisor \in Actors  BY DEF Actors
<1>2. Budget \in Nat  BY MediaAssumption
<1>3. CASE found.count + 1 > Budget
  <2>1. Budget + 1 \in 0 .. Budget + 1  BY <1>2
  <2>2. /\ count' = [count EXCEPT ![c] = Budget + 1]
        /\ held' = [held EXCEPT ![c] = TRUE]
        /\ UNCHANGED <<lock, pc, left, prev, cam, tk>>
    BY <1>3 DEF Retry, actorVars, waitVars
  <2> QED  BY <2>1, <2>2 DEF TypeOK, waitVars
<1>4. CASE ~(found.count + 1 > Budget)
  <2>1. found.count + 1 \in 0 .. Budget + 1  BY <1>2, <1>4
  <2> QED  BY <1>1, <1>4, <2>1 DEF Retry, TypeOK
<1> QED  BY <1>3, <1>4

LEMMA FoundTypes ==
  ASSUME TypeOK, NEW c \in Cameras
  PROVE  /\ Progress(c) \subseteq [held : BOOLEAN, late : BOOLEAN, count : 0 .. Budget + 1]
         /\ NoProgress(c) \in [held : BOOLEAN, late : BOOLEAN, count : 0 .. Budget + 1]
         /\ [NoProgress(c) EXCEPT !.held = TRUE]
               \in [held : BOOLEAN, late : BOOLEAN, count : 0 .. Budget + 1]
<1>1. Budget \in Nat /\ 0 \in 0 .. Budget + 1  BY MediaAssumption
<1>2. held[c] \in BOOLEAN /\ late[c] \in BOOLEAN /\ count[c] \in 0 .. Budget + 1  BY DEF TypeOK
<1> QED  BY <1>1, <1>2 DEF Progress, NoProgress

LEMMA TypesNext ==
  ASSUME TypeOK, Protocol, [Next]_vars
  PROVE  TypeOK'
<1> USE DEF runtimeVars, waitVars, actorVars
<1>1. CASE Connect
  <2>1. \A c \in Wanted : Named(c) \in Publishers
    BY <1>1, NamedIsFree DEF Connect, Wanted, AlwaysOn
  <2>2. 0 \in 0 .. Budget + 1  BY MediaAssumption
  <2> QED  BY <1>1, <2>1, <2>2 DEF Connect, TypeOK
<1>2. CASE Reconnected
  BY <1>2 DEF Reconnected, LockWithout, StopWaiting, Actors, TypeOK
<1>3. CASE Recover
  BY <1>3 DEF Recover, TypeOK
<1>4. CASE Shutdown
  BY <1>4 DEF Shutdown, TypeOK
<1>5. CASE VisitStop
  BY <1>5, Visiting, CancelTypes, NamesDiffer DEF VisitStop, Leave, TypeOK
<1>6. CASE StopCancelled
  BY <1>6 DEF StopCancelled, StopWaiting, Leave, TypeOK
<1>7. ASSUME NEW c \in Cameras, Quiet(c)  PROVE TypeOK'
  BY <1>7 DEF Quiet, TypeOK
<1>8. ASSUME NEW c \in Cameras, RecordProgress(c)  PROVE TypeOK'
  <2>1. PICK found \in Progress(c) : /\ held' = [held EXCEPT ![c] = found.held]
                                     /\ late' = [late EXCEPT ![c] = found.late]
                                     /\ count' = [count EXCEPT ![c] = found.count]
    BY <1>8 DEF RecordProgress
  <2>2. found \in [held : BOOLEAN, late : BOOLEAN, count : 0 .. Budget + 1]  BY FoundTypes
  <2> QED  BY <1>8, <2>1, <2>2 DEF RecordProgress, TypeOK
<1>9. ASSUME NEW c \in Cameras, RestartFinished(c)  PROVE TypeOK'
  <2>1. PICK found \in Progress(c) \cup {NoProgress(c)} :
          Retry(c, found) /\ late' = [late EXCEPT ![c] = found.late]
    BY <1>9 DEF RestartFinished
  <2>2. found \in [held : BOOLEAN, late : BOOLEAN, count : 0 .. Budget + 1]  BY FoundTypes
  <2> QED  BY <1>9, <2>1, <2>2, RetryTypes DEF RestartFinished, Looks, TypeOK
<1>10. ASSUME NEW c \in Cameras, RestartStalled(c)  PROVE TypeOK'
  BY <1>10, FoundTypes, RetryTypes DEF RestartStalled, Looks, TypeOK
<1>11. ASSUME NEW c \in Cameras, ShutdownCancels(c)  PROVE TypeOK'
  BY <1>11 DEF ShutdownCancels, Live, TypeOK
<1>12. ASSUME NEW c \in Cameras, NEW t \in Publishers, PublisherEnds(c, t)  PROVE TypeOK'
  BY <1>12 DEF PublisherEnds, TypeOK
<1>13. ASSUME NEW a \in Actors, NEW c \in Cameras, SelectCamera(a, c)  PROVE TypeOK'
  BY <1>13, MediaAssumption DEF SelectCamera, TypeOK
<1>14. ASSUME NEW a \in Actors, RestartAll(a)  PROVE TypeOK'
  BY <1>14 DEF RestartAll, TypeOK
<1>15. ASSUME NEW a \in Actors, VisitSync(a)  PROVE TypeOK'
  BY <1>15, Visiting, StartTypes, CancelTypes DEF VisitSync, TypeOK
<1>16. ASSUME NEW a \in Actors, SyncCancelled(a)  PROVE TypeOK'
  BY <1>16 DEF SyncCancelled, StopWaiting, TypeOK
<1>17. ASSUME NEW a \in Actors, SyncEnds(a)  PROVE TypeOK'
  BY <1>17 DEF SyncEnds, TypeOK
<1>18. ASSUME NEW a \in Actors, Acquire(a)  PROVE TypeOK'
  BY <1>18 DEF Acquire, Wanted, AlwaysOn, TypeOK
<1>19. ASSUME NEW a \in Actors, VisitRestart(a)  PROVE TypeOK'
  <2>1. CASE Live(NextOf(a))
    BY <1>19, <2>1, Visiting, CancelTypes DEF VisitRestart, TypeOK
  <2>2. CASE ~Live(NextOf(a))
    BY <1>19, <2>2, Visiting, StartTypes DEF VisitRestart, Continue, TypeOK
  <2> QED  BY <2>1, <2>2
<1>20. ASSUME NEW a \in Actors, RestartCancelled(a)  PROVE TypeOK'
  BY <1>20, Visiting, StartTypes DEF RestartCancelled, StopWaiting, Continue, TypeOK
<1>21. ASSUME NEW a \in Actors, RestartOverdue(a)  PROVE TypeOK'
  BY <1>21, Visiting, StartTypes DEF RestartOverdue, StopWaiting, Continue, TypeOK
<1>22. ASSUME NEW a \in Actors, ShutdownDrops(a)  PROVE TypeOK'
  BY <1>22 DEF ShutdownDrops, LockWithout, StopWaiting, TypeOK
<1>23. CASE UNCHANGED vars
  BY <1>23 DEF vars, TypeOK
<1> QED
  BY <1>1, <1>2, <1>3, <1>4, <1>5, <1>6, <1>7, <1>8, <1>9, <1>10, <1>11, <1>12, <1>13,
     <1>14, <1>15, <1>16, <1>17, <1>18, <1>19, <1>20, <1>21, <1>22, <1>23
  DEF Next, Supervise, Restart, Sync, Stop, Apply

-----------------------------------------------------------------------------
(* Every step keeps the protocol of the lock and of the waits.             *)

LEMMA RetryProtocol ==
  ASSUME TypeOK, Protocol, NEW c \in Cameras, NEW found, Looks, Retry(c, found),
         UNCHANGED <<phase, primary>>
  PROVE  Protocol'
<1>1. Supervisor \in Actors  BY DEF Looks, Actors
<1>2. CASE found.count + 1 > Budget
  BY <1>2 DEF Retry, Protocol, Coroutine, Waiting, actorVars, waitVars
<1>3. CASE ~(found.count + 1 > Budget)
  <2>1. /\ pc' = [pc EXCEPT ![Supervisor] = "lock"]
        /\ left' = [left EXCEPT ![Supervisor] = {c}]
        /\ UNCHANGED <<lock, cam, tk>>
    BY <1>3 DEF Retry, waitVars
  <2>2. pc[Supervisor] = "idle"  BY DEF Looks
  <2> QED  BY <1>1, <2>1, <2>2, NamesDiffer DEF Protocol, Coroutine, Waiting, TypeOK
<1> QED  BY <1>2, <1>3

LEMMA ProtocolNext ==
  ASSUME TypeOK, Protocol, [Next]_vars
  PROVE  Protocol'
<1> USE NamesDiffer DEF runtimeVars, waitVars, actorVars, Protocol, Coroutine, Waiting
<1>1. CASE Connect
  BY <1>1 DEF Connect
<1>2. CASE Reconnected
  BY <1>2 DEF Reconnected, LockWithout, StopWaiting, Connected, TypeOK
<1>3. CASE Recover
  BY <1>3 DEF Recover, TypeOK
<1>4. CASE Shutdown
  BY <1>4 DEF Shutdown, Connected, TypeOK
<1>5. CASE VisitStop
  BY <1>5, Visiting DEF VisitStop, CancelCamera, Leave, TypeOK
<1>6. CASE StopCancelled
  BY <1>6 DEF StopCancelled, StopWaiting, Leave, TypeOK
<1>7. ASSUME NEW c \in Cameras, Quiet(c)  PROVE Protocol'
  BY <1>7 DEF Quiet
<1>8. ASSUME NEW c \in Cameras, RecordProgress(c)  PROVE Protocol'
  BY <1>8 DEF RecordProgress
<1>9. ASSUME NEW c \in Cameras, RestartFinished(c)  PROVE Protocol'
  BY <1>9, RetryProtocol DEF RestartFinished
<1>10. ASSUME NEW c \in Cameras, RestartStalled(c)  PROVE Protocol'
  BY <1>10, RetryProtocol DEF RestartStalled
<1>11. ASSUME NEW c \in Cameras, ShutdownCancels(c)  PROVE Protocol'
  BY <1>11 DEF ShutdownCancels
<1>12. ASSUME NEW c \in Cameras, NEW t \in Publishers, PublisherEnds(c, t)  PROVE Protocol'
  BY <1>12 DEF PublisherEnds
<1>13. ASSUME NEW a \in Actors, NEW c \in Cameras, SelectCamera(a, c)  PROVE Protocol'
  BY <1>13 DEF SelectCamera, Idle, TypeOK
<1>14. ASSUME NEW a \in Actors, RestartAll(a)  PROVE Protocol'
  BY <1>14 DEF RestartAll, Idle, TypeOK
<1>15. ASSUME NEW a \in Actors, VisitSync(a)  PROVE Protocol'
  BY <1>15, Visiting DEF VisitSync, CancelCamera, TypeOK
<1>16. ASSUME NEW a \in Actors, SyncCancelled(a)  PROVE Protocol'
  BY <1>16 DEF SyncCancelled, StopWaiting, TypeOK
<1>17. ASSUME NEW a \in Actors, SyncEnds(a)  PROVE Protocol'
  BY <1>17 DEF SyncEnds, TypeOK
<1>18. ASSUME NEW a \in Actors, Acquire(a)  PROVE Protocol'
  BY <1>18 DEF Acquire, Wanted, Connected, TypeOK
<1>19. ASSUME NEW a \in Actors, VisitRestart(a)  PROVE Protocol'
  BY <1>19, Visiting DEF VisitRestart, CancelCamera, Continue, TypeOK
<1>20. ASSUME NEW a \in Actors, RestartCancelled(a)  PROVE Protocol'
  BY <1>20 DEF RestartCancelled, StopWaiting, Continue, TypeOK
<1>21. ASSUME NEW a \in Actors, RestartOverdue(a)  PROVE Protocol'
  BY <1>21 DEF RestartOverdue, StopWaiting, Continue, TypeOK
<1>22. ASSUME NEW a \in Actors, ShutdownDrops(a)  PROVE Protocol'
  BY <1>22 DEF ShutdownDrops, LockWithout, StopWaiting, TypeOK
<1>23. CASE UNCHANGED vars
  BY <1>23 DEF vars
<1> QED
  BY <1>1, <1>2, <1>3, <1>4, <1>5, <1>6, <1>7, <1>8, <1>9, <1>10, <1>11, <1>12, <1>13,
     <1>14, <1>15, <1>16, <1>17, <1>18, <1>19, <1>20, <1>21, <1>22, <1>23
  DEF Next, Supervise, Restart, Sync, Stop, Apply

-----------------------------------------------------------------------------
(* Every step keeps the owners of the protected cameras.                   *)

\* Whoever applies a policy to a protected camera has only run() beside it.
LEMMA PoliciesAreAlone ==
  ASSUME NEW c \in Protected, c \in OnDemand, NEW a \in Actors, a \in Appliers, NEW b \in Actors
  PROVE  b = a \/ b = Run
<1>1. a \in Coroutines /\ c \notin AlwaysOn
  BY NamesDiffer DEF Actors, AlwaysOn
<1>2. PICK g \in Appliers : Coroutines \subseteq {g}
  BY <1>1 DEF Protected, Uncontested
<1> QED  BY <1>1, <1>2 DEF Actors

\* So only one coroutine has yet to visit it.
LEMMA OneVisits ==
  ASSUME Protocol, NEW c \in Protected, NEW a \in Actors, NEW b \in Actors,
         Visits(a, c), Visits(b, c)
  PROVE  a = b
<1> USE NamesDiffer DEF Protocol, Coroutine, Visits
<1>1. pc[a] = "restart" /\ pc[b] = "restart" => a = b
  OBVIOUS
<1>2. a # Run /\ b # Run
  OBVIOUS
<1>3. pc[a] = "sync" => a = b
  BY <1>2, PoliciesAreAlone
<1>4. pc[b] = "sync" => a = b
  BY <1>2, PoliciesAreAlone
<1> QED  BY <1>1, <1>3, <1>4

\* A step that starts no publisher and moves neither the lock nor a task.
LEMMA OwnedStays ==
  ASSUME NEW c \in Protected, Owned(c),
         phase' = phase \/ phase' = "stopping",
         alive'[c] \subseteq alive[c], task'[c] = task[c],
         Pending(c)' => Pending(c),
         \A a \in Actors : tk'[a] # None /\ cam'[a] = c
                            => \/ task[c] = tk'[a] /\ phase # "starting"
                               \/ tk'[a] = tk[a] /\ cam'[a] = cam[a]
  PROVE  Owned(c)'
BY DEF Owned, Waiting

\* A protected camera is started once it has no publisher and whoever had to
\* visit it is through with it.
LEMMA StartsOne ==
  ASSUME TypeOK, NEW d \in Cameras, StartCamera(d), phase' = phase,
         d \in Protected => alive[d] = {} /\ ~Pending(d)',
         \A c \in Protected : Owned(c) /\ (Pending(c)' => Pending(c)),
         \A a \in Actors : tk'[a] # None => tk'[a] = tk[a] /\ cam'[a] = cam[a]
  PROVE  Owners'
<1> SUFFICES ASSUME NEW c \in Protected  PROVE Owned(c)'
  BY DEF Owners
<1>0. c \in Cameras
  BY DEF Protected, AlwaysOn
<1>1. CASE c = d
  <2>1. alive'[d] \subseteq {task'[d]} /\ (phase = "starting" => alive'[d] = {})
    BY <1>1 DEF StartCamera, TypeOK
  <2> QED  BY <1>1, <2>1 DEF Owned, Waiting
<1>2. CASE c # d
  <2>1. alive'[c] = alive[c] /\ task'[c] = task[c]
    BY <1>0, <1>2 DEF StartCamera, TypeOK
  <2> QED  BY <2>1, OwnedStays
<1> QED  BY <1>1, <1>2

LEMMA OwnersNext ==
  ASSUME TypeOK, Protocol, Owners, [Next]_vars
  PROVE  Owners'
<1> USE NamesDiffer DEF runtimeVars, waitVars, actorVars, Protocol, Coroutine, Waiting, Pending, Visits
<1>a. \A c \in Protected : Owned(c) /\ c \in Cameras
  BY DEF Owners, Protected, AlwaysOn
<1>1. CASE Connect
  BY <1>1, <1>a, NamedIsFree DEF Connect, Wanted, Owners, Owned, TypeOK
<1>2. CASE Reconnected
  BY <1>2, <1>a, OwnedStays DEF Reconnected, LockWithout, StopWaiting, Owners, TypeOK
<1>3. CASE Recover
  BY <1>3, <1>a, OwnedStays DEF Recover, Owners, TypeOK
<1>4. CASE Shutdown
  BY <1>4, <1>a, OwnedStays DEF Shutdown, Owners, TypeOK
<1>5. CASE VisitStop
  BY <1>5, <1>a, Visiting, OwnedStays DEF VisitStop, CancelCamera, Leave, Owners, TypeOK
<1>6. CASE StopCancelled
  <2> SUFFICES ASSUME NEW c \in Protected PROVE Owned(c)'
    BY DEF Owners
  <2>1. Pending(c)' => Pending(c)
    BY <1>6 DEF StopCancelled, Leave, TypeOK
  <2>2. CASE task'[c] = task[c]
    BY <1>6, <1>a, <2>1, <2>2, OwnedStays DEF StopCancelled, StopWaiting, TypeOK
  <2>3. CASE task'[c] # task[c]
    <3>1. c = cam[Run] /\ tk[Run] \notin alive[c] /\ task'[c] = None /\ phase = "stopping"
      BY <1>6, <1>a, <2>3 DEF StopCancelled, TypeOK
    <3>2. Pending(c) => alive[c] = {}
      BY <1>6, <1>a, <3>1 DEF StopCancelled, Owned, TypeOK
    <3> QED  BY <1>6, <1>a, <2>1, <3>1, <3>2 DEF StopCancelled, StopWaiting, Owned, TypeOK
  <2> QED  BY <2>2, <2>3
<1>7. ASSUME NEW c \in Cameras, Quiet(c)  PROVE Owners'
  BY <1>7, <1>a, OwnedStays DEF Quiet, Owners
<1>8. ASSUME NEW c \in Cameras, RecordProgress(c)  PROVE Owners'
  BY <1>8, <1>a, OwnedStays DEF RecordProgress, Owners
<1>9. ASSUME NEW c \in Cameras, RestartFinished(c)  PROVE Owners'
  BY <1>9, <1>a, OwnedStays DEF RestartFinished, Looks, Retry, Owners, TypeOK
<1>10. ASSUME NEW c \in Cameras, RestartStalled(c)  PROVE Owners'
  BY <1>10, <1>a, OwnedStays DEF RestartStalled, Looks, Retry, Owners, TypeOK
<1>11. ASSUME NEW c \in Cameras, ShutdownCancels(c)  PROVE Owners'
  BY <1>11, <1>a, OwnedStays DEF ShutdownCancels, Owners
<1>12. ASSUME NEW c \in Cameras, NEW t \in Publishers, PublisherEnds(c, t)  PROVE Owners'
  BY <1>12, <1>a, OwnedStays DEF PublisherEnds, Owners, TypeOK
<1>13. ASSUME NEW a \in Actors, NEW d \in Cameras, SelectCamera(a, d)  PROVE Owners'
  <2> SUFFICES ASSUME NEW c \in Protected PROVE Owned(c)'
    BY DEF Owners
  <2>1. UNCHANGED <<phase, task, alive, cam, tk>> /\ phase # "stopping" /\ pc[a] = "idle" /\ a \in Appliers
    BY <1>13 DEF SelectCamera, Idle
  <2>2. \A b \in Actors \ {a} : Visits(b, c)' => Visits(b, c)
    BY <1>13 DEF SelectCamera, TypeOK
  <2>3. CASE c \notin OnDemand
    BY <1>13, <1>a, <2>1, <2>2, <2>3, OwnedStays DEF SelectCamera, TypeOK
  <2>4. CASE c \in OnDemand
    <3>1. \A b \in Actors : ~ Waiting(b)
      BY <2>1, <2>4, PoliciesAreAlone
    <3> QED  BY <1>a, <2>1, <3>1 DEF Owned
  <2> QED  BY <2>3, <2>4
<1>14. ASSUME NEW a \in Actors, RestartAll(a)  PROVE Owners'
  BY <1>14, <1>a, OwnedStays DEF RestartAll, Owners, TypeOK
<1>15. ASSUME NEW a \in Actors, VisitSync(a)  PROVE Owners'
  <2>1. PICK d \in Cameras : d = NextOf(a) /\ d \in left[a] /\ Visits(a, d)
    BY <1>15, Visiting DEF VisitSync
  <2>2. \A c \in Protected : Pending(c)' => Pending(c)
    BY <1>15 DEF VisitSync, TypeOK
  <2>3. CASE StartCamera(d) /\ ~ Live(d) /\ UNCHANGED waitVars
    <3>1. left' = [left EXCEPT ![a] = @ \ {d}] /\ UNCHANGED <<phase, pc>>
      BY <1>15, <2>1, <2>3 DEF VisitSync
    <3>2. ASSUME d \in Protected
          PROVE  alive[d] = {} /\ ~ Pending(d)'
      <4>1. alive[d] = {}
        BY <1>a, <2>1, <2>3, <3>2 DEF Owned, Live
      <4>2. \A b \in Actors : Visits(b, d) => b = a
        BY <2>1, <3>2, OneVisits
      <4> QED  BY <3>1, <4>1, <4>2 DEF TypeOK
    <3> QED  BY <1>a, <2>1, <2>2, <2>3, <3>1, <3>2, StartsOne
  <2>4. CASE CancelCamera(a, d) /\ Live(d) /\ UNCHANGED <<task, alive, left>>
    <3>1. d \in Protected => phase # "starting"
      BY <1>a, <2>4 DEF Owned, Live
    <3> QED  BY <1>15, <1>a, <2>1, <2>2, <2>4, <3>1, OwnedStays DEF VisitSync, CancelCamera, Owners, TypeOK
  <2>5. CASE UNCHANGED <<task, alive, waitVars>>
    BY <1>15, <1>a, <2>2, <2>5, OwnedStays DEF VisitSync, Owners, TypeOK
  <2> QED  BY <1>15, <2>1, <2>3, <2>4, <2>5 DEF VisitSync
<1>16. ASSUME NEW a \in Actors, SyncCancelled(a)  PROVE Owners'
  <2> SUFFICES ASSUME NEW c \in Protected PROVE Owned(c)'
    BY DEF Owners
  <2>1. Pending(c)' => Pending(c)
    BY <1>16 DEF SyncCancelled, TypeOK
  <2>2. CASE task'[c] = task[c]
    BY <1>16, <1>a, <2>1, <2>2, OwnedStays DEF SyncCancelled, StopWaiting, TypeOK
  <2>3. CASE task'[c] # task[c]
    <3>1. c = cam[a] /\ tk[a] \notin alive[c] /\ task'[c] = None
      BY <1>16, <1>a, <2>3 DEF SyncCancelled, TypeOK
    <3>2. alive[c] = {}
      BY <1>16, <1>a, <3>1 DEF SyncCancelled, Owned, TypeOK
    <3>3. \A b \in Actors : Visits(b, c) => b = a
      BY <1>16, <3>1, OneVisits DEF SyncCancelled
    <3>4. ~ Pending(c)'
      BY <1>16, <3>1, <3>3 DEF SyncCancelled, TypeOK
    <3> QED  BY <1>16, <1>a, <3>1, <3>2, <3>4 DEF SyncCancelled, StopWaiting, Owned, TypeOK
  <2> QED  BY <2>2, <2>3
<1>17. ASSUME NEW a \in Actors, SyncEnds(a)  PROVE Owners'
  BY <1>17, <1>a, OwnedStays DEF SyncEnds, Owners, TypeOK
<1>18. ASSUME NEW a \in Actors, Acquire(a)  PROVE Owners'
  <2> SUFFICES ASSUME NEW c \in Protected PROVE Owned(c)'
    BY DEF Owners
  <2>1. UNCHANGED <<phase, task, alive, cam, tk>> /\ pc[a] = "lock" /\ lock = None
    BY <1>18 DEF Acquire
  <2>2. CASE ~ Connected
    BY <1>18, <1>a, <2>1, <2>2, OwnedStays DEF Acquire, TypeOK
  <2>3. CASE Connected
    <3>1. ASSUME NEW b \in Actors, Waiting(b), cam[b] = c
          PROVE  task[c] \in {tk[b], None}
      <4>1. pc[b] = "sync"
        BY <2>1, <2>3, <3>1 DEF Connected
      <4> QED  BY <1>a, <3>1, <4>1 DEF Owned
    <3> QED  BY <1>a, <2>1, <2>3, <3>1 DEF Owned, Connected
  <2> QED  BY <2>2, <2>3
<1>19. ASSUME NEW a \in Actors, VisitRestart(a)  PROVE Owners'
  <2>1. PICK d \in Cameras : d = NextOf(a) /\ d \in left[a] /\ phase # "starting" /\ Visits(a, d)
    BY <1>19, Visiting DEF VisitRestart
  <2>2. \A c \in Protected : Pending(c)' => Pending(c)
    BY <1>19 DEF VisitRestart, Continue, TypeOK
  <2>3. CASE Live(d)
    BY <1>19, <1>a, <2>1, <2>2, <2>3, OwnedStays DEF VisitRestart, CancelCamera, Owners, TypeOK
  <2>4. CASE ~Live(d)
    <3>1. ASSUME d \in Protected
          PROVE  alive[d] = {} /\ ~ Pending(d)'
      <4>1. alive[d] = {}
        BY <1>a, <2>1, <2>4, <3>1 DEF Owned, Live
      <4>2. \A b \in Actors : Visits(b, d) => b = a
        BY <2>1, <3>1, OneVisits
      <4> QED  BY <1>19, <2>1, <2>4, <4>1, <4>2 DEF VisitRestart, Continue, TypeOK
    <3> QED  BY <1>19, <1>a, <2>1, <2>2, <2>4, <3>1, StartsOne DEF VisitRestart
  <2> QED  BY <2>3, <2>4
<1>20. ASSUME NEW a \in Actors, RestartCancelled(a)  PROVE Owners'
  <2>1. PICK d \in Cameras : d = cam[a] /\ d \in left[a] /\ phase # "starting" /\ Visits(a, d)
    BY <1>20 DEF RestartCancelled
  <2>2. \A c \in Protected : Pending(c)' => Pending(c)
    BY <1>20 DEF RestartCancelled, Continue, TypeOK
  <2>3. ASSUME d \in Protected
        PROVE  alive[d] = {} /\ ~ Pending(d)'
    <3>1. alive[d] = {}
      BY <1>20, <1>a, <2>1, <2>3 DEF RestartCancelled, Owned, TypeOK
    <3>2. \A b \in Actors : Visits(b, d) => b = a
      BY <2>1, <2>3, OneVisits
    <3> QED  BY <1>20, <2>1, <3>1, <3>2 DEF RestartCancelled, Continue, TypeOK
  <2> QED  BY <1>20, <1>a, <2>1, <2>2, <2>3, StartsOne DEF RestartCancelled, StopWaiting, TypeOK
<1>21. ASSUME NEW a \in Actors, RestartOverdue(a)  PROVE Owners'
  <2>1. PICK d \in Cameras : d = cam[a] /\ d \in left[a] /\ phase # "starting" /\ Visits(a, d)
    BY <1>21 DEF RestartOverdue
  <2>2. \A c \in Protected : Pending(c)' => Pending(c)
    BY <1>21 DEF RestartOverdue, Continue, TypeOK
  <2>3. CASE Live(d)
    BY <1>21, <1>a, <2>1, <2>2, <2>3, OwnedStays DEF RestartOverdue, StopWaiting, Owners, TypeOK
  <2>4. CASE ~Live(d)
    <3>1. ASSUME d \in Protected
          PROVE  alive[d] = {} /\ ~ Pending(d)'
      <4>1. alive[d] = {}
        BY <1>a, <2>1, <2>4, <3>1 DEF Owned, Live
      <4>2. \A b \in Actors : Visits(b, d) => b = a
        BY <2>1, <3>1, OneVisits
      <4> QED  BY <1>21, <2>1, <2>4, <4>1, <4>2 DEF RestartOverdue, Continue, TypeOK
    <3> QED  BY <1>21, <1>a, <2>1, <2>2, <2>4, <3>1, StartsOne DEF RestartOverdue, StopWaiting, TypeOK
  <2> QED  BY <2>3, <2>4
<1>22. ASSUME NEW a \in Actors, ShutdownDrops(a)  PROVE Owners'
  BY <1>22, <1>a, OwnedStays DEF ShutdownDrops, LockWithout, StopWaiting, Owners, TypeOK
<1>23. CASE UNCHANGED vars
  BY <1>23, <1>a, OwnedStays DEF vars, Owners
<1> QED
  BY <1>1, <1>2, <1>3, <1>4, <1>5, <1>6, <1>7, <1>8, <1>9, <1>10, <1>11, <1>12, <1>13,
     <1>14, <1>15, <1>16, <1>17, <1>18, <1>19, <1>20, <1>21, <1>22, <1>23
  DEF Next, Supervise, Restart, Sync, Stop, Apply

-----------------------------------------------------------------------------
(* The theorems.                                                           *)

LEMMA Initially == Init => IInv
<1> SUFFICES ASSUME Init  PROVE IInv
  OBVIOUS
<1>1. TypeOK
  <2>1. 0 \in 0 .. Budget + 1  BY MediaAssumption
  <2> QED  BY <2>1 DEF Init, TypeOK
<1>2. Protocol
  BY NamesDiffer DEF Init, Protocol, Coroutine, Waiting
<1>3. Owners
  BY DEF Init, Owners, Owned, Pending, Visits, Waiting, Protected, AlwaysOn
<1> QED  BY <1>1, <1>2, <1>3 DEF IInv

LEMMA Invariance == Spec => []IInv
<1>1. IInv /\ [Next]_vars => IInv'
  BY TypesNext, ProtocolNext, OwnersNext DEF IInv
<1> QED  BY Initially, <1>1, PTL DEF Spec

\* Every variable of the client keeps its type, and no restart, policy or stop
\* waits for or visits anything but a camera.
THEOREM MediaTypes == Spec => []TypeOK
<1>1. IInv => TypeOK
  BY DEF IInv
<1> QED  BY Invariance, <1>1, PTL

\* A camera that is published always never has two publishers, whoever restarts
\* or stops it, whatever is published on demand besides it.
THEOREM AlwaysOnCamerasHaveOneOwner == Spec => [](\A c \in AlwaysOn : OneOwnerOf(c))
<1>1. IInv => \A c \in AlwaysOn : OneOwnerOf(c)
  BY DEF IInv, Owners, Owned, OneOwnerOf, Protected, AlwaysOn
<1> QED  BY Invariance, <1>1, PTL

\* No camera ever has two publishers, however many are on demand, while no second
\* coroutine works beside the one that applies policies (client_media.py,
\* _sync_on_demand_cameras). A supervisor, a recovery or another channel beside it
\* makes this false.
THEOREM CamerasHaveOneOwner ==
  ASSUME Uncontested
  PROVE  Spec => []OneOwner
<1>1. IInv => OneOwner
  BY DEF IInv, Owners, Owned, OneOwnerOf, OneOwner, Protected
<1> QED  BY Invariance, <1>1, PTL
==============================================================================
