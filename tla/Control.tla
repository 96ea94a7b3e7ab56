------------------------------- MODULE Control -------------------------------
(***************************************************************************)
(* Who is in control of the robot: the gateway session (gateway.py) from   *)
(* claim to loss, the remote actions that arrive over the socket and over  *)
(* the poll that replaces it (client_ops.py, remote_actions.py), the stops *)
(* all of them call for, the replacement of the adapter, and the shutdown. *)
(*                                                                         *)
(* Everything runs on one loop: an action is what happens between two      *)
(* awaits. The steps of one stop, and what a worker does against it, are   *)
(* in SafetyStop; the ledger that a session drains is in Outbox.           *)
(***************************************************************************)
EXTENDS Naturals, Sequences, FiniteSets

CONSTANTS Actions,   \* ids of remote actions
          Kind,      \* what each asks for
          Adapters,  \* instances of the hardware adapter
          First,     \* the one the client starts with
          None

Channels == {"ws", "poll"}

Kinds == {"restart_control", "reset_safety", "restart_video", "refused"}

ASSUME KindAssumption == Kind \in [Actions -> Kinds]
ASSUME FirstAssumption == First \in Adapters
ASSUME NoneAssumption == None \notin Actions \cup Adapters

VARIABLES
  main,       \* the client: "up", then the stages of shutdown()
  token,      \* robot_auth_token is known
  gw,         \* where GatewayClient.run is
  wire,       \* the socket: "none", "up" or "lost"
  claimed,    \* connected_this_attempt
  pending,    \* _pending_recovery_reason is set
  notified,   \* _disconnect_notified
  at,         \* where a channel is in the remote action it awaits
  old,        \* the adapter a restart_control closes
  processed,  \* _processed_remote_action_ids
  taken,      \* actions that were taken so far
  twice,      \* one of them was taken again
  latched,    \* SafetyController._latched
  lastStop,   \* stats.last_stop_status, a timeout counted as failed
  stops,      \* who waits for _stop_lock, its holder first
  holding,    \* is it taken
  worker,     \* the adapter that _stop_worker_task stops
  stopOk,     \* stop_confirmed of shutdown()
  handler,    \* the adapter in use
  moving,     \* adapters that drive
  ruled,      \* motion of a claimed session has a permit
  crossed     \* a reset ended inside a restart of the other channel, or shutdown()
              \* cancelled who waited for a stop

sessionVars == <<gw, wire, claimed, pending, notified>>
actionVars == <<at, old, processed, taken, twice>>
stopVars == <<latched, lastStop, stops, holding, worker, stopOk>>
deviceVars == <<handler, moving, ruled, crossed>>
vars == <<main, token, sessionVars, actionVars, stopVars, deviceVars>>

Running == main = "up"

\* GatewayClient.connected
Connected == claimed /\ gw \in {"greet", "open", "leave"}

Init ==
  /\ main = "up"
  /\ token \in BOOLEAN
  /\ gw = "connect"
  /\ wire = "none"
  /\ claimed = FALSE
  /\ pending = FALSE
  /\ notified = FALSE
  /\ at = [c \in Channels |-> "idle"]
  /\ old = [c \in Channels |-> None]
  /\ processed = {}
  /\ taken = {}
  /\ twice = FALSE
  /\ latched = FALSE
  /\ lastStop = "never"
  /\ stops = <<>>
  /\ holding = FALSE
  /\ worker = None
  /\ stopOk = FALSE
  /\ handler = First
  /\ moving = {}
  /\ ruled = FALSE
  /\ crossed = FALSE

-----------------------------------------------------------------------------
(* A stop: latch at once, then wait in line for the adapter.               *)

\* Who finds the lock free takes it at once; the worker starts with TakeLock.
TriggerStop(caller) ==
  /\ latched' = TRUE
  /\ ruled' = FALSE
  /\ stops' = Append(stops, caller)
  /\ lastStop' = IF stops = <<>> THEN "pending" ELSE lastStop
  /\ UNCHANGED <<holding, worker, handler, moving, crossed>>

Waits(caller) == \E i \in DOMAIN stops : stops[i] = caller

\* What the caller does with the answer.
Answer(confirmed) ==
  LET caller == Head(stops) IN
  /\ stops' = Tail(stops)
  /\ holding' = FALSE
  /\ gw' = IF caller = "gateway" THEN "sleep" ELSE gw
  /\ notified' = (notified \/ caller = "gateway")
  /\ main' = IF caller = "main" THEN "cancel" ELSE main
  /\ stopOk' = IF caller = "main" THEN confirmed ELSE stopOk
  /\ IF caller \in Channels
     THEN /\ at' = [at EXCEPT ![caller] = IF confirmed THEN "close" ELSE "idle"]
          /\ old' = IF confirmed THEN [old EXCEPT ![caller] = handler] ELSE old
     ELSE UNCHANGED <<at, old>>
  /\ UNCHANGED <<token, wire, claimed, pending, processed, taken, twice,
                 latched, handler, ruled, crossed>>

\* A worker that is still pending fails the next stop.
TakeLock ==
  /\ stops # <<>> /\ ~ holding
  /\ IF worker = None
     THEN /\ holding' = TRUE
          /\ lastStop' = "pending"
          /\ worker' = handler
          /\ UNCHANGED <<main, token, sessionVars, actionVars, latched, stops, stopOk, deviceVars>>
     ELSE /\ lastStop' = "failed"
          /\ Answer(FALSE)
          /\ UNCHANGED <<worker, moving>>

StopConfirms ==
  /\ holding
  /\ lastStop' = "confirmed"
  /\ moving' = moving \ {worker}
  /\ worker' = None
  /\ Answer(TRUE)

StopFails ==
  /\ holding
  /\ lastStop' = "failed"
  /\ worker' = None
  /\ Answer(FALSE)
  /\ UNCHANGED moving

\* Mutant: the stop waits for its worker as long as it takes.
StopNeverTimesOut == FALSE /\ UNCHANGED vars

\* wait_for(shield(worker)) gives up, the thread goes on.
StopTimesOut ==
  /\ holding
  /\ lastStop' = "failed"
  /\ Answer(FALSE)
  /\ UNCHANGED <<worker, moving>>

LateWorkerEnds ==
  /\ worker # None /\ ~ holding
  /\ worker' = None
  /\ moving' = moving \ {worker}
  /\ UNCHANGED <<main, token, sessionVars, actionVars, latched, lastStop, stops, holding,
                 stopOk, handler, ruled, crossed>>

-----------------------------------------------------------------------------
(* Remote actions.                                                         *)

\* Mutant: only what the checks let through is remembered.
RememberRefusals(a) ==
  processed' = IF Kind[a] = "refused" THEN processed \cup {a} ELSE processed

Remember(a) == processed' = processed \cup {a}

Enter(c, where) == at' = [at EXCEPT ![c] = where]

Finish(c) == Enter(c, "idle")

\* Mutant: the adapter is replaced without a stop.
CloseAtOnce(c) ==
  /\ Enter(c, "close")
  /\ old' = [old EXCEPT ![c] = handler]
  /\ UNCHANGED <<stopVars, deviceVars>>

\* _restart_control
StopAndClose(c) ==
  /\ Enter(c, "stop")
  /\ TriggerStop(c)
  /\ UNCHANGED <<old, stopOk>>

\* _reset_hardware_stop, up to the adapter's hook.
MayReset == worker = None /\ lastStop \in {"never", "confirmed"}

Unmoved == UNCHANGED <<stopVars, deviceVars>>

\* execute
Execute(c, a) ==
  IF a \in processed
  THEN /\ Finish(c)
       /\ Unmoved
       /\ UNCHANGED <<old, processed, taken, twice>>
  ELSE /\ Remember(a)
       /\ taken' = taken \cup {a}
       /\ twice' = (twice \/ a \in taken)
       /\ CASE Kind[a] = "restart_control" -> StopAndClose(c)
            [] Kind[a] = "restart_video" -> Enter(c, "work") /\ Unmoved /\ UNCHANGED old
            [] Kind[a] = "reset_safety" /\ MayReset -> Enter(c, "hook") /\ Unmoved /\ UNCHANGED old
            [] OTHER -> Finish(c) /\ Unmoved /\ UNCHANGED old

\* close() of the old adapter: it stops it, then releases its resources.
CloseStops(c) ==
  /\ at[c] = "close"
  /\ moving' = moving \ {old[c]}
  /\ Enter(c, "release")
  /\ UNCHANGED <<main, token, sessionVars, old, processed, taken, twice, stopVars, handler, ruled, crossed>>

\* The new adapter is created on the loop, or LoggingHardware stands in for it.
CloseEnds(c) ==
  /\ at[c] = "release"
  /\ handler' \in Adapters \ ({handler, worker} \cup moving \cup {old[d] : d \in Channels})
  /\ Finish(c)
  /\ old' = [old EXCEPT ![c] = None]
  /\ UNCHANGED <<main, token, sessionVars, processed, taken, twice, stopVars, moving, ruled, crossed>>

\* It raises, or does not return within 3 s; the handler stays.
CloseFails(c) ==
  /\ at[c] \in {"close", "release"}
  /\ Finish(c)
  /\ old' = [old EXCEPT ![c] = None]
  /\ UNCHANGED <<main, token, sessionVars, processed, taken, twice, stopVars, deviceVars>>

HookReturns(c) ==
  /\ at[c] = "hook"
  /\ latched' = FALSE
  /\ crossed' = (crossed \/ \E d \in Channels : at[d] \in {"stop", "close", "release"})
  /\ Finish(c)
  /\ UNCHANGED <<main, token, sessionVars, old, processed, taken, twice,
                 lastStop, stops, holding, worker, stopOk, handler, moving, ruled>>

\* Mutant: _restart_video waits for a frame as long as it takes.
VideoNeverTimesOut(c) == FALSE /\ UNCHANGED vars

\* No frame within 15 s of the restart, which is in Media.
VideoTimesOut(c) ==
  /\ at[c] = "work"
  /\ Finish(c)
  /\ UNCHANGED <<main, token, sessionVars, old, processed, taken, twice, stopVars, deviceVars>>

VideoReturns(c) ==
  /\ at[c] = "work"
  /\ Finish(c)
  /\ UNCHANGED <<main, token, sessionVars, old, processed, taken, twice, stopVars, deviceVars>>

\* _actions_loop polls while the gateway is not connected; the answer may come later.
Poll ==
  /\ Running /\ ~ Connected /\ token /\ at["poll"] = "idle"
  /\ at' = [at EXCEPT !["poll"] = "request"]
  /\ UNCHANGED <<main, token, sessionVars, old, processed, taken, twice, stopVars, deviceVars>>

PollReturns(a) ==
  /\ at["poll"] = "request"
  /\ Execute("poll", a)
  /\ UNCHANGED <<main, token, sessionVars>>

PollFails ==
  /\ at["poll"] = "request"
  /\ Finish("poll")
  /\ UNCHANGED <<main, token, sessionVars, old, processed, taken, twice, stopVars, deviceVars>>

-----------------------------------------------------------------------------
(* The gateway session.                                                    *)

GatewayIsFree == at["ws"] = "idle"

\* Mutant: _disconnect_notified is kept from the session before.
KeepNotified == UNCHANGED notified

ForgetNotified == notified' = FALSE

\* ws_connect and the claim that is sent.
Connect ==
  /\ gw = "connect" /\ Running /\ token
  /\ gw' = "claim"
  /\ wire' = "up"
  /\ claimed' = FALSE
  /\ UNCHANGED <<main, token, pending, notified, actionVars, stopVars, deviceVars>>

ConnectFails ==
  /\ gw = "connect" /\ Running
  /\ gw' = "leave"
  /\ claimed' = FALSE
  /\ UNCHANGED <<main, token, wire, pending, notified, actionVars, stopVars, deviceVars>>

\* _await_robot_claim returns.
Claim ==
  /\ gw = "claim" /\ wire = "up" /\ Running /\ GatewayIsFree
  /\ gw' = "greet"
  /\ claimed' = TRUE
  /\ ForgetNotified
  /\ UNCHANGED <<main, token, wire, pending, actionVars, stopVars, deviceVars>>

\* The ledger is drained, actions are pulled, a planned outage is reported over.
Greet ==
  /\ gw = "greet" /\ wire = "up"
  /\ gw' = "open"
  /\ pending' = FALSE
  /\ notified' = (notified /\ ~ pending)
  /\ UNCHANGED <<main, token, wire, claimed, actionVars, stopVars, deviceVars>>

\* The connection breaks.
Lose ==
  /\ wire = "up"
  /\ wire' = "lost"
  /\ UNCHANGED <<main, token, gw, claimed, pending, notified, actionVars, stopVars, deviceVars>>

\* A command of motion runs on the adapter in use unless the latch is set; the
\* queue and the loop it passes are in CommandPipeline.
Drive ==
  IF latched
  THEN UNCHANGED <<moving, ruled>>
  ELSE /\ moving' = moving \cup {handler}
       /\ ruled' = claimed

\* _handle_message, while the claim is unanswered too: a message may come at any
\* time, after the others that are not read yet or the last before a loss.
ReadsSocket == gw \in {"claim", "open"} /\ wire # "none" /\ GatewayIsFree

ReceiveMotion ==
  /\ ReadsSocket
  /\ Drive
  /\ UNCHANGED <<main, token, sessionVars, actionVars, stopVars, handler, crossed>>

\* Bound: one stop in a task of its own waits at a time.
ReceiveEmergencyStop ==
  /\ ReadsSocket /\ ~ Waits("background")
  /\ TriggerStop("background")
  /\ UNCHANGED <<main, token, sessionVars, actionVars, stopOk>>

ReceiveServerShutdown ==
  /\ ReadsSocket
  /\ pending' = TRUE
  /\ UNCHANGED <<main, token, gw, wire, claimed, notified, actionVars, stopVars, deviceVars>>

ReceiveAction(a) ==
  /\ ReadsSocket
  /\ Execute("ws", a)
  /\ UNCHANGED <<main, token, sessionVars>>

\* A closed socket, a send over it, or ~ running.
NoticeLoss ==
  /\ gw \in {"claim", "greet", "open"} /\ GatewayIsFree
  /\ wire = "lost" \/ ~ Running
  /\ gw' = "leave"
  /\ UNCHANGED <<main, token, wire, claimed, pending, notified, actionVars, stopVars, deviceVars>>

\* The claim is refused or times out, a callback raises, the ledger is full.
SessionRaises ==
  /\ gw \in {"claim", "greet", "open"} /\ GatewayIsFree
  /\ gw' = "leave"
  /\ UNCHANGED <<main, token, wire, claimed, pending, notified, actionVars, stopVars, deviceVars>>

ShouldNotify == Running /\ (claimed \/ pending) /\ ~ notified

\* The finally clause of run; _handle_gateway_disconnected calls for a stop.
Leave ==
  /\ gw = "leave"
  /\ wire' = "none"
  /\ IF ShouldNotify
     THEN /\ gw' = "notify"
          /\ TriggerStop("gateway")
          /\ UNCHANGED stopOk
     ELSE /\ gw' = "sleep"
          /\ UNCHANGED <<stopVars, deviceVars>>
  /\ UNCHANGED <<main, token, claimed, pending, notified, actionVars>>

\* The reconnect delay ends.
Wake ==
  /\ gw = "sleep"
  /\ gw' = IF Running THEN "connect" ELSE "over"
  /\ UNCHANGED <<main, token, wire, claimed, pending, notified, actionVars, stopVars, deviceVars>>

-----------------------------------------------------------------------------
(* The rest of the client.                                                 *)

\* ClientAuthenticator.claim; whatever it fails with, it leaves all as it was.
ClaimSucceeds == token' = TRUE

\* run() claims the robot over HTTP until it succeeds.
Authenticate ==
  /\ Running /\ ~ token
  /\ ClaimSucceeds
  /\ UNCHANGED <<main, sessionVars, actionVars, stopVars, deviceVars>>

\* A pulse ends.
MotionEnds(h) ==
  /\ h \in moving
  /\ moving' = moving \ {h}
  /\ ruled' = (ruled /\ h # handler)
  /\ UNCHANGED <<main, token, sessionVars, actionVars, stopVars, handler, crossed>>

\* The control deadline stops motion in its own task.
Deadline ==
  /\ Running /\ moving # {} /\ ~ latched /\ ~ Waits("background")
  /\ TriggerStop("background")
  /\ UNCHANGED <<main, token, sessionVars, actionVars, stopOk>>

Shutdown ==
  /\ Running
  /\ main' = "stop"
  /\ TriggerStop("main")
  /\ UNCHANGED <<token, sessionVars, actionVars, stopOk>>

Cancelled == Channels \cup {"gateway"}

ReleaseLock == holding' = (holding /\ Head(stops) \notin Cancelled)

\* The poll and the gateway are cancelled wherever they wait: of the stops, one
\* in a task of its own may go on.
CancelTasks ==
  /\ main = "cancel"
  /\ main' = "close"
  /\ gw' = "over"
  /\ wire' = "none"
  /\ at' = [c \in Channels |-> "idle"]
  /\ old' = [c \in Channels |-> None]
  /\ stops' = IF Waits("background") THEN <<"background">> ELSE <<>>
  /\ crossed' = (crossed \/ stops' # stops)
  /\ ReleaseLock
  /\ UNCHANGED <<token, claimed, pending, notified, processed, taken, twice,
                 latched, lastStop, worker, stopOk, handler, moving, ruled>>

\* handler.close(); shutdown() raises unless stop and close were confirmed.
CloseHandler ==
  /\ main = "close"
  /\ \/ /\ moving' = moving \ {handler}
        /\ main' = IF stopOk THEN "ended" ELSE "failed"
     \/ /\ main' = "failed"
        /\ UNCHANGED moving
  /\ UNCHANGED <<token, sessionVars, actionVars, stopVars, handler, ruled, crossed>>

-----------------------------------------------------------------------------

\* The process ends with shutdown(); _shutdown_with_timeout may end it sooner,
\* after 15 s, which leaves nothing that is said here.
Alive == main \notin {"ended", "failed"}

Session ==
  \/ Connect \/ ConnectFails \/ Claim \/ Greet \/ Lose \/ NoticeLoss \/ SessionRaises \/ Leave \/ Wake
  \/ ReceiveMotion \/ ReceiveEmergencyStop \/ ReceiveServerShutdown
  \/ \E a \in Actions : ReceiveAction(a)

RemoteActions ==
  \/ Poll \/ PollFails
  \/ \E a \in Actions : PollReturns(a)
  \/ \E c \in Channels :
       CloseStops(c) \/ CloseEnds(c) \/ CloseFails(c) \/ HookReturns(c) \/ VideoTimesOut(c) \/ VideoReturns(c)

Stopping ==
  TakeLock \/ StopConfirms \/ StopFails \/ StopTimesOut \/ LateWorkerEnds

Client ==
  \/ Authenticate \/ Deadline \/ Shutdown \/ CancelTasks \/ CloseHandler
  \/ \E h \in Adapters : MotionEnds(h)

Next == Alive /\ (Session \/ RemoteActions \/ Stopping \/ Client)

\* The loop runs what is ready and its timers fire. A connection, a claim and a
\* greeting succeed now and then. The adapter's hook returns; its stop and its
\* close may hang, and no frame need ever come.
Fairness ==
  /\ SF_vars(Alive /\ Connect) /\ SF_vars(Alive /\ Claim) /\ SF_vars(Alive /\ Greet)
  /\ WF_vars(Alive /\ ConnectFails) /\ WF_vars(Alive /\ NoticeLoss)
  /\ WF_vars(Alive /\ Leave) /\ WF_vars(Alive /\ Wake) /\ WF_vars(Alive /\ Authenticate)
  /\ WF_vars(Alive /\ TakeLock) /\ WF_vars(Alive /\ StopTimesOut)
  /\ \A c \in Channels :
       /\ WF_vars(Alive /\ CloseFails(c)) /\ WF_vars(Alive /\ VideoTimesOut(c))
       /\ WF_vars(Alive /\ HookReturns(c))

Spec == Init /\ [][Next]_vars /\ Fairness

-----------------------------------------------------------------------------

Callers == Channels \cup {"gateway", "background", "main"}

TypeOK ==
  /\ main \in {"up", "stop", "cancel", "close", "ended", "failed"}
  /\ token \in BOOLEAN
  /\ gw \in {"connect", "claim", "greet", "open", "leave", "notify", "sleep", "over"}
  /\ wire \in {"none", "up", "lost"}
  /\ claimed \in BOOLEAN /\ pending \in BOOLEAN /\ notified \in BOOLEAN
  /\ at \in [Channels -> {"idle", "request", "stop", "close", "release", "hook", "work"}]
  /\ old \in [Channels -> Adapters \cup {None}]
  /\ processed \in SUBSET Actions
  /\ taken \in SUBSET Actions
  /\ twice \in BOOLEAN
  /\ latched \in BOOLEAN
  /\ lastStop \in {"never", "pending", "confirmed", "failed"}
  /\ stops \in Seq(Callers)
  /\ holding \in BOOLEAN /\ (holding => stops # <<>>)
  /\ worker \in Adapters \cup {None}
  /\ stopOk \in BOOLEAN
  /\ handler \in Adapters
  /\ moving \in SUBSET Adapters
  /\ ruled \in BOOLEAN
  /\ crossed \in BOOLEAN

\* "Every control-plane disconnect [...] latches a local stop" (README.md:48):
\* motion that a claimed session admitted has no permit left once that session
\* has ended, whatever was reported or announced before.
LostControlIsStopped ==
  ruled /\ Running => claimed /\ gw \in {"greet", "open", "leave"}

\* Whatever the socket, the poll and their retries deliver, each remote action
\* is carried out once (remote_actions.py:90).
ActionsRunOnce == ~ twice

\* A stop that was confirmed reached whatever drives, though restart_control
\* replaced the adapter, unless a reset ended inside the replacement, or
\* shutdown() cancelled who waited for another.
StopReachesWhatDrives ==
  latched /\ lastStop = "confirmed" /\ stops = <<>> /\ ~ crossed => moving = {}

\* A connection that breaks latches a stop, though the receive loop awaits a
\* remote action and cannot see it (gateway.py:299).
LossLatches ==
  (gw = "open" /\ wire = "lost") ~> (latched \/ ~ Running)

\* Control comes back, whatever the adapter does to the stop at its loss.
ControlReturns == []<>(gw = "open" \/ ~ Running)
==============================================================================
