---------------------------- MODULE ControlProofs ----------------------------
(***************************************************************************)
(* For any remote actions and adapters: motion of a session has no permit  *)
(* left when that session is over, each remote action is carried out once, *)
(* and a stop that was confirmed reached whatever drives.                  *)
(***************************************************************************)
EXTENDS Control, SequenceTheorems, TLAPS

\* Nobody waits twice for a stop; a channel or the gateway waits where it says.
NoneTwice == \A i, j \in 1 .. Len(stops) : stops[i] = stops[j] => i = j

Line ==
  /\ NoneTwice
  /\ \A c \in Channels : Waits(c) => at[c] = "stop"
  /\ Waits("gateway") => gw = "notify"
  /\ Waits("main") => main = "stop"

\* A session that was claimed is not announced as over before it is.
Claimed == claimed /\ gw \in {"greet", "open", "leave"}

Owned ==
  /\ gw = "claim" => ~ claimed
  /\ Claimed => ~ notified
  /\ LostControlIsStopped

Restarting(c) == at[c] \in {"stop", "close", "release"}

\* Only the adapter in use drives. While it is replaced the latch is set, and
\* once its stop was confirmed nothing drives. What the last stop in line does
\* not reach was latched before.
Driving ==
  ~ crossed =>
    /\ moving \subseteq {handler}
    /\ \A c \in Channels : Restarting(c) => latched
    /\ \A c \in Channels : at[c] \in {"close", "release"} => moving = {}
    /\ holding /\ (Head(stops) \in Channels \/ (latched /\ Len(stops) = 1)) =>
         moving \subseteq {worker}
    /\ latched /\ lastStop = "confirmed" /\ stops = <<>> => moving = {}

Once == taken \subseteq processed /\ ~ twice

IInv == TypeOK /\ Line /\ Owned /\ Driving /\ Once

-----------------------------------------------------------------------------
(* Who waits for a stop, before and after a call and an answer.            *)

Different(s) == \A i, j \in 1 .. Len(s) : s[i] = s[j] => i = j

LEMMA AppendDiffers ==
  ASSUME NEW S, NEW s \in Seq(S), NEW x \in S, Different(s), \A i \in 1 .. Len(s) : s[i] # x
  PROVE  /\ Append(s, x) \in Seq(S) /\ Append(s, x) # <<>> /\ Different(Append(s, x))
         /\ Len(Append(s, x)) = Len(s) + 1
         /\ s # <<>> => Head(Append(s, x)) = Head(s) /\ Len(s) >= 1
         /\ s = <<>> => Head(Append(s, x)) = x
         /\ \A y : (\E i \in 1 .. Len(s) + 1 : Append(s, x)[i] = y)
                     <=> y = x \/ \E i \in 1 .. Len(s) : s[i] = y
<1> DEFINE t == Append(s, x)
<1>1. /\ t \in Seq(S) /\ Len(t) = Len(s) + 1 /\ Len(s) \in Nat
      /\ \A i \in 1 .. Len(s) : t[i] = s[i]
      /\ t[Len(s) + 1] = x
  BY AppendProperties, LenProperties
<1>2. t # <<>> /\ Head(t) = t[1]
  <2>1. t # <<>> BY AppendProperties
  <2> QED BY <1>1, <2>1
<1>3. s # <<>> => Head(s) = s[1] /\ Len(s) >= 1
  BY EmptySeq
<1>4. s = <<>> => Len(s) = 0
  BY EmptySeq
<1> HIDE DEF t
<1>5. Different(t)
  BY <1>1 DEF Different
<1>6. \A y : (\E i \in 1 .. Len(s) + 1 : t[i] = y) <=> y = x \/ \E i \in 1 .. Len(s) : s[i] = y
  BY <1>1
<1>7. s # <<>> => Head(t) = Head(s)
  BY <1>1, <1>2, <1>3
<1>8. s = <<>> => Head(t) = x
  BY <1>1, <1>2, <1>4
<1> QED BY <1>1, <1>2, <1>3, <1>5, <1>6, <1>7, <1>8 DEF t

LEMMA TailDiffers ==
  ASSUME NEW S, NEW s \in Seq(S), s # <<>>, Different(s)
  PROVE  /\ Head(s) \in S /\ Tail(s) \in Seq(S) /\ Different(Tail(s))
         /\ Tail(s) = <<>> <=> Len(s) = 1
         /\ \A y : (\E i \in 1 .. Len(Tail(s)) : Tail(s)[i] = y)
                     <=> y # Head(s) /\ \E i \in 1 .. Len(s) : s[i] = y
<1>1. /\ Head(s) \in S /\ Tail(s) \in Seq(S) /\ Len(Tail(s)) = Len(s) - 1
      /\ Len(s) \in Nat /\ Len(s) >= 1 /\ Head(s) = s[1]
      /\ \A i \in 1 .. Len(Tail(s)) : Tail(s)[i] = s[i + 1]
  BY HeadTailProperties, EmptySeq, LenProperties
<1>2. Different(Tail(s))
  BY <1>1 DEF Different
<1>3. Tail(s) = <<>> <=> Len(Tail(s)) = 0
  BY <1>1, EmptySeq
<1>4. ASSUME NEW y
      PROVE  (\E i \in 1 .. Len(Tail(s)) : Tail(s)[i] = y)
               <=> y # Head(s) /\ \E i \in 1 .. Len(s) : s[i] = y
  <2>1. ASSUME NEW i \in 1 .. Len(Tail(s)), Tail(s)[i] = y
        PROVE  y # Head(s) /\ s[i + 1] = y /\ i + 1 \in 1 .. Len(s)
    BY <1>1, <2>1 DEF Different
  <2>2. ASSUME y # Head(s), NEW i \in 1 .. Len(s), s[i] = y
        PROVE  i - 1 \in 1 .. Len(Tail(s)) /\ Tail(s)[i - 1] = y
    BY <1>1, <2>2
  <2> QED BY <2>1, <2>2
<1> QED BY <1>1, <1>2, <1>3, <1>4

LEMMA WaitsAre ==
  ASSUME TypeOK
  PROVE  \A x : Waits(x) <=> \E i \in 1 .. Len(stops) : stops[i] = x
<1>1. DOMAIN stops = 1 .. Len(stops)
  BY LenProperties DEF TypeOK
<1> QED BY <1>1 DEF Waits

LEMMA CallJoins ==
  ASSUME TypeOK, NoneTwice, NEW c \in Callers, ~ Waits(c), TriggerStop(c)
  PROVE  /\ stops' \in Seq(Callers) /\ stops' # <<>> /\ NoneTwice'
         /\ \A x : Waits(x)' <=> x = c \/ Waits(x)
         /\ stops # <<>> => Head(stops') = Head(stops) /\ Len(stops') # 1
<1>1. stops \in Seq(Callers) /\ Len(stops) \in Nat
  BY LenProperties DEF TypeOK
<1>2. Different(stops) /\ \A i \in 1 .. Len(stops) : stops[i] # c
  BY WaitsAre DEF NoneTwice, Different
<1>3. stops' = Append(stops, c)
  BY DEF TriggerStop
<1>4. /\ stops' \in Seq(Callers) /\ stops' # <<>> /\ Different(stops')
      /\ Len(stops') = Len(stops) + 1
      /\ stops # <<>> => Head(stops') = Head(stops) /\ Len(stops) >= 1
      /\ \A y : (\E i \in 1 .. Len(stops) + 1 : stops'[i] = y) <=> y = c \/ \E i \in 1 .. Len(stops) : stops[i] = y
  BY <1>1, <1>2, <1>3, AppendDiffers
<1>5. DOMAIN stops' = 1 .. Len(stops')
  BY <1>4, LenProperties
<1>6. \A x : Waits(x)' <=> \E i \in 1 .. Len(stops') : stops'[i] = x
  BY <1>5 DEF Waits
<1>7. \A x : Waits(x)' <=> x = c \/ Waits(x)
  BY <1>4, <1>6, WaitsAre
<1>8. NoneTwice'
  BY <1>4 DEF NoneTwice, Different
<1>9. stops # <<>> => Len(stops') # 1
  BY <1>1, <1>4
<1> QED BY <1>4, <1>7, <1>8, <1>9

LEMMA AnswerLeaves ==
  ASSUME TypeOK, NoneTwice, stops # <<>>, stops' = Tail(stops)
  PROVE  /\ stops' \in Seq(Callers) /\ NoneTwice'
         /\ Head(stops) \in Callers /\ Waits(Head(stops))
         /\ \A x : Waits(x)' <=> x # Head(stops) /\ Waits(x)
         /\ stops' = <<>> <=> Len(stops) = 1
<1>1. stops \in Seq(Callers) /\ Different(stops)
  BY DEF TypeOK, NoneTwice, Different
<1> DEFINE rest == Tail(stops)
<1>2. /\ Head(stops) \in Callers /\ rest \in Seq(Callers) /\ Different(rest)
      /\ rest = <<>> <=> Len(stops) = 1
      /\ \A y : (\E i \in 1 .. Len(rest) : rest[i] = y)
                  <=> y # Head(stops) /\ \E i \in 1 .. Len(stops) : stops[i] = y
  BY <1>1, TailDiffers, ZenonT(30)
<1>0. stops' = rest
  OBVIOUS
<1> HIDE DEF rest
<1>3. DOMAIN stops' = 1 .. Len(stops')
  BY <1>0, <1>2, LenProperties
<1>4. \A x : Waits(x)' <=> \E i \in 1 .. Len(stops') : stops'[i] = x
  BY <1>3 DEF Waits
<1>5. \A x : Waits(x)' <=> x # Head(stops) /\ Waits(x)
  BY <1>0, <1>2, <1>4, WaitsAre
<1>6. Head(stops) = stops[1] /\ Len(stops) \in Nat /\ Len(stops) >= 1
  BY <1>1, EmptySeq, LenProperties
<1>7. Waits(Head(stops))
  BY <1>6, WaitsAre
<1>8. NoneTwice'
  BY <1>0, <1>2 DEF NoneTwice, Different
<1> QED BY <1>0, <1>2, <1>5, <1>7, <1>8

\* Whose turn it is waits where Line says.
LEMMA HolderWaits ==
  ASSUME TypeOK, stops # <<>>
  PROVE  Head(stops) \in Callers /\ Waits(Head(stops))
<1>1. Head(stops) = stops[1] /\ Len(stops) \in Nat /\ Len(stops) >= 1 /\ stops[1] \in Callers
  BY EmptySeq, LenProperties, ElementOfSeq DEF TypeOK
<1> QED BY <1>1, WaitsAre

\* Who calls for a stop does not wait for one yet.
LEMMA CallersAreNew ==
  ASSUME TypeOK, Line
  PROVE  /\ \A c \in Channels : at[c] # "stop" => ~ Waits(c)
         /\ gw # "notify" => ~ Waits("gateway")
         /\ main # "stop" => ~ Waits("main")
BY DEF Line

LEMMA CallersAre ==
  /\ Channels \subseteq Callers /\ "gateway" \in Callers /\ "background" \in Callers /\ "main" \in Callers
  /\ "ws" \in Channels /\ "poll" \in Channels
  /\ "gateway" \notin Channels /\ "background" \notin Channels /\ "main" \notin Channels
BY DEF Callers, Channels

-----------------------------------------------------------------------------
(* Types.                                                                  *)

LEMMA CallIsTyped ==
  ASSUME TypeOK, NoneTwice, NEW c \in Callers, ~ Waits(c), TriggerStop(c)
  PROVE  /\ stops' \in Seq(Callers) /\ stops' # <<>>
         /\ latched' \in BOOLEAN /\ ruled' \in BOOLEAN
         /\ lastStop' \in {"never", "pending", "confirmed", "failed"}
<1>1. stops' \in Seq(Callers) /\ stops' # <<>>
  BY CallJoins
<1> QED BY <1>1 DEF TriggerStop, TypeOK

LEMMA CallKeepsTypes ==
  ASSUME TypeOK, NoneTwice, NEW c \in Callers, ~ Waits(c), TriggerStop(c), stopOk' = stopOk,
         main' \in {main, "stop"}, gw' \in {gw, "notify"}, wire' \in {wire, "none"},
         UNCHANGED <<token, claimed, pending, notified, actionVars>>
  PROVE  TypeOK'
<1>1. /\ stops' \in Seq(Callers) /\ stops' # <<>>
      /\ latched' \in BOOLEAN /\ ruled' \in BOOLEAN
      /\ lastStop' \in {"never", "pending", "confirmed", "failed"}
  BY CallIsTyped
<1>2. UNCHANGED <<holding, worker, handler, moving, crossed>>
  BY DEF TriggerStop
<1> QED BY <1>1, <1>2 DEF TypeOK, actionVars

LEMMA AnswerIsTyped ==
  ASSUME TypeOK, Line, stops # <<>>, NEW b \in BOOLEAN, Answer(b),
         worker' \in Adapters \cup {None}, moving' \in SUBSET Adapters,
         lastStop' \in {"never", "pending", "confirmed", "failed"}
  PROVE  TypeOK'
<1>1. stops' \in Seq(Callers)
  BY AnswerLeaves DEF Answer, Line
<1>2. at' \in [Channels -> {"idle", "request", "stop", "close", "release", "hook", "work"}]
  BY DEF Answer, TypeOK
<1>3. old' \in [Channels -> Adapters \cup {None}]
  BY DEF Answer, TypeOK
<1> QED BY <1>1, <1>2, <1>3 DEF Answer, TypeOK

LEMMA ExecuteIsTyped ==
  ASSUME TypeOK, Line, NEW c \in Channels, at[c] # "stop", NEW a \in Actions, Execute(c, a),
         UNCHANGED <<main, token, sessionVars>>
  PROVE  TypeOK'
<1> USE DEF TypeOK, sessionVars, stopVars, deviceVars, Unmoved, Finish, Enter
<1>1. CASE a \in processed
  BY <1>1 DEF Execute
<1>2. CASE a \notin processed /\ Kind[a] = "restart_control"
  <2>1. /\ at' = [at EXCEPT ![c] = "stop"] /\ TriggerStop(c) /\ UNCHANGED <<old, stopOk>>
        /\ processed' = processed \cup {a} /\ taken' = taken \cup {a}
        /\ twice' = (twice \/ a \in taken)
    BY <1>2 DEF Execute, StopAndClose, Remember
  <2>2. /\ stops' \in Seq(Callers) /\ stops' # <<>>
        /\ latched' \in BOOLEAN /\ ruled' \in BOOLEAN
        /\ lastStop' \in {"never", "pending", "confirmed", "failed"}
    BY <2>1, CallIsTyped, CallersAreNew, CallersAre DEF Line
  <2> QED BY <2>1, <2>2 DEF TriggerStop
<1>3. CASE a \notin processed /\ Kind[a] # "restart_control"
  <2>1. /\ \E where \in {"idle", "work", "hook"} : at' = [at EXCEPT ![c] = where]
        /\ UNCHANGED <<old, stopVars, deviceVars>>
        /\ processed' = processed \cup {a} /\ taken' = taken \cup {a}
        /\ twice' = (twice \/ a \in taken)
    BY <1>3 DEF Execute, Remember
  <2> QED BY <2>1
<1> QED BY <1>1, <1>2, <1>3

LEMMA TypesAreKept ==
  ASSUME TypeOK, Line, [Next]_vars
  PROVE  TypeOK'
<1> USE DEF sessionVars, actionVars, stopVars, deviceVars
<1>1. CASE Connect \/ ConnectFails \/ Claim \/ Greet \/ Lose \/ NoticeLoss \/ SessionRaises \/ Wake
  <2>1. CASE Connect \/ ConnectFails
    <3>1. gw' \in {"claim", "leave"} /\ wire' \in {"up", wire} /\ claimed' \in BOOLEAN
      BY <2>1 DEF Connect, ConnectFails
    <3>2. UNCHANGED <<main, token, pending, notified, actionVars, stopVars, deviceVars>>
      BY <2>1 DEF Connect, ConnectFails
    <3> QED BY <3>1, <3>2 DEF TypeOK
  <2>2. CASE Claim \/ Greet
    <3>1. gw' \in {"greet", "open"} /\ claimed' \in BOOLEAN /\ pending' \in BOOLEAN /\ notified' \in BOOLEAN
      BY <2>2 DEF Claim, ForgetNotified, Greet, TypeOK
    <3>2. UNCHANGED <<main, token, wire, actionVars, stopVars, deviceVars>>
      BY <2>2 DEF Claim, ForgetNotified, Greet
    <3> QED BY <3>1, <3>2 DEF TypeOK
  <2>3. CASE Lose \/ NoticeLoss
    BY <2>3 DEF Lose, NoticeLoss, TypeOK
  <2>4. CASE SessionRaises \/ Wake
    BY <2>4 DEF SessionRaises, Wake, TypeOK
  <2> QED BY <1>1, <2>1, <2>2, <2>3, <2>4
<1>2. CASE Leave
  <2>1. CASE ShouldNotify
    <3>1. TriggerStop("gateway") /\ ~ Waits("gateway")
      BY <1>2, <2>1, CallersAreNew DEF Leave
    <3>2. /\ gw' = "notify" /\ wire' = "none" /\ stopOk' = stopOk
          /\ UNCHANGED <<main, token, claimed, pending, notified, actionVars>>
      BY <1>2, <2>1 DEF Leave
    <3>3. NoneTwice /\ "gateway" \in Callers
      BY CallersAre DEF Line
    <3>4. /\ main' \in {main, "stop"} /\ gw' \in {gw, "notify"} /\ wire' \in {wire, "none"}
          /\ UNCHANGED <<token, claimed, pending, notified, actionVars>>
      BY <3>2
    <3> QED BY <3>1, <3>2, <3>3, <3>4, CallKeepsTypes
  <2>2. CASE ~ ShouldNotify
    BY <1>2, <2>2 DEF Leave, TypeOK
  <2> QED BY <2>1, <2>2
<1>3. CASE ReceiveMotion
  BY <1>3 DEF ReceiveMotion, Drive, TypeOK
<1>4. CASE ReceiveEmergencyStop \/ Deadline
  <2>1. /\ TriggerStop("background") /\ ~ Waits("background")
        /\ UNCHANGED <<main, token, sessionVars, actionVars, stopOk>>
    BY <1>4 DEF ReceiveEmergencyStop, Deadline
  <2> QED BY <2>1, CallKeepsTypes, CallersAre DEF TypeOK, Line
<1>5. CASE ReceiveServerShutdown
  BY <1>5 DEF ReceiveServerShutdown, TypeOK
<1>6. ASSUME NEW a \in Actions, ReceiveAction(a) \/ PollReturns(a) PROVE TypeOK'
  BY <1>6, ExecuteIsTyped, CallersAre DEF ReceiveAction, PollReturns, ReadsSocket, GatewayIsFree
<1>7. CASE Poll \/ PollFails
  BY <1>7 DEF Poll, PollFails, Finish, Enter, TypeOK
<1>8. ASSUME NEW c \in Channels, CloseStops(c) \/ CloseFails(c) \/ HookReturns(c) \/ VideoTimesOut(c) \/ VideoReturns(c)
      PROVE  TypeOK'
  <2>1. CASE CloseStops(c)
    BY <2>1 DEF CloseStops, Enter, TypeOK
  <2>2. CASE CloseFails(c)
    BY <2>2 DEF CloseFails, Finish, Enter, TypeOK
  <2>3. CASE HookReturns(c)
    <3>1. at' \in [Channels -> {"idle", "request", "stop", "close", "release", "hook", "work"}]
      BY <2>3 DEF HookReturns, Finish, Enter, TypeOK
    <3>2. crossed' \in BOOLEAN
      BY <2>3 DEF HookReturns, TypeOK
    <3>3. /\ latched' \in BOOLEAN
          /\ UNCHANGED <<main, token, sessionVars, old, processed, taken, twice,
                         lastStop, stops, holding, worker, stopOk, handler, moving, ruled>>
      BY <2>3 DEF HookReturns
    <3> QED BY <3>1, <3>2, <3>3 DEF TypeOK
  <2>4. CASE VideoTimesOut(c) \/ VideoReturns(c)
    BY <2>4 DEF VideoTimesOut, VideoReturns, Finish, Enter, TypeOK
  <2> QED BY <1>8, <2>1, <2>2, <2>3, <2>4
<1>9. ASSUME NEW c \in Channels, CloseEnds(c) PROVE TypeOK'
  <2>1. handler' \in Adapters BY <1>9 DEF CloseEnds
  <2> QED BY <1>9, <2>1 DEF CloseEnds, Finish, Enter, TypeOK
<1>10. CASE TakeLock
  <2>1. CASE worker = None
    BY <1>10, <2>1 DEF TakeLock, TypeOK
  <2>2. CASE worker # None
    <3>1. worker' = worker /\ moving' = moving /\ lastStop' = "failed" /\ Answer(FALSE) /\ stops # <<>>
      BY <1>10, <2>2 DEF TakeLock
    <3> QED BY <3>1, AnswerIsTyped DEF TypeOK
  <2> QED BY <2>1, <2>2
<1>11. CASE StopConfirms \/ StopFails \/ StopTimesOut
  <2>1. /\ worker' \in Adapters \cup {None} /\ moving' \in SUBSET Adapters
        /\ lastStop' \in {"never", "pending", "confirmed", "failed"} /\ stops # <<>>
        /\ Answer(TRUE) \/ Answer(FALSE)
    BY <1>11 DEF StopConfirms, StopFails, StopTimesOut, TypeOK
  <2> QED BY <2>1, AnswerIsTyped
<1>12. CASE LateWorkerEnds
  BY <1>12 DEF LateWorkerEnds, TypeOK
<1>13. CASE Authenticate
  BY <1>13 DEF Authenticate, ClaimSucceeds, TypeOK
<1>14. CASE Shutdown
  <2>1. TriggerStop("main") /\ ~ Waits("main")
    BY <1>14, CallersAreNew DEF Shutdown, Running
  <2> QED BY <1>14, <2>1, CallKeepsTypes, CallersAre DEF Shutdown, TypeOK, Line
<1>15. CASE CancelTasks
  <2>1. <<"background">> \in Seq(Callers) /\ <<"background">> # <<>>
    BY CallersAre
  <2>2. stops' \in Seq(Callers)
    BY <1>15, <2>1, EmptySeq DEF CancelTasks
  <2>3. holding' \in BOOLEAN /\ (holding' => stops' # <<>>)
    <3>1. holding /\ Head(stops) \notin Cancelled => Waits("background")
      BY <1>15, HolderWaits, CallersAreNew DEF CancelTasks, Cancelled, Callers, TypeOK
    <3> QED BY <1>15, <2>1, <3>1 DEF CancelTasks, ReleaseLock, TypeOK
  <2> QED BY <1>15, <2>2, <2>3 DEF CancelTasks, TypeOK
<1>16. CASE CloseHandler
  BY <1>16 DEF CloseHandler, TypeOK
<1>17. ASSUME NEW h \in Adapters, MotionEnds(h) PROVE TypeOK'
  BY <1>17 DEF MotionEnds, TypeOK
<1>18. CASE UNCHANGED vars
  BY <1>18 DEF vars, TypeOK
<1> QED
  BY <1>1, <1>2, <1>3, <1>4, <1>5, <1>6, <1>7, <1>8, <1>9, <1>10, <1>11, <1>12, <1>13, <1>14, <1>15, <1>16, <1>17, <1>18
  DEF Next, Session, RemoteActions, Stopping, Client

-----------------------------------------------------------------------------
(* Who waits.                                                              *)

\* Without a call or an answer it is enough that nobody who waits moves on.
LEMMA LineStays ==
  ASSUME TypeOK, Line, stops' = stops,
         \A c \in Channels : at[c] = "stop" => at'[c] = "stop",
         gw = "notify" => gw' = "notify", main = "stop" => main' = "stop"
  PROVE  Line'
<1>1. \A x : Waits(x)' <=> Waits(x)
  BY DEF Waits
<1>2. NoneTwice'
  BY DEF NoneTwice, Line
<1> QED BY <1>1, <1>2 DEF Line

LEMMA LineCalls ==
  ASSUME TypeOK, Line, NEW x \in Callers, ~ Waits(x), TriggerStop(x),
         x \in Channels => at' = [at EXCEPT ![x] = "stop"],
         x \notin Channels => at' = at,
         gw' = IF x = "gateway" THEN "notify" ELSE gw,
         main' = IF x = "main" THEN "stop" ELSE main
  PROVE  Line'
<1>1. NoneTwice' /\ \A y : Waits(y)' <=> y = x \/ Waits(y)
  BY CallJoins DEF Line
<1>2. \A c \in Channels : Waits(c)' => at'[c] = "stop"
  BY <1>1 DEF Line, TypeOK
<1> QED BY <1>1, <1>2, CallersAre DEF Line

LEMMA LineAnswers ==
  ASSUME TypeOK, Line, stops # <<>>, NEW b \in BOOLEAN, Answer(b)
  PROVE  Line'
<1>1. NoneTwice' /\ \A x : Waits(x)' <=> x # Head(stops) /\ Waits(x)
  BY AnswerLeaves DEF Line, Answer
<1>2. ASSUME NEW c \in Channels, Waits(c)' PROVE at'[c] = "stop"
  BY <1>1, <1>2 DEF Answer, Line, TypeOK
<1>3. Waits("gateway")' => gw' = "notify"
  BY <1>1 DEF Answer, Line
<1>4. Waits("main")' => main' = "stop"
  BY <1>1 DEF Answer, Line
<1> QED BY <1>1, <1>2, <1>3, <1>4 DEF Line

LEMMA LineExecutes ==
  ASSUME TypeOK, Line, NEW c \in Channels, at[c] # "stop", NEW a \in Actions, Execute(c, a),
         UNCHANGED <<main, token, sessionVars>>
  PROVE  Line'
<1>1. CASE TriggerStop(c) /\ at' = [at EXCEPT ![c] = "stop"]
  BY <1>1, LineCalls, CallersAreNew, CallersAre DEF sessionVars
<1>2. CASE UNCHANGED stops /\ \E where \in {"idle", "work", "hook"} : at' = [at EXCEPT ![c] = where]
  BY <1>2, LineStays DEF sessionVars, TypeOK
<1>3. \/ TriggerStop(c) /\ at' = [at EXCEPT ![c] = "stop"]
      \/ UNCHANGED stops /\ \E where \in {"idle", "work", "hook"} : at' = [at EXCEPT ![c] = where]
  BY DEF Execute, StopAndClose, Unmoved, Finish, Enter, stopVars
<1> QED BY <1>1, <1>2, <1>3

LEMMA LineIsKept ==
  ASSUME TypeOK, Line, [Next]_vars
  PROVE  Line'
<1> USE DEF sessionVars, actionVars, stopVars, deviceVars
<1>1. CASE Connect \/ ConnectFails \/ Claim \/ Greet \/ Lose \/ NoticeLoss \/ SessionRaises \/ Wake
  BY <1>1, LineStays DEF Connect, ConnectFails, Claim, Greet, Lose, NoticeLoss, SessionRaises, Wake
<1>2. CASE Leave
  <2>1. CASE ShouldNotify
    <3>1. TriggerStop("gateway") /\ gw' = "notify" /\ main' = main /\ at' = at /\ ~ Waits("gateway")
      BY <1>2, <2>1, CallersAreNew DEF Leave
    <3> QED BY <3>1, LineCalls, CallersAre
  <2>2. CASE ~ ShouldNotify
    BY <1>2, <2>2, LineStays DEF Leave
  <2> QED BY <2>1, <2>2
<1>3. CASE ReceiveMotion \/ ReceiveServerShutdown
  BY <1>3, LineStays DEF ReceiveMotion, ReceiveServerShutdown
<1>4. CASE ReceiveEmergencyStop \/ Deadline
  <2>1. TriggerStop("background") /\ gw' = gw /\ main' = main /\ at' = at /\ ~ Waits("background")
    BY <1>4 DEF ReceiveEmergencyStop, Deadline
  <2> QED BY <2>1, LineCalls, CallersAre
<1>5. ASSUME NEW a \in Actions, ReceiveAction(a) \/ PollReturns(a) PROVE Line'
  BY <1>5, LineExecutes, CallersAre DEF ReceiveAction, PollReturns, ReadsSocket, GatewayIsFree
<1>6. CASE Poll \/ PollFails
  BY <1>6, LineStays DEF Poll, PollFails, Finish, Enter, TypeOK
<1>7. ASSUME NEW c \in Channels,
             CloseStops(c) \/ CloseEnds(c) \/ CloseFails(c) \/ HookReturns(c) \/ VideoTimesOut(c) \/ VideoReturns(c)
      PROVE  Line'
  <2>1. /\ at[c] # "stop" /\ \E where \in {"idle", "release"} : at' = [at EXCEPT ![c] = where]
        /\ UNCHANGED <<main, gw, stops>>
    BY <1>7 DEF CloseStops, CloseEnds, CloseFails, HookReturns, VideoTimesOut, VideoReturns, Finish, Enter
  <2> QED BY <2>1, LineStays DEF TypeOK
<1>8. CASE TakeLock
  <2>1. CASE worker = None
    BY <1>8, <2>1, LineStays DEF TakeLock
  <2>2. CASE worker # None
    BY <1>8, <2>2, LineAnswers DEF TakeLock
  <2> QED BY <2>1, <2>2
<1>9. CASE StopConfirms \/ StopFails \/ StopTimesOut
  BY <1>9, LineAnswers DEF StopConfirms, StopFails, StopTimesOut, TypeOK
<1>10. CASE LateWorkerEnds \/ Authenticate \/ CloseHandler
  BY <1>10, LineStays DEF LateWorkerEnds, Authenticate, CloseHandler
<1>11. CASE Shutdown
  <2>1. TriggerStop("main") /\ main' = "stop" /\ gw' = gw /\ at' = at /\ ~ Waits("main")
    BY <1>11, CallersAreNew DEF Shutdown, Running
  <2> QED BY <2>1, LineCalls, CallersAre
<1>12. CASE CancelTasks
  <2>1. \A x : Waits(x)' => x = "background"
    <3>1. CASE stops' = <<"background">>
      BY <3>1 DEF Waits
    <3>2. CASE stops' = <<>>
      BY <3>2 DEF Waits
    <3> QED BY <1>12, <3>1, <3>2 DEF CancelTasks
  <2>2. NoneTwice'
    <3>1. CASE stops' = <<"background">>
      BY <3>1 DEF NoneTwice
    <3>2. CASE stops' = <<>>
      BY <3>2 DEF NoneTwice
    <3> QED BY <1>12, <3>1, <3>2 DEF CancelTasks
  <2> QED BY <2>1, <2>2, CallersAre DEF Line
<1>13. ASSUME NEW h \in Adapters, MotionEnds(h) PROVE Line'
  BY <1>13, LineStays DEF MotionEnds
<1>14. CASE UNCHANGED vars
  BY <1>14, LineStays DEF vars
<1> QED
  BY <1>1, <1>2, <1>3, <1>4, <1>5, <1>6, <1>7, <1>8, <1>9, <1>10, <1>11, <1>12, <1>13, <1>14
  DEF Next, Session, RemoteActions, Stopping, Client

-----------------------------------------------------------------------------
(* Whose motion has a permit.                                              *)

\* Steps that leave the session alone, or take the permit away.
LEMMA OwnedStays ==
  ASSUME TypeOK, Owned, UNCHANGED <<gw, claimed, notified>>, main' = "up" => Running, ruled' => ruled
  PROVE  Owned'
BY DEF Owned, Claimed, LostControlIsStopped, Running

LEMMA OwnedAnswers ==
  ASSUME TypeOK, Line, Owned, stops # <<>>, NEW b \in BOOLEAN, Answer(b)
  PROVE  Owned'
<1>1. Waits(Head(stops)) BY HolderWaits
<1>2. Head(stops) = "gateway" => gw = "notify"
  BY <1>1 DEF Line
<1>3. UNCHANGED <<claimed, ruled>> /\ (main' = "up" => Running)
  BY DEF Answer, Running
<1>4. CASE Head(stops) = "gateway"
  BY <1>2, <1>3, <1>4 DEF Answer, Owned, Claimed, LostControlIsStopped, Running
<1>5. CASE Head(stops) # "gateway"
  BY <1>3, <1>5, OwnedStays DEF Answer, TypeOK
<1> QED BY <1>4, <1>5

LEMMA OwnedExecutes ==
  ASSUME TypeOK, Owned, NEW c \in Channels, NEW a \in Actions, Execute(c, a),
         UNCHANGED <<main, token, sessionVars>>
  PROVE  Owned'
<1>1. ruled' => ruled
  BY DEF Execute, StopAndClose, TriggerStop, Unmoved, deviceVars
<1> QED BY <1>1, OwnedStays DEF sessionVars, Running

LEMMA OwnedIsKept ==
  ASSUME TypeOK, Line, Owned, [Next]_vars
  PROVE  Owned'
<1> USE DEF sessionVars, actionVars, stopVars, deviceVars
<1>1. CASE Connect \/ ConnectFails
  BY <1>1 DEF Connect, ConnectFails, Owned, Claimed, LostControlIsStopped, Running
<1>2. CASE Claim
  BY <1>2 DEF Claim, ForgetNotified, Owned, Claimed, LostControlIsStopped, Running
<1>3. CASE Greet
  BY <1>3 DEF Greet, Owned, Claimed, LostControlIsStopped, Running, TypeOK
<1>4. CASE Lose \/ ReceiveServerShutdown \/ Authenticate \/ LateWorkerEnds
  BY <1>4, OwnedStays DEF Lose, ReceiveServerShutdown, Authenticate, LateWorkerEnds, Running
<1>5. CASE NoticeLoss \/ SessionRaises
  BY <1>5 DEF NoticeLoss, SessionRaises, Owned, Claimed, LostControlIsStopped, Running
<1>6. CASE Leave
  <2>1. CASE ShouldNotify
    BY <1>6, <2>1 DEF Leave, TriggerStop, Owned, Claimed, LostControlIsStopped, Running
  <2>2. CASE ~ ShouldNotify
    BY <1>6, <2>2 DEF Leave, ShouldNotify, Owned, Claimed, LostControlIsStopped, Running
  <2> QED BY <2>1, <2>2
<1>7. CASE Wake
  BY <1>7 DEF Wake, Owned, Claimed, LostControlIsStopped, Running
<1>8. CASE ReceiveMotion
  BY <1>8 DEF ReceiveMotion, ReadsSocket, Drive, Owned, Claimed, LostControlIsStopped, Running
<1>9. CASE ReceiveEmergencyStop \/ Deadline \/ Shutdown
  BY <1>9, OwnedStays DEF ReceiveEmergencyStop, Deadline, Shutdown, TriggerStop, Running
<1>10. ASSUME NEW a \in Actions, ReceiveAction(a) \/ PollReturns(a) PROVE Owned'
  BY <1>10, OwnedExecutes, CallersAre DEF ReceiveAction, PollReturns
<1>11. CASE Poll \/ PollFails
  BY <1>11, OwnedStays DEF Poll, PollFails, Running
<1>12. ASSUME NEW c \in Channels,
              CloseStops(c) \/ CloseEnds(c) \/ CloseFails(c) \/ HookReturns(c) \/ VideoTimesOut(c) \/ VideoReturns(c)
       PROVE  Owned'
  BY <1>12, OwnedStays DEF CloseStops, CloseEnds, CloseFails, HookReturns, VideoTimesOut, VideoReturns, Running
<1>13. CASE TakeLock
  <2>1. CASE worker = None
    BY <1>13, <2>1, OwnedStays DEF TakeLock, Running
  <2>2. CASE worker # None
    BY <1>13, <2>2, OwnedAnswers DEF TakeLock
  <2> QED BY <2>1, <2>2
<1>14. CASE StopConfirms \/ StopFails \/ StopTimesOut
  BY <1>14, OwnedAnswers DEF StopConfirms, StopFails, StopTimesOut, TypeOK
<1>15. CASE CancelTasks
  BY <1>15 DEF CancelTasks, Owned, Claimed, LostControlIsStopped, Running
<1>16. CASE CloseHandler
  BY <1>16, OwnedStays DEF CloseHandler, Running
<1>17. ASSUME NEW h \in Adapters, MotionEnds(h) PROVE Owned'
  BY <1>17, OwnedStays DEF MotionEnds, Running
<1>18. CASE UNCHANGED vars
  BY <1>18, OwnedStays DEF vars, Running
<1> QED
  BY <1>1, <1>2, <1>3, <1>4, <1>5, <1>6, <1>7, <1>8, <1>9, <1>10, <1>11, <1>12, <1>13, <1>14, <1>15, <1>16, <1>17, <1>18
  DEF Next, Session, RemoteActions, Stopping, Client

-----------------------------------------------------------------------------
(* What was taken is remembered.                                           *)

LEMMA OnceIsKept ==
  ASSUME TypeOK, Once, [Next]_vars
  PROVE  Once'
<1> USE DEF sessionVars, actionVars, stopVars, deviceVars
<1>1. ASSUME NEW c \in Channels, NEW a \in Actions, Execute(c, a) PROVE Once'
  <2>1. CASE a \in processed
    BY <1>1, <2>1 DEF Execute, Once
  <2>2. CASE a \notin processed
    <3>1. processed' = processed \cup {a} /\ taken' = taken \cup {a} /\ twice' = (twice \/ a \in taken)
      BY <1>1, <2>2 DEF Execute, Remember
    <3> QED BY <2>2, <3>1 DEF Once
  <2> QED BY <2>1, <2>2
<1>2. ASSUME NEW a \in Actions, ReceiveAction(a) \/ PollReturns(a) PROVE Once'
  BY <1>1, <1>2, CallersAre DEF ReceiveAction, PollReturns
<1>3. CASE UNCHANGED <<processed, taken, twice>>
  BY <1>3 DEF Once
<1>4. CASE Session /\ ~ \E a \in Actions : ReceiveAction(a)
  BY <1>3, <1>4 DEF Session, Connect, ConnectFails, Claim, Greet, Lose, NoticeLoss, SessionRaises, Leave, Wake,
                    ReceiveMotion, ReceiveEmergencyStop, ReceiveServerShutdown
<1>5. CASE RemoteActions /\ ~ \E a \in Actions : PollReturns(a)
  BY <1>3, <1>5 DEF RemoteActions, Poll, PollFails, CloseStops, CloseEnds, CloseFails, HookReturns,
                    VideoTimesOut, VideoReturns
<1>6. CASE Stopping
  BY <1>3, <1>6 DEF Stopping, TakeLock, StopConfirms, StopFails, StopTimesOut, LateWorkerEnds, Answer
<1>7. CASE Client
  BY <1>3, <1>7 DEF Client, Authenticate, Deadline, Shutdown, CancelTasks, CloseHandler, MotionEnds
<1>8. CASE UNCHANGED vars
  BY <1>3, <1>8 DEF vars
<1> QED BY <1>2, <1>4, <1>5, <1>6, <1>7, <1>8 DEF Next

-----------------------------------------------------------------------------
(* What drives, and what a stop reaches.                                   *)

\* Steps that leave the stops alone and begin no motion.
LEMMA DrivingStays ==
  ASSUME TypeOK, Driving, UNCHANGED <<latched, lastStop, stops, holding, worker, handler, crossed>>,
         moving' \subseteq moving,
         \A c \in Channels : Restarting(c)' => Restarting(c),
         \A c \in Channels : at'[c] \in {"close", "release"} => at[c] \in {"close", "release"}
  PROVE  Driving'
BY DEF Driving

LEMMA DrivingCalls ==
  ASSUME TypeOK, Line, Driving, NEW x \in Callers, ~ Waits(x), TriggerStop(x),
         at' = [at EXCEPT ![x] = "stop"] \/ at' = at
  PROVE  Driving'
<1>1. /\ stops' # <<>>
      /\ stops # <<>> => Head(stops') = Head(stops) /\ Len(stops') # 1
  BY CallJoins DEF Line
<1>2. latched' /\ UNCHANGED <<holding, worker, handler, moving, crossed>>
  BY DEF TriggerStop
<1>3. \A c \in Channels : at'[c] \in {"close", "release"} => at[c] \in {"close", "release"}
  BY DEF TypeOK
<1> QED BY <1>1, <1>2, <1>3 DEF Driving, TypeOK

LEMMA DrivingFails ==
  ASSUME TypeOK, Driving, stops # <<>>, Answer(FALSE), lastStop' = "failed", moving' = moving
  PROVE  Driving'
<1>1. \A c \in Channels : at'[c] = at[c] \/ at'[c] = "idle"
  BY DEF Answer, TypeOK
<1>2. ~ holding' /\ UNCHANGED <<latched, handler, crossed>>
  BY DEF Answer
<1> QED BY <1>1, <1>2 DEF Driving, Restarting

LEMMA DrivingExecutes ==
  ASSUME TypeOK, Line, Driving, NEW c \in Channels, at[c] # "stop", NEW a \in Actions, Execute(c, a)
  PROVE  Driving'
<1>1. CASE TriggerStop(c) /\ at' = [at EXCEPT ![c] = "stop"]
  BY <1>1, DrivingCalls, CallersAreNew, CallersAre
<1>2. CASE Unmoved /\ \E where \in {"idle", "work", "hook"} : at' = [at EXCEPT ![c] = where]
  BY <1>2, DrivingStays DEF Unmoved, stopVars, deviceVars, Restarting, TypeOK
<1>3. \/ TriggerStop(c) /\ at' = [at EXCEPT ![c] = "stop"]
      \/ Unmoved /\ \E where \in {"idle", "work", "hook"} : at' = [at EXCEPT ![c] = where]
  BY DEF Execute, StopAndClose, Finish, Enter
<1> QED BY <1>1, <1>2, <1>3

LEMMA DrivingIsKept ==
  ASSUME TypeOK, Line, Driving, [Next]_vars
  PROVE  Driving'
<1> USE DEF sessionVars, actionVars, stopVars, deviceVars
<1>1. CASE Connect \/ ConnectFails \/ Claim \/ Greet \/ Lose \/ NoticeLoss \/ SessionRaises \/ Wake
  BY <1>1, DrivingStays DEF Connect, ConnectFails, Claim, Greet, Lose, NoticeLoss, SessionRaises, Wake, Restarting
<1>2. CASE Leave
  <2>1. CASE ShouldNotify
    <3>1. TriggerStop("gateway") /\ at' = at /\ ~ Waits("gateway")
      BY <1>2, <2>1, CallersAreNew DEF Leave
    <3> QED BY <3>1, DrivingCalls, CallersAre
  <2>2. CASE ~ ShouldNotify
    BY <1>2, <2>2, DrivingStays DEF Leave, Restarting
  <2> QED BY <2>1, <2>2
\* Nothing is being replaced while the latch is off, and no stop is confirmed.
<1>3. CASE ReceiveMotion
  <2>1. CASE latched
    BY <1>3, <2>1, DrivingStays DEF ReceiveMotion, Drive, Restarting
  <2>2. CASE ~ latched
    <3>1. /\ moving' = moving \cup {handler}
          /\ UNCHANGED <<latched, lastStop, stops, holding, worker, handler, crossed, at>>
      BY <1>3, <2>2 DEF ReceiveMotion, Drive
    <3>2. ~ crossed => \A c \in Channels : ~ Restarting(c)
      BY <2>2 DEF Driving
    <3>3. ~ crossed => ~ (holding /\ Head(stops) \in Channels)
      BY <3>2, HolderWaits DEF Line, Restarting, TypeOK
    <3> QED BY <2>2, <3>1, <3>2, <3>3 DEF Driving, Restarting
  <2> QED BY <2>1, <2>2
<1>4. CASE ReceiveEmergencyStop \/ Deadline
  <2>1. TriggerStop("background") /\ at' = at /\ ~ Waits("background")
    BY <1>4 DEF ReceiveEmergencyStop, Deadline
  <2> QED BY <2>1, DrivingCalls, CallersAre
<1>5. CASE ReceiveServerShutdown \/ Authenticate
  BY <1>5, DrivingStays DEF ReceiveServerShutdown, Authenticate, Restarting
<1>6. ASSUME NEW a \in Actions, ReceiveAction(a) \/ PollReturns(a) PROVE Driving'
  BY <1>6, DrivingExecutes, CallersAre DEF ReceiveAction, PollReturns, ReadsSocket, GatewayIsFree
<1>7. CASE Poll \/ PollFails
  BY <1>7, DrivingStays DEF Poll, PollFails, Finish, Enter, Restarting, TypeOK
<1>8. ASSUME NEW c \in Channels, CloseStops(c) \/ CloseFails(c) \/ VideoTimesOut(c) \/ VideoReturns(c)
      PROVE  Driving'
  <2>1. /\ \/ at[c] = "close" /\ at' = [at EXCEPT ![c] = "release"]
           \/ at' = [at EXCEPT ![c] = "idle"]
        /\ moving' \subseteq moving
        /\ UNCHANGED <<latched, lastStop, stops, holding, worker, handler, crossed>>
    BY <1>8 DEF CloseStops, CloseFails, VideoTimesOut, VideoReturns, Finish, Enter
  <2> QED BY <2>1, DrivingStays DEF Restarting, TypeOK
\* What was stopped does not drive when the next adapter takes its place.
<1>9. ASSUME NEW c \in Channels, CloseEnds(c) PROVE Driving'
  <2>1. /\ at[c] = "release" /\ at' = [at EXCEPT ![c] = "idle"]
        /\ UNCHANGED <<latched, lastStop, stops, holding, worker, moving, crossed>>
    BY <1>9 DEF CloseEnds, Finish, Enter
  <2>2. ~ crossed => moving = {}
    BY <2>1 DEF Driving
  <2> QED BY <2>1, <2>2 DEF Driving, Restarting, TypeOK
<1>10. ASSUME NEW c \in Channels, HookReturns(c) PROVE Driving'
  <2>1. CASE \E d \in Channels : Restarting(d)
    BY <1>10, <2>1 DEF HookReturns, Restarting, Driving
  <2>2. CASE ~ \E d \in Channels : Restarting(d)
    <3>1. /\ at' = [at EXCEPT ![c] = "idle"] /\ ~ latched' /\ (~ crossed' => ~ crossed)
          /\ UNCHANGED <<lastStop, stops, holding, worker, handler, moving>>
      BY <1>10 DEF HookReturns, Finish, Enter
    <3>2. ~ (holding /\ Head(stops) \in Channels)
      BY <2>2, HolderWaits DEF Line, Restarting, TypeOK
    <3> QED BY <2>2, <3>1, <3>2 DEF Driving, Restarting, TypeOK
  <2> QED BY <2>1, <2>2
<1>11. CASE TakeLock
  <2>1. CASE worker = None
    BY <1>11, <2>1 DEF TakeLock, Driving, Restarting
  <2>2. CASE worker # None
    BY <1>11, <2>2, DrivingFails DEF TakeLock
  <2> QED BY <2>1, <2>2
\* It reaches all that drives when its caller replaces the adapter, or when no
\* other stop waits behind it.
<1>12. CASE StopConfirms
  <2>1. /\ holding /\ stops # <<>> /\ ~ holding'
        /\ moving' = moving \ {worker}
        /\ UNCHANGED <<latched, handler, crossed>>
    BY <1>12 DEF StopConfirms, Answer, TypeOK
  <2>2. stops' = <<>> <=> Len(stops) = 1
    BY <1>12, <2>1, AnswerLeaves DEF StopConfirms, Answer, Line
  <2>3. CASE Head(stops) \in Channels
    <3>1. ~ crossed => moving' = {}
      BY <2>1, <2>3 DEF Driving
    <3>2. \A c \in Channels : Restarting(c)' => Restarting(c)
      <4>1. at[Head(stops)] = "stop"
        BY <2>1, <2>3, HolderWaits DEF Line
      <4> QED BY <1>12, <4>1 DEF StopConfirms, Answer, Restarting, TypeOK
    <3> QED BY <2>1, <3>1, <3>2 DEF Driving
  <2>4. CASE Head(stops) \notin Channels
    <3>1. at' = at
      BY <1>12, <2>4 DEF StopConfirms, Answer
    <3> QED BY <2>1, <2>2, <2>4, <3>1 DEF Driving, Restarting
  <2> QED BY <2>3, <2>4
<1>13. CASE StopFails \/ StopTimesOut
  BY <1>13, DrivingFails DEF StopFails, StopTimesOut, TypeOK
<1>14. CASE LateWorkerEnds
  BY <1>14 DEF LateWorkerEnds, Driving, Restarting
<1>15. CASE Shutdown
  <2>1. TriggerStop("main") /\ at' = at /\ ~ Waits("main")
    BY <1>15, CallersAreNew DEF Shutdown, Running
  <2> QED BY <2>1, DrivingCalls, CallersAre
\* Where nobody was cancelled the stop that goes on is the only one.
<1>16. CASE CancelTasks
  <2>1. /\ ~ crossed' => ~ crossed /\ stops' = stops
        /\ holding' => holding
        /\ \A c \in Channels : at'[c] = "idle"
        /\ UNCHANGED <<latched, lastStop, worker, handler, moving>>
    BY <1>16 DEF CancelTasks, ReleaseLock
  <2> QED BY <2>1 DEF Driving, Restarting
<1>17. CASE CloseHandler
  BY <1>17, DrivingStays DEF CloseHandler, Restarting
<1>18. ASSUME NEW h \in Adapters, MotionEnds(h) PROVE Driving'
  BY <1>18, DrivingStays DEF MotionEnds, Restarting
<1>19. CASE UNCHANGED vars
  BY <1>19, DrivingStays DEF vars, Restarting
<1> QED
  BY <1>1, <1>2, <1>3, <1>4, <1>5, <1>6, <1>7, <1>8, <1>9, <1>10, <1>11, <1>12, <1>13, <1>14, <1>15, <1>16, <1>17, <1>18, <1>19
  DEF Next, Session, RemoteActions, Stopping, Client

-----------------------------------------------------------------------------

LEMMA Initially == Init => IInv
<1> SUFFICES ASSUME Init PROVE IInv
  OBVIOUS
<1>1. stops = <<>> /\ <<>> \in Seq(Callers) /\ Len(<<>>) = 0 /\ DOMAIN stops = {}
  BY EmptySeq DEF Init
<1>2. TypeOK
  BY <1>1, FirstAssumption DEF Init, TypeOK
<1>3. Line
  BY <1>1 DEF Line, NoneTwice, Waits
<1>4. Owned /\ Once
  BY DEF Init, Owned, Claimed, LostControlIsStopped, Once
<1>5. Driving
  BY DEF Init, Driving, Restarting
<1> QED BY <1>2, <1>3, <1>4, <1>5 DEF IInv

LEMMA Inductive == Spec => []IInv
<1>1. IInv /\ [Next]_vars => IInv'
  BY TypesAreKept, LineIsKept, OwnedIsKept, DrivingIsKept, OnceIsKept DEF IInv
<1> QED BY <1>1, Initially, PTL DEF Spec

\* Whatever the socket, the poll and the adapter do, the state stays typed: where
\* somebody holds the lock, somebody waits.
THEOREM ControlTypes == Spec => []TypeOK
<1>1. IInv => TypeOK BY DEF IInv
<1> QED BY <1>1, Inductive, PTL

\* For any remote actions and adapters: motion that a claimed session admitted
\* has no permit once the session is over, whichever way it ended (gateway.py).
THEOREM ControlIsOwned == Spec => []LostControlIsStopped
<1>1. IInv => LostControlIsStopped BY DEF IInv, Owned
<1> QED BY <1>1, Inductive, PTL

\* For any number of remote actions, each is carried out once, over whichever
\* channel and however often it arrives (remote_actions.py).
THEOREM RemoteActionsRunOnce == Spec => []ActionsRunOnce
<1>1. IInv => ActionsRunOnce BY DEF IInv, Once, ActionsRunOnce
<1> QED BY <1>1, Inductive, PTL

\* For any adapters: after a stop that was confirmed nothing drives, though the
\* adapter was replaced meanwhile, in the cases StopReachesWhatDrives names.
THEOREM ConfirmedStopIsComplete == Spec => []StopReachesWhatDrives
<1>1. IInv => StopReachesWhatDrives BY DEF IInv, Driving, StopReachesWhatDrives
<1> QED BY <1>1, Inductive, PTL
=============================================================================
