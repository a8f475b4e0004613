---------------------------- MODULE ServerProofs ----------------------------
(***************************************************************************)
(* The server's side for every value of the constants: the channels of     *)
(* Gateway, the rate bound, and what holds of the credentials table, the   *)
(* requests of the credential proxy and the answers of a sign-in.          *)
(***************************************************************************)
EXTENDS Gateway, RateLimit, SignIn, TLAPS

-----------------------------------------------------------------------------
(* Gateway. *)

\* Why nothing is closed twice: who closes a channel takes it off the subscribers in
\* the same critical section, and a stream that has subscribed never subscribes again.
ClosingInv ==
  /\ handler \in [Streams -> {"idle", "receiving", "sending", "returning", "ended"}]
  /\ subs \subseteq Streams /\ closed \subseteq Streams
  /\ \A s \in subs \cup closed : handler[s] # "idle"
  /\ subs \cap closed = {}
  /\ ~panicked

\* The server starts without subscribers.
LEMMA ClosingStart == Init => ClosingInv
  BY Zenon DEF Init, ClosingInv

\* main's steps other than the disconnection leave the channels alone.
LEMMA ClosingMain ==
  ASSUME ClosingInv, Cancel \/ Serve \/ GracefulStop \/ ForceStop \/ Drained
  PROVE  ClosingInv'
  BY DEF ClosingInv, Cancel, Serve, GracefulStop, ForceStop, Drained, channels, streams

\* Disconnect closes what is subscribed, and forgets it.
LEMMA ClosingDisconnect ==
  ASSUME ClosingInv, StopOrchestrator
  PROVE  ClosingInv'
<1>1. /\ panicked' = (panicked \/ subs \cap Inbound \cap closed # {})
      /\ closed' = closed \cup (subs \cap Inbound)
      /\ subs' = subs \ Inbound
      /\ handler' = handler
  BY Zenon DEF StopOrchestrator, Disconnect, streams
<1>2. subs \cap Inbound \cap closed = {}
  BY Zenon DEF ClosingInv
<1>. QED
  BY Zenon, <1>1, <1>2 DEF ClosingInv

\* Publishers send to subscribers only, none of which is closed.
LEMMA ClosingPublish ==
  ASSUME ClosingInv, RouteOutbound \/ PublishEvent
  PROVE  ClosingInv'
<1>1. PICK kind \in {"message", "event"} : Publish(kind)
  BY Zenon DEF RouteOutbound, PublishEvent
<1>2. /\ panicked' = (panicked \/ {s \in subs : Kind(s) = kind} \cap closed # {})
      /\ subs' = subs /\ closed' = closed
  BY Zenon, <1>1 DEF Publish
<1>3. {s \in subs : Kind(s) = kind} \cap closed = {}
  BY Zenon DEF ClosingInv
<1>4. handler' = handler
  BY Zenon DEF RouteOutbound, PublishEvent, streams
<1>. QED
  BY Zenon, <1>2, <1>3, <1>4 DEF ClosingInv

\* A handler's own steps: it subscribes once, and its deferred call closes the channel
\* only if it is still subscribed.
LEMMA ClosingHandler ==
  ASSUME ClosingInv, NEW s \in Streams,
         Leave(s) \/ Subscribe(s) \/ Sent(s) \/ Step(s)
  PROVE  ClosingInv'
<1>1. CASE Leave(s)
  BY Zenon, <1>1 DEF ClosingInv, Leave, channels
<1>2. CASE Subscribe(s)
  BY Zenon, <1>2 DEF ClosingInv, Subscribe, Goto
<1>3. CASE Sent(s) \/ ReceiveDone(s) \/ SendFails(s)
  BY <1>3 DEF ClosingInv, Sent, ReceiveDone, SendFails, Goto, channels
<1>4. CASE Receive(s)
  BY Zenon, <1>4 DEF ClosingInv, Receive, Goto
<1>5. CASE Unsubscribe(s)
  <2>1. /\ handler' = [handler EXCEPT ![s] = "ended"]
        /\ subs' = subs \ {s}
        /\ closed' = IF s \in subs THEN closed \cup {s} ELSE closed
        /\ handler[s] = "returning"
    BY Zenon, <1>5 DEF Unsubscribe, Goto
  <2>2. ~panicked'
    BY Zenon, <1>5 DEF Unsubscribe, ClosingInv
  <2>. QED
    BY Zenon, <2>1, <2>2 DEF ClosingInv
<1>. QED
  BY Zenon, <1>1, <1>2, <1>3, <1>4, <1>5 DEF Step

\* In any order of publishers, leaving clients and the shutdown, a channel is closed
\* at most once and never sent to afterwards.
THEOREM ClosedOnceTheorem == Spec => []ClosedOnce
<1>1. ClosingInv /\ [Next]_vars => ClosingInv'
  <2>. SUFFICES ASSUME ClosingInv, [Next]_vars
                PROVE  ClosingInv'
    BY Zenon
  <2>1. CASE UNCHANGED vars
    BY Zenon, <2>1 DEF vars, channels, streams, ClosingInv
  <2>2. CASE Next
    BY Zenon, <2>2, ClosingMain, ClosingDisconnect, ClosingPublish, ClosingHandler DEF Next
  <2>. QED
    BY Zenon, <2>1, <2>2
<1>2. ClosingInv => ClosedOnce
  BY Zenon DEF ClosingInv, ClosedOnce
<1>. QED
  BY ClosingStart, <1>1, <1>2, PTL DEF Spec

-----------------------------------------------------------------------------
(* RateLimit. *)

\* Capacity for a longer time is no less: the bound at the time a message read the
\* clock is within the bound now.
LEMMA ScaledOrder ==
  ASSUME NEW a \in Nat, NEW b \in Nat, a <= b, NEW k \in Nat
  PROVE  k * a <= k * b
<1>. DEFINE d == b - a
<1>1. d \in Nat /\ b = a + d
  OBVIOUS
<1>2. k * d \in Nat
  BY <1>1
<1>3. k * b = k * a + k * d
  BY <1>1
<1>. QED
  BY <1>2, <1>3

\* The bucket newTokenBucket makes satisfies the invariant.
LEMMA RateStart == RateInit => RateInv
  BY RateAssumption DEF RateInit, RateInv, RateBound

\* The clock only adds to the right-hand side of the bound.
LEMMA RateTick == RateInv /\ TimePasses => RateInv'
<1>. SUFFICES ASSUME RateInv, TimePasses
              PROVE  RateInv'
  BY Zenon
<1>. USE RateAssumption DEF RateInv, TimePasses
<1>1. now' \in Nat /\ now <= now' /\ last' = last /\ stamp' = stamp
  OBVIOUS
<1>2. Capacity * now <= Capacity * now'
  BY Zenon, <1>1, ScaledOrder
<1>3. RateBound'
  BY <1>1, <1>2 DEF RateBound
<1>. QED
  BY <1>1, <1>3

\* A message that reads the clock reads a time no later than now.
LEMMA RateStamp ==
  ASSUME RateInv, NEW c \in Calls, ReadClock(c)
  PROVE  RateInv'
  BY RateAssumption DEF RateInv, ReadClock, RateBound

\* TryAcquire: a refill by a negative time takes out exactly what the earlier refill
\* had put in for it, and a message is let through only while tokens remain.
LEMMA RateAcquire ==
  ASSUME RateInv, NEW c \in Calls, TryAcquire(c)
  PROVE  RateInv'
<1>. DEFINE t == stamp[c]
            r == Refilled(t)
<1>. USE RateAssumption
<1>1. t \in Nat /\ t <= now
  BY Zenon DEF RateInv, TryAcquire
<1>2. /\ Capacity * t \in Int /\ Capacity * last \in Int /\ Capacity * now \in Int
      /\ Capacity * Second \in Int /\ accepted * Second \in Int
      /\ (t - last) * Capacity \in Int
      /\ (t - last) * Capacity = Capacity * t - Capacity * last
  BY <1>1 DEF RateInv
<1>3. r \in Int /\ r <= tokens + (Capacity * t - Capacity * last)
  BY <1>2 DEF RateInv, Refilled
<1>4. accepted * Second + r <= Capacity * Second + Capacity * t
  BY <1>2, <1>3 DEF RateInv
<1>5. Capacity * t <= Capacity * now
  BY Zenon, <1>1, ScaledOrder DEF RateInv
<1>6. (accepted + 1) * Second = accepted * Second + Second
  BY DEF RateInv
<1>7. last' = t /\ now' = now /\ stamp' = [stamp EXCEPT ![c] = Unread]
  BY Zenon DEF TryAcquire
<1>8. CASE r >= Second
  <2>1. tokens' = r - Second /\ accepted' = accepted + 1
    BY Zenon, <1>8 DEF TryAcquire
  <2>2. accepted' * Second + tokens' <= Capacity * Second + Capacity * last'
    BY <1>2, <1>3, <1>4, <1>6, <1>7, <2>1
  <2>3. RateBound'
    BY <1>2, <1>3, <1>5, <1>7, <1>8, <2>1, <2>2 DEF RateBound
  <2>. QED
    BY <1>1, <1>3, <1>7, <2>1, <2>2, <2>3 DEF RateInv
<1>9. CASE ~(r >= Second)
  <2>1. tokens' = r /\ accepted' = accepted
    BY Zenon, <1>9 DEF TryAcquire
  <2>2. accepted' * Second + tokens' <= Capacity * Second + Capacity * last'
    BY Zenon, <1>4, <1>7, <2>1
  <2>3. RateBound'
    BY Zenon, <1>7, <2>1 DEF RateInv, RateBound
  <2>. QED
    BY Zenon, <1>1, <1>3, <1>7, <2>1, <2>2, <2>3 DEF RateInv
<1>. QED
  BY Zenon, <1>8, <1>9

\* The bucket keeps to its rate in every order of clock readings and refills.
THEOREM RateTheorem == RateSpec => []RateBound
<1>1. RateInv /\ [RateNext]_bucket => RateInv'
  <2>. SUFFICES ASSUME RateInv, [RateNext]_bucket
                PROVE  RateInv'
    BY Zenon
  <2>1. CASE UNCHANGED bucket
    BY Zenon, <2>1 DEF bucket, RateInv, RateBound
  <2>2. CASE TimePasses
    BY Zenon, <2>2, RateTick
  <2>3. CASE \E c \in Calls : ReadClock(c) \/ TryAcquire(c)
    BY Zenon, <2>3, RateStamp, RateAcquire
  <2>. QED
    BY Zenon, <2>1, <2>2, <2>3 DEF RateNext
<1>2. RateInv => RateBound
  BY Zenon DEF RateInv
<1>. QED
  BY RateStart, <1>1, <1>2, PTL DEF RateSpec

-----------------------------------------------------------------------------
(* SignIn. *)

FlowType == [pc : {"idle", "code", "poll", "wait", "exchange", "store", "success", "done"},
             jid : Groups \cup {None}, interval : Nat, left : Nat]

\* A handler past its checks has a group.
FlowInv ==
  /\ flow \in [Flows -> FlowType]
  /\ \A f \in Flows : flow[f].pc \notin {"idle", "done"} => flow[f].jid \in Groups

\* The row of g is empty, holds an API key and nothing else, or the tokens of a sign-in
\* of g and nothing else.
RowOf(g, row) ==
  \/ row = NoRow
  \/ \E p \in Providers : row = KeyRow(p)
  \/ \E f \in Flows : row = ChatGPTRow(NoRow, f) /\ flow[f].jid = g /\ flow[f].pc # "idle"

RowInv == rows = [g \in Groups |-> rows[g]] /\ \A g \in Groups : RowOf(g, rows[g])

\* A credential of sign-in f, of group g's API key, or of the platform.
CredOf(g, want, c) ==
  /\ want # None => c.provider = want
  /\ \/ \E p \in Providers : c \in {Cred("platform", p, p), Cred(g, p, p)}
     \/ \E f \in Flows : c = Cred(f, "openai", "codex") /\ flow[f].jid = g /\ flow[f].pc # "idle"

RequestInv ==
  /\ req = [r \in Requests |-> req[r]]
  /\ \A r \in Requests : req[r] # None =>
       \E g \in Groups, want \in Providers \cup {None}, c \in {req[r].cred} :
         req[r] = [jid |-> g, want |-> want, cred |-> c] /\ CredOf(g, want, c)

SignInInv == FlowInv /\ RowInv /\ RequestInv

-----------------------------------------------------------------------------
\* Whoever has started keeps the group it was started for.
KeepsGroup ==
  \A f \in Flows : flow[f].pc # "idle" => flow'[f].pc # "idle" /\ flow'[f].jid = flow[f].jid

\* A handler that returns keeps the group it was started for.
LEMMA ReturnStep ==
  ASSUME FlowInv, NEW f \in Flows, HandlerReturns(f)
  PROVE  FlowInv' /\ KeepsGroup
<1>. DEFINE over == [flow[f] EXCEPT !.pc = "done", !.interval = 1, !.left = PollTimeout]
<1>1. flow[f] \in FlowType
  BY Zenon DEF FlowInv
<1>2. over \in FlowType /\ over.pc = "done" /\ over.jid = flow[f].jid
  BY Zenon, <1>1, SignInAssumption DEF FlowType
<1>3. flow' = [flow EXCEPT ![f] = over]
  BY Zenon DEF HandlerReturns
<1>. HIDE DEF over
<1>. QED
  BY Zenon, <1>2, <1>3 DEF FlowInv, KeepsGroup

\* A step of a handler leaves every other handler, and its own group, alone.
LEMMA FlowStep ==
  ASSUME FlowInv, NEW f \in Flows,
         \/ \E g \in Groups \cup {None}, p \in Providers : Start(f, g, p)
         \/ Handler(f)
  PROVE  FlowInv' /\ KeepsGroup
<1>. USE SignInAssumption DEF FlowInv, KeepsGroup, FlowType
<1>1. CASE \E g \in Groups \cup {None}, p \in Providers : Start(f, g, p)
  BY <1>1, ReturnStep DEF Start, FlowAt, SendError
<1>2. CASE RequestDeviceCode(f)
  BY <1>2, ReturnStep DEF RequestDeviceCode, FlowAt, Proceed, CallFails, SendError
<1>3. CASE PollApproved(f) \/ PollPending(f)
  BY <1>3 DEF PollApproved, PollPending, FlowAt, Proceed
<1>4. CASE PollDenied(f) \/ PollFails(f)
  BY Zenon, <1>4, ReturnStep DEF PollDenied, PollFails, PollError, SendError
<1>5. CASE WaitTimer(f)
  <2>1. flow[f] \in FlowType /\ flow[f].left - flow[f].interval \in Nat
    BY <1>5 DEF WaitTimer
  <2>. QED
    BY Zenon, <1>5, <2>1 DEF WaitTimer, FlowAt
<1>6. CASE WaitDeadline(f) \/ WaitCancelled(f)
  BY Zenon, <1>6, ReturnStep DEF WaitDeadline, WaitCancelled, SendError
<1>7. CASE ExchangeCode(f)
  BY <1>7, ReturnStep DEF ExchangeCode, FlowAt, Proceed, CallFails, SendError
<1>8. CASE UpsertChatGPTCredential(f)
  BY <1>8, ReturnStep DEF UpsertChatGPTCredential, FlowAt, Proceed, SendError
<1>9. CASE SendSuccess(f)
  BY Zenon, <1>9, ReturnStep DEF SendSuccess
<1>. QED
  BY Zenon, <1>1, <1>2, <1>3, <1>4, <1>5, <1>6, <1>7, <1>8, <1>9 DEF Handler

\* Rows and requests that are left alone stay good while sign-ins go on.
LEMMA OthersKept ==
  ASSUME KeepsGroup
  PROVE  /\ RowInv /\ rows' = rows => RowInv'
         /\ RequestInv /\ req' = req => RequestInv'
<1>1. ASSUME NEW g \in Groups, NEW row, RowOf(g, row)
      PROVE  RowOf(g, row)'
  BY Zenon, <1>1 DEF RowOf, KeepsGroup, ChatGPTRow
<1>2. ASSUME NEW g \in Groups, NEW want, NEW c, CredOf(g, want, c)
      PROVE  CredOf(g, want, c)'
  BY Zenon, <1>2 DEF CredOf, KeepsGroup
<1>3. RowInv /\ rows' = rows => RowInv'
  BY Zenon, <1>1 DEF RowInv
<1>4. RequestInv /\ req' = req => RequestInv'
  BY Zenon, <1>2 DEF RequestInv
<1>. QED
  BY Zenon, <1>3, <1>4

\* REPLACE writes every column: the new row holds the sign-in's tokens and nothing of
\* the row it replaces.
LEMMA WriteStep ==
  ASSUME FlowInv, RowInv, KeepsGroup, NEW f \in Flows, FlowAt(f, "store"), Write(f)
  PROVE  RowInv'
<1>1. flow[f].jid \in Groups /\ flow'[f].jid = flow[f].jid /\ flow'[f].pc # "idle"
  BY Zenon DEF FlowInv, FlowAt, KeepsGroup
<1>2. rows' = [rows EXCEPT ![flow[f].jid] = ChatGPTRow(NoRow, f)]
  BY Zenon DEF Write, ChatGPTRow
<1>3. ASSUME NEW g \in Groups
      PROVE  RowOf(g, rows[g])'
  <2>1. CASE g = flow[f].jid
    <3>1. rows'[g] = ChatGPTRow(NoRow, f)
      BY Zenon, <1>2, <2>1 DEF RowInv
    <3>. QED
      BY Zenon, <1>1, <2>1, <3>1 DEF RowOf
  <2>2. CASE g # flow[f].jid
    <3>1. rows'[g] = rows[g] /\ RowOf(g, rows[g])
      BY Zenon, <1>2, <2>2 DEF RowInv
    <3>2. CASE rows[g] = NoRow \/ \E p \in Providers : rows[g] = KeyRow(p)
      BY Zenon, <3>1, <3>2 DEF RowOf
    <3>3. CASE \E h \in Flows : rows[g] = ChatGPTRow(NoRow, h) /\ flow[h].jid = g /\ flow[h].pc # "idle"
      BY Zenon, <3>1, <3>3 DEF RowOf, KeepsGroup
    <3>. QED
      BY Zenon, <3>1, <3>2, <3>3 DEF RowOf
  <2>. QED
    BY Zenon, <2>1, <2>2
<1>4. rows' = [g \in Groups |-> rows'[g]]
  BY Zenon, <1>2 DEF RowInv
<1>. QED
  BY Zenon, <1>3, <1>4 DEF RowInv

\* What Resolve finds for a request is of the request's group or of the platform, and
\* for the provider it asks for.
LEMMA ResolvedFits ==
  ASSUME RowInv, NEW g \in Groups, NEW want \in Providers \cup {None}, Resolved(g, want) # None
  PROVE  CredOf(g, want, Resolved(g, want))
<1>. USE SignInAssumption DEF Cred, Providers
<1>1. ASSUME Fallback(want) # None
      PROVE  CredOf(g, want, Fallback(want))
  BY Zenon, <1>1 DEF Fallback, CredOf
<1>2. CASE rows[g] = NoRow
  BY <1>1, <1>2 DEF Resolved, NoRow
<1>3. ASSUME NEW p \in Providers, rows[g] = KeyRow(p)
      PROVE  CredOf(g, want, Resolved(g, want))
  <2>1. rows[g].mode = "api_key" /\ rows[g].provider = p
    BY <1>3 DEF KeyRow
  <2>2. CASE want # None /\ p # want
    BY Zenon, <1>1, <2>1, <2>2 DEF Resolved
  <2>3. CASE ~(want # None /\ p # want)
    BY Zenon, <2>1, <2>3 DEF Resolved, CredOf
  <2>. QED
    BY Zenon, <2>2, <2>3
<1>4. ASSUME NEW f \in Flows, rows[g] = ChatGPTRow(NoRow, f), flow[f].jid = g, flow[f].pc # "idle"
      PROVE  CredOf(g, want, Resolved(g, want))
  <2>1. rows[g].mode = "chatgpt" /\ rows[g].provider = "openai" /\ rows[g].token = f
    BY <1>4 DEF ChatGPTRow
  <2>2. CASE want # None /\ "openai" # want
    BY Zenon, <1>1, <2>1, <2>2 DEF Resolved
  <2>3. CASE ~(want # None /\ "openai" # want)
    BY Zenon, <1>4, <2>1, <2>3 DEF Resolved, CredOf
  <2>. QED
    BY Zenon, <2>2, <2>3
<1>. QED
  BY Zenon, <1>2, <1>3, <1>4 DEF RowInv, RowOf

\* The proxy's steps: a request takes its credential once and keeps it.
LEMMA ProxyStep ==
  ASSUME RowInv, RequestInv, NEW r \in Requests, Proxy(r)
  PROVE  RequestInv' /\ rows' = rows /\ flow' = flow
<1>1. CASE Forward(r)
  <2>1. req' = [req EXCEPT ![r] = None] /\ rows' = rows /\ flow' = flow
    BY Zenon, <1>1 DEF Forward
  <2>2. ASSUME NEW q \in Requests, req'[q] # None
        PROVE  \E h \in Groups, w \in Providers \cup {None}, c \in {req'[q].cred} :
                 req'[q] = [jid |-> h, want |-> w, cred |-> c] /\ CredOf(h, w, c)'
    <3>1. req'[q] = req[q] /\ req[q] # None
      BY Zenon, <2>1, <2>2 DEF RequestInv
    <3>. QED
      BY <2>1, <3>1 DEF RequestInv, CredOf
  <2>3. req' = [q \in Requests |-> req'[q]]
    BY Zenon, <2>1 DEF RequestInv
  <2>. QED
    BY Zenon, <2>1, <2>2, <2>3 DEF RequestInv
<1>2. ASSUME NEW g \in Groups, NEW want \in Providers \cup {None}, Resolve(r, g, want)
      PROVE  RequestInv' /\ rows' = rows /\ flow' = flow
  <2>. DEFINE new == [jid |-> g, want |-> want, cred |-> Resolved(g, want)]
  <2>1. req' = [req EXCEPT ![r] = new] /\ rows' = rows /\ flow' = flow
    BY Zenon, <1>2 DEF Resolve
  <2>2. CredOf(g, want, Resolved(g, want))
    BY Zenon, <1>2, ResolvedFits DEF Resolve
  <2>3. new.cred = Resolved(g, want)
    BY Zenon
  <2>. HIDE DEF new
  <2>4. ASSUME NEW q \in Requests, req'[q] # None
        PROVE  \E h \in Groups, w \in Providers \cup {None}, c \in {req'[q].cred} :
                 req'[q] = [jid |-> h, want |-> w, cred |-> c] /\ CredOf(h, w, c)'
    <3>1. CASE q = r
      <4>1. req'[q] = new
        BY Zenon, <2>1, <3>1 DEF RequestInv
      <4>. QED
        BY <4>1, <2>1, <2>2, <2>3 DEF new, CredOf
    <3>2. CASE q # r
      <4>1. req'[q] = req[q]
        BY Zenon, <2>1, <3>2 DEF RequestInv
      <4>. QED
        BY <4>1, <2>1, <2>4 DEF RequestInv, CredOf
    <3>. QED
      BY Zenon, <3>1, <3>2
  <2>5. req' = [q \in Requests |-> req'[q]]
    BY Zenon, <2>1 DEF RequestInv
  <2>. QED
    BY Zenon, <2>1, <2>4, <2>5 DEF RequestInv
<1>. QED
  BY Zenon, <1>1, <1>2 DEF Proxy

-----------------------------------------------------------------------------
\* Nobody has signed in and no request is under way when the server starts.
LEMMA SignInStart ==
  ASSUME SignInInit
  PROVE  SignInInv
<1>1. FlowInv
  BY Zenon, SignInAssumption DEF SignInInit, FlowInv, FlowType
<1>2. RowInv
  <2>1. PICK first \in [Groups -> Providers \cup {None}] : rows = [g \in Groups |-> FirstRow(first[g])]
    BY Zenon DEF SignInInit
  <2>. QED
    BY Zenon, <2>1 DEF RowInv, RowOf, FirstRow
<1>3. RequestInv
  BY Zenon DEF SignInInit, RequestInv
<1>. QED
  BY Zenon, <1>1, <1>2, <1>3 DEF SignInInv

\* One case for each kind of step.
LEMMA SignInStep ==
  ASSUME SignInInv, [SignInNext]_signin
  PROVE  SignInInv'
<1>. USE DEF SignInInv
<1>1. CASE UNCHANGED signin
  <2>1. flow' = flow /\ rows' = rows /\ req' = req
    BY Zenon, <1>1 DEF signin
  <2>. QED
    BY Zenon, <2>1, OthersKept DEF KeepsGroup, FlowInv
<1>2. ASSUME NEW f \in Flows,
             \/ \E g \in Groups \cup {None}, p \in Providers : Start(f, g, p)
             \/ Handler(f) /\ ~UpsertChatGPTCredential(f)
      PROVE  SignInInv'
  <2>1. FlowInv' /\ KeepsGroup
    BY Zenon, <1>2, FlowStep
  <2>2. rows' = rows /\ req' = req
    BY Zenon, <1>2 DEF Start, Handler, RequestDeviceCode, PollApproved, PollPending, PollDenied,
       PollFails, WaitTimer, WaitDeadline, WaitCancelled, ExchangeCode, SendSuccess, server
  <2>. QED
    BY Zenon, <2>1, <2>2, OthersKept
<1>3. ASSUME NEW f \in Flows, UpsertChatGPTCredential(f)
      PROVE  SignInInv'
  <2>1. FlowInv' /\ KeepsGroup
    BY Zenon, <1>3, FlowStep DEF Handler
  <2>2. req' = req /\ FlowAt(f, "store") /\ (Write(f) \/ rows' = rows)
    BY Zenon, <1>3 DEF UpsertChatGPTCredential
  <2>. QED
    BY Zenon, <2>1, <2>2, OthersKept, WriteStep
<1>4. ASSUME NEW f \in Flows, Decide(f) \/ ClientLeaves(f)
      PROVE  SignInInv'
  <2>1. flow' = flow /\ rows' = rows /\ req' = req
    BY Zenon, <1>4 DEF Decide, ClientLeaves
  <2>. QED
    BY Zenon, <2>1, OthersKept DEF KeepsGroup, FlowInv
<1>5. ASSUME NEW r \in Requests, Proxy(r)
      PROVE  SignInInv'
  <2>1. RequestInv' /\ rows' = rows /\ flow' = flow
    BY Zenon, <1>5, ProxyStep
  <2>. QED
    BY Zenon, <2>1, OthersKept DEF KeepsGroup, FlowInv
<1>. QED
  BY Zenon, <1>1, <1>2, <1>3, <1>4, <1>5 DEF SignInNext

\* A row that is empty, a key or tokens can be read and holds one secret at most.
LEMMA RowsFollow == SignInInv => RowsReadable
<1>. SUFFICES ASSUME SignInInv, NEW g \in Groups
              PROVE  /\ GetCredential(g)
                     /\ rows[g].mode = "chatgpt" => ~HasKey(rows[g])
                     /\ rows[g].mode = "api_key" => ~HasTokens(rows[g])
  BY Zenon DEF RowsReadable
<1>. USE SignInAssumption DEF GetCredential, HasKey, HasTokens
<1>1. CASE rows[g] = NoRow
  BY <1>1 DEF NoRow
<1>2. CASE \E p \in Providers : rows[g] = KeyRow(p)
  BY <1>2 DEF KeyRow
<1>3. CASE \E f \in Flows : rows[g] = ChatGPTRow(NoRow, f)
  BY <1>3 DEF ChatGPTRow
<1>. QED
  BY Zenon, <1>1, <1>2, <1>3 DEF SignInInv, RowInv, RowOf

\* A request's credential is what its lookup found.
LEMMA RequestsFollow == SignInInv => RequestsKeepTheirOwn
<1>. SUFFICES ASSUME SignInInv, NEW r \in Requests, req[r] # None
              PROVE  LET c == req[r].cred
                     IN  /\ req[r].want # None => c.provider = req[r].want
                         /\ c.owner \in Flows =>
                              flow[c.owner].jid = req[r].jid /\ c.upstream = "codex" /\ c.provider = "openai"
                         /\ c.owner \notin Flows =>
                              c.owner \in {"platform", req[r].jid} /\ c.upstream = c.provider
  BY Zenon DEF RequestsKeepTheirOwn
<1>1. PICK g \in Groups, want \in Providers \cup {None}, c \in {req[r].cred} :
        req[r] = [jid |-> g, want |-> want, cred |-> c] /\ CredOf(g, want, c)
  BY Zenon DEF SignInInv, RequestInv
<1>2. req[r].jid = g /\ req[r].want = want /\ req[r].cred = c
  BY <1>1
<1>. QED
  BY <1>1, <1>2, SignInAssumption DEF CredOf, Cred

\* GetCredential can read every row, whatever sign-in replaced it, and no row holds the
\* secret of the mode it replaced.
THEOREM RowsReadableTheorem == SignInSpec => []RowsReadable
  BY SignInStart, SignInStep, RowsFollow, PTL DEF SignInSpec

\* A proxied request carries a credential of its own group or of the platform, for the
\* provider it asked for, however rows change while it is under way.
THEOREM RequestsTheorem == SignInSpec => []RequestsKeepTheirOwn
  BY SignInStart, SignInStep, RequestsFollow, PTL DEF SignInSpec

-----------------------------------------------------------------------------
(* What a sign-in tells its client. *)

\* How far a sign-in has come agrees with what the user decided and what is stored.
Agrees(f) ==
  /\ flow[f].pc \in {"poll", "wait"} => remote[f] \in {"pending", "approved", "refused"}
  /\ flow[f].pc \in {"store", "success"} => remote[f] = "approved"
  /\ flow[f].pc = "success" => f \in stored
  /\ f \in stored => flow[f].pc \in {"success", "done"}

HonestInv ==
  /\ FlowInv
  /\ remote = [f \in Flows |-> remote[f]] /\ answer = [f \in Flows |-> answer[f]]
  /\ \A f \in Flows : Agrees(f)

\* The answer that a step gives to f, if it gives one.
Honest(f) ==
  answer'[f] # answer[f] =>
    /\ answer'[f] = "SUCCESS" => remote[f] = "approved" /\ f \in stored
    /\ answer'[f] = "ACCESS_DENIED" => remote[f] = "refused"
    /\ answer'[f] = "TIMEOUT" =>
         flow[f].left <= flow[f].interval \/ flow[f].pc \in {"code", "poll", "exchange"}
    /\ answer'[f] \notin {"SUCCESS", "INTERNAL", "unheard"} => f \notin stored'

\* A handler's step is about its own sign-in.
LEMMA OwnStep ==
  ASSUME HonestInv, NEW f \in Flows,
         \/ \E g \in Groups \cup {None}, p \in Providers : Start(f, g, p)
         \/ Handler(f)
  PROVE  /\ remote' = [h \in Flows |-> remote'[h]] /\ answer' = [h \in Flows |-> answer'[h]]
         /\ \A h \in Flows \ {f} :
              /\ flow'[h] = flow[h] /\ remote'[h] = remote[h] /\ answer'[h] = answer[h]
              /\ h \in stored' <=> h \in stored
<1>. USE DEF HonestInv, FlowInv, HandlerReturns, Told, SendError, Proceed, CallFails, PollError, server
<1>1. CASE \E g \in Groups \cup {None}, p \in Providers : Start(f, g, p)
  BY Zenon, <1>1 DEF Start
<1>2. CASE RequestDeviceCode(f)
  BY Zenon, <1>2 DEF RequestDeviceCode
<1>3. CASE PollApproved(f) \/ PollPending(f)
  BY Zenon, <1>3 DEF PollApproved, PollPending
<1>4. CASE PollDenied(f) \/ PollFails(f)
  BY Zenon, <1>4 DEF PollDenied, PollFails
<1>5. CASE WaitTimer(f) \/ WaitDeadline(f) \/ WaitCancelled(f)
  BY Zenon, <1>5 DEF WaitTimer, WaitDeadline, WaitCancelled
<1>6. CASE ExchangeCode(f) \/ SendSuccess(f)
  BY Zenon, <1>6 DEF ExchangeCode, SendSuccess
<1>7. CASE UpsertChatGPTCredential(f)
  BY Zenon, <1>7 DEF UpsertChatGPTCredential, Write
<1>. QED
  BY Zenon, <1>1, <1>2, <1>3, <1>4, <1>5, <1>6, <1>7 DEF Handler

\* Ending the stream with an error that fits agrees with what is stored.
LEMMA ErrorStep ==
  ASSUME HonestInv, NEW f \in Flows, NEW code, SendError(f, code), remote' = remote
  PROVE  /\ flow'[f].pc = "done" /\ answer'[f] \in {code, "unheard"}
         /\ Agrees(f)'
<1>1. flow[f] \in FlowType
  BY Zenon DEF HonestInv, FlowInv
<1>2. flow'[f] = [flow[f] EXCEPT !.pc = "done", !.interval = 1, !.left = PollTimeout]
  BY Zenon DEF SendError, HandlerReturns, HonestInv, FlowInv
<1>3. flow'[f].pc = "done"
  BY Zenon, <1>1, <1>2 DEF FlowType
<1>4. answer'[f] \in {code, "unheard"}
  BY Zenon DEF SendError, Told, HonestInv
<1>. QED
  BY Zenon, <1>3, <1>4 DEF Agrees

\* What a handler tells its own client, and where it is then.
LEMMA HonestStep ==
  ASSUME HonestInv, NEW f \in Flows,
         \/ \E g \in Groups \cup {None}, p \in Providers : Start(f, g, p)
         \/ Handler(f)
  PROVE  Agrees(f)' /\ Honest(f)
<1>0. /\ flow[f] \in FlowType /\ Agrees(f) /\ flow = [h \in Flows |-> flow[h]]
      /\ remote = [h \in Flows |-> remote[h]] /\ answer = [h \in Flows |-> answer[h]]
  BY Zenon DEF HonestInv, FlowInv
<1>1. ASSUME NEW g \in Groups \cup {None}, NEW p \in Providers, Start(f, g, p)
      PROVE  Agrees(f)' /\ Honest(f)
  <2>1. FlowAt(f, "idle") /\ UNCHANGED <<remote, stored>> /\ f \notin stored
    BY Zenon, <1>0, <1>1 DEF Start, server, Agrees, FlowAt
  <2>2. CASE SendError(f, "INVALID_ARGUMENT")
    <3>1. answer'[f] \in {"INVALID_ARGUMENT", "unheard"} /\ Agrees(f)'
      BY Zenon, <2>1, <2>2, ErrorStep
    <3>. QED
      BY Zenon, <2>1, <3>1 DEF Honest
  <2>3. CASE flow' = [flow EXCEPT ![f].pc = "code", ![f].jid = g] /\ UNCHANGED answer
    <3>1. flow'[f].pc = "code"
      BY Zenon, <1>0, <2>3 DEF FlowType
    <3>. QED
      BY Zenon, <2>1, <2>3, <3>1 DEF Agrees, Honest
  <2>. QED
    BY Zenon, <1>1, <2>2, <2>3 DEF Start
<1>2. CASE RequestDeviceCode(f)
  <2>1. FlowAt(f, "code") /\ UNCHANGED stored /\ f \notin stored
    BY Zenon, <1>0, <1>2 DEF RequestDeviceCode, Agrees, FlowAt
  <2>2. CASE CallFails(f) /\ UNCHANGED remote
    <3>1. PICK code \in {"INTERNAL", "TIMEOUT", "CANCELLED"} : SendError(f, code)
      BY Zenon, <2>2 DEF CallFails
    <3>. QED
      BY Zenon, <2>1, <2>2, <3>1, ErrorStep DEF Honest, FlowAt
  <2>3. CASE /\ IF hungUp[f] THEN HandlerReturns(f) ELSE Proceed(f, "poll")
             /\ remote' = [remote EXCEPT ![f] = "pending"]
             /\ UNCHANGED answer
    <3>1. flow'[f].pc \in {"done", "poll"} /\ remote'[f] = "pending"
      BY <1>0, <2>3 DEF HandlerReturns, Proceed, FlowType
    <3>. QED
      BY Zenon, <2>1, <2>3, <3>1 DEF Agrees, Honest
  <2>. QED
    BY Zenon, <1>2, <2>2, <2>3 DEF RequestDeviceCode
<1>3. CASE PollApproved(f)
  <2>1. FlowAt(f, "poll") /\ UNCHANGED <<answer, remote, stored>> /\ "code" \in PollOnce(f)
    BY Zenon, <1>3 DEF PollApproved, server
  <2>2. f \notin stored /\ remote[f] \in {"pending", "approved", "refused"}
    BY Zenon, <1>0, <2>1 DEF Agrees, FlowAt
  <2>3. remote[f] = "approved"
    <3>1. Reply["pending"] = {"pending", "slow_down"} /\ Reply["refused"] = {"denied"}
      BY Zenon DEF Reply
    <3>. QED
      BY <2>1, <2>2, <3>1 DEF PollOnce
  <2>4. flow'[f].pc = "exchange"
    BY Zenon, <1>0, <1>3 DEF PollApproved, FlowType
  <2>. QED
    BY Zenon, <2>1, <2>2, <2>3, <2>4 DEF Agrees, Honest
<1>4. CASE PollPending(f)
  <2>1. FlowAt(f, "poll") /\ UNCHANGED <<answer, remote, stored>>
    BY Zenon, <1>4 DEF PollPending, server
  <2>2. flow'[f].pc = "wait"
    BY <1>0, <1>4 DEF PollPending, Proceed, FlowType
  <2>. QED
    BY Zenon, <1>0, <2>1, <2>2 DEF Agrees, Honest, FlowAt
<1>5. CASE PollDenied(f)
  <2>1. FlowAt(f, "poll") /\ UNCHANGED <<remote, stored>> /\ "denied" \in PollOnce(f)
    BY Zenon, <1>5 DEF PollDenied, server
  <2>2. f \notin stored /\ remote[f] \in {"pending", "approved", "refused"}
    BY Zenon, <1>0, <2>1 DEF Agrees, FlowAt
  <2>3. remote[f] = "refused"
    <3>1. Reply["pending"] = {"pending", "slow_down"} /\ Reply["approved"] = {"code"}
      BY Zenon DEF Reply
    <3>. QED
      BY <2>1, <2>2, <3>1 DEF PollOnce
  <2>4. PICK code \in {"CANCELLED", "TIMEOUT", "ACCESS_DENIED"} : SendError(f, code)
    BY Zenon, <1>5 DEF PollDenied, PollError
  <2>. QED
    BY Zenon, <2>1, <2>2, <2>3, <2>4, ErrorStep DEF Honest, FlowAt
<1>6. CASE PollFails(f)
  <2>1. FlowAt(f, "poll") /\ UNCHANGED <<remote, stored>> /\ f \notin stored
    BY Zenon, <1>0, <1>6 DEF PollFails, server, Agrees, FlowAt
  <2>2. PICK code \in {"CANCELLED", "TIMEOUT", "INTERNAL"} : SendError(f, code)
    BY Zenon, <1>6 DEF PollFails, PollError
  <2>. QED
    BY Zenon, <2>1, <2>2, ErrorStep DEF Honest, FlowAt
<1>7. CASE WaitTimer(f)
  <2>1. FlowAt(f, "wait") /\ UNCHANGED <<answer, remote, stored>>
    BY Zenon, <1>7 DEF WaitTimer, server
  <2>2. flow'[f].pc = "poll"
    BY Zenon, <1>0, <1>7 DEF WaitTimer, FlowType
  <2>. QED
    BY Zenon, <1>0, <2>1, <2>2 DEF Agrees, Honest, FlowAt
<1>8. CASE WaitDeadline(f) \/ WaitCancelled(f)
  <2>1. FlowAt(f, "wait") /\ UNCHANGED <<remote, stored>> /\ f \notin stored
    BY Zenon, <1>0, <1>8 DEF WaitDeadline, WaitCancelled, server, Agrees, FlowAt
  <2>2. PICK code \in {"CANCELLED", "TIMEOUT"} :
          SendError(f, code) /\ (code = "TIMEOUT" => flow[f].left <= flow[f].interval)
    BY Zenon, <1>8 DEF WaitDeadline, WaitCancelled
  <2>. QED
    BY Zenon, <2>1, <2>2, ErrorStep DEF Honest
<1>9. CASE ExchangeCode(f)
  <2>1. FlowAt(f, "exchange") /\ UNCHANGED <<remote, stored>> /\ f \notin stored
    BY Zenon, <1>0, <1>9 DEF ExchangeCode, server, Agrees, FlowAt
  <2>2. CASE CallFails(f)
    <3>1. PICK code \in {"INTERNAL", "TIMEOUT", "CANCELLED"} : SendError(f, code)
      BY Zenon, <2>2 DEF CallFails
    <3>. QED
      BY Zenon, <2>1, <3>1, ErrorStep DEF Honest, FlowAt
  <2>3. CASE remote[f] = "approved" /\ Proceed(f, "store") /\ UNCHANGED answer
    <3>1. flow'[f].pc = "store"
      BY Zenon, <1>0, <2>3 DEF Proceed, FlowType
    <3>. QED
      BY Zenon, <2>1, <2>3, <3>1 DEF Agrees, Honest
  <2>4. CASE remote[f] = "refused" /\ SendError(f, "ACCESS_DENIED")
    <3>1. answer'[f] \in {"ACCESS_DENIED", "unheard"} /\ Agrees(f)'
      BY Zenon, <2>1, <2>4, ErrorStep
    <3>. QED
      BY Zenon, <2>1, <2>4, <3>1 DEF Honest
  <2>. QED
    BY Zenon, <1>9, <2>2, <2>3, <2>4 DEF ExchangeCode
<1>10. CASE UpsertChatGPTCredential(f)
  <2>1. FlowAt(f, "store") /\ UNCHANGED remote /\ remote[f] = "approved"
    BY Zenon, <1>0, <1>10 DEF UpsertChatGPTCredential, Agrees, FlowAt
  <2>2. CASE SendError(f, "INTERNAL")
    <3>1. answer'[f] \in {"INTERNAL", "unheard"} /\ Agrees(f)'
      BY Zenon, <2>1, <2>2, ErrorStep
    <3>. QED
      BY Zenon, <2>1, <3>1 DEF Honest
  <2>3. CASE Write(f) /\ Proceed(f, "success") /\ UNCHANGED answer
    <3>1. flow'[f].pc = "success" /\ f \in stored'
      BY Zenon, <1>0, <2>3 DEF Proceed, FlowType, Write
    <3>. QED
      BY Zenon, <2>1, <2>3, <3>1 DEF Agrees, Honest
  <2>. QED
    BY Zenon, <1>10, <2>2, <2>3 DEF UpsertChatGPTCredential
<1>11. CASE SendSuccess(f)
  <2>1. FlowAt(f, "success") /\ UNCHANGED <<remote, stored>> /\ f \in stored /\ remote[f] = "approved"
    BY Zenon, <1>0, <1>11 DEF SendSuccess, server, Agrees, FlowAt
  <2>2. SendError(f, "SUCCESS")
    BY Zenon, <1>11 DEF SendSuccess, SendError
  <2>. QED
    BY <2>1, <2>2, ErrorStep DEF Honest
<1>. QED
  BY Zenon, <1>1, <1>2, <1>3, <1>4, <1>5, <1>6, <1>7, <1>8, <1>9, <1>10, <1>11 DEF Handler

\* Every step keeps the agreement, and tells only what is so.
LEMMA HonestNext ==
  ASSUME HonestInv, [SignInNext]_signin
  PROVE  HonestInv' /\ \A f \in Flows : Honest(f)
<1>1. ASSUME NEW f \in Flows,
             \/ \E g \in Groups \cup {None}, p \in Providers : Start(f, g, p)
             \/ Handler(f)
      PROVE  HonestInv' /\ \A h \in Flows : Honest(h)
  <2>1. FlowInv'
    BY Zenon, <1>1, FlowStep DEF HonestInv
  <2>2. Agrees(f)' /\ Honest(f)
    BY Zenon, <1>1, HonestStep
  <2>3. /\ remote' = [h \in Flows |-> remote'[h]] /\ answer' = [h \in Flows |-> answer'[h]]
        /\ \A h \in Flows \ {f} :
             /\ flow'[h] = flow[h] /\ remote'[h] = remote[h] /\ answer'[h] = answer[h]
             /\ h \in stored' <=> h \in stored
    BY Zenon, <1>1, OwnStep
  <2>4. \A h \in Flows \ {f} : Agrees(h)' /\ Honest(h)
    BY Zenon, <2>3 DEF HonestInv, Agrees, Honest
  <2>. QED
    BY Zenon, <2>1, <2>2, <2>3, <2>4 DEF HonestInv
<1>2. ASSUME NEW f \in Flows, Decide(f)
      PROVE  HonestInv' /\ \A h \in Flows : Honest(h)
  <2>1. /\ UNCHANGED <<flow, stored, answer>> /\ remote[f] \in {"pending", "approved"}
        /\ remote[f] = "approved" => flow[f].pc \in {"poll", "wait", "exchange"}
    BY Zenon, <1>2 DEF Decide
  <2>2. PICK d \in {"approved", "refused"} : remote' = [remote EXCEPT ![f] = d]
    BY Zenon, <1>2 DEF Decide
  <2>3. \A h \in Flows : Agrees(h)'
    <3>1. Agrees(f)'
      BY Zenon, <2>1, <2>2 DEF HonestInv, Agrees
    <3>2. \A h \in Flows \ {f} : Agrees(h)'
      BY Zenon, <2>1, <2>2 DEF HonestInv, Agrees
    <3>. QED
      BY Zenon, <3>1, <3>2
  <2>4. remote' = [h \in Flows |-> remote'[h]]
    BY Zenon, <2>2 DEF HonestInv
  <2>. QED
    BY Zenon, <2>1, <2>3, <2>4 DEF HonestInv, FlowInv, Honest
<1>3. CASE UNCHANGED <<flow, remote, stored, answer>>
  BY Zenon, <1>3 DEF HonestInv, FlowInv, Agrees, Honest
<1>4. CASE UNCHANGED signin
  BY Zenon, <1>3, <1>4 DEF signin
<1>5. ASSUME NEW f \in Flows, ClientLeaves(f)
      PROVE  UNCHANGED <<flow, remote, stored, answer>>
  BY Zenon, <1>5 DEF ClientLeaves
<1>6. ASSUME NEW r \in Requests, Proxy(r)
      PROVE  UNCHANGED <<flow, remote, stored, answer>>
  BY Zenon, <1>6 DEF Proxy, Resolve, Forward
<1>. QED
  BY Zenon, <1>1, <1>2, <1>3, <1>4, <1>5, <1>6 DEF SignInNext

\* Nobody has been told anything when the server starts.
LEMMA HonestStart == SignInInit => HonestInv
<1>. SUFFICES ASSUME SignInInit
              PROVE  HonestInv
  BY Zenon
<1>1. FlowInv
  BY Zenon, SignInStart DEF SignInInv
<1>. QED
  BY Zenon, <1>1 DEF SignInInit, HonestInv, Agrees

\* For any sign-ins, groups and deadline, what StartChatGPTDeviceAuth tells its client is
\* so when it is told.
THEOREM HonestTheorem == SignInSpec => HonestAnswer
<1>1. HonestInv /\ [SignInNext]_signin => HonestInv'
  BY Zenon, HonestNext
<1>2. HonestInv /\ [SignInNext]_signin => [\A f \in Flows : Honest(f)]_signin
  BY Zenon, HonestNext
<1>. QED
  BY HonestStart, <1>1, <1>2, PTL DEF SignInSpec, HonestAnswer, Honest

-----------------------------------------------------------------------------
(* The order of the streams. *)

\* seen is what was published after from and up to upto, without drop, in order.
Order(seen, from, upto, drop) ==
  /\ Range(seen) = ((from + 1)..upto) \ drop
  /\ \A i, j \in 1..Len(seen) : i < j => seen[i] < seen[j]

\* What is published next goes at the end, or is dropped.
LEMMA OrderGrows ==
  ASSUME NEW seen \in Seq(Nat), NEW from \in Nat, NEW upto \in Nat, from <= upto,
         NEW drop \in SUBSET (1..upto), Order(seen, from, upto, drop)
  PROVE  /\ Order(Append(seen, upto + 1), from, upto + 1, drop)
         /\ Order(seen, from, upto + 1, drop \cup {upto + 1})
<1>. DEFINE next == Append(seen, upto + 1)
<1>1. /\ Len(next) = Len(seen) + 1 /\ next[Len(seen) + 1] = upto + 1
      /\ \A i \in 1..Len(seen) : next[i] = seen[i] /\ seen[i] \in Nat
      /\ DOMAIN seen = 1..Len(seen) /\ DOMAIN next = 1..Len(seen) + 1 /\ Len(seen) \in Nat
  OBVIOUS
<1>. HIDE DEF next
<1>2. \A i \in 1..Len(seen) : seen[i] < upto + 1
  <2>. SUFFICES ASSUME NEW i \in 1..Len(seen)
                PROVE  seen[i] < upto + 1
    BY Zenon
  <2>1. seen[i] \in Range(seen)
    BY Zenon, <1>1 DEF Range
  <2>2. seen[i] \in (from + 1)..upto
    BY Zenon, <2>1 DEF Order
  <2>. QED
    BY <2>2
<1>3. ASSUME NEW i \in 1..Len(seen) + 1, NEW j \in 1..Len(seen) + 1, i < j
      PROVE  next[i] < next[j]
  <2>1. CASE j = Len(seen) + 1
    BY <1>1, <1>2, <1>3, <2>1
  <2>2. CASE j \in 1..Len(seen)
    BY <1>1, <1>3, <2>2 DEF Order
  <2>. QED
    BY <1>1, <2>1, <2>2
<1>4. Range(next) = Range(seen) \cup {upto + 1}
  <2>1. /\ Range(seen) = {seen[i] : i \in 1..Len(seen)}
        /\ Range(next) = {next[i] : i \in 1..Len(seen) + 1}
    BY Zenon, <1>1 DEF Range
  <2>2. \A i \in 1..Len(seen) + 1 : i \in 1..Len(seen) \/ i = Len(seen) + 1
    BY <1>1
  <2>3. 1..Len(seen) \subseteq 1..Len(seen) + 1 /\ Len(seen) + 1 \in 1..Len(seen) + 1
    BY <1>1
  <2>4. Range(next) \subseteq Range(seen) \cup {upto + 1}
    BY Zenon, <1>1, <2>1, <2>2
  <2>5. Range(seen) \cup {upto + 1} \subseteq Range(next)
    BY Zenon, <1>1, <2>1, <2>3
  <2>. QED
    BY Zenon, <2>4, <2>5
<1>5. /\ (from + 1)..(upto + 1) = ((from + 1)..upto) \cup {upto + 1}
      /\ upto + 1 \notin drop /\ upto + 1 \notin (from + 1)..upto
  OBVIOUS
<1>6. Order(next, from, upto + 1, drop)
  BY Zenon, <1>1, <1>3, <1>4, <1>5 DEF Order
<1>7. Order(seen, from, upto + 1, drop \cup {upto + 1})
  BY Zenon, <1>5 DEF Order
<1>. QED
  BY Zenon, <1>6, <1>7 DEF next

\* Two sequences of messages are the same if their elements are.
LEMMA SameMessages ==
  ASSUME NEW s \in Seq(Nat), NEW t \in Seq(Nat), Len(s) = Len(t), \A i \in 1..Len(s) : s[i] = t[i]
  PROVE  s = t
OBVIOUS

\* A message moves from the front of the buffer to what the handler has.
LEMMA Received ==
  ASSUME NEW a \in Seq(Nat), NEW b \in Seq(Nat), b # <<>>
  PROVE  Append(a, Head(b)) \o Tail(b) = a \o b
<1>1. Append(a, Head(b)) \o Tail(b) \in Seq(Nat) /\ a \o b \in Seq(Nat)
  OBVIOUS
<1>2. Len(Append(a, Head(b)) \o Tail(b)) = Len(a) + Len(b) /\ Len(a \o b) = Len(a) + Len(b)
  OBVIOUS
<1>3. ASSUME NEW i \in 1..Len(a) + Len(b)
      PROVE  (Append(a, Head(b)) \o Tail(b))[i] = (a \o b)[i]
  OBVIOUS
<1>. QED
  BY Zenon, <1>1, <1>2, <1>3, SameMessages

\* And one is put at its back.
LEMMA Buffered ==
  ASSUME NEW a \in Seq(Nat), NEW b \in Seq(Nat), NEW n \in Nat
  PROVE  a \o Append(b, n) = Append(a \o b, n)
<1>1. a \o Append(b, n) \in Seq(Nat) /\ Append(a \o b, n) \in Seq(Nat)
  OBVIOUS
<1>2. Len(a \o Append(b, n)) = Len(a) + Len(b) + 1 /\ Len(Append(a \o b, n)) = Len(a) + Len(b) + 1
  OBVIOUS
<1>3. ASSUME NEW i \in 1..Len(a) + Len(b) + 1
      PROVE  (a \o Append(b, n))[i] = Append(a \o b, n)[i]
  OBVIOUS
<1>. QED
  BY Zenon, <1>1, <1>2, <1>3, SameMessages

-----------------------------------------------------------------------------
StreamTypes ==
  /\ buf \in [Streams -> Seq(Nat)] /\ got \in [Streams -> Seq(Nat)]
  /\ since \in [Streams -> Nat] /\ missed = [s \in Streams |-> missed[s]]
  /\ msgs \in [{"message", "event"} -> Nat]

\* A handler that has not subscribed has nothing yet; one that has is in order and was
\* not told of a drop that has not happened.
Fresh(s) == handler[s] = "idle" => got[s] = <<>> /\ buf[s] = <<>> /\ missed[s] = {}
Carries(s) ==
  /\ Order(got[s] \o buf[s], since[s], msgs[Kind(s)], missed[s])
  /\ since[s] <= msgs[Kind(s)] /\ missed[s] \subseteq 1..msgs[Kind(s)]

StreamInv ==
  /\ ClosingInv /\ StreamTypes
  /\ \A s \in Streams : Fresh(s)
  /\ \A s \in subs : Carries(s)

\* What does not touch what a stream carries.
LEMMA StreamKept ==
  ASSUME StreamInv, ClosingInv', UNCHANGED <<buf, got, since, missed, msgs>>, subs' \subseteq subs,
         \A s \in Streams : handler'[s] = "idle" => handler[s] = "idle"
  PROVE  StreamInv'
<1>1. StreamTypes'
  BY Zenon DEF StreamInv, StreamTypes
<1>2. \A s \in Streams : Fresh(s)'
  BY Zenon DEF StreamInv, Fresh
<1>3. \A s \in subs' : Carries(s)'
  BY Zenon DEF StreamInv, Carries, Kind, Order
<1>. QED
  BY Zenon, <1>1, <1>2, <1>3 DEF StreamInv

\* A publisher sends to whoever has room, and drops for the others.
LEMMA StreamPublish ==
  ASSUME StreamInv, RouteOutbound \/ PublishEvent
  PROVE  StreamInv'
<1>1. PICK kind \in {"message", "event"} : Publish(kind)
  BY Zenon DEF RouteOutbound, PublishEvent
<1>. DEFINE n == msgs[kind] + 1
            to == {s \in subs : Kind(s) = kind}
            room == {s \in to : Len(buf[s]) < Cap}
<1>2. /\ msgs' = [msgs EXCEPT ![kind] = n]
      /\ buf' = [s \in Streams |-> IF s \in room THEN Append(buf[s], n) ELSE buf[s]]
      /\ missed' = [s \in Streams |-> IF s \in to \ room THEN missed[s] \cup {n} ELSE missed[s]]
      /\ subs' = subs
  BY Zenon, <1>1 DEF Publish
<1>3. UNCHANGED <<handler, got, since>>
  BY Zenon DEF RouteOutbound, PublishEvent, streams
<1>4. ClosingInv'
  BY Zenon, ClosingPublish DEF StreamInv
<1>5. n \in Nat /\ msgs[kind] \in Nat /\ n = msgs[kind] + 1
  BY DEF StreamInv, StreamTypes
<1>6. /\ \A s \in Streams : s \in to <=> s \in subs /\ Kind(s) = kind
      /\ subs \subseteq Streams /\ room \subseteq to
  BY Zenon DEF StreamInv, ClosingInv
<1>. HIDE DEF n, to, room
<1>7. StreamTypes'
  <2>1. \A s \in Streams : buf[s] \in Seq(Nat) /\ Append(buf[s], n) \in Seq(Nat)
    BY <1>5 DEF StreamInv, StreamTypes
  <2>2. buf' \in [Streams -> Seq(Nat)]
    BY Zenon, <1>2, <2>1
  <2>3. msgs' \in [{"message", "event"} -> Nat]
    BY Zenon, <1>2, <1>5 DEF StreamInv, StreamTypes
  <2>4. missed' = [s \in Streams |-> missed'[s]]
    BY Zenon, <1>2
  <2>. QED
    BY Zenon, <1>3, <2>2, <2>3, <2>4 DEF StreamInv, StreamTypes
<1>8. \A s \in Streams : Fresh(s)'
  BY Zenon, <1>2, <1>3, <1>6 DEF StreamInv, ClosingInv, Fresh
<1>9. ASSUME NEW s \in subs
      PROVE  Carries(s)'
  <2>1. s \in Streams /\ Carries(s) /\ got'[s] = got[s] /\ since'[s] = since[s] /\ Kind(s) \in {"message", "event"}
    BY Zenon, <1>3, <1>6 DEF StreamInv, Kind
  <2>2. CASE Kind(s) # kind
    <3>1. msgs'[Kind(s)] = msgs[Kind(s)] /\ buf'[s] = buf[s] /\ missed'[s] = missed[s]
      BY Zenon, <1>2, <1>6, <2>1, <2>2 DEF StreamInv, StreamTypes
    <3>. QED
      BY Zenon, <2>1, <3>1 DEF Carries, Kind, Order
  <2>3. CASE Kind(s) = kind
    <3>. DEFINE seen == got[s] \o buf[s]
                from == since[s]
                upto == msgs[kind]
                drop == missed[s]
    <3>1. seen \in Seq(Nat) /\ from \in Nat /\ upto \in Nat /\ got[s] \in Seq(Nat) /\ buf[s] \in Seq(Nat)
      BY <1>5, <2>1 DEF StreamInv, StreamTypes
    <3>2. from <= upto /\ drop \in SUBSET (1..upto) /\ Order(seen, from, upto, drop)
      BY Zenon, <2>1, <2>3 DEF Carries
    <3>3. msgs'[Kind(s)] = upto + 1
      BY Zenon, <1>2, <1>5, <2>3 DEF StreamInv, StreamTypes
    <3>4. /\ Order(Append(seen, upto + 1), from, upto + 1, drop)
          /\ Order(seen, from, upto + 1, drop \cup {upto + 1})
      <4>. HIDE DEF seen, from, upto, drop
      <4>. QED
        BY Zenon, <3>1, <3>2, OrderGrows
    <3>5. CASE s \in room
      <4>1. buf'[s] = Append(buf[s], upto + 1) /\ missed'[s] = drop
        BY Zenon, <1>2, <1>5, <2>1, <3>5
      <4>2. got'[s] \o buf'[s] = Append(seen, upto + 1)
        <5>1. upto + 1 \in Nat
          BY <3>1
        <5>2. got[s] \o Append(buf[s], upto + 1) = Append(got[s] \o buf[s], upto + 1)
          BY Zenon, <3>1, <5>1, Buffered
        <5>. QED
          BY Zenon, <2>1, <4>1, <5>2
      <4>3. Order(got'[s] \o buf'[s], since'[s], msgs'[Kind(s)], missed'[s])
        BY Zenon, <2>1, <3>3, <3>4, <4>1, <4>2
      <4>4. since'[s] <= msgs'[Kind(s)] /\ missed'[s] \subseteq 1..msgs'[Kind(s)]
        BY <2>1, <3>1, <3>2, <3>3, <4>1
      <4>. QED
        BY Zenon, <4>3, <4>4 DEF Carries, Kind, Order
    <3>6. CASE s \notin room
      <4>1. buf'[s] = buf[s] /\ missed'[s] = drop \cup {upto + 1}
        BY Zenon, <1>2, <1>5, <1>6, <2>1, <2>3, <3>6
      <4>2. Order(got'[s] \o buf'[s], since'[s], msgs'[Kind(s)], missed'[s])
        BY Zenon, <2>1, <3>3, <3>4, <4>1
      <4>3. since'[s] <= msgs'[Kind(s)] /\ missed'[s] \subseteq 1..msgs'[Kind(s)]
        BY <2>1, <3>1, <3>2, <3>3, <4>1
      <4>. QED
        BY Zenon, <4>2, <4>3 DEF Carries, Kind, Order
    <3>. QED
      BY Zenon, <3>5, <3>6
  <2>. QED
    BY Zenon, <2>2, <2>3
<1>. QED
  BY Zenon, <1>2, <1>4, <1>7, <1>8, <1>9 DEF StreamInv

\* A stream begins with nothing, at the last message published.
LEMMA StreamSubscribe ==
  ASSUME StreamInv, NEW s \in Streams, Subscribe(s)
  PROVE  StreamInv'
<1>1. /\ handler[s] = "idle" /\ handler' = [handler EXCEPT ![s] = "receiving"]
      /\ subs' = subs \cup {s} /\ since' = [since EXCEPT ![s] = msgs[Kind(s)]]
      /\ UNCHANGED <<buf, missed, msgs, got>>
  BY Zenon DEF Subscribe, Goto
<1>2. ClosingInv'
  BY Zenon, ClosingHandler DEF StreamInv
<1>3. msgs[Kind(s)] \in Nat
  BY Zenon DEF StreamInv, StreamTypes, Kind
<1>4. StreamTypes'
  BY Zenon, <1>1, <1>3 DEF StreamInv, StreamTypes
<1>5. \A t \in Streams : Fresh(t)'
  BY Zenon, <1>1 DEF StreamInv, ClosingInv, Fresh
<1>6. ASSUME NEW t \in subs'
      PROVE  Carries(t)'
  <2>1. CASE t = s
    <3>1. got'[t] = <<>> /\ buf'[t] = <<>> /\ missed'[t] = {}
      BY Zenon, <1>1, <2>1 DEF StreamInv, Fresh
    <3>2. since'[t] = msgs[Kind(t)] /\ msgs' = msgs
      BY Zenon, <1>1, <2>1 DEF StreamInv, StreamTypes
    <3>3. got'[t] \o buf'[t] = <<>>
      BY <3>1
    <3>. DEFINE m == msgs[Kind(t)]
    <3>4. Order(<<>>, m, m, {}) /\ m <= m
      BY <1>3, <2>1 DEF Order, Range
    <3>. HIDE DEF m
    <3>. QED
      BY Zenon, <3>1, <3>2, <3>3, <3>4 DEF Carries, Kind, Order, m
  <2>2. CASE t # s
    <3>1. t \in subs /\ t \in Streams /\ since'[t] = since[t]
      BY Zenon, <1>1, <1>6, <2>2 DEF StreamInv, ClosingInv, StreamTypes
    <3>. QED
      BY Zenon, <1>1, <3>1 DEF StreamInv, Carries, Kind, Order
  <2>. QED
    BY Zenon, <2>1, <2>2
<1>. QED
  BY Zenon, <1>2, <1>4, <1>5, <1>6 DEF StreamInv

\* What a handler receives was the first of its buffer.
LEMMA StreamReceive ==
  ASSUME StreamInv, NEW s \in Streams, Receive(s)
  PROVE  StreamInv'
<1>1. /\ handler[s] = "receiving" /\ buf[s] # <<>> /\ handler' = [handler EXCEPT ![s] = "sending"]
      /\ got' = [got EXCEPT ![s] = Append(got[s], Head(buf[s]))]
      /\ buf' = [buf EXCEPT ![s] = Tail(buf[s])]
      /\ UNCHANGED <<subs, missed, msgs, since>>
  BY Zenon DEF Receive, Goto
<1>2. ClosingInv'
  BY Zenon, ClosingHandler DEF StreamInv, Step
<1>3. /\ got[s] \in Seq(Nat) /\ buf[s] \in Seq(Nat)
      /\ Append(got[s], Head(buf[s])) \in Seq(Nat) /\ Tail(buf[s]) \in Seq(Nat)
  BY <1>1 DEF StreamInv, StreamTypes
<1>4. StreamTypes'
  BY Zenon, <1>1, <1>3 DEF StreamInv, StreamTypes
<1>5. \A t \in Streams : Fresh(t)'
  BY Zenon, <1>1 DEF StreamInv, ClosingInv, Fresh, StreamTypes
<1>6. \A t \in Streams : got'[t] \o buf'[t] = got[t] \o buf[t]
  <2>1. got'[s] \o buf'[s] = got[s] \o buf[s]
    BY Zenon, <1>1, <1>3, Received DEF StreamInv, StreamTypes
  <2>. QED
    BY Zenon, <1>1, <2>1 DEF StreamInv, StreamTypes
<1>7. \A t \in subs' : Carries(t)'
  <2>1. subs \subseteq Streams
    BY Zenon DEF StreamInv, ClosingInv
  <2>. QED
    BY Zenon, <1>1, <1>6, <2>1 DEF StreamInv, Carries, Kind, Order
<1>. QED
  BY Zenon, <1>2, <1>4, <1>5, <1>7 DEF StreamInv

\* For any streams, buffer size and number of messages, a subscribed stream carries what
\* was published since it subscribed, in order and once, without what was dropped while
\* its buffer was full.
THEOREM StreamsTheorem == Spec => []StreamsInOrder
<1>1. Init => StreamInv
  <2>. SUFFICES ASSUME Init
                PROVE  StreamInv
    BY Zenon
  <2>1. ClosingInv
    BY Zenon, ClosingStart
  <2>2. StreamTypes
    BY DEF Init, StreamTypes
  <2>. QED
    BY Zenon, <2>1, <2>2 DEF Init, StreamInv, Fresh
<1>2. StreamInv /\ [Next]_vars => StreamInv'
  <2>. SUFFICES ASSUME StreamInv, [Next]_vars
                PROVE  StreamInv'
    BY Zenon
  <2>1. CASE UNCHANGED vars
    <3>1. UNCHANGED <<buf, got, since, missed, msgs, subs, handler, closed, panicked>>
      BY Zenon, <2>1 DEF vars, channels, streams
    <3>2. ClosingInv'
      BY Zenon, <3>1 DEF StreamInv, ClosingInv
    <3>. QED
      BY Zenon, <3>1, <3>2, StreamKept
  <2>2. CASE Cancel \/ Serve \/ GracefulStop \/ ForceStop \/ Drained
    <3>1. UNCHANGED <<buf, got, since, missed, msgs, subs, handler>>
      BY Zenon, <2>2 DEF Cancel, Serve, GracefulStop, ForceStop, Drained, channels, streams
    <3>. QED
      BY Zenon, <2>2, <3>1, ClosingMain, StreamKept DEF StreamInv
  <2>3. CASE StopOrchestrator
    <3>1. UNCHANGED <<buf, got, since, missed, msgs, handler>> /\ subs' \subseteq subs
      BY Zenon, <2>3 DEF StopOrchestrator, Disconnect, streams
    <3>. QED
      BY Zenon, <2>3, <3>1, ClosingDisconnect, StreamKept DEF StreamInv
  <2>4. CASE RouteOutbound \/ PublishEvent
    BY Zenon, <2>4, StreamPublish
  <2>5. ASSUME NEW s \in Streams, Leave(s) \/ Sent(s) \/ ReceiveDone(s) \/ SendFails(s) \/ Unsubscribe(s)
        PROVE  StreamInv'
    <3>1. UNCHANGED <<buf, got, since, missed, msgs>> /\ subs' \subseteq subs
      BY Zenon, <2>5 DEF Leave, Sent, ReceiveDone, SendFails, Unsubscribe, channels
    <3>2. \A t \in Streams : handler'[t] = "idle" => handler[t] = "idle"
      BY Zenon, <2>5 DEF Leave, Sent, ReceiveDone, SendFails, Unsubscribe, Goto, StreamInv, ClosingInv
    <3>3. ClosingInv'
      BY Zenon, <2>5, ClosingHandler DEF StreamInv, Step
    <3>. QED
      BY Zenon, <3>1, <3>2, <3>3, StreamKept
  <2>. QED
    BY Zenon, <2>1, <2>2, <2>3, <2>4, <2>5, StreamSubscribe, StreamReceive DEF Next, Step
<1>3. StreamInv => StreamsInOrder
  BY Zenon DEF StreamInv, StreamsInOrder, Carries, Order
<1>. QED
  BY <1>1, <1>2, <1>3, PTL DEF Spec

=============================================================================
