------------------------------- MODULE SignIn -------------------------------
(***************************************************************************)
(* Signing a group in to ChatGPT and using what that stores.  A client     *)
(* opens a StartChatGPTDeviceAuth stream (internal/server/api_auth.go);    *)
(* the handler asks the authorization server for a device code, polls      *)
(* until the user has decided, exchanges the code for tokens               *)
(* (internal/auth/chatgpt/device_flow.go) and writes the group's row of    *)
(* the credentials table.  Meanwhile agents send requests through the      *)
(* credential proxy (internal/credproxy), which looks the row up and       *)
(* forwards the request a moment later.                                    *)
(*                                                                         *)
(* A token is the sign-in it came from.  Time matters only to the poll     *)
(* loop: left counts what remains of PollTimeout in units of the           *)
(* slow_down increment.  HTTP bodies, encryption and logging are left out. *)
(***************************************************************************)
EXTENDS Naturals

CONSTANTS
  Groups,       \* group JIDs
  Flows,        \* sign-in streams, each used once
  Requests,     \* proxied requests in progress at one time
  Keys,         \* the providers for which a group's row may hold an API key at first, or None
  Platform,     \* providers for which the configuration holds a platform key
  PollTimeout,  \* PollTimeout in units of slowDownBackoff
  None          \* NULL, nil or the empty string

Providers == {"anthropic", "openai"}

\* Group JIDs, tokens and the words used below are told apart; the poll loop is bounded.
ASSUME SignInAssumption ==
  /\ PollTimeout \in Nat
  /\ Groups \cap Flows = {} /\ "platform" \notin Groups \cup Flows
  /\ None \notin Groups \cup Flows \cup Providers \cup {"api_key", "chatgpt", "key"}

VARIABLES
  flow,         \* the handler's progress: pc, group, poll interval, time left
  remote,       \* the authorization server's view of the device code; "refused" when the
                \* user denied it or it has expired
  hungUp,       \* the stream's context is cancelled: the client has left
  answer,       \* the terminal event sent on the stream, if any
  rows,         \* the credentials table
  stored,       \* sign-ins whose tokens have been written
  req           \* proxied requests

signin == <<flow, remote, hungUp, answer, rows, stored, req>>
server == <<remote, hungUp, rows, stored, req>>

NoRow == [mode |-> None, provider |-> None, key |-> None, token |-> None]
KeyRow(p) == [mode |-> "api_key", provider |-> p, key |-> "key", token |-> None]
FirstRow(p) == IF p = None THEN NoRow ELSE KeyRow(p)

SignInInit ==
  /\ flow = [f \in Flows |-> [pc |-> "idle", jid |-> None, interval |-> 1, left |-> PollTimeout]]
  /\ remote = [f \in Flows |-> "none"]
  /\ hungUp = [f \in Flows |-> FALSE]
  /\ answer = [f \in Flows |-> "none"]
  /\ \E first \in [Groups -> Providers \cup {None}] :
       /\ \A g \in Groups : first[g] \in Keys[g]
       /\ rows = [g \in Groups |-> FirstRow(first[g])]
  /\ stored = {}
  /\ req = [r \in Requests |-> None]

-----------------------------------------------------------------------------
(* The sign-in handler.                                                     *)

FlowAt(f, pc) == flow[f].pc = pc
Proceed(f, pc) == flow' = [flow EXCEPT ![f].pc = pc]

\* stream.Send to a client that has left fails; the handler returns all the same.
Told(f, event) == answer' = [answer EXCEPT ![f] = IF hungUp[f] THEN "unheard" ELSE event]

\* The handler returns, and the poll loop's local state is gone.
HandlerReturns(f) ==
  flow' = [flow EXCEPT ![f].pc = "done", ![f].interval = 1, ![f].left = PollTimeout]

\* sendError ends the stream with one error event.
SendError(f, code) == HandlerReturns(f) /\ Told(f, code)

\* errCodeFor: what a failed call is reported as.
CallFails(f) ==
  \E code \in {"INTERNAL", "TIMEOUT"} \cup (IF hungUp[f] THEN {"CANCELLED"} ELSE {}) :
    SendError(f, code)

\* The checks before the device code is asked for.
Start(f, g, p) ==
  /\ FlowAt(f, "idle")
  /\ IF g # None /\ p = "openai"
     THEN /\ flow' = [flow EXCEPT ![f].pc = "code", ![f].jid = g]
          /\ UNCHANGED answer
     ELSE SendError(f, "INVALID_ARGUMENT")
  /\ UNCHANGED server

\* RequestDeviceCode and the event that shows the code; an unsent event ends the stream.
RequestDeviceCode(f) ==
  /\ FlowAt(f, "code")
  /\ \/ /\ IF hungUp[f] THEN HandlerReturns(f) ELSE Proceed(f, "poll")
        /\ remote' = [remote EXCEPT ![f] = "pending"]
        /\ UNCHANGED answer
     \/ CallFails(f) /\ UNCHANGED remote
  /\ UNCHANGED <<hungUp, rows, stored, req>>

\* How an answer of the authorization server is read.  It refuses with access_denied
\* when the user denied and with expired_token when the code has expired;
\* pollTerminalCode does not tell them apart.
Reply == [approved |-> {"code"}, refused |-> {"denied"}, pending |-> {"pending", "slow_down"}]

\* What one poll may return: that, or the failure of the call.
PollOnce(f) == {"failed"} \cup Reply[remote[f]]

\* How PollUntilCode reports an error of PollOnce: the caller's context first, then
\* the poll deadline, then the error itself.
PollError(f, code) ==
  SendError(f, IF hungUp[f] THEN "CANCELLED"
               ELSE IF flow[f].left = 0 THEN "TIMEOUT" ELSE code)

\* The loop returns with the code, and its deadline is released.
PollApproved(f) ==
  /\ FlowAt(f, "poll") /\ "code" \in PollOnce(f)
  /\ flow' = [flow EXCEPT ![f].pc = "exchange", ![f].interval = 1, ![f].left = PollTimeout]
  /\ UNCHANGED <<answer, server>>

PollPending(f) ==
  /\ FlowAt(f, "poll")
  /\ \/ "pending" \in PollOnce(f) /\ Proceed(f, "wait")
     \/ /\ "slow_down" \in PollOnce(f)
        /\ flow' = [flow EXCEPT ![f].pc = "wait", ![f].interval = @ + 1]
  /\ UNCHANGED <<answer, server>>

PollDenied(f) ==
  /\ FlowAt(f, "poll") /\ "denied" \in PollOnce(f)
  /\ PollError(f, "ACCESS_DENIED")
  /\ UNCHANGED server

PollFails(f) ==
  /\ FlowAt(f, "poll") /\ "failed" \in PollOnce(f)
  /\ \E code \in {"INTERNAL", "TIMEOUT"} : PollError(f, code)
  /\ UNCHANGED server

\* The select between two polls: the interval, the deadline and the caller's context
\* race; the deadline is that of the whole loop.
WaitTimer(f) ==
  /\ FlowAt(f, "wait") /\ flow[f].interval <= flow[f].left
  /\ flow' = [flow EXCEPT ![f].pc = "poll", ![f].left = @ - flow[f].interval]
  /\ UNCHANGED <<answer, server>>

\* Variant: the deadline is reported before it has come.
WaitDeadlineEarly(f) ==
  /\ FlowAt(f, "wait")
  /\ SendError(f, IF hungUp[f] THEN "CANCELLED" ELSE "TIMEOUT")
  /\ UNCHANGED server

WaitDeadline(f) ==
  /\ FlowAt(f, "wait") /\ flow[f].left <= flow[f].interval
  /\ SendError(f, IF hungUp[f] THEN "CANCELLED" ELSE "TIMEOUT")
  /\ UNCHANGED server

WaitCancelled(f) ==
  /\ FlowAt(f, "wait") /\ hungUp[f]
  /\ SendError(f, "CANCELLED")
  /\ UNCHANGED server

\* ExchangeCode is bounded by the stream's context only.  The approval may have lapsed
\* since the poll, which pollTerminalCode reads like a denial.
ExchangeCode(f) ==
  /\ FlowAt(f, "exchange")
  /\ \/ remote[f] = "approved" /\ Proceed(f, "store") /\ UNCHANGED answer
     \/ remote[f] = "refused" /\ SendError(f, "ACCESS_DENIED")
     \/ CallFails(f)
  /\ UNCHANGED server

-----------------------------------------------------------------------------
(* The credentials table.                                                   *)

\* upsertChatGPT: REPLACE writes every column of the row.
ChatGPTRow(old, f) == [mode |-> "chatgpt", provider |-> "openai", key |-> None, token |-> f]

Write(f) ==
  /\ rows' = [rows EXCEPT ![flow[f].jid] = ChatGPTRow(@, f)]
  /\ stored' = stored \cup {f}

\* UpsertChatGPTCredential refuses tokens that are incomplete or already expired.  A
\* statement whose connection breaks may or may not have been applied.
UpsertChatGPTCredential(f) ==
  /\ FlowAt(f, "store")
  /\ \/ Write(f) /\ Proceed(f, "success") /\ UNCHANGED answer
     \/ SendError(f, "INTERNAL") /\ (Write(f) \/ UNCHANGED <<rows, stored>>)
  /\ UNCHANGED <<remote, hungUp, req>>

SendSuccess(f) ==
  /\ FlowAt(f, "success")
  /\ HandlerReturns(f) /\ Told(f, "SUCCESS")
  /\ UNCHANGED server

-----------------------------------------------------------------------------
(* The credential proxy.                                                    *)

Cred(owner, p, upstream) == [owner |-> owner, provider |-> p, upstream |-> upstream]

\* The platform key for the provider asked for; without one asked for, Anthropic's
\* before OpenAI's.
Fallback(want) ==
  LET choice == IF want # None THEN want
                ELSE IF "anthropic" \in Platform THEN "anthropic" ELSE "openai"
  IN  IF choice \in Platform THEN Cred("platform", choice, choice) ELSE None

\* Variant: the group's credential is used for whatever provider is asked for.
ResolvedUnmatched(g, want) ==
  LET row == rows[g]
  IN  IF row.mode = None THEN Fallback(want)
      ELSE IF row.mode = "chatgpt" THEN Cred(row.token, "openai", "codex")
      ELSE Cred(g, row.provider, row.provider)

\* Resolve: the group's own credential if it is for the provider asked for.
Resolved(g, want) ==
  LET row == rows[g]
  IN  IF row.mode = None \/ (want # None /\ row.provider # want) THEN Fallback(want)
      ELSE IF row.mode = "chatgpt" THEN Cred(row.token, "openai", "codex")
      ELSE Cred(g, row.provider, row.provider)

\* GetCredential fails on a row that lacks what its mode needs.
HasTokens(row) == row.token # None
HasKey(row) == row.key # None
GetCredential(g) ==
  /\ rows[g].mode = "api_key" => HasKey(rows[g])
  /\ rows[g].mode = "chatgpt" => HasTokens(rows[g])

\* credentialMiddleware: the credential stays with the request from here on; a
\* request without one is refused.
Resolve(r, g, want) ==
  /\ req[r] = None
  /\ GetCredential(g) /\ Resolved(g, want) # None
  /\ req' = [req EXCEPT ![r] = [jid |-> g, want |-> want, cred |-> Resolved(g, want)]]
  /\ UNCHANGED <<flow, remote, hungUp, answer, rows, stored>>

\* The reverse proxy rewrites the request and sends it upstream.
Forward(r) ==
  /\ req[r] # None
  /\ req' = [req EXCEPT ![r] = None]
  /\ UNCHANGED <<flow, remote, hungUp, answer, rows, stored>>

-----------------------------------------------------------------------------
(* The user, the authorization server and the client.                       *)

\* The user decides, or the code expires; an approval is good until it is exchanged.
\* A decision after the stream has ended reaches nobody.
Decide(f) ==
  /\ \/ remote[f] = "pending" /\ ~FlowAt(f, "done")
        /\ \E d \in {"approved", "refused"} : remote' = [remote EXCEPT ![f] = d]
     \/ remote[f] = "approved" /\ flow[f].pc \in {"poll", "wait", "exchange"}
        /\ remote' = [remote EXCEPT ![f] = "refused"]
  /\ UNCHANGED <<flow, hungUp, answer, rows, stored, req>>

ClientLeaves(f) ==
  /\ ~hungUp[f] /\ flow[f].pc \notin {"idle", "done"}
  /\ hungUp' = [hungUp EXCEPT ![f] = TRUE]
  /\ UNCHANGED <<flow, remote, answer, rows, stored, req>>

Handler(f) ==
  \/ RequestDeviceCode(f) \/ PollApproved(f) \/ PollPending(f) \/ PollDenied(f) \/ PollFails(f)
  \/ WaitTimer(f) \/ WaitDeadline(f) \/ WaitCancelled(f)
  \/ ExchangeCode(f) \/ UpsertChatGPTCredential(f) \/ SendSuccess(f)

Proxy(r) ==
  \/ \E g \in Groups, want \in Providers \cup {None} : Resolve(r, g, want)
  \/ Forward(r)

SignInNext ==
  \/ \E f \in Flows, g \in Groups \cup {None}, p \in Providers : Start(f, g, p)
  \/ \E f \in Flows : Handler(f) \/ Decide(f) \/ ClientLeaves(f)
  \/ \E r \in Requests : Proxy(r)

\* Every call of the handler returns or is cut off by its timeout, and timers fire.
SignInSpec == SignInInit /\ [][SignInNext]_signin /\ \A f \in Flows : WF_signin(Handler(f))

-----------------------------------------------------------------------------
(* Properties.                                                              *)

SignInTypeOK ==
  /\ \A f \in Flows :
       /\ flow[f].pc \in {"idle", "code", "poll", "wait", "exchange", "store", "success", "done"}
       /\ flow[f].left \in 0..PollTimeout /\ flow[f].jid \in Groups \cup {None}
       /\ remote[f] \in {"none", "pending", "approved", "refused"}
  /\ stored \subseteq Flows

\* What the client is told is so when it is told: success only for tokens the user
\* approved and the table held, ACCESS_DENIED only when the user denied or the code has
\* expired (both read alike, in the poll and in the exchange), a timeout only when the
\* deadline of the whole poll loop has come or a call was in flight; and a sign-in
\* reported as anything but success or an internal error has left nothing in the table.
HonestAnswer ==
  [][\A f \in Flows : answer'[f] # answer[f] =>
       /\ answer'[f] = "SUCCESS" => remote[f] = "approved" /\ f \in stored
       /\ answer'[f] = "ACCESS_DENIED" => remote[f] = "refused"
       /\ answer'[f] = "TIMEOUT" =>
            flow[f].left <= flow[f].interval \/ flow[f].pc \in {"code", "poll", "exchange"}
       /\ answer'[f] \notin {"SUCCESS", "INTERNAL", "unheard"} => f \notin stored'
    ]_signin

\* Whatever a row replaces, GetCredential can read it, and it holds no secret of the
\* mode it replaced.
RowsReadable ==
  \A g \in Groups :
    /\ GetCredential(g)
    /\ rows[g].mode = "chatgpt" => ~HasKey(rows[g])
    /\ rows[g].mode = "api_key" => ~HasTokens(rows[g])

\* A request carries a credential of its own group or of the platform, to the
\* upstream that credential is for, and to the provider it asked for, however the
\* row has changed since the credential was looked up.
RequestsKeepTheirOwn ==
  \A r \in Requests :
    req[r] # None =>
      LET c == req[r].cred
      IN  /\ req[r].want # None => c.provider = req[r].want
          /\ c.owner \in Flows =>
               flow[c.owner].jid = req[r].jid /\ c.upstream = "codex" /\ c.provider = "openai"
          /\ c.owner \notin Flows =>
               c.owner \in {"platform", req[r].jid} /\ c.upstream = c.provider

=============================================================================
