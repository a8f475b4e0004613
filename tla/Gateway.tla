------------------------------- MODULE Gateway -------------------------------
(***************************************************************************)
(* The streams of the gRPC server and how the process goes down.  A        *)
(* StreamInbound handler subscribes to the TUI channel                     *)
(* (internal/channel/tui), a StreamEvents handler to the event hub         *)
(* (internal/server/event_hub.go); both have a bounded buffer that the     *)
(* publisher never waits for.  cmd/kraclaw/main.go stops the server, then  *)
(* the orchestrator, which disconnects the channels, then the proxy.       *)
(*                                                                         *)
(* A message is its number; a handler is inside Send until the transport   *)
(* has taken the message, which a slow client may put off for ever.        *)
(***************************************************************************)
EXTENDS Naturals, Sequences, Functions

CONSTANTS
  Inbound,    \* StreamInbound calls, each made once
  Events,     \* StreamEvents calls, each made once
  Cap,        \* the size of a subscriber's buffer (64)
  MaxMsgs     \* bound: messages, and events, published

Streams == Inbound \cup Events
Kind(s) == IF s \in Inbound THEN "message" ELSE "event"

VARIABLES
  ctx,        \* the root context is cancelled
  main,       \* where main() is
  grpc,       \* the gRPC server
  handler,    \* progress of each handler
  gone,       \* streams whose client has left
  subs,       \* the channel's and the hub's subscribers
  closed,     \* subscriber channels that have been closed
  buf,        \* what each subscriber channel holds
  got,        \* what each handler has taken to send
  since,      \* the last message published before the subscription
  missed,     \* messages dropped because a buffer was full
  connected,  \* the TUI channel is connected
  msgs,       \* messages and events published
  panicked    \* a closed channel was sent to or closed again

process == <<ctx, main, grpc, connected>>
channels == <<subs, closed, buf, missed, msgs, panicked>>
streams == <<handler, gone, got, since>>
vars == <<process, channels, streams>>

Init ==
  /\ ctx = FALSE /\ main = "starting" /\ grpc = "off"
  /\ handler = [s \in Streams |-> "idle"] /\ gone = {}
  /\ subs = {} /\ closed = {} /\ buf = [s \in Streams |-> <<>>]
  /\ got = [s \in Streams |-> <<>>] /\ since = [s \in Streams |-> 0]
  /\ missed = [s \in Streams |-> {}]
  /\ connected = TRUE /\ panicked = FALSE
  /\ msgs = [k \in {"message", "event"} |-> 0]

-----------------------------------------------------------------------------
(* main().                                                                  *)

\* A signal, or the monitor of an orchestrator or proxy that died, cancels.
Cancel ==
  /\ ~ctx /\ ctx' = TRUE
  /\ UNCHANGED <<main, grpc, connected, channels, streams>>

Serve ==
  /\ main = "starting"
  /\ main' = "serving" /\ grpc' = "serving"
  /\ UNCHANGED <<ctx, connected, channels, streams>>

\* Start returns on cancellation or because a listener failed; Stop begins with
\* GracefulStop, which refuses new calls and waits for those in progress.
GracefulStop ==
  /\ main = "serving"
  /\ main' = "stopping" /\ grpc' = "draining"
  /\ UNCHANGED <<ctx, connected, channels, streams>>

\* Variant: Stop waits for GracefulStop without a timeout.
ForceStopNever ==
  /\ main = "stopping" /\ grpc = "draining" /\ \A s \in Streams : handler[s] \in {"idle", "ended"}
  /\ grpc' = "stopped"
  /\ UNCHANGED <<ctx, main, connected, channels, streams>>

\* After grpcStopTimeout the hard Stop cancels what is still running.
ForceStop ==
  /\ main = "stopping" /\ grpc = "draining"
  /\ grpc' = "stopped"
  /\ UNCHANGED <<ctx, main, connected, channels, streams>>

\* GracefulStop has returned: no handler is running.
Drained ==
  /\ main = "stopping" /\ \A s \in Streams : handler[s] \in {"idle", "ended"}
  /\ main' = "drained" /\ grpc' = "stopped"
  /\ UNCHANGED <<ctx, connected, channels, streams>>

\* Orchestrator.Stop disconnects the TUI channel: its subscribers are closed and
\* forgotten.
Disconnect ==
  /\ connected' = FALSE
  /\ panicked' = (panicked \/ subs \cap Inbound \cap closed # {})
  /\ closed' = closed \cup (subs \cap Inbound)
  /\ subs' = subs \ Inbound

StopOrchestrator ==
  /\ main = "drained" /\ main' = "exit"
  /\ Disconnect
  /\ UNCHANGED <<ctx, grpc, buf, missed, msgs, streams>>

-----------------------------------------------------------------------------
(* Publishers: RouteOutbound through the connected channel, and the watch of *)
(* sandbox events, which may end at any time and is not opened again.        *)

\* Variant: a full buffer loses its oldest message.
PublishDropsOldest(kind) ==
  LET n == msgs[kind] + 1
      to == {s \in subs : Kind(s) = kind}
      kept(s) == IF Len(buf[s]) = Cap THEN Tail(buf[s]) ELSE buf[s]
  IN  /\ n <= MaxMsgs /\ msgs' = [msgs EXCEPT ![kind] = n]
      /\ buf' = [s \in Streams |-> IF s \in to THEN Append(kept(s), n) ELSE buf[s]]
      /\ UNCHANGED <<subs, closed, missed, panicked>>

Publish(kind) ==
  LET n == msgs[kind] + 1
      to == {s \in subs : Kind(s) = kind}
      room == {s \in to : Len(buf[s]) < Cap}
  IN  /\ n <= MaxMsgs /\ msgs' = [msgs EXCEPT ![kind] = n]
      /\ buf' = [s \in Streams |-> IF s \in room THEN Append(buf[s], n) ELSE buf[s]]
      /\ missed' = [s \in Streams |-> IF s \in to \ room THEN missed[s] \cup {n} ELSE missed[s]]
      /\ panicked' = (panicked \/ to \cap closed # {})
      /\ UNCHANGED <<subs, closed>>

RouteOutbound ==
  /\ connected /\ Publish("message")
  /\ UNCHANGED <<process, streams>>

\* The select may take an event although the context is done as well.
PublishEvent ==
  /\ main # "exit" /\ Publish("event")
  /\ UNCHANGED <<process, streams>>

-----------------------------------------------------------------------------
(* Handlers.                                                                *)

Done(s) == s \in gone \/ grpc = "stopped"
Goto(s, pc) == handler' = [handler EXCEPT ![s] = pc]

Leave(s) ==
  /\ handler[s] # "idle" /\ s \notin gone
  /\ gone' = gone \cup {s}
  /\ UNCHANGED <<process, channels, handler, got, since>>

Subscribe(s) ==
  /\ grpc = "serving" /\ handler[s] = "idle"
  /\ Goto(s, "receiving")
  /\ subs' = subs \cup {s} /\ since' = [since EXCEPT ![s] = msgs[Kind(s)]]
  /\ UNCHANGED <<process, closed, buf, missed, msgs, panicked, gone, got>>

\* The select takes whichever case is ready.
Receive(s) ==
  /\ handler[s] = "receiving" /\ buf[s] # <<>>
  /\ Goto(s, "sending")
  /\ got' = [got EXCEPT ![s] = Append(@, Head(buf[s]))]
  /\ buf' = [buf EXCEPT ![s] = Tail(@)]
  /\ UNCHANGED <<process, subs, closed, missed, msgs, panicked, gone, since>>

ReceiveDone(s) ==
  /\ handler[s] = "receiving"
  /\ Done(s) \/ (s \in closed /\ buf[s] = <<>>)
  /\ Goto(s, "returning")
  /\ UNCHANGED <<process, channels, gone, got, since>>

\* Send returns when the transport takes the message, or with the stream's error.
Sent(s) ==
  /\ handler[s] = "sending"
  /\ Goto(s, "receiving")
  /\ UNCHANGED <<process, channels, gone, got, since>>

SendFails(s) ==
  /\ handler[s] = "sending" /\ Done(s)
  /\ Goto(s, "returning")
  /\ UNCHANGED <<process, channels, gone, got, since>>

\* The deferred unsubscribe closes the channel only if it still finds it.
Unsubscribe(s) ==
  /\ handler[s] = "returning"
  /\ Goto(s, "ended")
  /\ subs' = subs \ {s}
  /\ closed' = IF s \in subs THEN closed \cup {s} ELSE closed
  /\ panicked' = (panicked \/ (s \in subs /\ s \in closed))
  /\ UNCHANGED <<process, buf, missed, msgs, gone, got, since>>

-----------------------------------------------------------------------------
Shutdown == Serve \/ (ctx /\ GracefulStop) \/ ForceStop \/ Drained \/ StopOrchestrator
Step(s) == Receive(s) \/ ReceiveDone(s) \/ SendFails(s) \/ Unsubscribe(s)

Next ==
  \/ Cancel \/ Serve \/ GracefulStop \/ ForceStop \/ Drained \/ StopOrchestrator
  \/ RouteOutbound \/ PublishEvent
  \/ \E s \in Streams : Leave(s) \/ Subscribe(s) \/ Sent(s) \/ Step(s)

\* main and the timer of Stop run on, and so does a handler that is not held up by
\* its client; nothing makes a client read.
Spec ==
  /\ Init /\ [][Next]_vars
  /\ WF_vars(Shutdown) /\ \A s \in Streams : WF_vars(Step(s))

-----------------------------------------------------------------------------
(* Properties.                                                              *)

TypeOK ==
  /\ handler \in [Streams -> {"idle", "receiving", "sending", "returning", "ended"}]
  /\ subs \subseteq Streams /\ closed \subseteq Streams /\ gone \subseteq Streams
  /\ main \in {"starting", "serving", "stopping", "drained", "exit"}
  /\ \A s \in Streams : Len(buf[s]) <= Cap

\* No subscriber channel is closed twice or sent to after it was closed, in any
\* order of publishers, leaving clients and the shutdown: both panic in Go.
ClosedOnce == ~panicked

\* A subscribed stream carries all that was published since it subscribed, in that
\* order and once, except what was dropped while its own buffer was full.
StreamsInOrder ==
  \A s \in subs :
    LET seen == got[s] \o buf[s]
    IN  /\ Range(seen) = ((since[s] + 1)..msgs[Kind(s)]) \ missed[s]
        /\ \A i, j \in 1..Len(seen) : i < j => seen[i] < seen[j]

\* Once the context is cancelled the process exits, even if a client never reads.
ShutdownCompletes == []<>(ctx => main = "exit")

=============================================================================
