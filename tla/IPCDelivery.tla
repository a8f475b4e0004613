---------------------------- MODULE IPCDelivery ----------------------------
(***************************************************************************)
(* Delivery of IPC messages from a durable JetStream consumer to the Go    *)
(* code that reads them.  One durable consumer (the server's               *)
(* "kraclaw-server-<group>", or an agent's "agent-<id>") is drained, over  *)
(* time and also at the same time, by several subscriptions: each is the   *)
(* goroutine of NATSBroker.consume, or of IPCClient.startReadInput, which  *)
(* moves messages from a pull iterator into a bounded channel and          *)
(* acknowledges a message once it is in the channel.                       *)
(*                                                                         *)
(* JetStream itself is external: messages are numbered by their place in   *)
(* the stream, new ones are delivered in order, a delivered message is     *)
(* held back from other deliveries until it is acknowledged, refused (NAK) *)
(* or its AckWait expires.                                                 *)
(***************************************************************************)
EXTENDS Naturals, Sequences, Functions

CONSTANTS
    Subs,         \* subscriptions: calls of consume / startReadInput
    None,         \* no message, no subscription
    MaxMessages,  \* bound on published messages
    Capacity,     \* of the channel (64 in the code)
    MaxFaults     \* bound on failing calls, early expiries and crashes

Messages == 1..MaxMessages

ASSUME DeliveryAssumption ==
    /\ MaxMessages \in Nat /\ MaxFaults \in Nat
    /\ Capacity \in Nat \ {0}
    /\ None \notin Subs /\ None \notin Messages

VARIABLES
    broker,     \* which of the two this is: TRUE for NATSBroker.consume
    bad,        \* the messages whose JSON does not parse
    published,  \* messages 1..published are in the stream
    delivered,  \* messages 1..delivered were delivered at least once
    acked,      \* acknowledged messages
    holder,     \* the subscription a message is outstanding with, or None
    sub,        \* the subscriptions
    cleanups,   \* b.cleanups: the subscriptions Close will stop
    closed,     \* b.closed and closedCh
    received,   \* messages a reader has taken from its channel
    lost,       \* acknowledged messages that were in the channel of a process that died
    faults
vars == <<broker, bad, published, delivered, acked, holder, sub, cleanups, closed, received, lost, faults>>
jetstream == <<broker, bad, published, delivered>>

Idle == [pc |-> "idle", buf |-> <<>>, msg |-> None, ch |-> <<>>, err |-> FALSE,
         cancelled |-> FALSE, stopped |-> FALSE, reader |-> FALSE]

Init ==
    /\ broker \in BOOLEAN /\ bad \in SUBSET Messages
    /\ published = 0
    /\ delivered = 0
    /\ acked = {}
    /\ holder = [m \in Messages |-> None]
    /\ sub = [s \in Subs |-> Idle]
    /\ cleanups = {}
    /\ closed = FALSE
    /\ received = {}
    /\ lost = {}
    /\ faults = 0

Fails == faults < MaxFaults /\ faults' = faults + 1
Running(s) == sub[s].pc \notin {"idle", "done"}
InChannel(s) == Range(sub[s].ch)

----------------------------------------------------------------------------
(* JetStream. *)

(* SendInput, PublishOutput, SendOutput: one more message in the stream. *)
Publish ==
    /\ published < MaxMessages
    /\ published' = published + 1
    /\ UNCHANGED <<broker, bad, delivered, acked, holder, sub, cleanups, closed, received, lost, faults>>

(* The next new message, or one whose acknowledgement is overdue or refused. *)
Deliverable ==
    {m \in 1..published : holder[m] = None /\ m \notin acked /\ m <= delivered + 1}

(* The server answers the iterator's pull request. *)
Deliver(s) ==
    /\ Running(s) /\ ~sub[s].stopped
    /\ \E m \in Deliverable :
         /\ holder' = [holder EXCEPT ![m] = s]
         /\ sub' = [sub EXCEPT ![s].buf = Append(@, m)]
         /\ delivered' = IF m > delivered THEN m ELSE delivered
    /\ UNCHANGED <<broker, bad, published, acked, cleanups, closed, received, lost, faults>>

(* AckWait expires on a message nobody will acknowledge any more. *)
Expire(m) ==
    /\ holder[m] # None /\ ~Running(holder[m])
    /\ holder' = [holder EXCEPT ![m] = None]
    /\ UNCHANGED <<jetstream, acked, sub, cleanups, closed, received, lost, faults>>

(* AckWait expires while the subscription still has the message: its channel is full. *)
ExpireEarly(m) ==
    /\ holder[m] # None /\ Running(holder[m])
    /\ Fails
    /\ holder' = [holder EXCEPT ![m] = None]
    /\ UNCHANGED <<jetstream, acked, sub, cleanups, closed, received, lost>>

(* The server's side of Ack and Nak. *)
Acknowledge(m) == acked' = acked \cup {m} /\ holder' = [holder EXCEPT ![m] = None]
Refuse(s, m) ==
    /\ holder' = IF holder[m] = s THEN [holder EXCEPT ![m] = None] ELSE holder
    /\ UNCHANGED acked

----------------------------------------------------------------------------
(* The subscription. *)

(* consume up to b.mu.Lock(): the iterator exists, the subscription is not registered. *)
Subscribe(s) ==
    /\ sub[s].pc = "idle"
    /\ sub' = [sub EXCEPT ![s] = [Idle EXCEPT !.pc = "register", !.reader = TRUE]]
    /\ UNCHANGED <<jetstream, acked, holder, cleanups, closed, received, lost, faults>>

(* The critical section: a closed broker takes no new subscription. *)
Register(s) ==
    /\ sub[s].pc = "register"
    /\ IF closed
       THEN /\ sub' = [sub EXCEPT ![s].pc = "done", ![s].stopped = TRUE,
                                  ![s].cancelled = TRUE, ![s].reader = FALSE]
            /\ UNCHANGED cleanups
       ELSE /\ sub' = [sub EXCEPT ![s].pc = "loop"]
            /\ cleanups' = cleanups \cup {s}
    /\ UNCHANGED <<jetstream, acked, holder, closed, received, lost, faults>>

(* The deferred calls: stop the iterator, cancel, close the channel, leave cleanups. *)
Exit(s, err) ==
    /\ sub' = [sub EXCEPT ![s].pc = "done", ![s].stopped = TRUE, ![s].cancelled = TRUE,
                          ![s].msg = None, ![s].err = err]
    /\ cleanups' = cleanups \ {s}

(* The select at the top of the loop. *)
Loop(s) ==
    /\ sub[s].pc = "loop"
    /\ IF sub[s].cancelled \/ closed
       THEN Exit(s, FALSE)
       ELSE sub' = [sub EXCEPT ![s].pc = "next"] /\ UNCHANGED cleanups
    /\ UNCHANGED <<jetstream, acked, holder, closed, received, lost, faults>>

(* The helper goroutine: a cancelled context stops the iterator. *)
Stopper(s) ==
    /\ Running(s) /\ sub[s].cancelled /\ ~sub[s].stopped
    /\ sub' = [sub EXCEPT ![s].stopped = TRUE]
    /\ UNCHANGED <<jetstream, acked, holder, cleanups, closed, received, lost, faults>>

(* iter.Next returns a message that parses. *)
NextMessage(s) ==
    /\ sub[s].pc = "next" /\ sub[s].buf # <<>>
    /\ Head(sub[s].buf) \notin bad
    /\ sub' = [sub EXCEPT ![s].pc = "push", ![s].msg = Head(sub[s].buf), ![s].buf = Tail(@)]
    /\ UNCHANGED <<jetstream, acked, holder, cleanups, closed, received, lost, faults>>

(* iter.Next returns a message that does not: it is acknowledged unread; a failed
   acknowledgement is logged and leaves the message outstanding. *)
NextMalformed(s) ==
    /\ sub[s].pc = "next" /\ sub[s].buf # <<>>
    /\ Head(sub[s].buf) \in bad
    /\ sub' = [sub EXCEPT ![s].pc = "loop", ![s].buf = Tail(@)]
    /\ \/ Acknowledge(Head(sub[s].buf)) /\ UNCHANGED faults
       \/ Fails /\ UNCHANGED <<acked, holder>>
    /\ UNCHANGED <<jetstream, cleanups, closed, received, lost>>

(* iter.Next returns an error: the iterator was stopped, or the consumer failed. *)
NextError(s) ==
    /\ sub[s].pc = "next"
    /\ (sub[s].stopped /\ UNCHANGED faults) \/ Fails
    /\ Exit(s, ~sub[s].cancelled)
    /\ UNCHANGED <<jetstream, acked, holder, closed, received, lost>>

(* The channel has room: the message is handed to the reader. *)
Push(s) ==
    /\ sub[s].pc = "push" /\ Len(sub[s].ch) < Capacity
    /\ sub' = [sub EXCEPT ![s].pc = "ack", ![s].ch = Append(@, sub[s].msg)]
    /\ UNCHANGED <<jetstream, acked, holder, cleanups, closed, received, lost, faults>>

(* A form that acknowledges the message it drops. *)
AbortAcks(s) ==
    /\ sub[s].pc = "push" /\ (sub[s].cancelled \/ closed)
    /\ Acknowledge(sub[s].msg) /\ UNCHANGED faults
    /\ Exit(s, FALSE)
    /\ UNCHANGED <<jetstream, closed, received, lost>>

(* A form that does not notice a Close. *)
AbortUnclosed(s) ==
    /\ sub[s].pc = "push" /\ sub[s].cancelled /\ ~closed
    /\ Refuse(s, sub[s].msg) /\ UNCHANGED faults
    /\ Exit(s, FALSE)
    /\ UNCHANGED <<jetstream, closed, received, lost>>

(* A form that does not notice that the reader has left. *)
AbortBlocked(s) ==
    /\ sub[s].pc = "push" /\ closed
    /\ Refuse(s, sub[s].msg) /\ UNCHANGED faults
    /\ Exit(s, FALSE)
    /\ UNCHANGED <<jetstream, closed, received, lost>>

(* ctx.Done or closedCh wins the select: the message is refused and left to others. *)
Abort(s) ==
    /\ sub[s].pc = "push" /\ (sub[s].cancelled \/ closed)
    /\ \/ Refuse(s, sub[s].msg) /\ UNCHANGED faults
       \/ Fails /\ UNCHANGED <<acked, holder>>
    /\ Exit(s, FALSE)
    /\ UNCHANGED <<jetstream, closed, received, lost>>

(* jmsg.Ack() after the push. *)
Ack(s) ==
    /\ sub[s].pc = "ack"
    /\ Acknowledge(sub[s].msg)
    /\ sub' = [sub EXCEPT ![s].pc = "loop", ![s].msg = None]
    /\ UNCHANGED <<jetstream, cleanups, closed, received, lost, faults>>

(* It fails: the broker refuses the message and closes the channel without an error,
   the agent's client reports the error; the message is already in the channel. *)
AckFails(s) ==
    /\ sub[s].pc = "ack"
    /\ Fails
    /\ (broker /\ Refuse(s, sub[s].msg)) \/ UNCHANGED <<acked, holder>>
    /\ Exit(s, ~broker)
    /\ UNCHANGED <<jetstream, closed, received, lost>>

----------------------------------------------------------------------------
(* The reader of the channel: watchGroupOutput, StreamSandboxOutput, an agent's handler. *)

Receive(s) ==
    /\ sub[s].reader /\ sub[s].ch # <<>>
    /\ received' = received \cup {Head(sub[s].ch)}
    /\ sub' = [sub EXCEPT ![s].ch = Tail(@)]
    /\ UNCHANGED <<jetstream, acked, holder, cleanups, closed, lost, faults>>

(* It returns, which cancels the context; what is left in the channel is not read. *)
Leave(s) ==
    /\ sub[s].reader /\ sub[s].pc # "register"
    /\ sub' = [sub EXCEPT ![s].reader = FALSE, ![s].cancelled = TRUE]
    /\ UNCHANGED <<jetstream, acked, holder, cleanups, closed, received, lost, faults>>

(* The process dies: reader, channel and iterator go at once, and with the channel what
   has been acknowledged and not yet read. *)
Crash(s) ==
    /\ Running(s) \/ sub[s].reader
    /\ Fails
    /\ sub' = [sub EXCEPT ![s].pc = "done", ![s].stopped = TRUE, ![s].cancelled = TRUE,
                          ![s].msg = None, ![s].ch = <<>>, ![s].reader = FALSE]
    /\ lost' = lost \cup (InChannel(s) \cap acked)
    /\ cleanups' = cleanups \ {s}
    /\ UNCHANGED <<jetstream, acked, holder, closed, received>>

----------------------------------------------------------------------------
(* NATSBroker.Close: every registered subscription is cancelled and its iterator stopped. *)
Close ==
    /\ broker /\ ~closed
    /\ closed' = TRUE
    /\ sub' = [s \in Subs |-> IF s \in cleanups
                              THEN [sub[s] EXCEPT !.cancelled = TRUE, !.stopped = TRUE]
                              ELSE sub[s]]
    /\ cleanups' = {}
    /\ UNCHANGED <<jetstream, acked, holder, received, lost, faults>>

Goroutine(s) ==
    \/ Register(s) \/ Loop(s) \/ NextMessage(s) \/ NextMalformed(s) \/ NextError(s)
    \/ Push(s) \/ Abort(s) \/ Ack(s) \/ AckFails(s)

Next ==
    \/ Publish
    \/ \E s \in Subs :
          \/ Deliver(s) \/ Subscribe(s) \/ Goroutine(s) \/ Stopper(s)
          \/ Receive(s) \/ Leave(s) \/ Crash(s)
    \/ \E m \in Messages : Expire(m) \/ ExpireEarly(m)
    \/ Close

(* A running goroutine steps, JetStream answers pulls and lets AckWait expire, a reader
   takes what is in its channel.  Nobody is bound to publish, subscribe, leave or close. *)
Fairness ==
    /\ \A s \in Subs : WF_vars(Goroutine(s)) /\ WF_vars(Stopper(s)) /\ WF_vars(Receive(s))
                       /\ WF_vars(Deliver(s))
    /\ \A m \in Messages : WF_vars(Expire(m))

Spec == Init /\ [][Next]_vars
FairSpec == Spec /\ Fairness

----------------------------------------------------------------------------
(* Properties. *)

SubState == [pc : {"idle", "register", "loop", "next", "push", "ack", "done"},
             buf : Seq(Messages), msg : Messages \cup {None}, ch : Seq(Messages),
             err : BOOLEAN, cancelled : BOOLEAN, stopped : BOOLEAN, reader : BOOLEAN]

(* Types; a channel is never fuller than its capacity. *)
TypeOK ==
    /\ broker \in BOOLEAN /\ bad \subseteq Messages
    /\ published \in 0..MaxMessages /\ delivered \in 0..published
    /\ acked \subseteq Messages
    /\ holder \in [Messages -> Subs \cup {None}]
    /\ sub \in [Subs -> SubState]
    /\ \A s \in Subs : Len(sub[s].ch) <= Capacity
    /\ cleanups \subseteq Subs
    /\ closed \in BOOLEAN
    /\ received \subseteq Messages /\ lost \subseteq acked
    /\ faults \in 0..MaxFaults

(* consume and startReadInput acknowledge a well-formed message only once it is in the
   channel: whatever is cancelled, closed, expired or crashes in between, a message
   JetStream will not deliver again has reached a reader, is in a channel (which its
   reader may have left), or was in the channel of a process when that died: the
   acknowledgement says that a message was queued, not that it was handled. *)
AckedReached ==
    \A m \in acked \ bad :
        m \in received \cup lost \/ \E s \in Subs : m \in InChannel(s)

(* A registered subscription is one Close will stop: as long as the broker is open every
   goroutine past the critical section of consume is in cleanups, and when it has closed
   every such goroutine has been cancelled. *)
CloseReachesAll ==
    \A s \in Subs : sub[s].pc \in {"loop", "next", "push", "ack"} =>
        IF closed THEN sub[s].cancelled ELSE s \in cleanups

(* After NATSBroker.Close every consumer goroutine ends, also one blocked on a full
   channel nobody reads or inside iter.Next on an empty stream. *)
CloseEnds == closed ~> \A s \in Subs : ~Running(s)

(* A published well-formed message reaches a channel or a reader unless the consumer is
   left without a running subscription; NAKs, failed acknowledgements, cancellations and
   crashes before the acknowledgement only delay it.  A crash after it loses the message
   that has not been read: this is not at-least-once. *)
EventuallyDelivered ==
    \A m \in Messages :
        m <= published ~> \/ m \in bad \cup received \cup lost \/ \E s \in Subs : m \in InChannel(s)
                          \/ \A s \in Subs : ~Running(s)
=============================================================================
