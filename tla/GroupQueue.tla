----------------------------- MODULE GroupQueue -----------------------------
(***************************************************************************)
(* The work queue of one group: NATSQueue of internal/queue/nats_queue.go  *)
(* with its caches of streams and consumers, the scheduler that fills it,  *)
(* and the drain at the end of watchGroupOutput, which takes one message   *)
(* and puts it back when no sandbox comes of it.  JetStream is external:   *)
(* a work-queue stream gives each message to one caller, keeps it until it *)
(* is acknowledged, and offers it again when AckWait has passed; a pull    *)
(* for a consumer that is gone answers ErrNoResponders.  It keeps no order *)
(* here: what is offered again overtakes or is overtaken.                  *)
(***************************************************************************)
EXTENDS Naturals, FiniteSets

CONSTANTS
  Prompts,        \* messages
  Malformed,      \* those whose payload does not decode
  Producers,      \* goroutines that enqueue
  Drains,         \* goroutines that drain
  Retries,        \* maxMalformedRetries (5)
  MaxTroubles     \* bound: lost streams, failing calls, lost replies, restarts

\* There are finitely many goroutines.
ASSUME QueueAssumption == IsFiniteSet(Producers) /\ IsFiniteSet(Drains)

VARIABLES
  present,    \* the stream exists
  stream,     \* messages in the stream with their sequence numbers
  durable,    \* the durable consumer exists
  out,        \* numbers of messages delivered and not yet acknowledged
  streams,    \* the group is in q.streams
  consumers,  \* the group is in q.consumers
  call,       \* the callers
  taken,      \* messages accepted by Enqueue
  spent,      \* how often a message has started a sandbox
  excess,     \* how often it has been offered again, its publication doubted, or put
              \* back by a launch that had created its sandbox
  gone,       \* messages lost with the stream, with a crash, or when put back
  troubles

natsq == <<present, stream, durable, out>>
work == <<natsq, streams, consumers, call, taken, spent, excess, gone, troubles>>

Callers == Producers \cup Drains
AtRest == [pc |-> "idle", to |-> "idle", msg |-> {}, seq |-> 0, tries |-> 0]

QueueInit ==
  /\ present = FALSE /\ stream = {} /\ durable = FALSE /\ out = {}
  /\ streams = FALSE /\ consumers = FALSE
  /\ call = [c \in Callers |-> AtRest]
  /\ taken = {} /\ gone = {} /\ troubles = 0
  /\ spent = [m \in Prompts |-> 0] /\ excess = spent

In(c, p) == call[c].pc = p
Move(c, p) == call' = [call EXCEPT ![c].pc = p]
Ended(c) == call' = [call EXCEPT ![c] = AtRest]

\* Messages in the stream, and what is appended to it; a number that nobody knows any
\* more is used again.
Known == {e.seq : e \in stream} \cup {call[c].seq : c \in Callers}
NextSeq == CHOOSE n \in 1..Cardinality(Known) + 1 : n \notin Known
Extended(ms) == stream \cup {[msg |-> m, seq |-> NextSeq] : m \in ms}

Count(f, ms) == [m \in Prompts |-> f[m] + (IF m \in ms THEN 1 ELSE 0)]
Trouble == troubles < MaxTroubles /\ troubles' = troubles + 1

-----------------------------------------------------------------------------
(* ensureStream.                                                            *)

\* A cached stream is looked up; one that is gone leaves the cache.
LookUp(c) ==
  /\ In(c, "ensure")
  /\ IF streams /\ present
       THEN Move(c, call[c].to) /\ UNCHANGED streams
       ELSE Move(c, "create") /\ streams' = FALSE
  /\ UNCHANGED <<natsq, consumers, taken, spent, excess, gone, troubles>>

CreateStream(c) ==
  /\ In(c, "create")
  /\ present' = TRUE /\ streams' = TRUE /\ Move(c, call[c].to)
  /\ UNCHANGED <<stream, durable, out, consumers, taken, spent, excess, gone, troubles>>

-----------------------------------------------------------------------------
(* Enqueue.                                                                 *)

\* Compensate and retry are the scheduler's; here a prompt is enqueued once.
Produce(c, m) ==
  /\ In(c, "idle") /\ m \notin taken \cup UNION {call[d].msg : d \in Callers}
  /\ excess[m] = 0
  /\ call' = [call EXCEPT ![c] = [@ EXCEPT !.pc = "ensure", !.to = "publish", !.msg = {m}]]
  /\ UNCHANGED <<natsq, streams, consumers, taken, spent, excess, gone, troubles>>

EnqueuePublish(c) ==
  /\ In(c, "publish") /\ present
  /\ stream' = Extended(call[c].msg) /\ taken' = taken \cup call[c].msg
  /\ Ended(c)
  /\ UNCHANGED <<present, durable, out, streams, consumers, spent, excess, gone, troubles>>

\* Enqueue gives an error: a call fails, or the stream is gone when the message is
\* published.  The publication may have happened and its acknowledgement been lost.
\* A drain only logs that its message is lost.
EnqueueFails(c) ==
  /\ \/ (In(c, "create") \/ In(c, "publish")) /\ call[c].to = "publish" /\ Trouble
        /\ UNCHANGED <<stream, excess>>
     \/ In(c, "publish") /\ ~present /\ UNCHANGED <<stream, excess, troubles>>
     \/ In(c, "publish") /\ present /\ Trouble
        /\ stream' = Extended(call[c].msg)
        /\ excess' = Count(excess, call[c].msg)
  /\ gone' = IF c \in Drains THEN gone \cup call[c].msg ELSE gone
  /\ Ended(c)
  /\ UNCHANGED <<present, durable, out, streams, consumers, taken, spent>>

-----------------------------------------------------------------------------
(* Dequeue, in the loop of the drain.                                       *)

Drain(c) ==
  /\ In(c, "idle")
  /\ call' = [call EXCEPT ![c] = [@ EXCEPT !.pc = "ensure", !.to = "consumer"]]
  /\ UNCHANGED <<natsq, streams, consumers, taken, spent, excess, gone, troubles>>

\* Dequeue gives nothing: the loop asks again, up to Retries times.
Nothing(c) ==
  call' = [call EXCEPT ![c] =
    IF @.tries + 1 = Retries THEN AtRest
    ELSE [AtRest EXCEPT !.pc = "ensure", !.to = "consumer", !.tries = call[c].tries + 1]]

MakeConsumer(c) ==
  /\ In(c, "consumer")
  /\ IF consumers THEN Move(c, "fetch") /\ UNCHANGED <<durable, consumers>>
     ELSE IF ~present THEN Ended(c) /\ UNCHANGED <<durable, consumers>>
     ELSE Move(c, "fetch") /\ durable' = TRUE /\ consumers' = TRUE
  /\ UNCHANGED <<present, stream, out, streams, taken, spent, excess, gone, troubles>>

\* Variant: a consumer that does not answer stays in the cache.
FetchGoneKeeps(c) ==
  /\ In(c, "fetch") /\ ~durable
  /\ Ended(c)
  /\ UNCHANGED <<natsq, streams, consumers, taken, spent, excess, gone, troubles>>

\* The consumer is gone: it leaves the cache, and the drain ends with an error.
FetchGone(c) ==
  /\ In(c, "fetch") /\ ~durable
  /\ consumers' = FALSE /\ Ended(c)
  /\ UNCHANGED <<natsq, streams, taken, spent, excess, gone, troubles>>

Offerable == {e \in stream : e.seq \notin out}

FetchOne(c) ==
  /\ In(c, "fetch") /\ durable
  /\ \/ Offerable = {} /\ Nothing(c) /\ UNCHANGED out
     \/ \E e \in Offerable :
          /\ out' = out \cup {e.seq}
          /\ call' = [call EXCEPT ![c] = [@ EXCEPT !.pc = "ack", !.msg = {e.msg}, !.seq = e.seq]]
  /\ UNCHANGED <<present, stream, durable, streams, consumers, taken, spent, excess, gone, troubles>>

\* JetStream drops an acknowledged message, if it is still there.
Acknowledged(c) ==
  /\ stream' = {e \in stream : e.seq # call[c].seq}
  /\ out' = out \ {call[c].seq}

\* The acknowledgement is sent and may be lost on its way.  A payload that does not
\* decode is acknowledged to discard it.
DequeueAck(c) ==
  /\ In(c, "ack")
  /\ \/ Acknowledged(c) /\ gone' = gone \cup (call[c].msg \cap Malformed) /\ UNCHANGED troubles
     \/ Trouble /\ UNCHANGED <<stream, out, gone>>
  /\ IF call[c].msg \subseteq Malformed THEN Nothing(c)
     ELSE call' = [call EXCEPT ![c] = [@ EXCEPT !.pc = "decide", !.seq = 0]]
  /\ UNCHANGED <<present, durable, streams, consumers, taken, spent, excess>>

\* Variant: the message is discarded although its caller gets an error.
DequeueAckFailsDiscards(c) ==
  /\ In(c, "ack") /\ Trouble
  /\ Acknowledged(c) /\ Ended(c)
  /\ UNCHANGED <<present, durable, streams, consumers, taken, spent, excess, gone>>

\* The message is not returned and will be offered again.
DequeueAckFails(c) ==
  /\ In(c, "ack") /\ Trouble
  /\ Ended(c)
  /\ UNCHANGED <<natsq, streams, consumers, taken, spent, excess, gone>>

\* Variant: the message goes back although its sandbox was spawned.
DecideRequeues(c) ==
  /\ In(c, "decide")
  /\ call' = [call EXCEPT ![c] = [@ EXCEPT !.pc = "ensure", !.to = "publish"]]
  /\ spent' = Count(spent, call[c].msg)
  /\ UNCHANGED <<natsq, streams, consumers, taken, excess, gone, troubles>>

\* The message starts a sandbox, or goes back: the slot is taken, nothing was spawned,
\* or processGroupMessages failed or panicked before there was a sandbox.
Decide(c) ==
  /\ In(c, "decide")
  /\ \/ /\ spent' = Count(spent, call[c].msg)
        /\ Ended(c)
     \/ /\ call' = [call EXCEPT ![c] = [@ EXCEPT !.pc = "ensure", !.to = "publish"]]
        /\ UNCHANGED spent
  /\ UNCHANGED <<natsq, streams, consumers, taken, excess, gone, troubles>>

\* A launch that fails or panics once its sandbox has been created: the sandbox is
\* stopped, if it is not a panic, and the message goes back for another one.
LaunchFails(c) ==
  /\ In(c, "decide") /\ Trouble
  /\ spent' = Count(spent, call[c].msg) /\ excess' = Count(excess, call[c].msg)
  /\ call' = [call EXCEPT ![c] = [@ EXCEPT !.pc = "ensure", !.to = "publish"]]
  /\ UNCHANGED <<natsq, streams, consumers, taken, gone>>

-----------------------------------------------------------------------------
(* JetStream and the process.                                               *)

\* AckWait has passed since a lost acknowledgement or a restart.  A caller that holds a
\* message acknowledges it at once.
Offer(e) ==
  /\ e.seq \in out /\ \A c \in Drains : call[c].seq # e.seq
  /\ out' = out \ {e.seq} /\ excess' = Count(excess, {e.msg})
  /\ UNCHANGED <<present, stream, durable, streams, consumers, call, taken, spent, gone, troubles>>

\* The stream goes, with its consumer, or a message reaches MaxAge.
LoseStream ==
  /\ present /\ Trouble
  /\ \/ /\ present' = FALSE /\ stream' = {} /\ durable' = FALSE /\ out' = {}
        /\ gone' = gone \cup {e.msg : e \in stream}
     \/ \E e \in stream :
          /\ stream' = stream \ {e} /\ out' = out \ {e.seq} /\ gone' = gone \cup {e.msg}
          /\ UNCHANGED <<present, durable>>
  /\ UNCHANGED <<streams, consumers, call, taken, spent, excess>>

\* The process dies and a new one starts with empty caches.
Reboot ==
  /\ Trouble /\ streams' = FALSE /\ consumers' = FALSE
  /\ call' = [c \in Callers |-> AtRest]
  /\ gone' = gone \cup UNION {call[c].msg : c \in Callers}
  /\ UNCHANGED <<natsq, taken, spent, excess>>

DrainStep(c) ==
  \/ LookUp(c) \/ CreateStream(c) \/ MakeConsumer(c) \/ FetchGone(c) \/ FetchOne(c) \/ DequeueAck(c) \/ Decide(c)
  \/ EnqueuePublish(c) \/ (~present /\ EnqueueFails(c))

QueueNext ==
  \/ \E c \in Producers, m \in Prompts : Produce(c, m)
  \/ \E c \in Producers : LookUp(c) \/ CreateStream(c) \/ EnqueuePublish(c)
  \/ \E c \in Callers : EnqueueFails(c)
  \/ \E c \in Drains : Drain(c) \/ DrainStep(c) \/ DequeueAckFails(c) \/ LaunchFails(c)
  \/ \E e \in stream : Offer(e)
  \/ LoseStream \/ Reboot

\* Calls return, JetStream offers again what was not acknowledged, and groups go on
\* being deactivated, which drains their queue.
QueueSpec ==
  /\ QueueInit /\ [][QueueNext]_work
  /\ \A c \in Drains : WF_work(Drain(c) \/ DrainStep(c))
  /\ WF_work(\E e \in stream : Offer(e))

-----------------------------------------------------------------------------
(* Properties.                                                              *)

\* Whatever fails between the calls of Enqueue and Dequeue, a prompt that Enqueue
\* accepted is in the stream, in a drain's hands, has started a sandbox, or went with
\* the stream, a crash, or the error that is logged as "message lost".
PromptsKept ==
  \A m \in taken :
    \/ \E e \in stream : e.msg = m
    \/ \E c \in Drains : m \in call[c].msg
    \/ spent[m] > 0 \/ m \in gone

\* However drains interleave and whatever is put back, a prompt starts one sandbox, and
\* another one only for each time JetStream offered it again, Enqueue gave an error for a
\* message it had published, or a launch failed after its sandbox was created.
SpentOnce == \A m \in Prompts : spent[m] <= 1 + excess[m]

\* A stream that was lost, with its consumer still in the cache, does not block the
\* queue: as long as something is in it, messages come out.
QueueHeals ==
  []<>(stream = {}) \/ []<><<Cardinality(stream') < Cardinality(stream)>>_work

=============================================================================
