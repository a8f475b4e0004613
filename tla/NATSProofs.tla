----------------------------- MODULE NATSProofs -----------------------------
(***************************************************************************)
(* What goes through NATS, for any number of messages, goroutines, faults  *)
(* and restarts: the queue of a group loses no prompt and spends it once,  *)
(* an acknowledged message of the broker has reached a reader, and Close   *)
(* reaches every subscription.                                             *)
(***************************************************************************)
EXTENDS GroupQueue, IPCDelivery, FiniteSetTheorems, TLAPS

-----------------------------------------------------------------------------
(* The queue of a group. *)

Calls == {"idle", "ensure", "create", "publish", "consumer", "fetch", "ack", "decide"}
CallType == [pc : Calls, to : {"idle", "publish", "consumer"}, msg : SUBSET Prompts, seq : Nat, tries : Nat]

QueueTypes ==
  /\ stream \in SUBSET [msg : Prompts, seq : Nat] /\ IsFiniteSet(stream)
  /\ call \in [Callers -> CallType]
  /\ taken \subseteq Prompts /\ spent \in [Prompts -> Nat] /\ excess \in [Prompts -> Nat]

\* A prompt that Enqueue has accepted, or may have although it gave an error.
Doubted(m) == m \in taken \/ excess[m] > 0

\* A drain that has not fetched yet.
Free(c) ==
  \/ call[c].pc \in {"idle", "consumer", "fetch"}
  \/ call[c].pc \in {"ensure", "create"} /\ call[c].to = "consumer"

\* A caller that acknowledges holds its number alone; the message of that number is the
\* one it was given and is out, or the stream has lost it.
AckInv(c) ==
  In(c, "ack") =>
    /\ call[c].seq # 0 /\ call[c].msg # {}
    /\ \A e \in stream : e.seq = call[c].seq => e.msg \in call[c].msg /\ e.seq \in out
    /\ call[c].msg \subseteq gone \/ \E e \in stream : e.seq = call[c].seq
    /\ \A d \in Callers \ {c} : call[d].seq # call[c].seq

CallInv(c) ==
  /\ Free(c) => call[c].msg = {}
  /\ call[c].pc # "ack" => call[c].seq = 0
  /\ call[c].pc \in {"ensure", "create"} => call[c].to \in {"publish", "consumer"}
  /\ call[c].msg # {} => \E m \in Prompts : call[c].msg = {m}
  /\ call[c].pc \in {"ack", "decide"} => c \in Drains /\ \A m \in call[c].msg : Doubted(m)

\* Numbers tell messages apart, and nothing is in the stream or spent that was not
\* enqueued.
SeqInv ==
  /\ \A e \in stream : e.seq # 0 /\ Doubted(e.msg)
  /\ \A e, f \in stream : e.seq = f.seq => e = f
  /\ \A m \in Prompts : spent[m] > 0 => Doubted(m)

\* The copies of a prompt that can still start a sandbox: what can be fetched and what a
\* caller has in its hands.
Live(m) == {e \in stream : e.msg = m /\ e.seq \notin out}
Hold(m) == {c \in Callers : m \in call[c].msg}
Counted(m) == spent[m] + Cardinality(Live(m)) + Cardinality(Hold(m)) <= 1 + excess[m]

QueueInv ==
  /\ QueueTypes /\ SeqInv
  /\ \A c \in Callers : CallInv(c) /\ AckInv(c)
  /\ PromptsKept
  /\ \A m \in Prompts : Counted(m)

-----------------------------------------------------------------------------
\* Cardinalities of what grows or shrinks by one.
LEMMA CardBounds ==
  ASSUME NEW S, IsFiniteSet(S), NEW T, NEW x
  PROVE  /\ Cardinality(S) \in Nat
         /\ T \subseteq S => Cardinality(T) \in Nat /\ Cardinality(T) <= Cardinality(S)
         /\ T \subseteq S \cup {x} => Cardinality(T) \in Nat /\ Cardinality(T) <= Cardinality(S) + 1
         /\ T \subseteq S \ {x} /\ x \in S => Cardinality(T) \in Nat /\ Cardinality(T) + 1 <= Cardinality(S)
<1>1. Cardinality(S) \in Nat
  BY Zenon, FS_CardinalityType
<1>2. T \subseteq S => Cardinality(T) \in Nat /\ Cardinality(T) <= Cardinality(S)
  BY Zenon, FS_Subset, FS_CardinalityType
<1>3. ASSUME T \subseteq S \cup {x}
      PROVE  Cardinality(T) \in Nat /\ Cardinality(T) <= Cardinality(S) + 1
  <2>1. /\ IsFiniteSet(S \cup {x})
        /\ Cardinality(S \cup {x}) = Cardinality(S) \/ Cardinality(S \cup {x}) = Cardinality(S) + 1
    BY Zenon, FS_AddElement
  <2>2. Cardinality(T) \in Nat /\ Cardinality(T) <= Cardinality(S \cup {x})
    BY Zenon, <1>3, <2>1, FS_Subset, FS_CardinalityType
  <2>. QED
    BY <1>1, <2>1, <2>2
<1>4. ASSUME T \subseteq S \ {x}, x \in S
      PROVE  Cardinality(T) \in Nat /\ Cardinality(T) + 1 <= Cardinality(S)
  <2>1. IsFiniteSet(S \ {x}) /\ Cardinality(S \ {x}) = Cardinality(S) - 1
    BY Zenon, <1>4, FS_RemoveElement
  <2>2. Cardinality(T) \in Nat /\ Cardinality(T) <= Cardinality(S \ {x})
    BY Zenon, <1>4, <2>1, FS_Subset, FS_CardinalityType
  <2>. QED
    BY <1>1, <2>1, <2>2
<1>. QED
  BY Zenon, <1>1, <1>2, <1>3, <1>4

\* There are finitely many callers and messages.
LEMMA Finite ==
  ASSUME QueueTypes
  PROVE  /\ IsFiniteSet(Callers) /\ IsFiniteSet(Known)
         /\ \A m \in Prompts : IsFiniteSet(Live(m)) /\ IsFiniteSet(Hold(m))
<1>1. IsFiniteSet(Callers)
  BY Zenon, QueueAssumption, FS_Union DEF Callers
<1>2. IsFiniteSet(stream)
  BY Zenon DEF QueueTypes
<1>3. IsFiniteSet({e.seq : e \in stream})
  <2>1. [e \in stream |-> e.seq] \in Surjection(stream, {e.seq : e \in stream})
    BY Zenon DEF Surjection
  <2>. QED
    BY Zenon, <1>2, <2>1, FS_Surjection
<1>4. IsFiniteSet({call[c].seq : c \in Callers})
  <2>1. [c \in Callers |-> call[c].seq] \in Surjection(Callers, {call[c].seq : c \in Callers})
    BY Zenon DEF Surjection
  <2>. QED
    BY Zenon, <1>1, <2>1, FS_Surjection
<1>5. IsFiniteSet(Known)
  BY Zenon, <1>3, <1>4, FS_Union DEF Known
<1>6. ASSUME NEW m \in Prompts
      PROVE  IsFiniteSet(Live(m)) /\ IsFiniteSet(Hold(m))
  BY Zenon, <1>1, <1>2, FS_Subset DEF Live, Hold
<1>. QED
  BY Zenon, <1>1, <1>5, <1>6

\* The number of a new message is not known to anyone.
LEMMA NewNumber ==
  ASSUME QueueTypes
  PROVE  NextSeq \in Nat \ {0} /\ NextSeq \notin Known
<1>. DEFINE k == Cardinality(Known)
            S == (1..k + 1) \ Known
<1>1. k \in Nat /\ IsFiniteSet(Known)
  BY Zenon, Finite, FS_CardinalityType
<1>. HIDE DEF k
<1>2. S # {}
  <2>1. SUFFICES ASSUME 1..k + 1 \subseteq Known
                 PROVE  FALSE
    BY Zenon
  <2>2. Cardinality(1..k + 1) = k + 1
    BY <1>1, FS_Interval
  <2>3. Cardinality(1..k + 1) <= k
    BY Zenon, <1>1, <2>1, FS_Subset DEF k
  <2>. QED
    BY <1>1, <2>2, <2>3
<1>3. S \in SUBSET Nat /\ 0 \notin S
  BY <1>1
<1>4. NextSeq \in S
  BY Zenon, <1>2 DEF NextSeq, k
<1>. QED
  BY Zenon, <1>3, <1>4

-----------------------------------------------------------------------------
\* The records of the callers.
LEMMA Fields ==
  ASSUME NEW r \in CallType, NEW p \in Calls, NEW t \in {"idle", "publish", "consumer"},
         NEW ms \in SUBSET Prompts, NEW n \in Nat
  PROVE  /\ AtRest \in CallType
         /\ [r EXCEPT !.pc = p] \in CallType
         /\ [r EXCEPT !.pc = p, !.to = t] \in CallType
         /\ [r EXCEPT !.pc = p, !.to = t, !.msg = ms] \in CallType
         /\ [r EXCEPT !.pc = p, !.msg = ms, !.seq = n] \in CallType
         /\ [r EXCEPT !.pc = p, !.seq = n] \in CallType
         /\ [AtRest EXCEPT !.pc = p, !.to = t, !.tries = n] \in CallType
  BY Zenon DEF CallType, Calls, AtRest

\* The record of one caller changes.
LEMMA Updated ==
  ASSUME QueueTypes, NEW c \in Callers, NEW r \in CallType,
         call' = [call EXCEPT ![c] = r]
  PROVE  /\ call' \in [Callers -> CallType] /\ call'[c] = r
         /\ \A d \in Callers \ {c} : call'[d] = call[d]
  BY Zenon DEF QueueTypes

\* A call that ends, or begins again, holds nothing.
LEMMA Released ==
  ASSUME QueueTypes, NEW c \in Callers, Ended(c) \/ Nothing(c)
  PROVE  /\ call' \in [Callers -> CallType]
         /\ \A d \in Callers \ {c} : call'[d] = call[d]
         /\ call'[c].msg = {} /\ call'[c].seq = 0
         /\ \/ call'[c].pc = "idle"
            \/ (call'[c].pc = "ensure" /\ call'[c].to = "consumer")
<1>. DEFINE t == call[c].tries + 1
            r == [AtRest EXCEPT !.pc = "ensure", !.to = "consumer", !.tries = t]
<1>1. call[c] \in CallType /\ t \in Nat
  BY DEF QueueTypes, CallType
<1>. HIDE DEF t
<1>2. r \in CallType /\ AtRest \in CallType
  BY Zenon, <1>1 DEF CallType, Calls, AtRest
<1>3. r.msg = {} /\ r.seq = 0 /\ r.pc = "ensure" /\ r.to = "consumer"
  BY Zenon DEF AtRest
<1>4. AtRest.msg = {} /\ AtRest.seq = 0 /\ AtRest.pc = "idle"
  BY Zenon DEF AtRest
<1>5. call' = [call EXCEPT ![c] = AtRest] \/ call' = [call EXCEPT ![c] = r]
  BY Zenon DEF Ended, Nothing, t
<1>. HIDE DEF r
<1>6. CASE call' = [call EXCEPT ![c] = AtRest]
  BY Zenon, <1>2, <1>4, <1>6, Updated
<1>7. CASE call' = [call EXCEPT ![c] = r]
  BY Zenon, <1>2, <1>3, <1>7, Updated
<1>. QED
  BY Zenon, <1>5, <1>6, <1>7

\* A call that moves on keeps what it holds.
LEMMA Moved ==
  ASSUME QueueTypes, NEW c \in Callers, NEW p \in Calls, Move(c, p)
  PROVE  /\ call' \in [Callers -> CallType]
         /\ \A d \in Callers \ {c} : call'[d] = call[d]
         /\ call'[c].pc = p /\ call'[c].to = call[c].to
         /\ call'[c].msg = call[c].msg /\ call'[c].seq = call[c].seq
<1>. DEFINE r == [call[c] EXCEPT !.pc = p]
<1>1. call[c] \in CallType
  BY Zenon DEF QueueTypes
<1>2. r \in CallType
  BY Zenon, <1>1, Fields
<1>3. r.pc = p /\ r.to = call[c].to /\ r.msg = call[c].msg /\ r.seq = call[c].seq
  BY Zenon, <1>1 DEF CallType
<1>4. call' = [call EXCEPT ![c] = r]
  BY Zenon DEF Move
<1>. HIDE DEF r
<1>. QED
  BY Zenon, <1>2, <1>3, <1>4, Updated

-----------------------------------------------------------------------------
\* What a step of one caller leaves of the others.
LEMMA OthersKept ==
  ASSUME QueueInv, NEW d \in Callers, call'[d] = call[d],
         \A m \in Prompts : Doubted(m) => Doubted(m)'
  PROVE  CallInv(d)'
<1>1. CallInv(d) /\ call[d].msg \subseteq Prompts
  BY Zenon DEF QueueInv, QueueTypes, CallType
<1>. QED
  BY Zenon, <1>1 DEF CallInv, Free

\* A caller keeps the number it acknowledges if nobody else takes it, and its message
\* leaves the stream only by being lost.
LEMMA AckStays ==
  ASSUME QueueInv, NEW d \in Callers, call'[d] = call[d],
         gone \subseteq gone',
         In(d, "ack") =>
           /\ \A b \in Callers \ {d} : call'[b].seq # call[d].seq
           /\ \A e \in stream' : e.seq = call[d].seq => e \in stream /\ (e.seq \in out => e.seq \in out')
           /\ \A e \in stream : e.seq = call[d].seq => e \in stream' \/ e.msg \in gone'
  PROVE  AckInv(d)'
<1>1. SUFFICES ASSUME In(d, "ack")
               PROVE  AckInv(d)'
  BY Zenon DEF AckInv, In
<1>2. AckInv(d) /\ CallInv(d)
  BY Zenon DEF QueueInv
<1>3. \A b \in Callers \ {d} : call'[b].seq # call[d].seq
  BY Zenon, <1>1
<1>4. \A e \in stream' : e.seq = call[d].seq => e.msg \in call[d].msg /\ e.seq \in out'
  BY Zenon, <1>1, <1>2 DEF AckInv
<1>5. call[d].msg \subseteq gone' \/ \E e \in stream' : e.seq = call[d].seq
  <2>1. CASE call[d].msg \subseteq gone
    BY Zenon, <2>1
  <2>2. CASE \E e \in stream : e.seq = call[d].seq
    <3>1. PICK e \in stream : e.seq = call[d].seq
      BY Zenon, <2>2
    <3>2. e.msg \in call[d].msg
      BY Zenon, <1>1, <1>2, <3>1 DEF AckInv
    <3>3. call[d].msg = {e.msg}
      BY Zenon, <1>2, <3>2 DEF CallInv
    <3>. QED
      BY Zenon, <1>1, <3>1, <3>3
  <2>. QED
    BY Zenon, <1>1, <1>2, <2>1, <2>2 DEF AckInv
<1>. QED
  BY Zenon, <1>1, <1>2, <1>3, <1>4, <1>5 DEF AckInv

\* The same when only one other caller moves.
LEMMA AckKept ==
  ASSUME QueueInv, NEW c \in Callers, NEW d \in Callers \ {c},
         \A b \in Callers \ {c} : call'[b] = call[b],
         gone \subseteq gone',
         In(d, "ack") =>
           /\ call'[c].seq # call[d].seq
           /\ \A e \in stream' : e.seq = call[d].seq => e \in stream /\ (e.seq \in out => e.seq \in out')
           /\ \A e \in stream : e.seq = call[d].seq => e \in stream' \/ e.msg \in gone'
  PROVE  AckInv(d)'
<1>1. In(d, "ack") => \A b \in Callers \ {d} : call'[b].seq # call[d].seq
  BY Zenon DEF QueueInv, AckInv
<1>. QED
  BY Zenon, <1>1, AckStays

\* A prompt gains no copy.
LEMMA CountKept ==
  ASSUME QueueInv, NEW m \in Prompts, spent'[m] = spent[m],
         excess'[m] \in Nat, excess[m] <= excess'[m],
         Live(m)' \subseteq Live(m), Hold(m)' \subseteq Hold(m)
  PROVE  Counted(m)'
<1>. DEFINE h == Cardinality(Hold(m))
            l == Cardinality(Live(m))
            g == Cardinality(Hold(m)')
            k == Cardinality(Live(m)')
<1>1. IsFiniteSet(Live(m)) /\ IsFiniteSet(Hold(m))
  BY Zenon, Finite DEF QueueInv
<1>2. h \in Nat /\ l \in Nat /\ g \in Nat /\ k \in Nat /\ g <= h /\ k <= l
  BY Zenon, <1>1, CardBounds
<1>3. spent[m] \in Nat /\ excess[m] \in Nat /\ spent[m] + l + h <= 1 + excess[m]
  BY Zenon DEF QueueInv, QueueTypes, Counted
<1>. HIDE DEF h, l, g, k
<1>4. spent'[m] + k + g <= 1 + excess'[m]
  BY <1>2, <1>3
<1>. QED
  BY Zenon, <1>4 DEF Counted, g, k

\* A step of one caller that touches no message.
LEMMA PlainStep ==
  ASSUME QueueInv, NEW c \in Callers,
         call' \in [Callers -> CallType],
         \A d \in Callers \ {c} : call'[d] = call[d],
         UNCHANGED <<stream, out, taken, spent, excess>>, gone \subseteq gone',
         call'[c].pc # "ack", CallInv(c)',
         \A m \in call[c].msg : c \in Drains =>
           m \in call'[c].msg \/ m \in gone' \/ \E e \in stream : e.msg = m
  PROVE  /\ QueueTypes' /\ SeqInv' /\ (\A d \in Callers : CallInv(d)' /\ AckInv(d)')
         /\ PromptsKept'
         /\ call'[c].msg \subseteq call[c].msg => QueueInv'
<1>1. QueueTypes' /\ SeqInv'
  BY Zenon DEF QueueInv, QueueTypes, SeqInv, Doubted
<1>2. \A m \in Prompts : Doubted(m) => Doubted(m)'
  BY Zenon DEF Doubted
<1>3. ASSUME NEW d \in Callers
      PROVE  CallInv(d)'
  BY Zenon, <1>2, OthersKept
<1>4. call'[c].seq = 0
  BY Zenon DEF CallInv
<1>5. ASSUME NEW d \in Callers
      PROVE  AckInv(d)'
  <2>1. CASE d = c
    BY Zenon, <2>1 DEF AckInv, In
  <2>2. CASE d # c
    <3>1. In(d, "ack") => call[d].seq # 0
      BY Zenon DEF QueueInv, AckInv
    <3>. QED
      BY Zenon, <1>4, <2>2, <3>1, AckKept
  <2>. QED
    BY Zenon, <2>1, <2>2
<1>6. PromptsKept'
  <2>1. SUFFICES ASSUME NEW m \in taken
                 PROVE  \/ \E e \in stream : e.msg = m
                        \/ \E d \in Drains : m \in call'[d].msg
                        \/ spent[m] > 0 \/ m \in gone'
    BY Zenon DEF PromptsKept
  <2>2. CASE \E d \in Drains : m \in call[d].msg
    <3>1. PICK d \in Drains : m \in call[d].msg
      BY Zenon, <2>2
    <3>2. d \in Callers
      BY Zenon DEF Callers
    <3>. QED
      BY Zenon, <3>1, <3>2
  <2>. QED
    BY Zenon, <2>2 DEF QueueInv, PromptsKept
<1>7. ASSUME call'[c].msg \subseteq call[c].msg, NEW m \in Prompts
      PROVE  Counted(m)'
  <2>1. Hold(m)' \subseteq Hold(m) /\ Live(m)' \subseteq Live(m)
    BY Zenon, <1>7 DEF Hold, Live
  <2>2. excess[m] \in Nat
    BY Zenon DEF QueueInv, QueueTypes
  <2>. QED
    BY <2>1, <2>2, CountKept
<1>. QED
  BY Zenon, <1>1, <1>3, <1>5, <1>6, <1>7 DEF QueueInv

\* What the step lemmas use of a caller.
LEMMA CallerFacts ==
  ASSUME QueueInv, NEW c \in Callers
  PROVE  /\ QueueTypes /\ CallInv(c) /\ AckInv(c) /\ call[c] \in CallType
         /\ call[c].msg \in SUBSET Prompts /\ call[c].seq \in Nat
  BY Zenon DEF QueueInv, QueueTypes, CallType

\* EnsureStream looks the stream up and creates it.
LEMMA StepLookUp ==
  ASSUME QueueInv, NEW c \in Callers, LookUp(c) \/ CreateStream(c)
  PROVE  QueueInv'
<1>. USE DEF LookUp, CreateStream, natsq
<1>1. UNCHANGED <<stream, out, taken, spent, excess, gone>>
  BY Zenon
<1>2. call[c].pc \in {"ensure", "create"} /\ call[c].to \in {"publish", "consumer"}
  BY Zenon, CallerFacts DEF In, CallInv
<1>3. PICK p : /\ p = "create" \/ p = call[c].to
               /\ Move(c, p)
  BY Zenon
<1>4. p \in Calls
  BY Zenon, <1>2, <1>3 DEF Calls
<1>5. /\ call' \in [Callers -> CallType]
      /\ \A d \in Callers \ {c} : call'[d] = call[d]
      /\ call'[c].pc = p /\ call'[c].to = call[c].to
      /\ call'[c].msg = call[c].msg /\ call'[c].seq = call[c].seq
  BY Zenon, <1>3, <1>4, CallerFacts, Moved
<1>6. CallInv(c)' /\ call'[c].pc # "ack"
  BY Zenon, <1>2, <1>3, <1>5, CallerFacts DEF CallInv, Free
<1>. QED
  BY Zenon, <1>1, <1>5, <1>6, PlainStep

\* A caller that has nothing in its hands asks, waits, or gives up.
LEMMA StepEmpty ==
  ASSUME QueueInv, NEW c \in Callers, Free(c),
         call' \in [Callers -> CallType],
         \A d \in Callers \ {c} : call'[d] = call[d],
         call'[c].msg = {}, call'[c].seq = 0,
         call'[c].pc \in {"idle", "consumer", "fetch"} \/ (call'[c].pc = "ensure" /\ call'[c].to = "consumer"),
         UNCHANGED <<stream, out, taken, spent, excess, gone>>
  PROVE  QueueInv'
<1>1. call[c].msg = {}
  BY Zenon, CallerFacts DEF CallInv
<1>2. CallInv(c)' /\ call'[c].pc # "ack"
  BY Zenon DEF CallInv, Free
<1>. QED
  BY Zenon, <1>1, <1>2, PlainStep

\* A drain begins.
LEMMA StepDrain ==
  ASSUME QueueInv, NEW c \in Callers, Drain(c)
  PROVE  QueueInv'
<1>. DEFINE r == [call[c] EXCEPT !.pc = "ensure", !.to = "consumer"]
<1>1. /\ call[c].pc = "idle" /\ call' = [call EXCEPT ![c] = r]
      /\ UNCHANGED <<stream, out, taken, spent, excess, gone>>
  BY Zenon DEF Drain, natsq, In
<1>2. Free(c) /\ call[c].msg = {} /\ call[c].seq = 0
  BY Zenon, <1>1, CallerFacts DEF CallInv, Free
<1>3. r \in CallType /\ r.pc = "ensure" /\ r.to = "consumer" /\ r.msg = {} /\ r.seq = 0
  BY Zenon, <1>2, CallerFacts DEF CallType, Calls
<1>. HIDE DEF r
<1>4. /\ call' \in [Callers -> CallType] /\ call'[c] = r
      /\ \A d \in Callers \ {c} : call'[d] = call[d]
  BY Zenon, <1>1, <1>3, CallerFacts, Updated
<1>. QED
  BY Zenon, <1>1, <1>2, <1>3, <1>4, StepEmpty

\* The consumer is made, or found to be gone.
LEMMA StepConsumer ==
  ASSUME QueueInv, NEW c \in Callers, MakeConsumer(c) \/ FetchGone(c)
  PROVE  QueueInv'
<1>1. /\ UNCHANGED <<stream, out, taken, spent, excess, gone>>
      /\ call[c].pc \in {"consumer", "fetch"} /\ (Move(c, "fetch") \/ Ended(c))
  BY Zenon DEF MakeConsumer, FetchGone, natsq, In
<1>2. Free(c) /\ call[c].msg = {} /\ call[c].seq = 0 /\ QueueTypes
  BY Zenon, <1>1, CallerFacts DEF CallInv, Free
<1>3. CASE Move(c, "fetch")
  <2>1. "fetch" \in Calls
    BY Zenon DEF Calls
  <2>2. /\ call' \in [Callers -> CallType]
        /\ \A d \in Callers \ {c} : call'[d] = call[d]
        /\ call'[c].msg = {} /\ call'[c].seq = 0 /\ call'[c].pc = "fetch"
    BY Zenon, <1>2, <1>3, <2>1, Moved
  <2>. QED
    BY Zenon, <1>1, <1>2, <2>2, StepEmpty
<1>4. CASE Ended(c)
  <2>1. /\ call' \in [Callers -> CallType]
        /\ \A d \in Callers \ {c} : call'[d] = call[d]
        /\ call'[c].msg = {} /\ call'[c].seq = 0
        /\ call'[c].pc = "idle" \/ (call'[c].pc = "ensure" /\ call'[c].to = "consumer")
    BY Zenon, <1>2, <1>4, Released
  <2>. QED
    BY Zenon, <1>1, <1>2, <2>1, StepEmpty
<1>. QED
  BY Zenon, <1>1, <1>3, <1>4

\* A goroutine enqueues a prompt.
LEMMA StepProduce ==
  ASSUME QueueInv, NEW c \in Callers, NEW m \in Prompts, Produce(c, m)
  PROVE  QueueInv'
<1>. DEFINE r == [call[c] EXCEPT !.pc = "ensure", !.to = "publish", !.msg = {m}]
<1>1. /\ call[c].pc = "idle" /\ call' = [call EXCEPT ![c] = r]
      /\ UNCHANGED <<stream, out, taken, spent, excess, gone>>
      /\ m \notin taken /\ excess[m] = 0 /\ \A d \in Callers : m \notin call[d].msg
  BY Zenon DEF Produce, natsq, In
<1>2. call[c].msg = {} /\ call[c].seq = 0
  BY Zenon, <1>1, CallerFacts DEF CallInv, Free
<1>3. r \in CallType /\ r.pc = "ensure" /\ r.to = "publish" /\ r.msg = {m} /\ r.seq = 0
  BY Zenon, <1>2, CallerFacts DEF CallType, Calls
<1>. HIDE DEF r
<1>4. /\ call' \in [Callers -> CallType] /\ call'[c] = r
      /\ \A d \in Callers \ {c} : call'[d] = call[d]
  BY Zenon, <1>1, <1>3, CallerFacts, Updated
<1>5. CallInv(c)' /\ call'[c].pc # "ack"
  BY Zenon, <1>3, <1>4 DEF CallInv, Free
<1>6. /\ QueueTypes' /\ SeqInv' /\ (\A d \in Callers : CallInv(d)' /\ AckInv(d)')
      /\ PromptsKept'
  BY Zenon, <1>1, <1>2, <1>4, <1>5, PlainStep
<1>7. ASSUME NEW k \in Prompts
      PROVE  Counted(k)'
  <2>1. Live(k)' = Live(k)
    BY Zenon, <1>1 DEF Live
  <2>2. CASE k # m
    <3>1. Hold(k)' \subseteq Hold(k)
      BY Zenon, <1>3, <1>4, <2>2 DEF Hold
    <3>2. excess[k] \in Nat
      BY Zenon DEF QueueInv, QueueTypes
    <3>. QED
      BY <1>1, <2>1, <3>1, <3>2, CountKept
  <2>3. CASE k = m
    <3>1. Live(m) = {} /\ spent[m] = 0
      <4>1. ~Doubted(m)
        BY <1>1 DEF Doubted
      <4>2. Live(m) = {}
        BY Zenon, <4>1 DEF QueueInv, SeqInv, Live
      <4>3. spent[m] \in Nat /\ ~(spent[m] > 0)
        BY Zenon, <4>1 DEF QueueInv, SeqInv, QueueTypes
      <4>. QED
        BY <4>2, <4>3
    <3>2. Hold(m)' \subseteq {} \cup {c}
      BY Zenon, <1>1, <1>4 DEF Hold
    <3>3. Cardinality(Hold(m)') \in Nat /\ Cardinality(Hold(m)') <= 1
      BY <3>2, FS_EmptySet, CardBounds
    <3>. QED
      BY <1>1, <2>1, <2>3, <3>1, <3>3, FS_EmptySet DEF Counted
  <2>. QED
    BY Zenon, <2>2, <2>3
<1>. QED
  BY Zenon, <1>6, <1>7 DEF QueueInv

\* A message is appended, with or without the caller knowing, and its call ends.
LEMMA StepAppend ==
  ASSUME QueueInv, NEW c \in Callers, In(c, "publish"), Ended(c),
         stream' = Extended(call[c].msg), UNCHANGED <<out, spent>>,
         taken \subseteq taken', taken' \subseteq taken \cup call[c].msg, gone \subseteq gone',
         excess' \in [Prompts -> Nat], \A m \in Prompts : excess[m] <= excess'[m],
         \A m \in call[c].msg : m \in taken' \/ excess'[m] > 0
  PROVE  QueueInv'
<1>1. /\ call' \in [Callers -> CallType]
      /\ \A d \in Callers \ {c} : call'[d] = call[d]
      /\ call'[c].msg = {} /\ call'[c].seq = 0
      /\ call'[c].pc = "idle" \/ (call'[c].pc = "ensure" /\ call'[c].to = "consumer")
  BY Zenon, CallerFacts, Released
<1>2. NextSeq \in Nat \ {0} /\ NextSeq \notin Known
  BY Zenon, CallerFacts, NewNumber
<1>3. \A e \in stream : e.seq # NextSeq
  BY Zenon, <1>2 DEF Known
<1>4. \A d \in Callers : call[d].seq # NextSeq
  BY Zenon, <1>2 DEF Known
<1>5. /\ stream \subseteq stream'
      /\ \A m \in call[c].msg : [msg |-> m, seq |-> NextSeq] \in stream'
      /\ \A e \in stream' : e \in stream \/ (e.seq = NextSeq /\ e.msg \in call[c].msg)
  BY DEF Extended
<1>6. call[c].msg = {} \/ \E m \in Prompts : call[c].msg = {m}
  BY Zenon, CallerFacts DEF CallInv
<1>7. \A m \in Prompts : Doubted(m) => Doubted(m)'
  <2>1. \A m \in Prompts : excess[m] \in Nat /\ excess'[m] \in Nat
    BY Zenon DEF QueueInv, QueueTypes
  <2>. QED
    BY <2>1 DEF Doubted
<1>8. QueueTypes'
  <2>1. stream \in SUBSET [msg : Prompts, seq : Nat] /\ IsFiniteSet(stream)
    BY Zenon DEF QueueInv, QueueTypes
  <2>2. taken' \subseteq Prompts
    BY Zenon, CallerFacts DEF QueueTypes
  <2>3. CASE call[c].msg = {}
    BY Zenon, <1>1, <2>1, <2>2, <2>3 DEF Extended, QueueInv, QueueTypes
  <2>4. CASE \E m \in Prompts : call[c].msg = {m}
    <3>1. PICK m \in Prompts : call[c].msg = {m}
      BY Zenon, <2>4
    <3>2. stream' = stream \cup {[msg |-> m, seq |-> NextSeq]}
      BY Zenon, <3>1 DEF Extended
    <3>3. IsFiniteSet(stream')
      <4>1. IsFiniteSet(stream \cup {[msg |-> m, seq |-> NextSeq]})
        BY Zenon, <2>1, FS_AddElement
      <4>. QED
        BY Zenon, <3>2, <4>1
    <3>4. stream' \in SUBSET [msg : Prompts, seq : Nat]
      BY <1>2, <2>1, <3>2
    <3>. QED
      BY Zenon, <1>1, <2>2, <3>3, <3>4 DEF QueueInv, QueueTypes
  <2>. QED
    BY Zenon, <1>6, <2>3, <2>4
<1>9. SeqInv'
  <2>1. \A e \in stream : e.seq # 0 /\ Doubted(e.msg) /\ e.msg \in Prompts
    BY Zenon DEF QueueInv, SeqInv, QueueTypes
  <2>2. \A m \in call[c].msg : Doubted(m)'
    BY Zenon DEF Doubted
  <2>3. \A e \in stream' : e.seq # 0 /\ Doubted(e.msg)'
    BY Zenon, <1>2, <1>5, <1>7, <2>1, <2>2
  <2>4. ASSUME NEW e \in stream', NEW f \in stream', e.seq = f.seq
        PROVE  e = f
    <3>1. CASE e \in stream /\ f \in stream
      BY Zenon, <2>4, <3>1 DEF QueueInv, SeqInv
    <3>2. CASE e \notin stream /\ f \notin stream
      <4>1. e \in [msg : Prompts, seq : Nat] /\ f \in [msg : Prompts, seq : Nat]
        BY Zenon, <1>8 DEF QueueTypes
      <4>2. e.msg = f.msg
        BY Zenon, <1>5, <1>6, <3>2
      <4>. QED
        BY <2>4, <4>1, <4>2
    <3>. QED
      BY Zenon, <1>3, <1>5, <2>4, <3>1, <3>2
  <2>5. \A m \in Prompts : spent'[m] > 0 => Doubted(m)'
    BY Zenon, <1>7 DEF QueueInv, SeqInv
  <2>. QED
    BY Zenon, <2>3, <2>4, <2>5 DEF SeqInv
<1>10. ASSUME NEW d \in Callers
       PROVE  CallInv(d)' /\ AckInv(d)'
  <2>1. CASE d = c
    BY Zenon, <1>1, <2>1 DEF CallInv, AckInv, In, Free
  <2>2. CASE d # c
    <3>1. CallInv(d)'
      BY Zenon, <1>1, <1>7, <2>2, OthersKept
    <3>2. In(d, "ack") => call[d].seq # 0
      BY Zenon DEF QueueInv, AckInv
    <3>3. \A e \in stream' : e.seq = call[d].seq => e \in stream
      BY Zenon, <1>4, <1>5
    <3>4. AckInv(d)'
      BY Zenon, <1>1, <1>5, <2>2, <3>2, <3>3, AckKept
    <3>. QED
      BY Zenon, <3>1, <3>4
  <2>. QED
    BY Zenon, <2>1, <2>2
<1>11. PromptsKept'
  <2>1. SUFFICES ASSUME NEW m \in taken'
                 PROVE  \/ \E e \in stream' : e.msg = m
                        \/ \E d \in Drains : m \in call'[d].msg
                        \/ spent'[m] > 0 \/ m \in gone'
    BY Zenon DEF PromptsKept
  <2>2. CASE m \in call[c].msg
    BY Zenon, <1>5, <2>2
  <2>3. CASE m \notin call[c].msg
    <3>1. \/ \E e \in stream : e.msg = m
          \/ \E d \in Drains : m \in call[d].msg
          \/ spent[m] > 0 \/ m \in gone
      BY Zenon, <2>3 DEF QueueInv, PromptsKept
    <3>2. \A d \in Drains : m \in call[d].msg => m \in call'[d].msg
      BY Zenon, <1>1, <2>3 DEF Callers
    <3>. QED
      BY Zenon, <1>5, <3>1, <3>2
  <2>. QED
    BY Zenon, <2>2, <2>3
<1>12. ASSUME NEW m \in Prompts
       PROVE  Counted(m)'
  <2>1. Hold(m)' \subseteq Hold(m) \ {c}
    BY Zenon, <1>1 DEF Hold
  <2>2. CASE m \notin call[c].msg
    <3>1. Live(m)' \subseteq Live(m)
      BY Zenon, <1>5, <2>2 DEF Live
    <3>. QED
      BY Zenon, <2>1, <3>1, CountKept
  <2>3. CASE m \in call[c].msg
    <3>. DEFINE h == Cardinality(Hold(m))
                l == Cardinality(Live(m))
                g == Cardinality(Hold(m)')
                k == Cardinality(Live(m)')
    <3>1. c \in Hold(m) /\ IsFiniteSet(Live(m)) /\ IsFiniteSet(Hold(m))
      BY Zenon, <2>3, CallerFacts, Finite DEF Hold
    <3>2. Live(m)' \subseteq Live(m) \cup {[msg |-> m, seq |-> NextSeq]}
      <4>1. call[c].msg = {m}
        BY Zenon, <1>6, <2>3
      <4>2. stream' = stream \cup {[msg |-> m, seq |-> NextSeq]}
        BY Zenon, <4>1 DEF Extended
      <4>. QED
        BY Zenon, <4>2 DEF Live
    <3>3. h \in Nat /\ g \in Nat /\ g + 1 <= h
      BY Zenon, <2>1, <3>1, CardBounds
    <3>4. l \in Nat /\ k \in Nat /\ k <= l + 1
      BY <3>1, <3>2, CardBounds
    <3>5. spent[m] \in Nat /\ excess[m] \in Nat /\ spent[m] + l + h <= 1 + excess[m]
      BY Zenon DEF QueueInv, QueueTypes, Counted
    <3>. HIDE DEF h, l, g, k
    <3>6. spent'[m] + k + g <= 1 + excess'[m]
      BY <3>3, <3>4, <3>5
    <3>. QED
      BY Zenon, <3>6 DEF Counted, g, k
  <2>. QED
    BY Zenon, <2>2, <2>3
<1>. QED
  BY Zenon, <1>8, <1>9, <1>10, <1>11, <1>12 DEF QueueInv

\* A call that ends, or begins again, without having touched a message.
LEMMA StepRelease ==
  ASSUME QueueInv, NEW c \in Callers, Ended(c) \/ Nothing(c),
         UNCHANGED <<stream, out, taken, spent, excess>>, gone \subseteq gone',
         \A m \in call[c].msg : c \in Drains => m \in gone' \/ \E e \in stream : e.msg = m
  PROVE  QueueInv'
<1>1. /\ call' \in [Callers -> CallType]
      /\ \A d \in Callers \ {c} : call'[d] = call[d]
      /\ call'[c].msg = {} /\ call'[c].seq = 0
      /\ call'[c].pc = "idle" \/ (call'[c].pc = "ensure" /\ call'[c].to = "consumer")
  BY Zenon, CallerFacts, Released
<1>2. CallInv(c)' /\ call'[c].pc # "ack" /\ call'[c].msg \subseteq call[c].msg
  BY Zenon, <1>1 DEF CallInv, Free
<1>. QED
  BY Zenon, <1>1, <1>2, PlainStep

\* Count adds one for each prompt of a set.
LEMMA CountFacts ==
  ASSUME NEW f \in [Prompts -> Nat], NEW ms
  PROVE  /\ Count(f, ms) \in [Prompts -> Nat]
         /\ \A m \in Prompts : /\ f[m] <= Count(f, ms)[m]
                               /\ Count(f, ms)[m] = IF m \in ms THEN f[m] + 1 ELSE f[m]
  BY DEF Count

\* JetStream stores a prompt under a new number, or Enqueue fails: the copy in the
\* producer's hands becomes one in the stream.
LEMMA StepPublish ==
  ASSUME QueueInv, NEW c \in Callers, EnqueuePublish(c) \/ EnqueueFails(c)
  PROVE  QueueInv'
<1>1. excess \in [Prompts -> Nat] /\ call[c].msg \in SUBSET Prompts
  BY Zenon, CallerFacts DEF QueueTypes
<1>2. CASE EnqueuePublish(c)
  <2>1. \A m \in Prompts : excess'[m] = excess[m] /\ excess[m] \in Nat
    BY Zenon, <1>1, <1>2 DEF EnqueuePublish
  <2>. QED
    BY <1>1, <1>2, <2>1, StepAppend DEF EnqueuePublish
<1>3. CASE EnqueueFails(c)
  <2>1. /\ UNCHANGED <<out, taken, spent>> /\ gone \subseteq gone' /\ Ended(c)
        /\ c \in Drains => call[c].msg \subseteq gone'
    BY Zenon, <1>3 DEF EnqueueFails
  <2>2. CASE UNCHANGED <<stream, excess>>
    BY Zenon, <2>1, <2>2, StepRelease
  <2>3. CASE /\ In(c, "publish") /\ stream' = Extended(call[c].msg)
             /\ excess' = Count(excess, call[c].msg)
    <3>1. /\ excess' \in [Prompts -> Nat] /\ \A m \in Prompts : excess[m] <= excess'[m]
          /\ \A m \in call[c].msg : excess'[m] = excess[m] + 1 /\ excess[m] \in Nat
      BY <1>1, <2>3, CountFacts
    <3>2. \A m \in call[c].msg : excess'[m] > 0
      BY <3>1
    <3>. QED
      BY Zenon, <2>1, <2>3, <3>1, <3>2, StepAppend
  <2>. QED
    BY Zenon, <1>3, <2>2, <2>3 DEF EnqueueFails
<1>. QED
  BY Zenon, <1>2, <1>3

\* What a caller that acknowledges can fall back on.
LEMMA StillThere ==
  ASSUME QueueInv, NEW c \in Callers, In(c, "ack"), NEW m \in call[c].msg
  PROVE  m \in gone \/ \E e \in stream : e.msg = m
<1>1. call[c].msg = {m}
  BY Zenon, CallerFacts DEF CallInv
<1>. QED
  BY Zenon, <1>1, CallerFacts DEF AckInv

\* An acknowledgement fails; the message stays out.
LEMMA StepAckFails ==
  ASSUME QueueInv, NEW c \in Callers, DequeueAckFails(c)
  PROVE  QueueInv'
<1>1. /\ In(c, "ack") /\ Ended(c)
      /\ UNCHANGED <<stream, out, taken, spent, excess, gone>>
  BY Zenon DEF DequeueAckFails, natsq
<1>. QED
  BY Zenon, <1>1, StillThere, StepRelease

\* A drain starts a sandbox for the prompt, or gives it up.
LEMMA StepDecide ==
  ASSUME QueueInv, NEW c \in Callers, Decide(c)
  PROVE  QueueInv'
<1>1. /\ call[c].pc = "decide" /\ UNCHANGED <<stream, out, taken, excess, gone>>
  BY Zenon DEF Decide, In, natsq
<1>2. /\ call[c].seq = 0 /\ c \in Drains /\ spent \in [Prompts -> Nat]
      /\ \A m \in call[c].msg : Doubted(m)
  BY Zenon, <1>1, CallerFacts DEF CallInv, QueueTypes
<1>3. CASE spent' = Count(spent, call[c].msg) /\ Ended(c)
  <2>1. /\ call' \in [Callers -> CallType]
        /\ \A d \in Callers \ {c} : call'[d] = call[d]
        /\ call'[c].msg = {} /\ call'[c].seq = 0
        /\ call'[c].pc = "idle" \/ (call'[c].pc = "ensure" /\ call'[c].to = "consumer")
    BY Zenon, <1>3, CallerFacts, Released
  <2>2. /\ spent' \in [Prompts -> Nat]
        /\ \A m \in Prompts : /\ spent[m] <= spent'[m]
                              /\ spent'[m] = IF m \in call[c].msg THEN spent[m] + 1 ELSE spent[m]
    BY <1>2, <1>3, CountFacts
  <2>3. QueueTypes'
    BY Zenon, <1>1, <2>1, <2>2 DEF QueueInv, QueueTypes
  <2>4. \A m \in Prompts : Doubted(m)' <=> Doubted(m)
    BY Zenon, <1>1 DEF Doubted
  <2>5. SeqInv'
    <3>1. \A e \in stream : e.msg \in Prompts
      BY Zenon DEF QueueInv, QueueTypes
    <3>2. \A m \in Prompts : spent'[m] > 0 => Doubted(m)'
      BY Zenon, <1>2, <2>2, <2>4 DEF QueueInv, SeqInv
    <3>. QED
      BY Zenon, <1>1, <2>4, <3>1, <3>2 DEF QueueInv, SeqInv
  <2>6. ASSUME NEW d \in Callers
        PROVE  CallInv(d)' /\ AckInv(d)'
    <3>1. CASE d = c
      BY Zenon, <2>1, <3>1 DEF CallInv, AckInv, In, Free
    <3>2. CASE d # c
      <4>1. CallInv(d)'
        BY Zenon, <2>1, <2>4, <3>2, OthersKept
      <4>2. In(d, "ack") => call[d].seq # 0
        BY Zenon DEF QueueInv, AckInv
      <4>3. AckInv(d)'
        BY Zenon, <1>1, <2>1, <3>2, <4>2, AckKept
      <4>. QED
        BY Zenon, <4>1, <4>3
    <3>. QED
      BY Zenon, <3>1, <3>2
  <2>7. PromptsKept'
    <3>1. SUFFICES ASSUME NEW m \in taken
                   PROVE  \/ \E e \in stream : e.msg = m
                          \/ \E d \in Drains : m \in call'[d].msg
                          \/ spent'[m] > 0 \/ m \in gone
      BY Zenon, <1>1 DEF PromptsKept
    <3>2. CASE m \in call[c].msg
      BY <1>2, <2>2, <3>2, CallerFacts
    <3>3. CASE m \notin call[c].msg /\ \E d \in Drains : m \in call[d].msg
      BY Zenon, <2>1, <3>3 DEF Callers
    <3>4. CASE spent[m] > 0
      <4>1. m \in Prompts
        BY Zenon DEF QueueInv, QueueTypes
      <4>. QED
        BY <1>2, <2>2, <3>4, <4>1
    <3>. QED
      BY Zenon, <3>2, <3>3, <3>4 DEF QueueInv, PromptsKept
  <2>8. ASSUME NEW m \in Prompts
        PROVE  Counted(m)'
    <3>1. Hold(m)' \subseteq Hold(m) \ {c} /\ Live(m)' = Live(m)
      BY Zenon, <1>1, <2>1 DEF Hold, Live
    <3>2. CASE m \notin call[c].msg
      BY <1>1, <2>2, <3>1, <3>2, CallerFacts, CountKept DEF QueueTypes
    <3>3. CASE m \in call[c].msg
      <4>. DEFINE h == Cardinality(Hold(m))
                  l == Cardinality(Live(m))
                  g == Cardinality(Hold(m)')
      <4>1. c \in Hold(m) /\ IsFiniteSet(Live(m)) /\ IsFiniteSet(Hold(m))
        BY Zenon, <3>3, CallerFacts, Finite DEF Hold
      <4>2. h \in Nat /\ g \in Nat /\ g + 1 <= h /\ l \in Nat
        BY Zenon, <3>1, <4>1, CardBounds
      <4>3. spent[m] \in Nat /\ excess[m] \in Nat /\ spent[m] + l + h <= 1 + excess[m]
        BY Zenon DEF QueueInv, QueueTypes, Counted
      <4>. HIDE DEF h, l, g
      <4>4. spent'[m] + l + g <= 1 + excess[m]
        BY <2>2, <3>3, <4>2, <4>3
      <4>. QED
        BY Zenon, <1>1, <3>1, <4>4 DEF Counted, l, g
    <3>. QED
      BY Zenon, <3>2, <3>3
  <2>. QED
    BY Zenon, <2>3, <2>5, <2>6, <2>7, <2>8 DEF QueueInv
<1>4. CASE call' = [call EXCEPT ![c] = [@ EXCEPT !.pc = "ensure", !.to = "publish"]] /\ UNCHANGED spent
  <2>. DEFINE r == [call[c] EXCEPT !.pc = "ensure", !.to = "publish"]
  <2>1. r \in CallType /\ r.pc = "ensure" /\ r.to = "publish" /\ r.msg = call[c].msg /\ r.seq = 0
    BY Zenon, <1>2, CallerFacts DEF CallType, Calls
  <2>2. call' = [call EXCEPT ![c] = r]
    BY Zenon, <1>4
  <2>. HIDE DEF r
  <2>3. /\ call' \in [Callers -> CallType] /\ call'[c] = r
        /\ \A d \in Callers \ {c} : call'[d] = call[d]
    BY Zenon, <2>1, <2>2, CallerFacts, Updated
  <2>4. CallInv(c)' /\ call'[c].pc # "ack" /\ call'[c].msg = call[c].msg
    BY Zenon, <2>1, <2>3, CallerFacts DEF CallInv, Free
  <2>. QED
    BY Zenon, <1>1, <1>4, <2>3, <2>4, PlainStep
<1>. QED
  BY Zenon, <1>3, <1>4 DEF Decide

\* A launch fails after its sandbox was created: the prompt is spent and stays in the
\* drain's hands, and one more sandbox is allowed for.
LEMMA StepLaunch ==
  ASSUME QueueInv, NEW c \in Callers, LaunchFails(c)
  PROVE  QueueInv'
<1>. DEFINE r == [call[c] EXCEPT !.pc = "ensure", !.to = "publish"]
<1>1. /\ call[c].pc = "decide" /\ UNCHANGED <<stream, out, taken, gone>>
      /\ spent' = Count(spent, call[c].msg) /\ excess' = Count(excess, call[c].msg)
  BY Zenon DEF LaunchFails, In, natsq
<1>2. /\ call[c].seq = 0 /\ c \in Drains
      /\ spent \in [Prompts -> Nat] /\ excess \in [Prompts -> Nat]
      /\ \A m \in call[c].msg : Doubted(m)
  BY Zenon, <1>1, CallerFacts DEF CallInv, QueueTypes
<1>3. r \in CallType /\ r.pc = "ensure" /\ r.to = "publish" /\ r.msg = call[c].msg /\ r.seq = 0
  BY Zenon, <1>2, CallerFacts DEF CallType, Calls
<1>4. call' = [call EXCEPT ![c] = r]
  BY Zenon DEF LaunchFails
<1>. HIDE DEF r
<1>5. /\ call' \in [Callers -> CallType] /\ call'[c] = r
      /\ \A d \in Callers \ {c} : call'[d] = call[d]
  BY Zenon, <1>3, <1>4, CallerFacts, Updated
<1>6. \A d \in Callers : call'[d].msg = call[d].msg
  BY Zenon, <1>3, <1>5
<1>7. /\ spent' \in [Prompts -> Nat] /\ excess' \in [Prompts -> Nat]
      /\ \A m \in Prompts :
           /\ spent[m] <= spent'[m] /\ excess[m] <= excess'[m]
           /\ spent'[m] = IF m \in call[c].msg THEN spent[m] + 1 ELSE spent[m]
           /\ excess'[m] = IF m \in call[c].msg THEN excess[m] + 1 ELSE excess[m]
  BY <1>1, <1>2, CountFacts
<1>8. QueueTypes'
  BY Zenon, <1>1, <1>5, <1>7 DEF QueueInv, QueueTypes
<1>9. \A m \in Prompts : Doubted(m) => Doubted(m)'
  <2>1. \A m \in Prompts : excess[m] > 0 => excess'[m] > 0
    BY <1>2, <1>7
  <2>. QED
    BY Zenon, <1>1, <2>1 DEF Doubted
<1>10. SeqInv'
  <2>1. \A e \in stream : e.msg \in Prompts
    BY Zenon DEF QueueInv, QueueTypes
  <2>2. \A m \in Prompts : spent'[m] > 0 => Doubted(m)'
    BY Zenon, <1>2, <1>7, <1>9 DEF QueueInv, SeqInv
  <2>. QED
    BY Zenon, <1>1, <1>9, <2>1, <2>2 DEF QueueInv, SeqInv
<1>11. ASSUME NEW d \in Callers
       PROVE  CallInv(d)' /\ AckInv(d)'
  <2>1. CASE d = c
    <3>1. call[c].msg # {} => \E m \in Prompts : call[c].msg = {m}
      BY Zenon, CallerFacts DEF CallInv
    <3>. QED
      BY Zenon, <1>3, <1>5, <2>1, <3>1 DEF CallInv, AckInv, In, Free
  <2>2. CASE d # c
    <3>1. CallInv(d)'
      BY Zenon, <1>5, <1>9, <2>2, OthersKept
    <3>2. In(d, "ack") => call[d].seq # 0
      BY Zenon DEF QueueInv, AckInv
    <3>3. AckInv(d)'
      BY Zenon, <1>1, <1>3, <1>5, <2>2, <3>2, AckKept
    <3>. QED
      BY Zenon, <3>1, <3>3
  <2>. QED
    BY Zenon, <2>1, <2>2
<1>12. PromptsKept'
  <2>1. SUFFICES ASSUME NEW m \in taken
                 PROVE  \/ \E e \in stream : e.msg = m
                        \/ \E d \in Drains : m \in call'[d].msg
                        \/ spent'[m] > 0 \/ m \in gone
    BY Zenon, <1>1 DEF PromptsKept
  <2>2. CASE spent[m] > 0
    <3>1. m \in Prompts
      BY Zenon DEF QueueInv, QueueTypes
    <3>. QED
      BY <1>2, <1>7, <2>2, <3>1
  <2>3. \A d \in Drains : d \in Callers
    BY Zenon DEF Callers
  <2>. QED
    BY Zenon, <1>6, <2>2, <2>3 DEF QueueInv, PromptsKept
<1>13. ASSUME NEW m \in Prompts
       PROVE  Counted(m)'
  <2>. DEFINE h == Cardinality(Hold(m))
              l == Cardinality(Live(m))
  <2>1. Hold(m)' = Hold(m) /\ Live(m)' = Live(m)
    BY Zenon, <1>1, <1>6 DEF Hold, Live
  <2>2. IsFiniteSet(Live(m)) /\ IsFiniteSet(Hold(m))
    BY Zenon, Finite DEF QueueInv
  <2>3. h \in Nat /\ l \in Nat
    BY Zenon, <2>2, CardBounds
  <2>4. spent[m] \in Nat /\ excess[m] \in Nat /\ spent[m] + l + h <= 1 + excess[m]
    BY Zenon DEF QueueInv, QueueTypes, Counted
  <2>. HIDE DEF h, l
  <2>5. spent'[m] + l + h <= 1 + excess'[m]
    BY <1>7, <2>3, <2>4
  <2>. QED
    BY Zenon, <2>1, <2>5 DEF Counted, h, l
<1>. QED
  BY Zenon, <1>8, <1>10, <1>11, <1>12, <1>13 DEF QueueInv

\* A drain fetches what is not out: the copy in the stream becomes one in its hands.
LEMMA StepFetch ==
  ASSUME QueueInv, NEW c \in Drains, FetchOne(c)
  PROVE  QueueInv'
<1>1. /\ c \in Callers /\ call[c].pc = "fetch"
      /\ UNCHANGED <<stream, taken, spent, excess, gone>>
  BY Zenon DEF FetchOne, In, Callers
<1>2. Free(c) /\ call[c].msg = {} /\ call[c].seq = 0
  BY Zenon, <1>1, CallerFacts DEF CallInv, Free
<1>3. CASE Nothing(c) /\ UNCHANGED out
  BY Zenon, <1>1, <1>2, <1>3, StepRelease
<1>4. ASSUME NEW e \in Offerable, out' = out \cup {e.seq},
             call' = [call EXCEPT ![c] = [@ EXCEPT !.pc = "ack", !.msg = {e.msg}, !.seq = e.seq]]
      PROVE  QueueInv'
  <2>. DEFINE r == [call[c] EXCEPT !.pc = "ack", !.msg = {e.msg}, !.seq = e.seq]
  <2>1. /\ e \in stream /\ e.seq \notin out /\ e.msg \in Prompts /\ e.seq \in Nat /\ e.seq # 0
        /\ Doubted(e.msg)
    BY Zenon DEF Offerable, QueueInv, QueueTypes, SeqInv
  <2>2. r \in CallType /\ r.pc = "ack" /\ r.msg = {e.msg} /\ r.seq = e.seq
    BY Zenon, <1>1, <2>1, CallerFacts DEF CallType, Calls
  <2>3. call' = [call EXCEPT ![c] = r]
    BY Zenon, <1>4
  <2>. HIDE DEF r
  <2>4. /\ call' \in [Callers -> CallType] /\ call'[c] = r
        /\ \A d \in Callers \ {c} : call'[d] = call[d]
    BY Zenon, <1>1, <2>2, <2>3, CallerFacts, Updated
  <2>5. ASSUME NEW d \in Callers \ {c}
        PROVE  call[d].seq # e.seq
    <3>1. AckInv(d) /\ CallInv(d)
      BY Zenon, CallerFacts
    <3>2. CASE In(d, "ack")
      BY Zenon, <2>1, <3>1, <3>2 DEF AckInv
    <3>3. CASE ~In(d, "ack")
      BY Zenon, <2>1, <3>1, <3>3 DEF CallInv, In
    <3>. QED
      BY Zenon, <3>2, <3>3
  <2>6. QueueTypes' /\ SeqInv' /\ \A m \in Prompts : Doubted(m) => Doubted(m)'
    BY Zenon, <1>1, <2>4 DEF QueueInv, QueueTypes, SeqInv, Doubted
  <2>7. CallInv(c)' /\ AckInv(c)'
    <3>1. CallInv(c)'
      BY Zenon, <2>1, <2>2, <2>4, <2>6 DEF CallInv, Free
    <3>2. \A f \in stream : f.seq = e.seq => f = e
      BY Zenon, <2>1 DEF QueueInv, SeqInv
    <3>3. AckInv(c)'
      BY Zenon, <1>1, <1>4, <2>1, <2>2, <2>4, <2>5, <3>2 DEF AckInv, In
    <3>. QED
      BY Zenon, <3>1, <3>3
  <2>8. ASSUME NEW d \in Callers \ {c}
        PROVE  CallInv(d)' /\ AckInv(d)'
    <3>1. CallInv(d)'
      BY Zenon, <2>4, <2>6, OthersKept
    <3>2. AckInv(d)'
      BY Zenon, <1>1, <1>4, <2>2, <2>4, <2>5, AckKept
    <3>. QED
      BY Zenon, <3>1, <3>2
  <2>9. PromptsKept'
    <3>1. \A d \in Drains : call[d].msg \subseteq call'[d].msg
      BY Zenon, <1>2, <2>4 DEF Callers
    <3>. QED
      BY Zenon, <1>1, <3>1 DEF QueueInv, PromptsKept
  <2>10. ASSUME NEW m \in Prompts
         PROVE  Counted(m)'
    <3>1. CASE m # e.msg
      <4>1. Live(m)' \subseteq Live(m) /\ Hold(m)' \subseteq Hold(m)
        BY Zenon, <1>1, <1>4, <2>2, <2>4, <3>1 DEF Live, Hold
      <4>. QED
        BY <1>1, <4>1, CallerFacts, CountKept DEF QueueTypes
    <3>2. CASE m = e.msg
      <4>. DEFINE h == Cardinality(Hold(m))
                  l == Cardinality(Live(m))
                  g == Cardinality(Hold(m)')
                  k == Cardinality(Live(m)')
      <4>1. IsFiniteSet(Live(m)) /\ IsFiniteSet(Hold(m))
        BY Zenon, <1>1, CallerFacts, Finite
      <4>2. /\ Live(m)' \subseteq Live(m) \ {e} /\ e \in Live(m)
            /\ Hold(m)' \subseteq Hold(m) \cup {c}
        BY Zenon, <1>1, <1>4, <2>1, <2>4, <3>2 DEF Live, Hold
      <4>3. l \in Nat /\ k \in Nat /\ k + 1 <= l
        BY Zenon, <4>1, <4>2, CardBounds
      <4>4. h \in Nat /\ g \in Nat /\ g <= h + 1
        BY <4>1, <4>2, CardBounds
      <4>5. spent[m] \in Nat /\ excess[m] \in Nat /\ spent[m] + l + h <= 1 + excess[m]
        BY Zenon DEF QueueInv, QueueTypes, Counted
      <4>. HIDE DEF h, l, g, k
      <4>6. spent[m] + k + g <= 1 + excess[m]
        BY <4>3, <4>4, <4>5
      <4>. QED
        BY Zenon, <1>1, <4>6 DEF Counted, g, k
    <3>. QED
      BY Zenon, <3>1, <3>2
  <2>. QED
    BY Zenon, <2>6, <2>7, <2>8, <2>9, <2>10 DEF QueueInv
<1>. QED
  BY Zenon, <1>3, <1>4 DEF FetchOne

\* An acknowledgement takes the message off the stream; the drain still has it.
LEMMA StepAck ==
  ASSUME QueueInv, NEW c \in Callers, DequeueAck(c)
  PROVE  QueueInv'
<1>. DEFINE r == [call[c] EXCEPT !.pc = "decide", !.seq = 0]
<1>1. /\ In(c, "ack") /\ UNCHANGED <<taken, spent, excess>> /\ gone \subseteq gone'
      /\ (call[c].msg \subseteq Malformed /\ Nothing(c)) \/ call' = [call EXCEPT ![c] = r]
  BY Zenon DEF DequeueAck
<1>2. /\ c \in Drains /\ (\A m \in call[c].msg : Doubted(m)) /\ call[c].seq # 0
      /\ call[c].msg = {} \/ \E m \in Prompts : call[c].msg = {m}
  BY Zenon, <1>1, CallerFacts DEF CallInv, AckInv, In
<1>3. r \in CallType /\ r.pc = "decide" /\ r.seq = 0 /\ r.msg = call[c].msg
  BY Zenon, CallerFacts DEF CallType, Calls
<1>. HIDE DEF r
<1>4. /\ call' \in [Callers -> CallType]
      /\ \A d \in Callers \ {c} : call'[d] = call[d]
      /\ call'[c].seq = 0
      /\ \/ /\ call[c].msg \subseteq Malformed /\ Nothing(c) /\ call'[c].msg = {}
            /\ call'[c].pc = "idle" \/ (call'[c].pc = "ensure" /\ call'[c].to = "consumer")
         \/ call'[c].msg = call[c].msg /\ call'[c].pc = "decide"
  BY Zenon, <1>1, <1>3, CallerFacts, Released, Updated
<1>5. \A m \in Prompts : Doubted(m) => Doubted(m)'
  BY Zenon, <1>1 DEF Doubted
<1>6. CallInv(c)' /\ call'[c].pc # "ack" /\ AckInv(c)'
  <2>1. \A m \in call[c].msg : Doubted(m)'
    BY Zenon, <1>2, <1>5, CallerFacts
  <2>. QED
    BY Zenon, <1>2, <1>4, <2>1 DEF CallInv, Free, AckInv, In
<1>7. CASE UNCHANGED <<stream, out, gone>>
  <2>1. \A m \in call[c].msg : m \in gone \/ \E e \in stream : e.msg = m
    BY Zenon, <1>1, StillThere
  <2>2. call'[c].msg \subseteq call[c].msg
    BY Zenon, <1>4
  <2>. QED
    BY Zenon, <1>1, <1>4, <1>6, <1>7, <2>1, <2>2, PlainStep
<1>8. CASE Acknowledged(c) /\ gone' = gone \cup (call[c].msg \cap Malformed)
  <2>1. /\ stream' = {e \in stream : e.seq # call[c].seq}
        /\ out' = out \ {call[c].seq}
    BY Zenon, <1>8 DEF Acknowledged
  <2>2. stream' \subseteq stream
    BY Zenon, <2>1
  <2>3. QueueTypes'
    <3>1. IsFiniteSet(stream')
      BY Zenon, <2>2, CallerFacts, FS_Subset DEF QueueTypes
    <3>. QED
      BY Zenon, <1>1, <1>4, <2>2, <3>1, CallerFacts DEF QueueTypes
  <2>4. SeqInv'
    BY Zenon, <1>1, <2>2 DEF QueueInv, SeqInv, Doubted
  <2>5. ASSUME NEW d \in Callers \ {c}
        PROVE  CallInv(d)' /\ AckInv(d)'
    <3>1. CallInv(d)'
      BY Zenon, <1>4, <1>5, OthersKept
    <3>2. In(d, "ack") => call[d].seq # 0 /\ call[d].seq # call[c].seq
      BY Zenon DEF QueueInv, AckInv
    <3>3. AckInv(d)'
      BY Zenon, <1>1, <1>4, <2>1, <3>2, AckKept
    <3>. QED
      BY Zenon, <3>1, <3>3
  <2>6. PromptsKept'
    <3>1. SUFFICES ASSUME NEW m \in taken
                   PROVE  \/ \E e \in stream' : e.msg = m
                          \/ \E d \in Drains : m \in call'[d].msg
                          \/ spent[m] > 0 \/ m \in gone'
      BY Zenon, <1>1 DEF PromptsKept
    <3>2. CASE m \in call[c].msg
      BY Zenon, <1>2, <1>4, <1>8, <3>2
    <3>3. CASE m \notin call[c].msg
      <4>1. CASE \E d \in Drains : m \in call[d].msg
        BY Zenon, <1>4, <3>3, <4>1 DEF Callers
      <4>2. CASE \E e \in stream : e.msg = m
        <5>1. PICK e \in stream : e.msg = m
          BY Zenon, <4>2
        <5>2. e.seq # call[c].seq
          BY Zenon, <1>1, <3>3, <5>1, CallerFacts DEF AckInv
        <5>. QED
          BY Zenon, <2>1, <5>1, <5>2
      <4>. QED
        BY Zenon, <1>1, <4>1, <4>2 DEF QueueInv, PromptsKept
    <3>. QED
      BY Zenon, <3>2, <3>3
  <2>7. ASSUME NEW m \in Prompts
        PROVE  Counted(m)'
    <3>1. Live(m)' \subseteq Live(m)
      BY Zenon, <2>1 DEF Live
    <3>2. Hold(m)' \subseteq Hold(m)
      BY Zenon, <1>4 DEF Hold
    <3>. QED
      BY <1>1, <3>1, <3>2, CallerFacts, CountKept DEF QueueTypes
  <2>. QED
    BY Zenon, <1>6, <2>3, <2>4, <2>5, <2>6, <2>7 DEF QueueInv
<1>. QED
  BY Zenon, <1>7, <1>8 DEF DequeueAck

\* JetStream offers a message again: one more copy, and one more in excess.
LEMMA StepOffer ==
  ASSUME QueueInv, NEW e \in stream, Offer(e)
  PROVE  QueueInv'
<1>1. /\ UNCHANGED <<stream, call, taken, spent, gone>> /\ out' = out \ {e.seq}
      /\ excess' = Count(excess, {e.msg}) /\ \A c \in Drains : call[c].seq # e.seq
  BY Zenon DEF Offer
<1>2. /\ excess \in [Prompts -> Nat] /\ e.msg \in Prompts
  BY Zenon DEF QueueInv, QueueTypes
<1>3. /\ excess' \in [Prompts -> Nat]
      /\ \A m \in Prompts : /\ excess[m] <= excess'[m] /\ excess[m] \in Nat /\ excess'[m] \in Nat
                            /\ excess'[m] = IF m \in {e.msg} THEN excess[m] + 1 ELSE excess[m]
  BY <1>1, <1>2, CountFacts
<1>4. \A m \in Prompts : Doubted(m) => Doubted(m)'
  <2>1. \A m \in Prompts : excess[m] > 0 => excess'[m] > 0
    BY <1>3
  <2>. QED
    BY Zenon, <1>1, <2>1 DEF Doubted
<1>5. QueueTypes'
  BY Zenon, <1>1, <1>3 DEF QueueInv, QueueTypes
<1>6. SeqInv'
  <2>1. \A f \in stream : f.msg \in Prompts
    BY Zenon DEF QueueInv, QueueTypes
  <2>. QED
    BY Zenon, <1>1, <1>4, <2>1 DEF QueueInv, SeqInv
<1>7. ASSUME NEW d \in Callers
      PROVE  CallInv(d)' /\ AckInv(d)'
  <2>1. CallInv(d)'
    BY Zenon, <1>1, <1>4, OthersKept
  <2>2. In(d, "ack") => d \in Drains /\ \A b \in Callers \ {d} : call[b].seq # call[d].seq
    BY Zenon, CallerFacts DEF CallInv, AckInv, In
  <2>3. AckInv(d)'
    BY Zenon, <1>1, <2>2, AckStays
  <2>. QED
    BY Zenon, <2>1, <2>3
<1>8. PromptsKept'
  BY Zenon, <1>1 DEF QueueInv, PromptsKept
<1>9. ASSUME NEW m \in Prompts
      PROVE  Counted(m)'
  <2>1. Hold(m)' = Hold(m)
    BY Zenon, <1>1 DEF Hold
  <2>2. CASE m # e.msg
    <3>1. Live(m)' \subseteq Live(m)
      <4>1. ASSUME NEW f \in stream, f.msg = m, f.seq \notin out \ {e.seq}
            PROVE  f.seq \notin out
        BY Zenon, <2>2, <4>1 DEF QueueInv, SeqInv
      <4>. QED
        BY Zenon, <1>1, <4>1 DEF Live
    <3>. QED
      BY Zenon, <1>1, <1>3, <2>1, <3>1, CountKept
  <2>3. CASE m = e.msg
    <3>. DEFINE h == Cardinality(Hold(m))
                l == Cardinality(Live(m))
                k == Cardinality(Live(m)')
    <3>1. IsFiniteSet(Live(m)) /\ IsFiniteSet(Hold(m))
      BY Zenon, Finite DEF QueueInv
    <3>2. Live(m)' \subseteq Live(m) \cup {e}
      <4>1. ASSUME NEW f \in stream, f.seq \notin out \ {e.seq}, f # e
            PROVE  f.seq \notin out
        BY Zenon, <4>1 DEF QueueInv, SeqInv
      <4>. QED
        BY Zenon, <1>1, <4>1 DEF Live
    <3>3. h \in Nat
      BY Zenon, <3>1, CardBounds
    <3>4. l \in Nat /\ k \in Nat /\ k <= l + 1
      BY Zenon, <3>1, <3>2, CardBounds
    <3>5. spent[m] \in Nat /\ excess[m] \in Nat /\ spent[m] + l + h <= 1 + excess[m]
      BY Zenon DEF QueueInv, QueueTypes, Counted
    <3>6. excess'[m] = excess[m] + 1
      BY Zenon, <1>3, <2>3
    <3>. HIDE DEF h, l, k
    <3>7. spent[m] + k + h <= 1 + excess'[m]
      BY <3>3, <3>4, <3>5, <3>6
    <3>. QED
      BY Zenon, <1>1, <2>1, <3>7 DEF Counted, h, k
  <2>. QED
    BY Zenon, <2>2, <2>3
<1>. QED
  BY Zenon, <1>5, <1>6, <1>7, <1>8, <1>9 DEF QueueInv

\* The stream is lost with what it held.
LEMMA StepLose ==
  ASSUME QueueInv, LoseStream
  PROVE  QueueInv'
<1>1. UNCHANGED <<call, taken, spent, excess>>
  BY Zenon DEF LoseStream
<1>2. /\ stream' \subseteq stream /\ gone \subseteq gone'
      /\ \A e \in stream : e \in stream' \/ e.msg \in gone'
      /\ \A e \in stream' : e.seq \in out => e.seq \in out'
  <2>1. CASE stream' = {} /\ gone' = gone \cup {e.msg : e \in stream}
    BY Zenon, <2>1
  <2>2. CASE \E e \in stream :
               stream' = stream \ {e} /\ out' = out \ {e.seq} /\ gone' = gone \cup {e.msg}
    <3>1. PICK e \in stream :
            stream' = stream \ {e} /\ out' = out \ {e.seq} /\ gone' = gone \cup {e.msg}
      BY Zenon, <2>2
    <3>2. \A f \in stream : f.seq = e.seq => f = e
      BY Zenon DEF QueueInv, SeqInv
    <3>. QED
      BY Zenon, <3>1, <3>2
  <2>. QED
    BY Zenon, <2>1, <2>2 DEF LoseStream
<1>3. QueueTypes'
  <2>1. IsFiniteSet(stream')
    BY Zenon, <1>2, FS_Subset DEF QueueInv, QueueTypes
  <2>. QED
    BY Zenon, <1>1, <1>2, <2>1 DEF QueueInv, QueueTypes
<1>4. SeqInv'
  BY Zenon, <1>1, <1>2 DEF QueueInv, SeqInv, Doubted
<1>5. \A m \in Prompts : Doubted(m) => Doubted(m)'
  BY Zenon, <1>1 DEF Doubted
<1>6. ASSUME NEW d \in Callers
      PROVE  CallInv(d)' /\ AckInv(d)'
  <2>1. CallInv(d)'
    BY Zenon, <1>1, <1>5, OthersKept
  <2>2. In(d, "ack") => \A b \in Callers \ {d} : call[b].seq # call[d].seq
    BY Zenon, CallerFacts DEF AckInv
  <2>3. AckInv(d)'
    BY Zenon, <1>1, <1>2, <2>2, AckStays
  <2>. QED
    BY Zenon, <2>1, <2>3
<1>7. PromptsKept'
  BY Zenon, <1>1, <1>2 DEF QueueInv, PromptsKept
<1>8. ASSUME NEW m \in Prompts
      PROVE  Counted(m)'
  <2>1. Live(m)' \subseteq Live(m) /\ Hold(m)' \subseteq Hold(m)
    BY Zenon, <1>1, <1>2 DEF Live, Hold
  <2>2. excess[m] \in Nat
    BY Zenon DEF QueueInv, QueueTypes
  <2>. QED
    BY <1>1, <2>1, <2>2, CountKept
<1>. QED
  BY Zenon, <1>3, <1>4, <1>6, <1>7, <1>8 DEF QueueInv

\* The process starts again; what its callers held is lost with it.
LEMMA StepReboot ==
  ASSUME QueueInv, Reboot
  PROVE  QueueInv'
<1>1. /\ UNCHANGED <<stream, out, taken, spent, excess>> /\ gone \subseteq gone'
      /\ call' = [c \in Callers |-> AtRest]
      /\ \A c \in Callers : call[c].msg \subseteq gone'
  BY Zenon DEF Reboot, natsq
<1>2. AtRest \in CallType /\ AtRest.pc = "idle" /\ AtRest.msg = {} /\ AtRest.seq = 0
  BY Zenon DEF AtRest, CallType, Calls
<1>3. \A c \in Callers : call'[c] = AtRest
  BY Zenon, <1>1
<1>4. QueueTypes' /\ SeqInv'
  BY Zenon, <1>1, <1>2 DEF QueueInv, QueueTypes, SeqInv, Doubted
<1>5. \A c \in Callers : CallInv(c)' /\ AckInv(c)'
  BY Zenon, <1>2, <1>3 DEF CallInv, AckInv, In, Free
<1>6. PromptsKept'
  <2>1. \A c \in Drains : call[c].msg \subseteq gone'
    BY Zenon, <1>1 DEF Callers
  <2>. QED
    BY Zenon, <1>1, <2>1 DEF QueueInv, PromptsKept
<1>7. ASSUME NEW m \in Prompts
      PROVE  Counted(m)'
  <2>1. Live(m)' \subseteq Live(m) /\ Hold(m)' \subseteq Hold(m)
    BY Zenon, <1>1, <1>2, <1>3 DEF Live, Hold
  <2>2. excess[m] \in Nat
    BY Zenon DEF QueueInv, QueueTypes
  <2>. QED
    BY <1>1, <2>1, <2>2, CountKept
<1>. QED
  BY Zenon, <1>4, <1>5, <1>6, <1>7 DEF QueueInv

\* The queue starts empty.
LEMMA QueueStart == QueueInit => QueueInv
<1>. SUFFICES ASSUME QueueInit
              PROVE  QueueInv
  BY Zenon
<1>1. AtRest \in CallType /\ AtRest.pc = "idle" /\ AtRest.msg = {} /\ AtRest.seq = 0
  BY Zenon DEF AtRest, CallType, Calls
<1>2. /\ stream = {} /\ taken = {} /\ call = [c \in Callers |-> AtRest]
      /\ spent = [m \in Prompts |-> 0] /\ excess = [m \in Prompts |-> 0]
  BY Zenon DEF QueueInit
<1>3. \A c \in Callers : call[c] = AtRest
  BY Zenon, <1>2
<1>4. QueueTypes /\ SeqInv /\ PromptsKept
  BY <1>1, <1>2, FS_EmptySet DEF QueueTypes, SeqInv, PromptsKept
<1>5. \A c \in Callers : CallInv(c) /\ AckInv(c)
  BY Zenon, <1>1, <1>3 DEF CallInv, AckInv, In, Free
<1>6. ASSUME NEW m \in Prompts
      PROVE  Counted(m)
  <2>1. Live(m) = {} /\ Hold(m) = {}
    BY Zenon, <1>1, <1>2, <1>3 DEF Live, Hold
  <2>. QED
    BY <1>2, <2>1, FS_EmptySet DEF Counted
<1>. QED
  BY Zenon, <1>4, <1>5, <1>6 DEF QueueInv

\* Every step keeps the invariant.
LEMMA QueueStep == QueueInv /\ [QueueNext]_work => QueueInv'
<1>. SUFFICES ASSUME QueueInv, [QueueNext]_work
              PROVE  QueueInv'
  BY Zenon
<1>. USE DEF Callers
<1>1. ASSUME NEW c \in Producers, NEW m \in Prompts, Produce(c, m)
      PROVE  QueueInv'
  BY Zenon, <1>1, StepProduce
<1>2. ASSUME NEW c \in Callers, LookUp(c) \/ CreateStream(c)
      PROVE  QueueInv'
  BY Zenon, <1>2, StepLookUp
<1>3. ASSUME NEW c \in Callers, EnqueuePublish(c) \/ EnqueueFails(c)
      PROVE  QueueInv'
  BY Zenon, <1>3, StepPublish
<1>4. ASSUME NEW c \in Drains, Drain(c) \/ MakeConsumer(c) \/ FetchGone(c)
      PROVE  QueueInv'
  BY Zenon, <1>4, StepDrain, StepConsumer
<1>5. ASSUME NEW c \in Drains, FetchOne(c)
      PROVE  QueueInv'
  BY Zenon, <1>5, StepFetch
<1>6. ASSUME NEW c \in Drains, DequeueAck(c) \/ Decide(c) \/ DequeueAckFails(c) \/ LaunchFails(c)
      PROVE  QueueInv'
  BY Zenon, <1>6, StepAck, StepDecide, StepAckFails, StepLaunch
<1>7. ASSUME NEW e \in stream, Offer(e)
      PROVE  QueueInv'
  BY Zenon, <1>7, StepOffer
<1>8. CASE LoseStream \/ Reboot
  BY Zenon, <1>8, StepLose, StepReboot
<1>9. CASE UNCHANGED work
  <2>1. UNCHANGED <<stream, out, call, taken, spent, excess, gone>>
    BY Zenon, <1>9 DEF work, natsq
  <2>. QED
    BY <2>1 DEF QueueInv, QueueTypes, SeqInv, CallInv, AckInv, PromptsKept, Counted, Live,
                Hold, Doubted, Free, In
<1>. QED
  BY Zenon, <1>1, <1>2, <1>3, <1>4, <1>5, <1>6, <1>7, <1>8, <1>9 DEF QueueNext, DrainStep

\* For any number of producers, drains and prompts, and whatever streams, calls, replies and
\* processes are lost, a prompt that Enqueue accepted is in the stream, in a drain's hands or
\* spent, or went with the stream, a crash or an error that is logged: no order of the calls
\* of Enqueue and Dequeue loses it silently.
THEOREM PromptsTheorem == QueueSpec => []PromptsKept
<1>1. QueueInv => PromptsKept
  BY Zenon DEF QueueInv
<1>. QED
  BY <1>1, QueueStart, QueueStep, PTL DEF QueueSpec

\* For any number of drains, at most one sandbox is started for a prompt, and one more for
\* each time JetStream offers it again or Enqueue may have stored it twice: of the copies in
\* the stream and in the hands of drains no step makes two.
THEOREM SpentTheorem == QueueSpec => []SpentOnce
<1>1. QueueInv => SpentOnce
  <2>. SUFFICES ASSUME QueueInv, NEW m \in Prompts
                PROVE  spent[m] <= 1 + excess[m]
    BY Zenon DEF SpentOnce
  <2>. DEFINE l == Cardinality(Live(m))
              h == Cardinality(Hold(m))
  <2>1. IsFiniteSet(Live(m)) /\ IsFiniteSet(Hold(m))
    BY Zenon, Finite DEF QueueInv
  <2>2. l \in Nat /\ h \in Nat
    BY Zenon, <2>1, CardBounds
  <2>3. spent[m] \in Nat /\ excess[m] \in Nat /\ spent[m] + l + h <= 1 + excess[m]
    BY Zenon DEF QueueInv, QueueTypes, Counted
  <2>. HIDE DEF l, h
  <2>. QED
    BY <2>2, <2>3
<1>. QED
  BY <1>1, QueueStart, QueueStep, PTL DEF QueueSpec

-----------------------------------------------------------------------------
(* The broker. *)

Active == {"loop", "next", "push", "ack"}

\* A reader has the message or finds it in its channel, or it was lost with the channel.
Reached(m) == m \in received \cup lost \/ \E s \in Subs : m \in InChannel(s)

\* Between the push and the acknowledgement the message has been handed over, and a
\* subscription that has not begun has nothing to lose.
DeliveryInv ==
    /\ published \in 0..MaxMessages /\ closed \in BOOLEAN
    /\ sub \in [Subs -> SubState]
    /\ \A s \in Subs : sub[s].pc = "idle" => sub[s].ch = <<>>
    /\ \A s \in Subs : sub[s].pc = "push" => sub[s].msg \in Messages
    /\ \A s \in Subs : sub[s].pc = "ack" => sub[s].msg \in received \cup InChannel(s)
    /\ AckedReached
    /\ CloseReachesAll

\* What every step of one subscription has in common: it turns the record of s into n,
\* takes nothing from the channel that the reader does not get, unless the goroutine is
\* gone and the message counted as lost or not acknowledged, goes on to acknowledge only
\* what is in the channel, and acknowledges only that or what does not parse.
Moves(s, n) ==
    /\ n \in SubState /\ sub' = [sub EXCEPT ![s] = n]
    /\ published' = published /\ closed' = closed /\ bad' = bad
    /\ n.pc = "idle" => n.ch = <<>>
    /\ n.pc = "push" => n.msg \in Messages
    /\ \A m \in Range(sub[s].ch) :
         \/ m \in Range(n.ch) \/ m \in received'
         \/ n.pc # "ack" /\ (m \in lost' \/ m \notin acked')
    /\ received \subseteq received' /\ lost \subseteq lost'
    /\ n.pc = "ack" => n.msg \in Range(n.ch) \/ (sub[s].pc = "ack" /\ n.msg = sub[s].msg)
    /\ \A m \in acked' : m \in acked \/ m \in bad \/ (sub[s].pc = "ack" /\ m = sub[s].msg)
    /\ \A t \in Subs : t # s => (t \in cleanups' <=> t \in cleanups)
    /\ n.pc \in Active => IF closed THEN n.cancelled ELSE s \in cleanups'

----------------------------------------------------------------------------
\* The elements of a sequence after Append and before Tail.
LEMMA Elements ==
    ASSUME NEW S, NEW q \in Seq(S)
    PROVE  /\ \A x \in S : Range(Append(q, x)) = Range(q) \cup {x}
           /\ q # <<>> => Range(q) \subseteq Range(Tail(q)) \cup {Head(q)}
<1>1. ASSUME NEW x \in S
      PROVE  Range(Append(q, x)) = Range(q) \cup {x}
    <2>. DEFINE a == Append(q, x)
    <2>1. /\ DOMAIN a = 1..(Len(q) + 1) /\ DOMAIN q = 1..Len(q) /\ Len(q) \in Nat
          /\ a[Len(q) + 1] = x /\ \A i \in 1..Len(q) : a[i] = q[i]
        BY <1>1
    <2>. HIDE DEF a
    <2>2. Range(a) \subseteq Range(q) \cup {x}
        <3>. SUFFICES ASSUME NEW i \in 1..(Len(q) + 1)
                      PROVE  a[i] \in Range(q) \cup {x}
            BY Zenon, <2>1 DEF Range
        <3>. QED
            BY <2>1 DEF Range
    <2>3. Range(q) \cup {x} \subseteq Range(a)
        <3>1. \A i \in 1..Len(q) : q[i] \in Range(a)
            BY <2>1 DEF Range
        <3>2. x \in Range(a)
            BY <2>1 DEF Range
        <3>. QED
            BY Zenon, <2>1, <3>1, <3>2 DEF Range
    <2>. QED
        BY Zenon, <2>2, <2>3 DEF a
<1>2. ASSUME q # <<>>, NEW i \in DOMAIN q
      PROVE  q[i] \in Range(Tail(q)) \cup {Head(q)}
    <2>1. CASE i = 1
        BY <2>1
    <2>2. CASE i # 1
        <3>1. i - 1 \in 1..Len(Tail(q)) /\ Tail(q)[i - 1] = q[i]
            BY <1>2, <2>2
        <3>. QED
            BY <1>2, <3>1 DEF Range
    <2>. QED
        BY Zenon, <2>1, <2>2
<1>. QED
    BY Zenon, <1>1, <1>2 DEF Range

\* Such a step keeps what has been reached, and with it the invariant.
LEMMA MovesKeep ==
    ASSUME DeliveryInv, NEW s \in Subs, NEW n, Moves(s, n)
    PROVE  DeliveryInv'
<1>1. \A t \in Subs : sub'[t] = IF t = s THEN n ELSE sub[t]
    BY Zenon DEF DeliveryInv, Moves
<1>2. ASSUME NEW m, m \in InChannel(s)
      PROVE  \/ m \in received' \/ m \in InChannel(s)'
             \/ n.pc # "ack" /\ (m \in lost' \/ m \notin acked')
    BY Zenon, <1>1, <1>2 DEF Moves, InChannel
<1>3. /\ published' \in 0..MaxMessages /\ closed' \in BOOLEAN
      /\ sub' \in [Subs -> SubState]
    BY Zenon DEF DeliveryInv, Moves
<1>4. \A t \in Subs : /\ sub'[t].pc = "idle" => sub'[t].ch = <<>>
                      /\ sub'[t].pc = "push" => sub'[t].msg \in Messages
    BY Zenon, <1>1 DEF DeliveryInv, Moves
<1>5. ASSUME NEW t \in Subs, sub'[t].pc = "ack"
      PROVE  sub'[t].msg \in received' \/ sub'[t].msg \in InChannel(t)'
    <2>1. CASE t # s
        BY Zenon, <1>1, <1>5, <2>1 DEF DeliveryInv, InChannel, Moves
    <2>2. CASE t = s /\ n.msg \in Range(n.ch)
        BY Zenon, <1>1, <2>2 DEF InChannel
    <2>3. CASE t = s /\ sub[s].pc = "ack" /\ n.msg = sub[s].msg
        BY Zenon, <1>1, <1>2, <1>5, <2>3 DEF DeliveryInv, Moves
    <2>. QED
        BY Zenon, <1>1, <1>5, <2>1, <2>2, <2>3 DEF Moves
<1>6. AckedReached'
    <2>. SUFFICES ASSUME NEW m \in acked' \ bad'
                  PROVE  Reached(m)'
        BY Zenon DEF AckedReached, Reached
    <2>1. CASE m \in received \cup lost
        BY Zenon, <2>1 DEF Moves, Reached
    <2>2. CASE m \in InChannel(s)
        BY Zenon, <1>2, <2>2 DEF Reached
    <2>3. ASSUME NEW t \in Subs, m \in InChannel(t), t # s
          PROVE  Reached(m)'
        BY Zenon, <1>1, <2>3 DEF Reached, InChannel
    <2>4. CASE m \in acked
        BY Zenon, <2>1, <2>2, <2>3, <2>4 DEF DeliveryInv, AckedReached, Moves
    <2>5. CASE sub[s].pc = "ack" /\ m = sub[s].msg
        BY Zenon, <2>1, <2>2, <2>5 DEF DeliveryInv
    <2>. QED
        BY Zenon, <2>4, <2>5 DEF Moves
<1>7. CloseReachesAll'
    BY Zenon, <1>1 DEF DeliveryInv, CloseReachesAll, Moves, Active
<1>. QED
    BY Zenon, <1>3, <1>4, <1>5, <1>6, <1>7 DEF DeliveryInv

----------------------------------------------------------------------------
\* Init has nothing published, acknowledged or registered.
LEMMA DeliveryStart == Init => DeliveryInv
<1>. SUFFICES ASSUME Init
              PROVE  DeliveryInv
    BY Zenon
<1>1. Idle \in SubState /\ Idle.pc = "idle" /\ Idle.ch = <<>>
    <2>. <<>> \in Seq(Messages)
        OBVIOUS
    <2>. QED
        BY Zenon DEF Idle, SubState
<1>2. sub \in [Subs -> SubState] /\ \A s \in Subs : sub[s] = Idle
    BY Zenon, <1>1 DEF Init
<1>3. published \in 0..MaxMessages
    BY DeliveryAssumption DEF Init
<1>4. closed = FALSE /\ acked = {}
    BY Zenon DEF Init
<1>. QED
    BY Zenon, <1>1, <1>2, <1>3, <1>4 DEF DeliveryInv, AckedReached, CloseReachesAll

\* Deferred calls end the goroutine and leave the channel alone.
LEMMA ExitMoves ==
    ASSUME DeliveryInv, NEW s \in Subs, NEW e \in BOOLEAN, Exit(s, e),
           UNCHANGED <<jetstream, closed, received, lost>>,
           \A m \in acked' : m \in acked
    PROVE  \E n : Moves(s, n)
<1>. DEFINE n == [sub[s] EXCEPT !.pc = "done", !.stopped = TRUE, !.cancelled = TRUE,
                               !.msg = None, !.err = e]
<1>1. n \in SubState /\ n.pc = "done" /\ n.ch = sub[s].ch
    BY Zenon DEF DeliveryInv, SubState
<1>2. sub' = [sub EXCEPT ![s] = n]
    BY Zenon DEF DeliveryInv, SubState, Exit
<1>. HIDE DEF n
<1>3. Moves(s, n)
    BY Zenon, <1>1, <1>2 DEF Moves, Exit, jetstream, Active
<1>. QED
    BY Zenon, <1>3

\* The server's answer goes to the iterator's buffer.
LEMMA DeliverMoves ==
    ASSUME DeliveryInv, NEW s \in Subs, Deliver(s)
    PROVE  \E n : Moves(s, n)
<1>1. PICK m \in Deliverable : sub' = [sub EXCEPT ![s].buf = Append(@, m)]
    BY Zenon DEF Deliver
<1>2. m \in Messages
    BY DeliveryAssumption DEF DeliveryInv, Deliverable, Messages
<1>. DEFINE n == [sub[s] EXCEPT !.buf = Append(@, m)]
<1>3. n \in SubState /\ n.pc = sub[s].pc /\ n.ch = sub[s].ch /\ n.msg = sub[s].msg
      /\ n.cancelled = sub[s].cancelled
    <2>. sub[s] \in SubState
        BY Zenon DEF DeliveryInv
    <2>. Append(sub[s].buf, m) \in Seq(Messages)
        BY <1>2 DEF SubState
    <2>. QED
        BY Zenon DEF SubState
<1>4. sub' = [sub EXCEPT ![s] = n]
    BY Zenon, <1>1 DEF DeliveryInv, SubState
<1>. HIDE DEF n
<1>5. Moves(s, n)
    BY Zenon, <1>3, <1>4 DEF DeliveryInv, CloseReachesAll, Moves, Deliver, Active
<1>. QED
    BY Zenon, <1>5

\* A new subscription starts with an empty channel, as the idle one it was.
LEMMA SubscribeMoves ==
    ASSUME DeliveryInv, NEW s \in Subs, Subscribe(s)
    PROVE  \E n : Moves(s, n)
<1>. DEFINE n == [Idle EXCEPT !.pc = "register", !.reader = TRUE]
<1>1. n \in SubState /\ n.pc = "register" /\ Range(sub[s].ch) = {}
    <2>1. sub[s].ch = <<>>
        BY Zenon DEF DeliveryInv, Subscribe
    <2>2. n \in SubState /\ n.pc = "register"
        <3>. <<>> \in Seq(Messages)
            OBVIOUS
        <3>. QED
            BY Zenon DEF SubState, Idle
    <2>. QED
        BY <2>1, <2>2 DEF Range
<1>2. sub' = [sub EXCEPT ![s] = n]
    BY Zenon DEF DeliveryInv, SubState, Subscribe
<1>. HIDE DEF n
<1>3. Moves(s, n)
    BY Zenon, <1>1, <1>2 DEF DeliveryInv, CloseReachesAll, Moves, Subscribe, jetstream, Active
<1>. QED
    BY Zenon, <1>3

\* A closed broker turns the subscription away, an open one lists it in cleanups.
LEMMA RegisterMoves ==
    ASSUME DeliveryInv, NEW s \in Subs, Register(s)
    PROVE  \E n : Moves(s, n)
<1>1. CASE closed
    <2>. DEFINE n == [sub[s] EXCEPT !.pc = "done", !.stopped = TRUE, !.cancelled = TRUE,
                                   !.reader = FALSE]
    <2>1. n \in SubState /\ n.pc = "done" /\ n.ch = sub[s].ch
        BY Zenon DEF DeliveryInv, SubState
    <2>2. sub' = [sub EXCEPT ![s] = n]
        BY Zenon, <1>1 DEF DeliveryInv, SubState, Register
    <2>. HIDE DEF n
    <2>3. Moves(s, n)
        BY Zenon, <1>1, <2>1, <2>2 DEF DeliveryInv, Moves, Register, jetstream, Active
    <2>. QED
        BY Zenon, <2>3
<1>2. CASE ~closed
    <2>. DEFINE n == [sub[s] EXCEPT !.pc = "loop"]
    <2>1. n \in SubState /\ n.pc = "loop" /\ n.ch = sub[s].ch
        BY Zenon DEF DeliveryInv, SubState
    <2>2. sub' = [sub EXCEPT ![s] = n]
        BY Zenon, <1>2 DEF DeliveryInv, SubState, Register
    <2>. HIDE DEF n
    <2>3. Moves(s, n)
        BY Zenon, <1>2, <2>1, <2>2 DEF DeliveryInv, Moves, Register, jetstream, Active
    <2>. QED
        BY Zenon, <2>3
<1>. QED
    BY Zenon, <1>1, <1>2

\* The top of the loop ends or goes on to iter.Next.
LEMMA LoopMoves ==
    ASSUME DeliveryInv, NEW s \in Subs, Loop(s)
    PROVE  \E n : Moves(s, n)
<1>1. CASE sub[s].cancelled \/ closed
    BY Zenon, <1>1, ExitMoves DEF Loop
<1>2. CASE ~(sub[s].cancelled \/ closed)
    <2>. DEFINE n == [sub[s] EXCEPT !.pc = "next"]
    <2>1. n \in SubState /\ n.pc = "next" /\ n.ch = sub[s].ch
        BY Zenon DEF DeliveryInv, SubState
    <2>2. sub' = [sub EXCEPT ![s] = n]
        BY Zenon, <1>2 DEF DeliveryInv, SubState, Loop
    <2>. HIDE DEF n
    <2>3. Moves(s, n)
        BY Zenon, <1>2, <2>1, <2>2 DEF DeliveryInv, CloseReachesAll, Moves, Loop, jetstream, Active
    <2>. QED
        BY Zenon, <2>3
<1>. QED
    BY Zenon, <1>1, <1>2

\* Stopping the iterator touches neither channel nor message.
LEMMA StopperMoves ==
    ASSUME DeliveryInv, NEW s \in Subs, Stopper(s)
    PROVE  \E n : Moves(s, n)
<1>. DEFINE n == [sub[s] EXCEPT !.stopped = TRUE]
<1>1. n \in SubState /\ n.pc = sub[s].pc /\ n.ch = sub[s].ch /\ n.msg = sub[s].msg
      /\ n.cancelled = sub[s].cancelled
    BY Zenon DEF DeliveryInv, SubState, Stopper
<1>2. sub' = [sub EXCEPT ![s] = n]
    BY Zenon DEF DeliveryInv, SubState, Stopper
<1>. HIDE DEF n
<1>3. Moves(s, n)
    BY Zenon, <1>1, <1>2 DEF DeliveryInv, CloseReachesAll, Moves, Stopper, jetstream, Active
<1>. QED
    BY Zenon, <1>3

\* The message that iter.Next returns becomes the goroutine's own.
LEMMA NextMessageMoves ==
    ASSUME DeliveryInv, NEW s \in Subs, NextMessage(s)
    PROVE  \E n : Moves(s, n)
<1>. DEFINE n == [sub[s] EXCEPT !.pc = "push", !.msg = Head(sub[s].buf), !.buf = Tail(@)]
<1>1. n \in SubState /\ n.pc = "push" /\ n.ch = sub[s].ch /\ n.cancelled = sub[s].cancelled
      /\ n.msg \in Messages
    <2>. sub[s] \in SubState
        BY Zenon DEF DeliveryInv
    <2>. Tail(sub[s].buf) \in Seq(Messages) /\ Head(sub[s].buf) \in Messages
        BY DEF SubState, NextMessage
    <2>. QED
        BY Zenon DEF SubState
<1>2. sub' = [sub EXCEPT ![s] = n]
    BY Zenon DEF DeliveryInv, SubState, NextMessage
<1>. HIDE DEF n
<1>3. Moves(s, n)
    BY Zenon, <1>1, <1>2 DEF DeliveryInv, CloseReachesAll, Moves, NextMessage, jetstream, Active
<1>. QED
    BY Zenon, <1>3

\* What does not parse is the only message acknowledged unread.
LEMMA NextMalformedMoves ==
    ASSUME DeliveryInv, NEW s \in Subs, NextMalformed(s)
    PROVE  \E n : Moves(s, n)
<1>. DEFINE n == [sub[s] EXCEPT !.pc = "loop", !.buf = Tail(@)]
<1>1. n \in SubState /\ n.pc = "loop" /\ n.ch = sub[s].ch /\ n.cancelled = sub[s].cancelled
    <2>. sub[s] \in SubState
        BY Zenon DEF DeliveryInv
    <2>. Tail(sub[s].buf) \in Seq(Messages)
        BY DEF SubState, NextMalformed
    <2>. QED
        BY Zenon DEF SubState
<1>2. sub' = [sub EXCEPT ![s] = n]
    BY Zenon DEF DeliveryInv, SubState, NextMalformed
<1>. HIDE DEF n
<1>3. Moves(s, n)
    BY Zenon, <1>1, <1>2
      DEF DeliveryInv, CloseReachesAll, Moves, NextMalformed, Acknowledge, jetstream, Active
<1>. QED
    BY Zenon, <1>3

\* A failing iterator ends the goroutine.
LEMMA NextErrorMoves ==
    ASSUME DeliveryInv, NEW s \in Subs, NextError(s)
    PROVE  \E n : Moves(s, n)
<1>1. (~sub[s].cancelled) \in BOOLEAN
    BY Zenon
<1>. QED
    BY Zenon, <1>1, ExitMoves DEF NextError

\* A cancelled or closed subscription drops the message unacknowledged.
LEMMA AbortMoves ==
    ASSUME DeliveryInv, NEW s \in Subs, Abort(s)
    PROVE  \E n : Moves(s, n)
BY Zenon, ExitMoves DEF Abort, Refuse

\* A failed acknowledgement ends the goroutine after the push.
LEMMA AckFailsMoves ==
    ASSUME DeliveryInv, NEW s \in Subs, AckFails(s)
    PROVE  \E n : Moves(s, n)
<1>1. (~broker) \in BOOLEAN
    BY Zenon
<1>. QED
    BY Zenon, <1>1, ExitMoves DEF AckFails, Refuse

\* The push puts the message into the channel before the goroutine acknowledges it.
LEMMA PushMoves ==
    ASSUME DeliveryInv, NEW s \in Subs, Push(s)
    PROVE  \E n : Moves(s, n)
<1>. DEFINE n == [sub[s] EXCEPT !.pc = "ack", !.ch = Append(@, sub[s].msg)]
<1>1. /\ n \in SubState /\ n.pc = "ack" /\ n.cancelled = sub[s].cancelled
      /\ Range(n.ch) = Range(sub[s].ch) \cup {n.msg}
    <2>. sub[s] \in SubState /\ sub[s].msg \in Messages
        BY Zenon DEF DeliveryInv, Push
    <2>1. sub[s].ch \in Seq(Messages)
        BY Zenon DEF SubState
    <2>2. /\ Append(sub[s].ch, sub[s].msg) \in Seq(Messages)
          /\ Range(Append(sub[s].ch, sub[s].msg)) = Range(sub[s].ch) \cup {sub[s].msg}
        BY <2>1, Elements
    <2>. QED
        BY Zenon, <2>2 DEF SubState
<1>2. sub' = [sub EXCEPT ![s] = n]
    BY Zenon DEF DeliveryInv, SubState, Push
<1>. HIDE DEF n
<1>3. Moves(s, n)
    BY Zenon, <1>1, <1>2 DEF DeliveryInv, CloseReachesAll, Moves, Push, jetstream, Active
<1>. QED
    BY Zenon, <1>3

\* The acknowledged message is the one that was pushed.
LEMMA AckMoves ==
    ASSUME DeliveryInv, NEW s \in Subs, Ack(s)
    PROVE  \E n : Moves(s, n)
<1>. DEFINE n == [sub[s] EXCEPT !.pc = "loop", !.msg = None]
<1>1. n \in SubState /\ n.pc = "loop" /\ n.ch = sub[s].ch /\ n.cancelled = sub[s].cancelled
    BY Zenon DEF DeliveryInv, SubState
<1>2. sub' = [sub EXCEPT ![s] = n]
    BY Zenon DEF DeliveryInv, SubState, Ack
<1>. HIDE DEF n
<1>3. Moves(s, n)
    BY Zenon, <1>1, <1>2 DEF DeliveryInv, CloseReachesAll, Moves, Ack, Acknowledge, jetstream, Active
<1>. QED
    BY Zenon, <1>3

\* What leaves the channel is what the reader receives.
LEMMA ReceiveMoves ==
    ASSUME DeliveryInv, NEW s \in Subs, Receive(s)
    PROVE  \E n : Moves(s, n)
<1>. DEFINE n == [sub[s] EXCEPT !.ch = Tail(@)]
<1>1. /\ n \in SubState /\ n.pc = sub[s].pc /\ n.msg = sub[s].msg
      /\ n.cancelled = sub[s].cancelled
      /\ Range(sub[s].ch) \subseteq Range(n.ch) \cup {Head(sub[s].ch)}
      /\ sub[s].pc # "idle"
    <2>. sub[s] \in SubState /\ sub[s].ch # <<>> /\ sub[s].pc # "idle"
        BY Zenon DEF DeliveryInv, Receive
    <2>1. sub[s].ch \in Seq(Messages)
        BY Zenon DEF SubState
    <2>2. /\ Tail(sub[s].ch) \in Seq(Messages)
          /\ Range(sub[s].ch) \subseteq Range(Tail(sub[s].ch)) \cup {Head(sub[s].ch)}
        BY <2>1, Elements
    <2>. QED
        BY Zenon, <2>2 DEF SubState
<1>2. sub' = [sub EXCEPT ![s] = n]
    BY Zenon DEF DeliveryInv, SubState, Receive
<1>. HIDE DEF n
<1>3. Moves(s, n)
    BY Zenon, <1>1, <1>2 DEF DeliveryInv, CloseReachesAll, Moves, Receive, jetstream, Active
<1>. QED
    BY Zenon, <1>3

\* A reader that leaves cancels the subscription and abandons the channel as it is.
LEMMA LeaveMoves ==
    ASSUME DeliveryInv, NEW s \in Subs, Leave(s)
    PROVE  \E n : Moves(s, n)
<1>. DEFINE n == [sub[s] EXCEPT !.reader = FALSE, !.cancelled = TRUE]
<1>1. n \in SubState /\ n.pc = sub[s].pc /\ n.ch = sub[s].ch /\ n.msg = sub[s].msg
      /\ n.cancelled = TRUE
    BY Zenon DEF DeliveryInv, SubState
<1>2. sub' = [sub EXCEPT ![s] = n]
    BY Zenon DEF DeliveryInv, SubState, Leave
<1>. HIDE DEF n
<1>3. Moves(s, n)
    BY Zenon, <1>1, <1>2 DEF DeliveryInv, CloseReachesAll, Moves, Leave, jetstream, Active
<1>. QED
    BY Zenon, <1>3

\* A crash ends the goroutine wherever it is.
LEMMA CrashMoves ==
    ASSUME DeliveryInv, NEW s \in Subs, Crash(s)
    PROVE  \E n : Moves(s, n)
<1>. DEFINE n == [sub[s] EXCEPT !.pc = "done", !.stopped = TRUE, !.cancelled = TRUE,
                               !.msg = None, !.ch = <<>>, !.reader = FALSE]
<1>1. n \in SubState /\ n.pc = "done"
    <2>. <<>> \in Seq(Messages)
        OBVIOUS
    <2>. QED
        BY Zenon DEF DeliveryInv, SubState
<1>2. sub' = [sub EXCEPT ![s] = n]
    BY Zenon DEF DeliveryInv, SubState, Crash
<1>. HIDE DEF n
<1>3. Moves(s, n)
    BY Zenon, <1>1, <1>2 DEF DeliveryInv, CloseReachesAll, Moves, Crash, jetstream, Active, InChannel
<1>. QED
    BY Zenon, <1>3

\* Close cancels all it finds in cleanups, and that is every running goroutine.
LEMMA CloseStep ==
    ASSUME DeliveryInv, Close
    PROVE  DeliveryInv'
<1>1. ASSUME NEW s \in Subs
      PROVE  /\ sub'[s] \in SubState
             /\ sub'[s].pc = sub[s].pc /\ sub'[s].ch = sub[s].ch /\ sub'[s].msg = sub[s].msg
             /\ s \in cleanups => sub'[s].cancelled
    BY Zenon DEF DeliveryInv, Close, SubState
<1>2. sub' \in [Subs -> SubState]
    BY Zenon, <1>1 DEF Close
<1>3. \A m : Reached(m)' <=> Reached(m)
    BY Zenon, <1>1 DEF Reached, InChannel, Close
<1>4. AckedReached'
    BY Zenon, <1>3 DEF DeliveryInv, AckedReached, Reached, Close, jetstream
<1>5. CloseReachesAll'
    BY Zenon, <1>1 DEF DeliveryInv, CloseReachesAll, Close
<1>6. \A s \in Subs : sub'[s].pc = "ack" => sub'[s].msg \in received' \cup InChannel(s)'
    BY Zenon, <1>1 DEF DeliveryInv, InChannel, Close
<1>7. published' \in 0..MaxMessages /\ closed'
    BY Zenon DEF DeliveryInv, Close, jetstream
<1>. QED
    BY Zenon, <1>1, <1>2, <1>4, <1>5, <1>6, <1>7 DEF DeliveryInv

\* Publishing, and AckWait expiring, leave the subscriptions alone.
LEMMA ServerStep ==
    ASSUME DeliveryInv, published' \in 0..MaxMessages,
           UNCHANGED <<bad, acked, sub, cleanups, closed, received, lost>>
    PROVE  DeliveryInv'
<1>1. \A m : Reached(m)' <=> Reached(m)
    BY Zenon DEF Reached, InChannel
<1>2. \A s \in Subs : sub'[s].pc = "ack" => sub'[s].msg \in received' \cup InChannel(s)'
    BY Zenon DEF DeliveryInv, InChannel
<1>3. AckedReached' /\ CloseReachesAll'
    BY Zenon, <1>1 DEF DeliveryInv, AckedReached, CloseReachesAll, Reached
<1>. QED
    BY Zenon, <1>2, <1>3 DEF DeliveryInv

\* Every step of IPCDelivery keeps the invariant.
LEMMA DeliveryStep == DeliveryInv /\ [Next]_vars => DeliveryInv'
<1>. SUFFICES ASSUME DeliveryInv, [Next]_vars
              PROVE  DeliveryInv'
    BY Zenon
<1>1. CASE Publish
    <2>1. published' \in 0..MaxMessages
        BY <1>1, DeliveryAssumption DEF DeliveryInv, Publish
    <2>. QED
        BY Zenon, <1>1, <2>1, ServerStep DEF Publish
<1>2. ASSUME NEW s \in Subs,
             \/ Deliver(s) \/ Subscribe(s) \/ Goroutine(s) \/ Stopper(s)
             \/ Receive(s) \/ Leave(s) \/ Crash(s)
      PROVE  DeliveryInv'
    <2>1. \E n : Moves(s, n)
        BY <1>2, DeliverMoves, SubscribeMoves, RegisterMoves, LoopMoves, StopperMoves,
           NextMessageMoves, NextMalformedMoves, NextErrorMoves, AbortMoves, AckFailsMoves,
           PushMoves, AckMoves, ReceiveMoves, LeaveMoves, CrashMoves, Zenon DEF Goroutine
    <2>. QED
        BY Zenon, <2>1, MovesKeep
<1>3. ASSUME NEW m \in Messages, Expire(m) \/ ExpireEarly(m)
      PROVE  DeliveryInv'
    <2>1. published' \in 0..MaxMessages
        BY Zenon, <1>3 DEF DeliveryInv, Expire, ExpireEarly, jetstream
    <2>. QED
        BY Zenon, <1>3, <2>1, ServerStep DEF Expire, ExpireEarly, jetstream
<1>4. CASE Close
    BY Zenon, <1>4, CloseStep
<1>5. CASE UNCHANGED vars
    <2>1. published' \in 0..MaxMessages
        BY Zenon, <1>5 DEF DeliveryInv, vars
    <2>. QED
        BY Zenon, <1>5, <2>1, ServerStep DEF vars
<1>. QED
    BY Zenon, <1>1, <1>2, <1>3, <1>4, <1>5 DEF Next

\* Whatever is cancelled, closed, expired or crashes between the push and the
\* acknowledgement of consume and startReadInput: a well-formed message JetStream will not
\* deliver again has reached a reader, is in a channel, or was lost in the channel of a
\* process that died.
THEOREM AckedTheorem == Spec => []AckedReached
<1>1. DeliveryInv => AckedReached
    BY Zenon DEF DeliveryInv
<1>. QED
    BY <1>1, DeliveryStart, DeliveryStep, PTL DEF Spec

\* NATSBroker.Close misses no subscription, however calls of consume interleave with it.
THEOREM CloseTheorem == Spec => []CloseReachesAll
<1>1. DeliveryInv => CloseReachesAll
    BY Zenon DEF DeliveryInv
<1>. QED
    BY <1>1, DeliveryStart, DeliveryStep, PTL DEF Spec

=============================================================================
