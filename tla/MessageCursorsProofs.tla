------------------------ MODULE MessageCursorsProofs ------------------------
(***************************************************************************)
(* The cursors of the orchestrator, in memory and in the table, pass over  *)
(* nothing that no agent was given, for any number of messages, goroutines,*)
(* faults and restarts.                                                    *)
(***************************************************************************)
EXTENDS MessageCursors, FiniteSetTheorems, TLAPS

\* Everything up to t, among n messages, is in H.
SafeIn(t, n, H) == t \in Int /\ t <= n /\ \A m \in 1..n : m <= t => m \in H

\* A batch leaves nothing out: what is not newer than one of its messages is in it or in H.
Closes(b, n, H) ==
  /\ b # {} /\ b \subseteq 1..n
  /\ \A m \in 1..n, k \in b : m <= k => m \in H \cup b

\* Sent, about to be sent, or in such hands when the process crashed.
Handed == sent \cup Carried \cup interrupted

SavedType == [ts : Int, agent : Int, confirmed : Int]
PollType == [pc : {"idle", "dispatch", "send", "advance"}, batch : SUBSET Nat]
WorkerType == [pc : {"idle", "read", "admit", "create", "subscribe", "send", "confirm", "rollback", "cleanup"},
               batch : SUBSET Nat, previousCursor : Int, held : BOOLEAN, created : BOOLEAN]

LogInv == log \in Seq(Nat) /\ Len(log) <= MaxMessages /\ \A m \in 1..Len(log) : log[m] = m

MemoryInv ==
  /\ lastTimestamp \in Int
  /\ SafeIn(lastAgent, Len(log), Handed) /\ SafeIn(lastConfirmed, Len(log), Handed)

SavedInv ==
  /\ saved \in SavedType
  /\ SafeIn(saved.agent, Len(log), Handed) /\ SafeIn(saved.confirmed, Len(log), Handed)

PollInv ==
  /\ poll \in PollType
  /\ poll.pc = "dispatch" => poll.batch # {} /\ poll.batch \subseteq 1..Len(log)
  /\ poll.pc = "send" => Closes(poll.batch, Len(log), Handed)
  /\ poll.pc = "advance" => Closes(poll.batch, Len(log), Handed) /\ poll.batch \subseteq Handed

WorkInv ==
  /\ wk \in [Workers -> WorkerType]
  /\ \A w \in Workers : /\ wk[w].pc \notin {"rollback", "cleanup"}
                        /\ wk[w].pc = "admit" => Closes(wk[w].batch, Len(log), Handed)

HandInv == LogInv /\ MemoryInv /\ SavedInv /\ PollInv /\ WorkInv

\* The conditions of the two properties that do not change.
Orderly == Skew = 0 /\ MaxMessages <= MessageLimit

CursorInv == faults \in Nat /\ (faults = 0 /\ Orderly => HandInv)

-----------------------------------------------------------------------------
\* What is handed out stays handed out, so that cursors that were safe stay safe.
LEMMA SafeGrows ==
  ASSUME NEW n \in Nat, NEW H, NEW G, H \subseteq G
  PROVE  /\ \A t : SafeIn(t, n, H) => SafeIn(t, n, G)
         /\ \A b : Closes(b, n, H) => Closes(b, n, G)
  BY Zenon DEF SafeIn, Closes

\* A set of numbers has a least one, and a bounded one has a greatest.
LEMMA Least ==
  ASSUME NEW S \in SUBSET Nat, S # {}
  PROVE  \E x \in S : \A y \in S : x <= y
<1>. DEFINE R == OpToRel(<, Nat)
<1>1. IsWellFoundedOn(R, Nat)
  BY Zenon, NatLessThanWellFounded
<1>2. \A x, y \in Nat : y < x => <<y, x>> \in R
  BY Zenon DEF OpToRel
<1>. HIDE DEF R
<1>3. \E x \in S : \A y \in S : ~(<<y, x>> \in R)
  BY Zenon, <1>1, WFMin
<1>4. PICK x \in S : \A y \in S : ~(<<y, x>> \in R)
  BY Zenon, <1>3
<1>5. \A y \in S : x \in Nat /\ y \in Nat /\ ~(y < x)
  BY Zenon, <1>2, <1>4
<1>6. \A y \in S : x <= y
  BY <1>5
<1>. QED
  BY Zenon, <1>6

\* A bounded set of numbers has a greatest.
LEMMA Greatest ==
  ASSUME NEW n \in Nat, NEW b \in SUBSET (1..n), b # {}
  PROVE  \E x \in b : \A y \in b : y <= x
<1>. DEFINE U == {u \in Nat : \A y \in b : y <= u}
<1>1. n \in U
  OBVIOUS
<1>2. PICK u \in U : \A v \in U : u <= v
  BY Zenon, <1>1, Least
<1>3. u \in b
  <2>1. SUFFICES ASSUME u \notin b
                 PROVE  FALSE
    BY Zenon
  <2>2. \A y \in b : y \in Nat /\ y >= 1 /\ y <= u /\ y # u
    BY <2>1
  <2>3. u \in Nat /\ u >= 1
    <3>1. PICK y \in b : TRUE
      BY Zenon
    <3>2. y \in Nat /\ y >= 1 /\ y <= u /\ u \in Nat
      BY Zenon, <2>2
    <3>. QED
      BY <3>2
  <2>4. \A y \in b : y <= u - 1
    BY <2>2, <2>3
  <2>5. u - 1 \in U
    BY <2>3, <2>4
  <2>. QED
    BY <1>2, <2>3, <2>5
<1>. QED
  BY Zenon, <1>3

\* The newest message of a batch.
LEMMA LastOf ==
  ASSUME LogInv, NEW b, b # {}, b \subseteq 1..Len(log)
  PROVE  Last(b) \in b /\ \A m \in b : m <= Last(b)
<1>1. Len(log) \in Nat /\ \A m \in b : log[m] = m /\ m \in Nat
  BY DEF LogInv
<1>2. {log[m] : m \in b} = b
  BY Zenon, <1>1
<1>3. \E t \in b : \A m \in b : m <= t
  BY Zenon, <1>1, Greatest
<1>4. \E t \in {log[m] : m \in b} : \A m \in b : log[m] <= t
  BY Zenon, <1>1, <1>2, <1>3
<1>5. Last(b) \in {log[m] : m \in b} /\ \A m \in b : log[m] <= Last(b)
  BY Zenon, <1>4 DEF Last
<1>. QED
  BY Zenon, <1>1, <1>2, <1>5

\* A query gives everything newer than its cursor: the limit is not reached.
LEMMA WholeWindow ==
  ASSUME LogInv, Orderly, CursorsAssumption, NEW t \in Int, NEW W \in Windows(t)
  PROVE  W = {m \in 1..Len(log) : m > t} /\ W \in SUBSET Nat
<1>. DEFINE all == Since(t)
            k == Cardinality(all)
<1>1. Len(log) \in Nat /\ Messages = 1..Len(log)
  BY DEF LogInv, Messages
<1>2. all = {m \in 1..Len(log) : m > t}
  BY Zenon, <1>1 DEF Since, LogInv
<1>3. IsFiniteSet(1..Len(log)) /\ Cardinality(1..Len(log)) = Len(log)
  <2>1. 1 \in Int /\ Len(log) \in Int /\ ~(1 > Len(log) /\ Len(log) # 0)
    BY <1>1
  <2>. HIDE DEF all, k
  <2>2. /\ IsFiniteSet(1..Len(log))
        /\ Cardinality(1..Len(log)) = IF 1 > Len(log) THEN 0 ELSE Len(log) - 1 + 1
    BY Zenon, <2>1, FS_Interval
  <2>. QED
    BY <1>1, <2>2
<1>4. IsFiniteSet(all) /\ k <= Len(log) /\ k \in Nat
  BY Zenon, <1>2, <1>3, FS_Subset, FS_CardinalityType
<1>5. W \subseteq all /\ Cardinality(W) = IF k < MessageLimit THEN k ELSE MessageLimit
  BY Zenon DEF Windows
<1>6. k <= MessageLimit
  BY <1>1, <1>4 DEF LogInv, Orderly, CursorsAssumption
<1>7. Cardinality(W) = k
  BY <1>4, <1>5, <1>6 DEF CursorsAssumption
<1>8. W = all
  BY Zenon, <1>4, <1>5, <1>7, FS_Subset
<1>. QED
  BY <1>1, <1>2, <1>8

\* Such a batch, read at a safe cursor, leaves nothing out.
LEMMA WindowCloses ==
  ASSUME NEW n \in Nat, NEW H, NEW t, SafeIn(t, n, H), NEW W, W = {m \in 1..n : m > t}
  PROVE  /\ W # {} => Closes(W, n, H)
         /\ W = {} => \A b : b # {} /\ b \subseteq 1..n => Closes(b, n, H)
<1>1. \A m \in 1..n : m \in H \cup W
  BY DEF SafeIn
<1>2. W = {} => \A m \in 1..n : m \in H
  BY Zenon, <1>1
<1>. QED
  BY Zenon, <1>1, <1>2 DEF Closes

\* A cursor at the end of a batch that has been handed out is safe.
LEMMA ClosedSafe ==
  ASSUME LogInv, NEW b, NEW H, NEW G, Closes(b, Len(log), H), H \subseteq G, b \subseteq G
  PROVE  SafeIn(Last(b), Len(log), G)
<1>1. b # {} /\ b \subseteq 1..Len(log) /\ Len(log) \in Nat
  BY DEF Closes, LogInv
<1>2. Last(b) \in b
  BY Zenon, <1>1, LastOf
<1>3. \A m \in 1..Len(log) : m <= Last(b) => m \in G
  BY Zenon, <1>2 DEF Closes
<1>4. Last(b) \in Int /\ Last(b) <= Len(log)
  <2>1. Last(b) \in 1..Len(log)
    BY Zenon, <1>1, <1>2
  <2>. QED
    BY <1>1, <2>1
<1>. QED
  BY Zenon, <1>3, <1>4 DEF SafeIn

-----------------------------------------------------------------------------
\* What a step leaves alone stays as it should be while what is handed out grows.
LEMMA Frame ==
  ASSUME HandInv, UNCHANGED log, Handed \subseteq Handed'
  PROVE  /\ LogInv'
         /\ UNCHANGED <<lastTimestamp, lastAgent, lastConfirmed>> => MemoryInv'
         /\ UNCHANGED saved => SavedInv'
         /\ UNCHANGED poll => PollInv'
         /\ UNCHANGED wk => WorkInv'
<1>. DEFINE n == Len(log)
            H == Handed
            G == Handed'
<1>1. n \in Nat /\ LogInv'
  BY DEF HandInv, LogInv
<1>2. /\ \A t : SafeIn(t, n, H) => SafeIn(t, n, G)
      /\ \A b : Closes(b, n, H) => Closes(b, n, G)
  BY Zenon, <1>1, SafeGrows
<1>3. UNCHANGED <<lastTimestamp, lastAgent, lastConfirmed>> => MemoryInv'
  BY Zenon, <1>2 DEF HandInv, MemoryInv
<1>4. UNCHANGED saved => SavedInv'
  BY Zenon, <1>2 DEF HandInv, SavedInv
<1>5. UNCHANGED poll => PollInv'
  BY Zenon, <1>2 DEF HandInv, PollInv
<1>6. UNCHANGED wk => WorkInv'
  BY Zenon, <1>2 DEF HandInv, WorkInv
<1>. QED
  BY Zenon, <1>1, <1>3, <1>4, <1>5, <1>6

\* What is handed out follows from the workers, the sends and the crashes.
LEMMA HandedSame ==
  ASSUME UNCHANGED <<wk, sent, interrupted>>
  PROVE  Handed' = Handed
  BY Zenon DEF Handed, Carried

\* The outcomes of saveState.
LEMMA SavedRecords ==
  ASSUME NEW s \in SavedType, NEW t \in Int, NEW a \in Int, NEW k \in Int
  PROVE  /\ [ts |-> t, agent |-> a, confirmed |-> k] \in SavedType
         /\ [s EXCEPT !.ts = t] \in SavedType
         /\ [s EXCEPT !.ts = t].agent = s.agent /\ [s EXCEPT !.ts = t].confirmed = s.confirmed
         /\ [s EXCEPT !.ts = t, !.agent = a] \in SavedType
         /\ [s EXCEPT !.ts = t, !.agent = a].agent = a
         /\ [s EXCEPT !.ts = t, !.agent = a].confirmed = s.confirmed
  BY Zenon DEF SavedType

\* A save of safe cursors, complete or cut short, leaves safe cursors.
LEMMA SaveSafe ==
  ASSUME HandInv, UNCHANGED log, Handed \subseteq Handed',
         NEW t \in Int, NEW a, NEW k,
         SafeIn(a, Len(log), Handed'), SafeIn(k, Len(log), Handed'),
         \/ saved' = [ts |-> t, agent |-> a, confirmed |-> k]
         \/ saved' \in {saved, [saved EXCEPT !.ts = t], [saved EXCEPT !.ts = t, !.agent = a]}
  PROVE  SavedInv'
<1>1. /\ saved \in SavedType /\ a \in Int /\ k \in Int /\ Len(log) \in Nat
      /\ SafeIn(saved.agent, Len(log), Handed) /\ SafeIn(saved.confirmed, Len(log), Handed)
  BY DEF HandInv, SavedInv, SafeIn, LogInv
<1>2. SafeIn(saved.agent, Len(log), Handed') /\ SafeIn(saved.confirmed, Len(log), Handed')
  BY Zenon, <1>1, SafeGrows
<1>3. /\ saved' \in SavedType
      /\ saved'.agent = a \/ saved'.agent = saved.agent
      /\ saved'.confirmed = k \/ saved'.confirmed = saved.confirmed
  <2>1. CASE saved' = [ts |-> t, agent |-> a, confirmed |-> k]
    BY Zenon, <1>1, <2>1, SavedRecords
  <2>2. CASE saved' = saved
    BY Zenon, <1>1, <2>2
  <2>3. CASE saved' = [saved EXCEPT !.ts = t]
    BY Zenon, <1>1, <2>3, SavedRecords
  <2>4. CASE saved' = [saved EXCEPT !.ts = t, !.agent = a]
    BY Zenon, <1>1, <2>4 DEF SavedType
  <2>. QED
    BY Zenon, <2>1, <2>2, <2>3, <2>4
<1>. QED
  BY Zenon, <1>2, <1>3 DEF SavedInv

\* The records of the spawning goroutines, and what a step of one of them hands out.
Carrying == {"create", "subscribe", "send", "rollback"}

\* A worker moves on to r without dropping its batch, and every worker keeps its part.
LEMMA WorkerStep ==
  ASSUME HandInv, UNCHANGED <<log, interrupted>>, NEW w \in Workers, NEW r \in WorkerType,
         wk' = [wk EXCEPT ![w] = r], sent \subseteq sent',
         wk[w].pc \in Carrying => wk[w].batch \subseteq sent' \/ (r.pc \in Carrying /\ r.batch = wk[w].batch)
  PROVE  /\ Handed \subseteq Handed'
         /\ r.pc \in Carrying => r.batch \subseteq Handed'
         /\ r.pc \notin {"rollback", "cleanup"} /\ (r.pc = "admit" => Closes(r.batch, Len(log), Handed'))
              => WorkInv'
<1>1. wk \in [Workers -> WorkerType]
  BY Zenon DEF HandInv, WorkInv
<1>2. wk' \in [Workers -> WorkerType] /\ wk'[w] = r /\ \A x \in Workers \ {w} : wk'[x] = wk[x]
  BY Zenon, <1>1
<1>3. r.pc \in Carrying => r.batch \subseteq Handed'
  BY Zenon, <1>2 DEF Handed, Carried, Carrying
<1>4. Handed \subseteq Handed'
  <2>1. SUFFICES ASSUME NEW x \in Workers, wk[x].pc \in Carrying, NEW m \in wk[x].batch
                 PROVE  m \in Handed'
    BY DEF Handed, Carried, Carrying
  <2>2. CASE x = w
    <3>1. CASE wk[w].batch \subseteq sent'
      BY Zenon, <2>1, <2>2, <3>1 DEF Handed
    <3>2. CASE r.pc \in Carrying /\ r.batch = wk[w].batch
      BY Zenon, <1>3, <2>1, <2>2, <3>2
    <3>. QED
      BY Zenon, <2>1, <2>2, <3>1, <3>2
  <2>3. CASE x # w
    <3>1. wk'[x] = wk[x]
      BY Zenon, <1>2, <2>3
    <3>. QED
      BY Zenon, <2>1, <3>1 DEF Handed, Carried, Carrying
  <2>. QED
    BY Zenon, <2>2, <2>3
<1>5. ASSUME r.pc \notin {"rollback", "cleanup"}, r.pc = "admit" => Closes(r.batch, Len(log), Handed')
      PROVE  WorkInv'
  <2>1. Len(log) \in Nat
    BY DEF HandInv, LogInv
  <2>2. \A b : Closes(b, Len(log), Handed) => Closes(b, Len(log), Handed')
    BY Zenon, <1>4, <2>1, SafeGrows
  <2>3. ASSUME NEW x \in Workers
        PROVE  /\ wk'[x].pc \notin {"rollback", "cleanup"}
               /\ wk'[x].pc = "admit" => Closes(wk'[x].batch, Len(log), Handed')
    <3>1. CASE x = w
      BY Zenon, <1>2, <1>5, <3>1
    <3>2. CASE x # w
      BY Zenon, <1>2, <2>2, <3>2 DEF HandInv, WorkInv
    <3>. QED
      BY Zenon, <3>1, <3>2
  <2>. QED
    BY Zenon, <1>2, <2>3 DEF WorkInv
<1>. QED
  BY Zenon, <1>3, <1>4, <1>5

\* The steps of a spawning goroutine, by what they do to its record.
LEMMA Starts ==
  ASSUME HandInv, StartWorker, UNCHANGED <<log, sent, interrupted>>
  PROVE  Handed \subseteq Handed' /\ WorkInv'
<1>1. PICK w \in Workers : /\ wk[w].pc = "idle"
                           /\ wk' = [wk EXCEPT ![w] = [@ EXCEPT !.pc = "read", !.held = TRUE]]
  BY Zenon DEF StartWorker
<1>. DEFINE r == [wk[w] EXCEPT !.pc = "read", !.held = TRUE]
<1>2. wk[w] \in WorkerType
  BY Zenon DEF HandInv, WorkInv
<1>3. r \in WorkerType /\ r.pc = "read"
  BY Zenon, <1>2 DEF WorkerType
<1>4. wk' = [wk EXCEPT ![w] = r] /\ wk[w].pc \notin Carrying
  BY Zenon, <1>1 DEF Carrying
<1>. HIDE DEF r
<1>. QED
  BY Zenon, <1>3, <1>4, WorkerStep

\* A worker goes to its next place in the spawn.
LEMMA Goes ==
  ASSUME HandInv, NEW w \in Workers,
         NEW p \in {"create", "subscribe", "send", "confirm"}, Goto(w, p),
         UNCHANGED <<log, interrupted>>, sent \subseteq sent',
         p \in Carrying \/ wk[w].batch \subseteq sent'
  PROVE  Handed \subseteq Handed' /\ WorkInv' /\ (p \in Carrying => wk[w].batch \subseteq Handed')
<1>. DEFINE r == [wk[w] EXCEPT !.pc = p]
<1>1. wk[w] \in WorkerType
  BY Zenon DEF HandInv, WorkInv
<1>2. r \in WorkerType /\ r.pc = p /\ r.batch = wk[w].batch
  BY Zenon, <1>1 DEF WorkerType
<1>3. wk' = [wk EXCEPT ![w] = r]
  BY Zenon DEF Goto
<1>. HIDE DEF r
<1>. QED
  BY Zenon, <1>2, <1>3, WorkerStep

\* A worker that has nothing in its hands ends.
LEMMA Ends ==
  ASSUME HandInv, NEW w \in Workers, WorkerEnds(w), UNCHANGED <<log, sent, interrupted>>,
         wk[w].pc \notin Carrying
  PROVE  Handed \subseteq Handed' /\ WorkInv'
<1>1. IdleWorker \in WorkerType /\ IdleWorker.pc = "idle"
  BY DEF IdleWorker, WorkerType
<1>2. wk' = [wk EXCEPT ![w] = IdleWorker]
  BY Zenon DEF WorkerEnds
<1>. QED
  BY Zenon, <1>1, <1>2, WorkerStep

\* The safe cursors by name.
LEMMA SafeNow ==
  ASSUME HandInv
  PROVE  /\ LogInv /\ Len(log) \in Nat /\ lastTimestamp \in Int /\ lastAgent \in Int
         /\ SafeIn(lastAgent, Len(log), Handed) /\ SafeIn(lastConfirmed, Len(log), Handed)
         /\ SafeIn(saved.agent, Len(log), Handed) /\ SafeIn(saved.confirmed, Len(log), Handed)
         /\ saved \in SavedType
  BY DEF HandInv, MemoryInv, SavedInv, LogInv, SafeIn

\* Steps that move no cursor, no message and no goroutine of the two that carry them.
LEMMA IdleStep ==
  ASSUME HandInv,
         UNCHANGED <<log, lastTimestamp, lastAgent, lastConfirmed, saved, sent, interrupted, poll, wk>>
  PROVE  HandInv'
<1>1. Handed' = Handed
  BY Zenon, HandedSame
<1>. QED
  BY Zenon, <1>1, Frame DEF HandInv

-----------------------------------------------------------------------------
\* The message loop reads what is newer than its cursor.
LEMMA StepPollFetch ==
  ASSUME HandInv, Orderly, PollFetch
  PROVE  HandInv'
<1>1. PICK W \in Windows(lastTimestamp) :
        /\ W # {} /\ lastTimestamp' = Last(W) /\ poll' = [pc |-> "dispatch", batch |-> W]
        /\ SaveState(Last(W), lastAgent, lastConfirmed)
  BY Zenon DEF PollFetch
<1>2. UNCHANGED <<log, lastAgent, lastConfirmed, wk, sent, interrupted>>
  BY Zenon DEF PollFetch, history
<1>3. W \subseteq 1..Len(log) /\ W \in SUBSET Nat
  BY Zenon, SafeNow, WholeWindow, CursorsAssumption
<1>4. Last(W) \in Int
  <2>1. Last(W) \in W
    BY Zenon, <1>1, <1>3, SafeNow, LastOf
  <2>2. Last(W) \in Nat
    BY Zenon, <1>3, <2>1
  <2>. QED
    BY <2>2
<1>5. Handed' = Handed
  BY Zenon, <1>2, HandedSame
<1>6. SavedInv'
  <2>1. PICK t : t = Last(W)
    BY Zenon
  <2>2. \/ saved' = [ts |-> t, agent |-> lastAgent, confirmed |-> lastConfirmed]
        \/ saved' \in {saved, [saved EXCEPT !.ts = t], [saved EXCEPT !.ts = t, !.agent = lastAgent]}
    BY Zenon, <1>1, <2>1 DEF SaveState
  <2>. QED
    BY Zenon, <1>2, <1>4, <1>5, <2>1, <2>2, SafeNow, SaveSafe
<1>7. MemoryInv'
  BY Zenon, <1>1, <1>2, <1>4, <1>5, SafeNow DEF MemoryInv
<1>8. PollInv'
  BY Zenon, <1>1, <1>2, <1>3 DEF PollInv, PollType
<1>. QED
  BY Zenon, <1>2, <1>5, <1>6, <1>7, <1>8, Frame DEF HandInv

\* It reads again what is newer than the agent cursor.
LEMMA StepPollRead ==
  ASSUME HandInv, Orderly, PollRead
  PROVE  HandInv'
<1>1. PICK W \in Windows(lastAgent) :
        poll' = [pc |-> "send", batch |-> IF W = {} THEN poll.batch ELSE W]
  BY Zenon DEF PollRead
<1>2. UNCHANGED <<log, lastTimestamp, lastAgent, lastConfirmed, saved, wk, sent, interrupted>>
  BY Zenon DEF PollRead, cursors, history
<1>3. Handed' = Handed
  BY Zenon, <1>2, HandedSame
<1>4. W = {m \in 1..Len(log) : m > lastAgent} /\ W \in SUBSET Nat
  BY Zenon, SafeNow, WholeWindow, CursorsAssumption
<1>5. poll.batch # {} /\ poll.batch \subseteq 1..Len(log) /\ poll.batch \in SUBSET Nat
  BY Zenon DEF PollRead, HandInv, PollInv, PollType
<1>6. /\ W # {} => Closes(W, Len(log), Handed)
      /\ W = {} => Closes(poll.batch, Len(log), Handed)
  BY Zenon, <1>4, <1>5, SafeNow, WindowCloses
<1>7. PollInv'
  BY Zenon, <1>1, <1>2, <1>3, <1>4, <1>5, <1>6 DEF PollInv, PollType
<1>. QED
  BY Zenon, <1>2, <1>3, <1>7, Frame DEF HandInv

\* It sends the batch to a running agent.
LEMMA StepPollSend ==
  ASSUME HandInv, PollSend, UNCHANGED faults, faults = 0
  PROVE  HandInv'
<1>1. /\ UNCHANGED <<log, lastTimestamp, lastAgent, lastConfirmed, saved, wk, interrupted>>
      /\ poll.pc = "send" /\ poll' = [poll EXCEPT !.pc = "advance"]
      /\ sent' = sent \cup poll.batch
  BY DEF PollSend, cursors, Fails, Deliver
<1>2. Handed' = Handed \cup poll.batch
  BY <1>1 DEF Handed, Carried
<1>3. poll \in PollType /\ Closes(poll.batch, Len(log), Handed)
  BY Zenon, <1>1 DEF HandInv, PollInv
<1>4. Closes(poll.batch, Len(log), Handed')
  BY Zenon, <1>2, <1>3, SafeNow, SafeGrows
<1>5. poll' \in PollType /\ poll'.pc = "advance" /\ poll'.batch = poll.batch
  BY Zenon, <1>1, <1>3 DEF PollType
<1>6. PollInv'
  BY Zenon, <1>1, <1>2, <1>4, <1>5 DEF PollInv
<1>. QED
  BY Zenon, <1>1, <1>2, <1>6, Frame DEF HandInv

\* A message loop between two polls has nothing to show.
LEMMA IdlePollInv ==
  ASSUME poll' = IdlePoll
  PROVE  PollInv'
<1>1. IdlePoll \in PollType /\ IdlePoll.pc = "idle"
  BY Zenon DEF IdlePoll, PollType
<1>. QED
  BY Zenon, <1>1 DEF PollInv

\* It moves the agent cursor to the newest message it sent.
LEMMA StepPollAdvance ==
  ASSUME HandInv, PollAdvance
  PROVE  HandInv'
<1>1. /\ UNCHANGED <<log, lastTimestamp, lastConfirmed, wk, sent, interrupted>>
      /\ poll.pc = "advance" /\ poll' = IdlePoll /\ lastAgent' = Last(poll.batch)
  BY Zenon DEF PollAdvance, history
<1>2. Handed' = Handed
  BY Zenon, <1>1, HandedSame
<1>3. PICK t : t = Last(poll.batch)
  BY Zenon
<1>4. SafeIn(t, Len(log), Handed)
  <2>1. Closes(poll.batch, Len(log), Handed) /\ poll.batch \subseteq Handed
    BY Zenon, <1>1 DEF HandInv, PollInv
  <2>. QED
    BY Zenon, <1>3, <2>1, SafeNow, ClosedSafe
<1>5. SavedInv'
  <2>1. \/ saved' = [ts |-> lastTimestamp, agent |-> t, confirmed |-> lastConfirmed]
        \/ saved' \in {saved, [saved EXCEPT !.ts = lastTimestamp],
                       [saved EXCEPT !.ts = lastTimestamp, !.agent = t]}
    BY Zenon, <1>3 DEF PollAdvance, SaveState
  <2>. QED
    BY Zenon, <1>1, <1>2, <1>4, <2>1, SafeNow, SaveSafe
<1>6. MemoryInv'
  BY Zenon, <1>1, <1>2, <1>3, <1>4, SafeNow DEF MemoryInv
<1>. QED
  BY Zenon, <1>1, <1>2, <1>5, <1>6, IdlePollInv, Frame DEF HandInv

\* It leaves the batch to a spawn.
LEMMA StepPollSpawn ==
  ASSUME HandInv, PollSpawn
  PROVE  HandInv'
<1>1. /\ UNCHANGED <<log, lastTimestamp, lastAgent, lastConfirmed, saved, sent, interrupted>>
      /\ poll' = IdlePoll /\ (StartWorker \/ UNCHANGED wk)
  BY Zenon DEF PollSpawn, cursors, history
<1>2. Handed \subseteq Handed' /\ (StartWorker => WorkInv')
  BY Zenon, <1>1, Starts, HandedSame
<1>. QED
  BY Zenon, <1>1, <1>2, IdlePollInv, Frame DEF HandInv

\* A spawn reads its batch.
LEMMA StepRead ==
  ASSUME HandInv, Orderly, NEW w \in Workers, Read(w)
  PROVE  HandInv'
<1>1. /\ UNCHANGED <<log, lastTimestamp, lastAgent, lastConfirmed, saved, sent, interrupted, poll>>
      /\ wk[w].pc = "read" /\ wk[w].pc \notin Carrying
  BY Zenon DEF Read, cursors, history, Carrying
<1>2. CASE WorkerEnds(w)
  BY Zenon, <1>1, <1>2, Ends, Frame DEF HandInv
<1>3. ASSUME NEW W \in Windows(lastAgent), W # {},
             wk' = [wk EXCEPT ![w] = [@ EXCEPT !.pc = "admit", !.batch = W, !.previousCursor = lastAgent]]
      PROVE  HandInv'
  <2>. DEFINE r == [wk[w] EXCEPT !.pc = "admit", !.batch = W, !.previousCursor = lastAgent]
  <2>1. W = {m \in 1..Len(log) : m > lastAgent} /\ W \in SUBSET Nat /\ lastAgent \in Int
    BY Zenon, SafeNow, WholeWindow, CursorsAssumption
  <2>2. Closes(W, Len(log), Handed)
    BY Zenon, <1>3, <2>1, SafeNow, WindowCloses
  <2>3. wk[w] \in WorkerType
    BY Zenon DEF HandInv, WorkInv
  <2>4. r \in WorkerType /\ r.pc = "admit" /\ r.batch = W
    BY Zenon, <2>1, <2>3 DEF WorkerType
  <2>5. wk' = [wk EXCEPT ![w] = r]
    BY Zenon, <1>3
  <2>. HIDE DEF r
  <2>6. Handed \subseteq Handed' /\ (Closes(W, Len(log), Handed') => WorkInv')
    BY Zenon, <1>1, <2>4, <2>5, WorkerStep
  <2>7. Closes(W, Len(log), Handed')
    BY Zenon, <2>2, <2>6, SafeNow, SafeGrows
  <2>. QED
    BY Zenon, <1>1, <2>6, <2>7, Frame DEF HandInv
<1>. QED
  BY Zenon, <1>2, <1>3 DEF Read

\* A spawn is admitted and moves the agent cursor over the batch in its hands.
LEMMA StepAdmit ==
  ASSUME HandInv, NEW w \in Workers, AdmitSpawn(w)
  PROVE  HandInv'
<1>1. /\ UNCHANGED <<log, lastTimestamp, lastConfirmed, sent, interrupted, poll>>
      /\ wk[w].pc = "admit" /\ wk[w].pc \notin Carrying
  BY Zenon DEF AdmitSpawn, history, Carrying
<1>2. CASE WorkerEnds(w) /\ UNCHANGED <<lastAgent, saved>>
  BY Zenon, <1>1, <1>2, Ends, Frame DEF HandInv
<1>3. CASE /\ lastAgent' = Last(wk[w].batch) /\ Goto(w, "create")
           /\ SaveState(lastTimestamp, Last(wk[w].batch), lastConfirmed)
  <2>1. Handed \subseteq Handed' /\ WorkInv' /\ wk[w].batch \subseteq Handed'
    BY Zenon, <1>1, <1>3, Goes DEF Carrying
  <2>2. PICK t : t = Last(wk[w].batch)
    BY Zenon
  <2>3. Closes(wk[w].batch, Len(log), Handed)
    BY Zenon, <1>1 DEF HandInv, WorkInv
  <2>4. SafeIn(t, Len(log), Handed') /\ SafeIn(lastConfirmed, Len(log), Handed')
    BY Zenon, <2>1, <2>2, <2>3, SafeNow, ClosedSafe, SafeGrows
  <2>5. SavedInv'
    <3>1. \/ saved' = [ts |-> lastTimestamp, agent |-> t, confirmed |-> lastConfirmed]
          \/ saved' \in {saved, [saved EXCEPT !.ts = lastTimestamp],
                         [saved EXCEPT !.ts = lastTimestamp, !.agent = t]}
      BY Zenon, <1>3, <2>2 DEF SaveState
    <3>. QED
      BY Zenon, <1>1, <2>1, <2>4, <3>1, SafeNow, SaveSafe
  <2>6. MemoryInv'
    BY Zenon, <1>1, <1>3, <2>2, <2>4, SafeNow DEF MemoryInv
  <2>. QED
    BY Zenon, <1>1, <2>1, <2>5, <2>6, Frame DEF HandInv
<1>. QED
  BY Zenon, <1>2, <1>3 DEF AdmitSpawn

\* Without faults the sandbox is created and subscribed to.
LEMMA StepCreate ==
  ASSUME HandInv, NEW w \in Workers, Create(w) \/ Subscribe(w), faults = 0, UNCHANGED faults
  PROVE  HandInv'
<1>1. UNCHANGED <<log, lastTimestamp, lastAgent, lastConfirmed, saved, sent, interrupted, poll>>
  BY Zenon DEF Create, Subscribe, cursors, history
<1>2. Handed \subseteq Handed' /\ WorkInv'
  <2>1. CASE Create(w)
    <3>. DEFINE r == [wk[w] EXCEPT !.pc = "subscribe", !.held = FALSE, !.created = TRUE]
    <3>1. wk' = [wk EXCEPT ![w] = r]
      BY <2>1 DEF Create, Fails
    <3>2. wk[w] \in WorkerType
      BY Zenon DEF HandInv, WorkInv
    <3>3. r \in WorkerType /\ r.pc = "subscribe" /\ r.batch = wk[w].batch
      BY Zenon, <3>2 DEF WorkerType
    <3>. HIDE DEF r
    <3>4. r.pc \in Carrying
      BY Zenon, <3>3 DEF Carrying
    <3>. QED
      BY Zenon, <1>1, <3>1, <3>3, <3>4, WorkerStep
  <2>2. CASE Subscribe(w)
    <3>1. Goto(w, "send")
      BY <2>2 DEF Subscribe, Fails
    <3>2. "send" \in Carrying
      BY Zenon DEF Carrying
    <3>. QED
      BY Zenon, <1>1, <3>1, <3>2, Goes
  <2>. QED
    BY Zenon, <2>1, <2>2
<1>. QED
  BY Zenon, <1>1, <1>2, Frame DEF HandInv

\* The spawn sends its batch.
LEMMA StepSendInitial ==
  ASSUME HandInv, NEW w \in Workers, SendInitial(w), faults = 0, UNCHANGED faults
  PROVE  HandInv'
<1>1. /\ UNCHANGED <<log, lastTimestamp, lastAgent, lastConfirmed, saved, interrupted, poll>>
      /\ Goto(w, "confirm") /\ sent' = sent \cup wk[w].batch
  BY DEF SendInitial, cursors, Deliver, Fails
<1>2. Handed \subseteq Handed' /\ WorkInv'
  BY Zenon, <1>1, Goes
<1>. QED
  BY Zenon, <1>1, <1>2, Frame DEF HandInv

\* It confirms what it has sent.
LEMMA StepConfirm ==
  ASSUME HandInv, NEW w \in Workers, ConfirmInitial(w)
  PROVE  HandInv'
<1>1. /\ UNCHANGED <<log, lastTimestamp, lastAgent, sent, interrupted, poll>>
      /\ wk[w].pc \notin Carrying /\ WorkerEnds(w) /\ lastConfirmed' = lastAgent
  BY Zenon DEF ConfirmInitial, history, Carrying
<1>2. Handed \subseteq Handed' /\ WorkInv'
  BY Zenon, <1>1, Ends
<1>3. SafeIn(lastAgent, Len(log), Handed')
  BY Zenon, <1>2, SafeNow, SafeGrows
<1>4. SavedInv'
  <2>1. \/ saved' = [ts |-> lastTimestamp, agent |-> lastAgent, confirmed |-> lastAgent]
        \/ saved' \in {saved, [saved EXCEPT !.ts = lastTimestamp],
                       [saved EXCEPT !.ts = lastTimestamp, !.agent = lastAgent]}
    BY Zenon DEF ConfirmInitial, SaveState
  <2>. QED
    BY Zenon, <1>1, <1>2, <1>3, <2>1, SafeNow, SaveSafe
<1>5. MemoryInv'
  BY Zenon, <1>1, <1>3, SafeNow DEF MemoryInv
<1>. QED
  BY Zenon, <1>1, <1>2, <1>4, <1>5, Frame DEF HandInv

\* A reply confirms up to the agent cursor.
LEMMA StepReply ==
  ASSUME HandInv, NEW v \in Watchers, ReceiveReply(v)
  PROVE  HandInv'
<1>1. /\ UNCHANGED <<log, lastTimestamp, lastAgent, saved, sent, interrupted, poll, wk>>
      /\ lastConfirmed' = lastAgent \/ UNCHANGED lastConfirmed
  BY Zenon DEF ReceiveReply, history, Answered
<1>2. Handed' = Handed
  BY Zenon, <1>1, HandedSame
<1>3. MemoryInv'
  BY Zenon, <1>1, <1>2, SafeNow DEF MemoryInv
<1>. QED
  BY Zenon, <1>1, <1>2, <1>3, Frame DEF HandInv

\* A watcher that ends rolls the agent cursor back to the confirmed one.
LEMMA StepDeactivate ==
  ASSUME HandInv, NEW v \in Watchers, DeactivateRollback(v)
  PROVE  HandInv'
<1>1. PICK cursor : /\ cursor = IF Confirmed < lastAgent THEN Confirmed ELSE lastAgent
                    /\ lastAgent' = cursor /\ SaveState(lastTimestamp, cursor, lastConfirmed)
  BY Zenon DEF DeactivateRollback
<1>2. UNCHANGED <<log, lastTimestamp, lastConfirmed, sent, interrupted, poll, wk>>
  BY Zenon DEF DeactivateRollback, history
<1>3. Handed' = Handed
  BY Zenon, <1>2, HandedSame
<1>4. SafeIn(cursor, Len(log), Handed)
  <2>1. SafeIn(0, Len(log), Handed)
    BY SafeNow DEF SafeIn
  <2>. QED
    BY Zenon, <1>1, <2>1, SafeNow DEF Confirmed
<1>5. SavedInv'
  <2>1. \/ saved' = [ts |-> lastTimestamp, agent |-> cursor, confirmed |-> lastConfirmed]
        \/ saved' \in {saved, [saved EXCEPT !.ts = lastTimestamp],
                       [saved EXCEPT !.ts = lastTimestamp, !.agent = cursor]}
    BY Zenon, <1>1 DEF SaveState
  <2>. QED
    BY Zenon, <1>2, <1>3, <1>4, <2>1, SafeNow, SaveSafe
<1>6. MemoryInv'
  BY Zenon, <1>1, <1>2, <1>3, <1>4, SafeNow DEF MemoryInv
<1>. QED
  BY Zenon, <1>2, <1>3, <1>5, <1>6, Frame DEF HandInv

\* A watcher that ends asks for a recovery.
LEMMA StepRecover ==
  ASSUME HandInv, NEW v \in Watchers, DeactivateRecover(v)
  PROVE  HandInv'
<1>1. /\ UNCHANGED <<log, lastTimestamp, lastAgent, lastConfirmed, saved, sent, interrupted, poll>>
      /\ StartWorker \/ UNCHANGED wk
  BY Zenon DEF DeactivateRecover, cursors, history
<1>2. Handed \subseteq Handed' /\ (StartWorker => WorkInv')
  BY Zenon, <1>1, Starts, HandedSame
<1>. QED
  BY Zenon, <1>1, <1>2, Frame DEF HandInv

\* The flush saves the cursors.
LEMMA StepFlush ==
  ASSUME HandInv, Flush
  PROVE  HandInv'
<1>1. UNCHANGED <<log, lastTimestamp, lastAgent, lastConfirmed, sent, interrupted, poll, wk>>
  BY Zenon DEF Flush, history
<1>2. Handed' = Handed
  BY Zenon, <1>1, HandedSame
<1>3. SavedInv'
  <2>1. \/ saved' = [ts |-> lastTimestamp, agent |-> lastAgent, confirmed |-> lastConfirmed]
        \/ saved' \in {saved, [saved EXCEPT !.ts = lastTimestamp],
                       [saved EXCEPT !.ts = lastTimestamp, !.agent = lastAgent]}
    BY Zenon DEF Flush, SaveState
  <2>. QED
    BY Zenon, <1>1, <1>2, <2>1, SafeNow, SaveSafe
<1>. QED
  BY Zenon, <1>1, <1>2, <1>3, Frame DEF HandInv

\* A message arrives: it is newer than every cursor.
LEMMA StepStore ==
  ASSUME HandInv, Orderly, StoreMessage
  PROVE  HandInv'
<1>. DEFINE n == Len(log)
<1>1. /\ UNCHANGED <<lastTimestamp, lastAgent, lastConfirmed, saved, sent, interrupted, poll, wk>>
      /\ n < MaxMessages
  BY Zenon DEF StoreMessage, cursors, history
<1>2. log \in Seq(Nat) /\ n \in Nat /\ MaxMessages \in Nat /\ Messages = 1..n
      /\ \A m \in 1..n : log[m] = m
  BY SafeNow, CursorsAssumption DEF LogInv, CursorsAssumption, Messages
<1>3. (IF log = <<>> THEN 0 ELSE Last(Messages)) = n
  <2>1. CASE log = <<>>
    BY Zenon, <2>1
  <2>2. CASE log # <<>>
    <3>1. n \in 1..n /\ 1..n # {}
      BY <1>2, <2>2
    <3>2. PICK t : t = Last(1..n)
      BY Zenon
    <3>3. t \in 1..n /\ \A m \in 1..n : m <= t
      BY Zenon, <3>1, <3>2, SafeNow, LastOf
    <3>4. t <= n /\ n <= t /\ t \in Nat
      BY <1>2, <3>1, <3>3
    <3>5. t = n
      BY <1>2, <3>4
    <3>. QED
      BY Zenon, <1>2, <2>2, <3>2, <3>5
  <2>. QED
    BY Zenon, <2>1, <2>2
<1>4. log' = Append(log, n + 1)
  <2>1. \E k \in 0..Skew : log' = Append(log, n + 1 - k)
    BY Zenon, <1>3 DEF StoreMessage
  <2>2. 0..Skew = {0} /\ n + 1 - 0 = n + 1
    BY <1>2 DEF Orderly
  <2>. QED
    BY Zenon, <2>1, <2>2
<1>5. LogInv' /\ Len(log') = n + 1
  <2>1. /\ log' \in Seq(Nat) /\ Len(log') = n + 1 /\ log'[n + 1] = n + 1
        /\ \A m \in 1..n : log'[m] = log[m]
    BY <1>2, <1>4
  <2>2. \A m \in 1..n + 1 : m \in 1..n \/ m = n + 1
    BY <1>2
  <2>3. \A m \in 1..n + 1 : log'[m] = m
    BY Zenon, <1>2, <2>1, <2>2
  <2>4. n + 1 <= MaxMessages
    BY <1>1, <1>2
  <2>. QED
    BY Zenon, <2>1, <2>3, <2>4 DEF LogInv
<1>6. Handed' = Handed
  BY Zenon, <1>1, HandedSame
<1>7. \A t : SafeIn(t, n, Handed) => SafeIn(t, n + 1, Handed)
  <2>1. SUFFICES ASSUME NEW t, SafeIn(t, n, Handed)
                 PROVE  SafeIn(t, n + 1, Handed)
    BY Zenon
  <2>2. t \in Int /\ t <= n /\ \A m \in 1..n : m <= t => m \in Handed
    BY Zenon, <2>1 DEF SafeIn
  <2>3. \A m \in 1..n + 1 : m <= t => m \in 1..n
    BY <1>2, <2>2
  <2>. QED
    BY <1>2, <2>2, <2>3 DEF SafeIn
<1>8. \A b : Closes(b, n, Handed) => Closes(b, n + 1, Handed)
  <2>1. SUFFICES ASSUME NEW b, Closes(b, n, Handed)
                 PROVE  Closes(b, n + 1, Handed)
    BY Zenon
  <2>2. b # {} /\ b \subseteq 1..n /\ \A m \in 1..n, k \in b : m <= k => m \in Handed \cup b
    BY Zenon, <2>1 DEF Closes
  <2>3. \A m \in 1..n + 1, k \in 1..n : m <= k => m \in 1..n
    BY <1>2
  <2>4. b \subseteq 1..n + 1
    BY <1>2, <2>2
  <2>. QED
    BY Zenon, <2>2, <2>3, <2>4 DEF Closes
<1>9. 1..n \subseteq 1..n + 1
  BY <1>2
<1>. HIDE DEF n
<1>10. MemoryInv' /\ SavedInv'
  BY Zenon, <1>1, <1>5, <1>6, <1>7 DEF HandInv, MemoryInv, SavedInv, n
<1>11. PollInv' /\ WorkInv'
  BY Zenon, <1>1, <1>5, <1>6, <1>8, <1>9 DEF HandInv, PollInv, WorkInv, n
<1>. QED
  BY Zenon, <1>5, <1>10, <1>11 DEF HandInv

\* A restart reads the saved cursors; what the spawns had in their hands is interrupted.
LEMMA StepReload ==
  ASSUME HandInv, Reload
  PROVE  HandInv'
<1>1. /\ UNCHANGED <<log, saved, sent>> /\ lastTimestamp' = saved.ts /\ lastAgent' = saved.agent
      /\ lastConfirmed' = saved.agent \/ lastConfirmed' = saved.confirmed
      /\ interrupted' = interrupted \cup Carried /\ poll' = IdlePoll
      /\ wk' = [w \in Workers |-> IdleWorker]
  BY Zenon DEF Reload
<1>2. IdleWorker \in WorkerType /\ IdleWorker.pc = "idle"
  BY DEF IdleWorker, WorkerType
<1>3. Handed' = Handed
  <2>1. Carried' = {}
    BY Zenon, <1>1, <1>2 DEF Carried
  <2>. QED
    BY Zenon, <1>1, <2>1 DEF Handed
<1>4. WorkInv'
  BY Zenon, <1>1, <1>2 DEF WorkInv
<1>5. MemoryInv'
  BY Zenon, <1>1, <1>3, SafeNow DEF MemoryInv, SavedType
<1>. QED
  BY Zenon, <1>1, <1>3, <1>4, <1>5, IdlePollInv, Frame DEF HandInv

-----------------------------------------------------------------------------
\* Nothing is covered at the start.
LEMMA CursorStart == CursorInit => CursorInv
<1>. SUFFICES ASSUME CursorInit
              PROVE  CursorInv
  BY Zenon
<1>1. /\ log = <<>> /\ lastTimestamp = 0 /\ lastAgent = 0 /\ lastConfirmed = -1
      /\ saved = [ts |-> 0, agent |-> 0, confirmed |-> -1] /\ poll = IdlePoll
      /\ wk = [w \in Workers |-> IdleWorker] /\ faults = 0
  BY Zenon DEF CursorInit, NoEntry
<1>2. LogInv /\ Len(log) = 0
  BY <1>1, CursorsAssumption DEF LogInv, CursorsAssumption
<1>3. SafeIn(0, 0, Handed) /\ SafeIn(-1, 0, Handed)
  BY DEF SafeIn
<1>4. MemoryInv /\ SavedInv
  BY <1>1, <1>2, <1>3 DEF MemoryInv, SavedInv, SavedType
<1>5. PollInv
  BY Zenon, <1>1 DEF PollInv, PollType, IdlePoll
<1>6. WorkInv
  <2>1. IdleWorker \in WorkerType /\ IdleWorker.pc = "idle"
    BY DEF IdleWorker, WorkerType
  <2>. QED
    BY Zenon, <1>1, <2>1 DEF WorkInv
<1>. QED
  BY Zenon, <1>1, <1>2, <1>4, <1>5, <1>6 DEF CursorInv, HandInv

\* The count of failed calls never goes down.
LEMMA FaultsGrow ==
  ASSUME [CursorNext]_cursorVars
  PROVE  faults' = faults \/ faults' = faults + 1
<1>. USE DEF Ok, Fails, bounds
<1>1. CASE PollStep
  BY Zenon, <1>1 DEF PollStep, PollFetch, PollRead, PollSend, PollAdvance, PollSpawn
<1>2. ASSUME NEW w \in Workers, SpawnStep(w)
      PROVE  faults' = faults \/ faults' = faults + 1
  BY Zenon, <1>2 DEF SpawnStep, Read, AdmitSpawn, Create, Subscribe, SendInitial, ConfirmInitial, Rollback, Cleanup
<1>3. ASSUME NEW v \in Watchers, WatchStep(v)
      PROVE  faults' = faults \/ faults' = faults + 1
  BY Zenon, <1>3 DEF WatchStep, ReceiveReply, ReceiveShutdown, GiveUpSpawn, DeactivateCheck,
              DeactivateRollback, DeactivateRecover
<1>4. CASE Flush \/ SandboxEvent \/ StoreMessage \/ AgentAnswers \/ AgentEnds \/ Reload
  BY Zenon, <1>4 DEF Flush, SandboxEvent, StoreMessage, AgentAnswers, AgentEnds, Reload
<1>5. CASE UNCHANGED cursorVars
  BY Zenon, <1>5 DEF cursorVars
<1>. QED
  BY Zenon, <1>1, <1>2, <1>3, <1>4, <1>5 DEF CursorNext

\* Without faults every step keeps the cursors safe.
LEMMA HandStep ==
  ASSUME HandInv, Orderly, [CursorNext]_cursorVars, faults = 0, UNCHANGED faults
  PROVE  HandInv'
<1>1. CASE PollStep
  BY Zenon, <1>1, StepPollFetch, StepPollRead, StepPollSend, StepPollAdvance, StepPollSpawn DEF PollStep
<1>2. ASSUME NEW w \in Workers, SpawnStep(w)
      PROVE  HandInv'
  <2>1. ~Rollback(w) /\ ~Cleanup(w)
    BY Zenon DEF Rollback, Cleanup, HandInv, WorkInv
  <2>. QED
    BY Zenon, <1>2, <2>1, StepRead, StepAdmit, StepCreate, StepSendInitial, StepConfirm DEF SpawnStep
<1>3. ASSUME NEW v \in Watchers, WatchStep(v)
      PROVE  HandInv'
  <2>1. CASE ReceiveShutdown(v) \/ GiveUpSpawn(v) \/ DeactivateCheck(v)
    BY Zenon, <2>1, IdleStep DEF ReceiveShutdown, GiveUpSpawn, DeactivateCheck, cursors, history
  <2>. QED
    BY Zenon, <1>3, <2>1, StepReply, StepDeactivate, StepRecover DEF WatchStep
<1>4. CASE SandboxEvent \/ AgentAnswers \/ AgentEnds
  BY Zenon, <1>4, IdleStep DEF SandboxEvent, AgentAnswers, AgentEnds, cursors, history
<1>5. CASE Flush \/ StoreMessage \/ Reload
  BY Zenon, <1>5, StepFlush, StepStore, StepReload
<1>6. CASE UNCHANGED cursorVars
  BY Zenon, <1>6, IdleStep DEF cursorVars, cursors, history
<1>. QED
  BY Zenon, <1>1, <1>2, <1>3, <1>4, <1>5, <1>6 DEF CursorNext

\* Every step keeps the invariant; the first fault ends its claim.
LEMMA CursorStep == CursorInv /\ [CursorNext]_cursorVars => CursorInv'
<1>. SUFFICES ASSUME CursorInv, [CursorNext]_cursorVars
              PROVE  CursorInv'
  BY Zenon
<1>1. faults \in Nat /\ (faults' = faults \/ faults' = faults + 1)
  BY Zenon, FaultsGrow DEF CursorInv
<1>2. faults' \in Nat /\ (faults' = 0 => faults = 0 /\ UNCHANGED faults)
  BY <1>1
<1>3. ASSUME faults' = 0, Orderly
      PROVE  HandInv'
  BY Zenon, <1>2, <1>3, HandStep DEF CursorInv
<1>4. Orderly' <=> Orderly
  BY Zenon DEF Orderly
<1>. QED
  BY Zenon, <1>2, <1>3, <1>4 DEF CursorInv

\* What a cursor covers has been handed out.
LEMMA HandedNow ==
  ASSUME CursorInv, faults = 0, Skew = 0, MaxMessages <= MessageLimit, NEW m \in Messages
  PROVE  /\ log[m] <= lastAgent \/ log[m] <= saved.agent => m \in Handed
         /\ log[m] <= Confirmed \/ log[m] <= saved.confirmed => m \in Handed
<1>1. HandInv
  BY Zenon DEF CursorInv, Orderly
<1>2. m \in 1..Len(log) /\ log[m] = m /\ m >= 1 /\ m \in Nat
  BY <1>1, SafeNow DEF LogInv, Messages
<1>3. ~(m <= 0)
  BY <1>2
<1>. QED
  BY Zenon, <1>1, <1>2, <1>3, SafeNow DEF SafeIn, Confirmed

\* For any number of messages, spawns, watchers, failing saves and restarts: as long as no
\* other call fails, neither the agent cursor nor the saved one runs past a message that was
\* not sent, is not about to be, and was not in a spawn's hands at a crash.
THEOREM CoversTheorem == CursorSpec => []CursorCoversSent
<1>1. CursorInv => CursorCoversSent
  BY Zenon, HandedNow DEF CursorCoversSent, Handed
<1>. QED
  BY <1>1, CursorStart, CursorStep, PTL DEF CursorSpec

\* Under the same conditions neither the confirmed cursor nor the saved one does, although
\* replies, spawns and rollbacks move it on their own.
THEOREM ConfirmedTheorem == CursorSpec => []ConfirmedHanded
<1>1. CursorInv => ConfirmedHanded
  BY Zenon, HandedNow DEF ConfirmedHanded, Handed
<1>. QED
  BY <1>1, CursorStart, CursorStep, PTL DEF CursorSpec

=============================================================================
