------------------------- MODULE OrchestratorProofs -------------------------
(***************************************************************************)
(* What the orchestrator does beside its spawns, for any number of spawns, *)
(* sandboxes, goroutines, faults and restarts: its reconciler spares the   *)
(* streams of a spawn, its watch of the sandboxes delivers every deletion, *)
(* and saveState leaves the cursors in the table.                          *)
(***************************************************************************)
EXTENDS IPCStreams, SandboxWatch, StatePersistence, TLAPS

-----------------------------------------------------------------------------
(* The reconciler of the IPC streams. *)

Places == {"idle", "ensure", "store", "delete", "forget", "consumer", "again", "create", "mark",
           "unslot", "subscribe", "send", "abort", "exit", "watch", "resubscribe", "retry",
           "deactivate", "active", "sandbox", "exists", "clear", "unmark", "deliver"}
\* No call of the broker returns into the middle of another one.
Returns == Places \ {"store", "forget"}
Agents == [Spawns -> {"none", "starting", "fetching", "reading"}]
Thread == [pc : Places, then : Returns, else : Returns, tries : Nat,
           created : BOOLEAN, marked : BOOLEAN, holds : BOOLEAN, connected : BOOLEAN]

\* Where a spawn can be, and what it returns to from a call of the broker: up to "unslot"
\* it holds the slot.
SpawnAt(r) ==
    /\ r.pc \in {"idle", "ensure", "store", "consumer", "again", "create", "mark", "unslot",
                 "subscribe", "send", "abort", "delete", "forget", "exit"}
    /\ r.pc \in {"create", "mark", "unslot"} => r.holds
    /\ r.pc \in {"consumer", "again"} => r.holds /\ r.then = "consumer" /\ r.else = "again"
    /\ r.pc \in {"ensure", "store"} =>
         \/ r.holds /\ r.then = "consumer" /\ r.else = "again"
         \/ r.then \in {"subscribe", "send"} /\ r.else = "abort"
    /\ r.pc \in {"delete", "forget"} => r.then = "exit"

WatcherAt(r) ==
    /\ r.pc \in {"idle", "watch", "ensure", "store", "resubscribe", "retry", "delete", "forget",
                 "deactivate"}
    /\ r.pc \in {"ensure", "store", "resubscribe", "retry"} => r.then = "resubscribe" /\ r.else = "retry"
    /\ r.pc \in {"delete", "forget"} => r.then = "deactivate"

ReconcilerAt(r) ==
    /\ r.pc \in {"idle", "active", "sandbox", "exists", "delete", "forget"}
    /\ r.pc \in {"delete", "forget"} => r.then = "idle"

PlacesInv ==
    /\ th \in [Threads -> Thread] /\ agent \in Agents
    /\ \A t \in Spawns : SpawnAt(th[t])
    /\ \A t \in Watchers : WatcherAt(th[t])
    /\ ReconcilerAt(th[Reconciler])

\* The slot is held by one spawn at most.
HoldInv ==
    /\ \A s \in Spawns : th[s].holds => slot
    /\ \A s, u \in Spawns : th[s].holds /\ th[u].holds => s = u

\* What the reconciler has seen is still so, unless a spawn has started since.
SeenInv ==
    ~late =>
      /\ th[Reconciler].pc \in {"active", "sandbox", "exists", "delete"} => ~slot
      /\ th[Reconciler].pc \in {"sandbox", "exists", "delete"} => ~active
      /\ th[Reconciler].pc \in {"exists", "delete"} => ~HasActiveSandbox

SpareInv == PlacesInv /\ HoldInv /\ SeenInv

----------------------------------------------------------------------------
\* A goroutine moves.
LEMMA ThreadMoves ==
  ASSUME PlacesInv, NEW t \in Threads, NEW r \in Thread, th' = [th EXCEPT ![t] = r],
         agent' \in Agents,
         t \in Spawns => SpawnAt(r), t \in Watchers => WatcherAt(r), t = Reconciler => ReconcilerAt(r)
  PROVE  PlacesInv' /\ th'[t] = r /\ \A u \in Threads \ {t} : th'[u] = th[u]
<1>1. th'[t] = r /\ (\A u \in Threads \ {t} : th'[u] = th[u]) /\ th' \in [Threads -> Thread]
  BY Zenon DEF PlacesInv
<1>2. \A u \in Spawns : SpawnAt(th'[u])
  BY Zenon, <1>1 DEF PlacesInv, Threads
<1>3. \A u \in Watchers : WatcherAt(th'[u])
  BY Zenon, <1>1 DEF PlacesInv, Threads
<1>4. ReconcilerAt(th'[Reconciler])
  BY Zenon, <1>1 DEF PlacesInv, Threads
<1>. QED
  BY Zenon, <1>1, <1>2, <1>3, <1>4 DEF PlacesInv

\* The names of goroutines are different.
LEMMA Apart ==
  /\ Reconciler \in Threads /\ Reconciler \notin Spawns /\ Reconciler \notin Watchers
  /\ \A s \in Spawns : /\ s \in Threads /\ s # Reconciler /\ s \notin Watchers
                       /\ Watcher(s) \in Threads /\ Watcher(s) \in Watchers
                       /\ Watcher(s) # Reconciler /\ Watcher(s) \notin Spawns
  /\ \A t \in {Handler, Sender} : t \in Threads \ {Reconciler} /\ t \notin Spawns /\ t \notin Watchers
  BY Zenon, StreamsAssumption DEF Threads, Watchers

\* No step of another goroutine takes away what the reconciler has seen, without a slot.
LEMMA SeenKept ==
  ASSUME SeenInv, th'[Reconciler] = th[Reconciler], late' = late \/ late',
         slot' => slot \/ late', active' => active \/ slot,
         HasActiveSandbox' => HasActiveSandbox \/ slot
  PROVE  SeenInv'
  BY Zenon DEF SeenInv

\* The slot stays with who has it.
LEMMA HoldKept ==
  ASSUME HoldInv, \A s \in Spawns : th'[s].holds => th[s].holds /\ (slot => slot')
  PROVE  HoldInv'
  BY Zenon DEF HoldInv

\* A goroutine other than the reconciler moves without touching the slot.
LEMMA QuietMove ==
  ASSUME SpareInv, NEW t \in Threads \ {Reconciler}, NEW r \in Thread, th' = [th EXCEPT ![t] = r],
         t \in Spawns => SpawnAt(r) /\ r.holds = th[t].holds, t \in Watchers => WatcherAt(r),
         UNCHANGED <<slot, late>>, agent' \in Agents,
         active' => active \/ slot, HasActiveSandbox' => HasActiveSandbox \/ slot
  PROVE  SpareInv'
<1>1. PlacesInv' /\ th'[t] = r /\ \A u \in Threads \ {t} : th'[u] = th[u]
  BY Zenon, ThreadMoves DEF SpareInv
<1>2. HoldInv'
  BY Zenon, <1>1, HoldKept, Apart DEF SpareInv
<1>3. SeenInv'
  BY Zenon, <1>1, SeenKept, Apart DEF SpareInv
<1>. QED
  BY Zenon, <1>1, <1>2, <1>3 DEF SpareInv

\* A goroutine goes on.
LEMMA Gone ==
  ASSUME NEW q \in Thread, NEW p \in Places
  PROVE  /\ [q EXCEPT !.pc = p] \in Thread
         /\ [q EXCEPT !.pc = p].pc = p /\ [q EXCEPT !.pc = p].then = q.then
         /\ [q EXCEPT !.pc = p].else = q.else /\ [q EXCEPT !.pc = p].holds = q.holds
  BY Zenon DEF Thread

----------------------------------------------------------------------------
\* A call of the broker.
LEMMA StepBroker ==
  ASSUME SpareInv, NEW t \in Threads, BrokerStep(t)
  PROVE  SpareInv'
<1>1. PICK p : /\ Goto(t, p)
               /\ \/ th[t].pc \in {"ensure", "store", "delete", "forget"} /\ p = th[t].then
                  \/ th[t].pc = "ensure" /\ p \in {"store", th[t].else}
                  \/ th[t].pc = "delete" /\ p = "forget"
  BY Zenon DEF BrokerStep, EnsureCached, EnsureCreate, EnsureStore, DeleteStream, DeleteForget
<1>2. UNCHANGED <<slot, active, late, agent>>
  <2>1. CASE EnsureCached(t)
    BY Zenon, <2>1 DEF EnsureCached, group, pods
  <2>2. CASE EnsureCreate(t)
    BY Zenon, <2>2 DEF EnsureCreate, group, pods
  <2>3. CASE EnsureStore(t)
    BY Zenon, <2>3 DEF EnsureStore, group, pods
  <2>4. CASE DeleteStream(t)
    BY Zenon, <2>4 DEF DeleteStream, group, pods
  <2>5. CASE DeleteForget(t)
    BY Zenon, <2>5 DEF DeleteForget, group, pods
  <2>. QED
    BY Zenon, <2>1, <2>2, <2>3, <2>4, <2>5 DEF BrokerStep
<1>. DEFINE r == [th[t] EXCEPT !.pc = p]
<1>3. th[t] \in Thread /\ p \in Places /\ agent' \in Agents
  <2>1. th[t] \in Thread /\ agent' \in Agents
    BY Zenon, <1>2 DEF SpareInv, PlacesInv
  <2>2. th[t].then \in Places /\ th[t].else \in Places
    BY Zenon, <2>1 DEF Thread, Returns
  <2>. QED
    BY Zenon, <1>1, <2>1, <2>2 DEF Places
<1>4. r \in Thread /\ r.pc = p /\ r.then = th[t].then /\ r.else = th[t].else /\ r.holds = th[t].holds
  BY Zenon, <1>3, Gone
<1>5. th' = [th EXCEPT ![t] = r]
  BY Zenon, <1>1 DEF Goto
<1>. HIDE DEF r
<1>6. t \in Spawns => SpawnAt(r)
  <2>1. t \in Spawns => SpawnAt(th[t])
    BY Zenon DEF SpareInv, PlacesInv
  <2>. QED
    BY Zenon, <1>1, <1>4, <2>1 DEF SpawnAt
<1>7. t \in Watchers => WatcherAt(r)
  <2>1. t \in Watchers => WatcherAt(th[t])
    BY Zenon DEF SpareInv, PlacesInv
  <2>. QED
    BY Zenon, <1>1, <1>4, <2>1 DEF WatcherAt
<1>8. HasActiveSandbox' <=> HasActiveSandbox
  BY Zenon, <1>2 DEF HasActiveSandbox
<1>9. CASE t # Reconciler
  BY Zenon, <1>2, <1>3, <1>4, <1>5, <1>6, <1>7, <1>8, <1>9, QuietMove
<1>10. CASE t = Reconciler
  <2>1. ReconcilerAt(th[Reconciler])
    BY Zenon DEF SpareInv, PlacesInv
  <2>2. ReconcilerAt(r) /\ r.pc \in {"idle", "forget"}
    BY Zenon, <1>1, <1>4, <1>10, <2>1 DEF ReconcilerAt
  <2>3. PlacesInv' /\ th'[t] = r /\ \A u \in Threads \ {t} : th'[u] = th[u]
    BY Zenon, <1>3, <1>4, <1>5, <1>6, <1>7, <2>2, ThreadMoves DEF SpareInv
  <2>4. HoldInv'
    BY Zenon, <1>2, <1>10, <2>3, HoldKept, Apart DEF SpareInv
  <2>5. SeenInv'
    BY Zenon, <1>10, <2>2, <2>3 DEF SeenInv
  <2>. QED
    BY Zenon, <2>3, <2>4, <2>5 DEF SpareInv
<1>. QED
  BY Zenon, <1>9, <1>10

----------------------------------------------------------------------------
\* The slot is claimed while nobody holds it.
LEMMA StepClaim ==
  ASSUME SpareInv, NEW s \in Spawns, Claim(s)
  PROVE  SpareInv'
<1>. DEFINE r == IF FastStart
                 THEN [Idle EXCEPT !.pc = "ensure", !.then = "consumer", !.else = "again",
                                   !.holds = TRUE]
                 ELSE [Idle EXCEPT !.pc = "create", !.holds = TRUE]
<1>1. r \in Thread /\ SpawnAt(r)
  BY Zenon DEF Idle, Thread, SpawnAt, Places, Returns
<1>2. th' = [th EXCEPT ![s] = r] /\ ~slot /\ slot' = TRUE /\ late' = TRUE /\ agent' = agent
  BY Zenon DEF Claim, pods
<1>. HIDE DEF r
<1>3. PlacesInv' /\ th'[s] = r /\ \A u \in Threads \ {s} : th'[u] = th[u]
  BY Zenon, <1>1, <1>2, Apart, ThreadMoves DEF SpareInv, PlacesInv
<1>4. HoldInv'
  BY Zenon, <1>2, <1>3, Apart DEF SpareInv, HoldInv
<1>5. SeenInv'
  BY Zenon, <1>2 DEF SeenInv
<1>. QED
  BY Zenon, <1>3, <1>4, <1>5 DEF SpareInv

\* What a spawn does.
LEMMA StepSpawn ==
  ASSUME SpareInv, NEW s \in Spawns, SpawnStep(s)
  PROVE  SpareInv'
<1>. PICK q : q = th[s]
  BY Zenon
<1>0. q = th[s] /\ q \in Thread /\ SpawnAt(q) /\ s \in Threads \ {Reconciler} /\ s \notin Watchers
      /\ agent \in Agents /\ (q.holds => slot)
  BY Zenon, Apart DEF SpareInv, PlacesInv, HoldInv
<1>g. ASSUME NEW p \in Places, Goto(s, p), SpawnAt([q EXCEPT !.pc = p]), UNCHANGED <<slot, late, agent>>,
             active' => active
      PROVE  SpareInv'
  <2>. DEFINE r == [q EXCEPT !.pc = p]
  <2>1. r \in Thread /\ r.holds = q.holds /\ SpawnAt(r)
    BY Zenon, <1>0, <1>g, Gone
  <2>2. th' = [th EXCEPT ![s] = r]
    BY Zenon, <1>0, <1>g DEF Goto
  <2>. HIDE DEF r
  <2>3. HasActiveSandbox' <=> HasActiveSandbox
    BY Zenon, <1>g DEF HasActiveSandbox
  <2>. QED
    BY Zenon, <1>0, <1>g, <2>1, <2>2, <2>3, QuietMove
<1>a. /\ SpawnAt([q EXCEPT !.pc = "abort"]) /\ SpawnAt([q EXCEPT !.pc = "exit"])
      /\ SpawnAt([q EXCEPT !.pc = "idle"])
      /\ (q.pc = "consumer" => SpawnAt([q EXCEPT !.pc = "create"]) /\ SpawnAt([q EXCEPT !.pc = "again"]))
  <2>1. \A p \in {"abort", "exit", "idle", "create", "again"} :
          /\ [q EXCEPT !.pc = p].pc = p /\ [q EXCEPT !.pc = p].then = q.then
          /\ [q EXCEPT !.pc = p].else = q.else /\ [q EXCEPT !.pc = p].holds = q.holds
    BY <1>0, Gone
  <2>. QED
    BY Zenon, <1>0, <2>1 DEF SpawnAt
<1>1. CASE EnsureConsumer(s)
  <2>1. q.pc = "consumer" /\ UNCHANGED <<slot, late, agent, active>> /\ \E p \in {"create", "again"} : Goto(s, p)
    BY Zenon, <1>0, <1>1 DEF EnsureConsumer, group, pods
  <2>. QED
    BY Zenon, <1>a, <1>g, <2>1 DEF Places
<1>2. CASE EnsureAgain(s)
  <2>. DEFINE p == IF q.tries + 1 < EnsureAttempts THEN "ensure" ELSE "abort"
              n == q.tries + 1
              r == [q EXCEPT !.tries = n, !.pc = p]
  <2>1. th' = [th EXCEPT ![s] = r] /\ q.pc = "again" /\ UNCHANGED <<slot, late, agent, active>>
    BY Zenon, <1>0, <1>2 DEF EnsureAgain, group, pods
  <2>2. n \in Nat /\ p \in {"ensure", "abort"}
    BY <1>0 DEF Thread
  <2>. HIDE DEF n, p
  <2>3. r \in Thread /\ r.pc = p /\ r.then = q.then /\ r.else = q.else /\ r.holds = q.holds
    BY Zenon, <1>0, <2>2 DEF Thread, Places
  <2>. HIDE DEF r
  <2>4. SpawnAt(r)
    BY Zenon, <1>0, <2>1, <2>2, <2>3 DEF SpawnAt
  <2>5. HasActiveSandbox' <=> HasActiveSandbox
    BY Zenon, <2>1 DEF HasActiveSandbox
  <2>. QED
    BY Zenon, <1>0, <2>1, <2>3, <2>4, <2>5, QuietMove
<1>3. CASE Create(s)
  <2>0. q.pc = "create" /\ q.holds /\ slot
    BY Zenon, <1>0, <1>3 DEF Create, SpawnAt
  <2>1. CASE Goto(s, "abort") /\ agent' \in {agent, [agent EXCEPT ![s] = "starting"]}
    <3>. DEFINE r == [q EXCEPT !.pc = "abort"]
    <3>1. th' = [th EXCEPT ![s] = r] /\ agent' \in Agents /\ UNCHANGED <<slot, late, active>>
      BY Zenon, <1>0, <1>3, <2>1 DEF Create, Goto, group, Agents
    <3>2. r \in Thread /\ r.holds = q.holds /\ SpawnAt(r)
      BY Zenon, <1>0, <1>a, Gone DEF Places
    <3>. HIDE DEF r
    <3>. QED
      BY Zenon, <1>0, <2>0, <3>1, <3>2, QuietMove
  <2>2. CASE /\ agent' = [agent EXCEPT ![s] = "starting"]
             /\ th' = [th EXCEPT ![s] = [@ EXCEPT !.pc = "mark", !.created = TRUE]]
    <3>. DEFINE r == [q EXCEPT !.pc = "mark", !.created = TRUE]
    <3>1. th' = [th EXCEPT ![s] = r] /\ agent' \in Agents /\ UNCHANGED <<slot, late, active>>
      BY Zenon, <1>0, <1>3, <2>2 DEF Create, group, Agents
    <3>2. r \in Thread /\ r.pc = "mark" /\ r.holds = q.holds
      BY Zenon, <1>0 DEF Thread, Places
    <3>. HIDE DEF r
    <3>3. SpawnAt(r)
      BY Zenon, <2>0, <3>2 DEF SpawnAt
    <3>. QED
      BY Zenon, <1>0, <2>0, <3>1, <3>2, <3>3, QuietMove
  <2>. QED
    BY Zenon, <1>3, <2>1, <2>2 DEF Create
<1>4. CASE MarkActive(s)
  <2>0. /\ q.pc = "mark" /\ q.holds /\ slot /\ UNCHANGED <<slot, late, agent>>
        /\ HasActiveSandbox' <=> HasActiveSandbox
    BY Zenon, <1>0, <1>4 DEF MarkActive, SpawnAt, pods, HasActiveSandbox
  <2>1. CASE Goto(s, "abort") /\ UNCHANGED active
    BY Zenon, <1>a, <1>g, <2>0, <2>1 DEF Places
  <2>2. CASE th' = [th EXCEPT ![s] = [@ EXCEPT !.pc = "unslot", !.marked = TRUE]]
    <3>. DEFINE r == [q EXCEPT !.pc = "unslot", !.marked = TRUE]
    <3>1. th' = [th EXCEPT ![s] = r]
      BY Zenon, <1>0, <2>2
    <3>2. r \in Thread /\ r.pc = "unslot" /\ r.holds = q.holds
      BY Zenon, <1>0 DEF Thread, Places
    <3>. HIDE DEF r
    <3>3. SpawnAt(r)
      BY Zenon, <2>0, <3>2 DEF SpawnAt
    <3>. QED
      BY Zenon, <1>0, <2>0, <3>1, <3>2, <3>3, QuietMove
  <2>. QED
    BY Zenon, <1>4, <2>1, <2>2 DEF MarkActive
<1>5. CASE ReleaseSlot(s)
  <2>. DEFINE r == [q EXCEPT !.pc = "ensure", !.then = "subscribe", !.else = "abort", !.holds = FALSE]
  <2>1. th' = [th EXCEPT ![s] = r] /\ q.pc = "unslot" /\ slot' = FALSE /\ UNCHANGED <<late, agent, active>>
    BY Zenon, <1>0, <1>5 DEF ReleaseSlot, pods
  <2>2. r \in Thread /\ r.pc = "ensure" /\ r.then = "subscribe" /\ r.else = "abort" /\ r.holds = FALSE
    BY Zenon, <1>0 DEF Thread, Places, Returns
  <2>. HIDE DEF r
  <2>3. SpawnAt(r) /\ q.holds
    BY Zenon, <1>0, <2>1, <2>2 DEF SpawnAt
  <2>4. PlacesInv' /\ th'[s] = r /\ \A u \in Threads \ {s} : th'[u] = th[u]
    BY Zenon, <1>0, <2>1, <2>2, <2>3, ThreadMoves DEF SpareInv
  <2>5. HoldInv'
    BY Zenon, <1>0, <2>2, <2>3, <2>4, Apart DEF SpareInv, HoldInv
  <2>6. SeenInv'
    BY Zenon, <1>0, <2>1, <2>4, SeenKept, Apart DEF SpareInv, HasActiveSandbox
  <2>. QED
    BY Zenon, <2>4, <2>5, <2>6 DEF SpareInv
<1>6. CASE Subscribe(s)
  <2>0. UNCHANGED <<slot, late, agent, active>> /\ (HasActiveSandbox' <=> HasActiveSandbox)
    BY Zenon, <1>6 DEF Subscribe, group, pods, HasActiveSandbox
  <2>1. CASE Goto(s, "abort")
    BY Zenon, <1>a, <1>g, <2>0, <2>1 DEF Places
  <2>2. CASE th' = [th EXCEPT ![s] = [@ EXCEPT !.pc = "ensure", !.then = "send", !.else = "abort"],
                              ![Watcher(s)] = [@ EXCEPT !.pc = "watch"]]
    <3>. DEFINE r == [q EXCEPT !.pc = "ensure", !.then = "send", !.else = "abort"]
                v == [th[Watcher(s)] EXCEPT !.pc = "watch"]
    <3>0. Watcher(s) \in Threads /\ Watcher(s) # s /\ Watcher(s) # Reconciler /\ Watcher(s) \notin Spawns
      BY Zenon, Apart
    <3>1. th' = [[th EXCEPT ![s] = r] EXCEPT ![Watcher(s)] = v]
      BY Zenon, <1>0, <2>2, <3>0 DEF SpareInv, PlacesInv
    <3>2. r \in Thread /\ r.pc = "ensure" /\ r.then = "send" /\ r.else = "abort" /\ r.holds = q.holds
      BY Zenon, <1>0 DEF Thread, Places, Returns
    <3>3. v \in Thread /\ v.pc = "watch"
      <4>1. th[Watcher(s)] \in Thread
        BY Zenon, <3>0 DEF SpareInv, PlacesInv
      <4>. QED
        BY Zenon, <4>1 DEF Thread, Places
    <3>. HIDE DEF r, v
    <3>4. SpawnAt(r) /\ WatcherAt(v)
      BY Zenon, <3>2, <3>3 DEF SpawnAt, WatcherAt
    <3>5. /\ th' \in [Threads -> Thread] /\ th'[s] = r /\ th'[Watcher(s)] = v
          /\ \A u \in Threads \ {s, Watcher(s)} : th'[u] = th[u]
      BY Zenon, <1>0, <3>0, <3>1, <3>2, <3>3 DEF SpareInv, PlacesInv
    <3>6. PlacesInv'
      <4>1. \A u \in Spawns : SpawnAt(th'[u])
        BY Zenon, <1>0, <3>0, <3>4, <3>5, Apart DEF SpareInv, PlacesInv
      <4>2. \A u \in Watchers : WatcherAt(th'[u])
        BY Zenon, <1>0, <3>0, <3>4, <3>5, Apart DEF SpareInv, PlacesInv, Threads
      <4>3. ReconcilerAt(th'[Reconciler])
        BY Zenon, <1>0, <3>0, <3>5, Apart DEF SpareInv, PlacesInv
      <4>. QED
        BY Zenon, <1>0, <2>0, <3>5, <4>1, <4>2, <4>3 DEF PlacesInv
    <3>7. HoldInv'
      BY Zenon, <1>0, <2>0, <3>0, <3>2, <3>5, Apart, HoldKept DEF SpareInv
    <3>8. SeenInv'
      BY Zenon, <1>0, <2>0, <3>0, <3>5, Apart, SeenKept DEF SpareInv
    <3>. QED
      BY Zenon, <3>6, <3>7, <3>8 DEF SpareInv
  <2>. QED
    BY Zenon, <1>6, <2>1, <2>2 DEF Subscribe
<1>7. CASE SendInput(s)
  <2>0. /\ UNCHANGED <<slot, late, agent, active>> /\ (HasActiveSandbox' <=> HasActiveSandbox)
        /\ th[s].pc = "send"
    BY Zenon, <1>7 DEF SendInput, group, pods, HasActiveSandbox
  <2>1. CASE Goto(s, "abort")
    BY Zenon, <1>a, <1>g, <2>0, <2>1 DEF Places
  <2>2. CASE th' = [th EXCEPT ![s] = Idle]
    <3>1. Idle \in Thread /\ SpawnAt(Idle) /\ ~Idle.holds
      BY Zenon DEF Idle, Thread, SpawnAt, Places, Returns
    <3>2. PlacesInv' /\ th'[s] = Idle /\ \A u \in Threads \ {s} : th'[u] = th[u]
      BY Zenon, <1>0, <2>0, <2>2, <3>1, ThreadMoves DEF SpareInv
    <3>3. HoldInv'
      BY Zenon, <1>0, <2>0, <3>1, <3>2, Apart, HoldKept DEF SpareInv
    <3>4. SeenInv'
      BY Zenon, <1>0, <2>0, <3>2, SeenKept, Apart DEF SpareInv
    <3>. QED
      BY Zenon, <3>2, <3>3, <3>4 DEF SpareInv
  <2>. QED
    BY Zenon, <1>7, <2>1, <2>2 DEF SendInput
<1>8. CASE Abort(s)
  <2>0. UNCHANGED <<slot, late, agent, active>> /\ (HasActiveSandbox' <=> HasActiveSandbox)
    BY Zenon, <1>8 DEF Abort, group, HasActiveSandbox
  <2>1. CASE Goto(s, "exit")
    BY Zenon, <1>a, <1>g, <2>0, <2>1 DEF Places
  <2>2. CASE Call(s, "delete", "exit", "exit")
    <3>. DEFINE r == [q EXCEPT !.pc = "delete", !.then = "exit", !.else = "exit"]
    <3>1. th' = [th EXCEPT ![s] = r]
      BY Zenon, <1>0, <2>2 DEF Call
    <3>2. r \in Thread /\ r.pc = "delete" /\ r.then = "exit" /\ r.holds = q.holds
      BY Zenon, <1>0 DEF Thread, Places, Returns
    <3>. HIDE DEF r
    <3>3. SpawnAt(r)
      BY Zenon, <3>2 DEF SpawnAt
    <3>. QED
      BY Zenon, <1>0, <2>0, <3>1, <3>2, <3>3, QuietMove
  <2>. QED
    BY Zenon, <1>8, <2>1, <2>2 DEF Abort
<1>9. CASE Exit(s)
  <2>1. /\ th' = [th EXCEPT ![s] = Idle] /\ slot' = (slot /\ ~q.holds) /\ UNCHANGED <<late, agent>>
        /\ (active' => active)
    <3>1. th' = [th EXCEPT ![s] = Idle] /\ slot' = (slot /\ ~q.holds) /\ UNCHANGED <<late, agent>>
      BY Zenon, <1>0, <1>9 DEF Exit, pods
    <3>2. active' => active
      <4>1. CASE active' = (active /\ ~th[s].marked)
        BY Zenon, <4>1
      <4>2. CASE UNCHANGED active
        BY Zenon, <4>2
      <4>. QED
        BY Zenon, <1>9, <4>1, <4>2 DEF Exit
    <3>. QED
      BY Zenon, <3>1, <3>2
  <2>2. Idle \in Thread /\ SpawnAt(Idle) /\ ~Idle.holds
    BY Zenon DEF Idle, Thread, SpawnAt, Places, Returns
  <2>3. PlacesInv' /\ th'[s] = Idle /\ \A u \in Threads \ {s} : th'[u] = th[u]
    BY Zenon, <1>0, <2>1, <2>2, ThreadMoves DEF SpareInv
  <2>4. HoldInv'
    BY Zenon, <1>0, <2>1, <2>2, <2>3, Apart DEF SpareInv, HoldInv
  <2>5. SeenInv'
    BY Zenon, <1>0, <2>1, <2>3, SeenKept, Apart DEF SpareInv, HasActiveSandbox
  <2>. QED
    BY Zenon, <2>3, <2>4, <2>5 DEF SpareInv
<1>. QED
  BY Zenon, <1>1, <1>2, <1>3, <1>4, <1>5, <1>6, <1>7, <1>8, <1>9 DEF SpawnStep

\* What a watcher does.
LEMMA StepWatch ==
  ASSUME SpareInv, NEW s \in Spawns, WatchStep(s) \/ WatchTimeout(s)
  PROVE  SpareInv'
<1>. PICK w : w = Watcher(s)
  BY Zenon
<1>. PICK q : q = th[w]
  BY Zenon
<1>0. /\ w = Watcher(s) /\ q = th[w] /\ w \in Threads \ {Reconciler} /\ w \in Watchers /\ w \notin Spawns
      /\ q \in Thread /\ WatcherAt(q) /\ agent \in Agents
  BY Zenon, Apart DEF SpareInv, PlacesInv
<1>m. ASSUME NEW r \in Thread, th' = [th EXCEPT ![w] = r], WatcherAt(r), UNCHANGED <<slot, late, agent>>,
             active' => active
      PROVE  SpareInv'
  <2>1. HasActiveSandbox' <=> HasActiveSandbox
    BY Zenon, <1>m DEF HasActiveSandbox
  <2>. QED
    BY Zenon, <1>0, <1>m, <2>1, QuietMove
<1>g. ASSUME NEW p \in {"deactivate", "retry"}, Goto(w, p), UNCHANGED <<slot, late, agent, active>>,
             p = "retry" => q.pc = "resubscribe"
      PROVE  SpareInv'
  <2>. DEFINE r == [q EXCEPT !.pc = p]
  <2>1. r \in Thread /\ r.pc = p /\ r.then = q.then /\ r.else = q.else
    BY Zenon, <1>0 DEF Thread, Places
  <2>2. th' = [th EXCEPT ![w] = r]
    BY Zenon, <1>0, <1>g DEF Goto
  <2>. HIDE DEF r
  <2>3. WatcherAt(r)
    BY Zenon, <1>0, <1>g, <2>1 DEF WatcherAt
  <2>. QED
    BY Zenon, <1>g, <1>m, <2>1, <2>2, <2>3
<1>i. Idle \in Thread /\ WatcherAt(Idle)
  BY Zenon DEF Idle, Thread, Places, Returns, WatcherAt
<1>1. CASE WatchLost(s)
  <2>. DEFINE r == [q EXCEPT !.pc = "ensure", !.then = "resubscribe", !.else = "retry", !.tries = 0]
  <2>1. th' = [th EXCEPT ![w] = r] /\ UNCHANGED <<slot, late, agent, active>>
    BY Zenon, <1>0, <1>1 DEF WatchLost, group, pods
  <2>2. r \in Thread /\ r.pc = "ensure" /\ r.then = "resubscribe" /\ r.else = "retry"
    BY Zenon, <1>0 DEF Thread, Places, Returns
  <2>. HIDE DEF r
  <2>3. WatcherAt(r)
    BY Zenon, <2>2 DEF WatcherAt
  <2>. QED
    BY Zenon, <1>m, <2>1, <2>2, <2>3
<1>2. CASE Resubscribe(s)
  <2>0. q.pc = "resubscribe" /\ UNCHANGED <<slot, late, agent, active>>
    BY Zenon, <1>0, <1>2 DEF Resubscribe, group, pods
  <2>1. CASE Goto(w, "retry")
    BY Zenon, <1>g, <2>0, <2>1
  <2>2. CASE th' = [th EXCEPT ![w] = [Idle EXCEPT !.pc = "watch", !.connected = TRUE]]
    <3>. DEFINE r == [Idle EXCEPT !.pc = "watch", !.connected = TRUE]
    <3>1. th' = [th EXCEPT ![w] = r]
      BY Zenon, <1>0, <2>2
    <3>2. r \in Thread /\ r.pc = "watch"
      BY Zenon DEF Idle, Thread, Places, Returns
    <3>. HIDE DEF r
    <3>3. WatcherAt(r)
      BY Zenon, <3>2 DEF WatcherAt
    <3>. QED
      BY Zenon, <1>m, <2>0, <3>1, <3>2, <3>3
  <2>. QED
    BY Zenon, <1>0, <1>2, <2>1, <2>2 DEF Resubscribe
<1>3. CASE Retry(s)
  <2>. DEFINE p == IF q.tries + 1 < ReconnectAttempts THEN "ensure" ELSE "deactivate"
              n == q.tries + 1
              r == [q EXCEPT !.tries = n, !.pc = p]
  <2>1. th' = [th EXCEPT ![w] = r] /\ q.pc = "retry" /\ UNCHANGED <<slot, late, agent, active>>
    BY Zenon, <1>0, <1>3 DEF Retry, group, pods
  <2>2. n \in Nat /\ p \in {"ensure", "deactivate"}
    BY <1>0 DEF Thread
  <2>. HIDE DEF n, p
  <2>3. r \in Thread /\ r.pc = p /\ r.then = q.then /\ r.else = q.else
    BY Zenon, <1>0, <2>2 DEF Thread, Places
  <2>. HIDE DEF r
  <2>4. WatcherAt(r)
    BY Zenon, <1>0, <2>1, <2>2, <2>3 DEF WatcherAt
  <2>. QED
    BY Zenon, <1>m, <2>1, <2>3, <2>4
<1>4. CASE WatchShutdown(s)
  <2>. DEFINE r == [q EXCEPT !.pc = "delete", !.then = "deactivate", !.else = "deactivate"]
  <2>1. th' = [th EXCEPT ![w] = r] /\ UNCHANGED <<slot, late, agent, active>>
    BY Zenon, <1>0, <1>4 DEF WatchShutdown, Call, group, pods
  <2>2. r \in Thread /\ r.pc = "delete" /\ r.then = "deactivate"
    BY Zenon, <1>0 DEF Thread, Places, Returns
  <2>. HIDE DEF r
  <2>3. WatcherAt(r)
    BY Zenon, <2>2 DEF WatcherAt
  <2>. QED
    BY Zenon, <1>m, <2>1, <2>2, <2>3
<1>5. CASE WatchDead(s) \/ WatchTimeout(s)
  <2>1. Goto(w, "deactivate") /\ UNCHANGED <<slot, late, agent, active>>
    BY Zenon, <1>0, <1>5 DEF WatchDead, WatchTimeout, group, pods
  <2>. QED
    BY Zenon, <1>g, <2>1
<1>6. CASE Deactivate(s)
  <2>1. th' = [th EXCEPT ![w] = Idle] /\ UNCHANGED <<slot, late, agent>> /\ (active' => active)
    BY <1>0, <1>6 DEF Deactivate, pods
  <2>. QED
    BY Zenon, <1>i, <1>m, <2>1
<1>. QED
  BY Zenon, <1>1, <1>2, <1>3, <1>4, <1>5, <1>6 DEF WatchStep

\* What the handler of events and the sender do.
LEMMA StepOthers ==
  ASSUME SpareInv, EventStep \/ SenderCalls \/ SenderEnds
  PROVE  SpareInv'
<1>0. UNCHANGED <<slot, late, agent>> /\ (HasActiveSandbox' <=> HasActiveSandbox) /\ agent' \in Agents
  <2>1. UNCHANGED <<slot, late, agent>>
    BY Zenon DEF EventStep, EventCheck, EventClear, EventUnmark, SenderCalls, SenderEnds, group, pods
  <2>. QED
    BY Zenon, <2>1 DEF HasActiveSandbox, SpareInv, PlacesInv
<1>1. active' => active
  <2>1. UNCHANGED active \/ active' = FALSE
    BY Zenon DEF EventStep, EventCheck, EventClear, EventUnmark, SenderCalls, SenderEnds, group
  <2>. QED
    BY Zenon, <2>1
<1>m. ASSUME NEW t \in {Handler, Sender}, NEW r \in Thread, th' = [th EXCEPT ![t] = r]
      PROVE  SpareInv'
  BY Zenon, <1>0, <1>1, <1>m, Apart, QuietMove
<1>g. ASSUME NEW p \in Places, Goto(Handler, p)
      PROVE  SpareInv'
  <2>1. th[Handler] \in Thread
    BY Zenon, Apart DEF SpareInv, PlacesInv
  <2>2. [th[Handler] EXCEPT !.pc = p] \in Thread
    BY Zenon, <2>1, Gone
  <2>. QED
    BY Zenon, <1>g, <1>m, <2>2 DEF Goto
<1>2. CASE EventStep
  <2>1. UNCHANGED th \/ \E p \in {"idle", "clear", "unmark"} : Goto(Handler, p)
    BY Zenon, <1>2 DEF EventStep, EventCheck, EventClear, EventUnmark
  <2>2. CASE UNCHANGED th
    BY Zenon, <1>0, <1>1, <2>2 DEF SpareInv, PlacesInv, HoldInv, SeenInv
  <2>. QED
    BY Zenon, <1>g, <2>1, <2>2 DEF Places
<1>3. CASE SenderCalls
  <2>. DEFINE r == [th[Sender] EXCEPT !.pc = "ensure", !.then = "deliver", !.else = "idle"]
  <2>1. th[Sender] \in Thread
    BY Zenon, Apart DEF SpareInv, PlacesInv
  <2>2. r \in Thread
    BY Zenon, <2>1 DEF Thread, Places, Returns
  <2>3. th' = [th EXCEPT ![Sender] = r]
    BY Zenon, <1>3 DEF SenderCalls, Call
  <2>. QED
    BY Zenon, <1>m, <2>2, <2>3
<1>4. CASE SenderEnds
  <2>1. Idle \in Thread
    BY Zenon DEF Idle, Thread, Places, Returns
  <2>. QED
    BY Zenon, <1>m, <1>4, <2>1 DEF SenderEnds
<1>. QED
  BY Zenon, <1>2, <1>3, <1>4

\* What an agent does.
LEMMA StepAgent ==
  ASSUME SpareInv, NEW s \in Spawns, AgentStep(s) \/ AgentQuits(s)
  PROVE  SpareInv'
<1>1. UNCHANGED <<slot, active, late, th>>
  BY Zenon
    DEF AgentStep, AgentStarts, AgentFetches, AgentRetries, AgentFails, AgentNeverRuns,
        AgentQuits, Ends, group
<1>2. agent' = agent \/ (agent' = [agent EXCEPT ![s] = "none"])
        \/ (agent[s] # "none" /\ \E a \in {"fetching", "reading"} : agent' = [agent EXCEPT ![s] = a])
  BY Zenon
    DEF AgentStep, AgentStarts, AgentFetches, AgentRetries, AgentFails, AgentNeverRuns,
        AgentQuits, Ends
<1>3. agent \in Agents
  BY Zenon DEF SpareInv, PlacesInv
<1>4. agent' \in Agents
  BY Zenon, <1>2, <1>3 DEF Agents
<1>5. HasActiveSandbox' => HasActiveSandbox
  BY Zenon, <1>2, <1>3 DEF Agents, HasActiveSandbox
<1>. QED
  BY Zenon, <1>1, <1>4, <1>5 DEF SpareInv, PlacesInv, HoldInv, SeenInv

\* What the reconciler does.
LEMMA StepReconcile ==
  ASSUME SpareInv, ReconcileStep
  PROVE  SpareInv'
<1>. PICK q : q = th[Reconciler]
  BY Zenon
<1>0. q = th[Reconciler] /\ q \in Thread /\ ReconcilerAt(q) /\ agent \in Agents
  BY Zenon, Apart DEF SpareInv, PlacesInv
<1>1. UNCHANGED <<slot, active, agent>> /\ (HasActiveSandbox' <=> HasActiveSandbox)
  <2>1. UNCHANGED <<slot, active, agent>>
    BY Zenon DEF ReconcileStep, ReconcileSlot, ReconcileActive, ReconcileSandbox, ReconcileExists, group, pods
  <2>. QED
    BY Zenon, <2>1 DEF HasActiveSandbox
<1>m. ASSUME NEW r \in Thread, th' = [th EXCEPT ![Reconciler] = r], ReconcilerAt(r)
      PROVE  PlacesInv' /\ HoldInv' /\ th'[Reconciler] = r
  <2>1. PlacesInv' /\ th'[Reconciler] = r /\ \A u \in Threads \ {Reconciler} : th'[u] = th[u]
    BY Zenon, <1>0, <1>1, <1>m, Apart, ThreadMoves DEF SpareInv
  <2>. QED
    BY Zenon, <1>1, <2>1, Apart, HoldKept DEF SpareInv
<1>g. ASSUME NEW p \in {"idle", "active", "sandbox", "exists"}, Reconcile(p)
      PROVE  PlacesInv' /\ HoldInv' /\ th'[Reconciler].pc = p
  <2>. DEFINE r == [q EXCEPT !.pc = p]
  <2>1. r \in Thread /\ r.pc = p
    BY Zenon, <1>0 DEF Thread, Places
  <2>2. th' = [th EXCEPT ![Reconciler] = r]
    BY Zenon, <1>0, <1>g DEF Reconcile
  <2>. HIDE DEF r
  <2>3. ReconcilerAt(r)
    BY Zenon, <2>1 DEF ReconcilerAt
  <2>. QED
    BY Zenon, <1>m, <2>1, <2>2, <2>3
<1>i. CASE Reconcile("idle")
  BY Zenon, <1>g, <1>i DEF SpareInv, SeenInv
<1>2. CASE ReconcileSlot
  <2>1. CASE slot
    BY Zenon, <1>0, <1>1, <1>2, <2>1 DEF ReconcileSlot, SpareInv, PlacesInv, HoldInv, SeenInv
  <2>2. CASE ~slot
    <3>1. Reconcile("active")
      BY Zenon, <1>2, <2>2 DEF ReconcileSlot
    <3>. QED
      BY Zenon, <1>1, <1>g, <2>2, <3>1 DEF SpareInv, SeenInv
  <2>. QED
    BY Zenon, <2>1, <2>2
<1>3. CASE ReconcileActive /\ ~Reconcile("idle")
  <2>1. q.pc = "active" /\ ~active /\ Reconcile("sandbox") /\ late' = late
    BY Zenon, <1>0, <1>3 DEF ReconcileActive, group
  <2>. QED
    BY Zenon, <1>0, <1>1, <1>g, <2>1 DEF SpareInv, SeenInv
<1>4. CASE ReconcileSandbox /\ ~Reconcile("idle")
  <2>1. q.pc = "sandbox" /\ ~HasActiveSandbox /\ Reconcile("exists") /\ late' = late
    BY Zenon, <1>0, <1>4 DEF ReconcileSandbox, group
  <2>. QED
    BY Zenon, <1>0, <1>1, <1>g, <2>1 DEF SpareInv, SeenInv
<1>5. CASE ReconcileExists /\ ~Reconcile("idle")
  <2>. DEFINE r == [q EXCEPT !.pc = "delete", !.then = "idle", !.else = "idle"]
  <2>1. q.pc = "exists" /\ th' = [th EXCEPT ![Reconciler] = r] /\ late' = late
    BY Zenon, <1>0, <1>5 DEF ReconcileExists, Call, group
  <2>2. r \in Thread /\ r.pc = "delete" /\ r.then = "idle"
    BY Zenon, <1>0 DEF Thread, Places, Returns
  <2>. HIDE DEF r
  <2>3. ReconcilerAt(r)
    BY Zenon, <2>2 DEF ReconcilerAt
  <2>. QED
    BY Zenon, <1>0, <1>1, <1>m, <2>1, <2>2, <2>3 DEF SpareInv, SeenInv
<1>. QED
  BY Zenon, <1>i, <1>2, <1>3, <1>4, <1>5 DEF ReconcileStep

\* The invariant holds throughout.
LEMMA SpareInvariant == Spec => []SpareInv
<1>1. Init => SpareInv
  <2>. SUFFICES ASSUME Init PROVE SpareInv
    BY Zenon
  <2>1. Idle \in Thread /\ SpawnAt(Idle) /\ WatcherAt(Idle) /\ ReconcilerAt(Idle) /\ ~Idle.holds /\ Idle.pc = "idle"
    BY Zenon DEF Idle, Thread, Places, Returns, SpawnAt, WatcherAt, ReconcilerAt
  <2>2. \A t \in Threads : th[t] = Idle
    BY Zenon DEF Init, Start
  <2>3. th \in [Threads -> Thread] /\ agent \in Agents
    BY Zenon, <2>1 DEF Init, Start, Agents
  <2>4. PlacesInv
    BY Zenon, <2>1, <2>2, <2>3 DEF PlacesInv, Threads
  <2>. QED
    BY Zenon, <2>1, <2>2, <2>4, Apart DEF SpareInv, HoldInv, SeenInv
<1>2. SpareInv /\ [Next]_vars => SpareInv'
  <2>. SUFFICES ASSUME SpareInv, [Next]_vars PROVE SpareInv'
    BY Zenon
  <2>1. CASE Next
    BY Zenon, <2>1, StepBroker, StepClaim, StepSpawn, StepWatch, StepOthers, StepAgent, StepReconcile DEF Next
  <2>2. CASE UNCHANGED vars
    <3>1. UNCHANGED <<th, agent, slot, active, late>>
      BY Zenon, <2>2 DEF vars, group, pods
    <3>. QED
      BY Zenon, <3>1 DEF SpareInv, PlacesInv, HoldInv, SeenInv, HasActiveSandbox
  <2>. QED
    BY Zenon, <2>1, <2>2
<1>. QED
  BY <1>1, <1>2, PTL DEF Spec

\* For any number of spawns, watchers, senders and faults, reconcileIPCStreams never deletes
\* the streams of a group that has a slot, is active or has a sandbox, unless the spawn began
\* after the pass looked at the slots: it looks at the slot, is_active and the sandboxes in
\* the order in which a spawn passes through them.
THEOREM SparesTheorem == Spec => []ReconcilerSparesSpawns
<1>1. SpareInv => ReconcilerSparesSpawns
  BY Zenon DEF SpareInv, SeenInv, ReconcilerSparesSpawns
<1>. QED
  BY <1>1, SpareInvariant, PTL

----------------------------------------------------------------------------
\* The cache of the streams that exist.

\* A spawn that has not subscribed to the output yet.
Early(r) ==
    \/ r.pc \in {"consumer", "again", "create", "mark", "unslot", "subscribe"}
    \/ r.pc \in {"ensure", "store"} /\ r.then \in {"consumer", "subscribe"}

\* While an ensureStream has created the stream and not stored that, only a deletion
\* recorded in crossed takes the stream away.  The watcher of a spawn begins with its
\* subscription, so no DeleteStreams of a watcher is cut short by one.
CacheInv ==
    /\ Storing /\ ~stream => crossed
    /\ CacheHonest
    /\ \A s \in Spawns : Early(th[s]) => th[Watcher(s)].pc = "idle"

\* A goroutine calls, to go on at one of two places.
LEMMA Called ==
  ASSUME NEW q \in Thread, NEW p \in Places, NEW a \in Returns, NEW b \in Returns
  PROVE  /\ [q EXCEPT !.pc = p, !.then = a, !.else = b] \in Thread
         /\ [q EXCEPT !.pc = p, !.then = a, !.else = b].pc = p
  BY Zenon DEF Thread

\* Places that calls are made at and return to.
LEMMA Literals ==
  /\ {"ensure", "store", "delete"} \subseteq Places
  /\ {"subscribe", "abort", "exit", "resubscribe", "retry", "deactivate", "deliver", "idle"} \subseteq Returns
  BY Zenon DEF Places, Returns

\* A step that begins no store, ends no deletion and takes no stream away keeps this.
LEMMA CacheKept ==
  ASSUME CacheInv, stream => stream', UNCHANGED <<cache, crossed>>,
         \A t \in Threads : /\ th'[t].pc = "store" => th[t].pc = "store"
                            /\ th[t].pc = "forget" => th'[t].pc = "forget",
         \A s \in Spawns : Early(th'[s]) => th'[Watcher(s)].pc = "idle"
  PROVE  CacheInv'
<1>1. Storing' => Storing
  BY Zenon DEF Storing
<1>2. CacheHonest'
  BY Zenon DEF CacheInv, CacheHonest
<1>. QED
  BY Zenon, <1>1, <1>2 DEF CacheInv

\* A goroutine that moves leaves the watchers as they should be.
LEMMA EarlyKept ==
  ASSUME SpareInv, CacheInv, NEW t \in Threads, NEW r \in Thread, th' = [th EXCEPT ![t] = r],
         t \in Spawns /\ Early(r) => Early(th[t]), t \in Watchers => th[t].pc # "idle",
         NEW s \in Spawns, Early(th'[s])
  PROVE  th'[Watcher(s)].pc = "idle"
<1>1. th'[t] = r /\ \A u \in Threads \ {t} : th'[u] = th[u]
  BY Zenon DEF SpareInv, PlacesInv
<1>2. Early(th[s])
  BY Zenon, <1>1, Apart
<1>3. th[Watcher(s)].pc = "idle" /\ Watcher(s) # t
  BY Zenon, <1>2, Apart DEF CacheInv
<1>. QED
  BY Zenon, <1>1, <1>3, Apart

\* One goroutine moves.
LEMMA CacheMove ==
  ASSUME SpareInv, CacheInv, NEW t \in Threads, NEW r \in Thread, th' = [th EXCEPT ![t] = r],
         stream => stream', UNCHANGED <<cache, crossed>>, r.pc # "store", th[t].pc # "forget",
         t \in Spawns /\ Early(r) => Early(th[t]), t \in Watchers => th[t].pc # "idle"
  PROVE  CacheInv'
<1>1. th'[t] = r /\ \A u \in Threads \ {t} : th'[u] = th[u]
  BY Zenon DEF SpareInv, PlacesInv
<1>2. \A s \in Spawns : Early(th'[s]) => th'[Watcher(s)].pc = "idle"
  BY Zenon, EarlyKept
<1>3. \A u \in Threads : /\ th'[u].pc = "store" => th[u].pc = "store"
                         /\ th[u].pc = "forget" => th'[u].pc = "forget"
  BY Zenon, <1>1
<1>. QED
  BY Zenon, <1>2, <1>3, CacheKept

\* One goroutine goes on to another place.
LEMMA CacheGoto ==
  ASSUME SpareInv, CacheInv, NEW t \in Threads, NEW p \in Returns, Goto(t, p),
         stream => stream', UNCHANGED <<cache, crossed>>, th[t].pc # "forget",
         t \in Spawns => \/ p \in {"abort", "exit", "send"}
                         \/ p # "ensure" /\ Early(th[t]),
         t \in Watchers => th[t].pc # "idle"
  PROVE  CacheInv'
<1>. DEFINE r == [th[t] EXCEPT !.pc = p]
<1>1. th[t] \in Thread /\ p \in Places /\ p # "store"
  BY Zenon DEF SpareInv, PlacesInv, Returns
<1>2. r \in Thread /\ r.pc = p /\ r.then = th[t].then
  BY Zenon, <1>1, Gone
<1>3. th' = [th EXCEPT ![t] = r]
  BY Zenon DEF Goto
<1>. HIDE DEF r
<1>4. t \in Spawns /\ Early(r) => Early(th[t])
  BY Zenon, <1>2 DEF Early
<1>. QED
  BY Zenon, <1>1, <1>2, <1>3, <1>4, CacheMove

\* A call of the broker.
LEMMA CacheBroker ==
  ASSUME SpareInv, CacheInv, NEW t \in Threads, BrokerStep(t)
  PROVE  CacheInv'
<1>0. th[t] \in Thread /\ (t \in Spawns => SpawnAt(th[t])) /\ th \in [Threads -> Thread]
  BY Zenon DEF SpareInv, PlacesInv
<1>1. th[t].then \in Returns /\ th[t].else \in Returns
  BY Zenon, <1>0 DEF Thread
<1>2. t \in Spawns /\ th[t].pc \in {"ensure", "store"} =>
        /\ th[t].then = "send" \/ (th[t].then # "ensure" /\ Early(th[t]))
        /\ th[t].else = "abort" \/ (th[t].else # "ensure" /\ Early(th[t]))
  BY Zenon, <1>0 DEF SpawnAt, Early
<1>3. t \in Spawns /\ th[t].pc \in {"delete", "forget"} => th[t].then = "exit"
  BY Zenon, <1>0 DEF SpawnAt
<1>4. CASE EnsureCached(t)
  <2>1. th[t].pc = "ensure" /\ Goto(t, th[t].then) /\ UNCHANGED <<stream, cache, crossed>>
    BY Zenon, <1>4 DEF EnsureCached, nats
  <2>. QED
    BY Zenon, <1>1, <1>2, <2>1, CacheGoto
<1>5. CASE EnsureCreate(t)
  <2>0. th[t].pc = "ensure" /\ UNCHANGED cache
    BY Zenon, <1>5 DEF EnsureCreate
  <2>1. CASE Goto(t, th[t].else) /\ UNCHANGED <<stream, crossed>>
    BY Zenon, <1>1, <1>2, <2>0, <2>1, CacheGoto
  <2>2. CASE stream' = TRUE /\ Goto(t, "store")
    <3>. DEFINE r == [th[t] EXCEPT !.pc = "store"]
    <3>0. "store" \in Places
      BY Zenon, Literals
    <3>1. r \in Thread /\ r.pc = "store" /\ r.then = th[t].then
      BY Zenon, <1>0, <3>0, Gone
    <3>2. th' = [th EXCEPT ![t] = r]
      BY Zenon, <2>2 DEF Goto
    <3>. HIDE DEF r
    <3>3. t \in Spawns /\ Early(r) => Early(th[t])
      BY Zenon, <2>0, <3>1 DEF Early
    <3>4. \A s \in Spawns : Early(th'[s]) => th'[Watcher(s)].pc = "idle"
      BY Zenon, <2>0, <3>1, <3>2, <3>3, EarlyKept
    <3>. QED
      BY Zenon, <2>2, <3>4 DEF CacheInv, CacheHonest
  <2>. QED
    BY Zenon, <1>5, <2>1, <2>2 DEF EnsureCreate
<1>6. CASE EnsureStore(t)
  <2>1. th[t].pc = "store" /\ Goto(t, th[t].then) /\ UNCHANGED <<stream, crossed>>
    BY Zenon, <1>6 DEF EnsureStore, nats
  <2>. DEFINE r == [th[t] EXCEPT !.pc = th[t].then]
  <2>2. r \in Thread /\ r.pc = th[t].then /\ r.then = th[t].then /\ r.pc # "store"
    BY Zenon, <1>0, <1>1, Gone DEF Returns
  <2>3. th' = [th EXCEPT ![t] = r]
    BY Zenon, <2>1 DEF Goto
  <2>. HIDE DEF r
  <2>4. t \in Spawns /\ Early(r) => Early(th[t])
    BY Zenon, <1>2, <2>1, <2>2 DEF Early
  <2>5. \A s \in Spawns : Early(th'[s]) => th'[Watcher(s)].pc = "idle"
    BY Zenon, <2>1, <2>2, <2>3, <2>4, EarlyKept
  <2>6. ~stream => crossed
    BY Zenon, <2>1 DEF CacheInv, Storing
  <2>. QED
    BY Zenon, <2>1, <2>5, <2>6 DEF CacheInv, CacheHonest
<1>7. ASSUME NEW p \in Places, p # "store", th[t].pc \in {"delete", "forget"}, Goto(t, p),
             t \in Spawns => p \in {"forget", "exit"}
      PROVE  /\ Storing' <=> Storing
             /\ \A s \in Spawns : Early(th'[s]) => th'[Watcher(s)].pc = "idle"
             /\ th'[t].pc = p
  <2>. DEFINE r == [th[t] EXCEPT !.pc = p]
  <2>1. r \in Thread /\ r.pc = p
    BY Zenon, <1>0, Gone
  <2>2. th' = [th EXCEPT ![t] = r]
    BY Zenon, <1>7 DEF Goto
  <2>. HIDE DEF r
  <2>3. t \in Spawns => ~Early(r)
    BY Zenon, <1>7, <2>1 DEF Early
  <2>4. \A s \in Spawns : Early(th'[s]) => th'[Watcher(s)].pc = "idle"
    BY Zenon, <1>7, <2>1, <2>2, <2>3, EarlyKept
  <2>5. th'[t] = r /\ \A u \in Threads \ {t} : th'[u] = th[u]
    BY Zenon, <1>0, <2>2
  <2>. QED
    BY Zenon, <1>7, <2>1, <2>4, <2>5 DEF Storing
<1>8. CASE DeleteStream(t)
  <2>0. th[t].pc = "delete" /\ UNCHANGED cache
    BY Zenon, <1>8 DEF DeleteStream
  <2>1. CASE Goto(t, th[t].then) /\ UNCHANGED <<stream, crossed>>
    BY Zenon, <1>1, <1>3, <2>0, <2>1, CacheGoto
  <2>2. CASE Goto(t, "forget") /\ crossed' = Storing
    <3>1. /\ Storing' <=> Storing
          /\ \A s \in Spawns : Early(th'[s]) => th'[Watcher(s)].pc = "idle"
          /\ th'[t].pc = "forget"
      BY Zenon, <1>7, <2>0, <2>2 DEF Places
    <3>2. CacheHonest'
      BY Zenon, <3>1 DEF CacheHonest
    <3>. QED
      BY Zenon, <2>2, <3>1, <3>2 DEF CacheInv
  <2>. QED
    BY Zenon, <1>8, <2>1, <2>2 DEF DeleteStream, nats
<1>9. CASE DeleteForget(t)
  <2>1. /\ th[t].pc = "forget" /\ cache' = FALSE /\ crossed' = (crossed /\ Storing)
        /\ Goto(t, th[t].then) /\ UNCHANGED stream
    BY Zenon, <1>9 DEF DeleteForget, nats
  <2>2. th[t].then \in Places /\ th[t].then # "store"
    BY Zenon, <1>1 DEF Returns
  <2>3. /\ Storing' <=> Storing
        /\ \A s \in Spawns : Early(th'[s]) => th'[Watcher(s)].pc = "idle"
    BY Zenon, <1>3, <1>7, <2>1, <2>2
  <2>. QED
    BY Zenon, <2>1, <2>3 DEF CacheInv, CacheHonest
<1>. QED
  BY Zenon, <1>4, <1>5, <1>6, <1>8, <1>9 DEF BrokerStep

\* What a spawn does.
LEMMA CacheSpawn ==
  ASSUME SpareInv, CacheInv, NEW s \in Spawns, Claim(s) \/ SpawnStep(s)
  PROVE  CacheInv'
<1>0. /\ th[s] \in Thread /\ s \in Threads /\ s \notin Watchers /\ SpawnAt(th[s])
      /\ th \in [Threads -> Thread]
  BY Zenon, Apart DEF SpareInv, PlacesInv
<1>k. UNCHANGED <<stream, cache, crossed>>
  BY Zenon DEF Claim, SpawnStep, EnsureConsumer, EnsureAgain, Create, MarkActive, ReleaseSlot,
               Subscribe, SendInput, Abort, Exit, nats
<1>m. ASSUME NEW r \in Thread, th' = [th EXCEPT ![s] = r], r.pc # "store", th[s].pc # "forget",
             Early(r) => Early(th[s])
      PROVE  CacheInv'
  BY Zenon, <1>0, <1>k, <1>m, CacheMove
<1>g. ASSUME NEW p \in {"abort", "exit", "create", "again"}, Goto(s, p), th[s].pc # "forget",
             p \in {"create", "again"} => Early(th[s])
      PROVE  CacheInv'
  <2>1. p \in Returns /\ p # "ensure"
    BY Zenon DEF Returns, Places
  <2>. QED
    BY Zenon, <1>0, <1>k, <1>g, <2>1, CacheGoto
<1>1. CASE Claim(s)
  <2>1. PICK r \in Thread : th' = [th EXCEPT ![s] = r] /\ r.pc # "store"
    <3>1. /\ [Idle EXCEPT !.pc = "ensure", !.then = "consumer", !.else = "again", !.holds = TRUE] \in Thread
          /\ [Idle EXCEPT !.pc = "ensure", !.then = "consumer", !.else = "again", !.holds = TRUE].pc = "ensure"
      BY Zenon DEF Idle, Thread, Places, Returns
    <3>2. /\ [Idle EXCEPT !.pc = "create", !.holds = TRUE] \in Thread
          /\ [Idle EXCEPT !.pc = "create", !.holds = TRUE].pc = "create"
      BY Zenon DEF Idle, Thread, Places, Returns
    <3>. QED
      BY Zenon, <1>1, <3>1, <3>2 DEF Claim
  <2>2. th[s].pc = "idle" /\ th[Watcher(s)].pc = "idle"
    BY Zenon, <1>1 DEF Claim
  <2>3. th'[s] = r /\ \A u \in Threads \ {s} : th'[u] = th[u]
    BY Zenon, <1>0, <2>1
  <2>4. ASSUME NEW u \in Spawns, Early(th'[u])
        PROVE  th'[Watcher(u)].pc = "idle"
    <3>1. Watcher(u) \in Threads \ {s} /\ u \in Threads
      BY Zenon, Apart
    <3>2. CASE u = s
      BY Zenon, <2>2, <2>3, <3>1, <3>2
    <3>3. CASE u # s
      BY Zenon, <2>3, <2>4, <3>1, <3>3 DEF CacheInv
    <3>. QED
      BY Zenon, <3>2, <3>3
  <2>5. \A u \in Threads : /\ th'[u].pc = "store" => th[u].pc = "store"
                           /\ th[u].pc = "forget" => th'[u].pc = "forget"
    BY Zenon, <2>1, <2>2, <2>3
  <2>. QED
    BY Zenon, <1>k, <2>4, <2>5, CacheKept
<1>2. CASE EnsureConsumer(s)
  <2>1. th[s].pc = "consumer" /\ \E p \in {"create", "again"} : Goto(s, p)
    BY Zenon, <1>2 DEF EnsureConsumer
  <2>2. Early(th[s])
    BY Zenon, <2>1 DEF Early
  <2>. QED
    BY Zenon, <1>g, <2>1, <2>2
<1>3. CASE EnsureAgain(s)
  <2>. DEFINE p == IF th[s].tries + 1 < EnsureAttempts THEN "ensure" ELSE "abort"
              n == th[s].tries + 1
              r == [th[s] EXCEPT !.tries = n, !.pc = p]
  <2>1. th' = [th EXCEPT ![s] = r] /\ th[s].pc = "again"
    BY Zenon, <1>0, <1>3 DEF EnsureAgain
  <2>2. n \in Nat /\ p \in {"ensure", "abort"}
    BY <1>0 DEF Thread
  <2>. HIDE DEF n, p
  <2>3. r \in Thread /\ r.pc # "store"
    BY Zenon, <1>0, <2>2 DEF Thread, Places
  <2>. HIDE DEF r
  <2>4. Early(th[s])
    BY Zenon, <2>1 DEF Early
  <2>. QED
    BY Zenon, <1>m, <2>1, <2>3, <2>4
<1>4. CASE Create(s)
  <2>0. th[s].pc = "create"
    BY Zenon, <1>4 DEF Create
  <2>1. CASE Goto(s, "abort")
    BY Zenon, <1>g, <2>0, <2>1
  <2>2. CASE th' = [th EXCEPT ![s] = [@ EXCEPT !.pc = "mark", !.created = TRUE]]
    <3>. DEFINE r == [th[s] EXCEPT !.pc = "mark", !.created = TRUE]
    <3>1. r \in Thread /\ r.pc = "mark"
      BY Zenon, <1>0 DEF Thread, Places
    <3>2. th' = [th EXCEPT ![s] = r]
      BY Zenon, <1>0, <2>2
    <3>. HIDE DEF r
    <3>3. Early(th[s])
      BY Zenon, <2>0 DEF Early
    <3>. QED
      BY Zenon, <1>m, <2>0, <3>1, <3>2, <3>3
  <2>. QED
    BY Zenon, <1>4, <2>1, <2>2 DEF Create
<1>5. CASE MarkActive(s)
  <2>0. th[s].pc = "mark"
    BY Zenon, <1>5 DEF MarkActive
  <2>1. CASE Goto(s, "abort")
    BY Zenon, <1>g, <2>0, <2>1
  <2>2. CASE th' = [th EXCEPT ![s] = [@ EXCEPT !.pc = "unslot", !.marked = TRUE]]
    <3>. DEFINE r == [th[s] EXCEPT !.pc = "unslot", !.marked = TRUE]
    <3>1. r \in Thread /\ r.pc = "unslot"
      BY Zenon, <1>0 DEF Thread, Places
    <3>2. th' = [th EXCEPT ![s] = r]
      BY Zenon, <1>0, <2>2
    <3>. HIDE DEF r
    <3>3. Early(th[s])
      BY Zenon, <2>0 DEF Early
    <3>. QED
      BY Zenon, <1>m, <2>0, <3>1, <3>2, <3>3
  <2>. QED
    BY Zenon, <1>5, <2>1, <2>2 DEF MarkActive
<1>6. CASE ReleaseSlot(s)
  <2>. DEFINE r == [th[s] EXCEPT !.pc = "ensure", !.then = "subscribe", !.else = "abort",
                                 !.holds = FALSE]
  <2>1. th' = [th EXCEPT ![s] = r] /\ th[s].pc = "unslot"
    BY Zenon, <1>0, <1>6 DEF ReleaseSlot
  <2>2. "subscribe" \in Returns /\ "abort" \in Returns /\ "ensure" \in Places
    BY Zenon, Literals
  <2>4. r \in Thread /\ r.pc = "ensure"
    BY Zenon, <1>0, <2>2 DEF Thread
  <2>. HIDE DEF r
  <2>3. Early(th[s])
    BY Zenon, <2>1 DEF Early
  <2>. QED
    BY Zenon, <1>m, <2>1, <2>3, <2>4
<1>7. CASE Subscribe(s)
  <2>0. th[s].pc = "subscribe" /\ th[Watcher(s)].pc = "idle"
    <3>1. th[s].pc = "subscribe"
      BY Zenon, <1>7 DEF Subscribe
    <3>. QED
      BY Zenon, <3>1 DEF Early, CacheInv
  <2>1. CASE Goto(s, "abort")
    BY Zenon, <1>g, <2>0, <2>1
  <2>2. CASE th' = [th EXCEPT ![s] = [@ EXCEPT !.pc = "ensure", !.then = "send", !.else = "abort"],
                              ![Watcher(s)] = [@ EXCEPT !.pc = "watch"]]
    <3>. DEFINE r == [th[s] EXCEPT !.pc = "ensure", !.then = "send", !.else = "abort"]
                v == [th[Watcher(s)] EXCEPT !.pc = "watch"]
    <3>0. Watcher(s) \in Threads /\ Watcher(s) # s /\ Watcher(s) \notin Spawns /\ th[Watcher(s)] \in Thread
      BY Zenon, <1>0, Apart
    <3>1. th' = [[th EXCEPT ![s] = r] EXCEPT ![Watcher(s)] = v]
      BY Zenon, <1>0, <2>2, <3>0
    <3>2. r.pc = "ensure" /\ r.then = "send"
      BY Zenon, <1>0 DEF Thread
    <3>3. v.pc = "watch"
      BY Zenon, <3>0 DEF Thread
    <3>. HIDE DEF r, v
    <3>4. th'[s] = r /\ th'[Watcher(s)] = v /\ \A u \in Threads \ {s, Watcher(s)} : th'[u] = th[u]
      BY Zenon, <1>0, <3>0, <3>1
    <3>5. ~Early(r)
      BY Zenon, <3>2 DEF Early
    <3>6. ASSUME NEW u \in Spawns, Early(th'[u])
          PROVE  th'[Watcher(u)].pc = "idle"
      <4>1. u # s /\ u # Watcher(s) /\ u \in Threads
        BY Zenon, <3>0, <3>4, <3>5, <3>6, Apart
      <4>2. Watcher(u) \in Threads \ {s, Watcher(s)}
        BY Zenon, <4>1, Apart DEF Watcher
      <4>. QED
        BY Zenon, <3>4, <3>6, <4>1, <4>2 DEF CacheInv
    <3>7. \A u \in Threads : /\ th'[u].pc = "store" => th[u].pc = "store"
                             /\ th[u].pc = "forget" => th'[u].pc = "forget"
      BY Zenon, <2>0, <3>2, <3>3, <3>4
    <3>. QED
      BY Zenon, <1>k, <3>6, <3>7, CacheKept
  <2>. QED
    BY Zenon, <1>7, <2>1, <2>2 DEF Subscribe
<1>8. ASSUME th' = [th EXCEPT ![s] = Idle], th[s].pc # "forget"
      PROVE  CacheInv'
  <2>1. Idle \in Thread /\ Idle.pc = "idle"
    BY Zenon DEF Idle, Thread, Places, Returns
  <2>2. ~Early(Idle)
    BY Zenon, <2>1 DEF Early
  <2>. QED
    BY Zenon, <1>8, <1>m, <2>1, <2>2
<1>9. CASE SendInput(s)
  BY Zenon, <1>8, <1>9, <1>g DEF SendInput
<1>10. CASE Abort(s)
  <2>0. th[s].pc = "abort"
    BY Zenon, <1>10 DEF Abort
  <2>1. CASE Goto(s, "exit")
    BY Zenon, <1>g, <2>0, <2>1
  <2>2. CASE Call(s, "delete", "exit", "exit")
    <3>. DEFINE r == [th[s] EXCEPT !.pc = "delete", !.then = "exit", !.else = "exit"]
    <3>0. th[s] \in Thread /\ "delete" \in Places /\ "exit" \in Returns
      BY Zenon, <1>0, Literals
    <3>1. r \in Thread /\ r.pc = "delete"
      BY Zenon, <3>0, Called
    <3>2. th' = [th EXCEPT ![s] = r]
      BY Zenon, <1>0, <2>2 DEF Call
    <3>. HIDE DEF r
    <3>3. ~Early(r)
      BY Zenon, <3>1 DEF Early
    <3>. QED
      BY Zenon, <1>m, <2>0, <3>1, <3>2, <3>3
  <2>. QED
    BY Zenon, <1>10, <2>1, <2>2 DEF Abort
<1>11. CASE Exit(s)
  BY Zenon, <1>8, <1>11 DEF Exit
<1>. QED
  BY Zenon, <1>1, <1>2, <1>3, <1>4, <1>5, <1>6, <1>7, <1>9, <1>10, <1>11 DEF SpawnStep

\* What a watcher does.
LEMMA CacheWatch ==
  ASSUME SpareInv, CacheInv, NEW s \in Spawns, WatchStep(s) \/ WatchTimeout(s)
  PROVE  CacheInv'
<1>. DEFINE w == Watcher(s)
<1>0. w \in Threads /\ w \notin Spawns /\ th[w] \in Thread /\ WatcherAt(th[w])
  BY Zenon, Apart DEF SpareInv, PlacesInv
<1>k. UNCHANGED <<stream, cache, crossed>>
  BY Zenon DEF WatchStep, WatchLost, Resubscribe, Retry, WatchShutdown, WatchDead, Deactivate,
               WatchTimeout, nats
<1>. HIDE DEF w
<1>m. ASSUME NEW r \in Thread, th' = [th EXCEPT ![w] = r], r.pc # "store",
             th[w].pc \notin {"forget", "idle"}
      PROVE  CacheInv'
  BY Zenon, <1>0, <1>k, <1>m, CacheMove
<1>g. ASSUME NEW p \in {"deactivate", "retry"}, Goto(w, p), th[w].pc \notin {"forget", "idle"}
      PROVE  CacheInv'
  <2>1. p \in Returns
    BY Zenon DEF Returns, Places
  <2>. QED
    BY Zenon, <1>0, <1>k, <1>g, <2>1, CacheGoto
<1>1. CASE WatchLost(s)
  <2>. DEFINE r == [th[w] EXCEPT !.pc = "ensure", !.then = "resubscribe", !.else = "retry", !.tries = 0]
  <2>1. th' = [th EXCEPT ![w] = r] /\ th[w].pc = "watch"
    BY Zenon, <1>0, <1>1 DEF WatchLost, w
  <2>2. 0 \in Nat /\ "ensure" \in Places /\ "resubscribe" \in Returns /\ "retry" \in Returns
    BY Literals
  <2>3. r \in Thread /\ r.pc = "ensure"
    BY Zenon, <1>0, <2>2 DEF Thread
  <2>. HIDE DEF r
  <2>. QED
    BY Zenon, <1>m, <2>1, <2>3
<1>2. CASE Resubscribe(s)
  <2>0. th[w].pc = "resubscribe"
    BY Zenon, <1>2 DEF Resubscribe, w
  <2>1. CASE Goto(w, "retry")
    BY Zenon, <1>g, <2>0, <2>1
  <2>2. CASE th' = [th EXCEPT ![w] = [Idle EXCEPT !.pc = "watch", !.connected = TRUE]]
    <3>1. /\ [Idle EXCEPT !.pc = "watch", !.connected = TRUE] \in Thread
          /\ [Idle EXCEPT !.pc = "watch", !.connected = TRUE].pc = "watch"
      BY Zenon DEF Idle, Thread, Places, Returns
    <3>. QED
      BY Zenon, <1>m, <2>0, <2>2, <3>1
  <2>. QED
    BY Zenon, <1>2, <2>1, <2>2 DEF Resubscribe, w
<1>3. CASE Retry(s)
  <2>. DEFINE p == IF th[w].tries + 1 < ReconnectAttempts THEN "ensure" ELSE "deactivate"
              n == th[w].tries + 1
              r == [th[w] EXCEPT !.tries = n, !.pc = p]
  <2>1. th' = [th EXCEPT ![w] = r] /\ th[w].pc = "retry"
    BY Zenon, <1>0, <1>3 DEF Retry, w
  <2>2. n \in Nat /\ p \in {"ensure", "deactivate"}
    BY <1>0 DEF Thread
  <2>. HIDE DEF n, p
  <2>3. r \in Thread /\ r.pc # "store"
    BY Zenon, <1>0, <2>2 DEF Thread, Places
  <2>. HIDE DEF r
  <2>. QED
    BY Zenon, <1>m, <2>1, <2>3
<1>4. CASE WatchShutdown(s)
  <2>. DEFINE r == [th[w] EXCEPT !.pc = "delete", !.then = "deactivate", !.else = "deactivate"]
  <2>1. th' = [th EXCEPT ![w] = r] /\ th[w].pc = "watch"
    BY Zenon, <1>0, <1>4 DEF WatchShutdown, Call, w
  <2>2. r \in Thread /\ r.pc = "delete"
    BY Zenon, <1>0, Called, Literals
  <2>. HIDE DEF r
  <2>. QED
    BY Zenon, <1>m, <2>1, <2>2
<1>5. CASE WatchDead(s) \/ WatchTimeout(s)
  BY Zenon, <1>5, <1>g DEF WatchDead, WatchTimeout, w
<1>6. CASE Deactivate(s)
  <2>1. Idle \in Thread /\ Idle.pc = "idle"
    BY Zenon DEF Idle, Thread, Places, Returns
  <2>. QED
    BY Zenon, <1>6, <1>m, <2>1 DEF Deactivate, w
<1>. QED
  BY Zenon, <1>1, <1>2, <1>3, <1>4, <1>5, <1>6 DEF WatchStep

\* What the handler of events, the sender and the reconciler do.
LEMMA CacheOthers ==
  ASSUME SpareInv, CacheInv, EventStep \/ SenderCalls \/ SenderEnds \/ ReconcileStep
  PROVE  CacheInv'
<1>k. UNCHANGED <<stream, cache, crossed>>
  BY Zenon DEF EventStep, EventCheck, EventClear, EventUnmark, SenderCalls, SenderEnds, ReconcileStep,
               ReconcileSlot, ReconcileActive, ReconcileSandbox, ReconcileExists, nats
<1>0. \A t \in {Handler, Sender, Reconciler} :
        t \in Threads /\ t \notin Spawns /\ t \notin Watchers /\ th[t] \in Thread
  BY Zenon, Apart DEF SpareInv, PlacesInv
<1>m. ASSUME NEW t \in {Handler, Sender, Reconciler}, NEW r \in Thread, th' = [th EXCEPT ![t] = r],
             r.pc # "store", th[t].pc # "forget"
      PROVE  CacheInv'
  BY Zenon, <1>0, <1>k, <1>m, CacheMove
<1>g. ASSUME NEW t \in {Handler, Reconciler}, NEW p \in {"idle", "clear", "unmark", "active", "sandbox", "exists"},
             th' = [th EXCEPT ![t].pc = p], th[t].pc # "forget"
      PROVE  CacheInv'
  <2>1. p \in Returns
    BY Zenon DEF Returns, Places
  <2>. QED
    BY Zenon, <1>0, <1>k, <1>g, <2>1, CacheGoto DEF Goto
<1>u. CASE UNCHANGED th
  BY Zenon, <1>k, <1>u DEF CacheInv, CacheHonest, Storing
<1>1. CASE EventStep
  <2>1. /\ th[Handler].pc # "forget"
        /\ UNCHANGED th \/ \E p \in {"idle", "clear", "unmark"} : Goto(Handler, p)
    BY Zenon, <1>1 DEF EventStep, EventCheck, EventClear, EventUnmark
  <2>. QED
    BY Zenon, <1>g, <1>u, <2>1 DEF Goto
<1>2. CASE SenderCalls
  <2>. DEFINE r == [th[Sender] EXCEPT !.pc = "ensure", !.then = "deliver", !.else = "idle"]
  <2>1. th[Sender] \in Thread
    BY Zenon, <1>0
  <2>2. r \in Thread /\ r.pc = "ensure"
    BY Zenon, <2>1, Called, Literals
  <2>3. th' = [th EXCEPT ![Sender] = r] /\ th[Sender].pc = "idle"
    BY Zenon, <1>2 DEF SenderCalls, Call
  <2>. HIDE DEF r
  <2>. QED
    BY Zenon, <1>m, <2>2, <2>3
<1>3. CASE SenderEnds
  <2>1. Idle \in Thread /\ Idle.pc = "idle"
    BY Zenon DEF Idle, Thread, Places, Returns
  <2>. QED
    BY Zenon, <1>3, <1>m, <2>1 DEF SenderEnds
<1>4. CASE ReconcileStep
  <2>0. th[Reconciler].pc # "forget"
    BY Zenon, <1>4 DEF ReconcileStep, ReconcileSlot, ReconcileActive, ReconcileSandbox, ReconcileExists
  <2>1. \/ UNCHANGED th \/ Call(Reconciler, "delete", "idle", "idle")
        \/ \E p \in {"idle", "active", "sandbox", "exists"} : Reconcile(p)
    BY Zenon, <1>4 DEF ReconcileStep, ReconcileSlot, ReconcileActive, ReconcileSandbox, ReconcileExists
  <2>2. CASE Call(Reconciler, "delete", "idle", "idle")
    <3>. DEFINE r == [th[Reconciler] EXCEPT !.pc = "delete", !.then = "idle", !.else = "idle"]
    <3>1. th[Reconciler] \in Thread
      BY Zenon, <1>0
    <3>2. r \in Thread /\ r.pc = "delete"
      BY Zenon, <3>1, Called, Literals
    <3>3. th' = [th EXCEPT ![Reconciler] = r]
      BY Zenon, <2>2 DEF Call
    <3>. HIDE DEF r
    <3>. QED
      BY Zenon, <1>m, <2>0, <3>2, <3>3
  <2>. QED
    BY Zenon, <1>g, <1>u, <2>0, <2>1, <2>2 DEF Reconcile
<1>. QED
  BY Zenon, <1>1, <1>2, <1>3, <1>4

\* For any number of spawns, senders and faults, the cache of the broker names a stream that
\* does not exist only while a DeleteStreams has still to drop the entry, or when the stream
\* was deleted between the create and the store of an ensureStream.
THEOREM CacheTheorem == Spec => []CacheHonest
<1>1. Init => CacheInv
  <2>. SUFFICES ASSUME Init PROVE CacheInv
    BY Zenon
  <2>1. \A t \in Threads : th[t].pc = "idle"
    BY Zenon DEF Init, Start, Idle
  <2>2. ~cache
    BY Zenon DEF Init, Start
  <2>. QED
    BY Zenon, <2>1, <2>2, Apart DEF CacheInv, CacheHonest, Storing
<1>2. SpareInv /\ CacheInv /\ [Next]_vars => CacheInv'
  <2>. SUFFICES ASSUME SpareInv, CacheInv, [Next]_vars PROVE CacheInv'
    BY Zenon
  <2>1. ASSUME UNCHANGED <<th, cache, crossed>>, stream => stream'
        PROVE  CacheInv'
    BY Zenon, <2>1 DEF CacheInv, CacheHonest, Storing
  <2>2. ASSUME NEW s \in Spawns, AgentStep(s) \/ AgentQuits(s)
        PROVE  CacheInv'
    <3>1. UNCHANGED <<th, cache, crossed>> /\ (stream => stream')
      <4>1. CASE AgentStarts(s)
        BY Zenon, <4>1 DEF AgentStarts
      <4>2. CASE AgentFetches(s)
        BY Zenon, <4>2 DEF AgentFetches
      <4>3. CASE AgentRetries(s)
        BY Zenon, <4>3 DEF AgentRetries, nats
      <4>4. CASE Ends(s)
        BY Zenon, <4>4 DEF Ends
      <4>. QED
        BY Zenon, <2>2, <4>1, <4>2, <4>3, <4>4
        DEF AgentStep, AgentFails, AgentNeverRuns, AgentQuits
    <3>. QED
      BY Zenon, <2>1, <3>1
  <2>3. CASE Next
    BY Zenon, <2>2, <2>3, CacheBroker, CacheSpawn, CacheWatch, CacheOthers DEF Next
  <2>4. CASE UNCHANGED vars
    BY Zenon, <2>1, <2>4 DEF vars, nats
  <2>. QED
    BY Zenon, <2>3, <2>4
<1>3. CacheInv => CacheHonest
  BY Zenon DEF CacheInv
<1>. QED
  BY <1>1, <1>2, <1>3, SpareInvariant, PTL DEF Spec

-----------------------------------------------------------------------------
(* The watch of the sandboxes. *)

\* Numbers in order.
Increasing(s) == \A i, j \in 1..Len(s) : i < j => s[i] < s[j]

\* Two sequences of numbers are the same if their elements are.
LEMMA SameSeq ==
  ASSUME NEW s \in Seq(Nat), NEW t \in Seq(Nat), Len(s) = Len(t), \A i \in 1..Len(s) : s[i] = t[i]
  PROVE  s = t
<1>1. s = [i \in 1..Len(s) |-> s[i]]
  OBVIOUS
<1>2. t = [i \in 1..Len(t) |-> t[i]]
  OBVIOUS
<1>. QED
  BY Zenon, <1>1, <1>2

\* A queue read from the front: what is read and what is left are the same sequence.
LEMMA ReadOn ==
  ASSUME NEW a \in Seq(Nat), NEW b \in Seq(Nat), b # <<>>
  PROVE  Append(a, Head(b)) \o Tail(b) = a \o b
<1>1. Append(a, Head(b)) \o Tail(b) \in Seq(Nat) /\ a \o b \in Seq(Nat)
  OBVIOUS
<1>2. Len(Append(a, Head(b)) \o Tail(b)) = Len(a) + Len(b) /\ Len(a \o b) = Len(a) + Len(b)
  OBVIOUS
<1>3. ASSUME NEW i \in 1..Len(a) + Len(b)
      PROVE  (Append(a, Head(b)) \o Tail(b))[i] = (a \o b)[i]
  OBVIOUS
<1>. QED
  BY Zenon, <1>1, <1>2, <1>3, SameSeq

\* And one written at the back.
LEMMA WrittenOn ==
  ASSUME NEW a \in Seq(Nat), NEW b \in Seq(Nat), NEW n \in Nat
  PROVE  /\ a \o Append(b, n) = Append(a \o b, n)
         /\ (a \o b) \o <<n>> = Append(a \o b, n)
         /\ a \o <<>> = a
<1>1. a \o Append(b, n) \in Seq(Nat) /\ Append(a \o b, n) \in Seq(Nat) /\ (a \o b) \o <<n>> \in Seq(Nat)
  OBVIOUS
<1>2. Len(a \o Append(b, n)) = Len(a) + Len(b) + 1 /\ Len(Append(a \o b, n)) = Len(a) + Len(b) + 1
      /\ Len((a \o b) \o <<n>>) = Len(a) + Len(b) + 1
  OBVIOUS
<1>3. ASSUME NEW i \in 1..Len(a) + Len(b) + 1
      PROVE  (a \o Append(b, n))[i] = Append(a \o b, n)[i] /\ ((a \o b) \o <<n>>)[i] = Append(a \o b, n)[i]
  OBVIOUS
<1>4. a \o Append(b, n) = Append(a \o b, n) /\ (a \o b) \o <<n>> = Append(a \o b, n)
  BY Zenon, <1>1, <1>2, <1>3, SameSeq
<1>5. a \o <<>> = a
  OBVIOUS
<1>. QED
  BY Zenon, <1>4, <1>5

\* A number larger than all goes at the end.
LEMMA GrowsOn ==
  ASSUME NEW s \in Seq(Nat), NEW n \in Nat, Increasing(s), \A i \in 1..Len(s) : s[i] < n
  PROVE  /\ Increasing(Append(s, n))
         /\ Range(Append(s, n)) = Range(s) \cup {n}
<1>1. /\ Len(Append(s, n)) = Len(s) + 1 /\ Append(s, n)[Len(s) + 1] = n
      /\ \A i \in 1..Len(s) : Append(s, n)[i] = s[i]
      /\ DOMAIN s = 1..Len(s) /\ DOMAIN Append(s, n) = 1..Len(s) + 1 /\ Len(s) \in Nat
      /\ \A i \in 1..Len(s) : s[i] \in Nat
  OBVIOUS
<1>2. ASSUME NEW i \in 1..Len(s) + 1, NEW j \in 1..Len(s) + 1, i < j
      PROVE  Append(s, n)[i] < Append(s, n)[j]
  <2>1. CASE j = Len(s) + 1
    BY <1>1, <1>2, <2>1
  <2>2. CASE j \in 1..Len(s)
    BY <1>1, <1>2, <2>2 DEF Increasing
  <2>. QED
    BY <1>1, <2>1, <2>2
<1>3. Range(Append(s, n)) = Range(s) \cup {n}
  BY <1>1 DEF Range
<1>. QED
  BY Zenon, <1>1, <1>2, <1>3 DEF Increasing

-----------------------------------------------------------------------------
\* Positions of a session run from its start to pos, a closed session has delivered what
\* it had, and what has been delivered is in order and up to pos.
WatchInv ==
  /\ \E S : log \in Seq(S)
  /\ handled \in Seq(Nat) /\ chan \in Seq(Nat) /\ held \in Nat
  /\ start \in Nat /\ pos \in Nat /\ start <= pos /\ pos <= Len(log)
  /\ watch \in {"off", "open", "ended"}
  /\ watch = "off" => chan = <<>>
  /\ watch # "open" => held = 0
  /\ \A i \in 1..Len(Delivered) : Delivered[i] <= pos
  /\ DeletionsKept

\* The parts of Delivered are sequences of numbers.
LEMMA DeliveredSeq ==
  ASSUME handled \in Seq(Nat), chan \in Seq(Nat), held \in Nat
  PROVE  /\ Delivered \in Seq(Nat) /\ handled \o chan \in Seq(Nat)
         /\ held = 0 => Delivered = handled \o chan
         /\ held # 0 => Delivered = Append(handled \o chan, held)
<1>1. handled \o chan \in Seq(Nat)
  OBVIOUS
<1>2. held = 0 => Delivered = handled \o chan
  BY Zenon, <1>1, WrittenOn DEF Delivered
<1>3. held # 0 => Delivered = Append(handled \o chan, held)
  BY Zenon, WrittenOn DEF Delivered
<1>4. ASSUME NEW s \in Seq(Nat), NEW n \in Nat
      PROVE  Append(s, n) \in Seq(Nat)
  OBVIOUS
<1>. QED
  BY Zenon, <1>1, <1>2, <1>3, <1>4

\* What is delivered stays, and the session has taken nothing new.
LEMMA DeliveredKept ==
  ASSUME WatchInv, Delivered' = Delivered, UNCHANGED <<start, pos>>,
         \A i \in 1..Len(log) : log'[i] = log[i]
  PROVE  DeletionsKept' /\ \A i \in 1..Len(Delivered') : Delivered'[i] <= pos'
<1>1. \A i \in (start + 1)..pos : log'[i] = log[i]
  <2>1. PICK S : log \in Seq(S)
    BY Zenon DEF WatchInv
  <2>2. Len(log) \in Nat
    BY <2>1
  <2>3. start \in Nat /\ pos \in Nat /\ pos <= Len(log)
    BY Zenon DEF WatchInv
  <2>4. \A i \in (start + 1)..pos : i \in 1..Len(log)
    BY <2>2, <2>3
  <2>. QED
    BY Zenon, <2>4
<1>. QED
  BY Zenon, <1>1 DEF WatchInv, DeletionsKept

\* Nothing has been watched yet.
LEMMA WatchStart == WatchInit => WatchInv
<1>. SUFFICES ASSUME WatchInit
              PROVE  WatchInv
  BY Zenon
<1>1. handled = <<>> /\ chan = <<>> /\ held = 0 /\ log = <<>> /\ start = 0 /\ pos = 0 /\ watch = "off"
  BY Zenon DEF WatchInit
<1>2. Delivered = <<>>
  BY <1>1, DeliveredSeq
<1>3. log \in Seq({}) /\ Len(log) = 0
  BY <1>1
<1>. QED
  BY <1>1, <1>2, <1>3 DEF WatchInv, DeletionsKept

\* The cluster's history grows at its end.
LEMMA WatchChange ==
  ASSUME WatchInv, NEW n \in SandboxNames, Change(n)
  PROVE  WatchInv'
<1>1. PICK e : log' = Append(log, e)
  BY Zenon DEF Change
<1>2. PICK S : log \in Seq(S)
  BY Zenon DEF WatchInv
<1>3. /\ log' \in Seq(S \cup {e}) /\ Len(log') = Len(log) + 1 /\ Len(log) \in Nat
      /\ \A i \in 1..Len(log) : log'[i] = log[i]
  BY <1>1, <1>2
<1>4. UNCHANGED <<watch, start, pos, chan, held, handled>>
  BY Zenon DEF Change, session
<1>5. Delivered' = Delivered
  BY Zenon, <1>4 DEF Delivered
<1>6. DeletionsKept' /\ \A i \in 1..Len(Delivered') : Delivered'[i] <= pos'
  BY Zenon, <1>3, <1>4, <1>5, DeliveredKept
<1>. QED
  BY <1>3, <1>4, <1>6 DEF WatchInv

\* A session begins empty, at the end of the history.
LEMMA WatchOpens ==
  ASSUME WatchInv, OpenWatch
  PROVE  WatchInv'
<1>1. /\ watch' = "open" /\ start' = Len(log) /\ pos' = Len(log) /\ handled' = <<>>
      /\ UNCHANGED <<log, chan, held>> /\ chan = <<>> /\ held = 0
  BY Zenon DEF OpenWatch, WatchInv
<1>2. PICK S : log \in Seq(S)
  BY Zenon DEF WatchInv
<1>3. Len(log) \in Nat
  BY <1>2
<1>4. handled' \in Seq(Nat) /\ chan' \in Seq(Nat) /\ held' = 0
  BY <1>1
<1>5. Delivered' = <<>>
  BY <1>1 DEF Delivered
<1>. QED
  BY <1>1, <1>2, <1>3, <1>4, <1>5 DEF WatchInv, DeletionsKept

\* The next event is sent, waits, or is dropped; only one that is no deletion is dropped.
LEMMA WatchTakes ==
  ASSUME WatchInv, Take
  PROVE  WatchInv'
<1>1. /\ watch = "open" /\ held = 0 /\ pos < Len(log) /\ pos' = pos + 1 /\ Send(pos + 1)
      /\ UNCHANGED <<log, watch, start, handled>>
  BY Zenon DEF Take
<1>2. PICK S : log \in Seq(S)
  BY Zenon DEF WatchInv
<1>3. Len(log) \in Nat /\ pos + 1 \in Nat /\ pos + 1 # 0 /\ pos + 1 <= Len(log)
  BY <1>1, <1>2 DEF WatchInv
<1>4. Delivered = handled \o chan /\ Delivered \in Seq(Nat)
  BY Zenon, <1>1, DeliveredSeq DEF WatchInv
<1>5. CASE Delivered' = Append(Delivered, pos + 1) /\ chan' \in Seq(Nat) /\ held' \in Nat
  <2>1. Increasing(Delivered) /\ \A i \in 1..Len(Delivered) : Delivered[i] < pos + 1
    <3>1. \A i \in 1..Len(Delivered) : Delivered[i] <= pos /\ Delivered[i] \in Nat
      BY <1>4 DEF WatchInv
    <3>2. \A i \in 1..Len(Delivered) : Delivered[i] < pos + 1
      BY <1>3, <3>1 DEF WatchInv
    <3>. QED
      BY Zenon, <3>2 DEF WatchInv, DeletionsKept, Increasing
  <2>2. Increasing(Delivered') /\ Range(Delivered') = Range(Delivered) \cup {pos + 1}
    BY Zenon, <1>3, <1>4, <1>5, <2>1, GrowsOn
  <2>3. DeletionsKept'
    BY <1>1, <1>3, <2>2 DEF DeletionsKept, Increasing, WatchInv
  <2>4. \A i \in 1..Len(Delivered') : Delivered'[i] <= pos'
    <3>1. ASSUME NEW s \in Seq(Nat), NEW n \in Nat, \A i \in 1..Len(s) : s[i] < n,
                 NEW i \in 1..Len(Append(s, n))
          PROVE  Append(s, n)[i] <= n
      <4>1. CASE i = Len(s) + 1
        BY <4>1
      <4>2. CASE i \in 1..Len(s)
        <5>1. Append(s, n)[i] = s[i] /\ s[i] \in Nat
          BY <4>2
        <5>. QED
          BY <3>1, <4>2, <5>1
      <4>. QED
        BY <4>1, <4>2
    <3>. QED
      BY Zenon, <1>1, <1>3, <1>4, <1>5, <2>1, <3>1
  <2>. QED
    BY <1>1, <1>2, <1>3, <1>5, <2>3, <2>4 DEF WatchInv
<1>6. CASE Delivered' = Delivered /\ log[pos + 1].type # "deleted" /\ chan' = chan /\ held' = 0
  <2>1. DeletionsKept'
    BY <1>1, <1>3, <1>6 DEF DeletionsKept, WatchInv
  <2>2. \A i \in 1..Len(Delivered') : Delivered'[i] <= pos'
    <3>1. \A i \in 1..Len(Delivered) : Delivered[i] <= pos /\ Delivered[i] \in Nat
      BY <1>4 DEF WatchInv
    <3>. QED
      BY <1>1, <1>6, <3>1 DEF WatchInv
  <2>. QED
    BY <1>1, <1>2, <1>3, <1>6, <2>1, <2>2 DEF WatchInv
<1>7. CASE Len(chan) < Buffer
  <2>1. chan' = Append(chan, pos + 1) /\ held' = 0
    BY Zenon, <1>1, <1>7 DEF Send
  <2>2. chan' \in Seq(Nat)
    BY <1>3, <2>1 DEF WatchInv
  <2>3. Delivered' = handled \o Append(chan, pos + 1)
    BY <1>1, <2>1, <2>2, DeliveredSeq, WrittenOn DEF WatchInv, Delivered
  <2>4. Delivered' = Append(Delivered, pos + 1)
    BY <1>3, <1>4, <2>3, WrittenOn DEF WatchInv
  <2>. QED
    BY Zenon, <1>5, <2>1, <2>2, <2>4
<1>8. CASE ~(Len(chan) < Buffer) /\ log[pos + 1].type = "deleted"
  <2>1. chan' = chan /\ held' = pos + 1
    BY Zenon, <1>1, <1>8 DEF Send
  <2>2. Delivered' = (handled \o chan) \o <<pos + 1>>
    BY Zenon, <1>1, <1>3, <2>1 DEF Delivered
  <2>3. Delivered' = Append(Delivered, pos + 1)
    BY <1>3, <1>4, <2>2, WrittenOn DEF WatchInv
  <2>4. chan' \in Seq(Nat) /\ held' \in Nat
    BY Zenon, <1>3, <2>1 DEF WatchInv
  <2>. QED
    BY Zenon, <1>5, <2>3, <2>4
<1>9. CASE ~(Len(chan) < Buffer) /\ log[pos + 1].type # "deleted"
  <2>1. chan' = chan /\ held' = 0
    BY Zenon, <1>1, <1>9 DEF Send
  <2>. QED
    BY Zenon, <1>1, <1>6, <1>9, <2>1 DEF Delivered
<1>. QED
  BY Zenon, <1>7, <1>8, <1>9

\* The deletion that waited, the handlers and the end of a session move events and lose none.
LEMMA WatchMoves ==
  ASSUME WatchInv, SendHeld \/ Handle \/ SessionEnds \/ RetryWatch
  PROVE  WatchInv'
<1>1. UNCHANGED <<log, start, pos>>
  BY Zenon DEF SendHeld, Handle, SessionEnds, RetryWatch
<1>2. /\ Delivered' = Delivered /\ handled' \in Seq(Nat) /\ chan' \in Seq(Nat) /\ held' \in Nat
      /\ watch' \in {"off", "open", "ended"}
      /\ watch' = "off" => chan' = <<>>
      /\ watch' # "open" => held' = 0
  <2>1. CASE SendHeld
    <3>1. /\ held # 0 /\ chan' = Append(chan, held) /\ held' = 0 /\ UNCHANGED <<watch, handled>>
      BY Zenon, <2>1 DEF SendHeld
    <3>2. handled' \in Seq(Nat) /\ chan' \in Seq(Nat) /\ held' \in Nat
      BY <3>1 DEF WatchInv
    <3>3. Delivered' = handled \o Append(chan, held)
      BY <3>1, <3>2, WrittenOn DEF Delivered
    <3>4. Delivered = Append(handled \o chan, held)
      BY Zenon, <3>1, DeliveredSeq DEF WatchInv
    <3>5. Delivered' = Delivered
      BY Zenon, <3>3, <3>4, WrittenOn DEF WatchInv
    <3>. QED
      BY Zenon, <3>1, <3>2, <3>5 DEF WatchInv
  <2>2. CASE Handle
    <3>1. /\ chan # <<>> /\ handled' = Append(handled, Head(chan)) /\ chan' = Tail(chan)
          /\ UNCHANGED <<watch, held>>
      BY Zenon, <2>2 DEF Handle
    <3>2. handled' \in Seq(Nat) /\ chan' \in Seq(Nat) /\ held' \in Nat
      BY <3>1 DEF WatchInv
    <3>3. handled' \o chan' = handled \o chan
      BY Zenon, <3>1, ReadOn DEF WatchInv
    <3>4. Delivered' = Delivered
      BY Zenon, <3>1, <3>3 DEF Delivered
    <3>. QED
      BY Zenon, <3>1, <3>2, <3>4 DEF WatchInv
  <2>3. CASE SessionEnds \/ RetryWatch
    <3>1. UNCHANGED <<chan, held, handled>>
      BY Zenon, <2>3 DEF SessionEnds, RetryWatch
    <3>2. Delivered' = Delivered
      BY Zenon, <3>1 DEF Delivered
    <3>. QED
      BY Zenon, <2>3, <3>1, <3>2 DEF SessionEnds, RetryWatch, WatchInv
  <2>. QED
    BY Zenon, <2>1, <2>2, <2>3
<1>3. DeletionsKept' /\ \A i \in 1..Len(Delivered') : Delivered'[i] <= pos'
  BY Zenon, <1>1, <1>2, DeliveredKept
<1>. QED
  BY Zenon, <1>1, <1>2, <1>3 DEF WatchInv

\* For any history, channel size and number of sessions: what WatchSandboxes delivers in a
\* session is in the cluster's order, each event once, and no deletion is missing.
THEOREM DeletionsTheorem == WatchSpec => []DeletionsKept
<1>1. WatchInv /\ [WatchNext]_sandboxes => WatchInv'
  <2>. SUFFICES ASSUME WatchInv, [WatchNext]_sandboxes
                PROVE  WatchInv'
    BY Zenon
  <2>1. CASE UNCHANGED sandboxes
    <3>1. UNCHANGED <<log, watch, start, pos, chan, held, handled>>
      BY Zenon, <2>1 DEF sandboxes, session
    <3>2. Delivered' = Delivered
      BY Zenon, <3>1 DEF Delivered
    <3>. QED
      BY Zenon, <3>1, <3>2 DEF WatchInv, DeletionsKept
  <2>2. CASE WatchNext
    BY Zenon, <2>2, WatchChange, WatchOpens, WatchTakes, WatchMoves DEF WatchNext, Deliver
  <2>. QED
    BY Zenon, <2>1, <2>2
<1>2. WatchInv => DeletionsKept
  BY Zenon DEF WatchInv
<1>. QED
  BY WatchStart, <1>1, <1>2, PTL DEF WatchSpec

-----------------------------------------------------------------------------
(* saveState. *)

SaveRecord == [pc : {"idle", "snapshot", "compare", "write", "note"}, at : 1..3,
               flush : BOOLEAN, snap : [Names -> Nat]]

SaveTypes ==
  /\ memory \in [Names -> Nat] /\ rows \in [Names -> Nat] /\ prev \in [Names -> Nat \cup {Unset}]
  /\ save \in [Goroutines -> SaveRecord]
  /\ \A s \in Goroutines : save[s].pc \in {"idle", "snapshot"} => save[s].at = 1

\* One save at a time, as long as none has overlapped another.
OneSave == \A s, t \in Saving : s = t

\* What a prev* string remembers is in the row, but for the save that has just written it.
Remembered ==
  \A i \in 1..3 :
    \/ prev[Keys[i]] \in {Unset, rows[Keys[i]]}
    \/ \E s \in Goroutines : save[s].pc = "note" /\ save[s].at = i

\* A save that is about to remember a value has written it.
Written == \A s \in Goroutines : save[s].pc = "note" => rows[Key(s)] = save[s].snap[Key(s)]

\* A row that is behind its cursor will be written: by a save that has the cursor in its
\* snapshot and has not come to the row yet, or by one that has yet to take its snapshot.
\* A row that is not behind is not set back by a save under way.
Covered(i) ==
  \/ rows[Keys[i]] = memory[Keys[i]] /\ \A s \in Saving : save[s].at > i
  \/ dirty \/ marking
  \/ \E s \in Goroutines : save[s].pc = "snapshot"
  \/ \E s \in Saving : save[s].at <= i /\ save[s].snap[Keys[i]] = memory[Keys[i]]

SaveInv ==
  /\ SaveTypes
  /\ ~overlapped => OneSave /\ Remembered /\ Written
  /\ ~overlapped /\ ~unsaved => \A i \in 1..3 : Covered(i)

-----------------------------------------------------------------------------
\* The three keys are three keys.
LEMMA KeysApart ==
  /\ \A i \in 1..3 : Keys[i] \in Names
  /\ \A i, j \in 1..3 : Keys[i] = Keys[j] => i = j
  /\ Names = {Keys[1], Keys[2], Keys[3]}
<1>1. Keys[1] = "last_timestamp" /\ Keys[2] = "last_agent_timestamp" /\ Keys[3] = "last_confirmed_timestamp"
  BY Zenon DEF Keys
<1>2. \A i \in 1..3 : i = 1 \/ i = 2 \/ i = 3
  OBVIOUS
<1>3. \A i \in 1..3 : Keys[i] \in Names
  BY Zenon DEF Names
<1>4. Names = {Keys[1], Keys[2], Keys[3]}
  BY <1>2 DEF Names
<1>. QED
  BY Zenon, <1>1, <1>2, <1>3, <1>4

\* The record of a goroutine that is not in saveState.
LEMMA IdleRecord ==
  /\ NoSave \in SaveRecord /\ NoSave.pc = "idle" /\ NoSave.at = 1
BY DEF NoSave, SaveRecord

\* What EXCEPT does to such a record.
LEMMA RecordExcept ==
  ASSUME NEW r \in SaveRecord, NEW p, NEW a, NEW m
  PROVE  /\ [r EXCEPT !.pc = p] = [pc |-> p, at |-> r.at, flush |-> r.flush, snap |-> r.snap]
         /\ [r EXCEPT !.pc = p, !.at = a] = [pc |-> p, at |-> a, flush |-> r.flush, snap |-> r.snap]
         /\ [r EXCEPT !.pc = p, !.snap = m] = [pc |-> p, at |-> r.at, flush |-> r.flush, snap |-> m]
<1>. DEFINE r1 == [r EXCEPT !.pc = p]
            r2 == [r EXCEPT !.pc = p, !.at = a]
            r3 == [r EXCEPT !.pc = p, !.snap = m]
<1>1. /\ r1 \in [pc : {p}, at : {r.at}, flush : {r.flush}, snap : {r.snap}]
      /\ r2 \in [pc : {p}, at : {a}, flush : {r.flush}, snap : {r.snap}]
      /\ r3 \in [pc : {p}, at : {r.at}, flush : {r.flush}, snap : {m}]
  BY Zenon DEF SaveRecord
<1>. HIDE DEF r1, r2, r3
<1>2. /\ r1 = [pc |-> p, at |-> r.at, flush |-> r.flush, snap |-> r.snap]
      /\ r2 = [pc |-> p, at |-> a, flush |-> r.flush, snap |-> r.snap]
      /\ r3 = [pc |-> p, at |-> r.at, flush |-> r.flush, snap |-> m]
  BY Zenon, <1>1
<1>. QED
  BY Zenon, <1>2 DEF r1, r2, r3

\* The next row, or the end.
LEMMA NextRowRecord ==
  ASSUME SaveTypes, NEW s \in Goroutines, NextRow(s)
  PROVE  /\ save' \in [Goroutines -> SaveRecord]
         /\ \A t \in Goroutines \ {s} : save'[t] = save[t]
         /\ \/ save[s].at = 3 /\ save'[s] = NoSave
            \/ /\ save[s].at # 3 /\ save'[s].pc = "compare" /\ save'[s].at = save[s].at + 1
               
              /\ save'[s].snap = save[s].snap /\ save'[s].flush = save[s].flush
<1>1. save[s] \in SaveRecord
  BY Zenon DEF SaveTypes
<1>2. CASE save[s].at = 3
  BY Zenon, <1>2, IdleRecord DEF NextRow, SaveTypes
<1>3. CASE save[s].at # 3
  <2>. DEFINE r == [pc |-> "compare", at |-> save[s].at + 1, flush |-> save[s].flush, snap |-> save[s].snap]
  <2>1. /\ r \in SaveRecord /\ r.pc = "compare" /\ r.at = save[s].at + 1
        /\ r.snap = save[s].snap /\ r.flush = save[s].flush
    BY <1>1, <1>3 DEF SaveRecord
  <2>2. [save[s] EXCEPT !.pc = "compare", !.at = save[s].at + 1] = r
    BY Zenon, <1>1, RecordExcept
  <2>3. save' = [save EXCEPT ![s] = r]
    <3>1. save' = [save EXCEPT ![s] = IF save[s].at = 3 THEN NoSave
                                      ELSE [save[s] EXCEPT !.pc = "compare", !.at = save[s].at + 1]]
      BY Zenon DEF NextRow
    <3>. HIDE DEF r
    <3>. QED
      BY Zenon, <1>3, <2>2, <3>1
  <2>. HIDE DEF r
  <2>. QED
    BY Zenon, <1>3, <2>1, <2>3 DEF SaveTypes
<1>. QED
  BY Zenon, <1>2, <1>3


Pcs == {"idle", "snapshot", "compare", "write", "note"}

\* What the other steps of a save do to its record.
LEMMA StepRecord ==
  ASSUME SaveTypes, NEW s \in Goroutines, NEW p \in Pcs
  PROVE  /\ save' = [save EXCEPT ![s].pc = p] =>
              /\ save' \in [Goroutines -> SaveRecord] /\ \A t \in Goroutines \ {s} : save'[t] = save[t]
              /\ save'[s].pc = p /\ save'[s].at = save[s].at
              /\ save'[s].snap = save[s].snap /\ save'[s].flush = save[s].flush
         /\ save' = [save EXCEPT ![s] = [@ EXCEPT !.pc = p, !.snap = memory]] =>
              /\ save' \in [Goroutines -> SaveRecord] /\ \A t \in Goroutines \ {s} : save'[t] = save[t]
              /\ save'[s].pc = p /\ save'[s].at = save[s].at /\ save'[s].snap = memory
         /\ save' = [save EXCEPT ![s] = [@ EXCEPT !.pc = p, !.flush = TRUE]] =>
              /\ save' \in [Goroutines -> SaveRecord] /\ \A t \in Goroutines \ {s} : save'[t] = save[t]
              /\ save'[s].pc = p /\ save'[s].at = save[s].at /\ save'[s].snap = save[s].snap
         /\ save' = [save EXCEPT ![s] = NoSave] =>
              /\ save' \in [Goroutines -> SaveRecord] /\ \A t \in Goroutines \ {s} : save'[t] = save[t]
              /\ save'[s] = NoSave
<1>1. /\ save[s] \in SaveRecord /\ memory \in [Names -> Nat]
      /\ p \in {"idle", "snapshot", "compare", "write", "note"}
  BY Zenon DEF SaveTypes, Pcs
<1>2. ASSUME NEW r \in SaveRecord, save' = [save EXCEPT ![s] = r]
      PROVE  /\ save' \in [Goroutines -> SaveRecord] /\ save'[s] = r
             /\ \A t \in Goroutines \ {s} : save'[t] = save[t]
  BY Zenon, <1>2 DEF SaveTypes
<1>3. [save EXCEPT ![s].pc = p] = [save EXCEPT ![s] = [save[s] EXCEPT !.pc = p]]
  BY Zenon DEF SaveTypes
<1>. DEFINE r1 == [pc |-> p, at |-> save[s].at, flush |-> save[s].flush, snap |-> save[s].snap]
            r2 == [pc |-> p, at |-> save[s].at, flush |-> save[s].flush, snap |-> memory]
            r3 == [pc |-> p, at |-> save[s].at, flush |-> TRUE, snap |-> save[s].snap]
<1>4. /\ [save[s] EXCEPT !.pc = p] = r1 /\ [save[s] EXCEPT !.pc = p, !.snap = memory] = r2
      /\ [save[s] EXCEPT !.pc = p, !.flush = TRUE] = r3
  <2>1. [save[s] EXCEPT !.pc = p] = r1
    BY Zenon, <1>1, RecordExcept
  <2>2. [save[s] EXCEPT !.pc = p, !.snap = memory] = r2
    BY Zenon, <1>1, RecordExcept
  <2>3. [save[s] EXCEPT !.pc = p, !.flush = TRUE] = r3
    <3>. DEFINE r == [save[s] EXCEPT !.pc = p, !.flush = TRUE]
    <3>1. r \in [pc : {p}, at : {save[s].at}, flush : {TRUE}, snap : {save[s].snap}]
      BY Zenon, <1>1 DEF SaveRecord
    <3>. HIDE DEF r
    <3>2. r = r3
      BY Zenon, <3>1
    <3>. QED
      BY Zenon, <3>2 DEF r
  <2>. QED
    BY Zenon, <2>1, <2>2, <2>3
<1>5. /\ r1 \in SaveRecord /\ r1.pc = p /\ r1.at = save[s].at
      /\ r1.flush = save[s].flush /\ r1.snap = save[s].snap
      /\ r2 \in SaveRecord /\ r2.pc = p /\ r2.at = save[s].at /\ r2.snap = memory
      /\ r3 \in SaveRecord /\ r3.pc = p /\ r3.at = save[s].at /\ r3.snap = save[s].snap
  BY Zenon, <1>1 DEF SaveRecord
<1>. HIDE DEF r1, r2, r3
<1>6. ASSUME save' = [save EXCEPT ![s].pc = p]
      PROVE  /\ save' \in [Goroutines -> SaveRecord] /\ \A t \in Goroutines \ {s} : save'[t] = save[t]
             /\ save'[s] = r1
  BY Zenon, <1>2, <1>3, <1>4, <1>5, <1>6
<1>7. ASSUME save' = [save EXCEPT ![s] = [@ EXCEPT !.pc = p, !.snap = memory]]
      PROVE  /\ save' \in [Goroutines -> SaveRecord] /\ \A t \in Goroutines \ {s} : save'[t] = save[t]
             /\ save'[s] = r2
  BY Zenon, <1>2, <1>4, <1>5, <1>7
<1>8. ASSUME save' = [save EXCEPT ![s] = [@ EXCEPT !.pc = p, !.flush = TRUE]]
      PROVE  /\ save' \in [Goroutines -> SaveRecord] /\ \A t \in Goroutines \ {s} : save'[t] = save[t]
             /\ save'[s] = r3
  BY Zenon, <1>2, <1>4, <1>5, <1>8
<1>9. ASSUME save' = [save EXCEPT ![s] = NoSave]
      PROVE  /\ save' \in [Goroutines -> SaveRecord] /\ \A t \in Goroutines \ {s} : save'[t] = save[t]
             /\ save'[s] = NoSave
  BY Zenon, <1>2, <1>9, IdleRecord
<1>. QED
  BY Zenon, <1>5, <1>6, <1>7, <1>8, <1>9


-----------------------------------------------------------------------------
\* Everything is saved when the process starts.
LEMMA SaveStart == SaveInit => SaveInv
<1>. SUFFICES ASSUME SaveInit
              PROVE  SaveInv
  BY Zenon
<1>1. \A s \in Goroutines : save[s] = NoSave
  BY Zenon DEF SaveInit
<1>2. SaveTypes
  BY Zenon, IdleRecord DEF SaveInit, SaveTypes
<1>3. Saving = {} /\ \A i \in 1..3 : prev[Keys[i]] = Unset /\ rows[Keys[i]] = memory[Keys[i]]
  BY Zenon, <1>1, IdleRecord, KeysApart DEF SaveInit, Saving
<1>. QED
  BY Zenon, <1>1, <1>2, <1>3, IdleRecord DEF SaveInv, OneSave, Remembered, Written, Covered

\* A cursor moves; a save that has not begun, or the flag, will cover it.
LEMMA SaveUpdate ==
  ASSUME SaveInv, NEW s \in Goroutines, Update(s)
  PROVE  SaveInv'
<1>1. /\ save' \in [Goroutines -> SaveRecord] /\ \A t \in Goroutines \ {s} : save'[t] = save[t]
      /\ save'[s].pc = "snapshot" /\ save'[s].at = save[s].at
  BY Zenon, StepRecord DEF Update, SaveInv, Pcs
<1>2. PICK k \in Names : memory' = [memory EXCEPT ![k] = @ + 1]
  BY Zenon DEF Update, Changed
<1>3. save[s].pc = "idle" /\ UNCHANGED <<prev, rows, dirty, marking, unsaved, overlapped>>
  BY Zenon DEF Update, ends
<1>4. SaveTypes'
  BY <1>1, <1>2, <1>3 DEF SaveInv, SaveTypes
<1>5. Saving' = Saving /\ \A t \in Goroutines : save'[t].pc = "note" => t # s /\ save'[t] = save[t]
  BY Zenon, <1>1, <1>3 DEF Saving
<1>6. \A i \in 1..3 : Covered(i)'
  BY Zenon, <1>1 DEF Covered
<1>7. OneSave => OneSave'
  BY Zenon, <1>5 DEF OneSave
<1>8. Remembered => Remembered'
  BY <1>1, <1>3 DEF Remembered
<1>9. Written => Written'
  BY Zenon, <1>3, <1>5 DEF Written, Key
<1>. QED
  BY Zenon, <1>3, <1>4, <1>6, <1>7, <1>8, <1>9 DEF SaveInv

\* The snapshot covers every row.
LEMMA SaveSnapshot ==
  ASSUME SaveInv, NEW s \in Goroutines, Snapshot(s)
  PROVE  SaveInv'
<1>1. /\ save' \in [Goroutines -> SaveRecord] /\ \A t \in Goroutines \ {s} : save'[t] = save[t]
      /\ save'[s].pc = "compare" /\ save'[s].at = save[s].at /\ save'[s].snap = memory
  BY Zenon, StepRecord DEF Snapshot, SaveInv, Pcs
<1>2. /\ save[s].pc = "snapshot" /\ overlapped' = (overlapped \/ Saving # {})
      /\ UNCHANGED <<memory, prev, rows, dirty, marking, unsaved>>
  BY Zenon DEF Snapshot
<1>3. SaveTypes' /\ save'[s].at = 1
  BY Zenon, <1>1, <1>2 DEF SaveInv, SaveTypes
<1>4. Saving' = Saving \cup {s} /\ \A t \in Goroutines : save'[t].pc = "note" => t # s /\ save'[t] = save[t]
  BY Zenon, <1>1, <1>2 DEF Saving
<1>5. \A i \in 1..3 : Covered(i)'
  BY <1>1, <1>2, <1>3, <1>4 DEF Covered
<1>6. ~overlapped' => OneSave'
  BY Zenon, <1>2, <1>4 DEF OneSave
<1>7. Remembered => Remembered'
  BY <1>1, <1>2 DEF Remembered
<1>8. Written => Written'
  BY Zenon, <1>2, <1>4 DEF Written, Key
<1>. QED
  BY Zenon, <1>2, <1>3, <1>5, <1>6, <1>7, <1>8 DEF SaveInv


\* A string that was remembered is in its row: the write is skipped with reason.
LEMMA SaveCompare ==
  ASSUME SaveInv, NEW s \in Goroutines, Compare(s)
  PROVE  SaveInv'
<1>1. save[s].pc = "compare" /\ UNCHANGED <<memory, prev, rows, dirty, marking, unsaved, overlapped>>
  BY Zenon DEF Compare, ends
<1>2. save[s] \in SaveRecord /\ save[s].at \in 1..3 /\ s \in Saving
  BY Zenon, <1>1 DEF SaveInv, SaveTypes, SaveRecord, Saving
<1>3. CASE prev[Key(s)] = save[s].snap[Key(s)] /\ NextRow(s)
  <2>1. /\ save' \in [Goroutines -> SaveRecord]
        /\ \A t \in Goroutines \ {s} : save'[t] = save[t]
        /\ \/ save[s].at = 3 /\ save'[s] = NoSave
           \/ /\ save[s].at # 3 /\ save'[s].pc = "compare" /\ save'[s].at = save[s].at + 1
              /\ save'[s].snap = save[s].snap
    BY Zenon, <1>3, NextRowRecord DEF SaveInv
  <2>2. SaveTypes'
    BY Zenon, <1>1, <2>1, IdleRecord DEF SaveInv, SaveTypes
  <2>3. /\ Saving' \subseteq Saving
        /\ \A t \in Goroutines : save'[t].pc = "note" => t # s /\ save'[t] = save[t]
        /\ \A t \in Goroutines : save[t].pc \in {"note", "snapshot"} => t # s /\ save'[t] = save[t]
    BY Zenon, <1>1, <2>1, IdleRecord DEF Saving
  <2>4. OneSave => OneSave'
    BY Zenon, <2>3 DEF OneSave
  <2>5. Remembered => Remembered'
    BY <1>1, <2>3 DEF Remembered
  <2>6. Written => Written'
    BY Zenon, <1>1, <2>3 DEF Written, Key
  <2>7. ASSUME ~overlapped, ~unsaved, NEW i \in 1..3
        PROVE  Covered(i)'
    <3>1. OneSave /\ Remembered /\ Written /\ Covered(i)
      BY Zenon, <2>7 DEF SaveInv
    <3>2. CASE dirty \/ marking \/ \E t \in Goroutines : save[t].pc = "snapshot"
      BY Zenon, <1>1, <2>3, <3>2 DEF Covered
    <3>4. CASE rows[Keys[i]] = memory[Keys[i]] /\ \A t \in Saving : save[t].at > i
      <4>1. \A t \in Saving' : save'[t].at > i
        BY <1>2, <2>1, <2>3, <3>4, IdleRecord DEF Saving
      <4>. QED
        BY Zenon, <1>1, <3>4, <4>1 DEF Covered
    <3>3. CASE \E t \in Saving : save[t].at <= i /\ save[t].snap[Keys[i]] = memory[Keys[i]]
      <4>1. save[s].at <= i /\ save[s].snap[Keys[i]] = memory[Keys[i]]
        BY Zenon, <1>2, <3>1, <3>3 DEF OneSave
      <4>2. CASE save[s].at = i
        <5>1. prev[Keys[i]] = memory[Keys[i]] /\ memory[Keys[i]] \in Nat
          BY Zenon, <1>3, <4>1, <4>2, KeysApart DEF Key, SaveInv, SaveTypes
        <5>2. \A t \in Goroutines : save[t].pc # "note"
          BY Zenon, <1>1, <1>2, <3>1 DEF OneSave, Saving
        <5>3. prev[Keys[i]] = rows[Keys[i]]
          BY Zenon, <3>1, <5>1, <5>2, PersistenceAssumption DEF Remembered
        <5>4. \A t \in Saving' : t = s /\ save'[t].at > i
          BY <1>2, <2>1, <2>3, <3>1, <4>2, IdleRecord DEF OneSave, Saving
        <5>. QED
          BY Zenon, <1>1, <5>1, <5>3, <5>4 DEF Covered
      <4>3. CASE save[s].at < i
        <5>1. save'[s].pc = "compare" /\ save'[s].at <= i /\ save'[s].snap = save[s].snap
          BY <1>2, <2>1, <4>3
        <5>. QED
          BY Zenon, <1>1, <4>1, <5>1 DEF Covered, Saving
      <4>. QED
        BY <1>2, <4>1, <4>2, <4>3
    <3>. QED
      BY Zenon, <3>1, <3>2, <3>3, <3>4 DEF Covered
  <2>. QED
    BY Zenon, <1>1, <2>2, <2>4, <2>5, <2>6, <2>7 DEF SaveInv
<1>4. CASE save' = [save EXCEPT ![s].pc = "write"]
  <2>1. /\ save' \in [Goroutines -> SaveRecord] /\ \A t \in Goroutines \ {s} : save'[t] = save[t]
        /\ save'[s].pc = "write" /\ save'[s].at = save[s].at /\ save'[s].snap = save[s].snap
    BY Zenon, <1>4, StepRecord DEF SaveInv, Pcs
  <2>2. SaveTypes'
    BY Zenon, <1>1, <2>1 DEF SaveInv, SaveTypes
  <2>3. /\ Saving' = Saving
        /\ \A t \in Goroutines : save'[t].at = save[t].at /\ save'[t].snap = save[t].snap
        /\ \A t \in Goroutines : save'[t].pc = "note" <=> save[t].pc = "note"
        /\ \A t \in Goroutines : save'[t].pc = "snapshot" <=> save[t].pc = "snapshot"
    BY Zenon, <1>1, <2>1 DEF Saving
  <2>4. OneSave => OneSave'
    BY Zenon, <2>3 DEF OneSave
  <2>5. Remembered => Remembered'
    BY <1>1, <2>3 DEF Remembered
  <2>6. Written => Written'
    BY Zenon, <1>1, <2>3 DEF Written, Key
  <2>7. \A i \in 1..3 : Covered(i) => Covered(i)'
    BY Zenon, <1>1, <2>3 DEF Covered, Saving
  <2>. QED
    BY Zenon, <1>1, <2>2, <2>4, <2>5, <2>6, <2>7 DEF SaveInv
<1>. QED
  BY Zenon, <1>3, <1>4 DEF Compare


\* The row is written, or the save ends: then the flag is set again, or a save that
\* nobody repeats has failed.
LEMMA SaveWrite ==
  ASSUME SaveInv, NEW s \in Goroutines, WriteRow(s)
  PROVE  SaveInv'
<1>1. save[s].pc = "write" /\ UNCHANGED <<memory, prev, marking, overlapped>>
  BY Zenon DEF WriteRow
<1>2. save[s] \in SaveRecord /\ save[s].at \in 1..3 /\ s \in Saving
  BY Zenon, <1>1 DEF SaveInv, SaveTypes, SaveRecord, Saving
<1>3. CASE /\ rows' = [rows EXCEPT ![Key(s)] = save[s].snap[Key(s)]]
           /\ save' = [save EXCEPT ![s].pc = "note"]
           /\ UNCHANGED <<dirty, unsaved>>
  <2>1. /\ save' \in [Goroutines -> SaveRecord] /\ \A t \in Goroutines \ {s} : save'[t] = save[t]
        /\ save'[s].pc = "note" /\ save'[s].at = save[s].at /\ save'[s].snap = save[s].snap
    BY Zenon, <1>3, StepRecord DEF SaveInv, Pcs
  <2>2. save[s].snap[Key(s)] \in Nat /\ Key(s) \in Names
    BY Zenon, <1>2, KeysApart DEF Key, SaveRecord
  <2>3. SaveTypes'
    BY Zenon, <1>1, <1>3, <2>1, <2>2 DEF SaveInv, SaveTypes
  <2>4. /\ Saving' = Saving
        /\ \A t \in Goroutines : save'[t].at = save[t].at /\ save'[t].snap = save[t].snap
        /\ \A t \in Goroutines : save'[t].pc = "snapshot" <=> save[t].pc = "snapshot"
    BY Zenon, <1>1, <2>1 DEF Saving
  <2>5. \A i \in 1..3 : i # save[s].at => rows'[Keys[i]] = rows[Keys[i]]
    BY Zenon, <1>2, <1>3, KeysApart DEF Key, SaveInv, SaveTypes
  <2>6. rows'[Keys[save[s].at]] = save[s].snap[Keys[save[s].at]]
    BY Zenon, <1>3, <2>2 DEF Key, SaveInv, SaveTypes
  <2>7. OneSave => OneSave'
    BY Zenon, <2>4 DEF OneSave
  <2>8. OneSave => \A t \in Goroutines : save[t].pc # "note"
    BY Zenon, <1>1, <1>2 DEF OneSave, Saving
  <2>9. OneSave /\ Remembered => Remembered'
    BY Zenon, <1>1, <2>1, <2>5, <2>8 DEF Remembered
  <2>10. OneSave => Written'
    BY Zenon, <2>1, <2>4, <2>6, <2>8 DEF Written, Key
  <2>11. ASSUME OneSave, NEW i \in 1..3, Covered(i)
         PROVE  Covered(i)'
    <3>1. CASE dirty \/ marking \/ \E t \in Goroutines : save[t].pc = "snapshot"
      BY Zenon, <1>1, <1>3, <2>4, <3>1 DEF Covered
    <3>2. CASE \E t \in Saving : save[t].at <= i /\ save[t].snap[Keys[i]] = memory[Keys[i]]
      <4>1. PICK t \in Saving : save[t].at <= i /\ save[t].snap[Keys[i]] = memory[Keys[i]]
        BY Zenon, <3>2
      <4>2. t \in Saving' /\ save'[t].at = save[t].at /\ save'[t].snap = save[t].snap
        BY Zenon, <2>4 DEF Saving
      <4>. QED
        BY Zenon, <1>1, <4>1, <4>2 DEF Covered
    <3>3. CASE rows[Keys[i]] = memory[Keys[i]] /\ \A t \in Saving : save[t].at > i
      <4>1. i # save[s].at /\ \A t \in Saving' : save'[t].at > i
        BY <1>2, <2>4, <3>3 DEF Saving
      <4>. QED
        BY Zenon, <1>1, <2>5, <3>3, <4>1 DEF Covered
    <3>. QED
      BY Zenon, <2>11, <3>1, <3>2, <3>3 DEF Covered
  <2>. QED
    BY Zenon, <1>1, <1>3, <2>3, <2>7, <2>9, <2>10, <2>11 DEF SaveInv
<1>4. CASE /\ save' = [save EXCEPT ![s] = NoSave]
           /\ dirty' = (dirty \/ save[s].flush)
           /\ unsaved' = (unsaved \/ ~save[s].flush)
           /\ UNCHANGED rows
  <2>1. /\ save' \in [Goroutines -> SaveRecord] /\ \A t \in Goroutines \ {s} : save'[t] = save[t]
        /\ save'[s] = NoSave
    BY Zenon, <1>4, StepRecord DEF SaveInv, Pcs
  <2>2. SaveTypes'
    BY Zenon, <1>1, <1>4, <2>1, IdleRecord DEF SaveInv, SaveTypes
  <2>3. /\ Saving' \subseteq Saving
        /\ \A t \in Goroutines : save'[t].pc = "note" => t # s /\ save'[t] = save[t]
        /\ \A t \in Goroutines : save[t].pc = "note" => t # s /\ save'[t] = save[t]
    BY Zenon, <1>1, <2>1, IdleRecord DEF Saving
  <2>4. OneSave => OneSave'
    BY Zenon, <2>3 DEF OneSave
  <2>5. Remembered => Remembered'
    BY <1>1, <1>4, <2>3 DEF Remembered
  <2>6. Written => Written'
    BY Zenon, <1>4, <2>3 DEF Written, Key
  <2>7. ~unsaved' => \A i \in 1..3 : Covered(i)'
    BY Zenon, <1>4 DEF Covered
  <2>. QED
    BY Zenon, <1>1, <1>4, <2>2, <2>4, <2>5, <2>6, <2>7 DEF SaveInv
<1>. QED
  BY Zenon, <1>3, <1>4 DEF WriteRow

\* What was written is remembered.
LEMMA SaveNote ==
  ASSUME SaveInv, NEW s \in Goroutines, Note(s)
  PROVE  SaveInv'
<1>1. /\ save[s].pc = "note" /\ prev' = [prev EXCEPT ![Key(s)] = save[s].snap[Key(s)]] /\ NextRow(s)
      /\ UNCHANGED <<memory, rows, dirty, marking, unsaved, overlapped>>
  BY Zenon DEF Note, ends
<1>2. save[s] \in SaveRecord /\ save[s].at \in 1..3 /\ s \in Saving
  BY Zenon, <1>1 DEF SaveInv, SaveTypes, SaveRecord, Saving
<1>3. /\ save' \in [Goroutines -> SaveRecord]
      /\ \A t \in Goroutines \ {s} : save'[t] = save[t]
      /\ \/ save[s].at = 3 /\ save'[s] = NoSave
         \/ /\ save[s].at # 3 /\ save'[s].pc = "compare" /\ save'[s].at = save[s].at + 1
            /\ save'[s].snap = save[s].snap
  BY Zenon, <1>1, NextRowRecord DEF SaveInv
<1>4. save[s].snap[Key(s)] \in Nat /\ Key(s) \in Names
  BY Zenon, <1>2, KeysApart DEF Key, SaveRecord
<1>5. SaveTypes'
  BY Zenon, <1>1, <1>3, <1>4, IdleRecord DEF SaveInv, SaveTypes
<1>6. /\ Saving' \subseteq Saving
      /\ \A t \in Goroutines : save'[t].pc = "note" => t # s /\ save'[t] = save[t]
      /\ \A t \in Goroutines : save[t].pc = "snapshot" => t # s /\ save'[t] = save[t]
  BY Zenon, <1>1, <1>3, IdleRecord DEF Saving
<1>7. /\ \A i \in 1..3 : i # save[s].at => prev'[Keys[i]] = prev[Keys[i]]
      /\ prev'[Keys[save[s].at]] = save[s].snap[Keys[save[s].at]]
  BY Zenon, <1>1, <1>2, <1>4, KeysApart DEF Key, SaveInv, SaveTypes
<1>8. OneSave => OneSave'
  BY Zenon, <1>6 DEF OneSave
<1>9. Written => Written' /\ rows[Keys[save[s].at]] = save[s].snap[Keys[save[s].at]]
  BY Zenon, <1>1, <1>6 DEF Written, Key
<1>10. ASSUME OneSave, Remembered, Written
       PROVE  Remembered'
  <2>1. \A t \in Goroutines : save[t].pc = "note" => t = s
    BY Zenon, <1>2, <1>10 DEF OneSave, Saving
  <2>2. ASSUME NEW i \in 1..3
        PROVE  prev'[Keys[i]] \in {Unset, rows'[Keys[i]]}
    <3>1. CASE i = save[s].at
      BY Zenon, <1>1, <1>7, <1>9, <1>10, <3>1
    <3>2. CASE i # save[s].at
      BY Zenon, <1>1, <1>7, <1>10, <2>1, <3>2 DEF Remembered
    <3>. QED
      BY Zenon, <3>1, <3>2
  <2>. QED
    BY Zenon, <2>2 DEF Remembered
<1>11. ASSUME OneSave, Written, NEW i \in 1..3, Covered(i)
       PROVE  Covered(i)'
  <2>1. CASE dirty \/ marking \/ \E t \in Goroutines : save[t].pc = "snapshot"
    BY Zenon, <1>1, <1>6, <2>1 DEF Covered
  <2>3. CASE rows[Keys[i]] = memory[Keys[i]] /\ \A t \in Saving : save[t].at > i
    <3>1. \A t \in Saving' : save'[t].at > i
      BY <1>2, <1>3, <1>6, <2>3, IdleRecord DEF Saving
    <3>. QED
      BY Zenon, <1>1, <2>3, <3>1 DEF Covered
  <2>2. CASE \E t \in Saving : save[t].at <= i /\ save[t].snap[Keys[i]] = memory[Keys[i]]
    <3>1. save[s].at <= i /\ save[s].snap[Keys[i]] = memory[Keys[i]]
      BY Zenon, <1>2, <1>11, <2>2 DEF OneSave
    <3>2. CASE save[s].at = i
      <4>1. \A t \in Saving' : save'[t].at > i
        BY <1>2, <1>3, <1>6, <1>11, <3>2, IdleRecord DEF OneSave, Saving
      <4>. QED
        BY Zenon, <1>1, <1>9, <1>11, <3>1, <3>2, <4>1 DEF Covered
    <3>3. CASE save[s].at < i
      <4>1. save'[s].pc = "compare" /\ save'[s].at <= i /\ save'[s].snap = save[s].snap
        BY <1>2, <1>3, <3>3
      <4>. QED
        BY Zenon, <1>1, <3>1, <4>1 DEF Covered, Saving
    <3>. QED
      BY <1>2, <3>1, <3>2, <3>3
  <2>. QED
    BY Zenon, <1>11, <2>1, <2>2, <2>3 DEF Covered
<1>. QED
  BY Zenon, <1>1, <1>5, <1>8, <1>9, <1>10, <1>11 DEF SaveInv

\* Replies move a cursor and set the flag, and the flusher trades the flag for a save.
LEMMA SaveConfirm ==
  ASSUME SaveInv, Confirm \/ MarkDirty \/ Flush
  PROVE  SaveInv'
<1>1. CASE Confirm \/ MarkDirty
  <2>1. save' = save /\ UNCHANGED <<prev, rows, unsaved, overlapped>> /\ (marking' \/ dirty')
    BY Zenon, <1>1 DEF Confirm, MarkDirty, ends
  <2>2. "last_confirmed_timestamp" \in Names
    BY Zenon, KeysApart DEF Keys
  <2>3. memory' \in [Names -> Nat]
    BY <1>1, <2>2 DEF Confirm, MarkDirty, Changed, SaveInv, SaveTypes
  <2>. QED
    BY Zenon, <2>1, <2>3 DEF SaveInv, SaveTypes, OneSave, Remembered, Written, Covered, Saving, Key
<1>2. CASE Flush
  <2>1. /\ save[Flusher].pc = "idle" /\ Flusher \in Goroutines
        /\ UNCHANGED <<memory, prev, rows, marking, unsaved, overlapped>>
    BY Zenon, <1>2 DEF Flush, Goroutines, ends
  <2>2. /\ save' \in [Goroutines -> SaveRecord] /\ \A t \in Goroutines \ {Flusher} : save'[t] = save[t]
        /\ save'[Flusher].pc = "snapshot" /\ save'[Flusher].at = save[Flusher].at
    BY Zenon, <1>2, <2>1, StepRecord DEF Flush, SaveInv, Pcs
  <2>3. SaveTypes'
    BY Zenon, <2>1, <2>2 DEF SaveInv, SaveTypes
  <2>4. Saving' = Saving /\ \A t \in Goroutines : save'[t].pc = "note" => t # Flusher /\ save'[t] = save[t]
    BY Zenon, <2>1, <2>2 DEF Saving
  <2>5. \A i \in 1..3 : Covered(i)'
    BY Zenon, <2>1, <2>2 DEF Covered
  <2>6. OneSave => OneSave'
    BY Zenon, <2>4 DEF OneSave
  <2>7. Remembered => Remembered'
    BY <2>1, <2>2 DEF Remembered
  <2>8. Written => Written'
    BY Zenon, <2>1, <2>4 DEF Written, Key
  <2>. QED
    BY Zenon, <2>1, <2>3, <2>5, <2>6, <2>7, <2>8 DEF SaveInv
<1>. QED
  BY Zenon, <1>1, <1>2

\* A crash loses the cursors that were not saved, and every string that was remembered.
LEMMA SaveLoses ==
  ASSUME SaveInv, LoseMemory
  PROVE  SaveInv'
<1>1. /\ \A s \in Goroutines : save'[s] = NoSave
      /\ memory' = rows /\ rows' = rows /\ save' = [s \in Goroutines |-> NoSave]
      /\ prev' = [k \in Names |-> Unset]
  BY Zenon DEF LoseMemory
<1>2. SaveTypes'
  BY Zenon, <1>1, IdleRecord DEF SaveInv, SaveTypes
<1>3. Saving' = {} /\ \A i \in 1..3 : prev'[Keys[i]] = Unset /\ rows'[Keys[i]] = memory'[Keys[i]]
  BY Zenon, <1>1, IdleRecord, KeysApart DEF Saving
<1>. QED
  BY Zenon, <1>1, <1>2, <1>3, IdleRecord DEF SaveInv, OneSave, Remembered, Written, Covered

\* saveState persists the cursors although it skips writes, for any number of goroutines
\* and changes: once every save has ended, the rows are the cursors, unless a save failed
\* that nobody repeats, or two saves overlapped.
THEOREM PersistedTheorem == SaveSpec => []PersistedWhenQuiet
<1>1. SaveInv /\ [SaveNext]_saving => SaveInv'
  <2>. SUFFICES ASSUME SaveInv, [SaveNext]_saving
                PROVE  SaveInv'
    BY Zenon
  <2>1. CASE UNCHANGED saving
    BY <2>1 DEF saving, ends, SaveInv, SaveTypes, OneSave, Remembered, Written, Covered, Saving, Key
  <2>2. CASE SaveNext
    BY Zenon, <2>2, SaveUpdate, SaveSnapshot, SaveCompare, SaveWrite, SaveNote, SaveConfirm, SaveLoses
       DEF SaveNext, SaveStep
  <2>. QED
    BY Zenon, <2>1, <2>2
<1>2. SaveInv => PersistedWhenQuiet
  <2>. SUFFICES ASSUME SaveInv, Quiet, ~unsaved, ~overlapped
                PROVE  rows = memory
    BY Zenon DEF PersistedWhenQuiet
  <2>1. \A i \in 1..3 : rows[Keys[i]] = memory[Keys[i]]
    BY Zenon DEF SaveInv, Quiet, Covered, Saving
  <2>2. \A k \in Names : rows[k] = memory[k]
    BY <2>1, KeysApart
  <2>. QED
    BY <2>2 DEF SaveInv, SaveTypes
<1>. QED
  BY SaveStart, <1>1, <1>2, PTL DEF SaveSpec

=============================================================================
