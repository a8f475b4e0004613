----------------------- MODULE SandboxLifecycleProofs -----------------------
(***************************************************************************)
(* The sandboxes, for any number of groups, goroutines, sandboxes, faults  *)
(* and crashes: SandboxLifecycle is type correct, its slots exclude each   *)
(* other, no active group is forgotten, and it implements Admission.       *)
(***************************************************************************)
EXTENDS SandboxLifecycle, TLAPS

-----------------------------------------------------------------------------
(* Types and slots.  Neither is inductive alone: the invariant is TypeOK, Placed
   and SlotExclusion together. *)

(* What holds of every processGroupMessages goroutine: it has a group, and   *)
(* up to releaseSlot (1081) it holds that group's slot.                      *)
WorkerPlaced(r) ==
  /\ r.pc # "idle" => r.jid \in Groups
  /\ r.held => r.pc # "idle"
  /\ r.pc \in {"fetch", "count", "admit", "create", "track", "mark", "release"} => r.held

(* The strengthening: every goroutine, and every Sandbox that exists,        *)
(* belongs to a registered group.  TypeOK alone allows goroutines without    *)
(* one, whose steps would put None into the sets.                            *)
Placed ==
  /\ \A w \in Workers : WorkerPlaced(wk[w])
  /\ \A v \in Watchers : wt[v].pc # "idle" => wt[v].jid \in Groups
  /\ poll.pc \in {"pipe", "advance", "claim"} => poll.jid \in Groups
  /\ \A p \in Pods : pods[p].state # "none" => pods[p].jid \in Groups

(* What is needed of cardinalities; it follows at the end from the groups    *)
(* being finitely many.                                                      *)
Countable == \A S \in SUBSET Groups : Cardinality(S) \in Nat

(* The idle states are states. *)
LEMMA IdleType ==
  /\ IdlePoll \in PollState /\ IdleEvent \in EventState
  /\ IdleWorker \in WorkerState /\ WorkerPlaced(IdleWorker) /\ ~IdleWorker.held
  /\ IdleWatcher \in WatcherState
  /\ IdlePoll.pc = "idle" /\ IdleWatcher.pc = "idle"
  BY Zenon DEF PollState, EventState, WorkerState, WatcherState, IdlePoll, IdleEvent, IdleWorker,
         IdleWatcher, PollPCs, WorkerPCs, WatcherPCs, WorkerPlaced

(* The initial states are typed and placed. *)
LEMMA InitType == Init => TypeOK /\ Placed
  <1> SUFFICES ASSUME Init PROVE TypeOK /\ Placed
      BY Zenon
  <1>1. pods \in [Pods -> PodState]
        BY Zenon DEF Init, PodState
  <1>2. TypeOK
    <2>1. /\ queue \in [Groups -> Nat] /\ activeSandboxes \in [Groups -> Pods \cup {None}]
          /\ wk \in [Workers -> WorkerState] /\ wt \in [Watchers -> WatcherState]
          BY Zenon, IdleType DEF Init
    <2>2. /\ msgs \in 0..MaxMessages /\ tasks \in 0..MaxTasks
          /\ faults \in 0..MaxFaults /\ crashes \in 0..MaxCrashes
          BY LifecycleAssumption DEF Init
    <2>3. boot \in BootState /\ watching \in BOOLEAN /\ slipped \subseteq Groups
          BY Zenon DEF Init, BootState
    <2> QED  BY Zenon, <1>1, <2>1, <2>2, <2>3, IdleType DEF Init, TypeOK
  <1>3. Placed
        BY Zenon, IdleType DEF Init, Placed
  <1> QED  BY Zenon, <1>2, <1>3

(* What TypeOK and Placed say of the processGroupMessages goroutines. *)
WorkersTyped == wk \in [Workers -> WorkerState] /\ \A w \in Workers : WorkerPlaced(wk[w])

(* Moving one of them on keeps it typed and placed, as long as the steps     *)
(* that need the slot are entered with the slot.                             *)
LEMMA GotoType ==
  ASSUME WorkersTyped, NEW w \in Workers, NEW pc \in WorkerPCs \ {"idle"}, Goto(w, pc),
         wk[w].pc # "idle",
         wk[w].held \/ pc \notin {"fetch", "count", "admit", "create", "track", "mark", "release"}
  PROVE  WorkersTyped'
  BY DEF WorkersTyped, Goto, WorkerState, WorkerPlaced

(* So does starting one (769-814, 1393-1471). *)
LEMMA StartType ==
  ASSUME WorkersTyped, NEW w \in Workers, NEW g \in Groups, NEW q \in BOOLEAN,
         StartWorker(w, g, q)
  PROVE  WorkersTyped'
  BY Zenon DEF WorkersTyped, StartWorker, IdleWorker, WorkerState, WorkerPCs, WorkerPlaced

(* The steps of the message loop (pollMessages). *)
LEMMA PollType == TypeOK /\ Placed /\ PollStep => TypeOK' /\ Placed'
  <1> SUFFICES ASSUME TypeOK, Placed, PollStep PROVE TypeOK' /\ Placed'
      BY Zenon
  <1> USE DEF cursors, spawnState, world, startup, procs, bounds, Ok, Fails
  <1>0. ASSUME NEW g, DoneWith(g)
        PROVE  poll' \in PollState /\ poll'.pc \notin {"pipe", "advance", "claim"}
    <2>1. poll.todo \ {g} \in SUBSET Groups
          BY Zenon DEF TypeOK, PollState
    <2>2. poll' = IdlePoll \/ poll' = [pc |-> "dispatch", todo |-> poll.todo \ {g}, jid |-> None]
          BY Zenon, <1>0 DEF DoneWith
    <2> QED  BY <2>1, <2>2, IdleType DEF PollState, PollPCs
  <1>1. CASE PollFetch
    <2>1. poll' \in PollState /\ poll'.pc = "dispatch"
          BY Zenon, <1>1 DEF PollFetch, TypeOK, PollState, IdlePoll, PollPCs
    <2> QED  BY Zenon, <1>1, <2>1 DEF TypeOK, Placed, PollFetch
  <1>2. ASSUME NEW g \in Groups, PollDispatch(g) PROVE TypeOK' /\ Placed'
    <2>1. poll' \in PollState /\ (poll'.pc \in {"pipe", "advance", "claim"} => poll'.jid \in Groups)
          BY Zenon, <1>0, <1>2 DEF PollDispatch, TypeOK, PollState, PollPCs
    <2> QED  BY <1>2, <2>1, LifecycleAssumption DEF TypeOK, Placed, PollDispatch
  <1>3. CASE PollPipe
    <2>1. poll.jid \in Groups
          BY Zenon, <1>3 DEF PollPipe, Placed
    <2>2. poll' \in PollState /\ (poll'.pc \in {"pipe", "advance", "claim"} => poll'.jid \in Groups)
          BY Zenon, <1>0, <1>3, <2>1 DEF PollPipe, TypeOK, PollState, PollPCs
    <2> QED  BY <1>3, <2>2, LifecycleAssumption DEF TypeOK, Placed, PollPipe
  <1>4. CASE PollClaim
    <2>1. poll.jid \in Groups
          BY Zenon, <1>4 DEF PollClaim, Placed
    <2>2. WorkersTyped
          BY Zenon DEF TypeOK, Placed, WorkersTyped
    <2>3. WorkersTyped'
          BY Zenon, <1>4, <2>1, <2>2, StartType DEF PollClaim, WorkersTyped
    <2>4. inflight' \subseteq Groups
          BY Zenon, <1>4, <2>1 DEF PollClaim, ClaimSlot, TypeOK
    <2> QED  BY Zenon, <1>0, <1>4, <2>3, <2>4 DEF TypeOK, Placed, PollClaim, WorkersTyped
  <1>5. CASE PollAdvance
    <2>1. poll.jid \in Groups
          BY Zenon, <1>5 DEF PollAdvance, Placed
    <2>2. backlog' \subseteq Groups /\ unconfirmed' \subseteq Groups
          BY <1>5, <2>1 DEF PollAdvance, TypeOK
    <2> QED  BY Zenon, <1>0, <1>5, <2>2 DEF TypeOK, Placed, PollAdvance
  <1> QED  BY Zenon, <1>1, <1>2, <1>3, <1>4, <1>5 DEF PollStep

(* The steps of processGroupMessages, spawnAgent, its cleanups and its       *)
(* panics.                                                                   *)
LEMMA SpawnType ==
  ASSUME Countable, TypeOK, Placed, NEW w \in Workers, SpawnStep(w) \/ Panic(w)
  PROVE  TypeOK' /\ Placed'
  <1> USE DEF cursors, spawnState, world, startup, procs, bounds, Ok, Fails
  <1>a. WorkersTyped
        BY Zenon DEF TypeOK, Placed, WorkersTyped
  <1>b. wk[w].pc # "idle" => wk[w].jid \in Groups
        BY Zenon DEF Placed, WorkerPlaced
  <1>c. {"exit", "rollback", "unstream", "stop", "purge", "unmark", "panicked", "count", "admit",
         "create", "track", "mark", "release", "subscribe", "send"} \subseteq WorkerPCs \ {"idle"}
        BY Zenon DEF WorkerPCs
  <1>1. CASE Fetch(w)
    <2>1. WorkersTyped'
          BY Zenon, <1>1, <1>a, <1>c, GotoType DEF Fetch, WorkersTyped, WorkerPlaced
    <2> QED  BY <1>1, <2>1, LifecycleAssumption DEF TypeOK, Placed, Fetch, WorkersTyped
  <1>2. CASE CountActive(w)
    <2>1. Cardinality(active) \in Nat
          BY Zenon DEF Countable, TypeOK
    <2>2. WorkersTyped'
          BY <1>2, <1>a, <2>1 DEF CountActive, Goto, WorkersTyped, WorkerPlaced, WorkerState,
                                      WorkerPCs
    <2> QED  BY <1>2, <2>2, LifecycleAssumption DEF TypeOK, Placed, CountActive, WorkersTyped
  <1>3. CASE Admit(w)
    <2>1. WorkersTyped'
          BY Zenon, <1>3, <1>a, <1>c, GotoType DEF Admit, WorkersTyped, WorkerPlaced
    <2> QED  BY Zenon, <1>3, <1>b, <2>1 DEF TypeOK, Placed, Admit, WorkersTyped
  <1>4. CASE Create(w)
    <2>1. WorkersTyped'
          BY <1>4, <1>a DEF Create, Goto, WorkersTyped, WorkerPlaced, WorkerState, WorkerPCs
    <2>2. /\ pods' \in [Pods -> PodState]
          /\ \A p \in Pods : pods'[p].state # "none" => pods'[p].jid \in Groups
      <3>1. pods' = pods \/ \E p \in Pods : NewPod(p, wk[w].jid)
            BY Zenon, <1>4 DEF Create
      <3>2. wk[w].jid \in Groups
            BY Zenon, <1>4, <1>b DEF Create
      <3>3. CASE pods' = pods
            BY Zenon, <3>3 DEF TypeOK, Placed
      <3>4. CASE \E p \in Pods : NewPod(p, wk[w].jid)
            BY <3>2, <3>4 DEF NewPod, TypeOK, Placed, PodState
      <3> QED  BY Zenon, <3>1, <3>3, <3>4
    <2> QED  BY <1>4, <2>1, <2>2, LifecycleAssumption DEF TypeOK, Placed, Create, WorkersTyped
  <1>4a. CASE TrackCreated(w)
    <2>1. wk[w].held /\ wk[w].pod \in Pods \cup {None}
          BY Zenon, <1>4a, <1>a DEF TrackCreated, WorkersTyped, WorkerPlaced, WorkerState
    <2>2. WorkersTyped'
          BY Zenon, <1>4a, <1>a, <1>c, <2>1, GotoType DEF TrackCreated
    <2>3. activeSandboxes' \in [Groups -> Pods \cup {None}]
          BY Zenon, <1>4a, <2>1 DEF TrackCreated, Track, TypeOK
    <2> QED  BY Zenon, <1>4a, <2>2, <2>3 DEF TypeOK, Placed, TrackCreated, WorkersTyped
  <1>5. CASE MarkActive(w)
    <2>1. WorkersTyped'
          BY <1>5, <1>a DEF MarkActive, Goto, WorkersTyped, WorkerPlaced, WorkerState, WorkerPCs
    <2> QED  BY <1>5, <1>b, <2>1, LifecycleAssumption DEF TypeOK, Placed, MarkActive, WorkersTyped
  <1>6. CASE ReleaseSlot(w)
    <2>1. WorkersTyped'
          BY <1>6, <1>a DEF ReleaseSlot, WorkersTyped, WorkerPlaced, WorkerState, WorkerPCs
    <2> QED  BY Zenon, <1>6, <2>1 DEF TypeOK, Placed, ReleaseSlot, WorkersTyped
  <1>7. CASE Subscribe(w)
    <2>1. WorkersTyped'
          BY Zenon, <1>7, <1>a, <1>c, GotoType DEF Subscribe
    <2>2. /\ wt' \in [Watchers -> WatcherState]
          /\ \A v \in Watchers : wt'[v].pc # "idle" => wt'[v].jid \in Groups
      <3> DEFINE r == [IdleWatcher EXCEPT !.pc = "loop", !.jid = wk[w].jid]
      <3>1. r \in WatcherState /\ r.jid \in Groups
            BY Zenon, <1>7, <1>b DEF Subscribe, IdleWatcher, WatcherState, WatcherPCs
      <3>2. wt' = wt \/ \E v \in Watchers : wt' = [wt EXCEPT ![v] = r]
            BY Zenon, <1>7 DEF Subscribe
      <3> HIDE DEF r
      <3> QED  BY Zenon, <3>1, <3>2 DEF TypeOK, Placed
    <2> QED  BY <1>7, <2>1, <2>2, LifecycleAssumption DEF TypeOK, Placed, Subscribe, WorkersTyped
  <1>8. CASE SendInitial(w)
    <2>1. WorkersTyped'
          BY <1>8, <1>a DEF SendInitial, Goto, WorkersTyped, WorkerPlaced, WorkerState, WorkerPCs
    <2> QED  BY <1>8, <2>1, LifecycleAssumption DEF TypeOK, Placed, SendInitial, WorkersTyped
  <1>9. CASE AbortRollback(w)
    <2>1. WorkersTyped'
          BY Zenon, <1>9, <1>a, <1>c, GotoType DEF AbortRollback
    <2> QED  BY Zenon, <1>9, <1>b, <2>1 DEF TypeOK, Placed, AbortRollback, WorkersTyped
  <1>10. CASE AbortStreams(w)
    <2>1. WorkersTyped'
          BY Zenon, <1>10, <1>a, <1>c, GotoType DEF AbortStreams
    <2> QED  BY <1>10, <2>1, LifecycleAssumption DEF TypeOK, Placed, AbortStreams, WorkersTyped
  <1>11. CASE AbortStop(w)
    <2>1. WorkersTyped'
          BY Zenon, <1>11, <1>a, <1>c, GotoType DEF AbortStop
    <2>2. /\ pods' \in [Pods -> PodState]
          /\ \A p \in Pods : pods'[p].state # "none" => pods'[p].jid \in Groups
          BY <1>11 DEF AbortStop, TypeOK, Placed, PodState
    <2>3. activeSandboxes' \in [Groups -> Pods \cup {None}]
          BY Zenon, <1>11 DEF AbortStop, Untrack, Track, TypeOK
    <2> QED  BY <1>11, <2>1, <2>2, <2>3, LifecycleAssumption
             DEF TypeOK, Placed, AbortStop, WorkersTyped
  <1>12. CASE AbortPurge(w)
    <2>1. WorkersTyped'
          BY Zenon, <1>12, <1>a, <1>c, GotoType DEF AbortPurge
    <2> QED  BY <1>12, <2>1, LifecycleAssumption DEF TypeOK, Placed, AbortPurge, WorkersTyped
  <1>13. CASE AbortUnmark(w)
    <2>1. WorkersTyped'
          BY Zenon, <1>13, <1>a, <1>c, GotoType DEF AbortUnmark
    <2> QED  BY <1>13, <2>1, LifecycleAssumption
             DEF TypeOK, Placed, AbortUnmark, MarkInactive, WorkersTyped
  <1>14. CASE PanicUnmark(w)
    <2>1. WorkersTyped'
          BY Zenon, <1>14, <1>a, <1>c, GotoType DEF PanicUnmark
    <2> QED  BY <1>14, <2>1, LifecycleAssumption
             DEF TypeOK, Placed, PanicUnmark, MarkInactive, WorkersTyped
  <1>15. CASE Exit(w)
    <2>1. WorkersTyped'
          BY Zenon, <1>15, <1>a, IdleType DEF Exit, WorkersTyped
    <2>2. queue' \in [Groups -> Nat]
          BY <1>15 DEF Exit, Enqueue, TypeOK
    <2>3. inflight' \subseteq Groups
          BY Zenon, <1>15 DEF Exit, ReleaseOnce, TypeOK
    <2> QED  BY <1>15, <2>1, <2>2, <2>3, LifecycleAssumption DEF TypeOK, Placed, Exit, WorkersTyped
  <1>16. CASE Panic(w)
    <2>1. WorkersTyped'
          BY Zenon, <1>16, <1>a, <1>c, GotoType DEF Panic
    <2>2. activeSandboxes' \in [Groups -> Pods \cup {None}]
          BY Zenon, <1>16 DEF Panic, Untrack, Track, TypeOK
    <2>3. backlog' \subseteq Groups /\ unconfirmed' \subseteq Groups
          BY Zenon, <1>16, <1>b DEF Panic, RollBackToConfirmed, TypeOK
    <2> QED  BY <1>16, <2>1, <2>2, <2>3, LifecycleAssumption DEF TypeOK, Placed, Panic, WorkersTyped
  <1> QED  BY Zenon, <1>1, <1>2, <1>3, <1>4, <1>5, <1>6, <1>7, <1>8, <1>9, <1>10, <1>11, <1>12, <1>13,
              <1>14, <1>15, <1>16, <1>4a DEF SpawnStep

(* Moving a watcher on keeps the watchers typed and placed. *)
LEMMA WatchGotoType ==
  ASSUME TypeOK, Placed, NEW v \in Watchers, NEW pc \in WatcherPCs, wt[v].pc # "idle",
         WatchGoto(v, pc)
  PROVE  /\ wt' \in [Watchers -> WatcherState]
         /\ \A u \in Watchers : wt'[u].pc # "idle" => wt'[u].jid \in Groups
  BY Zenon DEF TypeOK, Placed, WatchGoto, WatcherState

(* So does noting that it has heard its agent. *)
LEMMA ConnectedType ==
  ASSUME TypeOK, Placed, NEW v \in Watchers, wt[v].pc # "idle",
         wt' = [wt EXCEPT ![v].connected = TRUE]
  PROVE  /\ wt' \in [Watchers -> WatcherState]
         /\ \A u \in Watchers : wt'[u].pc # "idle" => wt'[u].jid \in Groups
  BY Zenon DEF TypeOK, Placed, WatcherState

(* So does ending it. *)
LEMMA WatchEndsType ==
  ASSUME TypeOK, Placed, NEW v \in Watchers, WatchEnds(v)
  PROVE  /\ wt' \in [Watchers -> WatcherState]
         /\ \A u \in Watchers : wt'[u].pc # "idle" => wt'[u].jid \in Groups
  BY Zenon, IdleType DEF TypeOK, Placed, WatchEnds

(* The steps of watchGroupOutput and deactivate. *)
LEMMA WatchType ==
  ASSUME TypeOK, Placed, NEW v \in Watchers, WatchStep(v) \/ Hear(v) \/ GiveUp(v)
  PROVE  TypeOK' /\ Placed'
  <1> USE DEF cursors, spawnState, world, startup, procs, bounds, Ok, Fails
  <1> DEFINE WatchersTyped == /\ wt \in [Watchers -> WatcherState]
                              /\ \A u \in Watchers : wt[u].pc # "idle" => wt[u].jid \in Groups
  <1>b. wt[v].pc # "idle" => wt[v].jid \in Groups
        BY Zenon DEF Placed
  <1>c. {"idle", "loop", "isactive", "mark", "untrack", "pending", "claim"} \subseteq WatcherPCs
        BY Zenon DEF WatcherPCs
  <1>1. CASE Hear(v)
    <2>1. WatchersTyped'
          BY Zenon, <1>1, ConnectedType DEF Hear
    <2> QED  BY Zenon, <1>1, <2>1 DEF TypeOK, Placed, Hear
  <1>2. CASE ReceiveShutdown(v)
    <2>1. WatchersTyped'
          BY Zenon, <1>2, <1>c, WatchGotoType DEF ReceiveShutdown
    <2> QED  BY Zenon, <1>2, <2>1 DEF TypeOK, Placed, ReceiveShutdown
  <1>3. CASE GiveUp(v)
    <2>1. WatchersTyped'
          BY Zenon, <1>3, <1>c, WatchGotoType DEF GiveUp
    <2> QED  BY <1>3, <2>1, LifecycleAssumption DEF TypeOK, Placed, GiveUp
  <1>4. CASE LivenessTick(v)
    <2>1. WatchersTyped'
          BY Zenon, <1>4, <1>c, WatchGotoType DEF LivenessTick
    <2> QED  BY Zenon, <1>4, <2>1 DEF TypeOK, Placed, LivenessTick
  <1>5. CASE DeactivateCheck(v)
    <2>1. WatchersTyped'
          BY Zenon, <1>5, <1>c, WatchGotoType, WatchEndsType DEF DeactivateCheck
    <2> QED  BY <1>5, <2>1, LifecycleAssumption DEF TypeOK, Placed, DeactivateCheck
  <1>6. CASE DeactivateMark(v)
    <2>1. WatchersTyped'
          BY Zenon, <1>6, <1>c, WatchGotoType, WatchEndsType DEF DeactivateMark
    <2> QED  BY <1>6, <2>1, LifecycleAssumption DEF TypeOK, Placed, DeactivateMark
  <1>7. CASE DeactivateRollback(v)
    <2>1. WatchersTyped'
          BY Zenon, <1>7, <1>c, WatchGotoType DEF DeactivateRollback
    <2>2. activeSandboxes' \in [Groups -> Pods \cup {None}]
          BY Zenon, <1>7 DEF DeactivateRollback, Untrack, Track, TypeOK
    <2>3. backlog' \subseteq Groups /\ unconfirmed' \subseteq Groups
          BY Zenon, <1>7, <1>b DEF DeactivateRollback, RollBackToConfirmed, TypeOK
    <2> QED  BY Zenon, <1>7, <2>1, <2>2, <2>3 DEF TypeOK, Placed, DeactivateRollback
  <1>8. CASE DeactivatePending(v)
    <2>1. WatchersTyped'
      <3>1. ASSUME NEW q \in BOOLEAN, wt' = [wt EXCEPT ![v].pc = "claim", ![v].qmsg = q]
            PROVE  WatchersTyped'
            BY <1>8, <1>c, <3>1 DEF DeactivatePending, TypeOK, Placed, WatcherState
      <3> QED  BY Zenon, <1>8, <3>1, WatchEndsType DEF DeactivatePending
    <2>2. queue' \in [Groups -> Nat]
      <3>1. queue' = queue \/ (queue[wt[v].jid] > 0 /\ queue' = [queue EXCEPT ![wt[v].jid] = @ - 1])
            BY Zenon, <1>8 DEF DeactivatePending
      <3> QED  BY <1>8, <1>b, <3>1 DEF DeactivatePending, TypeOK
    <2> QED  BY <1>8, <2>1, <2>2, LifecycleAssumption DEF TypeOK, Placed, DeactivatePending
  <1>9. CASE DeactivateRecover(v)
    <2>1. WatchersTyped'
          BY Zenon, <1>9, WatchEndsType DEF DeactivateRecover
    <2>2. WorkersTyped /\ wt[v].qmsg \in BOOLEAN
          BY Zenon DEF TypeOK, Placed, WorkersTyped, WatcherState
    <2>3. WorkersTyped'
          BY Zenon, <1>9, <1>b, <2>2, StartType DEF DeactivateRecover, WorkersTyped
    <2>4. queue' \in [Groups -> Nat] /\ inflight' \subseteq Groups
          BY <1>9, <1>b DEF DeactivateRecover, Enqueue, ClaimSlot, TypeOK
    <2> QED  BY <1>9, <2>1, <2>3, <2>4, LifecycleAssumption
             DEF TypeOK, Placed, DeactivateRecover, WorkersTyped
  <1> QED  BY Zenon, <1>1, <1>2, <1>3, <1>4, <1>5, <1>6, <1>7, <1>8, <1>9 DEF WatchStep

(* The steps of handleSandboxEvent, and the watch that feeds it. *)
LEMMA EventType ==
  TypeOK /\ Placed /\ (EventStep \/ WatchOpen \/ WatchCloses) => TypeOK' /\ Placed'
  <1> SUFFICES ASSUME TypeOK, Placed, EventStep \/ WatchOpen \/ WatchCloses PROVE TypeOK' /\ Placed'
      BY Zenon
  <1> USE DEF cursors, spawnState, world, startup, procs, bounds, Ok, Fails
  <1>1. ASSUME NEW p \in events, EventRead(p) PROVE TypeOK' /\ Placed'
    <2>1. ev' \in EventState
          BY Zenon, <1>1, IdleType DEF EventRead, TypeOK, EventState, PodState
    <2> QED  BY Zenon, <1>1, <2>1 DEF TypeOK, Placed, EventRead
  <1>2. CASE EventCheck
    <2>1. ev' \in EventState
          BY Zenon, <1>2, IdleType DEF EventCheck, TypeOK, EventState
    <2> QED  BY <1>2, <2>1, LifecycleAssumption DEF TypeOK, Placed, EventCheck
  <1>3. CASE EventClear
    <2>1. ev' \in EventState
          BY Zenon, <1>3 DEF EventClear, TypeOK, EventState
    <2>2. activeSandboxes' \in [Groups -> Pods \cup {None}]
          BY Zenon, <1>3 DEF EventClear, Untrack, Track, TypeOK
    <2> QED  BY Zenon, <1>3, <2>1, <2>2 DEF TypeOK, Placed, EventClear
  <1>4. CASE EventUnmark
        BY <1>4, IdleType, LifecycleAssumption DEF TypeOK, Placed, EventUnmark, MarkInactive
  <1>5. CASE WatchOpen \/ WatchCloses
    <2>1. watching' \in BOOLEAN
          BY Zenon, <1>5 DEF WatchOpen, WatchCloses
    <2>2. faults' \in 0..MaxFaults
          BY <1>5, LifecycleAssumption DEF TypeOK, WatchOpen, WatchCloses
    <2> QED  BY Zenon, <1>5, <2>1, <2>2 DEF TypeOK, Placed, WatchOpen, WatchCloses
  <1> QED  BY Zenon, <1>1, <1>2, <1>3, <1>4, <1>5 DEF EventStep

(* Users, agents and Kubernetes. *)
LEMMA EnvironmentType == TypeOK /\ Placed /\ Environment => TypeOK' /\ Placed'
  <1> SUFFICES ASSUME TypeOK, Placed, Environment PROVE TypeOK' /\ Placed'
      BY Zenon
  <1> USE DEF cursors, spawnState, world, startup, procs, bounds, Ok, Fails
  <1>1. ASSUME NEW g \in Groups, StoreMessage(g) PROVE TypeOK' /\ Placed'
        BY <1>1, LifecycleAssumption DEF StoreMessage, TypeOK, Placed
  <1>2. ASSUME NEW g \in Groups, ExecuteTask(g) PROVE TypeOK' /\ Placed'
    <2>1. queue' \in [Groups -> Nat]
          BY <1>2 DEF ExecuteTask, Enqueue, TypeOK
    <2> QED  BY <1>2, <2>1, LifecycleAssumption DEF ExecuteTask, TypeOK, Placed
  <1>3. ASSUME NEW p \in Pods, AgentEnds(p) PROVE TypeOK' /\ Placed'
    <2>1. pods[p].jid \in Groups
          BY Zenon, <1>3 DEF AgentEnds, LivePods, Placed
    <2>2. /\ pods' \in [Pods -> PodState]
          /\ \A q \in Pods : pods'[q].state # "none" => pods'[q].jid \in Groups
      <3>1. pods' = [pods EXCEPT ![p].state = IF @ = "stopping" THEN "deleted" ELSE "done"]
            BY Zenon, <1>3 DEF AgentEnds
      <3> QED  BY <2>1, <3>1 DEF TypeOK, Placed, PodState
    <2>3. events' \subseteq Pods /\ slipped' \subseteq Groups
          BY Zenon, <1>3, <2>1 DEF AgentEnds, Report, TypeOK
    <2> QED  BY Zenon, <1>3, <2>1, <2>2, <2>3 DEF AgentEnds, TypeOK, Placed
  <1>4. ASSUME NEW p \in Pods, CleanupOrphan(p) PROVE TypeOK' /\ Placed'
    <2>1. /\ pods' \in [Pods -> PodState]
          /\ \A q \in Pods : pods'[q].state # "none" => pods'[q].jid \in Groups
          BY <1>4 DEF CleanupOrphan, TypeOK, Placed, PodState
    <2>2. pods[p].jid \in Groups
          BY Zenon, <1>4 DEF CleanupOrphan, Placed
    <2>3. events' \subseteq Pods /\ slipped' \subseteq Groups
          BY Zenon, <1>4, <2>2 DEF CleanupOrphan, Report, TypeOK
    <2> QED  BY Zenon, <1>4, <2>1, <2>3 DEF CleanupOrphan, TypeOK, Placed
  <1>5. ASSUME NEW p \in Pods, EventLost(p) PROVE TypeOK' /\ Placed'
        BY <1>5, LifecycleAssumption DEF EventLost, TypeOK, Placed
  <1> QED  BY Zenon, <1>1, <1>2, <1>3, <1>4, <1>5 DEF Environment

(* The crash and the steps of Start (173-293). *)
LEMMA BootType == TypeOK /\ Placed /\ (Crash \/ BootStep) => TypeOK' /\ Placed'
  <1> SUFFICES ASSUME TypeOK, Placed, Crash \/ BootStep PROVE TypeOK' /\ Placed'
      BY Zenon
  <1> USE DEF cursors, spawnState, world, startup, procs, bounds, Ok, Fails
  <1>0. ASSUME NEW todo \in SUBSET Groups, Reconcile(todo) PROVE boot' \in BootState
        BY Zenon, <1>0 DEF Reconcile, BootState
  <1>1. CASE Crash
    <2>1. unseen' \subseteq Groups /\ backlog' \subseteq Groups /\ unconfirmed' \subseteq Groups
          BY <1>1 DEF Crash, Stored, TypeOK
    <2>2. /\ wk' \in [Workers -> WorkerState] /\ wt' \in [Watchers -> WatcherState]
          /\ poll' \in PollState /\ ev' \in EventState
          BY Zenon, <1>1, IdleType DEF Crash
    <2>3. /\ activeSandboxes' \in [Groups -> Pods \cup {None}] /\ inflight' = {}
          /\ boot' \in BootState /\ watching' \in BOOLEAN /\ slipped' = {} /\ events' = {}
          /\ UNCHANGED <<queue, active, pods, bye, msgs, tasks, faults>>
          BY Zenon, <1>1 DEF Crash, BootState
    <2>4. crashes' \in 0..MaxCrashes
          BY <1>1, LifecycleAssumption DEF Crash, TypeOK
    <2>5. TypeOK'
          BY Zenon, <2>1, <2>2, <2>3, <2>4 DEF TypeOK
    <2>6. Placed'
          BY Zenon, <1>1, <2>3, IdleType DEF Crash, Placed
    <2> QED  BY Zenon, <2>5, <2>6
  <1>2. CASE BootClean
    <2>1. PICK D \in SUBSET Pods :
            pods' = [p \in Pods |-> IF p \in D THEN [pods[p] EXCEPT !.state = "deleted"] ELSE pods[p]]
            /\ D \subseteq {p \in Pods : pods[p].state = "done"}
          BY Zenon, <1>2 DEF BootClean
    <2>2. /\ pods' \in [Pods -> PodState]
          /\ \A q \in Pods : pods'[q].state # "none" => pods'[q].jid \in Groups
          BY <2>1 DEF TypeOK, Placed, PodState
    <2>3. boot' \in BootState
          BY Zenon, <1>0, <1>2 DEF BootClean, TypeOK
    <2>4. faults' \in 0..MaxFaults
          BY <1>2, LifecycleAssumption DEF BootClean, TypeOK
    <2> QED  BY Zenon, <1>2, <2>2, <2>3, <2>4 DEF BootClean, TypeOK, Placed
  <1>3. ASSUME NEW g \in Groups, BootReconcile(g) PROVE TypeOK' /\ Placed'
    <2>1. boot' \in BootState
      <3>1. boot.todo \ {g} \in SUBSET Groups
            BY Zenon DEF TypeOK, BootState
      <3> QED  BY Zenon, <1>0, <1>3, <3>1 DEF BootReconcile
    <2>2. faults' \in 0..MaxFaults /\ active' \subseteq Groups
          BY <1>3, LifecycleAssumption DEF BootReconcile, TypeOK
    <2> QED  BY Zenon, <1>3, <2>1, <2>2 DEF BootReconcile, TypeOK, Placed
  <1>4. CASE RecoverPending
    <2>1. queue' \in [Groups -> Nat]
          BY <1>4 DEF RecoverPending, TypeOK
    <2>2. faults' \in 0..MaxFaults
          BY <1>4, LifecycleAssumption DEF RecoverPending, TypeOK
    <2>3. boot' \in BootState
          BY Zenon, <1>4 DEF RecoverPending, TypeOK, BootState
    <2> QED  BY Zenon, <1>4, <2>1, <2>2, <2>3 DEF RecoverPending, TypeOK, Placed
  <1> QED  BY Zenon, <1>1, <1>2, <1>3, <1>4 DEF BootStep

(* Every step keeps the state typed and placed. *)
LEMMA StepType == Countable /\ TypeOK /\ Placed /\ [Next]_vars => TypeOK' /\ Placed'
  <1> SUFFICES ASSUME Countable, TypeOK, Placed, [Next]_vars PROVE TypeOK' /\ Placed'
      BY Zenon
  <1>1. CASE UNCHANGED vars
        BY Zenon, <1>1 DEF vars, cursors, spawnState, world, startup, procs, bounds, TypeOK, Placed
  <1>2. CASE Next
        BY Zenon, <1>2, PollType, SpawnType, WatchType, EventType, EnvironmentType, BootType
           DEF Next, Steps
  <1> QED  BY Zenon, <1>1, <1>2

(* Slot exclusion depends on the slots, their holders and the holders'       *)
(* groups only.                                                              *)
LEMMA SameHolders ==
  ASSUME SlotExclusion, inflight' = inflight, Holders' = Holders,
         \A w \in Holders : wk'[w].jid = wk[w].jid
  PROVE  SlotExclusion'
  BY DEF SlotExclusion

(* Moving a goroutine on leaves the holders alone. *)
LEMMA GotoHolders ==
  ASSUME WorkersTyped, NEW w \in Workers, NEW pc, Goto(w, pc)
  PROVE  Holders' = Holders /\ \A x \in Holders : wk'[x].jid = wk[x].jid
  BY Zenon DEF WorkersTyped, Goto, Holders, WorkerState

(* claimSandboxSlot (820-832): a free slot and a new goroutine that holds    *)
(* it.                                                                       *)
LEMMA ClaimKeepsExclusion ==
  ASSUME WorkersTyped, SlotExclusion, NEW w \in Workers, NEW g \in Groups, NEW q \in BOOLEAN,
         SlotFree(g), ClaimSlot(g), StartWorker(w, g, q)
  PROVE  SlotExclusion'
  <1>1. w \notin Holders
        BY Zenon DEF Holders, StartWorker, WorkersTyped, WorkerPlaced
  <1>2. /\ wk'[w].held /\ wk'[w].jid = g
        /\ \A x \in Workers \ {w} : wk'[x] = wk[x]
        BY Zenon DEF StartWorker, WorkersTyped, IdleWorker
  <1>3. Holders' = Holders \cup {w}
        BY Zenon, <1>2 DEF Holders
  <1>4. \A x \in Holders : wk'[x].jid = wk[x].jid
        BY Zenon, <1>1, <1>2 DEF Holders
  <1>5. \A x \in Holders : wk[x].jid # g
        BY Zenon DEF SlotExclusion, SlotFree
  <1>6. inflight' = {wk'[x].jid : x \in Holders'}
        BY <1>2, <1>3, <1>4 DEF SlotExclusion, ClaimSlot
  <1>7. \A w1, w2 \in Holders' : wk'[w1].jid = wk'[w2].jid => w1 = w2
        BY <1>2, <1>3, <1>4, <1>5 DEF SlotExclusion
  <1> QED  BY Zenon, <1>6, <1>7 DEF SlotExclusion

(* A release by the holder: its own slot and no other becomes free. *)
LEMMA ReleaseKeepsExclusion ==
  ASSUME WorkersTyped, SlotExclusion, NEW w \in Workers, wk[w].held, ~wk'[w].held,
         \A x \in Workers \ {w} : wk'[x] = wk[x],
         inflight' = inflight \ {wk[w].jid}
  PROVE  SlotExclusion'
  <1>1. Holders' = Holders \ {w} /\ w \in Holders
        BY DEF Holders
  <1>2. \A x \in Holders' : wk'[x].jid = wk[x].jid /\ wk[x].jid # wk[w].jid
        BY Zenon, <1>1 DEF Holders, SlotExclusion
  <1>3. inflight' = {wk'[x].jid : x \in Holders'}
        BY <1>1, <1>2 DEF SlotExclusion
  <1>4. \A w1, w2 \in Holders' : wk'[w1].jid = wk'[w2].jid => w1 = w2
        BY <1>1, <1>2 DEF SlotExclusion
  <1> QED  BY Zenon, <1>3, <1>4 DEF SlotExclusion

(* The steps of a spawn: only releaseSlot and the deferred release touch the *)
(* slots, each at most once and only while the goroutine holds the slot.     *)
LEMMA SpawnExclusion ==
  ASSUME WorkersTyped, SlotExclusion, NEW w \in Workers, SpawnStep(w) \/ Panic(w)
  PROVE  SlotExclusion'
  <1> USE DEF spawnState
  <1>1. ASSUME NEW pc, Goto(w, pc), inflight' = inflight PROVE SlotExclusion'
        BY Zenon, <1>1, GotoHolders, SameHolders
  <1>2. CASE Fetch(w) \/ Admit(w) \/ TrackCreated(w) \/ Subscribe(w) \/ AbortRollback(w)
             \/ AbortStreams(w) \/ AbortStop(w) \/ AbortPurge(w) \/ AbortUnmark(w) \/ PanicUnmark(w) \/ Panic(w)
        BY Zenon, <1>1, <1>2 DEF Fetch, Admit, TrackCreated, Subscribe, AbortRollback, AbortStreams,
                          AbortStop, AbortPurge, AbortUnmark, PanicUnmark, Panic
  <1>3. CASE CountActive(w) \/ Create(w) \/ MarkActive(w) \/ SendInitial(w)
    <2>1. inflight' = inflight
          BY Zenon, <1>3 DEF CountActive, Create, MarkActive, SendInitial
    <2>2. \A x \in Workers : wk'[x].held = wk[x].held /\ wk'[x].jid = wk[x].jid
          BY <1>3 DEF CountActive, Create, MarkActive, SendInitial, Goto, WorkersTyped, WorkerState
    <2>3. Holders' = Holders /\ \A x \in Holders : wk'[x].jid = wk[x].jid
          BY Zenon, <2>2 DEF Holders
    <2> QED  BY Zenon, <2>1, <2>3, SameHolders
  <1>4. CASE ReleaseSlot(w)
    <2>1. /\ wk[w].held /\ ~wk'[w].held
          /\ \A x \in Workers \ {w} : wk'[x] = wk[x]
          /\ inflight' = inflight \ {wk[w].jid}
          BY Zenon, <1>4 DEF ReleaseSlot, WorkersTyped, WorkerPlaced, WorkerState
    <2> QED  BY Zenon, <2>1, ReleaseKeepsExclusion
  <1>5. CASE Exit(w)
    <2>1. ~wk'[w].held /\ \A x \in Workers \ {w} : wk'[x] = wk[x]
          BY Zenon, <1>5, IdleType DEF Exit, WorkersTyped
    <2>2. CASE wk[w].held
      <3>1. inflight' = inflight \ {wk[w].jid}
            BY Zenon, <1>5, <2>2 DEF Exit, ReleaseOnce
      <3> QED  BY Zenon, <2>1, <2>2, <3>1, ReleaseKeepsExclusion
    <2>3. CASE ~wk[w].held
      <3>1. inflight' = inflight
            BY Zenon, <1>5, <2>3 DEF Exit, ReleaseOnce
      <3>2. Holders' = Holders /\ \A x \in Holders : wk'[x].jid = wk[x].jid
            BY <2>1, <2>3 DEF Holders
      <3> QED  BY Zenon, <3>1, <3>2, SameHolders
    <2> QED  BY Zenon, <2>2, <2>3
  <1> QED  BY Zenon, <1>2, <1>3, <1>4, <1>5 DEF SpawnStep

(* Every step keeps slot exclusion. *)
LEMMA StepExclusion == TypeOK /\ Placed /\ SlotExclusion /\ [Next]_vars => SlotExclusion'
  <1> SUFFICES ASSUME TypeOK, Placed, SlotExclusion, [Next]_vars PROVE SlotExclusion'
      BY Zenon
  <1> USE DEF cursors, spawnState, world, startup, procs, bounds
  <1>a. WorkersTyped
        BY Zenon DEF TypeOK, Placed, WorkersTyped
  <1>1. ASSUME UNCHANGED <<inflight, wk>> PROVE SlotExclusion'
        BY Zenon, <1>1 DEF SlotExclusion, Holders
  <1>2. CASE PollStep
    <2>1. CASE PollClaim
      <3>1. poll.jid \in Groups
            BY Zenon, <2>1 DEF PollClaim, Placed
      <3> QED  BY Zenon, <1>1, <1>a, <2>1, <3>1, ClaimKeepsExclusion DEF PollClaim
    <2>2. CASE PollFetch \/ PollPipe \/ PollAdvance \/ \E g \in Groups : PollDispatch(g)
          BY Zenon, <1>1, <2>2 DEF PollFetch, PollPipe, PollAdvance, PollDispatch
    <2> QED  BY Zenon, <1>2, <2>1, <2>2 DEF PollStep
  <1>3. ASSUME NEW w \in Workers, SpawnStep(w) \/ Panic(w) PROVE SlotExclusion'
        BY Zenon, <1>a, <1>3, SpawnExclusion
  <1>4. ASSUME NEW v \in Watchers, WatchStep(v) \/ Hear(v) \/ GiveUp(v) PROVE SlotExclusion'
    <2>1. CASE DeactivateRecover(v)
      <3>1. wt[v].jid \in Groups /\ wt[v].qmsg \in BOOLEAN
            BY Zenon, <2>1 DEF DeactivateRecover, Placed, TypeOK, WatcherState
      <3> QED  BY Zenon, <1>1, <1>a, <2>1, <3>1, ClaimKeepsExclusion DEF DeactivateRecover
    <2>2. CASE Hear(v) \/ GiveUp(v) \/ ReceiveShutdown(v) \/ LivenessTick(v) \/ DeactivateCheck(v)
               \/ DeactivateMark(v) \/ DeactivateRollback(v) \/ DeactivatePending(v)
          BY Zenon, <1>1, <2>2 DEF Hear, GiveUp, ReceiveShutdown, LivenessTick, DeactivateCheck,
                            DeactivateMark, DeactivateRollback, DeactivatePending
    <2> QED  BY Zenon, <1>4, <2>1, <2>2 DEF WatchStep
  <1>5. CASE EventStep \/ WatchOpen \/ WatchCloses
        BY Zenon, <1>1, <1>5 DEF EventStep, EventRead, EventCheck, EventClear, EventUnmark, WatchOpen,
                          WatchCloses
  <1>6. CASE Environment \/ BootStep
        BY Zenon, <1>1, <1>6 DEF Environment, StoreMessage, ExecuteTask, AgentEnds, CleanupOrphan,
                          EventLost, BootStep, BootClean, BootReconcile, RecoverPending
  <1>8. CASE Crash
        BY Zenon, <1>8, IdleType DEF Crash, SlotExclusion, Holders
  <1>7. CASE UNCHANGED vars
        BY Zenon, <1>1, <1>7 DEF vars
  <1> QED  BY Zenon, <1>2, <1>3, <1>4, <1>5, <1>6, <1>7, <1>8 DEF Next, Steps

-----------------------------------------------------------------------------
(* Attendance.  While a goroutine of the group is under way, one of them keeps
   it: the spawn that marked it, and then its watcher, until the group is
   inactive.  The others can then do to the tracked sandbox what they like.
   Without any goroutine nothing is tracked, so that no event is stale. *)

(* A watcher, or a spawn, that will look at group g. *)
Watches(r, g) == r.jid = g /\ r.pc \in {"loop", "isactive", "mark"}
MindingPCs == {"release", "subscribe", "rollback", "stop", "purge", "unmark", "panicked"}
Minds(r, g) == r.jid = g /\ r.marked /\ r.pc \in MindingPCs
Kept(g) ==
  \/ \E v \in Watchers : Watches(wt[v], g)
  \/ \E w \in Workers : Minds(wk[w], g)

(* A goroutine is under way with g, or about to be started. *)
Busy(r, g) == r.pc # "idle" /\ r.jid = g
Engaged(g) ==
  \/ \E v \in Watchers : Busy(wt[v], g)
  \/ \E w \in Workers : Busy(wk[w], g)
  \/ poll.pc = "claim" /\ poll.jid = g

(* A Sandbox that lives, or whose event is waiting. *)
Shows(p) == pods[p].state \in {"running", "stopping"} \/ p \in events

(* What is left of g when nobody is engaged with it. *)
Seen(g) == g \in slipped \/ Unreconciled(g) \/ ev.jid = g
Left(g) ==
  /\ activeSandboxes[g] = None
  /\ Seen(g) \/ \E p \in Pods : pods[p].jid = g /\ Shows(p)

(* The strengthening of ActiveAttended.  Attended(g) itself is not kept: an  *)
(* event of an old Sandbox attends to the group, and is dropped as stale     *)
(* (1213-1228).                                                              *)
Prepared == \A w \in Workers : wk[w].pc \in {"track", "mark"} \/ wk[w].marked => wk[w].pod # None
Ended == /\ \A p \in events : pods[p].state \in {"done", "deleted"}
         /\ ev.pc = "idle" => ev.jid = None
Tended(g) == Kept(g) \/ (~Engaged(g) /\ Left(g))
Minded == faults = 0 => \A g \in active : Tended(g)
AttendInv == Prepared /\ Ended /\ Minded

(* It implies the property. *)
LEMMA AttendImplies == AttendInv => ActiveAttended
  <1> SUFFICES ASSUME Minded, faults = 0, NEW g \in active \ slipped PROVE Attended(g)
      BY Zenon DEF AttendInv, ActiveAttended
  <1>1. Kept(g) \/ Left(g)
        BY Zenon DEF Minded, Tended
  <1> QED  BY Zenon, <1>1
              DEF Kept, Left, Seen, Shows, Watches, Minds, MindingPCs, Attended, HasActiveSandbox,
                  LivePods

(* It holds at the beginning. *)
LEMMA AttendInit == Init => AttendInv
  BY DEF Init, AttendInv, Prepared, Ended, Minded, IdleWorker, IdleEvent

(* A step that spares those who keep g, and engages nobody, leaves it        *)
(* attended to.                                                              *)
LEMMA StaysTended ==
  ASSUME Minded, faults = 0, NEW g \in active,
         \A v \in Watchers : Watches(wt[v], g) => Watches(wt'[v], g),
         \A w \in Workers : Minds(wk[w], g) => Minds(wk'[w], g),
         ~Engaged(g) => ~Engaged(g)',
         ~Engaged(g) /\ Left(g) => Left(g)'
  PROVE  Tended(g)'
  BY Zenon DEF Minded, Tended, Kept

(* A group one of whose goroutines is under way is kept. *)
LEMMA BusyKept ==
  ASSUME Minded, faults = 0, NEW g \in active, Engaged(g)
  PROVE  Kept(g)
  BY Zenon DEF Minded, Tended

(* What is left of g, where it is not touched. *)
LEMMA StaysLeft ==
  ASSUME NEW g, Left(g), activeSandboxes'[g] \in {activeSandboxes[g], None},
         Seen(g) => Seen(g)',
         \A p \in Pods : pods[p].jid = g /\ Shows(p) => pods'[p].jid = g /\ Shows(p)'
  PROVE  Left(g)'
  BY Zenon DEF Left

(* Without a failing call there was none before. *)
LEMMA NoFault == TypeOK /\ Fails => faults' # 0
  BY DEF TypeOK, Fails

(* Untracking leaves a group's entry alone or empties it. *)
LEMMA UntrackEmpties ==
  ASSUME TypeOK, NEW h, Untrack(h), NEW g \in Groups
  PROVE  activeSandboxes'[g] \in {activeSandboxes[g], None}
  BY Zenon DEF TypeOK, Untrack, Track

(* Moving a spawn on. *)
LEMMA GotoMoves ==
  ASSUME TypeOK, NEW w \in Workers, NEW pc, Goto(w, pc)
  PROVE  /\ \A u \in Workers \ {w} : wk'[u] = wk[u]
         /\ wk'[w].jid = wk[w].jid /\ wk'[w].marked = wk[w].marked /\ wk'[w].pc = pc
  <1>1. wk'[w] = [wk[w] EXCEPT !.pc = pc] /\ wk[w] \in WorkerState
        BY Zenon DEF TypeOK, Goto
  <1>2. wk'[w].jid = wk[w].jid /\ wk'[w].marked = wk[w].marked /\ wk'[w].pc = pc
        BY Zenon, <1>1 DEF WorkerState
  <1>3. \A u \in Workers \ {w} : wk'[u] = wk[u]
        BY Zenon DEF TypeOK, Goto
  <1> QED  BY Zenon, <1>2, <1>3

(* A goroutine is started for g (769-814, 1393-1471). *)
Begins(w, g) == wk[w].pc = "idle" /\ wk'[w].pc = "fetch" /\ ~wk'[w].marked /\ wk'[w].jid = g

(* Starting one leaves the others alone. *)
LEMMA StartBegins ==
  ASSUME TypeOK, NEW w \in Workers, NEW g, NEW q, StartWorker(w, g, q)
  PROVE  \A u \in Workers : wk'[u] = wk[u] \/ Begins(u, g)
  BY Zenon DEF StartWorker, Begins, IdleWorker, TypeOK

(* The message loop (622-814): it only starts goroutines for groups that     *)
(* were inactive when it looked.                                             *)
LEMMA PollAttends ==
  ASSUME TypeOK, Placed, AttendInv, PollStep
  PROVE  AttendInv'
  <1> USE DEF cursors, spawnState, world, startup, procs, bounds
  <1>1. /\ UNCHANGED <<pods, events, active, activeSandboxes, boot, slipped, wt, ev>>
        /\ faults' = 0 => faults = 0
        BY Zenon, NoFault DEF PollStep, PollFetch, PollDispatch, PollPipe, PollAdvance, PollClaim, Ok
  <1>2. \A w \in Workers : wk'[w] = wk[w] \/ (poll.pc = "claim" /\ Begins(w, poll.jid))
    <2>1. CASE PollClaim
          BY Zenon, <2>1, StartBegins DEF PollClaim
    <2> QED  BY Zenon, <2>1 DEF PollStep, PollFetch, PollDispatch, PollPipe, PollAdvance
  <1>3. Prepared' /\ Ended'
        BY Zenon, <1>1, <1>2 DEF AttendInv, Prepared, Ended, Begins
  <1>4. poll'.pc = "claim" => poll'.jid \notin active
    <2>1. ASSUME NEW g, DoneWith(g) PROVE poll'.pc # "claim"
          BY Zenon, <2>1 DEF DoneWith, IdlePoll
    <2>2. CASE PollFetch
          BY Zenon, <2>2 DEF PollFetch
    <2>3. CASE PollPipe
          BY Zenon, <2>1, <2>3 DEF PollPipe, TypeOK, PollState
    <2>4. CASE PollAdvance \/ PollClaim
          BY Zenon, <2>1, <2>4 DEF PollAdvance, PollClaim
    <2>5. ASSUME NEW g \in Groups, PollDispatch(g) PROVE poll'.pc = "claim" => poll'.jid \notin active
          BY Zenon, <2>1, <2>5 DEF PollDispatch, TypeOK, PollState
    <2> QED  BY Zenon, <2>2, <2>3, <2>4, <2>5 DEF PollStep
  <1>5. ASSUME faults' = 0, NEW g \in active' PROVE Tended(g)'
    <2>1. g \in active /\ faults = 0 /\ ~(poll'.pc = "claim" /\ poll'.jid = g)
          BY Zenon, <1>1, <1>4, <1>5
    <2>2. \A w \in Workers : Minds(wk[w], g) => Minds(wk'[w], g)
          BY Zenon, <1>2 DEF Begins, Minds, MindingPCs
    <2>3. ~Engaged(g) => ~Engaged(g)'
      <3>1. ASSUME ~Engaged(g), NEW w \in Workers PROVE ~Busy(wk'[w], g)
            BY Zenon, <1>2, <3>1 DEF Begins, Engaged, Busy
      <3> QED  BY Zenon, <1>1, <2>1, <3>1 DEF Engaged
    <2>4. Left(g) => Left(g)'
          BY Zenon, <1>1 DEF Left, Seen, Unreconciled, Shows
    <2> QED  BY Zenon, <1>1, <2>1, <2>2, <2>3, <2>4, StaysTended DEF AttendInv
  <1> QED  BY Zenon, <1>3, <1>5 DEF AttendInv, Minded

(* The spawns: no goroutine but the one that moves changes, and that one     *)
(* stays with its group.                                                     *)
LEMMA SpawnMoves ==
  ASSUME TypeOK, NEW w \in Workers, SpawnStep(w)
  PROVE  /\ \A u \in Workers \ {w} : wk'[u] = wk[u]
         /\ wk'[w].pc = "idle" \/ wk'[w].jid = wk[w].jid
  <1>1. \A u \in Workers \ {w} : wk'[u] = wk[u]
        BY Zenon
           DEF SpawnStep, Fetch, CountActive, Admit, Create, TrackCreated, MarkActive, ReleaseSlot,
               Subscribe, SendInitial, AbortRollback, AbortStreams, AbortStop, AbortPurge,
               AbortUnmark, PanicUnmark, Exit, Goto, TypeOK
  <1>2. wk'[w].pc = "idle" \/ wk'[w].jid = wk[w].jid
    <2>1. ASSUME NEW pc, Goto(w, pc) PROVE wk'[w].jid = wk[w].jid
          BY Zenon, <2>1, GotoMoves
    <2>2. ASSUME NEW n, wk' = [wk EXCEPT ![w].pc = "admit", ![w].count = n]
          PROVE  wk'[w].jid = wk[w].jid
          BY Zenon, <2>2 DEF TypeOK, WorkerState
    <2>3. ASSUME NEW p, wk' = [wk EXCEPT ![w].pc = "track", ![w].pod = p]
          PROVE  wk'[w].jid = wk[w].jid
          BY Zenon, <2>3 DEF TypeOK, WorkerState
    <2>4. ASSUME wk' = [wk EXCEPT ![w].pc = "release", ![w].marked = TRUE]
          PROVE  wk'[w].jid = wk[w].jid
          BY Zenon, <2>4 DEF TypeOK, WorkerState
    <2>5. ASSUME wk' = [wk EXCEPT ![w].pc = "subscribe", ![w].held = FALSE]
          PROVE  wk'[w].jid = wk[w].jid
          BY Zenon, <2>5 DEF TypeOK, WorkerState
    <2>6. ASSUME wk' = [wk EXCEPT ![w].pc = "exit", ![w].spawned = TRUE]
          PROVE  wk'[w].jid = wk[w].jid
          BY Zenon, <2>6 DEF TypeOK, WorkerState
    <2>7. CASE Exit(w)
          BY Zenon, <2>7 DEF Exit, TypeOK, IdleWorker
    <2> QED  BY Zenon, <2>1, <2>2, <2>3, <2>4, <2>5, <2>6, <2>7
                DEF SpawnStep, Fetch, CountActive, Admit, Create, TrackCreated, MarkActive,
                    ReleaseSlot, Subscribe, SendInitial, AbortRollback, AbortStreams, AbortStop,
                    AbortPurge, AbortUnmark, PanicUnmark
  <1> QED  BY Zenon, <1>1, <1>2

(* A spawn that is to mark its group, or has marked it, has a Sandbox to     *)
(* stop when it fails (1053-1061).                                           *)
LEMMA SpawnPrepared ==
  ASSUME TypeOK, Prepared, NEW w \in Workers, SpawnStep(w) \/ Panic(w)
  PROVE  Prepared'
  <1>1. ASSUME NEW pc, pc \notin {"track", "mark"}, Goto(w, pc) PROVE Prepared'
        BY <1>1 DEF Goto, Prepared, TypeOK, WorkerState
  <1>2. CASE Create(w)
    <2>1. ASSUME NEW p \in Pods, wk' = [wk EXCEPT ![w].pc = "track", ![w].pod = p] PROVE Prepared'
          BY <2>1, LifecycleAssumption DEF Prepared, TypeOK, WorkerState, Pods
    <2> QED  BY Zenon, <1>1, <1>2, <2>1 DEF Create
  <1>2a. CASE TrackCreated(w)
    <2>1. wk[w].pod # None /\ Goto(w, "mark")
          BY Zenon, <1>2a DEF TrackCreated, Prepared
    <2> QED  BY <2>1 DEF Goto, Prepared, TypeOK, WorkerState
  <1>3. CASE CountActive(w)
    <2>1. ASSUME NEW n, wk' = [wk EXCEPT ![w].pc = "admit", ![w].count = n] PROVE Prepared'
          BY <2>1 DEF Prepared, TypeOK, WorkerState
    <2> QED  BY Zenon, <1>1, <1>3, <2>1 DEF CountActive
  <1>4. CASE MarkActive(w)
    <2>1. ASSUME wk[w].pc = "mark", wk' = [wk EXCEPT ![w].pc = "release", ![w].marked = TRUE]
          PROVE  Prepared'
          BY Zenon, <2>1 DEF Prepared, TypeOK, WorkerState
    <2> QED  BY Zenon, <1>1, <1>4, <2>1 DEF MarkActive
  <1>5. CASE ReleaseSlot(w)
        BY <1>5 DEF ReleaseSlot, Prepared, TypeOK, WorkerState
  <1>6. CASE SendInitial(w)
    <2>1. ASSUME wk' = [wk EXCEPT ![w].pc = "exit", ![w].spawned = TRUE] PROVE Prepared'
          BY <2>1 DEF Prepared, TypeOK, WorkerState
    <2> QED  BY Zenon, <1>1, <1>6, <2>1 DEF SendInitial
  <1>7. CASE Exit(w)
        BY Zenon, <1>7 DEF Exit, Prepared, TypeOK, IdleWorker
  <1> QED  BY Zenon, <1>1, <1>2, <1>2a, <1>3, <1>4, <1>5, <1>6, <1>7
              DEF SpawnStep, Fetch, Admit, Subscribe, AbortRollback, AbortStreams, AbortStop,
                  AbortPurge, AbortUnmark, PanicUnmark, Panic

(* What a spawn's step can change without a failing call. *)
LEMMA SpawnEffects ==
  ASSUME TypeOK, Placed, NEW w \in Workers, SpawnStep(w)
  PROVE  LET h == wk[w].jid IN
         /\ wk[w].pc # "idle" /\ h \in Groups /\ UNCHANGED <<events, boot, ev, poll>>
         /\ \A v \in Watchers : wt'[v] = wt[v] \/ (wt[v].pc = "idle" /\ wt'[v].jid = h)
         /\ \A g \in Groups \ {h} : /\ g \in active' => g \in active
                                    /\ g \in slipped => g \in slipped'
                                    /\ activeSandboxes'[g] = activeSandboxes[g]
         /\ \A p \in Pods : pods[p].state # "none"
               => /\ pods'[p].jid = pods[p].jid
                  /\ pods[p].state \in {"running", "stopping"} <=> pods'[p].state \in {"running", "stopping"}
                  /\ pods[p].state \in {"done", "deleted"} => pods'[p].state = pods[p].state
  <1> USE DEF cursors, spawnState, world, startup, procs, bounds
  <1> DEFINE h == wk[w].jid
  <1>1. wk[w].pc # "idle"
        BY Zenon
           DEF SpawnStep, Fetch, CountActive, Admit, Create, TrackCreated, MarkActive, ReleaseSlot,
               Subscribe, SendInitial, AbortRollback, AbortStreams, AbortStop, AbortPurge,
               AbortUnmark, PanicUnmark, Exit
  <1>2. h \in Groups
        BY Zenon, <1>1 DEF Placed, WorkerPlaced
  <1>3. /\ UNCHANGED <<events, boot, ev, poll>>
        /\ active' = active \/ active' = active \ {h} \/ active' = active \cup {h}
        /\ slipped' = slipped \/ slipped' = slipped \ {h}
        /\ UNCHANGED activeSandboxes \/ \E p : Track(h, p)
        BY Zenon
           DEF SpawnStep, Fetch, CountActive, Admit, Create, TrackCreated, MarkActive, ReleaseSlot,
               Subscribe, SendInitial, AbortRollback, AbortStreams, AbortStop, AbortPurge,
               AbortUnmark, PanicUnmark, Exit, MarkInactive, Untrack
  <1>4. ASSUME NEW g \in Groups \ {h}
        PROVE  /\ g \in active' => g \in active
               /\ g \in slipped => g \in slipped'
               /\ activeSandboxes'[g] = activeSandboxes[g]
        BY Zenon, <1>2, <1>3, <1>4 DEF Track, TypeOK
  <1>5. \A v \in Watchers : wt'[v] = wt[v] \/ (wt[v].pc = "idle" /\ wt'[v].jid = h)
    <2>1. CASE Subscribe(w)
      <3>1. ASSUME NEW v \in Watchers, wt[v].pc = "idle",
                   wt' = [wt EXCEPT ![v] = [IdleWatcher EXCEPT !.pc = "loop", !.jid = h]]
            PROVE  \A u \in Watchers : wt'[u] = wt[u] \/ (wt[u].pc = "idle" /\ wt'[u].jid = h)
            BY Zenon, <3>1 DEF TypeOK, IdleWatcher
      <3> QED  BY Zenon, <2>1, <3>1 DEF Subscribe
    <2> QED  BY Zenon, <2>1
                DEF SpawnStep, Fetch, CountActive, Admit, Create, TrackCreated, MarkActive,
                    ReleaseSlot, SendInitial, AbortRollback, AbortStreams, AbortStop, AbortPurge,
                    AbortUnmark, PanicUnmark, Exit
  <1>6. ASSUME NEW p \in Pods, pods[p].state # "none"
        PROVE  /\ pods'[p].jid = pods[p].jid
               /\ pods[p].state \in {"running", "stopping"} <=> pods'[p].state \in {"running", "stopping"}
               /\ pods[p].state \in {"done", "deleted"} => pods'[p].state = pods[p].state
    <2>1. ASSUME NEW q \in Pods, FreshPod(q), NewPod(q, h) PROVE pods'[p] = pods[p]
          BY Zenon, <1>6, <2>1 DEF FreshPod, NewPod, TypeOK
    <2>2. CASE AbortStop(w)
          BY <2>2 DEF AbortStop, TypeOK, PodState
    <2>3. CASE ~AbortStop(w)
      <3>1. pods'[p] = pods[p]
            BY Zenon, <2>1, <2>3
               DEF SpawnStep, Fetch, CountActive, Admit, Create, TrackCreated, MarkActive,
                   ReleaseSlot, Subscribe, SendInitial, AbortRollback, AbortStreams, AbortPurge,
                   AbortUnmark, PanicUnmark, Exit
      <3> QED  BY Zenon, <3>1
    <2> QED  BY Zenon, <2>2, <2>3
  <1> QED  BY Zenon, <1>1, <1>2, <1>3, <1>4, <1>5, <1>6

(* A spawn leaves the other groups alone. *)
LEMMA SpawnSpares ==
  ASSUME TypeOK, Placed, AttendInv, NEW w \in Workers, SpawnStep(w), faults = 0,
         NEW g \in active', g \in Groups, g # wk[w].jid
  PROVE  Tended(g)'
  <1> DEFINE h == wk[w].jid
  <1>1. g \in active /\ h # g
        BY Zenon, SpawnEffects
  <1>2. /\ \A v \in Watchers : wt'[v] = wt[v] \/ (wt[v].pc = "idle" /\ wt'[v].jid = h)
        /\ UNCHANGED <<events, boot, ev, poll>>
        BY Zenon, SpawnEffects
  <1>3. \A v \in Watchers : Watches(wt[v], g) => Watches(wt'[v], g)
        BY Zenon, <1>2 DEF Watches
  <1>4. /\ \A u \in Workers \ {w} : wk'[u] = wk[u]
        /\ wk'[w].pc = "idle" \/ wk'[w].jid = h
        BY Zenon, SpawnMoves
  <1>5. \A u \in Workers : Minds(wk[u], g) => Minds(wk'[u], g)
        BY Zenon, <1>4 DEF Minds
  <1>6. ~Engaged(g) => ~Engaged(g)'
    <2>1. \A v \in Watchers : Busy(wt'[v], g) => Busy(wt[v], g)
          BY Zenon, <1>1, <1>2 DEF Busy
    <2>2. \A u \in Workers : Busy(wk'[u], g) => Busy(wk[u], g)
          BY Zenon, <1>1, <1>4 DEF Busy
    <2> QED  BY Zenon, <1>2, <2>1, <2>2 DEF Engaged
  <1>7. Left(g) => Left(g)'
    <2>1. activeSandboxes'[g] = activeSandboxes[g] /\ (g \in slipped => g \in slipped')
          BY Zenon, SpawnEffects
    <2>2. Seen(g) => Seen(g)'
          BY Zenon, <1>2, <2>1 DEF Seen, Unreconciled
    <2>3. ASSUME NEW p \in Pods, pods[p].jid = g, Shows(p) PROVE pods'[p].jid = g /\ Shows(p)'
      <3>1. pods[p].state # "none"
            BY Zenon, <2>3 DEF Shows, AttendInv, Ended
      <3> QED  BY Zenon, <1>2, <2>3, <3>1, SpawnEffects DEF Shows
    <2> QED  BY Zenon, <2>1, <2>2, <2>3, StaysLeft
  <1> QED  BY Zenon, <1>1, <1>3, <1>5, <1>6, <1>7, StaysTended DEF AttendInv

(* A spawn and its cleanups (950-1122), seen from its own group: it was kept *)
(* before, and the one who keeps it is another goroutine or goes on doing    *)
(* so, hands over to its watcher, or has marked it inactive.                 *)
LEMMA SpawnKeeps ==
  ASSUME TypeOK, Placed, AttendInv, NEW w \in Workers, SpawnStep(w), faults = 0, ~Fails,
         NEW g \in active', wk[w].jid = g
  PROVE  Kept(g)'
  <1> USE DEF cursors, spawnState, world, startup, procs, bounds
  <1>1. \A u \in Workers \ {w} : wk'[u] = wk[u]
        BY Zenon, SpawnMoves
  <1>2. \A v \in Watchers : Watches(wt[v], g) => Watches(wt'[v], g)
    <2>1. \A v \in Watchers : wt'[v] = wt[v] \/ wt[v].pc = "idle"
          BY Zenon, SpawnEffects
    <2> QED  BY Zenon, <2>1 DEF Watches
  <1>3. ASSUME g \in active, Minds(wk[w], g) => Minds(wk'[w], g) PROVE Kept(g)'
    <2>1. Busy(wk[w], g)
          BY Zenon, SpawnEffects DEF Busy
    <2>2. Kept(g)
          BY Zenon, <1>3, <2>1, BusyKept DEF AttendInv, Engaged
    <2> QED  BY Zenon, <1>1, <1>2, <1>3, <2>2 DEF Kept
  <1>4. wk[w].pc \notin MindingPCs => ~Minds(wk[w], g)
        BY Zenon DEF Minds
  <1>5. CASE Fetch(w) \/ CountActive(w) \/ Admit(w) \/ Create(w) \/ TrackCreated(w) \/ SendInitial(w)
             \/ AbortStreams(w) \/ Exit(w)
        BY Zenon, <1>3, <1>4, <1>5
           DEF Fetch, CountActive, Admit, Create, TrackCreated, SendInitial, AbortStreams, Exit,
               MindingPCs
  <1>6. CASE MarkActive(w)
    <2>1. wk' = [wk EXCEPT ![w].pc = "release", ![w].marked = TRUE]
          BY Zenon, <1>6 DEF MarkActive
    <2>2. Minds(wk'[w], g)
          BY Zenon, <2>1 DEF TypeOK, WorkerState, Minds, MindingPCs
    <2> QED  BY Zenon, <2>2 DEF Kept
  <1>7. CASE ReleaseSlot(w)
    <2>1. Minds(wk[w], g) => Minds(wk'[w], g)
          BY Zenon, <1>7 DEF ReleaseSlot, TypeOK, WorkerState, Minds, MindingPCs
    <2> QED  BY Zenon, <1>3, <1>7, <2>1 DEF ReleaseSlot
  <1>8. ASSUME NEW pc \in MindingPCs, Goto(w, pc) PROVE Minds(wk[w], g) => Minds(wk'[w], g)
        BY Zenon, <1>8, GotoMoves DEF Minds
  <1>9. CASE Subscribe(w)
    <2>1. CASE Goto(w, "rollback") /\ UNCHANGED wt
          BY Zenon, <1>3, <1>8, <1>9, <2>1 DEF Subscribe, MindingPCs
    <2>2. ASSUME NEW v \in Watchers,
                 wt' = [wt EXCEPT ![v] = [IdleWatcher EXCEPT !.pc = "loop", !.jid = wk[w].jid]]
          PROVE  Kept(g)'
      <3>1. Watches(wt'[v], g)
            BY Zenon, <2>2 DEF TypeOK, IdleWatcher, Watches
      <3> QED  BY Zenon, <3>1 DEF Kept
    <2> QED  BY Zenon, <1>9, <2>1, <2>2 DEF Subscribe
  <1>10. CASE AbortRollback(w)
    <2>1. Minds(wk[w], g) => Goto(w, "stop")
          BY Zenon, <1>10 DEF AbortRollback, Minds, AttendInv, Prepared
    <2> QED  BY Zenon, <1>3, <1>8, <1>10, <2>1 DEF AbortRollback, MindingPCs
  <1>11. CASE AbortStop(w)
        BY Zenon, <1>3, <1>8, <1>11 DEF AbortStop, MindingPCs
  <1>12. CASE AbortPurge(w)
    <2>1. Minds(wk[w], g) => Goto(w, "unmark")
          BY Zenon, <1>12 DEF AbortPurge, Minds
    <2> QED  BY Zenon, <1>3, <1>8, <1>12, <2>1 DEF AbortPurge, MindingPCs
  <1>13. CASE AbortUnmark(w) \/ PanicUnmark(w)
        BY Zenon, <1>13 DEF AbortUnmark, PanicUnmark, MarkInactive
  <1> QED  BY Zenon, <1>5, <1>6, <1>7, <1>9, <1>10, <1>11, <1>12, <1>13 DEF SpawnStep

(* The steps of processGroupMessages, spawnAgent and their panics. *)
LEMMA SpawnAttends ==
  ASSUME TypeOK, TypeOK', Placed, AttendInv, NEW w \in Workers, SpawnStep(w) \/ Panic(w)
  PROVE  AttendInv'
  <1> USE DEF cursors, spawnState, world, startup, procs, bounds
  <1>1. Prepared'
        BY Zenon, SpawnPrepared DEF AttendInv
  <1>2. CASE Panic(w)
    <2>1. UNCHANGED <<pods, events, ev>> /\ faults' # 0
          BY Zenon, <1>2, NoFault DEF Panic
    <2> QED  BY Zenon, <1>1, <2>1 DEF AttendInv, Ended, Minded
  <1>3. CASE SpawnStep(w)
    <2>1. Ended'
          BY Zenon, <1>3, SpawnEffects DEF AttendInv, Ended, TypeOK
    <2>2. ASSUME faults' = 0, NEW g \in active' PROVE Tended(g)'
      <3>1. ~Fails
            BY Zenon, <2>2, NoFault
      <3>2. faults = 0
            BY Zenon, <1>3, <2>2, <3>1
               DEF SpawnStep, Fetch, CountActive, Admit, Create, TrackCreated, MarkActive,
                   ReleaseSlot, Subscribe, SendInitial, AbortRollback, AbortStreams, AbortStop,
                   AbortPurge, AbortUnmark, PanicUnmark, MarkInactive, Exit, Ok
      <3>3. g \in Groups
            BY Zenon, <2>2 DEF TypeOK
      <3>4. CASE g = wk[w].jid
            BY Zenon, <1>3, <2>2, <3>1, <3>2, <3>4, SpawnKeeps DEF Tended
      <3>5. CASE g # wk[w].jid
            BY Zenon, <1>3, <2>2, <3>2, <3>3, <3>5, SpawnSpares
      <3> QED  BY Zenon, <3>4, <3>5
    <2> QED  BY Zenon, <1>1, <2>1, <2>2 DEF AttendInv, Minded
  <1> QED  BY Zenon, <1>2, <1>3

(* The watchers (1282-1471, 1473-1591): a watcher ends when its group is     *)
(* inactive, and another one's tracked sandbox it leaves alone.              *)
LEMMA WatchAttends ==
  ASSUME TypeOK, Placed, AttendInv, NEW v \in Watchers, WatchStep(v) \/ Hear(v) \/ GiveUp(v)
  PROVE  AttendInv'
  <1> USE DEF cursors, spawnState, world, startup, procs, bounds
  <1> DEFINE h == wt[v].jid
  <1>1. /\ UNCHANGED <<pods, events, boot, slipped, poll, ev>> /\ wt[v].pc # "idle"
        /\ active' = active \/ active' = active \ {h}
        /\ faults' = 0 => faults = 0 /\ ~Fails
        BY Zenon, NoFault
           DEF WatchStep, Hear, GiveUp, ReceiveShutdown, LivenessTick, DeactivateCheck,
               DeactivateMark, DeactivateRollback, DeactivatePending, DeactivateRecover, Ok
  <1>2. \A w \in Workers : wk'[w] = wk[w] \/ Begins(w, h)
    <2>1. CASE DeactivateRecover(v)
          BY Zenon, <2>1, StartBegins DEF DeactivateRecover
    <2> QED  BY Zenon, <2>1
                DEF WatchStep, Hear, GiveUp, ReceiveShutdown, LivenessTick, DeactivateCheck,
                    DeactivateMark, DeactivateRollback, DeactivatePending
  <1>3. Prepared' /\ Ended'
        BY Zenon, <1>1, <1>2 DEF AttendInv, Prepared, Ended, Begins
  <1>4. /\ \A u \in Watchers \ {v} : wt'[u] = wt[u]
        /\ wt'[v].pc = "idle" \/ wt'[v].jid = h
    <2>1. ASSUME NEW pc, WatchGoto(v, pc)
          PROVE  wt'[v].jid = h /\ \A u \in Watchers \ {v} : wt'[u] = wt[u]
          BY Zenon, <2>1 DEF WatchGoto, TypeOK, WatcherState
    <2>2. WatchEnds(v) => wt'[v].pc = "idle" /\ \A u \in Watchers \ {v} : wt'[u] = wt[u]
          BY Zenon, IdleType DEF WatchEnds, TypeOK
    <2>3. CASE Hear(v)
          BY Zenon, <2>3 DEF Hear, TypeOK, WatcherState
    <2>4. ASSUME NEW q, wt' = [wt EXCEPT ![v].pc = "claim", ![v].qmsg = q]
          PROVE  wt'[v].jid = h /\ \A u \in Watchers \ {v} : wt'[u] = wt[u]
          BY Zenon, <2>4 DEF TypeOK, WatcherState
    <2> QED  BY Zenon, <2>1, <2>2, <2>3, <2>4
                DEF WatchStep, GiveUp, ReceiveShutdown, LivenessTick, DeactivateCheck,
                    DeactivateMark, DeactivateRollback, DeactivatePending, DeactivateRecover
  <1>5. ASSUME h \in active', faults' = 0 PROVE Watches(wt[v], h) => Watches(wt'[v], h)
    <2>1. ASSUME NEW pc \in {"loop", "isactive", "mark"}, WatchGoto(v, pc) PROVE Watches(wt'[v], h)
          BY Zenon, <2>1 DEF WatchGoto, TypeOK, WatcherState, Watches
    <2>2. CASE Hear(v)
          BY Zenon, <2>2 DEF Hear, TypeOK, WatcherState, Watches
    <2>3. CASE ReceiveShutdown(v) \/ GiveUp(v) \/ LivenessTick(v)
          BY Zenon, <2>1, <2>3 DEF ReceiveShutdown, GiveUp, LivenessTick
    <2>4. CASE DeactivateCheck(v)
          BY Zenon, <1>1, <1>5, <2>1, <2>4 DEF DeactivateCheck
    <2>5. CASE DeactivateMark(v)
          BY Zenon, <1>1, <1>5, <2>5 DEF DeactivateMark
    <2>6. CASE DeactivateRollback(v) \/ DeactivatePending(v) \/ DeactivateRecover(v)
          BY Zenon, <2>6 DEF DeactivateRollback, DeactivatePending, DeactivateRecover, Watches
    <2> QED  BY Zenon, <2>2, <2>3, <2>4, <2>5, <2>6 DEF WatchStep
  <1>6. ASSUME faults' = 0, NEW g \in active' PROVE Tended(g)'
    <2>1. g \in active /\ g \in Groups /\ faults = 0
          BY Zenon, <1>1, <1>6 DEF TypeOK
    <2>2. \A w \in Workers : Minds(wk[w], g) => Minds(wk'[w], g)
          BY Zenon, <1>2 DEF Begins, Minds, MindingPCs
    <2>3. \A u \in Watchers : Watches(wt[u], g) => Watches(wt'[u], g)
          BY Zenon, <1>4, <1>5, <1>6 DEF Watches
    <2>4. ~Engaged(g) => h # g
          BY Zenon, <1>1 DEF Engaged, Busy
    <2>5. ~Engaged(g) => ~Engaged(g)'
      <3>1. h # g => \A u \in Watchers : Busy(wt'[u], g) => Busy(wt[u], g)
            BY Zenon, <1>4 DEF Busy
      <3>2. h # g => \A w \in Workers : Busy(wk'[w], g) => Busy(wk[w], g)
            BY Zenon, <1>2 DEF Begins, Busy
      <3> QED  BY Zenon, <1>1, <2>4, <3>1, <3>2 DEF Engaged
    <2>6. Left(g) => Left(g)'
      <3>1. UNCHANGED activeSandboxes \/ Untrack(h)
            BY Zenon
               DEF WatchStep, Hear, GiveUp, ReceiveShutdown, LivenessTick, DeactivateCheck,
                   DeactivateMark, DeactivateRollback, DeactivatePending, DeactivateRecover
      <3>2. activeSandboxes'[g] \in {activeSandboxes[g], None}
            BY Zenon, <2>1, <3>1, UntrackEmpties
      <3> QED  BY Zenon, <1>1, <3>2, StaysLeft DEF Seen, Unreconciled, Shows
    <2> QED  BY Zenon, <2>1, <2>2, <2>3, <2>5, <2>6, StaysTended DEF AttendInv
  <1> QED  BY Zenon, <1>3, <1>6 DEF AttendInv, Minded

(* The sandbox events (1186-1277), and the watch. *)
LEMMA EventAttends ==
  ASSUME TypeOK, Placed, AttendInv, EventStep \/ WatchOpen \/ WatchCloses
  PROVE  AttendInv'
  <1> USE DEF cursors, spawnState, world, startup, procs, bounds
  <1>1. /\ UNCHANGED <<pods, boot, slipped, poll, wk, wt>> /\ events' \subseteq events
        /\ active' \subseteq active
        /\ faults' = 0 => faults = 0 /\ ~Fails
        BY Zenon, NoFault
           DEF EventStep, EventRead, EventCheck, EventClear, EventUnmark, MarkInactive, WatchOpen,
               WatchCloses, Ok
  <1>2. ev'.pc = "idle" => ev'.jid = None
    <2>1. CASE ev' = IdleEvent
          BY Zenon, <2>1 DEF IdleEvent
    <2>2. ASSUME NEW p, ev' = [pc |-> "isactive", jid |-> pods[p].jid, pod |-> p]
          PROVE  ev'.pc # "idle"
          BY Zenon, <2>2
    <2>3. ASSUME NEW pc, pc # "idle", ev' = [ev EXCEPT !.pc = pc] PROVE ev'.pc # "idle"
          BY Zenon, <2>3 DEF TypeOK, EventState
    <2>4. CASE ev' = ev
          BY Zenon, <2>4 DEF AttendInv, Ended
    <2> QED  BY Zenon, <2>1, <2>2, <2>3, <2>4
                DEF EventStep, EventRead, EventCheck, EventClear, EventUnmark, WatchOpen, WatchCloses
  <1>3. Prepared' /\ Ended'
        BY Zenon, <1>1, <1>2 DEF AttendInv, Prepared, Ended
  <1>4. ASSUME faults' = 0, NEW g \in active' PROVE Tended(g)'
    <2>0. g \in active /\ g \in Groups /\ faults = 0 /\ g # None
          BY Zenon, <1>1, <1>4, LifecycleAssumption DEF TypeOK
    <2>1. ASSUME Left(g) => Left(g)' PROVE Tended(g)'
          BY Zenon, <1>1, <2>0, <2>1, StaysTended DEF AttendInv, Engaged
    <2>2. ASSUME UNCHANGED events, ev.jid = g => ev'.jid = g,
                 activeSandboxes'[g] \in {activeSandboxes[g], None}
          PROVE  Tended(g)'
      <3>1. Left(g) => Left(g)'
            BY Zenon, <1>1, <2>2, StaysLeft DEF Seen, Unreconciled, Shows
      <3> QED  BY Zenon, <2>1, <3>1
    <2>3. ASSUME NEW p \in events, EventRead(p) PROVE Tended(g)'
      <3>1. ev.jid # g /\ UNCHANGED activeSandboxes /\ events' = events \ {p}
            BY Zenon, <2>0, <2>3 DEF EventRead, AttendInv, Ended
      <3>2. CASE pods[p].jid # g
        <4>1. Left(g) => Left(g)'
              BY Zenon, <1>1, <3>1, <3>2, StaysLeft DEF Seen, Unreconciled, Shows
        <4> QED  BY Zenon, <2>1, <4>1
      <3>3. CASE pods[p].jid = g
        <4>1. ASSUME Left(g) PROVE Left(g)'
          <5>1. ev' = [pc |-> "isactive", jid |-> pods[p].jid, pod |-> p]
                BY Zenon, <2>3, <3>3, <4>1 DEF EventRead, StaleEvent, Left
          <5>2. ev'.jid = g
                BY Zenon, <3>3, <5>1
          <5> QED  BY Zenon, <3>1, <4>1, <5>2 DEF Left, Seen
        <4> QED  BY Zenon, <2>1, <4>1
      <3> QED  BY Zenon, <3>2, <3>3
    <2>4. ASSUME NEW pc, ev' = [ev EXCEPT !.pc = pc] PROVE ev'.jid = ev.jid
          BY Zenon, <2>4 DEF TypeOK, EventState
    <2>5. CASE EventCheck
          BY Zenon, <1>1, <1>4, <2>2, <2>4, <2>5 DEF EventCheck
    <2>6. CASE EventClear
      <3>1. ev'.jid = ev.jid /\ activeSandboxes'[g] \in {activeSandboxes[g], None}
            BY Zenon, <2>0, <2>4, <2>6, UntrackEmpties DEF EventClear
      <3> QED  BY Zenon, <2>2, <2>6, <3>1 DEF EventClear
    <2>7. CASE EventUnmark
          BY Zenon, <1>1, <1>4, <2>2, <2>7 DEF EventUnmark, MarkInactive
    <2>8. CASE WatchOpen \/ WatchCloses
          BY Zenon, <2>2, <2>8 DEF WatchOpen, WatchCloses
    <2> QED  BY Zenon, <2>3, <2>5, <2>6, <2>7, <2>8 DEF EventStep
  <1> QED  BY Zenon, <1>3, <1>4 DEF AttendInv, Minded

(* The end of a Sandbox is an event, or it has slipped through. *)
LEMMA ReportAttends ==
  ASSUME TypeOK, AttendInv, NEW p \in Pods, NEW s \in {"done", "deleted"},
         pods' = [pods EXCEPT ![p].state = s], Report(p),
         UNCHANGED <<active, activeSandboxes, boot, poll, wk, wt, ev, faults>>
  PROVE  AttendInv'
  <1>1. \A q \in Pods : /\ pods'[q].jid = pods[q].jid
                        /\ pods'[q].state = IF q = p THEN s ELSE pods[q].state
        BY Zenon DEF TypeOK, PodState
  <1>2. events \subseteq events' /\ events' \subseteq events \cup {p}
        BY Zenon DEF Report
  <1>3. Prepared' /\ Ended'
        BY Zenon, <1>1, <1>2 DEF AttendInv, Prepared, Ended, TypeOK
  <1>4. ASSUME faults = 0, NEW g \in active, Left(g) PROVE Left(g)'
    <2>1. CASE pods[p].jid # g
      <3>1. g \in slipped => g \in slipped'
            BY Zenon, <2>1 DEF Report
      <3>2. Seen(g) => Seen(g)'
            BY Zenon, <3>1 DEF Seen, Unreconciled
      <3>3. \A q \in Pods : pods[q].jid = g /\ Shows(q) => pods'[q].jid = g /\ Shows(q)'
            BY Zenon, <1>1, <1>2, <2>1 DEF Shows
      <3> QED  BY Zenon, <1>4, <3>2, <3>3, StaysLeft
    <2>2. CASE pods[p].jid = g /\ p \in events'
          BY Zenon, <1>1, <1>4, <2>2 DEF Left, Shows
    <2>3. CASE pods[p].jid = g /\ p \notin events'
      <3>1. Unreconciled(g) \/ g \in slipped'
            BY Zenon, <2>3 DEF Report
      <3> QED  BY Zenon, <1>4, <3>1 DEF Left, Seen, Unreconciled
    <2> QED  BY Zenon, <2>1, <2>2, <2>3
  <1>5. ASSUME faults = 0, NEW g \in active PROVE Tended(g)'
        BY Zenon, <1>4, <1>5, StaysTended DEF AttendInv, Engaged
  <1> QED  BY Zenon, <1>3, <1>5 DEF AttendInv, Minded

(* The ends of agents, and what goes on outside. *)
LEMMA EnvironmentAttends ==
  ASSUME TypeOK, Placed, AttendInv, Environment
  PROVE  AttendInv'
  <1> USE DEF cursors, spawnState, world, startup, procs, bounds
  <1>1. CASE \E g \in Groups : StoreMessage(g) \/ ExecuteTask(g)
    <2>1. /\ UNCHANGED <<active, activeSandboxes, pods, events, boot, slipped, poll, wk, wt, ev>>
          /\ faults' = 0 => faults = 0
          BY Zenon, <1>1, NoFault DEF StoreMessage, ExecuteTask, Ok
    <2> QED  BY Zenon, <2>1
                DEF AttendInv, Prepared, Ended, Minded, Tended, Kept, Engaged, Left, Seen,
                    Unreconciled, Shows
  <1>2. ASSUME NEW p \in Pods, AgentEnds(p) PROVE AttendInv'
    <2>1. PICK s \in {"done", "deleted"} : pods' = [pods EXCEPT ![p].state = s]
          BY Zenon, <1>2 DEF AgentEnds
    <2> QED  BY Zenon, <1>2, <2>1, ReportAttends DEF AgentEnds
  <1>3. ASSUME NEW p \in Pods, CleanupOrphan(p) PROVE AttendInv'
        BY Zenon, <1>3, ReportAttends DEF CleanupOrphan
  <1>4. ASSUME NEW p \in Pods, EventLost(p) PROVE AttendInv'
    <2>1. UNCHANGED <<pods, wk, ev>> /\ events' \subseteq events /\ faults' # 0
          BY Zenon, <1>4, NoFault DEF EventLost
    <2> QED  BY Zenon, <2>1 DEF AttendInv, Prepared, Ended, Minded
  <1> QED  BY Zenon, <1>1, <1>2, <1>3, <1>4 DEF Environment

(* The crash leaves the active groups to reconcileActiveSet, with nobody     *)
(* engaged and nothing tracked.                                              *)
LEMMA CrashAttends ==
  ASSUME TypeOK, Crash
  PROVE  AttendInv'
  <1>1. Prepared'
        BY Zenon DEF Crash, Prepared, IdleWorker
  <1>2. Ended'
    <2>1. ev'.jid = None
          BY Zenon DEF Crash, IdleEvent
    <2> QED  BY Zenon, <2>1 DEF Crash, Ended
  <1>3. ASSUME NEW g \in active' PROVE Tended(g)'
    <2>1. ~Engaged(g)'
          BY Zenon DEF Crash, Engaged, Busy, IdleWorker, IdleWatcher, IdlePoll
    <2>2. activeSandboxes'[g] = None
          BY Zenon, <1>3 DEF Crash, TypeOK
    <2>3. Unreconciled(g)'
          BY Zenon DEF Crash, Unreconciled
    <2> QED  BY Zenon, <2>1, <2>2, <2>3 DEF Tended, Left, Seen
  <1> QED  BY Zenon, <1>1, <1>2, <1>3 DEF AttendInv, Minded

(* reconcileActiveSet (1808-1878) looks at the groups that were active when  *)
(* it listed them, and leaves active those that have a Sandbox.              *)
LEMMA BootAttends ==
  ASSUME TypeOK, Placed, AttendInv, BootStep
  PROVE  AttendInv'
  <1> USE DEF cursors, spawnState, world, startup, procs, bounds
  <1>1. /\ UNCHANGED <<activeSandboxes, events, slipped, poll, wk, wt, ev>> /\ active' \subseteq active
        /\ faults' = 0 => faults = 0 /\ ~Fails
        BY Zenon, NoFault DEF BootStep, BootClean, BootReconcile, RecoverPending, Ok
  <1>2. \A p \in Pods : /\ pods'[p].jid = pods[p].jid
                        /\ pods[p].state # "done" => pods'[p].state = pods[p].state
                        /\ pods'[p].state \in {pods[p].state, "deleted"}
    <2>1. CASE BootClean
          BY <2>1 DEF BootClean, TypeOK, PodState
    <2> QED  BY Zenon, <2>1 DEF BootStep, BootReconcile, RecoverPending
  <1>3. Prepared' /\ Ended'
        BY Zenon, <1>1, <1>2 DEF AttendInv, Prepared, Ended, TypeOK
  <1>4. ASSUME faults' = 0, NEW g \in active', Left(g) PROVE Left(g)'
    <2>1. \A p \in Pods : pods[p].jid = g /\ Shows(p) => pods'[p].jid = g /\ Shows(p)'
          BY Zenon, <1>1, <1>2 DEF Shows
    <2>2. CASE Unreconciled(g) => Unreconciled(g)'
          BY Zenon, <1>1, <1>4, <2>1, <2>2, StaysLeft DEF Seen
    <2>3. CASE BootClean
      <3>1. Reconcile(active)
            BY Zenon, <1>1, <1>4, <2>3 DEF BootClean
      <3>2. g \in boot'.todo
            BY Zenon, <1>1, <1>4, <3>1 DEF Reconcile
      <3> QED  BY Zenon, <2>2, <3>2 DEF Unreconciled
    <2>4. ASSUME NEW h \in Groups, BootReconcile(h) PROVE Left(g)'
      <3>1. boot.pc # "clean" /\ boot'.todo = boot.todo \ {h}
            BY Zenon, <2>4 DEF BootReconcile, Reconcile
      <3>2. CASE g # h
            BY Zenon, <2>2, <3>1, <3>2 DEF Unreconciled
      <3>3. CASE g = h
        <4>1. HasActiveSandbox(g)
              BY Zenon, <1>1, <1>4, <2>4, <3>3 DEF BootReconcile
        <4>2. \E p \in Pods : pods[p].jid = g /\ Shows(p)
              BY Zenon, <4>1 DEF HasActiveSandbox, LivePods, Shows
        <4> QED  BY Zenon, <1>1, <1>4, <2>1, <4>2 DEF Left
      <3> QED  BY Zenon, <3>2, <3>3
    <2>5. CASE RecoverPending
      <3>1. boot.pc # "clean" /\ boot'.todo = boot.todo
            BY Zenon, <2>5 DEF RecoverPending, TypeOK, BootState
      <3> QED  BY Zenon, <2>2, <3>1 DEF Unreconciled
    <2> QED  BY Zenon, <2>3, <2>4, <2>5 DEF BootStep
  <1>5. ASSUME faults' = 0, NEW g \in active' PROVE Tended(g)'
        BY Zenon, <1>1, <1>4, <1>5, StaysTended DEF AttendInv, Engaged
  <1> QED  BY Zenon, <1>3, <1>5 DEF AttendInv, Minded

(* Every step keeps the active groups attended to. *)
LEMMA StepAttends == TypeOK /\ TypeOK' /\ Placed /\ AttendInv /\ [Next]_vars => AttendInv'
  <1> SUFFICES ASSUME TypeOK, TypeOK', Placed, AttendInv, [Next]_vars PROVE AttendInv'
      BY Zenon
  <1>1. CASE UNCHANGED vars
        BY Zenon, <1>1
           DEF vars, cursors, spawnState, world, startup, procs, bounds, AttendInv, Prepared, Ended,
               Minded, Tended, Kept, Engaged, Left, Seen, Unreconciled, Shows
  <1>2. CASE Next
        BY Zenon, <1>2, PollAttends, SpawnAttends, WatchAttends, EventAttends, EnvironmentAttends,
           BootAttends, CrashAttends DEF Next, Steps
  <1> QED  BY Zenon, <1>1, <1>2

-----------------------------------------------------------------------------
(* SandboxLifecycle implements Admission.  The refinement mapping reads a group's
   phase off the goroutine that holds its slot, so the proof rests on
   SlotExclusion: there is exactly one. *)

(* The mapping as a function of the goroutines K and the slots I, to speak   *)
(* of it before and after a step.                                            *)
HoldersOf(K) == {w \in Workers : K[w].held}
HolderOf(K, g) == CHOOSE w \in HoldersOf(K) : K[w].jid = g
PhaseIn(K, I) == [g \in Groups |-> IF g \in I THEN PhaseOf(K[HolderOf(K, g)].pc) ELSE "none"]
SeenIn(K, I) == [g \in Groups |-> IF g \in I /\ K[HolderOf(K, g)].pc = "admit"
                                  THEN K[HolderOf(K, g)].count ELSE 0]
Excl(K, I) ==
  /\ I = {K[w].jid : w \in HoldersOf(K)}
  /\ \A w1, w2 \in HoldersOf(K) : K[w1].jid = K[w2].jid => w1 = w2

(* It is the mapping of SandboxLifecycle. *)
LEMMA MappingIs ==
  /\ phase = PhaseIn(wk, inflight) /\ seen = SeenIn(wk, inflight)
  /\ SlotExclusion <=> Excl(wk, inflight)
  BY Zenon DEF phase, seen, PhaseIn, SeenIn, SlotExclusion, Excl, Holder, HolderOf, Holders, HoldersOf

(* And so after a step. *)
LEMMA MappingIsNext ==
  /\ phase' = PhaseIn(wk', inflight') /\ seen' = SeenIn(wk', inflight')
  /\ SlotExclusion' <=> Excl(wk', inflight')
  BY Zenon DEF phase, seen, PhaseIn, SeenIn, SlotExclusion, Excl, Holder, HolderOf, Holders, HoldersOf

(* The goroutine that holds the slot of a group decides its phase. *)
LEMMA HolderDecides ==
  ASSUME NEW K, NEW I, Excl(K, I), NEW w \in Workers, K[w].held, K[w].jid \in Groups
  PROVE  /\ K[w].jid \in I
         /\ PhaseIn(K, I)[K[w].jid] = PhaseOf(K[w].pc)
         /\ SeenIn(K, I)[K[w].jid] = IF K[w].pc = "admit" THEN K[w].count ELSE 0
  <1>1. w \in HoldersOf(K)
        BY Zenon DEF HoldersOf
  <1>2. HolderOf(K, K[w].jid) = w
    <2>1. /\ HolderOf(K, K[w].jid) \in HoldersOf(K)
          /\ K[HolderOf(K, K[w].jid)].jid = K[w].jid
          BY Zenon, <1>1 DEF HolderOf
    <2> QED  BY Zenon, <1>1, <2>1 DEF Excl
  <1>3. K[w].jid \in I
        BY Zenon, <1>1 DEF Excl
  <1> QED  BY Zenon, <1>2, <1>3 DEF PhaseIn, SeenIn

(* A group keeps its phase when its slot and its holder stay as they are. *)
LEMMA Unaffected ==
  ASSUME NEW K, NEW I, NEW L, NEW J, Excl(K, I), Excl(L, J), NEW h \in Groups,
         h \in I <=> h \in J, \A x \in Workers : K[x].held /\ K[x].jid = h => L[x] = K[x]
  PROVE  PhaseIn(L, J)[h] = PhaseIn(K, I)[h] /\ SeenIn(L, J)[h] = SeenIn(K, I)[h]
  <1>1. CASE h \notin I
        BY Zenon, <1>1 DEF PhaseIn, SeenIn
  <1>2. CASE h \in I
    <2>1. PICK x \in Workers : K[x].held /\ K[x].jid = h
          BY Zenon, <1>2 DEF Excl, HoldersOf
    <2>2. L[x] = K[x]
          BY Zenon, <2>1
    <2>3. /\ PhaseIn(K, I)[h] = PhaseOf(K[x].pc)
          /\ SeenIn(K, I)[h] = IF K[x].pc = "admit" THEN K[x].count ELSE 0
          BY <2>1, HolderDecides
    <2>4. L[x].held /\ L[x].jid = h
          BY Zenon, <2>1, <2>2
    <2>5. /\ PhaseIn(L, J)[h] = PhaseOf(L[x].pc)
          /\ SeenIn(L, J)[h] = IF L[x].pc = "admit" THEN L[x].count ELSE 0
          BY <2>4, HolderDecides
    <2> QED  BY Zenon, <2>2, <2>3, <2>5
  <1> QED  BY Zenon, <1>1, <1>2

(* The mapped state is a function on the groups. *)
LEMMA MappedFunctions ==
  ASSUME NEW K, NEW I
  PROVE  /\ PhaseIn(K, I) = [g \in Groups |-> PhaseIn(K, I)[g]]
         /\ SeenIn(K, I) = [g \in Groups |-> SeenIn(K, I)[g]]
  BY Zenon DEF PhaseIn, SeenIn

(* Steps that concern no holder: a stutter of the protocol but for active. *)
LEMMA NoHolder ==
  ASSUME SlotExclusion, SlotExclusion', inflight' = inflight,
         \A x \in Workers : wk[x].held => wk'[x] = wk[x]
  PROVE  phase' = phase /\ seen' = seen
  <1>1. Excl(wk, inflight) /\ Excl(wk', inflight')
        BY Zenon, MappingIs, MappingIsNext
  <1>2. \A h \in Groups : /\ PhaseIn(wk', inflight')[h] = PhaseIn(wk, inflight)[h]
                          /\ SeenIn(wk', inflight')[h] = SeenIn(wk, inflight)[h]
        BY <1>1, Unaffected
  <1>3. PhaseIn(wk', inflight') = PhaseIn(wk, inflight)
        BY <1>2, MappedFunctions
  <1>4. SeenIn(wk', inflight') = SeenIn(wk, inflight)
        BY <1>2, MappedFunctions
  <1> QED  BY Zenon, <1>3, <1>4, MappingIs, MappingIsNext

(* Steps of one goroutine w for the group g: the others keep their phases. *)
LEMMA OneHolder ==
  ASSUME SlotExclusion, SlotExclusion', NEW w \in Workers, NEW g \in Groups,
         \A x \in Workers \ {w} : wk'[x] = wk[x],
         wk[w].held => wk[w].jid = g,
         \A h \in Groups \ {g} : h \in inflight' <=> h \in inflight
  PROVE  /\ phase' = [phase EXCEPT ![g] = phase'[g]]
         /\ seen' = [seen EXCEPT ![g] = seen'[g]]
  <1>1. Excl(wk, inflight) /\ Excl(wk', inflight')
        BY Zenon, MappingIs, MappingIsNext
  <1>2. ASSUME NEW h \in Groups \ {g}
        PROVE  /\ PhaseIn(wk', inflight')[h] = PhaseIn(wk, inflight)[h]
               /\ SeenIn(wk', inflight')[h] = SeenIn(wk, inflight)[h]
    <2>1. \A x \in Workers : wk[x].held /\ wk[x].jid = h => wk'[x] = wk[x]
          BY Zenon, <1>2
    <2> QED  BY <1>1, <1>2, <2>1, Unaffected
  <1>3. PhaseIn(wk', inflight') = [PhaseIn(wk, inflight) EXCEPT ![g] = PhaseIn(wk', inflight')[g]]
        BY <1>2, MappedFunctions
  <1>4. SeenIn(wk', inflight') = [SeenIn(wk, inflight) EXCEPT ![g] = SeenIn(wk', inflight')[g]]
        BY <1>2, MappedFunctions
  <1> QED  BY Zenon, <1>3, <1>4, MappingIs, MappingIsNext

(* What the mapping says of a holder before and after a step. *)
LEMMA HolderNow ==
  ASSUME SlotExclusion, NEW w \in Workers, wk[w].held, wk[w].jid \in Groups
  PROVE  /\ wk[w].jid \in inflight /\ phase[wk[w].jid] = PhaseOf(wk[w].pc)
         /\ seen[wk[w].jid] = IF wk[w].pc = "admit" THEN wk[w].count ELSE 0
  BY HolderDecides, MappingIs

(* The same after the step. *)
LEMMA HolderNext ==
  ASSUME SlotExclusion', NEW w \in Workers, wk'[w].held, wk'[w].jid \in Groups
  PROVE  /\ wk'[w].jid \in inflight' /\ phase'[wk'[w].jid] = PhaseOf(wk'[w].pc)
         /\ seen'[wk'[w].jid] = IF wk'[w].pc = "admit" THEN wk'[w].count ELSE 0
  BY HolderDecides, MappingIsNext

(* And of a free slot. *)
LEMMA FreeNow ==
  ASSUME NEW g \in Groups, g \notin inflight
  PROVE  phase[g] = "none" /\ seen[g] = 0
  BY Zenon DEF phase, seen

(* The same after the step. *)
LEMMA FreeNext ==
  ASSUME NEW g \in Groups, g \notin inflight'
  PROVE  phase'[g] = "none" /\ seen'[g] = 0
  BY Zenon DEF phase, seen

(* The slots of the protocol are those of the orchestrator. *)
LEMMA SlotsAgree ==
  ASSUME inflight \subseteq Groups
  PROVE  Protocol!inflight = inflight
  <1>1. \A pc : PhaseOf(pc) # "none"
        BY Zenon DEF PhaseOf
  <1> QED  BY Zenon, <1>1 DEF Protocol!inflight, phase

(* A step of the orchestrator is a step of the protocol, or none. *)
Refines == [Protocol!Next]_(Protocol!vars)

(* Unmarking a group that does not exist changes nothing. *)
LEMMA UnmarkRefines ==
  ASSUME TypeOK, NEW g \in Groups \cup {None}, active' = active \/ active' = active \ {g},
         phase' = phase, seen' = seen
  PROVE  Refines
  <1>1. CASE active' = active
        BY Zenon, <1>1 DEF Refines, Protocol!vars
  <1>2. CASE active' = active \ {g} /\ g \in Groups
        BY Zenon, <1>2 DEF Refines, Protocol!Next, Protocol!MarkInactive
  <1>3. CASE active' = active \ {g} /\ g \notin Groups
        BY <1>1, <1>3 DEF TypeOK
  <1> QED  BY Zenon, <1>1, <1>2, <1>3

(* A step of a holder that keeps its slot. *)
LEMMA HolderMoves ==
  ASSUME SlotExclusion, SlotExclusion', NEW w \in Workers, wk[w].held, wk'[w].held,
         wk[w].jid \in Groups, wk'[w].jid = wk[w].jid, inflight' = inflight,
         \A x \in Workers \ {w} : wk'[x] = wk[x]
  PROVE  /\ phase' = [phase EXCEPT ![wk[w].jid] = PhaseOf(wk'[w].pc)]
         /\ seen' = [seen EXCEPT ![wk[w].jid] = IF wk'[w].pc = "admit" THEN wk'[w].count ELSE 0]
  BY OneHolder, HolderNext

(* A holder that keeps its phase does not take a step of the protocol. *)
LEMMA HolderStays ==
  ASSUME SlotExclusion, SlotExclusion', NEW w \in Workers, wk[w].held, wk'[w].held,
         wk[w].jid \in Groups, wk'[w].jid = wk[w].jid, inflight' = inflight,
         \A x \in Workers \ {w} : wk'[x] = wk[x],
         PhaseOf(wk'[w].pc) = PhaseOf(wk[w].pc), wk[w].pc # "admit", wk'[w].pc # "admit"
  PROVE  phase' = phase /\ seen' = seen
  <1>1. /\ phase' = [phase EXCEPT ![wk[w].jid] = PhaseOf(wk[w].pc)]
        /\ seen' = [seen EXCEPT ![wk[w].jid] = 0]
        BY Zenon, HolderMoves
  <1>2. phase[wk[w].jid] = PhaseOf(wk[w].pc) /\ seen[wk[w].jid] = 0
        BY Zenon, HolderNow
  <1>3. phase = [g \in Groups |-> phase[g]] /\ seen = [g \in Groups |-> seen[g]]
        BY Zenon DEF phase, seen
  <1> QED  BY Zenon, <1>1, <1>2, <1>3

(* A holder whose spawn is deferred, fails or panics behind the count. *)
LEMMA HolderGivesUp ==
  ASSUME SlotExclusion, SlotExclusion', NEW w \in Workers, wk[w].held, wk'[w].held,
         wk[w].jid \in Groups, wk'[w].jid = wk[w].jid, UNCHANGED <<inflight, active>>,
         \A x \in Workers \ {w} : wk'[x] = wk[x],
         wk[w].pc \in {"admit", "create", "track", "mark"}, PhaseOf(wk'[w].pc) = "held",
         wk'[w].pc # "admit"
  PROVE  Refines
  <1>1. /\ phase' = [phase EXCEPT ![wk[w].jid] = "held"]
        /\ seen' = [seen EXCEPT ![wk[w].jid] = 0]
        BY Zenon, HolderMoves
  <1>2. phase[wk[w].jid] \in {"counted", "admitted"}
        BY Zenon, HolderNow DEF PhaseOf
  <1>3. Protocol!GiveUp(wk[w].jid)
        BY Zenon, <1>1, <1>2 DEF Protocol!GiveUp, Protocol!Move
  <1> QED  BY Zenon, <1>3 DEF Refines, Protocol!Next

(* claimSandboxSlot and the goroutine it is claimed for. *)
LEMMA ClaimRefines ==
  ASSUME WorkersTyped, SlotExclusion, SlotExclusion', NEW w \in Workers, NEW g \in Groups,
         NEW q \in BOOLEAN, SlotFree(g), ClaimSlot(g), StartWorker(w, g, q), active' = active
  PROVE  Refines
  <1>1. /\ ~wk[w].held /\ wk'[w].held /\ wk'[w].jid = g /\ wk'[w].pc = "fetch"
        /\ \A x \in Workers \ {w} : wk'[x] = wk[x]
        BY Zenon DEF StartWorker, WorkersTyped, WorkerPlaced, IdleWorker
  <1>2. phase[g] = "none" /\ seen[g] = 0
        BY Zenon, FreeNow DEF SlotFree
  <1>3. phase'[g] = "held" /\ seen'[g] = 0
        BY Zenon, <1>1, HolderNext DEF PhaseOf
  <1>4. phase' = [phase EXCEPT ![g] = "held"] /\ seen' = [seen EXCEPT ![g] = 0]
        BY Zenon, <1>1, <1>3, OneHolder DEF ClaimSlot
  <1>5. seen' = seen
        BY Zenon, <1>2, <1>4 DEF seen
  <1>6. Protocol!Claim(g)
        BY Zenon, <1>2, <1>4, <1>5 DEF Protocol!Claim, Protocol!Move
  <1> QED  BY Zenon, <1>6 DEF Refines, Protocol!Next

(* releaseSlot and the deferred release of a holder. *)
LEMMA ReleaseRefines ==
  ASSUME SlotExclusion, SlotExclusion', NEW w \in Workers, wk[w].held, wk[w].jid \in Groups,
         PhaseOf(wk[w].pc) = "held", wk[w].pc # "admit",
         inflight' = inflight \ {wk[w].jid}, active' = active,
         \A x \in Workers \ {w} : wk'[x] = wk[x]
  PROVE  Refines
  <1> DEFINE g == wk[w].jid
  <1>1. phase[g] = "held" /\ seen[g] = 0
        BY Zenon, HolderNow
  <1>2. phase'[g] = "none" /\ seen'[g] = 0
        BY Zenon, FreeNext
  <1>3. phase' = [phase EXCEPT ![g] = "none"] /\ seen' = [seen EXCEPT ![g] = 0]
        BY Zenon, <1>2, OneHolder
  <1>4. seen' = seen
        BY Zenon, <1>1, <1>3 DEF seen
  <1>5. Protocol!Release(g)
        BY Zenon, <1>1, <1>3, <1>4 DEF Protocol!Release, Protocol!Move
  <1> QED  BY Zenon, <1>5 DEF Refines, Protocol!Next

(* Where a Goto of a goroutine leaves the mapping alone: without the slot,   *)
(* or between steps that are all "held".                                     *)
LEMMA GotoStays ==
  ASSUME WorkersTyped, SlotExclusion, SlotExclusion', NEW w \in Workers, NEW pc, Goto(w, pc),
         wk[w].pc # "idle", inflight' = inflight,
         ~wk[w].held \/ (PhaseOf(pc) = PhaseOf(wk[w].pc) /\ wk[w].pc # "admit" /\ pc # "admit")
  PROVE  phase' = phase /\ seen' = seen
  <1>1. /\ wk'[w].held = wk[w].held /\ wk'[w].jid = wk[w].jid /\ wk'[w].pc = pc
        /\ \A x \in Workers \ {w} : wk'[x] = wk[x]
        BY Zenon DEF Goto, WorkersTyped, WorkerState
  <1>2. wk[w].jid \in Groups
        BY Zenon DEF WorkersTyped, WorkerPlaced
  <1>3. CASE wk[w].held
        BY Zenon, <1>1, <1>2, <1>3, HolderStays
  <1>4. CASE ~wk[w].held
        BY Zenon, <1>1, <1>4, NoHolder
  <1> QED  BY Zenon, <1>3, <1>4

(* The protocol counts as the orchestrator does. *)
LEMMA SameCardinality == \A S : Protocol!Cardinality(S) = Cardinality(S)
  BY Zenon DEF Protocol!Cardinality, Cardinality

(* The gate of processGroupMessages is the gate of the protocol. *)
LEMMA GateAgrees ==
  ASSUME Countable, TypeOK, SlotExclusion, NEW w \in Workers, wk[w].held, wk[w].jid \in Groups,
         wk[w].pc = "admit", ~AtCapacity(w)
  PROVE  Protocol!Room(wk[w].jid)
  <1>1. seen[wk[w].jid] = wk[w].count
        BY Zenon, HolderNow
  <1>2. Protocol!inflight = inflight
        BY Zenon, SlotsAgree DEF TypeOK
  <1>3. Cardinality(inflight \ {wk[w].jid}) \in Nat
        BY Zenon DEF Countable, TypeOK
  <1>4. wk[w].count \in Nat /\ MaxConcurrent \in Nat
        BY Zenon, LifecycleAssumption DEF TypeOK, WorkerState
  <1>5. Protocol!Cardinality(Protocol!inflight \ {wk[w].jid}) = Cardinality(inflight \ {wk[w].jid})
        BY Zenon, <1>2, SameCardinality
  <1> QED  BY <1>1, <1>3, <1>4, <1>5 DEF Protocol!Room, AtCapacity

(* The steps of processGroupMessages, spawnAgent, its cleanups and panics. *)
LEMMA SpawnRefines ==
  ASSUME Countable, TypeOK, Placed, SlotExclusion, SlotExclusion', NEW w \in Workers,
         SpawnStep(w) \/ Panic(w)
  PROVE  Refines
  <1> USE DEF spawnState
  <1> DEFINE g == wk[w].jid
  <1>a. WorkersTyped
        BY Zenon DEF TypeOK, Placed, WorkersTyped
  <1>b. wk[w].pc # "idle" => g \in Groups
        BY Zenon DEF Placed, WorkerPlaced
  <1>c. wk[w].pc \in {"fetch", "count", "admit", "create", "track", "mark", "release"} => wk[w].held
        BY Zenon DEF Placed, WorkerPlaced
  <1>d. ASSUME NEW pc, Goto(w, pc)
        PROVE  /\ wk'[w].held = wk[w].held /\ wk'[w].jid = wk[w].jid /\ wk'[w].pc = pc
               /\ \A x \in Workers \ {w} : wk'[x] = wk[x]
        BY Zenon, <1>a, <1>d DEF Goto, WorkersTyped, WorkerState
  <1>e. ASSUME phase' = phase, seen' = seen, active' = active PROVE Refines
        BY Zenon, <1>e DEF Refines, Protocol!vars
  <1>f. /\ PhaseOf("admit") = "counted" /\ PhaseOf("create") = "admitted"
        /\ PhaseOf("track") = "admitted" /\ PhaseOf("mark") = "admitted"
        /\ \A pc : pc \notin {"admit", "create", "track", "mark"} => PhaseOf(pc) = "held"
        BY Zenon DEF PhaseOf
  <1>1. CASE Fetch(w)
    <2>1. /\ wk[w].pc = "fetch" /\ UNCHANGED <<inflight, active>>
          /\ \E pc \in {"exit", "count"} : Goto(w, pc)
          BY Zenon, <1>1 DEF Fetch
    <2> QED  BY Zenon, <1>a, <1>e, <1>f, <2>1, GotoStays
  <1>2. CASE CountActive(w)
    <2>1. wk[w].pc = "count" /\ wk[w].held /\ g \in Groups /\ UNCHANGED <<inflight, active>>
          BY Zenon, <1>2, <1>b, <1>c DEF CountActive
    <2>2. CASE Goto(w, "exit")
          BY <1>a, <1>e, <1>f, <2>1, <2>2, GotoStays
    <2>3. CASE wk' = [wk EXCEPT ![w].pc = "admit", ![w].count = Cardinality(active)]
      <3>1. /\ wk'[w].held /\ wk'[w].jid = g /\ wk'[w].pc = "admit"
            /\ wk'[w].count = Cardinality(active)
            /\ \A x \in Workers \ {w} : wk'[x] = wk[x]
            BY Zenon, <1>a, <2>1, <2>3 DEF WorkersTyped, WorkerState
      <3>2. /\ phase' = [phase EXCEPT ![g] = "counted"]
            /\ seen' = [seen EXCEPT ![g] = Cardinality(active)]
            BY <1>f, <2>1, <3>1, HolderMoves
      <3>3. phase[g] = "held"
            BY Zenon, <1>f, <2>1, HolderNow
      <3>4. Protocol!Count(g)
            BY Zenon, <2>1, <3>2, <3>3, SameCardinality DEF Protocol!Count, Protocol!Move
      <3> QED  BY Zenon, <2>1, <3>4 DEF Refines, Protocol!Next
    <2> QED  BY Zenon, <1>2, <2>2, <2>3 DEF CountActive
  <1>3. CASE Admit(w)
    <2>1. wk[w].pc = "admit" /\ wk[w].held /\ g \in Groups /\ UNCHANGED <<inflight, active>>
          BY Zenon, <1>3, <1>b, <1>c DEF Admit
    <2>2. CASE Goto(w, "exit")
      <3>1. /\ wk'[w].held /\ wk'[w].jid = g /\ wk'[w].pc = "exit"
            /\ \A x \in Workers \ {w} : wk'[x] = wk[x]
            BY Zenon, <1>d, <2>1, <2>2
      <3> QED  BY Zenon, <1>f, <2>1, <3>1, HolderGivesUp
    <2>3. CASE ~AtCapacity(w) /\ Goto(w, "create")
      <3>0. /\ wk'[w].held /\ wk'[w].jid = g /\ wk'[w].pc = "create"
            /\ \A x \in Workers \ {w} : wk'[x] = wk[x]
            BY Zenon, <1>d, <2>1, <2>3
      <3>1. /\ phase' = [phase EXCEPT ![g] = "admitted"]
            /\ seen' = [seen EXCEPT ![g] = 0]
            BY <1>f, <2>1, <3>0, HolderMoves
      <3>2. phase[g] = "counted" /\ Protocol!Room(g)
            BY Zenon, <1>f, <2>1, <2>3, HolderNow, GateAgrees
      <3>3. Protocol!Admit(g)
            BY Zenon, <2>1, <3>1, <3>2 DEF Protocol!Admit, Protocol!Move
      <3> QED  BY Zenon, <2>1, <3>3 DEF Refines, Protocol!Next
    <2> QED  BY Zenon, <1>3, <2>2, <2>3 DEF Admit
  <1>4. CASE Create(w)
    <2>1. wk[w].pc = "create" /\ wk[w].held /\ g \in Groups /\ UNCHANGED <<inflight, active>>
          BY Zenon, <1>4, <1>b, <1>c DEF Create
    <2>2. CASE Goto(w, "rollback")
      <3>1. /\ wk'[w].held /\ wk'[w].jid = g /\ wk'[w].pc = "rollback"
            /\ \A x \in Workers \ {w} : wk'[x] = wk[x]
            BY Zenon, <1>d, <2>1, <2>2
      <3> QED  BY Zenon, <1>f, <2>1, <2>2, <3>1, HolderGivesUp
    <2>3. ASSUME NEW p \in Pods, wk' = [wk EXCEPT ![w].pc = "track", ![w].pod = p] PROVE Refines
      <3>1. /\ wk'[w].held /\ wk'[w].jid = g /\ wk'[w].pc = "track"
            /\ \A x \in Workers \ {w} : wk'[x] = wk[x]
            BY Zenon, <1>a, <2>1, <2>3 DEF WorkersTyped, WorkerState
      <3> QED  BY Zenon, <1>e, <1>f, <2>1, <3>1, HolderStays
    <2> QED  BY Zenon, <1>4, <2>2, <2>3 DEF Create
  <1>12. CASE TrackCreated(w)
    <2>1. wk[w].pc = "track" /\ Goto(w, "mark") /\ UNCHANGED <<inflight, active>>
          BY Zenon, <1>12 DEF TrackCreated
    <2>2. phase' = phase /\ seen' = seen
          BY <1>a, <1>f, <2>1, GotoStays
    <2> QED  BY Zenon, <1>e, <2>1, <2>2
  <1>5. CASE MarkActive(w)
    <2>1. wk[w].pc = "mark" /\ wk[w].held /\ g \in Groups /\ inflight' = inflight
          BY Zenon, <1>5, <1>b, <1>c DEF MarkActive
    <2>2. CASE Goto(w, "rollback") /\ UNCHANGED active
      <3>1. /\ wk'[w].held /\ wk'[w].jid = g /\ wk'[w].pc = "rollback"
            /\ \A x \in Workers \ {w} : wk'[x] = wk[x]
            BY Zenon, <1>d, <2>1, <2>2
      <3> QED  BY Zenon, <1>f, <2>1, <2>2, <3>1, HolderGivesUp
    <2>3. CASE /\ active' = active \cup {g}
               /\ wk' = [wk EXCEPT ![w].pc = "release", ![w].marked = TRUE]
      <3>1. /\ wk'[w].held /\ wk'[w].jid = g /\ wk'[w].pc = "release"
            /\ \A x \in Workers \ {w} : wk'[x] = wk[x]
            BY Zenon, <1>a, <2>1, <2>3 DEF WorkersTyped, WorkerState
      <3>2. phase' = [phase EXCEPT ![g] = "held"] /\ seen' = [seen EXCEPT ![g] = 0]
            BY <1>f, <2>1, <3>1, HolderMoves
      <3>3. phase[g] = "admitted" /\ seen[g] = 0
            BY Zenon, <1>f, <2>1, HolderNow
      <3>4. seen' = seen
            BY Zenon, <2>1, <3>2, <3>3 DEF seen
      <3>5. Protocol!MarkActive(g)
            BY Zenon, <2>3, <3>2, <3>3, <3>4 DEF Protocol!MarkActive, Protocol!Move
      <3> QED  BY Zenon, <2>1, <3>5 DEF Refines, Protocol!Next
    <2> QED  BY Zenon, <1>5, <2>2, <2>3 DEF MarkActive
  <1>6. CASE ReleaseSlot(w)
    <2>1. /\ wk[w].pc = "release" /\ wk[w].held /\ g \in Groups /\ active' = active
          /\ inflight' = inflight \ {g} /\ \A x \in Workers \ {w} : wk'[x] = wk[x]
          BY Zenon, <1>6, <1>a, <1>b, <1>c DEF ReleaseSlot, WorkersTyped
    <2> QED  BY Zenon, <1>f, <2>1, ReleaseRefines
  <1>7. CASE SendInitial(w)
    <2>1. wk[w].pc = "send" /\ g \in Groups /\ UNCHANGED <<inflight, active>>
          BY Zenon, <1>7, <1>b DEF SendInitial
    <2>2. CASE Goto(w, "rollback")
          BY <1>a, <1>e, <1>f, <2>1, <2>2, GotoStays
    <2>3. CASE wk' = [wk EXCEPT ![w].pc = "exit", ![w].spawned = TRUE]
      <3>1. /\ wk'[w].held = wk[w].held /\ wk'[w].jid = g /\ wk'[w].pc = "exit"
            /\ \A x \in Workers \ {w} : wk'[x] = wk[x]
            BY Zenon, <1>a, <2>3 DEF WorkersTyped, WorkerState
      <3>2. CASE wk[w].held
        <4>1. wk'[w].held /\ PhaseOf(wk'[w].pc) = PhaseOf(wk[w].pc)
              BY <1>f, <2>1, <3>1, <3>2
        <4>2. phase' = phase /\ seen' = seen
              BY Zenon, <2>1, <3>1, <3>2, <4>1, HolderStays
        <4> QED  BY Zenon, <1>e, <2>1, <4>2
      <3>3. CASE ~wk[w].held
            BY Zenon, <1>e, <2>1, <3>1, <3>3, NoHolder
      <3> QED  BY Zenon, <3>2, <3>3
    <2> QED  BY Zenon, <1>7, <2>2, <2>3 DEF SendInitial
  <1>8. CASE Subscribe(w) \/ AbortRollback(w) \/ AbortStreams(w) \/ AbortStop(w) \/ AbortPurge(w)
    <2>1. /\ wk[w].pc \notin {"idle", "admit", "create", "track", "mark"} /\ UNCHANGED <<inflight, active>>
          /\ \E pc : pc \notin {"admit", "create", "track", "mark"} /\ Goto(w, pc)
          BY Zenon, <1>8 DEF Subscribe, AbortRollback, AbortStreams, AbortStop, AbortPurge
    <2> QED  BY Zenon, <1>a, <1>e, <1>f, <2>1, GotoStays
  <1>9. CASE AbortUnmark(w) \/ PanicUnmark(w)
    <2>1. /\ wk[w].pc \in {"unmark", "panicked"} /\ inflight' = inflight /\ Goto(w, "exit")
          /\ active' = active \/ active' = active \ {g}
          BY Zenon, <1>9 DEF AbortUnmark, PanicUnmark, MarkInactive
    <2>2. phase' = phase /\ seen' = seen
          BY <1>a, <1>f, <2>1, GotoStays
    <2> QED  BY Zenon, <1>b, <2>1, <2>2, UnmarkRefines
  <1>10. CASE Exit(w)
    <2>1. /\ wk[w].pc = "exit" /\ g \in Groups /\ active' = active
          /\ \A x \in Workers \ {w} : wk'[x] = wk[x]
          BY Zenon, <1>10, <1>a, <1>b DEF Exit, WorkersTyped
    <2>2. CASE wk[w].held
          BY Zenon, <1>10, <1>f, <2>1, <2>2, ReleaseRefines DEF Exit, ReleaseOnce
    <2>3. CASE ~wk[w].held
          BY Zenon, <1>10, <1>e, <2>1, <2>3, NoHolder DEF Exit, ReleaseOnce
    <2> QED  BY Zenon, <2>2, <2>3
  <1>11. CASE Panic(w)
    <2>1. /\ wk[w].pc # "idle" /\ UNCHANGED <<inflight, active>>
          /\ \E pc \in {"panicked", "exit"} : Goto(w, pc)
          BY Zenon, <1>11 DEF Panic
    <2>2. CASE wk[w].held /\ wk[w].pc \in {"admit", "create", "track", "mark"}
          BY Zenon, <1>b, <1>d, <1>f, <2>1, <2>2, HolderGivesUp
    <2>3. CASE ~wk[w].held \/ wk[w].pc \notin {"admit", "create", "track", "mark"}
          BY Zenon, <1>a, <1>e, <1>f, <2>1, <2>3, GotoStays
    <2> QED  BY Zenon, <2>2, <2>3
  <1> QED  BY Zenon, <1>1, <1>2, <1>3, <1>4, <1>5, <1>6, <1>7, <1>8, <1>9, <1>10, <1>11, <1>12
           DEF SpawnStep

(* Every step of the orchestrator is a step of the protocol, or none. *)
LEMMA StepRefines ==
  Countable /\ TypeOK /\ Placed /\ SlotExclusion /\ SlotExclusion' /\ [Next]_vars => Refines
  <1> SUFFICES ASSUME Countable, TypeOK, Placed, SlotExclusion, SlotExclusion', [Next]_vars
               PROVE  Refines
      BY Zenon
  <1> USE DEF cursors, spawnState, world, startup, procs, bounds
  <1>a. WorkersTyped
        BY Zenon DEF TypeOK, Placed, WorkersTyped
  <1>b. ASSUME UNCHANGED <<inflight, wk>> PROVE phase' = phase /\ seen' = seen
        BY Zenon, <1>b, NoHolder
  <1>1. ASSUME UNCHANGED <<inflight, wk, active>> PROVE Refines
        BY Zenon, <1>b, <1>1 DEF Refines, Protocol!vars
  <1>2. CASE PollStep
    <2>1. CASE PollClaim
      <3>1. poll.jid \in Groups
            BY Zenon, <2>1 DEF PollClaim, Placed
      <3> QED  BY Zenon, <1>1, <1>a, <2>1, <3>1, ClaimRefines DEF PollClaim
    <2>2. CASE PollFetch \/ PollPipe \/ PollAdvance \/ \E g \in Groups : PollDispatch(g)
          BY Zenon, <1>1, <2>2 DEF PollFetch, PollPipe, PollAdvance, PollDispatch
    <2> QED  BY Zenon, <1>2, <2>1, <2>2 DEF PollStep
  <1>3. ASSUME NEW w \in Workers, SpawnStep(w) \/ Panic(w) PROVE Refines
        BY Zenon, <1>3, SpawnRefines
  <1>4. ASSUME NEW v \in Watchers, WatchStep(v) \/ Hear(v) \/ GiveUp(v) PROVE Refines
    <2>1. CASE DeactivateRecover(v)
      <3>1. wt[v].jid \in Groups /\ wt[v].qmsg \in BOOLEAN
            BY Zenon, <2>1 DEF DeactivateRecover, Placed, TypeOK, WatcherState
      <3> QED  BY Zenon, <1>1, <1>a, <2>1, <3>1, ClaimRefines DEF DeactivateRecover
    <2>2. CASE DeactivateMark(v)
      <3>1. /\ wt[v].jid \in Groups /\ UNCHANGED <<inflight, wk>>
            /\ active' = active \/ active' = active \ {wt[v].jid}
            BY Zenon, <2>2 DEF DeactivateMark, Placed
      <3> QED  BY Zenon, <1>b, <3>1, UnmarkRefines
    <2>3. CASE Hear(v) \/ GiveUp(v) \/ ReceiveShutdown(v) \/ LivenessTick(v) \/ DeactivateCheck(v)
               \/ DeactivateRollback(v) \/ DeactivatePending(v)
          BY Zenon, <1>1, <2>3 DEF Hear, GiveUp, ReceiveShutdown, LivenessTick, DeactivateCheck,
                            DeactivateRollback, DeactivatePending
    <2> QED  BY Zenon, <1>4, <2>1, <2>2, <2>3 DEF WatchStep
  <1>5. CASE EventStep \/ WatchOpen \/ WatchCloses
    <2>1. CASE EventUnmark
      <3>1. /\ ev.jid \in Groups \cup {None} /\ UNCHANGED <<inflight, wk>>
            /\ active' = active \/ active' = active \ {ev.jid}
            BY Zenon, <2>1 DEF EventUnmark, MarkInactive, TypeOK, EventState
      <3> QED  BY Zenon, <1>b, <3>1, UnmarkRefines
    <2>2. CASE ~EventUnmark
          BY Zenon, <1>1, <1>5, <2>2 DEF EventStep, EventRead, EventCheck, EventClear, WatchOpen,
                                  WatchCloses
    <2> QED  BY Zenon, <2>1, <2>2
  <1>6. CASE Environment \/ BootStep
    <2>1. ASSUME NEW g \in Groups, BootReconcile(g) PROVE Refines
      <3>1. UNCHANGED <<inflight, wk>> /\ (active' = active \/ active' = active \ {g})
            BY Zenon, <2>1 DEF BootReconcile
      <3> QED  BY Zenon, <1>b, <3>1, UnmarkRefines
    <2> QED  BY Zenon, <1>1, <1>6, <2>1 DEF Environment, StoreMessage, ExecuteTask, AgentEnds,
                                  CleanupOrphan, EventLost, BootStep, BootClean, RecoverPending
  <1>8. CASE Crash
    <2>1. active' \in SUBSET active /\ inflight' = {}
          BY Zenon, <1>8 DEF Crash
    <2>2. phase' = [g \in Groups |-> "none"] /\ seen' = [g \in Groups |-> 0]
          BY Zenon, <2>1 DEF phase, seen
    <2> QED  BY Zenon, <2>1, <2>2 DEF Refines, Protocol!Next, Protocol!Restart
  <1>7. CASE UNCHANGED vars
        BY Zenon, <1>1, <1>7 DEF vars
  <1> QED  BY Zenon, <1>2, <1>3, <1>4, <1>5, <1>6, <1>7, <1>8 DEF Next, Steps

-----------------------------------------------------------------------------
(* The theorems. *)

Gate == INSTANCE AdmissionProofs WITH active <- active, phase <- phase, seen <- seen

(* Finitely many groups can be counted. *)
LEMMA GroupsCountable == Countable
  <1>1. Gate!IsFiniteSet(Groups) /\ MaxConcurrent \in Nat \ {0}
        BY Zenon, LifecycleAssumption DEF Gate!IsFiniteSet, IsFiniteSet
  <1>2. \A S : Gate!Cardinality(S) = Cardinality(S)
        BY Zenon DEF Gate!Cardinality, Cardinality
  <1>3. \A S \in SUBSET Groups : Gate!Cardinality(S) \in Nat
    <2>1. SUFFICES ASSUME NEW S \in SUBSET Groups PROVE Gate!Cardinality(S) \in Nat
          BY Zenon
    <2>2. Gate!IsFiniteSet(S)
          BY Zenon, <1>1, Gate!FS_Subset
    <2> QED  BY Zenon, <1>1, <2>2, Gate!FS_CardinalityType
  <1> QED  BY Zenon, <1>2, <1>3 DEF Countable

(* So every step keeps the state typed and placed. *)
LEMMA TypesKept == TypeOK /\ Placed /\ [Next]_vars => TypeOK' /\ Placed'
  BY Zenon, GroupsCountable, StepType

(* Type correctness of the spawn, deactivation, event and restart paths of   *)
(* the orchestrator, for any number of groups, goroutines, sandboxes, faults *)
(* and crashes.                                                              *)
THEOREM TypeTheorem == Spec => []TypeOK
  <1>1. Spec => [](TypeOK /\ Placed)
        BY InitType, TypesKept, PTL DEF Spec
  <1> QED  BY <1>1, PTL

(* Every in-flight slot (claimSandboxSlot, 820-832) has exactly one          *)
(* goroutine that holds it, through early and deferred releases, failing     *)
(* calls, panics and restarts, for any number of groups, goroutines,         *)
(* sandboxes, faults and crashes.  "BUG: sandbox slot released on non-held   *)
(* slot" (827) is dead code.                                                 *)
THEOREM SlotExclusionTheorem == Spec => []SlotExclusion
  <1>1. Init => SlotExclusion
        BY Zenon, IdleType DEF Init, SlotExclusion, Holders
  <1> QED  BY <1>1, InitType, TypesKept, StepExclusion, PTL DEF Spec

(* A group that is marked active (1070) is not forgotten, as long as no call *)
(* fails: it has a live sandbox or somebody who will look at it, through     *)
(* overlapping spawns and their cleanups, watchers that give up, events of   *)
(* old sandboxes, crashes at any point and the steps of the start, for any   *)
(* number of all of them.  The exception is the group whose sandbox ends     *)
(* after reconcileActiveSet has looked at it (1854) and before the new watch *)
(* lists the Sandboxes (watcher.go 30): it is left to a later report.        *)
THEOREM AttendedTheorem == Spec => []ActiveAttended
  BY InitType, TypesKept, AttendInit, StepAttends, AttendImplies, PTL DEF Spec

(* The goroutines of the orchestrator (processGroupMessages 835-933,         *)
(* spawnAgent 988-1122, deactivate 1282-1471, handleSandboxEvent 1186-1277   *)
(* and the restart) follow the admission protocol: SandboxLifecycle          *)
(* implements Admission, whose bound on the groups that run at once is then  *)
(* theirs, for any number of groups, goroutines, sandboxes, faults and       *)
(* crashes.                                                                  *)
THEOREM RefinementTheorem == Spec => AdmissionProtocol
  <1>1. Init => Protocol!Init
        BY Zenon DEF Init, Protocol!Init, phase, seen
  <1>2. Init => SlotExclusion
        BY Zenon, IdleType DEF Init, SlotExclusion, Holders
  <1>3. TypeOK /\ Placed /\ SlotExclusion /\ [Next]_vars => [Protocol!Next]_(Protocol!vars)
        BY Zenon, GroupsCountable, StepExclusion, StepRefines DEF Refines
  <1> QED  BY <1>1, <1>2, <1>3, InitType, TypesKept, StepExclusion, PTL
           DEF Spec, AdmissionProtocol, Protocol!Spec

(* So the groups that are active and those past the gate on their way to     *)
(* MarkActive (886, 1070) never number more than 2 * MAX_CONCURRENT.         *)
THEOREM BoundTheorem == Spec => []Protocol!OvershootBounded
  <1>1. Gate!IsFiniteSet(Groups) /\ MaxConcurrent \in Nat \ {0}
        BY Zenon, LifecycleAssumption DEF Gate!IsFiniteSet, IsFiniteSet
  <1>2. Gate!Spec => []Gate!OvershootBounded
        BY <1>1, Gate!OvershootTheorem, PTL DEF Gate!AdmissionAssumption
  <1>3. \A S : Gate!Cardinality(S) = Protocol!Cardinality(S)
        BY Zenon DEF Gate!Cardinality, Protocol!Cardinality
  <1>4. Gate!OvershootBounded => Protocol!OvershootBounded
        BY Zenon, <1>3 DEF Gate!OvershootBounded, Gate!Load, Gate!Admitted,
                    Protocol!OvershootBounded, Protocol!Load, Protocol!Admitted
  <1>5. Protocol!Init => Gate!Init
        BY Zenon DEF Protocol!Init, Gate!Init
  <1>6. Protocol!Next => Gate!Next
    <2>1. ASSUME NEW g \in Groups, Protocol!Room(g) PROVE Gate!Room(g)
          BY Zenon, <1>3, <2>1 DEF Protocol!Room, Gate!Room, Protocol!inflight, Gate!inflight
    <2> QED  BY Zenon, <1>3, <2>1
             DEF Protocol!Next, Protocol!Claim, Protocol!Count, Protocol!Admit, Protocol!GiveUp,
                 Protocol!MarkActive, Protocol!Release, Protocol!MarkInactive, Protocol!Restart,
                 Protocol!Move, Gate!Next, Gate!Claim, Gate!Count, Gate!Admit, Gate!GiveUp,
                 Gate!MarkActive, Gate!Release, Gate!MarkInactive, Gate!Restart, Gate!Move
  <1>7. [Protocol!Next]_(Protocol!vars) => [Gate!Next]_(Gate!vars)
        BY Zenon, <1>6 DEF Protocol!vars, Gate!vars
  <1>8. Protocol!Spec => Gate!Spec
        BY <1>5, <1>7, PTL DEF Protocol!Spec, Gate!Spec
  <1> QED  BY <1>2, <1>4, <1>8, RefinementTheorem, PTL DEF AdmissionProtocol

=============================================================================
