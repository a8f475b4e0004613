-------------------------- MODULE SandboxLifecycle --------------------------
(***************************************************************************)
(* How internal/orchestrator/orchestrator.go starts and retires sandboxes: *)
(* the message loop and the watchers claim a group's in-flight slot, a     *)
(* goroutine passes the MAX_CONCURRENT gate and runs the spawn pipeline or *)
(* its staged cleanups, a watcher per sandbox deactivates the group when   *)
(* its agent is gone, and the sandbox event handler races with it.  Calls  *)
(* to MySQL, NATS and Kubernetes fail, goroutines panic, agents die, and   *)
(* the process itself crashes and restarts.                                *)
(*                                                                         *)
(* An action is one access to state that another goroutine can see (a      *)
(* database statement, a section under o.mu, a NATS or Kubernetes call)    *)
(* with the local computation around it.  Message contents, timestamps and *)
(* the batches read, sent and confirmed are module MessageCursors'         *)
(* subject; here the cursors are reduced to three facts per group: some    *)
(* message is newer than lastTimestamp (unseen), some message is newer     *)
(* than lastAgentTimestamp (backlog), and lastConfirmedTimestamp is behind *)
(* lastAgentTimestamp (unconfirmed).                                       *)
(***************************************************************************)
EXTENDS Naturals, FiniteSets

CONSTANTS
  Groups,         \* registered groups (chat JIDs); each has its own folder
  TriggerGroups,  \* the groups that are not main and require a trigger
  Workers,        \* bound: goroutines running processGroupMessages at a time
  Watchers,       \* bound: goroutines running watchGroupOutput at a time
  MaxConcurrent,  \* cfg.Queue.MaxConcurrent
  FastStart,      \* cfg.K8s.FastStartEnabled
  MaxMessages,    \* bound: messages stored in a behaviour
  MaxPods,        \* bound: sandboxes created in a behaviour
  MaxTasks,       \* bound: scheduled tasks fired in a behaviour
  MaxFaults,      \* bound: failing external calls and panics in a behaviour
  MaxCrashes,     \* bound: crashes of the orchestrator in a behaviour
  None            \* no group, no sandbox

ASSUME LifecycleAssumption ==
  /\ IsFiniteSet(Groups)
  /\ TriggerGroups \subseteq Groups
  /\ MaxConcurrent \in Nat \ {0}      \* config.go rejects MAX_CONCURRENT <= 0
  /\ FastStart \in BOOLEAN
  /\ MaxMessages \in Nat /\ MaxPods \in Nat /\ MaxTasks \in Nat
  /\ MaxFaults \in Nat /\ MaxCrashes \in Nat
  /\ None \notin Groups /\ None \notin 1..MaxPods

Pods == 1..MaxPods

VARIABLES
  unseen,          \* groups with a message newer than o.lastTimestamp
  backlog,         \* groups with a message newer than o.lastAgentTimestamp
  unconfirmed,     \* groups with o.lastConfirmedTimestamp before o.lastAgentTimestamp
  queue,           \* NATS: length of the group's work queue
  active,          \* MySQL groups.is_active
  inflight,        \* o.inflightSandboxes
  activeSandboxes, \* o.activeSandboxes
  pods,            \* Kubernetes: the Sandbox resources
  events,          \* terminal sandbox events not yet handled
  bye,             \* groups whose output stream holds an IPCShutdown
  boot,            \* how far Start has come
  watching,        \* the watch of the Sandboxes is open
  slipped,         \* history: active groups whose sandbox ended unreported after
                   \* reconcileActiveSet looked at them
  poll,            \* the message loop goroutine
  wk,              \* the processGroupMessages goroutines
  wt,              \* the watchGroupOutput goroutines
  ev,              \* the sandbox event goroutine
  msgs,            \* messages stored so far
  tasks,           \* scheduled tasks fired so far
  faults,          \* external calls failed so far
  crashes          \* crashes so far

cursors == <<unseen, backlog, unconfirmed>>
spawnState == <<active, inflight, activeSandboxes>>
world == <<pods, events, bye>>
startup == <<boot, watching, slipped>>
procs == <<poll, wk, wt, ev>>
bounds == <<msgs, tasks, faults, crashes>>
vars == <<cursors, queue, spawnState, world, startup, procs, bounds>>

-----------------------------------------------------------------------------
LivePods(g) == {p \in Pods : pods[p].jid = g /\ pods[p].state \in {"running", "stopping"}}
HasActiveSandbox(g) == LivePods(g) # {}

(* Every external call may fail, MaxFaults times in a behaviour. *)
Ok == UNCHANGED faults
Fails == faults < MaxFaults /\ faults' = faults + 1

Enqueue(g) == queue' = [queue EXCEPT ![g] = @ + 1]
Track(g, p) == activeSandboxes' = [activeSandboxes EXCEPT ![g] = p]
Untrack(g) == Track(g, None)
MarkInactive(g) == \/ Ok /\ active' = active \ {g}
                   \/ Fails /\ UNCHANGED active

(* reconcileActiveSet has still to look at g. *)
Unreconciled(g) == boot.pc = "clean" \/ g \in boot.todo

(* The message loop, the watch of the Sandboxes and the recovery of pending  *)
(* messages start when reconcileActiveSet is done.                           *)
Running == boot.pc \in {"recover", "up"}

IdlePoll == [pc |-> "idle", todo |-> {}, jid |-> None]
IdleWorker == [pc |-> "idle", jid |-> None, count |-> 0, pod |-> None, held |-> FALSE,
               marked |-> FALSE, spawned |-> FALSE, qmsg |-> FALSE]
IdleWatcher == [pc |-> "idle", jid |-> None, connected |-> FALSE, qmsg |-> FALSE]
IdleEvent == [pc |-> "idle", jid |-> None, pod |-> None]

(* An orchestrator that has come up with nothing to take over. *)
Init ==
  /\ unseen = {} /\ backlog = {} /\ unconfirmed = {} /\ queue = [g \in Groups |-> 0]
  /\ active = {} /\ inflight = {} /\ activeSandboxes = [g \in Groups |-> None]
  /\ pods = [p \in Pods |-> [jid |-> None, state |-> "none"]]
  /\ events = {} /\ bye = {}
  /\ boot = [pc |-> "up", todo |-> {}] /\ watching = TRUE /\ slipped = {}
  /\ poll = IdlePoll /\ ev = IdleEvent
  /\ wk = [w \in Workers |-> IdleWorker]
  /\ wt = [v \in Watchers |-> IdleWatcher]
  /\ msgs = 0 /\ tasks = 0 /\ faults = 0 /\ crashes = 0

-----------------------------------------------------------------------------
(* The message loop: pollMessages. *)

(* Leave group g: the loop goes on with the other groups of the fetched      *)
(* messages, in any order (byGroup is a map), and then waits for a tick.     *)
DoneWith(g) ==
  LET rest == poll.todo \ {g} IN
  poll' = IF rest = {} THEN IdlePoll
          ELSE [pc |-> "dispatch", todo |-> rest, jid |-> None]

(* Lines 636-680: fetch the new messages of all groups and advance           *)
(* lastTimestamp past them.                                                  *)
PollFetch ==
  /\ Running /\ poll.pc = "idle" /\ unseen # {}
  /\ unseen' = {}
  /\ poll' = [pc |-> "dispatch", todo |-> unseen, jid |-> None]
  /\ UNCHANGED <<backlog, unconfirmed, queue, spawnState, world, startup, wk, wt, ev, bounds>>

(* Lines 682-711: the trigger check and queue.IsActive for one group. *)
PollDispatch(g) ==
  /\ poll.pc = "dispatch" /\ g \in poll.todo
  /\ \/ Fails /\ DoneWith(g)
     \/ Ok /\ g \in TriggerGroups /\ DoneWith(g)
     \/ Ok /\ poll' = [poll EXCEPT !.pc = IF g \in active THEN "pipe" ELSE "claim",
                                   !.jid = g]
  /\ UNCHANGED <<cursors, queue, spawnState, world, startup, wk, wt, ev, msgs, tasks, crashes>>

(* Lines 713-750: read the agent cursor and the pending messages (when there *)
(* are none, those that were fetched) and pipe them to the agent.            *)
PollPipe ==
  /\ poll.pc = "pipe"
  /\ \/ Ok /\ poll' = [poll EXCEPT !.pc = "advance"]
     \/ Fails /\ DoneWith(poll.jid)
  /\ UNCHANGED <<cursors, queue, spawnState, world, startup, wk, wt, ev, msgs, tasks, crashes>>

(* Lines 752-758: set the agent cursor to the last message piped, wherever   *)
(* it is by now.  Only messages stored since the fetch can be newer.         *)
PollAdvance ==
  LET g == poll.jid IN
  /\ poll.pc = "advance"
  /\ DoneWith(g)
  /\ backlog' \in {backlog \ {g}, (backlog \ {g}) \cup ({g} \cap unseen)}
  /\ unconfirmed' \in {unconfirmed \cup {g}, unconfirmed \ {g}}
  /\ UNCHANGED <<unseen, queue, spawnState, world, startup, wk, wt, ev, bounds>>

(* claimSandboxSlot: LoadOrStore on inflightSandboxes. *)
SlotFree(g) == g \notin inflight
ClaimSlot(g) == inflight' = inflight \cup {g}

(* A goroutine that runs processGroupMessages for g; it carries the queue    *)
(* message its creator dequeued, if any.                                     *)
StartWorker(w, g, qmsg) ==
  /\ wk[w].pc = "idle"
  /\ wk' = [wk EXCEPT ![w] = [IdleWorker EXCEPT !.pc = "fetch", !.jid = g,
                                                !.held = TRUE, !.qmsg = qmsg]]

(* Lines 759-814: claim the group's slot and start a goroutine, or skip. *)
PollClaim ==
  LET g == poll.jid IN
  /\ poll.pc = "claim"
  /\ DoneWith(g)
  /\ \/ SlotFree(g) /\ ClaimSlot(g) /\ \E w \in Workers : StartWorker(w, g, FALSE)
     \/ ~SlotFree(g) /\ UNCHANGED <<inflight, wk>>
  /\ UNCHANGED <<cursors, queue, active, activeSandboxes, world, startup, wt, ev, bounds>>

PollStep ==
  PollFetch \/ (\E g \in Groups : PollDispatch(g)) \/ PollPipe \/ PollAdvance \/ PollClaim

-----------------------------------------------------------------------------
(* The spawning goroutines: processGroupMessages and spawnAgent. *)

Goto(w, pc) == wk' = [wk EXCEPT ![w].pc = pc]

(* Lines 835-868: read the group's pending messages and check the trigger. *)
Fetch(w) ==
  LET g == wk[w].jid IN
  /\ wk[w].pc = "fetch"
  /\ \/ Fails /\ Goto(w, "exit")
     \/ Ok /\ (g \notin backlog \/ g \in TriggerGroups) /\ Goto(w, "exit")
     \/ Ok /\ g \in backlog /\ Goto(w, "count")
  /\ UNCHANGED <<cursors, queue, spawnState, world, startup, poll, wt, ev, msgs, tasks, crashes>>

(* Lines 871-874: queue.ActiveCount. *)
CountActive(w) ==
  /\ wk[w].pc = "count"
  /\ \/ Fails /\ Goto(w, "exit")
     \/ Ok /\ wk' = [wk EXCEPT ![w].pc = "admit", ![w].count = Cardinality(active)]
  /\ UNCHANGED <<cursors, queue, spawnState, world, startup, poll, wt, ev, msgs, tasks, crashes>>

(* A form of the gate that forgets the slots of other groups. *)
AtCapacityActiveOnly(w) == wk[w].count >= MaxConcurrent

(* Lines 876-886: the gate, over the count read before and the slots now. *)
AtCapacity(w) ==
  wk[w].count + Cardinality(inflight \ {wk[w].jid}) >= MaxConcurrent

(* Lines 886-908: defer, or advance the agent cursor past the batch. *)
Admit(w) ==
  /\ wk[w].pc = "admit"
  /\ \/ AtCapacity(w) /\ Goto(w, "exit") /\ UNCHANGED <<backlog, unconfirmed>>
     \/ /\ ~AtCapacity(w) /\ Goto(w, "create")
        /\ backlog' = backlog \ {wk[w].jid}
        /\ unconfirmed' = unconfirmed \cup {wk[w].jid}
  /\ UNCHANGED <<unseen, queue, spawnState, world, startup, poll, wt, ev, bounds>>

FreshPod(p) == pods[p].state = "none" /\ \A q \in Pods : pods[q].state = "none" => p <= q
NewPod(p, g) == pods' = [pods EXCEPT ![p] = [jid |-> g, state |-> "running"]]

(* Lines 1005-1044: ensure the stream and create the Sandbox.                *)
(* A create whose response is lost is retried under the same name, so it is  *)
(* reported as an error although the Sandbox exists (controller.go 167-215). *)
(* The bound on pods acts as a resource quota.                               *)
Create(w) ==
  LET g == wk[w].jid IN
  /\ wk[w].pc = "create"
  /\ \/ /\ Fails \/ (Ok /\ ~\E p \in Pods : FreshPod(p))
        /\ Goto(w, "rollback") /\ UNCHANGED pods
     \/ /\ Fails /\ Goto(w, "rollback")
        /\ \E p \in Pods : FreshPod(p) /\ NewPod(p, g)
     \/ /\ Ok
        /\ \E p \in Pods :
             /\ FreshPod(p) /\ NewPod(p, g)
             /\ wk' = [wk EXCEPT ![w].pc = "track", ![w].pod = p]
  /\ UNCHANGED <<cursors, queue, spawnState, events, bye, startup, poll, wt, ev, msgs, tasks,
                 crashes>>

(* Lines 1046-1049: it is the group's sandbox from now on. *)
TrackCreated(w) ==
  /\ wk[w].pc = "track"
  /\ Track(wk[w].jid, wk[w].pod)
  /\ Goto(w, "mark")
  /\ UNCHANGED <<cursors, queue, active, inflight, world, startup, poll, wt, ev, bounds>>

(* Lines 1070-1072: queue.MarkActive. *)
MarkActive(w) ==
  /\ wk[w].pc = "mark"
  /\ \/ Fails /\ Goto(w, "rollback") /\ UNCHANGED <<active, slipped>>
     \/ /\ Ok /\ active' = active \cup {wk[w].jid} /\ slipped' = slipped \ {wk[w].jid}
        /\ wk' = [wk EXCEPT ![w].pc = "release", ![w].marked = TRUE]
  /\ UNCHANGED <<cursors, queue, inflight, activeSandboxes, world, boot, watching, poll, wt, ev,
                 msgs, tasks, crashes>>

(* Line 1081: releaseSlot, before the sandbox is wired up. *)
ReleaseSlot(w) ==
  /\ wk[w].pc = "release"
  /\ inflight' = inflight \ {wk[w].jid}
  /\ wk' = [wk EXCEPT ![w].pc = "subscribe", ![w].held = FALSE]
  /\ UNCHANGED <<cursors, queue, active, activeSandboxes, world, startup, poll, wt, ev, bounds>>

(* Lines 1094-1109: subscribe to the output and start watchGroupOutput; the  *)
(* bound on watchers counts as a failure to subscribe.                       *)
Subscribe(w) ==
  /\ wk[w].pc = "subscribe"
  /\ \/ /\ Fails \/ (Ok /\ \A v \in Watchers : wt[v].pc # "idle")
        /\ Goto(w, "rollback") /\ UNCHANGED wt
     \/ /\ Ok /\ Goto(w, "send")
        /\ \E v \in Watchers :
             /\ wt[v].pc = "idle"
             /\ wt' = [wt EXCEPT ![v] = [IdleWatcher EXCEPT !.pc = "loop", !.jid = wk[w].jid]]
  /\ UNCHANGED <<cursors, queue, spawnState, world, startup, poll, ev, msgs, tasks, crashes>>

(* Lines 1112-1120 and 917-929: send the batch to the new agent; when that   *)
(* works, the spawn has succeeded and what was sent counts as confirmed.     *)
SendInitial(w) ==
  /\ wk[w].pc = "send"
  /\ \/ Fails /\ Goto(w, "rollback") /\ UNCHANGED unconfirmed
     \/ /\ Ok /\ wk' = [wk EXCEPT ![w].pc = "exit", ![w].spawned = TRUE]
        /\ unconfirmed' = unconfirmed \ {wk[w].jid}
  /\ UNCHANGED <<unseen, backlog, queue, spawnState, world, startup, poll, wt, ev, msgs, tasks,
                 crashes>>

(* abortOnError runs the staged cleanups in the order they were staged.      *)

(* rollbackCursorStep, lines 950-960: back to the cursor before the batch,   *)
(* which may or may not have been confirmed.                                 *)
AbortRollback(w) ==
  /\ wk[w].pc = "rollback"
  /\ backlog' = backlog \cup {wk[w].jid}
  /\ unconfirmed' \in {unconfirmed, unconfirmed \ {wk[w].jid}}
  /\ Goto(w, IF wk[w].pod = None THEN "unstream" ELSE "stop")
  /\ UNCHANGED <<unseen, queue, spawnState, world, startup, poll, wt, ev, bounds>>

(* releaseOrphanedStreams, lines 1011-1017 and 1959-1982: the spawn failed   *)
(* before it had a sandbox.                                                  *)
AbortStreams(w) ==
  LET g == wk[w].jid IN
  /\ wk[w].pc = "unstream"
  /\ Goto(w, "exit")
  /\ \/ Ok /\ FastStart /\ ~HasActiveSandbox(g) /\ bye' = bye \ {g}
     \/ Ok /\ (~FastStart \/ HasActiveSandbox(g)) /\ UNCHANGED bye
     \/ Fails /\ FastStart /\ UNCHANGED bye
  /\ UNCHANGED <<cursors, queue, spawnState, pods, events, startup, poll, wt, ev, msgs, tasks,
                 crashes>>

(* Lines 1053-1061: StopSandbox (the removal itself is asynchronous) and     *)
(* delete the group's tracking entry, whatever it holds by now.              *)
AbortStop(w) ==
  LET p == wk[w].pod IN
  /\ wk[w].pc = "stop"
  /\ \/ /\ Ok
        /\ pods' = [pods EXCEPT ![p].state = IF @ = "running" THEN "stopping" ELSE @]
     \/ Fails /\ UNCHANGED pods
  /\ Untrack(wk[w].jid)
  /\ Goto(w, "purge")
  /\ UNCHANGED <<cursors, queue, active, inflight, events, bye, startup, poll, wt, ev, msgs,
                 tasks, crashes>>

(* Lines 1064-1068: DeleteStreams, unconditionally. *)
AbortPurge(w) ==
  /\ wk[w].pc = "purge"
  /\ \/ Ok /\ bye' = bye \ {wk[w].jid}
     \/ Fails /\ UNCHANGED bye
  /\ Goto(w, IF wk[w].marked THEN "unmark" ELSE "exit")
  /\ UNCHANGED <<cursors, queue, spawnState, pods, events, startup, poll, wt, ev, msgs, tasks,
                 crashes>>

(* Lines 1074-1078: MarkInactive. *)
AbortUnmark(w) ==
  /\ wk[w].pc = "unmark"
  /\ MarkInactive(wk[w].jid)
  /\ Goto(w, "exit")
  /\ UNCHANGED <<cursors, queue, inflight, activeSandboxes, world, startup, poll, wt, ev, msgs,
                 tasks, crashes>>

(* Moving the agent cursor back to the confirmed one uncovers the messages   *)
(* that had been sent and not confirmed.                                     *)
RollBackToConfirmed(g) ==
  /\ backlog' = backlog \cup ({g} \cap unconfirmed)
  /\ unconfirmed' = unconfirmed \ {g}

(* A panic in processGroupMessages: the recovery's section under o.mu,       *)
(* lines 777-795 and 1409-1427.                                              *)
Panic(w) ==
  LET g == wk[w].jid IN
  /\ wk[w].pc \notin {"idle", "exit", "panicked"}
  /\ Fails
  /\ Untrack(g)
  /\ RollBackToConfirmed(g)
  /\ Goto(w, IF activeSandboxes[g] # None THEN "panicked" ELSE "exit")
  /\ UNCHANGED <<unseen, queue, active, inflight, world, startup, poll, wt, ev, msgs, tasks,
                 crashes>>

(* Lines 797-807 and 1429-1439: the group was tracked, mark it inactive. *)
PanicUnmark(w) ==
  /\ wk[w].pc = "panicked"
  /\ MarkInactive(wk[w].jid)
  /\ Goto(w, "exit")
  /\ UNCHANGED <<cursors, queue, inflight, activeSandboxes, world, startup, poll, wt, ev, msgs,
                 tasks, crashes>>

(* Forms without the sync.Once, and without the deferred release. *)
ReleaseAgain(w) == inflight' = inflight \ {wk[w].jid}
ReleaseForgotten(w) == UNCHANGED inflight

(* The deferred release (776, 1408): through a sync.Once, so that it does    *)
(* nothing after ReleaseSlot.                                                *)
ReleaseOnce(w) == inflight' = IF wk[w].held THEN inflight \ {wk[w].jid} ELSE inflight

(* The goroutine ends: the dequeued message goes back to the queue unless a  *)
(* sandbox was spawned (1441-1463), and the slot is released.                *)
Exit(w) ==
  LET g == wk[w].jid
      unused == wk[w].qmsg /\ ~wk[w].spawned
  IN
  /\ wk[w].pc = "exit"
  /\ \/ Ok /\ unused /\ Enqueue(g)
     \/ Ok /\ ~unused /\ UNCHANGED queue
     \/ Fails /\ unused /\ UNCHANGED queue
  /\ ReleaseOnce(w)
  /\ wk' = [wk EXCEPT ![w] = IdleWorker]
  /\ UNCHANGED <<cursors, active, activeSandboxes, world, startup, poll, wt, ev, msgs, tasks,
                 crashes>>

SpawnStep(w) ==
  \/ Fetch(w) \/ CountActive(w) \/ Admit(w) \/ Create(w) \/ TrackCreated(w)
  \/ MarkActive(w) \/ ReleaseSlot(w) \/ Subscribe(w) \/ SendInitial(w)
  \/ AbortRollback(w) \/ AbortStreams(w) \/ AbortStop(w) \/ AbortPurge(w)
  \/ AbortUnmark(w) \/ PanicUnmark(w) \/ Exit(w)

-----------------------------------------------------------------------------
(* The output watchers: watchGroupOutput, handleIPCMessage, deactivate. *)

WatchGoto(v, pc) == wt' = [wt EXCEPT ![v].pc = pc]
WatchEnds(v) == wt' = [wt EXCEPT ![v] = IdleWatcher]

(* Lines 1583-1587 with 1600-1720: output from the agent, whose replies      *)
(* confirm everything sent to it so far (1635); or lines 1547-1563: a        *)
(* reconnect of the output subscription, taken as a sign of life too.        *)
Hear(v) ==
  /\ wt[v].pc = "loop"
  /\ wt' = [wt EXCEPT ![v].connected = TRUE]
  /\ unconfirmed' \in {unconfirmed, unconfirmed \ {wt[v].jid}}
  /\ UNCHANGED <<unseen, backlog, queue, spawnState, world, startup, poll, wk, ev, bounds>>

(* Lines 1587-1591 with 1723-1730: an IPCShutdown deletes the streams and    *)
(* ends the watcher.                                                         *)
ReceiveShutdown(v) ==
  /\ wt[v].pc = "loop" /\ wt[v].jid \in bye
  /\ bye' = bye \ {wt[v].jid}
  /\ WatchGoto(v, "isactive")
  /\ UNCHANGED <<cursors, queue, spawnState, pods, events, startup, poll, wk, ev, bounds>>

(* Lines 1504-1510: the startup deadline, ignored once the agent was heard;  *)
(* lines 1570-1577: the subscription could not be re-established; and        *)
(* lines 1476-1483: the watcher panicked.                                    *)
GiveUp(v) ==
  /\ wt[v].pc = "loop"
  /\ (Ok /\ ~wt[v].connected) \/ Fails
  /\ WatchGoto(v, "isactive")
  /\ UNCHANGED <<cursors, queue, spawnState, world, startup, poll, wk, ev, msgs, tasks, crashes>>

(* A form whose tick believes the active set rather than the cluster. *)
LivenessTickCached(v) ==
  /\ wt[v].pc = "loop" /\ wt[v].jid \notin active
  /\ WatchGoto(v, "isactive")
  /\ UNCHANGED <<cursors, queue, spawnState, world, startup, poll, wk, ev, bounds>>

(* Lines 1512-1529: the liveness tick asks Kubernetes about the folder. *)
LivenessTick(v) ==
  /\ wt[v].pc = "loop" /\ ~HasActiveSandbox(wt[v].jid)
  /\ WatchGoto(v, "isactive")
  /\ UNCHANGED <<cursors, queue, spawnState, world, startup, poll, wk, ev, bounds>>

(* deactivate, lines 1285-1295: stop when the group is already inactive; an  *)
(* error skips MarkInactive but not the recovery.                            *)
DeactivateCheck(v) ==
  /\ wt[v].pc = "isactive"
  /\ \/ Ok /\ wt[v].jid \notin active /\ WatchEnds(v)
     \/ Ok /\ wt[v].jid \in active /\ WatchGoto(v, "mark")
     \/ Fails /\ WatchGoto(v, "untrack")
  /\ UNCHANGED <<cursors, queue, spawnState, world, startup, poll, wk, ev, msgs, tasks, crashes>>

(* Lines 1296-1307: MarkInactive; when it fails, nothing more is done. *)
DeactivateMark(v) ==
  /\ wt[v].pc = "mark"
  /\ \/ Ok /\ active' = active \ {wt[v].jid} /\ WatchGoto(v, "untrack")
     \/ Fails /\ UNCHANGED active /\ WatchEnds(v)
  /\ UNCHANGED <<cursors, queue, inflight, activeSandboxes, world, startup, poll, wk, ev, msgs,
                 tasks, crashes>>

(* Lines 1310-1332: untrack and roll the agent cursor back. *)
DeactivateRollback(v) ==
  /\ wt[v].pc = "untrack"
  /\ Untrack(wt[v].jid)
  /\ RollBackToConfirmed(wt[v].jid)
  /\ WatchGoto(v, "pending")
  /\ UNCHANGED <<unseen, queue, active, inflight, world, startup, poll, wk, ev, bounds>>

(* Lines 1334-1376: look for pending messages, and dequeue a queue message.  *)
(* A failing check counts as pending.                                        *)
DeactivatePending(v) ==
  LET g == wt[v].jid
      Recover(qmsg) == wt' = [wt EXCEPT ![v].pc = "claim", ![v].qmsg = qmsg]
  IN
  /\ wt[v].pc = "pending"
  /\ \/ Ok /\ queue[g] > 0 /\ queue' = [queue EXCEPT ![g] = @ - 1] /\ Recover(TRUE)
     \/ Ok /\ queue[g] = 0 /\ g \in backlog /\ UNCHANGED queue /\ Recover(FALSE)
     \/ Ok /\ queue[g] = 0 /\ g \notin backlog /\ UNCHANGED queue /\ WatchEnds(v)
     \/ Fails /\ UNCHANGED queue /\ Recover(FALSE)
  /\ UNCHANGED <<cursors, spawnState, world, startup, poll, wk, ev, msgs, tasks, crashes>>

(* Lines 1378-1471: claim the slot for a recovery goroutine; when the slot   *)
(* is taken, put the dequeued message back.                                  *)
DeactivateRecover(v) ==
  LET g == wt[v].jid IN
  /\ wt[v].pc = "claim"
  /\ WatchEnds(v)
  /\ \/ /\ Ok /\ SlotFree(g) /\ ClaimSlot(g)
        /\ \E w \in Workers : StartWorker(w, g, wt[v].qmsg)
        /\ UNCHANGED queue
     \/ Ok /\ ~SlotFree(g) /\ wt[v].qmsg /\ Enqueue(g) /\ UNCHANGED <<inflight, wk>>
     \/ Ok /\ ~SlotFree(g) /\ ~wt[v].qmsg /\ UNCHANGED <<queue, inflight, wk>>
     \/ Fails /\ ~SlotFree(g) /\ wt[v].qmsg /\ UNCHANGED <<queue, inflight, wk>>
  /\ UNCHANGED <<cursors, active, activeSandboxes, world, startup, poll, ev, msgs, tasks,
                 crashes>>

WatchStep(v) ==
  \/ ReceiveShutdown(v) \/ LivenessTick(v) \/ DeactivateCheck(v) \/ DeactivateMark(v)
  \/ DeactivateRollback(v) \/ DeactivatePending(v) \/ DeactivateRecover(v)

-----------------------------------------------------------------------------
(* The sandbox event goroutine: handleSandboxEvent.  A terminal event is the *)
(* pod it is about.                                                          *)

(* Lines 1213-1228: the group has a tracked sandbox, and it is another one. *)
StaleEvent(p) == activeSandboxes[pods[p].jid] \notin {None, p}

(* Lines 1186-1228: resolve the group and drop stale events. *)
EventRead(p) ==
  /\ ev.pc = "idle" /\ p \in events
  /\ events' = events \ {p}
  /\ ev' = IF StaleEvent(p) THEN IdleEvent
           ELSE [pc |-> "isactive", jid |-> pods[p].jid, pod |-> p]
  /\ UNCHANGED <<cursors, queue, spawnState, pods, bye, startup, poll, wk, wt, bounds>>

(* Lines 1230-1249: an IsActive error is treated like an active group. *)
EventCheck ==
  /\ ev.pc = "isactive"
  /\ \/ Ok /\ ev.jid \notin active /\ ev' = IdleEvent
     \/ Ok /\ ev.jid \in active /\ ev' = [ev EXCEPT !.pc = "clear"]
     \/ Fails /\ ev' = [ev EXCEPT !.pc = "clear"]
  /\ UNCHANGED <<cursors, queue, spawnState, world, startup, poll, wk, wt, msgs, tasks, crashes>>

(* Lines 1234-1236 and 1256-1258: forget the tracked sandbox. *)
EventClear ==
  /\ ev.pc = "clear"
  /\ Untrack(ev.jid)
  /\ ev' = [ev EXCEPT !.pc = "unmark"]
  /\ UNCHANGED <<cursors, queue, active, inflight, world, startup, poll, wk, wt, bounds>>

(* Lines 1238-1241 and 1260-1263: MarkInactive. *)
EventUnmark ==
  /\ ev.pc = "unmark"
  /\ MarkInactive(ev.jid)
  /\ ev' = IdleEvent
  /\ UNCHANGED <<cursors, queue, inflight, activeSandboxes, world, startup, poll, wk, wt, msgs,
                 tasks, crashes>>

(* The watch drops an event when its channel is full (watcher.go 95-110). *)
EventLost(p) ==
  /\ p \in events /\ Fails
  /\ events' = events \ {p}
  /\ UNCHANGED <<cursors, queue, spawnState, pods, bye, startup, procs, msgs, tasks, crashes>>

(* sandboxWatcher (1124-1183): a watch reports what happens from its list    *)
(* on, not what it finds (watcher.go 28-44).                                 *)
WatchOpen ==
  /\ Running /\ ~watching
  /\ watching' = TRUE
  /\ UNCHANGED <<cursors, queue, spawnState, world, boot, slipped, procs, bounds>>

(* It ends, or its list fails, to be opened again after a backoff; the       *)
(* events in its channel are still read.                                     *)
WatchCloses ==
  /\ watching /\ Fails
  /\ watching' = FALSE
  /\ UNCHANGED <<cursors, queue, spawnState, world, boot, slipped, procs, msgs, tasks, crashes>>

EventStep == (\E p \in events : EventRead(p)) \/ EventCheck \/ EventClear \/ EventUnmark

-----------------------------------------------------------------------------
(* The environment, and the orchestrator's own restart. *)

(* A channel stores a user message: onInboundMessage (504-559). *)
StoreMessage(g) ==
  /\ msgs < MaxMessages /\ msgs' = msgs + 1
  /\ unseen' = unseen \cup {g} /\ backlog' = backlog \cup {g}
  /\ UNCHANGED <<unconfirmed, queue, spawnState, world, startup, procs, tasks, faults, crashes>>

(* The scheduler fires a task: executeScheduledTask (1758-1805) stores its   *)
(* prompt and enqueues it.  When that fails the row is deleted again, too    *)
(* late if it was polled in between, or not at all if the delete fails too.  *)
ExecuteTask(g) ==
  /\ tasks < MaxTasks /\ tasks' = tasks + 1
  /\ unseen' = unseen \cup {g} /\ backlog' = backlog \cup {g}
  /\ (Ok /\ Enqueue(g)) \/ (Fails /\ UNCHANGED queue)
  /\ UNCHANGED <<unconfirmed, spawnState, world, startup, procs, msgs, crashes>>

(* The end of sandbox p is an event of an open watch.  Without one, nobody   *)
(* hears of it who is not looking anyway.                                    *)
Report(p) ==
  LET g == pods[p].jid IN
  \/ /\ watching /\ events' = events \cup {p}
     /\ slipped' = IF StaleEvent(p) THEN slipped ELSE slipped \ {g}
  \/ /\ ~watching /\ UNCHANGED events
     /\ slipped' = IF g \in active /\ ~Unreconciled(g) THEN slipped \cup {g} ELSE slipped

(* The agent's process ends and its Sandbox completes, or is gone after a    *)
(* StopSandbox; the agent may have announced its end with an IPCShutdown     *)
(* (agent.go Run), or have crashed.                                          *)
AgentEnds(p) ==
  LET g == pods[p].jid IN
  /\ p \in LivePods(g)
  /\ pods' = [pods EXCEPT ![p].state = IF @ = "stopping" THEN "deleted" ELSE "done"]
  /\ Report(p)
  /\ bye' \in {bye, bye \cup {g}}
  /\ UNCHANGED <<cursors, queue, spawnState, boot, watching, procs, bounds>>

(* CleanupOrphans, every ten minutes (252-269), deletes a completed or       *)
(* failed Sandbox (cleanup.go 12-48).                                        *)
CleanupOrphan(p) ==
  /\ Running /\ pods[p].state = "done"
  /\ pods' = [pods EXCEPT ![p].state = "deleted"]
  /\ Report(p)
  /\ UNCHANGED <<cursors, queue, spawnState, bye, boot, watching, procs, bounds>>

(* The process dies at any point and is started again: Start (173-293) loads *)
(* the cursors.  A saved cursor may be older than the one that was in        *)
(* memory, so that messages become unseen or pending again: of any group     *)
(* here, a superset of what module MessageCursors makes exact.               *)
Stored == IF msgs + tasks > 0 THEN Groups ELSE {}

Crash ==
  /\ crashes < MaxCrashes /\ crashes' = crashes + 1
  /\ \E S \in SUBSET Stored : unseen' = unseen \cup S
  /\ \E S \in SUBSET Stored : backlog' = backlog \cup S
  /\ \E S \in SUBSET Stored : unconfirmed' = S
  /\ inflight' = {} /\ activeSandboxes' = [g \in Groups |-> None]
  /\ boot' = [pc |-> "clean", todo |-> {}] /\ watching' = FALSE /\ slipped' = {}
  /\ events' = {}
  /\ poll' = IdlePoll /\ ev' = IdleEvent
  /\ wk' = [w \in Workers |-> IdleWorker] /\ wt' = [v \in Watchers |-> IdleWatcher]
  /\ UNCHANGED <<queue, active, pods, bye, msgs, tasks, faults>>

(* What is left of reconcileActiveSet, or, after it, of Start. *)
Reconcile(todo) == boot' = [pc |-> IF todo = {} THEN "recover" ELSE "reconcile", todo |-> todo]

(* CleanupOrphans (242) deletes the Sandboxes that are finished; ActiveJIDs  *)
(* (1809) lists the active groups.                                           *)
BootClean ==
  /\ boot.pc = "clean"
  /\ \E D \in SUBSET {p \in Pods : pods[p].state = "done"}, todo \in {active, {}} :
       /\ \/ Ok /\ D = {p \in Pods : pods[p].state = "done"} /\ todo = active
          \/ Fails
       /\ pods' = [p \in Pods |-> IF p \in D THEN [pods[p] EXCEPT !.state = "deleted"] ELSE pods[p]]
       /\ Reconcile(todo)
  /\ UNCHANGED <<cursors, queue, spawnState, events, bye, watching, slipped, procs, msgs, tasks,
                 crashes>>

(* A form that trusts the active set. *)
BootReconcileSkipped(g) ==
  /\ boot.pc = "reconcile" /\ g \in boot.todo
  /\ Reconcile(boot.todo \ {g})
  /\ UNCHANGED <<cursors, queue, spawnState, world, watching, slipped, procs, bounds>>

(* reconcileActiveSet (1830-1875) for one group: a group without a running   *)
(* Sandbox becomes inactive.  Nobody spawns before this is over.             *)
BootReconcile(g) ==
  /\ boot.pc = "reconcile" /\ g \in boot.todo
  /\ Reconcile(boot.todo \ {g})
  /\ \/ Ok /\ active' = IF HasActiveSandbox(g) THEN active ELSE active \ {g}
     \/ Fails /\ UNCHANGED active
  /\ UNCHANGED <<cursors, queue, inflight, activeSandboxes, world, watching, slipped, procs, msgs,
                 tasks, crashes>>

(* recoverPendingMessages (1881-1918), concurrent with the message loop. *)
RecoverPending ==
  /\ boot.pc = "recover" /\ boot' = [boot EXCEPT !.pc = "up"]
  /\ \E S \in SUBSET backlog :
       /\ (Ok /\ S = backlog) \/ Fails
       /\ queue' = [g \in Groups |-> IF g \in S THEN queue[g] + 1 ELSE queue[g]]
  /\ UNCHANGED <<cursors, spawnState, world, watching, slipped, procs, msgs, tasks, crashes>>

BootStep == BootClean \/ (\E g \in Groups : BootReconcile(g)) \/ RecoverPending

-----------------------------------------------------------------------------
Environment ==
  \/ \E g \in Groups : StoreMessage(g) \/ ExecuteTask(g)
  \/ \E p \in Pods : AgentEnds(p) \/ CleanupOrphan(p) \/ EventLost(p)

Steps ==
  \/ PollStep
  \/ \E w \in Workers : SpawnStep(w) \/ Panic(w)
  \/ \E v \in Watchers : WatchStep(v) \/ Hear(v) \/ GiveUp(v)
  \/ EventStep \/ WatchOpen \/ WatchCloses
  \/ BootStep
  \/ Environment

Next == Steps \/ Crash

Spec == Init /\ [][Next]_vars

(* Goroutines are scheduled, tickers and timers fire, the periodic cleanup   *)
(* among them, and Kubernetes removes what it was told to remove.  Nothing   *)
(* is assumed of users, agents, crashes and failures.                        *)
Fairness ==
  /\ WF_vars(PollStep) /\ WF_vars(EventStep) /\ WF_vars(BootStep) /\ WF_vars(WatchOpen)
  /\ \A p \in Pods : WF_vars(CleanupOrphan(p))
  /\ \A w \in Workers : WF_vars(SpawnStep(w))
  /\ \A v \in Watchers : WF_vars(WatchStep(v))
  /\ \A p \in Pods : WF_vars(pods[p].state = "stopping" /\ AgentEnds(p))

FairSpec == Spec /\ Fairness

-----------------------------------------------------------------------------
(* Properties. *)

PollPCs == {"idle", "dispatch", "pipe", "advance", "claim"}
WorkerPCs == {"idle", "fetch", "count", "admit", "create", "track", "mark", "release",
              "subscribe", "send", "rollback", "unstream", "stop", "purge", "unmark", "panicked",
              "exit"}
WatcherPCs == {"idle", "loop", "isactive", "mark", "untrack", "pending", "claim"}

BootState == [pc : {"clean", "reconcile", "recover", "up"}, todo : SUBSET Groups]
PodState == [jid : Groups \cup {None},
             state : {"none", "running", "stopping", "done", "deleted"}]
PollState == [pc : PollPCs, todo : SUBSET Groups, jid : Groups \cup {None}]
WorkerState == [pc : WorkerPCs, jid : Groups \cup {None}, count : Nat, pod : Pods \cup {None},
                held : BOOLEAN, marked : BOOLEAN, spawned : BOOLEAN, qmsg : BOOLEAN]
WatcherState == [pc : WatcherPCs, jid : Groups \cup {None}, connected : BOOLEAN, qmsg : BOOLEAN]
EventState == [pc : {"idle", "isactive", "clear", "unmark"}, jid : Groups \cup {None},
               pod : Pods \cup {None}]

(* Types, among them that a slot or a sandbox is only given to a group. *)
TypeOK ==
  /\ unseen \subseteq Groups /\ backlog \subseteq Groups /\ unconfirmed \subseteq Groups
  /\ queue \in [Groups -> Nat]
  /\ active \subseteq Groups /\ inflight \subseteq Groups
  /\ activeSandboxes \in [Groups -> Pods \cup {None}]
  /\ pods \in [Pods -> PodState] /\ events \subseteq Pods /\ bye \subseteq Groups
  /\ boot \in BootState /\ watching \in BOOLEAN /\ slipped \subseteq Groups
  /\ poll \in PollState /\ ev \in EventState
  /\ wk \in [Workers -> WorkerState] /\ wt \in [Watchers -> WatcherState]
  /\ msgs \in 0..MaxMessages /\ tasks \in 0..MaxTasks
  /\ faults \in 0..MaxFaults /\ crashes \in 0..MaxCrashes

Holders == {w \in Workers : wk[w].held}

(* A group's in-flight slot is held by exactly one goroutine: the slot is in *)
(* inflightSandboxes from claimSandboxSlot until that goroutine, and no      *)
(* other, releases it, through early releases, deferred releases and panics. *)
(* So the log line "BUG: sandbox slot released on non-held slot" (827) is    *)
(* never reached, and no two goroutines spawn for one group under a slot.    *)
SlotExclusion ==
  /\ inflight = {wk[w].jid : w \in Holders}
  /\ \A w1, w2 \in Holders : wk[w1].jid = wk[w2].jid => w1 = w2

(* No group is marked active and forgotten: while is_active is set (1070),   *)
(* the group has a live sandbox, or a goroutine that is going to look at it: *)
(* the start of the orchestrator (1808), the spawn that marked it, until its *)
(* watcher runs, a watcher, or the sandbox event handler with an event of    *)
(* the group waiting (1186, 1267).  A forgotten group would take messages    *)
(* into the void and use up capacity.  The exception is a sandbox that ends  *)
(* between the look of reconcileActiveSet (1854) and the list of the new     *)
(* watch (watcher.go 30), until something of it is reported.                 *)
Attended(g) ==
  \/ HasActiveSandbox(g) \/ Unreconciled(g)
  \/ \E v \in Watchers : wt[v].jid = g /\ wt[v].pc \in {"loop", "isactive", "mark"}
  \/ \E w \in Workers :
       /\ wk[w].jid = g /\ wk[w].marked
       /\ wk[w].pc \in {"release", "subscribe", "rollback", "stop", "purge", "unmark", "panicked"}
  \/ \E p \in events : pods[p].jid = g
  \/ ev.jid = g
ActiveAttended == faults = 0 => \A g \in active \ slipped : Attended(g)

(* A claimed slot is released again, whatever happens to the spawn (776,     *)
(* 1081, 1408): a leaked slot would block its group until the restart.       *)
SlotsReleased == \A g \in Groups : []<>(g \notin inflight)

(* When the agent of an active group is gone the group stops being active,   *)
(* or gets a new sandbox: deactivate (1282), handleSandboxEvent (1186),      *)
(* reconcileActiveSet (1808), or, ten minutes later, the deletion of the     *)
(* Sandbox by CleanupOrphans (252) does it.  The exceptions: a call of them  *)
(* that fails (a deactivate whose MarkInactive fails, 1298-1306, leaves the  *)
(* group active), and a Sandbox that is deleted, and so never reported,      *)
(* between reconcileActiveSet and the list of the new watch.                 *)
DeadAgentNoticed ==
  \A g \in Groups : []<>(g \in active => HasActiveSandbox(g) \/ faults > 0 \/ g \in slipped)

(* The admission protocol, carried by the goroutines that hold a slot. *)
Holder(g) == CHOOSE w \in Holders : wk[w].jid = g
PhaseOf(pc) == CASE pc = "admit" -> "counted"
                 [] pc \in {"create", "track", "mark"} -> "admitted"
                 [] OTHER -> "held"
phase == [g \in Groups |-> IF g \in inflight THEN PhaseOf(wk[Holder(g)].pc) ELSE "none"]
seen == [g \in Groups |-> IF g \in inflight /\ wk[Holder(g)].pc = "admit"
                          THEN wk[Holder(g)].count ELSE 0]

Protocol == INSTANCE Admission WITH active <- active, phase <- phase, seen <- seen

(* The goroutines follow the protocol of module Admission, so its bound on   *)
(* the number of active groups is theirs.                                    *)
AdmissionProtocol == Protocol!Spec
=============================================================================
