---------------------------- MODULE IPCStreams ----------------------------
(***************************************************************************)
(* The life of one group's IPC stream: who creates it, who deletes it, and *)
(* what the broker's streamCreated cache believes.                         *)
(*                                                                         *)
(*   spawnAgent                ensures stream and agent consumer, creates  *)
(*                             the sandbox, subscribes, sends; its cleanup *)
(*                             deletes the stream                          *)
(*   watchGroupOutput          re-subscribes when its iterator fails, and  *)
(*                             deletes the stream on an IPCShutdown        *)
(*   reconcileIPCStreams       deletes the stream of an unused group       *)
(*   handleSandboxEvent        marks the group of a gone sandbox inactive  *)
(*   pollMessages, /model      ensure it before they send to an agent; so  *)
(*   and the API               does the API before it reads output         *)
(*   the agent (pkg/agent)     fetches its consumer, ends when it cannot   *)
(*                                                                         *)
(* ensureStream and DeleteStreams are two steps each, on NATS and on the   *)
(* cache, and nothing orders them between goroutines.  Which messages lead *)
(* to a spawn is the subject of SandboxLifecycle: here one may start when  *)
(* the slot is free and the group inactive.  Spawn s, its sandbox and its  *)
(* watcher share the name.                                                 *)
(***************************************************************************)
EXTENDS Naturals

CONSTANTS
    Spawns,      \* spawns that may overlap
    FastStart,   \* cfg.K8s.FastStartEnabled
    None,        \* no sandbox
    Reconciler,  \* the goroutine of streamReconciler
    Handler,     \* the goroutine of sandboxWatcher
    Sender,      \* a goroutine that sends to the group's agent, or reads from it, by itself
    EnsureAttempts,    \* of ensureStreamForAgentWithRetry: 3
    ReconnectAttempts, \* len(ipcReconnectDelays): 4
    FetchAttempts,     \* of startReadInput: 5
    MaxClaims,   \* bound: spawns in a behaviour
    MaxEvents    \* bound: failing calls, agents that end by themselves, passes of the
                 \* reconciler and calls of the sender in a behaviour, together

Watcher(s) == <<"watcher", s>>
Watchers == {Watcher(s) : s \in Spawns}
Threads == Spawns \cup Watchers \cup {Reconciler, Handler, Sender}

ASSUME StreamsAssumption ==
    /\ FastStart \in BOOLEAN
    /\ {EnsureAttempts, ReconnectAttempts, FetchAttempts} \subseteq Nat \ {0}
    /\ MaxClaims \in Nat /\ MaxEvents \in Nat
    /\ {Reconciler, Handler, Sender} \cap (Spawns \cup Watchers) = {} /\ Spawns \cap Watchers = {}
    /\ Reconciler \notin {Handler, Sender} /\ Handler # Sender

VARIABLES
    stream,  \* NATS: the stream exists
    input,   \* NATS: it has the consumer "agent-<id>"
    bound,   \* readers whose consumer still exists: agents and watchers
    bye,     \* NATS: an IPCShutdown is waiting in it
    cache,   \* b.streamCreated
    slot,    \* o.inflightSandboxes
    active,  \* groups.is_active
    agent,   \* the sandbox of each spawn: "none", "starting", "fetching",
             \* "reading"
    tracked, \* o.activeSandboxes
    ended,   \* sandboxes that are gone, their event not handled yet
    stopped, \* sandboxes StopSandbox was called for
    tries,   \* of the agents
    th,      \* the goroutines
    late,    \* a spawn has started since the reconciler looked at the slot
    crossed, \* the stream was deleted while an ensureStream had created it and not
             \* yet stored that
    claims, happened

nats == <<stream, input, bound, bye>>
group == <<slot, active, late>>
events == <<tracked, ended>>
pods == <<agent, stopped, tries>>
vars == <<nats, cache, crossed, group, events, pods, th, claims, happened>>

Idle == [pc |-> "idle", then |-> "idle", else |-> "idle", tries |-> 0,
         created |-> FALSE, marked |-> FALSE, holds |-> FALSE, connected |-> FALSE]

Start ==
    /\ stream = FALSE /\ input = FALSE /\ bound = {} /\ bye = FALSE /\ cache = FALSE
    /\ crossed = FALSE
    /\ slot = FALSE /\ active = FALSE /\ late = FALSE
    /\ agent = [s \in Spawns |-> "none"] /\ stopped = {} /\ tries = [s \in Spawns |-> 0]
    /\ tracked = None /\ ended = {}
    /\ th = [t \in Threads |-> Idle]

Init == Start /\ claims = 0 /\ happened = 0

Happens == happened < MaxEvents /\ happened' = happened + 1
Ok == UNCHANGED happened
Fails == Happens
Goto(t, pc) == th' = [th EXCEPT ![t].pc = pc]
Call(t, call, then, else) ==
    th' = [th EXCEPT ![t] = [@ EXCEPT !.pc = call, !.then = then, !.else = else]]

(* HasActiveSandbox: a stopped sandbox counts until Kubernetes has removed it. *)
HasActiveSandbox == \E s \in Spawns : agent[s] # "none"

----------------------------------------------------------------------------
(* The broker's calls, on behalf of any goroutine. *)

(* ensureStream: nothing to do when the cache knows the stream. *)
EnsureCached(t) ==
    /\ th[t].pc = "ensure" /\ cache
    /\ Goto(t, th[t].then)
    /\ UNCHANGED <<nats, cache, crossed, group, events, pods, claims, happened>>

(* Otherwise it is created, and then remembered. *)
EnsureCreate(t) ==
    /\ th[t].pc = "ensure" /\ ~cache
    /\ \/ Ok /\ stream' = TRUE /\ crossed' = FALSE /\ Goto(t, "store")
       \/ Fails /\ UNCHANGED <<stream, crossed>> /\ Goto(t, th[t].else)
    /\ UNCHANGED <<input, bound, bye, cache, group, events, pods, claims>>

EnsureStore(t) ==
    /\ th[t].pc = "store"
    /\ cache' = TRUE
    /\ Goto(t, th[t].then)
    /\ UNCHANGED <<nats, crossed, group, events, pods, claims, happened>>

(* Some ensureStream has created the stream and not yet stored that. *)
Storing == \E t \in Threads : th[t].pc = "store"

(* DeleteStreams: the stream goes with its consumers and messages. *)
DeleteStream(t) ==
    /\ th[t].pc = "delete"
    /\ \/ /\ Ok /\ Goto(t, "forget")
          /\ stream' = FALSE /\ input' = FALSE /\ bound' = {} /\ bye' = FALSE
          /\ crossed' = Storing
       \/ Fails /\ Goto(t, th[t].then) /\ UNCHANGED <<nats, crossed>>
    /\ UNCHANGED <<cache, group, events, pods, claims>>

(* A form that keeps the cache entry. *)
DeleteRemembers(t) ==
    /\ th[t].pc = "forget"
    /\ Goto(t, th[t].then)
    /\ UNCHANGED <<nats, cache, crossed, group, events, pods, claims, happened>>

(* A stream that was not found is forgotten as well. *)
DeleteForget(t) ==
    /\ th[t].pc = "forget"
    /\ cache' = FALSE
    /\ crossed' = (crossed /\ Storing)
    /\ Goto(t, th[t].then)
    /\ UNCHANGED <<nats, group, events, pods, claims, happened>>

BrokerStep(t) ==
    EnsureCached(t) \/ EnsureCreate(t) \/ EnsureStore(t) \/ DeleteStream(t) \/ DeleteForget(t)

----------------------------------------------------------------------------
(* spawnAgent. *)

(* The slot is claimed; a fast start ensures the stream before all else. *)
Claim(s) ==
    /\ th[s].pc = "idle" /\ th[Watcher(s)].pc = "idle" /\ agent[s] = "none"
    /\ s \notin ended
    /\ ~slot /\ slot' = TRUE
    /\ ~active
    /\ claims < MaxClaims /\ claims' = claims + 1
    /\ late' = TRUE
    /\ th' = [th EXCEPT ![s] =
                 IF FastStart
                 THEN [Idle EXCEPT !.pc = "ensure", !.then = "consumer", !.else = "again",
                                   !.holds = TRUE]
                 ELSE [Idle EXCEPT !.pc = "create", !.holds = TRUE]]
    /\ UNCHANGED <<nats, cache, crossed, active, events, pods, happened>>

(* EnsureStreamForAgent creates the agent's consumer, in an existing stream. *)
EnsureConsumer(s) ==
    /\ th[s].pc = "consumer"
    /\ \/ Ok /\ stream /\ input' = TRUE /\ Goto(s, "create")
       \/ (Fails \/ (Ok /\ ~stream)) /\ UNCHANGED input /\ Goto(s, "again")
    /\ UNCHANGED <<stream, bound, bye, cache, crossed, group, events, pods, claims>>

(* ensureStreamForAgentWithRetry. *)
EnsureAgain(s) ==
    /\ th[s].pc = "again"
    /\ th' = [th EXCEPT ![s] =
                 [@ EXCEPT !.tries = th[s].tries + 1,
                           !.pc = IF th[s].tries + 1 < EnsureAttempts THEN "ensure" ELSE "abort"]]
    /\ UNCHANGED <<nats, cache, crossed, group, events, pods, claims, happened>>

(* Every attempt of CreateSandbox may fail, the last one with the sandbox there. *)
Create(s) ==
    /\ th[s].pc = "create"
    /\ \/ /\ Ok /\ agent' = [agent EXCEPT ![s] = "starting"]
          /\ tracked' = s
          /\ th' = [th EXCEPT ![s] = [@ EXCEPT !.pc = "mark", !.created = TRUE]]
       \/ /\ Fails /\ Goto(s, "abort")
          /\ agent' \in {agent, [agent EXCEPT ![s] = "starting"]}
          /\ UNCHANGED tracked
    /\ UNCHANGED <<nats, cache, crossed, group, ended, stopped, tries, claims>>

MarkActive(s) ==
    /\ th[s].pc = "mark"
    /\ \/ Ok /\ active' = TRUE /\ th' = [th EXCEPT ![s] = [@ EXCEPT !.pc = "unslot", !.marked = TRUE]]
       \/ Fails /\ Goto(s, "abort") /\ UNCHANGED active
    /\ UNCHANGED <<nats, cache, crossed, slot, late, events, pods, claims>>

ReleaseSlot(s) ==
    /\ th[s].pc = "unslot"
    /\ slot' = FALSE
    /\ th' = [th EXCEPT ![s] = [@ EXCEPT !.pc = "ensure", !.then = "subscribe", !.else = "abort",
                                          !.holds = FALSE]]
    /\ UNCHANGED <<nats, cache, crossed, active, late, events, pods, claims, happened>>

(* SubscribeOutput creates the server's consumer; the watcher starts. *)
Subscribe(s) ==
    /\ th[s].pc = "subscribe"
    /\ \/ /\ Ok /\ stream
          /\ bound' = bound \cup {Watcher(s)}
          /\ th' = [th EXCEPT ![s] = [@ EXCEPT !.pc = "ensure", !.then = "send", !.else = "abort"],
                              ![Watcher(s)] = [@ EXCEPT !.pc = "watch"]]
       \/ (Fails \/ (Ok /\ ~stream)) /\ UNCHANGED bound /\ Goto(s, "abort")
    /\ UNCHANGED <<stream, input, bye, cache, crossed, group, events, pods, claims>>

(* SendInput publishes the initial batch. *)
SendInput(s) ==
    /\ th[s].pc = "send"
    /\ \/ Ok /\ stream /\ th' = [th EXCEPT ![s] = Idle]
       \/ (Fails \/ (Ok /\ ~stream)) /\ Goto(s, "abort")
    /\ UNCHANGED <<nats, cache, crossed, group, events, pods, claims>>

(* abortOnError, first part: without a sandbox, releaseOrphanedStreams unless another
   sandbox of the group is up; with one, it is stopped and the stream deleted. *)
Abort(s) ==
    /\ th[s].pc = "abort"
    /\ tracked' = IF th[s].created THEN None ELSE tracked
    /\ \/ /\ Ok
          /\ stopped' = IF th[s].created /\ agent[s] # "none" THEN stopped \cup {s} ELSE stopped
          /\ IF th[s].created \/ (FastStart /\ ~HasActiveSandbox)
             THEN Call(s, "delete", "exit", "exit")
             ELSE Goto(s, "exit")
       \/ /\ Fails /\ UNCHANGED stopped
          /\ IF th[s].created THEN Call(s, "delete", "exit", "exit") ELSE Goto(s, "exit")
    /\ UNCHANGED <<nats, cache, crossed, group, ended, agent, tries, claims>>

(* abortOnError, last part: MarkInactive; the deferred release of the slot. *)
Exit(s) ==
    /\ th[s].pc = "exit"
    /\ \/ Ok /\ active' = (active /\ ~th[s].marked)
       \/ Fails /\ th[s].marked /\ UNCHANGED active
    /\ slot' = (slot /\ ~th[s].holds)
    /\ th' = [th EXCEPT ![s] = Idle]
    /\ UNCHANGED <<nats, cache, crossed, late, events, pods, claims>>

SpawnStep(s) ==
    \/ EnsureConsumer(s) \/ EnsureAgain(s) \/ Create(s) \/ MarkActive(s) \/ ReleaseSlot(s)
    \/ Subscribe(s) \/ SendInput(s) \/ Abort(s) \/ Exit(s)

----------------------------------------------------------------------------
(* watchGroupOutput. *)

(* The iterator fails because its consumer was deleted. *)
WatchLost(s) ==
    LET w == Watcher(s) IN
    /\ th[w].pc = "watch" /\ w \notin bound
    /\ th' = [th EXCEPT ![w] = [@ EXCEPT !.pc = "ensure", !.then = "resubscribe", !.else = "retry",
                                          !.tries = 0]]
    /\ UNCHANGED <<nats, cache, crossed, group, events, pods, claims, happened>>

Resubscribe(s) ==
    LET w == Watcher(s) IN
    /\ th[w].pc = "resubscribe"
    /\ \/ Ok /\ stream /\ bound' = bound \cup {w}
          /\ th' = [th EXCEPT ![w] = [Idle EXCEPT !.pc = "watch", !.connected = TRUE]]
       \/ (Fails \/ (Ok /\ ~stream)) /\ UNCHANGED bound /\ Goto(w, "retry")
    /\ UNCHANGED <<stream, input, bye, cache, crossed, group, events, pods, claims>>

Retry(s) ==
    LET w == Watcher(s) IN
    /\ th[w].pc = "retry"
    /\ th' = [th EXCEPT ![w] =
                 [@ EXCEPT !.tries = th[w].tries + 1,
                           !.pc = IF th[w].tries + 1 < ReconnectAttempts THEN "ensure"
                                  ELSE "deactivate"]]
    /\ UNCHANGED <<nats, cache, crossed, group, events, pods, claims, happened>>

(* An IPCShutdown: the stream is deleted, the group deactivated. *)
WatchShutdown(s) ==
    LET w == Watcher(s) IN
    /\ th[w].pc = "watch" /\ w \in bound /\ bye
    /\ bye' = FALSE
    /\ Call(w, "delete", "deactivate", "deactivate")
    /\ UNCHANGED <<stream, input, bound, cache, crossed, group, events, pods, claims, happened>>

(* The liveness tick finds no sandbox. *)
WatchDead(s) ==
    LET w == Watcher(s) IN
    /\ th[w].pc = "watch" /\ ~HasActiveSandbox
    /\ Goto(w, "deactivate")
    /\ UNCHANGED <<nats, cache, crossed, group, events, pods, claims, happened>>

(* The startup deadline passes before the agent has been heard of. *)
WatchTimeout(s) ==
    LET w == Watcher(s) IN
    /\ th[w].pc = "watch" /\ ~th[w].connected
    /\ Goto(w, "deactivate")
    /\ UNCHANGED <<nats, cache, crossed, group, events, pods, claims, happened>>

(* deactivate, as far as it concerns streams: an inactive group is left alone.  When
   MarkInactive fails so is the tracked sandbox, when IsActive fails it is dropped. *)
Deactivate(s) ==
    LET w == Watcher(s) IN
    /\ th[w].pc = "deactivate"
    /\ \/ Ok /\ active' = FALSE /\ tracked' = IF active THEN None ELSE tracked
       \/ Fails /\ tracked' \in {tracked, None} /\ UNCHANGED active
    /\ th' = [th EXCEPT ![w] = Idle]
    /\ UNCHANGED <<nats, cache, crossed, slot, late, ended, pods, claims>>

WatchStep(s) ==
    \/ WatchLost(s) \/ Resubscribe(s) \/ Retry(s) \/ WatchShutdown(s) \/ WatchDead(s)
    \/ Deactivate(s)

----------------------------------------------------------------------------
(* handleSandboxEvent, which runs for one event at a time. *)

(* The end of s is stale when another sandbox is tracked. *)
EventCheck(s) ==
    /\ th[Handler].pc = "idle"
    /\ s \in ended /\ ended' = ended \ {s}
    /\ IF tracked \in {None, s} THEN Goto(Handler, "clear") ELSE UNCHANGED th
    /\ UNCHANGED <<nats, cache, crossed, group, tracked, pods, claims, happened>>

(* IsActive: what is tracked by now is dropped, also when the call fails. *)
EventClear ==
    /\ th[Handler].pc = "clear"
    /\ \/ Ok /\ ~active /\ Goto(Handler, "idle") /\ UNCHANGED tracked
       \/ (Fails \/ (Ok /\ active)) /\ Goto(Handler, "unmark") /\ tracked' = None
    /\ UNCHANGED <<nats, cache, crossed, group, ended, pods, claims>>

EventUnmark ==
    /\ th[Handler].pc = "unmark"
    /\ \/ Ok /\ active' = FALSE
       \/ Fails /\ UNCHANGED active
    /\ Goto(Handler, "idle")
    /\ UNCHANGED <<nats, cache, crossed, slot, late, events, pods, claims>>

EventStep == EventClear \/ EventUnmark \/ \E s \in Spawns : EventCheck(s)

----------------------------------------------------------------------------
(* The other callers of ensureStream: SendInput of pollMessages and of /model, to a
   group that is active; PipeSandboxInput, CreateSandbox and StreamSandboxOutput of the
   API, for any group. *)
SenderCalls ==
    /\ th[Sender].pc = "idle" /\ Happens
    /\ Call(Sender, "ensure", "deliver", "idle")
    /\ UNCHANGED <<nats, cache, crossed, group, events, pods, claims>>

(* What it sends changes no stream; what it reads it takes from the watchers' consumer. *)
SenderEnds ==
    /\ th[Sender].pc = "deliver"
    /\ th' = [th EXCEPT ![Sender] = Idle]
    /\ bye' \in {bye, FALSE}
    /\ UNCHANGED <<stream, input, bound, cache, crossed, group, events, pods, claims, happened>>

----------------------------------------------------------------------------
(* The agent: startReadInput, and what ends it. *)

(* The agent is gone, and so is its sandbox. *)
Ends(s) ==
    /\ agent' = [agent EXCEPT ![s] = "none"] /\ tries' = [tries EXCEPT ![s] = 0]
    /\ bound' = bound \ {s}
    /\ stopped' = stopped \ {s}
    /\ ended' = ended \cup {s}
    /\ UNCHANGED <<stream, input, cache, crossed, group, tracked, th, claims>>

(* SendOutput of an IPCShutdown, when there is a stream to send it to. *)
SaysBye == bye' = (bye \/ stream)

(* The pod runs.  Without a fast start the agent ensures the stream itself. *)
AgentStarts(s) ==
    /\ agent[s] = "starting"
    /\ agent' = [agent EXCEPT ![s] = "fetching"]
    /\ stream' = (stream \/ ~FastStart)
    /\ UNCHANGED <<input, bound, bye, cache, crossed, group, events, stopped, tries, th, claims, happened>>

AgentFetches(s) ==
    /\ agent[s] = "fetching" /\ input
    /\ agent' = [agent EXCEPT ![s] = "reading"] /\ tries' = [tries EXCEPT ![s] = 0]
    /\ bound' = bound \cup {s}
    /\ UNCHANGED <<stream, input, bye, cache, crossed, group, events, stopped, th, claims, happened>>

AgentRetries(s) ==
    /\ agent[s] = "fetching" /\ ~input /\ tries[s] + 1 < FetchAttempts
    /\ tries' = [tries EXCEPT ![s] = @ + 1]
    /\ UNCHANGED <<nats, cache, crossed, group, events, agent, stopped, th, claims, happened>>

(* No consumer after five attempts, a deleted consumer, or a SIGTERM. *)
AgentFails(s) ==
    /\ \/ agent[s] = "fetching" /\ ~input /\ tries[s] + 1 = FetchAttempts
       \/ agent[s] = "reading" /\ s \notin bound
       \/ agent[s] \in {"fetching", "reading"} /\ s \in stopped
    /\ SaysBye
    /\ Ends(s) /\ Ok

(* A sandbox that is stopped before its agent runs. *)
AgentNeverRuns(s) ==
    /\ agent[s] = "starting" /\ s \in stopped
    /\ Ends(s) /\ Ok /\ UNCHANGED bye

(* The agent ends on its own, or its pod is lost. *)
AgentQuits(s) ==
    /\ agent[s] # "none"
    /\ Happens
    /\ UNCHANGED bye \/ (agent[s] = "reading" /\ SaysBye)
    /\ Ends(s)

AgentStep(s) ==
    AgentStarts(s) \/ AgentFetches(s) \/ AgentRetries(s) \/ AgentFails(s) \/ AgentNeverRuns(s)

----------------------------------------------------------------------------
(* reconcileIPCStreams for the group. *)
Reconcile(pc) == th' = [th EXCEPT ![Reconciler].pc = pc]

ReconcileSlot ==
    /\ th[Reconciler].pc = "idle" /\ Happens
    /\ late' = FALSE
    /\ IF slot THEN UNCHANGED th ELSE Reconcile("active")
    /\ UNCHANGED <<nats, cache, crossed, slot, active, events, pods, claims>>

(* A form that looks at the sandboxes only. *)
ReconcileActiveSkipped ==
    /\ th[Reconciler].pc = "active"
    /\ Ok /\ Reconcile("sandbox")
    /\ UNCHANGED <<nats, cache, crossed, group, events, pods, claims>>

(* A failing check skips the group. *)
ReconcileActive ==
    /\ th[Reconciler].pc = "active"
    /\ \/ Ok /\ Reconcile(IF active THEN "idle" ELSE "sandbox")
       \/ Fails /\ Reconcile("idle")
    /\ UNCHANGED <<nats, cache, crossed, group, events, pods, claims>>

ReconcileSandbox ==
    /\ th[Reconciler].pc = "sandbox"
    /\ \/ Ok /\ Reconcile(IF HasActiveSandbox THEN "idle" ELSE "exists")
       \/ Fails /\ Reconcile("idle")
    /\ UNCHANGED <<nats, cache, crossed, group, events, pods, claims>>

ReconcileExists ==
    /\ th[Reconciler].pc = "exists"
    /\ \/ Ok /\ IF stream THEN Call(Reconciler, "delete", "idle", "idle") ELSE Reconcile("idle")
       \/ Fails /\ Reconcile("idle")
    /\ UNCHANGED <<nats, cache, crossed, group, events, pods, claims>>

ReconcileStep == ReconcileSlot \/ ReconcileActive \/ ReconcileSandbox \/ ReconcileExists

Next ==
    \/ \E t \in Threads : BrokerStep(t)
    \/ \E s \in Spawns : Claim(s) \/ SpawnStep(s) \/ WatchStep(s) \/ WatchTimeout(s)
                       \/ AgentStep(s) \/ AgentQuits(s)
    \/ ReconcileStep \/ EventStep \/ SenderCalls \/ SenderEnds

Spec == Init /\ [][Next]_vars

(* Goroutines and agents are scheduled, the liveness ticker fires, and messages of the
   group keep asking for an agent.  No agent has to quit, no pass has to be made. *)
Fairness ==
    /\ \A t \in Threads : WF_vars(BrokerStep(t))
    /\ \A s \in Spawns : /\ WF_vars(SpawnStep(s)) /\ WF_vars(WatchStep(s))
                         /\ WF_vars(AgentStep(s)) /\ WF_vars(Claim(s))
    /\ WF_vars(EventStep)

FairSpec == Spec /\ Fairness

----------------------------------------------------------------------------
(* Properties. *)

ThreadState ==
    [pc : {"idle", "ensure", "store", "delete", "forget", "consumer", "again", "create", "mark",
           "unslot", "subscribe", "send", "abort", "exit", "watch", "resubscribe", "retry",
           "deactivate", "active", "sandbox", "exists", "clear", "unmark", "deliver"},
     then : STRING, else : STRING, tries : 0..(EnsureAttempts + ReconnectAttempts),
     created : BOOLEAN, marked : BOOLEAN, holds : BOOLEAN, connected : BOOLEAN]

(* Types, among them the retry counters; consumers and messages go with their stream. *)
TypeOK ==
    /\ {stream, input, bye, cache, slot, active, late, crossed} \subseteq BOOLEAN
    /\ bound \subseteq Threads
    /\ agent \in [Spawns -> {"none", "starting", "fetching", "reading"}]
    /\ tracked \in Spawns \cup {None} /\ ended \subseteq Spawns /\ stopped \subseteq Spawns
    /\ tries \in [Spawns -> 0..FetchAttempts]
    /\ th \in [Threads -> ThreadState]
    /\ claims \in 0..MaxClaims /\ happened \in 0..MaxEvents
    /\ (bye \/ input \/ bound # {}) => stream

(* reconcileIPCStreams looks at the slot, then at is_active, then at the sandboxes, in the
   order in which a spawn passes through them (1070, 1081), so a spawn that had its slot
   before the pass is never mistaken for an orphan: the pass deletes a stream that is in
   use only when the spawn started after its first look. *)
ReconcilerSparesSpawns ==
    th[Reconciler].pc = "delete" /\ ~late => ~slot /\ ~active /\ ~HasActiveSandbox

(* streamCreated names a stream that does not exist, and so makes a spawn fail, only while
   the DeleteStreams that removed the stream has still to drop the entry, or when it came
   between the create and the store of an ensureStream; that exception ends with the next
   stream that is created, or entry that is dropped.  So the cleanup of a spawn that found
   the entry and no stream heals it for the next. *)
CacheHonest ==
    cache /\ ~stream => crossed \/ \E t \in Threads : th[t].pc = "forget"

(* As long as nothing else happens to it, an agent that looks for its consumer finds it and
   reads its input, unless it is stopped. *)
AgentsComeUp ==
    \A s \in Spawns : agent[s] = "fetching" ~> agent[s] = "reading" \/ s \in stopped
=============================================================================
