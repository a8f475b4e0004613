------------------------------ MODULE MCFaults ------------------------------
(***************************************************************************)
(* The orchestrator and what it leans on when calls fail and processes     *)
(* die, in one model: SandboxLifecycle, SandboxWatch, GroupQueue and       *)
(* StatePersistence.  They share no state; a behaviour is one of a part,   *)
(* with the others where they start.                                       *)
(***************************************************************************)
EXTENDS SandboxLifecycle, SandboxWatch, GroupQueue, StatePersistence

VARIABLE part   \* the part that moves

InLifecycle(A) == part = "lifecycle" /\ A /\ UNCHANGED <<part, sandboxes, work, saving>>
InWatch(A) == part = "watch" /\ A /\ UNCHANGED <<part, vars, work, saving>>
InQueue(A) == part = "queue" /\ A /\ UNCHANGED <<part, vars, sandboxes, saving>>
InSaving(A) == part = "cursors" /\ A /\ UNCHANGED <<part, vars, sandboxes, work>>

MCInit ==
  /\ Init /\ WatchInit /\ QueueInit /\ SaveInit
  /\ part \in {"lifecycle", "watch", "queue", "cursors"}
MCNext ==
  \/ InLifecycle(Next) \/ InWatch(WatchNext) \/ InQueue(QueueNext) \/ InSaving(SaveNext)

MCSpec ==
  /\ MCInit /\ [][MCNext]_<<part, vars, sandboxes, work, saving>>
  /\ WF_vars(InLifecycle(PollStep)) /\ WF_vars(InLifecycle(EventStep))
  /\ WF_vars(InLifecycle(BootStep)) /\ WF_vars(InLifecycle(WatchOpen))
  /\ \A p \in Pods : WF_vars(InLifecycle(CleanupOrphan(p)))
  /\ \A w \in Workers : WF_vars(InLifecycle(SpawnStep(w)))
  /\ \A v \in Watchers : WF_vars(InLifecycle(WatchStep(v)))
  /\ \A p \in Pods : WF_vars(InLifecycle(pods[p].state = "stopping" /\ AgentEnds(p)))
  /\ WF_sandboxes(InWatch(Deliver)) /\ WF_sandboxes(InWatch(Handle))
  /\ WF_sandboxes(InWatch(RetryWatch \/ OpenWatch))
  /\ \A c \in Drains : WF_work(InQueue(Drain(c) \/ DrainStep(c)))
  /\ WF_work(InQueue(\E e \in stream : Offer(e)))
  /\ \A s \in Goroutines : WF_saving(InSaving(SaveStep(s)))
  /\ WF_saving(InSaving(MarkDirty)) /\ WF_saving(InSaving(Flush))

=============================================================================
