---------------------------- MODULE SandboxWatch ----------------------------
(***************************************************************************)
(* From the cluster to the handlers of sandbox events: WatchSandboxes of   *)
(* internal/sandbox/watcher.go and the loops that read it, sandboxWatcher  *)
(* of the orchestrator, which opens a new watch when one ends, and         *)
(* watchSandboxEvents of the server, which does not.  A watch starts at    *)
(* the resource version of a list, so a session sees every change after    *)
(* its start and none before.                                              *)
(*                                                                         *)
(* The cluster's history is the sequence log; an event is its position in  *)
(* it.                                                                     *)
(***************************************************************************)
EXTENDS Naturals, Sequences, FiniteSets, Functions, TLC

CONSTANTS
  SandboxNames,  \* sandbox names; a name may be used again after a deletion
  SandboxPhases, \* the phases a condition can show: PodScheduled, Ready
  Buffer,     \* the size of the event channel (64)
  MaxSeen,    \* names remembered in a session before the memory is dropped (1000)
  MaxLog      \* bound: changes in the cluster

VARIABLES
  log,        \* the changes in the cluster
  watch,      \* the session: off, open, or ended with events left in the channel
  start,      \* the list's position in the log
  pos,        \* the last position taken from the watch
  chan,       \* events in the channel
  held,       \* a deletion waiting for room in the channel, or 0
  recorded,   \* phases already recorded, by name; a name is there once it was met
  handled     \* events handled in this session

session == <<watch, start, pos, chan, held, recorded, handled>>
sandboxes == <<log, session>>

WatchInit ==
  /\ log = <<>> /\ watch = "off" /\ start = 0 /\ pos = 0
  /\ chan = <<>> /\ held = 0 /\ handled = <<>>
  /\ recorded = <<>>

-----------------------------------------------------------------------------
(* The cluster.                                                             *)

Of(n) == SelectSeq(log, LAMBDA e : e.name = n)
Latest(n) == Of(n)[Len(Of(n))]
Alive(n) == Of(n) # <<>> /\ Latest(n).type # "deleted"

Change(n) ==
  /\ Len(log) < MaxLog
  /\ \/ /\ ~Alive(n)
        /\ log' = Append(log, [name |-> n, type |-> "added", phases |-> {}])
     \/ /\ Alive(n)
        /\ \E ps \in SUBSET SandboxPhases :
             log' = Append(log, [Latest(n) EXCEPT !.type = "updated", !.phases = ps])
     \/ /\ Alive(n)
        /\ log' = Append(log, [Latest(n) EXCEPT !.type = "deleted"])
  /\ UNCHANGED session

-----------------------------------------------------------------------------
(* WatchSandboxes.                                                          *)

\* The list anchors the watch; seen belongs to the session.
OpenWatch ==
  /\ watch = "off" /\ watch' = "open"
  /\ start' = Len(log) /\ pos' = Len(log)
  /\ recorded' = <<>> /\ handled' = <<>>
  /\ UNCHANGED <<log, chan, held>>

RecordedOf(n) == IF n \in DOMAIN recorded THEN recorded[n] ELSE {}

\* recordPhaseTransitions: a phase with an implausible time is passed over and may be
\* recorded later.  Beyond MaxSeen names everything is forgotten.
Record(e) ==
  \E new \in SUBSET (e.phases \ RecordedOf(e.name)) :
    LET now == (e.name :> (RecordedOf(e.name) \cup new)) @@ recorded
    IN  recorded' = IF Cardinality(DOMAIN now) > MaxSeen THEN <<>> ELSE now

Forget(e) == recorded' = Restrict(recorded, DOMAIN recorded \ {e.name})

\* Variant: a deletion is dropped like any other event.
SendAny(i) ==
  /\ chan' = IF Len(chan) < Buffer THEN Append(chan, i) ELSE chan
  /\ UNCHANGED held

\* An event for which the channel has no room is dropped, a deletion waits.
Send(i) ==
  IF Len(chan) < Buffer THEN chan' = Append(chan, i) /\ UNCHANGED held
  ELSE /\ held' = IF log[i].type = "deleted" THEN i ELSE 0
       /\ UNCHANGED chan

Take ==
  /\ watch = "open" /\ held = 0 /\ pos < Len(log)
  /\ pos' = pos + 1
  /\ IF log[pos + 1].type = "deleted" THEN Forget(log[pos + 1]) ELSE Record(log[pos + 1])
  /\ Send(pos + 1)
  /\ UNCHANGED <<log, watch, start, handled>>

\* Variant: the deletion waits for an empty channel and a further change.
SendHeldLate ==
  /\ held # 0 /\ chan = <<>> /\ pos < Len(log)
  /\ chan' = Append(chan, held) /\ held' = 0
  /\ UNCHANGED <<log, watch, start, pos, recorded, handled>>

SendHeld ==
  /\ held # 0 /\ Len(chan) < Buffer
  /\ chan' = Append(chan, held) /\ held' = 0
  /\ UNCHANGED <<log, watch, start, pos, recorded, handled>>

\* The API server ends the watch; a goroutine that waits for room does not notice.
SessionEnds ==
  /\ watch = "open" /\ held = 0
  /\ watch' = "ended"
  /\ UNCHANGED <<log, start, pos, chan, held, recorded, handled>>

-----------------------------------------------------------------------------
(* The readers.                                                             *)

Handle ==
  /\ chan # <<>>
  /\ handled' = Append(handled, Head(chan)) /\ chan' = Tail(chan)
  /\ UNCHANGED <<log, watch, start, pos, held, recorded>>

\* The closed channel has been read to its end: back to the loop, which opens again.
RetryWatch ==
  /\ watch = "ended" /\ chan = <<>>
  /\ watch' = "off"
  /\ UNCHANGED <<log, start, pos, chan, held, recorded, handled>>

Deliver == Take \/ SendHeld

WatchNext ==
  \/ \E n \in SandboxNames : Change(n)
  \/ OpenWatch \/ Deliver \/ SessionEnds \/ Handle \/ RetryWatch

\* The goroutines run on, and the retry loop waits at most maxBackoff.
WatchSpec ==
  /\ WatchInit /\ [][WatchNext]_sandboxes
  /\ WF_sandboxes(Deliver) /\ WF_sandboxes(Handle) /\ WF_sandboxes(RetryWatch \/ OpenWatch)

-----------------------------------------------------------------------------
(* Properties.                                                              *)

Delivered == handled \o chan \o (IF held = 0 THEN <<>> ELSE <<held>>)

\* However slow the reader is, what a session delivers is in the cluster's order,
\* each event once, and no deletion it has taken is missing.
DeletionsKept ==
  /\ \A i, j \in 1..Len(Delivered) : i < j => Delivered[i] < Delivered[j]
  /\ \A i \in (start + 1)..pos : log[i].type = "deleted" => i \in Range(Delivered)

\* The deletions of an open session are handled, unless the watch ends first.
DeletionsHandled ==
  []<>(watch = "open" =>
         \A i \in (start + 1)..Len(log) : log[i].type = "deleted" => i \in Range(handled))

=============================================================================
