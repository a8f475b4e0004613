--------------------------- MODULE MessageCursors ---------------------------
(***************************************************************************)
(* What happens to the messages of one group between MySQL and its agents. *)
(* The orchestrator (internal/orchestrator/orchestrator.go) keeps three    *)
(* cursors, timestamps up to which it has seen messages (lastTimestamp),   *)
(* handed them to an agent (lastAgentTimestamp) and believes them answered *)
(* (lastConfirmedTimestamp), and saves them in router_state.  The message  *)
(* loop, the spawning goroutines and the output watchers move them without *)
(* a common lock, agents die, calls fail and the process crashes.          *)
(*                                                                         *)
(* Module SandboxLifecycle has the control in full; here a spawn and a     *)
(* deactivation are reduced to the steps that touch messages or cursors.   *)
(***************************************************************************)
EXTENDS Integers, FiniteSets, Sequences

CONSTANTS
  Workers,         \* bound: goroutines running processGroupMessages at a time
  Watchers,        \* bound: goroutines running watchGroupOutput at a time
  MessageLimit,    \* cfg.Queue.MessageLimit
  RequiresTrigger, \* the group is not main and requires a trigger
  Triggers,        \* the messages (by number of arrival) that hold a trigger
  Skew,            \* how far a message's timestamp may lie behind the newest
  MaxMessages,     \* bound: messages stored in a behaviour
  MaxSpawns,       \* bound: spawns admitted in a behaviour
  MaxDeaths,       \* bound: agents that end in a behaviour
  MaxFaults,       \* bound: failing calls and saves cut short in a behaviour
  MaxCrashes       \* bound: crashes of the orchestrator in a behaviour

ASSUME CursorsAssumption ==
  /\ MessageLimit \in Nat \ {0} /\ RequiresTrigger \in BOOLEAN
  /\ Triggers \subseteq Nat /\ Skew \in Nat
  /\ MaxMessages \in Nat /\ MaxSpawns \in Nat /\ MaxDeaths \in Nat /\ MaxFaults \in Nat
  /\ MaxCrashes \in Nat

VARIABLES
  log,           \* MySQL messages: their timestamps, in order of arrival
  lastTimestamp, \* o.lastTimestamp
  lastAgent,     \* o.lastAgentTimestamp[jid], 0 when there is no entry
  lastConfirmed, \* o.lastConfirmedTimestamp[jid], NoEntry when there is none
  dirty,         \* o.confirmedCursorDirty
  saved,         \* MySQL router_state: the three cursors
  slot,          \* o.inflightSandboxes holds the group
  isActive,      \* MySQL groups.is_active
  alive,         \* an agent is running
  inbox,         \* NATS: batches in the group's input stream
  outbox,        \* NATS: replies and shutdowns in the group's output stream
  sent,          \* messages that have been put into an input stream
  interrupted,   \* messages in the hands of a spawn when the process crashed
  poll, wk, wt,  \* message loop, processGroupMessages, watchGroupOutput
  spawns, deaths, faults, saveFaults, crashes

cursors == <<lastTimestamp, lastAgent, lastConfirmed, dirty>>
control == <<slot, isActive, alive>>
boxes == <<inbox, outbox>>
history == <<sent, interrupted>>
bounds == <<spawns, deaths, faults, saveFaults, crashes>>
cursorVars == <<log, cursors, saved, control, boxes, history, poll, wk, wt, bounds>>

-----------------------------------------------------------------------------
NoEntry == -1

(* A missing map entry reads as the zero time. *)
Confirmed == IF lastConfirmed = NoEntry THEN 0 ELSE lastConfirmed

Messages == DOMAIN log

(* The WHERE clause of GetNewMessages and GetMessagesSince (mysql.go). *)
Since(cursor) == {m \in Messages : log[m] > cursor}

(* ORDER BY timestamp DESC LIMIT MessageLimit: the newest messages, in any   *)
(* order among equals.  Empty when there are none.                           *)
Windows(cursor) ==
  LET all == Since(cursor)
      size == IF Cardinality(all) < MessageLimit THEN Cardinality(all) ELSE MessageLimit
  IN  {W \in SUBSET all : /\ Cardinality(W) = size
                          /\ \A m \in W, n \in all \ W : log[n] <= log[m]}

(* The timestamp of the last message of a batch. *)
Last(batch) == CHOOSE t \in {log[m] : m \in batch} : \A m \in batch : log[m] <= t

(* hasTriggerMessage, lines 1740-1755. *)
Triggered(batch) == ~RequiresTrigger \/ batch \cap Triggers # {}

Ok == UNCHANGED faults
Fails == faults + saveFaults < MaxFaults /\ faults' = faults + 1

(* saveState, lines 398-451: three statements in this order; the first to    *)
(* fail, or a crash, ends it.  Module StatePersistence has the rest of it.   *)
SaveState(ts, agent, confirmed) ==
  \/ saved' = [ts |-> ts, agent |-> agent, confirmed |-> confirmed] /\ UNCHANGED saveFaults
  \/ /\ faults + saveFaults < MaxFaults /\ saveFaults' = saveFaults + 1
     /\ saved' \in {saved, [saved EXCEPT !.ts = ts],
                    [saved EXCEPT !.ts = ts, !.agent = agent]}

IdlePoll == [pc |-> "idle", batch |-> {}]
IdleWorker == [pc |-> "idle", batch |-> {}, previousCursor |-> 0, held |-> FALSE,
               created |-> FALSE]

CursorInit ==
  /\ log = <<>>
  /\ lastTimestamp = 0 /\ lastAgent = 0 /\ lastConfirmed = NoEntry /\ dirty = FALSE
  /\ saved = [ts |-> 0, agent |-> 0, confirmed |-> NoEntry]
  /\ slot = FALSE /\ isActive = FALSE /\ alive = FALSE
  /\ inbox = <<>> /\ outbox = <<>>
  /\ sent = {} /\ interrupted = {}
  /\ poll = IdlePoll
  /\ wk = [w \in Workers |-> IdleWorker] /\ wt = [v \in Watchers |-> "idle"]
  /\ spawns = 0 /\ deaths = 0 /\ faults = 0 /\ saveFaults = 0 /\ crashes = 0

Deliver(batch) == inbox' = Append(inbox, batch) /\ sent' = sent \cup batch

-----------------------------------------------------------------------------
(* The message loop: pollMessages. *)

StartWorker ==
  \E w \in Workers : /\ wk[w].pc = "idle"
                     /\ wk' = [wk EXCEPT ![w] = [@ EXCEPT !.pc = "read", !.held = TRUE]]

(* Lines 652-674: fetch, and advance lastTimestamp. *)
PollFetch ==
  /\ poll.pc = "idle"
  /\ \E W \in Windows(lastTimestamp) :
       /\ W # {}
       /\ lastTimestamp' = Last(W)
       /\ poll' = [pc |-> "dispatch", batch |-> W]
       /\ SaveState(Last(W), lastAgent, lastConfirmed)
  /\ UNCHANGED <<log, lastAgent, lastConfirmed, dirty, control, boxes, history, wk,
                 wt, spawns, deaths, faults, crashes>>

(* Lines 691-728 for an active group: what to pipe is read now. *)
PollRead ==
  /\ poll.pc = "dispatch" /\ Triggered(poll.batch) /\ isActive
  /\ \E W \in Windows(lastAgent) :
       poll' = [pc |-> "send", batch |-> IF W = {} THEN poll.batch ELSE W]
  /\ UNCHANGED <<log, cursors, saved, control, boxes, history, wk, wt, bounds>>

(* Lines 739-747. *)
PollSend ==
  /\ poll.pc = "send"
  /\ \/ Ok /\ Deliver(poll.batch) /\ poll' = [poll EXCEPT !.pc = "advance"]
     \/ Fails /\ UNCHANGED <<inbox, sent>> /\ poll' = IdlePoll
  /\ UNCHANGED <<log, cursors, saved, control, outbox, interrupted, wk,
                 wt, spawns, deaths, saveFaults, crashes>>

(* Lines 751-758. *)
PollAdvance ==
  /\ poll.pc = "advance"
  /\ lastAgent' = Last(poll.batch)
  /\ SaveState(lastTimestamp, Last(poll.batch), lastConfirmed)
  /\ poll' = IdlePoll
  /\ UNCHANGED <<log, lastTimestamp, lastConfirmed, dirty, control, boxes, history,
                 wk, wt, spawns, deaths, faults, crashes>>

(* Lines 691-711 and 759-814: no agent, so claim the slot and start a        *)
(* goroutine, or skip when the slot is taken, no trigger is found or a call  *)
(* fails.                                                                    *)
PollSpawn ==
  /\ poll.pc = "dispatch" /\ poll' = IdlePoll
  /\ \/ Ok /\ Triggered(poll.batch) /\ ~isActive /\ ~slot /\ slot' = TRUE /\ StartWorker
     \/ /\ \/ Ok /\ ~Triggered(poll.batch)
           \/ Ok /\ ~isActive /\ slot
           \/ Fails
        /\ UNCHANGED <<slot, wk>>
  /\ UNCHANGED <<log, cursors, saved, isActive, alive, boxes, history, wt, spawns,
                 deaths, saveFaults, crashes>>

PollStep == PollFetch \/ PollRead \/ PollSend \/ PollAdvance \/ PollSpawn

-----------------------------------------------------------------------------
(* The spawning goroutines: processGroupMessages and spawnAgent. *)

Goto(w, pc) == wk' = [wk EXCEPT ![w].pc = pc]

(* The goroutine ends, and releases the slot unless it has done so before. *)
WorkerEnds(w) ==
  /\ wk' = [wk EXCEPT ![w] = IdleWorker]
  /\ slot' = (slot /\ ~wk[w].held)

(* Lines 836-868: read the agent cursor, the pending messages, the trigger. *)
Read(w) ==
  /\ wk[w].pc = "read"
  /\ \E W \in Windows(lastAgent) :
       \/ /\ Ok /\ W # {} /\ Triggered(W)
          /\ wk' = [wk EXCEPT ![w] = [@ EXCEPT !.pc = "admit", !.batch = W, !.previousCursor = lastAgent]]
          /\ UNCHANGED slot
       \/ Ok /\ (W = {} \/ ~Triggered(W)) /\ WorkerEnds(w)
       \/ Fails /\ WorkerEnds(w)
  /\ UNCHANGED <<log, cursors, saved, isActive, alive, boxes, history, poll, wt, spawns,
                 deaths, saveFaults, crashes>>

(* A form that advances the agent cursor to what the loop has seen. *)
AdmitSeen(w) ==
  /\ wk[w].pc = "admit"
  /\ lastAgent' = lastTimestamp
  /\ SaveState(lastTimestamp, lastTimestamp, lastConfirmed)
  /\ Goto(w, "create") /\ spawns < MaxSpawns /\ spawns' = spawns + 1
  /\ UNCHANGED <<log, lastTimestamp, lastConfirmed, dirty, control, boxes, history, poll,
                 wt, deaths, faults, crashes>>

(* Lines 871-908: deferred when other groups use up MAX_CONCURRENT, which    *)
(* this module leaves open; otherwise the agent cursor is advanced.          *)
AdmitSpawn(w) ==
  /\ wk[w].pc = "admit"
  /\ \/ WorkerEnds(w) /\ UNCHANGED <<lastAgent, saved, saveFaults, spawns>>
     \/ /\ lastAgent' = Last(wk[w].batch)
        /\ SaveState(lastTimestamp, Last(wk[w].batch), lastConfirmed)
        /\ Goto(w, "create") /\ UNCHANGED slot
        /\ spawns < MaxSpawns /\ spawns' = spawns + 1
  /\ UNCHANGED <<log, lastTimestamp, lastConfirmed, dirty, isActive, alive, boxes, history,
                 poll, wt, deaths, faults, crashes>>

(* Lines 1020-1081: create the sandbox, mark the group active, release the   *)
(* slot; any of the calls may fail.                                          *)
Create(w) ==
  /\ wk[w].pc = "create"
  /\ \/ /\ Ok /\ alive' = TRUE /\ isActive' = TRUE /\ slot' = FALSE
        /\ wk' = [wk EXCEPT ![w] = [@ EXCEPT !.pc = "subscribe", !.held = FALSE, !.created = TRUE]]
     \/ Fails /\ Goto(w, "rollback") /\ UNCHANGED control
     \/ /\ Fails /\ alive' = TRUE /\ UNCHANGED <<slot, isActive>>
        /\ wk' = [wk EXCEPT ![w] = [@ EXCEPT !.pc = "rollback", !.created = TRUE]]
  /\ UNCHANGED <<log, cursors, saved, boxes, history, poll, wt, spawns, deaths,
                 saveFaults, crashes>>

(* Lines 1094-1109. *)
Subscribe(w) ==
  /\ wk[w].pc = "subscribe"
  /\ \/ /\ Ok /\ Goto(w, "send")
        /\ \E v \in Watchers : wt[v] = "idle" /\ wt' = [wt EXCEPT ![v] = "start"]
     \/ Fails /\ Goto(w, "rollback") /\ UNCHANGED wt
  /\ UNCHANGED <<log, cursors, saved, control, boxes, history, poll, spawns, deaths,
                 saveFaults, crashes>>

(* Lines 1112-1118. *)
SendInitial(w) ==
  /\ wk[w].pc = "send"
  /\ \/ Ok /\ Deliver(wk[w].batch) /\ Goto(w, "confirm")
     \/ Fails /\ Goto(w, "rollback") /\ UNCHANGED <<inbox, sent>>
  /\ UNCHANGED <<log, cursors, saved, control, outbox, interrupted, poll, wt,
                 spawns, deaths, saveFaults, crashes>>

(* Lines 917-929: what the agent cursor covers by now counts as confirmed. *)
ConfirmInitial(w) ==
  /\ wk[w].pc = "confirm"
  /\ lastConfirmed' = lastAgent
  /\ SaveState(lastTimestamp, lastAgent, lastAgent)
  /\ WorkerEnds(w)
  /\ UNCHANGED <<log, lastTimestamp, lastAgent, dirty, isActive, alive, boxes, history,
                 poll, wt, spawns, deaths, faults, crashes>>

(* rollbackCursorStep, lines 950-960: the cursor as it was read. *)
Rollback(w) ==
  /\ wk[w].pc = "rollback"
  /\ lastAgent' = wk[w].previousCursor
  /\ SaveState(lastTimestamp, wk[w].previousCursor, lastConfirmed)
  /\ Goto(w, "cleanup")
  /\ UNCHANGED <<log, lastTimestamp, lastConfirmed, dirty, control, boxes, history, poll,
                 wt, spawns, deaths, faults, crashes>>

(* The other staged cleanups: stop the sandbox and delete the streams, or    *)
(* the streams alone when there is no sandbox (1011-1017, 1053-1068), and    *)
(* MarkInactive once the group had been marked (1074-1078).                  *)
Cleanup(w) ==
  /\ wk[w].pc = "cleanup"
  /\ WorkerEnds(w)
  /\ alive' = (alive /\ ~wk[w].created)
  /\ isActive' = (isActive /\ (wk[w].held \/ ~wk[w].created))
  /\ IF alive' THEN UNCHANGED boxes ELSE inbox' = <<>> /\ outbox' = <<>>
  /\ UNCHANGED <<log, cursors, saved, history, poll, wt, bounds>>

SpawnStep(w) ==
  \/ Read(w) \/ AdmitSpawn(w) \/ Create(w) \/ Subscribe(w) \/ SendInitial(w) \/ ConfirmInitial(w)
  \/ Rollback(w) \/ Cleanup(w)

-----------------------------------------------------------------------------
(* The output watchers: watchGroupOutput, handleIPCMessage, deactivate.  A   *)
(* watcher is in "start" until it hears from the agent.                      *)

Watch(v, pc) == wt' = [wt EXCEPT ![v] = pc]

(* A form that confirms what the message loop has seen. *)
AnsweredSeen == lastTimestamp

(* Line 1635: a reply answers all that the agent cursor covers by now. *)
Answered == lastAgent

(* Lines 1600-1637: a reply is routed to the chat and confirms the agent     *)
(* cursor as it is now; the flusher saves it later.                          *)
ReceiveReply(v) ==
  /\ wt[v] \in {"start", "loop"} /\ outbox # <<>> /\ Head(outbox) = "reply"
  /\ outbox' = Tail(outbox)
  /\ Watch(v, "loop")
  /\ \/ Ok /\ lastConfirmed' = Answered /\ dirty' = TRUE
     \/ Fails /\ UNCHANGED <<lastConfirmed, dirty>>
  /\ UNCHANGED <<log, lastTimestamp, lastAgent, saved, control, inbox, history, poll, wk,
                 spawns, deaths, saveFaults, crashes>>

(* Lines 1722-1730: an IPCShutdown deletes both streams. *)
ReceiveShutdown(v) ==
  /\ wt[v] \in {"start", "loop"} /\ outbox # <<>> /\ Head(outbox) = "bye"
  /\ inbox' = <<>> /\ outbox' = <<>>
  /\ Watch(v, "check")
  /\ UNCHANGED <<log, cursors, saved, control, history, poll, wk, bounds>>

(* Lines 1504-1529: the startup timeout, or a liveness tick that finds no    *)
(* agent.                                                                    *)
GiveUpSpawn(v) ==
  /\ wt[v] = "start" \/ (wt[v] = "loop" /\ ~alive)
  /\ Watch(v, "check")
  /\ UNCHANGED <<log, cursors, saved, control, boxes, history, poll, wk, bounds>>

(* Lines 1285-1308: nothing is done for a group that is inactive already, or *)
(* cannot be marked inactive.                                                *)
DeactivateCheck(v) ==
  /\ wt[v] = "check"
  /\ \/ Ok /\ ~isActive /\ Watch(v, "idle") /\ UNCHANGED isActive
     \/ Ok /\ isActive /\ isActive' = FALSE /\ Watch(v, "rollback")
     \/ Fails /\ UNCHANGED isActive /\ (Watch(v, "rollback") \/ (isActive /\ Watch(v, "idle")))
  /\ UNCHANGED <<log, cursors, saved, slot, alive, boxes, history, poll, wk, spawns,
                 deaths, saveFaults, crashes>>

(* Lines 1314-1332: roll the agent cursor back to the confirmed one. *)
DeactivateRollback(v) ==
  LET cursor == IF Confirmed < lastAgent THEN Confirmed ELSE lastAgent IN
  /\ wt[v] = "rollback"
  /\ lastAgent' = cursor
  /\ SaveState(lastTimestamp, cursor, lastConfirmed)
  /\ Watch(v, "pending")
  /\ UNCHANGED <<log, lastTimestamp, lastConfirmed, dirty, control, boxes, history, poll,
                 wk, spawns, deaths, faults, crashes>>

(* Lines 1334-1471: start a recovery goroutine when messages are pending (or *)
(* the check fails) and the slot is free.                                    *)
DeactivateRecover(v) ==
  LET needed == Since(lastAgent) # {} IN
  /\ wt[v] = "pending" /\ Watch(v, "idle")
  /\ \/ ((Ok /\ needed) \/ Fails) /\ ~slot /\ slot' = TRUE /\ StartWorker
     \/ Ok /\ (~needed \/ slot) /\ UNCHANGED <<slot, wk>>
  /\ UNCHANGED <<log, cursors, saved, isActive, alive, boxes, history, poll, spawns,
                 deaths, saveFaults, crashes>>

WatchStep(v) ==
  \/ ReceiveReply(v) \/ ReceiveShutdown(v) \/ GiveUpSpawn(v) \/ DeactivateCheck(v)
  \/ DeactivateRollback(v) \/ DeactivateRecover(v)

(* flushConfirmedCursor, lines 476-488. *)
Flush ==
  /\ dirty
  /\ SaveState(lastTimestamp, lastAgent, lastConfirmed)
  /\ dirty' = (saveFaults' # saveFaults)
  /\ UNCHANGED <<log, lastTimestamp, lastAgent, lastConfirmed, control, boxes, history,
                 poll, wk, wt, spawns, deaths, faults, crashes>>

(* handleSandboxEvent, lines 1230-1263, for the end of the current sandbox. *)
SandboxEvent ==
  /\ isActive /\ ~alive
  /\ isActive' = FALSE
  /\ UNCHANGED <<log, cursors, saved, slot, alive, boxes, history, poll, wk, wt, bounds>>

-----------------------------------------------------------------------------
(* The environment, and the orchestrator's own restart. *)

(* onInboundMessage (504-559): the channel sets the timestamp. *)
StoreMessage ==
  LET newest == IF log = <<>> THEN 0 ELSE Last(Messages) IN
  /\ Len(log) < MaxMessages
  /\ \E k \in 0..Skew : newest + 1 - k > 0 /\ log' = Append(log, newest + 1 - k)
  /\ UNCHANGED <<cursors, saved, control, boxes, history, poll, wk, wt, bounds>>

(* The agent reads a batch and replies once (cmd/kraclaw-agent-anthropic). *)
AgentAnswers ==
  /\ alive /\ inbox # <<>>
  /\ inbox' = Tail(inbox)
  /\ outbox' = Append(outbox, "reply")
  /\ UNCHANGED <<log, cursors, saved, control, history, poll, wk, wt, bounds>>

(* The agent's process ends, possibly with a batch read and not answered,    *)
(* and possibly with an IPCShutdown (pkg/agent/agent.go Run).                *)
AgentEnds ==
  /\ alive /\ alive' = FALSE
  /\ deaths < MaxDeaths /\ deaths' = deaths + 1
  /\ inbox' = inbox \/ (inbox # <<>> /\ inbox' = Tail(inbox))
  /\ outbox' \in {outbox, Append(outbox, "bye")}
  /\ UNCHANGED <<log, cursors, saved, slot, isActive, history, poll, wk, wt, spawns,
                  faults, saveFaults, crashes>>

(* The messages a spawn has advanced the agent cursor for and not yet sent. *)
Carried == UNION {wk[w].batch : w \in {x \in Workers : wk[x].pc \in
                    {"create", "subscribe", "send", "rollback"}}}

(* The process dies at any point and is started again: loadState (309-395),  *)
(* which fills a missing confirmed cursor from the agent cursor, and         *)
(* reconcileActiveSet (1808-1878).  recoverPendingMessages moves no cursor.  *)
Reload ==
  /\ crashes < MaxCrashes /\ crashes' = crashes + 1
  /\ lastTimestamp' = saved.ts /\ lastAgent' = saved.agent
  /\ lastConfirmed' = IF saved.confirmed = NoEntry /\ saved.agent # 0 THEN saved.agent
                      ELSE saved.confirmed
  /\ dirty' = FALSE /\ slot' = FALSE /\ isActive' = (isActive /\ alive)
  /\ interrupted' = interrupted \cup Carried
  /\ poll' = IdlePoll
  /\ wk' = [w \in Workers |-> IdleWorker] /\ wt' = [v \in Watchers |-> "idle"]
  /\ UNCHANGED <<log, saved, alive, boxes, sent, spawns, deaths, faults, saveFaults>>

-----------------------------------------------------------------------------
CursorNext ==
  \/ PollStep
  \/ \E w \in Workers : SpawnStep(w)
  \/ \E v \in Watchers : WatchStep(v)
  \/ Flush \/ SandboxEvent
  \/ StoreMessage \/ AgentAnswers \/ AgentEnds \/ Reload

CursorSpec == CursorInit /\ [][CursorNext]_cursorVars

-----------------------------------------------------------------------------
(* Properties. *)

Cursor == 0..(MaxMessages + 1)
(* Types; cursors in memory and in router_state are timestamps of the log. *)
CursorTypeOK ==
  /\ log \in Seq(Cursor) /\ Len(log) <= MaxMessages
  /\ lastTimestamp \in Cursor /\ lastAgent \in Cursor /\ lastConfirmed \in Cursor \cup {NoEntry}
  /\ saved \in [ts : Cursor, agent : Cursor, confirmed : Cursor \cup {NoEntry}]
  /\ {dirty, slot, isActive, alive} \subseteq BOOLEAN
  /\ inbox \in Seq(SUBSET Messages) /\ outbox \in Seq({"reply", "bye"})
  /\ sent \subseteq Messages /\ interrupted \subseteq Messages
  /\ poll \in [pc : {"idle", "dispatch", "send", "advance"}, batch : SUBSET Messages]
  /\ wk \in [Workers -> [pc : {"idle", "read", "admit", "create", "subscribe", "send", "confirm",
                               "rollback", "cleanup"},
                         batch : SUBSET Messages, previousCursor : Cursor, held : BOOLEAN,
                         created : BOOLEAN]]
  /\ wt \in [Watchers -> {"idle", "start", "loop", "check", "rollback", "pending"}]
  /\ spawns \in 0..MaxSpawns /\ deaths \in 0..MaxDeaths /\ faults \in 0..MaxFaults
  /\ saveFaults \in 0..MaxFaults /\ crashes \in 0..MaxCrashes

(* As long as no call but saveState fails, neither the agent cursor in       *)
(* memory nor the saved one runs past a message that was never sent: a       *)
(* message behind it is in an agent's stream, or in the hands of a spawn     *)
(* that is about to send it, or was in such hands when the process crashed.  *)
(* So the message loop, the spawns and the rollbacks of deactivate (753,     *)
(* 903, 1325) never skip a message between them, and a crash costs at most   *)
(* the batches of the spawns under way, whatever was saved by then.  It      *)
(* needs timestamps in order of arrival and a batch limit not reached.       *)
CursorCoversSent ==
  (faults = 0 /\ Skew = 0 /\ MaxMessages <= MessageLimit) =>
    \A m \in Messages :
      log[m] <= lastAgent \/ log[m] <= saved.agent => m \in sent \cup Carried \cup interrupted

(* No message is confirmed before it was handed to an agent or to a spawn    *)
(* about to send it: under the same conditions the confirmed cursor, in      *)
(* memory or in the row a crash leaves behind, covers no other, although     *)
(* replies, spawns, rollbacks and partial saves move it and the agent cursor *)
(* on their own (920, 1325, 1635, 365-369).  A message confirmed too early   *)
(* is exempt from the rollback that re-sends it.  That the confirmed cursor  *)
(* stays behind the agent cursor would be too much: a poll that finds        *)
(* nothing newer sends its own, older batch again and moves the agent cursor *)
(* back to it (726-728, 753).                                                *)
ConfirmedHanded ==
  (faults = 0 /\ Skew = 0 /\ MaxMessages <= MessageLimit) =>
    \A m \in Messages :
      log[m] <= Confirmed \/ log[m] <= saved.confirmed => m \in sent \cup Carried \cup interrupted

(* "Roll back agent cursor to last confirmed position so any messages that   *)
(* were piped to the dead agent but never processed get re-sent"             *)
(* (1314-1315): once the group is inactive and every goroutine has finished, *)
(* no unconfirmed message is left behind the agent cursor.                   *)
Quiet ==
  /\ poll.pc = "idle" /\ \A w \in Workers : wk[w].pc = "idle"
  /\ \A v \in Watchers : wt[v] = "idle"
RolledBack == Quiet /\ ~isActive /\ ~alive => lastAgent <= Confirmed
=============================================================================
