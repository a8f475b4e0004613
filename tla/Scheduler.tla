----------------------------- MODULE Scheduler -----------------------------
(***************************************************************************)
(* Scheduled tasks: the scheduler's poll and its runTask goroutines, the   *)
(* executor executeScheduledTask, and the people and agents who create,    *)
(* change and delete the same rows of scheduled_tasks meanwhile.           *)
(*                                                                         *)
(* A row is read whole and written whole (GetTask, UpdateTask), so each    *)
(* writer works on a copy that may be stale when it is written.  A task is *)
(* claimed, by writing its next run, before it is executed, and its        *)
(* outcome is a second write.  Schedule values are validated by every      *)
(* writer: the branch that pauses a task for an invalid one is left out,   *)
(* as is task_run_logs, which nothing reads back.                          *)
(***************************************************************************)
EXTENDS Integers, FiniteSets

CONSTANTS
    Tasks,
    Every,               \* interval and cron period, in ticks of the clock
    MaxConcurrentTasks,  \* weight of the semaphore
    AgentTimes,          \* next runs agents ask for in task_create and task_update
    MaxTime,             \* bound: the clock
    MaxWrites,           \* bound: rows created, changed or deleted by users
    MaxFaults,           \* bound: failing calls in a behaviour
    MaxCrashes           \* bound: restarts of the process

ASSUME SchedulerAssumption ==
    /\ Every \in Nat \ {0} /\ MaxConcurrentTasks \in Nat \ {0}
    /\ AgentTimes \subseteq 0..MaxTime
    /\ MaxTime \in Nat /\ MaxWrites \in Nat /\ MaxFaults \in Nat /\ MaxCrashes \in Nat

Types == {"cron", "interval", "once"}
Never == -1  \* next_run IS NULL
Times == 0..MaxTime + Every

VARIABLES
    now,      \* the clock
    row,      \* scheduled_tasks; status "absent" when there is no row
    run,      \* the goroutine of each due task: pc, its copy of the task, failed
    edit,     \* taskService.UpdateTask under way: the task and the copy read
    loose,    \* messages table: prompts of a task that are stored and not enqueued
    queued,   \* tasks with a prompt in the NATS queue
    stray,    \* tasks with a prompt whose delete failed, or was cut off by a restart
    claims,   \* runs of a once task claimed since a user last wrote the row
    deleted,  \* tasks that have been deleted; an id is not used again
    orphans,  \* runs begun since the row was deleted
    writes, faults, crashes

messages == <<loose, queued, stray>>
counts == <<claims, deleted, orphans>>
bounds == <<writes, faults, crashes>>
vars == <<now, row, run, edit, messages, counts, bounds>>

Absent == [type |-> "once", next |-> Never, last |-> FALSE, status |-> "absent"]
Resting == [pc |-> "idle", task |-> Absent, failed |-> FALSE]
NoEdit == [task |-> Absent, of |-> {}]

Init ==
    /\ now = 0
    /\ row = [t \in Tasks |-> Absent]
    /\ run = [t \in Tasks |-> Resting]
    /\ edit = NoEdit
    /\ loose = [t \in Tasks |-> 0] /\ queued = {} /\ stray = {}
    /\ claims = [t \in Tasks |-> 0] /\ orphans = [t \in Tasks |-> 0]
    /\ deleted = {}
    /\ writes = 0 /\ faults = 0 /\ crashes = 0

Ok == UNCHANGED faults
Fails == faults < MaxFaults /\ faults' = faults + 1
Bump(f, t, n) == [f EXCEPT ![t] = @ + n]

(* UpdateTask: a row that is not there is not updated, and that is no error. *)
UpdateTask(r, t, task) == IF r[t].status = "absent" THEN r ELSE [r EXCEPT ![t] = task]

GetDueTasks == {t \in Tasks : row[t].status = "active" /\ row[t].next \in 0..now}

(* A form that stops at the clock. *)
SkipForwardShort(n) == CHOOSE m \in now .. now + Every - 1 : (m - n) % Every = 0

(* The first instant of a schedule through n that is after the clock. *)
SkipForward(n) == CHOOSE m \in now + 1 .. now + Every : (m - n) % Every = 0

(* computeNextRun: an interval is anchored to the scheduled time, except for its first
   run.  The result for a once task is not used. *)
computeNextRun(task) ==
    CASE task.type = "cron" -> SkipForward(0)
      [] task.type = "interval" -> IF task.last THEN SkipForward(task.next) ELSE now
      [] task.type = "once" -> Never

----------------------------------------------------------------------------
(* Users and agents. *)
Write == writes < MaxWrites /\ writes' = writes + 1
Rewritten(t) == claims' = [claims EXCEPT ![t] = 0]

(* taskService.CreateTask: active, and no next run. *)
APICreateTask(t) ==
    /\ Write /\ row[t].status = "absent" /\ t \notin deleted
    /\ \E type \in Types :
          row' = [row EXCEPT ![t] = [type |-> type, next |-> Never, last |-> FALSE,
                                     status |-> "active"]]
    /\ Rewritten(t)
    /\ UNCHANGED <<now, run, edit, messages, deleted, orphans, faults, crashes>>

(* task_create and task_update: the agent names every field, but last_run is not inserted
   by CreateTask. *)
AgentWritesTask(t) ==
    /\ AgentTimes # {} /\ Write
    /\ t \notin deleted
    /\ \E type \in Types, next \in {Never} \cup AgentTimes, status \in {"active", "paused"},
          last \in IF row[t].status = "absent" THEN {FALSE} ELSE BOOLEAN :
          row' = [row EXCEPT ![t] = [type |-> type, next |-> next, status |-> status,
                                     last |-> last]]
    /\ Rewritten(t)
    /\ UNCHANGED <<now, run, edit, messages, deleted, orphans, faults, crashes>>

(* taskService.UpdateTask reads the row ... *)
APIReadTask(t) ==
    /\ edit.of = {} /\ row[t].status # "absent" /\ writes < MaxWrites
    /\ edit' = [of |-> {t}, task |-> row[t]]
    /\ UNCHANGED <<now, row, run, messages, counts, bounds>>

(* ... and writes it back with the changes asked for. *)
APIUpdateTask(t) ==
    /\ t \in edit.of /\ Write
    /\ \E type \in Types : row' = UpdateTask(row, t, [edit.task EXCEPT !.type = type])
    /\ edit' = NoEdit
    /\ Rewritten(t)
    /\ UNCHANGED <<now, run, messages, deleted, orphans, faults, crashes>>

DeleteTask(t) ==
    /\ Write /\ row[t].status # "absent"
    /\ row' = [row EXCEPT ![t] = Absent]
    /\ deleted' = deleted \cup {t}
    /\ UNCHANGED <<now, run, edit, messages, claims, orphans, faults, crashes>>

----------------------------------------------------------------------------
(* The scheduler. *)

(* poll waits for the goroutines of the poll before it. *)
Poll ==
    /\ \A t \in Tasks : run[t].pc = "idle"
    /\ GetDueTasks # {}
    /\ run' = [t \in Tasks |-> IF t \in GetDueTasks
                               THEN [pc |-> "wait", task |-> row[t], failed |-> FALSE]
                               ELSE Resting]
    /\ UNCHANGED <<now, row, edit, messages, counts, bounds>>

Running == {t \in Tasks : run[t].pc \notin {"idle", "wait"}}
Goto(t, pc) == run' = [run EXCEPT ![t].pc = pc]
Done(t) == run' = [run EXCEPT ![t] = Resting]

Acquire(t) ==
    /\ run[t].pc = "wait" /\ Cardinality(Running) < MaxConcurrentTasks
    /\ Goto(t, "advance")
    /\ UNCHANGED <<now, row, edit, messages, counts, bounds>>

(* runTask's first write: a once task is completed, any other has its next run. *)
Advanced(task) ==
    IF task.type = "once" THEN [task EXCEPT !.last = TRUE, !.next = Never, !.status = "completed"]
    ELSE [task EXCEPT !.last = TRUE, !.next = computeNextRun(task)]

(* The run is claimed, or left to the next poll, or its task paused. *)
Advance(t) ==
    /\ run[t].pc = "advance"
    /\ LET task == Advanced(run[t].task) IN
       \/ /\ Ok
          /\ row' = UpdateTask(row, t, task)
          /\ run' = [run EXCEPT ![t].pc = "execute", ![t].task = task]
          /\ claims' = Bump(claims, t, IF run[t].task.type = "once" THEN 1 ELSE 0)
          /\ orphans' = IF row[t].status = "absent" THEN Bump(orphans, t, 1) ELSE orphans
       \/ /\ Fails /\ Done(t)
          /\ row' \in {row, UpdateTask(row, t, [task EXCEPT !.status = "paused"])}
          /\ UNCHANGED <<claims, orphans>>
    /\ UNCHANGED <<now, edit, messages, deleted, writes, crashes>>

(* executeScheduledTask: StoreMessage, *)
Execute(t) ==
    /\ run[t].pc = "execute"
    /\ \/ Ok /\ loose' = Bump(loose, t, 1) /\ Goto(t, "enqueue")
       \/ Fails /\ UNCHANGED loose
          /\ run' = [run EXCEPT ![t].pc = "record", ![t].failed = TRUE]
    /\ UNCHANGED <<now, row, edit, queued, stray, counts, writes, crashes>>

(* Enqueue, *)
Enqueue(t) ==
    /\ run[t].pc = "enqueue"
    /\ \/ Ok /\ queued' = queued \cup {t} /\ loose' = Bump(loose, t, -1) /\ Goto(t, "record")
       \/ Fails /\ UNCHANGED <<queued, loose>>
          /\ run' = [run EXCEPT ![t].pc = "compensate", ![t].failed = TRUE]
    /\ UNCHANGED <<now, row, edit, stray, counts, writes, crashes>>

(* A form that leaves the message. *)
CompensateForgotten(t) ==
    /\ run[t].pc = "compensate"
    /\ Ok /\ Goto(t, "record")
    /\ UNCHANGED <<now, row, edit, loose, queued, stray, counts, writes, crashes>>

(* and the delete that makes up for a failed Enqueue. *)
Compensate(t) ==
    /\ run[t].pc = "compensate"
    /\ Goto(t, "record")
    /\ \/ Ok /\ loose' = Bump(loose, t, -1) /\ UNCHANGED stray
       \/ Fails /\ stray' = stray \cup {t} /\ UNCHANGED loose
    /\ UNCHANGED <<now, row, edit, queued, counts, writes, crashes>>

(* A form that retries a once task as well. *)
OutcomeRetriesOnce(r) ==
    IF r.failed THEN [r.task EXCEPT !.next = now + 1, !.status = "active"] ELSE r.task

(* A failed run of a recurring task is retried in a minute. *)
Outcome(r) ==
    IF r.failed /\ r.task.type # "once"
    THEN [r.task EXCEPT !.next = now + 1, !.status = "active"]
    ELSE r.task

(* runTask's last write; the semaphore is released. *)
Record(t) ==
    /\ run[t].pc = "record"
    /\ \/ Ok /\ row' = UpdateTask(row, t, Outcome(run[t]))
       \/ Fails /\ UNCHANGED row
    /\ Done(t)
    /\ UNCHANGED <<now, edit, messages, counts, writes, crashes>>

RunStep(t) ==
    \/ Acquire(t) \/ Advance(t) \/ Execute(t) \/ Enqueue(t) \/ Compensate(t) \/ Record(t)

(* The process restarts: goroutines and the edit are gone, a stored prompt may be left. *)
Crash ==
    /\ crashes < MaxCrashes /\ crashes' = crashes + 1
    /\ stray' = stray \cup {t \in Tasks : run[t].pc \in {"enqueue", "compensate"}}
    /\ run' = [t \in Tasks |-> Resting]
    /\ edit' = NoEdit
    /\ UNCHANGED <<now, row, loose, queued, counts, writes, faults>>

Tick ==
    /\ now < MaxTime /\ now' = now + 1
    /\ UNCHANGED <<row, run, edit, messages, counts, bounds>>

Next ==
    \/ Poll \/ Tick \/ Crash
    \/ \E t \in Tasks :
          \/ RunStep(t)
          \/ APICreateTask(t) \/ AgentWritesTask(t) \/ APIReadTask(t) \/ APIUpdateTask(t)
          \/ DeleteTask(t)

Spec == Init /\ [][Next]_vars

(* The ticker of the poll fires, goroutines are scheduled, the semaphore is first come
   first served, and time passes.  Nobody has to write a task. *)
Fairness ==
    /\ WF_vars(Poll) /\ WF_vars(Tick)
    /\ \A t \in Tasks : SF_vars(Acquire(t)) /\ WF_vars(RunStep(t))

FairSpec == Spec /\ Fairness

----------------------------------------------------------------------------
(* Properties. *)
Task == [type : Types, next : {Never} \cup Times, last : BOOLEAN,
         status : {"absent", "active", "paused", "completed"}]

(* Types; no more than MaxConcurrentTasks goroutines are past semaphore.Acquire. *)
TypeOK ==
    /\ now \in 0..MaxTime
    /\ row \in [Tasks -> Task]
    /\ run \in [Tasks -> [pc : {"idle", "wait", "advance", "execute", "enqueue", "compensate",
                                "record"},
                          task : Task, failed : BOOLEAN]]
    /\ edit.of \in SUBSET Tasks /\ Cardinality(edit.of) <= 1 /\ edit.task \in Task
    /\ {loose, claims, orphans} \subseteq [Tasks -> Nat]
    /\ deleted \subseteq Tasks /\ queued \subseteq Tasks /\ stray \subseteq Tasks
    /\ Cardinality(Running) <= MaxConcurrentTasks
    /\ writes \in 0..MaxWrites /\ faults \in 0..MaxFaults /\ crashes \in 0..MaxCrashes

(* A once task is run at most once for each time a user wrote it: its completion is written
   before it is executed, and neither a failure nor a restart in between brings it back. *)
OnceClaimedOnce == \A t \in Tasks : claims[t] <= 1

(* A task that is deleted while the scheduler, or an update through the API, has a copy of
   it stays deleted: their writes never bring the row back, and it runs at most once more. *)
DeletedStaysDeleted == \A t \in deleted : row[t].status = "absent" /\ orphans[t] <= 1

(* A run that fails leaves no prompt behind for the agent to find, so that the retry is the
   only one: outside of executeScheduledTask every stored prompt was also enqueued, but for
   those whose delete failed or that a restart cut off. *)
NoStrayPrompt ==
    \A t \in Tasks : loose[t] > 0 => run[t].pc \in {"enqueue", "compensate"} \/ t \in stray

(* A due task does not wait for ever, however many share the semaphore: it is claimed, or a
   user or a failure changes it. *)
DueTasksRun == \A t \in Tasks : []<>(t \notin GetDueTasks)

(* README.md: "Cron, interval, and one-time task scheduling": a task created through the API
   and left alone is run when its time comes. *)
CreatedTasksRun ==
    \A t \in Tasks : row[t].status = "active" ~> (t \in queued \/ row[t].status # "active")
=============================================================================
