---------------------------- MODULE StoreProofs -----------------------------
(***************************************************************************)
(* The rows of the database, for any number of tasks, goroutines, commands,*)
(* user writes, processes, migrations, faults and restarts: a once task is *)
(* claimed once, a deleted task stays deleted; a group's model fits its    *)
(* provider and its agent has it; the migrations are complete and run once.*)
(***************************************************************************)
EXTENDS Scheduler, GroupModels, Migrations, TLAPS

-----------------------------------------------------------------------------
(* Scheduler. *)

\* A record with the columns of a row; what they hold does not matter here.
IsTask(r) == r = [type |-> r.type, next |-> r.next, last |-> r.last, status |-> r.status]
IsRun(k) == k = [pc |-> k.pc, task |-> k.task, failed |-> k.failed] /\ IsTask(k.task)

\* One task: its row r, its run k, the claims c, the runs o begun without a row, and whether
\* it has been deleted.  A run that is about to claim a once task finds it unclaimed, and so
\* does a poll; a run that has claimed one writes only "completed"; a run outlives its row
\* only by a delete, and then begins at most once.
TaskInv(r, k, c, o, d) ==
    /\ IsTask(r) /\ IsRun(k)
    /\ c \in {0, 1} /\ o \in {0, 1}
    /\ d => r.status = "absent"
    /\ ~d => o = 0
    /\ ~d /\ r.status = "absent" => k.pc = "idle"
    /\ k.pc # "idle" => k.task.status # "absent"
    /\ k.pc \in {"wait", "advance"} => o = 0 /\ (k.task.type = "once" => c = 0)
    /\ k.pc \in {"execute", "enqueue", "compensate", "record"} /\ k.task.type = "once" =>
           k.task.status = "completed"
    /\ r.type = "once" /\ r.status = "active" => c = 0

SchedulerInv ==
    /\ row = [t \in Tasks |-> row[t]] /\ run = [t \in Tasks |-> run[t]]
    /\ claims = [t \in Tasks |-> claims[t]] /\ orphans = [t \in Tasks |-> orphans[t]]
    /\ deleted \subseteq Tasks
    /\ \A t \in Tasks : TaskInv(row[t], run[t], claims[t], orphans[t], t \in deleted)
    /\ IsTask(edit.task)
    /\ \A t \in edit.of : edit.task.status # "absent"

\* What every step concerned with one task has in common.
Touches(t, r, k, c, o) ==
    /\ row' = [row EXCEPT ![t] = r] /\ run' = [run EXCEPT ![t] = k]
    /\ claims' = [claims EXCEPT ![t] = c] /\ orphans' = [orphans EXCEPT ![t] = o]

Edited == IsTask(edit'.task) /\ \A t \in edit'.of : edit'.task.status # "absent"

----------------------------------------------------------------------------
\* A step on one task that keeps what is said of that task keeps the invariant.
LEMMA TouchKeeps ==
    ASSUME SchedulerInv, NEW t \in Tasks, NEW r, NEW k, NEW c, NEW o, Touches(t, r, k, c, o),
           deleted' \subseteq Tasks, \A u \in Tasks \ {t} : u \in deleted' <=> u \in deleted,
           TaskInv(r, k, c, o, t \in deleted'), Edited
    PROVE  SchedulerInv'
<1>1. \A u \in Tasks : /\ row'[u] = IF u = t THEN r ELSE row[u]
                       /\ run'[u] = IF u = t THEN k ELSE run[u]
                       /\ claims'[u] = IF u = t THEN c ELSE claims[u]
                       /\ orphans'[u] = IF u = t THEN o ELSE orphans[u]
    BY Zenon DEF SchedulerInv, Touches
<1>2. /\ row' = [u \in Tasks |-> row'[u]] /\ run' = [u \in Tasks |-> run'[u]]
      /\ claims' = [u \in Tasks |-> claims'[u]] /\ orphans' = [u \in Tasks |-> orphans'[u]]
    BY Zenon DEF SchedulerInv, Touches
<1>3. ASSUME NEW u \in Tasks
      PROVE  TaskInv(row'[u], run'[u], claims'[u], orphans'[u], u \in deleted')
    <2>1. CASE u = t
        BY Zenon, <1>1, <2>1
    <2>2. CASE u # t
        <3>1. /\ row'[u] = row[u] /\ run'[u] = run[u] /\ claims'[u] = claims[u]
              /\ orphans'[u] = orphans[u] /\ (u \in deleted') = (u \in deleted)
            BY <1>1, <2>2
        <3>2. TaskInv(row[u], run[u], claims[u], orphans[u], u \in deleted)
            BY Zenon DEF SchedulerInv
        <3>. QED
            BY Zenon, <3>1, <3>2 DEF TaskInv
    <2>. QED
        BY Zenon, <2>1, <2>2
<1>. QED
    BY Zenon, <1>2, <1>3 DEF SchedulerInv, Edited

\* Init has no rows, runs or edit.
LEMMA SchedulerStart == Init => SchedulerInv
<1>. SUFFICES ASSUME Init
              PROVE  SchedulerInv
    BY Zenon
<1>1. IsTask(Absent) /\ IsRun(Resting) /\ Resting.pc = "idle" /\ Absent.status = "absent"
    BY Zenon DEF IsTask, IsRun, Absent, Resting
<1>2. TaskInv(Absent, Resting, 0, 0, FALSE)
    BY Zenon, <1>1 DEF TaskInv
<1>3. \A t \in Tasks : row[t] = Absent /\ run[t] = Resting /\ claims[t] = 0 /\ orphans[t] = 0
                       /\ (t \in deleted) = FALSE
    BY DEF Init
<1>4. edit.of = {} /\ edit.task = Absent /\ deleted = {}
    BY Zenon DEF Init, NoEdit
<1>5. /\ row = [t \in Tasks |-> row[t]] /\ run = [t \in Tasks |-> run[t]]
      /\ claims = [t \in Tasks |-> claims[t]] /\ orphans = [t \in Tasks |-> orphans[t]]
    BY Zenon DEF Init
<1>. QED
    BY Zenon, <1>1, <1>2, <1>3, <1>4, <1>5 DEF SchedulerInv

\* UpdateTask on a row: one that is not there stays away.
LEMMA UpdateRow ==
    ASSUME SchedulerInv, NEW t \in Tasks, NEW task
    PROVE  \E r : /\ UpdateTask(row, t, task) = [row EXCEPT ![t] = r]
                 /\ r = IF row[t].status = "absent" THEN row[t] ELSE task
<1>1. row = [row EXCEPT ![t] = row[t]]
    BY Zenon DEF SchedulerInv
<1>. QED
    BY Zenon, <1>1 DEF UpdateTask

\* Nothing else of the task changes.
LEMMA Same ==
    ASSUME SchedulerInv, NEW t \in Tasks
    PROVE  /\ row = [row EXCEPT ![t] = row[t]] /\ run = [run EXCEPT ![t] = run[t]]
           /\ claims = [claims EXCEPT ![t] = claims[t]]
           /\ orphans = [orphans EXCEPT ![t] = orphans[t]]
           /\ TaskInv(row[t], run[t], claims[t], orphans[t], t \in deleted)
BY Zenon DEF SchedulerInv

\* Users and agents write rows that exist and reset the claims.
LEMMA CreateStep ==
    ASSUME SchedulerInv, NEW t \in Tasks, APICreateTask(t) \/ AgentWritesTask(t)
    PROVE  SchedulerInv'
<1>1. PICK r : /\ row' = [row EXCEPT ![t] = r] /\ IsTask(r) /\ r.status # "absent"
    <2>1. CASE APICreateTask(t)
        <3>1. PICK y \in Types :
                   row' = [row EXCEPT ![t] = [type |-> y, next |-> Never, last |-> FALSE,
                                              status |-> "active"]]
            BY Zenon, <2>1 DEF APICreateTask
        <3>. DEFINE q == [type |-> y, next |-> Never, last |-> FALSE, status |-> "active"]
        <3>2. row' = [row EXCEPT ![t] = q] /\ IsTask(q) /\ q.status # "absent"
            BY Zenon, <3>1 DEF IsTask
        <3>. HIDE DEF q
        <3>. QED
            BY Zenon, <3>2
    <2>2. CASE AgentWritesTask(t)
        <3>1. PICK y \in Types, x \in {Never} \cup AgentTimes, s \in {"active", "paused"},
                   l \in IF row[t].status = "absent" THEN {FALSE} ELSE BOOLEAN :
                   row' = [row EXCEPT ![t] = [type |-> y, next |-> x, status |-> s, last |-> l]]
            BY <2>2, Zenon DEF AgentWritesTask
        <3>. DEFINE q == [type |-> y, next |-> x, status |-> s, last |-> l]
        <3>2. row' = [row EXCEPT ![t] = q] /\ IsTask(q) /\ q.status # "absent"
            BY Zenon, <3>1 DEF IsTask
        <3>. HIDE DEF q
        <3>. QED
            BY Zenon, <3>2
    <2>. QED
        BY Zenon, <2>1, <2>2
<1>2. /\ t \notin deleted /\ claims' = [claims EXCEPT ![t] = 0]
      /\ UNCHANGED <<run, edit, deleted, orphans>>
    BY Zenon DEF APICreateTask, AgentWritesTask, Rewritten
<1>3. Touches(t, r, run[t], 0, orphans[t])
    BY Zenon, <1>1, <1>2, Same DEF Touches
<1>4. TaskInv(r, run[t], 0, orphans[t], t \in deleted)
    BY Zenon, <1>1, <1>2, Same DEF TaskInv
<1>5. Edited
    BY Zenon, <1>2 DEF SchedulerInv, Edited
<1>. QED
    BY Zenon, <1>2, <1>3, <1>4, <1>5, TouchKeeps DEF SchedulerInv

\* The API's update works on a copy of a row that existed.
LEMMA ReadStep ==
    ASSUME SchedulerInv, NEW t \in Tasks, APIReadTask(t)
    PROVE  SchedulerInv'
<1>1. Edited
    BY Zenon, Same DEF APIReadTask, Edited, TaskInv
<1>2. UNCHANGED <<row, run, claims, orphans, deleted>>
    BY Zenon DEF APIReadTask, counts
<1>. QED
    BY Zenon, <1>1, <1>2 DEF SchedulerInv, Edited

\* It writes that copy back, unless the row is gone.
LEMMA UpdateStep ==
    ASSUME SchedulerInv, NEW t \in Tasks, APIUpdateTask(t)
    PROVE  SchedulerInv'
<1>1. PICK type : row' = UpdateTask(row, t, [edit.task EXCEPT !.type = type])
    BY Zenon DEF APIUpdateTask
<1>. DEFINE e == [edit.task EXCEPT !.type = type]
<1>2. IsTask(e) /\ e.status # "absent"
    BY DEF SchedulerInv, IsTask, APIUpdateTask
<1>. HIDE DEF e
<1>3. PICK r : /\ row' = [row EXCEPT ![t] = r]
               /\ r = IF row[t].status = "absent" THEN row[t] ELSE e
    BY Zenon, <1>1, UpdateRow DEF e
<1>4. /\ claims' = [claims EXCEPT ![t] = 0] /\ UNCHANGED <<run, deleted, orphans>>
      /\ edit' = NoEdit
    BY Zenon DEF APIUpdateTask, Rewritten
<1>5. Touches(t, r, run[t], 0, orphans[t])
    BY Zenon, <1>3, <1>4, Same DEF Touches
<1>6. TaskInv(r, run[t], 0, orphans[t], t \in deleted)
    BY Zenon, <1>2, <1>3, Same DEF TaskInv
<1>7. Edited
    BY Zenon, <1>4 DEF Edited, NoEdit, Absent, IsTask
<1>. QED
    BY Zenon, <1>4, <1>5, <1>6, <1>7, TouchKeeps DEF SchedulerInv

\* A delete leaves the run of the task, which has not begun without a row before.
LEMMA DeleteStep ==
    ASSUME SchedulerInv, NEW t \in Tasks, DeleteTask(t)
    PROVE  SchedulerInv'
<1>1. /\ row' = [row EXCEPT ![t] = Absent] /\ deleted' = deleted \cup {t}
      /\ UNCHANGED <<run, edit, claims, orphans>>
    BY Zenon DEF DeleteTask
<1>2. Touches(t, Absent, run[t], claims[t], orphans[t])
    BY Zenon, <1>1, Same DEF Touches
<1>3. TaskInv(Absent, run[t], claims[t], orphans[t], t \in deleted')
    BY Zenon, <1>1, Same DEF TaskInv, Absent, IsTask
<1>4. Edited
    BY Zenon, <1>1 DEF SchedulerInv, Edited
<1>. QED
    BY Zenon, <1>1, <1>2, <1>3, <1>4, TouchKeeps DEF SchedulerInv

\* A poll starts runs of due rows only, and a due once task is unclaimed.
LEMMA PollStep ==
    ASSUME SchedulerInv, Poll
    PROVE  SchedulerInv'
<1>1. /\ \A t \in Tasks : run'[t] = IF t \in GetDueTasks
                                  THEN [pc |-> "wait", task |-> row[t], failed |-> FALSE]
                                  ELSE Resting
      /\ run' = [t \in Tasks |-> run'[t]]
    BY Zenon DEF Poll
<1>2. UNCHANGED <<row, edit, claims, orphans, deleted>>
    BY Zenon DEF Poll, counts
<1>3. ASSUME NEW t \in Tasks
      PROVE  TaskInv(row[t], run'[t], claims[t], orphans[t], t \in deleted)
    <2>1. CASE t \in GetDueTasks
        <3>. DEFINE k == [pc |-> "wait", task |-> row[t], failed |-> FALSE]
        <3>1. IsTask(row[t])
            BY Zenon, Same DEF TaskInv
        <3>2. IsRun(k) /\ k.pc = "wait" /\ k.task = row[t]
            BY Zenon, <3>1 DEF IsRun
        <3>3. run'[t] = k /\ row[t].status = "active"
            BY Zenon, <1>1, <2>1 DEF GetDueTasks
        <3>. HIDE DEF k
        <3>. QED
            BY Zenon, <3>2, <3>3, Same DEF TaskInv
    <2>2. CASE t \notin GetDueTasks
        <3>1. IsRun(Resting) /\ Resting.pc = "idle"
            BY Zenon DEF Resting, IsRun, IsTask, Absent
        <3>. QED
            BY Zenon, <1>1, <2>2, <3>1, Same DEF TaskInv
    <2>. QED
        BY Zenon, <2>1, <2>2
<1>. QED
    BY Zenon, <1>1, <1>2, <1>3 DEF SchedulerInv

\* The semaphore and the steps of executeScheduledTask change no row and no claim.
LEMMA PcStep ==
    ASSUME SchedulerInv, NEW t \in Tasks, NEW k, run' = [run EXCEPT ![t] = k],
           UNCHANGED <<row, edit, claims, orphans, deleted>>,
           IsRun(k), k.task = run[t].task,
           \/ run[t].pc = "wait" /\ k.pc = "advance"
           \/ /\ run[t].pc \in {"execute", "enqueue", "compensate"}
              /\ k.pc \in {"enqueue", "compensate", "record"}
    PROVE  SchedulerInv'
<1>1. Touches(t, row[t], k, claims[t], orphans[t])
    BY Zenon, Same DEF Touches
<1>2. TaskInv(row[t], k, claims[t], orphans[t], t \in deleted)
    BY Same DEF TaskInv
<1>3. Edited
    BY Zenon DEF SchedulerInv, Edited
<1>. QED
    BY Zenon, <1>1, <1>2, <1>3, TouchKeeps DEF SchedulerInv

\* The fields of a run that EXCEPT does not name stay.
LEMMA RunExcept ==
    ASSUME NEW k, IsRun(k), NEW p, NEW w
    PROVE  /\ [k EXCEPT !.pc = p] = [pc |-> p, task |-> k.task, failed |-> k.failed]
           /\ [k EXCEPT !.pc = p, !.failed = TRUE] = [pc |-> p, task |-> k.task, failed |-> TRUE]
           /\ [k EXCEPT !.pc = p, !.task = w] = [pc |-> p, task |-> w, failed |-> k.failed]
<1>1. PICK a, b, c : k = [pc |-> a, task |-> b, failed |-> c]
    BY Zenon DEF IsRun
<1>2. k.task = b /\ k.failed = c
    BY Zenon, <1>1
<1>3. [k EXCEPT !.pc = p] = [pc |-> p, task |-> b, failed |-> c]
    BY <1>1
<1>. DEFINE f == [k EXCEPT !.pc = p, !.failed = TRUE]
            g == [k EXCEPT !.pc = p, !.task = w]
<1>4. f = [pc |-> p, task |-> b, failed |-> TRUE]
    <2>1. f \in [pc : {p}, task : {b}, failed : {TRUE}]
        BY Zenon, <1>1
    <2>. HIDE DEF f
    <2>. QED
        BY Zenon, <2>1
<1>5. g = [pc |-> p, task |-> w, failed |-> c]
    <2>1. g \in [pc : {p}, task : {w}, failed : {c}]
        BY Zenon, <1>1
    <2>. HIDE DEF g
    <2>. QED
        BY Zenon, <2>1
<1>. QED
    BY Zenon, <1>2, <1>3, <1>4, <1>5

\* Changing the pc, or pc and failed, of a run.
LEMMA RunFields ==
    ASSUME SchedulerInv, NEW t \in Tasks, NEW pc,
           \/ run' = [run EXCEPT ![t].pc = pc]
           \/ run' = [run EXCEPT ![t].pc = pc, ![t].failed = TRUE]
    PROVE  \E k : run' = [run EXCEPT ![t] = k] /\ IsRun(k) /\ k.pc = pc /\ k.task = run[t].task
<1>1. IsRun(run[t])
    BY Zenon, Same DEF TaskInv
<1>2. ASSUME NEW f
      PROVE  LET k == [pc |-> pc, task |-> run[t].task, failed |-> f]
             IN  IsRun(k) /\ k.pc = pc /\ k.task = run[t].task
    BY Zenon, <1>1 DEF IsRun
<1>3. CASE run' = [run EXCEPT ![t].pc = pc]
    <2>. DEFINE k == [pc |-> pc, task |-> run[t].task, failed |-> run[t].failed]
    <2>0. k = [run[t] EXCEPT !.pc = pc]
        BY Zenon, <1>1, RunExcept
    <2>1. run' = [run EXCEPT ![t] = k]
        BY Zenon, <1>3, <2>0 DEF SchedulerInv
    <2>2. IsRun(k) /\ k.pc = pc /\ k.task = run[t].task
        BY Zenon, <1>2
    <2>. HIDE DEF k
    <2>. QED
        BY Zenon, <2>1, <2>2
<1>4. CASE run' = [run EXCEPT ![t].pc = pc, ![t].failed = TRUE]
    <2>. DEFINE k == [pc |-> pc, task |-> run[t].task, failed |-> TRUE]
    <2>0. k = [run[t] EXCEPT !.pc = pc, !.failed = TRUE]
        BY Zenon, <1>1, RunExcept
    <2>1. run' = [run EXCEPT ![t] = k]
        BY Zenon, <1>4, <2>0 DEF SchedulerInv
    <2>2. IsRun(k) /\ k.pc = pc /\ k.task = run[t].task
        BY Zenon, <1>2
    <2>. HIDE DEF k
    <2>. QED
        BY Zenon, <2>1, <2>2
<1>. QED
    BY Zenon, <1>3, <1>4

\* Acquire, Execute, Enqueue and Compensate are such steps.
LEMMA ExecuteStep ==
    ASSUME SchedulerInv, NEW t \in Tasks,
           Acquire(t) \/ Execute(t) \/ Enqueue(t) \/ Compensate(t)
    PROVE  SchedulerInv'
<1>1. UNCHANGED <<row, edit, claims, orphans, deleted>>
    BY Zenon DEF Acquire, Execute, Enqueue, Compensate, counts
<1>2. PICK pc : /\ \/ run' = [run EXCEPT ![t].pc = pc]
                   \/ run' = [run EXCEPT ![t].pc = pc, ![t].failed = TRUE]
                /\ \/ run[t].pc = "wait" /\ pc = "advance"
                   \/ /\ run[t].pc \in {"execute", "enqueue", "compensate"}
                      /\ pc \in {"enqueue", "compensate", "record"}
    BY Zenon DEF Acquire, Execute, Enqueue, Compensate, Goto
<1>3. PICK k : run' = [run EXCEPT ![t] = k] /\ IsRun(k) /\ k.pc = pc /\ k.task = run[t].task
    BY Zenon, <1>2, RunFields
<1>. QED
    BY Zenon, <1>1, <1>2, <1>3, PcStep

\* The end of a run.
LEMMA Rests == IsRun(Resting) /\ Resting.pc = "idle"
BY Zenon DEF Resting, IsRun, IsTask, Absent

\* The first write of runTask claims the run, or gives it up.
LEMMA AdvanceStep ==
    ASSUME SchedulerInv, NEW t \in Tasks, Advance(t)
    PROVE  SchedulerInv'
<1>. DEFINE task == Advanced(run[t].task)
<1>1. TaskInv(row[t], run[t], claims[t], orphans[t], t \in deleted)
    BY Zenon, Same
<1>2. /\ run[t].pc = "advance" /\ UNCHANGED <<edit, deleted>>
    BY Zenon DEF Advance
<1>3. IsTask(run[t].task) /\ run[t].task.status # "absent" /\ IsRun(run[t])
    BY Zenon, <1>1, <1>2 DEF TaskInv, IsRun
<1>4. /\ IsTask(task) /\ task.type = run[t].task.type /\ task.status # "absent"
      /\ task.type = "once" => task.status = "completed"
    BY Zenon, <1>3 DEF Advanced, IsTask
<1>5. Edited
    BY Zenon, <1>2 DEF SchedulerInv, Edited
<1>6. CASE /\ row' = UpdateTask(row, t, task)
           /\ run' = [run EXCEPT ![t].pc = "execute", ![t].task = task]
           /\ claims' = Bump(claims, t, IF run[t].task.type = "once" THEN 1 ELSE 0)
           /\ orphans' = IF row[t].status = "absent" THEN Bump(orphans, t, 1) ELSE orphans
    <2>. DEFINE k == [run[t] EXCEPT !.pc = "execute", !.task = task]
    <2>. DEFINE c == claims[t] + IF run[t].task.type = "once" THEN 1 ELSE 0
    <2>. DEFINE o == IF row[t].status = "absent" THEN orphans[t] + 1 ELSE orphans[t]
    <2>. HIDE DEF task
    <2>1. PICK r : /\ row' = [row EXCEPT ![t] = r]
                   /\ r = IF row[t].status = "absent" THEN row[t] ELSE task
        BY Zenon, <1>6, UpdateRow
    <2>2. run' = [run EXCEPT ![t] = k]
        BY Zenon, <1>3, <1>6 DEF SchedulerInv, IsRun
    <2>3. IsRun(k) /\ k.pc = "execute" /\ k.task = task
        <3>1. k = [pc |-> "execute", task |-> task, failed |-> run[t].failed]
            BY Zenon, <1>3, RunExcept
        <3>2. k.pc = "execute" /\ k.task = task /\ k.failed = run[t].failed
            BY Zenon, <3>1
        <3>. HIDE DEF k
        <3>. QED
            BY Zenon, <1>4, <3>1, <3>2 DEF IsRun
    <2>4. claims' = [claims EXCEPT ![t] = c] /\ orphans' = [orphans EXCEPT ![t] = o]
        BY Zenon, <1>6, Same DEF Bump
    <2>5. c \in {0, 1} /\ o \in {0, 1} /\ (t \notin deleted => o = 0)
          /\ (task.type # "once" => c = claims[t])
        BY <1>1, <1>2, <1>4 DEF TaskInv
    <2>. HIDE DEF k, c, o
    <2>6. TaskInv(r, k, c, o, t \in deleted)
        BY Zenon, <1>1, <1>2, <1>4, <2>1, <2>3, <2>5 DEF TaskInv
    <2>7. Touches(t, r, k, c, o)
        BY Zenon, <2>1, <2>2, <2>4 DEF Touches
    <2>. QED
        BY Zenon, <1>2, <1>5, <2>6, <2>7, TouchKeeps DEF SchedulerInv
<1>7. CASE /\ Done(t) /\ UNCHANGED <<claims, orphans>>
           /\ row' \in {row, UpdateTask(row, t, [task EXCEPT !.status = "paused"])}
    <2>. DEFINE p == [task EXCEPT !.status = "paused"]
    <2>. HIDE DEF task
    <2>1. IsTask(p) /\ p.status = "paused"
        BY <1>4 DEF IsTask
    <2>. HIDE DEF p
    <2>2. PICK r : /\ row' = [row EXCEPT ![t] = r]
                   /\ r = row[t] \/ (r = p /\ row[t].status # "absent")
        BY <1>7, UpdateRow, Same DEF p
    <2>3. TaskInv(r, Resting, claims[t], orphans[t], t \in deleted)
        BY Zenon, <1>1, <2>1, <2>2, Rests DEF TaskInv
    <2>4. Touches(t, r, Resting, claims[t], orphans[t])
        BY Zenon, <1>7, <2>2, Same DEF Touches, Done
    <2>. QED
        BY Zenon, <1>2, <1>5, <2>3, <2>4, TouchKeeps DEF SchedulerInv
<1>. QED
    BY Zenon, <1>6, <1>7 DEF Advance

\* The last write of runTask: a once task is written as completed.
LEMMA RecordStep ==
    ASSUME SchedulerInv, NEW t \in Tasks, Record(t)
    PROVE  SchedulerInv'
<1>1. TaskInv(row[t], run[t], claims[t], orphans[t], t \in deleted)
    BY Zenon, Same
<1>2. run[t].pc = "record" /\ Done(t) /\ UNCHANGED <<edit, claims, orphans, deleted>>
    BY Zenon DEF Record, counts
<1>. DEFINE w == Outcome(run[t])
<1>3. IsTask(w) /\ w.status # "absent" /\ (w.type = "once" => w.status = "completed")
    <2>1. IsTask(run[t].task) /\ run[t].task.status # "absent"
          /\ (run[t].task.type = "once" => run[t].task.status = "completed")
        BY Zenon, <1>1, <1>2 DEF TaskInv, IsRun
    <2>. QED
        BY Zenon, <2>1 DEF Outcome, IsTask
<1>. HIDE DEF w
<1>4. PICK r : /\ row' = [row EXCEPT ![t] = r]
               /\ r = row[t] \/ (r = w /\ row[t].status # "absent")
    BY UpdateRow, Same DEF Record, w
<1>5. TaskInv(r, Resting, claims[t], orphans[t], t \in deleted)
    BY Zenon, <1>1, <1>3, <1>4, Rests DEF TaskInv
<1>6. Touches(t, r, Resting, claims[t], orphans[t])
    BY Zenon, <1>2, <1>4, Same DEF Touches, Done
<1>7. Edited
    BY Zenon, <1>2 DEF SchedulerInv, Edited
<1>. QED
    BY Zenon, <1>2, <1>5, <1>6, <1>7, TouchKeeps DEF SchedulerInv

\* A restart forgets runs and the edit; rows and claims stay.
LEMMA RestartStep ==
    ASSUME SchedulerInv, Crash
    PROVE  SchedulerInv'
<1>1. /\ run' = [t \in Tasks |-> Resting] /\ edit' = NoEdit
      /\ UNCHANGED <<row, claims, orphans, deleted>>
    BY Zenon DEF Crash, counts
<1>2. \A t \in Tasks : TaskInv(row[t], Resting, claims[t], orphans[t], t \in deleted)
    BY Zenon, Same, Rests DEF TaskInv
<1>3. Edited
    BY Zenon, <1>1 DEF Edited, NoEdit, Absent, IsTask
<1>4. \A t \in Tasks : run'[t] = Resting
    BY Zenon, <1>1
<1>. QED
    BY Zenon, <1>1, <1>2, <1>3, <1>4 DEF SchedulerInv, Edited

\* Every step of Scheduler keeps the invariant.
LEMMA SchedulerStep == SchedulerInv /\ [Next]_vars => SchedulerInv'
<1>. SUFFICES ASSUME SchedulerInv, [Next]_vars
              PROVE  SchedulerInv'
    BY Zenon
<1>1. CASE Tick \/ UNCHANGED vars
    BY Zenon, <1>1 DEF Tick, vars, counts, SchedulerInv
<1>2. ASSUME NEW t \in Tasks,
             \/ RunStep(t)
             \/ APICreateTask(t) \/ AgentWritesTask(t) \/ APIReadTask(t) \/ APIUpdateTask(t)
             \/ DeleteTask(t)
      PROVE  SchedulerInv'
    BY <1>2, ExecuteStep, AdvanceStep, RecordStep, CreateStep, ReadStep, UpdateStep, DeleteStep,
       Zenon DEF RunStep
<1>. QED
    BY Zenon, <1>1, <1>2, PollStep, RestartStep DEF Next

\* runTask claims a once task at most once for each time a user wrote it, whatever fails and
\* however often the process restarts.
THEOREM OnceTheorem == Spec => []OnceClaimedOnce
<1>1. SchedulerInv => OnceClaimedOnce
    BY DEF SchedulerInv, TaskInv, OnceClaimedOnce
<1>. QED
    BY <1>1, SchedulerStart, SchedulerStep, PTL DEF Spec

\* No writer of scheduled_tasks brings a deleted row back, and a deleted task begins at most
\* one more run.
THEOREM DeletedTheorem == Spec => []DeletedStaysDeleted
<1>1. SchedulerInv => DeletedStaysDeleted
    BY DEF SchedulerInv, TaskInv, DeletedStaysDeleted
<1>. QED
    BY <1>1, SchedulerStart, SchedulerStep, PTL DEF Spec

----------------------------------------------------------------------------
\* Prompts that are stored and not enqueued: one while its run is between StoreMessage and
\* the call that enqueues or removes it, none otherwise, unless the task has a stray prompt.
PromptInv ==
    /\ SchedulerInv
    /\ loose = [t \in Tasks |-> loose[t]]
    /\ \A t \in Tasks :
           t \in stray \/ loose[t] = IF run[t].pc \in {"enqueue", "compensate"} THEN 1 ELSE 0

\* A step on one task keeps what is said of the prompts of the others.
LEMMA PromptKeeps ==
    ASSUME PromptInv, SchedulerInv', NEW t \in Tasks, NEW k, NEW n,
           run' = [run EXCEPT ![t] = k], loose' = [loose EXCEPT ![t] = n],
           stray \subseteq stray',
           t \in stray' \/ n = IF k.pc \in {"enqueue", "compensate"} THEN 1 ELSE 0
    PROVE  PromptInv'
<1>1. \A u \in Tasks : /\ run'[u] = IF u = t THEN k ELSE run[u]
                       /\ loose'[u] = IF u = t THEN n ELSE loose[u]
    BY Zenon DEF PromptInv, SchedulerInv
<1>2. loose' = [u \in Tasks |-> loose'[u]]
    BY Zenon DEF PromptInv
<1>. QED
    BY Zenon, <1>1, <1>2 DEF PromptInv

\* Steps of one run: StoreMessage adds the prompt, Enqueue and the delete take it away, and a
\* delete that fails makes it a stray one.
LEMMA PromptRun ==
    ASSUME PromptInv, SchedulerInv', NEW t \in Tasks, RunStep(t)
    PROVE  PromptInv'
<1>. DEFINE Held(p) == IF p \in {"enqueue", "compensate"} THEN 1 ELSE 0
<1>1. /\ loose = [loose EXCEPT ![t] = loose[t]]
      /\ t \in stray \/ loose[t] = Held(run[t].pc)
    BY Zenon DEF PromptInv
<1>2. SchedulerInv
    BY Zenon DEF PromptInv
<1>3. CASE Acquire(t) \/ Execute(t) \/ Enqueue(t) \/ Compensate(t)
    <2>1. ASSUME NEW pc, NEW n,
                 \/ run' = [run EXCEPT ![t].pc = pc]
                 \/ run' = [run EXCEPT ![t].pc = pc, ![t].failed = TRUE],
                 loose' = [loose EXCEPT ![t] = n], stray \subseteq stray',
                 t \in stray' \/ n = Held(pc)
          PROVE  PromptInv'
        <3>. HIDE DEF Held
        <3>1. \/ run' = [run EXCEPT ![t].pc = pc]
              \/ run' = [run EXCEPT ![t].pc = pc, ![t].failed = TRUE]
            BY Zenon, <2>1
        <3>2. PICK k : run' = [run EXCEPT ![t] = k] /\ IsRun(k) /\ k.pc = pc /\ k.task = run[t].task
            BY Zenon, <1>2, <3>1, RunFields
        <3>. QED
            BY Zenon, <2>1, <3>2, PromptKeeps DEF Held
    <2>2. CASE Acquire(t)
        <3>1. /\ run' = [run EXCEPT ![t].pc = "advance"] /\ Held(run[t].pc) = 0
              /\ UNCHANGED <<loose, stray>>
            BY Zenon, <2>2 DEF Acquire, Goto, messages
        <3>. QED
            BY Zenon, <1>1, <2>1, <3>1
    <2>3. CASE Execute(t)
        <3>1. stray' = stray /\ Held(run[t].pc) = 0
            BY Zenon, <2>3 DEF Execute
        <3>2. CASE loose' = Bump(loose, t, 1) /\ Goto(t, "enqueue")
            <4>1. t \in stray \/ loose[t] + 1 = Held("enqueue")
                BY <1>1, <3>1
            <4>2. loose' = [loose EXCEPT ![t] = loose[t] + 1]
                BY Zenon, <3>2 DEF Bump
            <4>. QED
                BY Zenon, <2>1, <3>1, <3>2, <4>1, <4>2 DEF Goto
        <3>3. CASE loose' = loose /\ run' = [run EXCEPT ![t].pc = "record", ![t].failed = TRUE]
            BY Zenon, <1>1, <2>1, <3>1, <3>3
        <3>. QED
            BY Zenon, <2>3, <3>2, <3>3 DEF Execute
    <2>4. CASE Enqueue(t)
        <3>1. stray' = stray /\ Held(run[t].pc) = 1
            BY Zenon, <2>4 DEF Enqueue
        <3>2. CASE loose' = Bump(loose, t, -1) /\ Goto(t, "record")
            <4>1. t \in stray \/ loose[t] + (-1) = Held("record")
                BY <1>1, <3>1
            <4>2. loose' = [loose EXCEPT ![t] = loose[t] + (-1)]
                BY Zenon, <3>2 DEF Bump
            <4>. QED
                BY Zenon, <2>1, <3>1, <3>2, <4>1, <4>2 DEF Goto
        <3>3. CASE loose' = loose /\ run' = [run EXCEPT ![t].pc = "compensate", ![t].failed = TRUE]
            BY Zenon, <1>1, <2>1, <3>1, <3>3
        <3>. QED
            BY Zenon, <2>4, <3>2, <3>3 DEF Enqueue
    <2>5. CASE Compensate(t)
        <3>1. run' = [run EXCEPT ![t].pc = "record"] /\ Held(run[t].pc) = 1
            BY Zenon, <2>5 DEF Compensate, Goto
        <3>2. CASE loose' = Bump(loose, t, -1) /\ stray' = stray
            <4>1. t \in stray \/ loose[t] + (-1) = Held("record")
                BY <1>1, <3>1
            <4>2. loose' = [loose EXCEPT ![t] = loose[t] + (-1)]
                BY Zenon, <3>2 DEF Bump
            <4>. QED
                BY Zenon, <2>1, <3>1, <3>2, <4>1, <4>2
        <3>3. CASE loose' = loose /\ stray' = stray \cup {t}
            BY Zenon, <1>1, <2>1, <3>1, <3>3
        <3>. QED
            BY Zenon, <2>5, <3>2, <3>3 DEF Compensate
    <2>. QED
        BY Zenon, <1>3, <2>2, <2>3, <2>4, <2>5
<1>4. CASE Advance(t)
    <2>1. UNCHANGED <<loose, stray>> /\ Held(run[t].pc) = 0
        BY Zenon, <1>4 DEF Advance, messages
    <2>2. PICK k : run' = [run EXCEPT ![t] = k] /\ Held(k.pc) = 0
        <3>. DEFINE w == Advanced(run[t].task)
        <3>. HIDE DEF w
        <3>1. IsRun(run[t])
            BY Zenon, <1>2, Same DEF TaskInv
        <3>2. CASE run' = [run EXCEPT ![t].pc = "execute", ![t].task = w]
            <4>. DEFINE k == [pc |-> "execute", task |-> w, failed |-> run[t].failed]
            <4>1. [run[t] EXCEPT !.pc = "execute", !.task = w] = k
                BY Zenon, <3>1, RunExcept
            <4>2. run' = [run EXCEPT ![t] = k] /\ k.pc = "execute"
                BY Zenon, <1>2, <3>2, <4>1 DEF SchedulerInv
            <4>. HIDE DEF k
            <4>. QED
                BY Zenon, <4>2
        <3>3. CASE Done(t)
            BY Zenon, <3>3, Rests DEF Done
        <3>. QED
            BY Zenon, <1>4, <3>2, <3>3 DEF Advance, w
    <2>. QED
        BY Zenon, <1>1, <2>1, <2>2, PromptKeeps
<1>5. CASE Record(t)
    BY Zenon, <1>1, <1>5, Rests, PromptKeeps DEF Record, Done, messages
<1>. QED
    BY Zenon, <1>3, <1>4, <1>5 DEF RunStep

\* Every step of Scheduler keeps it: users touch no prompt, a poll starts runs that have
\* stored none, and a restart makes those of the runs it ends stray.
LEMMA PromptStep == PromptInv /\ [Next]_vars => PromptInv'
<1>. SUFFICES ASSUME PromptInv, [Next]_vars
              PROVE  PromptInv'
    BY Zenon
<1>1. SchedulerInv'
    BY Zenon, SchedulerStep DEF PromptInv
<1>2. ASSUME UNCHANGED <<run, loose, stray>>
      PROVE  PromptInv'
    BY Zenon, <1>1, <1>2 DEF PromptInv
<1>3. CASE Tick \/ UNCHANGED vars
    BY Zenon, <1>2, <1>3 DEF Tick, vars, messages
<1>4. ASSUME NEW t \in Tasks,
             \/ APICreateTask(t) \/ AgentWritesTask(t) \/ APIReadTask(t) \/ APIUpdateTask(t)
             \/ DeleteTask(t)
      PROVE  PromptInv'
    BY Zenon, <1>2, <1>4 DEF APICreateTask, AgentWritesTask, APIReadTask, APIUpdateTask, DeleteTask,
       messages
<1>5. CASE Poll
    <2>1. \A t \in Tasks : run[t].pc = "idle" /\ run'[t].pc \in {"wait", "idle"}
        BY Zenon, <1>5, Rests DEF Poll
    <2>2. UNCHANGED <<loose, stray>>
        BY Zenon, <1>5 DEF Poll, messages
    <2>. QED
        BY Zenon, <1>1, <2>1, <2>2 DEF PromptInv
<1>6. CASE Crash
    <2>1. /\ \A t \in Tasks : run'[t].pc = "idle"
          /\ stray' = stray \cup {t \in Tasks : run[t].pc \in {"enqueue", "compensate"}}
          /\ loose' = loose
        BY Zenon, <1>6, Rests DEF Crash
    <2>. QED
        BY Zenon, <1>1, <2>1 DEF PromptInv
<1>. QED
    BY Zenon, <1>1, <1>3, <1>4, <1>5, <1>6, PromptRun DEF Next

\* A run of executeScheduledTask that fails leaves no prompt for the agent to find: outside of
\* it every stored prompt was enqueued, but for those whose delete failed or that a restart
\* cut off.
THEOREM NoStrayTheorem == Spec => []NoStrayPrompt
<1>1. Init => PromptInv
    BY Zenon, SchedulerStart, Rests DEF Init, PromptInv
<1>2. PromptInv => NoStrayPrompt
    BY DEF PromptInv, NoStrayPrompt
<1>. QED
    BY <1>1, <1>2, PromptStep, PTL DEF Spec

-----------------------------------------------------------------------------
(* The models of a group. *)

\* Every model somebody may name.
Models == AllModels \cup {g.model : g \in Configs}

IsConfig(g) == g = [provider |-> g.provider, model |-> g.model] /\ g.model \in Models
IsCommand(k) == k = [pc |-> k.pc, arg |-> k.arg, group |-> k.group]

\* A model and the provider that must have it.
FitsProvider(m, p) == p = None \/ m \in Known(p) \cup {None}

Written(k) == k.pc \in {"session", "cache", "notify"}

\* A command: what it is going to write it writes whole.
CommandInv(k) ==
  /\ IsCommand(k)
  /\ k.pc # "idle" => k.arg \in Models
  /\ k.pc \in {"idle", "read", "write", "session", "cache", "notify"}
  /\ k.pc = "write" => IsConfig(k.group) /\ k.group.model = k.arg

\* As long as no registration came between: it writes a model of the row's provider.
CommandFits(k, g) ==
  /\ k.pc = "read" => FitsProvider(k.arg, g.provider)
  /\ k.pc = "write" => FitsProvider(k.arg, g.provider) /\ k.group.provider = g.provider

RowInv ==
  /\ IsConfig(groupRow)
  /\ cmd = [c \in Commands |-> cmd[c]]
  /\ \A c \in Commands : CommandInv(cmd[c])
  /\ inbox \in Seq(Models)

FitInv ==
  "fit" \notin raced =>
    /\ FitsProvider(groupRow.model, groupRow.provider)
    /\ \A c \in Commands : CommandFits(cmd[c], groupRow)

\* As long as nothing overlapped: one command at a time, and no agent starts during it;
\* what is started, and what an agent will have read, is the model of the row, unless the
\* command that wrote it has still to tell the agent.
AgentInv ==
  "agent" \notin raced =>
    /\ \A c, d \in Commands : cmd[c].pc # "idle" /\ cmd[d].pc # "idle" => c = d
    /\ Commanding => spawn = None
    /\ \A c \in Commands : Written(cmd[c]) => cmd[c].arg = groupRow.model
    /\ spawn # None => spawn.model = groupRow.model /\ ~Leftover
    /\ agent # None => active
    /\ agent # None /\ (\A c \in Commands : ~Written(cmd[c])) =>
         ~Leftover /\ (inbox = <<>> => agent.model = groupRow.model)

ModelInv == RowInv /\ FitInv /\ AgentInv

-----------------------------------------------------------------------------
\* A sequence of length 0 is empty.
LEMMA EmptySeq ==
  ASSUME NEW S
  PROVE  <<>> \in Seq(S) /\ \A q \in Seq(S) : q = <<>> <=> Len(q) = 0
  OBVIOUS

\* Both checks of a model let through only models of the provider.
LEMMA Validated ==
  ASSUME NEW p, NEW m, NEW list \in ListModels(p), ValidateRequestedModel(p, m, list)
  PROVE  m \in Known(p) \cup {None}
<1>1. CASE list \in {Failed, {}}
  BY Zenon, <1>1 DEF ValidateRequestedModel, ValidateModel, Known
<1>2. CASE list \notin {Failed, {}}
  <2>1. m \in list /\ list \in ListModels(p) \ {Failed}
    BY Zenon, <1>2 DEF ValidateRequestedModel
  <2>. QED
    BY Zenon, <2>1 DEF Known
<1>. QED
  BY Zenon, <1>1, <1>2

\* A row that RegisterGroup accepts fits.
LEMMA AcceptedFits ==
  ASSUME NEW g, Registrable(g)
  PROVE  FitsProvider(g.model, g.provider)
<1>1. PICK list \in ListModels(g.provider) : Accepted(g, list)
  BY Zenon DEF Registrable
<1>2. CASE g.provider = None
  BY Zenon, <1>2 DEF FitsProvider
<1>3. CASE g.provider # None /\ (g.model = None \/ list = Failed)
  BY Zenon, <1>1, <1>3 DEF FitsProvider, Accepted, ValidateModel, Known
<1>4. CASE g.provider # None /\ ~(g.model = None \/ list = Failed)
  <2>1. g.model \in list /\ list \in ListModels(g.provider) \ {Failed}
    BY Zenon, <1>1, <1>4 DEF Accepted
  <2>. QED
    BY Zenon, <2>1 DEF FitsProvider, Known
<1>. QED
  BY Zenon, <1>2, <1>3, <1>4

\* Reading a message changes neither the last one nor, if it is the last, what it says.
LEMMA LastRead ==
  ASSUME NEW q \in Seq(Models), q # <<>>
  PROVE  /\ Tail(q) \in Seq(Models)
         /\ Tail(q) = <<>> => Head(q) = q[Len(q)]
         /\ Tail(q) # <<>> => Tail(q)[Len(Tail(q))] = q[Len(q)]
<1>1. Len(q) \in Nat \ {0}
  OBVIOUS
<1>2. Head(q) = q[1] /\ Tail(q) \in Seq(Models) /\ Len(Tail(q)) = Len(q) - 1
  BY <1>1
<1>3. CASE Len(q) = 1
  <2>1. PICK u : u = Tail(q)
    BY Zenon
  <2>2. u \in Seq(Models) /\ Len(u) = 0
    BY <1>1, <1>2, <1>3, <2>1
  <2>3. u = <<>>
    BY Zenon, <2>2, EmptySeq
  <2>. QED
    BY Zenon, <1>2, <1>3, <2>1, <2>3
<1>4. CASE Len(q) # 1
  <2>1. Len(q) - 1 \in 1..Len(Tail(q)) /\ (Len(q) - 1) + 1 = Len(q) /\ Len(Tail(q)) # 0
    BY <1>1, <1>2, <1>4
  <2>2. Tail(q) # <<>>
    BY Zenon, <1>2, <2>1, EmptySeq
  <2>3. Tail(q)[Len(q) - 1] = q[Len(q)]
    BY <1>1, <1>2, <2>1
  <2>. QED
    BY Zenon, <1>2, <2>2, <2>3
<1>. QED
  BY Zenon, <1>3, <1>4

\* A model sent is the last one in the inbox.
LEMMA LastSent ==
  ASSUME NEW q \in Seq(Models), NEW m \in Models
  PROVE  LET r == Append(q, m) IN r \in Seq(Models) /\ r # <<>> /\ r[Len(r)] = m
  OBVIOUS

\* Nothing that the invariant is about changes.
LEMMA Unmoved ==
  ASSUME ModelInv, UNCHANGED <<groupRow, cmd, spawn, active, agent, inbox>>, raced \subseteq raced'
  PROVE  ModelInv'
<1>1. Commanding' <=> Commanding
  BY Zenon DEF Commanding
<1>2. RowInv'
  BY Zenon DEF ModelInv, RowInv
<1>3. FitInv'
  BY Zenon DEF ModelInv, FitInv
<1>4. AgentInv'
  BY Zenon, <1>1 DEF ModelInv, AgentInv, Leftover
<1>. QED
  BY Zenon, <1>2, <1>3, <1>4 DEF ModelInv

\* A command moves, the row being g afterwards.
LEMMA CommandMoves ==
  ASSUME RowInv, NEW c \in Commands, NEW k, CommandInv(k), cmd' = [cmd EXCEPT ![c] = k],
         IsConfig(groupRow'), inbox' \in Seq(Models)
  PROVE  RowInv' /\ cmd'[c] = k /\ \A d \in Commands \ {c} : cmd'[d] = cmd[d]
  BY Zenon DEF RowInv

\* The command that moves leaves the row with its provider.
LEMMA FitKept ==
  ASSUME FitInv, NEW c \in Commands, \A d \in Commands \ {c} : cmd'[d] = cmd[d],
         raced \subseteq raced', groupRow'.provider = groupRow.provider \/ "fit" \in raced',
         "fit" \notin raced => CommandFits(cmd'[c], groupRow) /\ FitsProvider(groupRow'.model, groupRow.provider)
  PROVE  FitInv'
<1>. SUFFICES ASSUME "fit" \notin raced' PROVE FitInv'
  BY Zenon DEF FitInv
<1>1. /\ "fit" \notin raced /\ groupRow'.provider = groupRow.provider
      /\ \A d \in Commands : CommandFits(cmd'[d], groupRow)
  BY Zenon DEF FitInv
<1>2. \A d \in Commands : CommandFits(cmd'[d], groupRow')
  BY Zenon, <1>1 DEF CommandFits
<1>. QED
  BY Zenon, <1>1, <1>2 DEF FitInv

-----------------------------------------------------------------------------
\* A /model command begins.
LEMMA StepHandle ==
  ASSUME ModelInv, NEW c \in Commands, NEW m \in AllModels, HandleModel(c, m)
  PROVE  ModelInv'
<1>. DEFINE k == [pc |-> "read", arg |-> m, group |-> None]
<1>1. /\ cmd[c].pc = "idle" /\ cmd' = [cmd EXCEPT ![c] = k] /\ UNCHANGED <<groupRow, spawn, active, agent, inbox>>
      /\ Doubt({"agent"}, Commanding \/ spawn # None)
  BY Zenon DEF HandleModel
<1>2. CommandInv(k) /\ k.pc = "read" /\ k.arg = m
  BY Zenon DEF CommandInv, IsCommand, Models
<1>. HIDE DEF k
<1>3. RowInv' /\ cmd'[c] = k /\ \A d \in Commands \ {c} : cmd'[d] = cmd[d]
  BY Zenon, <1>1, <1>2, CommandMoves DEF ModelInv, RowInv
<1>4. raced \subseteq raced' /\ ("agent" \notin raced' => ~Commanding /\ spawn = None)
  BY Zenon, <1>1 DEF Doubt
<1>5. FitsProvider(m, groupRow.provider)
  <2>1. m \in Known(ProviderOf(groupRow)) \cup {None}
    BY Zenon, Validated DEF HandleModel
  <2>. QED
    BY Zenon, <2>1 DEF FitsProvider, ProviderOf
<1>6. FitInv'
  <2>1. CommandFits(k, groupRow)
    BY Zenon, <1>2, <1>5 DEF CommandFits
  <2>2. "fit" \notin raced => FitsProvider(groupRow'.model, groupRow.provider)
    BY Zenon, <1>1 DEF ModelInv, FitInv
  <2>. QED
    BY Zenon, <1>1, <1>3, <1>4, <2>1, <2>2, FitKept DEF ModelInv
<1>7. AgentInv'
  <2>. SUFFICES ASSUME "agent" \notin raced' PROVE AgentInv'
    BY Zenon DEF AgentInv
  <2>1. \A d \in Commands \ {c} : cmd'[d].pc = "idle"
    BY Zenon, <1>3, <1>4 DEF Commanding
  <2>2. \A d \in Commands : ~Written(cmd[d]) /\ ~Written(cmd'[d])
    BY Zenon, <1>1, <1>2, <1>3, <1>4, <2>1 DEF Commanding, Written
  <2>. QED
    BY Zenon, <1>1, <1>4, <2>1, <2>2 DEF ModelInv, AgentInv, Leftover
<1>. QED
  BY Zenon, <1>3, <1>6, <1>7 DEF ModelInv

\* RegisterGroup.
LEMMA StepRegister ==
  ASSUME ModelInv, NEW g \in Configs, RegisterGroup(g)
  PROVE  ModelInv'
<1>1. groupRow' = g /\ UNCHANGED <<cmd, spawn, active, agent, inbox>> /\ Registrable(g)
  BY Zenon DEF RegisterGroup, UpsertGroup
<1>2. /\ raced \subseteq raced' /\ ("fit" \notin raced' => ~Commanding)
      /\ ("agent" \notin raced' => ~Commanding /\ spawn = None /\ agent = None)
  BY Zenon DEF RegisterGroup
<1>3. RowInv'
  BY Zenon, <1>1, ModelsAssumption DEF ModelInv, RowInv, IsConfig, Models
<1>4. FitInv'
  BY Zenon, <1>1, <1>2, AcceptedFits DEF FitInv, CommandFits, Commanding
<1>5. AgentInv'
  BY Zenon, <1>1, <1>2 DEF AgentInv, Commanding, Written
<1>. QED
  BY Zenon, <1>3, <1>4, <1>5 DEF ModelInv

\* The steps of a command after the first.
LEMMA StepCommand ==
  ASSUME ModelInv, NEW c \in Commands, Handle(c)
  PROVE  ModelInv'
<1>. PICK q : q = cmd[c]
  BY Zenon
<1>0. /\ q = cmd[c] /\ CommandInv(q) /\ IsConfig(groupRow) /\ RowInv /\ FitInv /\ AgentInv /\ inbox \in Seq(Models)
      /\ ("fit" \notin raced => CommandFits(q, groupRow) /\ FitsProvider(groupRow.model, groupRow.provider))
      /\ ("agent" \notin raced /\ q.pc # "idle" =>
           spawn = None /\ \A d \in Commands \ {c} : cmd[d].pc = "idle")
  BY Zenon DEF ModelInv, RowInv, FitInv, AgentInv, Commanding
<1>i. CommandInv(Idle) /\ CommandFits(Idle, groupRow) /\ ~Written(Idle) /\ Idle.pc = "idle"
  BY Zenon DEF CommandInv, IsCommand, Idle, CommandFits, Written
<1>p. ASSUME NEW pc \in {"session", "cache", "notify"}, q.pc # "idle"
      PROVE  LET k == [q EXCEPT !.pc = pc]
             IN  CommandInv(k) /\ CommandFits(k, groupRow) /\ k.pc = pc /\ k.arg = q.arg
  <2>. DEFINE k == [q EXCEPT !.pc = pc]
  <2>1. k = [pc |-> pc, arg |-> q.arg, group |-> q.group]
    BY <1>0 DEF CommandInv, IsCommand
  <2>. HIDE DEF k
  <2>2. CommandInv(k) /\ CommandFits(k, groupRow) /\ k.pc = pc /\ k.arg = q.arg
    BY Zenon, <1>0, <1>p, <2>1 DEF CommandInv, IsCommand, CommandFits
  <2>. QED
    BY Zenon, <2>2 DEF k
<1>1. CASE ReadGroup(c)
  <2>. DEFINE g == [groupRow EXCEPT !.model = q.arg]
              k == [pc |-> "write", arg |-> q.arg, group |-> g]
  <2>1. q.pc = "read" /\ cmd' = [cmd EXCEPT ![c] = k] /\ UNCHANGED <<groupRow, spawn, active, agent, inbox, raced>>
    BY Zenon, <1>0, <1>1 DEF ReadGroup, GetGroup
  <2>2. IsConfig(g) /\ g.provider = groupRow.provider /\ g.model = q.arg
    BY <1>0, <2>1 DEF IsConfig, CommandInv
  <2>. HIDE DEF g
  <2>3. k = [pc |-> "write", arg |-> q.arg, group |-> g]
    BY Zenon
  <2>. HIDE DEF k
  <2>4. CommandInv(k) /\ ~Written(k) /\ ~Written(q) /\ k.pc = "write"
    BY Zenon, <1>0, <2>1, <2>2, <2>3 DEF CommandInv, IsCommand, Written
  <2>5. RowInv' /\ cmd'[c] = k /\ \A d \in Commands \ {c} : cmd'[d] = cmd[d]
    BY Zenon, <1>0, <2>1, <2>4, CommandMoves
  <2>6. "fit" \notin raced => CommandFits(k, groupRow)
    BY Zenon, <1>0, <2>1, <2>2, <2>3 DEF CommandFits
  <2>7. FitInv'
    BY Zenon, <1>0, <2>1, <2>5, <2>6, FitKept
  <2>8. AgentInv'
    BY <1>0, <2>1, <2>4, <2>5 DEF AgentInv, Commanding, Leftover
  <2>. QED
    BY Zenon, <2>5, <2>7, <2>8 DEF ModelInv
<1>2. CASE WriteGroup(c) /\ UNCHANGED groupRow /\ Finish(c)
  <2>1. q.pc = "write" /\ cmd' = [cmd EXCEPT ![c] = Idle] /\ UNCHANGED <<groupRow, spawn, active, agent, inbox, raced>>
    BY Zenon, <1>0, <1>2 DEF WriteGroup, Finish
  <2>2. RowInv' /\ cmd'[c] = Idle /\ \A d \in Commands \ {c} : cmd'[d] = cmd[d]
    BY Zenon, <1>0, <1>i, <2>1, CommandMoves
  <2>3. FitInv'
    BY Zenon, <1>0, <1>i, <2>1, <2>2, FitKept
  <2>4. AgentInv'
    BY <1>0, <1>i, <2>1, <2>2 DEF AgentInv, Commanding, Written, Leftover
  <2>. QED
    BY Zenon, <2>2, <2>3, <2>4 DEF ModelInv
<1>3. CASE WriteGroup(c) /\ UpsertGroup(cmd[c].group) /\ Step(c, "session")
  <2>. DEFINE k == [q EXCEPT !.pc = "session"]
  <2>1. q.pc = "write" /\ cmd' = [cmd EXCEPT ![c] = k] /\ groupRow' = q.group
        /\ UNCHANGED <<spawn, active, agent, inbox, raced>>
    BY Zenon, <1>0, <1>3 DEF WriteGroup, Step, UpsertGroup
  <2>2. CommandInv(k) /\ CommandFits(k, groupRow) /\ k.pc = "session" /\ k.arg = q.arg
    BY Zenon, <1>p, <2>1
  <2>. HIDE DEF k
  <2>3. IsConfig(q.group) /\ q.group.model = q.arg
    BY Zenon, <1>0, <2>1 DEF CommandInv
  <2>4. RowInv' /\ cmd'[c] = k /\ \A d \in Commands \ {c} : cmd'[d] = cmd[d]
    BY Zenon, <1>0, <2>1, <2>2, <2>3, CommandMoves
  <2>5. FitInv'
    <3>1. "fit" \notin raced => q.group.provider = groupRow.provider /\ FitsProvider(q.group.model, groupRow.provider)
      BY Zenon, <1>0, <2>1, <2>3 DEF CommandFits
    <3>. QED
      BY Zenon, <1>0, <2>1, <2>2, <2>4, <3>1, FitKept
  <2>6. AgentInv'
    BY <1>0, <2>1, <2>2, <2>3, <2>4 DEF AgentInv, Commanding, Written
  <2>. QED
    BY Zenon, <2>4, <2>5, <2>6 DEF ModelInv
<1>4. CASE DeleteSession(c) /\ Finish(c) /\ Doubt({"agent"}, TRUE)
  <2>1. /\ cmd' = [cmd EXCEPT ![c] = Idle] /\ UNCHANGED <<groupRow, inbox>>
        /\ raced \subseteq raced' /\ "agent" \in raced'
    BY Zenon, <1>4 DEF DeleteSession, Finish, Doubt
  <2>2. RowInv' /\ cmd'[c] = Idle /\ \A d \in Commands \ {c} : cmd'[d] = cmd[d]
    BY Zenon, <1>0, <1>i, <2>1, CommandMoves
  <2>3. FitInv'
    BY Zenon, <1>0, <1>i, <2>1, <2>2, FitKept
  <2>4. AgentInv'
    BY Zenon, <2>1 DEF AgentInv
  <2>. QED
    BY Zenon, <2>2, <2>3, <2>4 DEF ModelInv
<1>5. ASSUME NEW pc \in {"cache", "notify"}, Step(c, pc), Written(q), UNCHANGED <<groupRow, spawn, active, agent, inbox, raced>>
      PROVE  ModelInv'
  <2>. DEFINE k == [q EXCEPT !.pc = pc]
  <2>1. q.pc # "idle" /\ cmd' = [cmd EXCEPT ![c] = k]
    BY Zenon, <1>0, <1>5 DEF Step, Written
  <2>2. CommandInv(k) /\ CommandFits(k, groupRow) /\ k.pc = pc /\ k.arg = q.arg
    BY Zenon, <1>p, <2>1
  <2>. HIDE DEF k
  <2>3. RowInv' /\ cmd'[c] = k /\ \A d \in Commands \ {c} : cmd'[d] = cmd[d]
    BY Zenon, <1>0, <1>5, <2>1, <2>2, CommandMoves
  <2>4. FitInv'
    BY Zenon, <1>0, <1>5, <2>2, <2>3, FitKept
  <2>5. AgentInv'
    BY <1>0, <1>5, <2>1, <2>2, <2>3 DEF AgentInv, Commanding, Written, Leftover
  <2>. QED
    BY Zenon, <2>3, <2>4, <2>5 DEF ModelInv
<1>6. CASE DeleteSession(c) /\ Step(c, "cache") /\ UNCHANGED raced
  BY Zenon, <1>0, <1>5, <1>6 DEF DeleteSession, Written
<1>7. CASE UpdateCache(c)
  BY Zenon, <1>0, <1>5, <1>7 DEF UpdateCache, Written
<1>8. CASE NotifyActive(c)
  <2>1. /\ q.pc = "notify" /\ cmd' = [cmd EXCEPT ![c] = Idle] /\ UNCHANGED <<groupRow, spawn, active, agent>>
        /\ raced \subseteq raced'
    BY Zenon, <1>0, <1>8 DEF NotifyActive, Finish, Doubt
  <2>m. inbox' \in Seq(Models)
    BY Zenon, <1>0, <1>8, <2>1, LastSent DEF NotifyActive, CommandInv
  <2>2. RowInv' /\ cmd'[c] = Idle /\ \A d \in Commands \ {c} : cmd'[d] = cmd[d]
    BY Zenon, <1>0, <1>i, <2>1, <2>m, CommandMoves
  <2>3. FitInv'
    BY Zenon, <1>0, <1>i, <2>1, <2>2, FitKept
  <2>4. AgentInv'
    <3>. SUFFICES ASSUME "agent" \notin raced' PROVE AgentInv'
      BY Zenon DEF AgentInv
    <3>1. "agent" \notin raced /\ q.arg = groupRow.model /\ q.arg \in Models
      BY Zenon, <1>0, <2>1 DEF AgentInv, Written, CommandInv
    <3>2. CASE ~active /\ UNCHANGED inbox
      BY <1>0, <1>i, <2>1, <2>2, <3>1, <3>2 DEF AgentInv, Commanding, Written, Leftover
    <3>3. CASE inbox' = Append(inbox, cmd[c].arg)
      <4>1. inbox' # <<>> /\ inbox'[Len(inbox')] = groupRow.model
        BY Zenon, <1>0, <3>1, <3>3, LastSent
      <4>2. ~Leftover'
        BY Zenon, <2>1, <4>1 DEF Leftover
      <4>. QED
        BY <1>0, <1>i, <2>1, <2>2, <3>1, <4>1, <4>2 DEF AgentInv, Commanding, Written
    <3>4. ~Doubt({"agent"}, TRUE)
      BY Zenon DEF Doubt
    <3>. QED
      BY Zenon, <1>8, <3>2, <3>3, <3>4 DEF NotifyActive
  <2>. QED
    BY Zenon, <2>2, <2>3, <2>4 DEF ModelInv
<1>. QED
  BY Zenon, <1>1, <1>2, <1>3, <1>4, <1>6, <1>7, <1>8 DEF Handle, WriteGroup, DeleteSession

\* A new agent: the doubts begin anew.
LEMMA StepSpawn ==
  ASSUME ModelInv, SpawnRead
  PROVE  ModelInv'
<1>1. /\ UNCHANGED <<groupRow, cmd, active, agent, inbox>> /\ spawn'.model = cache.model /\ agent = None
      /\ ("fit" \in raced => "fit" \in raced')
      /\ ("agent" \notin raced' => ~Commanding /\ cache.model = groupRow.model /\ ~Leftover)
  BY Zenon DEF SpawnRead
<1>2. (Commanding' <=> Commanding) /\ (Leftover' <=> Leftover)
  BY Zenon, <1>1 DEF Commanding, Leftover
<1>3. RowInv' /\ FitInv'
  BY Zenon, <1>1 DEF ModelInv, RowInv, FitInv
<1>4. AgentInv'
  BY Zenon, <1>1, <1>2 DEF AgentInv, Commanding, Written
<1>. QED
  BY Zenon, <1>3, <1>4 DEF ModelInv

\* Agents become active, read their messages and end; their group is deactivated and its
\* stream deleted.
LEMMA StepAgent ==
  ASSUME ModelInv, SpawnActive \/ SetModel \/ AgentExit \/ Deactivate \/ DeleteStreams
  PROVE  ModelInv'
<1>1. UNCHANGED <<groupRow, cmd>> /\ raced \subseteq raced' /\ (Commanding' <=> Commanding)
  <2>1. UNCHANGED <<groupRow, cmd>> /\ raced \subseteq raced'
    BY Zenon DEF SpawnActive, SetModel, AgentExit, Deactivate, DeleteStreams, Doubt
  <2>. QED
    BY Zenon, <2>1 DEF Commanding
<1>2. RowInv' /\ FitInv'
  <2>1. inbox' \in Seq(Models)
    BY Zenon, LastRead, EmptySeq DEF ModelInv, RowInv, SpawnActive, SetModel, AgentExit, Deactivate, DeleteStreams
  <2>. QED
    BY Zenon, <1>1, <2>1 DEF ModelInv, RowInv, FitInv
<1>3. AgentInv'
  <2>. SUFFICES ASSUME "agent" \notin raced' PROVE AgentInv'
    BY Zenon DEF AgentInv
  <2>1. AgentInv /\ "agent" \notin raced /\ inbox \in Seq(Models)
    BY Zenon, <1>1 DEF ModelInv, RowInv
  <2>3. CASE SpawnActive
    <3>1. /\ spawn # None /\ spawn' = None /\ inbox' = inbox /\ ~Commanding
          /\ spawn.model = groupRow.model /\ ~Leftover /\ ~Leftover'
      BY Zenon, <1>1, <2>1, <2>3 DEF SpawnActive, AgentInv, Leftover
    <3>2. CASE agent' = [model |-> spawn.model] /\ active' = TRUE
      <4>1. agent'.model = groupRow.model
        BY Zenon, <3>1, <3>2
      <4>. QED
        BY Zenon, <1>1, <2>1, <3>1, <3>2, <4>1 DEF AgentInv
    <3>3. CASE UNCHANGED <<active, agent>>
      BY Zenon, <1>1, <2>1, <3>1, <3>3 DEF AgentInv
    <3>. QED
      BY Zenon, <2>3, <3>2, <3>3 DEF SpawnActive
  <2>5. CASE SetModel
    <3>1. /\ agent # None /\ inbox # <<>> /\ UNCHANGED <<spawn, active>>
          /\ agent'.model = Head(inbox) /\ inbox' = Tail(inbox)
      BY Zenon, <2>5 DEF SetModel
    <3>2. Leftover' => Leftover
      BY Zenon, <1>1, <2>1, <3>1, LastRead DEF Leftover
    <3>3. inbox' = <<>> /\ ~Leftover => agent'.model = groupRow.model
      BY Zenon, <2>1, <3>1, LastRead DEF Leftover
    <3>. QED
      BY Zenon, <1>1, <2>1, <3>1, <3>2, <3>3 DEF AgentInv
  <2>6. CASE AgentExit
    BY Zenon, <1>1, <2>1, <2>6 DEF AgentExit, AgentInv, Leftover
  <2>7. CASE Deactivate
    BY Zenon, <1>1, <2>1, <2>7 DEF Deactivate, Doubt, AgentInv, Leftover
  <2>8. CASE DeleteStreams
    BY Zenon, <1>1, <2>1, <2>8 DEF DeleteStreams, Doubt, AgentInv, Leftover
  <2>. QED
    BY Zenon, <2>3, <2>5, <2>6, <2>7, <2>8
<1>. QED
  BY Zenon, <1>2, <1>3 DEF ModelInv

\* A restart forgets the commands.
LEMMA StepRestart ==
  ASSUME ModelInv, Restart
  PROVE  ModelInv'
<1>1. /\ UNCHANGED <<groupRow, active, agent, inbox>> /\ spawn' = None /\ raced \subseteq raced'
      /\ cmd' = [c \in Commands |-> Idle] /\ ("agent" \notin raced' => ~Commanding)
  BY Zenon DEF Restart, Doubt
<1>2. CommandInv(Idle) /\ CommandFits(Idle, groupRow) /\ ~Written(Idle) /\ Idle.pc = "idle"
  BY Zenon DEF CommandInv, IsCommand, Idle, CommandFits, Written
<1>3. \A c \in Commands : cmd'[c] = Idle
  BY Zenon, <1>1
<1>4. RowInv'
  BY Zenon, <1>1, <1>2, <1>3 DEF ModelInv, RowInv
<1>5. FitInv'
  BY Zenon, <1>1, <1>2, <1>3 DEF ModelInv, FitInv
<1>6. AgentInv'
  BY Zenon, <1>1, <1>2, <1>3 DEF ModelInv, AgentInv, Commanding, Written, Leftover
<1>. QED
  BY Zenon, <1>4, <1>5, <1>6 DEF ModelInv

\* The invariant holds throughout.
LEMMA ModelsInvariant == ModelSpec => []ModelInv
<1>1. ModelInit => ModelInv
  <2>. SUFFICES ASSUME ModelInit PROVE ModelInv
    BY Zenon
  <2>1. CommandInv(Idle) /\ CommandFits(Idle, groupRow) /\ ~Written(Idle) /\ Idle.pc = "idle"
    BY Zenon DEF CommandInv, IsCommand, Idle, CommandFits, Written
  <2>2. /\ groupRow \in Configs /\ Registrable(groupRow) /\ agent = None /\ spawn = None /\ inbox = <<>>
        /\ cmd = [c \in Commands |-> Idle] /\ \A c \in Commands : cmd[c] = Idle
    BY Zenon DEF ModelInit
  <2>3. RowInv
    BY Zenon, <2>1, <2>2, ModelsAssumption, EmptySeq DEF RowInv, IsConfig, Models
  <2>4. FitInv
    BY Zenon, <2>1, <2>2, AcceptedFits DEF FitInv
  <2>5. AgentInv
    BY Zenon, <2>1, <2>2 DEF AgentInv, Commanding
  <2>. QED
    BY Zenon, <2>3, <2>4, <2>5 DEF ModelInv
<1>2. ModelInv /\ [ModelNext]_modelVars => ModelInv'
  <2>. SUFFICES ASSUME ModelInv, [ModelNext]_modelVars PROVE ModelInv'
    BY Zenon
  <2>1. CASE Asked
    BY Zenon, <2>1, StepHandle, StepRegister DEF Asked
  <2>2. CASE RefreshRead \/ RefreshInstall \/ SessionUpdate \/ UpsertSession
    <3>1. UNCHANGED <<groupRow, cmd, spawn, active, agent, inbox>> /\ raced \subseteq raced'
      BY Zenon, <2>2 DEF RefreshRead, RefreshInstall, SessionUpdate, UpsertSession, Doubt
    <3>. QED
      BY Zenon, <3>1, Unmoved
  <2>3. CASE UNCHANGED modelVars
    BY Zenon, <2>3, Unmoved DEF modelVars
  <2>4. CASE Own
    BY Zenon, <2>2, <2>4, StepCommand, StepSpawn, StepAgent, StepRestart DEF Own, Refresh
  <2>. QED
    BY Zenon, <2>1, <2>3, <2>4 DEF ModelNext
<1>. QED
  BY <1>1, <1>2, PTL DEF ModelSpec

\* For any number of /model commands, agents and restarts, the model in a group's row is one
\* of its provider, unless a registration came between the steps of a command.
THEOREM FitsTheorem == ModelSpec => []ModelFits
<1>1. ModelInv => ModelFits
  BY Zenon DEF ModelInv, FitInv, FitsProvider, ModelFits
<1>. QED
  BY <1>1, ModelsInvariant, PTL

\* For any number of commands, agents and restarts, and whatever agents leave unread, once
\* handlers have finished an agent that has read its messages runs the model of the
\* group's row, but for the overlaps in its own life that raced records.
THEOREM CurrentTheorem == ModelSpec => []AgentCurrent
<1>1. ModelInv => AgentCurrent
  <2>. SUFFICES ASSUME ModelInv, Quiet, agent # None, inbox = <<>>, "agent" \notin raced
                PROVE  agent.model = groupRow.model
    BY Zenon DEF AgentCurrent
  <2>1. \A c \in Commands : ~Written(cmd[c])
    BY Zenon DEF Quiet, Commanding, Written
  <2>. QED
    BY Zenon, <2>1 DEF ModelInv, AgentInv
<1>. QED
  BY <1>1, ModelsInvariant, PTL

-----------------------------------------------------------------------------
(* The migrations. *)

-----------------------------------------------------------------------------
Places == {"lock", "seed", "insert", "up", "register", "ready", "failed"}
Critical == {"seed", "insert", "up", "register"}

MigrateTypes ==
  /\ proc \in [Processes -> [pc : Places, next : Nat, tries : Nat]]
  /\ goose = NoTable \/ goose \in SUBSET Versions
  /\ legacy = NoTable \/ legacy \in [version : Versions, dirty : BOOLEAN]
  /\ ran \in [Versions -> Nat] /\ torn \in BOOLEAN

\* A process in runMigrations holds the lock and seeds from the first version on; goose's
\* part begins when there is nothing to seed and ends when all is registered.
AtPlace(p) ==
  /\ proc[p].pc \in Critical => locked = {p}
  /\ proc[p].pc \in {"lock", "seed"} => proc[p].next = 1
  /\ Pc(p, "insert") =>
       /\ legacy # NoTable /\ goose # NoTable
       /\ goose = {v \in SeedVersions : v < proc[p].next}
  /\ proc[p].pc \in {"up", "register"} => Seeded
  /\ Pc(p, "register") => goose # NoTable /\ Versions \ goose # {}
  /\ Pc(p, "ready") => Versions \subseteq Registered

\* What is registered, was migrated by the earlier release or is about to be registered
\* has been run.
RunInv ==
  /\ legacy # NoTable => \A v \in SeedVersions : ran[v] >= 1
  /\ \A v \in Registered : ran[v] >= 1
  /\ \A p \in Processes : Pc(p, "register") => \A v \in Oldest(Versions \ goose) : ran[v] >= 1

\* Why a migration that was run is not run again: it is registered, will be seeded, or
\* is about to be registered.
Accounted(v) ==
  \/ v \in Registered
  \/ /\ legacy # NoTable /\ v \in SeedVersions
     /\ goose = NoTable \/ goose = {} \/ \E p \in Processes : Pc(p, "insert")
  \/ \E p \in Processes : Pc(p, "register") /\ v \in Oldest(Versions \ goose)

OnceInv ==
  ~torn =>
    /\ \A v \in Versions : ran[v] <= 1 /\ (ran[v] = 1 => Accounted(v))
    /\ legacy # NoTable /\ goose # NoTable /\ goose # {} /\ (\A p \in Processes : ~Pc(p, "insert"))
         => SeedVersions \subseteq goose

MigrateInv == MigrateTypes /\ (\A p \in Processes : AtPlace(p)) /\ RunInv /\ OnceInv

-----------------------------------------------------------------------------
\* There is one oldest version.
LEMMA OldestOne ==
  ASSUME NEW S \in SUBSET Nat, NEW m \in Oldest(S)
  PROVE  m \in S /\ Oldest(S) = {m}
<1>1. \A v \in Oldest(S) : v \in Nat /\ m \in Nat /\ v <= m /\ m <= v
  BY Zenon DEF Oldest
<1>2. \A v \in Oldest(S) : v = m
  BY <1>1
<1>. QED
  BY Zenon, <1>2 DEF Oldest

\* A turn moves one process and nothing but its place.
LEMMA TurnStep ==
  ASSUME MigrateTypes, NEW p \in Processes, NEW c \in Places, Turn(p, c)
  PROVE  /\ proc' \in [Processes -> [pc : Places, next : Nat, tries : Nat]]
         /\ proc'[p].pc = c /\ proc'[p].next = proc[p].next
         /\ \A q \in Processes \ {p} : proc'[q] = proc[q]
  BY Zenon DEF MigrateTypes, Turn

\* The lock has one holder.
LEMMA Alone ==
  ASSUME MigrateInv, NEW p \in Processes, proc[p].pc \in Critical
  PROVE  /\ locked = {p}
         /\ \A q \in Processes \ {p} : proc[q].pc \notin Critical
  BY Zenon DEF MigrateInv, AtPlace

\* Who waits, is ready or has failed does not mind what the holder of the lock does.
LEMMA OthersStay ==
  ASSUME MigrateInv, NEW p \in Processes, Registered \subseteq Registered',
         \A q \in Processes \ {p} : proc'[q] = proc[q] /\ proc[q].pc \notin Critical
  PROVE  \A q \in Processes \ {p} :
           AtPlace(q)' /\ ~Pc(q, "insert") /\ ~Pc(q, "register") /\ ~Pc(q, "insert")' /\ ~Pc(q, "register")'
<1>. SUFFICES ASSUME NEW q \in Processes \ {p}
              PROVE  AtPlace(q)' /\ ~Pc(q, "insert") /\ ~Pc(q, "register") /\ ~Pc(q, "insert")' /\ ~Pc(q, "register")'
  BY Zenon
<1>1. AtPlace(q) /\ proc'[q] = proc[q] /\ proc[q].pc \notin Critical
  BY Zenon DEF MigrateInv
<1>. QED
  BY Zenon, <1>1 DEF AtPlace, Pc, Critical

\* The versions to seed are numbers and include the first.
LEMMA Seeds ==
  ASSUME MigrateTypes, legacy # NoTable
  PROVE  SeedVersions \in SUBSET Versions /\ 1 \in SeedVersions /\ SeedVersions # NoTable
<1>1. legacy.version \in Versions
  BY Zenon DEF MigrateTypes
<1>2. 1 \in Versions /\ 1 <= legacy.version
  BY <1>1, MigrateAssumption DEF Versions
<1>. QED
  BY Zenon, <1>2, MigrateAssumption DEF SeedVersions

\* The lock is taken.
LEMMA MigrateLock ==
  ASSUME MigrateInv, NEW p \in Processes, Lock(p)
  PROVE  MigrateInv'
<1>1. /\ Pc(p, "lock") /\ locked = {} /\ locked' = {p} /\ Turn(p, "seed")
      /\ UNCHANGED <<goose, legacy, ran, torn>>
  BY Zenon DEF Lock
<1>2. /\ proc' \in [Processes -> [pc : Places, next : Nat, tries : Nat]]
      /\ proc'[p].pc = "seed" /\ proc'[p].next = proc[p].next
      /\ \A q \in Processes \ {p} : proc'[q] = proc[q]
  BY Zenon, <1>1, TurnStep DEF MigrateInv, Places
<1>3. \A q \in Processes : proc[q].pc \notin Critical
  BY Zenon, <1>1 DEF MigrateInv, AtPlace
<1>4. Registered' = Registered
  BY Zenon, <1>1 DEF Registered
<1>5. \A q \in Processes \ {p} :
        AtPlace(q)' /\ ~Pc(q, "insert") /\ ~Pc(q, "register") /\ ~Pc(q, "insert")' /\ ~Pc(q, "register")'
  BY Zenon, <1>2, <1>3, <1>4, OthersStay
<1>6. ~Pc(p, "insert") /\ ~Pc(p, "register") /\ ~Pc(p, "insert")' /\ ~Pc(p, "register")'
  BY Zenon, <1>1, <1>2 DEF Pc
<1>7. AtPlace(p)'
  BY Zenon, <1>1, <1>2 DEF MigrateInv, AtPlace, Pc, Critical
<1>8. MigrateTypes'
  BY Zenon, <1>1, <1>2 DEF MigrateInv, MigrateTypes
<1>9. SeedVersions' = SeedVersions
  BY Zenon, <1>1 DEF SeedVersions
<1>10. RunInv'
  BY Zenon, <1>1, <1>4, <1>5, <1>6, <1>9 DEF MigrateInv, RunInv
<1>11. OnceInv'
  BY Zenon, <1>1, <1>4, <1>5, <1>6, <1>9 DEF MigrateInv, OnceInv, Accounted
<1>. QED
  BY Zenon, <1>5, <1>7, <1>8, <1>10, <1>11 DEF MigrateInv

\* A process dies or is started again; what it had begun is torn.
LEMMA MigrateLeave ==
  ASSUME MigrateInv, NEW p \in Processes, Die(p) \/ Revive(p)
  PROVE  MigrateInv'
<1>1. /\ UNCHANGED <<goose, legacy, ran>>
      /\ torn' = (torn \/ Tearing(p)) \/ (torn' = torn /\ Pc(p, "failed"))
      /\ locked' = locked \/ (locked' = locked \ {p} /\ Pc(p, "failed"))
  BY Zenon DEF Die, Revive
<1>2. /\ proc' \in [Processes -> [pc : Places, next : Nat, tries : Nat]]
      /\ proc'[p].pc = "failed" \/ (proc'[p].pc = "lock" /\ proc'[p].next = 1)
      /\ \A q \in Processes \ {p} : proc'[q] = proc[q]
  <2>1. CASE Die(p)
    BY Zenon, <2>1, TurnStep DEF Die, MigrateInv, Places
  <2>2. CASE Revive(p)
    <3>1. Starting \in [pc : Places, next : Nat, tries : Nat] /\ Starting.pc = "lock" /\ Starting.next = 1
      BY Zenon DEF Starting, Places
    <3>2. proc' = [proc EXCEPT ![p] = Starting]
      BY Zenon, <2>2 DEF Revive
    <3>. QED
      BY Zenon, <3>1, <3>2 DEF MigrateInv, MigrateTypes
  <2>. QED
    BY Zenon, <2>1, <2>2
<1>3. Registered' = Registered /\ SeedVersions' = SeedVersions /\ (Seeded' <=> Seeded)
  BY Zenon, <1>1 DEF Registered, SeedVersions, Seeded
<1>4. \A q \in Processes : AtPlace(q)'
  <2>1. AtPlace(p)'
    BY Zenon, <1>1, <1>2 DEF AtPlace, Pc, Critical
  <2>2. ASSUME NEW q \in Processes \ {p}
        PROVE  AtPlace(q)'
    <3>1. AtPlace(q) /\ proc'[q] = proc[q] /\ (locked = {q} => locked' = {q})
      BY Zenon, <1>1, <1>2 DEF MigrateInv
    <3>. QED
      BY Zenon, <1>1, <1>3, <3>1 DEF AtPlace, Pc
  <2>. QED
    BY Zenon, <2>1, <2>2
<1>5. MigrateTypes'
  <2>1. torn' \in BOOLEAN
    BY Zenon, <1>1 DEF MigrateInv, MigrateTypes
  <2>. QED
    BY Zenon, <1>1, <1>2, <2>1 DEF MigrateInv, MigrateTypes
<1>6. \A q \in Processes : (Pc(q, "register")' => Pc(q, "register")) /\ (Pc(q, "insert")' => Pc(q, "insert"))
  BY Zenon, <1>2 DEF Pc
<1>7. RunInv'
  BY Zenon, <1>1, <1>3, <1>6 DEF MigrateInv, RunInv
<1>8. ASSUME ~torn'
      PROVE  OnceInv'
  <2>1. ~torn /\ (~Tearing(p) \/ Pc(p, "failed"))
    <3>1. CASE torn' = (torn \/ Tearing(p))
      BY Zenon, <1>8, <3>1
    <3>2. CASE torn' = torn /\ Pc(p, "failed")
      BY Zenon, <1>8, <3>2
    <3>. QED
      BY Zenon, <1>1, <3>1, <3>2
  <2>2. ~torn /\ ~Pc(p, "register") /\ (Pc(p, "insert") => goose = {} \/ SeedVersions \subseteq goose)
    <3>1. CASE ~Tearing(p)
      BY Zenon, <2>1, <3>1 DEF Tearing
    <3>2. CASE Pc(p, "failed")
      BY Zenon, <2>1, <3>2 DEF Pc
    <3>. QED
      BY Zenon, <2>1, <3>1, <3>2
  <2>3. /\ \A q \in Processes : Pc(q, "register") => Pc(q, "register")'
        /\ \A q \in Processes \ {p} : Pc(q, "insert") => Pc(q, "insert")'
    BY Zenon, <1>2, <2>2 DEF Pc
  <2>4. Pc(p, "insert") => goose # NoTable
    BY Zenon DEF MigrateInv, AtPlace
  <2>5. \A v \in Versions : Accounted(v) => Accounted(v)'
    BY Zenon, <1>1, <1>3, <2>2, <2>3, <2>4 DEF Accounted, Registered
  <2>6. legacy # NoTable /\ goose # NoTable /\ goose # {} /\ (\A q \in Processes : ~Pc(q, "insert")')
          => SeedVersions \subseteq goose
    BY Zenon, <2>2, <2>3 DEF MigrateInv, OnceInv
  <2>. QED
    BY Zenon, <1>1, <1>3, <2>2, <2>5, <2>6 DEF MigrateInv, OnceInv
<1>. QED
  BY Zenon, <1>4, <1>5, <1>7, <1>8 DEF MigrateInv, OnceInv

-----------------------------------------------------------------------------
\* seedLegacyMigrations: nothing to do, a dirty row, or the first insert to come.
LEMMA MigrateSeedCheck ==
  ASSUME MigrateInv, NEW p \in Processes, SeedCheck(p)
  PROVE  MigrateInv'
<1>1. Pc(p, "seed") /\ UNCHANGED <<legacy, ran, torn>>
  BY Zenon DEF SeedCheck
<1>2. locked = {p} /\ \A q \in Processes \ {p} : proc[q].pc \notin Critical
  BY Zenon, <1>1, Alone DEF Pc, Critical
<1>3. SeedVersions' = SeedVersions
  BY Zenon, <1>1 DEF SeedVersions
<1>4. ~Pc(p, "insert") /\ ~Pc(p, "register") /\ proc[p].next = 1
  BY Zenon, <1>1 DEF Pc, MigrateInv, AtPlace
<1>5. CASE /\ Seeded \/ legacy.dirty
           /\ \/ Seeded /\ Turn(p, "up") /\ locked' = locked
              \/ Turn(p, "failed")
           /\ goose' = goose
  <2>1. /\ proc' \in [Processes -> [pc : Places, next : Nat, tries : Nat]]
        /\ (Seeded /\ proc'[p].pc = "up" /\ locked' = locked) \/ proc'[p].pc = "failed"
        /\ \A q \in Processes \ {p} : proc'[q] = proc[q]
    BY Zenon, <1>5, TurnStep DEF MigrateInv, Places
  <2>2. Registered' = Registered /\ (Seeded' <=> Seeded)
    BY Zenon, <1>1, <1>5 DEF Registered, Seeded
  <2>3. \A q \in Processes \ {p} :
          AtPlace(q)' /\ ~Pc(q, "insert") /\ ~Pc(q, "register") /\ ~Pc(q, "insert")' /\ ~Pc(q, "register")'
    BY Zenon, <1>2, <2>1, <2>2, OthersStay
  <2>4. AtPlace(p)' /\ ~Pc(p, "insert")' /\ ~Pc(p, "register")'
    BY Zenon, <1>2, <2>1, <2>2 DEF AtPlace, Pc, Critical
  <2>5. MigrateTypes'
    BY Zenon, <1>1, <1>5, <2>1 DEF MigrateInv, MigrateTypes
  <2>6. RunInv'
    BY Zenon, <1>1, <1>3, <1>5, <2>2, <2>3, <2>4 DEF MigrateInv, RunInv
  <2>7. OnceInv'
    BY Zenon, <1>1, <1>3, <1>4, <1>5, <2>2, <2>3, <2>4 DEF MigrateInv, OnceInv, Accounted
  <2>. QED
    BY Zenon, <2>3, <2>4, <2>5, <2>6, <2>7 DEF MigrateInv
<1>6. CASE ~Seeded /\ Turn(p, "insert") /\ goose' = {} /\ locked' = locked
  <2>1. /\ proc' \in [Processes -> [pc : Places, next : Nat, tries : Nat]]
        /\ proc'[p].pc = "insert" /\ proc'[p].next = 1
        /\ \A q \in Processes \ {p} : proc'[q] = proc[q]
    BY Zenon, <1>4, <1>6, TurnStep DEF MigrateInv, Places
  <2>2. legacy # NoTable /\ (goose = NoTable \/ goose = {}) /\ {} # NoTable
    BY Zenon, <1>6, MigrateAssumption DEF Seeded
  <2>3. Registered = {} /\ Registered' = {}
    BY Zenon, <1>6, <2>2 DEF Registered
  <2>4. \A q \in Processes \ {p} :
          AtPlace(q)' /\ ~Pc(q, "insert") /\ ~Pc(q, "register") /\ ~Pc(q, "insert")' /\ ~Pc(q, "register")'
    BY Zenon, <1>2, <2>1, <2>3, OthersStay
  <2>5. Pc(p, "insert")' /\ ~Pc(p, "register")'
    BY Zenon, <2>1 DEF Pc
  <2>6. {v \in SeedVersions : v < 1} = {}
    BY MigrateAssumption DEF SeedVersions, Versions
  <2>7. AtPlace(p)'
    BY Zenon, <1>1, <1>2, <1>3, <1>6, <2>1, <2>2, <2>6 DEF AtPlace, Pc, Critical
  <2>8. MigrateTypes'
    BY Zenon, <1>1, <1>6, <2>1 DEF MigrateInv, MigrateTypes
  <2>9. RunInv'
    BY Zenon, <1>1, <1>3, <2>3, <2>4, <2>5 DEF MigrateInv, RunInv
  <2>10. OnceInv'
    BY Zenon, <1>1, <1>3, <1>4, <2>2, <2>3, <2>4, <2>5 DEF MigrateInv, OnceInv, Accounted
  <2>. QED
    BY Zenon, <2>4, <2>7, <2>8, <2>9, <2>10 DEF MigrateInv
<1>. QED
  BY Zenon, <1>5, <1>6 DEF SeedCheck

\* One insert of the seeding, or its end.
LEMMA MigrateSeedInsert ==
  ASSUME MigrateInv, NEW p \in Processes, SeedInsert(p)
  PROVE  MigrateInv'
<1>. DEFINE left == {v \in SeedVersions : v >= proc[p].next}
<1>1. Pc(p, "insert") /\ UNCHANGED <<legacy, locked, ran, torn>>
  BY Zenon DEF SeedInsert
<1>2. locked = {p} /\ \A q \in Processes \ {p} : proc[q].pc \notin Critical
  BY Zenon, <1>1, Alone DEF Pc, Critical
<1>3. SeedVersions' = SeedVersions
  BY Zenon, <1>1 DEF SeedVersions
<1>4. /\ legacy # NoTable /\ goose # NoTable /\ goose = {v \in SeedVersions : v < proc[p].next}
      /\ proc[p].next \in Nat /\ ~Pc(p, "register")
  BY Zenon, <1>1 DEF MigrateInv, AtPlace, MigrateTypes, Pc
<1>5. SeedVersions \in SUBSET Versions /\ 1 \in SeedVersions /\ Versions \subseteq Nat
  BY <1>4, Seeds, MigrateAssumption DEF MigrateInv, Versions
<1>6. CASE left = {}
  <2>1. Turn(p, "up") /\ goose' = goose
    BY Zenon, <1>6 DEF SeedInsert
  <2>2. /\ proc' \in [Processes -> [pc : Places, next : Nat, tries : Nat]]
        /\ proc'[p].pc = "up" /\ \A q \in Processes \ {p} : proc'[q] = proc[q]
    BY Zenon, <2>1, TurnStep DEF MigrateInv, Places
  <2>3. ASSUME NEW v \in SeedVersions
        PROVE  v \in goose
    <3>1. v \in Nat /\ ~(v >= proc[p].next)
      BY Zenon, <1>5, <1>6
    <3>2. v < proc[p].next
      BY <1>4, <3>1
    <3>. QED
      BY Zenon, <1>4, <3>2
  <2>4. Registered' = Registered /\ goose # {}
    BY Zenon, <1>5, <2>1, <2>3 DEF Registered
  <2>5. \A q \in Processes \ {p} :
          AtPlace(q)' /\ ~Pc(q, "insert") /\ ~Pc(q, "register") /\ ~Pc(q, "insert")' /\ ~Pc(q, "register")'
    BY Zenon, <1>2, <2>2, <2>4, OthersStay
  <2>6. AtPlace(p)' /\ ~Pc(p, "insert")' /\ ~Pc(p, "register")'
    BY Zenon, <1>1, <1>2, <1>4, <2>1, <2>2, <2>4 DEF AtPlace, Pc, Critical, Seeded
  <2>7. MigrateTypes'
    BY Zenon, <1>1, <2>1, <2>2 DEF MigrateInv, MigrateTypes
  <2>8. RunInv'
    BY Zenon, <1>1, <1>3, <2>4, <2>5, <2>6 DEF MigrateInv, RunInv
  <2>9. OnceInv'
    <3>1. \A v \in Versions : Accounted(v) => v \in Registered'
      BY Zenon, <1>4, <2>3, <2>4, <2>5 DEF Accounted, Registered
    <3>2. \A v \in Versions : v \in Registered' => Accounted(v)'
      BY Zenon DEF Accounted
    <3>. QED
      BY Zenon, <1>1, <1>3, <2>1, <2>3, <3>1, <3>2 DEF MigrateInv, OnceInv
  <2>. QED
    BY Zenon, <2>5, <2>6, <2>7, <2>8, <2>9 DEF MigrateInv
<1>7. CASE left # {}
  <2>1. PICK m \in Oldest(left) :
          goose' = goose \cup {m} /\ proc' = [proc EXCEPT ![p].next = m + 1]
    BY Zenon, <1>7 DEF SeedInsert
  <2>2. m \in left /\ \A y \in left : m <= y
    BY Zenon DEF Oldest
  <2>3. m \in SeedVersions /\ m >= proc[p].next /\ m \in Nat
    BY Zenon, <1>5, <2>2
  <2>4. goose' = {v \in SeedVersions : v < m + 1}
    <3>1. ASSUME NEW v \in SeedVersions, v < m + 1
          PROVE  v \in goose'
      <4>1. v \in Nat
        BY Zenon, <1>5
      <4>2. CASE v < proc[p].next
        BY Zenon, <1>4, <2>1, <4>2
      <4>3. CASE v >= proc[p].next
        <5>1. m <= v
          BY Zenon, <2>2, <4>3
        <5>2. v = m
          BY <2>3, <3>1, <4>1, <5>1
        <5>. QED
          BY Zenon, <2>1, <5>2
      <4>. QED
        BY <1>4, <4>1, <4>2, <4>3
    <3>2. ASSUME NEW v \in goose'
          PROVE  v \in SeedVersions /\ v < m + 1
      <4>1. CASE v = m
        BY <2>3, <4>1
      <4>2. CASE v \in goose
        <5>1. v \in SeedVersions /\ v < proc[p].next /\ v \in Nat
          BY Zenon, <1>4, <1>5, <4>2
        <5>. QED
          BY <1>4, <2>3, <5>1
      <4>. QED
        BY Zenon, <2>1, <3>2, <4>1, <4>2
    <3>. QED
      BY Zenon, <3>1, <3>2
  <2>5. /\ proc' \in [Processes -> [pc : Places, next : Nat, tries : Nat]]
        /\ proc'[p].pc = "insert" /\ proc'[p].next = m + 1
        /\ \A q \in Processes \ {p} : proc'[q] = proc[q]
    BY <1>1, <2>1, <2>3 DEF MigrateInv, MigrateTypes, Pc
  <2>6. goose' \in SUBSET Versions /\ goose' # NoTable
    BY Zenon, <1>5, <2>4, MigrateAssumption
  <2>7. Registered' = goose' /\ Registered = goose
    BY Zenon, <1>4, <2>6 DEF Registered
  <2>8. \A q \in Processes \ {p} :
          AtPlace(q)' /\ ~Pc(q, "insert") /\ ~Pc(q, "register") /\ ~Pc(q, "insert")' /\ ~Pc(q, "register")'
    <3>1. Registered \subseteq Registered'
      BY Zenon, <2>1, <2>7
    <3>. QED
      BY Zenon, <1>2, <2>5, <3>1, OthersStay
  <2>9. Pc(p, "insert")' /\ ~Pc(p, "register")'
    BY Zenon, <2>5 DEF Pc
  <2>10. AtPlace(p)'
    BY Zenon, <1>1, <1>2, <1>3, <1>4, <2>4, <2>5, <2>6 DEF AtPlace, Pc, Critical
  <2>11. MigrateTypes'
    BY Zenon, <1>1, <2>5, <2>6 DEF MigrateInv, MigrateTypes
  <2>12. RunInv'
    BY Zenon, <1>1, <1>3, <1>4, <2>4, <2>7, <2>8, <2>9 DEF MigrateInv, RunInv
  <2>13. OnceInv'
    <3>1. \A v \in Versions : Accounted(v) => Accounted(v)'
      BY Zenon, <1>1, <1>3, <1>4, <2>1, <2>7, <2>8, <2>9 DEF Accounted
    <3>. QED
      BY Zenon, <1>1, <2>9, <3>1 DEF MigrateInv, OnceInv
  <2>. QED
    BY Zenon, <2>8, <2>10, <2>11, <2>12, <2>13 DEF MigrateInv
<1>. QED
  BY Zenon, <1>6, <1>7

-----------------------------------------------------------------------------
\* goose runs the oldest migration that is not registered; it was not run before, unless
\* the seeding was torn.
LEMMA MigrateUpRun ==
  ASSUME MigrateInv, NEW p \in Processes, UpRun(p)
  PROVE  MigrateInv'
<1>. DEFINE left == Versions \ Registered
<1>1. Pc(p, "up") /\ UNCHANGED <<legacy, torn>>
  BY Zenon DEF UpRun
<1>2. locked = {p} /\ \A q \in Processes \ {p} : proc[q].pc \notin Critical
  BY Zenon, <1>1, Alone DEF Pc, Critical
<1>3. SeedVersions' = SeedVersions
  BY Zenon, <1>1 DEF SeedVersions
<1>4. Seeded /\ ~Pc(p, "insert") /\ ~Pc(p, "register")
  BY Zenon, <1>1 DEF MigrateInv, AtPlace, Pc
<1>5. Registered \in SUBSET Versions /\ Versions \subseteq Nat /\ {} # NoTable
  BY MigrateAssumption DEF MigrateInv, MigrateTypes, Registered, Versions
<1>6. CASE left = {}
  <2>1. Turn(p, "ready") /\ goose' = goose /\ ran' = ran
    BY Zenon, <1>6 DEF UpRun
  <2>2. /\ proc' \in [Processes -> [pc : Places, next : Nat, tries : Nat]]
        /\ proc'[p].pc = "ready" /\ \A q \in Processes \ {p} : proc'[q] = proc[q]
    BY Zenon, <2>1, TurnStep DEF MigrateInv, Places
  <2>3. Registered' = Registered /\ Versions \subseteq Registered
    BY Zenon, <1>6, <2>1 DEF Registered
  <2>4. \A q \in Processes \ {p} :
          AtPlace(q)' /\ ~Pc(q, "insert") /\ ~Pc(q, "register") /\ ~Pc(q, "insert")' /\ ~Pc(q, "register")'
    BY Zenon, <1>2, <2>2, <2>3, OthersStay
  <2>5. AtPlace(p)' /\ ~Pc(p, "insert")' /\ ~Pc(p, "register")'
    BY Zenon, <2>2, <2>3 DEF AtPlace, Pc, Critical
  <2>6. MigrateTypes'
    BY Zenon, <1>1, <2>1, <2>2 DEF MigrateInv, MigrateTypes
  <2>7. RunInv'
    BY Zenon, <1>1, <1>3, <2>1, <2>3, <2>4, <2>5 DEF MigrateInv, RunInv
  <2>8. OnceInv'
    BY Zenon, <1>1, <1>3, <1>4, <2>1, <2>3, <2>4, <2>5 DEF MigrateInv, OnceInv, Accounted
  <2>. QED
    BY Zenon, <2>4, <2>5, <2>6, <2>7, <2>8 DEF MigrateInv
<1>7. CASE left # {}
  <2>1. PICK m \in Oldest(left) :
          /\ goose' = Registered /\ ran' = [ran EXCEPT ![m] = @ + 1]
          /\ Turn(p, "register") /\ locked' = locked
    BY Zenon, <1>7 DEF UpRun
  <2>2. m \in left
    BY Zenon DEF Oldest
  <2>3. Registered' = Registered /\ goose' # NoTable
    BY Zenon, <1>5, <2>1, MigrateAssumption DEF Registered
  <2>4. Oldest(Versions \ goose') = {m} /\ Versions \ goose' # {}
    <3>1. left \in SUBSET Nat /\ Versions \ goose' = left
      BY Zenon, <1>5, <2>1
    <3>. QED
      BY Zenon, <1>7, <3>1, OldestOne
  <2>5. m \in Versions /\ m \notin Registered
    BY Zenon, <2>2
  <2>. HIDE DEF left
  <2>6. /\ proc' \in [Processes -> [pc : Places, next : Nat, tries : Nat]]
        /\ proc'[p].pc = "register" /\ \A q \in Processes \ {p} : proc'[q] = proc[q]
    BY Zenon, <2>1, TurnStep DEF MigrateInv, Places
  <2>7. \A q \in Processes \ {p} :
          AtPlace(q)' /\ ~Pc(q, "insert") /\ ~Pc(q, "register") /\ ~Pc(q, "insert")' /\ ~Pc(q, "register")'
    BY Zenon, <1>2, <2>3, <2>6, OthersStay
  <2>8. ~Pc(p, "insert")' /\ Pc(p, "register")'
    BY Zenon, <2>6 DEF Pc
  <2>9. Seeded'
    BY Zenon, <1>1, <1>4, <2>1 DEF Seeded, Registered
  <2>10. AtPlace(p)'
    BY Zenon, <1>2, <2>1, <2>3, <2>4, <2>6, <2>9 DEF AtPlace, Pc, Critical
  <2>11. /\ ran' \in [Versions -> Nat] /\ ran[m] \in Nat /\ ran'[m] = ran[m] + 1
         /\ \A v \in Versions \ {m} : ran'[v] = ran[v]
         /\ \A v \in Versions : ran[v] \in Nat
    BY <2>1, <2>5 DEF MigrateInv, MigrateTypes
  <2>12. MigrateTypes'
    BY Zenon, <1>1, <1>5, <2>1, <2>6, <2>11 DEF MigrateInv, MigrateTypes
  <2>13. \A v \in Versions : ran[v] >= 1 => ran'[v] >= 1
    BY <2>11
  <2>14. RunInv'
    <3>1. legacy # NoTable => SeedVersions \subseteq Versions
      BY Zenon DEF SeedVersions
    <3>2. ran'[m] >= 1
      BY <2>11
    <3>. QED
      BY Zenon, <1>1, <1>3, <1>5, <2>3, <2>4, <2>7, <2>13, <3>1, <3>2 DEF MigrateInv, RunInv
  <2>15. ASSUME ~torn
        PROVE  OnceInv'
    <3>1. legacy # NoTable => goose # NoTable /\ goose # {} /\ SeedVersions \subseteq goose
      BY Zenon, <1>4, <2>7, <2>15 DEF MigrateInv, OnceInv, Seeded
    <3>2. ~Accounted(m)
      BY Zenon, <1>4, <2>5, <2>7, <3>1 DEF Accounted, Registered
    <3>3. ran[m] = 0
      BY <2>5, <2>11, <2>15, <3>2 DEF MigrateInv, OnceInv
    <3>4. \A v \in Versions : ran'[v] <= 1
      BY <2>11, <2>15, <3>3 DEF MigrateInv, OnceInv
    <3>5. Accounted(m)'
      BY Zenon, <2>4, <2>8 DEF Accounted
    <3>6. \A v \in Versions : Accounted(v) => v \in Registered
      BY Zenon, <1>4, <2>7, <3>1 DEF Accounted, Registered
    <3>7. \A v \in Versions : v \in Registered => Accounted(v)'
      BY Zenon, <2>3 DEF Accounted
    <3>8. \A v \in Versions : ran'[v] = 1 => Accounted(v)'
      BY Zenon, <2>11, <2>15, <3>5, <3>6, <3>7 DEF MigrateInv, OnceInv
    <3>9. legacy # NoTable => SeedVersions \subseteq goose'
      BY Zenon, <2>1, <3>1 DEF Registered
    <3>. QED
      BY Zenon, <1>1, <1>3, <3>4, <3>8, <3>9 DEF OnceInv
  <2>. QED
    BY Zenon, <1>1, <2>7, <2>10, <2>12, <2>14, <2>15 DEF MigrateInv, OnceInv
<1>. QED
  BY Zenon, <1>6, <1>7

\* And registers it.
LEMMA MigrateUpRegister ==
  ASSUME MigrateInv, NEW p \in Processes, UpRegister(p)
  PROVE  MigrateInv'
<1>1. PICK m \in Oldest(Versions \ goose) :
        /\ Pc(p, "register") /\ goose' = goose \cup {m} /\ Turn(p, "up")
        /\ UNCHANGED <<legacy, locked, ran, torn>>
  BY Zenon DEF UpRegister
<1>2. locked = {p} /\ \A q \in Processes \ {p} : proc[q].pc \notin Critical
  BY Zenon, <1>1, Alone DEF Pc, Critical
<1>3. SeedVersions' = SeedVersions
  BY Zenon, <1>1 DEF SeedVersions
<1>4. Seeded /\ ~Pc(p, "insert") /\ goose # NoTable /\ Versions \ goose # {} /\ ran[m] >= 1
  BY Zenon, <1>1 DEF MigrateInv, AtPlace, Pc, RunInv
<1>5. goose \in SUBSET Versions /\ Versions \subseteq Nat
  BY <1>4, MigrateAssumption DEF MigrateInv, MigrateTypes, Versions
<1>6. m \in Versions /\ Oldest(Versions \ goose) = {m}
  <2>1. Versions \ goose \in SUBSET Nat
    BY Zenon, <1>5
  <2>. QED
    BY Zenon, <2>1, OldestOne
<1>7. goose' \in SUBSET Versions /\ goose' # NoTable /\ goose' # {}
  BY Zenon, <1>1, <1>5, <1>6, MigrateAssumption
<1>8. Registered = goose /\ Registered' = goose'
  BY Zenon, <1>4, <1>7 DEF Registered
<1>9. /\ proc' \in [Processes -> [pc : Places, next : Nat, tries : Nat]]
      /\ proc'[p].pc = "up" /\ \A q \in Processes \ {p} : proc'[q] = proc[q]
  BY Zenon, <1>1, TurnStep DEF MigrateInv, Places
<1>10. \A q \in Processes \ {p} :
         AtPlace(q)' /\ ~Pc(q, "insert") /\ ~Pc(q, "register") /\ ~Pc(q, "insert")' /\ ~Pc(q, "register")'
  <2>1. Registered \subseteq Registered'
    BY Zenon, <1>1, <1>8
  <2>. QED
    BY Zenon, <1>2, <1>9, <2>1, OthersStay
<1>11. ~Pc(p, "insert")' /\ ~Pc(p, "register")'
  BY Zenon, <1>9 DEF Pc
<1>12. AtPlace(p)'
  BY Zenon, <1>1, <1>2, <1>7, <1>9 DEF AtPlace, Pc, Critical, Seeded
<1>13. MigrateTypes'
  BY Zenon, <1>1, <1>7, <1>9 DEF MigrateInv, MigrateTypes
<1>14. RunInv'
  BY Zenon, <1>1, <1>3, <1>4, <1>8, <1>10, <1>11 DEF MigrateInv, RunInv
<1>15. OnceInv'
  <2>1. ASSUME ~torn
        PROVE  legacy # NoTable => goose # {} /\ SeedVersions \subseteq goose
    BY Zenon, <1>4, <1>10, <2>1 DEF MigrateInv, OnceInv, Seeded
  <2>2. ASSUME ~torn, NEW v \in Versions, Accounted(v)
        PROVE  v \in Registered'
    BY Zenon, <1>1, <1>4, <1>6, <1>8, <1>10, <2>1, <2>2 DEF Accounted
  <2>3. \A v \in Versions : v \in Registered' => Accounted(v)'
    BY Zenon DEF Accounted
  <2>. QED
    BY Zenon, <1>1, <1>3, <2>1, <2>2, <2>3 DEF MigrateInv, OnceInv
<1>. QED
  BY Zenon, <1>10, <1>12, <1>13, <1>14, <1>15 DEF MigrateInv

\* A failing statement ends an attempt or the process; what it had begun is torn.
LEMMA MigrateFails ==
  ASSUME MigrateInv, NEW p \in Processes, StatementFails(p)
  PROVE  MigrateInv'
<1>1. /\ proc[p].pc \in Critical /\ torn' = (torn \/ Tearing(p))
      /\ UNCHANGED <<goose, legacy, ran>>
  BY Zenon DEF StatementFails, Critical
<1>2. locked = {p} /\ \A q \in Processes \ {p} : proc[q].pc \notin Critical
  BY Zenon, <1>1, Alone
<1>3. Registered' = Registered /\ SeedVersions' = SeedVersions /\ (Seeded' <=> Seeded)
  BY Zenon, <1>1 DEF Registered, SeedVersions, Seeded
<1>4. /\ proc' \in [Processes -> [pc : Places, next : Nat, tries : Nat]]
      /\ \/ proc'[p].pc = "failed"
         \/ proc'[p].pc = "up" /\ locked' = locked /\ proc[p].pc \in {"up", "register"}
      /\ \A q \in Processes \ {p} : proc'[q] = proc[q]
  <2>1. CASE Turn(p, "failed")
    BY Zenon, <2>1, TurnStep DEF MigrateInv, Places
  <2>2. CASE /\ proc' = [proc EXCEPT ![p] = [@ EXCEPT !.pc = "up", !.tries = proc[p].tries + 1]]
             /\ locked' = locked /\ proc[p].pc \in {"up", "register"}
    <3>. DEFINE t == proc[p].tries + 1
                r == [proc[p] EXCEPT !.pc = "up", !.tries = t]
    <3>1. proc[p] \in [pc : Places, next : Nat, tries : Nat] /\ "up" \in Places /\ t \in Nat
      BY DEF MigrateInv, MigrateTypes, Places
    <3>2. proc' = [proc EXCEPT ![p] = r]
      BY Zenon, <2>2
    <3>. HIDE DEF t
    <3>3. r \in [pc : Places, next : Nat, tries : Nat] /\ r.pc = "up"
      BY Zenon, <3>1
    <3>. HIDE DEF r
    <3>. QED
      BY Zenon, <2>2, <3>2, <3>3 DEF MigrateInv, MigrateTypes
  <2>. QED
    BY Zenon, <2>1, <2>2 DEF StatementFails
<1>5. \A q \in Processes \ {p} :
        AtPlace(q)' /\ ~Pc(q, "insert") /\ ~Pc(q, "register") /\ ~Pc(q, "insert")' /\ ~Pc(q, "register")'
  BY Zenon, <1>2, <1>3, <1>4, OthersStay
<1>6. ~Pc(p, "insert")' /\ ~Pc(p, "register")'
  BY Zenon, <1>4 DEF Pc
<1>7. AtPlace(p)'
  BY Zenon, <1>2, <1>3, <1>4 DEF AtPlace, Pc, Critical, MigrateInv
<1>8. MigrateTypes'
  <2>1. torn' \in BOOLEAN
    BY Zenon, <1>1 DEF MigrateInv, MigrateTypes
  <2>. QED
    BY Zenon, <1>1, <1>4, <2>1 DEF MigrateInv, MigrateTypes
<1>9. RunInv'
  BY Zenon, <1>1, <1>3, <1>5, <1>6 DEF MigrateInv, RunInv
<1>10. ASSUME ~torn'
       PROVE  OnceInv'
  <2>1. ~torn /\ ~Pc(p, "register") /\ (Pc(p, "insert") => goose = {} \/ SeedVersions \subseteq goose)
    BY Zenon, <1>1, <1>10 DEF Tearing
  <2>2. Pc(p, "insert") => goose # NoTable
    BY Zenon DEF MigrateInv, AtPlace
  <2>3. \A v \in Versions : Accounted(v) => Accounted(v)'
    BY Zenon, <1>1, <1>3, <1>5, <2>1, <2>2 DEF Accounted, Registered
  <2>4. legacy # NoTable /\ goose # NoTable /\ goose # {} => SeedVersions \subseteq goose
    BY Zenon, <1>5, <2>1 DEF MigrateInv, OnceInv
  <2>. QED
    BY Zenon, <1>1, <1>3, <2>1, <2>3, <2>4 DEF MigrateInv, OnceInv
<1>. QED
  BY Zenon, <1>5, <1>7, <1>8, <1>9, <1>10 DEF MigrateInv, OnceInv

-----------------------------------------------------------------------------
\* A new database, or one an earlier release has migrated.
LEMMA MigrateStart == MigrateInit => MigrateInv
<1>. SUFFICES ASSUME MigrateInit
              PROVE  MigrateInv
  BY Zenon
<1>1. goose = NoTable /\ proc = [p \in Processes |-> Starting] /\ torn = FALSE
  BY Zenon DEF MigrateInit
<1>2. Starting \in [pc : Places, next : Nat, tries : Nat] /\ Starting.pc = "lock" /\ Starting.next = 1
  BY Zenon DEF Starting, Places
<1>3. \A p \in Processes : AtPlace(p) /\ ~Pc(p, "insert") /\ ~Pc(p, "register")
  BY Zenon, <1>1, <1>2 DEF AtPlace, Pc, Critical
<1>4. Registered = {}
  BY Zenon, <1>1 DEF Registered
<1>5. CASE legacy = NoTable /\ ran = [v \in Versions |-> 0]
  <2>1. MigrateTypes
    BY Zenon, <1>1, <1>2, <1>5 DEF MigrateTypes
  <2>2. RunInv /\ OnceInv
    BY <1>3, <1>4, <1>5 DEF RunInv, OnceInv
  <2>. QED
    BY Zenon, <1>3, <2>1, <2>2 DEF MigrateInv
<1>6. ASSUME NEW v \in Versions, NEW d \in BOOLEAN,
             legacy = [version |-> v, dirty |-> d], ran = [w \in Versions |-> IF w <= v THEN 1 ELSE 0]
      PROVE  MigrateInv
  <2>1. legacy # NoTable /\ legacy.version = v /\ SeedVersions = {w \in Versions : w <= v}
    BY Zenon, <1>6, MigrateAssumption DEF SeedVersions
  <2>2. MigrateTypes
    BY Zenon, <1>1, <1>2, <1>6 DEF MigrateTypes
  <2>3. RunInv
    BY <1>3, <1>4, <1>6, <2>1 DEF RunInv
  <2>4. OnceInv
    BY <1>1, <1>6, <2>1 DEF OnceInv, Accounted
  <2>. QED
    BY Zenon, <1>3, <2>2, <2>3, <2>4 DEF MigrateInv
<1>. QED
  BY Zenon, <1>5, <1>6 DEF MigrateInit

\* Every step of every process.
LEMMA MigrateKeeps == MigrateInv /\ [MigrateNext]_schema => MigrateInv'
<1>. SUFFICES ASSUME MigrateInv, [MigrateNext]_schema
              PROVE  MigrateInv'
  BY Zenon
<1>1. CASE UNCHANGED schema
  BY Zenon, <1>1 DEF schema, MigrateInv, MigrateTypes, AtPlace, RunInv, OnceInv, Accounted, Pc,
     Registered, SeedVersions, Seeded
<1>2. CASE MigrateNext
  BY Zenon, <1>2, MigrateLock, MigrateLeave, MigrateSeedCheck, MigrateSeedInsert, MigrateUpRun,
     MigrateUpRegister, MigrateFails DEF MigrateNext, MigrateStep
<1>. QED
  BY Zenon, <1>1, <1>2

\* For any number of processes, migrations, failures and crashes, a migration is run once
\* unless an error or a crash came between two statements that belong together.
THEOREM MigratedTheorem == MigrateSpec => []MigratedOnce
<1>1. MigrateInv => MigratedOnce
  BY Zenon DEF MigrateInv, OnceInv, MigratedOnce
<1>. QED
  BY MigrateStart, MigrateKeeps, <1>1, PTL DEF MigrateSpec

\* For any number of processes, migrations, failures and crashes, a process that goes on to use
\* the database finds every migration run, whoever ran them: runMigrations returns without an
\* error only when goose has registered all versions, and only what has run is registered.
THEOREM SchemaTheorem == MigrateSpec => []SchemaComplete
<1>1. MigrateInv => SchemaComplete
  BY Zenon DEF MigrateInv, AtPlace, RunInv, SchemaComplete
<1>. QED
  BY MigrateStart, MigrateKeeps, <1>1, PTL DEF MigrateSpec

=============================================================================
