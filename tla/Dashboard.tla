------------------------------ MODULE Dashboard ------------------------------
(***************************************************************************)
(* The other tabs of the terminal client, cmd/kraclaw-tui/main.go: lists   *)
(* with a cursor, which every tick fetches again while the user moves, the *)
(* folder filter of the task list, and the event feed, which a tick opens  *)
(* again whenever there is none.  A list is the number of its rows, or for *)
(* tasks the sequence of their folders; fetched lists arrive in any order, *)
(* so each arrival may bring any list.                                     *)
(***************************************************************************)
EXTENDS Naturals, Sequences, FiniteSets, FiniteSetsExt, Functions

CONSTANTS
  Folders,    \* the folders tasks belong to, in sorted order
  MaxRows,    \* bound: rows of a list
  Feeds,      \* event streams that may be open or opening at one time
  MaxReads,   \* bound: reads outstanding on one stream
  Nil         \* no stream, or no filter

ASSUME DashAssumption ==
  /\ Folders \in Seq(Range(Folders)) /\ Nil \notin Range(Folders) \cup Feeds
  /\ MaxRows \in Nat /\ MaxReads \in Nat /\ Feeds # {}

VARIABLES
  rows,       \* number of rows of the sandbox list and of the group list
  cursor,     \* the cursor of each list
  tasks,      \* the folder of each task
  filter,     \* tasksFilterFolder
  detail,     \* sandboxDetailOpen
  feed,       \* eventStream
  conn,       \* each stream: its state and the reads outstanding
  twice,      \* a stream was opened while another was opening or being read
  panicked    \* a read was started on no stream

lists == <<rows, cursor, tasks, filter, detail>>
events == <<feed, conn, twice, panicked>>
dash == <<lists, events>>

Counted == {"sandboxes", "groups"}
Unused == [st |-> "unused", reads |-> 0]

DashInit ==
  /\ rows = [l \in Counted |-> 0] /\ cursor = [l \in Counted \cup {"tasks"} |-> 0]
  /\ tasks = <<>> /\ filter = Nil /\ detail = FALSE
  /\ feed = Nil /\ twice = FALSE /\ panicked = FALSE
  /\ conn = [[s \in Feeds |-> Unused] EXCEPT ![CHOOSE s \in Feeds : TRUE].st = "opening"]

-----------------------------------------------------------------------------
(* Lists and cursors.                                                       *)

\* Which of the tasks are shown, and so how many.
Matching(list, f) == {i \in 1..Len(list) : f = Nil \/ list[i] = f}
FilteredTasks == Matching(tasks, filter)
Size(l) == IF l = "tasks" THEN Cardinality(FilteredTasks) ELSE rows[l]

ClampCursor(n, size) ==
  IF size = 0 \/ n < 0 THEN 0 ELSE IF n >= size THEN size - 1 ELSE n

\* j and k; -1 from the top stays at the top.
MoveCursor(l) ==
  /\ \/ cursor' = [cursor EXCEPT ![l] = ClampCursor(@ + 1, Size(l))]
     \/ cursor' = [cursor EXCEPT ![l] = IF @ = 0 THEN 0 ELSE ClampCursor(@ - 1, Size(l))]
  /\ UNCHANGED <<rows, tasks, filter, detail, events>>

\* What fetchSandboxes, fetchGroups and fetchTasks may bring back: any list, and the
\* empty one after an error.
FetchedSandboxes == 0..MaxRows
FetchedGroups == 0..MaxRows
FetchedTasks == UNION {[1..n -> Range(Folders)] : n \in 0..MaxRows}

\* A cursor past the end of the new list goes back to the top.
Kept(n, size) == IF n >= size THEN 0 ELSE n

SandboxesMsg(n) ==
  /\ rows' = [rows EXCEPT !["sandboxes"] = n]
  /\ cursor' = [cursor EXCEPT !["sandboxes"] = Kept(@, n)]
  /\ detail' = (detail /\ cursor["sandboxes"] < n)
  /\ UNCHANGED <<tasks, filter, events>>

GroupRowsMsg(n) ==
  /\ rows' = [rows EXCEPT !["groups"] = n]
  /\ cursor' = [cursor EXCEPT !["groups"] = Kept(@, n)]
  /\ UNCHANGED <<tasks, filter, detail, events>>

\* The filter stays, though no task may be left in its folder.
TasksMsg(list) ==
  /\ tasks' = list
  /\ cursor' = [cursor EXCEPT !["tasks"] = Kept(@, Cardinality(Matching(list, filter)))]
  /\ UNCHANGED <<rows, filter, detail, events>>

\* The folders that have tasks, and those of them that come after the one shown.
WithTasks == {i \in 1..Len(Folders) : Folders[i] \in Range(tasks)}
Following == {i \in WithTasks : \A h \in WithTasks : Folders[h] = filter => h < i}
NextFolder == IF Following = {} THEN Nil ELSE Folders[Min(Following)]

\* Variant: the cursor stays where it was in the longer list.
CycleTaskFilterKeepsCursor ==
  /\ filter' = NextFolder
  /\ UNCHANGED <<rows, cursor, tasks, detail, events>>

\* g: the next folder that has tasks, and after the last one all of them.
CycleTaskFilter ==
  /\ filter' = NextFolder
  /\ IF WithTasks = {} THEN UNCHANGED cursor ELSE cursor' = [cursor EXCEPT !["tasks"] = 0]
  /\ UNCHANGED <<rows, tasks, detail, events>>

SandboxDetail ==
  /\ \/ rows["sandboxes"] > 0 /\ detail' = TRUE
     \/ detail' = FALSE
  /\ UNCHANGED <<rows, cursor, tasks, filter, events>>

-----------------------------------------------------------------------------
(* The event feed.                                                          *)

\* A stream that is neither opening, nor attached, nor read can be forgotten.
Spare(s) == conn[s].st # "opening" /\ conn[s].reads = 0 /\ feed # s

\* The tick, and the r key, open a stream whenever none is attached, whether or not
\* an earlier one is still being opened.
Tick(s) ==
  /\ feed = Nil /\ Spare(s)
  /\ \A t \in Feeds : conn[t].reads < MaxReads
  /\ conn' = [conn EXCEPT ![s] = [st |-> "opening", reads |-> 0]]
  /\ twice' = (twice \/ \E t \in Feeds : ~Spare(t))
  /\ UNCHANGED <<feed, panicked, lists>>

EventStreamOpened(s) ==
  /\ conn[s].st = "opening"
  /\ \/ /\ conn' = [conn EXCEPT ![s] = [st |-> "open", reads |-> 1]]
        /\ feed' = s
     \/ /\ conn' = [conn EXCEPT ![s] = Unused]
        /\ feed' = Nil
  /\ UNCHANGED <<twice, panicked, lists>>

\* An event: the next read is of the stream attached now.
EventReceived(s) ==
  /\ conn[s].reads > 0
  /\ LET after == [conn EXCEPT ![s].reads = @ - 1]
     IN  IF feed = Nil THEN panicked' = TRUE /\ conn' = after
         ELSE conn' = [after EXCEPT ![feed].reads = @ + 1] /\ UNCHANGED panicked
  /\ UNCHANGED <<feed, twice, lists>>

\* Variant: the failed stream is let go and read again.
EventErrorReadsOn(s) ==
  /\ conn[s].reads > 0
  /\ feed' = Nil
  /\ UNCHANGED <<conn, twice, panicked, lists>>

EventError(s) ==
  /\ conn[s].reads > 0
  /\ conn' = [conn EXCEPT ![s].reads = @ - 1]
  /\ feed' = Nil
  /\ UNCHANGED <<twice, panicked, lists>>

-----------------------------------------------------------------------------
DashNext ==
  /\ ~panicked
  /\ \/ \E l \in Counted \cup {"tasks"} : MoveCursor(l)
     \/ \E n \in FetchedSandboxes : SandboxesMsg(n)
     \/ \E n \in FetchedGroups : GroupRowsMsg(n)
     \/ \E list \in FetchedTasks : TasksMsg(list)
     \/ CycleTaskFilter \/ SandboxDetail
     \/ \E s \in Feeds : Tick(s) \/ EventStreamOpened(s) \/ EventReceived(s) \/ EventError(s)

DashSpec == DashInit /\ [][DashNext]_dash

-----------------------------------------------------------------------------
(* Properties.                                                              *)

\* Every cursor is on a row of its list, or at the top of an empty one, whatever
\* lists arrive and however the filter is turned, and the detail pane is open only
\* over a row that is there: the tabs index their lists with these.
CursorsInRange ==
  /\ \A l \in Counted \cup {"tasks"} : cursor[l] = 0 \/ cursor[l] < Size(l)
  /\ detail => cursor["sandboxes"] < rows["sandboxes"]

\* A read is started on no stream only after two streams were opened for one feed.
FeedPanicExplained == panicked => twice

=============================================================================
