-------------------------- MODULE StatePersistence --------------------------
(***************************************************************************)
(* saveState and the confirmed-cursor flusher of                           *)
(* internal/orchestrator/orchestrator.go (398-488).  Any goroutine that    *)
(* has moved a cursor saves all three: it takes a snapshot under o.mu and  *)
(* then, outside the lock, writes each row of router_state whose value is  *)
(* not the one remembered in prevLastTimestampStr, prevAgentTsJSON or      *)
(* prevConfirmedTsJSON.  Replies only set confirmedCursorDirty, and the    *)
(* flusher saves later.                                                    *)
(***************************************************************************)
EXTENDS Naturals, Sequences

CONSTANTS
  Savers,       \* bound: goroutines that move cursors and save them
  Flusher,      \* confirmedCursorFlusher
  MaxUpdates,   \* bound: changes of cursors in a behaviour
  MaxSetFaults,    \* bound: failing SetState calls in a behaviour
  MaxRestarts,   \* bound: crashes in a behaviour
  Unset         \* a prev* string that is still empty

ASSUME PersistenceAssumption ==
  /\ Unset \notin Nat
  /\ MaxUpdates \in Nat /\ MaxSetFaults \in Nat /\ MaxRestarts \in Nat

(* The rows, in the order saveState writes them. *)
Keys == <<"last_timestamp", "last_agent_timestamp", "last_confirmed_timestamp">>
Names == {Keys[i] : i \in 1..3}
Goroutines == Savers \cup {Flusher}

VARIABLES
  memory,   \* the cursors under o.mu, as numbers of their versions
  prev,     \* the strings last written, shared by all goroutines without a lock
  rows,      \* MySQL router_state
  dirty,    \* o.confirmedCursorDirty
  marking,  \* handleIPCMessage has moved the cursor and not yet set dirty
  save,     \* the goroutines in saveState
  unsaved,  \* a save that nobody repeats has failed
  overlapped, \* two saves were under way at once
  updates, setFaults, restarts

ends == <<unsaved, overlapped>>
saving == <<memory, prev, rows, dirty, marking, save, ends, updates, setFaults, restarts>>

NoSave == [pc |-> "idle", at |-> 1, flush |-> FALSE, snap |-> [k \in Names |-> 0]]

SaveInit ==
  /\ memory = [k \in Names |-> 0] /\ rows = memory /\ prev = [k \in Names |-> Unset]
  /\ dirty = FALSE /\ marking = FALSE /\ unsaved = FALSE
  /\ overlapped = FALSE
  /\ save = [s \in Goroutines |-> NoSave]
  /\ updates = 0 /\ setFaults = 0 /\ restarts = 0

Key(s) == Keys[save[s].at]

(* The next row, or the end of the save. *)
NextRow(s) ==
  save' = [save EXCEPT ![s] = IF @.at = 3 THEN NoSave
                              ELSE [@ EXCEPT !.pc = "compare", !.at = save[s].at + 1]]

Changed(k) ==
  /\ updates < MaxUpdates /\ updates' = updates + 1
  /\ memory' = [memory EXCEPT ![k] = @ + 1]

-----------------------------------------------------------------------------
(* A goroutine moves a cursor under o.mu: lines 669, 753, 903, 920, 953. *)
Update(s) ==
  /\ save[s].pc = "idle" /\ s \in Savers
  /\ \E k \in Names : Changed(k)
  /\ save' = [save EXCEPT ![s].pc = "snapshot"]
  /\ UNCHANGED <<prev, rows, dirty, marking, ends, setFaults, restarts>>

(* Saves that have taken their snapshot. *)
Saving == {s \in Goroutines : save[s].pc \in {"compare", "write", "note"}}

(* Lines 399-411. *)
Snapshot(s) ==
  /\ save[s].pc = "snapshot"
  /\ save' = [save EXCEPT ![s] = [@ EXCEPT !.pc = "compare", !.snap = memory]]
  /\ overlapped' = (overlapped \/ Saving # {})
  /\ UNCHANGED <<memory, prev, rows, dirty, marking, unsaved, updates, setFaults, restarts>>

(* Lines 414, 428 and 442: skip the write when the value was written before. *)
(* While another goroutine assigns the string, a torn read of it equals      *)
(* neither value.                                                            *)
Compare(s) ==
  LET k == Key(s)
      racing == \E t \in Goroutines \ {s} : save[t].pc = "note" /\ Key(t) = k
  IN
  /\ save[s].pc = "compare"
  /\ \/ prev[k] = save[s].snap[k] /\ NextRow(s)
     \/ (prev[k] # save[s].snap[k] \/ racing) /\ save' = [save EXCEPT ![s].pc = "write"]
  /\ UNCHANGED <<memory, prev, rows, dirty, marking, ends, updates, setFaults, restarts>>

(* A form of the write that gives up without telling the flusher. *)
WriteRowForgets(s) ==
  /\ save[s].pc = "write"
  /\ \/ /\ rows' = [rows EXCEPT ![Key(s)] = save[s].snap[Key(s)]]
        /\ save' = [save EXCEPT ![s].pc = "note"]
        /\ UNCHANGED <<dirty, unsaved, setFaults>>
     \/ /\ setFaults < MaxSetFaults /\ setFaults' = setFaults + 1
        /\ save' = [save EXCEPT ![s] = NoSave]
        /\ unsaved' = (unsaved \/ ~save[s].flush)
        /\ UNCHANGED <<rows, dirty>>
  /\ UNCHANGED <<memory, prev, marking, overlapped, updates, restarts>>

(* SetState, lines 415, 429 and 443.  The first error ends the save; the     *)
(* flusher then sets the flag again (481-485), the others only log it.       *)
WriteRow(s) ==
  /\ save[s].pc = "write"
  /\ \/ /\ rows' = [rows EXCEPT ![Key(s)] = save[s].snap[Key(s)]]
        /\ save' = [save EXCEPT ![s].pc = "note"]
        /\ UNCHANGED <<dirty, unsaved, setFaults>>
     \/ /\ setFaults < MaxSetFaults /\ setFaults' = setFaults + 1
        /\ save' = [save EXCEPT ![s] = NoSave]
        /\ dirty' = (dirty \/ save[s].flush)
        /\ unsaved' = (unsaved \/ ~save[s].flush)
        /\ UNCHANGED rows
  /\ UNCHANGED <<memory, prev, marking, overlapped, updates, restarts>>

(* Lines 419, 433 and 447: remember what was written. *)
Note(s) ==
  /\ save[s].pc = "note"
  /\ prev' = [prev EXCEPT ![Key(s)] = save[s].snap[Key(s)]]
  /\ NextRow(s)
  /\ UNCHANGED <<memory, rows, dirty, marking, ends, updates, setFaults, restarts>>

(* handleIPCMessage, lines 1634-1637: move the cursor, then set the flag. *)
Confirm ==
  /\ ~marking /\ marking' = TRUE
  /\ Changed("last_confirmed_timestamp")
  /\ UNCHANGED <<prev, rows, dirty, save, ends, setFaults, restarts>>

MarkDirty ==
  /\ marking /\ marking' = FALSE /\ dirty' = TRUE
  /\ UNCHANGED <<memory, prev, rows, save, ends, updates, setFaults, restarts>>

(* A form of the flusher's loop that ends at the first error. *)
FlushUntilError ==
  /\ dirty /\ dirty' = FALSE /\ setFaults = 0
  /\ save[Flusher].pc = "idle"
  /\ save' = [save EXCEPT ![Flusher] = [@ EXCEPT !.pc = "snapshot", !.flush = TRUE]]
  /\ UNCHANGED <<memory, prev, rows, marking, ends, updates, setFaults, restarts>>

(* flushConfirmedCursor, lines 476-488: swap the flag, then save. *)
Flush ==
  /\ dirty /\ dirty' = FALSE
  /\ save[Flusher].pc = "idle"
  /\ save' = [save EXCEPT ![Flusher] = [@ EXCEPT !.pc = "snapshot", !.flush = TRUE]]
  /\ UNCHANGED <<memory, prev, rows, marking, ends, updates, setFaults, restarts>>

(* A crash; loadState (309-395) reads the rows back and the prev* strings    *)
(* are empty again.                                                          *)
LoseMemory ==
  /\ restarts < MaxRestarts /\ restarts' = restarts + 1
  /\ memory' = rows /\ prev' = [k \in Names |-> Unset]
  /\ dirty' = FALSE /\ marking' = FALSE /\ unsaved' = FALSE /\ overlapped' = FALSE
  /\ save' = [s \in Goroutines |-> NoSave]
  /\ UNCHANGED <<rows, updates, setFaults>>

SaveStep(s) == Snapshot(s) \/ Compare(s) \/ WriteRow(s) \/ Note(s)

SaveNext ==
  \/ \E s \in Goroutines : Update(s) \/ SaveStep(s)
  \/ Confirm \/ MarkDirty \/ Flush \/ LoseMemory

(* Goroutines are scheduled, and the flusher's ticker fires. *)
SaveFairness ==
  /\ \A s \in Goroutines : WF_saving(SaveStep(s))
  /\ WF_saving(MarkDirty) /\ WF_saving(Flush)

SaveSpec == SaveInit /\ [][SaveNext]_saving /\ SaveFairness

-----------------------------------------------------------------------------
(* Types; a save writes the three rows and no more (413-448). *)
SaveTypeOK ==
  /\ memory \in [Names -> Nat] /\ rows \in [Names -> Nat] /\ prev \in [Names -> Nat \cup {Unset}]
  /\ dirty \in BOOLEAN /\ marking \in BOOLEAN /\ {unsaved, overlapped} \subseteq BOOLEAN
  /\ save \in [Goroutines -> [pc : {"idle", "snapshot", "compare", "write", "note"}, at : 1..3,
                           flush : BOOLEAN, snap : [Names -> Nat]]]
  /\ updates \in 0..MaxUpdates /\ setFaults \in 0..MaxSetFaults /\ restarts \in 0..MaxRestarts

Quiet == (\A s \in Goroutines : save[s].pc = "idle") /\ ~dirty /\ ~marking

(* saveState (398-451) persists the cursors although it skips writes: once   *)
(* every save has ended, the rows are the cursors, unless a save failed that *)
(* nobody repeats, or two saves overlapped.  The last condition is needed:   *)
(* an older snapshot written after a newer one leaves the row behind, and    *)
(* the remembered string keeps later saves from repairing it.                *)
PersistedWhenQuiet == Quiet /\ ~unsaved /\ ~overlapped => rows = memory

(* A confirmed cursor reaches its row (1637, 476-488), although the flusher  *)
(* clears the flag before it saves, and saves fail or are skipped.           *)
ConfirmPersisted ==
  []<>(\/ rows["last_confirmed_timestamp"] = memory["last_confirmed_timestamp"]
       \/ unsaved \/ overlapped \/ restarts > 0)
=============================================================================
