----------------------------- MODULE Admission ------------------------------
(***************************************************************************)
(* The admission protocol behind MAX_CONCURRENT, on its own: the in-flight *)
(* slots (claimSandboxSlot), the gate of processGroupMessages and the      *)
(* groups marked active, for any number of groups.  A goroutine reads the  *)
(* number of active groups and, later and separately, the slots held by    *)
(* others; whatever moved from slot to active in between, it sees in       *)
(* neither place.  Module SandboxLifecycle implements this specification.  *)
(***************************************************************************)
EXTENDS Integers, FiniteSets

CONSTANTS
  Groups,         \* registered groups
  MaxConcurrent   \* cfg.Queue.MaxConcurrent

ASSUME AdmissionAssumption ==
  /\ IsFiniteSet(Groups)
  /\ MaxConcurrent \in Nat \ {0}      \* config.go rejects MAX_CONCURRENT <= 0

VARIABLES
  active,    \* MySQL groups.is_active
  phase,     \* how far the goroutine holding the group's slot has come
  seen       \* the active count that goroutine has read and still relies on

vars == <<active, phase, seen>>

(* "held" is a slot whose holder has not read the count yet or has given up; *)
(* "counted" has read it; "admitted" has passed the gate and will mark its   *)
(* group active.                                                             *)
Phases == {"none", "held", "counted", "admitted"}

inflight == {g \in Groups : phase[g] # "none"}
Counted == {g \in Groups : phase[g] = "counted"}
Admitted == {g \in Groups : phase[g] = "admitted"}

Init ==
  /\ active = {}
  /\ phase = [g \in Groups |-> "none"]
  /\ seen = [g \in Groups |-> 0]

Move(g, to) == phase' = [phase EXCEPT ![g] = to]

(* claimSandboxSlot *)
Claim(g) ==
  /\ phase[g] = "none"
  /\ Move(g, "held")
  /\ UNCHANGED <<active, seen>>

(* queue.ActiveCount *)
Count(g) ==
  /\ phase[g] = "held"
  /\ Move(g, "counted")
  /\ seen' = [seen EXCEPT ![g] = Cardinality(active)]
  /\ UNCHANGED active

(* The gate: the count read before, and the slots of other groups now. *)
Room(g) == seen[g] + Cardinality(inflight \ {g}) < MaxConcurrent

Admit(g) ==
  /\ phase[g] = "counted"
  /\ Room(g)
  /\ Move(g, "admitted")
  /\ seen' = [seen EXCEPT ![g] = 0]
  /\ UNCHANGED active

(* Deferred at the gate, failed or panicked: the slot is still held. *)
GiveUp(g) ==
  /\ phase[g] \in {"counted", "admitted"}
  /\ Move(g, "held")
  /\ seen' = [seen EXCEPT ![g] = 0]
  /\ UNCHANGED active

(* queue.MarkActive; the slot is released in a step of its own. *)
MarkActive(g) ==
  /\ phase[g] = "admitted"
  /\ active' = active \cup {g}
  /\ Move(g, "held")
  /\ UNCHANGED seen

Release(g) ==
  /\ phase[g] = "held"
  /\ Move(g, "none")
  /\ UNCHANGED <<active, seen>>

(* queue.MarkInactive, by whichever goroutine finds the agent gone. *)
MarkInactive(g) ==
  /\ active' = active \ {g}
  /\ UNCHANGED <<phase, seen>>

(* A form that takes every registered group for active. *)
RestartAll ==
  /\ active' = Groups
  /\ phase' = [g \in Groups |-> "none"]
  /\ seen' = [g \in Groups |-> 0]

(* A crash forgets the slots; the restart may clear active flags. *)
Restart ==
  /\ active' \in SUBSET active
  /\ phase' = [g \in Groups |-> "none"]
  /\ seen' = [g \in Groups |-> 0]

Next ==
  \/ \E g \in Groups :
       \/ Claim(g) \/ Count(g) \/ Admit(g) \/ GiveUp(g)
       \/ MarkActive(g) \/ Release(g) \/ MarkInactive(g)
  \/ Restart

Spec == Init /\ [][Next]_vars

-----------------------------------------------------------------------------
(* Types; the count a goroutine has read from MySQL (871) is a number. *)
TypeOK ==
  /\ active \subseteq Groups
  /\ phase \in [Groups -> Phases]
  /\ seen \in [Groups -> Nat]

Load == Cardinality(active) + Cardinality(Admitted)

(* Goroutines that may still pass the gate with a count of at most t. *)
StaleBelow(t) == {g \in Counted : seen[g] <= t}

(* The races of the gate cost at most a factor of two: the groups that are   *)
(* active and those past the gate on their way to MarkActive (886, 1070)     *)
(* never number more than 2 * MAX_CONCURRENT.  The bound is reached.         *)
OvershootBounded == Load <= 2 * MaxConcurrent

(* Why: once the load exceeds MaxConcurrent + u, goroutines with small stale *)
(* counts have become scarce.  There is a level t below the current count    *)
(* such that at most t - u of them still carry a count of at most t.         *)
StaleCountsScarce ==
  \A u \in 0..(MaxConcurrent - 1) :
    Load > MaxConcurrent + u =>
      \E t \in u..(MaxConcurrent - 1) :
        /\ t < Cardinality(active)
        /\ Cardinality(StaleBelow(t)) <= t - u

IInv == TypeOK /\ OvershootBounded /\ StaleCountsScarce
=============================================================================
