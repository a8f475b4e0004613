--------------------------- MODULE AdmissionProofs ---------------------------
(***************************************************************************)
(* The load never exceeds twice MAX_CONCURRENT, for every set of groups    *)
(* and every limit.  The bound alone is not inductive: a goroutine with a  *)
(* stale count could pass the gate at the bound.  StaleCountsScarce says   *)
(* that by then such goroutines have run out.                              *)
(***************************************************************************)
EXTENDS Admission, FiniteSetTheorems, TLAPS

M == MaxConcurrent
A == Cardinality(active)
Stale(t) == Cardinality(StaleBelow(t))

(* The sets the invariant counts are finite. *)
Countable ==
  /\ IsFiniteSet(active) /\ IsFiniteSet(Counted) /\ IsFiniteSet(Admitted)
  /\ IsFiniteSet(inflight)
  /\ A \in Nat /\ Cardinality(Counted) \in Nat /\ Cardinality(Admitted) \in Nat
  /\ Cardinality(inflight) \in Nat
  /\ Load \in Nat /\ M \in Nat \ {0}
  /\ \A t : IsFiniteSet(StaleBelow(t)) /\ Stale(t) \in Nat

(* All the cardinalities of the specification are numbers: they count groups *)
(* of the finite set the orchestrator has registered.                        *)
LEMMA Counting == TypeOK => Countable
<1> SUFFICES ASSUME TypeOK PROVE Countable
  OBVIOUS
<1>1. IsFiniteSet(Groups) /\ M \in Nat \ {0}
  BY AdmissionAssumption DEF M
<1>2. /\ active \in SUBSET Groups /\ Counted \in SUBSET Groups
      /\ Admitted \in SUBSET Groups /\ inflight \in SUBSET Groups
      /\ \A t : StaleBelow(t) \in SUBSET Groups
  BY DEF TypeOK, Counted, Admitted, inflight, StaleBelow
<1>3. \A S \in SUBSET Groups : IsFiniteSet(S) /\ Cardinality(S) \in Nat
  BY <1>1, FS_Subset, FS_CardinalityType
<1> QED
  BY <1>1, <1>2, <1>3 DEF Countable, Load, A, Stale

(* Steps that do not raise the load, do not lower the active count, and make *)
(* no count below the current one stale preserve the invariant.              *)
LEMMA QuietStep ==
  ASSUME IInv, TypeOK', Load' <= Load, A <= A',
         \A t \in Nat : t < A => Stale(t)' <= Stale(t)
  PROVE  IInv'
<1>1. /\ A \in Nat /\ Load \in Nat /\ M \in Nat \ {0} /\ \A t : Stale(t) \in Nat
  BY Counting DEF IInv, Countable
<1>a. Countable'
  BY Counting, PTL
<1>2. A' \in Nat /\ Load' \in Nat /\ \A t : Stale(t)' \in Nat
  BY <1>a DEF Countable
<1> QED
  <2>1. OvershootBounded'
    BY <1>1, <1>2 DEF IInv, OvershootBounded, M
  <2>2. StaleCountsScarce'
    <3> SUFFICES ASSUME NEW u \in 0..(M - 1), Load' > M + u
                 PROVE  \E t \in u..(M - 1) : t < A' /\ Stale(t)' <= t - u
      BY DEF StaleCountsScarce, Stale, M, A
    <3>1. Load > M + u
      BY <1>1, <1>2
    <3>2. PICK t \in u..(M - 1) : t < A /\ Stale(t) <= t - u
      BY <3>1 DEF IInv, StaleCountsScarce, Stale, M, A
    <3>3. t < A' /\ Stale(t)' <= t - u
      BY <1>1, <1>2, <3>2
    <3> QED
      BY <3>3
  <2> QED
    BY <2>1, <2>2 DEF IInv

(* Every action keeps the types. *)
LEMMA TypeStep == TypeOK /\ [Next]_vars => TypeOK'
<1> SUFFICES ASSUME TypeOK, [Next]_vars PROVE TypeOK'
  OBVIOUS
<1>1. Cardinality(active) \in Nat
  BY Counting DEF Countable, A
<1>2. ASSUME NEW g \in Groups,
             \/ Claim(g) \/ Count(g) \/ Admit(g) \/ GiveUp(g)
             \/ MarkActive(g) \/ Release(g) \/ MarkInactive(g)
      PROVE  TypeOK'
  <2>1. active' \subseteq Groups
    BY <1>2 DEF TypeOK, Claim, Count, Admit, GiveUp, MarkActive, Release, MarkInactive
  <2>2. phase' \in [Groups -> Phases]
    BY <1>2 DEF TypeOK, Claim, Count, Admit, GiveUp, MarkActive, Release, MarkInactive,
       Move, Phases
  <2>3. seen' \in [Groups -> Nat]
    BY <1>1, <1>2 DEF TypeOK, Claim, Count, Admit, GiveUp, MarkActive, Release, MarkInactive
  <2> QED
    BY <2>1, <2>2, <2>3 DEF TypeOK
<1>3. CASE Restart
  BY <1>3 DEF Restart, TypeOK, Phases
<1>4. CASE UNCHANGED vars
  BY <1>4 DEF vars, TypeOK
<1> QED
  BY <1>2, <1>3, <1>4 DEF Next

(* Claiming, counting, giving up, marking active and releasing are quiet. *)
LEMMA QuietActions ==
  ASSUME IInv, TypeOK', NEW g \in Groups,
         Claim(g) \/ Count(g) \/ GiveUp(g) \/ MarkActive(g) \/ Release(g)
  PROVE  IInv'
<1>1. Countable /\ TypeOK
  BY Counting DEF IInv
<1>2. Countable'
  BY Counting, PTL
<1>3. CASE Claim(g) \/ Release(g)
  <2>1. active' = active /\ Admitted' = Admitted /\ \A t : StaleBelow(t)' = StaleBelow(t)
    BY <1>1, <1>3 DEF Claim, Release, Move, TypeOK, Admitted, Counted, StaleBelow
  <2> QED
    BY <1>1, <2>1, QuietStep DEF Load, A, Stale, Countable
<1>4. CASE Count(g)
  <2>1. active' = active /\ Admitted' = Admitted
    BY <1>1, <1>4 DEF Count, Move, TypeOK, Admitted
  <2>2. ASSUME NEW t \in Nat, t < A PROVE StaleBelow(t)' = StaleBelow(t)
    <3>1. ~(A <= t)
      BY <1>1, <2>2 DEF Countable
    <3>2. g \notin StaleBelow(t) /\ g \notin StaleBelow(t)'
      BY <1>1, <1>4, <3>1 DEF Count, Move, TypeOK, Counted, StaleBelow, A
    <3>3. \A h \in Groups \ {g} : h \in StaleBelow(t)' <=> h \in StaleBelow(t)
      BY <1>1, <1>4 DEF Count, Move, TypeOK, Counted, StaleBelow
    <3> QED
      BY <3>2, <3>3 DEF StaleBelow, Counted
  <2> QED
    BY <1>1, <2>1, <2>2, QuietStep DEF Load, A, Stale, Countable
<1>5. CASE GiveUp(g)
  <2>1. /\ active' = active /\ Admitted' \in SUBSET Admitted
        /\ \A t : StaleBelow(t)' \in SUBSET StaleBelow(t)
    BY <1>1, <1>5 DEF GiveUp, Move, TypeOK, Admitted, Counted, StaleBelow
  <2>2. Cardinality(Admitted') <= Cardinality(Admitted)
    BY <1>1, <2>1, FS_Subset DEF Countable
  <2>3. \A t : Cardinality(StaleBelow(t)') <= Cardinality(StaleBelow(t))
    BY <1>1, <2>1, FS_Subset DEF Countable
  <2> QED
    BY <1>1, <1>2, <2>1, <2>2, <2>3, QuietStep DEF Load, A, Stale, Countable
<1>6. CASE MarkActive(g)
  <2>1. /\ active' = active \cup {g} /\ g \in Admitted /\ Admitted' = Admitted \ {g}
        /\ \A t : StaleBelow(t)' = StaleBelow(t)
    BY <1>1, <1>6 DEF MarkActive, Move, TypeOK, Admitted, Counted, StaleBelow
  <2>2. Cardinality(Admitted') = Cardinality(Admitted) - 1
    BY Zenon, <1>1, <2>1, FS_RemoveElement DEF Countable
  <2>3. A' = A \/ A' = A + 1
    BY Zenon, <1>1, <2>1, FS_AddElement DEF Countable, A
  <2> QED
    BY <1>1, <1>2, <2>1, <2>2, <2>3, QuietStep DEF Load, A, Stale, Countable
<1> QED
  BY <1>3, <1>4, <1>5, <1>6

(* MarkInactive lowers the load and the count together: the level found for  *)
(* u + 1 serves, lowered by one, for u.                                      *)
LEMMA InactiveStep ==
  ASSUME IInv, TypeOK', NEW g \in Groups, MarkInactive(g)
  PROVE  IInv'
<1>1. Countable /\ TypeOK
  BY Counting DEF IInv
<1>2. Countable'
  BY Counting, PTL
<1>3. Admitted' = Admitted /\ \A t : StaleBelow(t)' = StaleBelow(t)
  BY DEF MarkInactive, Admitted, Counted, StaleBelow
<1>4. CASE g \notin active
  <2>1. active' = active
    BY <1>4 DEF MarkInactive
  <2> QED
    BY <1>1, <1>3, <2>1, QuietStep DEF Load, A, Stale, Countable
<1>5. CASE g \in active
  <2>1. A' = A - 1
    BY Zenon, <1>1, <1>5, FS_RemoveElement DEF MarkInactive, Countable, A
  <2>2. Load' = Load - 1
    BY <1>1, <1>3, <2>1 DEF Load, A, Countable
  <2>3. OvershootBounded'
    BY <1>1, <2>2 DEF IInv, OvershootBounded, Countable, M
  <2>4. StaleCountsScarce'
    <3> SUFFICES ASSUME NEW u \in 0..(M - 1), Load' > M + u
                 PROVE  \E t \in u..(M - 1) : t < A' /\ Stale(t)' <= t - u
      BY DEF StaleCountsScarce, Stale, M, A
    <3>1. Load > M + (u + 1) /\ u + 1 \in 0..(M - 1)
      BY <1>1, <2>2 DEF IInv, OvershootBounded, Countable, M
    <3>2. PICK t \in (u + 1)..(M - 1) : t < A /\ Stale(t) <= t - (u + 1)
      BY <3>1 DEF IInv, StaleCountsScarce, Stale, M, A
    <3>3. StaleBelow(t - 1) \in SUBSET StaleBelow(t)
      BY <1>1, <3>2 DEF StaleBelow, Counted, TypeOK, Countable
    <3>4. Stale(t - 1) <= Stale(t)
      BY <1>1, <3>3, FS_Subset DEF Stale, Countable
    <3>5. t - 1 \in u..(M - 1) /\ t - 1 < A' /\ Stale(t - 1)' <= (t - 1) - u
      BY <1>1, <1>3, <2>1, <3>2, <3>4 DEF Stale, Countable
    <3> QED
      BY <3>5
  <2> QED
    BY <2>3, <2>4 DEF IInv
<1> QED
  BY <1>4, <1>5

(* A restart forgets every slot, so no count is relied on any more. *)
LEMMA RestartStep ==
  ASSUME IInv, TypeOK', Restart
  PROVE  IInv'
<1>1. Countable /\ TypeOK
  BY Counting DEF IInv
<1>2. Countable'
  BY Counting, PTL
<1>3. Admitted' = {} /\ \A t : StaleBelow(t)' = {}
  BY DEF Restart, Admitted, Counted, StaleBelow
<1>4. A' <= A
  BY <1>1, FS_Subset DEF Restart, Countable, A
<1>5. Load' = A' /\ \A t : Stale(t)' = 0
  BY <1>2, <1>3, FS_EmptySet DEF Load, A, Stale, Countable
<1>6. OvershootBounded'
  BY <1>1, <1>2, <1>4, <1>5 DEF IInv, OvershootBounded, Load, A, Countable, M
<1>7. StaleCountsScarce'
  <2> SUFFICES ASSUME NEW u \in 0..(M - 1), Load' > M + u
               PROVE  \E t \in u..(M - 1) : t < A' /\ Stale(t)' <= t - u
    BY DEF StaleCountsScarce, Stale, M, A
  <2>1. u \in u..(M - 1) /\ u < A' /\ Stale(u)' <= u - u
    BY <1>1, <1>2, <1>5 DEF Countable
  <2> QED
    BY <2>1
<1> QED
  BY <1>6, <1>7 DEF IInv

(* Passing the gate raises the load by one.  The gate bounds the slots, and  *)
(* with them the goroutines past the gate and those that carry a count: at   *)
(* a load of MaxConcurrent + u few enough of the latter are left.            *)
LEMMA AdmitStep ==
  ASSUME IInv, TypeOK', NEW g \in Groups, Admit(g)
  PROVE  IInv'
<1> DEFINE c == seen[g]
           C == Cardinality(Counted)
           P == Cardinality(Admitted)
<1>1. Countable /\ TypeOK
  BY Counting DEF IInv
<1>2. Countable'
  BY Counting, PTL
<1>3. /\ active' = active
      /\ g \notin Admitted /\ Admitted' = Admitted \cup {g}
      /\ g \in Counted /\ Counted' = Counted \ {g}
      /\ \A t : StaleBelow(t)' = StaleBelow(t) \ {g}
  BY <1>1 DEF Admit, Move, TypeOK, Admitted, Counted, StaleBelow
<1>4. A' = A /\ Load' = Load + 1 /\ Load = A + P
  <2>1. Cardinality(Admitted') = P + 1
    BY Zenon, <1>1, <1>3, FS_AddElement DEF Countable
  <2>2. A' = A
    BY <1>3 DEF A
  <2>3. Load = A + P /\ Load' = A' + Cardinality(Admitted')
    BY DEF Load, A
  <2> QED
    BY <1>1, <2>1, <2>2, <2>3 DEF Countable
<1>5. c \in Nat /\ c + C + P <= M /\ c <= M - 1
  <2>1. c + Cardinality(inflight \ {g}) < M /\ c \in Nat
    BY <1>1 DEF Admit, Room, TypeOK, M
  <2>2. g \in inflight
    BY DEF Admit, Room, inflight
  <2>3. Cardinality(inflight \ {g}) = Cardinality(inflight) - 1
    BY Zenon, <1>1, <2>2, FS_RemoveElement DEF Countable
  <2>4. Counted \cap Admitted = {} /\ Counted \cup Admitted \in SUBSET inflight
    BY DEF Counted, Admitted, inflight
  <2>5. Cardinality(Counted \cup Admitted) = C + P
    <3>1. Cardinality(Counted \cup Admitted) = C + P - Cardinality(Counted \cap Admitted)
      BY <1>1, FS_Union DEF Countable
    <3>2. Cardinality(Counted \cap Admitted) = 0
      BY <2>4, FS_EmptySet
    <3> QED
      BY <1>1, <3>1, <3>2 DEF Countable
  <2>6. Cardinality(Counted \cup Admitted) <= Cardinality(inflight)
    BY <1>1, <2>4, FS_Subset DEF Countable
  <2>7. C >= 1
    BY <1>1, <1>3, FS_EmptySet DEF Countable
  <2> QED
    BY <1>1, <2>1, <2>3, <2>5, <2>6, <2>7 DEF Countable
<1>6. \A t : /\ Stale(t)' <= Stale(t)
             /\ c <= t => Stale(t)' = Stale(t) - 1
             /\ Stale(t)' <= C - 1
  <2> SUFFICES ASSUME NEW t
               PROVE  /\ Stale(t)' <= Stale(t)
                      /\ c <= t => Stale(t)' = Stale(t) - 1
                      /\ Stale(t)' <= C - 1
    OBVIOUS
  <2>1. Stale(t)' = IF g \in StaleBelow(t) THEN Stale(t) - 1 ELSE Stale(t)
    BY <1>1, <1>3, FS_RemoveElement DEF Stale, Countable
  <2>2. c <= t => g \in StaleBelow(t)
    BY <1>3 DEF StaleBelow
  <2>3. StaleBelow(t) \ {g} \in SUBSET (Counted \ {g})
    BY DEF StaleBelow
  <2>4. IsFiniteSet(Counted \ {g}) /\ Cardinality(Counted \ {g}) = C - 1
    BY <1>1, <1>3, FS_RemoveElement DEF Countable
  <2>5. Stale(t)' <= C - 1
    BY <1>3, <2>3, <2>4, FS_Subset DEF Stale
  <2> QED
    BY <1>1, <2>1, <2>2, <2>5 DEF Countable
<1>7. OvershootBounded'
  <2> SUFFICES ASSUME Load = 2 * M PROVE FALSE
    BY <1>1, <1>4 DEF IInv, OvershootBounded, Countable, M
  <2>1. M - 1 \in 0..(M - 1) /\ Load > M + (M - 1)
    BY <1>1 DEF Countable
  <2>2. PICK t \in (M - 1)..(M - 1) : Stale(t) <= t - (M - 1)
    BY <2>1 DEF IInv, StaleCountsScarce, Stale, M
  <2>3. c <= t
    BY <1>1, <1>5, <2>2 DEF Countable
  <2> QED
    BY <1>1, <1>2, <1>6, <2>2, <2>3 DEF Countable
<1>8. StaleCountsScarce'
  <2> SUFFICES ASSUME NEW u \in 0..(M - 1), Load' > M + u
               PROVE  \E t \in u..(M - 1) : t < A' /\ Stale(t)' <= t - u
    BY DEF StaleCountsScarce, Stale, M, A
  <2>1. CASE Load > M + u
    <3>1. PICK t \in u..(M - 1) : t < A /\ Stale(t) <= t - u
      BY <2>1 DEF IInv, StaleCountsScarce, Stale, M, A
    <3>2. t < A' /\ Stale(t)' <= t - u
      BY <1>1, <1>2, <1>4, <1>6, <3>1 DEF Countable
    <3> QED
      BY <3>2
  <2>2. CASE Load = M + u /\ A <= M
    <3>1. PICK t \in Int : t = A - 1
      BY <1>1 DEF Countable
    <3>2. Stale(t)' <= t - u
      BY <1>1, <1>2, <1>4, <1>5, <1>6, <2>2, <3>1 DEF Countable
    <3>3. t \in u..(M - 1) /\ t < A'
      BY <1>1, <1>2, <1>4, <2>2, <3>1, <3>2 DEF Countable
    <3> QED
      BY <3>2, <3>3
  <2>3. CASE Load = M + u /\ A > M
    <3>1. u - 1 \in 0..(M - 1) /\ Load > M + (u - 1)
      BY <1>1, <1>4, <2>3 DEF Countable
    <3>2. PICK t \in (u - 1)..(M - 1) : t < A /\ Stale(t) <= t - (u - 1)
      BY <3>1 DEF IInv, StaleCountsScarce, Stale, M, A
    <3>3. CASE c <= t
      <4>1. Stale(t)' <= t - u
        BY <1>1, <1>2, <1>6, <3>2, <3>3 DEF Countable
      <4>2. t \in u..(M - 1)
        BY <1>1, <1>2, <3>2, <4>1 DEF Countable
      <4> QED
        BY <1>4, <3>2, <4>1, <4>2
    <3>4. CASE c > t
      <4>1. Stale(M - 1)' <= (M - 1) - u
        BY <1>1, <1>2, <1>5, <1>6, <3>2, <3>4 DEF Countable
      <4>2. M - 1 \in u..(M - 1) /\ M - 1 < A'
        BY <1>1, <1>4, <2>3 DEF Countable
      <4> QED
        BY <4>1, <4>2
    <3> QED
      BY <1>1, <1>5, <3>2, <3>3, <3>4
  <2> QED
    BY <1>1, <1>4, <2>1, <2>2, <2>3 DEF Countable
<1> QED
  BY <1>7, <1>8 DEF IInv

(* The load starts at zero. *)
LEMMA InitIInv == Init => IInv
<1> SUFFICES ASSUME Init PROVE IInv
  OBVIOUS
<1>1. TypeOK
  BY DEF Init, TypeOK, Phases
<1>2. active = {} /\ Admitted = {}
  BY DEF Init, Admitted
<1>3. Load = 0
  BY <1>2, FS_EmptySet DEF Load
<1>4. M \in Nat \ {0}
  BY AdmissionAssumption DEF M
<1> QED
  BY <1>1, <1>3, <1>4 DEF IInv, OvershootBounded, StaleCountsScarce, M

(* Every step of the admission protocol keeps the invariant. *)
LEMMA StepIInv == IInv /\ [Next]_vars => IInv'
<1> SUFFICES ASSUME IInv, [Next]_vars PROVE IInv'
  OBVIOUS
<1>1. TypeOK'
  BY TypeStep DEF IInv
<1>2. CASE UNCHANGED vars
  BY <1>2 DEF vars, IInv, TypeOK, OvershootBounded, StaleCountsScarce, Load, Admitted,
     StaleBelow, Counted
<1>3. CASE Next
  BY <1>1, <1>3, QuietActions, AdmitStep, InactiveStep, RestartStep DEF Next
<1> QED
  BY <1>2, <1>3

(* Whatever the number of groups, and however the goroutines, failures and   *)
(* restarts interleave, the groups marked active together with those past    *)
(* the gate of processGroupMessages never exceed 2 * MAX_CONCURRENT.         *)
THEOREM OvershootTheorem == Spec => []OvershootBounded
<1>1. IInv => OvershootBounded
  BY DEF IInv
<1> QED
  BY <1>1, InitIInv, StepIInv, PTL DEF Spec

(* Why the bound holds: once more than MAX_CONCURRENT + u groups are active  *)
(* or admitted, few goroutines still carry a count from before (871) that    *)
(* would let them through the gate (886).                                    *)
THEOREM StaleCountsTheorem == Spec => [](TypeOK /\ StaleCountsScarce)
<1>1. IInv => TypeOK /\ StaleCountsScarce
  BY DEF IInv
<1> QED
  BY <1>1, InitIInv, StepIInv, PTL DEF Spec

=============================================================================
