------------------------- MODULE MCSandboxLifecycle -------------------------
EXTENDS SandboxLifecycle, TLC

(* Goroutines have no identity: permuting them changes nothing. *)
Goroutines == Permutations(Workers) \cup Permutations(Watchers)

(* Nor have groups, when none of them requires a trigger. *)
GoroutinesAndGroups == Goroutines \cup Permutations(Groups)

(* Bound: where the process crashes, the last sandbox stays unused. *)
CrashBound == pods[MaxPods].state = "none"
CrashesBounded == crashes = 0 \/ CrashBound

MCNext == Steps \/ (CrashBound /\ Crash)
MCSpec == Init /\ [][MCNext]_vars
=============================================================================
