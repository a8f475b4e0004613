---------------------------- MODULE MCIPCStreams ----------------------------
(***************************************************************************)
(* IPCStreams for TLC.  Either two spawns overlap and one thing happens to *)
(* them, or there is one spawn and two things happen: a behaviour begins   *)
(* with that much of the bounds used up.  Spawns are alike.                *)
(***************************************************************************)
EXTENDS IPCStreams, TLC

MCInit ==
  /\ Start
  /\ \/ claims = 0 /\ happened = MaxEvents - 1
     \/ claims = MaxClaims - 1 /\ happened = 0

MCSpec == MCInit /\ [][Next]_vars

SpawnSymmetry == Permutations(Spawns)
=============================================================================
