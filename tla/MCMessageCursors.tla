-------------------------- MODULE MCMessageCursors --------------------------
(***************************************************************************)
(* MessageCursors and Admission in one model.  They share no state; a      *)
(* behaviour is one of a part, with the other where it starts.             *)
(***************************************************************************)
EXTENDS MessageCursors, Admission, TLC

VARIABLE part   \* the part that moves

MCInit == CursorInit /\ Init /\ part \in {"cursors", "admission"}
MCNext ==
  \/ part = "cursors" /\ CursorNext /\ UNCHANGED <<part, vars>>
  \/ part = "admission" /\ Next /\ UNCHANGED <<part, cursorVars>>

MCSpec == MCInit /\ [][MCNext]_<<part, cursorVars, vars>>

(* Goroutines have no identity: permuting them changes nothing. *)
Goroutines == Permutations(Workers) \cup Permutations(Watchers)
=============================================================================
