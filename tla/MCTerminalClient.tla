-------------------------- MODULE MCTerminalClient --------------------------
(***************************************************************************)
(* The Messages tab and the other tabs in one model.  They share no state  *)
(* that either changes for the other, so either moves only while the other *)
(* is where it started.  One group exists and one more may be created,     *)
(* with a provider that has a key or one that needs a sign-in.             *)
(***************************************************************************)
EXTENDS TerminalClient, Dashboard

CONSTANTS a, b, api, gpt

MCOrder == <<a, b>>
MCModels == [p \in {api, gpt} |-> {<<p, "m">>}]

MCInit == Init /\ DashInit
MCNext ==
  \/ DashInit /\ Next /\ UNCHANGED dash
  \/ Init /\ DashNext /\ UNCHANGED vars

MCSpec ==
  /\ MCInit /\ [][MCNext]_<<vars, dash>>
  /\ WF_vars(DashInit /\ ~crashed /\ Esc /\ UNCHANGED dash)

=============================================================================
