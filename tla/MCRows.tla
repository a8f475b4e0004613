------------------------------- MODULE MCRows -------------------------------
(***************************************************************************)
(* Rows of the database that several handlers read, change and write back, *)
(* in one model: the scheduled tasks (Scheduler) and a group's model and   *)
(* session (GroupModels).  They share no state; a behaviour is one of a    *)
(* part, with the other where it starts.                                   *)
(*                                                                         *)
(* One provider has a model in the registry only; the API of the other     *)
(* lists a model the registry does not know, or nothing a user may choose, *)
(* or fails.                                                               *)
(***************************************************************************)
EXTENDS Scheduler, GroupModels, TLC

CONSTANTS a, o, m1, m2, m3, hidden

MCStatic == (a :> {m1}) @@ (o :> {m2})
MCAnswers == {Failed, {m2, m3, hidden}, {hidden}}
MCSelectable == {m2, m3}
MCConfigs == {[provider |-> a, model |-> m1], [provider |-> o, model |-> None]}

VARIABLE part   \* the part that moves

InTasks(A) == part = "tasks" /\ A /\ UNCHANGED <<part, modelVars>>
InModels(A) == part = "models" /\ A /\ UNCHANGED <<part, vars>>

MCInit ==
  /\ Init /\ ModelInit /\ part \in {"tasks", "models"}
  /\ part = "tasks" => groupRow.model = m1
MCNext == InTasks(Next) \/ InModels(ModelNext)

MCSpec ==
  /\ MCInit /\ [][MCNext]_<<part, vars, modelVars>>
  /\ WF_vars(InTasks(Poll)) /\ WF_vars(InTasks(Tick))
  /\ \A t \in Tasks : SF_vars(InTasks(Acquire(t))) /\ WF_vars(InTasks(RunStep(t)))
  /\ WF_modelVars(InModels(Refresh /\ UNCHANGED asks))
  /\ \A c \in Commands : WF_modelVars(InModels(Handle(c) /\ UNCHANGED asks))

=============================================================================
