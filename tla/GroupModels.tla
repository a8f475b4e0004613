----------------------------- MODULE GroupModels -----------------------------
(***************************************************************************)
(* Which model a group runs.  The groups table holds each group's provider *)
(* and model; RegisterGroup (internal/server/api_services.go) and the      *)
(* /model command (internal/orchestrator/commands.go) both write the whole *)
(* row.  The orchestrator works from a copy, registeredGroups, that the    *)
(* message loop rebuilds from the table; an agent is started with the      *)
(* model of that copy and told of later changes by a set_model message.    *)
(* Those messages go through the group's durable stream: what an agent has *)
(* not read when it ends, the next one reads.                              *)
(* Beside it goes the session the next agent resumes, which the table and  *)
(* the sessions map hold and /model clears.                                *)
(*                                                                         *)
(* One group is modelled: rows, copies and sessions of different groups do *)
(* not touch each other.  A configuration is its provider and model; the   *)
(* other columns, the texts of replies and the listing commands, which     *)
(* change nothing, are left out.  So is an agent that nobody has marked    *)
(* active, or a second one beside it: SandboxLifecycle is about those.     *)
(***************************************************************************)
EXTENDS Naturals, Sequences

CONSTANTS
  Commands,   \* /model commands that may be handled at one time
  Static,     \* provider -> its models in the registry
  Dynamic,    \* the provider whose models its API can list
  Answers,    \* what that API may answer: a set of models, or Failed
  Selectable, \* the models a user may choose from such an answer
  Failed,     \* the API call failed, or the provider has none
  Configs,    \* the configurations RegisterGroup is called with
  Default,    \* the provider of a group that names none
  None,       \* NULL or the empty string
  MaxAsks,    \* bound: commands and registrations
  MaxInbox    \* bound: unread set_model messages

ASSUME ModelsAssumption == \A g \in Configs : g = [provider |-> g.provider, model |-> g.model]

VARIABLES
  groupRow,   \* the group's row: its container_config
  cache,      \* its entry of registeredGroups
  srow,       \* its row of the sessions table
  scache,     \* its entry of the sessions map
  cmd,        \* the /model commands being handled
  refresh,    \* what refreshGroups has read and not yet installed
  spawn,      \* what processGroupMessages has read for an agent not yet active
  active,     \* the group is in the active set, which is a table too
  agent,      \* the running agent: the model it uses
  inbox,      \* the set_model messages in the group's stream that no agent has read
  asks,       \* commands and registrations so far
  saving,     \* a session_update between the map and the table
  raced       \* what an overlap of handlers, or one that failed half way, has put
              \* in doubt: "fit" or, for the agent that runs or starts, "agent"

modelVars ==
  <<groupRow, cache, srow, scache, cmd, refresh, spawn, active, agent, inbox, saving, raced, asks>>

Idle == [pc |-> "idle", arg |-> None, group |-> None]
Providers == DOMAIN Static

\* ListModels of the credential proxy: what the API lists, as far as it is for users.
Decoded(answer) == answer \cap Selectable
ListModels(p) ==
  IF p # Dynamic THEN {Failed}
  ELSE {IF a = Failed THEN Failed ELSE Decoded(a) : a \in Answers}

\* All models of a provider that the API or the registry knows.
Known(p) == Static[p] \cup UNION (ListModels(p) \ {Failed})
AllModels == UNION {Known(p) : p \in Providers}

-----------------------------------------------------------------------------
(* The groups table: reads return whole rows, a write replaces all columns.  *)

GetGroup == groupRow
ListGroups == groupRow
UpsertGroup(config) == groupRow' = config

-----------------------------------------------------------------------------
(* What is in progress.                                                     *)

Commanding == \E c \in Commands : cmd[c].pc # "idle"
Doubt(kinds, cond) == raced' = IF cond THEN raced \cup kinds ELSE raced

-----------------------------------------------------------------------------
(* handleModelCommand and updateGroupModel.                                 *)

ProviderOf(config) == IF config.provider = None THEN Default ELSE config.provider
Step(c, pc) == cmd' = [cmd EXCEPT ![c].pc = pc]
Finish(c) == cmd' = [cmd EXCEPT ![c] = Idle]

\* The registry's check; the empty model stands for the provider's default.
ValidateModel(p, m) == m = None \/ m \in Static[p]

\* The check of /model: an empty list counts as no list.
ValidateRequestedModel(p, m, list) ==
  IF list \notin {Failed, {}} THEN m \in list ELSE ValidateModel(p, m)

\* Variant: any known model is taken.
HandleModelUnchecked(c, m) ==
  /\ cmd[c].pc = "idle" /\ m # groupRow.model
  /\ cmd' = [cmd EXCEPT ![c] = [pc |-> "read", arg |-> m, group |-> None]]
  /\ UNCHANGED <<groupRow, cache, srow, scache, refresh, spawn, active, agent, inbox, saving, raced>>

\* The model asked for must be one of the provider's and not the current one; the
\* handler's two reads of the row are taken as one.
HandleModel(c, m) ==
  /\ cmd[c].pc = "idle"
  /\ \E list \in ListModels(ProviderOf(groupRow)) : ValidateRequestedModel(ProviderOf(groupRow), m, list)
  /\ m # groupRow.model
  /\ cmd' = [cmd EXCEPT ![c] = [pc |-> "read", arg |-> m, group |-> None]]
  /\ Doubt({"agent"}, Commanding \/ spawn # None)
  /\ UNCHANGED <<groupRow, cache, srow, scache, refresh, spawn, active, agent, inbox, saving>>

\* updateGroupModel reads the row again ...
ReadGroup(c) ==
  /\ cmd[c].pc = "read"
  /\ LET m == cmd[c].arg
     IN  cmd' = [cmd EXCEPT ![c] = [pc |-> "write", arg |-> m, group |-> [GetGroup EXCEPT !.model = m]]]
  /\ UNCHANGED <<groupRow, cache, srow, scache, refresh, spawn, active, agent, inbox, saving, raced>>

\* ... and writes all of it back.
WriteGroup(c) ==
  /\ cmd[c].pc = "write"
  /\ \/ UpsertGroup(cmd[c].group) /\ Step(c, "session")
     \/ Finish(c) /\ UNCHANGED groupRow
  /\ UNCHANGED <<cache, srow, scache, refresh, spawn, active, agent, inbox, saving, raced>>

\* A failed DeleteSession ends the command with the row already written.
DeleteSession(c) ==
  /\ cmd[c].pc = "session"
  /\ \/ srow' = None /\ Step(c, "cache") /\ UNCHANGED raced
     \/ Finish(c) /\ Doubt({"agent"}, TRUE) /\ UNCHANGED srow
  /\ UNCHANGED <<groupRow, cache, scache, refresh, spawn, active, agent, inbox, saving>>

UpdateCache(c) ==
  /\ cmd[c].pc = "cache"
  /\ cache' = cmd[c].group /\ scache' = None
  /\ Step(c, "notify")
  /\ UNCHANGED <<groupRow, srow, refresh, spawn, active, agent, inbox, saving, raced>>

\* Variant: the command ends without telling the agent.
NotifyNobody(c) ==
  /\ cmd[c].pc = "notify" /\ Finish(c)
  /\ UNCHANGED <<groupRow, cache, srow, scache, refresh, spawn, active, agent, inbox, saving, raced>>

\* sendModelUpdateToActive: a message for the agent only if the group is marked active,
\* whether or not an agent still lives to read it; a failed send is logged and the
\* command succeeds all the same.
NotifyActive(c) ==
  /\ cmd[c].pc = "notify" /\ Finish(c)
  /\ \/ ~active /\ UNCHANGED <<inbox, raced>>
     \/ active /\ Len(inbox) < MaxInbox /\ inbox' = Append(inbox, cmd[c].arg) /\ UNCHANGED raced
     \/ Doubt({"agent"}, TRUE) /\ UNCHANGED inbox
  /\ UNCHANGED <<groupRow, cache, srow, scache, refresh, spawn, active, agent, saving>>

-----------------------------------------------------------------------------
(* RegisterGroup for a group that exists: nobody else is told.              *)

\* Its own check of the model: here an empty list refuses every model.
Accepted(config, list) ==
  config.provider # None =>
    IF config.model = None \/ list = Failed THEN ValidateModel(config.provider, config.model)
    ELSE config.model \in list

Registrable(config) == \E list \in ListModels(config.provider) : Accepted(config, list)

\* The group has been registered, and no agent has run.
ModelInit ==
  /\ groupRow \in Configs /\ Registrable(groupRow) /\ cache = groupRow
  /\ srow = None /\ scache = None
  /\ cmd = [c \in Commands |-> Idle]
  /\ refresh = None /\ spawn = None /\ active = FALSE /\ agent = None /\ inbox = <<>>
  /\ saving = FALSE /\ raced = {} /\ asks = 0

RegisterGroup(config) ==
  /\ Registrable(config)
  /\ UpsertGroup(config)
  /\ raced' = raced \cup (IF Commanding THEN {"fit"} ELSE {})
                    \cup (IF Commanding \/ spawn # None \/ agent # None THEN {"agent"} ELSE {})
  /\ UNCHANGED <<cache, srow, scache, cmd, refresh, spawn, active, agent, inbox, saving>>

-----------------------------------------------------------------------------
(* refreshGroups reads the table without the lock and installs what it read. *)

RefreshRead ==
  /\ refresh = None
  /\ refresh' = ListGroups
  /\ UNCHANGED <<groupRow, cache, srow, scache, cmd, spawn, active, agent, inbox, saving, raced>>

\* Variant: a group that is known already keeps its entry.
RefreshInstallNew ==
  /\ refresh # None
  /\ refresh' = None
  /\ UNCHANGED <<groupRow, cache, srow, scache, cmd, spawn, active, agent, inbox, saving, raced>>

RefreshInstall ==
  /\ refresh # None
  /\ cache' = refresh /\ refresh' = None
  /\ UNCHANGED <<groupRow, srow, scache, cmd, spawn, active, agent, inbox, saving, raced>>

-----------------------------------------------------------------------------
(* Agents.  processGroupMessages copies the group and its session; the agent *)
(* is marked active much later, when its sandbox has been created.           *)

\* What earlier agents left unread ends with another model than the row's.
Leftover == inbox # <<>> /\ inbox[Len(inbox)] # groupRow.model

\* A new agent: earlier doubts are about agents that are gone.
SpawnRead ==
  /\ ~active /\ agent = None /\ spawn = None
  /\ spawn' = [model |-> cache.model]
  /\ raced' = (raced \ {"agent"}) \cup
       (IF Commanding \/ cache.model # groupRow.model \/ Leftover THEN {"agent"} ELSE {})
  /\ UNCHANGED <<groupRow, cache, srow, scache, cmd, refresh, active, agent, inbox, saving>>

SpawnActive ==
  /\ spawn # None
  /\ \/ agent' = [model |-> spawn.model] /\ active' = TRUE
     \/ UNCHANGED <<active, agent>>
  /\ spawn' = None
  /\ UNCHANGED <<groupRow, cache, srow, scache, cmd, refresh, inbox, saving, raced>>

SetModel ==
  /\ agent # None /\ inbox # <<>>
  /\ agent' = [model |-> Head(inbox)] /\ inbox' = Tail(inbox)
  /\ UNCHANGED <<groupRow, cache, srow, scache, cmd, refresh, spawn, active, saving, raced>>

\* The agent's pod ends; its stream and consumer stay, and so does what is in them.
AgentExit ==
  /\ agent # None
  /\ agent' = None
  /\ UNCHANGED <<groupRow, cache, srow, scache, cmd, refresh, spawn, active, inbox, saving, raced>>

\* The group leaves the active set, normally because its agent has ended.
Deactivate ==
  /\ active /\ active' = FALSE
  /\ Doubt({"agent"}, agent # None)
  /\ UNCHANGED <<groupRow, cache, srow, scache, cmd, refresh, spawn, agent, inbox, saving>>

\* The stream is deleted, with all that is in it: after the agent's shutdown, by an
\* abandoned start and by the reconciler.  IPCStreams is about when.
DeleteStreams ==
  /\ inbox # <<>> \/ agent # None
  /\ inbox' = <<>>
  /\ Doubt({"agent"}, agent # None)
  /\ UNCHANGED <<groupRow, cache, srow, scache, cmd, refresh, spawn, active, agent, saving>>

\* session_update: the map first, then the table, which may fail.
SessionUpdate ==
  /\ agent # None /\ ~saving
  /\ scache' = "session" /\ saving' = TRUE
  /\ UNCHANGED <<groupRow, cache, srow, cmd, refresh, spawn, active, agent, inbox, raced>>

UpsertSession ==
  /\ saving
  /\ saving' = FALSE
  /\ srow' \in {"session", srow}
  /\ UNCHANGED <<groupRow, cache, scache, cmd, refresh, spawn, active, agent, inbox, raced>>

\* The process dies between any two steps; loadState reads both tables again.
\* Agents live in their own pods, their streams in NATS and the active set in the
\* database; a start that was under way is abandoned.
Restart ==
  /\ cache' = groupRow /\ scache' = srow
  /\ cmd' = [c \in Commands |-> Idle]
  /\ refresh' = None /\ spawn' = None /\ saving' = FALSE
  /\ Doubt({"agent"}, Commanding)
  /\ UNCHANGED <<groupRow, srow, active, agent, inbox>>

-----------------------------------------------------------------------------
Refresh == RefreshRead \/ RefreshInstall

Handle(c) ==
  ReadGroup(c) \/ WriteGroup(c) \/ DeleteSession(c) \/ UpdateCache(c) \/ NotifyActive(c)

Asked ==
  /\ asks < MaxAsks /\ asks' = asks + 1
  /\ \/ \E c \in Commands, m \in AllModels : HandleModel(c, m)
     \/ \E config \in Configs : RegisterGroup(config)

Own ==
  /\ \/ Refresh \/ Restart
     \/ \E c \in Commands : Handle(c)
     \/ SpawnRead \/ SpawnActive \/ SetModel \/ AgentExit \/ Deactivate \/ DeleteStreams
     \/ SessionUpdate \/ UpsertSession
  /\ UNCHANGED asks

ModelNext == Asked \/ Own

\* Store calls return, and the message loop refreshes at every poll.
ModelSpec ==
  /\ ModelInit /\ [][ModelNext]_modelVars
  /\ WF_modelVars(Refresh /\ UNCHANGED asks)
  /\ \A c \in Commands : WF_modelVars(Handle(c) /\ UNCHANGED asks)

-----------------------------------------------------------------------------
(* Properties.                                                              *)

ConfigType == [provider : Providers \cup {None}, model : AllModels \cup {None}]

ModelTypeOK ==
  /\ groupRow \in ConfigType /\ cache \in ConfigType /\ refresh \in ConfigType \cup {None}
  /\ {srow, scache} \subseteq {None, "session"}
  /\ agent # None => agent.model \in AllModels \cup {None}
  /\ active \in BOOLEAN /\ inbox \in Seq(AllModels) /\ Len(inbox) <= MaxInbox

Quiet == ~Commanding /\ spawn = None /\ ~saving

\* The model of a group is one its provider has, however commands interleave: only
\* a registration between a command's check and its write can leave another one.
ModelFits ==
  groupRow.provider # None /\ "fit" \notin raced =>
    groupRow.model \in Known(groupRow.provider) \cup {None}

\* Once handlers have finished and the running agent has read its messages, it uses the
\* model of the row: commands handled one at a time reach every agent, through a restart
\* too.  The exceptions, each for one agent's life: a command overlapped another one, the
\* agent's start or a registration, or failed half way; the agent was started from a
\* stale copy; an earlier agent left a message unread that names another model; its
\* stream was deleted, or the group deactivated, under it.
AgentCurrent ==
  Quiet /\ agent # None /\ inbox = <<>> /\ "agent" \notin raced => agent.model = groupRow.model

\* Whatever overlapped, the copy follows the table once nobody asks for changes any
\* more: a stale refresh or a stale command may undo it, but not for ever.  (The
\* number of changes asked for is bounded, so they do end.)
CacheConverges ==
  <>[](cache = groupRow)

=============================================================================
