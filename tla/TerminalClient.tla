-------------------------- MODULE TerminalClient --------------------------
(***************************************************************************)
(* The Messages tab of the terminal client, cmd/kraclaw-tui.  The program  *)
(* is a Bubble Tea loop: Update handles one key or one message at a time,  *)
(* and whatever takes time runs as a command beside the loop and comes     *)
(* back, at any later moment, as a message.  Only the provider list        *)
(* carries the number of the flow it was asked for; every other result is  *)
(* applied to whatever screen is shown when it arrives.                    *)
(*                                                                         *)
(* The keys are the actions Key*, the results of commands the actions      *)
(* named after their message.  Text, rendering and error lines are left    *)
(* out; a picker is the set of its rows and Enter takes any of them.  A    *)
(* panic (an index out of range, a Recv on a nil stream, a nil group in    *)
(* the view) sets crashed, after which the program does nothing.           *)
(***************************************************************************)
EXTENDS Naturals, Sequences, FiniteSets, Functions

CONSTANTS
  Order,       \* the group names, in the order ListGroups returns them
  Existing,    \* the groups registered before the client starts
  Typed,       \* the names the user gives to new groups
  Models,      \* provider -> the set of models ListProviders shows for it
  ChatGPT,     \* the providers whose authMode is "chatgpt"
  None,        \* the empty string or a nil pointer
  MaxFlows,    \* bound: group creations started
  MaxInbound,  \* bound: conversations opened
  MaxAuth      \* bound: sign-ins started

Names == {Order[i] : i \in 1..Len(Order)}
Providers == DOMAIN Models
Inbound == 1..MaxInbound
Auth == 1..MaxAuth

ASSUME ClientAssumption ==
  /\ Order \in Seq(Names) /\ Existing \subseteq Names /\ Typed \subseteq Names
  /\ MaxInbound \in Nat /\ MaxAuth \in Nat
  /\ None \notin Names \cup Providers \cup Inbound \cup Auth

VARIABLES
  chat,        \* screen, group list and cursor, selected group, inbound stream
  creation,    \* the creation* fields; from is the flow whose list filled the picker
  oauth,       \* the oauthState fields that steer: pending name, stream, cancel;
               \* own is the stream the sign-in screen was opened for
  crashed,     \* the program has panicked
  registered,  \* groups the server knows
  fetches,     \* flows whose provider list has been asked for
  regs,        \* RegisterGroup calls not yet answered
  inb,         \* inbound streams: state and reads outstanding
  auth,        \* sign-in streams: state and reads outstanding
  stray        \* a result was applied to another screen than the one that asked for it

client == <<chat, creation, oauth, crashed>>
vars == <<client, registered, fetches, regs, inb, auth, stray>>

\* The group lists the server may give of these groups: ordered by key, so the same groups
\* give the same list.
Before(m, n) == \E i, j \in 1..Len(Order) : i < j /\ Order[i] = m /\ Order[j] = n
GroupLists(set) ==
  {q \in UNION {[1..n -> set] : n \in 0..Len(Order)} :
     \A i, j \in DOMAIN q : i < j => Before(q[i], q[j])}

NoCreation == [name |-> None, provider |-> None, items |-> {}, listed |-> FALSE,
               loaded |-> FALSE, flow |-> 0, from |-> 0]
NoOAuth == [pending |-> None, stream |-> None, cancel |-> None, own |-> None]
NoStream == [st |-> "free", reads |-> 0]

Init ==
  /\ chat = [state |-> "SelectGroup", groups |-> <<>>, cursor |-> 0, group |-> None,
             stream |-> None, cancel |-> None, models |-> "closed"]
  /\ creation = NoCreation /\ oauth = NoOAuth /\ crashed = FALSE
  /\ registered = Existing
  /\ fetches = {} /\ regs = {} /\ stray = FALSE
  /\ inb = [s \in Inbound |-> NoStream]
  /\ auth = [s \in Auth |-> NoStream]

StreamType == [st : {"free", "opening", "open", "over"}, reads : 0..(MaxInbound + MaxAuth)]

TypeOK ==
  /\ chat.state \in {"SelectGroup", "SelectProvider", "SelectModel", "OAuth",
                     "Connecting", "Chatting"}
  /\ chat.group \in Names \cup {None} /\ chat.cursor \in 0..Len(Order)
  /\ chat.models \in {"closed", "loading", "listed"}
  /\ {chat.stream, chat.cancel} \subseteq Inbound \cup {None}
  /\ creation.name \in Names \cup {None}
  /\ creation.provider \in Providers \cup {None}
  /\ oauth.pending \in Names \cup {None}
  /\ {oauth.stream, oauth.cancel, oauth.own} \subseteq Auth \cup {None}
  /\ registered \subseteq Names /\ fetches \subseteq 1..MaxFlows
  /\ inb \in [Inbound -> StreamType] /\ auth \in [Auth -> StreamType]

-----------------------------------------------------------------------------
(* Streams.  A read outstanding when its stream is cancelled may already    *)
(* hold a message, so a read of a stream that is over returns either a      *)
(* message or the error.                                                    *)

Free(streams) == {s \in DOMAIN streams : streams[s].st = "free"}
Least(S) == CHOOSE s \in S : \A t \in S : s <= t

\* openInboundStreamCmd and startOAuthCmd: the call runs beside the loop.
OpenInbound ==
  /\ Free(inb) # {}
  /\ inb' = [inb EXCEPT ![Least(Free(inb))] = [st |-> "opening", reads |-> 0]]
StartOAuth(pending) ==
  /\ Free(auth) # {}
  /\ oauth' = [NoOAuth EXCEPT !.pending = pending, !.own = Least(Free(auth))]
  /\ auth' = [auth EXCEPT ![Least(Free(auth))] = [st |-> "opening", reads |-> 0]]

\* A cancel function ends its stream; nil is not called.
Cancelled(streams, s) == IF s = None THEN streams ELSE [streams EXCEPT ![s].st = "over"]
\* A read command has returned; another one is started.
ReadDone(streams, s) == [streams EXCEPT ![s].reads = @ - 1]
Reading(streams, s) == [streams EXCEPT ![s].reads = @ + 1]

-----------------------------------------------------------------------------
(* updateChat, group selection.                                             *)

KeyCursor ==
  /\ chat.state = "SelectGroup"
  /\ \/ /\ chat.groups # <<>> /\ chat.cursor < Len(chat.groups) - 1
        /\ chat' = [chat EXCEPT !.cursor = @ + 1]
     \/ /\ chat.cursor > 0
        /\ chat' = [chat EXCEPT !.cursor = @ - 1]
  /\ UNCHANGED <<creation, oauth, crashed, registered, fetches, regs, inb, auth, stray>>

\* Enter indexes the list with a cursor that a shorter list has left alone.
KeySelectGroup ==
  /\ chat.state = "SelectGroup" /\ chat.groups # <<>>
  /\ IF chat.cursor < Len(chat.groups)
     THEN /\ chat' = [chat EXCEPT !.group = chat.groups[chat.cursor + 1],
                                  !.state = "Connecting"]
          /\ OpenInbound
          /\ UNCHANGED crashed
     ELSE crashed' = TRUE /\ UNCHANGED <<chat, inb>>
  /\ UNCHANGED <<creation, oauth, registered, fetches, regs, auth, stray>>

\* fetchProvidersCmd: the answer will carry the flow it was asked for.
AskProviders(f) == fetches' = fetches \cup {f}

\* A name typed in starts a new creation flow, which asks for the providers.
KeyName(n) ==
  /\ chat.state = "SelectGroup" /\ creation.flow < MaxFlows
  /\ chat' = [chat EXCEPT !.state = "SelectProvider"]
  /\ creation' = [creation EXCEPT !.name = n, !.items = {}, !.loaded = FALSE,
                                  !.flow = @ + 1]
  /\ AskProviders(creation.flow + 1)
  /\ UNCHANGED <<oauth, crashed, registered, regs, inb, auth, stray>>

-----------------------------------------------------------------------------
(* updateChat, provider and model selection.                                *)

\* buildProviderItems leaves out a provider without models.
ProviderItems == {p \in Providers : Models[p] # {}}
ModelItems(p) == Models[p]

KeyProviderEsc ==
  /\ chat.state = "SelectProvider"
  /\ chat' = [chat EXCEPT !.state = "SelectGroup"]
  /\ creation' = [creation EXCEPT !.name = None, !.items = {}, !.loaded = FALSE]
  /\ UNCHANGED <<oauth, crashed, registered, fetches, regs, inb, auth, stray>>

\* Enter on a provider: a chatgpt one signs in first, any other shows its models.
KeyProvider(p) ==
  /\ chat.state = "SelectProvider" /\ creation.loaded /\ p \in creation.items
  /\ IF p \in ChatGPT
     THEN /\ creation' = [creation EXCEPT !.provider = p]
          /\ chat' = [chat EXCEPT !.state = "OAuth"]
          /\ StartOAuth(creation.name)
     ELSE /\ creation' = [creation EXCEPT !.provider = p, !.items = ModelItems(p)]
          /\ chat' = [chat EXCEPT !.state = "SelectModel"]
          /\ UNCHANGED <<oauth, auth>>
  /\ UNCHANGED <<crashed, registered, fetches, regs, inb, stray>>

KeyModelEsc ==
  /\ chat.state = "SelectModel"
  /\ chat' = [chat EXCEPT !.state = "SelectProvider"]
  /\ creation' = [creation EXCEPT !.items = IF creation.listed THEN ProviderItems ELSE {}]
  /\ UNCHANGED <<oauth, crashed, registered, fetches, regs, inb, auth, stray>>

\* registerGroupCmd: the call runs beside the loop.
Register(name, provider, model) ==
  regs' = regs \cup {[name |-> name, provider |-> provider, model |-> model]}

\* Enter on a model registers the group under the name and provider chosen before.
KeyModel(i) ==
  /\ chat.state = "SelectModel" /\ i \in creation.items
  /\ Register(creation.name, creation.provider, i)
  /\ creation' = [NoCreation EXCEPT !.flow = creation.flow]
  /\ chat' = [chat EXCEPT !.state = "Connecting"]
  /\ UNCHANGED <<oauth, crashed, registered, fetches, inb, auth, stray>>

\* Variant: Esc waits for the call that opens the stream.
KeyConnectingEscWaits ==
  /\ chat.state = "Connecting" /\ \A s \in Inbound : inb[s].st # "opening"
  /\ chat' = [chat EXCEPT !.state = "SelectGroup"]
  /\ UNCHANGED <<creation, oauth, crashed, registered, fetches, regs, inb, auth, stray>>

KeyConnectingEsc ==
  /\ chat.state = "Connecting"
  /\ chat' = [chat EXCEPT !.state = "SelectGroup"]
  /\ UNCHANGED <<creation, oauth, crashed, registered, fetches, regs, inb, auth, stray>>

-----------------------------------------------------------------------------
(* updateChat, the conversation.                                            *)

\* Esc closes the model picker first, then leaves the conversation.
KeyChatEsc ==
  /\ chat.state = "Chatting"
  /\ IF chat.models # "closed"
     THEN chat' = [chat EXCEPT !.models = "closed"] /\ UNCHANGED inb
     ELSE /\ chat' = [chat EXCEPT !.state = "SelectGroup", !.cancel = None, !.stream = None]
          /\ inb' = Cancelled(inb, chat.cancel)
  /\ UNCHANGED <<creation, oauth, crashed, registered, fetches, regs, auth, stray>>

\* ctrl+m opens the model picker and sends /models; Enter on a row sends /model.
KeyModels ==
  /\ chat.state = "Chatting"
  /\ \/ chat' = [chat EXCEPT !.models = "loading"]
     \/ chat.models = "listed" /\ chat' = [chat EXCEPT !.models = "closed"]
  /\ UNCHANGED <<creation, oauth, crashed, registered, fetches, regs, inb, auth, stray>>

\* ":auth <provider>" signs the open group in again; it dereferences the group.
KeyReauth ==
  /\ chat.state = "Chatting" /\ chat.models = "closed"
  /\ IF chat.group = None
     THEN crashed' = TRUE /\ UNCHANGED <<chat, oauth, auth>>
     ELSE /\ chat' = [chat EXCEPT !.state = "OAuth"]
          /\ StartOAuth(None)
          /\ UNCHANGED crashed
  /\ UNCHANGED <<creation, registered, fetches, regs, inb, stray>>

\* The view of a conversation shows the group's name.
View ==
  /\ chat.state = "Chatting" /\ chat.group = None
  /\ crashed' = TRUE
  /\ UNCHANGED <<chat, creation, oauth, registered, fetches, regs, inb, auth, stray>>

\* Variant: Esc always goes back to a conversation.
KeyOAuthEscToChat ==
  /\ chat.state = "OAuth"
  /\ auth' = Cancelled(auth, oauth.cancel)
  /\ oauth' = NoOAuth
  /\ creation' = [NoCreation EXCEPT !.flow = creation.flow]
  /\ chat' = [chat EXCEPT !.state = "Chatting"]
  /\ UNCHANGED <<crashed, registered, fetches, regs, inb, stray>>

\* handleEscOAuth: cancel what has been opened and drop the creation state.
KeyOAuthEsc ==
  /\ chat.state = "OAuth"
  /\ auth' = Cancelled(auth, oauth.cancel)
  /\ oauth' = NoOAuth
  /\ creation' = [NoCreation EXCEPT !.flow = creation.flow]
  /\ chat' = [chat EXCEPT !.state = IF oauth.pending = None /\ chat.group # None
                                    THEN "Chatting" ELSE "SelectGroup"]
  /\ UNCHANGED <<crashed, registered, fetches, regs, inb, stray>>

-----------------------------------------------------------------------------
(* Results of commands, in Update.                                          *)

\* groupsMsg replaces the list; an error leaves it empty.  Every tick asks again, so
\* an older answer may come last: groups are only ever added, and it holds fewer of
\* them.  Only groupsCursor, the cursor of another tab, is brought back into range.
GroupsMsg ==
  /\ \/ \E old \in GroupLists(registered) :
          /\ Existing \subseteq Range(old)
          /\ chat' = [chat EXCEPT !.groups = old]
     \/ chat' = [chat EXCEPT !.groups = <<>>]
  /\ UNCHANGED <<creation, oauth, crashed, registered, fetches, regs, inb, auth, stray>>

\* Variant: any list is taken for the one on the screen.
WantedAnyFlow(f) == chat.state \in {"SelectProvider", "SelectModel"}

\* A provider list is for the flow on the screen or it is dropped.
Wanted(f) == chat.state \in {"SelectProvider", "SelectModel"} /\ f = creation.flow

ProvidersLoaded(f) ==
  /\ fetches' = fetches \ {f}
  /\ creation' =
       IF ~Wanted(f) THEN creation
       ELSE [creation EXCEPT !.listed = TRUE, !.loaded = TRUE, !.from = f,
              !.items = IF chat.state = "SelectModel" /\ creation.provider # None
                        THEN ModelItems(creation.provider) ELSE ProviderItems]
  /\ UNCHANGED <<chat, oauth, crashed, registered, regs, inb, auth, stray>>

ProvidersFailed(f) ==
  /\ fetches' = fetches \ {f}
  /\ IF ~Wanted(f) THEN UNCHANGED <<chat, creation>>
     ELSE /\ chat' = [chat EXCEPT !.state = "SelectGroup"]
          /\ creation' = [NoCreation EXCEPT !.flow = creation.flow]
  /\ UNCHANGED <<oauth, crashed, registered, regs, inb, auth, stray>>

\* Results that belong to the Connecting screen carry nothing that says so.
Connected == stray' = (stray \/ chat.state # "Connecting")

\* The server refuses a registration without a folder and may fail any other.
GroupRegistered(r) ==
  /\ r.name # None /\ regs' = regs \ {r}
  /\ registered' = registered \cup {r.name}
  /\ chat' = [chat EXCEPT !.group = r.name, !.state = "Connecting"]
  /\ OpenInbound /\ Connected
  /\ UNCHANGED <<creation, oauth, crashed, fetches, auth>>

RegisterFailed(r) ==
  /\ regs' = regs \ {r}
  /\ chat' = [chat EXCEPT !.state = "SelectGroup"]
  /\ creation' = [NoCreation EXCEPT !.flow = creation.flow]
  /\ Connected
  /\ UNCHANGED <<oauth, crashed, registered, fetches, inb, auth>>

\* streamOpenedMsg: whichever stream it is, it becomes the conversation's.
StreamOpened(s) ==
  /\ inb[s].st = "opening"
  /\ inb' = Reading([inb EXCEPT ![s].st = "open"], s)
  /\ chat' = [chat EXCEPT !.stream = s, !.cancel = s, !.state = "Chatting"]
  /\ Connected
  /\ UNCHANGED <<creation, oauth, crashed, registered, fetches, regs, auth>>

StreamFailed(s) ==
  /\ inb[s].st = "opening"
  /\ inb' = [inb EXCEPT ![s].st = "over"]
  /\ chat' = [chat EXCEPT !.state = "SelectGroup"]
  /\ Connected
  /\ UNCHANGED <<creation, oauth, crashed, registered, fetches, regs, auth>>

\* Variant: a message is shown and no further read started.
RearmedNever(streams) == streams

\* channelOutputMsg with a message: the next read is of the conversation's stream.
\* A list of models fills the model picker if that is open.
Rearmed(streams) == IF chat.stream = None THEN streams ELSE Reading(streams, chat.stream)

ChannelOutput(s) ==
  /\ inb[s].reads > 0
  /\ inb' = Rearmed(ReadDone(inb, s))
  /\ \/ UNCHANGED chat
     \/ chat.models = "loading" /\ chat' = [chat EXCEPT !.models = "listed"]
  /\ UNCHANGED <<creation, oauth, crashed, registered, fetches, regs, auth, stray>>

\* channelOutputMsg with an error: the conversation is disconnected.
ChannelClosed(s) ==
  /\ inb[s].reads > 0
  /\ inb' = [ReadDone(inb, s) EXCEPT ![s].st = "over"]
  /\ chat' = [chat EXCEPT !.stream = None]
  /\ UNCHANGED <<creation, oauth, crashed, registered, fetches, regs, auth, stray>>

-----------------------------------------------------------------------------
(* handleAuthStarted and handleAuthEvent.                                   *)

\* The sign-in screen shown was opened for stream s.
Own(s) == chat.state = "OAuth" /\ oauth.own = s
Signing(s) == stray' = (stray \/ ~Own(s))

AuthStarted(s) ==
  /\ auth[s].st = "opening"
  /\ \/ /\ auth' = Reading([auth EXCEPT ![s].st = "open"], s)
        /\ oauth' = [oauth EXCEPT !.stream = s, !.cancel = s]
     \/ auth' = [auth EXCEPT ![s].st = "over"] /\ UNCHANGED oauth
  /\ Signing(s)
  /\ UNCHANGED <<chat, creation, crashed, registered, fetches, regs, inb>>

\* A device code or a tick: read on, from whatever stream the state holds.
AuthProgress(s) ==
  /\ auth[s].reads > 0
  /\ IF oauth.stream = None
     THEN crashed' = TRUE /\ UNCHANGED auth
     ELSE auth' = Reading(ReadDone(auth, s), oauth.stream) /\ UNCHANGED crashed
  /\ Signing(s)
  /\ UNCHANGED <<chat, creation, oauth, registered, fetches, regs, inb>>

\* Success: a new group goes on to its models, a known one back to its conversation.
AuthSuccess(s) ==
  /\ auth[s].reads > 0
  /\ auth' = Cancelled([ReadDone(auth, s) EXCEPT ![s].st = "over"], oauth.cancel)
  /\ oauth' = NoOAuth
  /\ IF oauth.pending # None
     THEN /\ chat' = [chat EXCEPT !.state = "SelectModel"]
          /\ creation' = [creation EXCEPT !.loaded = FALSE, !.items = {}]
          /\ AskProviders(creation.flow)
     ELSE chat' = [chat EXCEPT !.state = "Chatting"] /\ UNCHANGED <<creation, fetches>>
  /\ Signing(s)
  /\ UNCHANGED <<crashed, registered, regs, inb>>

\* An error event, a closed stream or a failed read: the screen shows the error.
AuthError(s) ==
  /\ auth[s].reads > 0
  /\ auth' = Cancelled([ReadDone(auth, s) EXCEPT ![s].st = "over"], oauth.cancel)
  /\ Signing(s)
  /\ UNCHANGED <<client, registered, fetches, regs, inb>>

-----------------------------------------------------------------------------
Esc == KeyProviderEsc \/ KeyModelEsc \/ KeyConnectingEsc \/ KeyChatEsc \/ KeyOAuthEsc

Keys ==
  \/ KeyCursor \/ KeySelectGroup \/ KeyModels \/ KeyReauth
  \/ \E n \in Typed : KeyName(n)
  \/ \E p \in Providers : KeyProvider(p)
  \/ \E i \in creation.items : KeyModel(i)

Results ==
  \/ GroupsMsg
  \/ \E f \in fetches : ProvidersLoaded(f) \/ ProvidersFailed(f)
  \/ \E r \in regs : GroupRegistered(r) \/ RegisterFailed(r)
  \/ \E s \in Inbound : StreamOpened(s) \/ StreamFailed(s) \/ ChannelOutput(s) \/ ChannelClosed(s)
  \/ \E s \in Auth : AuthStarted(s) \/ AuthProgress(s) \/ AuthSuccess(s) \/ AuthError(s)

Next == ~crashed /\ (Esc \/ Keys \/ View \/ Results)

\* The user who wants to leave a screen keeps pressing Esc.
Spec == Init /\ [][Next]_vars /\ WF_vars(~crashed /\ Esc)

-----------------------------------------------------------------------------
(* Properties.                                                              *)

\* The provider list Enter acts on was asked for by the flow on the screen: the
\* late list of a flow the user has left is never taken for the next group's.
PickerOfThisFlow ==
  creation.loaded => creation.from = creation.flow

\* A conversation that has a stream is reading it: no order of late results of
\* earlier conversations leaves the stream attached and nobody listening.
ConversationHeard ==
  chat.stream # None => inb[chat.stream].reads > 0

\* The program panics only over a group list applied out of order, or after a
\* result was applied to another screen than the one that asked for it; a cursor
\* on a list that only grows and a sign-in that is seen through are safe.
CrashExplained ==
  crashed => stray \/ chat.cursor >= Len(chat.groups)

\* Whatever the server does or fails to do, a user who from some moment presses
\* nothing but Esc gets back to the group list and is not drawn away again for good.
EscapeWorks ==
  <>[][~Keys]_vars => []<>(crashed \/ chat.state = "SelectGroup")

=============================================================================
