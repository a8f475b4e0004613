----------------------------- MODULE ClientProofs -----------------------------
(***************************************************************************)
(* The terminal client, for any number of groups, providers, flows,        *)
(* conversations, sign-ins, lists and event streams, and any order of keys *)
(* and late results: the picker is of the flow on the screen, an attached  *)
(* stream is read, cursors are in range, and a panic has the one cause     *)
(* that is named.                                                          *)
(***************************************************************************)
EXTENDS TerminalClient, Dashboard, FiniteSetTheorems, TLAPS

-----------------------------------------------------------------------------
(* The Messages tab. *)

Screens == {"SelectGroup", "SelectProvider", "SelectModel", "OAuth", "Connecting", "Chatting"}
Items == Providers \cup UNION {Models[p] : p \in Providers}
Calls == [st : {"free", "opening", "open", "over"}, reads : Nat]

ChatType ==
  [state : Screens, groups : Seq(Names), cursor : Nat, group : Names \cup {None},
   stream : Inbound \cup {None}, cancel : Inbound \cup {None},
   models : {"closed", "loading", "listed"}]
CreationType ==
  [name : Names \cup {None}, provider : Providers \cup {None}, items : SUBSET Items,
   listed : BOOLEAN, loaded : BOOLEAN, flow : Nat, from : Nat]
OAuthType ==
  [pending : Names \cup {None}, stream : Auth \cup {None}, cancel : Auth \cup {None},
   own : Auth \cup {None}]

ClientTypes ==
  /\ chat \in ChatType /\ creation \in CreationType /\ oauth \in OAuthType
  /\ registered \subseteq Names /\ fetches \subseteq Nat
  /\ \A r \in regs : r.name \in Names \cup {None}
  /\ inb \in [Inbound -> Calls] /\ auth \in [Auth -> Calls]

\* A stream that is attached is read, and a stream is opened for a group only.
HeardInv ==
  /\ chat.stream # None => inb[chat.stream].st # "free" /\ inb[chat.stream].reads > 0
  /\ chat.cancel # None => inb[chat.cancel].st # "free"
  /\ \A s \in Inbound : inb[s].st # "free" \/ inb[s].reads > 0 => chat.group # None

\* What each screen can rely on as long as no result was applied to another one: a
\* conversation and a sign-in of a known group have a group, a creation has a name, and the
\* stream that the sign-in on the screen is read from is the one it will read on from.
ScreenInv ==
  /\ chat.state = "Chatting" => chat.group # None
  /\ chat.state \in {"SelectProvider", "SelectModel"} => creation.name # None
  /\ chat.state = "OAuth" => IF oauth.pending = None THEN chat.group # None ELSE creation.name # None
  /\ oauth.own # None /\ auth[oauth.own].reads > 0 => oauth.stream # None

ClientInv ==
  /\ ClientTypes /\ PickerOfThisFlow /\ HeardInv /\ CrashExplained
  /\ ~stray => ScreenInv

-----------------------------------------------------------------------------
\* A set of numbers that is not empty has a least one.
LEMMA LeastIn ==
  ASSUME NEW S \in SUBSET Nat, S # {}
  PROVE  Least(S) \in S
<1>. DEFINE R == OpToRel(<, Nat)
<1>1. IsWellFoundedOn(R, Nat)
  BY Zenon, NatLessThanWellFounded
<1>2. \A x, y \in Nat : y < x => <<y, x>> \in R
  BY Zenon DEF OpToRel
<1>. HIDE DEF R
<1>3. \E x \in S : \A y \in S : ~(<<y, x>> \in R)
  BY Zenon, <1>1, WFMin
<1>4. PICK x \in S : \A y \in S : ~(<<y, x>> \in R)
  BY Zenon, <1>3
<1>5. \A y \in S : x \in Nat /\ y \in Nat /\ ~(y < x)
  BY Zenon, <1>2, <1>4
<1>6. \A y \in S : x <= y
  BY <1>5
<1>. QED
  BY Zenon, <1>6 DEF Least

\* A read has returned.
LEMMA ReadDoneIs ==
  ASSUME NEW D, NEW f \in [D -> Calls], NEW s \in D, f[s].reads > 0
  PROVE  /\ ReadDone(f, s) \in [D -> Calls]
         /\ ReadDone(f, s)[s].reads = f[s].reads - 1
         /\ \A t \in D : /\ ReadDone(f, s)[t].st = f[t].st
                         /\ t # s => ReadDone(f, s)[t] = f[t]
<1>. DEFINE n == f[s].reads - 1
<1>1. n \in Nat
  BY DEF Calls
<1>2. ReadDone(f, s) = [f EXCEPT ![s] = [f[s] EXCEPT !.reads = n]]
  BY Zenon DEF ReadDone
<1>. HIDE DEF n
<1>3. [f[s] EXCEPT !.reads = n] \in Calls /\ [f[s] EXCEPT !.reads = n].reads = n
      /\ [f[s] EXCEPT !.reads = n].st = f[s].st
  BY Zenon, <1>1 DEF Calls
<1>4. /\ ReadDone(f, s) \in [D -> Calls] /\ ReadDone(f, s)[s].reads = n
      /\ \A t \in D : /\ ReadDone(f, s)[t].st = f[t].st
                      /\ t # s => ReadDone(f, s)[t] = f[t]
  BY Zenon, <1>2, <1>3
<1>. QED
  BY Zenon, <1>4 DEF n

\* A read is started.
LEMMA ReadingIs ==
  ASSUME NEW D, NEW f \in [D -> Calls], NEW s \in D
  PROVE  /\ Reading(f, s) \in [D -> Calls]
         /\ Reading(f, s)[s].reads = f[s].reads + 1
         /\ \A t \in D : /\ Reading(f, s)[t].st = f[t].st
                         /\ t # s => Reading(f, s)[t] = f[t]
<1>. DEFINE n == f[s].reads + 1
<1>1. n \in Nat
  BY DEF Calls
<1>2. Reading(f, s) = [f EXCEPT ![s] = [f[s] EXCEPT !.reads = n]]
  BY Zenon DEF Reading
<1>. HIDE DEF n
<1>3. [f[s] EXCEPT !.reads = n] \in Calls /\ [f[s] EXCEPT !.reads = n].reads = n
      /\ [f[s] EXCEPT !.reads = n].st = f[s].st
  BY Zenon, <1>1 DEF Calls
<1>4. /\ Reading(f, s) \in [D -> Calls] /\ Reading(f, s)[s].reads = n
      /\ \A t \in D : /\ Reading(f, s)[t].st = f[t].st
                      /\ t # s => Reading(f, s)[t] = f[t]
  BY Zenon, <1>2, <1>3
<1>. QED
  BY Zenon, <1>4 DEF n

\* A stream is opened or ended; its reads stay.
LEMMA StateIs ==
  ASSUME NEW D, NEW f \in [D -> Calls], NEW s \in D, NEW st \in {"open", "over"}
  PROVE  \A h : h = [f EXCEPT ![s].st = st] =>
           /\ h \in [D -> Calls] /\ h[s].st = st
           /\ \A t \in D : h[t].reads = f[t].reads /\ (t # s => h[t] = f[t])
<1>. SUFFICES ASSUME NEW h, h = [f EXCEPT ![s].st = st]
              PROVE  /\ h \in [D -> Calls] /\ h[s].st = st
                     /\ \A t \in D : h[t].reads = f[t].reads /\ (t # s => h[t] = f[t])
  BY Zenon
<1>1. \A t \in D \ {s} : h[t] = f[t]
  BY Zenon
<1>2. h \in [D -> Calls] /\ h[s].st = st /\ h[s].reads = f[s].reads
  BY Zenon DEF Calls
<1>. QED
  BY Zenon, <1>1, <1>2

\* A cancel function, if there is one, is called.
LEMMA CancelledIs ==
  ASSUME NEW D, NEW f \in [D -> Calls], NEW s \in D \cup {None}
  PROVE  /\ Cancelled(f, s) \in [D -> Calls]
         /\ \A t \in D : /\ Cancelled(f, s)[t].reads = f[t].reads
                         /\ Cancelled(f, s)[t].st = f[t].st \/ (t = s /\ Cancelled(f, s)[t].st = "over")
<1>1. CASE s = None
  BY Zenon, <1>1 DEF Cancelled
<1>2. CASE s # None
  BY Zenon, <1>2 DEF Cancelled, Calls
<1>. QED
  BY Zenon, <1>1, <1>2

\* A stream that was free is being opened.
LEMMA OpeningIs ==
  ASSUME NEW n \in Nat, NEW f \in [1..n -> Calls], Free(f) # {}
  PROVE  /\ Least(Free(f)) \in 1..n /\ f[Least(Free(f))].st = "free"
         /\ [f EXCEPT ![Least(Free(f))] = [st |-> "opening", reads |-> 0]] \in [1..n -> Calls]
<1>1. Free(f) \in SUBSET Nat
  BY DEF Free
<1>2. Least(Free(f)) \in Free(f)
  BY Zenon, <1>1, LeastIn
<1>. QED
  BY Zenon, <1>2 DEF Free, Calls

\* The creation state is dropped.
LEMMA FreshIs ==
  ASSUME creation \in CreationType
  PROVE  LET c == [NoCreation EXCEPT !.flow = creation.flow]
         IN  c \in CreationType /\ c.loaded = FALSE
<1>1. NoCreation \in CreationType /\ NoCreation.loaded = FALSE
  BY Zenon DEF NoCreation, CreationType
<1>2. PICK x : x = NoCreation
  BY Zenon
<1>3. [x EXCEPT !.flow = creation.flow] \in CreationType /\ [x EXCEPT !.flow = creation.flow].loaded = FALSE
  BY Zenon, <1>1, <1>2 DEF CreationType
<1>. QED
  BY Zenon, <1>2, <1>3

\* The client starts with nothing.
LEMMA ClientStart == Init => ClientInv
<1>. SUFFICES ASSUME Init
              PROVE  ClientInv
  BY Zenon
<1>1. ClientTypes
  BY ClientAssumption
    DEF Init, ClientTypes, ChatType, CreationType, OAuthType, NoCreation, NoOAuth, NoStream,
        Screens, Items, Calls, Names
<1>. QED
  BY <1>1, ClientAssumption
    DEF Init, ClientInv, PickerOfThisFlow, HeardInv, CrashExplained, ScreenInv, NoCreation,
        NoOAuth,
         NoStream

\* The keys that move between the screens.
LEMMA StepKeys ==
  ASSUME ClientInv, ~crashed,
         KeyCursor \/ KeyProviderEsc \/ KeyModelEsc \/ KeyConnectingEsc \/ KeyModels \/ GroupsMsg
  PROVE  ClientInv'
<1>1. ClientTypes'
  <2>1. CASE KeyCursor
    <3>1. chat.cursor \in Nat /\ Len(chat.groups) \in Nat
      BY DEF ClientInv, ClientTypes, ChatType, CreationType, OAuthType
    <3>2. PICK n : n = chat'.cursor
      BY Zenon
    <3>3. n \in Nat /\ chat' = [chat EXCEPT !.cursor = n]
      BY <2>1, <3>1, <3>2 DEF KeyCursor, ClientInv, ClientTypes, ChatType, CreationType, OAuthType
    <3>. QED
      BY Zenon, <2>1, <3>3 DEF ClientInv, ClientTypes, ChatType, CreationType, OAuthType, KeyCursor
  <2>2. CASE KeyProviderEsc
    BY Zenon, <2>2 DEF ClientInv, ClientTypes, ChatType, CreationType, OAuthType, KeyProviderEsc, Screens
  <2>3. CASE KeyModelEsc
    BY Zenon, <2>3
      DEF ClientInv, ClientTypes, ChatType, CreationType, OAuthType, KeyModelEsc, Screens,
          ProviderItems, Items
  <2>4. CASE KeyConnectingEsc
    BY <2>4 DEF ClientInv, ClientTypes, ChatType, CreationType, OAuthType, KeyConnectingEsc, Screens
  <2>5. CASE KeyModels
    BY <2>5 DEF ClientInv, ClientTypes, ChatType, CreationType, OAuthType, KeyModels
  <2>6. CASE GroupsMsg
    <3>1. \A q \in GroupLists(registered) : q \in Seq(Names)
      <4>1. \A q \in GroupLists(registered) : \E n \in 0..Len(Order) : q \in [1..n -> registered]
        BY Zenon DEF GroupLists
      <4>2. \A n \in Nat : \A q \in [1..n -> registered] : q \in [1..n -> Names]
        BY Zenon DEF ClientInv, ClientTypes, ChatType, CreationType, OAuthType
      <4>3. \A n \in 0..Len(Order) : n \in Nat
        BY ClientAssumption
      <4>. QED
        BY <4>1, <4>2, <4>3
    <3>2. <<>> \in Seq(Names)
      OBVIOUS
    <3>3. PICK q \in Seq(Names) : chat' = [chat EXCEPT !.groups = q]
      BY Zenon, <2>6, <3>1, <3>2 DEF GroupsMsg
    <3>. QED
      BY Zenon, <2>6, <3>3 DEF ClientInv, ClientTypes, ChatType, CreationType, OAuthType, GroupsMsg
  <2>. QED
    BY Zenon, <2>1, <2>2, <2>3, <2>4, <2>5, <2>6
<1>2. /\ UNCHANGED <<oauth, crashed, stray, inb, auth>> /\ UNCHANGED <<chat.stream, chat.cancel, chat.group>>
      /\ chat'.state = "SelectGroup" \/ (chat'.state = chat.state /\ creation' = creation)
         \/ (chat.state = "SelectModel" /\ chat'.state = "SelectProvider" /\ creation'.name = creation.name)
      /\ creation'.loaded => creation.loaded /\ creation'.from = creation.from /\ creation'.flow = creation.flow
  <2>1. chat \in ChatType /\ creation \in CreationType
    BY Zenon DEF ClientInv, ClientTypes
  <2>2. CASE KeyCursor
    BY Zenon, <2>1, <2>2 DEF ChatType, CreationType, KeyCursor
  <2>3. CASE KeyProviderEsc
    BY Zenon, <2>1, <2>3 DEF ChatType, CreationType, KeyProviderEsc
  <2>4. CASE KeyModelEsc
    BY Zenon, <2>1, <2>4 DEF ChatType, CreationType, KeyModelEsc
  <2>5. CASE KeyConnectingEsc
    BY Zenon, <2>1, <2>5 DEF ChatType, CreationType, KeyConnectingEsc
  <2>6. CASE KeyModels
    BY Zenon, <2>1, <2>6 DEF ChatType, CreationType, KeyModels
  <2>7. CASE GroupsMsg
    BY Zenon, <2>1, <2>7 DEF ChatType, CreationType, GroupsMsg
  <2>. QED
    BY Zenon, <2>2, <2>3, <2>4, <2>5, <2>6, <2>7
<1>. QED
  BY Zenon, <1>1, <1>2 DEF ClientInv, PickerOfThisFlow, HeardInv, CrashExplained, ScreenInv

\* A conversation is opened.
LEMMA OpenInboundIs ==
  ASSUME ClientTypes, OpenInbound
  PROVE  \E s \in Inbound :
           /\ inb[s].st = "free" /\ inb' \in [Inbound -> Calls]
           /\ inb' = [inb EXCEPT ![s] = [st |-> "opening", reads |-> 0]]
  BY Zenon, OpeningIs, ClientAssumption
    DEF OpenInbound, ClientTypes, ChatType, CreationType, OAuthType, Inbound

\* A group is selected: its stream is opened, unless the cursor is past the list.
LEMMA StepSelect ==
  ASSUME ClientInv, KeySelectGroup
  PROVE  ClientInv'
<1>1. CASE chat.cursor < Len(chat.groups)
  <2>2. PICK s \in Inbound :
          /\ inb[s].st = "free" /\ inb' \in [Inbound -> Calls]
          /\ inb' = [inb EXCEPT ![s] = [st |-> "opening", reads |-> 0]]
    <3>1. ClientTypes /\ OpenInbound
      BY Zenon, <1>1 DEF KeySelectGroup, ClientInv
    <3>. QED
      BY Zenon, <3>1, OpenInboundIs
  <2>3. PICK n \in Names : chat' = [chat EXCEPT !.group = n, !.state = "Connecting"]
    <3>1. chat.groups[chat.cursor + 1] \in Names
      BY <1>1 DEF ClientInv, ClientTypes, ChatType, CreationType, OAuthType
    <3>. QED
      BY Zenon, <1>1, <3>1 DEF KeySelectGroup
  <2>4. ClientTypes'
    BY Zenon, <2>2, <2>3
      DEF ClientInv, ClientTypes, ChatType, CreationType, OAuthType, KeySelectGroup, Screens
  <2>5. /\ chat'.group # None /\ UNCHANGED <<chat.stream, chat.cancel>> /\ chat'.state = "Connecting"
        /\ UNCHANGED <<creation, oauth, crashed, stray, auth>>
    BY Zenon, <1>1, <2>3, ClientAssumption
      DEF ClientInv, ClientTypes, ChatType, CreationType, OAuthType, KeySelectGroup
  <2>6. HeardInv'
    BY Zenon, <2>2, <2>5 DEF ClientInv, HeardInv, ClientTypes, ChatType, CreationType, OAuthType
  <2>7. CrashExplained'
    BY Zenon, <2>3, <2>5 DEF ClientInv, ClientTypes, ChatType, CreationType, OAuthType, CrashExplained
  <2>. QED
    BY Zenon, <2>4, <2>5, <2>6, <2>7 DEF ClientInv, PickerOfThisFlow, ScreenInv
<1>2. CASE ~(chat.cursor < Len(chat.groups))
  <2>1. /\ crashed' /\ UNCHANGED <<chat, inb, creation, oauth, registered, fetches, regs, auth, stray>>
        /\ chat.cursor >= Len(chat.groups)
    BY <1>2 DEF KeySelectGroup, ClientInv, ClientTypes, ChatType, CreationType, OAuthType
  <2>. QED
    BY <2>1
      DEF ClientInv, ClientTypes, ChatType, CreationType, OAuthType, PickerOfThisFlow, HeardInv,
          CrashExplained, ScreenInv
<1>. QED
  BY Zenon, <1>1, <1>2

\* A new group is named.
LEMMA StepName ==
  ASSUME ClientInv, ~crashed, NEW n \in Typed, KeyName(n)
  PROVE  ClientInv'
<1>1. PICK f : f = creation.flow + 1
  BY Zenon
<1>2. f \in Nat
  BY <1>1 DEF ClientInv, ClientTypes, ChatType, CreationType, OAuthType
<1>3. /\ creation' = [creation EXCEPT !.name = n, !.items = {}, !.loaded = FALSE, !.flow = f]
      /\ fetches' = fetches \cup {f} /\ n \in Names
  BY Zenon, <1>1, ClientAssumption
    DEF KeyName, AskProviders, ClientInv, ClientTypes, ChatType, CreationType, OAuthType
<1>4. ClientTypes'
  <2>1. chat \in ChatType /\ creation \in CreationType
    BY Zenon DEF ClientInv, ClientTypes
  <2>2. chat' \in ChatType
    BY Zenon, <2>1 DEF ChatType, KeyName, Screens
  <2>3. creation' \in CreationType
    BY Zenon, <1>2, <1>3, <2>1 DEF CreationType
  <2>4. fetches' \in SUBSET Nat
    BY Zenon, <1>2, <1>3 DEF ClientInv, ClientTypes
  <2>. QED
    BY Zenon, <2>2, <2>3, <2>4 DEF ClientInv, ClientTypes, KeyName
<1>5. /\ chat'.state = "SelectProvider" /\ UNCHANGED <<chat.stream, chat.cancel, chat.group>>
      /\ creation'.name # None /\ ~creation'.loaded /\ UNCHANGED <<oauth, crashed, stray, inb, auth>>
  BY <1>3, ClientAssumption DEF ClientInv, ClientTypes, ChatType, CreationType, OAuthType, KeyName
<1>. QED
  BY Zenon, <1>4, <1>5 DEF ClientInv, PickerOfThisFlow, HeardInv, CrashExplained, ScreenInv

\* A sign-in begins.
LEMMA StartOAuthIs ==
  ASSUME ClientTypes, NEW p \in Names \cup {None}, StartOAuth(p)
  PROVE  /\ oauth' \in OAuthType
         /\ auth' \in [Auth -> Calls]
         /\ oauth'.pending = p /\ oauth'.own \in Auth /\ auth'[oauth'.own].reads = 0
<1>1. PICK s : s = Least(Free(auth))
  BY Zenon
<1>2. /\ s \in Auth /\ auth' \in [Auth -> Calls]
      /\ auth' = [auth EXCEPT ![s] = [st |-> "opening", reads |-> 0]]
      /\ oauth' = [NoOAuth EXCEPT !.pending = p, !.own = s]
  BY Zenon, <1>1, OpeningIs, ClientAssumption
    DEF StartOAuth, ClientTypes, ChatType, CreationType, OAuthType, Auth
<1>3. oauth' = [pending |-> p, stream |-> None, cancel |-> None, own |-> s]
  BY Zenon, <1>2 DEF NoOAuth
<1>4. oauth' \in OAuthType /\ oauth'.pending = p /\ oauth'.own = s
  BY <1>2, <1>3 DEF OAuthType
<1>5. auth'[s].reads = 0
  BY Zenon, <1>2 DEF ClientTypes
<1>. QED
  BY Zenon, <1>2, <1>4, <1>5

\* A provider is chosen.
LEMMA StepProvider ==
  ASSUME ClientInv, ~crashed, NEW p \in Providers, KeyProvider(p)
  PROVE  ClientInv'
<1>1. CASE p \in ChatGPT
  <2>1. /\ creation' = [creation EXCEPT !.provider = p] /\ chat' = [chat EXCEPT !.state = "OAuth"]
        /\ StartOAuth(creation.name) /\ UNCHANGED <<crashed, registered, fetches, regs, inb, stray>>
        /\ chat.state = "SelectProvider"
    BY Zenon, <1>1 DEF KeyProvider
  <2>2. /\ oauth' \in OAuthType
        /\ auth' \in [Auth -> Calls]
        /\ oauth'.pending = creation.name /\ oauth'.own \in Auth /\ auth'[oauth'.own].reads = 0
    <3>1. ClientTypes /\ creation.name \in Names \cup {None} /\ StartOAuth(creation.name)
      BY Zenon, <2>1 DEF ClientInv, ClientTypes, CreationType
    <3>. QED
      BY Zenon, <3>1, StartOAuthIs
  <2>3. ClientTypes'
    BY Zenon, <2>1, <2>2 DEF ClientInv, ClientTypes, ChatType, CreationType, OAuthType, Screens
  <2>4. /\ chat'.state = "OAuth" /\ UNCHANGED <<chat.stream, chat.cancel, chat.group>>
        /\ creation'.name = creation.name /\ creation'.loaded = creation.loaded
        /\ creation'.from = creation.from /\ creation'.flow = creation.flow
    BY Zenon, <2>1 DEF ClientInv, ClientTypes, ChatType, CreationType, OAuthType
  <2>. QED
    BY <2>1, <2>2, <2>3, <2>4 DEF ClientInv, PickerOfThisFlow, HeardInv, CrashExplained, ScreenInv
<1>2. CASE p \notin ChatGPT
  <2>1. /\ creation' = [creation EXCEPT !.provider = p, !.items = ModelItems(p)]
        /\ chat' = [chat EXCEPT !.state = "SelectModel"] /\ chat.state = "SelectProvider"
        /\ UNCHANGED <<oauth, auth, crashed, registered, fetches, regs, inb, stray>>
    BY Zenon, <1>2 DEF KeyProvider
  <2>2. ModelItems(p) \in SUBSET Items
    BY Zenon DEF ModelItems, Items
  <2>3. ClientTypes'
    BY Zenon, <2>1, <2>2 DEF ClientInv, ClientTypes, ChatType, CreationType, OAuthType, Screens
  <2>4. /\ chat'.state = "SelectModel" /\ UNCHANGED <<chat.stream, chat.cancel, chat.group>>
        /\ creation'.name = creation.name /\ creation'.loaded = creation.loaded
        /\ creation'.from = creation.from /\ creation'.flow = creation.flow
    BY Zenon, <2>1 DEF ClientInv, ClientTypes, ChatType, CreationType, OAuthType
  <2>. QED
    BY Zenon, <2>1, <2>3, <2>4 DEF ClientInv, PickerOfThisFlow, HeardInv, CrashExplained, ScreenInv
<1>. QED
  BY Zenon, <1>1, <1>2

\* A model is chosen, and the group registered.
LEMMA StepModel ==
  ASSUME ClientInv, ~crashed, NEW i, KeyModel(i)
  PROVE  ClientInv'
<1>1. /\ regs' = regs \cup {[name |-> creation.name, provider |-> creation.provider, model |-> i]}
      /\ creation' = [NoCreation EXCEPT !.flow = creation.flow]
      /\ chat' = [chat EXCEPT !.state = "Connecting"]
      /\ UNCHANGED <<oauth, crashed, registered, fetches, inb, auth, stray>>
  BY Zenon DEF KeyModel, Register
<1>2. creation'.loaded = FALSE /\ creation' \in CreationType
  BY Zenon, <1>1, FreshIs DEF ClientInv, ClientTypes
<1>4. /\ chat' \in ChatType /\ \A r \in regs' : r.name \in Names \cup {None}
  BY <1>1 DEF ClientInv, ClientTypes, ChatType, CreationType, Screens
<1>5. ClientTypes'
  BY Zenon, <1>1, <1>2, <1>4 DEF ClientInv, ClientTypes
<1>3. chat'.state = "Connecting" /\ UNCHANGED <<chat.stream, chat.cancel, chat.group>>
  BY Zenon, <1>1 DEF ClientInv, ClientTypes, ChatType, CreationType, OAuthType
<1>. QED
  BY Zenon, <1>1, <1>2, <1>3, <1>5 DEF ClientInv, PickerOfThisFlow, HeardInv, CrashExplained, ScreenInv

\* A conversation is left, or its model picker closed.
LEMMA StepChatEsc ==
  ASSUME ClientInv, ~crashed, KeyChatEsc
  PROVE  ClientInv'
<1>1. CASE chat.models # "closed"
  <2>1. /\ chat' = [chat EXCEPT !.models = "closed"]
        /\ UNCHANGED <<creation, oauth, crashed, registered, fetches, regs, inb, auth, stray>>
    BY Zenon, <1>1 DEF KeyChatEsc
  <2>2. chat'.state = chat.state /\ UNCHANGED <<chat.stream, chat.cancel, chat.group>>
    BY Zenon, <2>1 DEF ClientInv, ClientTypes, ChatType, CreationType, OAuthType
  <2>3. ClientTypes'
    BY Zenon, <2>1 DEF ClientInv, ClientTypes, ChatType, CreationType, OAuthType
  <2>. QED
    BY Zenon, <2>1, <2>2, <2>3 DEF ClientInv, PickerOfThisFlow, HeardInv, CrashExplained, ScreenInv
<1>2. CASE chat.models = "closed"
  <2>1. /\ chat' = [chat EXCEPT !.state = "SelectGroup", !.cancel = None, !.stream = None]
        /\ inb' = Cancelled(inb, chat.cancel)
        /\ UNCHANGED <<creation, oauth, crashed, registered, fetches, regs, auth, stray>>
    BY Zenon, <1>2 DEF KeyChatEsc
  <2>2. chat'.state = "SelectGroup" /\ chat'.stream = None /\ chat'.cancel = None /\ chat'.group = chat.group
    BY Zenon, <2>1 DEF ClientInv, ClientTypes, ChatType, CreationType, OAuthType
  <2>3. chat.cancel \in Inbound \cup {None} /\ inb \in [Inbound -> Calls]
    BY Zenon DEF ClientInv, ClientTypes, ChatType, CreationType, OAuthType
  <2>4. /\ inb' \in [Inbound -> Calls]
        /\ \A s \in Inbound : /\ inb'[s].st # "free" => inb[s].st # "free"
                             /\ inb'[s].reads = inb[s].reads
    <3>1. /\ inb' \in [Inbound -> Calls]
          /\ \A s \in Inbound : /\ inb'[s].st = inb[s].st \/ s = chat.cancel
                               /\ inb'[s].reads = inb[s].reads
      BY <2>1, <2>3, CancelledIs
    <3>. QED
      BY Zenon, <3>1, ClientAssumption DEF ClientInv, HeardInv
  <2>5. ClientTypes'
    <3>1. chat' \in ChatType
      BY Zenon, <2>1 DEF ClientInv, ClientTypes, ChatType, Screens
    <3>. QED
      BY Zenon, <2>1, <2>4, <3>1 DEF ClientInv, ClientTypes
  <2>6. HeardInv'
    BY Zenon, <2>2, <2>4 DEF ClientInv, HeardInv
  <2>. QED
    BY Zenon, <2>1, <2>2, <2>5, <2>6 DEF ClientInv, PickerOfThisFlow, CrashExplained, ScreenInv
<1>. QED
  BY Zenon, <1>1, <1>2

\* The open group is signed in again, or the view shows a group that is not there.
LEMMA StepReauth ==
  ASSUME ClientInv, ~crashed, KeyReauth \/ View
  PROVE  ClientInv'
<1>1. CASE chat.group = None
  <2>1. crashed' /\ chat.state = "Chatting"
        /\ UNCHANGED <<chat, creation, oauth, registered, fetches, regs, inb, auth, stray>>
    BY Zenon, <1>1 DEF KeyReauth, View
  <2>2. stray
    BY Zenon, <1>1, <2>1 DEF ClientInv, ScreenInv
  <2>3. ClientTypes' /\ HeardInv' /\ PickerOfThisFlow'
    BY Zenon, <2>1 DEF ClientInv, ClientTypes, PickerOfThisFlow, HeardInv
  <2>. QED
    BY Zenon, <2>1, <2>2, <2>3 DEF ClientInv, CrashExplained
<1>2. CASE chat.group # None
  <2>1. /\ chat' = [chat EXCEPT !.state = "OAuth"] /\ StartOAuth(None)
        /\ UNCHANGED <<creation, crashed, registered, fetches, regs, inb, stray>>
    BY Zenon, <1>2 DEF KeyReauth, View
  <2>2. /\ oauth' \in OAuthType /\ auth' \in [Auth -> Calls]
        /\ oauth'.pending = None /\ oauth'.own \in Auth /\ auth'[oauth'.own].reads = 0
    <3>1. ClientTypes /\ None \in Names \cup {None}
      BY Zenon DEF ClientInv
    <3>. QED
      BY Zenon, <2>1, <3>1, StartOAuthIs
  <2>3. chat' \in ChatType /\ chat'.state = "OAuth" /\ UNCHANGED <<chat.stream, chat.cancel, chat.group>>
    BY Zenon, <2>1 DEF ClientInv, ClientTypes, ChatType, Screens
  <2>4. ClientTypes'
    BY Zenon, <2>1, <2>2, <2>3 DEF ClientInv, ClientTypes
  <2>. QED
    BY <1>2, <2>1, <2>2, <2>3, <2>4 DEF ClientInv, PickerOfThisFlow, HeardInv, CrashExplained, ScreenInv
<1>. QED
  BY Zenon, <1>1, <1>2

\* A sign-in is left.
LEMMA StepOAuthEsc ==
  ASSUME ClientInv, ~crashed, KeyOAuthEsc
  PROVE  ClientInv'
<1>1. PICK st \in {"Chatting", "SelectGroup"} :
        chat' = [chat EXCEPT !.state = st] /\ (st = "Chatting" => chat.group # None)
  BY Zenon DEF KeyOAuthEsc
<1>2. /\ auth' = Cancelled(auth, oauth.cancel) /\ oauth' = NoOAuth
      /\ creation' = [NoCreation EXCEPT !.flow = creation.flow]
      /\ UNCHANGED <<crashed, registered, fetches, regs, inb, stray>>
  BY Zenon DEF KeyOAuthEsc
<1>3. creation' \in CreationType /\ creation'.loaded = FALSE
  BY Zenon, <1>2, FreshIs DEF ClientInv, ClientTypes
<1>4. oauth' \in OAuthType /\ oauth'.own = None
  BY Zenon, <1>2 DEF OAuthType, NoOAuth
<1>5. auth' \in [Auth -> Calls]
  <2>1. auth \in [Auth -> Calls] /\ oauth.cancel \in Auth \cup {None}
    BY Zenon DEF ClientInv, ClientTypes, OAuthType
  <2>. QED
    BY Zenon, <1>2, <2>1, CancelledIs
<1>6. chat' \in ChatType /\ chat'.state = st /\ UNCHANGED <<chat.stream, chat.cancel, chat.group>>
  BY Zenon, <1>1 DEF ClientInv, ClientTypes, ChatType, Screens
<1>7. ClientTypes'
  BY Zenon, <1>2, <1>3, <1>4, <1>5, <1>6 DEF ClientInv, ClientTypes
<1>. QED
  BY Zenon, <1>1, <1>2, <1>3, <1>4, <1>6, <1>7
    DEF ClientInv, PickerOfThisFlow, HeardInv, CrashExplained, ScreenInv

\* A provider list arrives.
LEMMA StepProviders ==
  ASSUME ClientInv, ~crashed, NEW f \in fetches, ProvidersLoaded(f) \/ ProvidersFailed(f)
  PROVE  ClientInv'
<1>0. /\ fetches' \subseteq Nat /\ f \in Nat
      /\ UNCHANGED <<oauth, crashed, registered, regs, inb, auth, stray>>
  BY Zenon DEF ClientInv, ClientTypes, ProvidersLoaded, ProvidersFailed
<1>1. CASE chat' = chat /\ creation' = creation
  BY Zenon, <1>0, <1>1 DEF ClientInv, ClientTypes, PickerOfThisFlow, HeardInv, CrashExplained, ScreenInv
<1>2. CASE ProvidersLoaded(f) /\ Wanted(f)
  <2>1. PICK I \in SUBSET Items :
          creation' = [creation EXCEPT !.listed = TRUE, !.loaded = TRUE, !.from = f, !.items = I]
    <3>1. ProviderItems \in SUBSET Items /\ \A p \in Providers : ModelItems(p) \in SUBSET Items
      BY Zenon DEF ProviderItems, ModelItems, Items
    <3>2. creation.provider # None => creation.provider \in Providers
      BY Zenon DEF ClientInv, ClientTypes, CreationType
    <3>. QED
      BY Zenon, <1>2, <3>1, <3>2 DEF ProvidersLoaded
  <2>2. /\ creation' \in CreationType /\ creation'.from = f
        /\ creation'.flow = creation.flow /\ creation'.name = creation.name
    BY Zenon, <1>0, <2>1 DEF ClientInv, ClientTypes, CreationType
  <2>3. chat' = chat /\ f = creation.flow
    BY Zenon, <1>2 DEF ProvidersLoaded, Wanted
  <2>. QED
    BY Zenon, <1>0, <2>2, <2>3
      DEF ClientInv, ClientTypes, PickerOfThisFlow, HeardInv, CrashExplained, ScreenInv
<1>3. CASE ProvidersFailed(f) /\ Wanted(f)
  <2>1. chat' = [chat EXCEPT !.state = "SelectGroup"] /\ creation' = [NoCreation EXCEPT !.flow = creation.flow]
    BY Zenon, <1>3 DEF ProvidersFailed
  <2>2. creation' \in CreationType /\ creation'.loaded = FALSE
    BY Zenon, <2>1, FreshIs DEF ClientInv, ClientTypes
  <2>3. chat' \in ChatType /\ chat'.state = "SelectGroup" /\ UNCHANGED <<chat.stream, chat.cancel, chat.group>>
    BY Zenon, <2>1 DEF ClientInv, ClientTypes, ChatType, Screens
  <2>4. ClientTypes'
    BY Zenon, <1>0, <2>2, <2>3 DEF ClientInv, ClientTypes
  <2>. QED
    BY Zenon, <1>0, <2>2, <2>3, <2>4 DEF ClientInv, PickerOfThisFlow, HeardInv, CrashExplained, ScreenInv
<1>. QED
  BY Zenon, <1>1, <1>2, <1>3 DEF ProvidersLoaded, ProvidersFailed

\* A registration is answered.
LEMMA StepRegistered ==
  ASSUME ClientInv, ~crashed, NEW r \in regs, GroupRegistered(r)
  PROVE  ClientInv'
<1>1. r.name \in Names /\ r.name # None
  BY Zenon DEF GroupRegistered, ClientInv, ClientTypes
<1>2. PICK s \in Inbound :
        /\ inb[s].st = "free" /\ inb' \in [Inbound -> Calls]
        /\ inb' = [inb EXCEPT ![s] = [st |-> "opening", reads |-> 0]]
  <2>1. ClientTypes /\ OpenInbound
    BY Zenon DEF GroupRegistered, ClientInv
  <2>. QED
    BY Zenon, <2>1, OpenInboundIs
<1>3. /\ chat' = [chat EXCEPT !.group = r.name, !.state = "Connecting"]
      /\ registered' = registered \cup {r.name} /\ regs' = regs \ {r}
      /\ UNCHANGED <<creation, oauth, crashed, fetches, auth>> /\ (stray => stray')
  BY Zenon DEF GroupRegistered, Connected
<1>4. /\ chat' \in ChatType /\ chat'.state = "Connecting" /\ chat'.group # None
      /\ UNCHANGED <<chat.stream, chat.cancel>>
  BY Zenon, <1>1, <1>3 DEF ClientInv, ClientTypes, ChatType, Screens
<1>5. ClientTypes'
  BY Zenon, <1>1, <1>2, <1>3, <1>4 DEF ClientInv, ClientTypes
<1>6. HeardInv'
  BY <1>2, <1>4 DEF ClientInv, ClientTypes, HeardInv
<1>. QED
  BY Zenon, <1>3, <1>4, <1>5, <1>6 DEF ClientInv, PickerOfThisFlow, CrashExplained, ScreenInv

\* A registration fails.
LEMMA StepRegisterFailed ==
  ASSUME ClientInv, ~crashed, NEW r \in regs, RegisterFailed(r)
  PROVE  ClientInv'
<1>1. /\ chat' = [chat EXCEPT !.state = "SelectGroup"] /\ regs' = regs \ {r}
      /\ creation' = [NoCreation EXCEPT !.flow = creation.flow]
      /\ UNCHANGED <<oauth, crashed, registered, fetches, inb, auth>> /\ (stray => stray')
  BY Zenon DEF RegisterFailed, Connected
<1>2. creation' \in CreationType /\ creation'.loaded = FALSE
  BY Zenon, <1>1, FreshIs DEF ClientInv, ClientTypes
<1>3. chat' \in ChatType /\ chat'.state = "SelectGroup" /\ UNCHANGED <<chat.stream, chat.cancel, chat.group>>
  BY Zenon, <1>1 DEF ClientInv, ClientTypes, ChatType, Screens
<1>4. ClientTypes'
  BY Zenon, <1>1, <1>2, <1>3 DEF ClientInv, ClientTypes
<1>. QED
  BY Zenon, <1>1, <1>2, <1>3, <1>4 DEF ClientInv, PickerOfThisFlow, HeardInv, CrashExplained, ScreenInv

\* A conversation's stream is opened, or is not.
LEMMA StepStream ==
  ASSUME ClientInv, ~crashed, NEW s \in Inbound, StreamOpened(s) \/ StreamFailed(s)
  PROVE  ClientInv'
<1>0. /\ inb[s].st = "opening" /\ inb \in [Inbound -> Calls] /\ chat.group # None
      /\ UNCHANGED <<creation, oauth, crashed, registered, fetches, regs, auth>> /\ (stray => stray')
  BY Zenon DEF StreamOpened, StreamFailed, Connected, ClientInv, ClientTypes, HeardInv
<1>1. CASE StreamOpened(s)
  <2>1. PICK f : f = [inb EXCEPT ![s].st = "open"]
    BY Zenon
  <2>2. /\ f \in [Inbound -> Calls] /\ f[s].st = "open"
        /\ \A t \in Inbound : f[t].reads = inb[t].reads /\ (t # s => f[t] = inb[t])
    BY <1>0, <2>1, StateIs
  <2>3. inb' = Reading(f, s)
    BY Zenon, <1>1, <2>1 DEF StreamOpened
  <2>4. /\ inb' \in [Inbound -> Calls] /\ inb'[s].reads = inb[s].reads + 1 /\ inb'[s].st = "open"
    BY <2>2, <2>3, ReadingIs
  <2>5. inb'[s].reads > 0 /\ inb'[s].st # "free"
    BY <1>0, <2>4 DEF Calls
  <2>6. chat' = [chat EXCEPT !.stream = s, !.cancel = s, !.state = "Chatting"]
    BY Zenon, <1>1 DEF StreamOpened
  <2>7. /\ chat' \in ChatType /\ chat'.state = "Chatting" /\ chat'.stream = s /\ chat'.cancel = s
        /\ chat'.group = chat.group
    BY Zenon, <2>6 DEF ClientInv, ClientTypes, ChatType, Screens
  <2>8. ClientTypes'
    BY Zenon, <1>0, <2>4, <2>7 DEF ClientInv, ClientTypes
  <2>9. HeardInv'
    BY Zenon, <1>0, <2>5, <2>7 DEF HeardInv
  <2>. QED
    BY Zenon, <1>0, <2>7, <2>8, <2>9 DEF ClientInv, PickerOfThisFlow, CrashExplained, ScreenInv
<1>2. CASE StreamFailed(s)
  <2>1. inb' = [inb EXCEPT ![s].st = "over"] /\ chat' = [chat EXCEPT !.state = "SelectGroup"]
    BY Zenon, <1>2 DEF StreamFailed
  <2>2. /\ inb' \in [Inbound -> Calls] /\ inb'[s].st = "over"
        /\ \A t \in Inbound : inb'[t].reads = inb[t].reads /\ (t # s => inb'[t] = inb[t])
    BY <1>0, <2>1, StateIs
  <2>3. chat' \in ChatType /\ chat'.state = "SelectGroup" /\ UNCHANGED <<chat.stream, chat.cancel, chat.group>>
    BY Zenon, <2>1 DEF ClientInv, ClientTypes, ChatType, Screens
  <2>4. ClientTypes'
    BY Zenon, <1>0, <2>2, <2>3 DEF ClientInv, ClientTypes
  <2>5. HeardInv'
    BY Zenon, <1>0, <2>2, <2>3 DEF ClientInv, ClientTypes, ChatType, HeardInv
  <2>. QED
    BY Zenon, <1>0, <2>3, <2>4, <2>5 DEF ClientInv, PickerOfThisFlow, CrashExplained, ScreenInv
<1>. QED
  BY Zenon, <1>1, <1>2

\* A read of a conversation's stream returns.
LEMMA StepOutput ==
  ASSUME ClientInv, ~crashed, NEW s \in Inbound, ChannelOutput(s) \/ ChannelClosed(s)
  PROVE  ClientInv'
<1>0. /\ inb[s].reads > 0 /\ inb \in [Inbound -> Calls] /\ chat.stream \in Inbound \cup {None}
      /\ chat.group # None
      /\ UNCHANGED <<creation, oauth, crashed, registered, fetches, regs, auth, stray>>
  BY Zenon DEF ChannelOutput, ChannelClosed, ClientInv, ClientTypes, ChatType, HeardInv
<1>1. PICK f : f = ReadDone(inb, s)
  BY Zenon
<1>2. /\ f \in [Inbound -> Calls] /\ f[s].reads = inb[s].reads - 1
      /\ \A t \in Inbound : f[t].st = inb[t].st /\ (t # s => f[t] = inb[t])
  BY <1>0, <1>1, ReadDoneIs
<1>3. CASE ChannelOutput(s)
  <2>1. /\ chat' \in ChatType /\ chat'.state = chat.state
        /\ UNCHANGED <<chat.stream, chat.cancel, chat.group>>
    BY Zenon, <1>3 DEF ChannelOutput, ClientInv, ClientTypes, ChatType
  <2>2. inb' = Rearmed(f)
    BY Zenon, <1>1, <1>3 DEF ChannelOutput
  <2>3. /\ inb' \in [Inbound -> Calls] /\ \A t \in Inbound : inb'[t].st = inb[t].st
        /\ chat.stream # None => inb'[chat.stream].reads > 0
    <3>1. CASE chat.stream = None
      BY Zenon, <1>2, <2>2, <3>1 DEF Rearmed
    <3>2. CASE chat.stream # None
      <4>1. chat.stream \in Inbound /\ inb' = Reading(f, chat.stream)
        BY Zenon, <1>0, <2>2, <3>2 DEF Rearmed
      <4>2. /\ inb' \in [Inbound -> Calls] /\ inb'[chat.stream].reads = f[chat.stream].reads + 1
            /\ \A t \in Inbound : inb'[t].st = f[t].st
        BY <1>2, <4>1, ReadingIs
      <4>. QED
        BY <1>2, <4>1, <4>2 DEF Calls
    <3>. QED
      BY Zenon, <3>1, <3>2
  <2>4. ClientTypes'
    BY Zenon, <1>0, <2>1, <2>3 DEF ClientInv, ClientTypes
  <2>5. HeardInv'
    BY Zenon, <1>0, <2>1, <2>3 DEF ClientInv, ClientTypes, ChatType, HeardInv
  <2>. QED
    BY Zenon, <1>0, <2>1, <2>4, <2>5 DEF ClientInv, PickerOfThisFlow, CrashExplained, ScreenInv
<1>4. CASE ChannelClosed(s)
  <2>1. inb' = [f EXCEPT ![s].st = "over"] /\ chat' = [chat EXCEPT !.stream = None]
    BY Zenon, <1>1, <1>4 DEF ChannelClosed
  <2>2. /\ inb' \in [Inbound -> Calls] /\ inb'[s].st = "over"
        /\ \A t \in Inbound : t # s => inb'[t] = inb[t]
    BY <1>2, <2>1, StateIs
  <2>3. /\ chat' \in ChatType /\ chat'.state = chat.state /\ chat'.stream = None
        /\ UNCHANGED <<chat.cancel, chat.group>>
    BY Zenon, <2>1 DEF ClientInv, ClientTypes, ChatType
  <2>4. ClientTypes'
    BY Zenon, <1>0, <2>2, <2>3 DEF ClientInv, ClientTypes
  <2>5. HeardInv'
    BY Zenon, <1>0, <2>2, <2>3 DEF ClientInv, ClientTypes, ChatType, HeardInv
  <2>. QED
    BY Zenon, <1>0, <2>3, <2>4, <2>5 DEF ClientInv, PickerOfThisFlow, CrashExplained, ScreenInv
<1>. QED
  BY Zenon, <1>3, <1>4

\* The call that begins a sign-in returns.
LEMMA StepAuthStarted ==
  ASSUME ClientInv, ~crashed, NEW s \in Auth, AuthStarted(s)
  PROVE  ClientInv'
<1>0. /\ auth \in [Auth -> Calls] /\ s # None
      /\ UNCHANGED <<chat, creation, crashed, registered, fetches, regs, inb>> /\ (stray => stray')
  BY Zenon, ClientAssumption DEF AuthStarted, Signing, ClientInv, ClientTypes
<1>1. CASE /\ auth' = Reading([auth EXCEPT ![s].st = "open"], s)
           /\ oauth' = [oauth EXCEPT !.stream = s, !.cancel = s]
  <2>1. PICK f : f = [auth EXCEPT ![s].st = "open"]
    BY Zenon
  <2>2. f \in [Auth -> Calls]
    BY <1>0, <2>1, StateIs
  <2>3. auth' \in [Auth -> Calls]
    BY Zenon, <1>1, <2>1, <2>2, ReadingIs
  <2>4. oauth' \in OAuthType /\ oauth'.stream = s /\ oauth'.pending = oauth.pending
    BY Zenon, <1>1 DEF ClientInv, ClientTypes, OAuthType
  <2>5. ClientTypes'
    BY Zenon, <1>0, <2>3, <2>4 DEF ClientInv, ClientTypes
  <2>. QED
    BY Zenon, <1>0, <2>4, <2>5 DEF ClientInv, PickerOfThisFlow, HeardInv, CrashExplained, ScreenInv
<1>2. CASE auth' = [auth EXCEPT ![s].st = "over"] /\ oauth' = oauth
  <2>1. auth' \in [Auth -> Calls] /\ \A t \in Auth : auth'[t].reads = auth[t].reads
    BY Zenon, <1>0, <1>2 DEF Calls
  <2>2. ClientTypes'
    BY Zenon, <1>0, <1>2, <2>1 DEF ClientInv, ClientTypes
  <2>3. oauth.own # None => oauth.own \in Auth
    BY Zenon DEF ClientInv, ClientTypes, OAuthType
  <2>. QED
    BY Zenon, <1>0, <1>2, <2>1, <2>2, <2>3
      DEF ClientInv, PickerOfThisFlow, HeardInv, CrashExplained, ScreenInv
<1>. QED
  BY Zenon, <1>1, <1>2 DEF AuthStarted

\* A sign-in goes on, from the stream that the state holds; without one the program panics,
\* and then the result was not of the sign-in on the screen.
LEMMA StepAuthProgress ==
  ASSUME ClientInv, ~crashed, NEW s \in Auth, AuthProgress(s)
  PROVE  ClientInv'
<1>0. /\ auth \in [Auth -> Calls] /\ auth[s].reads > 0 /\ (~stray' => ~stray /\ Own(s))
      /\ UNCHANGED <<chat, creation, oauth, registered, fetches, regs, inb>>
  BY Zenon DEF AuthProgress, Signing, ClientInv, ClientTypes
<1>1. CASE oauth.stream = None
  <2>1. crashed' /\ auth' = auth
    BY Zenon, <1>1 DEF AuthProgress
  <2>2. stray'
    <3>1. SUFFICES ASSUME ~stray'
                   PROVE  FALSE
      BY Zenon
    <3>2. ~stray /\ oauth.own = s
      BY Zenon, <1>0, <3>1 DEF Own
    <3>3. s # None
      BY Zenon, ClientAssumption
    <3>. QED
      BY Zenon, <1>0, <1>1, <3>2, <3>3 DEF ClientInv, ScreenInv
  <2>. QED
    BY Zenon, <1>0, <2>1, <2>2 DEF ClientInv, ClientTypes, PickerOfThisFlow, HeardInv, CrashExplained
<1>2. CASE oauth.stream # None
  <2>1. PICK f : f = ReadDone(auth, s)
    BY Zenon
  <2>2. auth' = Reading(f, oauth.stream) /\ UNCHANGED crashed
    BY Zenon, <1>2, <2>1 DEF AuthProgress
  <2>3. f \in [Auth -> Calls]
    BY Zenon, <1>0, <2>1, ReadDoneIs
  <2>4. oauth.stream \in Auth
    BY Zenon, <1>2 DEF ClientInv, ClientTypes, OAuthType
  <2>5. auth' \in [Auth -> Calls]
    BY Zenon, <2>2, <2>3, <2>4, ReadingIs
  <2>6. ClientTypes'
    BY Zenon, <1>0, <2>5 DEF ClientInv, ClientTypes
  <2>. QED
    BY Zenon, <1>0, <1>2, <2>2, <2>6 DEF ClientInv, PickerOfThisFlow, HeardInv, CrashExplained, ScreenInv
<1>. QED
  BY Zenon, <1>1, <1>2

\* A sign-in ends.
LEMMA AuthOver ==
  ASSUME ClientInv, NEW s \in Auth, auth[s].reads > 0,
         auth' = Cancelled([ReadDone(auth, s) EXCEPT ![s].st = "over"], oauth.cancel)
  PROVE  auth' \in [Auth -> Calls] /\ \A t \in Auth : auth'[t].reads <= auth[t].reads
<1>0. auth \in [Auth -> Calls] /\ oauth.cancel \in Auth \cup {None}
  BY Zenon DEF ClientInv, ClientTypes, OAuthType
<1>1. PICK f : f = ReadDone(auth, s)
  BY Zenon
<1>2. /\ f \in [Auth -> Calls] /\ f[s].reads = auth[s].reads - 1
      /\ \A t \in Auth : t # s => f[t] = auth[t]
  BY <1>0, <1>1, ReadDoneIs
<1>3. PICK h : h = [f EXCEPT ![s].st = "over"]
  BY Zenon
<1>4. h \in [Auth -> Calls] /\ \A t \in Auth : h[t].reads = f[t].reads
  BY Zenon, <1>2, <1>3 DEF Calls
<1>5. auth' = Cancelled(h, oauth.cancel)
  BY Zenon, <1>1, <1>3
<1>6. auth' \in [Auth -> Calls] /\ \A t \in Auth : auth'[t].reads = h[t].reads
  <2>1. PICK c \in Auth \cup {None} : c = oauth.cancel
    BY Zenon, <1>0
  <2>2. /\ Cancelled(h, c) \in [Auth -> Calls]
        /\ \A t \in Auth : Cancelled(h, c)[t].reads = h[t].reads
    BY <1>4, CancelledIs
  <2>. QED
    BY Zenon, <1>5, <2>1, <2>2
<1>7. \A t \in Auth : f[t].reads <= auth[t].reads
  BY <1>0, <1>2 DEF Calls
<1>. QED
  BY Zenon, <1>4, <1>6, <1>7

\* It fails, and the screen stays.
LEMMA StepAuthError ==
  ASSUME ClientInv, ~crashed, NEW s \in Auth, AuthError(s)
  PROVE  ClientInv'
<1>0. UNCHANGED <<chat, creation, oauth, crashed, registered, fetches, regs, inb>> /\ (stray => stray')
  BY Zenon DEF AuthError, Signing, client
<1>1. auth' \in [Auth -> Calls] /\ \A t \in Auth : auth'[t].reads <= auth[t].reads
  BY Zenon, AuthOver DEF AuthError
<1>2. ClientTypes'
  BY Zenon, <1>0, <1>1 DEF ClientInv, ClientTypes
<1>3. ASSUME oauth.own # None, auth'[oauth.own].reads > 0
      PROVE  auth[oauth.own].reads > 0
  <2>1. oauth.own \in Auth /\ auth \in [Auth -> Calls]
    BY Zenon, <1>3 DEF ClientInv, ClientTypes, OAuthType
  <2>2. auth[oauth.own].reads \in Nat /\ auth'[oauth.own].reads \in Nat
    BY Zenon, <1>1, <2>1 DEF Calls
  <2>. QED
    BY <1>1, <1>3, <2>1, <2>2
<1>. QED
  BY Zenon, <1>0, <1>2, <1>3 DEF ClientInv, PickerOfThisFlow, HeardInv, CrashExplained, ScreenInv

\* It succeeds: a creation goes on, or the conversation.
LEMMA StepAuthSuccess ==
  ASSUME ClientInv, ~crashed, NEW s \in Auth, AuthSuccess(s)
  PROVE  ClientInv'
<1>0. /\ oauth' = NoOAuth /\ UNCHANGED <<crashed, registered, regs, inb>>
      /\ ~stray' => ~stray /\ chat.state = "OAuth"
  BY Zenon DEF AuthSuccess, Signing, Own
<1>1. auth' \in [Auth -> Calls]
  BY Zenon, AuthOver DEF AuthSuccess
<1>2. oauth' \in OAuthType /\ oauth'.own = None
  BY Zenon, <1>0 DEF OAuthType, NoOAuth
<1>3. CASE oauth.pending # None
  <2>1. /\ chat' = [chat EXCEPT !.state = "SelectModel"] /\ fetches' = fetches \cup {creation.flow}
        /\ creation' = [creation EXCEPT !.loaded = FALSE, !.items = {}]
    BY Zenon, <1>3 DEF AuthSuccess, AskProviders
  <2>2. chat' \in ChatType /\ chat'.state = "SelectModel" /\ UNCHANGED <<chat.stream, chat.cancel, chat.group>>
    BY Zenon, <2>1 DEF ClientInv, ClientTypes, ChatType, Screens
  <2>3. creation' \in CreationType /\ creation'.loaded = FALSE /\ creation'.name = creation.name
    BY Zenon, <2>1 DEF ClientInv, ClientTypes, CreationType
  <2>4. fetches' \subseteq Nat
    BY Zenon, <2>1 DEF ClientInv, ClientTypes, CreationType
  <2>5. ClientTypes'
    BY Zenon, <1>0, <1>1, <1>2, <2>2, <2>3, <2>4 DEF ClientInv, ClientTypes
  <2>. QED
    BY Zenon, <1>0, <1>2, <1>3, <2>2, <2>3, <2>5
       DEF ClientInv, PickerOfThisFlow, HeardInv, CrashExplained, ScreenInv
<1>4. CASE oauth.pending = None
  <2>1. chat' = [chat EXCEPT !.state = "Chatting"] /\ UNCHANGED <<creation, fetches>>
    BY Zenon, <1>4 DEF AuthSuccess
  <2>2. chat' \in ChatType /\ chat'.state = "Chatting" /\ UNCHANGED <<chat.stream, chat.cancel, chat.group>>
    BY Zenon, <2>1 DEF ClientInv, ClientTypes, ChatType, Screens
  <2>5. ClientTypes'
    BY Zenon, <1>0, <1>1, <1>2, <2>1, <2>2 DEF ClientInv, ClientTypes
  <2>. QED
    BY Zenon, <1>0, <1>2, <1>4, <2>1, <2>2, <2>5
       DEF ClientInv, PickerOfThisFlow, HeardInv, CrashExplained, ScreenInv
<1>. QED
  BY Zenon, <1>3, <1>4

\* Every step of the Messages tab keeps the invariant.
LEMMA ClientStep ==
  ASSUME ClientInv, [Next]_vars
  PROVE  ClientInv'
<1>1. CASE UNCHANGED vars
  BY Zenon, <1>1 DEF vars, client, ClientInv, ClientTypes, PickerOfThisFlow, HeardInv, CrashExplained,
              ScreenInv
<1>2. ASSUME Next
      PROVE  ClientInv'
  <2>0. ~crashed
    BY Zenon, <1>2 DEF Next
  <2>1. CASE Esc
    BY Zenon, <2>0, <2>1, StepKeys, StepChatEsc, StepOAuthEsc DEF Esc
  <2>2. CASE Keys
    BY Zenon, <2>0, <2>2, StepKeys, StepSelect, StepReauth, StepName, StepProvider, StepModel DEF Keys
  <2>3. CASE View
    BY Zenon, <2>0, <2>3, StepReauth
  <2>4. CASE Results
    BY Zenon, <2>0, <2>4, StepKeys, StepProviders, StepRegistered, StepRegisterFailed, StepStream,
       StepOutput, StepAuthStarted, StepAuthProgress, StepAuthSuccess, StepAuthError DEF Results
  <2>. QED
    BY Zenon, <1>2, <2>1, <2>2, <2>3, <2>4 DEF Next
<1>. QED
  BY Zenon, <1>1, <1>2

\* What the three theorems on the Messages tab read off.
LEMMA ClientInvariant == Spec => []ClientInv
<1>. QED
  BY ClientStart, ClientStep, PTL DEF Spec

\* The list that Enter acts on in the provider picker was asked for by the flow on the
\* screen, whichever provider lists of flows the user has left arrive and when:
\* the handler of providersLoadedMsg drops a list of another flow.
THEOREM PickerTheorem == Spec => []PickerOfThisFlow
<1>1. ClientInv => PickerOfThisFlow
  BY Zenon DEF ClientInv
<1>. QED
  BY <1>1, ClientInvariant, PTL

\* A conversation that has a stream has a read outstanding on it, in any order of streams
\* opened, failed, closed and left: streamOpenedMsg starts the read of the stream it
\* attaches, and channelOutputMsg the next one.
THEOREM HeardTheorem == Spec => []ConversationHeard
<1>1. ClientInv => ConversationHeard
  BY Zenon DEF ClientInv, HeardInv, ConversationHeard
<1>. QED
  BY <1>1, ClientInvariant, PTL

\* The Messages tab indexes and dereferences what is there, unless a shorter group list has
\* left the cursor behind or a late result was applied to another screen than its own.
THEOREM CrashTheorem == Spec => []CrashExplained
<1>1. ClientInv => CrashExplained
  BY Zenon DEF ClientInv
<1>. QED
  BY <1>1, ClientInvariant, PTL

-----------------------------------------------------------------------------
(* The other tabs. *)

DashTypes ==
  /\ rows \in [Counted -> Nat] /\ cursor \in [Counted \cup {"tasks"} -> Nat]
  /\ tasks \in Seq(Range(Folders)) /\ detail \in BOOLEAN
  /\ feed \in Feeds \cup {Nil}
  /\ conn \in [Feeds -> [st : {"unused", "opening", "open"}, reads : Nat]]

\* One stream at a time, as long as no second one was opened: it is being opened, or
\* attached and read once.
OneFeed ==
  /\ \A s, t \in Feeds : ~Spare(s) /\ ~Spare(t) => s = t
  /\ \A s \in Feeds : conn[s].reads > 0 => feed = s /\ conn[s].reads = 1
  /\ \A s \in Feeds : feed = s => conn[s].st = "open"

DashInv == DashTypes /\ CursorsInRange /\ FeedPanicExplained /\ (~twice => OneFeed)

\* The number of tasks that are shown is a number.
LEMMA MatchingSize ==
  ASSUME NEW list \in Seq(Range(Folders)), NEW f
  PROVE  Cardinality(Matching(list, f)) \in Nat
<1>1. IsFiniteSet(1..Len(list))
  BY FS_Interval
<1>2. Matching(list, f) \subseteq 1..Len(list)
  BY Zenon DEF Matching
<1>. QED
  BY Zenon, <1>1, <1>2, FS_Subset, FS_CardinalityType

\* No folder has tasks only when there are none.
LEMMA NoTasks ==
  ASSUME DashTypes, WithTasks = {}
  PROVE  \A f : Cardinality(Matching(tasks, f)) = 0
<1>1. \A i \in 1..Len(tasks) : tasks[i] \in Range(tasks) /\ tasks[i] \in Range(Folders)
  BY DEF DashTypes, Range
<1>2. \A x \in Range(Folders) : \E j \in 1..Len(Folders) : Folders[j] = x
  BY DashAssumption DEF Range
<1>3. 1..Len(tasks) = {}
  BY Zenon, <1>1, <1>2 DEF WithTasks
<1>4. \A f : Matching(tasks, f) = {}
  BY Zenon, <1>3 DEF Matching
<1>. QED
  BY Zenon, <1>4, FS_EmptySet

\* A fetched list of tasks is a list of folders.
LEMMA FetchedType ==
  ASSUME NEW list \in FetchedTasks
  PROVE  list \in Seq(Range(Folders))
<1>1. PICK n \in 0..MaxRows : list \in [1..n -> Range(Folders)]
  BY Zenon DEF FetchedTasks
<1>. QED
  BY <1>1, DashAssumption

\* The other tabs start with empty lists and one feed that is being opened.
LEMMA DashStart == DashInit => DashInv
<1>. SUFFICES ASSUME DashInit
              PROVE  DashInv
  BY Zenon
<1>1. PICK c \in Feeds : c = CHOOSE s \in Feeds : TRUE
  BY Zenon, DashAssumption
<1>2. /\ conn = [[s \in Feeds |-> Unused] EXCEPT ![c].st = "opening"]
      /\ feed = Nil /\ Nil \notin Feeds
  BY Zenon, <1>1, DashAssumption DEF DashInit
<1>3. /\ conn \in [Feeds -> [st : {"unused", "opening", "open"}, reads : Nat]]
      /\ \A s \in Feeds : conn[s].reads = 0 /\ (s # c => conn[s].st = "unused")
  BY Zenon, <1>2 DEF Unused
<1>4. DashTypes
  <2>0. \A S : <<>> \in Seq(S)
    OBVIOUS
  <2>1. tasks \in Seq(Range(Folders)) /\ detail \in BOOLEAN /\ feed \in Feeds \cup {Nil}
    BY Zenon, <1>2, <2>0 DEF DashInit
  <2>2. rows \in [Counted -> Nat] /\ cursor \in [Counted \cup {"tasks"} -> Nat]
    BY Zenon DEF DashInit
  <2>. QED
    BY Zenon, <1>3, <2>1, <2>2 DEF DashTypes
<1>5. OneFeed
  BY <1>2, <1>3 DEF OneFeed, Spare
<1>6. CursorsInRange /\ FeedPanicExplained
  BY Zenon DEF DashInit, CursorsInRange, FeedPanicExplained, Counted
<1>. QED
  BY Zenon, <1>4, <1>5, <1>6 DEF DashInv

\* Keys and fetched lists keep the cursors in range.
LEMMA ListStep ==
  ASSUME DashInv,
         \/ \E l \in Counted \cup {"tasks"} : MoveCursor(l)
         \/ \E n \in FetchedSandboxes : SandboxesMsg(n)
         \/ \E n \in FetchedGroups : GroupRowsMsg(n)
         \/ \E list \in FetchedTasks : TasksMsg(list)
         \/ CycleTaskFilter \/ SandboxDetail
  PROVE  DashInv'
<1>0. /\ DashTypes /\ CursorsInRange /\ MaxRows \in Nat
      /\ Cardinality(Matching(tasks, filter)) \in Nat
  BY Zenon, MatchingSize, DashAssumption DEF DashInv, DashTypes
<1>1. SUFFICES UNCHANGED events /\ DashTypes' /\ CursorsInRange'
  BY Zenon DEF DashInv, events, FeedPanicExplained, OneFeed, Spare
<1>2. ASSUME NEW l \in Counted \cup {"tasks"}, MoveCursor(l)
      PROVE  UNCHANGED events /\ DashTypes' /\ CursorsInRange'
  <2>1. PICK n \in Nat : n = Size(l)
    BY Zenon, <1>0 DEF Size, FilteredTasks, DashTypes
  <2>2. PICK k \in Nat : cursor' = [cursor EXCEPT ![l] = k] /\ (k = 0 \/ k < n)
    <3>1. cursor[l] \in Nat /\ (cursor[l] = 0 \/ cursor[l] < n)
      BY Zenon, <1>0, <2>1 DEF DashTypes, CursorsInRange
    <3>2. \A i \in Nat : ClampCursor(i, n) \in Nat /\ (ClampCursor(i, n) = 0 \/ ClampCursor(i, n) < n)
      BY DEF ClampCursor
    <3>3. CASE cursor' = [cursor EXCEPT ![l] = ClampCursor(@ + 1, Size(l))]
      <4>1. PICK k \in Nat : k = ClampCursor(cursor[l] + 1, n)
        BY <3>1, <3>2
      <4>2. k = 0 \/ k < n
        BY <3>1, <3>2, <4>1
      <4>. QED
        BY Zenon, <2>1, <3>3, <4>1, <4>2
    <3>4. CASE cursor' = [cursor EXCEPT ![l] = IF @ = 0 THEN 0 ELSE ClampCursor(@ - 1, Size(l))]
      <4>1. PICK k \in Nat : k = IF cursor[l] = 0 THEN 0 ELSE ClampCursor(cursor[l] - 1, n)
        BY <3>1, <3>2
      <4>2. k = 0 \/ k < n
        BY <3>1, <3>2, <4>1
      <4>. QED
        BY Zenon, <2>1, <3>4, <4>1, <4>2
    <3>. QED
      BY Zenon, <1>2, <3>3, <3>4 DEF MoveCursor
  <2>3. UNCHANGED <<rows, tasks, filter, detail, events>>
    BY Zenon, <1>2 DEF MoveCursor
  <2>4. DashTypes'
    BY Zenon, <1>0, <2>2, <2>3 DEF DashTypes, events
  <2>5. CursorsInRange'
    <3>1. \A m \in Counted \cup {"tasks"} : Size(m)' = Size(m)
      BY Zenon, <2>3 DEF Size, FilteredTasks
    <3>2. \A m \in Counted \cup {"tasks"} : cursor'[m] = IF m = l THEN k ELSE cursor[m]
      BY Zenon, <1>0, <2>2 DEF DashTypes
    <3>3. detail' => cursor'["sandboxes"] < rows'["sandboxes"]
      BY <1>0, <2>1, <2>2, <2>3, <3>2 DEF CursorsInRange, Size, Counted, DashTypes
    <3>. QED
      BY Zenon, <1>0, <2>1, <2>2, <3>1, <3>2, <3>3 DEF CursorsInRange
  <2>. QED
    BY Zenon, <2>3, <2>4, <2>5
<1>3. ASSUME NEW n \in FetchedSandboxes, SandboxesMsg(n)
      PROVE  UNCHANGED events /\ DashTypes' /\ CursorsInRange'
  <2>1. PICK k \in Nat : k = Kept(cursor["sandboxes"], n)
    BY Zenon, <1>0 DEF DashTypes, Kept, Counted
  <2>2. n \in Nat /\ (k = 0 \/ k < n) /\ (cursor["sandboxes"] < n => k < n)
    BY <1>0, <2>1 DEF FetchedSandboxes, DashTypes, Kept, Counted
  <2>3. /\ rows' = [rows EXCEPT !["sandboxes"] = n] /\ cursor' = [cursor EXCEPT !["sandboxes"] = k]
        /\ detail' \in BOOLEAN /\ (detail' => cursor["sandboxes"] < n)
        /\ UNCHANGED <<tasks, filter, events>>
    BY Zenon, <1>3, <2>1 DEF SandboxesMsg
  <2>4. DashTypes'
    BY Zenon, <1>0, <2>2, <2>3 DEF DashTypes, events
  <2>5. rows'["sandboxes"] = n /\ cursor'["sandboxes"] = k
    BY Zenon, <1>0, <2>3 DEF DashTypes, Counted
  <2>6. ASSUME NEW l \in Counted \cup {"tasks"}, l # "sandboxes"
        PROVE  cursor'[l] = cursor[l] /\ Size(l)' = Size(l)
    BY Zenon, <1>0, <2>3, <2>6 DEF DashTypes, Size, FilteredTasks, Counted
  <2>7. CursorsInRange'
    BY Zenon, <1>0, <2>2, <2>3, <2>5, <2>6 DEF CursorsInRange, Size
  <2>. QED
    BY Zenon, <2>3, <2>4, <2>7
<1>4. ASSUME NEW n \in FetchedGroups, GroupRowsMsg(n)
      PROVE  UNCHANGED events /\ DashTypes' /\ CursorsInRange'
  BY <1>0, <1>4 DEF GroupRowsMsg, FetchedGroups, DashTypes, CursorsInRange, Kept, Size, Counted,
                    FilteredTasks, events
<1>5. ASSUME NEW list \in FetchedTasks, TasksMsg(list)
      PROVE  UNCHANGED events /\ DashTypes' /\ CursorsInRange'
  <2>1. PICK n \in Nat : n = Cardinality(Matching(list, filter))
    BY Zenon, FetchedType, MatchingSize
  <2>2. list \in Seq(Range(Folders))
    BY Zenon, FetchedType
  <2>. QED
    BY <1>0, <1>5, <2>1, <2>2
       DEF TasksMsg, DashTypes, CursorsInRange, Kept, Size, Counted, FilteredTasks, events
<1>6. ASSUME CycleTaskFilter
      PROVE  UNCHANGED events /\ DashTypes' /\ CursorsInRange'
  <2>1. CASE WithTasks = {}
    <3>1. Cardinality(Matching(tasks, filter)) = 0 /\ Cardinality(Matching(tasks, filter')) = 0
      BY Zenon, <1>0, <2>1, NoTasks
    <3>. QED
      BY Zenon, <1>0, <1>6, <2>1, <3>1
         DEF CycleTaskFilter, DashTypes, CursorsInRange, Size, Counted, FilteredTasks, events
  <2>2. CASE WithTasks # {}
    BY <1>0, <1>6, <2>2
       DEF CycleTaskFilter, DashTypes, CursorsInRange, Size, Counted, FilteredTasks, events
  <2>. QED
    BY Zenon, <2>1, <2>2
<1>7. ASSUME SandboxDetail
      PROVE  UNCHANGED events /\ DashTypes' /\ CursorsInRange'
  BY Zenon, <1>0, <1>7 DEF SandboxDetail, DashTypes, CursorsInRange, Size, Counted, FilteredTasks, events
<1>. QED
  BY Zenon, <1>2, <1>3, <1>4, <1>5, <1>6, <1>7

\* As long as no second stream was opened, the stream that is read is the attached one.
LEMMA FeedStep ==
  ASSUME DashInv, ~panicked, NEW s \in Feeds,
         Tick(s) \/ EventStreamOpened(s) \/ EventReceived(s) \/ EventError(s)
  PROVE  DashInv'
<1>. DEFINE Conns == [st : {"unused", "opening", "open"}, reads : Nat]
<1>0. /\ DashTypes /\ CursorsInRange /\ Nil \notin Feeds /\ (~twice => OneFeed)
      /\ feed \in Feeds \cup {Nil} /\ conn \in [Feeds -> Conns]
  BY Zenon, DashAssumption DEF DashInv, DashTypes
<1>1. UNCHANGED lists
  BY Zenon DEF Tick, EventStreamOpened, EventReceived, EventError
<1>2. CursorsInRange'
  BY Zenon, <1>0, <1>1 DEF CursorsInRange, lists, Size, FilteredTasks, Matching
<1>3. SUFFICES /\ feed' \in Feeds \cup {Nil} /\ conn' \in [Feeds -> Conns]
               /\ FeedPanicExplained' /\ (~twice' => OneFeed')
  BY Zenon, <1>0, <1>1, <1>2 DEF DashInv, DashTypes, lists
<1>4. CASE Tick(s)
  <2>1. /\ conn' = [conn EXCEPT ![s] = [st |-> "opening", reads |-> 0]] /\ feed' = feed /\ feed = Nil
        /\ twice' = (twice \/ \E t \in Feeds : ~Spare(t)) /\ panicked' = panicked
    BY Zenon, <1>4 DEF Tick
  <2>2. /\ conn' \in [Feeds -> Conns] /\ conn'[s].reads = 0
        /\ \A t \in Feeds : t # s => conn'[t] = conn[t]
    BY Zenon, <1>0, <2>1
  <2>3. ~twice' => \A t \in Feeds : conn[t].st # "opening" /\ conn[t].reads = 0
    BY Zenon, <2>1 DEF Spare
  <2>4. ~twice' => OneFeed'
    BY <1>0, <2>1, <2>2, <2>3 DEF OneFeed, Spare
  <2>. QED
    BY Zenon, <1>0, <2>1, <2>2, <2>4 DEF FeedPanicExplained
<1>5. CASE EventStreamOpened(s)
  <2>1. UNCHANGED <<twice, panicked>> /\ conn[s].st = "opening"
    BY Zenon, <1>5 DEF EventStreamOpened
  <2>2. ~twice => \A t \in Feeds : t # s => conn[t].st # "opening" /\ conn[t].reads = 0
    BY Zenon, <1>0, <2>1 DEF OneFeed, Spare
  <2>3. CASE conn' = [conn EXCEPT ![s] = [st |-> "open", reads |-> 1]] /\ feed' = s
    <3>1. /\ conn' \in [Feeds -> Conns] /\ conn'[s].reads = 1 /\ conn'[s].st = "open"
          /\ \A t \in Feeds : t # s => conn'[t] = conn[t]
      BY Zenon, <1>0, <2>3
    <3>2. ~twice' => OneFeed'
      BY <2>1, <2>2, <2>3, <3>1 DEF OneFeed, Spare
    <3>. QED
      BY Zenon, <2>1, <2>3, <3>1, <3>2 DEF FeedPanicExplained
  <2>4. CASE conn' = [conn EXCEPT ![s] = Unused] /\ feed' = Nil
    <3>1. /\ conn' \in [Feeds -> Conns] /\ conn'[s].reads = 0 /\ conn'[s].st = "unused"
          /\ \A t \in Feeds : t # s => conn'[t] = conn[t]
      BY Zenon, <1>0, <2>4 DEF Unused
    <3>2. ~twice' => OneFeed'
      BY <1>0, <2>1, <2>2, <2>4, <3>1 DEF OneFeed, Spare
    <3>. QED
      BY Zenon, <2>1, <2>4, <3>1, <3>2 DEF FeedPanicExplained
  <2>. QED
    BY Zenon, <1>5, <2>3, <2>4 DEF EventStreamOpened
<1>6. CASE EventReceived(s)
  <2>1. conn[s].reads > 0 /\ UNCHANGED <<feed, twice>>
    BY Zenon, <1>6 DEF EventReceived
  <2>2. ~twice => feed = s /\ conn[s].reads = 1
    BY Zenon, <1>0, <2>1 DEF OneFeed
  <2>3. PICK after : after = [conn EXCEPT ![s].reads = @ - 1]
    BY Zenon
  <2>4. /\ after \in [Feeds -> Conns] /\ after[s].reads = conn[s].reads - 1 /\ after[s].st = conn[s].st
        /\ \A t \in Feeds : t # s => after[t] = conn[t]
    <3>1. PICK n \in Nat : n = conn[s].reads - 1
      BY <1>0, <2>1
    <3>2. after = [conn EXCEPT ![s].reads = n]
      BY Zenon, <2>3, <3>1
    <3>. QED
      BY Zenon, <1>0, <3>1, <3>2
  <2>5. CASE feed = Nil
    BY <1>0, <1>6, <2>1, <2>2, <2>3, <2>4, <2>5 DEF EventReceived, FeedPanicExplained
  <2>6. CASE feed # Nil
    <3>1. conn' = [after EXCEPT ![feed].reads = @ + 1] /\ panicked' = panicked /\ feed \in Feeds
      BY Zenon, <1>0, <1>6, <2>3, <2>6 DEF EventReceived
    <3>2. PICK n \in Nat : n = after[feed].reads + 1
      BY <2>4, <3>1
    <3>3. conn' = [after EXCEPT ![feed].reads = n]
      BY Zenon, <3>1, <3>2
    <3>4. /\ conn' \in [Feeds -> Conns] /\ conn'[feed].reads = n /\ conn'[feed].st = after[feed].st
          /\ \A t \in Feeds : t # feed => conn'[t] = after[t]
      BY <2>4, <3>1, <3>3
    <3>5. ~twice => \A t \in Feeds : conn'[t].st = conn[t].st /\ conn'[t].reads = conn[t].reads
      BY <2>2, <2>4, <3>2, <3>4
    <3>6. ~twice' => OneFeed'
      BY Zenon, <1>0, <2>1, <3>5 DEF OneFeed, Spare
    <3>. QED
      BY Zenon, <1>0, <2>1, <3>1, <3>4, <3>6 DEF FeedPanicExplained
  <2>. QED
    BY Zenon, <2>5, <2>6
<1>7. CASE EventError(s)
  <2>1. /\ conn[s].reads > 0 /\ UNCHANGED <<twice, panicked>> /\ feed' = Nil
        /\ conn' = [conn EXCEPT ![s].reads = @ - 1]
    BY Zenon, <1>7 DEF EventError
  <2>2. PICK n \in Nat : n = conn[s].reads - 1
    BY <1>0, <2>1
  <2>3. conn' = [conn EXCEPT ![s].reads = n]
    BY Zenon, <2>1, <2>2
  <2>4. /\ conn' \in [Feeds -> Conns] /\ conn'[s].reads = n /\ conn'[s].st = conn[s].st
        /\ \A t \in Feeds : t # s => conn'[t] = conn[t]
    BY Zenon, <1>0, <2>3
  <2>5. ~twice => n = 0 /\ conn[s].st = "open" /\ feed = s
    BY <1>0, <2>1, <2>2 DEF OneFeed
  <2>6. ~twice => \A t \in Feeds : t # s => conn[t].st # "opening" /\ conn[t].reads = 0
    BY Zenon, <1>0, <2>5 DEF OneFeed, Spare
  <2>7. ~twice' => OneFeed'
    BY <1>0, <2>1, <2>4, <2>5, <2>6 DEF OneFeed, Spare
  <2>. QED
    BY Zenon, <2>1, <2>4, <2>7 DEF FeedPanicExplained
<1>. QED
  BY Zenon, <1>4, <1>5, <1>6, <1>7

\* Every step of the other tabs keeps the invariant.
LEMMA DashStep ==
  ASSUME DashInv, [DashNext]_dash
  PROVE  DashInv'
<1>1. CASE UNCHANGED dash
  <2>1. DashTypes' /\ CursorsInRange'
    BY Zenon, <1>1 DEF dash, lists, events, DashInv, DashTypes, CursorsInRange, Size, FilteredTasks, Matching
  <2>. QED
    BY Zenon, <1>1, <2>1 DEF dash, lists, events, DashInv, FeedPanicExplained, OneFeed, Spare
<1>2. CASE DashNext
  BY Zenon, <1>2, ListStep, FeedStep DEF DashNext
<1>. QED
  BY Zenon, <1>1, <1>2

\* The invariant of the other tabs.
LEMMA DashInvariant == DashSpec => []DashInv
<1>. QED
  BY DashStart, DashStep, PTL DEF DashSpec

\* Every cursor is on a row of its list, or at the top of an empty one, whatever lists
\* arrive and however the filter is turned: each handler brings the cursor back, and
\* cycleTaskFilter leaves it alone only when there are no tasks at all.
THEOREM CursorsTheorem == DashSpec => []CursorsInRange
<1>1. DashInv => CursorsInRange
  BY Zenon DEF DashInv
<1>. QED
  BY <1>1, DashInvariant, PTL

\* The event feed reads from no stream only after a tick has opened a second stream while
\* the first was still being opened.
THEOREM FeedTheorem == DashSpec => []FeedPanicExplained
<1>1. DashInv => FeedPanicExplained
  BY Zenon DEF DashInv
<1>. QED
  BY <1>1, DashInvariant, PTL

=============================================================================
