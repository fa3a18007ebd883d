------------------------ MODULE TwitchService_proofs ------------------------
(***************************************************************************)
(* Proofs about TwitchService, for any accounts, subscriptions and bounds. *)
(* What is said of the session holds until a call of connectToChat is      *)
(* overtaken, which StateMovesAlongEdges says can happen in two ways.      *)
(***************************************************************************)
EXTENDS TwitchService, TLAPS

USE ServiceAssumption DEF None

-----------------------------------------------------------------------------
(***************************************************************************)
(* Types, one part for each group of variables.  A coroutine that has been *)
(* given an EventSub has been given one that existed at the time.          *)
(***************************************************************************)
Busy == {"connecting", "waiting", "subscribing"}
Holding == {"reading", "handling", "handled"}
Users == Accounts \cup {NoAccount}

SessionType ==
    /\ m_state \in States
    /\ m_eventsub \in Conns \cup {None}
    /\ m_config \in Users /\ m_current_user \in Users
FrameType == ui \in {"sync", "auth", "resetting", "chat"} /\ vm_state \in States
LoginType == logged \in 0..MaxLogins /\ logins \in 0..logged
ConnType ==
    /\ conn \in [Conns -> Stage({"unused", "ready", "checked", "connecting",
                                 "waiting", "subscribing", "done"})]
    /\ \A i \in Conns : conn[i].pc \in Busy => conn[i].es \in Conns
ReaderType ==
    /\ reader \in [Conns ->
          [pc : {"unused", "ready", "reading", "handling", "handled", "done"},
           es : Conns \cup {None}, msg : Nat]]
    /\ \A i \in Conns : reader[i].pc \in Holding => reader[i].es \in Conns
StarterType == starter \in [Conns -> Stage({"unused", "ready", "done"})]
SubsType ==
    subs \in [Conns \X SubTypes ->
                 Stage({"unused", "ready", "posted", "done", "failed"})]
Objects == [m_cfg : Users, ws : {"none", "open", "closed"},
            m_callback : BOOLEAN, subscribed : BOOLEAN, wire : Seq(Nat),
            last : Nat]
ObjType == obj \in [Conns -> Objects]
FeedType == pending \in Seq(Conns \X Nat) /\ chat_log \in Seq(Conns \X Nat)
OutboxType == sent \in 0..MaxSends
FateType ==
    /\ dangling \subseteq {"connect", "start", "subscribe", "read"}
    /\ crashed \in BOOLEAN

TypeInv ==
    /\ SessionType /\ FrameType /\ LoginType /\ ConnType
    /\ ReaderType /\ StarterType /\ SubsType /\ ObjType
    /\ FeedType /\ OutboxType /\ FateType

HistoryType == overtaken \in BOOLEAN

\* These are the types of TypeOK, one group of variables at a time.
LEMMA TypeInvIsTypeOK == TypeInv /\ HistoryType => TypeOK
  BY Zenon DEF TypeInv, HistoryType, TypeOK, SessionType, FrameType, LoginType, ConnType,
         ReaderType, StarterType, SubsType, ObjType, Objects, FeedType,
         OutboxType, FateType, Users

\* What a step leaves alone keeps its type.
LEMMA TypeKept ==
    ASSUME TypeInv
    PROVE  /\ UNCHANGED session => SessionType'
           /\ UNCHANGED frame => FrameType'
           /\ UNCHANGED login => LoginType'
           /\ UNCHANGED conn => ConnType'
           /\ UNCHANGED reader => ReaderType'
           /\ UNCHANGED starter => StarterType'
           /\ UNCHANGED subs => SubsType'
           /\ UNCHANGED spawned => ReaderType' /\ StarterType' /\ SubsType'
           /\ UNCHANGED obj => ObjType'
           /\ UNCHANGED feed => FeedType'
           /\ UNCHANGED outbox => OutboxType'
           /\ UNCHANGED fate => FateType'
<1>1. UNCHANGED session => SessionType'
  BY Zenon DEF TypeInv, session, SessionType
<1>2. UNCHANGED frame => FrameType'
  BY Zenon DEF TypeInv, frame, FrameType
<1>3. UNCHANGED login => LoginType'
  BY Zenon DEF TypeInv, login, LoginType
<1>4. UNCHANGED conn => ConnType'
  BY Zenon DEF TypeInv, ConnType
<1>5. UNCHANGED reader => ReaderType'
  BY Zenon DEF TypeInv, ReaderType
<1>6. UNCHANGED starter => StarterType'
  BY Zenon DEF TypeInv, StarterType
<1>7. UNCHANGED subs => SubsType'
  BY Zenon DEF TypeInv, SubsType
<1>8. UNCHANGED spawned => UNCHANGED reader /\ UNCHANGED starter /\ UNCHANGED subs
  BY Zenon DEF spawned
<1>9. UNCHANGED obj => ObjType'
  BY Zenon DEF TypeInv, ObjType
<1>10. UNCHANGED feed => FeedType'
  BY Zenon DEF TypeInv, feed, FeedType
<1>11. UNCHANGED outbox => OutboxType'
  BY Zenon DEF TypeInv, outbox, OutboxType
<1>12. UNCHANGED fate => FateType'
  BY Zenon DEF TypeInv, fate, FateType
<1> QED
  BY <1>1, <1>2, <1>3, <1>4, <1>5, <1>6, <1>7, <1>8, <1>9, <1>10, <1>11, <1>12,
     Zenon

\* Sequences of anything.
LEMMA SeqFacts ==
    ASSUME NEW S
    PROVE  << >> \in Seq(S) /\ \A s, t \in Seq(S) : s \o t \in Seq(S)
  OBVIOUS

\* A message is taken from the front of the queue of a websocket.
LEMMA TailFacts ==
    ASSUME NEW w \in Seq(Nat), w # << >>
    PROVE  /\ Head(w) \in Nat /\ Head(w) = w[1]
           /\ Tail(w) \in Seq(Nat)
           /\ Len(w) \in Nat \ {0} /\ Len(Tail(w)) = Len(w) - 1
           /\ DOMAIN w = 1..Len(w) /\ DOMAIN Tail(w) = 1..(Len(w) - 1)
           /\ \A p \in 1..(Len(w) - 1) : Tail(w)[p] = w[p + 1]
  OBVIOUS

\* An EventSub with one field replaced.
LEMMA ObjectsWith ==
    ASSUME NEW o \in [Conns -> Objects], NEW e \in Conns,
           NEW v \in Seq(Nat), NEW k \in Nat
    PROVE  /\ [o EXCEPT ![e].wire = v] \in [Conns -> Objects]
           /\ [o EXCEPT ![e].last = k] \in [Conns -> Objects]
           /\ [o EXCEPT ![e].wire = v][e].last = o[e].last
<1>1. [o EXCEPT ![e].wire = v] \in [Conns -> Objects]
  BY Zenon DEF Objects
<1>2. [o EXCEPT ![e].last = k] \in [Conns -> Objects]
  BY Zenon DEF Objects
<1>3. [o EXCEPT ![e].wire = v][e].last = o[e].last
  BY Zenon DEF Objects
<1> QED
  BY <1>1, <1>2, <1>3, Zenon

\* An EventSub that has got its callback.
LEMMA CallbackSet ==
    ASSUME NEW o \in [Conns -> Objects], NEW e
    PROVE  [o EXCEPT ![e].m_callback = TRUE] \in [Conns -> Objects]
  BY DEF Objects

\* A read loop with a message in hand.
LEMMA ReadersWith ==
    ASSUME NEW R, NEW f \in [Conns -> [pc : R, es : Conns \cup {None}, msg : Nat]],
           NEW i \in Conns, NEW pc \in R, NEW h \in Nat
    PROVE  [f EXCEPT ![i].pc = pc, ![i].msg = h] \in
               [Conns -> [pc : R, es : Conns \cup {None}, msg : Nat]]
  BY Zenon

\* Before the first frame nothing is logged in, connected or queued.
LEMMA TypeInit == Init => TypeInv
<1> SUFFICES ASSUME Init PROVE TypeInv
  BY Zenon
<1> USE DEF Init
<1>1. SessionType /\ FrameType
  BY Zenon DEF SessionType, FrameType, States, Users
<1>2. LoginType
  BY DEF LoginType
<1>3. ConnType
  BY Zenon DEF ConnType, Stage, Busy
<1>4. ReaderType
  BY Zenon DEF ReaderType, Holding
<1>5. StarterType /\ SubsType
  BY Zenon DEF StarterType, SubsType, Stage
<1>6. ObjType
  BY DEF ObjType, Objects, Users
<1>7. FeedType /\ FateType
  <2>1. pending = << >> /\ chat_log = << >> /\ dangling = {} /\ crashed = FALSE
    BY Zenon
  <2> HIDE DEF Init
  <2> QED
    BY <2>1, SeqFacts, Zenon DEF FeedType, FateType
<1>8. OutboxType
  BY DEF OutboxType
<1> QED
  BY <1>1, <1>2, <1>3, <1>4, <1>5, <1>6, <1>7, <1>8, Zenon DEF TypeInv

\* A null pointer ends the process and changes nothing else.
LEMMA TypeCrash == ASSUME TypeInv, Crash PROVE TypeInv'
<1>1. FateType'
  BY Zenon DEF Crash, TypeInv, FateType
<1> QED
  BY <1>1, TypeKept, Zenon DEF Crash, TypeInv

\* What a use of an EventSub records.
LEMMA TouchType ==
    ASSUME TypeInv, NEW kind \in {"connect", "start", "subscribe", "read"},
           NEW e, Touch(kind, e)
    PROVE  FateType'
  BY Zenon DEF Touch, TypeInv, FateType

\* The end of the login coroutine.
LEMMA TypeLogin == ASSUME TypeInv, LoginEnds PROVE TypeInv'
<1>1. SessionType'
  BY Zenon
  DEF LoginEnds, LoginFails, LoginSucceeds, TypeInv, SessionType, States,
         Users
<1>2. LoginType'
  BY DEF LoginEnds, LoginFails, LoginSucceeds, TypeInv, LoginType
<1> QED
  BY <1>1, <1>2, TypeKept, Zenon
  DEF LoginEnds, LoginFails, LoginSucceeds, TypeInv

\* connectToChat.
LEMMA TypeConnect == ASSUME TypeInv, NEW i \in Conns, Connect(i) PROVE TypeInv'
<1>1. CASE ConnectCheck(i)
  <2>1. ConnType'
    BY <1>1, Zenon DEF ConnectCheck, TypeInv, ConnType, Stage, Busy
  <2> QED
    BY <1>1, <2>1, TypeKept, Zenon DEF ConnectCheck, TypeInv
<1>2. CASE ConnectSetup(i)
  <2>1. ConnType'
    BY <1>2, Zenon DEF ConnectSetup, TypeInv, ConnType, Stage, Busy
  <2>2. SessionType'
    BY <1>2, Zenon DEF ConnectSetup, TypeInv, SessionType, States
  <2>3. ObjType'
    <3>1. obj' = [obj EXCEPT ![i].m_cfg = m_config]
      BY <1>2, Zenon DEF ConnectSetup
    <3>2. ObjType /\ m_config \in Users
      BY Zenon DEF TypeInv, SessionType
    <3> QED
      BY <3>1, <3>2, Zenon DEF ObjType, Objects
  <2> QED
    BY <1>2, <2>1, <2>2, <2>3, TypeKept, Zenon DEF ConnectSetup, TypeInv
<1>3. CASE ConnectOpened(i)
  <2>1. ConnType'
    BY <1>3, Zenon DEF ConnectOpened, TypeInv, ConnType, Stage, Busy
  <2>2. ObjType'
    <3>1. PICK e \in Conns : obj' = [obj EXCEPT ![e].ws = "open"]
      BY <1>3, Zenon DEF ConnectOpened, TypeInv, ConnType, Busy
    <3>2. ObjType
      BY Zenon DEF TypeInv
    <3> QED
      BY <3>1, <3>2, Zenon DEF ObjType, Objects
  <2>3. ReaderType'
    BY <1>3, Zenon DEF ConnectOpened, TypeInv, ReaderType, Holding
  <2>4. StarterType'
    BY <1>3, Zenon DEF ConnectOpened, TypeInv, StarterType, SessionType, Stage
  <2>5. FateType'
    BY <1>3, TouchType, Zenon DEF ConnectOpened
  <2> QED
    BY <1>3, <2>1, <2>2, <2>3, <2>4, <2>5, TypeKept, Zenon
       DEF ConnectOpened, TypeInv
<1>4. CASE ConnectWaited(i)
  <2>1. CASE m_eventsub = None
    BY <1>4, <2>1, TypeCrash, Zenon DEF ConnectWaited
  <2>2. CASE m_eventsub # None
    <3>1. ConnType'
      BY <1>4, <2>2
         DEF ConnectWaited, TypeInv, ConnType, SessionType, Stage, Busy
    <3> QED
      BY <1>4, <2>2, <3>1, TypeKept, Zenon DEF ConnectWaited, TypeInv
  <2> QED
    BY <2>1, <2>2, Zenon
<1>5. CASE ConnectSubscribed(i)
  <2>1. ConnType'
    BY <1>5, Zenon DEF ConnectSubscribed, TypeInv, ConnType, Stage, Busy
  <2>2. SessionType'
    BY <1>5, Zenon DEF ConnectSubscribed, TypeInv, SessionType, States
  <2>3. SubsType'
    BY <1>5, Zenon DEF ConnectSubscribed, TypeInv, SubsType, SessionType, Stage
  <2>4. FateType'
    BY <1>5, TouchType, Zenon DEF ConnectSubscribed
  <2> QED
    BY <1>5, <2>1, <2>2, <2>3, <2>4, TypeKept, Zenon
    DEF ConnectSubscribed, TypeInv
<1>6. CASE ConnectFails(i)
  <2>1. ConnType'
    BY <1>6, Zenon DEF ConnectFails, TypeInv, ConnType, Stage, Busy
  <2>2. SessionType'
    BY <1>6, Zenon DEF ConnectFails, TypeInv, SessionType, States
  <2>3. FateType'
    BY <1>6, TouchType, TypeKept, Zenon DEF ConnectFails
  <2> QED
    BY <1>6, <2>1, <2>2, <2>3, TypeKept, Zenon DEF ConnectFails, TypeInv
<1> QED
  BY <1>1, <1>2, <1>3, <1>4, <1>5, <1>6, Zenon DEF Connect

\* EventSub::start.
LEMMA TypeStart ==
    ASSUME TypeInv, NEW i \in Conns, StartReading(i) PROVE TypeInv'
<1>1. CASE starter[i].es = None
  BY <1>1, TypeCrash, Zenon DEF StartReading
<1>2. CASE starter[i].es # None
  <2>1. StarterType'
    BY <1>2 DEF StartReading, TypeInv, StarterType, Stage
  <2>2. ObjType'
    <3>1. obj' = [obj EXCEPT ![starter[i].es].m_callback = TRUE]
      BY <1>2, Zenon DEF StartReading
    <3>2. obj \in [Conns -> Objects]
      BY Zenon DEF TypeInv, ObjType
    <3> QED
      BY <3>1, <3>2, CallbackSet, Zenon DEF ObjType
  <2>3. FateType'
    BY <1>2, TouchType, Zenon DEF StartReading
  <2> QED
    BY <1>2, <2>1, <2>2, <2>3, TypeKept, Zenon DEF StartReading, TypeInv
<1> QED
  BY <1>1, <1>2, Zenon

\* The detached subscriptions.
LEMMA TypeSubscribe ==
    ASSUME TypeInv, NEW it \in Conns \X SubTypes, SubscribeStep(it)
    PROVE  TypeInv'
<1>1. CASE subs[it].es = None
  BY <1>1, TypeCrash, Zenon DEF SubscribeStep
<1>2. CASE subs[it].es # None
  <2>1. SubsType'
    BY <1>2 DEF SubscribeStep, TypeInv, SubsType, Stage
  <2>2. FateType'
    BY <1>2, TouchType, TypeKept, Zenon DEF SubscribeStep
  <2> QED
    BY <1>2, <2>1, <2>2, TypeKept, Zenon DEF SubscribeStep, TypeInv
<1> QED
  BY <1>1, <1>2, Zenon

\* The read loop.
LEMMA TypeRead == ASSUME TypeInv, NEW i \in Conns, Read(i) PROVE TypeInv'
<1>1. CASE ReadStart(i)
  <2>1. CASE m_eventsub = None
    BY <1>1, <2>1, TypeCrash, Zenon DEF ReadStart
  <2>2. CASE m_eventsub # None
    <3>1. ReaderType'
      BY <1>1, <2>2
         DEF ReadStart, TypeInv, ReaderType, SessionType, Holding, NextRead
    <3> QED
      BY <1>1, <2>2, <3>1, TypeKept, Zenon DEF ReadStart, TypeInv
  <2> QED
    BY <2>1, <2>2, Zenon
<1>2. CASE ReadMessage(i)
  <2> DEFINE e == reader[i].es
  <2>1. e \in Conns /\ obj[e].wire \in Seq(Nat) /\ obj[e].wire # << >>
    BY <1>2, Zenon
    DEF ReadMessage, TypeInv, ReaderType, Holding, ObjType, Objects
  <2>2. Head(obj[e].wire) \in Nat /\ Tail(obj[e].wire) \in Seq(Nat)
    BY <2>1, TailFacts, Zenon
  <2>3. ReaderType'
    <3>1. ASSUME NEW h \in Nat,
                 reader' = [reader EXCEPT ![i].pc = "handling", ![i].msg = h]
          PROVE  ReaderType'
      <4>1. ReaderType
        BY Zenon DEF TypeInv
      <4>2. \A j \in Conns : reader'[j].es = reader[j].es
        BY <3>1, <4>1, Zenon DEF ReaderType
      <4>3. \A j \in Conns \ {i} : reader'[j] = reader[j]
        BY <3>1, <4>1, Zenon DEF ReaderType
      <4>4. reader' \in [Conns ->
               [pc : {"unused", "ready", "reading", "handling", "handled",
                      "done"}, es : Conns \cup {None}, msg : Nat]]
        BY <3>1, <4>1, ReadersWith, Zenon DEF ReaderType
      <4> QED
        BY <2>1, <4>1, <4>2, <4>3, <4>4, Zenon DEF ReaderType
    <3>2. CASE reader' = [reader EXCEPT ![i].pc = NextRead(e)]
      BY <2>1, <3>2 DEF TypeInv, ReaderType, Holding, NextRead
    <3> QED
      BY <1>2, <2>2, <3>1, <3>2, Zenon DEF ReadMessage
  <2>4. ObjType'
    <3>1. obj' = [obj EXCEPT ![e].wire = Tail(obj[e].wire)]
      BY <1>2, Zenon DEF ReadMessage
    <3>2. obj \in [Conns -> Objects]
      BY Zenon DEF TypeInv, ObjType
    <3> HIDE DEF e
    <3> QED
      BY <2>1, <2>2, <3>1, <3>2, ObjectsWith, Zenon DEF ObjType
  <2>5. FateType'
    BY <1>2, TouchType, Zenon DEF ReadMessage
  <2> QED
    BY <1>2, <2>3, <2>4, <2>5, TypeKept, Zenon DEF ReadMessage, TypeInv
<1>3. CASE ReadFails(i)
  <2>1. ReaderType'
    BY <1>3, Zenon DEF ReadFails, TypeInv, ReaderType, Holding
  <2> QED
    BY <1>3, <2>1, TypeKept, Zenon DEF ReadFails, TypeInv
<1>4. CASE HandleMessage(i)
  <2>1. ReaderType'
    BY <1>4, Zenon DEF HandleMessage, TypeInv, ReaderType, Holding
  <2>2. FeedType'
    BY <1>4 DEF HandleMessage, pushChatMessage, TypeInv, ReaderType, Holding,
                FeedType
  <2>3. obj[reader[i].es].m_cfg \in Users
    BY <1>4, Zenon
    DEF HandleMessage, TypeInv, ReaderType, ObjType, Objects, Holding
  <2>4. OutboxType'
    BY <1>4, <2>3, TypeKept DEF HandleMessage, sendMessage, TypeInv, OutboxType
  <2> QED
    BY <1>4, <2>1, <2>2, <2>4, TypeKept, Zenon DEF HandleMessage, TypeInv
<1>5. CASE ReadAgain(i)
  <2>1. ReaderType'
    BY <1>5, Zenon DEF ReadAgain, TypeInv, ReaderType, Holding, NextRead
  <2>2. FateType'
    BY <1>5, TouchType, Zenon DEF ReadAgain
  <2> QED
    BY <1>5, <2>1, <2>2, TypeKept, Zenon DEF ReadAgain, TypeInv
<1> QED
  BY <1>1, <1>2, <1>3, <1>4, <1>5, Zenon DEF Read

\* Twitch's side of a session.
LEMMA TypeServer == ASSUME TypeInv, NEW e \in Conns, Server(e) PROVE TypeInv'
<1>1. ObjType'
  <2>1. CASE ServerSubscribes(e) \/ ServerCloses(e)
    <3>1. \/ obj' = [obj EXCEPT ![e].subscribed = TRUE]
          \/ obj' = [obj EXCEPT ![e].ws = "closed"]
      BY <2>1, Zenon DEF ServerSubscribes, ServerCloses
    <3>2. ObjType
      BY Zenon DEF TypeInv
    <3>3. CASE obj' = [obj EXCEPT ![e].subscribed = TRUE]
      BY <3>2, <3>3, Zenon DEF ObjType, Objects
    <3>4. CASE obj' = [obj EXCEPT ![e].ws = "closed"]
      BY <3>2, <3>4, Zenon DEF ObjType, Objects
    <3> QED
      BY <3>1, <3>3, <3>4, Zenon
  <2>2. CASE ServerSends(e)
    <3>1. /\ obj[e].wire \in Seq(Nat) /\ obj[e].last + 1 \in Nat
          /\ Append(obj[e].wire, 0) \in Seq(Nat)
          /\ Append(obj[e].wire, obj[e].last + 1) \in Seq(Nat)
      BY DEF TypeInv, ObjType, Objects
    <3>2. obj \in [Conns -> Objects]
      BY Zenon DEF TypeInv, ObjType
    <3>3. CASE obj' = [obj EXCEPT ![e].wire = Append(@, 0)]
      BY <3>1, <3>2, <3>3, ObjectsWith, Zenon DEF ObjType
    <3>4. CASE obj' = [obj EXCEPT ![e].wire = Append(@, obj[e].last + 1),
                                  ![e].last = @ + 1]
      <4> DEFINE o == [obj EXCEPT ![e].wire = Append(@, obj[e].last + 1)]
      <4>1. o \in [Conns -> Objects] /\ o[e].last = obj[e].last
        BY <3>1, <3>2, ObjectsWith, Zenon
      <4>2. obj' = [o EXCEPT ![e].last = @ + 1]
        BY <3>4, Zenon
      <4> HIDE DEF o
      <4> QED
        BY <3>1, <4>1, <4>2, ObjectsWith, Zenon DEF ObjType
    <3> QED
      BY <2>2, <3>3, <3>4, Zenon DEF ServerSends
  <2> QED
    BY <2>1, <2>2, Zenon DEF Server
<1>2. UNCHANGED <<session, frame, login, conn, spawned, feed, outbox, fate>>
  BY Zenon DEF Server, ServerSubscribes, ServerSends, ServerCloses
<1> QED
  BY <1>1, <1>2, TypeKept, Zenon DEF TypeInv

\* The coroutine of sendMessage.
LEMMA TypeSend == ASSUME TypeInv, NEW m \in sends, SendStarts(m) PROVE TypeInv'
<1>1. CASE m_eventsub = None
  BY <1>1, TypeCrash, Zenon DEF SendStarts
<1>2. CASE m_eventsub # None
  <2>1. OutboxType'
    BY <1>2, Zenon DEF SendStarts, TypeInv, OutboxType
  <2> QED
    BY <1>2, <2>1, TypeKept, Zenon DEF SendStarts, TypeInv
<1> QED
  BY <1>1, <1>2, Zenon

\* The frames of the UI.
LEMMA TypeFrame == ASSUME TypeInv, Frame PROVE TypeInv'
<1>1. CASE SyncFrom \/ NoClick
  <2>1. FrameType'
    BY <1>1, Zenon DEF SyncFrom, NoClick, TypeInv, FrameType, SessionType
  <2> QED
    BY <1>1, <2>1, TypeKept, Zenon DEF SyncFrom, NoClick, TypeInv
<1>2. CASE ClickLogin
  <2>1. FrameType' /\ SessionType'
    BY <1>2, Zenon DEF ClickLogin, TypeInv, FrameType, SessionType, States
  <2>2. LoginType'
    BY <1>2 DEF ClickLogin, TypeInv, LoginType, login
  <2> QED
    BY <1>2, <2>1, <2>2, TypeKept, Zenon DEF ClickLogin, TypeInv
<1>3. CASE ClickConnect
  <2>1. FrameType'
    BY <1>3, Zenon DEF ClickConnect, TypeInv, FrameType
  <2>2. ConnType'
    BY <1>3 DEF ClickConnect, TypeInv, ConnType, Stage, Busy
  <2> QED
    BY <1>3, <2>1, <2>2, TypeKept, Zenon DEF ClickConnect, TypeInv
<1>4. CASE ClickDisconnect \/ DropServices
  <2>1. FrameType' /\ SessionType'
    BY <1>4, Zenon
    DEF ClickDisconnect, DropServices, TypeInv, FrameType, SessionType,
                States, Users
  <2> QED
    BY <1>4, <2>1, TypeKept, Zenon DEF ClickDisconnect, DropServices, TypeInv
<1>5. CASE ManageChat
  <2>1. FrameType'
    BY <1>5, Zenon DEF ManageChat, TypeInv, FrameType
  <2>2. FeedType'
    <3>1. chat_log \o pending \in Seq(Conns \X Nat)
      BY SeqFacts, Zenon DEF TypeInv, FeedType
    <3>2. \/ UNCHANGED feed
          \/ chat_log' = chat_log \o pending /\ pending' = << >>
      BY <1>5, Zenon DEF ManageChat, processPendingMessages
    <3> QED
      BY <3>1, <3>2, SeqFacts, TypeKept, Zenon DEF FeedType
  <2>3. OutboxType'
    BY <1>5, TypeKept
       DEF ManageChat, sendMessage, TypeInv, OutboxType, SessionType
  <2> QED
    BY <1>5, <2>1, <2>2, <2>3, TypeKept, Zenon DEF ManageChat, TypeInv
<1> QED
  BY <1>1, <1>2, <1>3, <1>4, <1>5, Zenon DEF Frame

\* Every step keeps the types.
LEMMA TypeNext == TypeInv /\ [Next]_vars => TypeInv'
<1> SUFFICES ASSUME TypeInv, [Next]_vars PROVE TypeInv'
  BY Zenon
<1>1. CASE UNCHANGED vars
  BY <1>1, TypeKept, Zenon DEF TypeInv, vars, service
<1>2. CASE Running
  BY Zenon, <1>2, TypeLogin, TypeConnect, TypeStart, TypeSubscribe, TypeRead,
     TypeServer, TypeSend, TypeFrame DEF Running
<1> QED
  BY <1>1, <1>2, Zenon DEF Next

\* The history variable is Boolean.
LEMMA HistoryNext == HistoryType /\ [Next]_vars => HistoryType'
  BY DEF HistoryType, Next, vars

\* Every reachable state is well typed.
THEOREM ServiceTypeCorrect == Spec => []TypeOK
<1>1. Init => TypeInv /\ HistoryType
  BY TypeInit, Zenon DEF Init, HistoryType
<1>2. TypeInv /\ HistoryType /\ [Next]_vars => (TypeInv /\ HistoryType)'
  BY TypeNext, HistoryNext, Zenon
<1> QED
  BY <1>1, <1>2, TypeInvIsTypeOK, PTL DEF Spec

-----------------------------------------------------------------------------
(***************************************************************************)
(* The session, until a call of connectToChat is overtaken.  A call at     *)
(* work owns the state; what a frame read at its start still holds when    *)
(* its button is handled, except that LoggedIn may have moved on by a call *)
(* of connectToChat.                                                       *)
(***************************************************************************)
Settled == {"Disconnected", "ChatConnected", "Error"}
Offered == {"LoggedIn", "ConnectingToChat", "ChatConnected", "Error"}

StateInv ==
    /\ logins > 0 => logins = 1 /\ m_state = "LoggingIn"
    /\ \A i \in Conns : conn[i].pc = "checked" => m_state = "LoggedIn"
    /\ \A i \in Conns : conn[i].pc \in Busy =>
                           /\ m_state = "ConnectingToChat"
                           /\ m_eventsub = i /\ conn[i].es = i
    /\ m_state = "ConnectingToChat" => \E i \in Conns : conn[i].pc \in Busy
    /\ ui = "auth" /\ vm_state \in Settled => m_state = vm_state
    /\ ui = "auth" /\ vm_state = "LoggedIn" => m_state \in Offered
    /\ ui = "resetting" => m_state = "Disconnected"

\* No call is past its test.
Quiet == \A i \in Conns : conn[i].pc # "checked" /\ conn[i].pc \notin Busy

\* At the start nothing runs.
LEMMA StateInit == Init => StateInv
  BY DEF Init, StateInv, Busy, Settled

\* A call can be overtaken only once a call has been overtaken.
LEMMA Unovertaken ==
    ASSUME [Next]_vars, ~ overtaken'
    PROVE  ~ overtaken /\ ~ Overtaking
<1>1. CASE UNCHANGED vars
  BY <1>1, Zenon DEF vars, service, session, Overtaking
<1>2. CASE overtaken' = (overtaken \/ Overtaking)
  BY <1>2
<1> QED
  BY <1>1, <1>2, Zenon DEF Next

\* Who changes the state without overtaking a call finds no call at work, or
\* is that call.
LEMMA NobodyElse ==
    ASSUME ~ Overtaking, m_state' # m_state, NEW i \in Conns,
           conn'[i] = conn[i]
    PROVE  conn[i].pc # "checked" /\ conn[i].pc \notin Busy
  BY Zenon DEF Overtaking, Working, Busy

\* While the state is not LoggedIn or ConnectingToChat, no call is at work.
LEMMA QuietStates ==
    ASSUME StateInv, m_state \notin {"LoggedIn", "ConnectingToChat"}
    PROVE  Quiet
  BY Zenon DEF StateInv, Quiet

\* StateInv is about these variables.
LEMMA StateKept ==
    ASSUME StateInv, UNCHANGED <<session, frame, login, conn>>
    PROVE  StateInv'
  BY Zenon DEF StateInv, session, frame, login, Busy, Settled, Offered

\* The end of the login coroutine.
LEMMA StateLogin == ASSUME TypeInv, StateInv, LoginEnds PROVE StateInv'
<1>1. /\ logins = 1 /\ logins' = 0
      /\ m_state = "LoggingIn" /\ m_state' \in {"LoggedIn", "Error"}
      /\ UNCHANGED <<m_eventsub, ui, vm_state, conn>>
  BY DEF LoginEnds, LoginFails, LoginSucceeds, StateInv, frame, TypeInv,
         LoginType
<1>2. Quiet
  BY <1>1, QuietStates, Zenon
<1>3. /\ ~ (logins' > 0)
      /\ ui' # "resetting"
      /\ ~ (ui' = "auth" /\ vm_state' \in Settled \cup {"LoggedIn"})
  BY <1>1 DEF StateInv, Settled, Offered
<1> QED
  BY <1>1, <1>2, <1>3, Zenon DEF StateInv, Quiet

\* connectToChat: as long as a call is at work, the state is its own.
LEMMA StateConnect ==
    ASSUME TypeInv, StateInv, NEW i \in Conns, Connect(i), ~ Overtaking
    PROVE  StateInv'
<1> USE DEF TypeInv, ConnType, Stage
<1>1. CASE ConnectCheck(i)
  <2>1. /\ conn[i].pc = "ready"
        /\ conn'[i].pc \in {"checked", "done"}
        /\ conn'[i].pc = "checked" => m_state = "LoggedIn"
        /\ \A j \in Conns \ {i} : conn'[j] = conn[j]
        /\ UNCHANGED <<m_state, m_eventsub, ui, vm_state, logins>>
    BY <1>1, Zenon DEF ConnectCheck, session, frame, login
  <2> QED
    BY <2>1 DEF StateInv, Busy
<1>2. CASE ConnectSetup(i)
  <2>1. /\ conn[i].pc = "checked"
        /\ conn'[i].pc = "connecting" /\ conn'[i].es = i
        /\ \A j \in Conns \ {i} : conn'[j] = conn[j]
        /\ m_state' = "ConnectingToChat" /\ m_eventsub' = i
        /\ UNCHANGED <<ui, vm_state, logins>>
    BY <1>2, Zenon DEF ConnectSetup, frame, login
  <2>2. m_state = "LoggedIn" /\ ~ logins > 0 /\ ui # "resetting"
        /\ ~ (ui = "auth" /\ vm_state \in Settled)
    BY <2>1, Zenon DEF StateInv, Settled
  <2>3. \A j \in Conns \ {i} : conn[j].pc # "checked" /\ conn[j].pc \notin Busy
    BY <2>1, <2>2, NobodyElse, Zenon
  <2> QED
    BY <2>1, <2>2, <2>3, Zenon DEF StateInv, Busy, Offered
<1>3. CASE ConnectOpened(i) \/ ConnectWaited(i)
  <2>1. CASE UNCHANGED conn
    BY <1>3, <2>1, StateKept, Zenon
    DEF ConnectOpened, ConnectWaited, Crash, spawned
  <2>2. CASE ~ UNCHANGED conn
    <3>1. /\ \/ conn' = [conn EXCEPT ![i].pc = "waiting"]
             \/ conn' = [conn EXCEPT ![i] = [pc |-> "subscribing",
                                             es |-> m_eventsub]]
          /\ UNCHANGED <<m_state, m_eventsub, ui, vm_state, logins>>
          /\ conn[i].pc \in Busy
      BY <1>3, <2>2, Zenon
      DEF ConnectOpened, ConnectWaited, Crash, Busy, session, frame, login
    <3>2. conn[i].es = i /\ m_eventsub = i
      BY <3>1, Zenon DEF StateInv
    <3>3. /\ conn'[i].pc \in {"waiting", "subscribing"} /\ conn'[i].es = i
          /\ \A j \in Conns \ {i} : conn'[j] = conn[j]
      BY <3>1, <3>2
    <3>4. \A j \in Conns : /\ conn'[j].pc \in Busy <=> conn[j].pc \in Busy
                           /\ conn'[j].pc = "checked" => conn[j].pc = "checked"
                           /\ conn'[j].pc \in Busy => conn'[j].es = conn[j].es
      BY <3>1, <3>2, <3>3, Zenon DEF Busy
    <3> QED
      BY <3>1, <3>4, Zenon DEF StateInv, Busy
  <2> QED
    BY <2>1, <2>2, Zenon
<1>4. CASE ConnectSubscribed(i) \/ ConnectFails(i)
  <2>1. /\ conn[i].pc \in Busy /\ conn'[i].pc = "done"
        /\ \A j \in Conns \ {i} : conn'[j] = conn[j]
        /\ m_state' \in {"ChatConnected", "Error"}
        /\ UNCHANGED <<ui, vm_state, logins>>
    BY <1>4 DEF ConnectSubscribed, ConnectFails, Busy, frame, login
  <2>2. /\ m_state = "ConnectingToChat" /\ ~ logins > 0
        /\ ui # "resetting" /\ (ui = "auth" => vm_state \notin Settled)
    BY <2>1, Zenon DEF StateInv, Settled
  <2>3. \A j \in Conns \ {i} : conn[j].pc # "checked" /\ conn[j].pc \notin Busy
    BY <2>1, <2>2, NobodyElse, Zenon
  <2> QED
    BY <2>1, <2>2, <2>3 DEF StateInv, Busy, Offered
<1> QED
  BY <1>1, <1>2, <1>3, <1>4, Zenon DEF Connect

\* The frames: a button acts on the state it was offered in, or on one that
\* a call of connectToChat has left.
LEMMA StateFrame ==
    ASSUME TypeInv, StateInv, Frame, ~ Overtaking
    PROVE  StateInv'
<1>1. CASE SyncFrom
  <2>1. /\ UNCHANGED <<m_state, m_eventsub, logins, conn>>
        /\ ui' = "auth" /\ vm_state' = m_state
    BY <1>1, Zenon DEF SyncFrom, session, login
  <2> QED
    BY <2>1, Zenon DEF StateInv, Offered
<1>2. CASE NoClick \/ ManageChat
  <2>1. /\ UNCHANGED <<m_state, m_eventsub, logins, conn, vm_state>>
        /\ ui' \in {"chat", "sync"}
    BY <1>2, Zenon DEF NoClick, ManageChat, session, login
  <2> QED
    BY <2>1, Zenon DEF StateInv
<1>3. CASE ClickLogin
  <2>1. /\ ui = "auth" /\ ui' = "chat" /\ m_state = "Disconnected"
        /\ m_state' = "LoggingIn" /\ logins' = logins + 1
        /\ UNCHANGED <<m_eventsub, vm_state, conn>>
    BY <1>3, Zenon DEF ClickLogin, StateInv, Settled
  <2>2. logins' = 1
    BY <2>1 DEF StateInv, TypeInv, LoginType
  <2>3. Quiet
    BY <2>1, QuietStates, Zenon
  <2> QED
    BY <2>1, <2>2, <2>3, Zenon DEF StateInv, Quiet
<1>4. CASE ClickConnect
  <2>1. /\ ui' = "chat"
        /\ UNCHANGED <<m_state, m_eventsub, vm_state, logins>>
    BY <1>4, Zenon DEF ClickConnect, session, login
  <2>2. PICK i \in Conns : /\ conn[i].pc = "unused"
                           /\ conn' = [conn EXCEPT ![i].pc = "ready"]
    BY <1>4, Zenon DEF ClickConnect
  <2>3. /\ conn'[i].pc = "ready"
        /\ \A j \in Conns \ {i} : conn'[j] = conn[j]
    BY <2>2, Zenon DEF TypeInv, ConnType, Stage
  <2> QED
    BY <2>1, <2>2, <2>3, Zenon DEF StateInv, Busy
<1>5. CASE ClickDisconnect \/ DropServices
  <2>1. /\ ui \in {"auth", "resetting"}
        /\ m_state' = "Disconnected" /\ ui' \in {"resetting", "chat"}
        /\ UNCHANGED <<vm_state, logins, conn>>
    BY <1>5, Zenon DEF ClickDisconnect, DropServices, StateInv, login
  <2>2. m_state # "LoggingIn"
    BY <1>5, Zenon
    DEF ClickDisconnect, DropServices, StateInv, Settled, Offered
  <2>3. Quiet
    <3>1. CASE m_state = "Disconnected"
      BY <3>1, QuietStates, Zenon
    <3>2. CASE m_state # "Disconnected"
      BY <2>1, <3>2, NobodyElse, Zenon DEF Quiet
    <3> QED
      BY <3>1, <3>2, Zenon
  <2> QED
    BY <2>1, <2>2, <2>3, Zenon DEF StateInv, Quiet
<1> QED
  BY <1>1, <1>2, <1>3, <1>4, <1>5, Zenon DEF Frame

\* Every other coroutine, and Twitch, leaves the session to its owners.
LEMMA OthersKeepState ==
    /\ \A i \in Conns : StartReading(i) \/ Read(i) \/ Server(i) =>
          UNCHANGED <<session, frame, login, conn>>
    /\ \A it \in Conns \X SubTypes : SubscribeStep(it) =>
          UNCHANGED <<session, frame, login, conn>>
    /\ \A m \in sends : SendStarts(m) =>
          UNCHANGED <<session, frame, login, conn>>
<1>1. ASSUME NEW i \in Conns, StartReading(i) \/ Read(i) \/ Server(i)
      PROVE  UNCHANGED <<session, frame, login, conn>>
  <2>1. CASE StartReading(i)
    BY <2>1, Zenon DEF StartReading, Crash
  <2>2. CASE Read(i)
    BY <2>2, Zenon DEF Read, ReadStart, ReadMessage, ReadFails, HandleMessage,
                ReadAgain, Crash
  <2>3. CASE Server(i)
    BY <2>3, Zenon DEF Server, ServerSubscribes, ServerSends, ServerCloses
  <2> QED
    BY <1>1, <2>1, <2>2, <2>3, Zenon
<1>2. ASSUME NEW it \in Conns \X SubTypes, SubscribeStep(it)
      PROVE  UNCHANGED <<session, frame, login, conn>>
  BY <1>2, Zenon DEF SubscribeStep, Crash
<1>3. ASSUME NEW m \in sends, SendStarts(m)
      PROVE  UNCHANGED <<session, frame, login, conn>>
  BY <1>3, Zenon DEF SendStarts, Crash
<1> QED
  BY <1>1, <1>2, <1>3, Zenon

\* Every step that overtakes no call keeps StateInv.
LEMMA StateNext ==
    ASSUME TypeInv, StateInv, [Next]_vars, ~ Overtaking
    PROVE  StateInv'
<1>1. CASE UNCHANGED vars
  BY <1>1, StateKept, Zenon DEF vars, service
<1>2. CASE Running
  BY <1>2, StateLogin, StateConnect, StateFrame, StateKept, OthersKeepState,
     Zenon
     DEF Running
<1> QED
  BY <1>1, <1>2, Zenon DEF Next

\* Who changes the state, and how: the login coroutine, the buttons, or a call
\* of connectToChat.
LoginMoves ==
    \/ m_state = "LoggingIn" /\ m_state' \in {"LoggedIn", "Error"}
    \/ m_state = "Disconnected" /\ m_state' = "LoggingIn"
CallBegins(i) ==
    /\ conn[i].pc = "checked" /\ conn'[i] # conn[i]
    /\ m_state = "LoggedIn" /\ m_state' = "ConnectingToChat"
CallEnds(i) ==
    /\ conn[i].pc \in Busy /\ conn'[i] # conn[i]
    /\ m_state = "ConnectingToChat" /\ m_state' \in {"ChatConnected", "Error"}
ButtonMoves ==
    /\ ui = "auth" /\ m_state' = "Disconnected" /\ UNCHANGED conn
    /\ \/ vm_state = "LoggedIn" /\ m_state \in Offered
       \/ m_state \in {"ChatConnected", "Error"}

\* Nobody else changes the state.
LEMMA StateChange ==
    ASSUME TypeInv, StateInv, [Next]_vars, m_state' # m_state
    PROVE  \/ LoginMoves \/ ButtonMoves
           \/ \E i \in Conns : CallBegins(i) \/ CallEnds(i)
<1>1. CASE LoginEnds
  BY <1>1, Zenon DEF LoginEnds, LoginFails, LoginSucceeds, StateInv, LoginMoves
<1>2. ASSUME NEW i \in Conns, ConnectSetup(i) PROVE CallBegins(i)
  <2>1. conn'[i].pc = "connecting"
    BY <1>2, Zenon DEF ConnectSetup, TypeInv, ConnType, Stage
  <2> QED
    BY <1>2, <2>1, Zenon DEF ConnectSetup, StateInv, CallBegins
<1>3. ASSUME NEW i \in Conns, ConnectSubscribed(i) \/ ConnectFails(i)
      PROVE  CallEnds(i)
  <2>1. conn[i].pc \in Busy /\ conn'[i].pc = "done"
        /\ m_state' \in {"ChatConnected", "Error"}
    BY <1>3
    DEF ConnectSubscribed, ConnectFails, Busy, TypeInv, ConnType, Stage
  <2>2. "done" \notin Busy
    BY Zenon DEF Busy
  <2> QED
    BY <2>1, <2>2, Zenon DEF StateInv, CallEnds
<1>4. ASSUME NEW i \in Conns, Connect(i)
      PROVE  ConnectSetup(i) \/ ConnectSubscribed(i) \/ ConnectFails(i)
  BY <1>4, Zenon
  DEF Connect, ConnectCheck, ConnectOpened, ConnectWaited, Crash, session
<1>5. CASE Frame
  <2>1. CASE ClickLogin
    BY <2>1, Zenon DEF ClickLogin, LoginMoves
  <2>2. CASE ClickDisconnect
    BY <2>2, Zenon DEF ClickDisconnect, StateInv, Settled, ButtonMoves
  <2>3. SyncFrom \/ NoClick \/ ClickConnect \/ DropServices \/ ManageChat
          => UNCHANGED m_state
    BY Zenon
    DEF SyncFrom, NoClick, ClickConnect, DropServices, ManageChat, session
  <2> QED
    BY <1>5, <2>1, <2>2, <2>3, Zenon DEF Frame
<1>6. ~ UNCHANGED <<session, frame, login, conn>> /\ ~ UNCHANGED vars
  BY Zenon DEF session, vars, service
<1> QED
  BY <1>1, <1>2, <1>3, <1>4, <1>5, <1>6, OthersKeepState, Zenon
     DEF Next, Running

\* A step that changes the state and overtakes no call takes an edge.
LEMMA EdgeStep ==
    ASSUME TypeInv, StateInv, [Next]_vars, m_state' # m_state, ~ Overtaking
    PROVE  <<m_state, m_state'>> \in Edges
<1>1. CASE LoginMoves
  BY <1>1, Zenon DEF LoginMoves, Edges
<1>2. ASSUME NEW i \in Conns, CallBegins(i) \/ CallEnds(i)
      PROVE  <<m_state, m_state'>> \in Edges
  BY <1>2, Zenon DEF CallBegins, CallEnds, Edges
<1>3. CASE ButtonMoves
  <2>1. Quiet
    BY <1>3, NobodyElse, Zenon DEF Quiet, ButtonMoves
  <2>2. m_state # "ConnectingToChat"
    BY <2>1, Zenon DEF StateInv, Quiet
  <2> QED
    BY <1>3, <2>2, Zenon DEF ButtonMoves, Offered, Edges
<1> QED
  BY <1>1, <1>2, <1>3, StateChange, Zenon

\* A step that overtakes a call is one of two.
LEMMA OvertakeStep ==
    ASSUME TypeInv, StateInv, [Next]_vars, Overtaking
    PROVE  LogoutOvertakes \/ SecondCallOvertakes
<1>1. m_state' # m_state
  BY Zenon DEF Overtaking
<1>2. PICK j \in Conns : /\ conn[j].pc = "checked" \/ conn[j].pc \in Busy
                         /\ conn'[j] = conn[j]
  BY Zenon DEF Overtaking, Working, Busy
<1>3. m_state \in {"LoggedIn", "ConnectingToChat"}
  BY <1>2, Zenon DEF StateInv
<1>4. ~ LoginMoves
  BY <1>3, Zenon DEF LoginMoves
<1>5. CASE ButtonMoves
  BY <1>3, <1>5, Zenon DEF ButtonMoves, LogoutOvertakes
<1>6. ASSUME NEW i \in Conns, CallBegins(i) PROVE SecondCallOvertakes
  <2>1. conn[j].pc = "checked"
    BY <1>2, <1>6, Zenon DEF CallBegins, StateInv
  <2> QED
    BY <1>2, <1>6, <2>1, Zenon DEF CallBegins, SecondCallOvertakes
<1>7. ASSUME NEW i \in Conns, CallEnds(i) PROVE FALSE
  <2>1. conn[j].pc \in Busy
    BY <1>2, <1>7, Zenon DEF CallEnds, StateInv
  <2>2. i = j
    BY <1>7, <2>1, Zenon DEF CallEnds, StateInv
  <2> QED
    BY <1>2, <1>7, <2>2, Zenon DEF CallEnds
<1> QED
  BY <1>1, <1>4, <1>5, <1>6, <1>7, StateChange, Zenon

\* The inductive invariant.
LEMMA StateAlways ==
    /\ Init => TypeInv /\ (overtaken \/ StateInv)
    /\ TypeInv /\ (overtaken \/ StateInv) /\ [Next]_vars
         => (TypeInv /\ (overtaken \/ StateInv))'
<1>1. Init => TypeInv /\ StateInv
  BY TypeInit, StateInit, Zenon
<1>2. ASSUME TypeInv, overtaken \/ StateInv, [Next]_vars, ~ overtaken'
      PROVE  StateInv'
  BY <1>2, Unovertaken, StateNext, Zenon
<1> QED
  BY <1>1, <1>2, TypeNext, Zenon

(***************************************************************************)
(* The state only moves along the edges of its diagram until a call of     *)
(* connectToChat is overtaken, by a Logout clicked on a frame that was     *)
(* drawn before or by another call that passed the same test.              *)
(***************************************************************************)
THEOREM StateMovesAlongEdges == Spec => StateFollowsEdges
<1> DEFINE Step == m_state' # m_state /\ ~ overtaken =>
                       IF overtaken' THEN LogoutOvertakes \/ SecondCallOvertakes
                       ELSE <<m_state, m_state'>> \in Edges
<1>1. TypeInv /\ (overtaken \/ StateInv) /\ [Next]_vars => [Step]_vars
  <2> SUFFICES ASSUME TypeInv, StateInv, [Next]_vars,
                      m_state' # m_state, ~ overtaken
               PROVE  IF overtaken' THEN LogoutOvertakes \/ SecondCallOvertakes
                      ELSE <<m_state, m_state'>> \in Edges
    BY Zenon
  <2>1. CASE overtaken'
    <3>1. Overtaking
      <4>1. ~ UNCHANGED vars
        BY Zenon DEF vars, service, session
      <4>2. overtaken' = (overtaken \/ Overtaking)
        BY <4>1, Zenon DEF Next
      <4> QED
        BY <2>1, <4>2
    <3> QED
      BY <2>1, <3>1, OvertakeStep, Zenon
  <2>2. CASE ~ overtaken'
    BY <2>2, Unovertaken, EdgeStep, Zenon
  <2> QED
    BY <2>1, <2>2, Zenon
<1> QED
  BY <1>1, StateAlways, PTL DEF Spec, StateFollowsEdges

\* A step of the service is a step of a login or none.
LEMMA LoginSimulated ==
    ASSUME TypeInv, StateInv, [Next]_vars
    PROVE  [AbstractLogin!Next]_(AbstractLogin!vars)
<1> DEFINE Same == (logins > 0)' = (logins > 0) /\ UNCHANGED <<m_config, m_current_user>>
<1>1. Same => UNCHANGED AbstractLogin!vars
  BY Zenon DEF AbstractLogin!vars
<1>2. CASE LoginFails
  <2>1. /\ logins > 0 /\ logins' = logins - 1
        /\ UNCHANGED <<m_config, m_current_user>>
    BY <1>2, Zenon DEF LoginFails
  <2>2. logins = 1
    BY <2>1, Zenon DEF StateInv
  <2> QED
    BY <2>1, <2>2 DEF AbstractLogin!Next, AbstractLogin!Fail
<1>3. ASSUME NEW a \in Accounts, LoginSucceeds(a)
      PROVE  AbstractLogin!Next
  <2>1. /\ logins > 0 /\ logins' = logins - 1
        /\ m_config' = a /\ m_current_user' = a
    BY <1>3, Zenon DEF LoginSucceeds
  <2>2. logins = 1
    BY <2>1, Zenon DEF StateInv
  <2> QED
    BY <2>1, <2>2 DEF AbstractLogin!Next, AbstractLogin!Succeed
<1>4. CASE ClickLogin
  <2>1. /\ m_state = "Disconnected" /\ logins' = logins + 1
        /\ UNCHANGED <<m_config, m_current_user>>
    BY <1>4, Zenon DEF ClickLogin, StateInv, Settled
  <2>2. logins = 0
    BY <2>1 DEF StateInv, TypeInv, LoginType
  <2> QED
    BY <2>1, <2>2 DEF AbstractLogin!Next, AbstractLogin!Start
<1>5. CASE DropServices
  <2>1. /\ ~ (logins > 0) /\ ~ (logins' > 0)
        /\ m_config' = m_config /\ m_current_user' = NoAccount
    <3>1. m_state = "Disconnected"
      BY <1>5, Zenon DEF DropServices, StateInv
    <3>2. ~ (logins > 0)
      BY <3>1, Zenon DEF StateInv
    <3> QED
      BY <1>5, <3>2, Zenon DEF DropServices, login
  <2> QED
    BY <2>1 DEF AbstractLogin!Next, AbstractLogin!Logout
<1>6. ASSUME NEW i \in Conns, Connect(i) PROVE Same
  BY <1>6, Zenon DEF Connect, ConnectCheck, ConnectSetup, ConnectOpened,
              ConnectWaited, ConnectSubscribed, ConnectFails, Crash, session,
              login
<1>7. CASE SyncFrom \/ NoClick \/ ClickConnect \/ ClickDisconnect \/ ManageChat
  BY <1>1, <1>7, Zenon
  DEF SyncFrom, NoClick, ClickConnect, ClickDisconnect, ManageChat,
              session, login
<1>8. CASE UNCHANGED <<session, frame, login, conn>>
  BY <1>1, <1>8, Zenon DEF session, login
<1>9. CASE UNCHANGED vars
  BY <1>8, <1>9, Zenon DEF vars, service
<1> HIDE DEF Same
<1> QED
  BY <1>1, <1>2, <1>3, <1>4, <1>5, <1>6, <1>7, <1>8, <1>9, OthersKeepState,
     Zenon
     DEF Next, Running, LoginEnds, Frame

(***************************************************************************)
(* Until a call of connectToChat is overtaken, logins as TwitchService has *)
(* them never overlap and have the effects that Login promises.            *)
(***************************************************************************)
THEOREM ServiceImplementsLogin == Spec => ImplementsLogin
<1>1. Init => AbstractLogin!Init
  <2>1. ASSUME Init
        PROVE  /\ logins = 0
               /\ m_config = NoAccount /\ m_current_user = NoAccount
    BY <2>1, Zenon DEF Init
  <2> QED
    BY <2>1 DEF AbstractLogin!Init
<1>2. TypeInv /\ (overtaken \/ StateInv) /\ [Next]_vars
        => [AbstractLogin!Next \/ overtaken']_(AbstractLogin!vars)
  BY LoginSimulated, Unovertaken, Zenon
<1> QED
  BY <1>1, <1>2, StateAlways, PTL DEF Spec, ImplementsLogin
=============================================================================
