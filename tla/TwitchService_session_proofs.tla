-------------------- MODULE TwitchService_session_proofs --------------------
(***************************************************************************)
(* What a user sees of a session, until a call of connectToChat is         *)
(* overtaken: a connected session is complete, what is typed in it is      *)
(* posted as typed, and the messages that come in are shown once each and  *)
(* in their order.                                                         *)
(***************************************************************************)
EXTENDS TwitchService_proofs

-----------------------------------------------------------------------------
(***************************************************************************)
(* Messages on their way in.  The numbers 1..n that Twitch has given out   *)
(* in a session are those in the window or its queue (S), then the one the *)
(* read loop has in hand (h, if not 0), then those on the wire (w), which  *)
(* are in order.                                                           *)
(***************************************************************************)
InTransit(w, h, n, S) ==
    /\ h \in 0..n /\ S \subseteq 1..n
    /\ \A p \in DOMAIN w : w[p] \in 0..n
    /\ \A k \in 1..n : k = h \/ k \in S \/ \E p \in DOMAIN w : w[p] = k
    /\ h > 0 => \A k \in S : k < h
    /\ \A p \in DOMAIN w : w[p] > 0 => h < w[p] /\ \A k \in S : k < w[p]
    /\ \A p, q \in DOMAIN w : p < q /\ w[p] > 0 /\ w[q] > 0 => w[p] < w[q]

\* A message of the chat: the connection it came on and its number there.
Lines == Conns \X Nat

\* The numbers of the messages of connection e in s.
NumbersOf(s, e) == {k \in Nat : \E q \in DOMAIN s : s[q] = <<e, k>>}

\* No message of s comes twice, or without the one before it.
InOrder(s) ==
    \A q \in DOMAIN s :
        /\ s[q][2] > 1 => \E p \in 1..(q - 1) : s[p] = <<s[q][1], s[q][2] - 1>>
        /\ \A p \in 1..(q - 1) : s[p] # s[q]

\* A sequence with one more element.
LEMMA AppendFacts ==
    ASSUME NEW S, NEW s \in Seq(S), NEW x \in S
    PROVE  /\ Append(s, x) \in Seq(S)
           /\ Len(s) \in Nat
           /\ DOMAIN s = 1..Len(s)
           /\ DOMAIN Append(s, x) = 1..(Len(s) + 1)
           /\ \A i \in 1..Len(s) : Append(s, x)[i] = s[i]
           /\ Append(s, x)[Len(s) + 1] = x
  OBVIOUS

\* Twitch sends the next chat message, or something that is none (0).
LEMMA SendOne ==
    ASSUME NEW w \in Seq(Nat), NEW h \in Nat, NEW n \in Nat, NEW S,
           InTransit(w, h, n, S),
           NEW x \in Nat, NEW m \in Nat,
           (x = 0 /\ m = n) \/ (x = n + 1 /\ m = n + 1)
    PROVE  InTransit(Append(w, x), h, m, S)
<1> DEFINE v == Append(w, x)
           z == Len(w) + 1
<1>1. /\ DOMAIN v = DOMAIN w \cup {z} /\ v[z] = x
      /\ \A p \in DOMAIN w : v[p] = w[p] /\ p < z /\ ~ (z < p)
      /\ ~ (z < z)
  BY AppendFacts
<1> HIDE DEF v, z
<1>2. h \in 0..n /\ S \subseteq 1..n /\ \A p \in DOMAIN w : w[p] \in 0..n
  BY Zenon DEF InTransit
<1>3. h \in 0..m /\ S \subseteq 1..m /\ \A p \in DOMAIN w : w[p] \in 0..m
  BY <1>2
<1>4. \A p \in DOMAIN v : v[p] \in 0..m
  <2>1. x \in 0..m
    OBVIOUS
  <2> QED
    BY <1>1, <1>3, <2>1, Zenon
<1>5. \A k \in 1..m : k = h \/ k \in S \/ \E p \in DOMAIN v : v[p] = k
  <2> TAKE k \in 1..m
  <2>1. k \in 1..n \/ k = x
    OBVIOUS
  <2>2. CASE k = x
    BY <1>1, <2>2, Zenon
  <2>3. CASE k \in 1..n
    <3>1. k = h \/ k \in S \/ \E p \in DOMAIN w : w[p] = k
      BY <2>3, Zenon DEF InTransit
    <3> QED
      BY <1>1, <3>1, Zenon
  <2> QED
    BY <2>1, <2>2, <2>3, Zenon
<1>6. \A p \in DOMAIN v : v[p] > 0 => h < v[p] /\ \A k \in S : k < v[p]
  <2>1. x > 0 => h < x /\ \A k \in S : k < x
    BY <1>2
  <2>2. \A p \in DOMAIN w : w[p] > 0 => h < w[p] /\ \A k \in S : k < w[p]
    BY Zenon DEF InTransit
  <2> QED
    BY <1>1, <2>1, <2>2, Zenon
<1>7. ASSUME NEW p \in DOMAIN v, NEW q \in DOMAIN v,
             p < q, v[p] > 0, v[q] > 0
      PROVE  v[p] < v[q]
  <2>1. p \in DOMAIN w /\ v[p] = w[p]
    BY <1>1, <1>7, Zenon
  <2>2. CASE q = z
    <3>1. v[q] = n + 1 /\ w[p] \in 0..n
      BY <1>1, <1>2, <1>7, <2>1, <2>2
    <3> QED
      BY <2>1, <3>1
  <2>3. CASE q \in DOMAIN w
    <3>1. v[q] = w[q]
      BY <1>1, <2>3, Zenon
    <3>2. \A i, j \in DOMAIN w : i < j /\ w[i] > 0 /\ w[j] > 0 => w[i] < w[j]
      BY Zenon DEF InTransit
    <3> QED
      BY <1>7, <2>1, <2>3, <3>1, <3>2, Zenon
  <2> QED
    BY <1>1, <2>2, <2>3, Zenon
<1>8. h > 0 => \A k \in S : k < h
  BY Zenon DEF InTransit
<1> QED
  BY <1>3, <1>4, <1>5, <1>6, <1>7, <1>8, Zenon DEF InTransit, v

\* The read loop takes what is first on the wire.
LEMMA TakeFirst ==
    ASSUME NEW w \in Seq(Nat), w # << >>, NEW n \in Nat, NEW S,
           InTransit(w, 0, n, S)
    PROVE  InTransit(Tail(w), Head(w), n, S)
<1> DEFINE v == Tail(w)
           h == Head(w)
<1>1. /\ Len(w) \in Nat \ {0} /\ DOMAIN w = 1..Len(w)
      /\ DOMAIN v = 1..(Len(w) - 1)
      /\ \A p \in 1..(Len(w) - 1) : v[p] = w[p + 1]
      /\ h = w[1]
  BY TailFacts, Zenon
<1> HIDE DEF v, h
<1>2. \A p \in DOMAIN v : p + 1 \in DOMAIN w /\ v[p] = w[p + 1] /\ 1 < p + 1
  BY <1>1
<1>3. 1 \in DOMAIN w
  BY <1>1
<1>4. S \subseteq 1..n /\ \A p \in DOMAIN w : w[p] \in 0..n
  BY Zenon DEF InTransit
<1>5. h \in 0..n /\ \A p \in DOMAIN v : v[p] \in 0..n
  BY <1>1, <1>2, <1>3, <1>4, Zenon
<1>6. \A k \in 1..n : k = h \/ k \in S \/ \E p \in DOMAIN v : v[p] = k
  <2> TAKE k \in 1..n
  <2>1. CASE \E p \in DOMAIN w : w[p] = k
    <3>1. PICK p \in 1..Len(w) : w[p] = k
      BY <1>1, <2>1, Zenon
    <3>2. CASE p = 1
      BY <1>1, <3>1, <3>2, Zenon
    <3>3. CASE p # 1
      <4>1. p - 1 \in DOMAIN v /\ v[p - 1] = k
        BY <1>1, <3>1, <3>3
      <4> QED
        BY <4>1, Zenon
    <3> QED
      BY <3>2, <3>3, Zenon
  <2> QED
    BY <2>1 DEF InTransit
<1>7. h > 0 => \A k \in S : k < h
  BY <1>1, <1>3, Zenon DEF InTransit
<1>8. \A p \in DOMAIN v : v[p] > 0 => h < v[p] /\ \A k \in S : k < v[p]
  <2> SUFFICES ASSUME NEW p \in DOMAIN v, v[p] > 0
               PROVE  h < v[p] /\ \A k \in S : k < v[p]
    BY Zenon
  <2>1. \A k \in S : k < v[p]
    BY <1>2, Zenon DEF InTransit
  <2>2. h > 0 => h < v[p]
    BY <1>1, <1>2, <1>3, Zenon DEF InTransit
  <2> QED
    BY <1>5, <2>1, <2>2
<1>9. \A p, q \in DOMAIN v : p < q /\ v[p] > 0 /\ v[q] > 0 => v[p] < v[q]
  <2> SUFFICES ASSUME NEW p \in DOMAIN v, NEW q \in DOMAIN v,
                      p < q, v[p] > 0, v[q] > 0
               PROVE  v[p] < v[q]
    BY Zenon
  <2>1. p + 1 < q + 1
    BY <1>1
  <2> QED
    BY <1>2, <2>1, Zenon DEF InTransit
<1> QED
  BY <1>4, <1>5, <1>6, <1>7, <1>8, <1>9, Zenon DEF InTransit, v, h

\* The message in hand is the next one to be shown.
LEMMA ShowNext ==
    ASSUME NEW w \in Seq(Nat), NEW h \in Nat, h # 0, NEW n \in Nat, NEW S,
           InTransit(w, h, n, S)
    PROVE  /\ InTransit(w, 0, n, S \cup {h})
           /\ h \notin S
           /\ h > 1 => h - 1 \in S
<1>1. h \notin S
  BY DEF InTransit
<1>2. h > 1 => h - 1 \in S
  <2> SUFFICES ASSUME h > 1 PROVE h - 1 \in S
    BY Zenon
  <2>1. h - 1 \in 1..n /\ h - 1 # h /\ h - 1 > 0
    BY DEF InTransit
  <2>2. \A p \in DOMAIN w : w[p] # h - 1
    <3> SUFFICES ASSUME NEW p \in DOMAIN w, w[p] = h - 1 PROVE FALSE
      BY Zenon
    <3>1. h < w[p]
      BY <2>1, Zenon DEF InTransit
    <3> QED
      BY <3>1
  <2> QED
    BY <2>1, <2>2, Zenon DEF InTransit
<1>3. InTransit(w, 0, n, S \cup {h})
  BY DEF InTransit
<1> QED
  BY <1>1, <1>2, <1>3, Zenon

\* t has message h of connection e more than s, and is in order.
OneMoreOf(t, s, e, h) ==
    /\ InOrder(t)
    /\ NumbersOf(t, e) = NumbersOf(s, e) \cup {h}
    /\ \A f \in Conns \ {e} : NumbersOf(t, f) = NumbersOf(s, f)

\* The chat window with one more message.
LEMMA ShowInOrder ==
    ASSUME NEW s \in Seq(Lines), InOrder(s), NEW e \in Conns,
           NEW h \in Nat, h \notin NumbersOf(s, e),
           h > 1 => h - 1 \in NumbersOf(s, e),
           NEW t, t = Append(s, <<e, h>>)
    PROVE  OneMoreOf(t, s, e, h)
<1> DEFINE x == <<e, h>>
           z == Len(s) + 1
<1>1. x \in Lines /\ x[1] = e /\ x[2] = h
  BY Zenon DEF Lines
<1>2. /\ Len(s) \in Nat /\ DOMAIN s = 1..Len(s) /\ DOMAIN t = 1..z
      /\ \A p \in 1..Len(s) : t[p] = s[p]
      /\ t[z] = x
  BY <1>1, AppendFacts
<1>3. \A f \in Conns, k \in Nat : <<f, k>> = x <=> f = e /\ k = h
  BY Zenon
<1> HIDE DEF x
<1>4. \A p \in 1..Len(s) : s[p] # x
  BY <1>2, Zenon DEF NumbersOf, x
<1>5. h > 1 => \E p \in 1..Len(s) : s[p] = <<e, h - 1>>
  BY <1>2, Zenon DEF NumbersOf
<1>6. InOrder(t)
  <2> SUFFICES ASSUME NEW q \in 1..z
               PROVE  /\ t[q][2] > 1 => \E p \in 1..(q - 1) :
                                           t[p] = <<t[q][1], t[q][2] - 1>>
                      /\ \A p \in 1..(q - 1) : t[p] # t[q]
    BY <1>2, Zenon DEF InOrder
  <2>1. CASE q = z
    <3>1. /\ t[q] = x /\ t[q][1] = e /\ t[q][2] = h
          /\ q - 1 = Len(s) /\ \A p \in 1..Len(s) : t[p] = s[p]
      BY <1>1, <1>2, <2>1
    <3>2. t[q][2] > 1 => \E p \in 1..(q - 1) : t[p] = <<t[q][1], t[q][2] - 1>>
      BY <1>5, <3>1, Zenon
    <3>3. \A p \in 1..(q - 1) : t[p] # t[q]
      BY <1>4, <3>1, Zenon
    <3> QED
      BY <3>2, <3>3, Zenon
  <2>2. CASE q \in 1..Len(s)
    <3>1. t[q] = s[q] /\ \A p \in 1..(q - 1) : t[p] = s[p]
      BY <1>2, <2>2
    <3> QED
      BY <1>2, <2>2, <3>1, Zenon DEF InOrder
  <2>3. q = z \/ q \in 1..Len(s)
    BY <1>2
  <2> QED
    BY <2>1, <2>2, <2>3, Zenon
<1>7. ASSUME NEW f \in Conns, NEW k \in Nat
      PROVE  k \in NumbersOf(t, f) <=> k \in NumbersOf(s, f) \/ (f = e /\ k = h)
  <2>1. (\E q \in DOMAIN t : t[q] = <<f, k>>)
          <=> (\E q \in DOMAIN s : s[q] = <<f, k>>) \/ x = <<f, k>>
    <3>1. DOMAIN t = DOMAIN s \cup {z} /\ \A q \in DOMAIN s : t[q] = s[q]
      BY <1>2
    <3> QED
      BY <1>2, <3>1, Zenon
  <2> QED
    BY <1>3, <2>1, Zenon DEF NumbersOf
<1>8. \A f : NumbersOf(t, f) \subseteq Nat /\ NumbersOf(s, f) \subseteq Nat
  BY Zenon DEF NumbersOf
<1> QED
  BY <1>6, <1>7, <1>8, Zenon DEF OneMoreOf

USE ServiceAssumption DEF None

-----------------------------------------------------------------------------
(***************************************************************************)
(* A connected session.  AccountInv follows the credentials from the login *)
(* to the EventSub.  SetupInv follows the callback and the read loop: each *)
(* is spawned for the EventSub of its own call, and has started when the   *)
(* first subscription is asked for.                                        *)
(***************************************************************************)
AccountInv ==
    /\ m_state \in {"LoggedIn", "ConnectingToChat", "ChatConnected"} =>
          m_current_user = m_config
    /\ m_state \in {"ConnectingToChat", "ChatConnected"} => m_eventsub \in Conns
    /\ m_state \in {"LoggingIn", "LoggedIn"} => m_eventsub = None
    /\ m_state = "Disconnected" /\ ui # "resetting" => m_eventsub = None
    /\ m_eventsub # None => obj[m_eventsub].m_cfg = m_config

\* Nothing but setupChatServices writes an EventSub's configuration.
ConfigsKept == \A e \in Conns : obj'[e].m_cfg = obj[e].m_cfg

\* At the start nobody is logged in.
LEMMA AccountInit == Init => AccountInv
  BY Zenon DEF Init, AccountInv

\* AccountInv is about these variables.
LEMMA AccountKept ==
    ASSUME SessionType, AccountInv, ConfigsKept, UNCHANGED session,
           ui' = "resetting" <=> ui = "resetting"
    PROVE  AccountInv'
  BY Zenon DEF AccountInv, ConfigsKept, session, SessionType

\* What runs beside login and connectToChat sets no configuration.
LEMMA OthersKeepConfigs ==
    ASSUME ObjType,
           \/ \E i \in Conns : StartReading(i) \/ Read(i) \/ Server(i)
           \/ \E it \in Conns \X SubTypes : SubscribeStep(it)
           \/ \E m \in sends : SendStarts(m)
    PROVE  ConfigsKept
<1> USE DEF ConfigsKept, ObjType, Objects
<1>1. CASE UNCHANGED obj
  BY <1>1, Zenon
<1>2. ASSUME NEW i \in Conns, StartReading(i) PROVE ConfigsKept
  <2>1. \/ UNCHANGED obj
        \/ obj' = [obj EXCEPT ![starter[i].es].m_callback = TRUE]
    BY <1>2, Zenon DEF StartReading, Crash
  <2>2. CASE obj' = [obj EXCEPT ![starter[i].es].m_callback = TRUE]
    BY <2>2, Zenon
  <2> QED
    BY <1>1, <2>1, <2>2, Zenon
<1>3. ASSUME NEW i \in Conns, Read(i) PROVE ConfigsKept
  <2>1. \/ UNCHANGED obj
        \/ obj' = [obj EXCEPT ![reader[i].es].wire = Tail(@)]
    BY <1>3, Zenon DEF Read, ReadStart, ReadMessage, ReadFails, HandleMessage,
                ReadAgain, Crash
  <2>2. CASE obj' = [obj EXCEPT ![reader[i].es].wire = Tail(@)]
    BY <2>2, Zenon
  <2> QED
    BY <1>1, <2>1, <2>2, Zenon
<1>4. ASSUME NEW e \in Conns, Server(e) PROVE ConfigsKept
  <2>1. CASE ServerSubscribes(e)
    BY <2>1, Zenon DEF ServerSubscribes
  <2>2. CASE ServerSends(e)
    <3>1. CASE obj' = [obj EXCEPT ![e].wire = Append(@, 0)]
      BY <3>1, Zenon
    <3>2. CASE obj' = [obj EXCEPT ![e].wire = Append(@, obj[e].last + 1),
                                  ![e].last = @ + 1]
      BY <3>2, Zenon
    <3> QED
      BY <2>2, <3>1, <3>2, Zenon DEF ServerSends
  <2>3. CASE ServerCloses(e)
    BY <2>3, Zenon DEF ServerCloses
  <2> QED
    BY <1>4, <2>1, <2>2, <2>3, Zenon DEF Server
<1>5. ASSUME NEW it \in Conns \X SubTypes, SubscribeStep(it)
      PROVE  ConfigsKept
  BY <1>1, <1>5, Zenon DEF SubscribeStep, Crash
<1>6. ASSUME NEW m \in sends, SendStarts(m) PROVE ConfigsKept
  BY <1>1, <1>6, Zenon DEF SendStarts, Crash
<1> QED
  BY <1>2, <1>3, <1>4, <1>5, <1>6, Zenon

\* Every step that overtakes no call keeps AccountInv.
LEMMA AccountNext ==
    ASSUME TypeInv, StateInv, AccountInv, [Next]_vars
    PROVE  AccountInv'
<1> USE DEF TypeInv
<1>1. CASE LoginEnds
  BY <1>1, Zenon
  DEF LoginEnds, LoginFails, LoginSucceeds, StateInv, AccountInv
<1>2. ASSUME NEW i \in Conns, Connect(i) PROVE AccountInv'
  <2>1. CASE ConnectCheck(i) \/ ConnectWaited(i)
    BY <2>1, AccountKept, Zenon
    DEF ConnectCheck, ConnectWaited, Crash, ConfigsKept, frame
  <2>2. CASE ConnectSetup(i)
    <3>1. /\ m_state = "LoggedIn" /\ m_state' = "ConnectingToChat"
          /\ m_eventsub' = i /\ obj'[i].m_cfg = m_config
          /\ UNCHANGED <<m_config, m_current_user>>
      BY <2>2, Zenon DEF ConnectSetup, StateInv, ObjType, Objects
    <3> QED
      BY <3>1, Zenon DEF AccountInv
  <2>3. CASE ConnectOpened(i)
    <3>1. ConfigsKept
      BY <2>3, Zenon DEF ConnectOpened, ConfigsKept, ObjType, Objects
    <3> QED
      BY <2>3, <3>1, AccountKept, Zenon DEF ConnectOpened, frame
  <2>4. CASE ConnectSubscribed(i) \/ ConnectFails(i)
    <3>1. /\ m_state = "ConnectingToChat"
          /\ m_state' \in {"ChatConnected", "Error"}
          /\ UNCHANGED <<m_eventsub, m_config, m_current_user, obj>>
      BY <2>4, Zenon DEF ConnectSubscribed, ConnectFails, StateInv, Busy
    <3> QED
      BY <3>1, Zenon DEF AccountInv
  <2> QED
    BY <1>2, <2>1, <2>2, <2>3, <2>4, Zenon DEF Connect
<1>3. CASE Frame
  <2>1. CASE SyncFrom \/ NoClick \/ ClickConnect \/ ManageChat
    <3>1. ui # "resetting" /\ ui' # "resetting" /\ UNCHANGED <<session, obj>>
      BY <2>1, Zenon DEF SyncFrom, NoClick, ClickConnect, ManageChat
    <3> QED
      BY <3>1, AccountKept, Zenon DEF ConfigsKept
  <2>2. CASE ClickLogin
    <3>1. /\ m_state = "Disconnected" /\ ui # "resetting"
          /\ m_state' = "LoggingIn"
          /\ UNCHANGED <<m_eventsub, m_config, m_current_user, obj>>
      BY <2>2, Zenon DEF ClickLogin, StateInv, Settled
    <3> QED
      BY <3>1, Zenon DEF AccountInv
  <2>3. CASE ClickDisconnect
    BY <2>3, Zenon DEF ClickDisconnect, AccountInv
  <2>4. CASE DropServices
    <3>1. m_state' = "Disconnected" /\ m_eventsub' = None
      BY <2>4, Zenon DEF DropServices, StateInv
    <3> QED
      BY <3>1, Zenon DEF AccountInv
  <2> QED
    BY <1>3, <2>1, <2>2, <2>3, <2>4, Zenon DEF Frame
<1>4. CASE UNCHANGED vars
  BY <1>4, AccountKept, Zenon DEF vars, service, frame, ConfigsKept
<1> QED
  BY <1>1, <1>2, <1>3, <1>4, AccountKept, OthersKeepState, OthersKeepConfigs,
     Zenon
     DEF Next, Running, frame

\* The parts of a session exist in the order connectToChat makes them in, and
\* are parts of the same connection.
SetupInv ==
    \A i \in Conns :
        /\ reader[i].pc = "ready" \/ starter[i].pc = "ready" =>
              conn[i].pc = "waiting"
        /\ conn[i].pc \in {"waiting", "subscribing"} =>
              reader[i].pc # "unused" /\ starter[i].pc # "unused"
        /\ reader[i].pc # "unused" =>
              conn[i].pc \in {"waiting", "subscribing", "done"}
        /\ starter[i].pc # "unused" => starter[i].es = i
        /\ starter[i].pc = "done" => obj[i].m_callback
        /\ reader[i].pc \notin {"unused", "ready"} => reader[i].es = i
        /\ obj[i].subscribed => obj[i].m_callback /\ reader[i].es = i
        /\ m_state = "ChatConnected" /\ m_eventsub = i => obj[i].subscribed

\* At the start no connection is used.
LEMMA SetupInit == Init => SetupInv
  BY DEF Init, SetupInv

\* SetupInv is about these variables.
LEMMA SetupKept ==
    ASSUME SetupInv, UNCHANGED <<session, conn, spawned, obj>>
    PROVE  SetupInv'
  BY Zenon DEF SetupInv, session, spawned

\* Only an outcome of connectToChat is a change of the state here.
LEMMA SetupState ==
    ASSUME SetupInv, UNCHANGED <<conn, spawned, obj>>,
           m_state' # "ChatConnected"
    PROVE  SetupInv'
  BY Zenon DEF SetupInv, spawned

\* connectToChat sets up one part of the session after the other.
LEMMA SetupConnect ==
    ASSUME TypeInv, StateInv, SetupInv, NEW i \in Conns, Connect(i)
    PROVE  SetupInv'
<1> USE DEF TypeInv, ConnType, Stage
<1>1. CASE ConnectCheck(i)
  <2>1. /\ conn[i].pc = "ready" /\ conn'[i].pc \in {"checked", "done"}
        /\ \A j \in Conns \ {i} : conn'[j] = conn[j]
        /\ UNCHANGED <<m_state, m_eventsub, reader, starter, obj>>
    BY <1>1, Zenon DEF ConnectCheck, session, spawned
  <2>2. reader[i].pc = "unused"
    BY <2>1, Zenon DEF SetupInv
  <2> QED
    BY <2>1, <2>2 DEF SetupInv
<1>2. CASE ConnectSetup(i)
  <2>1. /\ conn[i].pc = "checked" /\ conn'[i].pc = "connecting"
        /\ m_state' = "ConnectingToChat"
        /\ \A j \in Conns \ {i} : conn'[j] = conn[j]
        /\ UNCHANGED <<reader, starter>>
    BY <1>2, Zenon DEF ConnectSetup, spawned
  <2>2. \A j \in Conns : /\ obj'[j].m_callback = obj[j].m_callback
                         /\ obj'[j].subscribed = obj[j].subscribed
    BY <1>2, Zenon DEF ConnectSetup, ObjType, Objects
  <2>3. reader[i].pc = "unused"
    BY <2>1, Zenon DEF SetupInv
  <2> QED
    BY <2>1, <2>2, <2>3 DEF SetupInv
<1>3. CASE ConnectOpened(i)
  <2>1. /\ conn[i].pc = "connecting" /\ conn'[i].pc = "waiting"
        /\ \A j \in Conns \ {i} : conn'[j] = conn[j]
        /\ UNCHANGED <<m_state, m_eventsub>>
    BY <1>3, Zenon DEF ConnectOpened, session
  <2>2. m_eventsub = i
    BY <2>1, Zenon DEF StateInv, Busy
  <2>3. /\ starter'[i].pc = "ready" /\ starter'[i].es = i
        /\ \A j \in Conns \ {i} : starter'[j] = starter[j]
    BY <1>3, <2>2, Zenon DEF ConnectOpened, StarterType
  <2>4. /\ reader'[i].pc = "ready" /\ reader'[i].es = reader[i].es
        /\ \A j \in Conns \ {i} : reader'[j] = reader[j]
    BY <1>3, Zenon DEF ConnectOpened, ReaderType
  <2>5. \A j \in Conns : /\ obj'[j].m_callback = obj[j].m_callback
                         /\ obj'[j].subscribed = obj[j].subscribed
    BY <1>3 DEF ConnectOpened, ObjType, Objects
  <2> QED
    BY <2>1, <2>3, <2>4, <2>5 DEF SetupInv
<1>4. CASE ConnectWaited(i)
  <2>1. CASE m_eventsub = None
    BY <1>4, <2>1, SetupKept, Zenon DEF ConnectWaited, Crash
  <2>2. CASE m_eventsub # None
    <3>1. /\ conn[i].pc = "waiting" /\ conn'[i].pc = "subscribing"
          /\ \A j \in Conns \ {i} : conn'[j] = conn[j]
          /\ UNCHANGED <<m_state, m_eventsub, reader, starter, obj>>
      BY <1>4, <2>2 DEF ConnectWaited, session, spawned
    <3>2. reader[i].pc # "ready" /\ starter[i].pc # "ready"
      BY <1>4, Zenon DEF ConnectWaited
    <3> QED
      BY <3>1, <3>2 DEF SetupInv
  <2> QED
    BY <2>1, <2>2, Zenon
<1>5. CASE ConnectSubscribed(i)
  <2>1. /\ conn[i].pc = "subscribing" /\ conn'[i].pc = "done"
        /\ \A j \in Conns \ {i} : conn'[j] = conn[j]
        /\ UNCHANGED <<m_eventsub, reader, starter, obj>>
        /\ obj[conn[i].es].subscribed
    BY <1>5, Zenon DEF ConnectSubscribed
  <2>2. m_eventsub = i /\ conn[i].es = i
    BY <2>1, Zenon DEF StateInv, Busy
  <2> QED
    BY <2>1, <2>2 DEF SetupInv
<1>6. CASE ConnectFails(i)
  <2>1. /\ conn[i].pc \in {"connecting", "subscribing"}
        /\ conn'[i].pc = "done" /\ m_state' = "Error"
        /\ \A j \in Conns \ {i} : conn'[j] = conn[j]
        /\ UNCHANGED <<m_eventsub, reader, starter, obj>>
    BY <1>6, Zenon DEF ConnectFails, spawned
  <2> QED
    BY <2>1 DEF SetupInv
<1> QED
  BY <1>1, <1>2, <1>3, <1>4, <1>5, <1>6, Zenon DEF Connect

\* A frame of the window can drop a session but completes none.
LEMMA SetupFrame ==
    ASSUME TypeInv, StateInv, SetupInv, Frame PROVE SetupInv'
<1>1. CASE SyncFrom \/ NoClick \/ ManageChat
  BY <1>1, SetupKept, Zenon DEF SyncFrom, NoClick, ManageChat
<1>2. CASE ClickLogin \/ ClickDisconnect \/ DropServices
  <2>1. m_state' # "ChatConnected" /\ UNCHANGED <<conn, spawned, obj>>
    BY <1>2, Zenon
    DEF ClickLogin, ClickDisconnect, DropServices, StateInv, Settled
  <2> QED
    BY <2>1, SetupState, Zenon
<1>3. CASE ClickConnect
  <2>1. PICK i \in Conns : /\ conn[i].pc = "unused"
                           /\ conn' = [conn EXCEPT ![i].pc = "ready"]
    BY <1>3, Zenon DEF ClickConnect
  <2>2. /\ conn'[i].pc = "ready"
        /\ \A j \in Conns \ {i} : conn'[j] = conn[j]
    BY <2>1, Zenon DEF TypeInv, ConnType, Stage
  <2>3. UNCHANGED <<m_state, m_eventsub, reader, starter, obj>>
    BY <1>3, Zenon DEF ClickConnect, session, spawned
  <2> QED
    BY <2>1, <2>2, <2>3 DEF SetupInv
<1> QED
  BY <1>1, <1>2, <1>3, Zenon DEF Frame

\* The read loop and the callback of a session are started.
LEMMA SetupStart ==
    ASSUME TypeInv, SetupInv, NEW i \in Conns, StartReading(i)
    PROVE  SetupInv'
<1>1. starter[i].pc = "ready" /\ starter[i].es = i
  BY Zenon DEF StartReading, SetupInv
<1>2. /\ UNCHANGED <<m_state, m_eventsub, conn, reader>>
      /\ obj' = [obj EXCEPT ![i].m_callback = TRUE]
      /\ starter' = [starter EXCEPT ![i].pc = "done"]
  BY <1>1 DEF StartReading, Conns, session
<1>3. /\ starter'[i].pc = "done" /\ starter'[i].es = i
      /\ \A j \in Conns \ {i} : starter'[j] = starter[j]
  BY <1>1, <1>2, Zenon DEF TypeInv, StarterType, Stage
<1>4. /\ obj'[i].m_callback = TRUE /\ obj'[i].subscribed = obj[i].subscribed
      /\ \A j \in Conns \ {i} : obj'[j] = obj[j]
  BY <1>2, Zenon DEF TypeInv, ObjType, Objects
<1> QED
  BY <1>2, <1>3, <1>4 DEF SetupInv

\* The read loop keeps to its own EventSub object.
LEMMA SetupRead ==
    ASSUME TypeInv, StateInv, SetupInv, NEW i \in Conns, Read(i)
    PROVE  SetupInv'
<1>1. CASE Crash
  BY <1>1, SetupKept, Zenon DEF Crash
<1>2. CASE ReadStart(i) /\ m_eventsub # None
  <2>1. /\ reader[i].pc = "ready"
        /\ reader' = [reader EXCEPT ![i].pc = NextRead(m_eventsub),
                                    ![i].es = m_eventsub]
        /\ UNCHANGED <<m_state, m_eventsub, conn, starter, obj>>
    BY <1>2, Zenon DEF ReadStart, session
  <2>2. m_eventsub = i
    BY <2>1, Zenon DEF SetupInv, StateInv, Busy
  <2>3. /\ reader'[i].pc \in {"reading", "done"} /\ reader'[i].es = i
        /\ \A j \in Conns \ {i} : reader'[j] = reader[j]
    <3>1. NextRead(m_eventsub) \in {"reading", "done"}
      BY Zenon DEF NextRead
    <3> QED
      BY <2>1, <2>2, <3>1, Zenon DEF TypeInv, ReaderType
  <2>4. conn[i].pc = "waiting" /\ starter[i].es = i
    BY <2>1, Zenon DEF SetupInv
  <2>5. UNCHANGED <<m_state, m_eventsub, conn, starter, obj>>
    BY <2>1, Zenon
  <2> QED
    BY <2>3, <2>4, <2>5 DEF SetupInv
<1>3. ASSUME ReadMessage(i) \/ ReadFails(i) \/ HandleMessage(i) \/ ReadAgain(i)
      PROVE  SetupInv'
  <2>1. /\ reader[i].pc \in Holding
        /\ reader'[i].pc \in Holding \cup {"done"}
        /\ reader'[i].es = reader[i].es
        /\ \A j \in Conns \ {i} : reader'[j] = reader[j]
    <3> USE DEF TypeInv, ReaderType, Holding, NextRead
    <3>1. CASE ReadMessage(i)
      BY <3>1, Zenon DEF ReadMessage
    <3>2. CASE ReadFails(i)
      BY <3>2, Zenon DEF ReadFails
    <3>3. CASE HandleMessage(i)
      BY <3>3, Zenon DEF HandleMessage
    <3>4. CASE ReadAgain(i)
      BY <3>4, Zenon DEF ReadAgain
    <3> QED
      BY <1>3, <3>1, <3>2, <3>3, <3>4, Zenon
  <2>2. \A j \in Conns : /\ obj'[j].m_callback = obj[j].m_callback
                         /\ obj'[j].subscribed = obj[j].subscribed
    <3>1. \/ UNCHANGED obj
          \/ obj' = [obj EXCEPT ![reader[i].es].wire = Tail(@)]
      BY <1>3, Zenon DEF ReadMessage, ReadFails, HandleMessage, ReadAgain
    <3>2. CASE obj' = [obj EXCEPT ![reader[i].es].wire = Tail(@)]
      BY <3>2, Zenon DEF TypeInv, ObjType, Objects
    <3> QED
      BY <3>1, <3>2, Zenon
  <2>3. UNCHANGED <<m_state, m_eventsub, conn, starter>>
    BY <1>3, Zenon DEF ReadMessage, ReadFails, HandleMessage, ReadAgain, session
  <2> QED
    BY <2>1, <2>2, <2>3 DEF SetupInv, Holding
<1> QED
  BY <1>1, <1>2, <1>3, Zenon DEF Read, ReadStart

\* Twitch subscribes a session that is set up, sends messages, or closes.
LEMMA SetupServer ==
    ASSUME TypeInv, StateInv, SetupInv, NEW e \in Conns, Server(e)
    PROVE  SetupInv'
<1>1. UNCHANGED <<m_state, m_eventsub, conn, reader, starter>>
  BY Zenon
  DEF Server, ServerSubscribes, ServerSends, ServerCloses, session, spawned
<1>2. \A j \in Conns : obj'[j].m_callback = obj[j].m_callback
  <2> USE DEF TypeInv, ObjType, Objects
  <2>1. CASE ServerSubscribes(e)
    BY <2>1, Zenon DEF ServerSubscribes
  <2>2. CASE ServerSends(e)
    <3>1. CASE obj' = [obj EXCEPT ![e].wire = Append(@, 0)]
      BY <3>1, Zenon
    <3>2. CASE obj' = [obj EXCEPT ![e].wire = Append(@, obj[e].last + 1),
                                  ![e].last = @ + 1]
      BY <3>2, Zenon
    <3> QED
      BY <2>2, <3>1, <3>2, Zenon DEF ServerSends
  <2>3. CASE ServerCloses(e)
    BY <2>3, Zenon DEF ServerCloses
  <2> QED
    BY <2>1, <2>2, <2>3, Zenon DEF Server
<1>3. CASE ServerSubscribes(e)
  <2>1. PICK i \in Conns : conn[i].pc = "subscribing" /\ conn[i].es = e
    BY <1>3, Zenon DEF ServerSubscribes
  <2>2. i = e
    BY <2>1, Zenon DEF StateInv, Busy
  <2>3. starter[e].pc = "done"
    BY <2>1, <2>2 DEF SetupInv, TypeInv, StarterType, Stage
  <2>4. reader[e].es = e /\ obj[e].m_callback
    BY <2>1, <2>2, <2>3 DEF SetupInv
  <2>5. /\ obj'[e].subscribed
        /\ \A j \in Conns \ {e} : obj'[j].subscribed = obj[j].subscribed
    BY <1>3, Zenon DEF ServerSubscribes, TypeInv, ObjType, Objects
  <2> QED
    BY <1>1, <1>2, <2>4, <2>5, Zenon DEF SetupInv
<1>4. CASE ServerSends(e) \/ ServerCloses(e)
  <2>1. \A j \in Conns : obj'[j].subscribed = obj[j].subscribed
    <3> USE DEF TypeInv, ObjType, Objects
    <3>1. CASE obj' = [obj EXCEPT ![e].wire = Append(@, 0)]
      BY <3>1, Zenon
    <3>2. CASE obj' = [obj EXCEPT ![e].wire = Append(@, obj[e].last + 1),
                                  ![e].last = @ + 1]
      BY <3>2, Zenon
    <3>3. CASE ServerCloses(e)
      BY <3>3, Zenon DEF ServerCloses
    <3> QED
      BY <1>4, <3>1, <3>2, <3>3, Zenon DEF ServerSends
  <2> QED
    BY <1>1, <1>2, <2>1, Zenon DEF SetupInv
<1> QED
  BY <1>3, <1>4, Zenon DEF Server

\* Every step that overtakes no call keeps SetupInv.
LEMMA SetupNext ==
    ASSUME TypeInv, StateInv, SetupInv, [Next]_vars
    PROVE  SetupInv'
<1>1. CASE LoginEnds
  <2>1. m_state' # "ChatConnected" /\ UNCHANGED <<conn, spawned, obj>>
    BY <1>1, Zenon DEF LoginEnds, LoginFails, LoginSucceeds
  <2> QED
    BY <2>1, SetupState, Zenon
<1>2. ASSUME NEW it \in Conns \X SubTypes, SubscribeStep(it)
      PROVE  SetupInv'
  BY <1>2 DEF SubscribeStep, Crash, session, spawned, SetupInv
<1>3. ASSUME NEW m \in sends, SendStarts(m) PROVE SetupInv'
  BY <1>3, SetupKept, Zenon DEF SendStarts, Crash
<1>4. CASE UNCHANGED vars
  BY <1>4, SetupKept, Zenon DEF vars, service
<1> QED
  BY Zenon, <1>1, <1>2, <1>3, <1>4, SetupConnect, SetupStart, SetupRead,
     SetupServer,
     SetupFrame DEF Next, Running

(***************************************************************************)
(* Until a call of connectToChat is overtaken, a session that the service  *)
(* calls connected has all its parts, and they belong to one login.        *)
(***************************************************************************)
THEOREM ConnectedSessionsAreComplete == Spec => []ConnectedSessionIsComplete
<1> DEFINE Known == StateInv /\ AccountInv /\ SetupInv
           Inv == TypeInv /\ (overtaken \/ Known)
<1>1. Init => Inv
  BY TypeInit, StateInit, AccountInit, SetupInit, Zenon
<1>2. Inv /\ [Next]_vars => Inv'
  BY Unovertaken, TypeNext, StateNext, AccountNext, SetupNext, Zenon
<1>3. Inv => ConnectedSessionIsComplete
  BY DEF ConnectedSessionIsComplete, AccountInv, SetupInv, Conns
<1> HIDE DEF Inv
<1> QED
  BY <1>1, <1>2, <1>3, PTL DEF Spec

-----------------------------------------------------------------------------
(***************************************************************************)
(* Messages on their way out.  A message waits for a thread as long as it  *)
(* takes; the EventSub it was meant for keeps the configuration it was     *)
(* created with, and is created once.                                      *)
(***************************************************************************)
Created(e) == conn[e].pc \in Busy \cup {"done"}

OutboxInv ==
    /\ m_eventsub \in Conns => Created(m_eventsub)
    /\ \A m \in sends : /\ m.for \in Conns /\ Created(m.for)
                        /\ m.user = obj[m.for].m_cfg
    /\ \A p \in posted : /\ p.channel = p.sender
                         /\ p.for = p.session => p.sender = p.user

\* An EventSub that has been created is not created again.
CreatedKept ==
    \A e \in Conns : Created(e) => Created(e)' /\ obj'[e].m_cfg = obj[e].m_cfg

\* At the start nothing has been typed.
LEMMA OutboxInit == Init => OutboxInv
<1>1. None \notin Conns
  BY DEF Conns
<1> QED
  BY <1>1, Zenon DEF Init, OutboxInv

\* OutboxInv is about these variables.
LEMMA OutboxKept ==
    ASSUME OutboxInv, CreatedKept, UNCHANGED outbox,
           m_eventsub' \in Conns => m_eventsub' = m_eventsub
    PROVE  OutboxInv'
<1>1. (m_eventsub \in Conns => Created(m_eventsub))'
  BY Zenon DEF OutboxInv, CreatedKept, Created
<1>2. \A m \in sends' : /\ m.for \in Conns /\ Created(m.for)'
                        /\ m.user = obj'[m.for].m_cfg
  BY Zenon DEF OutboxInv, CreatedKept, outbox
<1> QED
  BY <1>1, <1>2, Zenon DEF OutboxInv, outbox

\* Steps that are no part of connectToChat.
LEMMA SameCalls ==
    ASSUME UNCHANGED conn, ConfigsKept
    PROVE  CreatedKept
  BY Zenon DEF CreatedKept, Created, ConfigsKept

\* The request is built from the configuration of today's session.
LEMMA OutboxSend ==
    ASSUME TypeInv, AccountInv, OutboxInv, NEW m \in sends, SendStarts(m)
    PROVE  OutboxInv'
<1>1. CASE m_eventsub = None
  BY <1>1, OutboxKept, SameCalls, Zenon
  DEF SendStarts, Crash, ConfigsKept, session
<1>2. CASE m_eventsub # None
  <2> DEFINE request == [user |-> m.user, for |-> m.for,
                         channel |-> obj[m_eventsub].m_cfg,
                         sender |-> m_config, session |-> m_eventsub]
  <2>1. /\ sends' \subseteq sends
        /\ posted' \subseteq posted \cup {request}
        /\ UNCHANGED <<m_eventsub, conn, obj>>
    BY <1>2, Zenon DEF SendStarts, httpsPostAsync, session
  <2>2. /\ request.channel = request.sender
        /\ request.for = request.session => request.sender = request.user
    BY <1>2, Zenon DEF OutboxInv, AccountInv
  <2> HIDE DEF request
  <2> QED
    BY <2>1, <2>2, Zenon DEF OutboxInv, Created
<1> QED
  BY <1>1, <1>2, Zenon

\* A message is sent for a session whose account is the user's.
LEMMA OutboxAdd ==
    ASSUME OutboxInv, NEW u, NEW e \in Conns, Created(e), u = obj[e].m_cfg,
           sendMessage(u, e), UNCHANGED <<m_eventsub, conn, obj>>
    PROVE  OutboxInv'
<1>1. \/ UNCHANGED outbox
      \/ /\ sends' = sends \cup {[n |-> sent, user |-> u, for |-> e]}
         /\ UNCHANGED posted
  BY Zenon DEF sendMessage
<1>2. ASSUME NEW new, new.user = u, new.for = e,
             sends' = sends \cup {new}, UNCHANGED posted
      PROVE  OutboxInv'
  BY <1>2, Zenon DEF OutboxInv, Created
<1>3. CASE UNCHANGED outbox
  BY <1>3, Zenon DEF OutboxInv, Created, outbox
<1> QED
  BY <1>1, <1>2, <1>3, Zenon

\* The read loop sends the replies of commands, for its own session.
LEMMA OutboxRead ==
    ASSUME TypeInv, SetupInv, OutboxInv, NEW i \in Conns, Read(i)
    PROVE  OutboxInv'
<1>1. ConfigsKept /\ UNCHANGED <<m_eventsub, conn>>
  BY OthersKeepConfigs, OthersKeepState, Zenon DEF TypeInv, session
<1>2. CASE UNCHANGED outbox
  BY <1>1, <1>2, OutboxKept, SameCalls, Zenon
<1>3. CASE HandleMessage(i) /\ ~ UNCHANGED outbox
  <2>1. /\ reader[i].pc = "handling"
        /\ sendMessage(obj[reader[i].es].m_cfg, reader[i].es)
        /\ UNCHANGED obj
    BY <1>3, Zenon DEF HandleMessage
  <2>2. reader[i].es = i /\ Created(i)
    BY <2>1, Zenon DEF SetupInv, Created, Busy
  <2> QED
    BY <1>1, <2>1, <2>2, OutboxAdd, Zenon
<1>4. CASE ReadStart(i) \/ ReadMessage(i) \/ ReadFails(i) \/ ReadAgain(i)
  BY <1>2, <1>4, Zenon
  DEF ReadStart, ReadMessage, ReadFails, ReadAgain, Crash
<1> QED
  BY <1>2, <1>3, <1>4, Zenon DEF Read

\* connectToChat creates the EventSub of its own call.
LEMMA OutboxConnect ==
    ASSUME TypeInv, OutboxInv, NEW i \in Conns, Connect(i)
    PROVE  OutboxInv'
<1> USE DEF TypeInv, ConnType, Stage
<1>1. UNCHANGED outbox
  BY Zenon DEF Connect, ConnectCheck, ConnectSetup, ConnectOpened,
               ConnectWaited, ConnectSubscribed, ConnectFails, Crash
<1>2. CreatedKept
  <2>1. CASE ConnectSetup(i)
    <3>1. /\ conn[i].pc = "checked"
          /\ \A j \in Conns \ {i} : conn'[j] = conn[j] /\ obj'[j] = obj[j]
      BY <2>1, Zenon DEF ConnectSetup, ObjType, Objects
    <3> QED
      BY <3>1, Zenon DEF CreatedKept, Created, Busy
  <2>2. CASE ~ ConnectSetup(i)
    <3>1. ConfigsKept
      <4>1. \/ UNCHANGED obj
            \/ obj' = [obj EXCEPT ![conn[i].es].ws = "open"]
        BY <2>2, Zenon
        DEF Connect, ConnectCheck, ConnectOpened, ConnectWaited,
            ConnectSubscribed, ConnectFails, Crash
      <4>2. CASE obj' = [obj EXCEPT ![conn[i].es].ws = "open"]
        BY <4>2 DEF ConfigsKept, ObjType, Objects
      <4> QED
        BY <4>1, <4>2, Zenon DEF ConfigsKept
    <3>2. \/ UNCHANGED conn
          \/ /\ conn'[i].pc \in Busy \cup {"done"} \/ conn[i].pc = "ready"
             /\ \A j \in Conns \ {i} : conn'[j] = conn[j]
      BY <2>2
      DEF Connect, ConnectCheck, ConnectOpened, ConnectWaited,
          ConnectSubscribed, ConnectFails, Crash, Busy
    <3> QED
      BY <3>1, <3>2, Zenon DEF CreatedKept, Created, Busy, ConfigsKept
  <2> QED
    BY <2>1, <2>2, Zenon
<1>3. CASE m_eventsub' = m_eventsub
  BY <1>1, <1>2, <1>3, OutboxKept, Zenon
<1>4. CASE ConnectSetup(i)
  <2>1. m_eventsub' = i /\ conn'[i].pc = "connecting"
    BY <1>4, Zenon DEF ConnectSetup
  <2>2. \A m \in sends' : /\ m.for \in Conns /\ Created(m.for)'
                          /\ m.user = obj'[m.for].m_cfg
    BY <1>1, <1>2, Zenon DEF OutboxInv, CreatedKept, outbox
  <2> QED
    BY <1>1, <2>1, <2>2, Zenon DEF OutboxInv, Created, Busy, outbox
<1> QED
  BY <1>3, <1>4, Zenon DEF Connect, ConnectCheck, ConnectOpened,
     ConnectWaited, ConnectSubscribed, ConnectFails, Crash, session

\* What the user types is meant for the session they see.
LEMMA OutboxFrame ==
    ASSUME TypeInv, AccountInv, OutboxInv, Frame
    PROVE  OutboxInv'
<1>1. CASE ManageChat /\ ~ UNCHANGED outbox
  <2>1. /\ m_state = "ChatConnected"
        /\ sendMessage(m_current_user, m_eventsub)
        /\ UNCHANGED <<m_eventsub, conn, obj>>
    BY <1>1, Zenon DEF ManageChat, session
  <2>2. /\ m_eventsub \in Conns /\ m_eventsub # None
        /\ m_current_user = obj[m_eventsub].m_cfg
    BY <2>1 DEF AccountInv, Conns
  <2>3. Created(m_eventsub)
    BY <2>2, Zenon DEF OutboxInv
  <2> QED
    BY <2>1, <2>2, <2>3, OutboxAdd, Zenon
<1>2. CASE ClickConnect
  <2>1. PICK i \in Conns : /\ conn[i].pc = "unused"
                           /\ conn' = [conn EXCEPT ![i].pc = "ready"]
    BY <1>2, Zenon DEF ClickConnect
  <2>2. \A j \in Conns \ {i} : conn'[j] = conn[j]
    BY <2>1, Zenon DEF TypeInv, ConnType, Stage
  <2>3. UNCHANGED <<m_eventsub, obj, outbox>>
    BY <1>2, Zenon DEF ClickConnect, session
  <2>4. CreatedKept
    BY <2>1, <2>2, <2>3, Zenon DEF CreatedKept, Created, Busy
  <2> QED
    BY <2>3, <2>4, OutboxKept, Zenon
<1>3. ASSUME UNCHANGED <<conn, obj, outbox>>, m_eventsub' \in {m_eventsub, None}
      PROVE  OutboxInv'
  <2>1. m_eventsub' \in Conns => m_eventsub' = m_eventsub
    BY <1>3 DEF Conns
  <2> QED
    BY <1>3, <2>1, OutboxKept, SameCalls, Zenon DEF ConfigsKept
<1>4. CASE ManageChat /\ UNCHANGED outbox
  BY <1>3, <1>4, Zenon DEF ManageChat, session
<1>5. CASE SyncFrom \/ NoClick \/ ClickLogin \/ ClickDisconnect \/ DropServices
  BY <1>3, <1>5, Zenon
  DEF SyncFrom, NoClick, ClickLogin, ClickDisconnect, DropServices, session
<1> QED
  BY <1>1, <1>2, <1>4, <1>5, Zenon DEF Frame

\* Every step that overtakes no call keeps OutboxInv.
LEMMA OutboxNext ==
    ASSUME TypeInv, AccountInv, SetupInv, OutboxInv, [Next]_vars
    PROVE  OutboxInv'
<1>1. ASSUME ConfigsKept, UNCHANGED <<m_eventsub, conn, outbox>>
      PROVE  OutboxInv'
  BY <1>1, OutboxKept, SameCalls, Zenon
<1>2. CASE LoginEnds
  BY <1>1, <1>2, Zenon DEF LoginEnds, LoginFails, LoginSucceeds, ConfigsKept
<1>3. ASSUME NEW i \in Conns, StartReading(i) \/ Server(i) PROVE OutboxInv'
  <2>1. ConfigsKept /\ UNCHANGED <<m_eventsub, conn>>
    BY <1>3, OthersKeepConfigs, OthersKeepState, Zenon DEF TypeInv, session
  <2>2. UNCHANGED outbox
    BY <1>3, Zenon DEF StartReading, Crash, Server, ServerSubscribes,
                       ServerSends, ServerCloses
  <2> QED
    BY <1>1, <2>1, <2>2, Zenon
<1>4. ASSUME NEW it \in Conns \X SubTypes, SubscribeStep(it)
      PROVE  OutboxInv'
  <2>1. ConfigsKept /\ UNCHANGED <<m_eventsub, conn>>
    BY <1>4, OthersKeepConfigs, OthersKeepState, Zenon DEF TypeInv, session
  <2>2. UNCHANGED outbox
    BY <1>4, Zenon DEF SubscribeStep, Crash
  <2> QED
    BY <1>1, <2>1, <2>2, Zenon
<1>5. CASE UNCHANGED vars
  BY <1>1, <1>5, Zenon DEF vars, service, session, ConfigsKept
<1> QED
  BY <1>2, <1>3, <1>4, <1>5, OutboxConnect, OutboxRead, OutboxSend,
     OutboxFrame, Zenon
     DEF Next, Running

(***************************************************************************)
(* Until a call of connectToChat is overtaken, a message is posted by one  *)
(* account in its own channel, however late, and as long as the session it *)
(* was meant for is there, by the account the user was shown in it.        *)
(***************************************************************************)
THEOREM TypedMessagesAreOwn == Spec => []PostedAsTyped
<1> DEFINE Known == StateInv /\ AccountInv /\ SetupInv /\ OutboxInv
           Inv == TypeInv /\ (overtaken \/ Known)
<1>1. Init => Inv
  BY TypeInit, StateInit, AccountInit, SetupInit, OutboxInit, Zenon
<1>2. Inv /\ [Next]_vars => Inv'
  BY Unovertaken, TypeNext, StateNext, AccountNext, SetupNext, OutboxNext, Zenon
<1>3. Inv => PostedAsTyped
  BY Zenon DEF OutboxInv, PostedAsTyped
<1> HIDE DEF Inv
<1> QED
  BY <1>1, <1>2, <1>3, PTL DEF Spec

-----------------------------------------------------------------------------
\* The messages of a session are where InTransit says.
OrderInv ==
    /\ InOrder(Shown)
    /\ \A e \in Conns :
          /\ reader[e].msg # 0 => reader[e].pc = "handling"
          /\ obj[e].last > 0 => obj[e].subscribed
          /\ InTransit(obj[e].wire, reader[e].msg, obj[e].last,
                       NumbersOf(Shown, e))

\* The window shows what it showed and what was queued.
LEMMA ShownFacts ==
    ASSUME FeedType
    PROVE  /\ Shown \in Seq(Lines)
           /\ UNCHANGED feed => Shown' = Shown
           /\ processPendingMessages => Shown' = Shown
           /\ \A x \in Lines :
                 pushChatMessage(x) /\ UNCHANGED chat_log =>
                     Shown' = Append(Shown, x)
<1>1. pending \in Seq(Lines) /\ chat_log \in Seq(Lines)
  BY Zenon DEF FeedType, Lines
<1>2. chat_log \o pending \in Seq(Lines)
  BY <1>1
<1>3. (chat_log \o pending) \o << >> = chat_log \o pending
  BY <1>2
<1>4. \A x \in Lines :
          chat_log \o Append(pending, x) = Append(chat_log \o pending, x)
  BY <1>1
<1> QED
  BY <1>2, <1>3, <1>4, Zenon
     DEF Shown, feed, processPendingMessages, pushChatMessage

\* At the start no message is on its way.
LEMMA OrderInit == Init => OrderInv
<1> SUFFICES ASSUME Init PROVE OrderInv
  BY Zenon
<1>1. Shown = << >>
  BY DEF Init, Shown
<1>2. /\ InOrder(<< >>)
      /\ \A e : NumbersOf(<< >>, e) = {}
      /\ InTransit(<< >>, 0, 0, {})
  BY DEF InOrder, NumbersOf, InTransit
<1>3. \A e \in Conns : /\ reader[e].msg = 0
                       /\ obj[e].last = 0 /\ obj[e].wire = << >>
  BY Zenon DEF Init
<1>4. ASSUME NEW e \in Conns
      PROVE  /\ ~ (reader[e].msg # 0) /\ ~ (obj[e].last > 0)
             /\ InTransit(obj[e].wire, reader[e].msg, obj[e].last,
                          NumbersOf(Shown, e))
  <2>1. /\ reader[e].msg = 0 /\ obj[e].last = 0 /\ obj[e].wire = << >>
        /\ NumbersOf(Shown, e) = {}
    BY <1>1, <1>2, <1>3, Zenon
  <2>2. ~ (0 > 0)
    OBVIOUS
  <2> QED
    BY <1>2, <2>1, <2>2, Zenon
<1>5. InOrder(Shown)
  BY <1>1, <1>2, Zenon
<1> QED
  BY <1>4, <1>5, Zenon DEF OrderInv

\* A step that moves no message.
LEMMA OrderKept ==
    ASSUME OrderInv, Shown' = Shown,
           \A e \in Conns :
               /\ reader'[e].msg = reader[e].msg
               /\ reader[e].pc = "handling" => reader'[e].pc = "handling"
               /\ obj'[e].wire = obj[e].wire /\ obj'[e].last = obj[e].last
               /\ obj[e].subscribed => obj'[e].subscribed
    PROVE  OrderInv'
<1>1. InOrder(Shown')
  BY Zenon DEF OrderInv
<1>2. \A e \in Conns :
          InTransit(obj'[e].wire, reader'[e].msg, obj'[e].last,
                    NumbersOf(Shown', e))
  BY Zenon DEF OrderInv
<1>3. \A e \in Conns : /\ reader'[e].msg # 0 => reader'[e].pc = "handling"
                       /\ obj'[e].last > 0 => obj'[e].subscribed
  BY Zenon DEF OrderInv
<1> QED
  BY <1>1, <1>2, <1>3, Zenon DEF OrderInv

\* The read loop takes the first message from the wire.
LEMMA OrderReadMessage ==
    ASSUME TypeInv, SetupInv, OrderInv, NEW i \in Conns, ReadMessage(i)
    PROVE  OrderInv'
<1> DEFINE w == obj[i].wire
           S == NumbersOf(Shown, i)
<1>1. reader[i].pc = "reading" /\ reader[i].es = i /\ reader[i].msg = 0
  BY Zenon DEF ReadMessage, SetupInv, OrderInv
<1>2. w \in Seq(Nat) /\ w # << >> /\ obj[i].last \in Nat
  BY <1>1, Zenon DEF ReadMessage, TypeInv, ObjType, Objects
<1>3. /\ obj' = [obj EXCEPT ![i].wire = Tail(@)]
      /\ IF obj[i].m_callback
         THEN reader' = [reader EXCEPT ![i].pc = "handling", ![i].msg = Head(w)]
         ELSE reader' = [reader EXCEPT ![i].pc = NextRead(i)]
      /\ UNCHANGED feed
  BY <1>1, Zenon DEF ReadMessage
<1>4. /\ obj'[i].wire = Tail(w) /\ obj'[i].last = obj[i].last
      /\ obj'[i].subscribed = obj[i].subscribed
      /\ \A e \in Conns \ {i} : obj'[e] = obj[e]
  BY <1>3, Zenon DEF TypeInv, ObjType, Objects
<1>5. InTransit(Tail(w), Head(w), obj[i].last, S)
  <2>1. InTransit(w, 0, obj[i].last, S)
    BY <1>1, Zenon DEF OrderInv
  <2> HIDE DEF w, S
  <2> QED
    BY <1>2, <2>1, TakeFirst, Zenon
<1>6. /\ reader'[i].msg = Head(w)
      /\ reader'[i].msg # 0 => reader'[i].pc = "handling"
      /\ \A e \in Conns \ {i} : reader'[e] = reader[e]
  <2>1. CASE obj[i].m_callback
    BY <1>3, <2>1 DEF TypeInv, ReaderType
  <2>2. CASE ~ obj[i].m_callback
    <3>1. obj[i].last = 0
      <4>1. ~ obj[i].subscribed
        BY <2>2, Zenon DEF SetupInv
      <4>2. ~ (obj[i].last > 0)
        BY <4>1, Zenon DEF OrderInv
      <4> QED
        BY <1>2, <4>2
    <3>2. Head(w) = 0
      <4>1. Head(w) \in 0..obj[i].last
        BY <1>5, Zenon DEF InTransit
      <4> QED
        BY <3>1, <4>1
    <3> QED
      BY <1>1, <1>3, <2>2, <3>2 DEF TypeInv, ReaderType
  <2> QED
    BY <2>1, <2>2, Zenon
<1>7. Shown' = Shown
  BY <1>3, ShownFacts, Zenon DEF TypeInv
<1> HIDE DEF w, S
<1>8. ASSUME NEW e \in Conns
      PROVE  /\ reader'[e].msg # 0 => reader'[e].pc = "handling"
             /\ obj'[e].last > 0 => obj'[e].subscribed
             /\ InTransit(obj'[e].wire, reader'[e].msg, obj'[e].last,
                          NumbersOf(Shown, e))
  <2>1. CASE e = i
    BY <1>4, <1>5, <1>6, <2>1, Zenon DEF OrderInv, S
  <2>2. CASE e # i
    BY <1>4, <1>6, <2>2, Zenon DEF OrderInv
  <2> QED
    BY <2>1, <2>2, Zenon
<1> QED
  BY <1>7, <1>8, Zenon DEF OrderInv

\* The message in hand is shown, behind all before it.
LEMMA OrderHandleMessage ==
    ASSUME TypeInv, SetupInv, OrderInv, NEW i \in Conns, HandleMessage(i)
    PROVE  OrderInv'
<1> DEFINE h == reader[i].msg
           S == NumbersOf(Shown, i)
<1>1. reader[i].pc = "handling" /\ reader[i].es = i /\ UNCHANGED obj
  BY Zenon DEF HandleMessage, SetupInv
<1>2. /\ h \in Nat /\ obj[i].wire \in Seq(Nat) /\ obj[i].last \in Nat
      /\ InTransit(obj[i].wire, h, obj[i].last, S)
  BY Zenon DEF TypeInv, ReaderType, ObjType, Objects, OrderInv
<1>3. /\ reader'[i].msg = 0
      /\ \A e \in Conns \ {i} : reader'[e] = reader[e]
  BY Zenon DEF HandleMessage, TypeInv, ReaderType
<1>4. CASE h = 0
  <2>1. Shown' = Shown
    BY <1>4, ShownFacts, Zenon DEF HandleMessage, TypeInv, feed
  <2>2. \A e \in Conns : reader[e].msg # 0 => e # i
    BY <1>4, Zenon
  <2> QED
    BY <1>1, <1>3, <1>4, <2>1, Zenon DEF OrderInv
<1>5. CASE h # 0
  <2>1. Shown' = Append(Shown, <<i, h>>)
    <3>1. <<i, h>> \in Lines
      BY <1>2, Zenon DEF Lines
    <3> QED
      BY <1>1, <1>5, <3>1, ShownFacts, Zenon DEF HandleMessage, TypeInv
  <2>2. /\ InTransit(obj[i].wire, 0, obj[i].last, S \cup {h})
        /\ h \notin S
        /\ h > 1 => h - 1 \in S
    <3> HIDE DEF h, S
    <3> QED
      BY <1>2, <1>5, ShowNext, Zenon
  <2>3. /\ InOrder(Shown')
        /\ NumbersOf(Shown', i) = S \cup {h}
        /\ \A f \in Conns \ {i} : NumbersOf(Shown', f) = NumbersOf(Shown, f)
    <3>1. Shown \in Seq(Lines) /\ InOrder(Shown)
      BY ShownFacts, Zenon DEF TypeInv, OrderInv
    <3> HIDE DEF h
    <3>2. h \in Nat
      BY <1>2, Zenon
    <3>3. i \in Conns /\ h \notin NumbersOf(Shown, i)
          /\ (h > 1 => h - 1 \in NumbersOf(Shown, i))
      BY <2>2, Zenon
    <3>4. OneMoreOf(Shown', Shown, i, h)
      BY <2>1, <3>1, <3>2, <3>3, ShowInOrder, Zenon
    <3> QED
      BY <3>4, Zenon DEF OneMoreOf
  <2> HIDE DEF h, S
  <2>4. ASSUME NEW e \in Conns
        PROVE  /\ reader'[e].msg # 0 => reader'[e].pc = "handling"
               /\ obj'[e].last > 0 => obj'[e].subscribed
               /\ InTransit(obj'[e].wire, reader'[e].msg, obj'[e].last,
                            NumbersOf(Shown', e))
    <3>1. CASE e = i
      BY <1>1, <1>3, <2>2, <2>3, <3>1, Zenon DEF OrderInv
    <3>2. CASE e # i
      BY <1>1, <1>3, <2>3, <3>2, Zenon DEF OrderInv
    <3> QED
      BY <3>1, <3>2, Zenon
  <2> QED
    BY <2>3, <2>4, Zenon DEF OrderInv
<1> QED
  BY <1>4, <1>5, Zenon

\* Twitch sends the next message.
LEMMA OrderServer ==
    ASSUME TypeInv, OrderInv, NEW e \in Conns, Server(e)
    PROVE  OrderInv'
<1>1. Shown' = Shown /\ UNCHANGED reader
  BY ShownFacts, Zenon DEF Server, ServerSubscribes, ServerSends, ServerCloses,
                    TypeInv, spawned
<1>2. ObjType
  BY Zenon DEF TypeInv
<1>3. CASE ServerSubscribes(e)
  BY <1>1, <1>2, <1>3, OrderKept, Zenon DEF ServerSubscribes, ObjType, Objects
<1>4. CASE ServerCloses(e)
  BY <1>1, <1>2, <1>4, OrderKept, Zenon DEF ServerCloses, ObjType, Objects
<1>5. CASE ServerSends(e)
  <2> DEFINE w == obj[e].wire
             n == obj[e].last
             S == NumbersOf(Shown, e)
  <2>1. /\ w \in Seq(Nat) /\ n \in Nat /\ reader[e].msg \in Nat
        /\ InTransit(w, reader[e].msg, n, S)
    BY Zenon DEF TypeInv, ReaderType, ObjType, Objects, OrderInv
  <2>2. /\ InTransit(Append(w, 0), reader[e].msg, n, S)
        /\ InTransit(Append(w, n + 1), reader[e].msg, n + 1, S)
    <3> HIDE DEF w, n, S
    <3>1. 0 \in Nat /\ n + 1 \in Nat /\ n \in Nat
      BY <2>1
    <3>2. InTransit(Append(w, 0), reader[e].msg, n, S)
      BY <2>1, <3>1, SendOne, Zenon
    <3>3. InTransit(Append(w, n + 1), reader[e].msg, n + 1, S)
      BY <2>1, <3>1, SendOne, Zenon
    <3> QED
      BY <3>2, <3>3, Zenon
  <2>3. /\ \/ obj'[e].wire = Append(w, 0) /\ obj'[e].last = n
           \/ /\ obj'[e].wire = Append(w, n + 1) /\ obj'[e].last = n + 1
              /\ obj[e].subscribed
        /\ obj'[e].subscribed = obj[e].subscribed
        /\ \A f \in Conns \ {e} : obj'[f] = obj[f]
    <3>1. CASE obj' = [obj EXCEPT ![e].wire = Append(@, 0)]
      BY <1>2, <3>1, Zenon DEF ObjType, Objects
    <3>2. CASE /\ obj[e].subscribed
               /\ obj' = [obj EXCEPT ![e].wire = Append(@, obj[e].last + 1),
                                     ![e].last = @ + 1]
      BY <1>2, <3>2, Zenon DEF ObjType, Objects
    <3> QED
      BY <1>5, <3>1, <3>2, Zenon DEF ServerSends
  <2> HIDE DEF w
  <2>4. ASSUME NEW f \in Conns
        PROVE  /\ obj'[f].last > 0 => obj'[f].subscribed
               /\ InTransit(obj'[f].wire, reader[f].msg, obj'[f].last,
                            NumbersOf(Shown, f))
    <3>1. CASE f = e
      BY <2>2, <2>3, <3>1, Zenon DEF OrderInv
    <3>2. CASE f # e
      BY <2>3, <3>2, Zenon DEF OrderInv
    <3> QED
      BY <3>1, <3>2, Zenon
  <2> QED
    BY <1>1, <2>4, Zenon DEF OrderInv
<1> QED
  BY <1>3, <1>4, <1>5, Zenon DEF Server

\* Every step that overtakes no call keeps OrderInv.
LEMMA OrderNext ==
    ASSUME TypeInv, StateInv, SetupInv, OrderInv, [Next]_vars
    PROVE  OrderInv'
<1>1. CASE UNCHANGED <<feed, reader, obj>>
  BY <1>1, OrderKept, ShownFacts, Zenon DEF TypeInv
<1>2. CASE Crash
  BY <1>1, <1>2, Zenon DEF Crash, spawned
<1>3. CASE LoginEnds
  BY <1>1, <1>3, Zenon DEF LoginEnds, LoginFails, LoginSucceeds, spawned
<1>4. ASSUME NEW i \in Conns, Connect(i) PROVE OrderInv'
  <2>1. CASE ConnectSetup(i)
    <3>1. \A e \in Conns : /\ obj'[e].wire = obj[e].wire
                           /\ obj'[e].last = obj[e].last
                           /\ obj'[e].subscribed = obj[e].subscribed
      BY <2>1, Zenon DEF ConnectSetup, TypeInv, ObjType, Objects
    <3> QED
      BY <2>1, <3>1, OrderKept, ShownFacts, Zenon
      DEF ConnectSetup, TypeInv, spawned
  <2>2. CASE ConnectOpened(i)
    <3>1. \A e \in Conns : /\ obj'[e].wire = obj[e].wire
                           /\ obj'[e].last = obj[e].last
                           /\ obj'[e].subscribed = obj[e].subscribed
      BY <2>2, Zenon DEF ConnectOpened, TypeInv, ObjType, Objects
    <3>2. reader[i].pc = "unused"
      BY <2>2, Zenon DEF ConnectOpened, SetupInv
    <3>3. \A e \in Conns : /\ reader'[e].msg = reader[e].msg
                           /\ e # i => reader'[e].pc = reader[e].pc
      BY <2>2, Zenon DEF ConnectOpened, TypeInv, ReaderType
    <3>4. Shown' = Shown
      BY <2>2, ShownFacts, Zenon DEF ConnectOpened, TypeInv
    <3> QED
      BY <3>1, <3>2, <3>3, <3>4, OrderKept, Zenon
  <2>3. CASE ConnectCheck(i) \/ ConnectWaited(i) \/ ConnectSubscribed(i)
             \/ ConnectFails(i)
    BY <1>1, <1>2, <2>3, Zenon
    DEF ConnectCheck, ConnectWaited, ConnectSubscribed,
                            ConnectFails, spawned
  <2> QED
    BY <1>4, <2>1, <2>2, <2>3, Zenon DEF Connect
<1>5. ASSUME NEW i \in Conns, StartReading(i) PROVE OrderInv'
  <2>1. CASE starter[i].es # None
    <3>1. \A e \in Conns : /\ obj'[e].wire = obj[e].wire
                           /\ obj'[e].last = obj[e].last
                           /\ obj'[e].subscribed = obj[e].subscribed
      <4>1. obj' = [obj EXCEPT ![starter[i].es].m_callback = TRUE]
        BY <1>5, <2>1, Zenon DEF StartReading
      <4> QED
        BY <4>1, Zenon DEF TypeInv, ObjType, Objects
    <3> QED
      BY <1>5, <2>1, <3>1, OrderKept, ShownFacts, Zenon
      DEF StartReading, TypeInv
  <2> QED
    BY <1>2, <1>5, <2>1, Zenon DEF StartReading
<1>6. ASSUME NEW i \in Conns, Read(i) PROVE OrderInv'
  <2>1. CASE (ReadStart(i) /\ m_eventsub # None) \/ ReadFails(i) \/ ReadAgain(i)
    <3>1. /\ reader[i].pc # "handling"
          /\ UNCHANGED <<feed, obj>>
      BY <2>1, Zenon DEF ReadStart, ReadFails, ReadAgain
    <3>2. \A e \in Conns : /\ reader'[e].msg = reader[e].msg
                           /\ e # i => reader'[e].pc = reader[e].pc
      BY <2>1 DEF ReadStart, ReadFails, ReadAgain, TypeInv, ReaderType
    <3> QED
      BY <3>1, <3>2, OrderKept, ShownFacts, Zenon DEF TypeInv
  <2> QED
    BY <1>2, <1>6, <2>1, OrderReadMessage, OrderHandleMessage, Zenon
       DEF Read, ReadStart
<1>7. ASSUME NEW it \in Conns \X SubTypes, SubscribeStep(it)
      PROVE  OrderInv'
  BY <1>1, <1>2, <1>7, Zenon DEF SubscribeStep
<1>8. ASSUME NEW m \in sends, SendStarts(m) PROVE OrderInv'
  BY <1>1, <1>2, <1>8, Zenon DEF SendStarts, spawned
<1>9. CASE Frame
  <2>1. UNCHANGED <<reader, obj>>
    BY <1>9, Zenon DEF Frame, SyncFrom, NoClick, ClickLogin, ClickConnect,
                ClickDisconnect, DropServices, ManageChat, spawned
  <2>2. UNCHANGED feed \/ processPendingMessages
    BY <1>9, Zenon DEF Frame, SyncFrom, NoClick, ClickLogin, ClickConnect,
                ClickDisconnect, DropServices, ManageChat
  <2> QED
    BY <2>1, <2>2, OrderKept, ShownFacts, Zenon DEF TypeInv
<1>10. CASE UNCHANGED vars
  BY <1>1, <1>10, Zenon DEF vars, service, spawned
<1> QED
  BY <1>3, <1>4, <1>5, <1>6, <1>7, <1>8, <1>9, <1>10, OrderServer, Zenon
     DEF Next, Running

(***************************************************************************)
(* Until a call of connectToChat is overtaken, the chat window shows the   *)
(* messages of each session once each and in the order in which Twitch     *)
(* sent them, and no message is left out between two that are shown.       *)
(***************************************************************************)
THEOREM ChatIsShownInOrder == Spec => [](overtaken \/ ChatInOrder)
<1> DEFINE Known == StateInv /\ SetupInv /\ OrderInv
           Inv == TypeInv /\ (overtaken \/ Known)
<1>1. Init => Inv
  BY TypeInit, StateInit, SetupInit, OrderInit, Zenon
<1>2. Inv /\ [Next]_vars => Inv'
  BY Unovertaken, TypeNext, StateNext, SetupNext, OrderNext, Zenon
<1>3. Inv => overtaken \/ ChatInOrder
  BY Zenon DEF OrderInv, InOrder, ChatInOrder
<1> HIDE DEF Inv
<1> QED
  BY <1>1, <1>2, <1>3, PTL DEF Spec
=============================================================================
