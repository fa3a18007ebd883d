------------------------- MODULE Application_proofs -------------------------
(* Proofs about Application, for any number of threads and operations.     *)
EXTENDS Application, TLAPS

(***************************************************************************)
(* Threads: one that has left io_context::run is in no operation, and the  *)
(* destructor of the manager has seen leave those it has joined.           *)
(***************************************************************************)
ThreadInv ==
    /\ manager \in {"none", "alive", "destroying", "destroyed"}
    /\ thread \in [Pool -> {"none", "running", "returned"}]
    /\ task \in [Pool -> Operations \cup {NoOperation}]
    /\ joined \in 0..m_thread_count
    /\ \A t \in Pool : thread[t] = "returned" => task[t] = NoOperation
    /\ manager \in {"destroying", "destroyed"} =>
          \A t \in 1..joined : thread[t] = "returned"
    /\ manager = "destroyed" => joined = m_thread_count

(***************************************************************************)
(* Operations: each is at most once in the queue or on a thread, is then   *)
(* outstanding, and owns the manager only while it waits for a request.    *)
(***************************************************************************)
OperationInv ==
    /\ ready \in Seq(Operations)
    /\ outstanding \subseteq Operations
    /\ send \in [Sends -> {"unused", "spawned", "streams", "games", "post",
                           "done"}]
    /\ \A i, j \in 1..Len(ready) : i # j => ready[i] # ready[j]
    /\ \A i \in 1..Len(ready) :
          /\ ready[i] \in outstanding
          /\ \A t \in Pool : task[t] # ready[i]
    /\ \A t \in Pool : task[t] # NoOperation => task[t] \in outstanding
    /\ \A t, u \in Pool : t # u /\ task[t] = task[u] => task[t] = NoOperation
    /\ \A s \in Sends : s \in owners =>
          /\ s \in outstanding
          /\ \A t \in Pool : task[t] # s
    /\ \A s \in Sends : s \in outstanding => send[s] \notin {"unused", "done"}

(***************************************************************************)
(* The main thread: which members there are in which phase, and that the   *)
(* owners of the manager are members and requests.                         *)
(***************************************************************************)
MainInv ==
    /\ phase \in {"constructing", "running", "destroying", "exited"}
    /\ owners \subseteq Owning \cup Sends
    /\ owners \cap Owning = live \cap Owning
    /\ owners # {} <=> manager = "alive"
    /\ live \subseteq Objects
    /\ live # {} => "m_conn" \in live
    /\ phase = "constructing" =>
          /\ step \in 1..Len(Constructed)
          /\ \A i \in 1..(step - 1) : Constructed[i] \in live
          /\ outstanding = {}
    /\ phase \in {"constructing", "running"} => at_close = {}
    /\ phase = "running" => Owning \subseteq live
    /\ phase = "running" => step = Len(Declared)
    /\ phase \in {"destroying", "exited"} =>
          /\ step \in 0..Len(Declared)
          /\ \A o \in live : \E i \in 1..step : o = Declared[i]
    /\ phase = "exited" => step = 0

(***************************************************************************)
(* After the window is closed nothing new is outstanding, and only a test  *)
(* message that has outlived the members can make a thread of the pool     *)
(* destroy the manager.                                                    *)
(***************************************************************************)
CloseInv ==
    /\ phase \in {"destroying", "exited"} => outstanding \subseteq at_close
    /\ destroyer # Main => TestOutlivesMembers
    /\ phase = "exited" => manager # "destroying" \/ destroyer # Main

ApplicationInv == ThreadInv /\ OperationInv /\ MainInv /\ CloseInv

-----------------------------------------------------------------------------
(* What the parts of the invariant depend on.                              *)

\* ThreadInv is about the pool and the destructor of the manager.
LEMMA ThreadFrame ==
    ASSUME ThreadInv, UNCHANGED <<manager, threads, joined>>
    PROVE  ThreadInv'
BY Zenon DEF ThreadInv, threads

\* OperationInv is about the queue, the tasks and the references.
LEMMA OperationFrame ==
    ASSUME OperationInv, UNCHANGED <<ready, outstanding, send, task, owners>>
    PROVE  OperationInv'
BY Zenon DEF OperationInv

\* MainInv is about the members, the owners and what is outstanding.
LEMMA MainFrame ==
    ASSUME MainInv, UNCHANGED <<main, manager, owners, outstanding>>
    PROVE  MainInv'
BY Zenon DEF MainInv, main

\* CloseInv is about the members, the destroyer and what is outstanding.
LEMMA CloseFrame ==
    ASSUME CloseInv, UNCHANGED <<main, manager, outstanding, destroyer>>
    PROVE  CloseInv'
BY Zenon DEF CloseInv, TestOutlivesMembers, main

-----------------------------------------------------------------------------
(* The queue and the threads.                                              *)

\* A thread that takes the first operation of the queue drops the reference
\* of that operation, if it has one.
LEMMA TakeOperation ==
    ASSUME OperationInv, task \in [Pool -> Operations \cup {NoOperation}],
           NEW t \in Pool, NEW op, Take(t, op),
           \A s \in Sends : s \in owners' => s \in owners /\ s # op,
           UNCHANGED send
    PROVE  OperationInv'
<1>1. /\ ready # << >> /\ ready \in Seq(Operations) /\ op = ready[1]
      /\ ready' = Tail(ready) /\ task' = [task EXCEPT ![t] = op]
      /\ outstanding' = outstanding
      /\ op \in Operations
    BY DEF Take, OperationInv
<1>2. /\ ready' \in Seq(Operations) /\ Len(ready') = Len(ready) - 1
      /\ Len(ready) \in Nat
      /\ \A i \in 1..Len(ready') : ready'[i] = ready[i + 1]
    BY <1>1
<1>3. \A u \in Pool : task'[u] = IF u = t THEN op ELSE task[u]
    BY <1>1, Zenon
<1>4. ASSUME NEW i \in 1..Len(ready'), NEW j \in 1..Len(ready'), i # j
      PROVE  ready'[i] # ready'[j]
    <2>1. i + 1 \in 1..Len(ready) /\ j + 1 \in 1..Len(ready) /\ i + 1 # j + 1
        BY <1>2, <1>4
    <2>2. ready[i + 1] # ready[j + 1]
        BY <2>1, Zenon DEF OperationInv
    <2> QED  BY <1>2, <2>2, Zenon
<1>5. \A i \in 1..Len(ready') :
         /\ ready'[i] \in outstanding'
         /\ \A u \in Pool : task'[u] # ready'[i]
    BY <1>1, <1>2, <1>3 DEF OperationInv
<1>6. 1 \in 1..Len(ready)
    BY <1>1
<1>7. op \in outstanding /\ \A u \in Pool : task[u] # op
    BY <1>1, <1>6, Zenon DEF OperationInv
<1>8. \A u \in Pool : task'[u] # NoOperation => task'[u] \in outstanding'
    BY <1>1, <1>3, <1>7, Zenon DEF OperationInv
<1>9. \A u, v \in Pool : u # v /\ task'[u] = task'[v] => task'[u] = NoOperation
    BY <1>3, <1>7, Zenon DEF OperationInv
<1>10. \A s \in Sends : s \in owners' =>
          /\ s \in outstanding'
          /\ \A u \in Pool : task'[u] # s
    BY <1>1, <1>3, Zenon DEF OperationInv
<1> QED
    BY <1>1, <1>2, <1>4, <1>5, <1>8, <1>9, <1>10, Zenon DEF OperationInv

\* A thread leaves an operation that goes on, and may own the manager then,
\* or that is over.
LEMMA YieldOperation ==
    ASSUME OperationInv, task \in [Pool -> Operations \cup {NoOperation}],
           NEW t \in Pool, NEW op \in Operations, task[t] = op, Yield(t),
           op # NoOperation,
           outstanding' \in {outstanding, outstanding \ {op}},
           \A s \in Sends : s \in owners' =>
               s \in owners \/ (s = op /\ op \in outstanding'),
           send' \in [Sends -> {"unused", "spawned", "streams", "games",
                                "post", "done"}],
           \A s \in Sends : s \in outstanding' =>
               send'[s] \notin {"unused", "done"},
           UNCHANGED ready
    PROVE  OperationInv'
<1>1. \A u \in Pool : task'[u] = IF u = t THEN NoOperation ELSE task[u]
    BY Zenon DEF Yield
<1>2. \A u \in Pool : task'[u] # op
    BY <1>1, Zenon DEF OperationInv
<1>3. op \in outstanding
    BY Zenon DEF OperationInv
<1>4. \A i \in 1..Len(ready) : ready[i] # op
    BY Zenon DEF OperationInv
<1>5. \A i \in 1..Len(ready') :
         /\ ready'[i] \in outstanding'
         /\ \A u \in Pool : task'[u] # ready'[i]
    <2> SUFFICES ASSUME NEW i \in 1..Len(ready)
                 PROVE  /\ ready[i] \in outstanding'
                        /\ \A u \in Pool : task'[u] # ready[i]
        BY Zenon
    <2>1. ready[i] \in outstanding /\ ready[i] # op
        BY <1>4, Zenon DEF OperationInv
    <2>2. ready[i] \in Operations
        BY Zenon DEF OperationInv
    <2>3. ready[i] # NoOperation
        BY <2>2, ManagerAssumption, Zenon
    <2> QED  BY <1>1, <2>1, <2>3 DEF OperationInv
<1>6. \A u \in Pool : task'[u] # NoOperation => task'[u] \in outstanding'
    BY <1>1, <1>2, Zenon DEF OperationInv
<1>7. \A u, v \in Pool : u # v /\ task'[u] = task'[v] => task'[u] = NoOperation
    BY <1>1, Zenon DEF OperationInv
<1>8. \A s \in Sends : s \in owners' => \A u \in Pool : task'[u] # s
    <2> SUFFICES ASSUME NEW s \in Sends, s \in owners', NEW u \in Pool
                 PROVE  task'[u] # s
        BY Zenon
    <2>1. s # NoOperation
        BY ManagerAssumption, ApplicationAssumption, Zenon
    <2>2. CASE s = op  BY <2>2, <1>2
    <2>3. CASE s \in owners  BY <2>3, <2>1, <1>1 DEF OperationInv
    <2> QED  BY <2>2, <2>3
<1>9. \A s \in Sends : s \in owners' => s \in outstanding'
    <2> SUFFICES ASSUME NEW s \in Sends, s \in owners'
                 PROVE  s \in outstanding'
        BY Zenon
    <2>1. CASE s \in owners  BY <2>1 DEF OperationInv
    <2> QED  BY <2>1
<1>10. outstanding' \subseteq Operations /\ ready' \in Seq(Operations)
    BY Zenon DEF OperationInv
<1>11. \A i, j \in 1..Len(ready') : i # j => ready'[i] # ready'[j]
    BY Zenon DEF OperationInv
<1> QED
    BY <1>5, <1>6, <1>7, <1>8, <1>9, <1>10, <1>11, Zenon DEF OperationInv

\* An operation that is not outstanding, or is waiting, enters the queue.
LEMMA EnqueueOperation ==
    ASSUME OperationInv, NEW op \in Operations,
           ready' = Append(ready, op),
           \A i \in 1..Len(ready) : ready[i] # op,
           \A t \in Pool : task[t] # op,
           outstanding' = outstanding \cup {op},
           send' \in [Sends -> {"unused", "spawned", "streams", "games",
                                "post", "done"}],
           \A s \in Sends : s \in outstanding' =>
               send'[s] \notin {"unused", "done"},
           UNCHANGED <<task, owners>>
    PROVE  OperationInv'
<1>1. ready \in Seq(Operations)
    BY Zenon DEF OperationInv
<1>2. /\ ready' \in Seq(Operations) /\ Len(ready') = Len(ready) + 1
      /\ Len(ready) \in Nat
      /\ \A i \in 1..Len(ready) : ready'[i] = ready[i]
      /\ ready'[Len(ready) + 1] = op
    BY <1>1
<1>3. \A i \in 1..Len(ready') :
         (i \in 1..Len(ready) /\ ready'[i] = ready[i])
         \/ (i = Len(ready) + 1 /\ ready'[i] = op)
    BY <1>2
<1>4. \A i, j \in 1..Len(ready') : i # j => ready'[i] # ready'[j]
    BY <1>3 DEF OperationInv
<1>5. \A i \in 1..Len(ready') :
         /\ ready'[i] \in outstanding'
         /\ \A u \in Pool : task'[u] # ready'[i]
    BY <1>3 DEF OperationInv
<1> QED
    BY <1>2, <1>4, <1>5 DEF OperationInv


-----------------------------------------------------------------------------
(* The members.                                                            *)

\* Eleven members; those that own the manager are among them and are no
\* operations.
LEMMA Members ==
    /\ Len(Declared) = 11 /\ Len(Constructed) = 11
    /\ Owning \subseteq Objects
    /\ Owning \cap Sends = {}
    /\ \A o \in Objects : \E i \in 1..11 : o = Declared[i]
    /\ \A i \in 1..11 : Declared[i] \in Objects
<1>1. Len(Declared) = 11 /\ Len(Constructed) = 11
    BY Zenon DEF Declared, Constructed
<1>2. DOMAIN Declared = 1..11
    BY DEF Declared
<1>3. Objects = {Declared[i] : i \in 1..11}
    BY <1>2, Zenon DEF Objects, Range
<1>4. /\ Declared[1] = "m_conn" /\ Declared[5] = "m_tw_service"
      /\ Declared[6] = "m_disc_not"
    BY Zenon DEF Declared
<1>5. Owning \subseteq Objects
    BY <1>3, <1>4 DEF Owning
<1> QED  BY <1>1, <1>3, <1>5, ApplicationAssumption

\* While the window is open the members own the manager.
LEMMA MembersOwn ==
    ASSUME MainInv, phase = "running"
    PROVE  /\ Owning \subseteq owners /\ Owning \subseteq live
           /\ "m_conn" \in owners /\ "m_disc_not" \in owners
           /\ manager = "alive"
BY Zenon DEF MainInv, Owning

\* An operation is outstanding only after the construction, and after the
\* window is closed only if it was when it was.
LEMMA OutstandingWhen ==
    ASSUME MainInv, CloseInv, NEW op \in outstanding
    PROVE  /\ phase \in {"running", "destroying", "exited"}
           /\ phase # "running" => op \in at_close
BY Zenon DEF MainInv, CloseInv

-----------------------------------------------------------------------------
(* Steps of the main thread.                                               *)

\* A constructor that throws leaves the members that are there.
LEMMA ConstructFailsStep ==
    ASSUME ApplicationInv, ConstructFails
    PROVE  ApplicationInv'
<1>1. ThreadInv'
    BY ThreadFrame, Zenon
    DEF ApplicationInv, ConstructFails, managerVars, lifetime, threads
<1>2. OperationInv'
    BY OperationFrame, Zenon
    DEF ApplicationInv, ConstructFails, managerVars, lifetime, threads,
        io_context, notifications
<1>3. /\ phase = "constructing" /\ phase' = "destroying" /\ step' = 11
      /\ UNCHANGED <<live, at_close, manager, owners, outstanding, destroyer,
                     crash>>
    BY Members, Zenon DEF ConstructFails, managerVars, lifetime, io_context
<1>4. \A o \in live' : \E i \in 1..step' : o = Declared[i]
    BY <1>3, Members, Zenon DEF ApplicationInv, MainInv
<1>5. MainInv'
    BY <1>3, <1>4, Members DEF ApplicationInv, MainInv
<1>6. CloseInv'
    BY <1>3, Zenon DEF ApplicationInv, MainInv, CloseInv, TestOutlivesMembers
<1> QED  BY <1>1, <1>2, <1>5, <1>6 DEF ApplicationInv

\* Closing the window records what is outstanding.
LEMMA CloseWindowStep ==
    ASSUME ApplicationInv, CloseWindow
    PROVE  ApplicationInv'
<1>1. ThreadInv'
    BY ThreadFrame, Zenon
    DEF ApplicationInv, CloseWindow, managerVars, lifetime, threads
<1>2. OperationInv'
    BY OperationFrame, Zenon
    DEF ApplicationInv, CloseWindow, managerVars, lifetime, threads,
        io_context, notifications
<1>3. /\ phase = "running" /\ phase' = "destroying"
      /\ at_close' = outstanding
      /\ UNCHANGED <<step, live, manager, owners, outstanding, destroyer,
                     crash>>
    BY Zenon DEF CloseWindow, managerVars, lifetime, io_context
<1>4. step = 11 /\ \A o \in live : \E i \in 1..step : o = Declared[i]
    BY <1>3, Members, Zenon DEF ApplicationInv, MainInv
<1>5. MainInv'
    BY <1>3, <1>4, Members DEF ApplicationInv, MainInv
<1>6. CloseInv'
    BY <1>3, Zenon DEF ApplicationInv, MainInv, CloseInv, TestOutlivesMembers
<1> QED  BY <1>1, <1>2, <1>5, <1>6 DEF ApplicationInv

\* main returns when no member is left.
LEMMA ExitStep ==
    ASSUME ApplicationInv, Exit
    PROVE  ApplicationInv'
<1>1. ThreadInv'
    BY ThreadFrame, Zenon
    DEF ApplicationInv, Exit, managerVars, lifetime, threads
<1>2. OperationInv'
    BY OperationFrame, Zenon
    DEF ApplicationInv, Exit, managerVars, lifetime, threads, io_context,
        notifications
<1>3. /\ phase = "destroying" /\ phase' = "exited" /\ step = 0
      /\ ~ (manager = "destroying" /\ destroyer = Main)
      /\ UNCHANGED <<step, live, at_close, manager, owners, outstanding,
                     destroyer, crash>>
    BY Zenon DEF Exit, managerVars, lifetime, io_context
<1>4. MainInv'
    BY <1>3, Zenon DEF ApplicationInv, MainInv
<1>5. CloseInv'
    BY <1>3, Zenon DEF ApplicationInv, CloseInv, TestOutlivesMembers
<1> QED  BY <1>1, <1>2, <1>4, <1>5 DEF ApplicationInv

\* A member is destroyed, and drops its reference if it has one.
LEMMA DestroyStep ==
    ASSUME ApplicationInv, Destroy
    PROVE  ApplicationInv'
<1> DEFINE o == Declared[step]
<1>1. /\ phase = "destroying" /\ step > 0 /\ step' = step - 1
      /\ live' = live \ {o}
      /\ UNCHANGED <<phase, at_close, outstanding, ready, thread, task, send>>
      /\ crash' \in {crash, "lua state"}
    BY Zenon DEF Destroy, threads, notifications
<1>2. step \in 1..11
    <2>1. step \in 0..Len(Declared)
        BY <1>1, Zenon DEF ApplicationInv, MainInv
    <2>2. Len(Declared) = 11
        BY Members, Zenon
    <2>3. step \in 0..11 /\ step > 0
        BY <1>1, <2>1, <2>2, Zenon
    <2> HIDE DEF o
    <2> QED  BY <2>3
<1>3. o \in Objects
    BY <1>2, Members, Zenon
<1>4. \/ /\ o \in live \cap Owning
         /\ owners' = owners \ {o}
         /\ IF owners' = {} /\ manager = "alive"
            THEN manager' = "destroying" /\ destroyer' = Main /\ joined' = 0
            ELSE UNCHANGED <<manager, destroyer, joined>>
      \/ /\ o \notin live \cap Owning
         /\ UNCHANGED <<owners, manager, destroyer, joined>>
    BY Zenon DEF Destroy, Release, lifetime
<1>5. owners' \subseteq owners /\ (o \in Owning => o \notin Sends)
    BY <1>4, Members, Zenon
<1> HIDE DEF o
<1>6. ThreadInv'
    <2>1. UNCHANGED <<thread, task>>
        BY <1>1, Zenon
    <2>2. \/ UNCHANGED <<manager, joined>>
          \/ manager' = "destroying" /\ joined' = 0
        BY <1>4, Zenon
    <2> QED  BY <2>1, <2>2, ManagerAssumption DEF ApplicationInv, ThreadInv
<1>7. OperationInv'
    BY <1>1, <1>5, Zenon DEF ApplicationInv, OperationInv
<1>8. /\ owners' \cap Owning = live' \cap Owning
      /\ owners' \subseteq Owning \cup Sends
      /\ live' \subseteq Objects
    BY <1>1, <1>4, <1>5, Zenon DEF ApplicationInv, MainInv
<1>9. owners' # {} <=> manager' = "alive"
    BY <1>1, <1>4, Zenon DEF ApplicationInv, MainInv
<1>10. /\ step' \in 0..11
       /\ \A x \in live' : \E i \in 1..step' : x = Declared[i]
    <2>0. step' = step - 1
        BY <1>1, Zenon
    <2>1. step' \in 0..11
        BY <2>0, <1>2
    <2>2. SUFFICES ASSUME NEW x \in live'
                   PROVE  \E i \in 1..step' : x = Declared[i]
        BY <2>1, Zenon
    <2>3. PICK i \in 1..step : x = Declared[i]
        BY <1>1, Zenon DEF ApplicationInv, MainInv
    <2>4. i # step
        BY <1>1, <2>3, Zenon DEF o
    <2> QED  BY <2>0, <1>2, <2>3, <2>4
<1>11. live' # {} => "m_conn" \in live'
    <2>1. Declared[1] = "m_conn" /\ (o = "m_conn" => step = 1)
        BY <1>2 DEF o, Declared
    <2>2. CASE step = 1
        <3>1. step' = 0
            <4>1. step' = step - 1
                BY <1>1, Zenon
            <4> QED  BY <2>2, <4>1
        <3>2. \A i \in 1..0 : FALSE
            OBVIOUS
        <3>3. live' = {}
            BY <1>10, <3>1, <3>2, Zenon
        <3> QED  BY <3>3, Zenon
    <2>3. CASE step # 1
        BY <1>1, <2>1, <2>3, Zenon DEF ApplicationInv, MainInv
    <2> QED  BY <2>2, <2>3
<1>12. MainInv'
    BY <1>1, <1>8, <1>9, <1>10, <1>11, Members, Zenon
    DEF ApplicationInv, MainInv
<1>13. CloseInv'
    BY <1>1, <1>4, Zenon DEF ApplicationInv, CloseInv, TestOutlivesMembers
<1> QED  BY <1>6, <1>7, <1>12, <1>13 DEF ApplicationInv

\* A member is constructed; the first creates the manager and its threads,
\* those that own it add a reference.
LEMMA ConstructStep ==
    ASSUME ApplicationInv, Construct
    PROVE  ApplicationInv'
<1> DEFINE o == Constructed[step]
<1>1. /\ phase = "constructing"
      /\ live' = live \cup {o}
      /\ UNCHANGED <<at_close, send, outstanding, ready, task, crash,
                     destroyer, joined>>
      /\ \/ step = 11 /\ phase' = "running" /\ step' = 11
         \/ step # 11 /\ step' = step + 1 /\ phase' = phase
    BY Members, Zenon
    DEF Construct, CreateManager, Acquire, managerVars, lifetime, io_context,
        threads, notifications
<1>2. \/ /\ o = "m_conn" /\ manager = "none"
         /\ manager' = "alive" /\ owners' = {o}
         /\ thread' = [t \in Pool |-> "running"]
      \/ /\ o \in Owning \ {"m_conn"}
         /\ owners' = owners \cup {o} /\ UNCHANGED <<manager, thread>>
      \/ o \notin Owning /\ UNCHANGED <<owners, manager, thread>>
    BY Zenon
    DEF Construct, CreateManager, Acquire, managerVars, lifetime, threads
<1>3. /\ step \in 1..11 /\ outstanding = {} /\ at_close = {}
      /\ \A i \in 1..(step - 1) : Constructed[i] \in live
    BY <1>1, Members, Zenon DEF ApplicationInv, MainInv
<1>4. o \in Objects
    <2>1. \A i \in 1..11 : \E j \in 1..11 : Constructed[i] = Declared[j]
        BY DEF Constructed, Declared
    <2> QED  BY <1>3, <2>1, Members
<1>5. o \notin Sends
    BY <1>4, ApplicationAssumption, Zenon
<1>6. /\ Constructed[1] = "m_conn" /\ Constructed[5] = "m_tw_service"
      /\ Constructed[6] = "m_disc_not"
    BY Zenon DEF Constructed
<1>7. owners \cap Sends = {}
    BY <1>3, Zenon DEF ApplicationInv, OperationInv
<1>8. ThreadInv'
    BY <1>1, <1>2, ManagerAssumption, Zenon DEF ApplicationInv, ThreadInv
<1>9. OperationInv'
    <2>1. \A s \in Sends : s \notin owners'
        BY <1>2, <1>5, <1>7, Zenon
    <2>2. OperationInv
        BY Zenon DEF ApplicationInv
    <2> QED  BY <1>1, <2>1, <2>2 DEF OperationInv
<1>10. o \in Owning \ {"m_conn"} => manager = "alive"
    <2>1. SUFFICES ASSUME o \in Owning \ {"m_conn"} PROVE "m_conn" \in live
        BY Zenon DEF ApplicationInv, MainInv, Owning
    <2>2. step # 1
        BY <2>1, <1>6, Zenon
    <2> QED  BY <1>3, <1>6, <2>2
<1>11. /\ owners' \cap Owning = live' \cap Owning
       /\ owners' \subseteq Owning \cup Sends
       /\ live' \subseteq Objects /\ "m_conn" \in live'
    <2>1. manager = "none" => owners = {}
        BY Zenon DEF ApplicationInv, MainInv
    <2>2. "m_conn" \in live'
        <3>1. CASE step = 1
            BY <1>1, <1>6, <3>1, Zenon
        <3>2. CASE step # 1
            <4>1. 1 \in 1..(step - 1)
                BY <1>3, <3>2
            <4> QED  BY <1>1, <1>3, <1>6, <4>1, Zenon
        <3> QED  BY <3>1, <3>2
    <2> QED  BY <2>2, <1>1, <1>2, <1>4, <2>1 DEF ApplicationInv, MainInv, Owning
<1>12. owners' # {} <=> manager' = "alive"
    BY <1>2, <1>10, Zenon DEF ApplicationInv, MainInv
<1>13. /\ \A i \in 1..step : Constructed[i] \in live'
       /\ step # 11 => \A i \in 1..(step' - 1) : Constructed[i] \in live'
    BY <1>1, <1>3
<1>14. phase' = "running" => Owning \subseteq live'
    BY <1>1, <1>6, <1>13 DEF Owning
<1>15. MainInv'
    BY <1>1, <1>3, <1>11, <1>12, <1>13, <1>14, Members
    DEF ApplicationInv, MainInv
<1>16. CloseInv'
    BY <1>1, <1>3, Zenon DEF ApplicationInv, CloseInv, TestOutlivesMembers
<1> QED  BY <1>8, <1>9, <1>15, <1>16 DEF ApplicationInv

\* The user spawns operations only while the window is open.
LEMMA SpawnStep ==
    ASSUME ApplicationInv, NEW op \in Operations, Spawn(op),
           phase = "running", op \notin outstanding,
           send' \in [Sends -> {"unused", "spawned", "streams", "games",
                                "post", "done"}],
           \A s \in Sends : s \in outstanding' =>
               send'[s] \notin {"unused", "done"},
           UNCHANGED <<lifetime, threads, crash, main>>
    PROVE  ApplicationInv'
<1>1. ThreadInv'
    BY ThreadFrame, Zenon DEF ApplicationInv, lifetime
<1>2. /\ outstanding' = outstanding \cup {op}
      /\ ready' = Append(ready, op)
      /\ UNCHANGED <<phase, step, live, at_close, manager, owners, destroyer,
                     crash, task>>
    BY Zenon DEF Spawn, lifetime, threads, main
<1>3. /\ \A i \in 1..Len(ready) : ready[i] # op
      /\ \A t \in Pool : task[t] # op
    BY ManagerAssumption DEF ApplicationInv, OperationInv
<1>4. OperationInv'
    BY <1>2, <1>3, EnqueueOperation, Zenon DEF ApplicationInv
<1>5. MainInv'
    BY <1>2, Zenon DEF ApplicationInv, MainInv
<1>6. CloseInv'
    BY <1>2, Zenon DEF ApplicationInv, CloseInv, TestOutlivesMembers
<1> QED  BY <1>1, <1>4, <1>5, <1>6 DEF ApplicationInv

\* A frame changes the URL or spawns an operation.
LEMMA FrameStep ==
    ASSUME ApplicationInv, Frame
    PROVE  ApplicationInv'
<1>1. phase = "running" /\ UNCHANGED main
    BY Zenon DEF Frame
<1>2. ASSUME UNCHANGED <<send, managerVars>>
      PROVE  ApplicationInv'
    <2>1. ThreadInv'
        BY <1>2, ThreadFrame, Zenon DEF ApplicationInv, managerVars, lifetime
    <2>2. OperationInv'
        BY <1>2, OperationFrame, Zenon
        DEF ApplicationInv, managerVars, lifetime, threads, io_context
    <2>3. MainInv'
        BY <1>1, <1>2, MainFrame, Zenon
        DEF ApplicationInv, managerVars, lifetime, io_context
    <2>4. CloseInv'
        BY <1>1, <1>2, CloseFrame, Zenon
        DEF ApplicationInv, managerVars, lifetime, io_context
    <2> QED  BY <2>1, <2>2, <2>3, <2>4 DEF ApplicationInv
<1>3. CASE \E u \in Urls : BeginApply(u)
    BY <1>2, <1>3, Zenon DEF BeginApply
<1>4. CASE EndApply
    BY <1>2, <1>4, Zenon DEF EndApply
<1>5. ASSUME NEW s \in Sends, testMessage(s)
      PROVE  ApplicationInv'
    <2>1. /\ send[s] = "unused" /\ send' = [send EXCEPT ![s] = "spawned"]
          /\ Spawn(s) /\ UNCHANGED <<lifetime, threads, crash>>
        BY <1>5, Zenon DEF testMessage
    <2>2. s \in Operations /\ s \notin outstanding
        BY <2>1, ApplicationAssumption, Zenon DEF ApplicationInv, OperationInv
    <2>3. outstanding' = outstanding \cup {s}
        BY <2>1, Zenon DEF Spawn
    <2>4. send \in [Sends -> {"unused", "spawned", "streams", "games",
                              "post", "done"}]
        BY Zenon DEF ApplicationInv, OperationInv
    <2>5. send' \in [Sends -> {"unused", "spawned", "streams", "games",
                               "post", "done"}]
        BY <2>1, <2>4, Zenon
    <2>6. \A r \in Sends : r \in outstanding' =>
              send'[r] \notin {"unused", "done"}
        BY <2>1, <2>3, <2>4, Zenon DEF ApplicationInv, OperationInv
    <2> QED  BY <1>1, <2>1, <2>2, <2>5, <2>6, SpawnStep
<1>6. ASSUME NEW b \in Background, b \notin outstanding, Spawn(b),
             UNCHANGED <<lifetime, threads, crash, notifications>>
      PROVE  ApplicationInv'
    <2>1. b \in Operations /\ b \notin Sends
        BY ApplicationAssumption, Zenon
    <2>2. send' = send /\ outstanding' = outstanding \cup {b}
        BY <1>6, Zenon DEF Spawn, notifications
    <2>3. /\ send' \in [Sends -> {"unused", "spawned", "streams", "games",
                                  "post", "done"}]
          /\ \A r \in Sends : r \in outstanding' =>
                send'[r] \notin {"unused", "done"}
        BY <2>1, <2>2, Zenon DEF ApplicationInv, OperationInv
    <2> QED  BY <1>1, <1>6, <2>1, <2>3, SpawnStep
<1> QED  BY <1>3, <1>4, <1>5, <1>6 DEF Frame

-----------------------------------------------------------------------------
(* Steps of the io_context and of the destructor of the manager.           *)

\* A thread leaves io_context::run when it is in no operation.
LEMMA LeaveRunStep ==
    ASSUME ApplicationInv, NEW t \in Pool, LeaveRun(t),
           UNCHANGED <<notifications, main>>
    PROVE  ApplicationInv'
<1>1. /\ task[t] = NoOperation
      /\ thread' = [thread EXCEPT ![t] = "returned"]
      /\ UNCHANGED <<task, ready, outstanding, manager, owners, destroyer,
                     joined, crash, send>>
    BY Zenon DEF LeaveRun, lifetime, io_context, notifications
<1>2. thread \in [Pool -> {"none", "running", "returned"}]
    BY Zenon DEF ApplicationInv, ThreadInv
<1>3. /\ thread' \in [Pool -> {"none", "running", "returned"}]
      /\ \A u \in Pool : thread'[u] = IF u = t THEN "returned" ELSE thread[u]
    BY <1>1, <1>2, Zenon
<1>4. \A u \in Pool : thread'[u] = "returned" => task'[u] = NoOperation
    BY <1>1, <1>3, Zenon DEF ApplicationInv, ThreadInv
<1>5. 1..joined \subseteq Pool
    BY ManagerAssumption DEF ApplicationInv, ThreadInv, Pool
<1>6. manager' \in {"destroying", "destroyed"} =>
          \A u \in 1..joined' : thread'[u] = "returned"
    BY <1>1, <1>3, <1>5, Zenon DEF ApplicationInv, ThreadInv
<1>7. ThreadInv'
    BY <1>1, <1>3, <1>4, <1>6, Zenon DEF ApplicationInv, ThreadInv
<1>8. OperationInv'
    BY <1>1, OperationFrame, Zenon DEF ApplicationInv
<1>9. MainInv'
    BY <1>1, MainFrame, Zenon DEF ApplicationInv
<1>10. CloseInv'
    BY <1>1, CloseFrame, Zenon DEF ApplicationInv
<1> QED  BY <1>7, <1>8, <1>9, <1>10 DEF ApplicationInv

\* The destructor joins a thread that has returned, or the one it runs on.
LEMMA JoinNextStep ==
    ASSUME ApplicationInv, JoinNext, UNCHANGED <<notifications, main>>
    PROVE  ApplicationInv'
<1>1. /\ manager = "destroying" /\ joined < m_thread_count
      /\ \/ joined + 1 = destroyer /\ crash' = "self join" /\ joined' = joined
         \/ /\ thread[joined + 1] = "returned"
            /\ joined' = joined + 1 /\ crash' = crash
      /\ UNCHANGED <<manager, owners, destroyer, outstanding, ready, thread,
                     task, send>>
    BY Zenon DEF JoinNext, io_context, threads, notifications
<1>2. joined \in 0..m_thread_count /\ m_thread_count \in Nat
    BY ManagerAssumption, Zenon DEF ApplicationInv, ThreadInv
<1>3. /\ joined' \in 0..m_thread_count
      /\ \A u \in 1..joined' : thread'[u] = "returned"
    <2>1. \A u \in 1..joined : thread[u] = "returned"
        BY <1>1, Zenon DEF ApplicationInv, ThreadInv
    <2>2. CASE joined' = joined
        BY <1>1, <1>2, <2>1, <2>2, Zenon
    <2>3. CASE joined' = joined + 1
        <3>1. joined < m_thread_count
            BY <1>1, Zenon
        <3>6. joined \in Nat
            BY <1>2
        <3>2. joined # joined + 1
            BY <3>6
        <3>3. thread[joined + 1] = "returned"
            BY <1>1, <2>3, <3>2, Zenon
        <3>4. joined + 1 \in 0..m_thread_count
            BY <1>2, <3>6, <3>1
        <3>5. \A u \in 1..(joined + 1) : u \in 1..joined \/ u = joined + 1
            BY <3>6
        <3> QED  BY <1>1, <2>1, <2>3, <3>3, <3>4, <3>5
    <2> QED  BY <1>1, <2>2, <2>3
<1>4. ThreadInv'
    BY <1>1, <1>3, Zenon DEF ApplicationInv, ThreadInv
<1>5. OperationInv'
    BY <1>1, OperationFrame, Zenon DEF ApplicationInv
<1>6. MainInv'
    BY <1>1, MainFrame, Zenon DEF ApplicationInv
<1>7. CloseInv'
    BY <1>1, CloseFrame, Zenon DEF ApplicationInv
<1> QED  BY <1>4, <1>5, <1>6, <1>7 DEF ApplicationInv

\* With the io_context go the operations that are left in it.
LEMMA DestroyMembersStep ==
    ASSUME ApplicationInv, DestroyMembers, UNCHANGED <<notifications, main>>
    PROVE  ApplicationInv'
<1>1. /\ manager = "destroying" /\ joined = m_thread_count
      /\ manager' = "destroyed" /\ outstanding' = {} /\ ready' = << >>
      /\ UNCHANGED <<owners, destroyer, joined, thread, task, crash, send,
                     phase, step, live, at_close>>
    BY Zenon DEF DestroyMembers, threads, notifications, main
<1>2. ThreadInv'
    BY <1>1, Zenon DEF ApplicationInv, ThreadInv
<1>3. \A t \in Pool : task[t] = NoOperation
    BY <1>1, Zenon DEF ApplicationInv, ThreadInv, Pool
<1>4. owners = {}
    BY <1>1, Zenon DEF ApplicationInv, MainInv
<1>5. OperationInv'
    BY <1>1, <1>3, <1>4 DEF ApplicationInv, OperationInv
<1>6. MainInv'
    BY <1>1, <1>4, Zenon DEF ApplicationInv, MainInv
<1>7. CloseInv'
    BY <1>1, Zenon DEF ApplicationInv, CloseInv, TestOutlivesMembers
<1> QED  BY <1>2, <1>5, <1>6, <1>7 DEF ApplicationInv

\* An answer, a timer or a failure puts an operation into the queue.
LEMMA CompleteStep ==
    ASSUME ApplicationInv, NEW op \in Operations, Complete(op),
           UNCHANGED <<notifications, main>>
    PROVE  ApplicationInv'
<1>1. /\ op \in outstanding \ Range(ready)
      /\ \A t \in Pool : task[t] # op
      /\ ready' = Append(ready, op)
      /\ UNCHANGED <<outstanding, manager, owners, destroyer, joined, thread,
                     task, crash, send>>
    BY Zenon DEF Complete, lifetime, threads, notifications
<1>2. ready \in Seq(Operations)
    BY Zenon DEF ApplicationInv, OperationInv
<1>3. \A i \in 1..Len(ready) : ready[i] # op
    BY <1>1, <1>2 DEF Range
<1>4. outstanding' = outstanding \cup {op}
    BY <1>1, Zenon
<1>5. /\ send' \in [Sends -> {"unused", "spawned", "streams", "games",
                              "post", "done"}]
      /\ \A s \in Sends : s \in outstanding' =>
            send'[s] \notin {"unused", "done"}
    BY <1>1, Zenon DEF ApplicationInv, OperationInv
<1>6. OperationInv'
    BY <1>1, <1>3, <1>4, <1>5, EnqueueOperation, Zenon DEF ApplicationInv
<1>7. ThreadInv'
    BY <1>1, ThreadFrame, Zenon DEF ApplicationInv, threads
<1>8. MainInv'
    BY <1>1, MainFrame, Zenon DEF ApplicationInv
<1>9. CloseInv'
    BY <1>1, CloseFrame, Zenon DEF ApplicationInv
<1> QED  BY <1>6, <1>7, <1>8, <1>9 DEF ApplicationInv

-----------------------------------------------------------------------------
(* Steps of the threads of the pool.                                       *)

\* A thread that takes an operation is running, and ThreadInv does not
\* depend on which operation it runs.
LEMMA TakeThread ==
    ASSUME ThreadInv, OperationInv, NEW t \in Pool, NEW op, Take(t, op),
           \/ UNCHANGED <<manager, joined>>
           \/ manager' = "destroying" /\ joined' = 0
    PROVE  ThreadInv'
<1>1. /\ thread[t] = "running" /\ ready # << >> /\ op = Head(ready)
      /\ task' = [task EXCEPT ![t] = op] /\ thread' = thread
    BY Zenon DEF Take
<1>2. op \in Operations
    BY <1>1 DEF OperationInv
<1>3. /\ task' \in [Pool -> Operations \cup {NoOperation}]
      /\ \A u \in Pool : task'[u] = IF u = t THEN op ELSE task[u]
    BY <1>1, <1>2, Zenon DEF ThreadInv
<1>4. \A u \in Pool : thread'[u] = "returned" => task'[u] = NoOperation
    BY <1>1, <1>3, Zenon DEF ThreadInv
<1>5. joined' \in 0..m_thread_count
    BY ManagerAssumption DEF ThreadInv
<1> QED
    BY <1>1, <1>3, <1>4, <1>5 DEF ThreadInv

\* A thread that leaves an operation stays in io_context::run.
LEMMA YieldThread ==
    ASSUME ThreadInv, NEW t \in Pool, Yield(t), UNCHANGED <<manager, joined>>
    PROVE  ThreadInv'
<1>1. /\ thread' = thread
      /\ task' \in [Pool -> Operations \cup {NoOperation}]
      /\ \A u \in Pool : task'[u] = IF u = t THEN NoOperation ELSE task[u]
    BY Zenon DEF Yield, ThreadInv
<1>2. \A u \in Pool : thread'[u] = "returned" => task'[u] = NoOperation
    BY <1>1, Zenon DEF ThreadInv
<1> QED
    BY <1>1, <1>2, Zenon DEF ThreadInv

\* What is ready is outstanding, and so is what a thread runs.
LEMMA AtWork ==
    ASSUME OperationInv, NEW t \in Pool, NEW op,
           Take(t, op) \/ (task[t] = op /\ op \in Operations)
    PROVE  op \in outstanding /\ op \in Operations
<1>1. CASE Take(t, op)
    <2>1. ready # << >> /\ op = Head(ready) /\ ready \in Seq(Operations)
        BY <1>1, Zenon DEF Take, OperationInv
    <2>2. 1 \in 1..Len(ready) /\ op = ready[1]
        BY <2>1
    <2> QED  BY <2>1, <2>2 DEF OperationInv
<1>2. CASE task[t] = op /\ op \in Operations
    BY <1>2, ManagerAssumption, Zenon DEF OperationInv
<1> QED  BY <1>1, <1>2

\* A coroutine of TwitchService is resumed.
LEMMA ResumeBackgroundStep ==
    ASSUME ApplicationInv, NEW t \in Pool, NEW b \in Background,
           ResumeBackground(t, b), UNCHANGED main
    PROVE  ApplicationInv'
<1>1. /\ Take(t, b)
      /\ UNCHANGED <<manager, owners, destroyer, joined, crash, send,
                     outstanding>>
    BY Zenon DEF ResumeBackground, Take, lifetime, notifications
<1>2. ThreadInv'
    BY <1>1, TakeThread, Zenon DEF ApplicationInv
<1>3. b \notin Sends
    BY ApplicationAssumption, Zenon
<1>4. OperationInv'
    <2>1. /\ OperationInv /\ task \in [Pool -> Operations \cup {NoOperation}]
          /\ \A s \in Sends : s \in owners' => s \in owners /\ s # b
          /\ UNCHANGED send
        BY <1>1, <1>3, Zenon DEF ApplicationInv, ThreadInv
    <2> QED  BY <1>1, <2>1, TakeOperation, Zenon
<1>5. MainInv'
    BY <1>1, MainFrame, Zenon DEF ApplicationInv
<1>6. CloseInv'
    BY <1>1, CloseFrame, Zenon DEF ApplicationInv
<1> QED  BY <1>2, <1>4, <1>5, <1>6 DEF ApplicationInv

\* A coroutine of TwitchService runs to its next wait, or ends.
LEMMA ContinueBackgroundStep ==
    ASSUME ApplicationInv, NEW t \in Pool, NEW b \in Background,
           ContinueBackground(t, b), UNCHANGED main
    PROVE  ApplicationInv'
<1>1. /\ task[t] = b /\ Yield(t)
      /\ outstanding' \in {outstanding, outstanding \ {b}}
      /\ UNCHANGED <<manager, owners, destroyer, joined, send, ready>>
    BY Zenon DEF ContinueBackground, Runs, lifetime, notifications
<1>2. b \in Operations /\ b # NoOperation /\ b \notin Sends
    BY ApplicationAssumption, ManagerAssumption, Zenon
<1>3. b \in outstanding
    BY <1>1, <1>2, AtWork, Zenon DEF ApplicationInv
<1>4. ThreadInv'
    BY <1>1, YieldThread, Zenon DEF ApplicationInv
<1>5. OperationInv'
    <2>1. /\ send' \in [Sends -> {"unused", "spawned", "streams", "games",
                                  "post", "done"}]
          /\ \A s \in Sends : s \in outstanding' =>
                send'[s] \notin {"unused", "done"}
        BY <1>1, Zenon DEF ApplicationInv, OperationInv
    <2> QED
        BY <1>1, <1>2, <2>1, YieldOperation, Zenon DEF ApplicationInv, ThreadInv
<1>6. phase \in {"running", "destroying", "exited"}
    BY <1>3, OutstandingWhen, Zenon DEF ApplicationInv
<1>7. MainInv'
    BY <1>1, <1>6, Zenon DEF ApplicationInv, MainInv, main
<1>8. CloseInv'
    BY <1>1, Zenon DEF ApplicationInv, CloseInv, TestOutlivesMembers, main
<1> QED  BY <1>4, <1>5, <1>7, <1>8 DEF ApplicationInv

\* sendMessage is resumed and drops the reference of the request it waited
\* for.  That is the last one only when all members are gone.
LEMMA ResumeSendStep ==
    ASSUME ApplicationInv, NEW t \in Pool, NEW s \in Sends, ResumeSend(t, s),
           UNCHANGED main
    PROVE  ApplicationInv'
<1>1. /\ Take(t, s)
      /\ UNCHANGED <<crash, send, outstanding>>
      /\ owners' = owners \ {s}
    BY Zenon DEF ResumeSend, Take, Release, notifications
<1>2. IF owners' = {} /\ manager = "alive"
      THEN manager' = "destroying" /\ destroyer' = t /\ joined' = 0
      ELSE UNCHANGED <<manager, destroyer, joined>>
    BY Zenon DEF ResumeSend, Release
<1>3. s \in outstanding /\ s \notin Owning
    BY <1>1, AtWork, Members, Zenon DEF ApplicationInv
<1>4. ThreadInv'
    <2>1. \/ UNCHANGED <<manager, joined>>
          \/ manager' = "destroying" /\ joined' = 0
        BY <1>2, Zenon
    <2> QED  BY <1>1, <2>1, TakeThread DEF ApplicationInv
<1>5. OperationInv'
    BY <1>1, TakeOperation, Zenon DEF ApplicationInv, ThreadInv
<1>6. owners' # {} <=> manager' = "alive"
    BY <1>1, <1>2, Zenon DEF ApplicationInv, MainInv
<1>7. /\ owners' \cap Owning = live \cap Owning
      /\ owners' \subseteq Owning \cup Sends
    BY <1>1, <1>3, Zenon DEF ApplicationInv, MainInv
<1>8. UNCHANGED <<phase, step, live, at_close, outstanding>>
    BY <1>1, Zenon DEF main
<1>9. MainInv'
    BY <1>6, <1>7, <1>8, Zenon DEF ApplicationInv, MainInv
<1>10. CloseInv'
    <2>1. CASE UNCHANGED <<manager, destroyer>>
        BY <1>1, <2>1, CloseFrame, Zenon DEF ApplicationInv
    <2>2. CASE owners' = {} /\ manager = "alive"
        <3>1. "m_conn" \notin live /\ live = {}
            BY <1>7, <2>2, Zenon DEF ApplicationInv, MainInv, Owning
        <3>2. phase \in {"running", "destroying", "exited"}
            BY <1>3, OutstandingWhen, Zenon DEF ApplicationInv
        <3>3. phase # "running"
            BY <3>1, MembersOwn, Zenon DEF ApplicationInv, Owning
        <3>4. s \in at_close
            BY <1>3, <3>3, OutstandingWhen, Zenon DEF ApplicationInv
        <3>5. destroyer' # Main
            BY <1>2, <2>2, ManagerAssumption DEF Pool, Main
        <3>6. TestOutlivesMembers'
            BY <1>8, <3>1, <3>4, Zenon DEF TestOutlivesMembers
        <3> QED  BY <1>8, <3>5, <3>6, Zenon DEF ApplicationInv, CloseInv
    <2> QED  BY <1>2, <2>1, <2>2, Zenon
<1> QED  BY <1>4, <1>5, <1>9, <1>10 DEF ApplicationInv

\* sendMessage runs to its next request, whose frame owns the manager, or
\* ends.
LEMMA ContinueSendStep ==
    ASSUME ApplicationInv, NEW t \in Pool, NEW s \in Sends,
           ContinueSend(t, s, "m_disc_not"), UNCHANGED main
    PROVE  ApplicationInv'
<1>1. /\ task[t] = s /\ Yield(t)
      /\ UNCHANGED <<manager, destroyer, joined, ready>>
    BY Zenon DEF ContinueSend, Runs, AfterGet, Request, Post, EndSend, Acquire,
           lifetime
<1>2. \/ UNCHANGED <<send, outstanding, owners>>
      \/ /\ \E next \in {"streams", "games", "post"} :
               send' = [send EXCEPT ![s] = next]
         /\ owners' = owners \cup {s} /\ "m_disc_not" \in owners
         /\ UNCHANGED outstanding
      \/ /\ send' = [send EXCEPT ![s] = "done"]
         /\ outstanding' = outstanding \ {s} /\ UNCHANGED owners
    BY Zenon
    DEF ContinueSend, AfterGet, Request, Post, EndSend, Acquire, lifetime
<1>3. s \in Operations /\ s # NoOperation /\ s \notin Owning
    BY ApplicationAssumption, ManagerAssumption, Members, Zenon
<1>4. s \in outstanding
    BY <1>1, <1>3, AtWork, Zenon DEF ApplicationInv
<1>5. ThreadInv'
    BY <1>1, YieldThread, Zenon DEF ApplicationInv
<1>6. OperationInv'
    <2>1. send \in [Sends -> {"unused", "spawned", "streams", "games",
                              "post", "done"}]
        BY Zenon DEF ApplicationInv, OperationInv
    <2>2. send' \in [Sends -> {"unused", "spawned", "streams", "games",
                               "post", "done"}]
        BY <1>2, <2>1, Zenon
    <2>3. \A r \in Sends : r \in outstanding' =>
              send'[r] \notin {"unused", "done"}
        <3>1. \A r \in Sends : r \in outstanding =>
                  send[r] \notin {"unused", "done"}
            BY Zenon DEF ApplicationInv, OperationInv
        <3> QED  BY <1>2, <2>1, <3>1
    <2>4. outstanding' \in {outstanding, outstanding \ {s}}
        BY <1>2, Zenon
    <2>5. \A r \in Sends : r \in owners' =>
              r \in owners \/ (r = s /\ s \in outstanding')
        BY <1>2, <1>4, Zenon
    <2>6. OperationInv /\ task \in [Pool -> Operations \cup {NoOperation}]
        BY Zenon DEF ApplicationInv, ThreadInv
    <2> QED
        BY <1>1, <1>3, <2>2, <2>3, <2>4, <2>5, <2>6, YieldOperation, Zenon
<1>7. phase \in {"running", "destroying", "exited"}
    BY <1>4, OutstandingWhen, Zenon DEF ApplicationInv
<1>8. UNCHANGED <<phase, step, live, at_close>>
    BY Zenon DEF main
<1>9. /\ owners' \cap Owning = live \cap Owning
      /\ owners' \subseteq Owning \cup Sends
      /\ owners' # {} <=> manager = "alive"
    <2>1. \/ owners' = owners
          \/ owners' = owners \cup {s} /\ owners # {}
        BY <1>2, Zenon
    <2>2. /\ owners \cap Owning = live \cap Owning
          /\ owners \subseteq Owning \cup Sends
          /\ owners # {} <=> manager = "alive"
        BY Zenon DEF ApplicationInv, MainInv
    <2> QED  BY <1>3, <2>1, <2>2, Zenon
<1>10. MainInv'
    BY <1>1, <1>7, <1>8, <1>9, Zenon DEF ApplicationInv, MainInv
<1>11. CloseInv'
    BY <1>1, <1>2, <1>8, Zenon DEF ApplicationInv, CloseInv, TestOutlivesMembers
<1> QED  BY <1>5, <1>6, <1>10, <1>11 DEF ApplicationInv

-----------------------------------------------------------------------------
\* The invariant holds before the first member is constructed.
LEMMA ApplicationInvInit ==
    ASSUME Init
    PROVE  ApplicationInv
<1>1. ThreadInv
    BY ManagerAssumption DEF Init, ManagerInit, ThreadInv
<1>2. OperationInv
    BY ManagerAssumption DEF Init, ManagerInit, NotificationsInit, OperationInv
<1>3. MainInv
    BY Members DEF Init, ManagerInit, MainInv
<1>4. CloseInv
    BY Zenon DEF Init, ManagerInit, CloseInv
<1> QED  BY <1>1, <1>2, <1>3, <1>4 DEF ApplicationInv

\* Every step preserves the invariant.
LEMMA ApplicationInvNext ==
    ASSUME ApplicationInv, [Next]_vars
    PROVE  ApplicationInv'
<1>1. CASE MainThread
    BY Zenon, <1>1, ConstructStep, ConstructFailsStep, FrameStep,
       CloseWindowStep,
       DestroyStep, ExitStep
    DEF MainThread
<1>2. CASE \E t \in Pool : PoolThread(t)
    BY Zenon, <1>2, ResumeSendStep, ContinueSendStep, ResumeBackgroundStep,
       ContinueBackgroundStep
    DEF PoolThread, Step
<1>3. CASE \E op \in Operations : Network(op)
    BY <1>3, CompleteStep, Zenon DEF Network
<1>4. CASE Manager
    BY <1>4, LeaveRunStep, JoinNextStep, DestroyMembersStep, Zenon
    DEF Manager, PoolStep
<1>5. CASE UNCHANGED vars
    <2>1. /\ UNCHANGED <<manager, joined, owners, destroyer, crash, ready,
                         outstanding, send, task>>
          /\ UNCHANGED threads /\ UNCHANGED main
        BY <1>5, Zenon DEF vars, managerVars, lifetime, io_context, threads,
                    notifications
    <2> QED
        BY <2>1, ThreadFrame, OperationFrame, MainFrame, CloseFrame, Zenon
        DEF ApplicationInv
<1> QED  BY <1>1, <1>2, <1>3, <1>4, <1>5 DEF Next

\* ApplicationInv is an invariant of the application.
LEMMA ApplicationInvariant == Spec => []ApplicationInv
<1>1. Init => ApplicationInv
    BY ApplicationInvInit, Zenon
<1>2. ApplicationInv /\ [Next]_vars => ApplicationInv'
    BY ApplicationInvNext, Zenon
<1> QED  BY <1>1, <1>2, PTL DEF Spec

(***************************************************************************)
(* ~ConnectionManager lets no member go while a thread is in               *)
(* io_context::run or in a coroutine, with any number of threads.          *)
(***************************************************************************)
THEOREM ThreadsAreJoined == Spec => []NoThreadOutlivesManager
<1>1. ApplicationInv => NoThreadOutlivesManager
    BY Zenon DEF ApplicationInv, ThreadInv, NoThreadOutlivesManager, Pool
<1> QED  BY <1>1, ApplicationInvariant, PTL

(***************************************************************************)
(* The shared_ptr to the manager is never dropped too early or too late,   *)
(* with any number of threads and of requests under way.                   *)
(***************************************************************************)
THEOREM ManagerIsShared == Spec => []ManagerOutlivesOwners
<1>1. ApplicationInv => ManagerOutlivesOwners
    BY Zenon DEF ApplicationInv, MainInv, ManagerOutlivesOwners
<1> QED  BY <1>1, ApplicationInvariant, PTL

\* ExitFaults as far as it is about the process breaking off.
CrashInv ==
    /\ crash # "no" => phase = "destroying"
    /\ crash = "destroyed object" =>
          \/ /\ "m_disc_not" \notin live
             /\ \E s \in at_close \cap Sends : Unposted(s)
          \/ "m_tw_service" \notin live /\ at_close \cap Background # {}
    /\ crash = "lua state" => registered
    /\ crash = "self join" => TestOutlivesMembers

\* A step breaks the process off only in the ways that CrashInv lists.
LEMMA FaultStep ==
    ASSUME ApplicationInv, Next, crash' # "no"
    PROVE  CrashInv'
<1>1. crash = "no" /\ phase # "exited"
    BY Zenon DEF Next
<1>2. ASSUME NEW t \in Pool, NEW s \in Sends,
             ContinueSend(t, s, "m_disc_not"), UNCHANGED main
      PROVE  CrashInv'
    <2>1. /\ task[t] = s /\ "m_disc_not" \notin owners /\ send[s] # "post"
          /\ crash' = "destroyed object" /\ send' = send
        BY <1>1, <1>2, Zenon DEF ContinueSend, Runs
    <2>2. s \in outstanding
        BY <2>1, AtWork, ApplicationAssumption, Zenon DEF ApplicationInv
    <2>3. phase = "destroying" /\ s \in at_close
        <3>1. phase # "running"
            BY <2>1, MembersOwn, Zenon DEF ApplicationInv
        <3> QED  BY <1>1, <2>2, <3>1, OutstandingWhen, Zenon DEF ApplicationInv
    <2>4. "m_disc_not" \notin live
        BY <2>1, Zenon DEF ApplicationInv, MainInv, Owning
    <2>5. Unposted(s)
        BY <2>1, <2>2, Zenon DEF ApplicationInv, OperationInv, Unposted
    <2>6. Unposted(s)' /\ s \in at_close' \cap Sends
        BY <1>2, <2>1, <2>3, <2>5, Zenon DEF Unposted, main
    <2> QED  BY <1>2, <2>1, <2>3, <2>4, <2>6, Zenon DEF CrashInv, main
<1>3. ASSUME NEW t \in Pool, NEW b \in Background,
             ContinueBackground(t, b), UNCHANGED main
      PROVE  CrashInv'
    <2>1. /\ task[t] = b /\ "m_tw_service" \notin live
          /\ crash' = "destroyed object"
        BY <1>1, <1>3, Zenon DEF ContinueBackground, Runs
    <2>2. b \in outstanding
        BY <2>1, AtWork, ApplicationAssumption, Zenon DEF ApplicationInv
    <2>3. phase = "destroying" /\ b \in at_close
        <3>1. phase # "running"
            BY <2>1, MembersOwn, Zenon DEF ApplicationInv, Owning
        <3> QED  BY <1>1, <2>2, <3>1, OutstandingWhen, Zenon DEF ApplicationInv
    <2> QED  BY <1>3, <2>1, <2>3, Zenon DEF CrashInv, main
<1>4. ASSUME Destroy PROVE CrashInv'
    <2>1. /\ phase = "destroying" /\ crash' = "lua state" /\ FunctionsDangle
          /\ UNCHANGED <<phase, registered>>
        BY <1>1, <1>4, Zenon DEF Destroy
    <2>2. registered
        BY <2>1, Zenon DEF FunctionsDangle, RefersTo
    <2> QED  BY <2>1, <2>2, Zenon DEF CrashInv
<1>5. ASSUME JoinNext, UNCHANGED main PROVE CrashInv'
    <2>1. crash' = "self join" /\ joined + 1 = destroyer
        BY <1>1, <1>5, Zenon DEF JoinNext
    <2>2. destroyer # Main
        <3>1. joined \in 0..m_thread_count
            BY Zenon DEF ApplicationInv, ThreadInv
        <3>2. joined + 1 # 0
            BY <3>1, ManagerAssumption
        <3> QED  BY <2>1, <3>2, Zenon DEF Main
    <2>3. TestOutlivesMembers
        BY <2>2, Zenon DEF ApplicationInv, CloseInv
    <2>4. phase = "destroying"
        BY <1>1, <2>3, Zenon
        DEF ApplicationInv, MainInv, TestOutlivesMembers
    <2> QED
        BY <1>5, <2>1, <2>3, <2>4, Zenon
        DEF CrashInv, TestOutlivesMembers, main
<1>6. CASE MainThread
    BY <1>1, <1>4, <1>6, Zenon
    DEF MainThread, Construct, CreateManager, ConstructFails, Frame,
        BeginApply, EndApply, testMessage, CloseWindow, Exit, managerVars
<1>7. CASE \E t \in Pool : PoolThread(t)
    BY <1>1, <1>2, <1>3, <1>7, Zenon
    DEF PoolThread, Step, ResumeSend, ResumeBackground
<1>8. CASE \E op \in Operations : Network(op)
    BY <1>1, <1>8, Zenon DEF Network, Complete
<1>9. CASE Manager
    BY <1>1, <1>5, <1>9, Zenon
    DEF Manager, PoolStep, LeaveRun, DestroyMembers
<1> QED  BY <1>6, <1>7, <1>8, <1>9, Zenon DEF Next

\* As long as the process runs, main returns before the manager is gone only
\* when a test message has outlived the members.
LEMMA ReturnedEarly ==
    ASSUME ApplicationInv, phase = "exited"
    PROVE  manager \in {"none", "destroyed"} \/ TestOutlivesMembers
<1>1. step = 0 /\ outstanding \subseteq at_close
    BY Zenon DEF ApplicationInv, MainInv, CloseInv
<1>2. live = {}
    BY <1>1 DEF ApplicationInv, MainInv
<1>3. CASE manager = "alive"
    <2>1. PICK s \in owners : s \in Sends
        BY <1>2, <1>3, Zenon DEF ApplicationInv, MainInv
    <2>2. s \in at_close
        BY <1>1, <2>1, Zenon DEF ApplicationInv, OperationInv
    <2> QED  BY <1>2, <2>1, <2>2, Zenon DEF TestOutlivesMembers
<1>4. CASE manager = "destroying"
    BY <1>4, Zenon DEF ApplicationInv, CloseInv
<1> QED  BY <1>3, <1>4, Zenon DEF ApplicationInv, ThreadInv

(***************************************************************************)
(* The list of ways in which the program can break off is complete, with   *)
(* any number of threads, test messages and coroutines, whenever the       *)
(* construction fails or the window is closed.                             *)
(***************************************************************************)
THEOREM ExitFaultsAreThese == Spec => []ExitFaults
<1>1. Init => CrashInv
    BY Zenon DEF Init, ManagerInit, CrashInv
<1>2. ApplicationInv /\ CrashInv /\ [Next]_vars => CrashInv'
    <2> SUFFICES ASSUME ApplicationInv, CrashInv, [Next]_vars
                 PROVE  CrashInv'
        BY Zenon
    <2>1. CASE UNCHANGED vars
        BY <2>1, Zenon
        DEF vars, managerVars, lifetime, notifications, main, CrashInv,
            TestOutlivesMembers, Unposted
    <2>2. CASE crash' = "no"
        BY <2>2, Zenon DEF CrashInv
    <2>3. CASE Next /\ crash' # "no"
        BY <2>3, FaultStep, Zenon
    <2> QED  BY <2>1, <2>2, <2>3, Zenon
<1>3. ApplicationInv /\ CrashInv => ExitFaults
    BY ReturnedEarly, Zenon DEF CrashInv, ExitFaults
<1> QED  BY <1>1, <1>2, <1>3, ApplicationInvariant, PTL DEF Spec

-----------------------------------------------------------------------------
(* References.                                                             *)

\* RefersTo as a function of whether the handlers are registered.
Refers(o, reg) ==
    CASE o = "m_auth_vm" -> {"m_tw_service", "m_conn"}
      [] o = "m_discord_vm" -> {"m_conn", "m_disc_not"}
      [] o = "m_chat_vm" -> {"m_tw_service"}
      [] o = "m_ui_manager" -> {"m_app_state"}
      [] o = "m_tw_service" /\ reg -> {"m_app_state", "m_command_parser"}
      [] o = "m_command_parser" /\ reg -> {"m_command_engine"}
      [] OTHER -> {}

\* The members are constructed, and declared, after what they refer to, except
\* for the parser, whose handlers come with the start.
LEMMA RefersBack ==
    /\ \A i \in 1..11 : \A r \in Refers(Constructed[i], FALSE) :
          \E j \in 1..(i - 1) : r = Constructed[j]
    /\ \A i \in 1..11 : \A reg \in BOOLEAN : \A r \in Refers(Declared[i], reg) :
          \/ \E j \in 1..(i - 1) : r = Declared[j]
          \/ i = 3 /\ r = Declared[4]
    /\ \A o : \A r \in Refers(o, TRUE) : \E i \in 1..11 : r = Constructed[i]
    /\ \A i, j \in 1..11 : Declared[i] = Declared[j] => i = j
    /\ Declared[3] = "m_command_parser" /\ Declared[5] = "m_tw_service"
<1>1. \A i \in 1..11 :
          i \in {1, 2, 3, 4, 5, 6, 7, 8, 9, 10, 11}
    OBVIOUS
<1>2. /\ Constructed[1] = "m_conn" /\ Constructed[2] = "m_app_state"
      /\ Constructed[3] = "m_command_parser"
      /\ Constructed[4] = "m_command_engine"
      /\ Constructed[5] = "m_tw_service" /\ Constructed[6] = "m_disc_not"
      /\ Constructed[7] = "m_obs" /\ Constructed[8] = "m_auth_vm"
      /\ Constructed[9] = "m_discord_vm" /\ Constructed[10] = "m_chat_vm"
      /\ Constructed[11] = "m_ui_manager"
    BY Zenon DEF Constructed
<1>3. /\ Declared[1] = "m_conn" /\ Declared[2] = "m_app_state"
      /\ Declared[3] = "m_command_parser"
      /\ Declared[4] = "m_command_engine"
      /\ Declared[5] = "m_tw_service" /\ Declared[6] = "m_disc_not"
      /\ Declared[7] = "m_obs" /\ Declared[8] = "m_ui_manager"
      /\ Declared[9] = "m_auth_vm" /\ Declared[10] = "m_discord_vm"
      /\ Declared[11] = "m_chat_vm"
    BY Zenon DEF Declared
<1>4. ASSUME NEW i \in 1..11, NEW r \in Refers(Constructed[i], FALSE)
      PROVE  \E j \in 1..(i - 1) : r = Constructed[j]
    <2>1. \/ i = 8 /\ r \in {"m_tw_service", "m_conn"}
          \/ i = 9 /\ r \in {"m_conn", "m_disc_not"}
          \/ i = 10 /\ r = "m_tw_service"
          \/ i = 11 /\ r = "m_app_state"
        BY <1>1, <1>2, <1>4, Zenon DEF Refers
    <2>2. {1, 2, 5, 6} \subseteq 1..(i - 1)
        BY <2>1
    <2> QED  BY <1>2, <2>1, <2>2
<1>5. ASSUME NEW i \in 1..11, NEW reg \in BOOLEAN,
             NEW r \in Refers(Declared[i], reg)
      PROVE  \/ \E j \in 1..(i - 1) : r = Declared[j]
             \/ i = 3 /\ r = Declared[4]
    <2>1. \/ i = 3 /\ r = "m_command_engine"
          \/ i = 5 /\ r \in {"m_app_state", "m_command_parser"}
          \/ i = 9 /\ r \in {"m_tw_service", "m_conn"}
          \/ i = 10 /\ r \in {"m_conn", "m_disc_not"}
          \/ i = 11 /\ r = "m_tw_service"
          \/ i = 8 /\ r = "m_app_state"
        <3>1. ASSUME NEW o, o = Declared[i]
              PROVE  \/ o = "m_command_parser" /\ r = "m_command_engine"
                     \/ /\ o = "m_tw_service"
                        /\ r \in {"m_app_state", "m_command_parser"}
                     \/ o = "m_auth_vm" /\ r \in {"m_tw_service", "m_conn"}
                     \/ o = "m_discord_vm" /\ r \in {"m_conn", "m_disc_not"}
                     \/ o = "m_chat_vm" /\ r = "m_tw_service"
                     \/ o = "m_ui_manager" /\ r = "m_app_state"
            BY <1>5, <3>1, Zenon DEF Refers
        <3>2. i \in {1, 2, 3, 4, 5, 6, 7, 8, 9, 10, 11}
            BY <1>1, Zenon
        <3> QED  BY <1>3, <3>1, <3>2
    <2>2. CASE i = 3
        BY <1>3, <2>1, <2>2, Zenon
    <2>3. CASE i = 5
        <3>1. {2, 3} \subseteq 1..(i - 1)
            BY <2>3
        <3> QED  BY <1>3, <2>1, <2>3, <3>1
    <2>4. CASE i \in {8, 9, 10, 11}
        <3>1. {1, 2, 5, 6} \subseteq 1..(i - 1)
            BY <2>4
        <3> QED  BY <1>3, <2>1, <2>4, <3>1
    <2> QED  BY <2>1, <2>2, <2>3, <2>4, Zenon
<1>6. ASSUME NEW o, NEW r \in Refers(o, TRUE)
      PROVE  \E i \in 1..11 : r = Constructed[i]
    <2>1. r \in {"m_tw_service", "m_conn", "m_disc_not", "m_app_state",
                 "m_command_parser", "m_command_engine"}
        BY Zenon DEF Refers
    <2>2. {1, 2, 3, 4, 5, 6} \subseteq 1..11
        OBVIOUS
    <2> QED  BY <1>2, <2>1, <2>2
<1>7. \A i, j \in 1..11 : Declared[i] = Declared[j] => i = j
    BY <1>1, <1>3
<1> QED  BY <1>3, <1>4, <1>5, <1>6, <1>7, Zenon

\* The handlers are registered when everything is there.
ReferencesInv ==
    /\ registered \in BOOLEAN
    /\ phase = "constructing" => ~ registered
    /\ ReferencesAreLive

\* A member is constructed after what it refers to.
LEMMA ConstructReferences ==
    ASSUME MainInv, ReferencesInv, Construct
    PROVE  ReferencesInv'
<1>1. /\ phase = "constructing" /\ live' = live \cup {Constructed[step]}
      /\ \/ step = 11 /\ phase' = "running" /\ registered' = TRUE
         \/ step # 11 /\ phase' = phase /\ registered' = registered
    BY Members, Zenon DEF Construct
<1>2. /\ step \in 1..11 /\ \A i \in 1..(step - 1) : Constructed[i] \in live
      /\ registered = FALSE
    BY <1>1, Members, Zenon DEF MainInv, ReferencesInv
<1>3. registered' \in BOOLEAN /\ (phase' = "constructing" => ~ registered')
    BY <1>1, <1>2, Zenon
<1>4. CASE step = 11
    <2>1. \A i \in 1..11 : Constructed[i] \in live'
        <3>1. \A i \in 1..11 : i \in 1..(step - 1) \/ i = step
            BY <1>4
        <3> QED  BY <1>1, <1>2, <3>1, Zenon
    <2>2. \A o : RefersTo(o)' = Refers(o, TRUE)
        <3>1. registered' = TRUE
            BY <1>1, <1>4, Zenon
        <3> QED  BY <3>1 DEF RefersTo, Refers
    <2>3. ASSUME NEW o, NEW r \in RefersTo(o)' PROVE r \in live'
        <3>1. r \in Refers(o, TRUE)
            BY <2>2, <2>3, Zenon
        <3>2. PICK i \in 1..11 : r = Constructed[i]
            BY <3>1, RefersBack, Zenon
        <3> QED  BY <2>1, <3>2, Zenon
    <2> QED  BY <1>3, <2>3, Zenon DEF ReferencesInv, ReferencesAreLive
<1>5. CASE step # 11
    <2>1. \A o : RefersTo(o)' = RefersTo(o) /\ RefersTo(o) = Refers(o, FALSE)
        <3>1. registered = FALSE /\ registered' = FALSE
            BY <1>1, <1>2, <1>5, Zenon
        <3> QED  BY <3>1 DEF RefersTo, Refers
    <2>2. ASSUME NEW r \in RefersTo(Constructed[step]) PROVE r \in live
        <3>1. r \in Refers(Constructed[step], FALSE)
            BY <2>1, <2>2, Zenon
        <3>2. PICK j \in 1..(step - 1) : r = Constructed[j]
            BY <1>2, <3>1, RefersBack, Zenon
        <3> QED  BY <1>2, <3>2, Zenon
    <2>3. \A o \in live : RefersTo(o) \subseteq live
        BY <2>1, Zenon DEF ReferencesInv, ReferencesAreLive, Refers
    <2>4. \A o \in live' : RefersTo(o)' \subseteq live'
        BY <1>1, <2>1, <2>2, <2>3, Zenon
    <2> QED  BY <1>3, <2>4, Zenon DEF ReferencesInv, ReferencesAreLive
<1> QED  BY <1>4, <1>5

\* A member is destroyed after what refers to it, except for the engine; that
\* goes when the service is gone.
LEMMA DestroyReferences ==
    ASSUME MainInv, ReferencesInv, Destroy
    PROVE  ReferencesInv'
<1>1. /\ phase = "destroying" /\ step > 0 /\ live' = live \ {Declared[step]}
      /\ UNCHANGED <<phase, registered>>
    BY Zenon DEF Destroy
<1>2. /\ step \in 1..11
      /\ \A o \in live : \E i \in 1..step : o = Declared[i]
    <2>1. step \in 0..11 /\ \A o \in live : \E i \in 1..step : o = Declared[i]
        BY <1>1, Members, Zenon DEF MainInv
    <2>2. step > 0
        BY <1>1, Zenon
    <2>3. step \in 0..11
        BY <2>1, Zenon
    <2>4. step \in 1..11
        BY <2>2, <2>3
    <2> QED  BY <2>1, <2>4
<1>3. ASSUME NEW o \in live', RefersTo(o) \subseteq live,
             ~ (o = "m_command_parser" /\ "m_tw_service" \notin live'),
             NEW r \in RefersTo(o)
      PROVE  r # Declared[step]
    <2>1. PICK i \in 1..step : o = Declared[i]
        BY <1>1, <1>2, Zenon
    <2>2. i \in 1..11
        BY <1>2, <2>1
    <2>3. r \in Refers(Declared[i], registered) /\ registered \in BOOLEAN
        BY <2>1, <1>3, Zenon DEF RefersTo, Refers, ReferencesInv
    <2>4. \/ \E j \in 1..(i - 1) : r = Declared[j]
          \/ i = 3 /\ r = Declared[4]
        BY <2>2, <2>3, RefersBack, Zenon
    <2>5. CASE \E j \in 1..(i - 1) : r = Declared[j]
        <3> PICK j \in 1..(i - 1) : r = Declared[j]
            BY <2>5, Zenon
        <3>1. j \in 1..11 /\ j # step
            BY <1>2, <2>1, <2>2
        <3> QED  BY <1>2, <3>1, RefersBack, Zenon
    <2>6. CASE i = 3 /\ r = Declared[4]
        <3>1. "m_tw_service" \in live
            BY <1>1, <1>3, <2>1, <2>6, RefersBack, Zenon
        <3>2. PICK k \in 1..step : Declared[k] = Declared[5]
            BY <1>2, <3>1, RefersBack, Zenon
        <3>3. k \in 1..11 /\ 5 \in 1..11 /\ 4 \in 1..11
            BY <1>2
        <3>4. k = 5
            BY <3>2, <3>3, RefersBack, Zenon
        <3>5. step # 4
            BY <1>2, <3>4
        <3> QED  BY <1>2, <2>6, <3>3, <3>5, RefersBack, Zenon
    <2> QED  BY <2>4, <2>5, <2>6, Zenon
<1>4. \A o : RefersTo(o)' = RefersTo(o)
    BY <1>1, Zenon DEF RefersTo
<1>5. ReferencesAreLive'
    BY <1>1, <1>3, <1>4, Zenon DEF ReferencesInv, ReferencesAreLive
<1> QED  BY <1>1, <1>5, Zenon DEF ReferencesInv

(***************************************************************************)
(* Whenever the construction breaks off and whatever the pool does: a      *)
(* member of Application is left with a reference to a member that is gone *)
(* only if it is the parser, and then its caller is gone too.              *)
(***************************************************************************)
THEOREM ReferencesStayLive == Spec => []ReferencesAreLive
<1>1. Init => ReferencesInv
    BY Zenon DEF Init, ReferencesInv, ReferencesAreLive
<1>2. ApplicationInv /\ ReferencesInv /\ [Next]_vars => ReferencesInv'
    <2> SUFFICES ASSUME ApplicationInv, ReferencesInv, [Next]_vars
                 PROVE  ReferencesInv'
        BY Zenon
    <2>1. CASE Construct
        BY <2>1, ConstructReferences, Zenon DEF ApplicationInv
    <2>2. CASE Destroy
        BY <2>2, DestroyReferences, Zenon DEF ApplicationInv
    <2>3. CASE /\ UNCHANGED <<live, registered>>
               /\ phase' = phase \/ phase' # "constructing"
        <3>1. \A o : RefersTo(o)' = RefersTo(o)
            BY <2>3, Zenon DEF RefersTo
        <3> QED
            BY <2>3, <3>1, Zenon DEF ReferencesInv, ReferencesAreLive
    <2>4. \/ Construct \/ Destroy
          \/ /\ UNCHANGED <<live, registered>>
             /\ phase' = phase \/ phase' # "constructing"
        BY Zenon DEF Next, MainThread, ConstructFails, Frame, CloseWindow, Exit,
               PoolThread, Network, Manager, main, vars
    <2> QED  BY <2>1, <2>2, <2>3, <2>4
<1>3. ReferencesInv => ReferencesAreLive
    BY Zenon DEF ReferencesInv
<1> QED  BY <1>1, <1>2, <1>3, ApplicationInvariant, PTL DEF Spec

-----------------------------------------------------------------------------
(***************************************************************************)
(* Test messages.  PostInv says that nothing is posted before sendMessage  *)
(* has reached its post, and that until then what the webhook's URL can    *)
(* be read as is among what the click has to expect.                       *)
(***************************************************************************)
SendStates == {"unused", "spawned", "streams", "games", "post", "done"}

PostInv ==
    /\ send \in [Sends -> SendStates]
    /\ expected \in [Sends -> SUBSET (Urls \cup {NoUrl, Torn})]
    /\ posted \in [Sends -> Seq(Urls \cup {NoUrl, Torn})]
    /\ m_webhook_url \in Urls \cup {NoUrl} /\ applying \in Urls \cup {NoUrl}
    /\ \A s \in Sends :
          /\ send[s] \notin {"post", "done"} => posted[s] = << >>
          /\ Unposted(s) => WebhookUrls \subseteq expected[s]

\* PostInv is about the clicks and the posts.
LEMMA PostFrame ==
    ASSUME PostInv, UNCHANGED notifications
    PROVE  PostInv'
BY Zenon DEF PostInv, WebhookUrls, Unposted, notifications

\* Frames: "Apply" takes two steps, and "Test" none in between.
LEMMA PostClicks ==
    ASSUME PostInv, Frame
    PROVE  PostInv' /\ posted' = posted
<1>1. ASSUME NEW u \in Urls, BeginApply(u) PROVE PostInv' /\ posted' = posted
    <2>1. /\ applying = NoUrl /\ applying' = u
          /\ UNCHANGED <<m_webhook_url, send, posted>>
          /\ expected' = [s \in Sends |-> IF Unposted(s)
                                          THEN expected[s] \cup {u, Torn}
                                          ELSE {}]
        BY <1>1, Zenon DEF BeginApply
    <2>2. expected' \in [Sends -> SUBSET (Urls \cup {NoUrl, Torn})]
        BY <2>1 DEF PostInv
    <2>3. ASSUME NEW s \in Sends, Unposted(s)'
          PROVE  WebhookUrls' \subseteq expected'[s]
        <3>1. Unposted(s) /\ expected'[s] = expected[s] \cup {u, Torn}
            BY <2>1, <2>3, Zenon DEF Unposted
        <3>2. m_webhook_url \in expected[s]
            BY <2>1, <3>1, Zenon DEF PostInv, WebhookUrls
        <3> QED  BY <2>1, <3>1, <3>2, Zenon DEF WebhookUrls
    <2> QED  BY <2>1, <2>2, <2>3, Zenon DEF PostInv
<1>2. ASSUME EndApply PROVE PostInv' /\ posted' = posted
    <2>1. /\ applying # NoUrl /\ m_webhook_url' = applying /\ applying' = NoUrl
          /\ UNCHANGED <<send, posted, expected>>
        BY <1>2, Zenon DEF EndApply
    <2>2. WebhookUrls' \subseteq WebhookUrls
        BY <2>1, Zenon DEF WebhookUrls
    <2>3. \A s \in Sends : Unposted(s)' = Unposted(s)
        BY <2>1, Zenon DEF Unposted
    <2> QED  BY <2>1, <2>2, <2>3, Zenon DEF PostInv
<1>3. ASSUME NEW s \in Sends, testMessage(s) PROVE PostInv' /\ posted' = posted
    <2>1. /\ applying = NoUrl /\ send[s] = "unused"
          /\ send' = [send EXCEPT ![s] = "spawned"]
          /\ expected' = [expected EXCEPT ![s] = {m_webhook_url}]
          /\ UNCHANGED <<m_webhook_url, applying, posted>>
        BY <1>3, Zenon DEF testMessage
    <2>2. WebhookUrls' = WebhookUrls /\ WebhookUrls = {m_webhook_url}
        BY <2>1, Zenon DEF WebhookUrls
    <2>3. /\ send' \in [Sends -> SendStates]
          /\ expected' \in [Sends -> SUBSET (Urls \cup {NoUrl, Torn})]
        BY <2>1, Zenon DEF PostInv, SendStates
    <2>4. ASSUME NEW r \in Sends
          PROVE  /\ send'[r] \notin {"post", "done"} => posted'[r] = << >>
                 /\ Unposted(r)' => WebhookUrls' \subseteq expected'[r]
        <3>1. CASE r = s
            <4>1. posted[s] = << >> /\ expected'[s] = {m_webhook_url}
                BY <2>1, Zenon DEF PostInv
            <4> QED  BY <2>1, <2>2, <3>1, <4>1, Zenon
        <3>2. CASE r # s
            <4>1. /\ send'[r] = send[r] /\ expected'[r] = expected[r]
                  /\ Unposted(r)' = Unposted(r)
                BY <2>1, <3>2, Zenon DEF PostInv, Unposted
            <4> QED  BY <2>1, <2>2, <4>1, Zenon DEF PostInv
        <3> QED  BY <3>1, <3>2, Zenon
    <2> QED  BY <2>1, <2>3, <2>4, Zenon DEF PostInv
<1>4. CASE UNCHANGED notifications
    BY <1>4, PostFrame, Zenon DEF notifications
<1> QED  BY <1>1, <1>2, <1>3, <1>4, Zenon DEF Frame

\* What a step may do to the posts: the property of PostedToCurrentUrl.
PostsOnce ==
    \A s \in Sends :
        posted'[s] # posted[s] =>
            \E u \in expected[s] : posted[s] = << >> /\ posted'[s] = <<u>>

\* sendMessage posts once, to what it finds in m_webhook_url.
LEMMA PostContinues ==
    ASSUME PostInv, NEW t \in Pool, NEW s \in Sends,
           ContinueSend(t, s, "m_disc_not")
    PROVE  PostInv' /\ PostsOnce
<1>1. UNCHANGED <<m_webhook_url, applying>> /\ WebhookUrls' = WebhookUrls
    BY Zenon DEF ContinueSend, WebhookUrls
<1>2. ASSUME NEW pc \in SendStates, send' = [send EXCEPT ![s] = pc],
             UNCHANGED <<posted, expected>>,
             Unposted(s) \/ pc = "done"
      PROVE  PostInv' /\ PostsOnce
    <2>1. send' \in [Sends -> SendStates]
        BY <1>2, Zenon DEF PostInv
    <2>2. ASSUME NEW r \in Sends
          PROVE  /\ send'[r] \notin {"post", "done"} => posted'[r] = << >>
                 /\ Unposted(r)' => WebhookUrls' \subseteq expected'[r]
        <3>1. send'[r] = IF r = s THEN pc ELSE send[r]
            BY <1>2, Zenon DEF PostInv
        <3>2. Unposted(r)' => Unposted(r)
            BY <1>2, <3>1, Zenon DEF Unposted
        <3>3. send'[r] \notin {"post", "done"} =>
                  send[r] \notin {"post", "done"}
            BY <1>2, <3>1, Zenon DEF Unposted
        <3> QED  BY <1>1, <1>2, <3>2, <3>3, Zenon DEF PostInv
    <2> QED  BY <1>1, <1>2, <2>1, <2>2, Zenon DEF PostInv, PostsOnce
<1>3. ASSUME Unposted(s), Post(s)
      PROVE  PostInv' /\ PostsOnce
    <2> PICK u \in WebhookUrls : posted' = [posted EXCEPT ![s] = Append(@, u)]
        BY <1>3, Zenon DEF Post
    <2>1. posted[s] = << >> /\ Append(<< >>, u) = <<u>>
        <3>1. posted[s] = << >>
            BY <1>3, Zenon DEF PostInv, Unposted
        <3> QED  BY <3>1
    <2>2. posted' = [posted EXCEPT ![s] = <<u>>]
        BY <2>1, Zenon
    <2>3. u \in expected[s] /\ u \in Urls \cup {NoUrl, Torn}
        BY <1>3, Zenon DEF WebhookUrls, PostInv
    <2>4. /\ send' = [send EXCEPT ![s] = "post"]
          /\ expected' = [expected EXCEPT ![s] = {}]
        BY <1>3, Zenon DEF Post
    <2>5. /\ send' \in [Sends -> SendStates]
          /\ expected' \in [Sends -> SUBSET (Urls \cup {NoUrl, Torn})]
        BY <2>4, Zenon DEF PostInv, SendStates
    <2>6. posted' \in [Sends -> Seq(Urls \cup {NoUrl, Torn})]
        <3>1. <<u>> \in Seq(Urls \cup {NoUrl, Torn})
            BY <2>3
        <3> QED  BY <2>2, <3>1, Zenon DEF PostInv
    <2>7. ASSUME NEW r \in Sends
          PROVE  /\ send'[r] \notin {"post", "done"} => posted'[r] = << >>
                 /\ Unposted(r)' => WebhookUrls' \subseteq expected'[r]
                 /\ posted'[r] # posted[r] =>
                       \E v \in expected[r] :
                           posted[r] = << >> /\ posted'[r] = <<v>>
        <3>1. CASE r = s
            <4>1. send'[r] = "post" /\ posted'[r] = <<u>>
                BY <2>2, <2>4, <3>1, Zenon DEF PostInv
            <4> QED  BY <2>1, <2>3, <3>1, <4>1, Zenon DEF Unposted
        <3>2. CASE r # s
            <4>1. /\ send'[r] = send[r] /\ expected'[r] = expected[r]
                  /\ posted'[r] = posted[r] /\ Unposted(r)' = Unposted(r)
                BY <2>2, <2>4, <3>2, Zenon DEF PostInv, Unposted
            <4> QED  BY <1>1, <4>1, Zenon DEF PostInv
        <3> QED  BY <3>1, <3>2, Zenon
    <2> QED  BY <1>1, <2>5, <2>6, <2>7, Zenon DEF PostInv, PostsOnce
<1>4. CASE UNCHANGED <<send, posted, expected>>
    BY <1>1, <1>4, PostFrame, Zenon DEF notifications, PostsOnce
<1> QED
    BY <1>2, <1>3, <1>4, Zenon
    DEF ContinueSend, AfterGet, Request, EndSend, SendStates, Unposted

\* Every step preserves PostInv.
LEMMA PostNext ==
    ASSUME PostInv, [Next]_vars
    PROVE  PostInv' /\ PostsOnce
<1>1. CASE Frame
    BY <1>1, PostClicks, Zenon DEF PostsOnce
<1>2. ASSUME NEW t \in Pool, NEW s \in Sends, ContinueSend(t, s, "m_disc_not")
      PROVE  PostInv' /\ PostsOnce
    BY <1>2, PostContinues, Zenon
<1>3. CASE UNCHANGED notifications
    BY <1>3, PostFrame, Zenon DEF notifications, PostsOnce
<1>4. CASE UNCHANGED vars
    BY <1>3, <1>4, Zenon DEF vars
<1>5. CASE MainThread
    BY <1>1, <1>3, <1>5, Zenon
    DEF MainThread, Construct, ConstructFails, CloseWindow, Destroy, Exit
<1>6. CASE \E t \in Pool : PoolThread(t)
    BY <1>2, <1>3, <1>6, Zenon
    DEF PoolThread, Step, ResumeSend, ResumeBackground, ContinueBackground
<1> QED
    BY <1>3, <1>4, <1>5, <1>6, Zenon DEF Next, Network, Manager

(***************************************************************************)
(* A click on "Test" leads to at most one post, and to a URL that was in   *)
(* force or being applied after the click, with any number of clicks,      *)
(* threads and URLs; it is torn only if "Apply" was clicked after it.      *)
(***************************************************************************)
THEOREM TestsPostToCurrentUrl == Spec => PostedToCurrentUrl
<1>1. Init => PostInv
    <2> SUFFICES ASSUME Init PROVE PostInv
        BY Zenon
    <2>1. /\ m_webhook_url = NoUrl /\ applying = NoUrl
          /\ send = [s \in Sends |-> "unused"]
          /\ posted = [s \in Sends |-> << >>]
          /\ expected = [s \in Sends |-> {}]
        BY Zenon DEF Init, NotificationsInit
    <2>2. << >> \in Seq(Urls \cup {NoUrl, Torn})
        OBVIOUS
    <2>3. \A s \in Sends : posted[s] = << >> /\ ~ Unposted(s)
        BY <2>1, Zenon DEF Unposted
    <2>4. posted \in [Sends -> Seq(Urls \cup {NoUrl, Torn})]
        BY <2>1, <2>2, Zenon
    <2>5. /\ send \in [Sends -> SendStates]
          /\ expected \in [Sends -> SUBSET (Urls \cup {NoUrl, Torn})]
        BY <2>1, Zenon DEF SendStates
    <2> QED  BY <2>1, <2>3, <2>4, <2>5, Zenon DEF PostInv
<1>2. PostInv /\ [Next]_vars => PostInv' /\ PostsOnce
    BY PostNext, Zenon
<1>3. PostsOnce => [\A s \in Sends :
          posted'[s] # posted[s] =>
              \E u \in expected[s] : posted[s] = << >> /\ posted'[s] = <<u>>
      ]_notifications
    BY Zenon DEF PostsOnce
<1> QED  BY <1>1, <1>2, <1>3, PTL DEF Spec, PostedToCurrentUrl
=============================================================================
