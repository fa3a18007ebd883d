------------------------- MODULE ConnectionManager -------------------------
(***************************************************************************)
(* core::ConnectionManager (connection_manager.cpp): an io_context that is *)
(* run by a pool of threads, and the shared_ptr through which the main     *)
(* thread's objects and the frames of HTTP requests own it.  Who drops the *)
(* last reference runs the destructor: it stops the io_context and joins   *)
(* the threads one after the other.                                        *)
(*                                                                         *)
(* An operation is a coroutine spawned on the io_context.  A thread takes  *)
(* one that is ready, runs it to its next co_await and goes back to        *)
(* io_context::run.                                                        *)
(***************************************************************************)
EXTENDS Integers, Sequences, Functions

CONSTANTS
    m_thread_count,
    Operations,   \* coroutines that can be spawned
    NoOperation   \* what an idle thread runs

ASSUME ManagerAssumption ==
    /\ m_thread_count \in Nat
    /\ NoOperation \notin Operations

Pool == 1..m_thread_count
Main == 0         \* the main thread

VARIABLES
    manager,      \* "none", "alive", "destroying" or "destroyed"
    owners,       \* holders of a shared_ptr to it
    m_work_guard, stopped,   \* of the io_context
    outstanding,  \* operations spawned and not finished
    ready,        \* those that can go on, a queue
    thread,       \* "none", "running" (in io_context::run) or "returned"
    task,         \* the operation a thread is in the middle of
    destroyer,    \* the thread in the destructor
    joined,       \* how many threads it has joined
    crash         \* how the process broke off, or "no"

io_context == <<m_work_guard, stopped, outstanding, ready>>
threads == <<thread, task>>
lifetime == <<manager, owners, destroyer, joined>>
managerVars == <<lifetime, io_context, threads, crash>>

ManagerInit ==
    /\ manager = "none" /\ owners = {}
    /\ m_work_guard = FALSE /\ stopped = FALSE
    /\ outstanding = {} /\ ready = << >>
    /\ thread = [t \in Pool |-> "none"]
    /\ task = [t \in Pool |-> NoOperation]
    /\ destroyer = Main /\ joined = 0
    /\ crash = "no"

\* make_shared<ConnectionManager>: guard and threads.
CreateManager(h) ==
    /\ manager = "none"
    /\ manager' = "alive" /\ owners' = {h}
    /\ m_work_guard' = TRUE
    /\ thread' = [t \in Pool |-> "running"]
    /\ UNCHANGED <<stopped, outstanding, ready, task, destroyer, joined,
                   crash>>

\* co_spawn
Spawn(op) ==
    /\ outstanding' = outstanding \cup {op}
    /\ ready' = Append(ready, op)
    /\ UNCHANGED <<m_work_guard, stopped>>

\* What op waits for has happened.
Complete(op) ==
    /\ ~ stopped
    /\ op \in outstanding \ Range(ready)
    /\ \A t \in Pool : task[t] # op
    /\ ready' = Append(ready, op)
    /\ UNCHANGED <<lifetime, m_work_guard, stopped, outstanding, threads,
                   crash>>

Take(t, op) ==
    /\ thread[t] = "running" /\ task[t] = NoOperation
    /\ ~ stopped
    /\ ready # << >> /\ op = Head(ready)
    /\ ready' = Tail(ready)
    /\ task' = [task EXCEPT ![t] = op]
    /\ UNCHANGED <<outstanding, thread>>

\* Thread t runs op, and not the destructor.
Runs(t, op) == task[t] = op /\ (manager = "destroying" => destroyer # t)

\* The operation is suspended, or over.
Yield(t) == task' = [task EXCEPT ![t] = NoOperation] /\ UNCHANGED thread

Acquire(h) ==
    /\ owners' = owners \cup {h}
    /\ UNCHANGED <<manager, destroyer, joined>>

\* Faulty variant of Release: the io_context is not stopped.
ReleaseWithoutStop(h, who) ==
    /\ owners' = owners \ {h}
    /\ IF owners' = {} /\ manager = "alive"
       THEN /\ manager' = "destroying" /\ destroyer' = who /\ joined' = 0
            /\ m_work_guard' = FALSE
       ELSE UNCHANGED <<manager, destroyer, joined, m_work_guard>>
    /\ UNCHANGED stopped

\* Faulty variant of Release: the first owner destroys the manager.
ReleaseUnshared(h, who) ==
    /\ owners' = owners \ {h}
    /\ IF h = "m_conn" /\ manager = "alive"
       THEN /\ manager' = "destroying" /\ destroyer' = who /\ joined' = 0
            /\ m_work_guard' = FALSE /\ stopped' = TRUE
       ELSE UNCHANGED <<manager, destroyer, joined, m_work_guard, stopped>>

\* The last reference starts the destructor on the thread that drops it.
Release(h, who) ==
    /\ owners' = owners \ {h}
    /\ IF owners' = {} /\ manager = "alive"
       THEN /\ manager' = "destroying" /\ destroyer' = who /\ joined' = 0
            /\ m_work_guard' = FALSE /\ stopped' = TRUE
       ELSE UNCHANGED <<manager, destroyer, joined, m_work_guard, stopped>>

\* io_context::run returns when it is stopped or out of work.
LeaveRun(t) ==
    /\ thread[t] = "running" /\ task[t] = NoOperation
    /\ stopped \/ (~ m_work_guard /\ outstanding = {})
    /\ thread' = [thread EXCEPT ![t] = "returned"]
    /\ UNCHANGED <<lifetime, io_context, task, crash>>

\* Faulty variant of JoinNext: the destructor does not wait.
DetachNext ==
    /\ manager = "destroying" /\ joined < m_thread_count
    /\ joined' = joined + 1
    /\ UNCHANGED <<manager, owners, destroyer, io_context, threads, crash>>

\* One turn of the loop in the destructor.  Joining oneself throws, and a
\* destructor that throws terminates the process.
JoinNext ==
    /\ manager = "destroying" /\ joined < m_thread_count
    /\ IF joined + 1 = destroyer
       THEN crash' = "self join" /\ UNCHANGED joined
       ELSE /\ thread[joined + 1] = "returned"
            /\ joined' = joined + 1
            /\ UNCHANGED crash
    /\ UNCHANGED <<manager, owners, destroyer, io_context, threads>>

\* The members go, and with the io_context the operations left in it.
DestroyMembers ==
    /\ manager = "destroying" /\ joined = m_thread_count
    /\ manager' = "destroyed"
    /\ outstanding' = {} /\ ready' = << >>
    /\ UNCHANGED <<owners, destroyer, joined, m_work_guard, stopped, threads,
                   crash>>

PoolStep ==
    \/ \E t \in Pool : LeaveRun(t)
    \/ JoinNext
    \/ DestroyMembers

-----------------------------------------------------------------------------
(***************************************************************************)
(* When the members of the manager are destroyed every thread has left     *)
(* io_context::run, and no thread is in an operation.                      *)
(***************************************************************************)
NoThreadOutlivesManager ==
    manager = "destroyed" =>
        \A t \in Pool : thread[t] = "returned" /\ task[t] = NoOperation

(***************************************************************************)
(* The manager is there as long as somebody owns it, on whatever thread    *)
(* the references are copied and dropped: no request comes back to a       *)
(* manager that is being destroyed.                                        *)
(***************************************************************************)
ManagerOutlivesOwners == owners # {} <=> manager = "alive"
=============================================================================
