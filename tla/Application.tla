---------------------------- MODULE Application ----------------------------
(***************************************************************************)
(* Application (application.cpp, application.hpp) and main: the objects    *)
(* are constructed in the order of initialize(), any constructor can       *)
(* throw, the frame loop runs until the window is closed, and the members  *)
(* are destroyed in the reverse of the order of their declaration.  The    *)
(* threads of the pool go on until the connection manager joins them.      *)
(***************************************************************************)
EXTENDS Notifications

CONSTANTS
    Background   \* coroutines of TwitchService that wait for a timer or for
                 \* the websocket, which hold no reference to the manager

VARIABLES
    phase,       \* "constructing", "running", "destroying" or "exited"
    step,        \* how far the construction or destruction has come
    live,        \* the objects that are there
    registered,  \* the callbacks are set and the handlers registered
    at_close     \* history: operations outstanding when the window closed

main == <<phase, step, live, registered, at_close>>
vars == <<managerVars, notifications, main>>

Constructed ==
    <<"m_conn", "m_app_state", "m_command_parser", "m_command_engine",
      "m_tw_service", "m_disc_not", "m_obs", "m_auth_vm", "m_discord_vm",
      "m_chat_vm", "m_ui_manager">>

\* Faulty variant of Declared: the engine is declared after the service.
DeclaredWithEngineLater ==
    <<"m_conn", "m_app_state", "m_command_parser", "m_tw_service",
      "m_command_engine", "m_disc_not", "m_obs", "m_ui_manager", "m_auth_vm",
      "m_discord_vm", "m_chat_vm">>

\* The members in the order of their declaration.  (m_ui_backend has been
\* moved into m_ui_manager.)
Declared ==
    <<"m_conn", "m_app_state", "m_command_parser", "m_command_engine",
      "m_tw_service", "m_disc_not", "m_obs", "m_ui_manager", "m_auth_vm",
      "m_discord_vm", "m_chat_vm">>

Objects == Range(Declared)

ASSUME ApplicationAssumption ==
    /\ Sends \subseteq Operations
    /\ Background \subseteq Operations
    /\ Sends \cap Background = {}
    /\ Sends \cap Objects = {}

\* Members that hold a shared_ptr to the manager.
Owning == {"m_conn", "m_tw_service", "m_disc_not"}

\* The references and raw pointers kept in the objects, those that callbacks
\* and handlers capture included: setupCallbacks gives the service callbacks
\* that use the application's state and the parser, run() gives the parser
\* handlers that use the engine and the functions in its Lua state.
RefersTo(o) ==
    CASE o = "m_auth_vm" -> {"m_tw_service", "m_conn"}
      [] o = "m_discord_vm" -> {"m_conn", "m_disc_not"}
      [] o = "m_chat_vm" -> {"m_tw_service"}
      [] o = "m_ui_manager" -> {"m_app_state"}
      [] o = "m_tw_service" /\ registered -> {"m_app_state",
                                             "m_command_parser"}
      [] o = "m_command_parser" /\ registered -> {"m_command_engine"}
      [] OTHER -> {}

Init ==
    /\ ManagerInit /\ NotificationsInit
    /\ phase = "constructing" /\ step = 1
    /\ live = {} /\ registered = FALSE /\ at_close = {}

\* initialize(), one member at a time, and run()'s part before the loop.
Construct ==
    /\ phase = "constructing"
    /\ LET o == Constructed[step]
       IN  /\ live' = live \cup {o}
           /\ \/ o = "m_conn" /\ CreateManager(o)
              \/ /\ o \in Owning \ {"m_conn"}
                 /\ Acquire(o)
                 /\ UNCHANGED <<io_context, threads, crash>>
              \/ o \notin Owning /\ UNCHANGED managerVars
    /\ IF step = Len(Constructed)
       THEN /\ phase' = "running" /\ step' = Len(Declared)
            /\ registered' = TRUE
       ELSE step' = step + 1 /\ UNCHANGED <<phase, registered>>
    /\ UNCHANGED <<at_close, notifications>>

\* A constructor throws: main catches, and what is there is destroyed.
ConstructFails ==
    /\ phase = "constructing"
    /\ phase' = "destroying" /\ step' = Len(Declared)
    /\ UNCHANGED <<live, registered, at_close, managerVars, notifications>>

\* What the user does in a frame.
Frame ==
    /\ phase = "running"
    /\ \/ \E u \in Urls : BeginApply(u)
       \/ EndApply
       \/ \E s \in Sends : testMessage(s)
       \/ \E b \in Background :
             /\ applying = NoUrl
             /\ b \notin outstanding
             /\ Spawn(b)
             /\ UNCHANGED <<lifetime, threads, crash, notifications>>
    /\ UNCHANGED main

CloseWindow ==
    /\ phase = "running" /\ applying = NoUrl
    /\ phase' = "destroying"
    /\ at_close' = outstanding
    /\ UNCHANGED <<step, live, registered, managerVars, notifications>>

\* The handlers in the parser hold functions of the engine's Lua state.  If
\* that is gone, releasing them is undefined.
FunctionsDangle == ~ RefersTo("m_command_parser") \subseteq live

\* The next member is destroyed, unless it was never constructed.  The main
\* thread may have to finish the destructor of the manager first.
Destroy ==
    /\ phase = "destroying" /\ step > 0
    /\ ~ (manager = "destroying" /\ destroyer = Main)
    /\ LET o == Declared[step]
       IN  /\ live' = live \ {o}
           /\ IF o \in live \cap Owning
              THEN Release(o, Main)
              ELSE UNCHANGED <<lifetime, m_work_guard, stopped>>
           /\ \/ UNCHANGED crash
              \/ /\ o = "m_command_parser" /\ FunctionsDangle
                 /\ crash' = "lua state"
    /\ step' = step - 1
    /\ UNCHANGED <<phase, registered, at_close, outstanding, ready, threads,
                   notifications>>

Exit ==
    /\ phase = "destroying" /\ step = 0
    /\ ~ (manager = "destroying" /\ destroyer = Main)
    /\ phase' = "exited"
    /\ UNCHANGED <<step, live, registered, at_close, managerVars,
                   notifications>>

\* A coroutine of TwitchService goes on to its next wait, or ends.
ContinueBackground(t, b) ==
    /\ Runs(t, b)
    /\ IF "m_tw_service" \in live
       THEN /\ outstanding' \in {outstanding, outstanding \ {b}}
            /\ UNCHANGED crash
       ELSE crash' = "destroyed object" /\ UNCHANGED outstanding
    /\ Yield(t)
    /\ UNCHANGED <<lifetime, m_work_guard, stopped, ready, notifications>>

ResumeBackground(t, b) ==
    /\ Take(t, b)
    /\ UNCHANGED <<lifetime, m_work_guard, stopped, crash, notifications>>

Step(t) ==
    \/ \E s \in Sends :
          \/ ResumeSend(t, s)
          \/ ContinueSend(t, s, "m_disc_not")
    \/ \E b \in Background :
          \/ ResumeBackground(t, b)
          \/ ContinueBackground(t, b)

PoolThread(t) == Step(t) /\ UNCHANGED main
Network(op) == Complete(op) /\ UNCHANGED <<notifications, main>>
Manager == PoolStep /\ UNCHANGED <<notifications, main>>
MainThread ==
    \/ Construct
    \/ ConstructFails
    \/ Frame
    \/ CloseWindow
    \/ Destroy
    \/ Exit

\* Nothing happens after a crash, or after main has returned.
Next ==
    /\ crash = "no" /\ phase # "exited"
    /\ \/ MainThread
       \/ \E t \in Pool : PoolThread(t)
       \/ \E op \in Operations : Network(op)
       \/ Manager

(***************************************************************************)
(* The main thread gets through construction and destruction, every thread *)
(* of the pool runs what it is given, and requests are answered or fail.   *)
(* Nothing is said of timers and the websocket, or of what the user does.  *)
(***************************************************************************)
Running == crash = "no" /\ phase # "exited"
Fairness ==
    /\ WF_vars(Running /\ (Construct \/ Destroy \/ Exit))
    /\ WF_vars(Running /\ Frame /\ EndApply)
    /\ \A t \in Pool : WF_vars(Running /\ PoolThread(t))
    /\ \A s \in Sends : WF_vars(Running /\ Network(s))
    /\ WF_vars(Running /\ Manager)

Spec == Init /\ [][Next]_vars /\ Fairness

-----------------------------------------------------------------------------
(***************************************************************************)
(* While an object is there, so is all it refers to: when the constructors *)
(* run in the order of initialize(), when one of them throws, and when the *)
(* members go in the reverse of the order of their declaration.  There is  *)
(* one exception, on every exit of a program that has started: the engine  *)
(* goes before the parser, whose handlers refer to it.  The service, whose *)
(* callback is the only caller of the handlers, is gone by then.           *)
(***************************************************************************)
ReferencesAreLive ==
    \A o \in live :
        \/ RefersTo(o) \subseteq live
        \/ o = "m_command_parser" /\ "m_tw_service" \notin live

(***************************************************************************)
(* How the process can break off, and what it takes.  Nothing does before  *)
(* the window is closed.  After that, a coroutine meets a destroyed object *)
(* only if it was under way at that moment: a test message that has a      *)
(* request still to make, or a coroutine of the destroyed service.  The    *)
(* handlers' functions are released after their Lua state only if they     *)
(* were registered.  A thread of the pool comes to destroy the manager,    *)
(* and with it to join itself, and main returns before the manager is gone *)
(* only if a test message was waiting for an answer when the window was    *)
(* closed, and then with all members gone.                                 *)
(***************************************************************************)
TestOutlivesMembers == live = {} /\ at_close \cap Sends # {}
ExitFaults ==
    /\ crash # "no" => phase = "destroying"
    /\ crash = "destroyed object" =>
          \/ /\ "m_disc_not" \notin live
             /\ \E s \in at_close \cap Sends : Unposted(s)
          \/ "m_tw_service" \notin live /\ at_close \cap Background # {}
    /\ crash = "lua state" => registered
    /\ crash = "self join" => TestOutlivesMembers
    /\ phase = "exited" =>
          manager \in {"none", "destroyed"} \/ TestOutlivesMembers

\* Once the destructors run, main returns, or the process has crashed.
ExitEnds == phase = "destroying" ~> phase = "exited" \/ crash # "no"

(***************************************************************************)
(* Every click on "Test" leads to a post, whichever of the requests before *)
(* it fail, if the window stays open.                                      *)
(***************************************************************************)
EveryTestPosts ==
    \A s \in Sends :
        send[s] = "spawned" ~> \/ send[s] = "done" /\ posted[s] # << >>
                               \/ phase # "running"
=============================================================================
