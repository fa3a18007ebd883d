------------------------------- MODULE Logger -------------------------------
(***************************************************************************)
(* core::Logger and LogContext (logging.cpp, logging.hpp): one logger and  *)
(* one stack of contexts for the whole process.  An actor is a thread or a *)
(* coroutine; LOG_CONTEXT opens a scope that lasts until its block is      *)
(* left, which for Auth::loginAsync includes every wait for the network.   *)
(* Each access to the stack holds m_context_mutex and is one step.         *)
(***************************************************************************)
EXTENDS Integers, Sequences, FiniteSets, SequencesExt

CONSTANTS
    Main,          \* the thread that sets the logger up
    Actors,        \* Main, and what runs on the threads of the pool
    MainContext,   \* the context main opens for the whole run
    Contexts,      \* names of the LOG_CONTEXTs each actor passes through
    MaxDepth       \* bound on the scopes an actor has open

VARIABLES
    m_logger,          \* has Logger::init created the sinks?
    m_current_level,   \* messages below it are dropped
    m_context_stack,
    scopes,            \* the LogContext objects each actor has alive
    written            \* the message written last, and who by

vars == <<m_logger, m_current_level, m_context_stack, scopes, written>>

LogLevel == 0..5      \* Trace to Critical
Info == 2
Trace == 0
Nothing == [by |-> Main, contexts |-> << >>, own |-> << >>]

Init ==
    /\ m_logger = FALSE
    /\ m_current_level = Info
    /\ m_context_stack = << >>
    /\ scopes = [a \in Actors |-> << >>]
    /\ written = Nothing

\* main, before anything else exists: Logger::init, setLevel and the scope
\* that is only left when main returns.
SetUp ==
    /\ ~ m_logger
    /\ m_logger' = TRUE
    /\ m_current_level' = Trace
    /\ m_context_stack' = <<MainContext>>
    /\ scopes' = [scopes EXCEPT ![Main] = <<MainContext>>]
    /\ UNCHANGED written

\* Constructor of LogContext.
PushContext(a, c) ==
    /\ m_logger
    /\ Len(scopes[a]) < MaxDepth
    /\ m_context_stack' = Append(m_context_stack, c)
    /\ scopes' = [scopes EXCEPT ![a] = Append(@, c)]
    /\ UNCHANGED <<m_logger, m_current_level, written>>

\* Destructor of LogContext, of the innermost one of the actor.
PopContext(a) ==
    /\ scopes[a] \notin {<< >>, <<MainContext>>}
    /\ scopes' = [scopes EXCEPT ![a] = Front(@)]
    /\ m_context_stack' = IF m_context_stack # << >>
                          THEN Front(m_context_stack) ELSE << >>
    /\ UNCHANGED <<m_logger, m_current_level, written>>

Log(a, level) ==
    /\ m_logger /\ level >= m_current_level
    /\ written' = [by |-> a, contexts |-> m_context_stack, own |-> scopes[a]]
    /\ UNCHANGED <<m_logger, m_current_level, m_context_stack, scopes>>

Next ==
    \/ SetUp
    \/ \E a \in Actors :
          \/ \E c \in Contexts[a] : PushContext(a, c)
          \/ PopContext(a)
          \/ \E level \in LogLevel : Log(a, level)

Spec == Init /\ [][Next]_vars

-----------------------------------------------------------------------------
AllContexts == {MainContext} \cup UNION {Contexts[a] : a \in Actors}

TypeOK ==
    /\ m_logger \in BOOLEAN
    /\ m_current_level \in LogLevel
    /\ m_context_stack \in Seq(AllContexts)
    /\ scopes \in [Actors -> Seq(AllContexts)]
    /\ written \in [by : Actors, contexts : Seq(AllContexts),
                    own : Seq(AllContexts)]

(***************************************************************************)
(* However the scopes of different actors overlap, the stack has as many   *)
(* entries as scopes are alive, so the test for an empty stack in          *)
(* popContext never has to save it, and nothing is left over.              *)
(***************************************************************************)
OpenScopes == UNION {{a} \X (1..Len(scopes[a])) : a \in Actors}
StackIsBalanced == Len(m_context_stack) = Cardinality(OpenScopes)

(***************************************************************************)
(* A message carries the contexts of the scopes it was written in          *)
(* (logging.hpp: "Scoped context helper").  Leaving a scope removes the    *)
(* top of the stack, which can be the context of somebody else.            *)
(***************************************************************************)
ScopedContext == ToSet(written.own) \subseteq ToSet(written.contexts)
\* Instance for TLC: the main thread, which destroys the services, and a
\* login that has not ended.
LoginContexts == [a \in {"main", "login"} |->
    IF a = "main" THEN {"TwitchService", "Application"} ELSE {"Twitch Auth"}]
=============================================================================
