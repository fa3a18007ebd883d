---------------------------- MODULE Logger_proofs ----------------------------
(* Proofs about Logger, for any number of actors and any depth of scopes.  *)
EXTENDS Logger, FiniteSetTheorems, TLAPS

\* What there is before Logger::init, and the balance of the stack.
LoggerInv ==
    /\ TypeOK
    /\ ~ m_logger => /\ m_context_stack = << >>
                     /\ \A a \in Actors : scopes[a] = << >>
    /\ IsFiniteSet(OpenScopes)
    /\ StackIsBalanced

\* A context is a name: that of main or one of an actor.
LEMMA KnownContexts ==
    /\ MainContext \in AllContexts
    /\ \A a \in Actors : \A c \in Contexts[a] : c \in AllContexts
BY Zenon DEF AllContexts

\* The scopes that are alive, one by one.
LEMMA OpenScope ==
    ASSUME NEW a, NEW n
    PROVE  <<a, n>> \in OpenScopes <=> a \in Actors /\ n \in 1..Len(scopes[a])
BY DEF OpenScopes

\* An interval with one number more, and with one less.
LEMMA Intervals ==
    ASSUME NEW n \in Nat
    PROVE  /\ 1..(n + 1) = (1..n) \cup {n + 1}
           /\ 1..(n - 1) = (1..n) \ {n}
<1>1. \A k : k \in 1..(n + 1) <=> k \in 1..n \/ k = n + 1
    OBVIOUS
<1>2. \A k : k \in 1..(n - 1) <=> k \in 1..n /\ k # n
    OBVIOUS
<1> QED  BY <1>1, <1>2

\* A scope that an actor opens is a new one.
LEMMA OpenOne ==
    ASSUME TypeOK, IsFiniteSet(OpenScopes), NEW a \in Actors,
           NEW c \in AllContexts,
           scopes' = [scopes EXCEPT ![a] = Append(@, c)]
    PROVE  /\ scopes' \in [Actors -> Seq(AllContexts)]
           /\ IsFiniteSet(OpenScopes')
           /\ Cardinality(OpenScopes') = Cardinality(OpenScopes) + 1
<1> DEFINE x == <<a, Len(scopes[a]) + 1>>
<1>1. scopes[a] \in Seq(AllContexts) /\ Len(scopes[a]) \in Nat
    BY DEF TypeOK
<1>2. /\ scopes' \in [Actors -> Seq(AllContexts)]
      /\ \A b \in Actors :
            Len(scopes'[b]) = IF b = a THEN Len(scopes[a]) + 1 ELSE Len(scopes[b])
    BY <1>1 DEF TypeOK
<1>3. x \notin OpenScopes
    BY <1>1 DEF OpenScopes
<1>4. OpenScopes' = OpenScopes \cup {x}
    <2>1. \A b \in Actors : 1..Len(scopes'[b]) =
             IF b = a THEN (1..Len(scopes[a])) \cup {Len(scopes[a]) + 1}
             ELSE 1..Len(scopes[b])
        BY <1>1, <1>2, Intervals, Zenon
    <2>2. OpenScopes' = UNION {{b} \X (1..Len(scopes'[b])) : b \in Actors}
        BY Zenon DEF OpenScopes
    <2> QED  BY <2>1, <2>2 DEF OpenScopes
<1> QED
    BY <1>2, <1>3, <1>4, FS_AddElement, Zenon

\* An actor leaves its innermost scope.
LEMMA CloseOne ==
    ASSUME TypeOK, IsFiniteSet(OpenScopes), NEW a \in Actors,
           scopes[a] # << >>,
           scopes' = [scopes EXCEPT ![a] = Front(@)]
    PROVE  /\ scopes' \in [Actors -> Seq(AllContexts)]
           /\ IsFiniteSet(OpenScopes')
           /\ Cardinality(OpenScopes') = Cardinality(OpenScopes) - 1
           /\ Cardinality(OpenScopes) # 0
<1> DEFINE x == <<a, Len(scopes[a])>>
<1>1. /\ scopes[a] \in Seq(AllContexts) /\ Len(scopes[a]) \in Nat
      /\ Len(scopes[a]) > 0
    BY DEF TypeOK
<1>2. /\ Front(scopes[a]) \in Seq(AllContexts)
      /\ Len(Front(scopes[a])) = Len(scopes[a]) - 1
    BY <1>1 DEF Front
<1>3. /\ scopes' \in [Actors -> Seq(AllContexts)]
      /\ \A b \in Actors :
            Len(scopes'[b]) = IF b = a THEN Len(scopes[a]) - 1 ELSE Len(scopes[b])
    BY <1>2, Zenon DEF TypeOK
<1>4. x \in OpenScopes
    BY <1>1 DEF OpenScopes
<1>5. OpenScopes' = OpenScopes \ {x}
    <2>1. \A b \in Actors : 1..Len(scopes'[b]) =
             IF b = a THEN (1..Len(scopes[a])) \ {Len(scopes[a])}
             ELSE 1..Len(scopes[b])
        BY <1>1, <1>3, Intervals, Zenon
    <2>2. OpenScopes' = UNION {{b} \X (1..Len(scopes'[b])) : b \in Actors}
        BY Zenon DEF OpenScopes
    <2>3. ASSUME NEW b \in Actors
          PROVE  {b} \X (1..Len(scopes'[b])) =
                     ({b} \X (1..Len(scopes[b]))) \ {x}
        <3>1. CASE b = a
            <4> DEFINE n == Len(scopes[a])
            <4>1. 1..Len(scopes'[b]) = (1..n) \ {n}
                BY <2>1, <3>1, Zenon
            <4>2. \A S, k : {a} \X (S \ {k}) = ({a} \X S) \ {<<a, k>>}
                OBVIOUS
            <4> QED  BY <3>1, <4>1, <4>2
        <3>2. CASE b # a  BY <2>1, <3>2
        <3> QED  BY <3>1, <3>2
    <2> QED  BY <2>2, <2>3 DEF OpenScopes
<1>6. Cardinality(OpenScopes) # 0
    BY <1>4, FS_EmptySet, Zenon
<1> QED
    BY <1>3, <1>4, <1>5, <1>6, FS_RemoveElement, Zenon

-----------------------------------------------------------------------------
\* The invariant holds before main has set the logger up.
LEMMA LoggerInvInit ==
    ASSUME Main \in Actors, Init
    PROVE  LoggerInv
<1>1. TypeOK
    <2>1. << >> \in Seq(AllContexts)
        OBVIOUS
    <2>2. written \in [by : Actors, contexts : Seq(AllContexts),
                       own : Seq(AllContexts)]
        BY <2>1, Zenon DEF Init, Nothing
    <2>3. Info \in LogLevel
        BY DEF Info, LogLevel
    <2> QED  BY <2>1, <2>2, <2>3 DEF Init, TypeOK
<1>2. OpenScopes = {}
    BY DEF Init, OpenScopes
<1>3. IsFiniteSet(OpenScopes) /\ Cardinality(OpenScopes) = 0
    BY <1>2, FS_EmptySet, Zenon
<1> QED
    BY <1>1, <1>3, Zenon DEF Init, LoggerInv, StackIsBalanced

\* main sets the logger up and opens the first scope.
LEMMA SetUpStep ==
    ASSUME Main \in Actors, LoggerInv, SetUp
    PROVE  LoggerInv'
<1>1. /\ m_logger' = TRUE /\ m_current_level' = Trace /\ written' = written
      /\ m_context_stack' = <<MainContext>>
      /\ scopes' = [scopes EXCEPT ![Main] = <<MainContext>>]
      /\ scopes[Main] = << >> /\ m_context_stack = << >>
    BY Zenon DEF SetUp, LoggerInv
<1>2. scopes' = [scopes EXCEPT ![Main] = Append(@, MainContext)]
    BY <1>1
<1>3. /\ scopes' \in [Actors -> Seq(AllContexts)]
      /\ IsFiniteSet(OpenScopes')
      /\ Cardinality(OpenScopes') = Cardinality(OpenScopes) + 1
    BY <1>2, OpenOne, KnownContexts, Zenon DEF LoggerInv
<1>4. TypeOK'
    BY <1>1, <1>3, KnownContexts DEF LoggerInv, TypeOK, LogLevel, Trace
<1>5. Cardinality(OpenScopes) = 0
    BY <1>1, Zenon DEF LoggerInv, StackIsBalanced
<1>6. Len(m_context_stack') = 1
    BY <1>1, Zenon
<1> QED
    BY <1>1, <1>3, <1>4, <1>5, <1>6 DEF LoggerInv, StackIsBalanced

\* pushContext adds one entry for one scope.
LEMMA PushContextStep ==
    ASSUME LoggerInv, NEW a \in Actors, NEW c \in Contexts[a],
           PushContext(a, c)
    PROVE  LoggerInv'
<1>1. /\ m_logger /\ m_context_stack' = Append(m_context_stack, c)
      /\ scopes' = [scopes EXCEPT ![a] = Append(@, c)]
      /\ UNCHANGED <<m_logger, m_current_level, written>>
    BY Zenon DEF PushContext
<1>2. c \in AllContexts
    BY KnownContexts, Zenon
<1>3. /\ scopes' \in [Actors -> Seq(AllContexts)]
      /\ IsFiniteSet(OpenScopes')
      /\ Cardinality(OpenScopes') = Cardinality(OpenScopes) + 1
    BY <1>1, <1>2, OpenOne, Zenon DEF LoggerInv
<1>4. m_context_stack \in Seq(AllContexts)
    BY Zenon DEF LoggerInv, TypeOK
<1>5. /\ m_context_stack' \in Seq(AllContexts)
      /\ Len(m_context_stack') = Len(m_context_stack) + 1
    BY <1>1, <1>2, <1>4
<1>6. TypeOK'
    BY <1>1, <1>3, <1>5, Zenon DEF LoggerInv, TypeOK
<1> QED
    BY <1>1, <1>3, <1>5, <1>6, Zenon DEF LoggerInv, StackIsBalanced

\* popContext takes one entry for one scope: as there is a scope the stack is
\* not empty.
LEMMA PopContextStep ==
    ASSUME LoggerInv, NEW a \in Actors, PopContext(a)
    PROVE  LoggerInv'
<1>1. /\ scopes[a] # << >>
      /\ scopes' = [scopes EXCEPT ![a] = Front(@)]
      /\ m_context_stack' = IF m_context_stack # << >>
                            THEN Front(m_context_stack) ELSE << >>
      /\ UNCHANGED <<m_logger, m_current_level, written>>
    BY Zenon DEF PopContext
<1>2. /\ scopes' \in [Actors -> Seq(AllContexts)]
      /\ IsFiniteSet(OpenScopes')
      /\ Cardinality(OpenScopes') = Cardinality(OpenScopes) - 1
      /\ Cardinality(OpenScopes) # 0
    BY <1>1, CloseOne, Zenon DEF LoggerInv
<1>3. /\ m_context_stack \in Seq(AllContexts)
      /\ Len(m_context_stack) = Cardinality(OpenScopes)
    BY Zenon DEF LoggerInv, TypeOK, StackIsBalanced
<1>4. Len(m_context_stack) # 0 /\ m_context_stack # << >>
    BY <1>2, <1>3, Zenon
<1>5. m_context_stack' = SubSeq(m_context_stack, 1, Len(m_context_stack) - 1)
    BY <1>1, <1>4, Zenon DEF Front
<1>6. /\ m_context_stack' \in Seq(AllContexts)
      /\ Len(m_context_stack') = Len(m_context_stack) - 1
    BY <1>3, <1>4, <1>5
<1>7. TypeOK'
    BY <1>1, <1>2, <1>6, Zenon DEF LoggerInv, TypeOK
<1>8. m_logger'
    BY <1>1, Zenon DEF LoggerInv
<1> QED
    BY <1>2, <1>3, <1>6, <1>7, <1>8, Zenon DEF LoggerInv, StackIsBalanced

\* A message changes neither the stack nor the scopes.
LEMMA LogStep ==
    ASSUME LoggerInv, NEW a \in Actors, NEW level, Log(a, level)
    PROVE  LoggerInv'
<1>1. /\ written' = [by |-> a, contexts |-> m_context_stack, own |-> scopes[a]]
      /\ UNCHANGED <<m_logger, m_current_level, m_context_stack, scopes>>
    BY Zenon DEF Log
<1>2. TypeOK'
    BY <1>1, Zenon DEF LoggerInv, TypeOK
<1>3. OpenScopes' = OpenScopes
    BY <1>1, Zenon DEF OpenScopes
<1> QED
    BY <1>1, <1>2, <1>3, Zenon DEF LoggerInv, StackIsBalanced

(***************************************************************************)
(* The stack of contexts has as many entries as there are LogContext       *)
(* objects, for any number of threads and coroutines and however their     *)
(* scopes overlap: pushContext and popContext hold the mutex, and every    *)
(* constructor is paired with a destructor.                                *)
(***************************************************************************)
THEOREM StackStaysBalanced ==
    ASSUME Main \in Actors
    PROVE  Spec => [](TypeOK /\ StackIsBalanced)
<1>1. Init => LoggerInv
    BY LoggerInvInit, Zenon
<1>2. LoggerInv /\ [Next]_vars => LoggerInv'
    <2> SUFFICES ASSUME LoggerInv, [Next]_vars PROVE LoggerInv'
        BY Zenon
    <2>1. CASE UNCHANGED vars
        <3>1. UNCHANGED <<m_logger, m_current_level, m_context_stack, scopes,
                          written>>
            BY <2>1, Zenon DEF vars
        <3>2. TypeOK' /\ OpenScopes' = OpenScopes
            BY <3>1, Zenon DEF LoggerInv, TypeOK, OpenScopes
        <3> QED  BY <3>1, <3>2 DEF LoggerInv, StackIsBalanced
    <2> QED
        BY <2>1, SetUpStep, PushContextStep, PopContextStep, LogStep, Zenon
        DEF Next
<1>3. LoggerInv => TypeOK /\ StackIsBalanced
    BY Zenon DEF LoggerInv
<1> QED  BY <1>1, <1>2, <1>3, PTL DEF Spec
=============================================================================
