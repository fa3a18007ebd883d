---------------------- MODULE LuaCommandEngine_proofs -----------------------
(***************************************************************************)
(* Proofs about LuaCommandEngine for every set of names, users, files and  *)
(* scripts, every clock resolution and every bound: its types, that        *)
(* cooldowns and use limits are kept for every history of executions,      *)
(* edits and reloads, that a refusal has its reason in that history, and   *)
(* what the registry and the parser hold.                                  *)
(***************************************************************************)
EXTENDS LuaCommandEngine, FiniteSetTheorems, TLAPS

USE TicksAssumption, EngineAssumption

(***************************************************************************)
(* What an execution appends to the history.                               *)
(***************************************************************************)
LEMMA AppendFacts ==
    ASSUME NEW S, NEW s \in Seq(S), NEW x \in S
    PROVE  /\ Append(s, x) \in Seq(S)
           /\ Len(s) \in Nat
           /\ Len(Append(s, x)) = Len(s) + 1
           /\ DOMAIN s = 1..Len(s)
           /\ DOMAIN Append(s, x) = 1..(Len(s) + 1)
           /\ \A i \in 1..Len(s) : Append(s, x)[i] = s[i]
           /\ Append(s, x)[Len(s) + 1] = x
  OBVIOUS

(***************************************************************************)
(* Type correctness.                                                       *)
(***************************************************************************)
LEMMA TypeInit == Init => TypeOK
  BY DEF Init, TypeOK, TrackerInit, TrackerTypeOK, Time, Never, Content,
         LoopStates, Entry

\* Every operation of the engine keeps the types of its maps.
LEMMA TypeNext == TypeOK /\ [Next]_vars => TypeOK'
<1> SUFFICES ASSUME TypeOK, [Next]_vars PROVE TypeOK'
  BY Zenon
<1> USE DEF TypeOK, TrackerTypeOK
<1>1. CASE Tick
  BY <1>1 DEF Tick, tracker, registry, history
<1>2. CASE \E f \in Files, c \in Content : EditFile(f, c)
  BY <1>2 DEF EditFile, tracker, registry, history
<1>3. CASE StreamOnline
  BY <1>3 DEF StreamOnline, tracker, registry
<1>4. CASE FinishLoading
  BY <1>4 DEF FinishLoading, tracker, registry, history, ListedEntries, Listed,
              Entry, LoopStates
<1>5. ASSUME NEW e \in Entry, loadLuaCommand(e) PROVE TypeOK'
  <2>1. /\ e[2] \in Files
        /\ Loadable(disk[e[2]]) =>
              /\ disk[e[2]] \in Scripts
              /\ disk[e[2]].meta \in CommandMetadata
    BY <1>5 DEF Entry, Loadable, Content
  <2>2. /\ m_command_files' \in [Names -> Files \cup {NoFile}]
        /\ m_command_metadata' \in [Names -> CommandMetadata \cup {NoMetadata}]
    <3>1. CASE Loadable(disk[e[2]])
      <4> DEFINE claims == Claims(disk[e[2]])
                 meta == disk[e[2]].meta
      <4>1. /\ m_command_files' =
                  [n \in Names |-> IF n \in claims THEN e[2]
                                   ELSE m_command_files[n]]
            /\ m_command_metadata' =
                  [n \in Names |-> IF n \in claims THEN meta
                                   ELSE m_command_metadata[n]]
        BY <1>5, <3>1, Zenon DEF loadLuaCommand
      <4>2. meta \in CommandMetadata
        BY <2>1, <3>1, Zenon
      <4> HIDE DEF claims, meta
      <4> QED
        BY <2>1, <4>1, <4>2, Zenon
    <3>2. CASE ~ Loadable(disk[e[2]])
      BY <1>5, <3>2, Zenon DEF loadLuaCommand
    <3> QED
      BY <3>1, <3>2, Zenon
  <2> QED
    BY <1>5, <2>2, Zenon DEF loadLuaCommand, tracker, history
<1>6. ASSUME NEW e \in Entry, registerWithParser(e) PROVE TypeOK'
  <2>1. /\ e[1] \in Names /\ e[2] \in Files
        /\ disk[e[2]] \notin {Missing, Broken} =>
              disk[e[2]].execute \in Bodies
    BY <1>6 DEF Entry, Content
  <2>2. m_commands' \in [Names -> LuaHandler \cup Natives \cup {NoHandler}]
    BY <1>6, <2>1, Zenon DEF registerWithParser, registerCommand, LuaHandler
  <2> QED
    BY <1>6, <2>2, Zenon DEF registerWithParser, tracker, history
<1>7. CASE FinishRegistering
  BY <1>7, Zenon DEF FinishRegistering, tracker, history, LoopStates, Natives
<1>8. CASE FinishCommand
  <2> DEFINE r == [cmd |-> running.cmd, user |-> running.user,
                   execute |-> running.execute, meta |-> running.meta,
                   start |-> running.start, end |-> now]
  <2>1. /\ running.cmd \in Names
        /\ running.user \in Users
        /\ r \in Run
    BY <1>8, Zenon DEF FinishCommand, Admitted, Run
  <2>2. TrackerTypeOK'
    <3>1. now \in Time
      BY Zenon DEF Time
    <3>2. last_command_use' \in [Names -> Time]
      BY <1>8, <2>1, <3>1, Zenon DEF FinishCommand, recordUsage
    <3>3. user_command_cooldowns' \in [Names \X Users -> Time]
      BY <1>8, <2>1, <3>1, Zenon DEF FinishCommand, recordUsage
    <3>4. command_use_count' \in [Names -> Nat]
      <4>1. command_use_count' =
               [command_use_count EXCEPT ![running.cmd] = @ + 1]
        BY <1>8, Zenon DEF FinishCommand, recordUsage
      <4>2. command_use_count[running.cmd] + 1 \in Nat
        BY <2>1
      <4> QED
        BY <2>1, <4>1, <4>2, Zenon
    <3> QED
      BY <1>8, <3>2, <3>3, <3>4, Zenon DEF FinishCommand, recordUsage
  <2>3. /\ runs' \in Seq(Run)
        /\ Len(runs') = Len(runs) + 1
        /\ Len(runs) \in Nat
    <3>1. runs' = Append(runs, r)
      BY <1>8, Zenon DEF FinishCommand
    <3> HIDE DEF r
    <3> QED
      BY <2>1, <3>1, AppendFacts, Zenon
  <2>4. stream_first' \in 0..Len(runs')
    <3>1. stream_first' = stream_first /\ stream_first \in 0..Len(runs)
      BY <1>8, Zenon DEF FinishCommand
    <3> QED
      BY <2>3, <3>1
  <2> QED
    BY <1>8, <2>2, <2>3, <2>4, Zenon DEF FinishCommand, registry, LoopStates
<1>9. ASSUME NEW n \in Names, NEW u \in Users, NEW b \in SUBSET Badges,
             Message(n, u, b)
      PROVE  TypeOK'
  <2>1. CASE UnknownCommand(n)
    BY <2>1, Zenon DEF UnknownCommand, tracker, registry, history
  <2>2. CASE reloadAllCommands(n)
    BY <2>2 DEF reloadAllCommands, tracker, history, ListedEntries, Listed,
                Entry, LoopStates
  <2>3. CASE getLoadedCommands(n)
    BY <2>3, Zenon DEF getLoadedCommands, tracker, registry, history
  <2>4. CASE RefuseCommand(n, u, b)
    BY <2>4, Zenon DEF RefuseCommand, tracker, registry, history
  <2>5. CASE StartCommand(n, u, b)
    <3>1. /\ Handler(n) \in LuaHandler
          /\ m_command_metadata[Handler(n).cmd] \in CommandMetadata
      BY <2>5, Zenon DEF StartCommand, Handler, Verdict, Checks, LuaHandler
    <3>2. running' \in Admitted
      BY <2>5, <3>1, Zenon DEF StartCommand, Admitted, LuaHandler
    <3> QED
      BY <2>5, <3>2, Zenon
      DEF StartCommand, tracker, registry, history, LoopStates
  <2> QED
    BY <1>9, <2>1, <2>2, <2>3, <2>4, <2>5, Zenon DEF Message
<1>10. CASE UNCHANGED vars
  BY <1>10, Zenon DEF vars, tracker, registry, history
<1> QED
  BY <1>1, <1>2, <1>3, <1>4, <1>5, <1>6, <1>7, <1>8, <1>9, <1>10, Zenon
     DEF Next, Load, Register

\* Every reachable state of the engine is well typed.
THEOREM TypeCorrect == Spec => []TypeOK
  BY TypeInit, TypeNext, PTL DEF Spec

\* What kind of reply a record with that field is.
LEMMA ReplyKind ==
    /\ \A k : [kind |-> k].kind = k
    /\ \A k, S : [kind |-> k, names |-> S].kind = k
    /\ \A k, S : [kind |-> k, names |-> S].names = S
  BY Zenon

\* What the message loop is doing while it reads the directory.
Reading == {"scanning", "starting", "reloading", "reregistering"}

-----------------------------------------------------------------------------
(***************************************************************************)
(* Cooldowns and use limits.  CooldownsKept and UseLimitKept speak of the  *)
(* history alone and are not inductive: the tracker has to cover the       *)
(* history (Recorded, Counted), and what has been checked when a command   *)
(* was admitted has to stay true until it is recorded (AdmittedRight).     *)
(***************************************************************************)
Recorded ==
    /\ last_global_command <= now
    /\ \A c \in Names : last_command_use[c] <= now
    /\ \A cu \in Names \X Users : user_command_cooldowns[cu] <= now
    /\ \A i \in DOMAIN runs :
          /\ runs[i].end <= last_global_command
          /\ runs[i].end <= last_command_use[runs[i].cmd]
          /\ runs[i].end <=
                user_command_cooldowns[<<runs[i].cmd, runs[i].user>>]

Counted == \A c \in Names : command_use_count[c] = Uses(c, Len(runs))

AdmittedRight ==
    loop = "executing" =>
        /\ \A i \in DOMAIN runs : Spaced(runs[i], running)
        /\ running.meta.max_uses_per_stream > 0 =>
              command_use_count[running.cmd] < running.meta.max_uses_per_stream

LimitInv ==
    /\ TypeOK
    /\ Recorded
    /\ Counted
    /\ AdmittedRight
    /\ CooldownsKept
    /\ UseLimitKept

(***************************************************************************)
(* isOnCooldown truncates: when it finds nothing, the full cooldown has    *)
(* passed since t, hence since anything that ended by t.                   *)
(***************************************************************************)
LEMMA NotWithin ==
    ASSUME now \in Nat, NEW t \in Nat, t <= now, NEW cooldown \in Nat,
           ~ Within(t, cooldown), NEW end \in Nat, end <= t
    PROVE  now - end >= Seconds(cooldown)
<1>1. \A d \in Nat : ~ (d \div TicksPerSecond < cooldown) =>
                        d >= cooldown * TicksPerSecond
  OBVIOUS
<1>2. now - t \in Nat
  OBVIOUS
<1>3. now - t >= cooldown * TicksPerSecond
  BY <1>1, <1>2, Zenon DEF Within
<1>4. cooldown * TicksPerSecond \in Nat
  OBVIOUS
<1> QED
  BY <1>3, <1>4 DEF Seconds

\* A command that is admitted is spaced from everything that ran before.
LEMMA AdmittedIsSpaced ==
    ASSUME TypeOK, Recorded, NEW cmd \in Names, NEW user \in Users,
           NEW execute, NEW meta \in CommandMetadata,
           ~ isOnCooldown(cmd, user, meta), NEW i \in DOMAIN runs
    PROVE  Spaced(runs[i], [cmd |-> cmd, user |-> user, execute |-> execute,
                            meta |-> meta, start |-> now])
<1> DEFINE r == runs[i]
<1>1. /\ r \in Run
      /\ r.end \in Nat /\ r.cmd \in Names /\ r.user \in Users
  <2>1. r \in Run
    BY DEF TypeOK
  <2> QED
    BY <2>1, Zenon DEF Run
<1>2. /\ now \in Nat /\ last_global_command \in Nat
      /\ last_command_use[cmd] \in Time
      /\ user_command_cooldowns[<<cmd, user>>] \in Time
  BY Zenon DEF TypeOK, TrackerTypeOK
<1>3. /\ last_global_command <= now
      /\ last_command_use[cmd] <= now
      /\ user_command_cooldowns[<<cmd, user>>] <= now
      /\ r.end <= last_global_command
      /\ r.end <= last_command_use[r.cmd]
      /\ r.end <= user_command_cooldowns[<<r.cmd, r.user>>]
  BY Zenon DEF Recorded
<1>4. /\ meta.global_cooldown \in Int /\ meta.command_cooldown \in Int
      /\ meta.user_cooldown \in Int
  BY Zenon DEF CommandMetadata
<1> HIDE DEF r
<1>5. ASSUME meta.global_cooldown > 0
      PROVE  now - r.end >= Seconds(meta.global_cooldown)
  <2>1. ~ Within(last_global_command, meta.global_cooldown)
    BY <1>5, Zenon DEF isOnCooldown
  <2>2. meta.global_cooldown \in Nat
    BY <1>4, <1>5
  <2> QED
    BY <1>1, <1>2, <1>3, <2>1, <2>2, NotWithin, Zenon
<1>6. ASSUME meta.command_cooldown > 0, r.cmd = cmd
      PROVE  now - r.end >= Seconds(meta.command_cooldown)
  <2>1. last_command_use[cmd] \in Nat /\ last_command_use[cmd] # Never
    BY <1>1, <1>2, <1>3, <1>6 DEF Time, Never
  <2>2. ~ Within(last_command_use[cmd], meta.command_cooldown)
    BY <1>6, <2>1, Zenon DEF isOnCooldown
  <2> QED
    BY <1>1, <1>2, <1>3, <1>4, <1>6, <2>1, <2>2, NotWithin
<1>7. ASSUME meta.user_cooldown > 0, r.cmd = cmd, r.user = user
      PROVE  now - r.end >= Seconds(meta.user_cooldown)
  <2>1. /\ user_command_cooldowns[<<cmd, user>>] \in Nat
        /\ user_command_cooldowns[<<cmd, user>>] # Never
    BY <1>1, <1>2, <1>3, <1>7 DEF Time, Never
  <2>2. ~ Within(user_command_cooldowns[<<cmd, user>>], meta.user_cooldown)
    BY <1>7, <2>1, Zenon DEF isOnCooldown
  <2> QED
    BY <1>1, <1>2, <1>3, <1>4, <1>7, <2>1, <2>2, NotWithin
<1> QED
  BY <1>5, <1>6, <1>7, Zenon DEF Spaced, r

\* One more index of a name adds one to its uses, and none to the others'.
LEMMA UsesStep ==
    ASSUME NEW n \in Nat, NEW A \in SUBSET (1..n)
    PROVE  /\ IsFiniteSet(A)
           /\ Cardinality(A) \in Nat
           /\ Cardinality(A \cup {n + 1}) = Cardinality(A) + 1
<1>1. IsFiniteSet(1..n)
  BY FS_Interval
<1>2. IsFiniteSet(A) /\ Cardinality(A) \in Nat
  BY <1>1, FS_Subset, FS_CardinalityType, Zenon
<1>3. n + 1 \notin A
  OBVIOUS
<1> QED
  BY <1>2, <1>3, FS_AddElement, Zenon

\* There is no history when the engine is constructed.
LEMMA LimitInit == Init => LimitInv
<1> SUFFICES ASSUME Init PROVE LimitInv
  BY Zenon
<1>1. TypeOK
  BY TypeInit, Zenon
<1>2. runs = << >> /\ DOMAIN runs = {} /\ Len(runs) = 0
  BY DEF Init
<1>3. Recorded
  BY <1>1, <1>2 DEF Init, Recorded, TrackerInit, Never, TypeOK, TrackerTypeOK
<1>4. Counted
  <2>1. \A c : {i \in 1..0 : runs[i].cmd = c} = {}
    OBVIOUS
  <2> QED
    BY <1>2, <2>1, FS_EmptySet, Zenon DEF Init, Counted, Uses, TrackerInit
<1>5. AdmittedRight /\ CooldownsKept /\ UseLimitKept
  BY <1>2, Zenon DEF Init, AdmittedRight, CooldownsKept, UseLimitKept
<1> QED
  BY <1>1, <1>3, <1>4, <1>5, Zenon DEF LimitInv

\* Steps that leave the tracker, the history and the running command alone.
LEMMA LimitFrame ==
    ASSUME LimitInv, TypeOK', now' \in Nat, now' >= now,
           UNCHANGED <<tracker, runs, running>>,
           loop' = "executing" => loop = "executing"
    PROVE  LimitInv'
<1>1. Recorded'
  <2>1. /\ now \in Nat /\ last_global_command \in Nat
        /\ last_command_use \in [Names -> Time]
        /\ user_command_cooldowns \in [Names \X Users -> Time]
    BY Zenon DEF LimitInv, TypeOK, TrackerTypeOK
  <2>2. \A t \in Time : t <= now => t <= now'
    BY <2>1 DEF Time, Never
  <2>3. \A c \in Names : last_command_use[c] <= now'
    BY <2>1, <2>2, Zenon DEF LimitInv, Recorded
  <2>4. \A cu \in Names \X Users : user_command_cooldowns[cu] <= now'
    BY <2>1, <2>2, Zenon DEF LimitInv, Recorded
  <2>5. last_global_command <= now'
    BY <2>1 DEF LimitInv, Recorded
  <2> QED
    BY <2>3, <2>4, <2>5, Zenon DEF LimitInv, Recorded, tracker
<1>2. Counted' /\ CooldownsKept' /\ UseLimitKept'
  BY Zenon
  DEF LimitInv, Counted, CooldownsKept, UseLimitKept, Uses, Spaced, tracker
<1>3. AdmittedRight'
  BY Zenon DEF LimitInv, AdmittedRight, Spaced, tracker
<1> QED
  BY <1>1, <1>2, <1>3, Zenon DEF LimitInv

\* The checks have been passed and the command is started.
LEMMA LimitStart ==
    ASSUME LimitInv, TypeOK',
           NEW n \in Names, NEW u \in Users, NEW b \in SUBSET Badges,
           StartCommand(n, u, b)
    PROVE  LimitInv'
<1> DEFINE cmd == Handler(n).cmd
           meta == m_command_metadata[cmd]
<1>1. Handler(n) \in LuaHandler /\ cmd \in Names
  <2>1. Handler(n) \in LuaHandler
    BY Zenon DEF StartCommand, LimitInv, TypeOK, Handler
  <2> QED
    BY <2>1, Zenon DEF LuaHandler
<1>2. /\ meta # NoMetadata
      /\ ~ isOnCooldown(cmd, u, meta)
      /\ ~ usesExhausted(cmd, meta)
  BY Zenon DEF StartCommand, Verdict, Checks
<1>3. meta \in CommandMetadata
  BY <1>1, <1>2, Zenon DEF LimitInv, TypeOK
<1>4. running' = [cmd |-> cmd, user |-> u, execute |-> Handler(n).execute,
                  meta |-> meta, start |-> now]
  BY Zenon DEF StartCommand
<1>5. UNCHANGED <<now, tracker, runs>>
  BY Zenon DEF StartCommand, history
<1> HIDE DEF cmd, meta
<1>6. \A i \in DOMAIN runs : Spaced(runs[i], running')
  BY <1>1, <1>2, <1>3, <1>4, AdmittedIsSpaced, Zenon DEF LimitInv
<1>7. running'.cmd = cmd /\ running'.meta = meta
  BY <1>4, Zenon
<1>8. meta.max_uses_per_stream > 0 =>
          command_use_count[cmd] < meta.max_uses_per_stream
  <2>1. meta.max_uses_per_stream \in Int /\ command_use_count[cmd] \in Nat
    BY <1>1, <1>3, Zenon DEF CommandMetadata, LimitInv, TypeOK, TrackerTypeOK
  <2> QED
    BY <1>2, <2>1 DEF usesExhausted
<1>9. AdmittedRight'
  BY <1>5, <1>6, <1>7, <1>8, Zenon DEF AdmittedRight, tracker
<1>10. Recorded' /\ Counted' /\ CooldownsKept' /\ UseLimitKept'
  BY <1>5, Zenon
  DEF LimitInv, Recorded, Counted, CooldownsKept, UseLimitKept, Uses,
              Spaced, tracker
<1> QED
  BY <1>9, <1>10, Zenon DEF LimitInv

\* The command has run: what was checked at its start still holds, and the
\* tracker takes in the new end of the history.
LEMMA LimitFinish ==
    ASSUME LimitInv, TypeOK', FinishCommand
    PROVE  LimitInv'
<1> DEFINE cmd == running.cmd
           user == running.user
           r == [cmd |-> cmd, user |-> user, execute |-> running.execute,
                 meta |-> running.meta, start |-> running.start, end |-> now]
           n == Len(runs)
<1>1. /\ cmd \in Names /\ user \in Users /\ running.meta \in CommandMetadata
      /\ running.meta.max_uses_per_stream \in Int
  BY Zenon DEF LimitInv, TypeOK, FinishCommand, Admitted, CommandMetadata
<1>2. /\ runs' = Append(runs, r) /\ loop' = "idle" /\ now' = now
      /\ last_global_command' = now
      /\ last_command_use' = [last_command_use EXCEPT ![cmd] = now]
      /\ user_command_cooldowns' =
            [user_command_cooldowns EXCEPT ![<<cmd, user>>] = now]
      /\ command_use_count' = [command_use_count EXCEPT ![cmd] = @ + 1]
  BY Zenon DEF FinishCommand, recordUsage
<1>3. /\ now \in Nat /\ last_global_command \in Nat
      /\ last_command_use \in [Names -> Time]
      /\ user_command_cooldowns \in [Names \X Users -> Time]
      /\ command_use_count \in [Names -> Nat]
  BY Zenon DEF LimitInv, TypeOK, TrackerTypeOK
<1>4. runs \in Seq(Run) /\ n \in Nat
  BY DEF LimitInv, TypeOK
<1>5. r.cmd = cmd /\ r.user = user /\ r.meta = running.meta /\ r.end = now
      /\ r.start = running.start
  BY Zenon
<1>6. r \in Run
  <2>1. running \in Admitted
    BY Zenon DEF LimitInv, TypeOK, FinishCommand
  <2> QED
    BY <1>3, <2>1, Zenon DEF Admitted, Run
<1> HIDE DEF r, cmd, user
<1>7. /\ Len(runs') = n + 1 /\ DOMAIN runs' = 1..(n + 1) /\ DOMAIN runs = 1..n
      /\ runs'[n + 1] = r
      /\ \A i \in 1..n : runs'[i] = runs[i] /\ runs[i] \in Run
  BY <1>2, <1>4, <1>6
<1> HIDE DEF n
<1>8. Recorded'
  <2>1. \A i \in 1..n : /\ runs[i].end \in Nat /\ runs[i].end <= now
                        /\ runs[i].cmd \in Names /\ runs[i].user \in Users
    <3>1. \A i \in 1..n : /\ runs[i].end \in Nat
                          /\ runs[i].cmd \in Names /\ runs[i].user \in Users
      BY <1>7, Zenon DEF Run
    <3>2. /\ last_global_command <= now
          /\ \A i \in 1..n : runs[i].end <= last_global_command
      BY <1>7, Zenon DEF LimitInv, Recorded
    <3> QED
      BY <1>3, <3>1, <3>2
  <2>2. last_global_command' <= now'
    BY <1>2, <1>3
  <2>3. \A c \in Names : last_command_use'[c] <= now'
    BY <1>2, <1>3 DEF LimitInv, Recorded
  <2>4. \A cu \in Names \X Users : user_command_cooldowns'[cu] <= now'
    BY <1>2, <1>3 DEF LimitInv, Recorded
  <2>5. ASSUME NEW i \in 1..(n + 1)
        PROVE  /\ runs'[i].end <= last_global_command'
               /\ runs'[i].end <= last_command_use'[runs'[i].cmd]
               /\ runs'[i].end <=
                    user_command_cooldowns'[<<runs'[i].cmd, runs'[i].user>>]
    <3>1. CASE i = n + 1
      <4>1. last_command_use'[cmd] = now
        BY <1>1, <1>2, <1>3, Zenon
      <4>2. user_command_cooldowns'[<<cmd, user>>] = now
        BY <1>1, <1>2, <1>3, Zenon
      <4>3. /\ runs'[i].end = now /\ runs'[i].cmd = cmd
            /\ runs'[i].user = user
        BY <1>5, <1>7, <3>1, Zenon
      <4>4. last_global_command' = now
        BY <1>2, Zenon
      <4>5. now <= now
        BY <1>3
      <4> QED
        BY <4>1, <4>2, <4>3, <4>4, <4>5, Zenon
    <3>2. CASE i \in 1..n
      <4> DEFINE q == runs[i]
      <4>1. runs'[i] = q /\ q.end \in Nat /\ q.end <= now /\ q.cmd \in Names
            /\ q.user \in Users
        BY <1>7, <2>1, <3>2, Zenon
      <4>2. /\ q.end <= last_command_use[q.cmd]
            /\ q.end <= user_command_cooldowns[<<q.cmd, q.user>>]
        BY <1>7, <3>2, Zenon DEF LimitInv, Recorded
      <4> HIDE DEF q
      <4>3. q.end <= last_command_use'[q.cmd]
        BY <1>2, <1>3, <4>1, <4>2, Zenon
      <4>4. q.end <= user_command_cooldowns'[<<q.cmd, q.user>>]
        BY <1>2, <1>3, <4>1, <4>2, Zenon
      <4> QED
        BY <1>2, <4>1, <4>3, <4>4, Zenon
    <3> QED
      BY <1>4, <3>1, <3>2
  <2> QED
    BY <1>7, <2>2, <2>3, <2>4, <2>5, Zenon DEF Recorded
<1>9. ASSUME NEW c \in Names
      PROVE  Cardinality({i \in 1..(n + 1) : runs'[i].cmd = c}) =
                IF c = cmd THEN Uses(c, n) + 1 ELSE Uses(c, n)
  <2> DEFINE A == {i \in 1..n : runs[i].cmd = c}
             B == {i \in 1..(n + 1) : runs'[i].cmd = c}
  <2>1. B = IF c = cmd THEN A \cup {n + 1} ELSE A
    BY <1>4, <1>5, <1>7
  <2>2. A \in SUBSET (1..n)
    BY Zenon
  <2>3. Cardinality(A \cup {n + 1}) = Cardinality(A) + 1
    BY <1>4, <2>2, UsesStep, Zenon
  <2>4. Cardinality(B) = IF c = cmd THEN Cardinality(A) + 1 ELSE Cardinality(A)
    BY <2>1, <2>3, Zenon
  <2> QED
    BY <2>4, Zenon DEF Uses
<1>10. \A c \in Names : command_use_count[c] = Uses(c, n)
  BY Zenon DEF LimitInv, Counted, n
<1>11. Counted'
  <2>1. \A c \in Names : command_use_count'[c] =
           Cardinality({i \in 1..(n + 1) : runs'[i].cmd = c})
    BY <1>1, <1>2, <1>3, <1>9, <1>10, Zenon
  <2> QED
    BY <1>7, <2>1, Zenon DEF Counted, Uses
<1>12. \A i \in 1..n : Spaced(runs[i], r)
  <2>1. \A i \in 1..n : Spaced(runs[i], running)
    BY <1>7, Zenon DEF LimitInv, AdmittedRight, FinishCommand
  <2> QED
    BY <1>5, <2>1, Zenon DEF Spaced, cmd, user
<1>13. CooldownsKept'
  <2>1. \A j \in 1..n : \A i \in 1..(j - 1) : Spaced(runs[i], runs[j])
    BY <1>7, Zenon DEF LimitInv, CooldownsKept
  <2>2. ASSUME NEW j \in 1..(n + 1), NEW i \in 1..(j - 1)
        PROVE  Spaced(runs'[i], runs'[j])
    <3>1. CASE j = n + 1
      BY <1>4, <1>7, <1>12, <3>1
    <3>2. CASE j \in 1..n
      <4>1. i \in 1..n
        BY <1>4, <3>2
      <4> QED
        BY <1>7, <2>1, <3>2, <4>1, Zenon
    <3> QED
      BY <1>4, <3>1, <3>2
  <2> QED
    BY <1>7, <2>2, Zenon DEF CooldownsKept, Spaced, Seconds
<1>14. UseLimitKept'
  <2> DEFINE U(c, j) == Cardinality({i \in 1..j : runs'[i].cmd = c})
  <2>1. ASSUME NEW j \in 1..n PROVE \A c : U(c, j) = Uses(c, j)
    <3>1. \A c : {i \in 1..j : runs'[i].cmd = c} = {i \in 1..j : runs[i].cmd = c}
      BY <1>4, <1>7
    <3> QED
      BY <3>1, Zenon DEF Uses
  <2>2. r.meta.max_uses_per_stream > 0 =>
           U(cmd, n + 1) <= r.meta.max_uses_per_stream
    <3>1. U(cmd, n + 1) = command_use_count[cmd] + 1
      BY <1>1, <1>9, <1>10, Zenon
    <3>2. r.meta.max_uses_per_stream > 0 =>
             command_use_count[cmd] < r.meta.max_uses_per_stream
      BY <1>5, Zenon DEF LimitInv, AdmittedRight, FinishCommand, cmd
    <3>3. command_use_count[cmd] \in Nat /\ r.meta.max_uses_per_stream \in Int
      BY <1>1, <1>3, <1>5, Zenon
    <3> HIDE DEF U
    <3> QED
      BY <3>1, <3>2, <3>3
  <2>3. \A j \in 1..n : runs[j].meta.max_uses_per_stream > 0 =>
           Uses(runs[j].cmd, j) <= runs[j].meta.max_uses_per_stream
    BY <1>7, Zenon DEF LimitInv, UseLimitKept
  <2> HIDE DEF U
  <2>4. ASSUME NEW j \in 1..(n + 1), runs'[j].meta.max_uses_per_stream > 0
        PROVE  U(runs'[j].cmd, j) <= runs'[j].meta.max_uses_per_stream
    <3>1. CASE j = n + 1
      BY <1>5, <1>7, <2>2, <2>4, <3>1, Zenon
    <3>2. CASE j \in 1..n
      BY <1>7, <2>1, <2>3, <2>4, <3>2, Zenon
    <3> QED
      BY <1>4, <3>1, <3>2
  <2> QED
    BY <1>7, <2>4, Zenon DEF UseLimitKept, Uses, U
<1>15. AdmittedRight'
  BY <1>2, Zenon DEF AdmittedRight
<1> QED
  BY <1>8, <1>11, <1>13, <1>14, <1>15, Zenon DEF LimitInv

\* Every operation of the engine keeps the tracker in step with the history.
LEMMA LimitNext == LimitInv /\ [Next]_vars => LimitInv'
<1> SUFFICES ASSUME LimitInv, [Next]_vars PROVE LimitInv'
  BY Zenon
<1>1. TypeOK'
  BY TypeNext, Zenon DEF LimitInv
<1>2. now \in Nat
  BY Zenon DEF LimitInv, TypeOK, TrackerTypeOK
<1>3. CASE Tick
  BY <1>1, <1>2, <1>3, LimitFrame DEF Tick, history
<1>4. CASE FinishCommand
  BY <1>1, <1>4, LimitFinish, Zenon
<1>5. ASSUME NEW n \in Names, NEW u \in Users, NEW b \in SUBSET Badges,
             StartCommand(n, u, b)
      PROVE  LimitInv'
  BY <1>1, <1>5, LimitStart, Zenon
<1>6. CASE UNCHANGED vars
  BY <1>1, <1>2, <1>6, LimitFrame DEF vars, history
<1>7. CASE \/ \E f \in Files, c \in Content : EditFile(f, c)
           \/ StreamOnline
  BY <1>1, <1>2, <1>7, LimitFrame DEF EditFile, StreamOnline, history
<1>8. CASE Load \/ Register
  <2>1. /\ now' = now /\ UNCHANGED <<tracker, runs, running>>
        /\ loop' = "executing" => loop = "executing"
    BY <1>8, Zenon DEF Load, Register, FinishLoading, FinishRegistering,
                loadLuaCommand, registerWithParser, history
  <2> QED
    BY <1>1, <1>2, <2>1, LimitFrame
<1>9. ASSUME NEW n \in Names, NEW u \in Users, NEW b \in SUBSET Badges,
             \/ UnknownCommand(n) \/ reloadAllCommands(n)
             \/ getLoadedCommands(n) \/ RefuseCommand(n, u, b)
      PROVE  LimitInv'
  <2>1. /\ now' = now /\ UNCHANGED <<tracker, runs, running>>
        /\ loop' = "executing" => loop = "executing"
    BY <1>9, Zenon DEF UnknownCommand, reloadAllCommands, getLoadedCommands,
                RefuseCommand, history
  <2> QED
    BY <1>1, <1>2, <2>1, LimitFrame
<1> QED
  BY <1>3, <1>4, <1>5, <1>6, <1>7, <1>8, <1>9, Zenon DEF Next, Message

\* LimitInv is an invariant of the engine.
THEOREM LimitsHold == Spec => []LimitInv
  BY LimitInit, LimitNext, PTL DEF Spec

(***************************************************************************)
(* For any scripts, names, users and clock rate, and through reloads and   *)
(* edits: isOnCooldown and recordUsage keep two executions that share a    *)
(* cooldown at least that cooldown apart.                                  *)
(***************************************************************************)
THEOREM CooldownsAreKept == Spec => []CooldownsKept
<1>1. LimitInv => CooldownsKept
  BY Zenon DEF LimitInv
<1> QED
  BY <1>1, LimitsHold, PTL

\* The handler's test of command_use_count keeps every name to its limit.
THEOREM UseLimitsAreKept == Spec => []UseLimitKept
<1>1. LimitInv => UseLimitKept
  BY Zenon DEF LimitInv
<1> QED
  BY <1>1, LimitsHold, PTL

-----------------------------------------------------------------------------
(***************************************************************************)
(* Refusals.  Every time in the tracker is the end of an execution that    *)
(* the cooldown counts; only last_global_command starts at the clock's     *)
(* epoch.                                                                  *)
(***************************************************************************)
GlobalSourced ==
    last_global_command # 0 =>
        \E i \in DOMAIN runs : runs[i].end = last_global_command

CommandSourced(c) ==
    last_command_use[c] # Never =>
        \E i \in DOMAIN runs :
            runs[i].cmd = c /\ runs[i].end = last_command_use[c]

UserSourced(c, u) ==
    user_command_cooldowns[<<c, u>>] # Never =>
        \E i \in DOMAIN runs :
            /\ runs[i].cmd = c /\ runs[i].user = u
            /\ runs[i].end = user_command_cooldowns[<<c, u>>]

Sourced ==
    /\ GlobalSourced
    /\ \A c \in Names : CommandSourced(c)
    /\ \A c \in Names, u \in Users : UserSourced(c, u)

RefusalInv == LimitInv /\ Sourced /\ CooldownJustified

\* What CooldownJustified asks of a refusal of cmd to user at time `at'.
Warranted(cmd, user, meta, at) ==
    \/ at < Seconds(meta.global_cooldown)
    \/ \E i \in DOMAIN runs :
          \/ at - runs[i].end < Seconds(meta.global_cooldown)
          \/ /\ runs[i].cmd = cmd
             /\ at - runs[i].end < Seconds(meta.command_cooldown)
          \/ /\ runs[i].cmd = cmd /\ runs[i].user = user
             /\ at - runs[i].end < Seconds(meta.user_cooldown)

\* Truncated to seconds below the cooldown is below the cooldown.
LEMMA WithinIsRecent ==
    ASSUME now \in Nat, NEW t \in Nat, t <= now, NEW cooldown \in Int,
           Within(t, cooldown)
    PROVE  now - t < Seconds(cooldown)
<1>1. ASSUME NEW d \in Nat, NEW c \in Int, d \div TicksPerSecond < c
      PROVE  d < c * TicksPerSecond
  <2>1. d \div TicksPerSecond + 1 <= c /\ d \div TicksPerSecond \in Nat
    BY <1>1
  <2>2. d < (d \div TicksPerSecond + 1) * TicksPerSecond
    OBVIOUS
  <2>3. \A a, b \in Int : a <= b => a * TicksPerSecond <= b * TicksPerSecond
    OBVIOUS
  <2>4. (d \div TicksPerSecond + 1) * TicksPerSecond <= c * TicksPerSecond
    BY <2>1, <2>3
  <2>5. /\ (d \div TicksPerSecond + 1) * TicksPerSecond \in Int
        /\ c * TicksPerSecond \in Int
    BY <2>1
  <2> QED
    BY <2>2, <2>4, <2>5
<1>2. now - t \in Nat
  OBVIOUS
<1> QED
  BY <1>1, <1>2, Zenon DEF Within, Seconds

\* isOnCooldown finds only what the history warrants.
LEMMA CooldownIsWarranted ==
    ASSUME LimitInv, Sourced, NEW cmd \in Names, NEW user \in Users,
           NEW meta \in CommandMetadata, isOnCooldown(cmd, user, meta)
    PROVE  Warranted(cmd, user, meta, now)
<1>1. /\ now \in Nat /\ last_global_command \in Nat
      /\ last_command_use[cmd] \in Time
      /\ user_command_cooldowns[<<cmd, user>>] \in Time
  BY Zenon DEF LimitInv, TypeOK, TrackerTypeOK
<1>2. /\ last_global_command <= now
      /\ last_command_use[cmd] <= now
      /\ user_command_cooldowns[<<cmd, user>>] <= now
  BY Zenon DEF LimitInv, Recorded
<1>3. /\ meta.global_cooldown \in Int /\ meta.command_cooldown \in Int
      /\ meta.user_cooldown \in Int
  BY Zenon DEF CommandMetadata
<1>4. CASE Within(last_global_command, meta.global_cooldown)
  <2>1. now - last_global_command < Seconds(meta.global_cooldown)
    BY <1>1, <1>2, <1>3, <1>4, WithinIsRecent, Zenon
  <2>2. CASE last_global_command = 0
    BY <1>1, <2>1, <2>2 DEF Warranted
  <2>3. CASE last_global_command # 0
    <3> PICK i \in DOMAIN runs : runs[i].end = last_global_command
      BY <2>3, Zenon DEF Sourced, GlobalSourced
    <3> QED
      BY <2>1, Zenon DEF Warranted
  <2> QED
    BY <2>2, <2>3, Zenon
<1>5. CASE /\ last_command_use[cmd] # Never
           /\ Within(last_command_use[cmd], meta.command_cooldown)
  <2>1. last_command_use[cmd] \in Nat
    BY <1>1, <1>5, Zenon DEF Time
  <2>2. now - last_command_use[cmd] < Seconds(meta.command_cooldown)
    BY <1>1, <1>2, <1>3, <1>5, <2>1, WithinIsRecent, Zenon
  <2> PICK i \in DOMAIN runs :
               runs[i].cmd = cmd /\ runs[i].end = last_command_use[cmd]
    BY <1>5, Zenon DEF Sourced, CommandSourced
  <2> QED
    BY <2>2, Zenon DEF Warranted
<1>6. CASE /\ user_command_cooldowns[<<cmd, user>>] # Never
           /\ Within(user_command_cooldowns[<<cmd, user>>], meta.user_cooldown)
  <2>1. user_command_cooldowns[<<cmd, user>>] \in Nat
    BY <1>1, <1>6, Zenon DEF Time
  <2>2. now - user_command_cooldowns[<<cmd, user>>]
          < Seconds(meta.user_cooldown)
    BY <1>1, <1>2, <1>3, <1>6, <2>1, WithinIsRecent, Zenon
  <2> PICK i \in DOMAIN runs :
               /\ runs[i].cmd = cmd /\ runs[i].user = user
               /\ runs[i].end = user_command_cooldowns[<<cmd, user>>]
    BY <1>6, Zenon DEF Sourced, UserSourced
  <2> QED
    BY <2>2, Zenon DEF Warranted
<1> QED
  BY <1>4, <1>5, <1>6, Zenon DEF isOnCooldown

\* Sourced is about the tracker and the history.
LEMMA SourcedFrame ==
    ASSUME Sourced, UNCHANGED <<tracker, runs>>
    PROVE  Sourced'
<1>1. UNCHANGED <<last_global_command, last_command_use,
                  user_command_cooldowns, runs>>
  BY Zenon DEF tracker
<1>2. GlobalSourced'
  BY <1>1, Zenon DEF Sourced, GlobalSourced
<1>3. ASSUME NEW c \in Names PROVE CommandSourced(c)'
  <2>1. CommandSourced(c)
    BY Zenon DEF Sourced
  <2> QED
    BY <1>1, <2>1, Zenon DEF CommandSourced
<1>4. ASSUME NEW c \in Names, NEW u \in Users PROVE UserSourced(c, u)'
  <2>1. UserSourced(c, u)
    BY Zenon DEF Sourced
  <2> QED
    BY <1>1, <2>1, Zenon DEF UserSourced
<1> QED
  BY <1>2, <1>3, <1>4, Zenon DEF Sourced

\* The reply stands, or is another one.
LEMMA RefusalFrame ==
    ASSUME RefusalInv, UNCHANGED <<tracker, runs>>,
           UNCHANGED reply \/ reply'.kind # "on cooldown"
    PROVE  Sourced' /\ CooldownJustified'
<1>1. Sourced'
  BY SourcedFrame, Zenon DEF RefusalInv
<1>2. CooldownJustified'
  BY Zenon DEF RefusalInv, CooldownJustified
<1> QED
  BY <1>1, <1>2, Zenon

\* A refusal for a cooldown is warranted by the history at that moment.
LEMMA RefusalRefuse ==
    ASSUME RefusalInv,
           NEW n \in Names, NEW u \in Users, NEW b \in SUBSET Badges,
           RefuseCommand(n, u, b)
    PROVE  Sourced' /\ CooldownJustified'
<1> DEFINE cmd == Handler(n).cmd
           meta == m_command_metadata[cmd]
<1>1. UNCHANGED <<tracker, runs>>
  BY Zenon DEF RefuseCommand, history
<1>2. reply' = [kind |-> Verdict(cmd, u, b), cmd |-> cmd, user |-> u,
                at |-> now, meta |-> meta]
  BY Zenon DEF RefuseCommand
<1>3. CASE Verdict(cmd, u, b) # "on cooldown"
  <2>1. reply'.kind # "on cooldown"
    BY <1>2, <1>3, Zenon
  <2> QED
    BY <1>1, <2>1, RefusalFrame, Zenon
<1>4. CASE Verdict(cmd, u, b) = "on cooldown"
  <2>1. cmd \in Names
    <3>1. m_commands[lower[n]] \in LuaHandler
      BY Zenon, EngineAssumption
         DEF RefusalInv, LimitInv, TypeOK, RefuseCommand, Handler, Natives
    <3> QED
      BY <3>1, Zenon DEF LuaHandler, Handler
  <2>2. meta # NoMetadata /\ isOnCooldown(cmd, u, meta)
    BY <1>4 DEF Verdict, Checks
  <2>3. meta \in CommandMetadata
    BY <2>1, <2>2, Zenon DEF RefusalInv, LimitInv, TypeOK
  <2> HIDE DEF cmd, meta
  <2>4. Warranted(cmd, u, meta, now)
    BY <2>1, <2>2, <2>3, CooldownIsWarranted, Zenon DEF RefusalInv
  <2>5. /\ reply'.cmd = cmd /\ reply'.user = u
        /\ reply'.at = now /\ reply'.meta = meta
    BY <1>2, Zenon
  <2>6. CooldownJustified'
    BY <1>1, <2>4, <2>5, Zenon DEF CooldownJustified, Warranted
  <2>7. Sourced'
    BY <1>1, SourcedFrame, Zenon DEF RefusalInv
  <2> QED
    BY <2>6, <2>7, Zenon
<1> QED
  BY <1>3, <1>4, Zenon

\* An execution that ends becomes the source of what is recorded.
LEMMA RefusalFinish ==
    ASSUME RefusalInv, FinishCommand
    PROVE  Sourced' /\ CooldownJustified'
<1> DEFINE cmd == running.cmd
           user == running.user
           r == [cmd |-> cmd, user |-> user, execute |-> running.execute,
                 meta |-> running.meta, start |-> running.start, end |-> now]
           n == Len(runs)
<1>1. /\ runs' = Append(runs, r)
      /\ last_global_command' = now
      /\ last_command_use' = [last_command_use EXCEPT ![cmd] = now]
      /\ user_command_cooldowns' =
            [user_command_cooldowns EXCEPT ![<<cmd, user>>] = now]
      /\ reply' = [kind |-> "ran"] \/ reply' = [kind |-> "command error"]
  BY Zenon DEF FinishCommand, recordUsage
<1>2. /\ last_command_use \in [Names -> Time]
      /\ user_command_cooldowns \in [Names \X Users -> Time]
      /\ now \in Nat /\ running \in Admitted
  BY Zenon DEF RefusalInv, LimitInv, TypeOK, TrackerTypeOK, FinishCommand
<1>3. r \in Run /\ r.cmd = cmd /\ r.user = user /\ r.end = now
  BY <1>2, Zenon DEF Admitted, Run
<1>4. runs \in Seq(Run)
  BY Zenon DEF RefusalInv, LimitInv, TypeOK
<1> HIDE DEF r, cmd, user
<1>5. /\ DOMAIN runs' = DOMAIN runs \cup {n + 1} /\ runs'[n + 1] = r
      /\ \A i \in DOMAIN runs : runs'[i] = runs[i]
  <2>1. /\ n \in Nat /\ DOMAIN runs = 1..n /\ DOMAIN runs' = 1..(n + 1)
        /\ \A i \in 1..n : runs'[i] = runs[i]
        /\ runs'[n + 1] = r
    <3>1. runs' = Append(runs, r) /\ r \in Run
      BY <1>1, <1>3, Zenon
    <3> QED
      BY <1>4, <3>1, AppendFacts
  <2> HIDE DEF n
  <2>2. 1..(n + 1) = 1..n \cup {n + 1}
    BY <2>1
  <2> QED
    BY <2>1, <2>2, Zenon
<1> HIDE DEF n
<1>6. ASSUME NEW c \in Names PROVE CommandSourced(c)'
  <2>1. CASE c = cmd
    BY <1>1, <1>2, <1>3, <1>5, <2>1, Zenon DEF CommandSourced
  <2>2. CASE c # cmd
    <3>1. last_command_use'[c] = last_command_use[c]
      BY <1>1, <1>2, <2>2, Zenon
    <3>2. CommandSourced(c)
      BY Zenon DEF RefusalInv, Sourced
    <3> QED
      BY <1>5, <3>1, <3>2, Zenon DEF CommandSourced
  <2> QED
    BY <2>1, <2>2, Zenon
<1>7. ASSUME NEW c \in Names, NEW u \in Users PROVE UserSourced(c, u)'
  <2>1. CASE c = cmd /\ u = user
    <3>1. user_command_cooldowns'[<<c, u>>] = now
      BY <1>1, <1>2, <2>1, Zenon
    <3> QED
      BY <1>3, <1>5, <2>1, <3>1, Zenon DEF UserSourced
  <2>2. CASE ~ (c = cmd /\ u = user)
    <3>1. <<c, u>> # <<cmd, user>> /\ <<c, u>> \in Names \X Users
      BY <2>2, Zenon
    <3>2. user_command_cooldowns'[<<c, u>>] = user_command_cooldowns[<<c, u>>]
      BY <1>1, <1>2, <3>1, Zenon
    <3>3. UserSourced(c, u)
      BY Zenon DEF RefusalInv, Sourced
    <3> QED
      BY <1>5, <3>2, <3>3, Zenon DEF UserSourced
  <2> QED
    BY <2>1, <2>2, Zenon
<1>8. GlobalSourced'
  BY <1>1, <1>3, <1>5, Zenon DEF GlobalSourced
<1>9. Sourced'
  BY <1>6, <1>7, <1>8, Zenon DEF Sourced
<1>10. reply'.kind # "on cooldown"
  <2>1. reply'.kind \in {"ran", "command error"}
    BY <1>1, ReplyKind, Zenon
  <2> QED
    BY <2>1
<1> QED
  BY <1>9, <1>10, Zenon DEF CooldownJustified

\* Every step preserves RefusalInv.
LEMMA RefusalNext == RefusalInv /\ [Next]_vars => RefusalInv'
<1> SUFFICES ASSUME RefusalInv, [Next]_vars PROVE Sourced' /\ CooldownJustified'
  BY LimitNext, Zenon DEF RefusalInv
<1>1. CASE FinishCommand
  BY <1>1, RefusalFinish, Zenon
<1>2. ASSUME NEW n \in Names, NEW u \in Users, NEW b \in SUBSET Badges,
             Message(n, u, b)
      PROVE  Sourced' /\ CooldownJustified'
  <2>1. CASE RefuseCommand(n, u, b)
    BY <2>1, RefusalRefuse, Zenon
  <2>2. CASE UnknownCommand(n) \/ reloadAllCommands(n) \/ getLoadedCommands(n)
    <3>1. reply'.kind # "on cooldown"
      <4>1. reply'.kind \in {"unhandled", "reloading", "list"}
        <5>1. \/ reply' = [kind |-> "unhandled"]
              \/ reply' = [kind |-> "reloading"]
              \/ reply' = [kind |-> "list", names |-> Listed]
          BY <2>2, Zenon
             DEF UnknownCommand, reloadAllCommands, getLoadedCommands
        <5>2. \A k, S : [kind |-> k, names |-> S].kind = k
          BY ReplyKind, Zenon
        <5> QED
          BY <5>1, <5>2
      <4> QED
        BY <4>1
    <3> QED
      BY <2>2, <3>1, RefusalFrame, Zenon
         DEF UnknownCommand, reloadAllCommands, getLoadedCommands, history
  <2>3. CASE StartCommand(n, u, b)
    BY <2>3, RefusalFrame, Zenon DEF StartCommand, history
  <2> QED
    BY <1>2, <2>1, <2>2, <2>3, Zenon DEF Message
<1>3. CASE Load \/ Register
  <2>1. UNCHANGED <<tracker, runs>>
    BY <1>3, Zenon DEF Load, Register, FinishLoading, FinishRegistering,
                       loadLuaCommand, registerWithParser, history
  <2>2. UNCHANGED reply \/ reply' = [kind |-> "reloaded"]
    BY <1>3, Zenon DEF Load, Register, FinishLoading, FinishRegistering,
                       loadLuaCommand, registerWithParser
  <2>3. UNCHANGED reply \/ reply'.kind # "on cooldown"
    BY <2>2, ReplyKind, Zenon
  <2> QED
    BY <2>1, <2>3, RefusalFrame, Zenon
<1>4. CASE Tick \/ (\E f \in Files, c \in Content : EditFile(f, c))
           \/ StreamOnline \/ UNCHANGED vars
  BY <1>4, RefusalFrame, Zenon DEF Tick, EditFile, StreamOnline, vars, history
<1> QED
  BY <1>1, <1>2, <1>3, <1>4, Zenon DEF Next

(***************************************************************************)
(* For any scripts, names, users and clock rate: a handler answers         *)
(* "Command is on cooldown." only when an execution which that cooldown    *)
(* counts ended less than the cooldown ago, or the clock is younger than   *)
(* the global cooldown.                                                    *)
(***************************************************************************)
THEOREM RefusalsAreJustified == Spec => []CooldownJustified
<1>1. Init => RefusalInv
  <2> SUFFICES ASSUME Init PROVE Sourced /\ CooldownJustified
    BY LimitInit, Zenon DEF RefusalInv
  <2>1. Sourced
    BY Zenon
       DEF Init, TrackerInit, Sourced, GlobalSourced, CommandSourced, UserSourced
  <2>2. CooldownJustified
    BY Zenon DEF Init, NoCommand, CooldownJustified
  <2> QED
    BY <2>1, <2>2, Zenon
<1>2. RefusalInv => CooldownJustified
  BY Zenon DEF RefusalInv
<1> QED
  BY <1>1, <1>2, RefusalNext, PTL DEF Spec

-----------------------------------------------------------------------------
(***************************************************************************)
(* The registry: registered names have rules, listed names have handlers,  *)
(* and a Lua function runs under the rules of its own script, whatever is  *)
(* edited and reloaded.                                                    *)
(***************************************************************************)

(***************************************************************************)
(* The rules of every name that is listed, registered or about to be       *)
(* registered are known.                                                   *)
(***************************************************************************)
HasRules(n) == m_command_metadata[n] # NoMetadata

Configured ==
    /\ TypeOK
    /\ \A n \in Names : m_command_files[n] # NoFile => HasRules(n)
    /\ \A n \in Names :
          m_commands[n] \in LuaHandler => HasRules(m_commands[n].cmd)
    /\ loop \in {"starting", "reregistering"} =>
          \A e \in todo : HasRules(e[1])
    /\ AlwaysConfigured

\* Steps that leave the maps alone.
LEMMA ConfiguredFrame ==
    ASSUME Configured, TypeOK', UNCHANGED registry,
           reply'.kind # "configuration error",
           loop' \in {"starting", "reregistering"} =>
               loop' = loop /\ todo' = todo
    PROVE  Configured'
  BY Zenon DEF Configured, HasRules, AlwaysConfigured, registry

\* What loadLuaCommand files has rules, and no rules are forgotten.
LEMMA ConfiguredLoad ==
    ASSUME Configured, TypeOK', NEW e \in Entry, loadLuaCommand(e)
    PROVE  Configured'
<1>1. /\ loop \in {"scanning", "reloading"}
      /\ UNCHANGED <<m_commands, loop, reply>>
  BY Zenon DEF loadLuaCommand
<1>2. CASE ~ Loadable(disk[e[2]])
  BY <1>1, <1>2, Zenon
  DEF loadLuaCommand, Configured, HasRules, AlwaysConfigured
<1>3. CASE Loadable(disk[e[2]])
  <2> DEFINE claims == Claims(disk[e[2]])
             meta == disk[e[2]].meta
  <2>1. meta # NoMetadata
    <3>1. e[2] \in Files /\ disk \in [Files -> Content]
      BY Zenon DEF Entry, Configured, TypeOK
    <3>2. disk[e[2]] \in Scripts
      BY <1>3, <3>1, Zenon DEF Loadable, Content
    <3> QED
      BY <3>2, Zenon
  <2>2. \A n \in Names :
          /\ m_command_files'[n] = IF n \in claims THEN e[2]
                                   ELSE m_command_files[n]
          /\ m_command_metadata'[n] = IF n \in claims THEN meta
                                      ELSE m_command_metadata[n]
    BY <1>3, Zenon DEF loadLuaCommand
  <2> HIDE DEF claims, meta
  <2>3. \A n \in Names : /\ HasRules(n) => HasRules(n)'
                         /\ m_command_files'[n] # NoFile => HasRules(n)'
    BY <2>1, <2>2, Zenon DEF Configured, HasRules
  <2>4. \A n \in Names : m_commands[n] \in LuaHandler =>
                             m_commands[n].cmd \in Names
    BY Zenon DEF LuaHandler
  <2> QED
    BY <1>1, <2>3, <2>4, Zenon DEF Configured, AlwaysConfigured
<1> QED
  BY <1>2, <1>3, Zenon

\* registerWithParser takes up names that are listed, hence have rules.
LEMMA ConfiguredRegister ==
    ASSUME Configured, TypeOK', Register
    PROVE  Configured'
<1>1. UNCHANGED <<m_command_files, m_command_metadata>>
  BY Zenon DEF Register, registerWithParser, FinishRegistering
<1>2. ASSUME NEW e \in Entry, registerWithParser(e)
      PROVE  Configured'
  <2>1. /\ e \in todo /\ todo' = todo \ {e} /\ UNCHANGED <<loop, reply>>
        /\ loop \in {"starting", "reregistering"}
    BY <1>2, Zenon DEF registerWithParser
  <2>2. HasRules(e[1]) /\ e[1] \in Names
    BY <2>1, Zenon DEF Configured, Entry
  <2>3. \A n \in Names : \/ m_commands'[n] = m_commands[n]
                         \/ m_commands'[n].cmd = e[1]
    BY <1>2, <2>2, Zenon
    DEF registerWithParser, registerCommand, Configured, TypeOK
  <2> QED
    BY <1>1, <2>1, <2>2, <2>3, Zenon DEF Configured, HasRules, AlwaysConfigured
<1>3. CASE FinishRegistering
  <2>1. loop' = "idle"
    BY <1>3, Zenon DEF FinishRegistering
  <2>2. reply'.kind # "configuration error"
    <3>1. reply' = reply \/ reply' = [kind |-> "reloaded"]
      BY <1>3, Zenon DEF FinishRegistering
    <3>2. reply.kind # "configuration error"
      BY Zenon DEF Configured, AlwaysConfigured
    <3>3. reply'.kind = reply.kind \/ reply'.kind = "reloaded"
      BY <3>1, ReplyKind, Zenon
    <3> QED
      BY <3>2, <3>3, Zenon
  <2>3. \A n \in Names : \/ m_commands'[n] = m_commands[n]
                         \/ m_commands'[n] \in Natives
    BY <1>3, Zenon DEF FinishRegistering, Configured, TypeOK, Natives
  <2> QED
    BY <1>1, <2>1, <2>2, <2>3, Zenon DEF Configured, HasRules, AlwaysConfigured
<1> QED
  BY <1>2, <1>3, Zenon DEF Register

\* A handler finds the rules of its command.
LEMMA ConfiguredMessage ==
    ASSUME Configured, TypeOK',
           NEW n \in Names, NEW u \in Users, NEW b \in SUBSET Badges,
           Message(n, u, b)
    PROVE  Configured'
<1>1. CASE UnknownCommand(n) \/ getLoadedCommands(n) \/ StartCommand(n, u, b)
  <2>1. UNCHANGED registry /\ UNCHANGED todo
    BY <1>1, Zenon DEF UnknownCommand, getLoadedCommands, StartCommand
  <2>2. reply'.kind # "configuration error"
    <3>1. \/ reply' = reply \/ reply' = [kind |-> "unhandled"]
          \/ reply' = [kind |-> "list", names |-> Listed]
      BY <1>1, Zenon DEF UnknownCommand, getLoadedCommands, StartCommand
    <3>2. reply.kind # "configuration error"
      BY Zenon DEF Configured, AlwaysConfigured
    <3>3. /\ [kind |-> "unhandled"].kind = "unhandled"
          /\ [kind |-> "list", names |-> Listed].kind = "list"
      BY ReplyKind, Zenon
    <3>4. \/ reply'.kind = reply.kind \/ reply'.kind = "unhandled"
          \/ reply'.kind = "list"
      BY <3>1, <3>3, Zenon
    <3> QED
      BY <3>2, <3>4, Zenon
  <2>3. loop' \in {loop, "executing"}
    BY <1>1, Zenon DEF UnknownCommand, getLoadedCommands, StartCommand
  <2> QED
    BY <2>1, <2>2, <2>3, ConfiguredFrame, Zenon
<1>2. CASE RefuseCommand(n, u, b)
  <2> DEFINE cmd == Handler(n).cmd
  <2>1. Handler(n) \in LuaHandler
    BY <1>2, Zenon DEF RefuseCommand, Handler, Configured, TypeOK
  <2>2. m_command_metadata[cmd] # NoMetadata
    BY <2>1, Zenon DEF Configured, HasRules, Handler
  <2>3. Verdict(cmd, u, b) # "configuration error"
    BY <2>2, Zenon DEF Verdict, Checks
  <2>4. reply'.kind = Verdict(cmd, u, b)
    BY <1>2, Zenon DEF RefuseCommand
  <2>5. UNCHANGED <<registry, todo, loop>>
    BY <1>2, Zenon DEF RefuseCommand
  <2> QED
    BY <2>3, <2>4, <2>5, ConfiguredFrame, Zenon
<1>3. CASE reloadAllCommands(n)
  <2>1. /\ loop' = "reloading" /\ m_command_files' = [k \in Names |-> NoFile]
        /\ reply' = [kind |-> "reloading"]
        /\ UNCHANGED <<m_commands, m_command_metadata>>
    BY <1>3, Zenon DEF reloadAllCommands
  <2> QED
    BY <2>1, Zenon DEF Configured, HasRules, AlwaysConfigured
<1> QED
  BY <1>1, <1>2, <1>3, Zenon DEF Message

(***************************************************************************)
(* A registered Lua command never answers "Command configuration error",   *)
(* whatever is edited, even while reloadAllCommands reads the files: the   *)
(* reload empties m_command_files but keeps m_command_metadata.            *)
(***************************************************************************)
THEOREM CommandsAreConfigured == Spec => []AlwaysConfigured
<1>1. Init => Configured
  <2> SUFFICES ASSUME Init PROVE Configured
    BY Zenon
  <2>1. TypeOK
    BY TypeInit, Zenon
  <2>2. /\ \A n \in Names : m_command_files[n] = NoFile
        /\ \A n \in Names : m_commands[n] \notin LuaHandler
        /\ loop = "scanning" /\ reply.kind = "none"
    BY Zenon DEF Init, NoCommand
  <2> QED
    BY <2>1, <2>2, Zenon DEF Configured, AlwaysConfigured
<1>2. Configured /\ [Next]_vars => Configured'
  <2> SUFFICES ASSUME Configured, [Next]_vars PROVE Configured'
    BY Zenon
  <2>1. TypeOK'
    BY TypeNext, Zenon DEF Configured
  <2>2. CASE Tick \/ (\E f \in Files, c \in Content : EditFile(f, c))
             \/ StreamOnline \/ UNCHANGED vars
    <3>1. UNCHANGED <<registry, loop, todo, reply>>
      BY <2>2, Zenon DEF Tick, EditFile, StreamOnline, vars
    <3> QED
      BY <2>1, <3>1, ConfiguredFrame, Zenon DEF Configured, AlwaysConfigured
  <2>3. CASE FinishCommand
    <3>1. UNCHANGED registry /\ loop' = "idle"
      BY <2>3, Zenon DEF FinishCommand
    <3>2. reply' = [kind |-> "ran"] \/ reply' = [kind |-> "command error"]
      BY <2>3, Zenon DEF FinishCommand
    <3>3. reply'.kind # "configuration error"
      <4>1. reply'.kind = "ran" \/ reply'.kind = "command error"
        BY <3>2, ReplyKind, Zenon
      <4> QED
        BY <4>1, Zenon
    <3> QED
      BY <2>1, <3>1, <3>3, ConfiguredFrame, Zenon
  <2>4. CASE FinishLoading
    <3>1. UNCHANGED <<registry, reply>> /\ todo' = ListedEntries
      BY <2>4, Zenon DEF FinishLoading
    <3>2. \A e \in todo' : HasRules(e[1])
      BY <3>1 DEF ListedEntries, Listed, Configured
    <3> QED
      BY <2>1, <3>1, <3>2, Zenon
      DEF Configured, HasRules, AlwaysConfigured, registry
  <2>5. CASE \E e \in Entry : loadLuaCommand(e)
    BY <2>1, <2>5, ConfiguredLoad, Zenon
  <2>6. CASE Register
    BY <2>1, <2>6, ConfiguredRegister, Zenon
  <2>7. CASE \E n \in Names \ {EmptyName}, u \in Users, b \in SUBSET Badges :
                Message(n, u, b)
    BY <2>1, <2>7, ConfiguredMessage, Zenon
  <2> QED
    BY <2>2, <2>3, <2>4, <2>5, <2>6, <2>7, Zenon DEF Next, Load
<1>3. Configured => AlwaysConfigured
  BY Zenon DEF Configured
<1> QED
  BY <1>1, <1>2, <1>3, PTL DEF Spec

-----------------------------------------------------------------------------
(***************************************************************************)
(* While the engine reads the directory what it has listed can be          *)
(* evaluated; a listed name waits to be registered or has a handler.       *)
(***************************************************************************)
Answers(n) == n = EmptyName \/ Handler(n) # NoHandler

ListAnswers ==
    reply.kind = "list" =>
        \A n \in reply.names : n \in Names /\ Answers(n)

Catalogue ==
    /\ TypeOK
    /\ loop \in Reading =>
          \A n \in Listed : disk[m_command_files[n]] \in Scripts
    /\ loop \in {"starting", "reregistering"} =>
          \A n \in Listed : <<n, m_command_files[n]>> \in todo \/ Answers(n)
    /\ loop \in {"idle", "executing"} => \A n \in Listed : Answers(n)
    /\ ListAnswers

\* No step takes a handler away.
LEMMA HandlersStay ==
    ASSUME TypeOK, [Next]_vars
    PROVE  \A n \in Names : Answers(n) => Answers(n)'
<1>1. \A n \in Names : lower[n] \in Names
  BY Zenon
<1>2. SUFFICES \A n \in Names : m_commands[n] # NoHandler =>
                                    m_commands'[n] # NoHandler
  BY <1>1, Zenon DEF Answers, Handler
<1>3. m_commands \in [Names -> LuaHandler \cup Natives \cup {NoHandler}]
  BY Zenon DEF TypeOK
<1>4. ASSUME NEW e \in Entry, registerWithParser(e)
      PROVE  \A n \in Names : m_commands[n] # NoHandler =>
                                  m_commands'[n] # NoHandler
  <2>1. CASE disk[e[2]] \in {Missing, Broken} \/ e[1] = EmptyName
    BY <1>4, <2>1, Zenon DEF registerWithParser, registerCommand
  <2>2. CASE ~ (disk[e[2]] \in {Missing, Broken} \/ e[1] = EmptyName)
    <3> DEFINE h == [cmd |-> e[1], execute |-> disk[e[2]].execute]
    <3>1. m_commands' = [m_commands EXCEPT ![lower[e[1]]] = h]
      BY <1>4, <2>2, Zenon DEF registerWithParser, registerCommand
    <3>2. disk[e[2]] \in Scripts
      BY <2>2, Zenon DEF TypeOK, Content, Entry
    <3>3. h \in LuaHandler
      BY <3>2, Zenon DEF Entry, LuaHandler
    <3>4. h # NoHandler
      BY <3>3, Zenon
    <3> HIDE DEF h
    <3> QED
      BY <1>3, <3>1, <3>4, Zenon
  <2> QED
    BY <2>1, <2>2, Zenon
<1>5. CASE FinishRegistering
  <2>1. NativeReload # NoHandler /\ NativeCommands # NoHandler
    BY Zenon DEF Natives
  <2> QED
    BY <1>3, <1>5, <2>1, Zenon DEF FinishRegistering
<1>6. CASE UNCHANGED m_commands
  BY <1>6, Zenon
<1>7. \/ \E e \in Entry : registerWithParser(e)
      \/ FinishRegistering
      \/ UNCHANGED m_commands
  <2>1. CASE Tick \/ StreamOnline \/ FinishCommand
    BY <2>1, Zenon DEF Tick, StreamOnline, FinishCommand, registry
  <2>2. ASSUME NEW f \in Files, NEW c \in Content, EditFile(f, c)
        PROVE  UNCHANGED m_commands
    BY <2>2, Zenon DEF EditFile, registry
  <2>3. CASE FinishLoading
    BY <2>3, Zenon DEF FinishLoading, registry
  <2>4. ASSUME NEW e \in Entry, loadLuaCommand(e)
        PROVE  UNCHANGED m_commands
    BY <2>4, Zenon DEF loadLuaCommand
  <2>5. ASSUME NEW n, NEW u, NEW b, Message(n, u, b)
        PROVE  UNCHANGED m_commands
    <3>1. CASE UnknownCommand(n) \/ getLoadedCommands(n)
      BY <3>1, Zenon DEF UnknownCommand, getLoadedCommands, registry
    <3>2. CASE reloadAllCommands(n)
      BY <3>2, Zenon DEF reloadAllCommands
    <3>3. CASE RefuseCommand(n, u, b)
      BY <3>3, Zenon DEF RefuseCommand, registry
    <3>4. CASE StartCommand(n, u, b)
      BY <3>4, Zenon DEF StartCommand, registry
    <3> QED
      BY <2>5, <3>1, <3>2, <3>3, <3>4, Zenon DEF Message
  <2>6. CASE UNCHANGED vars
    BY <2>6, Zenon DEF vars, registry
  <2> QED
    BY <2>1, <2>2, <2>3, <2>4, <2>5, <2>6, Zenon DEF Next, Load, Register
<1> QED
  BY <1>4, <1>5, <1>6, <1>7, Zenon

\* The names a reply has listed go on answering.
LEMMA ListStands ==
    ASSUME Catalogue, [Next]_vars,
           \/ reply' = reply
           \/ reply'.kind # "list"
           \/ reply'.names = Listed /\ \A n \in Listed : Answers(n)
    PROVE  ListAnswers'
<1>1. \A n \in Names : Answers(n) => Answers(n)'
  BY HandlersStay, Zenon DEF Catalogue
<1>2. Listed \subseteq Names
  BY Zenon DEF Listed
<1>3. CASE reply'.names = Listed /\ \A n \in Listed : Answers(n)
  BY <1>1, <1>2, <1>3, Zenon DEF ListAnswers
<1>4. CASE reply'.kind # "list"
  BY <1>4, Zenon DEF ListAnswers
<1>5. CASE reply' = reply
  BY <1>1, <1>5, Zenon DEF Catalogue, ListAnswers
<1> QED
  BY <1>3, <1>4, <1>5, Zenon

\* Steps that leave the files and m_command_files alone, in a loop that goes
\* on or in one that handles messages.
LEMMA CatalogueFrame ==
    ASSUME Catalogue, [Next]_vars, TypeOK', ListAnswers',
           UNCHANGED <<disk, m_command_files, todo>>,
           \/ loop' = loop
           \/ {loop, loop'} \subseteq {"idle", "executing"}
    PROVE  Catalogue'
<1>1. \A n \in Names : Answers(n) => Answers(n)'
  BY HandlersStay, Zenon DEF Catalogue
<1>2. Listed' = Listed /\ Listed \subseteq Names
  BY Zenon DEF Listed
<1> QED
  BY <1>1, <1>2, Zenon DEF Catalogue, Reading

\* loadLuaCommand lists the names of a script that can be evaluated again.
LEMMA CatalogueLoad ==
    ASSUME Catalogue, [Next]_vars, TypeOK', ListAnswers',
           NEW e \in Entry, loadLuaCommand(e)
    PROVE  Catalogue'
<1>1. loop \in {"scanning", "reloading"} /\ UNCHANGED <<loop, disk>>
  BY Zenon DEF loadLuaCommand
<1>2. CASE ~ Loadable(disk[e[2]])
  <2>1. UNCHANGED m_command_files
    BY <1>2, Zenon DEF loadLuaCommand
  <2> QED
    BY <1>1, <2>1, Zenon DEF Catalogue, Listed, Reading
<1>3. CASE Loadable(disk[e[2]])
  <2> DEFINE claims == Claims(disk[e[2]])
  <2>1. \A n \in Names : m_command_files'[n] = IF n \in claims THEN e[2]
                                               ELSE m_command_files[n]
    BY <1>3, Zenon DEF loadLuaCommand
  <2>2. disk[e[2]] \in Scripts
    BY <1>3, Zenon DEF Loadable, Content, Entry, Catalogue, TypeOK
  <2> HIDE DEF claims
  <2>3. \A n \in Listed' : disk'[m_command_files'[n]] \in Scripts
    BY <1>1, <2>1, <2>2, Zenon DEF Catalogue, Listed, Reading
  <2> QED
    BY <1>1, <2>3, Zenon DEF Catalogue
<1> QED
  BY <1>2, <1>3, Zenon

\* registerWithParser gives a listed name its handler.
LEMMA CatalogueRegister ==
    ASSUME Catalogue, [Next]_vars, TypeOK', ListAnswers',
           NEW e \in Entry, registerWithParser(e)
    PROVE  Catalogue'
<1>1. /\ loop \in {"starting", "reregistering"}
      /\ UNCHANGED <<loop, disk, m_command_files>>
      /\ todo' = todo \ {e}
  BY Zenon DEF registerWithParser
<1>2. Listed' = Listed /\ Listed \subseteq Names
  BY <1>1, Zenon DEF Listed
<1>3. \A n \in Names : Answers(n) => Answers(n)'
  BY HandlersStay, Zenon DEF Catalogue
<1>4. ASSUME NEW n \in Listed, <<n, m_command_files[n]>> = e
      PROVE  Answers(n)'
  <2>1. e[1] = n /\ e[2] = m_command_files[n] /\ n \in Names
    BY <1>2, <1>4, Zenon
  <2>2. CASE n = EmptyName
    BY <2>2, Zenon DEF Answers
  <2>3. CASE n # EmptyName
    <3> DEFINE h == [cmd |-> e[1], execute |-> disk[e[2]].execute]
    <3>1. disk[e[2]] \in Scripts
      BY <1>1, <2>1, Zenon DEF Catalogue, Reading
    <3>2. m_commands' = [m_commands EXCEPT ![lower[n]] = h]
      BY <2>1, <2>3, <3>1, Zenon DEF registerWithParser, registerCommand
    <3>3. h \in LuaHandler
      BY <3>1, Zenon DEF Entry, LuaHandler
    <3>4. h # NoHandler
      BY <3>3, Zenon
    <3> HIDE DEF h
    <3>5. m_commands'[lower[n]] = h
      BY <2>1, <3>2, Zenon DEF Catalogue, TypeOK
    <3> QED
      BY <3>4, <3>5, Zenon DEF Answers, Handler
  <2> QED
    BY <2>2, <2>3, Zenon
<1>5. \A n \in Listed' : \/ <<n, m_command_files'[n]>> \in todo'
                         \/ Answers(n)'
  BY <1>1, <1>2, <1>3, <1>4, Zenon DEF Catalogue
<1> QED
  BY <1>1, <1>2, <1>5, Zenon DEF Catalogue, Reading

(***************************************************************************)
(* If scripts are not edited while the engine reads them, every name       *)
(* "!commands" has listed can be dispatched, then and ever after.  The     *)
(* assumption is needed: registerWithParser reads the files a second time. *)
(***************************************************************************)
THEOREM ListsOnlyWhatAnswers ==
    ASSUME EditWhileLoading = FALSE
    PROVE  Spec => []ListedCommandsAnswer
<1>1. Init => Catalogue
  <2> SUFFICES ASSUME Init PROVE Catalogue
    BY Zenon
  <2>1. TypeOK
    BY TypeInit, Zenon
  <2>2. loop = "scanning" /\ Listed = {} /\ reply.kind = "none"
    BY Zenon DEF Init, NoCommand, Listed
  <2> QED
    BY <2>1, <2>2, Zenon DEF Catalogue, ListAnswers
<1>2. Catalogue /\ [Next]_vars => Catalogue'
  <2> SUFFICES ASSUME Catalogue, [Next]_vars PROVE Catalogue'
    BY Zenon
  <2>1. TypeOK'
    BY TypeNext, Zenon DEF Catalogue
  <2>2. CASE Tick \/ StreamOnline \/ UNCHANGED vars
    <3>1. UNCHANGED <<disk, m_command_files, todo, loop, reply>>
      BY <2>2, Zenon DEF Tick, StreamOnline, registry, vars
    <3> QED
      BY <2>1, <3>1, ListStands, CatalogueFrame, Zenon
  <2>3. ASSUME NEW f \in Files, NEW c \in Content, EditFile(f, c)
        PROVE  Catalogue'
    <3>1. /\ loop \in {"idle", "executing"}
          /\ UNCHANGED <<registry, loop, reply>>
      BY <2>3, Zenon DEF EditFile
    <3>2. ListAnswers'
      BY <3>1, ListStands, Zenon
    <3>3. \A n \in Listed' : Answers(n)'
      BY <3>1, Zenon DEF Catalogue, Listed, Answers, Handler, registry
    <3> QED
      BY <2>1, <3>1, <3>2, <3>3, Zenon DEF Catalogue, Reading
  <2>4. CASE FinishCommand
    <3>1. /\ UNCHANGED <<disk, m_command_files, todo>>
          /\ loop = "executing" /\ loop' = "idle"
      BY <2>4, Zenon DEF FinishCommand, registry
    <3>2. reply' = [kind |-> "ran"] \/ reply' = [kind |-> "command error"]
      BY <2>4, Zenon DEF FinishCommand
    <3>3. reply'.kind = "ran" \/ reply'.kind = "command error"
      BY <3>2, ReplyKind, Zenon
    <3>4. ListAnswers'
      BY <3>3, ListStands, Zenon
    <3> QED
      BY <2>1, <3>1, <3>4, CatalogueFrame, Zenon
  <2>5. CASE FinishLoading
    <3>1. /\ UNCHANGED <<disk, m_command_files, reply>>
          /\ loop \in Reading /\ loop' \in {"starting", "reregistering"}
          /\ todo' = ListedEntries
      BY <2>5, Zenon DEF FinishLoading, registry, Reading
    <3>2. ListAnswers'
      BY <3>1, ListStands, Zenon
    <3> QED
      BY <2>1, <3>1, <3>2, Zenon DEF Catalogue, Listed, ListedEntries, Reading
  <2>6. CASE \E e \in Entry : loadLuaCommand(e)
    <3>1. reply' = reply
      BY <2>6, Zenon DEF loadLuaCommand
    <3> QED
      BY <2>1, <2>6, <3>1, ListStands, CatalogueLoad, Zenon
  <2>7. CASE \E e \in Entry : registerWithParser(e)
    <3>1. reply' = reply
      BY <2>7, Zenon DEF registerWithParser
    <3> QED
      BY <2>1, <2>7, <3>1, ListStands, CatalogueRegister, Zenon
  <2>8. CASE FinishRegistering
    <3>1. /\ UNCHANGED <<disk, m_command_files>> /\ loop' = "idle"
          /\ loop \in {"starting", "reregistering"} /\ todo = {}
      BY <2>8, Zenon DEF FinishRegistering
    <3>2. reply' = reply \/ reply' = [kind |-> "reloaded"]
      BY <2>8, Zenon DEF FinishRegistering
    <3>3. reply' = reply \/ reply'.kind = "reloaded"
      BY <3>2, ReplyKind, Zenon
    <3>4. ListAnswers'
      BY <3>3, ListStands, Zenon
    <3>5. Listed' = Listed /\ Listed \subseteq Names
      BY <3>1, Zenon DEF Listed
    <3>6. \A n \in Listed' : Answers(n)'
      BY <3>1, <3>5, HandlersStay, Zenon DEF Catalogue
    <3> QED
      BY <2>1, <3>1, <3>4, <3>6, Zenon DEF Catalogue, Reading
  <2>9. ASSUME NEW n \in Names, NEW u \in Users, NEW b \in SUBSET Badges,
               Message(n, u, b)
        PROVE  Catalogue'
    <3>1. CASE reloadAllCommands(n)
      <4>1. /\ loop' = "reloading" /\ reply' = [kind |-> "reloading"]
            /\ m_command_files' = [k \in Names |-> NoFile]
        BY <3>1, Zenon DEF reloadAllCommands
      <4>2. reply'.kind = "reloading"
        BY <4>1, ReplyKind, Zenon
      <4>3. ListAnswers' /\ Listed' = {}
        BY <4>1, <4>2, ListStands, Zenon DEF Listed
      <4> QED
        BY <2>1, <4>1, <4>3, Zenon DEF Catalogue
    <3>2. CASE ~ reloadAllCommands(n)
      <4>1. /\ UNCHANGED <<disk, m_command_files, todo>>
            /\ loop = "idle" /\ loop' \in {"idle", "executing"}
        BY <2>9, <3>2, Zenon DEF Message, UnknownCommand, getLoadedCommands,
           RefuseCommand, StartCommand, registry
      <4>2. \/ reply' = reply
            \/ reply' = [kind |-> "unhandled"]
            \/ reply' = [kind |-> "list", names |-> Listed]
            \/ reply'.kind = Verdict(Handler(n).cmd, u, b)
        <5>1. ASSUME UnknownCommand(n)
              PROVE  reply' = [kind |-> "unhandled"]
          BY <5>1, Zenon DEF UnknownCommand
        <5>2. ASSUME getLoadedCommands(n)
              PROVE  reply' = [kind |-> "list", names |-> Listed]
          BY <5>2, Zenon DEF getLoadedCommands
        <5>3. ASSUME RefuseCommand(n, u, b)
              PROVE  reply'.kind = Verdict(Handler(n).cmd, u, b)
          BY <5>3, Zenon DEF RefuseCommand
        <5>4. ASSUME StartCommand(n, u, b)
              PROVE  reply' = reply
          BY <5>4, Zenon DEF StartCommand
        <5> QED
          BY <2>9, <3>2, <5>1, <5>2, <5>3, <5>4, Zenon DEF Message
      <4>3. Verdict(Handler(n).cmd, u, b) # "list"
        BY Zenon DEF Verdict, Checks
      <4>4. /\ [kind |-> "unhandled"].kind = "unhandled"
            /\ [kind |-> "list", names |-> Listed].names = Listed
        BY ReplyKind, Zenon
      <4>5. \/ reply' = reply
            \/ reply'.kind = "unhandled"
            \/ reply'.names = Listed
            \/ reply'.kind = Verdict(Handler(n).cmd, u, b)
        BY <4>2, <4>4, Zenon
      <4>6. \A k \in Listed : Answers(k)
        BY <4>1, Zenon DEF Catalogue
      <4>7. ListAnswers'
        BY <4>3, <4>5, <4>6, ListStands, Zenon
      <4> QED
        BY <2>1, <4>1, <4>7, CatalogueFrame, Zenon
    <3> QED
      BY <3>1, <3>2, Zenon
  <2> QED
    BY <2>2, <2>3, <2>4, <2>5, <2>6, <2>7, <2>8, <2>9, Zenon
    DEF Next, Load, Register
<1>3. Catalogue => ListedCommandsAnswer
  BY Zenon DEF Catalogue, ListAnswers, ListedCommandsAnswer, Answers
<1> QED
  BY <1>1, <1>2, <1>3, PTL DEF Spec

-----------------------------------------------------------------------------
(***************************************************************************)
(* The Lua function of a handler and the rules filed under its name belong *)
(* to one script, unless the name is listed again by the reload that is    *)
(* under way and waits to be registered.                                   *)
(***************************************************************************)
Owned(cmd, execute) ==
    [meta |-> m_command_metadata[cmd], execute |-> execute] \in Scripts

Renewed(cmd) ==
    \/ loop \in {"scanning", "reloading"} /\ cmd \in Listed
    \/ loop \in {"starting", "reregistering"}
       /\ <<cmd, m_command_files[cmd]>> \in todo

Handled(k) ==
    m_commands[k] \in LuaHandler =>
        /\ m_commands[k].cmd \in Names \ {EmptyName}
        /\ lower[m_commands[k].cmd] = k
        /\ Owned(m_commands[k].cmd, m_commands[k].execute)
           \/ Renewed(m_commands[k].cmd)

ReadAs(n) ==
    /\ disk[m_command_files[n]] \in Scripts
    /\ m_command_metadata[n] = disk[m_command_files[n]].meta

Ownership ==
    /\ TypeOK
    /\ loop \in Reading => \A n \in Listed : ReadAs(n)
    /\ loop \in {"starting", "reregistering"} => todo \subseteq ListedEntries
    /\ \A k \in Names : Handled(k)
    /\ loop = "executing" =>
          [meta |-> running.meta, execute |-> running.execute] \in Scripts
    /\ RunsUnderOwnRules

\* A script is the record of its two fields.
LEMMA ScriptFields ==
    ASSUME NEW s \in Scripts
    PROVE  [meta |-> s.meta, execute |-> s.execute] \in Scripts
<1>1. s \in [meta : CommandMetadata, execute : Bodies]
  BY Zenon
<1>2. s = [meta |-> s.meta, execute |-> s.execute]
  BY <1>1, Zenon
<1> QED
  BY <1>2, Zenon

\* loadLuaCommand files the rules of the script that is on the disk.
LEMMA OwnershipLoad ==
    ASSUME Ownership, TypeOK', NEW e \in Entry, loadLuaCommand(e)
    PROVE  Ownership'
<1>1. /\ loop \in {"scanning", "reloading"}
      /\ UNCHANGED <<loop, disk, m_commands, running, runs>>
  BY Zenon DEF loadLuaCommand, history
<1>2. RunsUnderOwnRules'
  BY <1>1, Zenon DEF Ownership, RunsUnderOwnRules
<1>3. CASE ~ Loadable(disk[e[2]])
  <2>1. UNCHANGED <<m_command_files, m_command_metadata>>
    BY <1>3, Zenon DEF loadLuaCommand
  <2>2. \A k \in Names : Handled(k)'
    BY <1>1, <2>1, Zenon DEF Ownership, Handled, Owned, Renewed, Listed
  <2>3. \A n \in Listed' : ReadAs(n)'
    BY <1>1, <2>1, Zenon DEF Ownership, Listed, ReadAs, Reading
  <2> QED
    BY <1>1, <1>2, <2>2, <2>3, Zenon DEF Ownership
<1>4. CASE Loadable(disk[e[2]])
  <2> DEFINE claims == Claims(disk[e[2]])
             meta == disk[e[2]].meta
  <2>1. e[2] \in Files /\ disk[e[2]] \in Scripts
    BY <1>4, Zenon DEF Loadable, Content, Entry, Ownership, TypeOK
  <2>2. \A n \in Names :
          /\ m_command_files'[n] = IF n \in claims THEN e[2]
                                   ELSE m_command_files[n]
          /\ m_command_metadata'[n] = IF n \in claims THEN meta
                                      ELSE m_command_metadata[n]
    BY <1>4, Zenon DEF loadLuaCommand
  <2> HIDE DEF claims
  <2>3. \A n \in Listed' : ReadAs(n)'
    BY <1>1, <2>1, <2>2, Zenon DEF Ownership, Listed, ReadAs, Reading
  <2> HIDE DEF meta
  <2>4. ASSUME NEW k \in Names PROVE Handled(k)'
    <3> SUFFICES ASSUME m_commands[k] \in LuaHandler PROVE Handled(k)'
      BY <1>1, Zenon DEF Handled
    <3> DEFINE cmd == m_commands[k].cmd
    <3>1. /\ cmd \in Names \ {EmptyName} /\ lower[cmd] = k
          /\ Owned(cmd, m_commands[k].execute) \/ Renewed(cmd)
      BY Zenon DEF Ownership, Handled
    <3>2. CASE cmd \in claims
      <4>1. cmd \in Listed'
        BY <2>1, <2>2, <3>1, <3>2 DEF Listed
      <4> QED
        BY <1>1, <3>1, <4>1, Zenon DEF Handled, Renewed
    <3>3. CASE cmd \notin claims
      <4>1. /\ m_command_files'[cmd] = m_command_files[cmd]
            /\ m_command_metadata'[cmd] = m_command_metadata[cmd]
        BY <2>2, <3>1, <3>3, Zenon
      <4> QED
        BY <1>1, <3>1, <4>1, Zenon DEF Handled, Owned, Renewed, Listed
    <3> QED
      BY <3>2, <3>3, Zenon
  <2> QED
    BY <1>1, <1>2, <2>3, <2>4, Zenon DEF Ownership
<1> QED
  BY <1>3, <1>4, Zenon

\* registerWithParser captures the function of the script whose rules are filed.
LEMMA OwnershipRegister ==
    ASSUME Ownership, TypeOK', NEW e \in Entry, registerWithParser(e)
    PROVE  Ownership'
<1>1. /\ loop \in {"starting", "reregistering"}
      /\ UNCHANGED <<loop, disk, m_command_files, m_command_metadata, running,
                     runs>>
      /\ todo' = todo \ {e} /\ e \in todo
  BY Zenon DEF registerWithParser, history
<1>2. /\ e[1] \in Listed /\ e[2] = m_command_files[e[1]]
      /\ e = <<e[1], e[2]>> /\ e[1] \in Names
  BY <1>1 DEF Ownership, ListedEntries, Listed
<1>3. disk[e[2]] \in Scripts /\ m_command_metadata[e[1]] = disk[e[2]].meta
  BY <1>1, <1>2, Zenon DEF Ownership, ReadAs, Reading
<1> DEFINE h == [cmd |-> e[1], execute |-> disk[e[2]].execute]
<1>4. m_commands' = IF e[1] = EmptyName THEN m_commands
                    ELSE [m_commands EXCEPT ![lower[e[1]]] = h]
  BY <1>3, Zenon DEF registerWithParser, registerCommand
<1>5. h.cmd = e[1] /\ h.execute = disk[e[2]].execute
  BY Zenon
<1>6. [meta |-> m_command_metadata'[e[1]], execute |-> h.execute] \in Scripts
  BY <1>1, <1>3, <1>5, ScriptFields, Zenon
<1> HIDE DEF h
<1>7. ASSUME NEW k \in Names PROVE Handled(k)'
  <2>1. CASE e[1] # EmptyName /\ k = lower[e[1]]
    <3>1. m_commands'[k] = h
      BY <1>4, <2>1, Zenon DEF Ownership, TypeOK
    <3> QED
      BY <1>2, <1>5, <1>6, <2>1, <3>1, Zenon DEF Handled, Owned
  <2>2. CASE ~ (e[1] # EmptyName /\ k = lower[e[1]])
    <3>1. m_commands'[k] = m_commands[k]
      BY <1>4, <2>2, Zenon DEF Ownership, TypeOK
    <3> SUFFICES ASSUME m_commands[k] \in LuaHandler PROVE Handled(k)'
      BY <3>1, Zenon DEF Handled
    <3> DEFINE cmd == m_commands[k].cmd
    <3>2. /\ cmd \in Names \ {EmptyName} /\ lower[cmd] = k
          /\ Owned(cmd, m_commands[k].execute) \/ Renewed(cmd)
      BY Zenon DEF Ownership, Handled
    <3>3. cmd # e[1]
      BY <2>2, <3>2, Zenon
    <3>4. <<cmd, m_command_files[cmd]>> # e
      BY <1>2, <3>3
    <3>5. Owned(cmd, m_commands[k].execute) => Owned(cmd, m_commands[k].execute)'
      BY <1>1, <3>1, Zenon DEF Owned
    <3>6. Renewed(cmd) => Renewed(cmd)'
      BY <1>1, <3>1, <3>4, Zenon DEF Renewed
    <3> QED
      BY <3>1, <3>2, <3>5, <3>6, Zenon DEF Handled
  <2> QED
    BY <2>1, <2>2, Zenon
<1>8. RunsUnderOwnRules'
  BY <1>1, Zenon DEF Ownership, RunsUnderOwnRules
<1>9. \A n \in Listed' : ReadAs(n)'
  BY <1>1, Zenon DEF Ownership, Listed, ReadAs, Reading
<1>10. todo' \subseteq ListedEntries'
  BY <1>1, Zenon DEF Ownership, ListedEntries, Listed
<1> QED
  BY <1>1, <1>7, <1>8, <1>9, <1>10, Zenon DEF Ownership

\* Steps that leave the registry and what has run alone.
LEMMA OwnershipFrame ==
    ASSUME Ownership, TypeOK',
           UNCHANGED <<registry, runs>>,
           \/ UNCHANGED <<disk, loop, todo, running>>
           \/ /\ UNCHANGED <<loop, todo, running>>
              /\ loop \in {"idle", "executing"}
           \/ /\ loop = "idle" /\ loop' = "idle"
    PROVE  Ownership'
<1>1. loop' = loop
  BY Zenon
<1>2. /\ UNCHANGED <<m_command_files, m_command_metadata, m_commands>>
      /\ Listed' = Listed /\ ListedEntries' = ListedEntries
  BY Zenon DEF registry, Listed, ListedEntries
<1>3. loop' \in Reading => \A n \in Listed' : ReadAs(n)'
  BY <1>1, <1>2, Zenon DEF Ownership, ReadAs, Reading
<1>4. \A k \in Names : Handled(k)'
  BY <1>1, <1>2, Zenon DEF Ownership, Handled, Owned, Renewed
<1>5. RunsUnderOwnRules'
  BY Zenon DEF Ownership, RunsUnderOwnRules
<1> QED
  BY <1>1, <1>2, <1>3, <1>4, <1>5, Zenon DEF Ownership

\* A handler is admitted under the rules of its own script.
LEMMA OwnershipMessage ==
    ASSUME Ownership, TypeOK',
           NEW n \in Names, NEW u \in Users, NEW b \in SUBSET Badges,
           Message(n, u, b)
    PROVE  Ownership'
<1>1. \A k \in Names : m_commands[k] \in LuaHandler =>
         /\ m_commands[k].cmd \in Names \ {EmptyName}
         /\ lower[m_commands[k].cmd] = k
         /\ Owned(m_commands[k].cmd, m_commands[k].execute)
  <2>1. loop = "idle"
    BY Zenon DEF Message, UnknownCommand, reloadAllCommands, getLoadedCommands,
           RefuseCommand, StartCommand
  <2> QED
    BY <2>1, Zenon DEF Ownership, Handled, Renewed
<1>2. CASE UnknownCommand(n) \/ getLoadedCommands(n) \/ RefuseCommand(n, u, b)
  <2>1. UNCHANGED <<registry, runs>> /\ loop = "idle" /\ loop' = "idle"
    BY <1>2, Zenon DEF UnknownCommand, getLoadedCommands, RefuseCommand, history
  <2> QED
    BY <2>1, OwnershipFrame, Zenon
<1>3. CASE reloadAllCommands(n)
  <2>1. /\ loop' = "reloading" /\ UNCHANGED <<m_commands, m_command_metadata,
                                              runs>>
        /\ m_command_files' = [k \in Names |-> NoFile]
    BY <1>3, Zenon DEF reloadAllCommands, history
  <2>2. Listed' = {}
    BY <2>1, Zenon DEF Listed
  <2>3. \A k \in Names : Handled(k)'
    BY <1>1, <2>1, Zenon DEF Handled, Owned
  <2>4. RunsUnderOwnRules'
    BY <2>1, Zenon DEF Ownership, RunsUnderOwnRules
  <2> QED
    BY <2>1, <2>2, <2>3, <2>4, Zenon DEF Ownership
<1>4. CASE StartCommand(n, u, b)
  <2> DEFINE h == Handler(n)
  <2>1. /\ loop' = "executing"
        /\ UNCHANGED <<m_commands, m_command_metadata, runs>>
        /\ running'.meta = m_command_metadata[h.cmd]
        /\ running'.execute = h.execute
    BY <1>4, Zenon DEF StartCommand, registry, history
  <2>2. h \in LuaHandler
    BY <1>4, Zenon DEF StartCommand, Handler, Ownership, TypeOK
  <2>3. Owned(h.cmd, h.execute)
    BY <1>1, <2>2, Zenon DEF Handler
  <2> HIDE DEF h
  <2>4. [meta |-> running'.meta, execute |-> running'.execute] \in Scripts
    BY <2>1, <2>3, Zenon DEF Owned
  <2>5. \A k \in Names : Handled(k)'
    BY <1>1, <2>1, Zenon DEF Handled, Owned
  <2>6. RunsUnderOwnRules'
    BY <2>1, Zenon DEF Ownership, RunsUnderOwnRules
  <2> QED
    BY <2>1, <2>4, <2>5, <2>6, Zenon DEF Ownership, Reading
<1> QED
  BY <1>2, <1>3, <1>4, Zenon DEF Message

\* An execution that ends enters the history with the rules it ran under.
LEMMA OwnershipFinish ==
    ASSUME Ownership, TypeOK', FinishCommand
    PROVE  Ownership'
<1> DEFINE r == [cmd |-> running.cmd, user |-> running.user,
                 execute |-> running.execute, meta |-> running.meta,
                 start |-> running.start, end |-> now]
<1>1. /\ loop = "executing" /\ loop' = "idle" /\ UNCHANGED registry
      /\ runs' = Append(runs, r)
  BY Zenon DEF FinishCommand
<1>2. running \in Admitted /\ now \in Nat /\ runs \in Seq(Run)
  BY <1>1, Zenon DEF Ownership, TypeOK, TrackerTypeOK, Time
<1>3. r \in Run
  BY <1>2, Zenon DEF Admitted, Run
<1>4. [meta |-> r.meta, execute |-> r.execute] \in Scripts
  BY <1>1, Zenon DEF Ownership
<1> HIDE DEF r
<1>5. /\ DOMAIN runs = 1..Len(runs) /\ DOMAIN runs' = 1..(Len(runs) + 1)
      /\ \A i \in 1..Len(runs) : runs'[i] = runs[i]
      /\ runs'[Len(runs) + 1] = r
      /\ Len(runs) \in Nat
  <2>1. /\ Len(runs) \in Nat /\ DOMAIN runs = 1..Len(runs)
        /\ DOMAIN Append(runs, r) = 1..(Len(runs) + 1)
        /\ \A i \in 1..Len(runs) : Append(runs, r)[i] = runs[i]
        /\ Append(runs, r)[Len(runs) + 1] = r
    <3>1. ASSUME NEW x \in Run
          PROVE  /\ Len(runs) \in Nat /\ DOMAIN runs = 1..Len(runs)
                 /\ DOMAIN Append(runs, x) = 1..(Len(runs) + 1)
                 /\ \A i \in 1..Len(runs) : Append(runs, x)[i] = runs[i]
                 /\ Append(runs, x)[Len(runs) + 1] = x
      BY <1>2
    <3> QED
      BY <1>3, <3>1, Zenon
  <2>2. runs' = Append(runs, r)
    BY <1>1, Zenon
  <2> QED
    BY <2>1, <2>2, Zenon
<1>6. \A j \in 1..(Len(runs) + 1) : j \in 1..Len(runs) \/ j = Len(runs) + 1
  BY <1>5
<1>7. RunsUnderOwnRules'
  BY <1>4, <1>5, <1>6, Zenon DEF Ownership, RunsUnderOwnRules
<1>8. \A k \in Names : Handled(k)'
  BY <1>1, Zenon DEF Ownership, Handled, Owned, Renewed, registry
<1> QED
  BY <1>1, <1>7, <1>8, Zenon DEF Ownership, Reading

(***************************************************************************)
(* If scripts are not edited while the engine reads them, every execution  *)
(* ran a script's function under that script's rules, although the handler *)
(* holds the one and looks the other up by name: through reloads, names    *)
(* two files claim, scripts that break and aliases that are given up.      *)
(***************************************************************************)
THEOREM RulesAreOwn ==
    ASSUME EditWhileLoading = FALSE
    PROVE  Spec => []RunsUnderOwnRules
<1>1. Init => Ownership
  <2> SUFFICES ASSUME Init PROVE Ownership
    BY Zenon
  <2>1. TypeOK
    BY TypeInit, Zenon
  <2>2. /\ loop = "scanning" /\ Listed = {} /\ runs = << >>
        /\ \A k \in Names : m_commands[k] \notin LuaHandler
    BY Zenon DEF Init, Listed
  <2>3. RunsUnderOwnRules
    BY <2>2 DEF RunsUnderOwnRules
  <2> QED
    BY <2>1, <2>2, <2>3, Zenon DEF Ownership, Handled
<1>2. Ownership /\ [Next]_vars => Ownership'
  <2> SUFFICES ASSUME Ownership, [Next]_vars PROVE Ownership'
    BY Zenon
  <2>1. TypeOK'
    BY TypeNext, Zenon DEF Ownership
  <2>2. CASE Tick \/ StreamOnline \/ UNCHANGED vars
    <3>1. UNCHANGED <<registry, runs, disk, loop, todo, running>>
      BY <2>2, Zenon DEF Tick, StreamOnline, history, vars
    <3> QED
      BY <2>1, <3>1, OwnershipFrame, Zenon
  <2>3. CASE \E f \in Files, c \in Content : EditFile(f, c)
    <3>1. /\ UNCHANGED <<registry, runs, loop, todo, running>>
          /\ loop \in {"idle", "executing"}
      BY <2>3, Zenon DEF EditFile, history
    <3> QED
      BY <2>1, <3>1, OwnershipFrame, Zenon
  <2>4. CASE FinishCommand
    BY <2>1, <2>4, OwnershipFinish, Zenon
  <2>5. CASE FinishLoading
    <3>1. /\ loop \in {"scanning", "reloading"}
          /\ loop' \in {"starting", "reregistering"}
          /\ UNCHANGED <<disk, m_command_files, m_command_metadata, m_commands,
                         runs>>
          /\ todo' = ListedEntries
      BY <2>5, Zenon DEF FinishLoading, registry, history
    <3>2. Listed' = Listed /\ ListedEntries' = ListedEntries
      BY <3>1, Zenon DEF Listed, ListedEntries
    <3>3. \A n \in Listed' : ReadAs(n)'
      BY <3>1, <3>2, Zenon DEF Ownership, ReadAs, Reading
    <3>4. \A c \in Listed : Renewed(c)'
      BY <3>1, Zenon DEF Renewed, ListedEntries
    <3>5. \A k \in Names : Handled(k)'
      BY <3>1, <3>4, Zenon DEF Ownership, Handled, Owned, Renewed
    <3>6. RunsUnderOwnRules'
      BY <3>1, Zenon DEF Ownership, RunsUnderOwnRules
    <3> QED
      BY <2>1, <3>1, <3>2, <3>3, <3>5, <3>6, Zenon DEF Ownership
  <2>6. CASE \E e \in Entry : loadLuaCommand(e)
    BY <2>1, <2>6, OwnershipLoad, Zenon
  <2>7. CASE \E e \in Entry : registerWithParser(e)
    BY <2>1, <2>7, OwnershipRegister, Zenon
  <2>8. CASE FinishRegistering
    <3>1. /\ loop' = "idle" /\ todo = {}
          /\ loop \in {"starting", "reregistering"}
          /\ UNCHANGED <<m_command_metadata, runs>>
      BY <2>8, Zenon DEF FinishRegistering, history
    <3>2. \A k \in Names : m_commands'[k] \in LuaHandler =>
                               m_commands'[k] = m_commands[k]
      BY <2>8, Zenon DEF FinishRegistering, Ownership, TypeOK, Natives
    <3>3. \A k \in Names : Handled(k)'
      BY <3>1, <3>2, Zenon DEF Ownership, Handled, Owned, Renewed
    <3>4. RunsUnderOwnRules'
      BY <3>1, Zenon DEF Ownership, RunsUnderOwnRules
    <3> QED
      BY <2>1, <3>1, <3>3, <3>4, Zenon DEF Ownership, Reading
  <2>9. CASE \E n \in Names \ {EmptyName}, u \in Users, b \in SUBSET Badges :
                Message(n, u, b)
    BY <2>1, <2>9, OwnershipMessage, Zenon
  <2> QED
    BY <2>2, <2>3, <2>4, <2>5, <2>6, <2>7, <2>8, <2>9, Zenon
    DEF Next, Load, Register
<1>3. Ownership => RunsUnderOwnRules
  BY Zenon DEF Ownership
<1> QED
  BY <1>1, <1>2, <1>3, PTL DEF Spec

=============================================================================
