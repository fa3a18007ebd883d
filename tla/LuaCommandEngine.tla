-------------------------- MODULE LuaCommandEngine --------------------------
(***************************************************************************)
(* LuaCommandEngine, the registry of CommandParser and the native commands *)
(* Application::run adds to it: script files are loaded and registered at  *)
(* start-up, chat messages are dispatched to handlers, handlers check a    *)
(* command's rules, run its Lua function and record the use, and "!reload" *)
(* loads and registers again while scripts are edited on disk.             *)
(*                                                                         *)
(* Handlers, loading and registration all run on the EventSub read loop,   *)
(* one message at a time; `loop' says what that loop is doing.  The steps  *)
(* of one handler are interleaved with the clock and with edits of files.  *)
(***************************************************************************)
EXTENDS CooldownTracker, Sequences, FiniteSets

CONSTANTS
    EmptyName,        \* the empty string
    lower,            \* ::tolower applied to a name
    ReloadKey,        \* "reload"
    CommandsKey,      \* "commands"
    Files,            \* paths of .lua files in the commands directory
    Bodies,           \* Lua functions a script can have as execute
    Scripts,          \* file contents that evaluate to a command table
    Missing, Broken,  \* no such file; a file that is not a command table
    NoFile, NoMetadata, NoHandler, \* absent map entries
    NativeReload, NativeCommands,  \* the two native handlers
    InitialDisks,     \* contents of the directory at start-up
    StartTimes,       \* clock readings at start-up
    EditWhileLoading, \* may files change while the engine reads them?
    MaxTime, MaxRuns, MaxEdits, MaxStreams  \* bounds

Entry == Names \X Files
Content == Scripts \cup {Missing, Broken}
LuaHandler == [cmd : Names, execute : Bodies]
Natives == {NativeReload, NativeCommands}

ASSUME EngineAssumption ==
    /\ Scripts \subseteq [meta : CommandMetadata, execute : Bodies]
    /\ {Missing, Broken} \cap Scripts = {}
    /\ NoFile \notin Files
    /\ NoMetadata \notin CommandMetadata
    /\ ({NoHandler} \cup Natives) \cap LuaHandler = {}
    /\ NoHandler \notin Natives
    /\ {EmptyName, ReloadKey, CommandsKey} \subseteq Names
    /\ lower \in [Names -> Names]
    /\ InitialDisks \subseteq [Files -> Content]
    /\ StartTimes \subseteq Nat
    /\ EditWhileLoading \in BOOLEAN
    /\ {MaxTime, MaxRuns, MaxEdits, MaxStreams} \subseteq Nat

VARIABLES
    disk,               \* the commands directory
    m_command_files,    \* LuaCommandEngine: name or alias -> file
    m_command_metadata, \* LuaCommandEngine: name or alias -> rules
    m_commands,         \* CommandParser: lower-case name -> handler
    loop,               \* what the message loop is doing
    todo,               \* map or directory entries the current loop has left
    running,            \* the Lua function being executed
    reply,              \* what the last handled message was answered with
    runs,               \* history: the completed executions, in order
    stream_first,       \* history: Len(runs) when the current stream began
    edits, streams      \* counters for the bounds

registry == <<m_command_files, m_command_metadata, m_commands>>
history == <<runs, stream_first, streams>>
vars == <<now, tracker, disk, registry, loop, todo, running, reply, history,
          edits>>

LoopStates == {"scanning", "starting", "idle", "executing", "reloading",
               "reregistering"}
NoCommand == [kind |-> "none"]

Run == [cmd : Names, user : Users, execute : Bodies, meta : CommandMetadata,
        start : Nat, end : Nat]
Admitted == [cmd : Names, user : Users, execute : Bodies,
             meta : CommandMetadata, start : Nat]

-----------------------------------------------------------------------------
Init ==
    /\ now \in StartTimes
    /\ TrackerInit
    /\ disk \in InitialDisks
    /\ m_command_files = [n \in Names |-> NoFile]
    /\ m_command_metadata = [n \in Names |-> NoMetadata]
    /\ m_commands = [n \in Names |-> NoHandler]
    /\ loop = "scanning"
    /\ todo = {<<EmptyName, f>> : f \in {g \in Files : disk[g] # Missing}}
    /\ running = NoCommand
    /\ reply = NoCommand
    /\ runs = << >>
    /\ stream_first = 0
    /\ edits = 0
    /\ streams = 0

Tick ==
    /\ now < MaxTime
    /\ now' = now + 1
    /\ UNCHANGED <<tracker, disk, registry, loop, todo, running, reply,
                   history, edits>>

\* The owner of the bot changes, breaks, deletes or adds a script.
EditFile(f, c) ==
    /\ edits < MaxEdits
    /\ EditWhileLoading \/ loop \in {"idle", "executing"}
    /\ disk[f] # c
    /\ disk' = [disk EXCEPT ![f] = c]
    /\ edits' = edits + 1
    /\ UNCHANGED <<now, tracker, registry, loop, todo, running, reply,
                   history>>

\* A stream.online notification: handleEventSubMessage has no branch for it.
StreamOnline ==
    /\ streams < MaxStreams
    /\ streams' = streams + 1
    /\ stream_first' = Len(runs)
    /\ UNCHANGED <<now, tracker, disk, registry, loop, todo, running, reply,
                   runs, edits>>

-----------------------------------------------------------------------------
\* The names under which loadLuaCommand files a script.
Claims(script) == {script.meta.name} \cup script.meta.aliases

Loadable(content) ==
    /\ content \notin {Missing, Broken}
    /\ content.meta.name # EmptyName

\* Faulty variant of loadLuaCommand: a file that does not load is kept for
\* another try.
loadLuaCommandRetries(e) ==
    /\ loop \in {"scanning", "reloading"}
    /\ e \in todo
    /\ LET script == disk[e[2]]
       IN  /\ Loadable(script)
           /\ todo' = todo \ {e}
           /\ m_command_files' =
                [n \in Names |-> IF n \in Claims(script) THEN e[2]
                                 ELSE m_command_files[n]]
           /\ m_command_metadata' =
                [n \in Names |-> IF n \in Claims(script) THEN script.meta
                                 ELSE m_command_metadata[n]]
    /\ UNCHANGED <<now, tracker, disk, m_commands, loop, running, reply,
                   history, edits>>

(***************************************************************************)
(* One call of loadLuaCommand, from loadCommandsFromDirectory or from      *)
(* reloadAllCommands.  Everything that can fail comes before the first map *)
(* is written.  Directories and unordered_maps have no order, so any entry *)
(* can be next.                                                            *)
(***************************************************************************)
loadLuaCommand(e) ==
    /\ loop \in {"scanning", "reloading"}
    /\ e \in todo
    /\ todo' = todo \ {e}
    /\ LET script == disk[e[2]]
       IN  IF Loadable(script)
           THEN /\ m_command_files' =
                     [n \in Names |-> IF n \in Claims(script) THEN e[2]
                                      ELSE m_command_files[n]]
                /\ m_command_metadata' =
                     [n \in Names |-> IF n \in Claims(script) THEN script.meta
                                      ELSE m_command_metadata[n]]
           ELSE UNCHANGED <<m_command_files, m_command_metadata>>
    /\ UNCHANGED <<now, tracker, disk, m_commands, loop, running, reply,
                   history, edits>>

Listed == {n \in Names : m_command_files[n] # NoFile}
ListedEntries == {<<n, m_command_files[n]>> : n \in Listed}

\* Faulty variant of FinishLoading: only the names proper are registered.
FinishLoadingNamesOnly ==
    /\ loop \in {"scanning", "reloading"}
    /\ todo = {}
    /\ loop' = IF loop = "scanning" THEN "starting" ELSE "reregistering"
    /\ todo' = {e \in ListedEntries : m_command_metadata[e[1]].name = e[1]}
    /\ UNCHANGED <<now, tracker, disk, registry, running, reply, history,
                   edits>>

\* The load loop is over; registerWithParser starts.
FinishLoading ==
    /\ loop \in {"scanning", "reloading"}
    /\ todo = {}
    /\ loop' = IF loop = "scanning" THEN "starting" ELSE "reregistering"
    /\ todo' = ListedEntries
    /\ UNCHANGED <<now, tracker, disk, registry, running, reply, history,
                   edits>>

\* Faulty variant of registerCommand: emplace, which keeps an older handler.
registerCommandOnce(name, handler) ==
    IF name = EmptyName \/ m_commands[lower[name]] # NoHandler
    THEN m_commands
    ELSE [m_commands EXCEPT ![lower[name]] = handler]

\* CommandParser::registerCommand: the new value of m_commands.
registerCommand(name, handler) ==
    IF name = EmptyName THEN m_commands
    ELSE [m_commands EXCEPT ![lower[name]] = handler]

\* One iteration of registerWithParser: the script is evaluated again and its
\* execute function captured with the name of the entry.
registerWithParser(e) ==
    /\ loop \in {"starting", "reregistering"}
    /\ e \in todo
    /\ todo' = todo \ {e}
    /\ LET script == disk[e[2]]
       IN  m_commands' =
             IF script \in {Missing, Broken} THEN m_commands
             ELSE registerCommand(e[1], [cmd |-> e[1],
                                         execute |-> script.execute])
    /\ UNCHANGED <<now, tracker, disk, m_command_files, m_command_metadata,
                   loop, running, reply, history, edits>>

\* Registration is over.  At start-up run() now adds the native commands.
FinishRegistering ==
    /\ loop \in {"starting", "reregistering"}
    /\ todo = {}
    /\ loop' = "idle"
    /\ IF loop = "starting"
       THEN /\ m_commands' = [m_commands EXCEPT ![ReloadKey] = NativeReload,
                                                ![CommandsKey] = NativeCommands]
            /\ UNCHANGED reply
       ELSE /\ reply' = [kind |-> "reloaded"]
            /\ UNCHANGED m_commands
    /\ UNCHANGED <<now, tracker, disk, m_command_files, m_command_metadata,
                   todo, running, history, edits>>

-----------------------------------------------------------------------------
(***************************************************************************)
(* CommandParser::parseAndExecute for a message of `user' whose first      *)
(* token is `name', by what m_commands holds for the lower-cased name.     *)
(***************************************************************************)
Handler(name) == m_commands[lower[name]]

UnknownCommand(name) ==
    /\ loop = "idle"
    /\ Handler(name) = NoHandler
    /\ reply' = [kind |-> "unhandled"]
    /\ UNCHANGED <<now, tracker, disk, registry, loop, todo, running, history,
                   edits>>

\* Faulty variants of reloadAllCommands: the rules are cleared along with the
\* files; the use counts are cleared.
reloadAllCommandsForgetsRules(name) ==
    /\ loop = "idle"
    /\ Handler(name) = NativeReload
    /\ loop' = "reloading"
    /\ todo' = ListedEntries
    /\ m_command_files' = [n \in Names |-> NoFile]
    /\ m_command_metadata' = [n \in Names |-> NoMetadata]
    /\ reply' = [kind |-> "reloading"]
    /\ UNCHANGED <<now, tracker, disk, m_commands, running, history, edits>>
reloadAllCommandsForgetsUses(name) ==
    /\ loop = "idle"
    /\ Handler(name) = NativeReload
    /\ loop' = "reloading"
    /\ todo' = ListedEntries
    /\ m_command_files' = [n \in Names |-> NoFile]
    /\ command_use_count' = [n \in Names |-> 0]
    /\ reply' = [kind |-> "reloading"]
    /\ UNCHANGED <<now, last_global_command, last_command_use,
                   user_command_cooldowns, disk, m_command_metadata,
                   m_commands, running, history, edits>>

\* The native reload handler, up to the loop of reloadAllCommands.
reloadAllCommands(name) ==
    /\ loop = "idle"
    /\ Handler(name) = NativeReload
    /\ loop' = "reloading"
    /\ todo' = ListedEntries
    /\ m_command_files' = [n \in Names |-> NoFile]
    /\ reply' = [kind |-> "reloading"]
    /\ UNCHANGED <<now, tracker, disk, m_command_metadata, m_commands,
                   running, history, edits>>

\* The native commands handler replies with getLoadedCommands().
getLoadedCommands(name) ==
    /\ loop = "idle"
    /\ Handler(name) = NativeCommands
    /\ reply' = [kind |-> "list", names |-> Listed]
    /\ UNCHANGED <<now, tracker, disk, registry, loop, todo, running, history,
                   edits>>

\* What the handler of a Lua command decides: rules are looked up by name.
Verdict(cmd, user, badges) ==
    LET meta == m_command_metadata[cmd]
    IN  IF meta = NoMetadata THEN "configuration error"
        ELSE Checks(cmd, user, badges, meta)

RefuseCommand(name, user, badges) ==
    /\ loop = "idle"
    /\ Handler(name) \notin {NoHandler} \cup Natives
    /\ LET cmd == Handler(name).cmd
           verdict == Verdict(cmd, user, badges)
       IN  /\ verdict # "run"
           /\ reply' = [kind |-> verdict, cmd |-> cmd, user |-> user,
                        at |-> now, meta |-> m_command_metadata[cmd]]
    /\ UNCHANGED <<now, tracker, disk, registry, loop, todo, running, history,
                   edits>>

\* All checks passed: executeLuaCommand calls the captured Lua function.
StartCommand(name, user, badges) ==
    /\ loop = "idle"
    /\ Len(runs) < MaxRuns
    /\ Handler(name) \notin {NoHandler} \cup Natives
    /\ Verdict(Handler(name).cmd, user, badges) = "run"
    /\ running' = [cmd |-> Handler(name).cmd, user |-> user,
                   execute |-> Handler(name).execute,
                   meta |-> m_command_metadata[Handler(name).cmd],
                   start |-> now]
    /\ loop' = "executing"
    /\ UNCHANGED <<now, tracker, disk, registry, todo, reply, history, edits>>

\* The function has returned or failed (the failure is replied and dropped);
\* either way the use is recorded, at the time it ended.
FinishCommand ==
    /\ loop = "executing"
    /\ \E outcome \in {"ran", "command error"} : reply' = [kind |-> outcome]
    /\ recordUsage(running.cmd, running.user)
    /\ runs' = Append(runs, [cmd |-> running.cmd, user |-> running.user,
                             execute |-> running.execute,
                             meta |-> running.meta,
                             start |-> running.start, end |-> now])
    /\ running' = NoCommand
    /\ loop' = "idle"
    /\ UNCHANGED <<now, disk, registry, todo, stream_first, streams, edits>>

Message(name, user, badges) ==
    \/ UnknownCommand(name)
    \/ reloadAllCommands(name)
    \/ getLoadedCommands(name)
    \/ RefuseCommand(name, user, badges)
    \/ StartCommand(name, user, badges)

Load == FinishLoading \/ \E e \in Entry : loadLuaCommand(e)
Register == FinishRegistering \/ \E e \in Entry : registerWithParser(e)

Next ==
    \/ Tick
    \/ \E f \in Files, c \in Content : EditFile(f, c)
    \/ StreamOnline
    \/ Load
    \/ Register
    \/ FinishCommand
    \/ \E n \in Names \ {EmptyName}, u \in Users, b \in SUBSET Badges :
          Message(n, u, b)

\* Loading and registering are loops over finite maps in one thread, which is
\* never blocked: they are fair.  Scripts are assumed to return.
Fairness == WF_vars(Load) /\ WF_vars(Register) /\ WF_vars(FinishCommand)

Spec == Init /\ [][Next]_vars /\ Fairness

-----------------------------------------------------------------------------
TypeOK ==
    /\ TrackerTypeOK
    /\ disk \in [Files -> Content]
    /\ m_command_files \in [Names -> Files \cup {NoFile}]
    /\ m_command_metadata \in [Names -> CommandMetadata \cup {NoMetadata}]
    /\ m_commands \in [Names -> LuaHandler \cup Natives \cup {NoHandler}]
    /\ loop \in LoopStates
    /\ todo \in SUBSET Entry
    /\ IF loop = "executing" THEN running \in Admitted ELSE running = NoCommand
    /\ runs \in Seq(Run)
    /\ stream_first \in 0..Len(runs)

(***************************************************************************)
(* Cooldowns are kept: between the end of an execution and the start of    *)
(* any later one lie at least the later command's global cooldown, its     *)
(* command cooldown if the two ran under the same name, and its user       *)
(* cooldown if in addition the same user asked.  The check, the execution  *)
(* and recordUsage read the clock at different times, elapsed time is      *)
(* truncated, and reloads come in between.                                 *)
(***************************************************************************)
Seconds(s) == s * TicksPerSecond

Spaced(r, s) ==
    LET Enough(cooldown) ==
            cooldown > 0 => s.start - r.end >= Seconds(cooldown)
    IN  /\ Enough(s.meta.global_cooldown)
        /\ r.cmd = s.cmd => Enough(s.meta.command_cooldown)
        /\ r.cmd = s.cmd /\ r.user = s.user => Enough(s.meta.user_cooldown)

CooldownsKept ==
    \A j \in DOMAIN runs : \A i \in 1..(j - 1) : Spaced(runs[i], runs[j])

(***************************************************************************)
(* The dual: "Command is on cooldown." is only ever answered when an       *)
(* execution the cooldown counts ended less than the cooldown ago, or when *)
(* the clock itself is younger than a global cooldown (the tracker starts  *)
(* with last_global_command at the clock's epoch).                         *)
(***************************************************************************)
CooldownJustified ==
    reply.kind = "on cooldown" =>
        LET meta == reply.meta
            Recent(i, cooldown) == reply.at - runs[i].end < Seconds(cooldown)
        IN  \/ reply.at < Seconds(meta.global_cooldown)
            \/ \E i \in DOMAIN runs :
                  \/ Recent(i, meta.global_cooldown)
                  \/ /\ runs[i].cmd = reply.cmd
                     /\ Recent(i, meta.command_cooldown)
                  \/ /\ runs[i].cmd = reply.cmd
                     /\ runs[i].user = reply.user
                     /\ Recent(i, meta.user_cooldown)

(***************************************************************************)
(* No name runs more often than the max_uses_per_stream in force when it   *)
(* ran, whatever reloads and failing executions come in between.           *)
(***************************************************************************)
Uses(cmd, j) == Cardinality({i \in 1..j : runs[i].cmd = cmd})

UseLimitKept ==
    \A j \in DOMAIN runs :
        runs[j].meta.max_uses_per_stream > 0 =>
            Uses(runs[j].cmd, j) <= runs[j].meta.max_uses_per_stream

(***************************************************************************)
(* What runs is governed by its own rules: the Lua function a handler      *)
(* captured when it was registered and the metadata it looks up by name    *)
(* when it is invoked belong to one and the same script, through reloads,  *)
(* contested names, broken scripts and scripts that give up an alias.      *)
(***************************************************************************)
RunsUnderOwnRules ==
    \A j \in DOMAIN runs :
        [meta |-> runs[j].meta, execute |-> runs[j].execute] \in Scripts

\* The handler's "Command configuration error" branch is never taken: reload
\* empties m_command_files but the rules of every registered name survive.
AlwaysConfigured == reply.kind # "configuration error"

\* Every name "!commands" lists can be dispatched.
ListedCommandsAnswer ==
    reply.kind = "list" =>
        \A n \in reply.names \ {EmptyName} : Handler(n) # NoHandler

\* A reload, once asked for, comes to its end and chat is handled again.
ReloadEnds == loop = "reloading" ~> loop = "idle"

-----------------------------------------------------------------------------
(* What the scripts' comments say and the code does not do.                *)

\* "Only 10 uses total per stream": a use is refused for the limit only when
\* the current stream has seen that many.  Nothing calls resetStreamCounters.
LimitPerStream ==
    [][reply' # reply /\ reply'.kind = "usage limit" =>
         Cardinality({i \in (stream_first + 1)..Len(runs) :
                         runs[i].cmd = reply'.cmd})
             >= reply'.meta.max_uses_per_stream]_vars
=============================================================================
