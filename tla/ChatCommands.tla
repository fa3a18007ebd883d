---------------------------- MODULE ChatCommands ----------------------------
(***************************************************************************)
(* A chat line on its way through CommandParser to the "!sfx" command: the *)
(* line is split into tokens, the first one looked up in lower case; the   *)
(* handler registered for it checks the rules of the command, calls the    *)
(* Lua function with the other tokens and records the use.  All of it runs *)
(* on the EventSub read loop, one line at a time, while the clock goes on. *)
(*                                                                         *)
(* Names are the name and the aliases of sfx.lua, which the registry has   *)
(* under the same spelling.  Reloading is part of LuaCommandEngine.        *)
(***************************************************************************)
EXTENDS CommandParser, Sfx, CooldownTracker

CONSTANTS
    FirstLines, Lines,  \* ChatMessages that can arrive first, and later
    Rules,              \* m_command_metadata, under each of the names
    MaxLines,           \* bound on the lines
    MaxTime             \* bound on the clock

\* The name and the aliases are words in lower case.  The script asks for a
\* cooldown per name and one per user, and leaves all else to its default.
ASSUME LinesAssumption ==
    /\ FirstLines \cup Lines \subseteq
          [text : Seq(Chars), user : Users, badges : SUBSET Badges]
    /\ lower_char \in [Chars -> Chars]
    /\ Names \subseteq Seq(Letters) \ {<< >>}
    /\ \A name \in Names : lower(name) = name

ASSUME RulesAssumption ==
    /\ Rules \in CommandMetadata
    /\ Rules.enabled
    /\ ~ Rules.mod_only /\ ~ Rules.vip_only /\ ~ Rules.subscriber_only
    /\ Rules.global_cooldown = 0 /\ Rules.max_uses_per_stream = -1

VARIABLES
    sender,  \* ChatMessage::user and badges of the line being handled
    lines    \* counter for the bound

clock == <<now, tracker>>
vars == <<parser, sfx, clock, sender, lines>>

NoSender == [user |-> "nobody", badges |-> {}]

Init ==
    /\ ParserInit /\ SfxInit
    /\ now = 0 /\ TrackerInit
    /\ sender = NoSender
    /\ lines = 0

\* Handling a line takes time.  The clock is read when the rules are checked
\* and when the use is recorded, so time passes before a line arrives and
\* before its use is recorded.  The first line finds no time to compare.
Tick ==
    /\ now < MaxTime /\ lines > 0
    /\ parse = "idle" \/ stage = "answered"
    /\ now' = now + 1
    /\ UNCHANGED <<parser, sfx, tracker, sender, lines>>

ReceiveLine(m) ==
    /\ lines < MaxLines
    /\ lines' = lines + 1
    /\ Receive(m.text)
    /\ sender' = [user |-> m.user, badges |-> m.badges]
    /\ UNCHANGED <<sfx, clock>>

Tokenize == Tokenizing /\ UNCHANGED <<sfx, clock, sender, lines>>

\* The name under which the handler was registered.
command_name == lower(Command)

\* What the handler's checks come to.
verdict == Checks(command_name, sender.user, sender.badges, Rules)

\* A refusal is one reply; the Lua function is not called.
Refuse ==
    /\ stage = "idle"
    /\ Answer([kind |-> verdict, at |-> now])
    /\ UNCHANGED <<disk, player, request, listed, disturbed>>

\* parseAndExecute once the line is split: no token, or a name that is not
\* in the registry, ends the handling of the line, and so does a command
\* that is not enabled.
Dispatch ==
    /\ parse = "parsed"
    /\ IF tokens = << >> \/ command_name \notin Names \/ verdict = "disabled"
       THEN Forget /\ sender' = NoSender /\ UNCHANGED sfx
       ELSE /\ IF verdict = "run" THEN Execute(Args) ELSE Refuse
            /\ parse' = "executing"
            /\ UNCHANGED <<text, pos, scan, sender>>
    /\ UNCHANGED <<clock, lines>>

RunSfx == SfxStep /\ UNCHANGED <<parser, clock, sender, lines>>

Refusals == {"no permission", "on cooldown", "usage limit"}
Refused == \E i \in DOMAIN answers : answers[i].kind \in Refusals

\* The handler returns; if it has called the Lua function it records the
\* use, whatever became of it.
ReturnToLoop ==
    /\ Return /\ Forget
    /\ IF Refused THEN UNCHANGED tracker
       ELSE recordUsage(command_name, sender.user)
    /\ sender' = NoSender
    /\ UNCHANGED <<now, lines>>

Edit(f) == EditSounds(f) /\ UNCHANGED <<parser, clock, sender, lines>>

Next ==
    \/ Tick
    \/ \E m \in IF lines = 0 THEN FirstLines ELSE Lines : ReceiveLine(m)
    \/ Tokenize
    \/ Dispatch
    \/ RunSfx
    \/ ReturnToLoop
    \/ \E f \in Files : Edit(f)

\* The read loop gets on with the line it handles.
Fairness ==
    /\ WF_vars(Tokenize)
    /\ WF_vars(Dispatch)
    /\ WF_vars(RunSfx)
    /\ WF_vars(ReturnToLoop)

Spec == Init /\ [][Next]_vars /\ Fairness

-----------------------------------------------------------------------------
\* The line "!<name> "<stem>"" for an alias of the command.
QuotedRequest(name, stem) ==
    <<Prefix>> \o name \o <<Space, Quote>> \o stem \o <<Quote>>

(***************************************************************************)
(* From the list to the loudspeaker: a sound that a page has shown and     *)
(* that is typed in quotes, spaces and all, is played, provided that its   *)
(* file is stored under a lower-case name and extension, that the name has *)
(* no quote or backslash and is none of the two words that ask for         *)
(* something else, that the audio engine is up, and that no file was       *)
(* edited and none unreadable.  The three ways to read a name (sorted      *)
(* listing, tokens of the line, lookup by extension) agree.  The one other *)
(* answer is a refusal, and then this name of the command was last used    *)
(* less than its cooldowns ago: by anybody, or by the same user.           *)
(***************************************************************************)
Plain(stem) ==
    /\ lower(stem) = stem /\ stem \notin {ListWord, RandomWord}
    /\ Range(stem) \cap {Quote, Backslash} = {}
    /\ \A f \in Files : f.stem = stem => lower_ext[f.ext] = f.ext

\* At time t, time `used' (if any) is less than the cooldown ago.
Recent(used, t, cooldown) ==
    used # Never /\ t - used < cooldown * TicksPerSecond

CoolingDown(name, user, t) ==
    \/ Recent(last_command_use[name], t, Rules.command_cooldown)
    \/ Recent(user_command_cooldowns[<<name, user>>], t, Rules.user_cooldown)

ListedSoundPlays ==
    \A stem \in listed, name \in Names, i \in DOMAIN answers :
        /\ Plain(stem) /\ text = QuotedRequest(name, stem)
        /\ m_initialized /\ ~ disturbed
        => \/ answers[i] = [kind |-> "played", sound |-> stem]
           \/ /\ answers[i].kind = "on cooldown"
              /\ CoolingDown(name, sender.user, answers[i].at)

(***************************************************************************)
(* Every line whose first token names the command is answered, exactly     *)
(* once: also with no argument, an empty directory, a page that does not   *)
(* exist, a file that vanishes between lookup and playing, an error in the *)
(* Lua function, or a cooldown that refuses it.                            *)
(***************************************************************************)
EveryRequestAnswered ==
    parse = "executing" ~> stage = "answered" /\ Len(answers) = 1
=============================================================================
