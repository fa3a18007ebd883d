-------------------------- MODULE CooldownTracker --------------------------
(***************************************************************************)
(* CooldownTracker and the part of CommandMetadata it reads                *)
(* (lua_command_engine.hpp, lua_command_engine.cpp).                       *)
(*                                                                         *)
(* The clock is std::chrono::steady_clock, counted in ticks of which there *)
(* are TicksPerSecond to the second: cooldowns are whole seconds and       *)
(* duration_cast truncates the elapsed ticks.  Zero is the clock's epoch.  *)
(* A key that is absent from an unordered_map of time points is Never; one *)
(* that is absent from command_use_count counts 0, as the code reads it.   *)
(***************************************************************************)
EXTENDS Integers

CONSTANTS
    Names,           \* command names and aliases, as scripts spell them
    Users,           \* chatters (ChatMessage::user)
    Badges,          \* badge set ids (ChatMessage::badges)
    TicksPerSecond   \* clock ticks per second

ASSUME TicksAssumption == TicksPerSecond \in Nat \ {0}

VARIABLES
    now,                     \* steady_clock::now()
    last_global_command,     \* time of the last use of any Lua command
    last_command_use,        \* per command name
    user_command_cooldowns,  \* per command name and user
    command_use_count        \* per command name

tracker == <<last_global_command, last_command_use, user_command_cooldowns,
             command_use_count>>

Never == -1
Time == Nat \cup {Never}

(***************************************************************************)
(* What parseCommandMetadata reads from the table a script returns.        *)
(***************************************************************************)
CommandMetadata ==
    [name : Names, aliases : SUBSET Names,
     global_cooldown : Int, command_cooldown : Int, user_cooldown : Int,
     mod_only : BOOLEAN, vip_only : BOOLEAN, subscriber_only : BOOLEAN,
     allowed_users : SUBSET Users,
     enabled : BOOLEAN, max_uses_per_stream : Int]

TrackerTypeOK ==
    /\ now \in Nat
    /\ last_global_command \in Nat
    /\ last_command_use \in [Names -> Time]
    /\ user_command_cooldowns \in [Names \X Users -> Time]
    /\ command_use_count \in [Names -> Nat]

\* A default-constructed tracker: last_global_command is the clock's epoch.
TrackerInit ==
    /\ last_global_command = 0
    /\ last_command_use = [c \in Names |-> Never]
    /\ user_command_cooldowns = [cu \in Names \X Users |-> Never]
    /\ command_use_count = [c \in Names |-> 0]

\* Faulty variants of Within: elapsed time rounded up; the boundary included.
WithinRoundedUp(t, cooldown) ==
    (now - t + TicksPerSecond - 1) \div TicksPerSecond < cooldown
WithinInclusive(t, cooldown) == (now - t) \div TicksPerSecond <= cooldown

\* duration_cast<seconds>(now - t) < cooldown
Within(t, cooldown) == (now - t) \div TicksPerSecond < cooldown

isOnCooldown(command, user, meta) ==
    \/ /\ meta.global_cooldown > 0
       /\ Within(last_global_command, meta.global_cooldown)
    \/ /\ meta.command_cooldown > 0
       /\ last_command_use[command] # Never
       /\ Within(last_command_use[command], meta.command_cooldown)
    \/ /\ meta.user_cooldown > 0
       /\ user_command_cooldowns[<<command, user>>] # Never
       /\ Within(user_command_cooldowns[<<command, user>>], meta.user_cooldown)

\* Faulty variant of recordUsage: the count goes the wrong way.
recordUsageCountsDown(command, user) ==
    /\ last_global_command' = now
    /\ last_command_use' = [last_command_use EXCEPT ![command] = now]
    /\ user_command_cooldowns' =
          [user_command_cooldowns EXCEPT ![<<command, user>>] = now]
    /\ command_use_count' = [command_use_count EXCEPT ![command] = @ - 1]

recordUsage(command, user) ==
    /\ last_global_command' = now
    /\ last_command_use' = [last_command_use EXCEPT ![command] = now]
    /\ user_command_cooldowns' =
          [user_command_cooldowns EXCEPT ![<<command, user>>] = now]
    /\ command_use_count' = [command_use_count EXCEPT ![command] = @ + 1]

\* The handler's own test of command_use_count against max_uses_per_stream.
usesExhausted(command, meta) ==
    /\ meta.max_uses_per_stream > 0
    /\ command_use_count[command] >= meta.max_uses_per_stream

(***************************************************************************)
(* LuaCommandContext's badge predicates and LuaCommandEngine::             *)
(* hasPermission: being listed in allowed_users is enough, otherwise every *)
(* level the script asks for has to be met.                                *)
(***************************************************************************)
isModerator(badges)  == badges \cap {"moderator", "broadcaster"} # {}
isVip(badges)        == badges \cap {"vip", "moderator", "broadcaster"} # {}
isSubscriber(badges) ==
    badges \cap {"subscriber", "vip", "moderator", "broadcaster"} # {}

hasPermission(user, badges, meta) ==
    \/ user \in meta.allowed_users
    \/ /\ meta.mod_only => isModerator(badges)
       /\ meta.vip_only => isVip(badges)
       /\ meta.subscriber_only => isSubscriber(badges)

\* The checks of a Lua command's handler, in the order of the code.
Checks(command, user, badges, meta) ==
    IF ~ meta.enabled THEN "disabled" ELSE
    IF ~ hasPermission(user, badges, meta) THEN "no permission" ELSE
    IF isOnCooldown(command, user, meta) THEN "on cooldown" ELSE
    IF usesExhausted(command, meta) THEN "usage limit"
    ELSE "run"
=============================================================================
