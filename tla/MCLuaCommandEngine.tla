------------------------ MODULE MCLuaCommandEngine ------------------------
(***************************************************************************)
(* Small instances of LuaCommandEngine.  Names are strings, so that case   *)
(* folding and the native names are the real ones.                         *)
(***************************************************************************)
EXTENDS LuaCommandEngine, TLC

MCNames == {"", "dice", "roll", "Dice", "reload", "commands"}
MCLower == [n \in MCNames |-> IF n = "Dice" THEN "dice" ELSE n]

\* parseCommandMetadata's defaults
Plain(name, aliases) ==
    [name |-> name, aliases |-> aliases,
     global_cooldown |-> 0, command_cooldown |-> 0, user_cooldown |-> 0,
     mod_only |-> FALSE, vip_only |-> FALSE, subscriber_only |-> FALSE,
     allowed_users |-> {}, enabled |-> TRUE, max_uses_per_stream |-> -1]

Script(meta, execute) == [meta |-> meta, execute |-> execute]

\* Limits: two versions of a command with an alias, which differ in their
\* cooldowns and in their use limit.
Dice == Script([Plain("dice", {"roll"}) EXCEPT !.user_cooldown = 2,
                  !.command_cooldown = 1, !.max_uses_per_stream = 2], "d1")
DiceGlobal == Script([Plain("dice", {"roll"}) EXCEPT !.global_cooldown = 1,
                        !.max_uses_per_stream = 1], "d2")
LimitScripts == {Dice, DiceGlobal}
LimitDisks == {[f1 |-> Dice]}

\* Reload: versions of the scripts in two files, which contest the name roll,
\* differ in case, give up an alias, and take the name of a native command.
DiceRoll   == Script([Plain("dice", {"roll"}) EXCEPT !.mod_only = TRUE], "d1")
DiceAlone  == Script([Plain("dice", {"reload"}) EXCEPT !.enabled = FALSE], "d2")
RollCommand == Script([Plain("roll", {"Dice", ""}) EXCEPT
                          !.vip_only = TRUE, !.allowed_users = {"ann"}], "r1")
ReloadScripts == {DiceRoll, DiceAlone, RollCommand}
ReloadDisks == {[f1 |-> DiceRoll, f2 |-> RollCommand]}

\* A command that may be used once per stream.
Limited == Script([Plain("dice", {}) EXCEPT !.max_uses_per_stream = 1], "d1")
StreamScripts == {Limited}
StreamDisks == {[f1 |-> Limited]}
===========================================================================
