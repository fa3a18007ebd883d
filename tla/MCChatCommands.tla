--------------------------- MODULE MCChatCommands ---------------------------
(* Instances of ChatCommands for TLC.                                      *)
EXTENDS ChatCommands, SequencesExt

File(stem, ext) == [stem |-> stem, ext |-> ext]

Numerals == <<"0", "1", "2", "3", "4", "5", "6", "7", "8", "9">>
MCLetters == {"s", "l", "r", "x", "b", "B"} \cup ToSet(Numerals)
MCQuote == "\""
MCBackslash == "\\"
MCSpecial == {"!", " ", "\"", "\\"}
MCLower == [c \in MCLetters \cup MCSpecial |-> IF c = "B" THEN "b" ELSE c]
MCLowerExt == [e \in {".mp3", ".wav", ".ogg", ".MP3", ".txt"} |->
                  IF e = ".MP3" THEN ".mp3" ELSE e]
MCDigits == [c \in ToSet(Numerals) |->
                (CHOOSE i \in 1..10 : Numerals[i] = c) - 1]

\* Two files of one name, a name with a space, a name and an extension in
\* upper case, and a file that is no sound.
MCFiles == <<File(<<"B">>, ".MP3"), File(<<"b">>, ".mp3"),
             File(<<"b">>, ".ogg"), File(<<"b", " ", "b">>, ".wav"),
             File(<<"x">>, ".txt")>>
MCDirs == {{MCFiles[i] : i \in 3..4}}

\* Lines that make the command do each of the things it can do, and one
\* that is none of its business.
MCTexts ==
    {<<"!", "s", " ">> \o t :
            t \in {<<"l">>, <<"l", " ", "0">>, <<"l", " ", "2">>, <<"r">>,
                   <<"b", " ", "2", "0", "0">>, <<"\"", "b", "\"">>,
                   <<"\"", "b", " ", "b", "\"">>}}
    \cup {<<"!", "s", "b", " ", "\"", "b", "\"">>, <<"!", "x", " ", "b">>}
\* The first line can be any that begins with "!s" up to a length.
MCFirstTexts ==
    MCTexts \cup {<<"s">>, <<"!">>, <<"!", " ", "s">>,
                  <<"!", "s", " ", "l", " ", "1", "0">>,
                  <<"!", "s", " ", "l", " ", "b">>}
    \cup {<<"!", "s">> \o t : t \in BoundedSeq({" ", "\"", "\\", "b"}, 4)}

From(users, texts) ==
    {[text |-> t, user |-> u, badges |-> {}] : t \in texts, u \in users}
MCLines == From({"ann", "bob"}, MCTexts)
MCFirstLines == From({"ann"}, MCFirstTexts)

MCNames == {<<"s">>, <<"s", "b">>}
MCRules ==
    [name |-> <<"s">>, aliases |-> {<<"s", "b">>},
     global_cooldown |-> 0, command_cooldown |-> 1, user_cooldown |-> 3,
     mod_only |-> FALSE, vip_only |-> FALSE, subscriber_only |-> FALSE,
     allowed_users |-> {}, enabled |-> TRUE, max_uses_per_stream |-> -1]
MCList == <<"l">>
MCRandom == <<"r">>

-----------------------------------------------------------------------------
(* Sixty sounds with names of eight characters, and the constants of the   *)
(* script.                                                                 *)
ManyFiles == [i \in 1..60 |->
                 File(<<Numerals[(i \div 10) + 1], Numerals[(i % 10) + 1],
                        "b", "b", "b", "b", "b", "b">>, ".mp3")]
ManyDirs == {{ManyFiles[i] : i \in 1..60}}
ManyLines == From({"ann"},
    {<<"!", "s", " ", "l">>, <<"!", "s", " ", "l", " ", "2">>})
=============================================================================
