-------------------------------- MODULE Sfx --------------------------------
(***************************************************************************)
(* The "!sfx" command: the Lua function of commands/sfx.lua, the functions *)
(* of AudioSystem it calls and the MiniaudioPlayer behind them.  One step  *)
(* per call into AudioSystem and per turn of the paging loop; the owner of *)
(* the bot can add and remove files between any two of them.               *)
(*                                                                         *)
(* A name is a sequence of characters.  FilesByStem lists every file there *)
(* can be in the order std::sort gives their stems.  The file system is    *)
(* case-sensitive.  Numbers are decimal numerals without sign or fraction. *)
(***************************************************************************)
EXTENDS Integers, Sequences, FiniteSets, Functions

CONSTANTS
    FilesByStem,          \* possible files of the sounds directory, by stem
    InitialDirs,          \* sets of files the directory may start with
    lower_char, lower_ext,\* ::tolower of characters and of extensions
    Digits,               \* digit characters -> their values
    ListWord, RandomWord, \* "list" and "random"
    Header,               \* length of "Available sounds: "
    Limit,                \* 450
    PerPage,              \* 15
    IOErrors,             \* may a directory or a file fail to be read?
    MaxEdits              \* bound on the changes of the directory

ASSUME SfxAssumption ==
    /\ {Header, Limit, MaxEdits} \subseteq Nat
    /\ PerPage \in Nat \ {0}
    /\ Header <= Limit
    /\ IOErrors \in BOOLEAN

\* A stem is never empty: that of ".mp3" is ".mp3".
ASSUME FilesAssumption ==
    /\ FilesByStem \in Seq([stem : Seq(DOMAIN lower_char) \ {<< >>},
                            ext : DOMAIN lower_ext])
    /\ InitialDirs \subseteq SUBSET Range(FilesByStem)

Files == Range(FilesByStem)
lower(name) == [i \in DOMAIN name |-> lower_char[name[i]]]

VARIABLES
    sounds_dir,     \* the files of the directory
    m_initialized,  \* MiniaudioPlayer: ma_engine_init succeeded
    engine_volume,  \* the volume of the whole engine
    started,        \* history: the sound last started, with its volume
    stage,          \* what the Lua function is doing
    args, page, sounds, index, page_sounds, current_length,  \* its locals
    sound_name, filepath,
    answers,        \* replies to the current request
    listed,         \* history: stems on pages that no edit has overtaken
    disturbed,      \* history: an edit or I/O error during this request
    edits           \* counter for the bound

disk == <<sounds_dir, edits>>
player == <<m_initialized, engine_volume, started>>
paging == <<page, sounds, index, page_sounds, current_length>>
request == <<args, paging, sound_name, filepath>>
sfx == <<disk, player, stage, request, answers, listed, disturbed>>

NoFile == [stem |-> << >>, ext |-> ""]
DefaultVolume == 70
InitialVolume == 101  \* the engine's own, no percentage asked for

SfxInit ==
    /\ sounds_dir \in InitialDirs
    /\ m_initialized \in BOOLEAN
    /\ engine_volume = InitialVolume
    /\ started = [sound |-> << >>, volume |-> InitialVolume]
    /\ stage = "idle"
    /\ args = << >> /\ page = 1 /\ sounds = << >> /\ index = 1
    /\ page_sounds = << >> /\ current_length = Header
    /\ sound_name = << >> /\ filepath = NoFile
    /\ answers = << >> /\ disturbed = FALSE /\ listed = {}
    /\ edits = 0

EditSounds(f) ==
    /\ edits < MaxEdits
    /\ edits' = edits + 1
    /\ sounds_dir' = IF f \in sounds_dir THEN sounds_dir \ {f}
                     ELSE sounds_dir \cup {f}
    /\ listed' = {}
    /\ disturbed' = (stage # "idle")
    /\ UNCHANGED <<player, stage, request, answers>>

-----------------------------------------------------------------------------
(* AudioSystem.  A missing directory is one without files.                 *)

getSupportedExtensions == <<".mp3", ".wav", ".flac", ".ogg">>

isSupportedAudioFile(f) == lower_ext[f.ext] \in Range(getSupportedExtensions)

StemsOf(files) == [i \in DOMAIN files |-> files[i].stem]

AudioFiles == {f \in sounds_dir : isSupportedAudioFile(f)}

\* The files of a set, sorted: the n-th has n - 1 of them before it.
Sorted(F) ==
    LET places == {i \in DOMAIN FilesByStem : FilesByStem[i] \in F}
        Nth(n) == CHOOSE i \in places :
                      Cardinality({j \in places : j <= i}) = n
    IN  [n \in 1..Cardinality(places) |-> FilesByStem[Nth(n)]]

listAudioFiles == StemsOf(Sorted(AudioFiles))

\* An exception of the directory iterator leaves what was read, unsorted.
PartialListings ==
    IF IOErrors
    THEN {StemsOf(s) : s \in UNION {Injection(1..n, AudioFiles) :
                                     n \in 0..Cardinality(AudioFiles)}}
    ELSE {}

\* Faulty variant of findAudioFile: only the first extension is tried.
findAudioFileFirst(name) ==
    LET candidate == [stem |-> name, ext |-> getSupportedExtensions[1]]
    IN  IF candidate \in sounds_dir THEN candidate ELSE NoFile

\* The supported extensions are tried in their order, exactly as written.
findAudioFile(name) ==
    LET candidates == [i \in 1..4 |->
                          [stem |-> name, ext |-> getSupportedExtensions[i]]]
        existing == {i \in 1..4 : candidates[i] \in sounds_dir}
        first == CHOOSE i \in existing : \A j \in existing : i <= j
    IN  IF existing = {} THEN NoFile ELSE candidates[first]

-----------------------------------------------------------------------------
(* The Lua function.                                                       *)

\* tonumber(token) or otherwise
NumberOr(token, otherwise) ==
    IF token # << >> /\ Range(token) \subseteq DOMAIN Digits
    THEN LET value[i \in 0..Len(token)] ==
                 IF i = 0 THEN 0 ELSE 10 * value[i - 1] + Digits[token[i]]
         IN  value[Len(token)]
    ELSE otherwise

Argument(n, otherwise) ==
    IF Len(args) >= n THEN NumberOr(args[n], otherwise) ELSE otherwise

volume == LET v == Argument(2, DefaultVolume) IN IF v > 100 THEN 100 ELSE v

Answer(a) ==
    /\ answers' = Append(answers, a)
    /\ stage' = "answered"

\* The handler is called with the arguments of the line.
Execute(a) ==
    /\ stage = "idle"
    /\ args' = a
    /\ IF a = << >>
       THEN Answer([kind |-> "usage"]) /\ UNCHANGED sound_name
       ELSE /\ sound_name' = lower(a[1])
            /\ stage' = IF sound_name' = ListWord THEN "listing"
                        ELSE IF sound_name' = RandomWord THEN "choosing"
                        ELSE "finding"
            /\ UNCHANGED answers
    /\ UNCHANGED <<disk, player, paging, filepath, listed, disturbed>>

\* What a call of listAudioFiles can return, and whether it failed.
Listings ==
    {[sounds |-> listAudioFiles, disturbed |-> disturbed]}
    \cup {[sounds |-> s, disturbed |-> TRUE] : s \in PartialListings}

ListSounds ==
    /\ stage = "listing"
    /\ \E l \in Listings :
          /\ sounds' = l.sounds /\ disturbed' = l.disturbed
          /\ IF l.sounds = << >>
             THEN /\ Answer([kind |-> "none"])
                  /\ UNCHANGED <<page, index>>
             ELSE /\ page' = Argument(2, 1)
                  /\ index' = (page' - 1) * PerPage + 1
                  /\ stage' = "paging"
                  /\ UNCHANGED answers
    /\ UNCHANGED <<disk, player, args, page_sounds, current_length,
                   sound_name, filepath, listed>>

\* string.len(test_addition): names are separated by ", ".
Addition(name) == Len(name) + IF page_sounds = << >> THEN 0 ELSE 2
Fits(name) == current_length + Addition(name) <= Limit

\* Faulty variant of AddToPage: the separator is not counted.
AddToPageUncounted ==
    /\ stage = "paging" /\ index \in 1..Len(sounds)
    /\ Fits(sounds[index])
    /\ page_sounds' = Append(page_sounds, sounds[index])
    /\ current_length' = current_length + Len(sounds[index])
    /\ index' = index + 1
    /\ UNCHANGED <<disk, player, stage, args, page, sounds, sound_name,
                   filepath, answers, listed, disturbed>>

AddToPage ==
    /\ stage = "paging" /\ index \in 1..Len(sounds)
    /\ Fits(sounds[index])
    /\ page_sounds' = Append(page_sounds, sounds[index])
    /\ current_length' = current_length + Addition(sounds[index])
    /\ index' = index + 1
    /\ UNCHANGED <<disk, player, stage, args, page, sounds, sound_name,
                   filepath, answers, listed, disturbed>>

\* Faulty variant of PageError: nobody looks at the result of the call.
PageErrorUnanswered ==
    /\ stage = "paging" /\ index < 1
    /\ stage' = "answered"
    /\ UNCHANGED <<disk, player, request, answers, listed, disturbed>>

\* Page 0 begins at a negative index: string.len(nil) is an error, which
\* executeLuaCommand answers.
PageError ==
    /\ stage = "paging" /\ index < 1
    /\ Answer([kind |-> "error"])
    /\ UNCHANGED <<disk, player, request, listed, disturbed>>

total_pages == (Len(sounds) + Len(page_sounds) - 1) \div Len(page_sounds)

\* The loop ends at the last sound or at one that does not fit.
FinishPage ==
    /\ stage = "paging" /\ index >= 1
    /\ index <= Len(sounds) => ~ Fits(sounds[index])
    /\ IF page_sounds = << >>
       THEN Answer([kind |-> "empty"]) /\ UNCHANGED listed
       ELSE /\ Answer([kind |-> "page", page |-> page,
                       total_pages |-> total_pages])
            /\ listed' = IF disturbed THEN listed
                         ELSE listed \cup Range(page_sounds)
    /\ UNCHANGED <<disk, player, request, disturbed>>

ChooseSound ==
    /\ stage = "choosing"
    /\ \E l \in Listings :
          /\ sounds' = l.sounds /\ disturbed' = l.disturbed
          /\ \/ /\ l.sounds = << >>
                /\ Answer([kind |-> "none"])
                /\ UNCHANGED sound_name
             \/ /\ sound_name' \in Range(l.sounds)
                /\ stage' = "finding"
                /\ UNCHANGED answers
    /\ UNCHANGED <<disk, player, args, page, index, page_sounds,
                   current_length, filepath, listed>>

FindSound ==
    /\ stage = "finding"
    /\ \/ filepath' = findAudioFile(sound_name) /\ UNCHANGED disturbed
       \/ IOErrors /\ filepath' = NoFile /\ disturbed' = TRUE
    /\ IF filepath' = NoFile
       THEN Answer([kind |-> "not found", sound |-> sound_name])
       ELSE stage' = "playing" /\ UNCHANGED answers
    /\ UNCHANGED <<disk, player, args, paging, sound_name, listed>>

\* AudioSystem::playSound: the file must still be there and the engine be
\* initialized.
Playable == filepath \in sounds_dir /\ m_initialized

\* Faulty variant of PlaySound: the volume is set before the sound starts.
PlaySoundVolumeFirst ==
    /\ stage = "playing"
    /\ engine_volume' = volume
    /\ \/ /\ Playable
          /\ started' = [sound |-> filepath.stem, volume |-> volume]
          /\ Answer([kind |-> "played", sound |-> sound_name])
          /\ UNCHANGED disturbed
       \/ /\ ~ Playable \/ IOErrors
          /\ Answer([kind |-> "failed", sound |-> sound_name])
          /\ disturbed' = (disturbed \/ Playable)
          /\ UNCHANGED started
    /\ UNCHANGED <<disk, m_initialized, request, listed>>

\* MiniaudioPlayer::playSound: the engine starts the sound, or cannot; the
\* volume, which is that of the engine and not of the sound, is set after it.
PlaySound ==
    /\ stage = "playing"
    /\ \/ /\ Playable
          /\ started' = [sound |-> filepath.stem, volume |-> volume]
          /\ engine_volume' = volume
          /\ Answer([kind |-> "played", sound |-> sound_name])
          /\ UNCHANGED disturbed
       \/ /\ ~ Playable \/ IOErrors
          /\ Answer([kind |-> "failed", sound |-> sound_name])
          /\ disturbed' = (disturbed \/ Playable)
          /\ UNCHANGED <<started, engine_volume>>
    /\ UNCHANGED <<disk, m_initialized, request, listed>>

\* The Lua function and the handler return.
Return ==
    /\ stage = "answered"
    /\ stage' = "idle"
    /\ args' = << >> /\ page' = 1 /\ sounds' = << >> /\ index' = 1
    /\ page_sounds' = << >> /\ current_length' = Header
    /\ sound_name' = << >> /\ filepath' = NoFile
    /\ answers' = << >> /\ disturbed' = FALSE
    /\ UNCHANGED <<disk, player, listed>>

SfxStep ==
    \/ ListSounds
    \/ AddToPage
    \/ PageError
    \/ FinishPage
    \/ ChooseSound
    \/ FindSound
    \/ PlaySound

-----------------------------------------------------------------------------
(***************************************************************************)
(* What a page shows: the sounds from number (page - 1) * PerPage + 1 on,  *)
(* without a gap, as many as fit into Limit characters with what separates *)
(* them, and not one fewer.  (sfx.lua: "stay under 500 characters, don't   *)
(* cut words".)                                                            *)
(***************************************************************************)
PageStart == (page - 1) * PerPage + 1

\* The characters of the names from one number to another.
Characters(names, from, to) ==
    UNION {{i} \X DOMAIN names[i] : i \in from..to}

\* The length of a page of k names.
PageLength(names, from, k) ==
    Header + 2 * (k - 1) + Cardinality(Characters(names, from, from + k - 1))

IsFullPage(shown, names, from) ==
    LET k == Len(shown)
    IN  /\ shown = SubSeq(names, from, from + k - 1)
        /\ PageLength(names, from, k) <= Limit
        /\ \/ from + k - 1 = Len(names)
           \/ PageLength(names, from, k + 1) > Limit

PageIsFull ==
    \A i \in DOMAIN answers :
        answers[i].kind = "page" =>
            IsFullPage(page_sounds, sounds, PageStart)

(***************************************************************************)
(* An answer that names a sound as played is given only when the engine    *)
(* has started the file of that name; and the engine has the volume of the *)
(* sound started last, which a later request that fails (the file is gone, *)
(* or cannot be decoded) does not turn up or down.                         *)
(***************************************************************************)
PlayedAsAnswered ==
    /\ engine_volume = started.volume
    /\ \A i \in DOMAIN answers :
          answers[i].kind = "played" =>
              started = [sound |-> answers[i].sound, volume |-> volume]

(***************************************************************************)
(* Somebody who leafs through the pages up to the number of pages that the *)
(* answers give has seen every sound: the last page ends with the last     *)
(* sound.  (sfx.lua: the start of a page is a "Rough estimate, we'll       *)
(* adjust dynamically".)                                                   *)
(***************************************************************************)
LastPageEndsTheList ==
    \A i \in DOMAIN answers :
        answers[i].kind = "page" /\ answers[i].page = answers[i].total_pages
            => page_sounds[Len(page_sounds)] = sounds[Len(sounds)]
=============================================================================
