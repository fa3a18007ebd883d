------------------------ MODULE ChatCommands_proofs ------------------------
(***************************************************************************)
(* Proofs about ChatCommands, for every directory, line and bound: what is *)
(* answered is what plays, lines are split into their words, pages are     *)
(* full, and what a page lists can be played by typing its name.           *)
(***************************************************************************)
EXTENDS ChatCommands, CommandParser_proofs, NaturalsInduction,
        WellFoundedInduction

\* Induction, in the form of a least element.
LEMMA Least ==
    ASSUME NEW T \in SUBSET Nat, T # {}
    PROVE  \E x \in T : \A y \in T : x <= y
<1>1. IsWellFoundedOn(OpToRel(<, Nat), Nat)
    BY NatLessThanWellFounded, Zenon
<1>2. PICK x \in T : \A y \in T : <<y, x>> \notin OpToRel(<, Nat)
    BY <1>1, WFMin, Zenon
<1>3. \A y \in T : ~ (y < x)
    BY <1>2, Zenon DEF OpToRel
<1> QED  BY <1>3

(***************************************************************************)
(* A request is answered only when it is over, the file that is going to   *)
(* be played is the one that was asked for, and the engine has the volume  *)
(* of what it started last.                                                *)
(***************************************************************************)
PlayInv ==
    /\ stage # "answered" => answers = << >>
    /\ stage = "playing" => filepath.stem = sound_name
    /\ PlayedAsAnswered

\* PlayInv is about these variables.
LEMMA PlayFrame ==
    ASSUME PlayInv,
           UNCHANGED <<stage, answers, filepath, sound_name, engine_volume,
                       started, args>>
    PROVE  PlayInv'
BY DEF PlayInv, PlayedAsAnswered, volume, Argument

\* A first answer that is not about a sound that was played.
LEMMA OtherAnswer ==
    ASSUME PlayInv, stage # "answered", NEW a,
           a.kind # "played", Answer(a),
           UNCHANGED <<engine_volume, started>>
    PROVE  PlayInv'
<1>1. answers' = <<a>> /\ stage' = "answered"
    BY DEF PlayInv, Answer
<1>2. DOMAIN answers' = {1} /\ answers'[1] = a
    BY <1>1
<1> QED
    BY <1>1, <1>2, Zenon DEF PlayInv, PlayedAsAnswered

\* The request goes on: no answer yet, and no change of the engine.
LEMMA NoAnswer ==
    ASSUME PlayInv, stage # "answered", stage' # "answered",
           stage' = "playing" => filepath'.stem = sound_name',
           UNCHANGED <<answers, engine_volume, started>>
    PROVE  PlayInv'
<1>1. answers' = << >>
    BY Zenon DEF PlayInv
<1>2. DOMAIN answers' = {}
    BY <1>1
<1> QED
    BY <1>1, <1>2, Zenon DEF PlayInv, PlayedAsAnswered

\* findAudioFile returns a file of the name it is given, or none.
LEMMA FoundByName ==
    ASSUME NEW name, findAudioFile(name) # NoFile
    PROVE  /\ findAudioFile(name).stem = name
           /\ findAudioFile(name) \in sounds_dir
<1> DEFINE candidates == [i \in 1..4 |->
                             [stem |-> name, ext |-> getSupportedExtensions[i]]]
           existing == {i \in 1..4 : candidates[i] \in sounds_dir}
           first == CHOOSE i \in existing : \A j \in existing : i <= j
<1>1. existing # {} /\ findAudioFile(name) = candidates[first]
    BY Zenon DEF findAudioFile
<1>2. first \in existing
    <2>1. \E x \in existing : \A y \in existing : x <= y
        <3>1. existing \in SUBSET Nat
            OBVIOUS
        <3> HIDE DEF existing
        <3> QED  BY <1>1, <3>1, Least, Zenon
    <2> HIDE DEF existing
    <2> QED  BY <2>1, Zenon
<1>3. first \in 1..4 /\ candidates[first] \in sounds_dir
    BY <1>2, Zenon
<1>4. candidates[first].stem = name
    BY <1>3, Zenon
<1> QED  BY <1>1, <1>3, <1>4, Zenon

-----------------------------------------------------------------------------
\* The function is called: usage, or one of its three branches.
LEMMA ExecuteStep ==
    ASSUME PlayInv, NEW a, Execute(a)
    PROVE  PlayInv'
<1>1. stage = "idle" /\ UNCHANGED <<engine_volume, started>>
    BY Zenon DEF Execute, player
<1>2. CASE a = << >>
    BY <1>1, <1>2, OtherAnswer, Zenon DEF Execute
<1>3. CASE a # << >>
    <2>1. stage' \in {"listing", "choosing", "finding"} /\ answers' = answers
        BY <1>3, Zenon DEF Execute
    <2> QED  BY <1>1, <2>1, NoAnswer, Zenon
<1> QED  BY <1>2, <1>3, Zenon

\* What the handler's checks can come to.
LEMMA Verdicts ==
    verdict \in {"disabled", "no permission", "on cooldown", "usage limit",
                "run"}
BY Zenon DEF verdict, Checks

\* A refusal is one answer, and no sound.
LEMMA RefuseStep ==
    ASSUME PlayInv, Refuse
    PROVE  PlayInv'
<1> DEFINE a == [kind |-> verdict, at |-> now]
<1>1. stage # "answered" /\ Answer(a) /\ UNCHANGED <<engine_volume, started>>
    BY Zenon DEF Refuse, player
<1>2. a.kind # "played"
    BY Verdicts, Zenon
<1> HIDE DEF a
<1> QED  BY <1>1, <1>2, OtherAnswer, Zenon

\* The list is read, or there is none.
LEMMA ListSoundsStep ==
    ASSUME PlayInv, ListSounds
    PROVE  PlayInv'
<1>1. stage = "listing" /\ UNCHANGED <<engine_volume, started>>
    BY Zenon DEF ListSounds, player
<1>2. \/ Answer([kind |-> "none"])
      \/ stage' = "paging" /\ answers' = answers
    BY Zenon DEF ListSounds
<1> QED  BY <1>1, <1>2, OtherAnswer, NoAnswer, Zenon

\* A page gets one sound more.
LEMMA AddToPageStep ==
    ASSUME PlayInv, AddToPage
    PROVE  PlayInv'
BY PlayFrame, Zenon DEF AddToPage, player

\* A page before the first is an error.
LEMMA PageErrorStep ==
    ASSUME PlayInv, PageError
    PROVE  PlayInv'
<1>1. /\ stage = "paging" /\ Answer([kind |-> "error"])
      /\ UNCHANGED <<engine_volume, started>>
    BY Zenon DEF PageError, player
<1> QED  BY <1>1, OtherAnswer, Zenon

\* A page is shown, or there is nothing on it.
LEMMA FinishPageStep ==
    ASSUME PlayInv, FinishPage
    PROVE  PlayInv'
<1>1. stage = "paging" /\ UNCHANGED <<engine_volume, started>>
    BY Zenon DEF FinishPage, player
<1>2. \/ Answer([kind |-> "empty"])
      \/ Answer([kind |-> "page", page |-> page, total_pages |-> total_pages])
    BY Zenon DEF FinishPage
<1> QED  BY <1>1, <1>2, OtherAnswer, Zenon

\* A sound is chosen, or there is none.
LEMMA ChooseSoundStep ==
    ASSUME PlayInv, ChooseSound
    PROVE  PlayInv'
<1>1. stage = "choosing" /\ UNCHANGED <<engine_volume, started>>
    BY Zenon DEF ChooseSound, player
<1>2. \/ Answer([kind |-> "none"])
      \/ stage' = "finding" /\ answers' = answers
    BY Zenon DEF ChooseSound
<1> QED  BY <1>1, <1>2, OtherAnswer, NoAnswer, Zenon

\* The file is found under the name that was asked for, or is not.
LEMMA FindSoundStep ==
    ASSUME PlayInv, FindSound
    PROVE  PlayInv'
<1>1. /\ stage = "finding" /\ UNCHANGED <<engine_volume, started, sound_name>>
      /\ filepath' \in {findAudioFile(sound_name), NoFile}
    BY Zenon DEF FindSound, player
<1>2. CASE filepath' = NoFile
    <2>1. Answer([kind |-> "not found", sound |-> sound_name])
        BY <1>2, Zenon DEF FindSound
    <2> QED  BY <1>1, <2>1, OtherAnswer, Zenon
<1>3. CASE filepath' # NoFile
    <2>1. stage' = "playing" /\ answers' = answers
        BY <1>3, Zenon DEF FindSound
    <2>2. filepath'.stem = sound_name'
        BY <1>1, <1>3, FoundByName, Zenon
    <2> QED  BY <1>1, <2>1, <2>2, NoAnswer, Zenon
<1> QED  BY <1>2, <1>3, Zenon

\* The answer and the engine agree about what has been started.
LEMMA PlaySoundStep ==
    ASSUME PlayInv, PlaySound
    PROVE  PlayInv'
<1>1. stage = "playing" /\ UNCHANGED <<args, sound_name>>
    BY Zenon DEF PlaySound, request
<1>2. CASE /\ Answer([kind |-> "failed", sound |-> sound_name])
           /\ UNCHANGED <<started, engine_volume>>
    BY <1>1, <1>2, OtherAnswer, Zenon
<1>3. CASE /\ Answer([kind |-> "played", sound |-> sound_name])
           /\ started' = [sound |-> filepath.stem, volume |-> volume]
           /\ engine_volume' = volume
    <2>1. /\ answers' = <<[kind |-> "played", sound |-> sound_name]>>
          /\ stage' = "answered" /\ filepath.stem = sound_name
        BY <1>1, <1>3 DEF PlayInv, Answer
    <2>2. /\ DOMAIN answers' = {1}
          /\ answers'[1] = [kind |-> "played", sound |-> sound_name]
        BY <2>1
    <2>3. volume' = volume
        BY <1>1, Zenon DEF volume, Argument
    <2>4. PlayedAsAnswered'
        BY <1>3, <2>1, <2>2, <2>3 DEF PlayedAsAnswered
    <2> QED  BY <2>1, <2>4, Zenon DEF PlayInv
<1> QED  BY <1>2, <1>3, Zenon DEF PlaySound

\* The function returns; the engine goes on.
LEMMA ReturnStep ==
    ASSUME PlayInv, Return
    PROVE  PlayInv'
<1>1. /\ answers' = << >> /\ stage' = "idle"
      /\ UNCHANGED <<engine_volume, started>>
    BY Zenon DEF Return, player
<1>2. DOMAIN answers' = {}
    BY <1>1
<1> QED
    BY <1>1, <1>2, Zenon DEF PlayInv, PlayedAsAnswered

(***************************************************************************)
(* "Playing" is answered only when MiniaudioPlayer has started the file of *)
(* that name with the volume asked for, for every directory, every line    *)
(* and any edits of the directory while the command runs.                  *)
(***************************************************************************)
THEOREM AnswersTellWhatPlays == Spec => []PlayedAsAnswered
<1>1. Init => PlayInv
    <2> SUFFICES ASSUME Init PROVE PlayInv
        BY Zenon
    <2>1. /\ answers = << >> /\ stage = "idle" /\ engine_volume = InitialVolume
          /\ started = [sound |-> << >>, volume |-> InitialVolume]
        BY Zenon DEF Init, SfxInit
    <2>2. DOMAIN answers = {}
        BY <2>1
    <2> QED  BY <2>1, <2>2, Zenon DEF PlayInv, PlayedAsAnswered
<1>2. PlayInv /\ [Next]_vars => PlayInv'
    <2> SUFFICES ASSUME PlayInv, [Next]_vars PROVE PlayInv'
        BY Zenon
    <2>1. CASE UNCHANGED sfx
        BY <2>1, PlayFrame, Zenon DEF sfx, player, request
    <2>2. CASE Tick \/ \E m : ReceiveLine(m)
        BY <2>1, <2>2, Zenon DEF Tick, ReceiveLine
    <2>3. CASE Tokenize
        BY <2>1, <2>3, Zenon DEF Tokenize
    <2>4. CASE Dispatch
        BY <2>1, <2>4, ExecuteStep, RefuseStep, Zenon DEF Dispatch
    <2>5. CASE RunSfx
        BY Zenon, <2>5, ListSoundsStep, AddToPageStep, PageErrorStep,
           FinishPageStep,
           ChooseSoundStep, FindSoundStep, PlaySoundStep
        DEF RunSfx, SfxStep
    <2>6. CASE ReturnToLoop
        BY <2>6, ReturnStep, Zenon DEF ReturnToLoop
    <2>7. CASE \E f \in Files : Edit(f)
        BY <2>7, PlayFrame, Zenon DEF Edit, EditSounds, player, request
    <2>8. CASE UNCHANGED vars
        BY <2>1, <2>8, Zenon DEF vars
    <2> QED
        BY <2>2, <2>3, <2>4, <2>5, <2>6, <2>7, <2>8, Zenon DEF Next
<1>3. PlayInv => PlayedAsAnswered
    BY Zenon DEF PlayInv
<1> QED  BY <1>1, <1>2, <1>3, PTL DEF Spec

-----------------------------------------------------------------------------
(***************************************************************************)
(* The tokens a line is dispatched with are its words, in the sense of the *)
(* definition that does not read it from left to right: for every line,    *)
(* however its quotes and backslashes are placed.                          *)
(***************************************************************************)
THEOREM LinesAreSplitIntoWords == Spec => []TokensAreWords
<1>1. Init => TokenInv
  BY TokenStart, Zenon DEF Init
<1>2. TokenInv /\ [Next]_vars => TokenInv'
  <2> SUFFICES ASSUME TokenInv, [Next]_vars PROVE TokenInv'
    BY Zenon
  <2>1. ASSUME NEW m \in FirstLines \cup Lines, ReceiveLine(m) PROVE TokenInv'
    <3>1. m.text \in Text
      BY LinesAssumption DEF Text
    <3> QED
      BY <2>1, <3>1, TokenReceive, Zenon DEF ReceiveLine
  <2>2. CASE Tokenize
    BY <2>2, TokenScan, Zenon DEF Tokenize
  <2>3. CASE Dispatch
    BY <2>3, TokenFrame, Zenon DEF Dispatch
  <2>4. CASE RunSfx
    BY <2>4, TokenFrame, Zenon DEF RunSfx
  <2>5. CASE ReturnToLoop
    BY <2>5, TokenFrame, Zenon DEF ReturnToLoop
  <2>6. ASSUME NEW f \in Files, Edit(f) PROVE TokenInv'
    BY <2>6, TokenFrame, Zenon DEF Edit
  <2>7. CASE Tick \/ UNCHANGED vars
    BY <2>7, TokenFrame, Zenon DEF Tick, vars
  <2> QED
    BY <2>1, <2>2, <2>3, <2>4, <2>5, <2>6, <2>7, Zenon DEF Next
<1>3. TokenInv => TokensAreWords
  BY Zenon DEF TokenInv
<1> QED
  BY <1>1, <1>2, <1>3, PTL DEF Spec

-----------------------------------------------------------------------------
(***************************************************************************)
(* Listings.  The n-th file of a sorted set exists because there is a      *)
(* least place up to which n files of the set have been passed.            *)
(***************************************************************************)
Strings == Seq(DOMAIN lower_char)

\* The members of a set of places up to m.
UpTo(I, m) == {j \in I : j <= m}

\* One place more.
LEMMA UpToNext ==
    ASSUME NEW I \in SUBSET Nat, IsFiniteSet(I), NEW m \in Nat
    PROVE  /\ Cardinality(UpTo(I, m)) \in Nat
           /\ m + 1 \in I => Cardinality(UpTo(I, m + 1)) =
                                 Cardinality(UpTo(I, m)) + 1
           /\ m + 1 \notin I => Cardinality(UpTo(I, m + 1)) =
                                    Cardinality(UpTo(I, m))
<1>1. UpTo(I, m) \in SUBSET I
    BY Zenon DEF UpTo
<1>2. IsFiniteSet(UpTo(I, m)) /\ Cardinality(UpTo(I, m)) \in Nat
    BY <1>1, FS_Subset, FS_CardinalityType, Zenon
<1>3. \A j \in I : j <= m + 1 <=> j <= m \/ j = m + 1
    OBVIOUS
<1>4. ASSUME m + 1 \in I
      PROVE  Cardinality(UpTo(I, m + 1)) = Cardinality(UpTo(I, m)) + 1
    <2>1. UpTo(I, m + 1) = UpTo(I, m) \cup {m + 1}
        BY <1>3, <1>4, Zenon DEF UpTo
    <2>2. m + 1 \notin UpTo(I, m)
        BY DEF UpTo
    <2> QED  BY <1>2, <2>1, <2>2, FS_AddElement, Zenon
<1>5. ASSUME m + 1 \notin I
      PROVE  Cardinality(UpTo(I, m + 1)) = Cardinality(UpTo(I, m))
    <2>1. UpTo(I, m + 1) = UpTo(I, m)
        BY <1>3, <1>5, Zenon DEF UpTo
    <2> QED  BY <2>1, Zenon
<1> QED  BY <1>2, <1>4, <1>5, Zenon

\* The n-th element of a set of places.
LEMMA NthPlace ==
    ASSUME NEW N \in Nat, NEW I \in SUBSET (1..N),
           NEW n \in 1..Cardinality(I)
    PROVE  \E i \in I : Cardinality(UpTo(I, i)) = n
<1>1. I \in SUBSET Nat /\ IsFiniteSet(I) /\ Cardinality(I) \in Nat
    <2>1. IsFiniteSet(1..N)
        BY FS_Interval
    <2>2. IsFiniteSet(I) /\ Cardinality(I) \in Nat
        BY <2>1, FS_Subset, FS_CardinalityType, Zenon
    <2> QED  BY <2>2
<1>2. UpTo(I, N) = I /\ Cardinality(UpTo(I, 0)) = 0
    <2>1. \A j \in I : j <= N /\ ~ (j <= 0)
        OBVIOUS
    <2>2. UpTo(I, N) = I /\ UpTo(I, 0) = {}
        BY <2>1, Zenon DEF UpTo
    <2> QED  BY <2>2, FS_EmptySet, Zenon
<1>3. \A k \in Nat :
          /\ Cardinality(UpTo(I, k)) \in Nat
          /\ k + 1 \in I => Cardinality(UpTo(I, k + 1)) =
                                Cardinality(UpTo(I, k)) + 1
          /\ k + 1 \notin I => Cardinality(UpTo(I, k + 1)) =
                                   Cardinality(UpTo(I, k))
    BY <1>1, UpToNext, Zenon
<1>4. n \in Nat /\ 1 <= n /\ n <= Cardinality(I)
    BY <1>1
<1> DEFINE T == {m \in Nat : Cardinality(UpTo(I, m)) >= n}
<1>5. N \in T /\ T \in SUBSET Nat
    BY <1>1, <1>2, <1>4, Zenon
<1>6. PICK m \in T : \A y \in T : m <= y
    <2> HIDE DEF T
    <2> QED  BY <1>5, Least, Zenon
<1>7. m \in Nat /\ Cardinality(UpTo(I, m)) >= n
    BY Zenon
<1>8. m # 0
    BY <1>2, <1>4, <1>7
<1>9. PICK k \in Nat : m = k + 1
    <2>1. m - 1 \in Nat /\ m = (m - 1) + 1
        BY <1>7, <1>8
    <2> QED  BY <2>1, Zenon
<1>10. ~ (Cardinality(UpTo(I, k)) >= n)
    BY <1>6, <1>7, <1>9
<1>11. m \in I
    BY <1>3, <1>7, <1>9, <1>10, Zenon
<1>12. Cardinality(UpTo(I, m)) = Cardinality(UpTo(I, k)) + 1
    BY <1>3, <1>9, <1>11, Zenon
<1>13. Cardinality(UpTo(I, k)) \in Nat
    BY <1>3, Zenon
<1>14. Cardinality(UpTo(I, m)) = n
    BY <1>4, <1>7, <1>10, <1>12, <1>13
<1> QED  BY <1>11, <1>14, Zenon

\* The files there can be have names, and are finitely many.
LEMMA FileTypes ==
    /\ Len(FilesByStem) \in Nat /\ DOMAIN FilesByStem = 1..Len(FilesByStem)
    /\ \A f \in Files : f.stem \in Strings /\ f.stem # << >>
    /\ IsFiniteSet(Files)
<1>1. /\ Len(FilesByStem) \in Nat
      /\ DOMAIN FilesByStem = 1..Len(FilesByStem)
      /\ FilesByStem \in [1..Len(FilesByStem) -> Files]
    BY FilesAssumption DEF Files, Range
<1>2. \A f \in Files : f.stem \in Strings /\ f.stem # << >>
    <2> DEFINE File == [stem : Strings \ {<< >>}, ext : DOMAIN lower_ext]
    <2>1. FilesByStem \in Seq(File)
        BY FilesAssumption, Zenon DEF Strings
    <2>2. \A f \in Files : f \in File
        <3> HIDE DEF File
        <3>1. \A i \in DOMAIN FilesByStem : FilesByStem[i] \in File
            BY <2>1
        <3> QED  BY <3>1, Zenon DEF Files, Range
    <2> QED  BY <2>2, Zenon
<1>3. FilesByStem \in Surjection(1..Len(FilesByStem), Files)
    BY <1>1, Zenon DEF Surjection, Files, Range
<1>4. IsFiniteSet(Files)
    BY <1>1, <1>3, FS_Interval, FS_Surjection DEF ExistsSurjection
<1> QED  BY <1>1, <1>2, <1>4, Zenon

\* A set of files, sorted, is a sequence of its members.
LEMMA SortedTypes ==
    ASSUME NEW F \in SUBSET Files
    PROVE  Sorted(F) \in Seq(F)
<1> DEFINE places == {i \in DOMAIN FilesByStem : FilesByStem[i] \in F}
           Nth(n) == CHOOSE i \in places : Cardinality(UpTo(places, i)) = n
<1>1. places \in SUBSET (1..Len(FilesByStem)) /\ Len(FilesByStem) \in Nat
    BY FileTypes, Zenon
<1>2. Cardinality(places) \in Nat
    <2>1. IsFiniteSet(1..Len(FilesByStem))
        BY <1>1, FS_Interval
    <2> QED  BY <1>1, <2>1, FS_Subset, FS_CardinalityType, Zenon
<1>3. ASSUME NEW n \in 1..Cardinality(places)
      PROVE  FilesByStem[Nth(n)] \in F
    <2>1. \E i \in places : Cardinality(UpTo(places, i)) = n
        <3> HIDE DEF places
        <3> QED  BY <1>1, NthPlace, Zenon
    <2>2. Nth(n) \in places
        BY <2>1, Zenon
    <2> QED  BY <2>2, Zenon
<1>4. Sorted(F) = [n \in 1..Cardinality(places) |-> FilesByStem[Nth(n)]]
    BY Zenon DEF Sorted, UpTo
<1> HIDE DEF places, Nth
<1> QED  BY <1>2, <1>3, <1>4

\* Whatever a call of listAudioFiles returns are names of sounds.
LEMMA ListingTypes ==
    ASSUME sounds_dir \subseteq Files, NEW l \in Listings
    PROVE  /\ l.sounds \in Seq(Strings)
           /\ \A i \in DOMAIN l.sounds :
                 \E f \in AudioFiles : f.stem = l.sounds[i]
<1>1. AudioFiles \in SUBSET Files
    BY Zenon DEF AudioFiles
<1>2. ASSUME NEW s \in Seq(AudioFiles)
      PROVE  /\ StemsOf(s) \in Seq(Strings)
             /\ \A i \in DOMAIN StemsOf(s) :
                   \E f \in AudioFiles : f.stem = StemsOf(s)[i]
    <2>1. \A i \in DOMAIN s : s[i] \in AudioFiles /\ s[i].stem \in Strings
        BY <1>1, <1>2, FileTypes
    <2>2. StemsOf(s) = [i \in DOMAIN s |-> s[i].stem]
        BY Zenon DEF StemsOf
    <2>3. DOMAIN s = 1..Len(s) /\ Len(s) \in Nat
        BY <1>2
    <2>4. StemsOf(s) \in Seq(Strings)
        BY <2>1, <2>2, <2>3
    <2>5. \A i \in DOMAIN StemsOf(s) : i \in DOMAIN s /\ StemsOf(s)[i] = s[i].stem
        BY <2>2, Zenon
    <2> QED  BY <2>1, <2>4, <2>5, Zenon
<1>3. Sorted(AudioFiles) \in Seq(AudioFiles)
    BY <1>1, SortedTypes, Zenon
<1>4. ASSUME NEW n \in 0..Cardinality(AudioFiles),
             NEW s \in Injection(1..n, AudioFiles)
      PROVE  s \in Seq(AudioFiles)
    <2>1. Cardinality(AudioFiles) \in Nat
        BY <1>1, FileTypes, FS_Subset, FS_CardinalityType, Zenon
    <2>2. n \in Nat
        BY <2>1
    <2>3. s \in [1..n -> AudioFiles]
        BY Zenon DEF Injection
    <2> QED  BY <2>2, <2>3
<1>5. \E s \in Seq(AudioFiles) : l.sounds = StemsOf(s)
    <2>1. CASE l = [sounds |-> listAudioFiles, disturbed |-> disturbed]
        <3>1. l.sounds = StemsOf(Sorted(AudioFiles))
            BY <2>1, Zenon DEF listAudioFiles
        <3> QED  BY <1>3, <3>1, Zenon
    <2>2. ASSUME NEW s \in PartialListings,
                 l = [sounds |-> s, disturbed |-> TRUE]
          PROVE  \E q \in Seq(AudioFiles) : l.sounds = StemsOf(q)
        <3>1. l.sounds = s
            BY <2>2, Zenon
        <3>2. PICK n \in 0..Cardinality(AudioFiles) :
                  \E q \in Injection(1..n, AudioFiles) : s = StemsOf(q)
            BY Zenon DEF PartialListings
        <3> QED  BY <1>4, <3>1, <3>2, Zenon
    <2> QED  BY <2>1, <2>2, Zenon DEF Listings
<1> QED  BY <1>2, <1>5, Zenon

-----------------------------------------------------------------------------
(***************************************************************************)
(* Pages.  What the loop has put on the page so far are the names from the *)
(* start of the page up to index, and current_length is their length.      *)
(***************************************************************************)
PageSoFar(names, from, idx, shown, len) ==
    IF shown = << >> THEN len = Header /\ idx = from
    ELSE /\ from \in 1..Len(names) /\ idx \in 1..(Len(names) + 1)
         /\ Len(shown) = idx - from
         /\ shown = SubSeq(names, from, idx - 1)
         /\ IsFiniteSet(Characters(names, from, idx - 1))
         /\ len = PageLength(names, from, Len(shown)) /\ len <= Limit

\* One name more has its own characters more.
LEMMA CharactersNext ==
    ASSUME NEW names \in Seq(Strings), NEW from \in 1..Len(names),
           NEW idx \in 1..Len(names), from <= idx,
           IsFiniteSet(Characters(names, from, idx - 1))
    PROVE  /\ IsFiniteSet(Characters(names, from, idx))
           /\ Cardinality(Characters(names, from, idx - 1)) \in Nat
           /\ Len(names[idx]) \in Nat
           /\ Cardinality(Characters(names, from, idx)) =
                  Cardinality(Characters(names, from, idx - 1))
                  + Len(names[idx])
<1> DEFINE old == Characters(names, from, idx - 1)
           new == {idx} \X DOMAIN names[idx]
<1>1. names[idx] \in Strings
    OBVIOUS
<1>2. Len(names[idx]) \in Nat /\ DOMAIN names[idx] = 1..Len(names[idx])
    BY <1>1 DEF Strings
<1>3. \A i : i \in from..idx <=> i \in from..(idx - 1) \/ i = idx
    OBVIOUS
<1>4. Characters(names, from, idx) = old \cup new
    BY <1>3, Zenon DEF Characters
<1>5. old \cap new = {}
    <2>1. SUFFICES ASSUME NEW x \in old, x \in new PROVE FALSE
        BY Zenon
    <2>2. PICK i \in from..(idx - 1) : x \in {i} \X DOMAIN names[i]
        BY Zenon DEF Characters
    <2>3. x[1] = i /\ x[1] = idx
        BY <2>1, <2>2, Zenon
    <2> QED  BY <2>2, <2>3
<1>6. IsFiniteSet(new) /\ Cardinality(new) = Len(names[idx])
    <2> DEFINE n == Len(names[idx])
    <2>1. IsFiniteSet({idx}) /\ Cardinality({idx}) = 1
        BY FS_Singleton, Zenon
    <2>2. IsFiniteSet(1..n) /\ Cardinality(1..n) = n
        <3>1. 1 \in Int /\ n \in Int
            BY <1>2
        <3>2. /\ IsFiniteSet(1..n)
              /\ Cardinality(1..n) = IF 1 > n THEN 0 ELSE n - 1 + 1
            BY <3>1, FS_Interval, Zenon
        <3> HIDE DEF n
        <3> QED  BY <1>2, <3>2 DEF n
    <2>3. /\ IsFiniteSet({idx} \X (1..n))
          /\ Cardinality({idx} \X (1..n)) =
                 Cardinality({idx}) * Cardinality(1..n)
        BY <2>1, <2>2, FS_Product, Zenon
    <2>4. new = {idx} \X (1..n)
        BY <1>2, Zenon
    <2>5. 1 * n = n
        BY <1>2
    <2> HIDE DEF n, new
    <2> QED  BY <2>1, <2>2, <2>3, <2>4, <2>5, Zenon DEF n
<1>7. /\ IsFiniteSet(old \cup new)
      /\ Cardinality(old \cup new) =
             Cardinality(old) + Cardinality(new) - Cardinality(old \cap new)
    <2>1. IsFiniteSet(old) /\ IsFiniteSet(new)
        BY <1>6, Zenon
    <2> HIDE DEF old, new
    <2> QED  BY <2>1, FS_Union, Zenon
<1>8. Cardinality(old) \in Nat /\ Cardinality({}) = 0
    BY FS_CardinalityType, FS_EmptySet, Zenon
<1>9. /\ IsFiniteSet(Characters(names, from, idx))
      /\ Cardinality(Characters(names, from, idx)) =
             Cardinality(old) + Len(names[idx]) - 0
    <2> HIDE DEF old, new
    <2> QED  BY <1>4, <1>5, <1>6, <1>7, <1>8, Zenon
<1> QED  BY <1>2, <1>8, <1>9

\* What the page of that length is with the next name on it.
PageWith(names, from, idx, shown, len) ==
    /\ Append(shown, names[idx]) \in Seq(Strings)
    /\ len = PageLength(names, from, Len(shown) + 1)
    /\ len <= Limit =>
           PageSoFar(names, from, idx + 1, Append(shown, names[idx]), len)

\* A name that fits is put on the page.
LEMMA PageGrows ==
    ASSUME NEW names \in Seq(Strings), NEW from, NEW idx \in 1..Len(names),
           NEW shown \in Seq(Strings), NEW len \in Nat, NEW more \in Nat,
           PageSoFar(names, from, idx, shown, len),
           more = Len(names[idx]) + IF shown = << >> THEN 0 ELSE 2
    PROVE  PageWith(names, from, idx, shown, len + more)
<1> DEFINE longer == Append(shown, names[idx])
<1>1. /\ from \in 1..Len(names) /\ from <= idx /\ Len(shown) = idx - from
      /\ IsFiniteSet(Characters(names, from, idx - 1))
      /\ len = Header + (IF shown = << >> THEN 0 ELSE 2 * (Len(shown) - 1))
               + Cardinality(Characters(names, from, idx - 1))
    <2>1. CASE shown = << >>
        <3>1. idx = from /\ len = Header /\ Len(shown) = 0
            BY <2>1, Zenon DEF PageSoFar
        <3>2. Characters(names, from, idx - 1) = {}
            <4>1. from..(idx - 1) = {}
                BY <3>1
            <4> QED  BY <4>1, Zenon DEF Characters
        <3>3. /\ IsFiniteSet(Characters(names, from, idx - 1))
              /\ Cardinality(Characters(names, from, idx - 1)) = 0
            BY <3>2, FS_EmptySet, Zenon
        <3> QED  BY <2>1, <3>1, <3>3, SfxAssumption
    <2>2. CASE shown # << >>
        <3>1. /\ from \in 1..Len(names) /\ Len(shown) = idx - from
              /\ IsFiniteSet(Characters(names, from, idx - 1))
              /\ len = PageLength(names, from, Len(shown))
            BY <2>2, Zenon DEF PageSoFar
        <3>2. Len(shown) \in Nat /\ from + Len(shown) - 1 = idx - 1
            BY <3>1
        <3> QED  BY <2>2, <3>1, <3>2 DEF PageLength
    <2> QED  BY <2>1, <2>2, Zenon
<1>2. /\ IsFiniteSet(Characters(names, from, idx))
      /\ Cardinality(Characters(names, from, idx - 1)) \in Nat
      /\ Len(names[idx]) \in Nat
      /\ Cardinality(Characters(names, from, idx)) =
             Cardinality(Characters(names, from, idx - 1)) + Len(names[idx])
    BY <1>1, CharactersNext, Zenon
<1>3. /\ names[idx] \in Strings /\ longer \in Seq(Strings)
      /\ Len(longer) = Len(shown) + 1 /\ longer # << >>
    OBVIOUS
<1>4. len + more = PageLength(names, from, Len(shown) + 1)
    <2>1. from + (Len(shown) + 1) - 1 = idx
        BY <1>1
    <2>2. /\ Len(shown) \in Nat /\ Header \in Nat
          /\ shown = << >> <=> Len(shown) = 0
        BY SfxAssumption
    <2>3. /\ (Len(shown) + 1) - 1 = Len(shown)
          /\ PageLength(names, from, Len(shown) + 1) =
                 Header + 2 * Len(shown)
                 + Cardinality(Characters(names, from, idx))
        BY <2>1, <2>2 DEF PageLength
    <2> DEFINE k == Len(shown)
               n == Len(names[idx])
               c == Cardinality(Characters(names, from, idx - 1))
    <2>4. k \in Nat /\ n \in Nat /\ c \in Nat /\ Header \in Nat
        BY <1>2, <2>2, Zenon
    <2>5. /\ PageLength(names, from, Len(shown) + 1) =
                 Header + 2 * k + (c + n)
          /\ \/ k = 0 /\ len = Header + 0 + c /\ more = n + 0
             \/ len = Header + 2 * (k - 1) + c /\ more = n + 2
        BY <1>1, <1>2, <2>2, <2>3, Zenon
    <2> HIDE DEF k, n, c
    <2>6. /\ k = 0 => Header + 0 + c + (n + 0) = Header + 2 * k + (c + n)
          /\ Header + 2 * (k - 1) + c + (n + 2) = Header + 2 * k + (c + n)
        BY <2>4
    <2>7. CASE k = 0 /\ len = Header + 0 + c /\ more = n + 0
        BY <2>5, <2>6, <2>7, Zenon
    <2>8. CASE len = Header + 2 * (k - 1) + c /\ more = n + 2
        BY <2>5, <2>6, <2>8, Zenon
    <2> QED  BY <2>5, <2>7, <2>8, Zenon
<1>5. longer = SubSeq(names, from, idx)
    <2>1. shown = SubSeq(names, from, idx - 1)
        BY <1>1 DEF PageSoFar
    <2> QED  BY <1>1, <2>1
<1>6. /\ idx + 1 \in 1..(Len(names) + 1) /\ (idx + 1) - 1 = idx
      /\ Len(longer) = (idx + 1) - from
    BY <1>1, <1>3
<1> HIDE DEF longer
<1>7. len + more <= Limit => PageSoFar(names, from, idx + 1, longer, len + more)
    BY <1>1, <1>2, <1>3, <1>4, <1>5, <1>6, Zenon DEF PageSoFar
<1> QED  BY <1>3, <1>4, <1>7, Zenon DEF longer, PageWith

(***************************************************************************)
(* The page is empty until the loop runs, then what PageSoFar says, and    *)
(* stays when it has been sent.                                            *)
(***************************************************************************)
PageInv ==
    /\ sounds_dir \subseteq Files
    /\ sounds \in Seq(Strings) /\ page_sounds \in Seq(Strings)
    /\ current_length \in Nat
    /\ stage \notin {"paging", "answered"} =>
           page_sounds = << >> /\ current_length = Header
    /\ stage = "paging" =>
           PageSoFar(sounds, PageStart, index, page_sounds, current_length)
    /\ stage # "answered" => answers = << >>
    /\ PageIsFull

\* PageInv is about these variables and the files.
LEMMA PageFrame ==
    ASSUME PageInv, sounds_dir' \subseteq Files,
           UNCHANGED <<paging, stage, answers>>
    PROVE  PageInv'
BY Zenon DEF PageInv, PageIsFull, PageStart, paging

\* The only answer of the request is not a page.
LEMMA PageOther ==
    ASSUME PageInv, stage # "answered", NEW a, a.kind # "page", Answer(a),
           sounds' \in Seq(Strings),
           UNCHANGED <<sounds_dir, page_sounds, current_length>>
    PROVE  PageInv'
<1>1. answers' = <<a>> /\ stage' = "answered"
    BY DEF PageInv, Answer
<1>2. DOMAIN answers' = {1} /\ answers'[1] = a
    BY <1>1
<1> QED
    BY <1>1, <1>2, Zenon DEF PageInv, PageIsFull

\* Before the loop, or in one of the other branches.
LEMMA PageNotYet ==
    ASSUME PageInv, stage \notin {"paging", "answered"},
           stage' \notin {"paging", "answered"}, sounds' \in Seq(Strings),
           UNCHANGED <<sounds_dir, page_sounds, current_length, answers>>
    PROVE  PageInv'
<1>1. answers' = << >>
    BY Zenon DEF PageInv
<1>2. DOMAIN answers' = {}
    BY <1>1
<1> QED
    BY <1>1, <1>2, Zenon DEF PageInv, PageIsFull

\* The loop looks at a name: what the page would be with it.
LEMMA PageLooks ==
    ASSUME PageInv, stage = "paging", index \in 1..Len(sounds)
    PROVE  /\ Append(page_sounds, sounds[index]) \in Seq(Strings)
           /\ current_length + Addition(sounds[index]) \in Nat
           /\ current_length + Addition(sounds[index]) =
                  PageLength(sounds, PageStart, Len(page_sounds) + 1)
           /\ Fits(sounds[index]) =>
                  PageSoFar(sounds, PageStart, index + 1,
                            Append(page_sounds, sounds[index]),
                            current_length + Addition(sounds[index]))
<1>1. /\ sounds \in Seq(Strings) /\ page_sounds \in Seq(Strings)
      /\ current_length \in Nat
      /\ PageSoFar(sounds, PageStart, index, page_sounds, current_length)
    BY Zenon DEF PageInv
<1> DEFINE more == Addition(sounds[index])
<1>2. /\ more = Len(sounds[index]) + IF page_sounds = << >> THEN 0 ELSE 2
      /\ Fits(sounds[index]) <=> current_length + more <= Limit
    BY Zenon DEF Addition, Fits
<1>3. more \in Nat
    <2>1. sounds[index] \in Strings
        BY <1>1
    <2>2. Len(sounds[index]) \in Nat
        BY <2>1 DEF Strings
    <2>3. more \in {Len(sounds[index]) + 0, Len(sounds[index]) + 2}
        BY <1>2, Zenon
    <2> HIDE DEF more
    <2> QED  BY <2>2, <2>3
<1>4. current_length + more \in Nat
    <2> HIDE DEF more
    <2> QED  BY <1>1, <1>3
<1> HIDE DEF more
<1>5. PageWith(sounds, PageStart, index, page_sounds, current_length + more)
    BY <1>1, <1>2, <1>3, PageGrows, Zenon
<1> QED  BY <1>2, <1>4, <1>5, Zenon DEF more, PageWith

\* A name is put on the page.
LEMMA PageAdd ==
    ASSUME PageInv, AddToPage
    PROVE  PageInv'
<1>1. /\ stage = "paging" /\ index \in 1..Len(sounds) /\ Fits(sounds[index])
      /\ page_sounds' = Append(page_sounds, sounds[index])
      /\ current_length' = current_length + Addition(sounds[index])
      /\ index' = index + 1
      /\ UNCHANGED <<sounds_dir, stage, page, sounds, answers>>
    BY Zenon DEF AddToPage, disk
<1>2. /\ sounds \in Seq(Strings) /\ answers = << >>
      /\ sounds_dir \subseteq Files
    BY <1>1, Zenon DEF PageInv
<1>3. /\ page_sounds' \in Seq(Strings) /\ current_length' \in Nat
      /\ PageSoFar(sounds, PageStart, index', page_sounds', current_length')
    BY <1>1, PageLooks, Zenon
<1>4. PageStart' = PageStart
    BY <1>1, Zenon DEF PageStart
<1>5. DOMAIN answers' = {}
    BY <1>1, <1>2
<1> QED
    BY <1>1, <1>2, <1>3, <1>4, <1>5, Zenon DEF PageInv, PageIsFull

\* The page is sent: it is full.
LEMMA PageSent ==
    ASSUME PageInv, FinishPage
    PROVE  PageInv'
<1>1. /\ stage = "paging"
      /\ index <= Len(sounds) => ~ Fits(sounds[index])
      /\ UNCHANGED <<sounds_dir, page, sounds, page_sounds, current_length>>
    BY Zenon DEF FinishPage, disk, request, paging
<1>2. /\ sounds \in Seq(Strings) /\ page_sounds \in Seq(Strings)
      /\ current_length \in Nat
      /\ PageSoFar(sounds, PageStart, index, page_sounds, current_length)
      /\ sounds_dir \subseteq Files
    BY <1>1, Zenon DEF PageInv
<1>3. CASE page_sounds = << >>
    <2>1. Answer([kind |-> "empty"])
        BY <1>3, Zenon DEF FinishPage
    <2> QED  BY <1>1, <1>2, <2>1, PageOther, Zenon
<1>4. CASE page_sounds # << >>
    <2>1. /\ PageStart \in 1..Len(sounds) /\ index \in 1..(Len(sounds) + 1)
          /\ Len(page_sounds) = index - PageStart
          /\ page_sounds = SubSeq(sounds, PageStart, index - 1)
          /\ PageLength(sounds, PageStart, Len(page_sounds)) <= Limit
        BY <1>2, <1>4, Zenon DEF PageSoFar
    <2>2. PageStart + Len(page_sounds) - 1 = index - 1
        BY <2>1
    <2>3. \/ PageStart + Len(page_sounds) - 1 = Len(sounds)
          \/ PageLength(sounds, PageStart, Len(page_sounds) + 1) > Limit
        <3>1. CASE index = Len(sounds) + 1
            BY <2>2, <3>1, <1>2
        <3>2. CASE index \in 1..Len(sounds)
            <4> DEFINE long == PageLength(sounds, PageStart,
                                          Len(page_sounds) + 1)
            <4>1. index <= Len(sounds)
                BY <1>2, <3>2
            <4>2. long \in Nat /\ ~ (long <= Limit)
                BY <1>1, <3>2, <4>1, PageLooks, Zenon DEF Fits
            <4>3. Limit \in Nat
                BY SfxAssumption, Zenon
            <4> HIDE DEF long
            <4>4. long > Limit
                BY <4>2, <4>3
            <4> QED  BY <4>4, Zenon DEF long
        <3> QED  BY <1>2, <2>1, <3>1, <3>2
    <2>4. IsFullPage(page_sounds, sounds, PageStart)
        BY <2>1, <2>2, <2>3, Zenon DEF IsFullPage
    <2>5. stage' = "answered"
        BY Zenon DEF FinishPage, Answer
    <2>6. PageStart' = PageStart
        BY <1>1, Zenon DEF PageStart
    <2> QED
        BY <1>1, <1>2, <2>4, <2>5, <2>6, Zenon DEF PageInv, PageIsFull
<1> QED  BY <1>3, <1>4, Zenon

\* The list is read: the loop begins with an empty page.
LEMMA PageList ==
    ASSUME PageInv, ListSounds
    PROVE  PageInv'
<1>1. /\ stage = "listing"
      /\ UNCHANGED <<sounds_dir, page_sounds, current_length>>
    BY Zenon DEF ListSounds, disk
<1>2. PICK l \in Listings :
          /\ sounds' = l.sounds
          /\ IF l.sounds = << >>
             THEN Answer([kind |-> "none"])
             ELSE /\ index' = (page' - 1) * PerPage + 1
                  /\ stage' = "paging" /\ UNCHANGED answers
    BY Zenon DEF ListSounds
<1>3. sounds' \in Seq(Strings)
    BY <1>2, ListingTypes, Zenon DEF PageInv
<1>4. CASE Answer([kind |-> "none"])
    BY <1>1, <1>3, <1>4, PageOther, Zenon
<1>5. CASE /\ index' = (page' - 1) * PerPage + 1
           /\ stage' = "paging" /\ UNCHANGED answers
    <2>1. /\ page_sounds' = << >> /\ current_length' = Header
          /\ answers' = << >>
        BY <1>1, <1>5, Zenon DEF PageInv
    <2>2. DOMAIN answers' = {}
        BY <2>1
    <2>3. PageSoFar(sounds', PageStart', index', page_sounds', current_length')
        BY <1>5, <2>1, Zenon DEF PageSoFar, PageStart
    <2> QED
        BY <1>1, <1>3, <1>5, <2>1, <2>2, <2>3, Zenon DEF PageInv, PageIsFull
<1> QED  BY <1>2, <1>4, <1>5, Zenon

\* A sound is chosen from a list that has it.
LEMMA PageChoose ==
    ASSUME PageInv, ChooseSound
    PROVE  PageInv'
<1>1. /\ stage = "choosing"
      /\ UNCHANGED <<sounds_dir, page_sounds, current_length>>
    BY Zenon DEF ChooseSound, disk
<1>2. PICK l \in Listings :
          /\ sounds' = l.sounds
          /\ \/ Answer([kind |-> "none"])
             \/ stage' = "finding" /\ UNCHANGED answers
    BY Zenon DEF ChooseSound
<1>3. sounds' \in Seq(Strings)
    BY <1>2, ListingTypes, Zenon DEF PageInv
<1> QED  BY <1>1, <1>2, <1>3, PageOther, PageNotYet, Zenon

\* The other steps of a request leave the page alone.
LEMMA PageOthers ==
    ASSUME PageInv,
           (\E a : Execute(a)) \/ Refuse \/ PageError \/ FindSound \/ PlaySound
    PROVE  PageInv'
<1>1. /\ UNCHANGED <<sounds_dir, page_sounds, current_length, sounds>>
      /\ stage # "answered" /\ sounds \in Seq(Strings)
    BY Zenon DEF Execute, Refuse, PageError, FindSound, PlaySound, disk,
       request, paging, PageInv
<1>2. CASE \E a : Execute(a)
    <2>1. /\ stage = "idle"
          /\ \/ Answer([kind |-> "usage"])
             \/ /\ stage' \in {"listing", "choosing", "finding"}
                /\ UNCHANGED answers
        BY <1>2, Zenon DEF Execute
    <2> QED  BY <1>1, <2>1, PageOther, PageNotYet, Zenon
<1>3. CASE PageError
    <2>1. Answer([kind |-> "error"])
        BY <1>3, Zenon DEF PageError
    <2> QED  BY <1>1, <2>1, PageOther, Zenon
<1>4. CASE FindSound
    <2>1. /\ stage = "finding"
          /\ \/ Answer([kind |-> "not found", sound |-> sound_name])
             \/ stage' = "playing" /\ UNCHANGED answers
        BY <1>4, Zenon DEF FindSound
    <2> QED  BY <1>1, <2>1, PageOther, PageNotYet, Zenon
<1>5. CASE PlaySound
    <2>1. \/ Answer([kind |-> "played", sound |-> sound_name])
          \/ Answer([kind |-> "failed", sound |-> sound_name])
        BY <1>5, Zenon DEF PlaySound
    <2> QED  BY <1>1, <2>1, PageOther, Zenon
<1>6. CASE Refuse
    <2> DEFINE a == [kind |-> verdict, at |-> now]
    <2>1. Answer(a) /\ a.kind # "page"
        BY <1>6, Verdicts, Zenon DEF Refuse
    <2> HIDE DEF a
    <2> QED  BY <1>1, <2>1, PageOther, Zenon
<1> QED  BY <1>2, <1>3, <1>4, <1>5, <1>6, Zenon

\* The function returns.
LEMMA PageReturn ==
    ASSUME PageInv, Return
    PROVE  PageInv'
<1>1. /\ stage' = "idle" /\ sounds' = << >> /\ page_sounds' = << >>
      /\ current_length' = Header /\ answers' = << >>
      /\ UNCHANGED sounds_dir
    BY Zenon DEF Return, disk
<1>2. /\ DOMAIN answers' = {} /\ << >> \in Seq(Strings) /\ Header \in Nat
    BY <1>1, SfxAssumption
<1> QED
    BY <1>1, <1>2, Zenon DEF PageInv, PageIsFull

\* The invariant of the pages, step by step.
LEMMA PageInvariant == Spec => []PageInv
<1>1. Init => PageInv
    <2> SUFFICES ASSUME Init PROVE PageInv
        BY Zenon
    <2>1. /\ stage = "idle" /\ sounds = << >> /\ page_sounds = << >>
          /\ current_length = Header /\ answers = << >>
          /\ sounds_dir \in InitialDirs
        BY Zenon DEF Init, SfxInit
    <2>2. DOMAIN answers = {} /\ << >> \in Seq(Strings) /\ Header \in Nat
        BY <2>1, SfxAssumption
    <2>3. sounds_dir \subseteq Files
        BY <2>1, FilesAssumption, Zenon DEF Files
    <2> QED
        BY <2>1, <2>2, <2>3, Zenon DEF PageInv, PageIsFull
<1>2. PageInv /\ [Next]_vars => PageInv'
    <2> SUFFICES ASSUME PageInv, [Next]_vars PROVE PageInv'
        BY Zenon
    <2>1. CASE UNCHANGED sfx
        <3>1. sounds_dir' \subseteq Files
            BY <2>1, Zenon DEF PageInv, sfx, disk
        <3> QED  BY <2>1, <3>1, PageFrame, Zenon DEF sfx, request
    <2>2. CASE Tick \/ \E m : ReceiveLine(m)
        BY <2>1, <2>2, Zenon DEF Tick, ReceiveLine
    <2>3. CASE Tokenize
        BY <2>1, <2>3, Zenon DEF Tokenize
    <2>4. CASE Dispatch
        BY <2>1, <2>4, PageOthers, Zenon DEF Dispatch
    <2>5. CASE RunSfx
        BY <2>5, PageList, PageAdd, PageSent, PageChoose, PageOthers, Zenon
        DEF RunSfx, SfxStep
    <2>6. CASE ReturnToLoop
        BY <2>6, PageReturn, Zenon DEF ReturnToLoop
    <2>7. ASSUME NEW f \in Files, Edit(f) PROVE PageInv'
        <3>1. sounds_dir' \subseteq Files
            BY <2>7, Zenon DEF Edit, EditSounds, PageInv
        <3> QED
            BY <2>7, <3>1, PageFrame, Zenon DEF Edit, EditSounds, request
    <2>8. CASE UNCHANGED vars
        BY <2>1, <2>8, Zenon DEF vars
    <2> QED
        BY <2>2, <2>3, <2>4, <2>5, <2>6, <2>7, <2>8, Zenon DEF Next
<1> QED  BY <1>1, <1>2, PTL DEF Spec

(***************************************************************************)
(* A page shows the sounds from its start on without a gap, stays within   *)
(* the limit and could not hold one more, whatever the names, the limit    *)
(* and the page that is asked for.                                         *)
(***************************************************************************)
THEOREM PagesAreFull == Spec => []PageIsFull
<1>1. PageInv => PageIsFull
    BY Zenon DEF PageInv
<1> QED  BY <1>1, PageInvariant, PTL

-----------------------------------------------------------------------------
(***************************************************************************)
(* A sound typed in quotes.  The line is the prefix, a name of the command *)
(* and, in quotes, the name of a sound.                                    *)
(***************************************************************************)
Asked(name, stem) ==
    /\ name \in Names /\ stem \in Strings \ {<< >>} /\ Plain(stem)
    /\ text = QuotedRequest(name, stem)

\* The members of a concatenation.
Join(c, s, q, m, n) ==
    /\ Len(c) = m + n
    /\ \A i \in 1..m : c[i] = s[i]
    /\ \A i \in 1..n : c[m + i] = q[i]

\* A concatenation has them.
LEMMA Joined ==
    ASSUME NEW S, NEW s \in Seq(S), NEW q \in Seq(S),
           NEW m \in Nat, NEW n \in Nat, m = Len(s), n = Len(q)
    PROVE  s \o q \in Seq(S) /\ Join(s \o q, s, q, m, n)
<1>1. s \o q \in Seq(S) /\ Len(s \o q) = m + n
    OBVIOUS
<1>2. ASSUME NEW i \in 1..m PROVE (s \o q)[i] = s[i]
    OBVIOUS
<1>3. ASSUME NEW i \in 1..n PROVE (s \o q)[m + i] = q[i]
    OBVIOUS
<1> QED  BY <1>1, <1>2, <1>3, Zenon DEF Join

\* The characters of such a line.
QuotedLine(t, name, stem, a, b) ==
    /\ a \in Nat \ {0} /\ b \in Nat \ {0} /\ Len(t) = a + b + 4
    /\ \A i \in 1..a : /\ t[i + 1] = name[i]
                       /\ name[i] \notin {Space, Quote, Backslash}
    /\ t[a + 2] = Space /\ t[a + 3] = Quote
    /\ \A i \in 1..b : /\ t[a + 3 + i] = stem[i]
                       /\ stem[i] \notin {Quote, Backslash}
    /\ t[a + b + 4] = Quote

\* It has them, by the concatenations it is made of.
LEMMA QuotedCharacters ==
    ASSUME NEW name \in Names, NEW stem \in Strings \ {<< >>}, Plain(stem),
           NEW a, NEW b, NEW t, a = Len(name), b = Len(stem),
           t = QuotedRequest(name, stem)
    PROVE  QuotedLine(t, name, stem, a, b)
<1>1. /\ name \in Seq(Letters) /\ name # << >> /\ stem \in Seq(Chars)
      /\ stem # << >>
    <2>1. DOMAIN lower_char = Chars
        BY LinesAssumption, Zenon
    <2> QED  BY <2>1, LinesAssumption, Zenon DEF Strings
<1>2. /\ a \in Nat \ {0} /\ b \in Nat \ {0}
      /\ DOMAIN name = 1..a /\ DOMAIN stem = 1..b
    BY <1>1
<1>3. \A i \in 1..a : name[i] \notin {Space, Quote, Backslash}
    <2>1. \A i \in 1..a : name[i] \in Letters
        BY <1>1
    <2> QED  BY <2>1, CharAssumption, Zenon
<1>4. \A i \in 1..b : stem[i] \notin {Quote, Backslash}
    BY <1>2, Zenon DEF Plain, Range
<1> DEFINE u == <<Prefix>> \o name
           v == u \o <<Space, Quote>>
           w == v \o stem
<1>5. name \in Seq(Chars)
    BY <1>1 DEF Chars
<1>6. /\ u \in Seq(Chars) /\ Len(u) = a + 1
      /\ \A i \in 1..a : u[i + 1] = name[i]
    <2>1. <<Prefix>> \in Seq(Chars)
        BY DEF Chars
    <2> QED  BY <1>2, <1>5, <2>1
<1>7. /\ v \in Seq(Chars) /\ Len(v) = a + 3
      /\ \A i \in 1..a : v[i + 1] = name[i]
      /\ v[a + 2] = Space /\ v[a + 3] = Quote
    <2> HIDE DEF u
    <2> DEFINE q == <<Space, Quote>>
    <2>1. /\ q \in Seq(Chars) /\ 2 = Len(q) /\ 2 \in Nat
          /\ q[1] = Space /\ q[2] = Quote /\ 1 \in 1..2 /\ 2 \in 1..2
        BY DEF Chars
    <2>2. /\ a + 1 \in Nat /\ (a + 1) + 2 = a + 3
          /\ (a + 1) + 1 = a + 2 /\ \A i \in 1..a : i + 1 \in 1..(a + 1)
        BY <1>2
    <2>3. a + 1 = Len(u)
        BY <1>6, Zenon
    <2> HIDE DEF q
    <2>4. v \in Seq(Chars) /\ Join(v, u, q, a + 1, 2)
        <3>1. v = u \o q
            BY Zenon DEF q
        <3>2. u \o q \in Seq(Chars) /\ Join(u \o q, u, q, a + 1, 2)
            BY <1>6, <2>1, <2>2, <2>3, Joined, Zenon
        <3> HIDE DEF v
        <3> QED  BY <3>1, <3>2, Zenon
    <2> HIDE DEF v
    <2> QED  BY <1>6, <2>1, <2>2, <2>4, Zenon DEF Join
<1>8. /\ w \in Seq(Chars) /\ Len(w) = a + b + 3
      /\ \A i \in 1..(a + 3) : w[i] = v[i]
      /\ \A i \in 1..b : w[a + 3 + i] = stem[i]
    <2>1. a + 3 \in Nat /\ b \in Nat /\ (a + 3) + b = a + b + 3
        BY <1>2
    <2>2. a + 3 = Len(v)
        BY <1>7, Zenon
    <2> HIDE DEF v
    <2>3. w \in Seq(Chars) /\ Join(w, v, stem, a + 3, b)
        BY <1>1, <1>7, <2>1, <2>2, Joined, Zenon
    <2> QED  BY <2>1, <2>3, Zenon DEF Join
<1>9. /\ Len(t) = a + b + 4
      /\ \A i \in 1..(a + b + 3) : t[i] = w[i]
      /\ t[a + b + 4] = Quote
    <2>1. <<Quote>> \in Seq(Chars)
        BY DEF Chars
    <2>2. t = w \o <<Quote>>
        BY Zenon DEF QuotedRequest
    <2>3. a + b + 3 \in Nat /\ (a + b + 3) + 1 = a + b + 4
        BY <1>2
    <2>4. Len(<<Quote>>) = 1 /\ <<Quote>>[1] = Quote /\ 1 \in 1..1
        OBVIOUS
    <2>5. a + b + 3 = Len(w) /\ 1 = Len(<<Quote>>) /\ 1 \in Nat
        BY <1>8, Zenon
    <2> HIDE DEF w
    <2>6. Join(w \o <<Quote>>, w, <<Quote>>, a + b + 3, 1)
        BY <1>8, <2>1, <2>3, <2>5, Joined, Zenon
    <2>7. Join(t, w, <<Quote>>, a + b + 3, 1)
        BY <2>2, <2>6, Zenon
    <2> QED  BY <2>3, <2>4, <2>7, Zenon DEF Join
<1> HIDE DEF u, v, w
<1>10. /\ \A i \in 1..a : i + 1 \in 1..(a + 3) /\ i + 1 \in 1..(a + b + 3)
       /\ \A i \in 1..b : a + 3 + i \in 1..(a + b + 3)
       /\ a + 2 \in 1..(a + 3) /\ a + 3 \in 1..(a + 3)
       /\ a + 2 \in 1..(a + b + 3) /\ a + 3 \in 1..(a + b + 3)
    BY <1>2
<1>11. \A i \in 1..a : t[i + 1] = name[i]
    BY <1>7, <1>8, <1>9, <1>10, Zenon
<1>12. t[a + 2] = Space /\ t[a + 3] = Quote
    BY <1>7, <1>8, <1>9, <1>10, Zenon
<1>13. \A i \in 1..b : t[a + 3 + i] = stem[i]
    BY <1>8, <1>9, <1>10, Zenon
<1> QED
    BY <1>2, <1>3, <1>4, <1>9, <1>11, <1>12, <1>13, Zenon DEF QuotedLine

\* How far tokenize has come on such a line: it is in the name of the
\* command, between the two words, in the name of the sound, or done.
QuotedScan(name, stem) ==
    LET a == Len(name)
        b == Len(stem)
    IN  /\ escape_next = FALSE
        /\ \/ /\ pos \in 2..(a + 2) /\ tokens = << >> /\ in_quotes = FALSE
              /\ current_token = SubSeq(name, 1, pos - 2)
           \/ /\ pos = a + 3 /\ tokens = <<name>> /\ in_quotes = FALSE
              /\ current_token = << >>
           \/ /\ pos \in (a + 4)..(a + b + 4) /\ tokens = <<name>>
              /\ in_quotes = TRUE
              /\ current_token = SubSeq(stem, 1, pos - a - 4)
           \/ /\ pos = a + b + 5 /\ tokens = <<name>> /\ in_quotes = FALSE
              /\ current_token = stem

\* The beginning of a word, one character longer.
LEMMA Prefixes ==
    ASSUME NEW S, NEW s \in Seq(S)
    PROVE  /\ SubSeq(s, 1, 0) = << >> /\ SubSeq(s, 1, Len(s)) = s
           /\ \A k \in 0..(Len(s) - 1) :
                 SubSeq(s, 1, k + 1) = Append(SubSeq(s, 1, k), s[k + 1])
<1>1. SubSeq(s, 1, 0) = << >> /\ SubSeq(s, 1, Len(s)) = s
    OBVIOUS
<1>2. ASSUME NEW k \in 0..(Len(s) - 1)
      PROVE  SubSeq(s, 1, k + 1) = Append(SubSeq(s, 1, k), s[k + 1])
    OBVIOUS
<1> QED  BY <1>1, <1>2, Zenon

\* One character of the line.
LEMMA QuotedStep ==
    ASSUME NEW name, NEW stem, Asked(name, stem),
           QuotedScan(name, stem), tokenize
    PROVE  QuotedScan(name, stem)'
<1> DEFINE a == Len(name)
           b == Len(stem)
<1>1. /\ a \in Nat \ {0} /\ b \in Nat \ {0} /\ Len(text) = a + b + 4
      /\ \A i \in 1..a : /\ text[i + 1] = name[i]
                         /\ name[i] \notin {Space, Quote, Backslash}
      /\ text[a + 2] = Space /\ text[a + 3] = Quote
      /\ \A i \in 1..b : /\ text[a + 3 + i] = stem[i]
                         /\ stem[i] \notin {Quote, Backslash}
      /\ text[a + b + 4] = Quote
    <2>1. QuotedLine(text, name, stem, a, b)
        BY QuotedCharacters, Zenon DEF Asked
    <2> QED  BY <2>1, Zenon DEF QuotedLine
<1>2. /\ name \in Seq(Letters) /\ stem \in Seq(DOMAIN lower_char)
      /\ name # << >>
    BY LinesAssumption, Zenon DEF Asked, Strings
<1>3. /\ TokenizeStep(text[pos]) /\ pos' = pos + 1 /\ pos <= Len(text)
      /\ escape_next = FALSE
    BY Zenon DEF tokenize, QuotedScan
<1>4. /\ SubSeq(name, 1, 0) = << >> /\ SubSeq(name, 1, a) = name
      /\ \A k \in 0..(a - 1) :
            SubSeq(name, 1, k + 1) = Append(SubSeq(name, 1, k), name[k + 1])
      /\ SubSeq(stem, 1, 0) = << >> /\ SubSeq(stem, 1, b) = stem
      /\ \A k \in 0..(b - 1) :
            SubSeq(stem, 1, k + 1) = Append(SubSeq(stem, 1, k), stem[k + 1])
    BY <1>2, Prefixes, Zenon
<1>5. CASE /\ pos \in 2..(a + 1) /\ tokens = << >> /\ in_quotes = FALSE
           /\ current_token = SubSeq(name, 1, pos - 2)
    <2>1. PICK k \in 0..(a - 1) : pos = k + 2
        <3>1. pos - 2 \in 0..(a - 1) /\ pos = (pos - 2) + 2
            BY <1>1, <1>5
        <3> QED  BY <3>1, Zenon
    <2>2. /\ k + 1 \in 1..a /\ pos = (k + 1) + 1 /\ pos - 2 = k
          /\ pos' \in 2..(a + 2) /\ pos' - 2 = k + 1
        BY <1>1, <1>3, <2>1
    <2>3. text[pos] = name[k + 1] /\ text[pos] \notin {Space, Quote, Backslash}
        BY <1>1, <2>2, Zenon
    <2>4. /\ current_token' = Append(current_token, name[k + 1])
          /\ UNCHANGED <<tokens, in_quotes, escape_next>>
        BY <1>3, <2>3, Zenon DEF TokenizeStep
    <2>5. current_token' = SubSeq(name, 1, pos' - 2)
        BY <1>4, <1>5, <2>1, <2>2, <2>4, Zenon
    <2> QED  BY <1>3, <1>5, <2>2, <2>4, <2>5, Zenon DEF QuotedScan
<1>6. CASE /\ pos = a + 2 /\ tokens = << >> /\ in_quotes = FALSE
           /\ current_token = SubSeq(name, 1, pos - 2)
    <2>1. pos - 2 = a /\ pos' = a + 3
        BY <1>1, <1>3, <1>6
    <2>2. current_token = name
        BY <1>4, <1>6, <2>1, Zenon
    <2>3. text[pos] = Space /\ Space # Quote /\ Space # Backslash
        BY <1>1, <1>6, CharAssumption, Zenon
    <2>4. /\ tokens' = Append(tokens, name) /\ current_token' = << >>
          /\ UNCHANGED <<in_quotes, escape_next>>
        BY <1>2, <1>3, <1>6, <2>2, <2>3, Zenon DEF TokenizeStep, Flushed
    <2>5. tokens' = <<name>>
        BY <1>6, <2>4
    <2> QED  BY <1>3, <1>6, <2>1, <2>4, <2>5, Zenon DEF QuotedScan
<1>7. CASE /\ pos = a + 3 /\ tokens = <<name>> /\ in_quotes = FALSE
           /\ current_token = << >>
    <2>1. pos' = a + 4 /\ pos' \in (a + 4)..(a + b + 4) /\ pos' - a - 4 = 0
        BY <1>1, <1>3, <1>7
    <2>2. text[pos] = Quote /\ Quote # Backslash
        BY <1>1, <1>7, CharAssumption, Zenon
    <2>3. /\ in_quotes' = TRUE
          /\ UNCHANGED <<tokens, current_token, escape_next>>
        BY <1>3, <1>7, <2>2, Zenon DEF TokenizeStep
    <2> QED  BY <1>3, <1>4, <1>7, <2>1, <2>3, Zenon DEF QuotedScan
<1>8. CASE /\ pos \in (a + 4)..(a + b + 3) /\ tokens = <<name>>
           /\ in_quotes = TRUE
           /\ current_token = SubSeq(stem, 1, pos - a - 4)
    <2>1. PICK k \in 0..(b - 1) : pos = a + 4 + k
        <3>1. pos - a - 4 \in 0..(b - 1) /\ pos = a + 4 + (pos - a - 4)
            BY <1>1, <1>8
        <3> QED  BY <3>1, Zenon
    <2>2. /\ k + 1 \in 1..b /\ pos = a + 3 + (k + 1) /\ pos - a - 4 = k
          /\ pos' \in (a + 4)..(a + b + 4) /\ pos' - a - 4 = k + 1
        BY <1>1, <1>3, <2>1
    <2>3. text[pos] = stem[k + 1] /\ text[pos] \notin {Quote, Backslash}
        BY <1>1, <2>2, Zenon
    <2>4. /\ current_token' = Append(current_token, stem[k + 1])
          /\ UNCHANGED <<tokens, in_quotes, escape_next>>
        BY <1>3, <1>8, <2>3, Zenon DEF TokenizeStep
    <2>5. current_token' = SubSeq(stem, 1, pos' - a - 4)
        BY <1>4, <1>8, <2>1, <2>2, <2>4, Zenon
    <2> QED  BY <1>3, <1>8, <2>2, <2>4, <2>5, Zenon DEF QuotedScan
<1>9. CASE /\ pos = a + b + 4 /\ tokens = <<name>> /\ in_quotes = TRUE
           /\ current_token = SubSeq(stem, 1, pos - a - 4)
    <2>1. pos - a - 4 = b /\ pos' = a + b + 5
        BY <1>1, <1>3, <1>9
    <2>2. text[pos] = Quote /\ Quote # Backslash
        BY <1>1, <1>9, CharAssumption, Zenon
    <2>3. /\ in_quotes' = FALSE
          /\ UNCHANGED <<tokens, current_token, escape_next>>
        BY <1>3, <1>9, <2>2, Zenon DEF TokenizeStep
    <2>4. current_token' = stem
        BY <1>4, <1>9, <2>1, <2>3, Zenon
    <2> QED  BY <1>3, <1>9, <2>1, <2>3, <2>4, Zenon DEF QuotedScan
<1>10. CASE pos = a + b + 5
    BY <1>1, <1>3, <1>10
<1>11. /\ pos \in 2..(a + 2) => pos \in 2..(a + 1) \/ pos = a + 2
       /\ pos \in (a + 4)..(a + b + 4) =>
              pos \in (a + 4)..(a + b + 3) \/ pos = a + b + 4
    <2>1. a \in Nat /\ b \in Nat
        BY <1>1, Zenon
    <2> HIDE DEF a, b
    <2> QED  BY <2>1
<1> QED
    BY <1>5, <1>6, <1>7, <1>8, <1>9, <1>10, <1>11, Zenon DEF QuotedScan

\* Two words, one after the other.
LEMMA TwoWords ==
    ASSUME NEW x, NEW y
    PROVE  Append(<<x>>, y) = <<x, y>> /\ Tail(<<x, y>>) = <<y>>
<1> DEFINE S == {x, y}
           u == Append(<<x>>, y)
           v == <<x, y>>
<1>1. <<x>> \in Seq(S) /\ v \in Seq(S) /\ Tail(v) = <<y>>
    OBVIOUS
<1>2. /\ u \in Seq(S) /\ Len(u) = 2 /\ Len(v) = 2
      /\ \A i \in 1..2 : u[i] = v[i]
    BY <1>1
<1> HIDE DEF S, u, v
<1>3. u = v
    BY <1>1, <1>2
<1> QED  BY <1>1, <1>3, Zenon DEF u, v

\* The last word is pushed.
LEMMA QuotedEnd ==
    ASSUME NEW name, NEW stem, Asked(name, stem),
           QuotedScan(name, stem), TokenizeEnd
    PROVE  tokens' = <<name, stem>>
<1> DEFINE a == Len(name)
           b == Len(stem)
<1>1. QuotedLine(text, name, stem, a, b) /\ stem # << >>
    BY QuotedCharacters, Zenon DEF Asked
<1>2. /\ a \in Nat /\ b \in Nat /\ Len(text) = a + b + 4
    BY <1>1, Zenon DEF QuotedLine
<1>3. /\ pos > Len(text)
      /\ tokens' = IF current_token = << >> THEN tokens
                   ELSE Append(tokens, current_token)
    BY Zenon DEF TokenizeEnd, Flushed
<1>4. \/ pos \in 2..(a + 2) \/ pos = a + 3 \/ pos \in (a + 4)..(a + b + 4)
      \/ pos = a + b + 5 /\ tokens = <<name>> /\ current_token = stem
    BY Zenon DEF QuotedScan
<1>5. tokens = <<name>> /\ current_token = stem
    <2> HIDE DEF a, b
    <2> QED  BY <1>2, <1>3, <1>4
<1>6. tokens' = Append(<<name>>, stem)
    BY <1>1, <1>3, <1>5, Zenon
<1> QED  BY <1>6, TwoWords, Zenon

-----------------------------------------------------------------------------
(***************************************************************************)
(* The files.  A sound is available when a file of the directory has its   *)
(* name and a supported extension, in any case.                            *)
(***************************************************************************)
Available(stem) == \E f \in AudioFiles : f.stem = stem
Stems == {f.stem : f \in Files}

\* findAudioFile finds an available sound, if it is plain.
LEMMA PlainIsFound ==
    ASSUME sounds_dir \subseteq Files, NEW stem, Plain(stem), Available(stem)
    PROVE  findAudioFile(stem) # NoFile
<1> DEFINE candidates == [i \in 1..4 |->
                             [stem |-> stem, ext |-> getSupportedExtensions[i]]]
           existing == {i \in 1..4 : candidates[i] \in sounds_dir}
           first == CHOOSE i \in existing : \A j \in existing : i <= j
<1>1. PICK f \in sounds_dir : f.stem = stem /\ isSupportedAudioFile(f)
    BY Zenon DEF Available, AudioFiles
<1>2. /\ f \in Files /\ stem # << >>
      /\ f.ext \in Range(getSupportedExtensions)
    BY <1>1, FileTypes, Zenon DEF Plain, isSupportedAudioFile
<1>3. PICK i \in 1..4 : f.ext = getSupportedExtensions[i]
    <2>1. DOMAIN getSupportedExtensions = 1..4
        BY DEF getSupportedExtensions
    <2> QED  BY <1>2, <2>1, Zenon DEF Range
<1>4. f = [stem |-> f.stem, ext |-> f.ext]
    <2> DEFINE File == [stem : Strings \ {<< >>}, ext : DOMAIN lower_ext]
    <2>1. FilesByStem \in Seq(File)
        BY FilesAssumption, Zenon DEF Strings
    <2>2. f \in File
        <3> HIDE DEF File
        <3>1. \A n \in DOMAIN FilesByStem : FilesByStem[n] \in File
            BY <2>1
        <3> QED  BY <1>2, <3>1, Zenon DEF Files, Range
    <2> QED  BY <2>2, Zenon
<1>5. i \in existing
    BY <1>1, <1>3, <1>4, Zenon
<1>6. first \in existing
    <2>1. existing \in SUBSET Nat
        OBVIOUS
    <2> HIDE DEF existing
    <2>2. \E x \in existing : \A y \in existing : x <= y
        BY <1>5, <2>1, Least, Zenon
    <2> QED  BY <2>2, Zenon
<1>7. findAudioFile(stem) = candidates[first] /\ first \in 1..4
    BY <1>5, <1>6, Zenon DEF findAudioFile
<1>8. candidates[first].stem = stem
    BY <1>7, Zenon
<1>9. NoFile.stem = << >>
    BY Zenon DEF NoFile
<1> QED  BY <1>2, <1>7, <1>8, <1>9, Zenon

-----------------------------------------------------------------------------
(***************************************************************************)
(* What pages have shown is available, until a file is edited.             *)
(***************************************************************************)
ListedInv ==
    /\ \A stem \in listed : Available(stem)
    /\ stage = "paging" /\ ~ disturbed =>
           \A i \in DOMAIN sounds : Available(sounds[i])

\* How a sound that was asked for by its name is served.
Served(stem) ==
    /\ sound_name = stem /\ stage \in {"finding", "playing", "answered"}
    /\ stage = "playing" /\ ~ disturbed => filepath \in sounds_dir
    /\ stage = "answered" /\ ~ disturbed /\ m_initialized /\ Available(stem) =>
           \A i \in DOMAIN answers :
               answers[i] = [kind |-> "played", sound |-> stem]

\* How a request under a name of the command is turned down.
TurnedDown(name) ==
    /\ stage = "answered"
    /\ \A i \in DOMAIN answers :
          /\ answers[i].kind = "on cooldown"
          /\ CoolingDown(name, sender.user, answers[i].at)

(***************************************************************************)
(* A line that asks for a sound by its name in quotes has that name in its *)
(* tokens, and then is served or turned down.                              *)
(***************************************************************************)
AskedInv(name, stem) ==
    /\ parse = "scanning" => QuotedScan(name, stem)
    /\ parse = "parsed" => tokens = <<name, stem>>
    /\ parse = "executing" => Served(stem) \/ TurnedDown(name)

RequestInv ==
    /\ parse = "executing" <=> stage # "idle"
    /\ parse = "idle" => /\ tokens = << >> /\ current_token = << >>
                         /\ in_quotes = FALSE /\ escape_next = FALSE
    /\ \A name \in Names, stem \in Stems :
          Asked(name, stem) => AskedInv(name, stem)

\* What is available depends on the directory only.
LEMMA AvailableKept ==
    ASSUME UNCHANGED sounds_dir
    PROVE  \A stem : Available(stem)' <=> Available(stem)
BY Zenon DEF Available, AudioFiles

\* Steps that neither list nor edit.
LEMMA ListedKept ==
    ASSUME ListedInv, UNCHANGED <<sounds_dir, listed>>,
           stage' = "paging" => UNCHANGED <<stage, sounds, disturbed>>
    PROVE  ListedInv'
<1>1. \A stem : Available(stem)' <=> Available(stem)
    BY AvailableKept, Zenon
<1> QED  BY <1>1, Zenon DEF ListedInv

\* What is read from the directory is available.
LEMMA ListedRead ==
    ASSUME PageInv, ListedInv, ListSounds
    PROVE  ListedInv'
<1>1. UNCHANGED <<sounds_dir, listed>> /\ sounds_dir \subseteq Files
    BY Zenon DEF ListSounds, disk, PageInv
<1>2. PICK l \in Listings : sounds' = l.sounds
    BY Zenon DEF ListSounds
<1>3. \A i \in DOMAIN sounds' : Available(sounds'[i])
    BY <1>1, <1>2, ListingTypes, Zenon DEF Available
<1>4. \A stem : Available(stem)' <=> Available(stem)
    BY <1>1, AvailableKept, Zenon
<1> QED  BY <1>1, <1>3, <1>4, Zenon DEF ListedInv

\* So is what a page shows.
LEMMA ListedShown ==
    ASSUME PageInv, ListedInv, FinishPage
    PROVE  ListedInv'
<1>1. /\ stage = "paging" /\ stage' = "answered" /\ UNCHANGED sounds_dir
      /\ \/ listed' = listed
         \/ /\ page_sounds # << >> /\ ~ disturbed
            /\ listed' = listed \cup Range(page_sounds)
    BY Zenon DEF FinishPage, disk, Answer
<1>2. ASSUME page_sounds # << >>, ~ disturbed, NEW stem \in Range(page_sounds)
      PROVE  Available(stem)
    <2>1. /\ sounds \in Seq(Strings) /\ page_sounds \in Seq(Strings)
          /\ PageStart \in 1..Len(sounds) /\ index \in 1..(Len(sounds) + 1)
          /\ Len(page_sounds) = index - PageStart
          /\ page_sounds = SubSeq(sounds, PageStart, index - 1)
        BY <1>1, <1>2, Zenon DEF PageInv, PageSoFar
    <2>2. PICK k \in DOMAIN page_sounds : stem = page_sounds[k]
        BY <1>2, Zenon DEF Range
    <2>3. /\ PageStart + k - 1 \in DOMAIN sounds
          /\ page_sounds[k] = sounds[PageStart + k - 1]
        BY <2>1, <2>2
    <2> QED  BY <1>1, <1>2, <2>2, <2>3, Zenon DEF ListedInv
<1>3. \A stem : Available(stem)' <=> Available(stem)
    BY <1>1, AvailableKept, Zenon
<1> QED  BY <1>1, <1>2, <1>3, Zenon DEF ListedInv

\* The invariant of the listed sounds, step by step.
LEMMA ListedNext ==
    ASSUME PageInv, ListedInv, [Next]_vars
    PROVE  ListedInv'
<1>1. CASE UNCHANGED sfx
    BY <1>1, ListedKept, Zenon DEF sfx, disk, request, paging
<1>2. CASE Tick \/ \E m : ReceiveLine(m)
    BY <1>1, <1>2, Zenon DEF Tick, ReceiveLine
<1>3. CASE Tokenize
    BY <1>1, <1>3, Zenon DEF Tokenize
<1>4. CASE Dispatch
    <2>1. ASSUME Execute(Args) \/ Refuse PROVE ListedInv'
        <3>1. UNCHANGED <<sounds_dir, listed>> /\ stage' # "paging"
            BY <2>1, Zenon DEF Execute, Refuse, disk, Answer
        <3> QED  BY <3>1, ListedKept, Zenon
    <2> QED  BY <1>1, <1>4, <2>1, Zenon DEF Dispatch
<1>5. CASE RunSfx
    <2>1. CASE AddToPage
        BY <2>1, ListedKept, Zenon DEF AddToPage, disk
    <2>2. CASE PageError \/ ChooseSound \/ FindSound \/ PlaySound
        <3>1. UNCHANGED <<sounds_dir, listed>> /\ stage' # "paging"
            BY <2>2, Zenon
            DEF PageError, ChooseSound, FindSound, PlaySound, disk,
               Answer
        <3> QED  BY <3>1, ListedKept, Zenon
    <2> QED
        BY <1>5, <2>1, <2>2, ListedRead, ListedShown, Zenon
        DEF RunSfx, SfxStep
<1>6. CASE ReturnToLoop
    <2>1. UNCHANGED <<sounds_dir, listed>> /\ stage' # "paging"
        BY <1>6, Zenon DEF ReturnToLoop, Return, disk
    <2> QED  BY <2>1, ListedKept, Zenon
<1>7. CASE \E f \in Files : Edit(f)
    <2>1. listed' = {} /\ stage' = stage /\ disturbed' = (stage # "idle")
        BY <1>7, Zenon DEF Edit, EditSounds
    <2> QED  BY <2>1, Zenon DEF ListedInv
<1>8. CASE UNCHANGED vars
    BY <1>1, <1>8, Zenon DEF vars
<1> QED
    BY <1>2, <1>3, <1>4, <1>5, <1>6, <1>7, <1>8, Zenon DEF Next

-----------------------------------------------------------------------------
(***************************************************************************)
(* The clock and what the tracker has recorded are times, and the line     *)
(* being handled is somebody's.                                            *)
(***************************************************************************)
ClockInv ==
    /\ now \in Nat
    /\ last_command_use \in [Names -> Time]
    /\ user_command_cooldowns \in [Names \X Users -> Time]
    /\ parse # "idle" => sender.user \in Users

\* The tracker's comparison truncates: what it finds within a cooldown is
\* less than the cooldown ago.
LEMMA WithinMeans ==
    ASSUME NEW t \in Int, NEW used \in Int, NEW c \in Int,
           (t - used) \div TicksPerSecond < c
    PROVE  t - used < c * TicksPerSecond
<1> DEFINE d == t - used
           q == d \div TicksPerSecond
<1>1. TicksPerSecond \in Nat \ {0} /\ d \in Int
    BY TicksAssumption
<1>2. q \in Int /\ d < (q + 1) * TicksPerSecond
    BY <1>1
<1>3. q + 1 <= c
    BY <1>2
<1> HIDE DEF d, q
<1>4. (q + 1) * TicksPerSecond <= c * TicksPerSecond
    BY <1>1, <1>2, <1>3
<1>5. (q + 1) * TicksPerSecond \in Int /\ c * TicksPerSecond \in Int
    BY <1>1, <1>2
<1>6. d < c * TicksPerSecond
    BY <1>1, <1>2, <1>4, <1>5
<1> QED  BY <1>6 DEF d

\* The one rule of the command that can refuse a request is a cooldown, and
\* then the name was used less than the cooldown ago.
LEMMA VerdictMeans ==
    ASSUME ClockInv, parse # "idle", command_name \in Names,
           verdict # "run"
    PROVE  /\ verdict = "on cooldown"
           /\ CoolingDown(command_name, sender.user, now)
<1> DEFINE name == command_name
           user == sender.user
           last == last_command_use[name]
           mine == user_command_cooldowns[<<name, user>>]
<1>1. /\ name \in Names /\ user \in Users
      /\ now \in Nat /\ last \in Time /\ mine \in Time
    BY Zenon DEF ClockInv
<1>2. /\ Rules.command_cooldown \in Int /\ Rules.user_cooldown \in Int
      /\ ~ (Rules.global_cooldown > 0) /\ ~ (Rules.max_uses_per_stream > 0)
    BY RulesAssumption DEF CommandMetadata
<1>3. Rules.enabled /\ hasPermission(user, sender.badges, Rules)
    BY RulesAssumption, Zenon DEF hasPermission
<1>4. ~ usesExhausted(name, Rules)
    BY <1>2, Zenon DEF usesExhausted
<1>5. verdict = "on cooldown" /\ isOnCooldown(name, user, Rules)
    BY <1>3, <1>4, Zenon DEF verdict, Checks
<1>6. ASSUME NEW used \in Time, NEW c \in Int, used # Never,
             Within(used, c)
      PROVE  Recent(used, now, c)
    <2>1. used \in Int /\ now \in Int
        BY <1>1 DEF Time, Never
    <2> QED  BY <1>6, <2>1, WithinMeans, Zenon DEF Within, Recent
<1> HIDE DEF name, user
<1> QED
    BY <1>1, <1>2, <1>5, <1>6, Zenon DEF isOnCooldown, CoolingDown, name, user

\* The clock goes on, uses are recorded, lines come from users.
LEMMA ClockNext ==
    ASSUME ClockInv, [Next]_vars
    PROVE  ClockInv'
<1>1. CASE UNCHANGED <<clock, sender>> /\ (parse' # "idle" => parse # "idle")
    BY <1>1, Zenon DEF ClockInv, clock, tracker
<1>2. CASE Tick
    <2>1. now' \in Nat
        BY <1>2 DEF Tick, ClockInv
    <2> QED  BY <1>2, <2>1, Zenon DEF Tick, ClockInv, tracker, parser
<1>3. ASSUME NEW m \in FirstLines \cup Lines, ReceiveLine(m) PROVE ClockInv'
    <2>1. m.user \in Users
        BY LinesAssumption
    <2>2. sender'.user = m.user
        BY <1>3, Zenon DEF ReceiveLine
    <2> QED  BY <1>3, <2>1, <2>2, Zenon DEF ReceiveLine, ClockInv, clock, tracker
<1>4. CASE Tokenize
    BY <1>1, <1>4, Zenon DEF Tokenize, Tokenizing, tokenize, TokenizeEnd
<1>5. CASE Dispatch
    <2>1. parse' = "idle" \/ (parse # "idle" /\ UNCHANGED sender)
        BY <1>5, Zenon DEF Dispatch, Forget
    <2>2. UNCHANGED clock
        BY <1>5, Zenon DEF Dispatch
    <2> QED  BY <2>1, <2>2, Zenon DEF ClockInv, clock, tracker
<1>6. CASE RunSfx \/ \E f \in Files : Edit(f)
    BY <1>1, <1>6, Zenon DEF RunSfx, Edit, parser
<1>7. CASE ReturnToLoop
    <2>1. parse' = "idle" /\ now' = now
        BY <1>7, Zenon DEF ReturnToLoop, Forget
    <2>2. now \in Time
        BY DEF ClockInv, Time
    <2>3. /\ last_command_use' \in [Names -> Time]
          /\ user_command_cooldowns' \in [Names \X Users -> Time]
        BY <1>7, <2>2 DEF ReturnToLoop, recordUsage, tracker, ClockInv
    <2> QED  BY <2>1, <2>3, Zenon DEF ClockInv
<1>8. CASE UNCHANGED vars
    BY <1>1, <1>8, Zenon DEF vars, parser
<1> QED
    BY <1>2, <1>3, <1>4, <1>5, <1>6, <1>7, <1>8, Zenon DEF Next

-----------------------------------------------------------------------------
\* A stutter, or a step on another line: nothing changes.
LEMMA RequestKept ==
    ASSUME RequestInv, UNCHANGED <<parser, sfx, tracker, sender>>
    PROVE  RequestInv'
<1>1. \A stem : Available(stem)' <=> Available(stem)
    BY AvailableKept, Zenon DEF sfx, disk
<1>2. UNCHANGED <<text, parse, pos, tokens, current_token, in_quotes,
                  escape_next, stage, sound_name, filepath, sounds_dir,
                  disturbed, m_initialized, answers>>
    BY Zenon DEF parser, scan, sfx, disk, player, request
<1>3. \A name, stem : Asked(name, stem)' <=> Asked(name, stem)
    BY <1>2, Zenon DEF Asked
<1>4. \A name, stem : QuotedScan(name, stem)' <=> QuotedScan(name, stem)
    BY <1>2, Zenon DEF QuotedScan
<1>5. \A stem : Served(stem)' <=> Served(stem)
    BY <1>1, <1>2, Zenon DEF Served
<1>6. \A name : TurnedDown(name)' <=> TurnedDown(name)
    BY <1>2, Zenon DEF TurnedDown, CoolingDown, tracker
<1> QED  BY <1>2, <1>3, <1>4, <1>5, <1>6, Zenon DEF RequestInv, AskedInv

\* A line arrives.
LEMMA RequestReceive ==
    ASSUME RequestInv, NEW t, Receive(t), UNCHANGED sfx
    PROVE  RequestInv'
<1>1. /\ parse = "idle" /\ parse' = "scanning" /\ pos' = 2
      /\ stage' = stage /\ UNCHANGED <<tokens, current_token, in_quotes,
                                       escape_next>>
    BY Zenon DEF Receive, scan, sfx
<1>2. /\ stage' = "idle" /\ tokens' = << >> /\ current_token' = << >>
      /\ in_quotes' = FALSE /\ escape_next' = FALSE
    BY <1>1, Zenon DEF RequestInv
<1>3. ASSUME NEW name \in Names, NEW stem \in Stems, Asked(name, stem)'
      PROVE  QuotedScan(name, stem)'
    <2>1. name \in Seq(Letters)
        BY LinesAssumption, Zenon
    <2>2. SubSeq(name, 1, 0) = << >> /\ Len(name) \in Nat
        BY <2>1
    <2>3. pos' \in 2..(Len(name) + 2) /\ pos' - 2 = 0
        BY <1>1, <2>2
    <2> QED  BY <1>2, <2>2, <2>3, Zenon DEF QuotedScan
<1>4. /\ parse' # "idle" /\ parse' # "parsed" /\ parse' # "executing"
    BY <1>1, Zenon
<1> QED  BY <1>2, <1>3, <1>4, Zenon DEF RequestInv, AskedInv

\* One step of tokenize.
LEMMA RequestScan ==
    ASSUME RequestInv, Tokenizing, UNCHANGED sfx
    PROVE  RequestInv'
<1>1. parse = "scanning" /\ text' = text /\ stage' = stage
    BY Zenon DEF Tokenizing, tokenize, TokenizeEnd, sfx
<1>2. stage' = "idle"
    BY <1>1, Zenon DEF RequestInv
<1>3. ASSUME NEW name \in Names, NEW stem \in Stems, Asked(name, stem)'
      PROVE  Asked(name, stem) /\ QuotedScan(name, stem)
    <2>1. Asked(name, stem)
        BY <1>1, <1>3, Zenon DEF Asked
    <2> QED  BY <1>1, <2>1, Zenon DEF RequestInv, AskedInv
<1>4. CASE tokenize
    <2>1. parse' = "scanning"
        BY <1>1, <1>4, Zenon DEF tokenize
    <2>2. parse' # "idle" /\ parse' # "parsed" /\ parse' # "executing"
        BY <2>1, Zenon
    <2> QED
        BY <1>2, <1>3, <1>4, <2>2, QuotedStep, Zenon DEF RequestInv, AskedInv
<1>5. CASE TokenizeEnd
    <2>1. parse' = "parsed"
        BY <1>5, Zenon DEF TokenizeEnd
    <2>2. parse' # "idle" /\ parse' # "scanning" /\ parse' # "executing"
        BY <2>1, Zenon
    <2> QED
        BY <1>2, <1>3, <1>5, <2>2, QuotedEnd, Zenon DEF RequestInv, AskedInv
<1> QED  BY <1>4, <1>5, Zenon DEF Tokenizing

\* The handling of a line is over.
LEMMA RequestForget ==
    ASSUME Forget, stage' = "idle"
    PROVE  RequestInv'
<1>1. /\ parse' = "idle" /\ tokens' = << >> /\ current_token' = << >>
      /\ in_quotes' = FALSE /\ escape_next' = FALSE
    BY Zenon DEF Forget
<1>2. parse' # "scanning" /\ parse' # "parsed" /\ parse' # "executing"
    BY <1>1, Zenon
<1> QED  BY <1>1, <1>2, Zenon DEF RequestInv, AskedInv

\* The command is called, if the first token names it and its cooldowns let
\* the request through.
LEMMA RequestDispatch ==
    ASSUME PageInv, ClockInv, RequestInv, Dispatch
    PROVE  RequestInv'
<1>1. parse = "parsed" /\ parse # "idle"
    BY Zenon DEF Dispatch
<1>2. stage = "idle" /\ stage # "answered"
    BY <1>1, Zenon DEF RequestInv
<1>3. CASE Forget /\ UNCHANGED sfx
    BY <1>2, <1>3, RequestForget, Zenon DEF sfx
<1>4. ASSUME parse' = "executing", UNCHANGED <<text, pos, scan>>,
             stage' # "idle",
             \A name \in Names, stem \in Stems :
                 Asked(name, stem) /\ tokens = <<name, stem>>
                     => Served(stem)' \/ TurnedDown(name)'
      PROVE  RequestInv'
    <2>1. ASSUME NEW name \in Names, NEW stem \in Stems, Asked(name, stem)'
          PROVE  Served(stem)' \/ TurnedDown(name)'
        <3>1. Asked(name, stem)
            BY <1>4, <2>1, Zenon DEF Asked
        <3>2. tokens = <<name, stem>>
            BY <1>1, <3>1, Zenon DEF RequestInv, AskedInv
        <3> QED  BY <1>4, <3>1, <3>2, Zenon
    <2>2. parse' # "idle" /\ parse' # "scanning" /\ parse' # "parsed"
        BY <1>4, Zenon
    <2> QED  BY <1>4, <2>1, <2>2, Zenon DEF RequestInv, AskedInv
<1>5. ASSUME Execute(Args), NEW name \in Names, NEW stem \in Stems,
             Asked(name, stem), tokens = <<name, stem>>
      PROVE  Served(stem)'
    <2>1. Args = <<stem>>
        BY <1>5, TwoWords, Zenon DEF Args
    <2>2. Args # << >> /\ Args[1] = stem
        BY <2>1, Zenon
    <2>3. sound_name' = lower(stem) /\ lower(stem) = stem
        BY <1>5, <2>2, Zenon DEF Execute, Asked, Plain
    <2>4. stem # ListWord /\ stem # RandomWord
        BY <1>5, Zenon DEF Asked, Plain
    <2>5. stage' = "finding"
        BY <1>5, <2>2, <2>3, <2>4, Zenon DEF Execute
    <2>6. stage' # "playing" /\ stage' # "answered"
        BY <2>5, Zenon
    <2> QED  BY <2>3, <2>5, <2>6, Zenon DEF Served
<1>6. ASSUME Refuse, verdict # "run", UNCHANGED <<clock, sender>>,
             NEW name \in Names, NEW stem \in Stems,
             tokens = <<name, stem>>
      PROVE  TurnedDown(name)'
    <2>1. command_name = name
        BY <1>6, LinesAssumption, Zenon DEF command_name, Command
    <2>2. verdict = "on cooldown" /\ CoolingDown(name, sender.user, now)
        BY <1>1, <1>6, <2>1, VerdictMeans, Zenon
    <2>3. Answer([kind |-> verdict, at |-> now]) /\ answers = << >>
        BY <1>2, <1>6, Zenon DEF Refuse, PageInv
    <2>4. answers' = <<[kind |-> verdict, at |-> now]>> /\ stage' = "answered"
        BY <2>3 DEF Answer
    <2>5. /\ DOMAIN answers' = {1}
          /\ answers'[1].kind = verdict /\ answers'[1].at = now
        BY <2>4
    <2>6. UNCHANGED <<last_command_use, user_command_cooldowns, sender>>
        BY <1>6, Zenon DEF clock, tracker
    <2> QED
        BY <2>2, <2>4, <2>5, <2>6, Zenon DEF TurnedDown, CoolingDown
<1>7. CASE tokens = << >> \/ command_name \notin Names \/ verdict = "disabled"
    BY <1>3, <1>7, Zenon DEF Dispatch
<1>8. CASE ~ (tokens = << >> \/ command_name \notin Names
              \/ verdict = "disabled")
    <2>1. /\ parse' = "executing" /\ UNCHANGED <<text, pos, scan, sender, clock>>
          /\ Execute(Args) \/ (Refuse /\ verdict # "run")
        BY <1>8, Zenon DEF Dispatch
    <2>2. stage' # "idle"
        BY <2>1, Zenon DEF Execute, Refuse, Answer
    <2> QED  BY <1>4, <1>5, <1>6, <2>1, <2>2, Zenon
<1> QED  BY <1>7, <1>8, Zenon

\* While the command runs, the line stays.
LEMMA RequestServed ==
    ASSUME RequestInv, UNCHANGED parser, stage # "idle", stage' # "idle",
           \A stem \in Stems : Plain(stem) /\ Served(stem) => Served(stem)',
           \A name \in Names : TurnedDown(name) => TurnedDown(name)'
    PROVE  RequestInv'
<1>1. parse = "executing" /\ parse' = "executing" /\ text' = text
    BY Zenon DEF RequestInv, parser
<1>2. ASSUME NEW name \in Names, NEW stem \in Stems, Asked(name, stem)'
      PROVE  Served(stem)' \/ TurnedDown(name)'
    <2>1. Asked(name, stem) /\ Plain(stem)
        BY <1>1, <1>2, Zenon DEF Asked
    <2> QED  BY <1>1, <2>1, Zenon DEF RequestInv, AskedInv
<1>3. parse' # "idle" /\ parse' # "scanning" /\ parse' # "parsed"
    BY <1>1, Zenon
<1> QED  BY <1>1, <1>2, <1>3, Zenon DEF RequestInv, AskedInv

\* The file is looked up.
LEMMA ServedFind ==
    ASSUME PageInv, FindSound, NEW stem, Plain(stem), Served(stem)
    PROVE  Served(stem)'
<1>1. /\ sound_name' = sound_name /\ sound_name = stem
      /\ UNCHANGED <<sounds_dir, m_initialized>>
      /\ sounds_dir \subseteq Files
    BY Zenon DEF FindSound, Served, disk, player, PageInv
<1>2. \/ filepath' = findAudioFile(stem)
      \/ filepath' = NoFile /\ disturbed' = TRUE
    BY <1>1, Zenon DEF FindSound
<1>3. Available(stem)' <=> Available(stem)
    BY <1>1, AvailableKept, Zenon
<1>4. CASE filepath' = NoFile
    <2>1. stage' = "answered"
        BY <1>4, Zenon DEF FindSound, Answer
    <2>2. disturbed' \/ ~ Available(stem)
        BY <1>1, <1>2, <1>4, PlainIsFound, Zenon
    <2>3. stage' # "playing"
        BY <2>1, Zenon
    <2> QED  BY <1>1, <1>3, <2>1, <2>2, <2>3, Zenon DEF Served
<1>5. CASE filepath' # NoFile
    <2>1. stage' = "playing"
        BY <1>5, Zenon DEF FindSound
    <2>2. filepath' \in sounds_dir'
        BY <1>1, <1>2, <1>5, FoundByName, Zenon
    <2>3. stage' # "answered"
        BY <2>1, Zenon
    <2> QED  BY <1>1, <2>1, <2>2, <2>3, Zenon DEF Served
<1> QED  BY <1>4, <1>5, Zenon

\* The file is played.
LEMMA ServedPlay ==
    ASSUME PageInv, PlaySound, NEW stem, Served(stem)
    PROVE  Served(stem)'
<1>1. /\ stage = "playing" /\ sound_name' = sound_name /\ sound_name = stem
      /\ stage' = "answered" /\ UNCHANGED m_initialized
    BY Zenon DEF PlaySound, Served, request, Answer
<1>2. answers = << >>
    <2>1. stage # "answered"
        BY <1>1, Zenon
    <2> QED  BY <2>1, Zenon DEF PageInv
<1>3. stage' # "playing"
    BY <1>1, Zenon
<1>4. CASE Answer([kind |-> "played", sound |-> sound_name])
    <2>1. answers' = <<[kind |-> "played", sound |-> stem]>>
        BY <1>1, <1>2, <1>4 DEF Answer
    <2>2. \A i \in DOMAIN answers' :
              answers'[i] = [kind |-> "played", sound |-> stem]
        BY <2>1
    <2> QED  BY <1>1, <1>3, <2>2, Zenon DEF Served
<1>5. CASE (~ Playable \/ IOErrors) /\ disturbed' = (disturbed \/ Playable)
    <2>1. ~ disturbed' /\ m_initialized => FALSE
        BY <1>1, <1>5, Zenon DEF Served, Playable
    <2> QED  BY <1>1, <1>3, <2>1, Zenon DEF Served
<1> QED  BY <1>4, <1>5, Zenon DEF PlaySound

\* One step of the command.
LEMMA RequestRun ==
    ASSUME PageInv, RequestInv, RunSfx
    PROVE  RequestInv'
<1>1. UNCHANGED parser
    BY Zenon DEF RunSfx
<1>0. \A name : ~ TurnedDown(name)
    BY Zenon DEF RunSfx, SfxStep, ListSounds, AddToPage, PageError, FinishPage,
       ChooseSound, FindSound, PlaySound, TurnedDown
<1>2. CASE ListSounds \/ AddToPage \/ PageError \/ FinishPage \/ ChooseSound
    <2>1. stage \in {"listing", "paging", "choosing"} /\ stage' # "idle"
        BY <1>2, Zenon
        DEF ListSounds, AddToPage, PageError, FinishPage, ChooseSound,
           Answer
    <2>2. stage # "idle" /\ \A stem : ~ Served(stem)
        BY <2>1, Zenon DEF Served
    <2> QED  BY <1>0, <1>1, <2>1, <2>2, RequestServed, Zenon
<1>3. CASE FindSound
    <2>1. stage # "idle" /\ stage' # "idle"
        BY <1>3, Zenon DEF FindSound, Answer
    <2> QED  BY <1>0, <1>1, <1>3, <2>1, ServedFind, RequestServed, Zenon
<1>4. CASE PlaySound
    <2>1. stage # "idle" /\ stage' # "idle"
        BY <1>4, Zenon DEF PlaySound, Answer
    <2> QED  BY <1>0, <1>1, <1>4, <2>1, ServedPlay, RequestServed, Zenon
<1> QED  BY <1>2, <1>3, <1>4, Zenon DEF RunSfx, SfxStep

\* An edit while the command runs is remembered.
LEMMA RequestEdit ==
    ASSUME RequestInv, NEW f \in Files, Edit(f)
    PROVE  RequestInv'
<1>1. /\ UNCHANGED parser /\ stage' = stage /\ sound_name' = sound_name
      /\ disturbed' = (stage # "idle")
      /\ UNCHANGED <<answers, tracker, sender>>
    BY Zenon DEF Edit, EditSounds, request, clock
<1>2. CASE stage # "idle"
    <2>1. \A stem : Served(stem) => Served(stem)'
        BY <1>1, <1>2, Zenon DEF Served
    <2>2. \A name : TurnedDown(name) => TurnedDown(name)'
        BY <1>1, Zenon DEF TurnedDown, CoolingDown, tracker
    <2> QED  BY <1>1, <1>2, <2>1, <2>2, RequestServed, Zenon
<1>3. CASE stage = "idle"
    <2>1. UNCHANGED <<text, parse, pos, tokens, current_token, in_quotes,
                      escape_next>>
        BY <1>1, Zenon DEF parser, scan
    <2>2. \A name, stem : Asked(name, stem)' <=> Asked(name, stem)
        BY <2>1, Zenon DEF Asked
    <2>3. \A name, stem : QuotedScan(name, stem)' <=> QuotedScan(name, stem)
        BY <2>1, Zenon DEF QuotedScan
    <2>4. parse # "executing"
        BY <1>3, Zenon DEF RequestInv
    <2> QED
        BY <1>1, <1>3, <2>1, <2>2, <2>3, <2>4, Zenon DEF RequestInv, AskedInv
<1> QED  BY <1>2, <1>3, Zenon

\* The invariant of the requests, step by step.
LEMMA RequestNext ==
    ASSUME PageInv, ClockInv, RequestInv, [Next]_vars
    PROVE  RequestInv'
<1>1. ASSUME NEW m, ReceiveLine(m) PROVE RequestInv'
    BY <1>1, RequestReceive, Zenon DEF ReceiveLine
<1>2. CASE Tokenize
    BY <1>2, RequestScan, Zenon DEF Tokenize
<1>3. CASE Dispatch
    BY <1>3, RequestDispatch, Zenon
<1>4. CASE RunSfx
    BY <1>4, RequestRun, Zenon
<1>5. CASE ReturnToLoop
    <2>1. Forget /\ stage' = "idle"
        BY <1>5, Zenon DEF ReturnToLoop, Return
    <2> QED  BY <2>1, RequestForget, Zenon
<1>6. ASSUME NEW f \in Files, Edit(f) PROVE RequestInv'
    BY <1>6, RequestEdit, Zenon
<1>7. CASE Tick \/ UNCHANGED vars
    BY <1>7, RequestKept, Zenon DEF Tick, vars, clock
<1> QED
    BY <1>1, <1>2, <1>3, <1>4, <1>5, <1>6, <1>7, Zenon DEF Next

(***************************************************************************)
(* A sound that a page has shown, typed in quotes after any name of the    *)
(* command, is played, or the handler refuses it because that name was     *)
(* used less than one of its cooldowns ago; for every directory, every     *)
(* name of a sound that can be typed so, all cooldowns, and any bound on   *)
(* lines, edits and time: the sorted listing, the tokenizer and the lookup *)
(* by extension agree on what the sound is called.                         *)
(***************************************************************************)
THEOREM ListedSoundsPlay == Spec => []ListedSoundPlays
<1>1. Init => ListedInv /\ RequestInv /\ ClockInv
    <2> SUFFICES ASSUME Init PROVE ListedInv /\ RequestInv /\ ClockInv
        BY Zenon
    <2>1. /\ parse = "idle" /\ stage = "idle" /\ listed = {}
          /\ tokens = << >> /\ current_token = << >>
          /\ in_quotes = FALSE /\ escape_next = FALSE
        BY Zenon DEF Init, ParserInit, SfxInit
    <2>2. ListedInv
        BY <2>1, Zenon DEF ListedInv
    <2>3. parse # "scanning" /\ parse # "parsed" /\ parse # "executing"
        BY <2>1, Zenon
    <2>4. ClockInv
        BY <2>1 DEF Init, TrackerInit, ClockInv, Time
    <2> QED  BY <2>1, <2>2, <2>3, <2>4, Zenon DEF RequestInv, AskedInv
<1>2. /\ PageInv /\ ListedInv /\ RequestInv /\ ClockInv /\ [Next]_vars
      => ListedInv' /\ RequestInv' /\ ClockInv'
    BY ListedNext, RequestNext, ClockNext, Zenon
<1>3. PageInv /\ ListedInv /\ RequestInv => ListedSoundPlays
    <2> SUFFICES ASSUME PageInv, ListedInv, RequestInv,
                        NEW stem \in listed, NEW name \in Names,
                        NEW i \in DOMAIN answers,
                        Plain(stem), text = QuotedRequest(name, stem),
                        m_initialized, ~ disturbed
                 PROVE  \/ answers[i] = [kind |-> "played", sound |-> stem]
                        \/ /\ answers[i].kind = "on cooldown"
                           /\ CoolingDown(name, sender.user, answers[i].at)
        BY Zenon DEF ListedSoundPlays
    <2>1. Available(stem)
        BY Zenon DEF ListedInv
    <2>2. PICK f \in Files : f.stem = stem
        BY <2>1, Zenon DEF Available, AudioFiles, PageInv
    <2>3. stem \in Stems /\ Asked(name, stem)
        BY <2>2, FileTypes, Zenon DEF Stems, Asked
    <2>4. stage = "answered"
        <3>1. answers # << >>
            OBVIOUS
        <3> QED  BY <3>1, Zenon DEF PageInv
    <2>5. parse = "executing"
        BY <2>4, Zenon DEF RequestInv
    <2>6. Served(stem) \/ TurnedDown(name)
        BY <2>3, <2>5, Zenon DEF RequestInv, AskedInv
    <2> QED  BY <2>1, <2>4, <2>6, Zenon DEF Served, TurnedDown
<1> QED  BY <1>1, <1>2, <1>3, PageInvariant, PTL DEF Spec
=============================================================================
