------------------------ MODULE CommandParser_proofs ------------------------
(***************************************************************************)
(* tokenize computes the words of a line, for every alphabet and every     *)
(* line.  The proof goes along the loop: what has been read up to a        *)
(* position are the words of the line as far as they begin before it.      *)
(***************************************************************************)
EXTENDS CommandParser, FiniteSetTheorems, TLAPS

Text == Seq(Chars)

\* The k characters before i are backslashes, and the one before them, if
\* there is one, is not.
Run(t, i, k) ==
    /\ \A j \in (i - k)..(i - 1) : t[j] = Backslash
    /\ i - k = 2 \/ t[i - k - 1] # Backslash

HasRun(t, i) == \E k \in 0..(i - 2) : Run(t, i, k)

\* Escaped says that there is such a run of odd length.
LEMMA EscapedByRun ==
    ASSUME NEW t, NEW i
    PROVE  Escaped(t, i) <=> \E k \in 0..(i - 2) : k % 2 = 1 /\ Run(t, i, k)
BY DEF Escaped, Run

\* There is only one run of backslashes before a position.
LEMMA RunIsUnique ==
    ASSUME NEW t \in Text, NEW i \in 2..(Len(t) + 1),
           NEW k \in 0..(i - 2), NEW m \in 0..(i - 2),
           Run(t, i, k), Run(t, i, m)
    PROVE  k = m
<1>1. ASSUME NEW a \in 0..(i - 2), NEW b \in 0..(i - 2), a < b,
             Run(t, i, a), Run(t, i, b)
      PROVE  FALSE
  <2>1. i - a # 2 /\ i - a - 1 \in (i - b)..(i - 1)
    BY <1>1 DEF Text
  <2>2. t[i - a - 1] = Backslash /\ t[i - a - 1] # Backslash
    BY <1>1, <2>1, Zenon DEF Run
  <2> QED
    BY <2>2
<1> QED
  BY <1>1

\* How the run before a position goes on.
LEMMA RunNext ==
    ASSUME NEW t \in Text, NEW p \in 2..Len(t), HasRun(t, p)
    PROVE  /\ HasRun(t, p + 1)
           /\ Escaped(t, p + 1) <=> (t[p] = Backslash /\ ~ Escaped(t, p))
<1>1. Len(t) \in Nat
  BY DEF Text
<1>2. CASE t[p] # Backslash
  <2>1. Run(t, p + 1, 0)
    BY <1>1, <1>2 DEF Run
  <2>2. 0 \in 0..((p + 1) - 2) /\ p + 1 \in 2..(Len(t) + 1)
    BY <1>1
  <2>3. ~ Escaped(t, p + 1)
    <3>1. SUFFICES ASSUME NEW k \in 0..((p + 1) - 2), k % 2 = 1,
                          Run(t, p + 1, k)
                   PROVE  FALSE
      BY EscapedByRun, Zenon
    <3>2. k = 0
      BY <2>1, <2>2, <3>1, RunIsUnique
    <3> QED
      BY <3>1, <3>2
  <2> QED
    BY <1>2, <2>1, <2>2, <2>3, Zenon DEF HasRun
<1>3. CASE t[p] = Backslash
  <2>1. PICK k \in 0..(p - 2) : Run(t, p, k)
    BY Zenon DEF HasRun
  <2>2. /\ k + 1 \in 0..((p + 1) - 2)
        /\ k + 1 \in Nat /\ k \in Nat /\ p \in Int
        /\ p + 1 \in 2..(Len(t) + 1) /\ p \in 2..(Len(t) + 1)
    BY <1>1
  <2>3. Run(t, p + 1, k + 1)
    <3>1. ASSUME NEW j \in ((p + 1) - (k + 1))..((p + 1) - 1)
          PROVE  t[j] = Backslash
      <4>1. j = p \/ j \in (p - k)..(p - 1)
        BY <2>2
      <4> QED
        BY <1>3, <2>1, <4>1, Zenon DEF Run
    <3>2. (p + 1) - (k + 1) = p - k
      BY <2>2
    <3> QED
      BY <2>1, <3>1, <3>2 DEF Run
  <2>4. Escaped(t, p) <=> k % 2 = 1
    <3>1. \A m \in 0..(p - 2) : Run(t, p, m) => m = k
      BY <2>1, <2>2, RunIsUnique
    <3> QED
      BY <2>1, <3>1, EscapedByRun, Zenon
  <2>5. Escaped(t, p + 1) <=> (k + 1) % 2 = 1
    <3>1. \A m \in 0..((p + 1) - 2) : Run(t, p + 1, m) => m = k + 1
      BY <2>2, <2>3, RunIsUnique
    <3> QED
      BY <2>2, <2>3, <3>1, EscapedByRun, Zenon
  <2>6. (k + 1) % 2 = 1 <=> ~ (k % 2 = 1)
    BY <2>2
  <2> QED
    BY <1>3, <2>2, <2>3, <2>4, <2>5, <2>6, Zenon DEF HasRun
<1> QED
  BY <1>2, <1>3

\* Where the loop begins, nothing is escaped or quoted.
LEMMA RunStart ==
    ASSUME NEW t \in Text
    PROVE  HasRun(t, 2) /\ ~ Escaped(t, 2) /\ ~ Quoted(t, 2)
<1>1. Run(t, 2, 0) /\ 0 \in 0..(2 - 2)
  BY DEF Run
<1>2. ~ Escaped(t, 2)
  BY DEF Escaped
<1>3. WorkingQuotes(t, 2) = {}
  BY DEF WorkingQuotes
<1>4. ~ Quoted(t, 2)
  BY <1>3, FS_EmptySet DEF Quoted
<1> QED
  BY <1>1, <1>2, <1>4 DEF HasRun

\* A quote that works turns quoting on or off.
LEMMA QuotedNext ==
    ASSUME NEW t \in Text, NEW p \in 2..Len(t)
    PROVE  Quoted(t, p + 1) <=>
               (Quoted(t, p) <=> ~ (t[p] = Quote /\ ~ Escaped(t, p)))
<1>1. Len(t) \in Nat
  BY DEF Text
<1>2. IsFiniteSet(WorkingQuotes(t, p))
  <2>1. IsFiniteSet(2..(p - 1))
    BY <1>1, FS_Interval
  <2>2. WorkingQuotes(t, p) \in SUBSET (2..(p - 1))
    BY DEF WorkingQuotes
  <2> QED
    BY <2>1, <2>2, FS_Subset
<1>3. Cardinality(WorkingQuotes(t, p)) \in Nat
  BY <1>2, FS_CardinalityType
<1>4. CASE t[p] = Quote /\ ~ Escaped(t, p)
  <2>1. WorkingQuotes(t, p + 1) = WorkingQuotes(t, p) \cup {p}
    BY <1>1, <1>4 DEF WorkingQuotes
  <2>2. p \notin WorkingQuotes(t, p)
    BY <1>1 DEF WorkingQuotes
  <2>3. Cardinality(WorkingQuotes(t, p + 1)) =
            Cardinality(WorkingQuotes(t, p)) + 1
    BY <1>2, <2>1, <2>2, FS_AddElement
  <2> QED
    BY <1>3, <1>4, <2>3 DEF Quoted
<1>5. CASE ~ (t[p] = Quote /\ ~ Escaped(t, p))
  <2>1. WorkingQuotes(t, p + 1) = WorkingQuotes(t, p)
    BY <1>1, <1>5 DEF WorkingQuotes
  <2> QED
    BY <1>5, <2>1 DEF Quoted
<1> QED
  BY <1>4, <1>5

-----------------------------------------------------------------------------
(***************************************************************************)
(* What tokenize has at position p.  The words that have begun before p    *)
(* are the complete tokens and the current one; a character belongs to the *)
(* current one just when no separator stands between it and p.             *)
(***************************************************************************)
Begun(t, p) == {i \in Literals(t) : i < p /\ FirstOfWord(t, i)}
OfWord(t, n, p) == {i \in Literals(t) : i < p /\ WordOf(t, i) = n}
Open(t, i, p) == \A s \in Separators(t) : s < p => s < i

Placed(t, i, word) ==
    PlaceOf(t, i) \in DOMAIN word /\ word[PlaceOf(t, i)] = t[i]

HasPlace(t, i, p, toks, cur) ==
    /\ WordOf(t, i) \in 1..(Len(toks) + 1)
    /\ WordOf(t, i) <= Len(toks) => Placed(t, i, toks[WordOf(t, i)])
    /\ WordOf(t, i) = Len(toks) + 1 => Placed(t, i, cur)
    /\ WordOf(t, i) = Len(toks) + 1 <=> Open(t, i, p)

Scanned(t, p, toks, cur) ==
    /\ Cardinality(Begun(t, p)) = Len(toks) + IF cur = << >> THEN 0 ELSE 1
    /\ \A n \in 1..Len(toks) : Len(toks[n]) = Cardinality(OfWord(t, n, p))
    /\ Len(cur) = Cardinality(OfWord(t, Len(toks) + 1, p))
    /\ \A i \in Literals(t) : i < p => HasPlace(t, i, p, toks, cur)

\* Sets of positions are finite.
LEMMA PositionsAreFinite ==
    ASSUME NEW t \in Text, NEW S \in SUBSET Literals(t)
    PROVE  IsFiniteSet(S) /\ Cardinality(S) \in Nat
<1>1. Len(t) \in Nat
  BY DEF Text
<1>2. IsFiniteSet(2..Len(t))
  BY <1>1, FS_Interval
<1>3. S \in SUBSET (2..Len(t))
  BY DEF Literals
<1> QED
  BY <1>2, <1>3, FS_Subset, FS_CardinalityType

\* One more position.
LEMMA OneMore ==
    ASSUME NEW t \in Text, NEW S \in SUBSET Literals(t), NEW p, p \notin S
    PROVE  Cardinality(S \cup {p}) = Cardinality(S) + 1
BY PositionsAreFinite, FS_AddElement

\* Positions are numbers, and a separator is no character of a word.
LEMMA PositionTypes ==
    ASSUME NEW t \in Text
    PROVE  /\ Len(t) \in Nat
           /\ Literals(t) \subseteq 2..Len(t)
           /\ Separators(t) \subseteq 2..Len(t)
           /\ \A i \in Literals(t) : i \notin Separators(t)
BY DEF Text, Literals, Separators

\* Before a character of a word, "open" and "the same word" are the same.
LEMMA OpenIsSameWord ==
    ASSUME NEW t \in Text, NEW i \in Literals(t), NEW p \in Literals(t), i < p
    PROVE  Open(t, i, p) <=> SameWord(t, p, i)
BY PositionTypes DEF Open, SameWord

\* The word and the place of the character at p, from what has been read.
LEMMA NextPlace ==
    ASSUME NEW t \in Text, NEW p \in Literals(t),
           NEW toks \in Seq(Text), NEW cur \in Text,
           Scanned(t, p, toks, cur)
    PROVE  /\ FirstOfWord(t, p) <=> cur = << >>
           /\ WordOf(t, p) = Len(toks) + 1
           /\ PlaceOf(t, p) = Len(cur) + 1
<1> DEFINE n == Len(toks) + 1
<1>1. /\ Len(t) \in Nat /\ p \in 2..Len(t)
      /\ Literals(t) \subseteq 2..Len(t)
      /\ Len(toks) \in Nat /\ Len(cur) \in Nat
  BY PositionTypes DEF Text
<1>2. \A i \in Literals(t) : i < p => (WordOf(t, i) = n <=> SameWord(t, p, i))
  BY OpenIsSameWord, Zenon DEF Scanned, HasPlace
<1>3. /\ OfWord(t, n, p) \in SUBSET Literals(t)
      /\ Begun(t, p) \in SUBSET Literals(t)
      /\ p \notin OfWord(t, n, p) /\ p \notin Begun(t, p)
  BY <1>1 DEF OfWord, Begun
<1>4. /\ Cardinality(OfWord(t, n, p)) = Len(cur)
      /\ Cardinality(Begun(t, p)) = Len(toks) + IF cur = << >> THEN 0 ELSE 1
  BY Zenon DEF Scanned
<1>5. cur = << >> <=> OfWord(t, n, p) = {}
  <2>1. IsFiniteSet(OfWord(t, n, p))
    BY <1>3, PositionsAreFinite
  <2>2. Cardinality(OfWord(t, n, p)) = 0 <=> OfWord(t, n, p) = {}
    BY <2>1, FS_EmptySet
  <2>3. cur = << >> <=> Len(cur) = 0
    BY DEF Text
  <2> QED
    BY <1>4, <2>2, <2>3
<1>6. FirstOfWord(t, p) <=> cur = << >>
  <2>1. FirstOfWord(t, p) <=> \A i \in Literals(t) : ~ (i < p /\ WordOf(t, i) = n)
    BY <1>2, Zenon DEF FirstOfWord
  <2>2. OfWord(t, n, p) = {} <=> \A i \in Literals(t) : ~ (i < p /\ WordOf(t, i) = n)
    BY Zenon DEF OfWord
  <2> QED
    BY <1>5, <2>1, <2>2, Zenon
<1>7. WordOf(t, p) = n
  <2> DEFINE first == {j \in Literals(t) : j <= p /\ FirstOfWord(t, j)}
  <2>1. CASE cur = << >>
    <3>1. first = Begun(t, p) \cup {p}
      BY <1>1, <1>6, <2>1 DEF Begun
    <3>2. Cardinality(first) = Cardinality(Begun(t, p)) + 1
      BY <1>3, <3>1, OneMore
    <3> QED
      BY <1>1, <1>4, <2>1, <3>2 DEF WordOf
  <2>2. CASE cur # << >>
    <3>1. first = Begun(t, p)
      BY <1>1, <1>6, <2>2 DEF Begun
    <3> QED
      BY <1>4, <2>2, <3>1 DEF WordOf
  <2> QED
    BY <2>1, <2>2
<1>8. PlaceOf(t, p) = Len(cur) + 1
  <2> DEFINE same == {j \in Literals(t) : j <= p /\ SameWord(t, p, j)}
  <2>1. SameWord(t, p, p)
    BY DEF SameWord
  <2>2. same = OfWord(t, n, p) \cup {p}
    <3>1. ASSUME NEW j PROVE j \in same <=> j \in OfWord(t, n, p) \cup {p}
      <4>1. \A i \in Literals(t) : i <= p <=> i < p \/ i = p
        BY <1>1
      <4> QED
        BY <1>2, <2>1, <4>1, Zenon DEF OfWord
    <3> QED
      BY <3>1, Zenon
  <2>3. Cardinality(same) = Cardinality(OfWord(t, n, p)) + 1
    BY <1>3, <2>2, OneMore
  <2> QED
    BY <1>4, <2>3 DEF PlaceOf
<1> QED
  BY <1>6, <1>7, <1>8

\* What Append adds to a sequence.
LEMMA Appended ==
    ASSUME NEW S, NEW s \in Seq(S), NEW e \in S
    PROVE  /\ Append(s, e) \in Seq(S) /\ Append(s, e) # << >>
           /\ Len(s) \in Nat /\ DOMAIN s = 1..Len(s)
           /\ Len(Append(s, e)) = Len(s) + 1
           /\ DOMAIN Append(s, e) = 1..(Len(s) + 1)
           /\ Append(s, e)[Len(s) + 1] = e
           /\ \A j \in 1..Len(s) : Append(s, e)[j] = s[j]
<1>1. /\ Append(s, e) \in Seq(S)
      /\ Len(s) \in Nat /\ DOMAIN s = 1..Len(s)
      /\ Len(Append(s, e)) = Len(s) + 1
  OBVIOUS
<1>2. Append(s, e) # << >> /\ DOMAIN Append(s, e) = 1..(Len(s) + 1)
  BY <1>1
<1>3. Append(s, e)[Len(s) + 1] = e
  OBVIOUS
<1>4. \A j \in 1..Len(s) : Append(s, e)[j] = s[j]
  OBVIOUS
<1> QED
  BY <1>1, <1>2, <1>3, <1>4

\* A character of a word is appended to the current token.
LEMMA ScanLiteral ==
    ASSUME NEW t \in Text, NEW p \in Literals(t),
           NEW toks \in Seq(Text), NEW cur \in Text,
           Scanned(t, p, toks, cur)
    PROVE  Scanned(t, p + 1, toks, Append(cur, t[p]))
<1> DEFINE n == Len(toks) + 1
           new == Append(cur, t[p])
<1>1. /\ Len(t) \in Nat /\ p \in 2..Len(t)
      /\ Literals(t) \subseteq 2..Len(t)
      /\ Separators(t) \subseteq 2..Len(t) /\ p \notin Separators(t)
      /\ Len(toks) \in Nat /\ Len(cur) \in Nat
  BY PositionTypes DEF Text
<1>2. /\ t[p] \in Chars
      /\ new \in Text /\ new # << >> /\ Len(new) = Len(cur) + 1
      /\ DOMAIN cur = 1..Len(cur) /\ DOMAIN new = 1..(Len(cur) + 1)
      /\ new[Len(cur) + 1] = t[p]
      /\ \A j \in 1..Len(cur) : new[j] = cur[j]
  <2>1. t[p] \in Chars
    BY <1>1 DEF Text
  <2>2. cur \in Seq(Chars)
    BY DEF Text
  <2>3. /\ new \in Seq(Chars) /\ new # << >> /\ DOMAIN cur = 1..Len(cur)
        /\ Len(new) = Len(cur) + 1 /\ DOMAIN new = 1..(Len(cur) + 1)
    BY <2>1, <2>2, Appended
  <2>4. new[Len(cur) + 1] = t[p] /\ \A j \in 1..Len(cur) : new[j] = cur[j]
    BY <2>1, <2>2, Appended
  <2> QED
    BY <2>1, <2>3, <2>4, Zenon DEF Text
<1>3. /\ FirstOfWord(t, p) <=> cur = << >>
      /\ WordOf(t, p) = n
      /\ PlaceOf(t, p) = Len(cur) + 1
  BY NextPlace, Zenon
<1>4. \A i \in Literals(t) : i < p + 1 <=> i < p \/ i = p
  BY <1>1
<1>5. Cardinality(Begun(t, p + 1)) = Len(toks) + 1
  <2>1. Cardinality(Begun(t, p)) = Len(toks) + IF cur = << >> THEN 0 ELSE 1
    BY Zenon DEF Scanned
  <2>2. Begun(t, p) \in SUBSET Literals(t) /\ p \notin Begun(t, p)
    BY <1>1 DEF Begun
  <2>3. CASE cur = << >>
    <3>1. Begun(t, p + 1) = Begun(t, p) \cup {p}
      BY <1>3, <1>4, <2>3 DEF Begun
    <3> QED
      BY <1>1, <2>1, <2>2, <2>3, <3>1, OneMore
  <2>4. CASE cur # << >>
    <3>1. Begun(t, p + 1) = Begun(t, p)
      BY <1>3, <1>4, <2>4 DEF Begun
    <3> QED
      BY <2>1, <2>4, <3>1
  <2> QED
    BY <2>3, <2>4
<1>6. ASSUME NEW m \in 1..Len(toks)
      PROVE  Len(toks[m]) = Cardinality(OfWord(t, m, p + 1))
  <2>1. WordOf(t, p) # m
    BY <1>1, <1>3
  <2>2. OfWord(t, m, p + 1) = OfWord(t, m, p)
    BY <1>4, <2>1 DEF OfWord
  <2> QED
    BY <2>2, Zenon DEF Scanned
<1>7. Len(new) = Cardinality(OfWord(t, n, p + 1))
  <2>1. OfWord(t, n, p + 1) = OfWord(t, n, p) \cup {p}
    BY <1>3, <1>4 DEF OfWord
  <2>2. OfWord(t, n, p) \in SUBSET Literals(t) /\ p \notin OfWord(t, n, p)
    BY <1>1 DEF OfWord
  <2>3. Len(cur) = Cardinality(OfWord(t, n, p))
    BY Zenon DEF Scanned
  <2> QED
    BY <1>2, <2>1, <2>2, <2>3, OneMore
<1>8. ASSUME NEW i \in Literals(t), i < p
      PROVE  HasPlace(t, i, p + 1, toks, new)
  <2>1. HasPlace(t, i, p, toks, cur)
    BY <1>8, Zenon DEF Scanned
  <2>2. Open(t, i, p + 1) <=> Open(t, i, p)
    BY <1>1 DEF Open
  <2>3. Placed(t, i, cur) => Placed(t, i, new)
    BY <1>1, <1>2 DEF Placed
  <2> QED
    BY <2>1, <2>2, <2>3, Zenon DEF HasPlace
<1>9. HasPlace(t, p, p + 1, toks, new)
  <2>1. Open(t, p, p + 1)
    BY <1>1 DEF Open
  <2>2. Placed(t, p, new)
    BY <1>1, <1>2, <1>3 DEF Placed
  <2>3. WordOf(t, p) \in 1..(Len(toks) + 1) /\ ~ (WordOf(t, p) <= Len(toks))
    BY <1>1, <1>3
  <2> QED
    BY <1>3, <2>1, <2>2, <2>3, Zenon DEF HasPlace
<1>10. \A i \in Literals(t) : i < p + 1 => HasPlace(t, i, p + 1, toks, new)
  BY <1>4, <1>8, <1>9, Zenon
<1> QED
  BY <1>2, <1>5, <1>6, <1>7, <1>10 DEF Scanned

\* A quote or backslash that works leaves the tokens as they are.
LEMMA ScanMark ==
    ASSUME NEW t \in Text, NEW p \in 2..Len(t),
           p \notin Literals(t), p \notin Separators(t),
           NEW toks \in Seq(Text), NEW cur \in Text,
           Scanned(t, p, toks, cur)
    PROVE  Scanned(t, p + 1, toks, cur)
<1>1. /\ Len(t) \in Nat
      /\ Literals(t) \subseteq 2..Len(t)
      /\ Separators(t) \subseteq 2..Len(t)
  BY PositionTypes
<1>2. \A i \in Literals(t) : i < p + 1 <=> i < p
  BY <1>1
<1>3. Begun(t, p + 1) = Begun(t, p)
  BY <1>2 DEF Begun
<1>4. ASSUME NEW n PROVE OfWord(t, n, p + 1) = OfWord(t, n, p)
  BY <1>2 DEF OfWord
<1>5. ASSUME NEW i PROVE Open(t, i, p + 1) <=> Open(t, i, p)
  BY <1>1 DEF Open
<1>6. \A i : HasPlace(t, i, p, toks, cur) => HasPlace(t, i, p + 1, toks, cur)
  BY <1>5, Zenon DEF HasPlace
<1> QED
  BY <1>2, <1>3, <1>4, <1>6, Zenon DEF Scanned

\* tokens and current_token after a push.
Pushed(toks, cur) == IF cur = << >> THEN toks ELSE Append(toks, cur)

\* A push turns the current token into the last complete one.
LEMMA PushedFacts ==
    ASSUME NEW t \in Text, NEW p, NEW toks \in Seq(Text), NEW cur \in Text,
           Scanned(t, p, toks, cur)
    PROVE  /\ Pushed(toks, cur) \in Seq(Text)
           /\ Cardinality(Begun(t, p)) = Len(Pushed(toks, cur))
           /\ \A n \in 1..Len(Pushed(toks, cur)) :
                 Len(Pushed(toks, cur)[n]) = Cardinality(OfWord(t, n, p))
           /\ \A i \in Literals(t) : i < p =>
                 /\ WordOf(t, i) \in 1..Len(Pushed(toks, cur))
                 /\ Placed(t, i, Pushed(toks, cur)[WordOf(t, i)])
<1> DEFINE m == Len(toks) + 1
           all == Pushed(toks, cur)
<1>1. Len(toks) \in Nat
  OBVIOUS
<1>2. \A i \in Literals(t) : i < p => HasPlace(t, i, p, toks, cur)
  BY Zenon DEF Scanned
<1>3. CASE cur = << >>
  <2>1. all = toks
    BY <1>3, Zenon DEF Pushed
  <2>2. Cardinality(Begun(t, p)) = Len(toks)
    BY <1>1, <1>3 DEF Scanned
  <2>3. ASSUME NEW i \in Literals(t), i < p
        PROVE  WordOf(t, i) \in 1..Len(toks)
    <3>1. WordOf(t, i) \in 1..(Len(toks) + 1)
      BY <1>2, <2>3, Zenon DEF HasPlace
    <3>2. ~ Placed(t, i, cur)
      BY <1>3 DEF Placed
    <3>3. WordOf(t, i) # m
      BY <1>2, <2>3, <3>2, Zenon DEF HasPlace
    <3> QED
      BY <1>1, <3>1, <3>3
  <2>4. ASSUME NEW i \in Literals(t), i < p
        PROVE  Placed(t, i, toks[WordOf(t, i)])
    <3>1. WordOf(t, i) <= Len(toks)
      BY <1>1, <2>3, <2>4
    <3> QED
      BY <1>2, <2>4, <3>1, Zenon DEF HasPlace
  <2> QED
    BY <2>1, <2>2, <2>3, <2>4, Zenon DEF Scanned
<1>4. CASE cur # << >>
  <2>1. all = Append(toks, cur)
    BY <1>4, Zenon DEF Pushed
  <2>2. /\ all \in Seq(Text) /\ Len(all) = m
        /\ all[m] = cur
        /\ \A n \in 1..Len(toks) : all[n] = toks[n]
    BY <2>1, Appended
  <2>3. Cardinality(Begun(t, p)) = m
    BY <1>1, <1>4 DEF Scanned
  <2>4. \A n \in 1..m : n \in 1..Len(toks) \/ n = m
    BY <1>1
  <2>5. \A n \in 1..m : Len(all[n]) = Cardinality(OfWord(t, n, p))
    BY <2>2, <2>4, Zenon DEF Scanned
  <2>6. ASSUME NEW i \in Literals(t), i < p
        PROVE  /\ WordOf(t, i) \in 1..m
               /\ Placed(t, i, all[WordOf(t, i)])
    <3>1. WordOf(t, i) \in 1..m
      BY <1>2, <2>6, Zenon DEF HasPlace
    <3>2. WordOf(t, i) = m \/ (/\ WordOf(t, i) \in 1..Len(toks)
                               /\ WordOf(t, i) <= Len(toks))
      BY <1>1, <3>1
    <3> QED
      BY <1>2, <2>2, <2>6, <3>1, <3>2, Zenon DEF HasPlace
  <2> QED
    BY <2>2, <2>3, <2>5, <2>6, Zenon
<1> QED
  BY <1>3, <1>4, Zenon

\* A separator ends the current token, if there is one.
LEMMA ScanSeparator ==
    ASSUME NEW t \in Text, NEW p \in Separators(t),
           NEW toks \in Seq(Text), NEW cur \in Text,
           Scanned(t, p, toks, cur)
    PROVE  Scanned(t, p + 1, Pushed(toks, cur), << >>)
<1> DEFINE all == Pushed(toks, cur)
<1>1. /\ Len(t) \in Nat /\ p \in 2..Len(t) /\ p \notin Literals(t)
      /\ Literals(t) \subseteq 2..Len(t)
      /\ Separators(t) \subseteq 2..Len(t)
  BY PositionTypes
<1>2. /\ all \in Seq(Text)
      /\ Cardinality(Begun(t, p)) = Len(all)
      /\ \A n \in 1..Len(all) : Len(all[n]) = Cardinality(OfWord(t, n, p))
      /\ \A i \in Literals(t) : i < p =>
            /\ WordOf(t, i) \in 1..Len(all)
            /\ Placed(t, i, all[WordOf(t, i)])
  BY PushedFacts, Zenon
<1>3. Len(all) \in Nat
  BY <1>2
<1>4. \A i \in Literals(t) : i < p + 1 <=> i < p
  BY <1>1
<1>5. Begun(t, p + 1) = Begun(t, p)
  BY <1>4 DEF Begun
<1>6. ASSUME NEW n PROVE OfWord(t, n, p + 1) = OfWord(t, n, p)
  BY <1>4 DEF OfWord
<1>7. OfWord(t, Len(all) + 1, p + 1) = {}
  BY <1>2, <1>3, <1>4 DEF OfWord
<1>8. Len(<< >>) = Cardinality(OfWord(t, Len(all) + 1, p + 1))
  BY <1>7, FS_EmptySet
<1>9. ASSUME NEW i \in Literals(t), i < p + 1
      PROVE  HasPlace(t, i, p + 1, all, << >>)
  <2>1. ~ Open(t, i, p + 1)
    BY <1>1, <1>4, <1>9 DEF Open
  <2>2. WordOf(t, i) \in 1..Len(all) /\ Placed(t, i, all[WordOf(t, i)])
    BY <1>2, <1>4, <1>9, Zenon
  <2>3. WordOf(t, i) \in 1..(Len(all) + 1) /\ WordOf(t, i) # Len(all) + 1
    BY <1>3, <2>2
  <2> QED
    BY <2>1, <2>2, <2>3, Zenon DEF HasPlace
<1>10. Cardinality(Begun(t, p + 1)) =
           Len(all) + IF << >> = << >> THEN 0 ELSE 1
  BY <1>2, <1>3, <1>5
<1> QED
  BY <1>2, <1>6, <1>8, <1>9, <1>10, Zenon DEF Scanned

\* Where the loop begins, nothing has been read.
LEMMA ScanStart ==
    ASSUME NEW t \in Text
    PROVE  Scanned(t, 2, << >>, << >>)
<1>1. \A i \in Literals(t) : ~ (i < 2)
  BY PositionTypes
<1>2. Begun(t, 2) = {} /\ \A n : OfWord(t, n, 2) = {}
  BY <1>1, Zenon DEF Begun, OfWord
<1>3. Cardinality(Begun(t, 2)) = Len(<< >>) + IF << >> = << >> THEN 0 ELSE 1
  BY <1>2, FS_EmptySet
<1>4. Len(<< >>) = Cardinality(OfWord(t, Len(<< >>) + 1, 2))
  BY <1>2, FS_EmptySet
<1>5. 1..Len(<< >>) = {}
  OBVIOUS
<1> QED
  BY <1>1, <1>3, <1>4, <1>5, Zenon DEF Scanned

\* At the end of the line, the tokens are its words.
LEMMA ScanEnd ==
    ASSUME NEW t \in Text, NEW toks \in Seq(Text), NEW cur \in Text,
           Scanned(t, Len(t) + 1, toks, cur)
    PROVE  AreWordsOf(Pushed(toks, cur), t)
<1> DEFINE all == Pushed(toks, cur)
           p == Len(t) + 1
<1>1. \A i \in Literals(t) : i < p
  BY PositionTypes
<1>2. Begun(t, p) = {i \in Literals(t) : FirstOfWord(t, i)}
  BY <1>1, Zenon DEF Begun
<1>3. \A n : OfWord(t, n, p) = {i \in Literals(t) : WordOf(t, i) = n}
  BY <1>1, Zenon DEF OfWord
<1>4. /\ all \in Seq(Text)
      /\ Cardinality(Begun(t, p)) = Len(all)
      /\ \A n \in 1..Len(all) : Len(all[n]) = Cardinality(OfWord(t, n, p))
      /\ \A i \in Literals(t) : i < p =>
            /\ WordOf(t, i) \in 1..Len(all)
            /\ Placed(t, i, all[WordOf(t, i)])
  BY PushedFacts, Zenon
<1>5. DOMAIN all = 1..Len(all)
  BY <1>4
<1> QED
  BY <1>1, <1>2, <1>3, <1>4, <1>5, Zenon DEF AreWordsOf, Placed

-----------------------------------------------------------------------------
(***************************************************************************)
(* The loop: its flags say whether the next character is escaped or        *)
(* quoted, and its tokens are what it has scanned.                         *)
(***************************************************************************)
LoopInv(t, p, toks, cur, quotes, escape) ==
    /\ t \in Text /\ p \in 2..(Len(t) + 1)
    /\ toks \in Seq(Text) /\ cur \in Text
    /\ quotes \in BOOLEAN /\ quotes <=> Quoted(t, p)
    /\ escape \in BOOLEAN /\ escape <=> Escaped(t, p)
    /\ HasRun(t, p)
    /\ Scanned(t, p, toks, cur)

TokenInv ==
    /\ parse = "idle" => /\ tokens = << >> /\ current_token = << >>
                         /\ in_quotes = FALSE /\ escape_next = FALSE
    /\ parse = "scanning" =>
          LoopInv(text, pos, tokens, current_token, in_quotes, escape_next)
    /\ TokensAreWords

\* Which of the three kinds of position the loop is at, by its flags.
LEMMA KindOfPosition ==
    ASSUME NEW t \in Text, NEW p \in 2..Len(t)
    PROVE  /\ Escaped(t, p) => p \in Literals(t)
           /\ ~ Escaped(t, p) /\ t[p] \in {Backslash, Quote} =>
                 p \notin Literals(t) /\ p \notin Separators(t)
           /\ ~ Escaped(t, p) /\ t[p] = Space /\ ~ Quoted(t, p) =>
                 p \in Separators(t)
           /\ /\ ~ Escaped(t, p) /\ t[p] \notin {Backslash, Quote}
              /\ ~ (t[p] = Space /\ ~ Quoted(t, p))
              => p \in Literals(t)
BY CharAssumption DEF Literals, Separators

\* The body of the loop.
LEMMA LoopStep ==
    ASSUME LoopInv(text, pos, tokens, current_token, in_quotes, escape_next),
           pos <= Len(text), TokenizeStep(text[pos])
    PROVE  LoopInv(text, pos + 1, tokens', current_token', in_quotes',
                   escape_next')
<1> DEFINE c == text[pos]
<1>1. /\ text \in Text /\ pos \in 2..(Len(text) + 1)
      /\ tokens \in Seq(Text) /\ current_token \in Text
      /\ in_quotes \in BOOLEAN /\ in_quotes <=> Quoted(text, pos)
      /\ escape_next \in BOOLEAN /\ escape_next <=> Escaped(text, pos)
      /\ HasRun(text, pos)
      /\ Scanned(text, pos, tokens, current_token)
  BY Zenon DEF LoopInv
<1>2. Len(text) \in Nat
  BY <1>1 DEF Text
<1>3. pos \in 2..Len(text) /\ pos + 1 \in 2..(Len(text) + 1)
  BY <1>1, <1>2
<1>4. c \in Chars
  BY <1>1, <1>3 DEF Text
<1>5. /\ HasRun(text, pos + 1)
      /\ Escaped(text, pos + 1) <=> (c = Backslash /\ ~ Escaped(text, pos))
  BY <1>1, <1>3, RunNext, Zenon
<1>6. Quoted(text, pos + 1) <=>
          (Quoted(text, pos) <=> ~ (c = Quote /\ ~ Escaped(text, pos)))
  BY <1>1, <1>3, QuotedNext, Zenon
<1>7. Append(current_token, c) \in Text
  BY <1>1, <1>4 DEF Text
<1>8. Pushed(tokens, current_token) \in Seq(Text) /\ << >> \in Text
  <2>1. << >> \in Text
    BY DEF Text
  <2> QED
    BY <1>1, <2>1, PushedFacts, Zenon
<1>9. CASE escape_next
  <2>1. /\ current_token' = Append(current_token, c) /\ tokens' = tokens
        /\ escape_next' = FALSE /\ in_quotes' = in_quotes
    BY <1>9, Zenon DEF TokenizeStep
  <2>2. Scanned(text, pos + 1, tokens, Append(current_token, c))
    BY <1>1, <1>3, <1>9, KindOfPosition, ScanLiteral, Zenon
  <2> QED
    BY <1>1, <1>3, <1>5, <1>6, <1>7, <1>9, <2>1, <2>2, Zenon DEF LoopInv
<1>10. CASE ~ escape_next /\ c = Backslash
  <2>1. /\ current_token' = current_token /\ tokens' = tokens
        /\ escape_next' = TRUE /\ in_quotes' = in_quotes
    BY <1>10, Zenon DEF TokenizeStep
  <2>2. Scanned(text, pos + 1, tokens, current_token)
    BY <1>1, <1>3, <1>10, KindOfPosition, ScanMark, Zenon
  <2>3. c # Quote
    BY <1>10, CharAssumption
  <2> QED
    BY <1>1, <1>3, <1>5, <1>6, <1>10, <2>1, <2>2, <2>3, Zenon DEF LoopInv
<1>11. CASE ~ escape_next /\ c = Quote
  <2>1. c # Backslash
    BY <1>11, CharAssumption
  <2>2. /\ current_token' = current_token /\ tokens' = tokens
        /\ escape_next' = escape_next /\ in_quotes' = ~ in_quotes
    BY <1>11, <2>1, Zenon DEF TokenizeStep
  <2>3. Scanned(text, pos + 1, tokens, current_token)
    BY <1>1, <1>3, <1>11, KindOfPosition, ScanMark, Zenon
  <2>4. in_quotes' \in BOOLEAN
    BY <1>1, <2>2, Zenon
  <2> QED
    BY <1>1, <1>3, <1>5, <1>6, <1>11, <2>1, <2>2, <2>3, <2>4, Zenon
    DEF LoopInv
<1>12. CASE ~ escape_next /\ c = Space /\ ~ in_quotes
  <2>1. c # Backslash /\ c # Quote
    BY <1>12, CharAssumption
  <2>2. /\ current_token' = << >> /\ tokens' = Pushed(tokens, current_token)
        /\ escape_next' = escape_next /\ in_quotes' = in_quotes
    BY <1>12, <2>1, Zenon DEF TokenizeStep, Flushed, Pushed
  <2>3. Scanned(text, pos + 1, Pushed(tokens, current_token), << >>)
    BY <1>1, <1>3, <1>12, KindOfPosition, ScanSeparator, Zenon
  <2> QED
    BY <1>1, <1>3, <1>5, <1>6, <1>8, <1>12, <2>1, <2>2, <2>3, Zenon
    DEF LoopInv
<1>13. CASE /\ ~ escape_next /\ c # Backslash /\ c # Quote
            /\ ~ (c = Space /\ ~ in_quotes)
  <2>1. /\ current_token' = Append(current_token, c) /\ tokens' = tokens
        /\ escape_next' = escape_next /\ in_quotes' = in_quotes
    BY <1>13, Zenon DEF TokenizeStep
  <2>2. Scanned(text, pos + 1, tokens, Append(current_token, c))
    BY <1>1, <1>3, <1>13, KindOfPosition, ScanLiteral, Zenon
  <2> QED
    BY <1>1, <1>3, <1>5, <1>6, <1>7, <1>13, <2>1, <2>2, Zenon DEF LoopInv
<1> QED
  BY <1>9, <1>10, <1>11, <1>12, <1>13, Zenon

\* The parser begins without tokens.
LEMMA TokenStart == ParserInit => TokenInv
BY DEF ParserInit, TokenInv, TokensAreWords

\* A line arrives.
LEMMA TokenReceive ==
    ASSUME TokenInv, NEW t \in Text, Receive(t)
    PROVE  TokenInv'
<1>1. /\ parse = "idle" /\ parse' = "scanning"
      /\ text' = t /\ pos' = 2 /\ t # << >>
      /\ tokens' = << >> /\ current_token' = << >>
      /\ in_quotes' = FALSE /\ escape_next' = FALSE
  BY Zenon DEF Receive, isCommand, scan, TokenInv
<1>2. 2 \in 2..(Len(t) + 1) /\ << >> \in Text /\ << >> \in Seq(Text)
  BY <1>1 DEF Text
<1>3. LoopInv(t, 2, << >>, << >>, FALSE, FALSE)
  BY <1>2, RunStart, ScanStart, Zenon DEF LoopInv
<1>4. parse' # "idle" /\ parse' # "parsed"
  BY <1>1
<1> QED
  BY <1>1, <1>3, <1>4, Zenon DEF TokenInv, TokensAreWords

\* A character is handled, or the loop ends.
LEMMA TokenScan ==
    ASSUME TokenInv, Tokenizing
    PROVE  TokenInv'
<1>1. CASE tokenize
  <2>1. /\ parse = "scanning" /\ pos <= Len(text) /\ TokenizeStep(text[pos])
        /\ pos' = pos + 1 /\ text' = text /\ parse' = parse
    BY <1>1, Zenon DEF tokenize
  <2>2. LoopInv(text, pos + 1, tokens', current_token', in_quotes',
                escape_next')
    BY <2>1, LoopStep, Zenon DEF TokenInv
  <2>3. parse' # "idle" /\ parse' # "parsed"
    BY <2>1
  <2> QED
    BY <2>1, <2>2, <2>3, Zenon DEF TokenInv, TokensAreWords
<1>2. CASE TokenizeEnd
  <2>1. /\ parse = "scanning" /\ pos > Len(text) /\ parse' = "parsed"
        /\ tokens' = Pushed(tokens, current_token) /\ text' = text
    BY <1>2, Zenon DEF TokenizeEnd, Flushed, Pushed
  <2>2. LoopInv(text, pos, tokens, current_token, in_quotes, escape_next)
    BY <2>1, Zenon DEF TokenInv
  <2>3. text \in Text /\ pos \in 2..(Len(text) + 1)
    BY <2>2, Zenon DEF LoopInv
  <2>4. pos = Len(text) + 1
    BY <2>1, <2>3 DEF Text
  <2>5. AreWordsOf(tokens', text')
    BY <2>1, <2>2, <2>4, ScanEnd, Zenon DEF LoopInv
  <2>6. parse' # "idle" /\ parse' # "scanning"
    BY <2>1
  <2> QED
    BY <2>5, <2>6, Zenon DEF TokenInv, TokensAreWords
<1> QED
  BY <1>1, <1>2, Zenon DEF Tokenizing

\* The line is given to its handler, or forgotten, or left alone.
LEMMA TokenFrame ==
    ASSUME TokenInv, Forget \/ parse' = "executing" \/ UNCHANGED parser
    PROVE  TokenInv'
<1>1. CASE Forget
  BY <1>1 DEF Forget, TokenInv, TokensAreWords
<1>2. CASE parse' = "executing"
  BY <1>2 DEF TokenInv, TokensAreWords
<1>3. CASE UNCHANGED parser
  BY <1>3, Zenon DEF parser, scan, TokenInv, TokensAreWords
<1> QED
  BY <1>1, <1>2, <1>3
=============================================================================
