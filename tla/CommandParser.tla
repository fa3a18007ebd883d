--------------------------- MODULE CommandParser ---------------------------
(***************************************************************************)
(* CommandParser::parseAndExecute up to the lookup of the handler          *)
(* (command_parser.cpp): a chat line that starts with the prefix is split  *)
(* into tokens, one character per step, with the two flags the loop keeps. *)
(* The registry of handlers is part of LuaCommandEngine.                   *)
(*                                                                         *)
(* Characters are those the tokenizer tells apart: the space stands for    *)
(* all that isspace accepts.  The prefix is the default one, as nobody     *)
(* calls setPrefix.                                                        *)
(***************************************************************************)
EXTENDS Integers, Sequences, FiniteSets

CONSTANTS
    Letters,                         \* characters without a special meaning
    Prefix, Space, Quote, Backslash  \* the others

Chars == Letters \cup {Prefix, Space, Quote, Backslash}

ASSUME CharAssumption ==
    /\ Letters \cap {Prefix, Space, Quote, Backslash} = {}
    /\ Space # Quote /\ Space # Backslash /\ Quote # Backslash
    /\ Prefix \notin {Space, Quote, Backslash}

VARIABLES
    text,           \* ChatMessage::text of the line being handled
    parse,          \* "idle", "scanning" (in tokenize), "parsed" or "executing"
    pos,            \* the character the loop looks at next
    tokens, current_token, in_quotes, escape_next  \* locals of tokenize

scan == <<tokens, current_token, in_quotes, escape_next>>
parser == <<text, parse, pos, scan>>

ParserInit ==
    /\ text = << >> /\ parse = "idle" /\ pos = 1
    /\ tokens = << >> /\ current_token = << >>
    /\ in_quotes = FALSE /\ escape_next = FALSE

isCommand(t) == t # << >> /\ t[1] = Prefix

\* The prefix is cut off and tokenize called on the rest.
Receive(t) ==
    /\ parse = "idle" /\ isCommand(t)
    /\ text' = t /\ parse' = "scanning" /\ pos' = 2
    /\ UNCHANGED scan

\* Faulty variant of Flushed: an empty token is pushed as well.
FlushedAlways == Append(tokens, current_token)

\* tokens once current_token has been pushed, which an empty one is not.
Flushed == IF current_token = << >> THEN tokens
           ELSE Append(tokens, current_token)

\* What the body of tokenize's loop does with character c.
TokenizeStep(c) ==
    IF escape_next
    THEN /\ current_token' = Append(current_token, c)
         /\ escape_next' = FALSE
         /\ UNCHANGED <<tokens, in_quotes>>
    ELSE IF c = Backslash
    THEN escape_next' = TRUE /\ UNCHANGED <<tokens, current_token, in_quotes>>
    ELSE IF c = Quote
    THEN /\ in_quotes' = ~ in_quotes
         /\ UNCHANGED <<tokens, current_token, escape_next>>
    ELSE IF c = Space /\ ~ in_quotes
    THEN /\ tokens' = Flushed /\ current_token' = << >>
         /\ UNCHANGED <<in_quotes, escape_next>>
    ELSE /\ current_token' = Append(current_token, c)
         /\ UNCHANGED <<tokens, in_quotes, escape_next>>

tokenize ==
    /\ parse = "scanning" /\ pos <= Len(text)
    /\ TokenizeStep(text[pos])
    /\ pos' = pos + 1
    /\ UNCHANGED <<text, parse>>

\* The loop is over: the last token, quoted or not, is pushed.
TokenizeEnd ==
    /\ parse = "scanning" /\ pos > Len(text)
    /\ tokens' = Flushed
    /\ parse' = "parsed"
    /\ UNCHANGED <<text, pos, current_token, in_quotes, escape_next>>

\* What parseCommand returns; no tokens at all are an empty command.
Command == tokens[1]
Args == Tail(tokens)

\* parseAndExecute returns.
Forget ==
    /\ text' = << >> /\ parse' = "idle" /\ pos' = 1
    /\ tokens' = << >> /\ current_token' = << >>
    /\ in_quotes' = FALSE /\ escape_next' = FALSE

Tokenizing == tokenize \/ TokenizeEnd

-----------------------------------------------------------------------------
(***************************************************************************)
(* The words of a line t, defined without reading it from left to right.   *)
(* A character is escaped by an odd number of backslashes before it,       *)
(* quoted by an odd number of quotes that are not escaped; spaces that are *)
(* neither separate words, and what is neither separator nor a working     *)
(* quote or backslash is a character of a word.                            *)
(***************************************************************************)
Escaped(t, i) ==
    \E k \in 0..(i - 2) :
        /\ k % 2 = 1
        /\ \A j \in (i - k)..(i - 1) : t[j] = Backslash
        /\ i - k = 2 \/ t[i - k - 1] # Backslash
WorkingQuotes(t, i) ==
    {j \in 2..(i - 1) : t[j] = Quote /\ ~ Escaped(t, j)}
Quoted(t, i) == Cardinality(WorkingQuotes(t, i)) % 2 = 1
Separators(t) ==
    {i \in 2..Len(t) : t[i] = Space /\ ~ Escaped(t, i) /\ ~ Quoted(t, i)}
Literals(t) ==
    {i \in 2..Len(t) \ Separators(t) :
        Escaped(t, i) \/ t[i] \notin {Quote, Backslash}}

\* Literals i and j belong to the same word; the place of i's word among the
\* words, and of i in it.
SameWord(t, i, j) == \A s \in Separators(t) : s < i <=> s < j
FirstOfWord(t, i) == \A j \in Literals(t) : j < i => ~ SameWord(t, i, j)
WordOf(t, i) ==
    Cardinality({j \in Literals(t) : j <= i /\ FirstOfWord(t, j)})
PlaceOf(t, i) ==
    Cardinality({j \in Literals(t) : j <= i /\ SameWord(t, i, j)})

\* The sequence w of sequences has the words of t.
AreWordsOf(w, t) ==
    /\ Len(w) = Cardinality({i \in Literals(t) : FirstOfWord(t, i)})
    /\ \A n \in DOMAIN w :
          Len(w[n]) = Cardinality({i \in Literals(t) : WordOf(t, i) = n})
    /\ \A i \in Literals(t) : w[WordOf(t, i)][PlaceOf(t, i)] = t[i]

(***************************************************************************)
(* tokenize computes the words: "Split string by spaces, respecting        *)
(* quotes" (command_parser.hpp).  Quotes can begin within a word or stay   *)
(* open, backslashes can escape spaces or end the line.                    *)
(***************************************************************************)
TokensAreWords == parse = "parsed" => AreWordsOf(tokens, text)
=============================================================================
