-------------------------------- MODULE Quotes --------------------------------
(***************************************************************************)
(* A string on its way through the program: the lexer matches a quoted     *)
(* token, takes the quotes and the escapes out of it in its own buffer,    *)
(* and the FIRRTL backend writes the format of a printf between quotes     *)
(* again, as it is.                                                        *)
(*                                                                         *)
(* A text is a sequence of characters: "q" is the quote of the token, "bs" *)
(* the backslash, "c" any other.                                           *)
(***************************************************************************)
EXTENDS Integers, SequencesExt

CONSTANTS
  Sources,      \* what the lexer may find where a string begins
  Behind        \* what may follow a string that the backend wrote

(* A string begins with a quote, and the backend writes no quote behind    *)
(* one.                                                                    *)
ASSUME SourcesAssumption ==
  /\ \A s \in Sources \cup Behind : s \in Seq({"q", "bs", "c"})
  /\ \A s \in Sources : s # <<>> /\ s[1] = "q"
  /\ \A s \in Behind : s # <<>> => s[1] # "q"

VARIABLES
  kind,         \* "double" or "single": which of the two tokens
  source,       \* the text from where the string begins
  val,          \* the buffer, the token at first
  in, outidx,   \* where it is read, counted from 1; how much is written
  written,      \* the value that was read and written, or <<>>
  outcome       \* "lexing", "unquoting", "value", "failed", or "unmatched"

strings == <<kind, source, val, in, outidx, written, outcome>>

-----------------------------------------------------------------------------
(* Where the quotes begin that p is one of.                                *)
RunStart(s, p) ==
  CHOOSE r \in 1 .. p : /\ \A i \in r .. p : s[i] = "q"
                        /\ r = 1 \/ s[r - 1] # "q"

(* The quotes at p are an odd number so far.                               *)
OddAt(s, p) == s[p] = "q" /\ (p - RunStart(s, p)) % 2 = 0

Single(s, p) == OddAt(s, p) /\ (p = Len(s) \/ s[p + 1] # "q")

(***************************************************************************)
(* What may be between the quotes: quotes come in pairs, or with one more, *)
(* in a double quoted string, if a backslash is before them.               *)
(***************************************************************************)
Body(s) ==
  \A p \in 1 .. Len(s) :
    Single(s, p) => /\ kind = "double"
                    /\ RunStart(s, p) > 1
                    /\ s[RunStart(s, p) - 1] = "bs"

(* The lengths a string token may have; the lexer takes the longest.       *)
Lengths ==
  {n \in 2 .. Len(source) : source[n] = "q" /\ Body(SubSeq(source, 2, n - 1))}

-----------------------------------------------------------------------------
QuotesInit ==
  /\ kind \in {"double", "single"}
  /\ source \in Sources
  /\ val = <<>> /\ in = 1 /\ outidx = 0
  /\ written = <<>>
  /\ outcome = "lexing"

Lex ==
  /\ outcome = "lexing"
  /\ IF Lengths = {}
     THEN outcome' = "unmatched" /\ UNCHANGED val
     ELSE outcome' = "unquoting" /\ val' = SubSeq(source, 1, Max(Lengths))
  /\ in' = 1 /\ outidx' = 0
  /\ UNCHANGED <<kind, source, written>>

(* val[outidx++] = *in, where in is at p.                                  *)
AppendFrom(p) ==
  /\ val' = [val EXCEPT ![outidx + 1] = val[p]]
  /\ outidx' = outidx + 1
  /\ in' = p + 1
  /\ UNCHANGED outcome

AppendCharacter ==
  /\ outcome = "unquoting"
  /\ in <= Len(val) /\ val[in] # "q"
  /\ AppendFrom(in)
  /\ UNCHANGED <<kind, source, written>>

(* Variant: the escape is not left out.                                    *)
EatNothing ==
  /\ outcome = "unquoting"
  /\ in <= Len(val) /\ val[in] = "q"
  /\ IF in = Len(val)
     THEN /\ val' = SubSeq(val, 1, outidx)
          /\ outcome' = "value"
          /\ UNCHANGED <<in, outidx>>
     ELSE AppendFrom(in)
  /\ UNCHANGED <<kind, source, written>>

(***************************************************************************)
(* A quote, the one that begins the token too, is left out and what is     *)
(* behind it appended, whatever that is.  If nothing is, it was the last.  *)
(***************************************************************************)
EatQuote ==
  /\ outcome = "unquoting"
  /\ in <= Len(val) /\ val[in] = "q"
  /\ IF in = Len(val)
     THEN /\ val' = SubSeq(val, 1, outidx)
          /\ outcome' = "value"
          /\ UNCHANGED <<in, outidx>>
     ELSE AppendFrom(in + 1)
  /\ UNCHANGED <<kind, source, written>>

NotEnded ==
  /\ outcome = "unquoting"
  /\ in = Len(val) + 1
  /\ outcome' = "failed"
  /\ UNCHANGED <<kind, source, val, in, outidx, written>>

(* Variant: the quote at the end is forgotten.                             *)
QuotedOpen(s) == <<"q">> \o s

Quoted(s) == <<"q">> \o s \o <<"q">>

(* visit(Printf), and the lexer on what it wrote.                          *)
WriteAgain ==
  /\ outcome = "value"
  /\ kind = "double"
  /\ written = <<>>
  /\ \E tail \in Behind : source' = Quoted(val) \o tail
  /\ written' = val
  /\ outcome' = "lexing"
  /\ UNCHANGED <<kind, val, in, outidx>>

QuotesNext == Lex \/ AppendCharacter \/ EatQuote \/ NotEnded \/ WriteAgain

QuotesSpec == QuotesInit /\ [][QuotesNext]_strings

-----------------------------------------------------------------------------
(* What is between the quotes of the token.                                *)
Content == SubSeq(source, 2, Max(Lengths) - 1)

(* Without every second quote of those that stand together.                *)
Halved(s) ==
  LET upto[p \in 0 .. Len(s)] ==
        IF p = 0 THEN <<>>
        ELSE IF OddAt(s, p) THEN upto[p - 1] ELSE Append(upto[p - 1], s[p])
  IN  upto[Len(s)]

(***************************************************************************)
(* The value of a string is what its escapes stand for, with quotes given  *)
(* as two; one that is escaped by a backslash is lost and the backslash    *)
(* stays.  What can never be read are the strings that have nothing but    *)
(* quotes, the empty one among them, and those that end with a quote       *)
(* behind a backslash.                                                     *)
(***************************************************************************)
ReadAs ==
  /\ outcome = "value" => val = Halved(Content)
  /\ outcome \in {"value", "failed"} =>
       (outcome = "failed"
          <=> \/ \A p \in 1 .. Len(Content) : Content[p] = "q"
              \/ Single(Content, Len(Content)))

(***************************************************************************)
(* A string that was written is read as the same string exactly when there *)
(* is no quote in it, and no backslash at its end while another string     *)
(* follows: with that it becomes one string.                               *)
(***************************************************************************)
StringSurvives ==
  written # <<>> /\ outcome \in {"value", "failed", "unmatched"} =>
    LET tail == SubSeq(source, Len(written) + 3, Len(source))
    IN  (outcome = "value" /\ val = written)
          <=> /\ "q" \notin ToSet(written)
              /\ ~ (Last(written) = "bs" /\ "q" \in ToSet(tail))
=============================================================================
