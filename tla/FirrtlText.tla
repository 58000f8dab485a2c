----------------------------- MODULE FirrtlText -----------------------------
(***************************************************************************)
(* A FIRRTL text as its lines, and the tokens the lexer makes of it: the   *)
(* depths of its lines become INDENTs and DEDENTs, as module IndentLexer   *)
(* has it step by step.                                                    *)
(***************************************************************************)
EXTENDS Integers, Sequences, SequencesExt

Ends == {"newline",   \* a line break, where all open blocks are closed
         "blanks",    \* a line break and blanks: the blocks stay open
         "text",      \* the last token, with nothing behind it
         "nomatch",   \* a character that starts no token
         "throws"}    \* an indentation for which the lexer throws

Line(depth, words) == [depth |-> depth, words |-> words]

Times(n, token) == [i \in 1 .. n |-> token]

Blocks(from, to) ==
  IF to > from THEN Times(to - from, "INDENT") ELSE Times(from - to, "DEDENT")

(* The tokens of the first n lines.                                        *)
Lexed(lines, n) ==
  LET Add(tokens, i) ==
        tokens \o Blocks(IF i = 1 THEN 0 ELSE lines[i - 1].depth, lines[i].depth)
               \o lines[i].words
  IN  FoldLeft(Add, <<>>, [i \in 1 .. n |-> i])

(* Variant: there is a token for each bracket.                             *)
NoTokenButBrackets == {"no-token"}

(***************************************************************************)
(* What no token begins with: the brackets of an index or a vector, though *)
(* the grammar asks for them, and what else is written and is no token.    *)
(***************************************************************************)
NoToken == {"[", "]", "no-token"}

(* The lines as far as the lexer can read them.                            *)
Readable(lines) ==
  LET bad == {i \in 1 .. Len(lines) : ToSet(lines[i].words) \cap NoToken # {}}
  IN  IF bad = {} THEN lines
      ELSE LET line == lines[Min(bad)]
               word == SelectInSeq(line.words, LAMBDA w : w \in NoToken)
           IN  Append(SubSeq(lines, 1, Min(bad) - 1),
                      Line(line.depth, SubSeq(line.words, 1, word - 1)))

(***************************************************************************)
(* For each line the token it begins at and its depth are kept beside the  *)
(* tokens, for the properties: the parser never sees a line.               *)
(***************************************************************************)
TextOf(lines, end) ==
  [tokens |-> Lexed(lines, Len(lines))
                \o (IF end = "newline" THEN Blocks(Last(lines).depth, 0) ELSE <<>>),
   lines  |-> [i \in 1 .. Len(lines) |->
                 [at |-> Len(Lexed(lines, i)) - Len(lines[i].words) + 1,
                  depth |-> lines[i].depth]],
   end    |-> end]

Text(lines, end) ==
  IF Readable(lines) = lines THEN TextOf(lines, end)
                             ELSE TextOf(Readable(lines), "nomatch")
=============================================================================
