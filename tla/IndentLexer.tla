----------------------------- MODULE IndentLexer -----------------------------
(***************************************************************************)
(* The lexer of the FIRRTL frontend as far as layout goes: its two states, *)
(* the stack of open indentation levels, and the INDENT and DEDENT tokens  *)
(* made by the semantic actions HandleIndent, HandleNewline and            *)
(* HandleEmpty.  What stands on a line is abstracted to one TEXT token.    *)
(*                                                                         *)
(* A line is [level, body, eol]: the blanks it starts with, what follows   *)
(* them, and whether a line break follows that.  Several line breaks in a  *)
(* row are one newline_ token, so an empty line exists only at the start.  *)
(***************************************************************************)
EXTENDS Integers, Sequences, FiniteSets

CONSTANT Documents    \* the inputs, each a sequence of lines

Bodies == {"blank",   \* nothing: emptyline matches
           "comment", \* a comment, or the \r of a blank line ended by \r\n
           "text",    \* tokens of the grammar
           "bad"}     \* a character that starts no token

Line == [level : Nat, body : Bodies, eol : BOOLEAN]

ASSUME DocumentsAssumption ==
  /\ Documents \subseteq Seq(Line)
  /\ \A d \in Documents : \A l \in 1 .. Len(d) :
       /\ l < Len(d) => d[l].eol
       /\ d[l].body = "blank" /\ d[l].level = 0 => l = 1 /\ d[l].eol

VARIABLES
  doc,         \* the input being read
  line,        \* the line the lexer is on
  rest,        \* what is left of that line: "indent", "body", "newline"
  lexState,    \* the state of the lexer, "INITIAL" or "NORMAL"
  scopeLevels, \* the stack scopeLevels_, its top last
  tokens,      \* every token handed to the parser, with the line it is of
  status       \* "lexing", or how the lexer ended

vars == <<doc, line, rest, lexState, scopeLevels, tokens, status>>

Outcomes == {"eof",       \* the end of the input was reached
             "threw",     \* a semantic action threw std::runtime_error
             "nomatch",   \* an invalid token was returned
             "undefined"} \* top() was called on an empty stack

Top == scopeLevels[Len(scopeLevels)]
Popped == SubSeq(scopeLevels, 1, Len(scopeLevels) - 1)

AtEnd == line > Len(doc)
Lexing(state, part) ==
  status = "lexing" /\ ~ AtEnd /\ lexState = state /\ rest = part

Emit(type) == tokens' = Append(tokens, [type |-> type, line |-> line])

(* What a line holds after its body: a line break, or the end of input.    *)
LeaveBody ==
  IF doc[line].eol THEN rest' = "newline" /\ UNCHANGED line
                   ELSE rest' = "indent" /\ line' = line + 1

-----------------------------------------------------------------------------
Init ==
  /\ doc \in Documents
  /\ line = 1
  /\ rest = "indent"
  /\ lexState = "INITIAL"
  /\ scopeLevels = <<>>
  /\ tokens = <<>>
  /\ status = "lexing"

(***************************************************************************)
(* State INITIAL: emptyline is the first token definition, so it wins over *)
(* indent_ on a line of blanks.                                            *)
(***************************************************************************)
(* Variant: the state stays INITIAL.                                       *)
HandleEmptyInitial ==
  /\ Lexing("INITIAL", "indent")
  /\ doc[line].body = "blank"
  /\ LeaveBody
  /\ UNCHANGED <<doc, lexState, scopeLevels, tokens, status>>

HandleEmpty ==
  /\ Lexing("INITIAL", "indent")
  /\ doc[line].body = "blank"
  /\ lexState' = "NORMAL"
  /\ LeaveBody
  /\ UNCHANGED <<doc, scopeLevels, tokens, status>>

Indented == Lexing("INITIAL", "indent") /\ doc[line].body # "blank"

IndentNotFromZero ==
  /\ Indented
  /\ scopeLevels = <<>>
  /\ doc[line].level # 0
  /\ status' = "threw"
  /\ UNCHANGED <<doc, line, rest, lexState, scopeLevels, tokens>>

(* The first line pushes its level 0 and then finds it on top.             *)
IndentSame ==
  /\ Indented
  /\ scopeLevels' = IF scopeLevels = <<>> THEN <<0>> ELSE scopeLevels
  /\ doc[line].level = scopeLevels'[Len(scopeLevels')]
  /\ lexState' = "NORMAL"
  /\ rest' = "body"
  /\ UNCHANGED <<doc, line, tokens, status>>

(* Variants: the same level opens a block; the difference is pushed.       *)
Deeper(level) ==
  /\ scopeLevels' = Append(scopeLevels, level)
  /\ Emit("INDENT")
  /\ lexState' = "NORMAL"
  /\ rest' = "body"
  /\ UNCHANGED <<doc, line, status>>

CanNest == Indented /\ scopeLevels # <<>>
IndentNotShallower ==
  CanNest /\ doc[line].level >= Top /\ Deeper(doc[line].level)
IndentRelative ==
  CanNest /\ doc[line].level > Top /\ Deeper(Top - doc[line].level)

IndentDeeper ==
  /\ Indented
  /\ scopeLevels # <<>>
  /\ doc[line].level > Top
  /\ scopeLevels' = Append(scopeLevels, doc[line].level)
  /\ Emit("INDENT")
  /\ lexState' = "NORMAL"
  /\ rest' = "body"
  /\ UNCHANGED <<doc, line, status>>

(* The match is made empty (end = start), so the same indentation is       *)
(* matched again in the same state until its level is on top.              *)
(* Variant: the level need not be one on the stack.                        *)
IndentDedentAnywhere ==
  /\ Indented
  /\ scopeLevels # <<>>
  /\ doc[line].level < Top
  /\ scopeLevels' = IF doc[line].level > Popped[Len(Popped)]
                    THEN Append(Popped, doc[line].level) ELSE Popped
  /\ Emit("DEDENT")
  /\ UNCHANGED <<doc, line, rest, lexState, status>>

IndentDedent ==
  /\ Indented
  /\ scopeLevels # <<>>
  /\ doc[line].level < Top
  /\ scopeLevels' = Popped
  /\ IF Popped = <<>> \/ doc[line].level > Popped[Len(Popped)]
     THEN status' = "threw" /\ UNCHANGED tokens
     ELSE Emit("DEDENT") /\ UNCHANGED status
  /\ UNCHANGED <<doc, line, rest, lexState>>

(***************************************************************************)
(* State NORMAL: the tokens of the line, then its line break.              *)
(***************************************************************************)
LexText ==
  /\ Lexing("NORMAL", "body")
  /\ doc[line].body = "text"
  /\ Emit("TEXT")
  /\ LeaveBody
  /\ UNCHANGED <<doc, lexState, scopeLevels, status>>

SkipComment ==
  /\ Lexing("NORMAL", "body")
  /\ doc[line].body = "comment"
  /\ LeaveBody
  /\ UNCHANGED <<doc, lexState, scopeLevels, tokens, status>>

LexNoMatch ==
  /\ Lexing("NORMAL", "body")
  /\ doc[line].body = "bad"
  /\ status' = "nomatch"
  /\ UNCHANGED <<doc, line, rest, lexState, scopeLevels, tokens>>

(* The last line break of the input closes one open block per match.       *)
(* Variant: a level is popped without its token.                           *)
NewlineAtEndSilent ==
  /\ Lexing("NORMAL", "newline")
  /\ line = Len(doc)
  /\ scopeLevels # <<>>
  /\ Top # 0
  /\ scopeLevels' = Popped
  /\ UNCHANGED <<doc, line, rest, lexState, tokens, status>>

NewlineAtEnd ==
  /\ Lexing("NORMAL", "newline")
  /\ line = Len(doc)
  /\ scopeLevels # <<>>
  /\ Top # 0
  /\ scopeLevels' = Popped
  /\ Emit("DEDENT")
  /\ UNCHANGED <<doc, line, rest, lexState, status>>

(* On the last line break top() is read without asking whether there is    *)
(* a top: nothing can be said of what follows.                             *)
NewlineOnEmptyStack ==
  /\ Lexing("NORMAL", "newline")
  /\ line = Len(doc)
  /\ scopeLevels = <<>>
  /\ status' = "undefined"
  /\ UNCHANGED <<doc, line, rest, lexState, scopeLevels, tokens>>

(* Variant: the end of the input is not asked for.                         *)
NewlineAnywhere ==
  /\ Lexing("NORMAL", "newline")
  /\ line' = line + 1
  /\ rest' = "indent"
  /\ lexState' = "INITIAL"
  /\ UNCHANGED <<doc, scopeLevels, tokens, status>>

Newline ==
  /\ Lexing("NORMAL", "newline")
  /\ line = Len(doc) => scopeLevels # <<>> /\ Top = 0
  /\ line' = line + 1
  /\ rest' = "indent"
  /\ lexState' = "INITIAL"
  /\ UNCHANGED <<doc, scopeLevels, tokens, status>>

(* The iterator asks for the end of the input before it matches anything.  *)
EndOfInput ==
  /\ status = "lexing"
  /\ AtEnd
  /\ status' = "eof"
  /\ UNCHANGED <<doc, line, rest, lexState, scopeLevels, tokens>>

Next ==
  \/ HandleEmpty
  \/ IndentNotFromZero \/ IndentSame \/ IndentDeeper \/ IndentDedent
  \/ LexText \/ SkipComment \/ LexNoMatch
  \/ NewlineAtEnd \/ NewlineOnEmptyStack \/ Newline
  \/ EndOfInput

Spec == Init /\ [][Next]_vars

(* The matching loop of the token iterator runs on as long as the parser   *)
(* asks for tokens.                                                        *)
FairSpec == Spec /\ WF_vars(Next)

-----------------------------------------------------------------------------
(* The values the state of the lexer ranges over.                          *)
TypeOK ==
  /\ doc \in Seq(Line)
  /\ line \in Nat \ {0}
  /\ rest \in {"indent", "body", "newline"}
  /\ lexState \in {"INITIAL", "NORMAL"}
  /\ scopeLevels \in Seq(Nat)
  /\ tokens \in Seq([type : {"INDENT", "DEDENT", "TEXT"}, line : Nat])
  /\ status \in {"lexing"} \cup Outcomes

(***************************************************************************)
(* The open levels grow strictly from 0 at the bottom: whatever lines came *)
(* and however a line with several DEDENTs was interrupted, no block is    *)
(* open at the indentation of the block around it, and what HandleNewline  *)
(* takes for the outermost level, 0, is the bottom of the stack.           *)
(***************************************************************************)
OpenLevels ==
  /\ scopeLevels # <<>> => scopeLevels[1] = 0
  /\ \A i, j \in 1 .. Len(scopeLevels) :
       i < j => scopeLevels[i] < scopeLevels[j]

Of(type) == {i \in 1 .. Len(tokens) : tokens[i].type = type}

(***************************************************************************)
(* The tokens and the stack tell the same story: the blocks the parser has *)
(* seen opened and not closed are the levels above the bottom.  A level is *)
(* never pushed or popped behind the parser's back, until an exception     *)
(* ends the lexer in the middle of a dedent.                               *)
(***************************************************************************)
Balanced ==
  status # "threw" /\ scopeLevels # <<>> =>
    Cardinality(Of("INDENT")) + 1 =
      Cardinality(Of("DEDENT")) + Len(scopeLevels)

(***************************************************************************)
(* An input that ends with a line break leaves no block open: the zero     *)
(* matches of HandleNewline at the end of the input close every one, and   *)
(* the parser sees as many DEDENTs as INDENTs.                             *)
(***************************************************************************)
TerminatedInputCloses ==
  status = "eof" /\ doc # <<>> /\ doc[Len(doc)].eol =>
    /\ Len(scopeLevels) = 1
    /\ Cardinality(Of("INDENT")) = Cardinality(Of("DEDENT"))

(***************************************************************************)
(* What HandleNewline's comment says of every input: at the end of the     *)
(* input all the non-zero levels are popped, each with its token.          *)
(***************************************************************************)
EveryInputCloses == status = "eof" => Len(scopeLevels) <= 1

(***************************************************************************)
(* The lexer never reads the input forever: a zero match that leaves the   *)
(* lexer where it was has popped a level, and there are only so many.      *)
(***************************************************************************)
Termination == <>(status # "lexing")

(***************************************************************************)
(* A line of text is as deep, for the parser, as the INDENTs before it     *)
(* outnumber the DEDENTs.                                                  *)
(***************************************************************************)
Before(i, type) == Cardinality({j \in Of(type) : j < i})

TextAt(n) == CHOOSE i \in Of("TEXT") : Before(i, "TEXT") = n - 1

DepthSeen ==
  [n \in 1 .. Cardinality(Of("TEXT")) |->
     Before(TextAt(n), "INDENT") - Before(TextAt(n), "DEDENT")]

Verdict ==
  IF status = "eof" THEN "finished"
  ELSE IF status = "threw" THEN "rejected"
  ELSE IF status = "undefined" THEN "undefined"
  ELSE "reading"

Rule == INSTANCE Layout WITH
          at <- IF rest = "newline" THEN line ELSE line - 1,
          depth <- DepthSeen,
          verdict <- Verdict

(***************************************************************************)
(* The stack machine implements the off-side rule stated over the lines:   *)
(* it gives each line of text the depth of its enclosing lines, rejects    *)
(* exactly the ill placed lines, and is undefined on blank input only.     *)
(***************************************************************************)
ImplementsLayout == Rule!Spec
=============================================================================
