----------------------------- MODULE LineWriter -----------------------------
(***************************************************************************)
(* What the stream manipulators indent, dedent and endl promise a backend: *)
(* a writer of lines, where every line stands at the level the writer was  *)
(* at when the line got its first text.  StreamIndentation implements it.  *)
(***************************************************************************)
EXTENDS Integers, Sequences, SequencesExt

CONSTANT Texts            \* the texts written, each a sequence of characters

VARIABLES
  level,                  \* how deep the writer is
  lines                   \* the lines; the last one is being written

vars == <<level, lines>>

(* A line that has no text has no level.                                   *)
NoText == [level |-> 0, text |-> <<>>]

(* What is not blank in a text.                                            *)
Visible(s) ==
  LET text[n \in 0 .. Len(s)] ==
        IF n = 0 THEN <<>>
        ELSE IF s[n] = "sp" THEN text[n - 1]
        ELSE Append(text[n - 1], s[n])
  IN  text[Len(s)]

Init == level = 0 /\ lines = <<NoText>>

Write(t) ==
  /\ lines' = [lines EXCEPT ![Len(lines)] =
                 [level |-> IF @.text = <<>> THEN level ELSE @.level,
                  text  |-> @.text \o Visible(t)]]
  /\ UNCHANGED level

Indent == level' = level + 1 /\ UNCHANGED lines

Dedent == level > 0 /\ level' = level - 1 /\ UNCHANGED lines

Endl == lines' = Append(lines, NoText) /\ UNCHANGED level

Next == (\E t \in Texts : Write(t)) \/ Indent \/ Dedent \/ Endl

Spec == Init /\ [][Next]_vars
=============================================================================
