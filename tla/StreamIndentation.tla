-------------------------- MODULE StreamIndentation --------------------------
(***************************************************************************)
(* The indentation manipulators of the backends on a string stream: the    *)
(* level is kept in the stream, endl writes the blanks of the next line    *)
(* ahead of its text, and indent and dedent go back over the blanks at the *)
(* write position to write them anew.  Nothing is ever cut off: what is    *)
(* behind the write position stays until it is overwritten.                *)
(***************************************************************************)
EXTENDS Integers, Sequences, SequencesExt

CONSTANTS
  Texts,                  \* what is written between manipulators
  MaxLength, MaxLevel     \* bounds of the runs: of the buffer and the level

ASSUME StreamAssumption ==
  /\ \A t \in Texts : t \in Seq(STRING) /\ "nl" \notin ToSet(t)
  /\ MaxLength \in Nat /\ MaxLevel \in Nat

VARIABLES
  buffer,                 \* the characters in the string buffer
  tellp,                  \* the write position: how many come before it
  level,                  \* iword(get_indent_index())
  outcome                 \* of the last operation: "done" or "threw"

vars == <<buffer, tellp, level, outcome>>

Blanks(n) == [i \in 1 .. 2 * n |-> "sp"]

(* Writing s with p characters before the write position.                  *)
Overwrite(p, s) ==
  /\ buffer' = SubSeq(buffer, 1, p) \o s
                 \o SubSeq(buffer, p + Len(s) + 1, Len(buffer))
  /\ tellp' = p + Len(s)

(***************************************************************************)
(* beginOfLine looks back from the last character but one for one that is  *)
(* not a blank.  At a line break it writes the indentation after it, at    *)
(* any other character it stays where it was.  It runs to the start of the *)
(* buffer, and stays there, when there are only blanks.                    *)
(***************************************************************************)
(* Variant: the last two characters are left out.                          *)
NotBlankButTwo == {p \in 1 .. tellp - 2 : buffer[p] # "sp"}

NotBlank == {p \in 1 .. tellp - 1 : buffer[p] # "sp"}

(* Variant: no line break is asked for.                                    *)
beginAnywhere(newLevel) ==
  IF tellp <= 1 \/ NotBlank = {} THEN UNCHANGED <<buffer, tellp>>
  ELSE Overwrite(Max(NotBlank), Blanks(newLevel))

beginOfLine(newLevel) ==
  IF tellp <= 1 THEN UNCHANGED <<buffer, tellp>>
  ELSE IF NotBlank = {} THEN tellp' = 0 /\ UNCHANGED buffer
  ELSE IF buffer[Max(NotBlank)] = "nl"
       THEN Overwrite(Max(NotBlank), Blanks(newLevel))
       ELSE UNCHANGED <<buffer, tellp>>

-----------------------------------------------------------------------------
Init == buffer = <<>> /\ tellp = 0 /\ level = 0 /\ outcome = "done"

Write(t) ==
  /\ tellp + Len(t) <= MaxLength
  /\ Overwrite(tellp, t)
  /\ outcome' = "done"
  /\ UNCHANGED level

indent ==
  /\ level < MaxLevel
  /\ level' = level + 1
  /\ beginOfLine(level')
  /\ outcome' = "done"

(* Variants: the level is not asked for; the blanks are not written anew.  *)
dedentUnchecked ==
  /\ level' = level - 1
  /\ beginOfLine(level')
  /\ outcome' = "done"

dedentNextLine ==
  /\ level > 0
  /\ level' = level - 1
  /\ outcome' = "done"
  /\ UNCHANGED <<buffer, tellp>>

dedent ==
  /\ level > 0
  /\ level' = level - 1
  /\ beginOfLine(level')
  /\ outcome' = "done"

dedentAtZero ==
  /\ level = 0
  /\ outcome' = "threw"
  /\ UNCHANGED <<buffer, tellp, level>>

endl ==
  /\ tellp + 1 + 2 * level <= MaxLength
  /\ Overwrite(tellp, <<"nl">> \o Blanks(level))
  /\ outcome' = "done"
  /\ UNCHANGED level

Next ==
  \/ \E t \in Texts : Write(t)
  \/ indent \/ dedent \/ dedentAtZero \/ endl

Spec == Init /\ [][Next]_vars

-----------------------------------------------------------------------------
(* A character of the line that is being written.                          *)
OnLine(p) == buffer[p] # "sp" /\ \A q \in p .. tellp : buffer[q] # "nl"

HasText == \E p \in 1 .. tellp : OnLine(p)

Alone == tellp > 0 /\ OnLine(tellp)
           /\ \A p \in 1 .. tellp - 1 : ~ OnLine(p)

(***************************************************************************)
(* The manipulators as the backends use them, but for one place: no line   *)
(* begins with a blank, a backend leaves level 0 only on a line that has a *)
(* text, and neither indents nor dedents right behind a character that     *)
(* stands alone on its line.  That place is in MCMemText.                  *)
(***************************************************************************)
UseNext ==
  \/ \E t \in Texts : (t # <<>> /\ t[1] = "sp" => HasText) /\ Write(t)
  \/ (HasText \/ level > 0) /\ ~ Alone /\ indent
  \/ ~ Alone /\ dedent
  \/ dedentAtZero \/ endl

UseSpec == Init /\ [][UseNext]_vars

-----------------------------------------------------------------------------
(***************************************************************************)
(* The lines in the buffer, read as LineWriter keeps them.                 *)
(***************************************************************************)
Breaks == {p \in 1 .. Len(buffer) : buffer[p] = "nl"}

(* What is on a line that begins at first, up to each character.           *)
TextFrom(first) ==
  LET text[p \in 0 .. Len(buffer)] ==
        IF p < first THEN <<>>
        ELSE IF buffer[p] = "sp" THEN text[p - 1]
        ELSE Append(text[p - 1], buffer[p])
  IN  text

LineText(first, last) ==
  LET Body == {p \in first .. last : buffer[p] # "sp"}
  IN  IF Body = {} THEN [level |-> 0, text |-> <<>>]
      ELSE [level |-> (Min(Body) - first) \div 2,
            text  |-> TextFrom(first)[last]]

(* The character that ends line n: a line break, or the end of the buffer. *)
EndOf(n) ==
  CHOOSE p \in Breaks \cup {Len(buffer) + 1} :
    Cardinality({q \in Breaks : q < p}) = n - 1

Lines ==
  [n \in 1 .. Cardinality(Breaks) + 1 |->
     LineText(IF n = 1 THEN 1 ELSE EndOf(n - 1) + 1, EndOf(n) - 1)]

TypeOK ==
  /\ buffer \in Seq({"nl", "sp"} \cup UNION {ToSet(t) : t \in Texts})
  /\ tellp \in 0 .. Len(buffer)
  /\ level \in 0 .. MaxLevel
  /\ outcome \in {"done", "threw"}

(***************************************************************************)
(* Only blanks are left behind the write position: what a dedent uncovers  *)
(* is indentation of the line, never a text or a line break, so the next   *)
(* text may overwrite it.                                                  *)
(***************************************************************************)
OnlyBlanksBehind == \A p \in tellp + 1 .. Len(buffer) : buffer[p] = "sp"

(***************************************************************************)
(* A line without text that is being written stands at the current level:  *)
(* however many manipulators ran since its line break, the write position  *)
(* is where its text belongs.                                              *)
(***************************************************************************)
AtLevel ==
  \A b \in Breaks :
    (\A p \in b + 1 .. Len(buffer) : buffer[p] = "sp") => tellp = b + 2 * level

Writer == INSTANCE LineWriter WITH lines <- Lines

(***************************************************************************)
(* The buffer holds the lines that were written, each with its text and at *)
(* its level: going back over the blanks loses no text, breaks no line and *)
(* moves no other line.                                                    *)
(***************************************************************************)
ImplementsLineWriter == Writer!Spec
=============================================================================
