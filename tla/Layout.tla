------------------------------- MODULE Layout -------------------------------
(***************************************************************************)
(* The off-side rule the FIRRTL frontend promises its grammar, stated      *)
(* without a stack: how deep a line of text is nested follows from the     *)
(* indentation of the lines before it, and a line is rejected exactly when *)
(* it closes a block without returning to the indentation of a line that   *)
(* is still open.  IndentLexer implements this specification.              *)
(***************************************************************************)
EXTENDS Integers, Sequences, FiniteSets

(***************************************************************************)
(* A line: the blanks it starts with, what follows them ("blank" when      *)
(* nothing does, "text" when it holds tokens of the grammar), and whether  *)
(* a line break follows that.                                              *)
(***************************************************************************)
Bodies == {"blank", "comment", "text", "bad"}

Line == [level : Nat, body : Bodies, eol : BOOLEAN]

VARIABLES
  doc,                \* the input being read
  at,                 \* how many of its lines have been passed
  depth,              \* the nesting depth of each line of text, in order
  verdict             \* "reading", "finished", "rejected" or "undefined"

vars == <<doc, at, depth, verdict>>

(***************************************************************************)
(* A line with only blanks has no layout; every other line has, also one   *)
(* that holds nothing but a comment.                                       *)
(***************************************************************************)
HasLayout(d, l) == d[l].body # "blank"

Between(d, j, l) == {k \in j+1 .. l-1 : HasLayout(d, k)}

(* Line j encloses line l: all that follows j, up to l, is deeper.         *)
Encloses(d, j, l) ==
  /\ HasLayout(d, j)
  /\ d[j].level < d[l].level
  /\ \A k \in Between(d, j, l) : d[j].level < d[k].level

DepthOf(d, l) == Cardinality({j \in 1 .. l-1 : Encloses(d, j, l)})

(* Line j has the indentation of line l and its block is still open at l.  *)
AlignsWith(d, j, l) ==
  /\ HasLayout(d, j)
  /\ d[j].level = d[l].level
  /\ \A k \in Between(d, j, l) : d[j].level <= d[k].level

(* Line l is deeper than the last line with a layout before it.            *)
OpensBlock(d, l) ==
  \E j \in 1 .. l-1 : /\ HasLayout(d, j)
                      /\ Between(d, j, l) = {}
                      /\ d[j].level < d[l].level

IsFirst(d, l) == Between(d, 0, l) = {}

WellPlaced(d, l) ==
  \/ ~ HasLayout(d, l)
  \/ IsFirst(d, l) /\ d[l].level = 0
  \/ OpensBlock(d, l)
  \/ \E j \in 1 .. l-1 : AlignsWith(d, j, l)

-----------------------------------------------------------------------------
Init ==
  /\ doc \in Seq(Line)
  /\ at = 0
  /\ depth = <<>>
  /\ verdict = "reading"

Pass ==
  /\ verdict = "reading"
  /\ at < Len(doc)
  /\ WellPlaced(doc, at + 1)
  /\ at' = at + 1
  /\ depth' = IF doc[at + 1].body = "text"
              THEN Append(depth, DepthOf(doc, at + 1))
              ELSE depth
  /\ UNCHANGED <<doc, verdict>>

Reject ==
  /\ verdict = "reading"
  /\ at < Len(doc)
  /\ ~ WellPlaced(doc, at + 1)
  /\ verdict' = "rejected"
  /\ UNCHANGED <<doc, at, depth>>

Finish ==
  /\ verdict = "reading"
  /\ at = Len(doc)
  /\ verdict' = "finished"
  /\ UNCHANGED <<doc, at, depth>>

(* An input of blank lines alone promises nothing.                         *)
Undefined ==
  /\ verdict = "reading"
  /\ at = Len(doc)
  /\ \A l \in 1 .. Len(doc) : ~ HasLayout(doc, l)
  /\ verdict' = "undefined"
  /\ UNCHANGED <<doc, at, depth>>

Next == Pass \/ Reject \/ Finish \/ Undefined

Spec == Init /\ [][Next]_vars
=============================================================================
