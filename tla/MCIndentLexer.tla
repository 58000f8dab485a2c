--------------------------- MODULE MCIndentLexer ---------------------------
(***************************************************************************)
(* Inputs for IndentLexer: the short ones, with every kind of line, and    *)
(* the deep ones, with lines of text alone, where one line closes several  *)
(* blocks or fails after it has closed one.                                *)
(***************************************************************************)
EXTENDS IndentLexer, SequencesExt

CONSTANTS MaxLines, MaxLevel,           \* bounds of the short inputs
          MaxDeepLines, MaxDeepLevel    \* bounds of the deep inputs

Empty(l) == l.body = "blank" /\ l.level = 0

(***************************************************************************)
(* The inputs of at most n of these lines: every line but the last has its *)
(* line break, and a line is empty only where it is the first.             *)
(***************************************************************************)
Inputs(n, lines) ==
  LET Starts == {d \in BoundedSeq({l \in lines : l.eol}, n - 1) :
                   \A i \in 2 .. Len(d) : ~ Empty(d[i])}
  IN  {<<>>} \cup {<<l>> : l \in {m \in lines : Empty(m) => m.eol}}
             \cup {Append(d, l) : d \in Starts \ {<<>>},
                                  l \in {m \in lines : ~ Empty(m)}}

MCDocuments ==
  Inputs(MaxLines, [level : 0 .. MaxLevel, body : Bodies, eol : BOOLEAN])
  \cup
  Inputs(MaxDeepLines, [level : 0 .. MaxDeepLevel, body : {"text"},
                        eol : BOOLEAN])
=============================================================================
