------------------------------ MODULE MCMemText ------------------------------
(***************************************************************************)
(* What the FIRRTL backend writes for a memory, from the start of its line *)
(* in a module: the one place where a backend dedents behind a character   *)
(* that stands alone on its line.  Of the fields only one is written.      *)
(***************************************************************************)
EXTENDS StreamIndentation

VARIABLE rest             \* what visit(Memory) has still to do

Text(t) == [do |-> "text", t |-> t]
Do(name) == [do |-> name, t |-> <<>>]

MemTexts == {<<"m", "(">>, <<"d", "e">>, <<")">>, <<"s", "k">>}

(* The field, and the statement behind the memory.                         *)
Visit == <<Text(<<"m", "(">>), Do("indent"), Do("endl"),
           Text(<<"d", "e">>), Do("endl"),
           Text(<<")">>), Do("dedent"), Do("endl"), Text(<<"s", "k">>)>>

MemInit == /\ \E l \in 1 .. MaxLevel : level = l /\ buffer = <<"nl">> \o Blanks(l)
           /\ tellp = Len(buffer)
           /\ outcome = "done"
           /\ rest = Visit

MemNext ==
  /\ rest # <<>>
  /\ LET now == Head(rest)
     IN  \/ now.do = "text" /\ Write(now.t)
         \/ now.do = "indent" /\ indent
         \/ now.do = "dedent" /\ dedent
         \/ now.do = "endl" /\ endl
  /\ rest' = Tail(rest)

MemSpec == MemInit /\ [][MemNext]_<<vars, rest>>

-----------------------------------------------------------------------------
(***************************************************************************)
(* What the README says of a design that is written back, "the design      *)
(* itself is preserved", of the parenthesis that ends a memory: it is in   *)
(* the text.                                                               *)
(***************************************************************************)
MemClosed == rest = <<>> => ")" \in ToSet(buffer)
=============================================================================
