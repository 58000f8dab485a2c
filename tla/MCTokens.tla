------------------------------ MODULE MCTokens ------------------------------
(***************************************************************************)
(* The two tokens that have a value the lexer may refuse, an operation and *)
(* a string, each from the text to the text that is written of it.         *)
(***************************************************************************)
EXTENDS PrimOp, Quotes

CONSTANT MaxSource             \* how long the texts are

(* Texts that begin with a quote.                                          *)
QuotedTexts ==
  {<<"q">> \o s : s \in BoundedSeq({"q", "bs", "c"}, MaxSource - 1)}

(* Nothing, or another string further on.                                  *)
Rests == {<<"c">>, <<"c", "q", "c", "q">>}

VARIABLE token                 \* which of the two it is

MCInit ==
  /\ token \in {"operation", "string"}
  /\ Init
  /\ IF token = "string"
     THEN QuotesInit
     ELSE /\ kind = "double" /\ source = <<>> /\ val = <<>> /\ in = 1
          /\ outidx = 0 /\ written = <<>> /\ outcome = "unmatched"

MCNext ==
  /\ \/ token = "operation" /\ Next /\ UNCHANGED strings
     \/ token = "string" /\ QuotesNext /\ UNCHANGED vars
  /\ UNCHANGED token

MCSpec == MCInit /\ [][MCNext]_<<vars, strings, token>>
=============================================================================
