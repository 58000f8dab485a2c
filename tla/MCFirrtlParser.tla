--------------------------- MODULE MCFirrtlParser ---------------------------
(***************************************************************************)
(* Texts for FirrtlParser.                                                 *)
(***************************************************************************)
EXTENDS FirrtlTree

-----------------------------------------------------------------------------
Header == <<Line(0, <<"circuit", "identifier", ":">>),
            Line(1, <<"module", "identifier", ":">>)>>

When == <<"when", "identifier", ":">>
Nesting == {<<"skip">>, When, When \o <<"skip">>, <<"else", ":">>,
            <<"else", ":", "skip">>, <<"else">> \o When,
            <<"identifier", "<=", "identifier">>}

(* One line deeper after a line that ends with a colon, or no deeper.      *)
Follows(l, k) ==
  k.depth <= l.depth + (IF l.words[Len(l.words)] = ":" THEN 1 ELSE 0)

Bodies(of, n) ==
  {ls \in BoundedSeq({Line(d, w) : d \in 2 .. 4, w \in of}, n) :
     /\ ls # <<>> => ls[1].depth = 2
     /\ \A i \in 2 .. Len(ls) : Follows(ls[i - 1], ls[i])}

(* Conditionals on one line, and two lines behind them.                    *)
OneLine == {<<Line(2, When \o When)>>,
            <<Line(2, When \o <<"skip">>), Line(2, <<"else", ":">> \o When)>>}
Behind == {<<Line(d, v), Line(e, w)>> :
             d, e \in 2 .. 3, v, w \in {<<"skip">>, When}}

Nested ==
  {Text(Header \o ls, "newline") :
     ls \in Bodies(Nesting, 3) \cup {a \o b : a \in OneLine, b \in Behind}}
  \cup {Text(Header \o ls, "text") :
         ls \in Bodies(Nesting, 2) \cup Bodies({<<"skip">>, When}, 3)}

-----------------------------------------------------------------------------
(***************************************************************************)
(* One text with every statement, type and expression.                     *)
(***************************************************************************)
Literal == <<"UInt", "<", "int", ">", "(", "int", ")">>

Everything ==
  <<Line(0, <<"circuit", "identifier", ":", "info">>),
    Line(1, <<"extmodule", "identifier", ":">>),
    Line(2, <<"input", "identifier", ":", "Clock", "info">>),
    Line(2, <<"defname", "=", "identifier">>),
    Line(2, <<"parameter", "identifier", "=", "int">>),
    Line(2, <<"parameter", "identifier", "=", "single-string">>),
    Line(1, <<"module", "identifier", ":", "info">>),
    Line(2, <<"input", "identifier", ":", "UInt", "<", "int", ">">>),
    Line(2, <<"output", "identifier", ":", "SInt">>),
    Line(2, <<"wire", "identifier", ":", "{", "identifier", ":", "Clock", "}">>),
    Line(2, <<"reg", "identifier", ":", "UInt", "identifier", "with", ":", "(",
              "reset", "=>", "(", "identifier">> \o Literal \o <<")", ")", "info">>),
    Line(2, <<"reg", "identifier", ":", "UInt", "reset">>),
    Line(2, <<"mem", "identifier", ":", "(">>
              \o <<"datatype", "=>", "UInt", "depth", "=>", "int">>
              \o <<"read-latency", "=>", "int", "write-latency", "=>", "int">>
              \o <<"reader", "=>", "identifier", "writer", "=>", "identifier">>
              \o <<"read-under-write", "=>", "undefined", ")">>),
    Line(2, <<"inst", "identifier", "of", "identifier">>),
    Line(2, <<"node", "identifier", "=", "primop(", "identifier", "mux", "(",
              "identifier", "identifier", ".", "identifier", "identifier", ")",
              ")">>),
    Line(2, <<"when", "identifier", ":", "info">>),
    Line(3, <<"identifier", "<-", "validif", "(", "identifier", "identifier",
              ")">>),
    Line(3, <<"identifier", ".", "identifier", "is", "invalid">>),
    Line(2, <<"else", ":">>),
    Line(3, <<"stop", "(", "identifier", "identifier", "int", ")">>),
    Line(2, <<"printf", "(", "identifier", "identifier", "string", "identifier",
              ")", "info">>),
    Line(2, <<"when", "identifier", ":", "skip">>)>>

(* The first n tokens of a text that is cut there.                         *)
RECURSIVE Cut(_, _)
Cut(lines, n) ==
  IF n = 0 THEN <<>>
  ELSE IF n <= Len(Head(lines).words)
  THEN <<[Head(lines) EXCEPT !.words = SubSeq(@, 1, n)]>>
  ELSE <<Head(lines)>> \o Cut(Tail(lines), n - Len(Head(lines).words))

Size(lines) == Len(FlattenSeq([i \in 1 .. Len(lines) |-> lines[i].words]))

(* The text cut anywhere, and ended in each of these ways.                 *)
CutTexts(lines) == {Text(Cut(lines, n), end) :
                      n \in 1 .. Size(lines), end \in {"newline", "text"}}

(***************************************************************************)
(* Texts that the lexer reads and the parser, or what it calls, does not.  *)
(***************************************************************************)
Mem(given) == <<"mem", "identifier", ":", "(">> \o given \o <<")">>
Depth1 == <<"depth", "=>", "int">>
Latency == <<"read-latency", "=>", "int">>
DataType == <<"datatype", "=>", "UInt">>
Reader == <<"reader", "=>", "identifier">>
Wire(t) == <<"wire", "identifier", ":">> \o t
Operation(arguments) ==
  <<"node", "identifier", "=", "primop(">> \o arguments \o <<")">>

Oddities ==
  {Mem(<<>>), Mem(Reader), Mem(Reader \o DataType), Mem(DataType \o DataType),
   Mem(Latency \o Depth1), Mem(Latency \o Latency),
   Wire(<<"identifier">>), Wire(<<"{", "}">>),
   Wire(<<"{", "flip", "identifier", ":", "UInt", "}">>),
   Wire(<<"{", "identifier", ":", "{", "identifier", ":", "SInt", "}", "}">>),
   Operation(<<>>), Operation(<<"identifier">>), Operation(<<"int">>),
   Operation(<<"identifier", "identifier", "identifier">>),
   <<"reg", "identifier", ":", "UInt", "identifier", "with", ":", "(", "reset",
     "=>", "(", "identifier", ")", ")">>,
   <<"reg", "identifier", ":", "UInt", "identifier", "with", ":", "(",
     "identifier", "=>", "(", "identifier", "identifier", ")", ")">>,
   <<"node", "identifier", "=", "UInt", "(", "string", ")">>,
   <<"identifier", "<=", "identifier", ".", "identifier", ".", "identifier">>,
   <<"identifier", "[", "int", "]", "<=", "identifier">>,
   <<"identifier", "<=", "identifier", "[", "identifier", "]">>,
   Wire(<<"UInt", "[", "int", "]">>)}

OddTexts == {Text(Header \o <<Line(2, words)>>, end) :
               words \in Oddities, end \in {"newline", "blanks", "nomatch", "throws"}}

(* Accepted with a token that is not read: the last one of the text.       *)
FlipAtEnd == {Text(Header \o <<Line(2, <<"skip">>), Line(2, <<"flip">>)>>, "text")}

AllTexts == Nested \cup CutTexts(Everything) \cup OddTexts \cup FlipAtEnd
=============================================================================
