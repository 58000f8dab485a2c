----------------------------- MODULE MCRoundTrip -----------------------------
(***************************************************************************)
(* Designs for RoundTrip: modules of every two statements, and what stands *)
(* around them.                                                            *)
(***************************************************************************)
EXTENDS RoundTrip

Id == "identifier"
UInt == <<"UInt", "<", "int", ">">>
SInt == <<"SInt", "<", "int", ">">>
WireOf(t) == <<"wire", Id, ":">> \o t
NodeOf(e) == <<"node", Id, "=">> \o e
One(words) == <<Line(2, words)>>
RegOf(reset) == <<"reg", Id, ":">> \o UInt \o <<Id>> \o reset
Reset == <<"with", ":", "(", "reset", "=>", "(", Id>> \o SInt
           \o <<"(", "int", ")", ")", ")">>
When == <<"when", Id, ":">>

Bodies ==
  {One(WireOf(UInt)), One(WireOf(<<"SInt">>)), One(WireOf(<<"Clock", "info">>)),
   One(WireOf(<<"{", Id, ":", "SInt", "}">>)),
   One(RegOf(<<>>)), One(RegOf(Reset)), One(RegOf(Reset \o <<"info">>)),
   One(<<"mem", Id, ":", "(", "datatype", "=>">> \o UInt \o <<")">>),
   One(<<"inst", Id, "of", Id>>),
   One(NodeOf(<<"mux", "(", Id, Id, Id, ".", Id, ")", ".", Id>>)),
   One(NodeOf(<<"validif", "(", Id, Id, ")">>)),
   One(NodeOf(<<"primop(", Id>> \o UInt \o <<"(", "string", ")", ")", "info">>)),
   One(NodeOf(<<"SInt", "(", "int", ")">>)),
   One(NodeOf(<<"primop(", ")">>)),
   One(<<Id, ".", Id, ".", Id, "<=", Id>>), One(<<Id, "is", "invalid">>),
   One(<<Id, "<=", Id, "[", "int", "]">>),
   One(When \o <<"info", "skip">>), One(When),
   <<Line(2, When), Line(3, <<"skip", "info">>)>>,
   <<Line(2, When), Line(3, When), Line(4, <<"skip">>)>>,
   One(<<"stop", "(", Id, Id, "int", ")">>),
   One(<<"printf", "(", Id, Id, "string", Id, ")">>),
   One(<<"printf", "(", Id, Id, "string", ")", "info">>)}

Circuit(modules) == Text(<<Line(0, <<"circuit", Id, ":", "info">>)>> \o modules,
                         "newline")
Module(body) == <<Line(1, <<"module", Id, ":">>)>> \o body
Port(t) == Line(2, <<"input", Id, ":">> \o t \o <<"info">>)
ExtModule == <<Line(1, <<"extmodule", Id, ":", "info">>), Port(<<"Clock">>)>>
Skip == One(<<"skip">>)

(* The example of the README, which survives.                              *)
Example ==
  Circuit(<<Line(1, <<"module", Id, ":", "info">>),
            Port(UInt), Port(UInt), Port(<<"Clock">>), Port(UInt), Port(UInt),
            Line(2, RegOf(Reset \o <<"info">>)),
            Line(2, <<Id, "<=", "primop(", Id, Id, ")", "info">>),
            Line(2, <<Id, "<=", Id, "info">>)>>)

(***************************************************************************)
(* A statement after another, in the last module and in one before it, and *)
(* a module from outside between and behind them.                          *)
(***************************************************************************)
Designs ==
  {Circuit(Module(s \o t)) : s, t \in Bodies}
    \cup {Circuit(Module(s) \o ExtModule \o Module(Skip)) : s \in Bodies}
    \cup {Circuit(Module(<<Port(UInt)>> \o s) \o ExtModule) : s \in Bodies}
    \cup {Example, Circuit(ExtModule), Circuit(<<>>),
          Circuit(<<Line(1, <<"module", Id, ":", "info">>)>>)}
==============================================================================
