---------------------------- MODULE FirrtlGrammar ----------------------------
(***************************************************************************)
(* The grammar of the FIRRTL frontend, as data.  A parser is a sequence of *)
(* items that have to match one after the other:                           *)
(*                                                                         *)
(*   token    the next token is t                                          *)
(*   rule     the parser of that name matches; its node is an attribute    *)
(*   choice   the first of some parsers that matches                       *)
(*   repeat   a parser, as often as it matches                             *)
(*   make     a semantic action: the rule's node is a new one              *)
(*   wrap     a semantic action: the last attribute is put into a new node *)
(*   take     a semantic action: the rule's node is the last attribute     *)
(*   attach   a semantic action: the last attribute goes to the rule's     *)
(*            node, at the pointer of that name                            *)
(*   set      a semantic action: a field of a memory is set                *)
(*   param    a semantic action: an operation is given a parameter         *)
(*   info     a semantic action: the rule's node is given its info         *)
(*   width    a semantic action: the rule's node, a type, is given a width *)
(*                                                                         *)
(* Names, numbers and texts are left out of the tokens; an identifier that *)
(* reads "reset" is a token of its own, and "primop(" stands for the       *)
(* operations of two operands and no parameter.                            *)
(***************************************************************************)
EXTENDS Integers, Sequences, SequencesExt

T(t) == [item |-> "token", t |-> t]
Tokens(ts) == [i \in 1 .. Len(ts) |-> T(ts[i])]
R(name) == [item |-> "rule", rule |-> name, inherits |-> FALSE]
Inherited(name) == [item |-> "rule", rule |-> name, inherits |-> TRUE]
Choice(parsers) == [item |-> "choice", of |-> parsers]
Star(parser) == [item |-> "repeat", of |-> parser]
Opt(parser) == Choice(<<parser, <<>>>>)
Make(kind, fields) == [item |-> "make", kind |-> kind, fields |-> fields]
Wrap(kind, field) == [item |-> "wrap", kind |-> kind, field |-> field]
Take == [item |-> "take"]
Attach(field) == [item |-> "attach", field |-> field]
Set(field) == [item |-> "set", field |-> field]
Param == [item |-> "param"]

(* A rule that does nothing but choose: its node is the node chosen.       *)
OneOf(rules) == <<Choice([i \in 1 .. Len(rules) |-> <<R(rules[i]), Take>>])>>

Info == Opt(<<T("info"), [item |-> "info"]>>)

Exp == R("exp_")
Type == R("type")

-----------------------------------------------------------------------------
circuit ==
  <<T("circuit"), T("identifier"), Make("Circuit", <<>>), T(":"), Info,
    Opt(<<T("INDENT"), Star(<<R("module"), Attach("mModules")>>), T("DEDENT")>>)>>

Ports == Star(<<R("port"), Attach("mPorts")>>)
Body == <<R("stmt_group"), Attach("mStmts")>>

intmodule ==
  <<T("module"), T("identifier"), Make("Module", <<>>), T(":"), Info,
    Opt(<<T("INDENT"), Ports>> \o Body \o <<T("DEDENT")>>)>>

extmodule ==
  <<T("extmodule"), T("identifier"), Make("ExtModule", <<>>), T(":"), Info,
    Opt(<<T("INDENT"), Ports,
          Opt(Tokens(<<"defname", "=", "identifier">>)),
          Star(Tokens(<<"parameter", "identifier", "=">>)
                 \o <<Choice(<< <<T("int")>>, <<T("double")>>, <<T("string")>>,
                                <<T("single-string")>> >>)>>),
          T("DEDENT")>>)>>

port ==
  <<Choice(<< <<T("input")>>, <<T("output")>> >>), T("identifier"), T(":"),
    Type, Make("Port", <<"mType">>), Info>>

-----------------------------------------------------------------------------
(* The last alternative begins with the rule itself.                       *)
type ==
  <<Choice(<< <<R("type_int"), Take>>,
              <<T("Clock"), Make("TypeClock", <<>>)>>,
              <<R("type_bundle"), Take>>,
              <<R("type_vector"), Take>> >>)>>

type_int ==
  <<Choice(<< <<T("UInt"), Make("TypeInt", <<>>)>>,
              <<T("SInt"), Make("TypeInt", <<>>)>> >>),
    Opt(<<T("<"), T("int"), [item |-> "width"], T(">")>>)>>

type_bundle ==
  <<T("{"), Make("TypeBundle", <<>>), Star(<<R("field")>>), T("}")>>

type_vector ==
  <<Type, Make("TypeVector", <<>>), T("["), T("int"), T("]")>>

(* The first alternative, eps, always matches.                             *)
field ==
  <<Choice(<< <<>>, <<T("flip")>> >>), T("identifier"), T(":"), Type,
    Make("Field", <<>>)>>

-----------------------------------------------------------------------------
stmt == OneOf(<<"wire", "reg", "mem", "inst", "node", "connect", "partconnect",
                "invalidate", "conditional", "stop", "printf_", "empty">>)

Statement == <<R("stmt"), Attach("mGroup")>>

stmt_group ==
  <<Make("StmtGroup", <<>>)>> \o Statement \o <<Star(Statement)>>

stmt_suite == <<T("INDENT"), R("stmt_group"), Take, T("DEDENT")>>

wire == Tokens(<<"wire", "identifier", ":">>)
          \o <<Type, Make("Wire", <<"mType">>), Info>>

(* Variant: the value of a reset may be left out.                          *)
regNoValue ==
  Tokens(<<"reg", "identifier", ":">>)
    \o <<Type, Exp, Make("Reg", <<"mType", "mClock">>),
         Opt(Tokens(<<"with", ":", "(", "reset", "=>", "(">>)
               \o <<Exp, Attach("mResetTrigger"),
                    Opt(<<Exp, Attach("mResetValue")>>), T(")"), T(")")>>),
         Info>>

reg ==
  Tokens(<<"reg", "identifier", ":">>)
    \o <<Type, Exp, Make("Reg", <<"mType", "mClock">>),
         Opt(Tokens(<<"with", ":", "(", "reset", "=>", "(">>)
               \o <<Exp, Attach("mResetTrigger"), Exp, Attach("mResetValue"),
                    T(")"), T(")")>>),
         Info>>

mem_dtype == <<T("datatype"), T("=>"), Type, Set("dtype"), Attach("mDType")>>
mem_depth == Tokens(<<"depth", "=>", "int">>) \o <<Set("depth")>>
mem_readlat == Tokens(<<"read-latency", "=>", "int">>) \o <<Set("readlat")>>
mem_writelat == Tokens(<<"write-latency", "=>", "int">>) \o <<Set("writelat")>>
mem_ruw ==
  <<T("read-under-write"), T("=>"),
    Choice(<< <<T("old")>>, <<T("new")>>, <<T("undefined")>> >>), Set("ruw")>>
mem_port(kind) == Tokens(<<kind, "=>", "identifier">>) \o <<Set("port")>>

MemFields == <<mem_dtype, mem_depth, mem_readlat, mem_writelat, mem_ruw,
               mem_port("reader"), mem_port("writer"), mem_port("readwriter")>>

(* Variant: a field may be nothing at all.                                 *)
memEmptyField ==
  <<T("mem"), T("identifier"), Make("Memory", <<>>), T(":"), T("("),
    Star(<<Choice(Append(MemFields, <<>>))>>), T(")")>>

mem ==
  <<T("mem"), T("identifier"), Make("Memory", <<>>), T(":"), T("("),
    Star(<<Choice(MemFields)>>), T(")")>>

inst == Tokens(<<"inst", "identifier", "of">>)
          \o <<R("reference"), Make("Instance", <<"mOf">>), Info>>

node == Tokens(<<"node", "identifier", "=">>)
          \o <<Exp, Make("Node", <<"mExpr">>), Info>>

connect ==
  <<Exp, T("<="), Exp, Make("Connect", <<"mTo", "mFrom">>), Info>>

partconnect ==
  <<Exp, T("<-"), Exp, Make("Connect", <<"mTo", "mFrom">>), Info>>

invalidate ==
  <<Exp, Make("Invalid", <<"mExp">>), T("is"), T("invalid"), Info>>

(* Variant: the statements in a suite are given to nobody.                 *)
conditionalSuiteLost ==
  <<T("when"), Exp, Make("Conditional", <<"mCond">>), T(":"), Info,
    Opt(<<Choice(<< <<R("stmt_group"), Attach("mThen")>>,
                    <<R("stmt_suite")>> >>)>>),
    Opt(<<R("conditional_else")>>)>>

(* Variant: both alternatives are taken, a suite and what is behind it.    *)
conditionalBoth ==
  <<T("when"), Exp, Make("Conditional", <<"mCond">>), T(":"), Info,
    Opt(<<R("stmt_suite"), Attach("mThen")>>),
    Opt(<<R("stmt_group"), Attach("mThen")>>),
    Opt(<<R("conditional_else")>>)>>

(* The else is given to nobody.                                            *)
conditional ==
  <<T("when"), Exp, Make("Conditional", <<"mCond">>), T(":"), Info,
    Opt(<<Choice(<< <<R("stmt_group"), Attach("mThen")>>,
                    <<R("stmt_suite"), Attach("mThen")>> >>)>>),
    Opt(<<R("conditional_else")>>)>>

conditional_else ==
  <<T("else"), Make("ConditionalElse", <<>>),
    Choice(<< <<R("conditional"), Wrap("StmtGroup", "mGroup")>>,
              <<T(":"), Info,
                Choice(<< <<R("stmt_group")>>, <<R("stmt_suite")>> >>)>> >>),
    Attach("mStmts")>>

stop == <<T("stop"), T("("), Exp, Exp, T("int"),
          Make("Stop", <<"mClock", "mCond">>), T(")"), Info>>

(* The arguments are given to nobody.                                      *)
printf_ == <<T("printf"), T("("), Exp, Exp, T("string"),
             Make("Printf", <<"mClock", "mCond">>), Star(<<Exp>>), T(")"), Info>>

empty == <<T("skip"), Make("Empty", <<>>), Info>>

-----------------------------------------------------------------------------
reference == <<T("identifier"), Make("Reference", <<>>)>>

(* Variant: an expression may begin with an expression.                    *)
exp_LeftRecursive ==
  <<Choice(<< <<R("reference"), Take>>, <<R("exp_int"), Take>>,
              <<R("mux"), Take>>, <<R("validif"), Take>>,
              <<R("primop"), Take>>, <<R("exp_"), Take>> >>),
    Inherited("exp_helper"), Take>>

exp_ == OneOf(<<"reference", "exp_int", "mux", "validif", "primop">>)
          \o <<Inherited("exp_helper"), Take>>

(* exp_subfield, exp_subindex, exp_subaccess, eps; a rule that inherits a  *)
(* node begins with it as its own.                                         *)
exp_helper ==
  <<Choice(<< <<T("."), R("reference"), Make("SubField", <<"mOf", "mField">>),
                Inherited("exp_helper"), Take>>,
              <<T("["), T("int"), Make("SubIndex", <<"mOf">>), T("]"),
                Inherited("exp_helper"), Take>>,
              <<T("["), Exp, Make("SubAccess", <<"mOf", "mExp">>), T("]"),
                Inherited("exp_helper"), Take>>,
              <<Take>> >>)>>

exp_int ==
  <<R("type_int"), T("("),
    Choice(<< <<T("int"), Make("Constant", <<"mType">>)>>,
              <<T("string"), Make("Constant", <<"mType">>)>> >>),
    T(")")>>

mux == <<T("mux"), T("("), Exp, Exp, Exp, Make("Mux", <<"mSel", "mA", "mB">>),
         T(")")>>

validif == <<T("validif"), T("("), Exp, Exp, Make("CondValid", <<"mSel", "mA">>),
             T(")")>>

primop == <<T("primop("), Make("PrimOp", <<>>), Star(<<Exp, Attach("mOperands")>>),
            Star(<<T("int"), Param>>), T(")")>>

-----------------------------------------------------------------------------
Grammar ==
  [circuit |-> circuit, module |-> OneOf(<<"intmodule", "extmodule">>),
   intmodule |-> intmodule, extmodule |-> extmodule, port |-> port,
   type |-> type, type_int |-> type_int, type_bundle |-> type_bundle,
   type_vector |-> type_vector, field |-> field,
   stmt |-> stmt, stmt_group |-> stmt_group, stmt_suite |-> stmt_suite,
   wire |-> wire, reg |-> reg, mem |-> mem, inst |-> inst, node |-> node,
   connect |-> connect, partconnect |-> partconnect, invalidate |-> invalidate,
   conditional |-> conditional, conditional_else |-> conditional_else,
   stop |-> stop, printf_ |-> printf_, empty |-> empty,
   reference |-> reference, exp_ |-> exp_, exp_helper |-> exp_helper,
   exp_int |-> exp_int, mux |-> mux, validif |-> validif, primop |-> primop]
=============================================================================
