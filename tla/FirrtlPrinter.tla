---------------------------- MODULE FirrtlPrinter ----------------------------
(***************************************************************************)
(* The FIRRTL backend: its visitor going over a tree and writing lines of  *)
(* tokens with the stream manipulators, as LineWriter has them.            *)
(*                                                                         *)
(* The template of a kind of node is what accept, visit and leave come to: *)
(* tokens, the node's info, manipulators, and pointers that are followed.  *)
(* Names, numbers and directions are left out of the tokens.               *)
(***************************************************************************)
EXTENDS IR, FirrtlText, TLC

VARIABLES level,      \* how deep the writer is
          lines,      \* the lines; the last one is being written
          todo        \* what is left to write, first things first

Manipulators == {"indent", "dedent", "endl"}

ModuleTemplates ==
  [Circuit   |-> <<"circuit", "identifier", ":", "info", "indent", "endl",
                   "mExternalModules", "mInternalModules", "dedent">>,
   Module    |-> <<"module", "identifier", ":", "info", "indent", "endl",
                   "mPorts", "mStmts", "dedent">>,
   ExtModule |-> <<"extmodule", "identifier", ":", "info", "indent", "endl",
                   "mPorts", "mStmts", "dedent">>,
   Port      |-> <<"input", "identifier", ":", "mType", "info", "endl">>]

(* The accept of a bundle never calls visit.                               *)
TypeTemplates ==
  [TypeClock  |-> <<"Clock">>,
   TypeBundle |-> <<>>]

(* A width that was not set is -1, and "<-" is one token.                  *)
TypeIntTemplate(n) ==
  IF ir[n].width THEN <<"UInt", "<", "int", ">">> ELSE <<"UInt", "<-", "int", ">">>

(* The fields begin a block, "data-type" is no token, and a ")" that       *)
(* stands alone is written over by the dedent behind it (MCMemText).       *)
MemoryTemplate ==
  <<"mem", "identifier", ":", "(", "indent", "endl", "identifier", "no-token",
    "=>", "mDType", "endl", "depth", "=>", "int", "endl",
    "read-latency", "=>", "int", "endl", "write-latency", "=>", "int", "endl",
    "read-under-write", "=>", "undefined", "endl", "dedent", "endl">>

(* An else is written twice: visit follows its statements and returns true.*)
ConditionalTemplates ==
  [Conditional     |-> <<"when", "mCond", ":", "info", "indent", "endl", "mThen",
                         "dedent", "mElse">>,
   ConditionalElse |-> <<"else", ":", "info", "indent", "endl", "mStmts",
                         "dedent", "mStmts">>]

StmtTemplates ==
  [StmtGroup |-> <<"mGroup">>,
   Wire      |-> <<"wire", "identifier", ":", "mType", "info", "endl">>,
   Memory    |-> MemoryTemplate,
   Instance  |-> <<"inst", "identifier", "of", "mOf", "info", "endl">>,
   Node      |-> <<"node", "identifier", "=", "mExpr", "info", "endl">>,
   Connect   |-> <<"mTo", "<=", "mFrom", "info", "endl">>,
   Invalid   |-> <<"mExp", "is", "invalid", "info", "endl">>,
   Stop      |-> <<"stop", "(", "mClock", "mCond", "int", ")", "info", "endl">>,
   Printf    |-> <<"printf", "(", "mClock", "mCond", "string", ")", "endl">>,
   Empty     |-> <<"skip", "info", "endl">>]

(* Variant: in the order of the constructor.                               *)
SubFieldTemplateSwapped == <<"mField", ".", "mOf">>

SubFieldTemplate == <<"mOf", ".", "mField">>

(* A conditionally valid expression is written as a multiplexer.           *)
ExpressionTemplates ==
  [Reference |-> <<"identifier">>,
   SubField  |-> SubFieldTemplate,
   SubIndex  |-> <<"mOf", "[", "int", "]">>,
   SubAccess |-> <<"mOf", "[", "mExp", "]">>,
   Mux       |-> <<"mux", "(", "mSel", "mA", "mB", ")">>,
   CondValid |-> <<"mux", "(", "mSel", "mA", ")">>,
   PrimOp    |-> <<"primop(", "mOperands", ")">>]

(* The string of a constant: its type is written, not visited.             *)
getString(n) == TypeIntTemplate(ir[n].to.mType[1]) \o <<"(", "int", ")">>

(* The last parenthesis is written in any case.                            *)
RegTemplate(n) ==
  <<"reg", "identifier", ":", "mType", "mClock">>
    \o (IF Given(n, "mResetTrigger") /\ Given(n, "mResetValue")
        THEN <<"with", ":", "(", "reset", "=>", "(", "mResetTrigger",
               "mResetValue", ")">>
        ELSE <<>>)
    \o <<")", "info", "endl">>

Templates == ModuleTemplates @@ TypeTemplates @@ ConditionalTemplates
               @@ StmtTemplates @@ ExpressionTemplates

Template(n) ==
  IF ir[n].kind = "Reg" THEN RegTemplate(n)
  ELSE IF ir[n].kind = "TypeInt" THEN TypeIntTemplate(n)
  ELSE IF ir[n].kind = "Constant" THEN getString(n)
  ELSE Templates[ir[n].kind]

-----------------------------------------------------------------------------
Writer == INSTANCE LineWriter WITH Texts <- {}

PrinterInit == Writer!Init /\ todo = <<>>

Token(t) == [do |-> "write", what |-> t, at |-> 0]
Visit(n) == [do |-> "visit", what |-> "node", at |-> n]

(* The pointers that are asked for before they are followed.               *)
AskedFor == {"mStmts", "mElse"}

(***************************************************************************)
(* What an entry comes to: a pointer that is null is followed all the      *)
(* same, and the first operand is taken of none.                           *)
(***************************************************************************)
Items(n, entry) ==
  IF entry \notin Pointers(ir[n].kind)
  THEN IF entry = "info" /\ ~ ir[n].info THEN <<>> ELSE <<Token(entry)>>
  ELSE IF Given(n, entry)
  THEN [i \in 1 .. Len(Target(n, entry)) |-> Visit(Target(n, entry)[i])]
  ELSE IF entry \in AskedFor \/ entry \in Lists \ {"mOperands"} THEN <<>>
  ELSE <<Visit(NULL)>>

ToDo(do) == todo # <<>> /\ Head(todo).do = do

accept ==
  /\ ToDo("visit")
  /\ Head(todo).at # NULL
  /\ LET n == Head(todo).at
         template == Template(n)
     IN  todo' = FlattenSeq([i \in 1 .. Len(template) |-> Items(n, template[i])])
                   \o Tail(todo)
  /\ UNCHANGED <<level, lines>>

FollowsNull == ToDo("visit") /\ Head(todo).at = NULL

write ==
  /\ ToDo("write")
  /\ LET t == Head(todo).what
     IN  \/ t = "indent" /\ Writer!Indent
         \/ t = "dedent" /\ Writer!Dedent
         \/ t = "endl" /\ Writer!Endl
         \/ t \notin Manipulators /\ Writer!Write(<<t>>)
  /\ todo' = Tail(todo)

PrinterNext == (accept \/ write) /\ UNCHANGED ir

-----------------------------------------------------------------------------
(* Variant: nothing is behind the last line break.                         *)
EndingClean == "newline"

(***************************************************************************)
(* What ends the text are the blanks of the line that the last endl began: *)
(* the dedents behind it go back over them and cut nothing off             *)
(* (StreamIndentation).                                                    *)
(***************************************************************************)
Ending == "blanks"

(* The text, for a lexer that skips empty lines.                           *)
Written ==
  LET full == SelectSeq(lines, LAMBDA l : l.text # <<>>)
  IN  Text([i \in 1 .. Len(full) |-> Line(full[i].level, full[i].text)], Ending)
=============================================================================
