------------------------------ MODULE Visitors ------------------------------
(***************************************************************************)
(* The visitors of the program: what each does when it visits a node and   *)
(* when it leaves one, as far as the traversal and the indentation of the  *)
(* output go.  A script is a sequence of pointers it follows by itself and *)
(* of the manipulators "indent" and "dedent".                              *)
(***************************************************************************)
EXTENDS IR

AllVisitors == {"stripinfo", "FIRRTL", "tree", "dot"}

(***************************************************************************)
(* The kinds whose visit() returns false; the others, and those a visitor  *)
(* does not override (class Visitor), return true.                         *)
(***************************************************************************)
(* Variants: a visit that returns the other answer.                        *)
StripInfoStopsAtWhen == {"Port", "Conditional"}

StripInfoStops == {"Port", "Wire", "Reg", "Instance", "Memory", "Node",
                   "Connect", "Invalid", "Stop", "Printf"}

FirrtlStopsNotAtWhen == {"TypeBundle", "Reg", "Memory", "Connect", "Stop", "Printf"}

FirrtlStops == {"TypeBundle", "Reg", "Memory", "Connect", "Conditional", "Stop",
                "Printf", "SubField", "SubIndex", "SubAccess", "Mux",
                "CondValid", "PrimOp"}

TreeStopsAtWhen == {"Reg", "Conditional"}
TreeStopsAtElse == {"Reg", "ConditionalElse"}

TreeStops == {"Reg", "Memory", "Connect", "Stop", "Printf", "SubField",
              "SubIndex", "SubAccess", "Mux", "CondValid"}

DotStops == {"Reg", "Connect"}

Stops(v) == CASE v = "stripinfo" -> StripInfoStops
              [] v = "FIRRTL" -> FirrtlStops
              [] v = "tree" -> TreeStops
              [] v = "dot" -> DotStops

-----------------------------------------------------------------------------
Blocks(kinds) == [k \in kinds |-> <<"indent">>]

FirrtlStmtVisit ==
  [Reg             |-> <<"mType", "mClock", "mResetTrigger", "mResetValue">>,
   Memory          |-> <<"indent", "mDType", "dedent">>,
   Connect         |-> <<"mTo", "mFrom">>,
   Conditional     |-> <<"mCond", "indent", "mThen", "dedent", "mElse">>,
   ConditionalElse |-> <<"indent", "mStmts", "dedent">>,
   Stop            |-> <<"mClock", "mCond">>,
   Printf          |-> <<"mClock", "mCond">>]

FirrtlExpressionVisit ==
  [SubField  |-> <<"mOf", "mField">>,
   SubIndex  |-> <<"mOf">>,
   SubAccess |-> <<"mOf", "mExp">>,
   Mux       |-> <<"mSel", "mA", "mB">>,
   CondValid |-> <<"mSel", "mA">>,
   PrimOp    |-> <<"mOperands">>]

FirrtlVisit == Joined(Blocks({"Circuit", "Module", "ExtModule"}),
                      Joined(FirrtlStmtVisit, FirrtlExpressionVisit))

FirrtlLeave == [k \in {"Circuit", "Module", "ExtModule"} |-> <<"dedent">>]

(* What the tree backend prints as a block that leave() ends.              *)
TreeBlocks == {"Circuit", "Module", "ExtModule", "Port", "Field", "TypeBundle",
               "TypeVector", "StmtGroup", "Wire", "Instance", "Node", "Invalid",
               "Conditional", "ConditionalElse", "PrimOp"}

TreeStmtVisit ==
  [Reg     |-> <<"indent", "mType", "mClock", "mResetTrigger", "mResetValue",
                 "dedent">>,
   Connect |-> <<"indent", "mTo", "mFrom", "dedent">>,
   Stop    |-> <<"indent", "mClock", "mCond", "dedent">>,
   Printf  |-> <<"indent", "mClock", "mCond", "mArguments", "dedent">>]

TreeExpressionVisit ==
  [Constant  |-> <<"indent", "mType", "dedent">>,
   SubField  |-> <<"indent", "mField", "mOf", "dedent">>,
   SubIndex  |-> <<"indent", "mOf", "dedent">>,
   SubAccess |-> <<"indent", "mExp", "mOf", "dedent">>,
   Mux       |-> <<"indent", "mSel", "mA", "mB", "dedent">>,
   CondValid |-> <<"indent", "mSel", "mA", "dedent">>]

TreeVisit == Joined(Blocks(TreeBlocks), Joined(TreeStmtVisit, TreeExpressionVisit))

TreeLeave == [k \in TreeBlocks |-> <<"dedent">>]

DotVisits == [Connect |-> <<"mFrom", "mTo">>]
DotLeave == [Circuit |-> <<"indent", "dedent">>]

Entry(table, kind) == IF kind \in DOMAIN table THEN table[kind] ELSE <<>>

VisitScript(v, kind) ==
  CASE v = "stripinfo" -> <<>>
    [] v = "FIRRTL" -> Entry(FirrtlVisit, kind)
    [] v = "tree" -> Entry(TreeVisit, kind)
    [] v = "dot" -> Entry(DotVisits, kind)

(* Reg::accept leaves the register as if it were a circuit.                *)
LeaveScript(v, kind) ==
  LET left == IF kind = "Reg" THEN "Circuit" ELSE kind
  IN  CASE v = "stripinfo" -> <<>>
        [] v = "FIRRTL" -> Entry(FirrtlLeave, left)
        [] v = "tree" -> Entry(TreeLeave, left)
        [] v = "dot" -> Entry(DotLeave, left)

(***************************************************************************)
(* The pointers a visitor, or accept(), asks to be set before it follows a *)
(* pointer.  Every other pointer is followed without asking.               *)
(***************************************************************************)
AskedOfNoModule(v, kind, field) ==
  IF kind = "Conditional" /\ field = "mElse" THEN {"mElse"} ELSE {}

Asked(v, kind, field) ==
  CASE kind \in Modules /\ field = "mStmts" -> {"mStmts"}
    [] kind = "Conditional" /\ field = "mElse" -> {"mElse"}
    [] kind = "Reg" /\ field \in {"mResetTrigger", "mResetValue"} ->
         IF v = "tree" THEN {"mResetTrigger"}
                       ELSE {"mResetTrigger", "mResetValue"}
    [] OTHER -> {}

(***************************************************************************)
(* What visiting a node runs: the visitor's own script, then what accept() *)
(* does if the visitor returned true.  TypeBundle's accept is empty, so    *)
(* that no visitor ever sees a bundle.                                     *)
(***************************************************************************)
Script(v, kind) ==
  IF kind = "TypeBundle" THEN <<>>
  ELSE VisitScript(v, kind) \o
       (IF kind \in DOMAIN AcceptOrder /\ kind \notin Stops(v)
        THEN AcceptOrder[kind] \o LeaveScript(v, kind) ELSE <<>>)
=============================================================================
