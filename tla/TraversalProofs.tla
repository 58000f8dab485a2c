--------------------------- MODULE TraversalProofs --------------------------
(***************************************************************************)
(* The invariants of the traversal, for trees of any size, every visitor   *)
(* and every order of building.                                            *)
(*                                                                         *)
(* Inv is inductive. It has the shape of the tree (a child is made after   *)
(* its parent, and has one), and what makes the agenda stand for the calls *)
(* that have begun: a null pointer in it is one that a visited node has or *)
(* was reached through, and a child of a visited node was visited or is    *)
(* still in it. The level and the number of visits need more than that:    *)
(* what is still to come must end at the right level, and must not visit a *)
(* node more often than it may. Both are a walk up and down a level        *)
(* (Climbs): LevelFollows and VisitsBounded keep the end of the walk where *)
(* it is while its beginning is taken away.                                *)
(***************************************************************************)
EXTENDS DotGraph, DataLemmas, FunctionTheorems, TLAPS

-----------------------------------------------------------------------------
(***************************************************************************)
(* The tree: what a node leads to.                                         *)
(***************************************************************************)
(* Children are made after their parents.                                  *)
Ordered ==
  /\ Len(ir) \in Nat
  /\ \A n \in 1 .. Len(ir) : Successors(n) \subseteq n + 1 .. Len(ir)

(* From() has start, all children of what it has, and nothing else.        *)
FromIsLeast ==
  \A start \in SUBSET (1 .. Len(ir)) :
    /\ start \subseteq From(start)
    /\ From(start) \subseteq 1 .. Len(ir)
    /\ \A n \in From(start) : Successors(n) \subseteq From(start)
    /\ \A T : start \subseteq T /\ (\A n \in T \cap 1 .. Len(ir) : Successors(n) \subseteq T)
                => From(start) \subseteq T

(* It is so in an ordered tree.                                            *)
LEMMA FromFacts == Ordered => FromIsLeast
<1> SUFFICES ASSUME Ordered, NEW start, start \subseteq 1 .. Len(ir)
             PROVE  /\ start \subseteq From(start)
                    /\ From(start) \subseteq 1 .. Len(ir)
                    /\ \A n \in From(start) : Successors(n) \subseteq From(start)
                    /\ \A T : start \subseteq T /\ (\A n \in T \cap 1 .. Len(ir) : Successors(n) \subseteq T)
                         => From(start) \subseteq T
  BY DEF FromIsLeast
<1> DEFINE L == Len(ir)
           next == [n \in 1 .. L |-> Successors(n)]
           Is(f) == f = [n \in 0 .. L |->
              IF n = 0 THEN start
              ELSE IF n \in f[n - 1] THEN f[n - 1] \cup Successors(n)
              ELSE f[n - 1]]
           found == CHOOSE f : Is(f)
<1>1. L \in Nat /\ \A n \in 1 .. L : next[n] \subseteq n + 1 .. L
  BY DEF Ordered
<1>2. \A n \in 0 .. L : n # 0 => n \in 1 .. L /\ next[n] = Successors(n)
  OBVIOUS
<1>3. From(start) = found[L]
  BY DEF From
<1> HIDE DEF L, next, Is
<1>4. \E f : Searches(L, start, next, f)
  BY <1>1, SearchDefined
<1>5. \E f : Is(f)
  <2>1. PICK f : Searches(L, start, next, f)
    BY <1>4
  <2>2. [n \in 0 .. L |->
              IF n = 0 THEN start
              ELSE IF n \in f[n - 1] THEN f[n - 1] \cup next[n]
              ELSE f[n - 1]]
        = [n \in 0 .. L |->
              IF n = 0 THEN start
              ELSE IF n \in f[n - 1] THEN f[n - 1] \cup Successors(n)
              ELSE f[n - 1]]
    BY <1>2
  <2>3. Is(f)
    BY <2>1, <2>2, Zenon DEF Is, Searches
  <2> QED BY <2>3
<1>6. Is(found)
  BY <1>5
<1> HIDE DEF found
<1>7. Searched(L, start, next, found)
  <2>1. 0 \in 0 .. L /\ \A n \in 1 .. L : n \in 0 .. L /\ n # 0
    BY <1>1
  <2> QED BY <1>2, <1>6, <2>1, Zenon DEF Is, Searched
<1>8. start \subseteq 1 .. L
  BY DEF L
<1>9. Closure(L, start, next, found[L])
  BY <1>1, <1>7, <1>8, SearchFinds
<1>10. \A n \in 1 .. L : next[n] = Successors(n)
  BY DEF next
<1> QED
  <2> HIDE DEF Successors
  <2>1. \A n \in found[L] : Successors(n) \subseteq found[L]
    BY <1>9, <1>10 DEF Closure
  <2>2. ASSUME NEW T, start \subseteq T,
               \A n \in T \cap 1 .. L : Successors(n) \subseteq T
        PROVE  found[L] \subseteq T
    <3>1. \A n \in T \cap 1 .. L : next[n] \subseteq T
      BY <1>10, <2>2
    <3> QED BY <1>9, <2>2, <3>1 DEF Closure
  <2> QED BY <1>3, <1>9, <2>1, <2>2 DEF L, Closure

(* And in that of the next state.                                          *)
LEMMA FromFactsNext == Ordered' => FromIsLeast'
  BY FromFacts, PTL

-----------------------------------------------------------------------------
(***************************************************************************)
(* The scripts: what a visitor does at a node of each kind.                *)
(***************************************************************************)
(* The entries of a script that are no pointers.                           *)
Marks == {"indent", "dedent"}

(* What a script may name.                                                 *)
Entries ==
  Marks \cup
  {"mExternalModules", "mInternalModules", "mPorts", "mStmts", "mType", "mGroup",
   "mClock", "mResetTrigger", "mResetValue", "mOf", "mExpr", "mTo", "mFrom",
   "mExp", "mCond", "mThen", "mElse", "mArguments", "mField", "mSel", "mA", "mB",
   "mOperands", "mDType"}

(* The kinds whose accept() calls accept() of others.                      *)
LEMMA AcceptDomain ==
  DOMAIN AcceptOrder =
    {"Circuit", "Module", "ExtModule", "Port", "StmtGroup", "Wire", "Reg",
     "Instance", "Node", "Connect", "Invalid", "Conditional", "ConditionalElse",
     "Stop", "Printf", "SubField", "SubIndex", "SubAccess", "Mux", "CondValid",
     "PrimOp"}
BY DEF AcceptOrder, Joined, CircuitAccept, ModuleAccept, PortAccept,
       DeclarationAccept, StmtAccept, ExpressionAccept

(* What each of them calls.                                                *)
LEMMA AcceptTable ==
  /\ AcceptOrder["Circuit"] = <<"mExternalModules", "mInternalModules">>
  /\ AcceptOrder["Module"] = <<"mPorts", "mStmts">>
  /\ AcceptOrder["ExtModule"] = <<"mPorts", "mStmts">>
  /\ AcceptOrder["Port"] = <<"mType">>
  /\ AcceptOrder["StmtGroup"] = <<"mGroup">>
  /\ AcceptOrder["Wire"] = <<"mType">>
  /\ AcceptOrder["Reg"] = <<"mType", "mClock", "mResetTrigger", "mResetValue">>
  /\ AcceptOrder["Instance"] = <<"mOf">>
  /\ AcceptOrder["Node"] = <<"mExpr">>
  /\ AcceptOrder["Connect"] = <<"mTo", "mFrom">>
  /\ AcceptOrder["Invalid"] = <<"mExp">>
  /\ AcceptOrder["Conditional"] = <<"mCond", "mThen", "mElse">>
  /\ AcceptOrder["ConditionalElse"] = <<"mStmts">>
  /\ AcceptOrder["Stop"] = <<"mClock", "mCond">>
  /\ AcceptOrder["Printf"] = <<"mClock", "mCond", "mArguments">>
  /\ AcceptOrder["SubField"] = <<"mOf", "mField">>
  /\ AcceptOrder["SubIndex"] = <<"mOf">>
  /\ AcceptOrder["SubAccess"] = <<"mOf", "mExp">>
  /\ AcceptOrder["Mux"] = <<"mSel", "mA", "mB">>
  /\ AcceptOrder["CondValid"] = <<"mSel", "mA">>
  /\ AcceptOrder["PrimOp"] = <<"mOperands">>
BY DEF AcceptOrder, Joined, CircuitAccept, ModuleAccept, PortAccept,
       DeclarationAccept, StmtAccept, ExpressionAccept

(* They are the pointers of the node, all of them.                         *)
LEMMA AcceptEntries ==
  ASSUME NEW k \in DOMAIN AcceptOrder
  PROVE  /\ AcceptOrder[k] \in Seq(Entries)
         /\ ToSet(AcceptOrder[k]) \cap Marks = {}
         /\ ToSet(AcceptOrder[k]) = Pointers(k)
<1>1. /\ <<"mExternalModules", "mInternalModules">> \in Seq(Entries)
      /\ <<"mPorts", "mStmts">> \in Seq(Entries)
      /\ <<"mType">> \in Seq(Entries)
      /\ <<"mGroup">> \in Seq(Entries)
      /\ <<"mType", "mClock", "mResetTrigger", "mResetValue">> \in Seq(Entries)
      /\ <<"mOf">> \in Seq(Entries)
      /\ <<"mExpr">> \in Seq(Entries)
      /\ <<"mTo", "mFrom">> \in Seq(Entries)
      /\ <<"mExp">> \in Seq(Entries)
      /\ <<"mCond", "mThen", "mElse">> \in Seq(Entries)
      /\ <<"mStmts">> \in Seq(Entries)
      /\ <<"mClock", "mCond">> \in Seq(Entries)
      /\ <<"mClock", "mCond", "mArguments">> \in Seq(Entries)
      /\ <<"mOf", "mField">> \in Seq(Entries)
      /\ <<"mOf", "mExp">> \in Seq(Entries)
      /\ <<"mSel", "mA", "mB">> \in Seq(Entries)
      /\ <<"mSel", "mA">> \in Seq(Entries)
      /\ <<"mOperands">> \in Seq(Entries)
  BY DEF Entries
<1>2. /\ ToSet(<<"mExternalModules", "mInternalModules">>) \cap Marks = {}
      /\ ToSet(<<"mPorts", "mStmts">>) \cap Marks = {}
      /\ ToSet(<<"mType">>) \cap Marks = {}
      /\ ToSet(<<"mGroup">>) \cap Marks = {}
      /\ ToSet(<<"mType", "mClock", "mResetTrigger", "mResetValue">>) \cap Marks = {}
      /\ ToSet(<<"mOf">>) \cap Marks = {}
      /\ ToSet(<<"mExpr">>) \cap Marks = {}
      /\ ToSet(<<"mTo", "mFrom">>) \cap Marks = {}
      /\ ToSet(<<"mExp">>) \cap Marks = {}
      /\ ToSet(<<"mCond", "mThen", "mElse">>) \cap Marks = {}
      /\ ToSet(<<"mStmts">>) \cap Marks = {}
      /\ ToSet(<<"mClock", "mCond">>) \cap Marks = {}
      /\ ToSet(<<"mClock", "mCond", "mArguments">>) \cap Marks = {}
      /\ ToSet(<<"mOf", "mField">>) \cap Marks = {}
      /\ ToSet(<<"mOf", "mExp">>) \cap Marks = {}
      /\ ToSet(<<"mSel", "mA", "mB">>) \cap Marks = {}
      /\ ToSet(<<"mSel", "mA">>) \cap Marks = {}
      /\ ToSet(<<"mOperands">>) \cap Marks = {}
  BY DEF Marks, ToSet
<1>3. AcceptOrder[k] \in Seq(Entries)
  BY <1>1, AcceptTable, AcceptDomain
<1>4. ToSet(AcceptOrder[k]) \cap Marks = {}
  BY <1>2, AcceptTable, AcceptDomain
<1>5. ToSet(AcceptOrder[k]) = Pointers(k)
  BY DEF Pointers
<1> QED BY <1>3, <1>4, <1>5

(* The pointers of each kind.                                              *)
LEMMA PointersTable ==
  /\ Pointers("Circuit") = {"mExternalModules", "mInternalModules"}
  /\ Pointers("Module") = {"mPorts", "mStmts"}
  /\ Pointers("ExtModule") = {"mPorts", "mStmts"}
  /\ Pointers("Port") = {"mType"}
  /\ Pointers("StmtGroup") = {"mGroup"}
  /\ Pointers("Wire") = {"mType"}
  /\ Pointers("Reg") = {"mType", "mClock", "mResetTrigger", "mResetValue"}
  /\ Pointers("Instance") = {"mOf"}
  /\ Pointers("Node") = {"mExpr"}
  /\ Pointers("Connect") = {"mTo", "mFrom"}
  /\ Pointers("Invalid") = {"mExp"}
  /\ Pointers("Conditional") = {"mCond", "mThen", "mElse"}
  /\ Pointers("ConditionalElse") = {"mStmts"}
  /\ Pointers("Stop") = {"mClock", "mCond"}
  /\ Pointers("Printf") = {"mClock", "mCond", "mArguments"}
  /\ Pointers("SubField") = {"mOf", "mField"}
  /\ Pointers("SubIndex") = {"mOf"}
  /\ Pointers("SubAccess") = {"mOf", "mExp"}
  /\ Pointers("Mux") = {"mSel", "mA", "mB"}
  /\ Pointers("CondValid") = {"mSel", "mA"}
  /\ Pointers("PrimOp") = {"mOperands"}
  /\ Pointers("Memory") = {"mDType"}
  /\ Pointers("Constant") = {"mType"}
  /\ \A k \in {"Parameter", "Field", "Empty", "Reference"} \cup Types : Pointers(k) = {}
BY AcceptTable, AcceptDomain DEF Pointers, OtherPointers, ToSet, Types

(* What visit() of the FIRRTL backend does.                                *)
LEMMA FirrtlTable ==
  /\ DOMAIN FirrtlVisit =
       {"Circuit", "Module", "ExtModule", "Reg", "Memory", "Connect", "Conditional",
        "ConditionalElse", "Stop", "Printf", "SubField", "SubIndex", "SubAccess",
        "Mux", "CondValid", "PrimOp"}
  /\ \A k \in {"Circuit", "Module", "ExtModule"} : FirrtlVisit[k] = <<"indent">>
  /\ FirrtlVisit["Reg"] = <<"mType", "mClock", "mResetTrigger", "mResetValue">>
  /\ FirrtlVisit["Memory"] = <<"indent", "mDType", "dedent">>
  /\ FirrtlVisit["Connect"] = <<"mTo", "mFrom">>
  /\ FirrtlVisit["Conditional"] = <<"mCond", "indent", "mThen", "dedent", "mElse">>
  /\ FirrtlVisit["ConditionalElse"] = <<"indent", "mStmts", "dedent">>
  /\ FirrtlVisit["Stop"] = <<"mClock", "mCond">>
  /\ FirrtlVisit["Printf"] = <<"mClock", "mCond">>
  /\ FirrtlVisit["SubField"] = <<"mOf", "mField">>
  /\ FirrtlVisit["SubIndex"] = <<"mOf">>
  /\ FirrtlVisit["SubAccess"] = <<"mOf", "mExp">>
  /\ FirrtlVisit["Mux"] = <<"mSel", "mA", "mB">>
  /\ FirrtlVisit["CondValid"] = <<"mSel", "mA">>
  /\ FirrtlVisit["PrimOp"] = <<"mOperands">>
BY DEF FirrtlVisit, Joined, Blocks, FirrtlStmtVisit, FirrtlExpressionVisit

(* What visit() of the tree backend does.                                  *)
LEMMA TreeTable ==
  /\ DOMAIN TreeVisit = TreeBlocks \cup
       {"Reg", "Connect", "Stop", "Printf", "Constant", "SubField", "SubIndex",
        "SubAccess", "Mux", "CondValid"}
  /\ \A k \in TreeBlocks : TreeVisit[k] = <<"indent">>
  /\ TreeVisit["Reg"] = <<"indent", "mType", "mClock", "mResetTrigger", "mResetValue", "dedent">>
  /\ TreeVisit["Connect"] = <<"indent", "mTo", "mFrom", "dedent">>
  /\ TreeVisit["Stop"] = <<"indent", "mClock", "mCond", "dedent">>
  /\ TreeVisit["Printf"] = <<"indent", "mClock", "mCond", "mArguments", "dedent">>
  /\ TreeVisit["Constant"] = <<"indent", "mType", "dedent">>
  /\ TreeVisit["SubField"] = <<"indent", "mField", "mOf", "dedent">>
  /\ TreeVisit["SubIndex"] = <<"indent", "mOf", "dedent">>
  /\ TreeVisit["SubAccess"] = <<"indent", "mExp", "mOf", "dedent">>
  /\ TreeVisit["Mux"] = <<"indent", "mSel", "mA", "mB", "dedent">>
  /\ TreeVisit["CondValid"] = <<"indent", "mSel", "mA", "dedent">>
BY DEF TreeVisit, Joined, Blocks, TreeBlocks, TreeStmtVisit, TreeExpressionVisit

(* A visitor follows pointers of the node it visits.                       *)
Follows(k, script) ==
  script \in Seq(Entries) /\ ToSet(script) \subseteq Marks \cup Pointers(k)

(* The FIRRTL backend.                                                     *)
LEMMA FirrtlFollows ==
  ASSUME NEW k \in DOMAIN FirrtlVisit
  PROVE  Follows(k, FirrtlVisit[k])
<1>1. /\ Follows("Reg", <<"mType", "mClock", "mResetTrigger", "mResetValue">>)
      /\ Follows("Memory", <<"indent", "mDType", "dedent">>)
      /\ Follows("Connect", <<"mTo", "mFrom">>)
      /\ Follows("Conditional", <<"mCond", "indent", "mThen", "dedent", "mElse">>)
      /\ Follows("ConditionalElse", <<"indent", "mStmts", "dedent">>)
      /\ Follows("Stop", <<"mClock", "mCond">>)
      /\ Follows("Printf", <<"mClock", "mCond">>)
      /\ Follows("SubField", <<"mOf", "mField">>)
      /\ Follows("SubIndex", <<"mOf">>)
      /\ Follows("SubAccess", <<"mOf", "mExp">>)
      /\ Follows("Mux", <<"mSel", "mA", "mB">>)
      /\ Follows("CondValid", <<"mSel", "mA">>)
      /\ Follows("PrimOp", <<"mOperands">>)
  BY PointersTable DEF Follows, Entries, Marks, ToSet
<1>2. \A c \in {"Circuit", "Module", "ExtModule"} : Follows(c, <<"indent">>)
  BY DEF Follows, Entries, Marks, ToSet
<1> QED BY <1>1, <1>2, FirrtlTable

(* The tree backend.                                                       *)
LEMMA TreeFollows ==
  ASSUME NEW k \in DOMAIN TreeVisit
  PROVE  Follows(k, TreeVisit[k])
<1>1. /\ Follows("Reg", <<"indent", "mType", "mClock", "mResetTrigger", "mResetValue", "dedent">>)
      /\ Follows("Connect", <<"indent", "mTo", "mFrom", "dedent">>)
      /\ Follows("Stop", <<"indent", "mClock", "mCond", "dedent">>)
      /\ Follows("Printf", <<"indent", "mClock", "mCond", "mArguments", "dedent">>)
      /\ Follows("Constant", <<"indent", "mType", "dedent">>)
      /\ Follows("SubField", <<"indent", "mField", "mOf", "dedent">>)
      /\ Follows("SubIndex", <<"indent", "mOf", "dedent">>)
      /\ Follows("SubAccess", <<"indent", "mExp", "mOf", "dedent">>)
      /\ Follows("Mux", <<"indent", "mSel", "mA", "mB", "dedent">>)
      /\ Follows("CondValid", <<"indent", "mSel", "mA", "dedent">>)
  BY PointersTable DEF Follows, Entries, Marks, ToSet
<1>2. \A c \in TreeBlocks : Follows(c, <<"indent">>)
  BY DEF Follows, Entries, Marks, ToSet
<1> QED BY <1>1, <1>2, TreeTable

(* Every visitor, at nodes of every kind.                                  *)
LEMMA VisitFollows ==
  ASSUME NEW v \in AllVisitors, NEW k
  PROVE  Follows(k, VisitScript(v, k))
<1>1. Follows(k, <<>>)
  BY Tuples DEF Follows
<1>2. CASE v = "stripinfo"
  BY <1>1, <1>2 DEF VisitScript
<1>3. CASE v = "FIRRTL"
  BY <1>1, <1>3, FirrtlFollows DEF VisitScript, Entry
<1>4. CASE v = "tree"
  BY <1>1, <1>4, TreeFollows DEF VisitScript, Entry
<1>5. CASE v = "dot"
  <2>1. Follows("Connect", <<"mFrom", "mTo">>)
    BY PointersTable DEF Follows, Entries, Marks, ToSet
  <2>2. DOMAIN DotVisits = {"Connect"} /\ DotVisits["Connect"] = <<"mFrom", "mTo">>
    BY DEF DotVisits
  <2> QED BY <1>1, <1>5, <2>1, <2>2 DEF VisitScript, Entry
<1> QED BY <1>2, <1>3, <1>4, <1>5 DEF AllVisitors

(* leave() follows no pointer.                                             *)
LEMMA LeaveMarks ==
  ASSUME NEW v \in AllVisitors, NEW k
  PROVE  /\ LeaveScript(v, k) \in Seq(Entries)
         /\ ToSet(LeaveScript(v, k)) \subseteq Marks
         /\ LeaveScript(v, k) \in {<<>>, <<"dedent">>, <<"indent", "dedent">>}
<1>1. LeaveScript(v, k) \in {<<>>, <<"dedent">>, <<"indent", "dedent">>}
  <2>1. /\ \A c \in DOMAIN FirrtlLeave : FirrtlLeave[c] = <<"dedent">>
        /\ \A c \in DOMAIN TreeLeave : TreeLeave[c] = <<"dedent">>
        /\ \A c \in DOMAIN DotLeave : DotLeave[c] = <<"indent", "dedent">>
    BY DEF FirrtlLeave, TreeLeave, DotLeave
  <2> QED BY <2>1 DEF AllVisitors, LeaveScript, Entry
<1>2. /\ <<>> \in Seq(Entries) /\ ToSet(<<>>) \subseteq Marks
      /\ <<"dedent">> \in Seq(Entries) /\ ToSet(<<"dedent">>) \subseteq Marks
      /\ <<"indent", "dedent">> \in Seq(Entries)
      /\ ToSet(<<"indent", "dedent">>) \subseteq Marks
  BY DEF Entries, Marks, ToSet
<1> QED BY <1>1, <1>2

(* The pointers of the tree of modules and statements, which every visitor *)
(* follows somewhere.                                                      *)
Kept == {"mExternalModules", "mInternalModules", "mPorts", "mStmts", "mThen",
         "mElse", "mGroup"}

(* visit(), accept() and leave() together: they follow pointers of the     *)
(* node, and those of the tree of modules and statements, all of them.     *)
LEMMA ScriptFollows ==
  ASSUME NEW v \in AllVisitors, NEW k \in AllKinds
  PROVE  /\ Follows(k, Script(v, k))
         /\ Kept \cap Pointers(k) \subseteq ToSet(Script(v, k))
<1>1. CASE k = "TypeBundle"
  BY <1>1, Tuples, PointersTable DEF Script, Follows, Types
<1>2. CASE k # "TypeBundle" /\ k \in DOMAIN AcceptOrder /\ k \notin Stops(v)
  <2> DEFINE rest == AcceptOrder[k] \o LeaveScript(v, k)
  <2>1. Script(v, k) = VisitScript(v, k) \o rest
    BY <1>2 DEF Script
  <2>2. rest \in Seq(Entries)
    BY <1>2, AcceptEntries, LeaveMarks, ConcatProperties
  <2>3. ToSet(rest) = Pointers(k) \cup ToSet(LeaveScript(v, k))
    BY <1>2, AcceptEntries, LeaveMarks, ConcatHas
  <2> HIDE DEF rest
  <2>4. Script(v, k) \in Seq(Entries)
    BY <2>1, <2>2, VisitFollows, ConcatProperties DEF Follows
  <2>5. ToSet(Script(v, k)) = ToSet(VisitScript(v, k)) \cup ToSet(rest)
    BY <2>1, <2>2, VisitFollows, ConcatHas DEF Follows
  <2> QED BY <2>3, <2>4, <2>5, VisitFollows, LeaveMarks DEF Follows
<1>3. CASE k # "TypeBundle" /\ ~ (k \in DOMAIN AcceptOrder /\ k \notin Stops(v))
  <2>1. Script(v, k) = VisitScript(v, k)
    <3>1. Script(v, k) = VisitScript(v, k) \o <<>>
      BY <1>3 DEF Script
    <3> QED BY <3>1, VisitFollows, ConcatEmptySeq DEF Follows
  <2>2. Follows(k, Script(v, k))
    BY <2>1, VisitFollows
  <2>3. CASE v = "FIRRTL" /\ k = "Conditional"
    <3>1. VisitScript(v, k) = <<"mCond", "indent", "mThen", "dedent", "mElse">>
      BY <2>3, FirrtlTable DEF VisitScript, Entry
    <3>2. ToSet(<<"mCond", "indent", "mThen", "dedent", "mElse">>)
            = {"mCond", "indent", "mThen", "dedent", "mElse"}
      BY DEF ToSet
    <3> QED BY <2>1, <2>2, <2>3, <3>1, <3>2, PointersTable
  <2>4. CASE ~ (v = "FIRRTL" /\ k = "Conditional")
    <3>1. k \notin {"Circuit", "Module", "ExtModule", "StmtGroup", "Conditional",
                    "ConditionalElse"}
      BY <1>3, <2>4, AcceptDomain DEF Stops, StripInfoStops, FirrtlStops, TreeStops,
                     DotStops, AllVisitors
    <3>2. Kept \cap Pointers(k) = {}
      BY <3>1, PointersTable DEF Kept, AllKinds, Modules, Types, Stmts, Expressions
    <3> QED BY <2>2, <3>2
  <2> QED BY <2>3, <2>4
<1> QED BY <1>1, <1>2, <1>3

-----------------------------------------------------------------------------
(***************************************************************************)
(* The inductive invariant: the tree.                                      *)
(***************************************************************************)
(* The nodes the builder makes.                                            *)
NodeShape ==
  [kind : AllKinds \ {"Field", "Parameter"}, info : BOOLEAN, width : BOOLEAN,
   to : UNION {[Pointers(k) -> Seq(Nat)] : k \in AllKinds}]

(* Where a pointer leads: to nodes made later, of the kinds it may have.   *)
PointsWell(n, f) ==
  /\ Target(n, f) \in Seq(n + 1 .. Len(ir))
  /\ \A c \in ToSet(Target(n, f)) : ir[c].kind \in Pointee(f)

(* The tree begins with the circuit, and its nodes have the pointers of    *)
(* their kind.                                                             *)
TreeShape ==
  /\ ir \in Seq(NodeShape)
  /\ Len(ir) \in 1 .. MaxNodes
  /\ ir[1].kind = "Circuit"
  /\ \A n \in 1 .. Len(ir) :
       /\ DOMAIN ir[n].to = Pointers(ir[n].kind)
       /\ \A f \in Pointers(ir[n].kind) : PointsWell(n, f)
       /\ ir[n].info => ir[n].kind \in Annotated

(* No node is given to two.                                                *)
OnePlace ==
  \A n, m \in 1 .. Len(ir) :
    \A f \in Pointers(ir[n].kind), g \in Pointers(ir[m].kind) :
      \A i \in DOMAIN Target(n, f), j \in DOMAIN Target(m, g) :
        Target(n, f)[i] = Target(m, g)[j] => n = m /\ f = g /\ i = j

-----------------------------------------------------------------------------
(***************************************************************************)
(* The inductive invariant: the run.                                       *)
(***************************************************************************)
(* What may be left to do.                                                 *)
Pending ==
  [do : {"accept"}, at : Reachable \cup {NULL}]
    \cup [do : {"indent", "dedent"}, at : Reachable]

(* The types, and that nothing runs while the tree is built.               *)
RunShape ==
  /\ status \in {"building", "running", "done", "crashed", "threw"}
  /\ status = "building" => agenda = <<>> /\ visited = <<>> /\ level = 0
  /\ status # "building" => visitor \in AllVisitors
  /\ agenda \in Seq(Pending)
  /\ visited \in Seq(Reachable)
  /\ level \in Nat

(* A node that was visited, and one that will be.                          *)
Seen(n) == n \in ToSet(visited)

Awaited(n) == Call(n) \in ToSet(agenda)

(* A null pointer is met where a node is not complete.                     *)
NullExplained ==
  Awaited(NULL) \/ status = "crashed" => \E n \in Reachable : ~ Complete(n)

(* A conditional without statements leaves a call at a null pointer.       *)
MissingAwaited ==
  \A n \in ToSet(visited) :
    ir[n].kind = "Conditional" /\ Target(n, "mThen") = <<>> => Awaited(NULL)

(* What was not visited yet will be.                                       *)
ChildrenFollow ==
  /\ status # "building" => Seen(1) \/ Awaited(1)
  /\ \A n \in ToSet(visited) : \A f \in Kept \cap Pointers(ir[n].kind) :
       \A c \in ToSet(Target(n, f)) : Seen(c) \/ Awaited(c)
  /\ status = "done" => agenda = <<>>

(* A node the pass has visited has no info left.                           *)
StripFollows ==
  visitor = "stripinfo" =>
    \A n \in ToSet(visited) : ir[n].kind \in Stripped => ~ ir[n].info

(* The inductive invariant.                                                *)
Inv == TreeShape /\ OnePlace /\ RunShape /\ NullExplained /\ MissingAwaited
        /\ ChildrenFollow /\ StripFollows

(* What a pointer may be given is a kind that nodes have.                  *)
LEMMA PointeeKinds ==
  ASSUME NEW f
  PROVE  Pointee(f) \subseteq AllKinds \ {"Field", "Parameter"}
BY DEF Pointee, AllKinds, Modules, Types, Stmts, Expressions

(* A node when it is made.                                                 *)
LEMMA NewShape ==
  ASSUME NEW k \in AllKinds \ {"Field", "Parameter"}
  PROVE  /\ New(k) \in NodeShape
         /\ New(k).kind = k /\ New(k).info = FALSE
         /\ DOMAIN New(k).to = Pointers(k)
         /\ \A f \in Pointers(k) : New(k).to[f] = <<>>
<1>1. [f \in Pointers(k) |-> <<>>] \in [Pointers(k) -> Seq(Nat)]
  BY EmptySeq
<1> QED BY <1>1 DEF New, NodeShape

-----------------------------------------------------------------------------
(***************************************************************************)
(* The builder keeps the shape of the tree.                                *)
(***************************************************************************)
(* Giving a node a child: the child is the last node, the pointer to it    *)
(* ends with it, and all other pointers stay.                              *)
LEMMA GiveFacts ==
  ASSUME TreeShape, NEW parent \in 1 .. Len(ir), NEW kind \in Kinds,
         NEW field \in Pointers(ir[parent].kind), Give(parent, field, kind)
  PROVE  /\ Len(ir') = Len(ir) + 1 /\ Len(ir) + 1 <= MaxNodes
         /\ kind \in Pointee(field)
         /\ ir' \in Seq(NodeShape)
         /\ ir'[Len(ir) + 1] = New(kind)
         /\ \A n \in 1 .. Len(ir) :
              /\ ir'[n].kind = ir[n].kind /\ ir'[n].info = ir[n].info
              /\ DOMAIN ir'[n].to = DOMAIN ir[n].to
         /\ \A n \in 1 .. Len(ir) : \A f \in Pointers(ir[n].kind) :
              n # parent \/ f # field => Target(n, f)' = Target(n, f)
         /\ \E old \in {<<>>, Target(parent, field)} :
              Target(parent, field)' = Append(old, Len(ir) + 1)
<1> DEFINE child == Len(ir) + 1
           made == Append(ir, New(kind))
<1>1. /\ Len(ir) < MaxNodes /\ kind \in Pointee(field)
      /\ \E old \in {<<>>, Target(parent, field)} :
           ir' = [made EXCEPT ![parent].to[field] = Append(old, child)]
  <2>1. made[parent] = ir[parent]
    BY DEF TreeShape
  <2> QED BY <2>1 DEF Give, Target
<1>2. PICK old \in {<<>>, Target(parent, field)} :
        ir' = [made EXCEPT ![parent].to[field] = Append(old, child)]
  BY <1>1
<1>3. /\ ir \in Seq(NodeShape) /\ Len(ir) \in Nat /\ MaxNodes \in Nat
      /\ kind \in AllKinds \ {"Field", "Parameter"}
  BY <1>1, PointeeKinds, IRAssumption DEF TreeShape
<1>4. /\ New(kind) \in NodeShape
  BY <1>3, NewShape
<1>5. /\ made \in Seq(NodeShape) /\ Len(made) = Len(ir) + 1 /\ made[child] = New(kind)
      /\ \A n \in 1 .. Len(ir) : made[n] = ir[n]
  BY <1>3, <1>4
<1>6. /\ ir[parent] \in NodeShape /\ DOMAIN ir[parent].to = Pointers(ir[parent].kind)
      /\ Target(parent, field) \in Seq(Nat)
  <2>1. ir[parent] \in NodeShape /\ DOMAIN ir[parent].to = Pointers(ir[parent].kind)
    BY DEF TreeShape
  <2>2. Target(parent, field) \in Seq(parent + 1 .. Len(ir))
    BY DEF TreeShape, PointsWell
  <2>3. parent + 1 .. Len(ir) \subseteq Nat
    BY <1>3
  <2> QED BY <2>1, <2>2, <2>3, SeqMonotonic
<1> DEFINE new == Append(old, child)
           node == [ir[parent] EXCEPT !.to[field] = new]
<1>7. new \in Seq(Nat)
  <2>1. old \in Seq(Nat)
    BY <1>2, <1>6, EmptySeq
  <2>2. child \in Nat
    BY <1>3
  <2> QED BY <2>1, <2>2
<1> HIDE DEF new
<1>8. /\ node \in NodeShape
      /\ node.kind = ir[parent].kind /\ node.info = ir[parent].info
      /\ DOMAIN node.to = DOMAIN ir[parent].to
      /\ node.to[field] = new
      /\ \A f \in DOMAIN node.to : f # field => node.to[f] = ir[parent].to[f]
  <2>1. ir[parent].to \in [Pointers(ir[parent].kind) -> Seq(Nat)]
    BY <1>6 DEF NodeShape
  <2>2. [ir[parent].to EXCEPT ![field] = new] \in [Pointers(ir[parent].kind) -> Seq(Nat)]
    BY <1>7, <2>1
  <2>3. ir[parent].kind \in AllKinds
    BY <1>6 DEF NodeShape
  <2>4. [ir[parent].to EXCEPT ![field] = new] \in UNION {[Pointers(k) -> Seq(Nat)] : k \in AllKinds}
    BY <2>2, <2>3
  <2>5. node = [ir[parent] EXCEPT !.to = [ir[parent].to EXCEPT ![field] = new]]
    BY <1>6 DEF NodeShape
  <2> HIDE DEF node
  <2>6. node \in NodeShape
    BY <1>6, <2>4, <2>5 DEF NodeShape
  <2> QED BY <1>6, <2>1, <2>5, <2>6 DEF NodeShape
<1>9. ir' = [made EXCEPT ![parent] = node]
  <2>1. made[parent] = ir[parent] /\ parent \in DOMAIN made
    BY <1>3, <1>5
  <2> QED BY <1>2, <1>5, <2>1 DEF new
<1> HIDE DEF made, node
<1>10. /\ ir' \in Seq(NodeShape) /\ Len(ir') = Len(made)
       /\ \A n \in 1 .. Len(made) : ir'[n] = IF n = parent THEN node ELSE made[n]
  BY <1>3, <1>5, <1>8, <1>9, ExceptSeq
<1>11. Target(parent, field)' = new
  BY <1>3, <1>5, <1>8, <1>10 DEF Target
<1>12. ASSUME NEW n \in 1 .. Len(ir)
       PROVE  /\ ir'[n].kind = ir[n].kind /\ ir'[n].info = ir[n].info
              /\ DOMAIN ir'[n].to = DOMAIN ir[n].to
              /\ \A f \in Pointers(ir[n].kind) :
                   n # parent \/ f # field => Target(n, f)' = Target(n, f)
  <2>1. n \in 1 .. Len(made) /\ made[n] = ir[n]
    BY <1>3, <1>5
  <2>2. CASE n = parent
    BY <1>6, <1>8, <1>10, <2>1, <2>2 DEF Target
  <2>3. CASE n # parent
    BY <1>10, <2>1, <2>3 DEF Target
  <2> QED BY <2>2, <2>3
<1>13. ir'[child] = New(kind)
  BY <1>3, <1>5, <1>10
<1>14. Target(parent, field)' = Append(old, child)
  BY <1>11 DEF new
<1>15. Len(ir') = Len(ir) + 1 /\ Len(ir) + 1 <= MaxNodes
  BY <1>1, <1>3, <1>5, <1>10
<1> HIDE DEF Target, Pointers, Pointee
<1> QED BY <1>1, <1>10, <1>12, <1>13, <1>14, <1>15

(* It keeps the shape of the tree, and gives no node to two.               *)
LEMMA GiveKeeps ==
  ASSUME TreeShape, OnePlace, NEW parent \in 1 .. Len(ir), NEW kind \in Kinds,
         NEW field \in Pointers(ir[parent].kind), Give(parent, field, kind)
  PROVE  TreeShape' /\ OnePlace'
<1>0. PICK child : child = Len(ir) + 1
  OBVIOUS
<1>1. /\ Len(ir') = child /\ child <= MaxNodes /\ kind \in Pointee(field)
      /\ ir' \in Seq(NodeShape) /\ ir'[child] = New(kind)
      /\ \A n \in 1 .. Len(ir) :
           /\ ir'[n].kind = ir[n].kind /\ ir'[n].info = ir[n].info
           /\ DOMAIN ir'[n].to = DOMAIN ir[n].to
      /\ \A n \in 1 .. Len(ir) : \A f \in Pointers(ir[n].kind) :
           n # parent \/ f # field => Target(n, f)' = Target(n, f)
      /\ \E old \in {<<>>, Target(parent, field)} : Target(parent, field)' = Append(old, child)
  BY <1>0, GiveFacts
<1>2. PICK old \in {<<>>, Target(parent, field)} : Target(parent, field)' = Append(old, child)
  BY <1>1
<1>3. /\ Len(ir) \in Nat /\ child \in Nat /\ child \notin 1 .. Len(ir)
      /\ 1 .. Len(ir') = 1 .. Len(ir) \cup {child}
      /\ 1 \in 1 .. Len(ir)
  BY <1>0, <1>1 DEF TreeShape
<1>4. /\ ir'[child].kind = kind /\ ~ ir'[child].info
      /\ DOMAIN ir'[child].to = Pointers(kind)
      /\ \A f \in Pointers(kind) : Target(child, f)' = <<>>
  <2>1. kind \in AllKinds \ {"Field", "Parameter"}
    BY <1>1, PointeeKinds
  <2> QED BY <1>1, <2>1, NewShape DEF Target
(* What a pointer holds after the step: what it held, or the child.        *)
<1>5. ASSUME NEW n \in 1 .. Len(ir), NEW f \in Pointers(ir[n].kind)
      PROVE  /\ Target(n, f) \in Seq(n + 1 .. Len(ir))
             /\ \A c \in ToSet(Target(n, f)) : c \in 1 .. Len(ir) /\ ir[c].kind \in Pointee(f)
  <2>1. Target(n, f) \in Seq(n + 1 .. Len(ir))
    BY DEF TreeShape, PointsWell
  <2>2. ToSet(Target(n, f)) \subseteq 1 .. Len(ir)
    BY <1>3, <2>1 DEF ToSet
  <2> QED BY <2>1, <2>2 DEF TreeShape, PointsWell
<1>6. /\ parent + 1 .. Len(ir) \subseteq parent + 1 .. child
      /\ child \in parent + 1 .. child
  BY <1>0, <1>3
<1>7. old \in Seq(parent + 1 .. Len(ir))
  BY <1>2, <1>5, EmptySeq
<1>8. /\ Target(parent, field)' \in Seq(parent + 1 .. child)
      /\ ToSet(Target(parent, field)') = ToSet(old) \cup {child}
      /\ DOMAIN old = 1 .. Len(old) /\ Len(old) \in Nat
      /\ DOMAIN Target(parent, field)' = DOMAIN old \cup {Len(old) + 1}
      /\ Target(parent, field)'[Len(old) + 1] = child
      /\ \A i \in DOMAIN old : Target(parent, field)'[i] = old[i]
  <2>1. old \in Seq(parent + 1 .. child)
    <3> DEFINE S == parent + 1 .. Len(ir)
               T == parent + 1 .. child
    <3>1. S \subseteq T /\ old \in Seq(S)
      BY <1>6, <1>7
    <3> HIDE DEF S, T
    <3>2. old \in Seq(T)
      BY <3>1, SeqMonotonic
    <3> QED BY <3>2 DEF T
  <2> DEFINE t == Append(old, child)
  <2>2. /\ t \in Seq(parent + 1 .. child)
        /\ DOMAIN old = 1 .. Len(old) /\ Len(old) \in Nat
        /\ DOMAIN t = 1 .. Len(old) + 1
        /\ t[Len(old) + 1] = child
        /\ \A i \in 1 .. Len(old) : t[i] = old[i]
    BY <1>6, <2>1
  <2> HIDE DEF t
  <2>3. ToSet(t) = ToSet(old) \cup {child}
    BY <2>2 DEF ToSet
  <2>4. 1 .. Len(old) + 1 = 1 .. Len(old) \cup {Len(old) + 1}
    BY <2>2
  <2> QED BY <1>2, <2>2, <2>3, <2>4 DEF t
<1>9. ToSet(old) \subseteq ToSet(Target(parent, field))
      /\ \A i \in DOMAIN old : i \in DOMAIN Target(parent, field) /\ old[i] = Target(parent, field)[i]
  BY <1>2, Tuples
<1>10. ASSUME NEW n \in 1 .. Len(ir), NEW f \in Pointers(ir[n].kind)
       PROVE  PointsWell(n, f)'
  <2>1. CASE n = parent /\ f = field
    <3>1. \A c \in ToSet(Target(parent, field)') : ir'[c].kind \in Pointee(field)
      BY <1>1, <1>4, <1>5, <1>8, <1>9
    <3> QED BY <1>1, <1>8, <2>1, <3>1 DEF PointsWell
  <2>2. CASE n # parent \/ f # field
    <3>1. Target(n, f)' = Target(n, f)
      BY <1>1, <2>2
    <3>2. n + 1 .. Len(ir) \subseteq n + 1 .. Len(ir')
      BY <1>0, <1>1, <1>3
    <3>3. Target(n, f)' \in Seq(n + 1 .. Len(ir'))
      <4> DEFINE S == n + 1 .. Len(ir)
                 T == n + 1 .. Len(ir')
                 t == Target(n, f)
      <4>1. S \subseteq T /\ t \in Seq(S)
        BY <1>5, <3>2
      <4> HIDE DEF S, T, t
      <4>2. t \in Seq(T)
        BY <4>1, SeqMonotonic
      <4> QED BY <3>1, <4>2 DEF T, t
    <3>4. \A c \in ToSet(Target(n, f)') : ir'[c].kind \in Pointee(f)
      BY <1>1, <1>5, <3>1
    <3> QED BY <3>3, <3>4 DEF PointsWell
  <2> QED BY <2>1, <2>2
<1>11. ASSUME NEW f \in Pointers(kind)
       PROVE  PointsWell(child, f)'
  <2>1. Target(child, f)' \in Seq(child + 1 .. Len(ir')) /\ ToSet(Target(child, f)') = {}
    BY <1>4, Tuples
  <2> QED BY <2>1 DEF PointsWell
<1>12. TreeShape'
  <2>1. Len(ir') \in 1 .. MaxNodes /\ ir'[1].kind = "Circuit"
    BY <1>0, <1>1, <1>3, IRAssumption DEF TreeShape
  <2>2. ASSUME NEW n \in 1 .. Len(ir')
        PROVE  /\ DOMAIN ir'[n].to = Pointers(ir'[n].kind)
               /\ \A f \in Pointers(ir'[n].kind) : PointsWell(n, f)'
               /\ ir'[n].info => ir'[n].kind \in Annotated
    <3>1. CASE n = child
      BY <1>4, <1>11, <3>1
    <3>2. CASE n \in 1 .. Len(ir)
      <4>1. /\ DOMAIN ir[n].to = Pointers(ir[n].kind)
            /\ ir[n].info => ir[n].kind \in Annotated
        BY <3>2 DEF TreeShape
      <4>2. ir'[n].kind = ir[n].kind /\ ir'[n].info = ir[n].info /\ DOMAIN ir'[n].to = DOMAIN ir[n].to
        BY <1>1, <3>2
      <4>3. \A f \in Pointers(ir[n].kind) : PointsWell(n, f)'
        BY <1>10, <3>2
      <4> QED BY <4>1, <4>2, <4>3, Zenon
    <3> QED BY <1>3, <3>1, <3>2
  <2> QED BY <1>1, <2>1, <2>2 DEF TreeShape
(* Only the pointer that was given the child leads to it.                  *)
<1>13. ASSUME NEW n \in 1 .. Len(ir'), NEW f \in Pointers(ir'[n].kind),
              NEW i \in DOMAIN Target(n, f)'
       PROVE  \/ /\ n = parent /\ f = field /\ i = Len(old) + 1
                 /\ Target(n, f)'[i] = child
              \/ /\ n \in 1 .. Len(ir) /\ f \in Pointers(ir[n].kind)
                 /\ i \in DOMAIN Target(n, f)
                 /\ Target(n, f)'[i] = Target(n, f)[i]
                 /\ Target(n, f)[i] # child
  <2>1. n # child
    BY <1>4, <1>13
  <2>2. n \in 1 .. Len(ir) /\ f \in Pointers(ir[n].kind)
    BY <1>1, <1>3, <2>1
  <2>3. i \in DOMAIN Target(n, f) => Target(n, f)[i] # child
    BY <1>3, <1>5, <2>2 DEF ToSet
  <2>4. CASE n = parent /\ f = field
    BY <1>8, <1>9, <2>2, <2>3, <2>4, <1>13
  <2>5. CASE n # parent \/ f # field
    <3>1. Target(n, f)' = Target(n, f)
      BY <1>1, <2>2, <2>5
    <3> QED BY <2>2, <2>3, <3>1, <1>13
  <2> QED BY <2>4, <2>5
<1>14. OnePlace'
  <2>1. ASSUME NEW n \in 1 .. Len(ir'), NEW m \in 1 .. Len(ir'),
               NEW f \in Pointers(ir'[n].kind), NEW g \in Pointers(ir'[m].kind),
               NEW i \in DOMAIN Target(n, f)', NEW j \in DOMAIN Target(m, g)',
               Target(n, f)'[i] = Target(m, g)'[j]
        PROVE  n = m /\ f = g /\ i = j
    <3>1. \/ /\ n = parent /\ f = field /\ i = Len(old) + 1
             /\ Target(n, f)'[i] = child
          \/ /\ n \in 1 .. Len(ir) /\ f \in Pointers(ir[n].kind)
             /\ i \in DOMAIN Target(n, f)
             /\ Target(n, f)'[i] = Target(n, f)[i]
             /\ Target(n, f)[i] # child
      BY <1>13
    <3>2. \/ /\ m = parent /\ g = field /\ j = Len(old) + 1
             /\ Target(m, g)'[j] = child
          \/ /\ m \in 1 .. Len(ir) /\ g \in Pointers(ir[m].kind)
             /\ j \in DOMAIN Target(m, g)
             /\ Target(m, g)'[j] = Target(m, g)[j]
             /\ Target(m, g)[j] # child
      BY <1>13
    <3> HIDE DEF Target, Pointers
    <3> QED BY <2>1, <3>1, <3>2 DEF OnePlace
  <2> QED BY <2>1 DEF OnePlace
<1> QED BY <1>12, <1>14

(* A step that changes infos alone.                                        *)
SameTree ==
  /\ ir' \in Seq(NodeShape)
  /\ Len(ir') = Len(ir)
  /\ \A n \in 1 .. Len(ir) :
       /\ ir'[n].kind = ir[n].kind /\ ir'[n].to = ir[n].to
       /\ ir'[n].info => ir[n].info \/ ir[n].kind \in Annotated

(* It keeps them too.                                                      *)
LEMMA SameTreeKeeps ==
  ASSUME TreeShape, OnePlace, SameTree
  PROVE  TreeShape' /\ OnePlace'
<1>1. /\ \A n \in 1 .. Len(ir) : \A f : Target(n, f)' = Target(n, f)
      /\ \A n \in 1 .. Len(ir) : ir'[n].kind = ir[n].kind
      /\ Len(ir') = Len(ir) /\ Len(ir) \in Nat
  BY DEF SameTree, Target, TreeShape
<1>2. ASSUME NEW n \in 1 .. Len(ir), NEW f \in Pointers(ir[n].kind)
      PROVE  PointsWell(n, f)'
  <2>1. Target(n, f) \in Seq(n + 1 .. Len(ir))
        /\ \A c \in ToSet(Target(n, f)) : ir[c].kind \in Pointee(f)
    BY DEF TreeShape, PointsWell
  <2>2. ToSet(Target(n, f)) \subseteq 1 .. Len(ir)
    BY <1>1, <2>1 DEF ToSet
  <2> QED BY <1>1, <2>1, <2>2 DEF PointsWell
<1>3. TreeShape'
  <2>1. ASSUME NEW n \in 1 .. Len(ir)
        PROVE  /\ DOMAIN ir'[n].to = Pointers(ir'[n].kind)
               /\ \A f \in Pointers(ir'[n].kind) : PointsWell(n, f)'
               /\ ir'[n].info => ir'[n].kind \in Annotated
    <3>1. /\ DOMAIN ir[n].to = Pointers(ir[n].kind)
          /\ ir[n].info => ir[n].kind \in Annotated
      BY DEF TreeShape
    <3>2. /\ ir'[n].kind = ir[n].kind /\ ir'[n].to = ir[n].to
          /\ ir'[n].info => ir[n].info \/ ir[n].kind \in Annotated
      BY DEF SameTree
    <3>3. \A f \in Pointers(ir[n].kind) : PointsWell(n, f)'
      BY <1>2
    <3> QED BY <3>1, <3>2, <3>3, Zenon
  <2>2. Len(ir') \in 1 .. MaxNodes /\ ir'[1].kind = "Circuit"
    BY <1>1 DEF TreeShape
  <2> QED BY <1>1, <2>1, <2>2 DEF TreeShape, SameTree
<1>4. OnePlace'
  BY <1>1 DEF OnePlace
<1> QED BY <1>3, <1>4

(* In a tree of that shape children are made after their parents.          *)
LEMMA TreeOrdered == TreeShape => Ordered
<1> SUFFICES ASSUME TreeShape
             PROVE  Ordered
  OBVIOUS
<1>1. Len(ir) \in Nat
  BY DEF TreeShape
<1>2. ASSUME NEW n \in 1 .. Len(ir), NEW f \in Pointers(ir[n].kind)
      PROVE  ToSet(Target(n, f)) \subseteq n + 1 .. Len(ir)
  <2>1. Target(n, f) \in Seq(n + 1 .. Len(ir))
    BY DEF TreeShape, PointsWell
  <2> QED BY <2>1 DEF ToSet
<1> QED BY <1>1, <1>2 DEF Ordered, Successors

(* Nor does it change what is reached and what is complete.                *)
LEMMA SameTreeReaches ==
  ASSUME TreeShape, TreeShape', SameTree
  PROVE  /\ Reachable' = Reachable
         /\ \A n \in 1 .. Len(ir) : \A f : Target(n, f)' = Target(n, f)
         /\ \A n \in 1 .. Len(ir) : Successors(n)' = Successors(n)
         /\ \A n \in 1 .. Len(ir) : Complete(n)' <=> Complete(n)
<1>1. /\ \A n \in 1 .. Len(ir) : \A f : Target(n, f)' = Target(n, f)
      /\ \A n \in 1 .. Len(ir) : ir'[n].kind = ir[n].kind
      /\ Len(ir') = Len(ir) /\ Len(ir) \in Nat /\ 1 \in 1 .. Len(ir)
  BY DEF SameTree, Target, TreeShape
<1>2. \A n \in 1 .. Len(ir) : Successors(n)' = Successors(n)
  BY <1>1 DEF Successors
<1>3. ASSUME NEW n \in 1 .. Len(ir)
      PROVE  Complete(n)' <=> Complete(n)
  BY <1>1 DEF Complete, ResetSet
<1>4. Ordered /\ Ordered'
  <2>1. TreeShape' => Ordered'
    BY TreeOrdered, PTL
  <2> QED BY <2>1, TreeOrdered
<1>5. FromIsLeast /\ FromIsLeast'
  BY <1>4, FromFacts, FromFactsNext
<1>6. /\ {1} \in SUBSET (1 .. Len(ir)) /\ {1} \in SUBSET (1 .. Len(ir'))
  BY <1>1
<1>7. Reachable' \subseteq Reachable
  BY <1>1, <1>2, <1>5, <1>6 DEF FromIsLeast, Reachable
<1>8. Reachable \subseteq Reachable'
  BY <1>1, <1>2, <1>5, <1>6 DEF FromIsLeast, Reachable
<1> QED BY <1>1, <1>2, <1>3, <1>7, <1>8

(* What is reached from the circuit.                                       *)
LEMMA ReachableFacts ==
  ASSUME TreeShape
  PROVE  /\ 1 \in Reachable
         /\ Reachable \subseteq 1 .. Len(ir)
         /\ \A n \in Reachable : Successors(n) \subseteq Reachable
         /\ \A T : 1 \in T /\ (\A n \in T \cap 1 .. Len(ir) : Successors(n) \subseteq T)
                     => Reachable \subseteq T
         /\ \A n \in 1 .. Len(ir) : ir[n].kind \in AllKinds \ {"Field", "Parameter"}
         /\ NULL \notin Reachable
<1>1. FromIsLeast /\ {1} \in SUBSET (1 .. Len(ir)) /\ Len(ir) \in 1 .. MaxNodes
  BY TreeOrdered, FromFacts DEF TreeShape
<1>2. /\ 1 \in Reachable
      /\ Reachable \subseteq 1 .. Len(ir)
      /\ \A n \in Reachable : Successors(n) \subseteq Reachable
      /\ \A T : {1} \subseteq T /\ (\A n \in T \cap 1 .. Len(ir) : Successors(n) \subseteq T)
                     => Reachable \subseteq T
  BY <1>1 DEF FromIsLeast, Reachable
<1>3. NULL \notin 1 .. Len(ir)
  BY <1>1, IRAssumption
<1>4. \A n \in 1 .. Len(ir) : ir[n].kind \in AllKinds \ {"Field", "Parameter"}
  <2>1. \A n \in 1 .. Len(ir) : ir[n] \in NodeShape
    BY DEF TreeShape
  <2>2. \A x \in NodeShape : x.kind \in AllKinds \ {"Field", "Parameter"}
    BY DEF NodeShape
  <2> QED BY <2>1, <2>2
<1> HIDE DEF Successors
<1> QED BY <1>2, <1>3, <1>4

-----------------------------------------------------------------------------
(***************************************************************************)
(* What a visit leaves to do.                                              *)
(***************************************************************************)
(* An indent is no pointer.                                                *)
LEMMA NoMarks ==
  ASSUME NEW k \in AllKinds
  PROVE  Pointers(k) \cap Marks = {}
BY PointersTable DEF Marks, AllKinds, Modules, Types, Stmts, Expressions

(* What is missing where a null pointer is followed.                       *)
LEMMA NullMissing ==
  ASSUME visitor \in AllVisitors, NEW n, NEW e \in Pointers(ir[n].kind),
         \A field \in Asked(visitor, ir[n].kind, e) : Target(n, field) # <<>>,
         Target(n, e) = <<>>,
         e \notin Lists \/ e = "mOperands"
  PROVE  ~ Complete(n)
<1> SUFFICES ASSUME Complete(n)
             PROVE  FALSE
  OBVIOUS
<1>1. \/ e \in Optional(ir[n].kind)
      \/ ir[n].kind = "Reg" /\ e \in {"mResetTrigger", "mResetValue"}
  BY DEF Complete
<1>2. CASE e \in Optional(ir[n].kind)
  <2>1. e \in Asked(visitor, ir[n].kind, e)
    BY <1>2 DEF Optional, Asked, Modules
  <2> QED BY <2>1
<1>3. CASE ir[n].kind = "Reg" /\ e \in {"mResetTrigger", "mResetValue"}
  <2>1. "mResetTrigger" \in Asked(visitor, ir[n].kind, e)
    BY <1>3 DEF Asked, Modules
  <2>2. Target(n, "mResetTrigger") # <<>>
    BY <2>1
  <2>3. ResetSet(n)
    BY <1>3 DEF Complete
  <2> QED BY <1>3, <2>2, <2>3 DEF ResetSet
<1> QED BY <1>1, <1>2, <1>3

(* One entry of the script: it calls what the pointer leads to, and a null *)
(* pointer only in a node that is not complete.                            *)
LEMMA ItemsFacts ==
  ASSUME TreeShape, visitor \in AllVisitors, NEW n \in Reachable,
         NEW e \in Marks \cup Pointers(ir[n].kind)
  PROVE  /\ Items(n, e) \in Seq(Pending)
         /\ Call(NULL) \in ToSet(Items(n, e)) => ~ Complete(n)
         /\ e \in Kept => \A c \in ToSet(Target(n, e)) : Call(c) \in ToSet(Items(n, e))
         /\ ir[n].kind = "Conditional" /\ e = "mThen" /\ Target(n, e) = <<>> =>
              Call(NULL) \in ToSet(Items(n, e))
<1>1. /\ n \in 1 .. Len(ir) /\ ir[n].kind \in AllKinds /\ Pointers(ir[n].kind) \cap Marks = {}
      /\ Kept \cap Marks = {} /\ "mThen" \notin Marks
  BY ReachableFacts, NoMarks DEF Kept, Marks
<1>2. CASE e \in Marks
  <2>1. Items(n, e) = <<[do |-> e, at |-> n]>>
    BY <1>2 DEF Items, Marks
  <2>2. [do |-> e, at |-> n] \in Pending
    BY <1>2 DEF Pending, Marks
  <2>3. Items(n, e) \in Seq(Pending) /\ ToSet(Items(n, e)) = {[do |-> e, at |-> n]}
    BY <2>1, <2>2, Tuples
  <2>4. Call(NULL) # [do |-> e, at |-> n]
    BY <1>2 DEF Call, Marks
  <2> QED BY <1>1, <1>2, <2>3, <2>4
<1>3. CASE e \in Pointers(ir[n].kind)
  <2> DEFINE hit == \E field \in Asked(visitor, ir[n].kind, e) : Target(n, field) = <<>>
             null == Target(n, e) = <<>> /\
                       (e \notin Lists \/ (visitor = "FIRRTL" /\ e = "mOperands"))
             calls == [i \in 1 .. Len(Target(n, e)) |-> Call(Target(n, e)[i])]
  <2>0. e \notin Marks
    BY <1>1, <1>3
  <2>1. /\ hit => Items(n, e) = <<>>
        /\ ~ hit /\ null => Items(n, e) = <<Call(NULL)>>
        /\ ~ hit /\ ~ null => Items(n, e) = calls
    BY <2>0 DEF Items, Marks
  <2>2. /\ Target(n, e) \in Seq(n + 1 .. Len(ir))
        /\ ToSet(Target(n, e)) \subseteq Successors(n)
    BY <1>1, <1>3 DEF TreeShape, PointsWell, Successors
  <2>3. /\ ToSet(Target(n, e)) \subseteq Reachable
        /\ DOMAIN Target(n, e) = 1 .. Len(Target(n, e)) /\ Len(Target(n, e)) \in Nat
    BY <2>2, ReachableFacts
  <2>4. \A c \in Reachable \cup {NULL} : Call(c) \in Pending
    BY DEF Call, Pending
  <2>5. \A c, d : Call(c) = Call(d) => c = d
    BY DEF Call
  <2>6. /\ calls \in Seq(Pending)
        /\ ToSet(calls) = {Call(c) : c \in ToSet(Target(n, e))}
    <3>1. \A i \in 1 .. Len(Target(n, e)) : Call(Target(n, e)[i]) \in Pending
      BY <2>3, <2>4 DEF ToSet
    <3> QED BY <2>3, <3>1 DEF ToSet
  <2>7. NULL \notin ToSet(Target(n, e))
    BY <2>3, ReachableFacts
  <2>8. Kept \cap {"mResetTrigger", "mResetValue"} = {}
    BY DEF Kept
  <2>9. e \in Kept /\ hit => Target(n, e) = <<>>
    <3>1. e \in Kept => Asked(visitor, ir[n].kind, e) \subseteq {e}
      BY <2>8 DEF Asked
    <3> QED BY <3>1
  <2>10. ir[n].kind = "Conditional" /\ e = "mThen" => ~ hit /\ e \notin Lists
    BY DEF Asked, Lists, Modules
  <2>11. ToSet(<<>>) = {} /\ <<>> \in Seq(Pending) /\ Call(NULL) \in Pending
    BY <2>4, Tuples
  <2> HIDE DEF calls
  <2>12. CASE hit
    BY <2>1, <2>9, <2>10, <2>11, <2>12
  <2>13. CASE ~ hit /\ null
    <3>1. Items(n, e) \in Seq(Pending) /\ ToSet(Items(n, e)) = {Call(NULL)}
      <4>1. Items(n, e) = <<Call(NULL)>>
        BY <2>1, <2>13
      <4> HIDE DEF hit, null
      <4>2. \A p \in Pending : <<p>> \in Seq(Pending) /\ ToSet(<<p>>) = {p}
        BY Tuples
      <4> QED BY <4>1, <4>2, <2>11
    <3>2. ~ Complete(n)
      BY <1>3, <2>13, NullMissing
    <3>3. ToSet(Target(n, e)) = {}
      BY <2>11, <2>13
    <3>4. ~ (e \in Kept /\ e = "mOperands")
      BY DEF Kept
    <3> HIDE DEF hit, null
    <3> QED BY <3>1, <3>2, <3>3, <2>11
  <2>14. CASE ~ hit /\ ~ null
    <3>1. Call(NULL) \notin ToSet(calls)
      BY <2>5, <2>6, <2>7
    <3> QED BY <2>1, <2>6, <2>10, <2>14, <3>1
  <2> QED BY <2>12, <2>13, <2>14
<1> QED BY <1>2, <1>3

(* The whole script.                                                       *)
LEMMA CallsFacts ==
  ASSUME TreeShape, visitor \in AllVisitors, NEW n \in Reachable
  PROVE  /\ Calls(n) \in Seq(Pending)
         /\ Call(NULL) \in ToSet(Calls(n)) => ~ Complete(n)
         /\ \A f \in Kept \cap Pointers(ir[n].kind) :
              \A c \in ToSet(Target(n, f)) : Call(c) \in ToSet(Calls(n))
         /\ ir[n].kind = "Conditional" /\ Target(n, "mThen") = <<>> =>
              Call(NULL) \in ToSet(Calls(n))
<1> DEFINE script == Script(visitor, ir[n].kind)
           seqs == [i \in 1 .. Len(script) |-> Items(n, script[i])]
<1>1. ir[n].kind \in AllKinds
  BY ReachableFacts
<1>2. /\ script \in Seq(Entries)
      /\ ToSet(script) \subseteq Marks \cup Pointers(ir[n].kind)
      /\ Kept \cap Pointers(ir[n].kind) \subseteq ToSet(script)
  BY <1>1, ScriptFollows DEF Follows
<1>3. Calls(n) = FlattenSeq(seqs)
  BY DEF Calls
<1> HIDE DEF script
<1>4. /\ Len(script) \in Nat /\ DOMAIN script = 1 .. Len(script)
      /\ \A i \in 1 .. Len(script) : script[i] \in Marks \cup Pointers(ir[n].kind)
  BY <1>2 DEF ToSet
<1>5. \A i \in 1 .. Len(script) : Items(n, script[i]) \in Seq(Pending)
  BY <1>4, ItemsFacts
<1>6. seqs \in Seq(Seq(Pending)) /\ Len(seqs) = Len(script)
      /\ \A i \in 1 .. Len(script) : seqs[i] = Items(n, script[i])
  BY <1>4, <1>5
<1> HIDE DEF seqs
<1>7. /\ Calls(n) \in Seq(Pending)
      /\ ToSet(Calls(n)) = UNION {ToSet(seqs[i]) : i \in 1 .. Len(seqs)}
  BY <1>3, <1>6, FlattenHas
<1>8. \A p : p \in ToSet(Calls(n)) <=>
               \E i \in 1 .. Len(script) : p \in ToSet(Items(n, script[i]))
  BY <1>6, <1>7
<1>9. \A p : p \in ToSet(Calls(n)) <=> \E e \in ToSet(script) : p \in ToSet(Items(n, e))
  BY <1>4, <1>8 DEF ToSet
<1>10. Call(NULL) \in ToSet(Calls(n)) => ~ Complete(n)
  BY <1>2, <1>9, ItemsFacts
<1>11. ASSUME NEW f \in Kept \cap Pointers(ir[n].kind), NEW c \in ToSet(Target(n, f))
       PROVE  Call(c) \in ToSet(Calls(n))
  <2>1. Call(c) \in ToSet(Items(n, f))
    BY ItemsFacts
  <2> QED BY <1>2, <1>9, <2>1
<1>12. ASSUME ir[n].kind = "Conditional", Target(n, "mThen") = <<>>
       PROVE  Call(NULL) \in ToSet(Calls(n))
  <2>1. "mThen" \in Kept \cap Pointers(ir[n].kind)
    BY <1>12, PointersTable DEF Kept
  <2>2. Call(NULL) \in ToSet(Items(n, "mThen"))
    BY <1>12, <2>1, ItemsFacts
  <2> QED BY <1>2, <1>9, <2>1, <2>2
<1> QED BY <1>7, <1>10, <1>11, <1>12

-----------------------------------------------------------------------------
(***************************************************************************)
(* The steps keep the invariant.                                           *)
(***************************************************************************)
(* Giving a node an info, or taking it.                                    *)
LEMMA InfoSame ==
  ASSUME TreeShape, NEW n \in 1 .. Len(ir), NEW b \in BOOLEAN,
         b => ir[n].kind \in Annotated,
         ir' = [ir EXCEPT ![n].info = b]
  PROVE  SameTree /\ \A m \in 1 .. Len(ir) : ir'[m].info = IF m = n THEN b ELSE ir[m].info
<1>1. ir \in Seq(NodeShape) /\ ir[n] \in NodeShape /\ DOMAIN ir = 1 .. Len(ir)
  BY DEF TreeShape
<1> DEFINE node == [ir[n] EXCEPT !.info = b]
<1>2. /\ node \in NodeShape /\ node.kind = ir[n].kind /\ node.to = ir[n].to
      /\ node.info = b
  BY <1>1 DEF NodeShape
<1>3. ir' = [ir EXCEPT ![n] = node]
  BY <1>1
<1> HIDE DEF node
<1>4. /\ ir' \in Seq(NodeShape) /\ Len(ir') = Len(ir)
      /\ \A m \in 1 .. Len(ir) : ir'[m] = IF m = n THEN node ELSE ir[m]
  BY <1>1, <1>2, <1>3, ExceptSeq
<1> QED BY <1>2, <1>4 DEF SameTree

(* The circuit alone.                                                      *)
LEMMA InitHolds == Init => Inv
<1> SUFFICES ASSUME Init
             PROVE  Inv
  OBVIOUS
<1>1. /\ ir = <<New("Circuit")>> /\ agenda = <<>> /\ visited = <<>> /\ level = 0
      /\ status = "building" /\ visitor = "none"
  BY DEF Init, IRInit
<1>2. /\ New("Circuit") \in NodeShape /\ New("Circuit").kind = "Circuit"
      /\ New("Circuit").info = FALSE /\ DOMAIN New("Circuit").to = Pointers("Circuit")
      /\ \A f \in Pointers("Circuit") : New("Circuit").to[f] = <<>>
  BY NewShape DEF AllKinds
<1>3. ir \in Seq(NodeShape) /\ Len(ir) = 1 /\ ir[1] = New("Circuit")
  BY <1>1, <1>2
<1>4. \A s : <<>> \in Seq(s) /\ ToSet(<<>>) = {}
  BY Tuples
<1>5. 1 .. Len(ir) = {1} /\ \A f \in Pointers("Circuit") : Target(1, f) = <<>>
  BY <1>2, <1>3 DEF Target
<1>6. TreeShape
  <2>1. \A f \in Pointers("Circuit") : PointsWell(1, f)
    BY <1>4, <1>5 DEF PointsWell
  <2>2. 1 \in 1 .. MaxNodes
    BY IRAssumption
  <2> QED BY <1>2, <1>3, <1>5, <2>1, <2>2 DEF TreeShape
<1>7. OnePlace
  BY <1>2, <1>3, <1>4, <1>5 DEF OnePlace
<1>8. RunShape
  BY <1>1, <1>4 DEF RunShape
<1>9. NullExplained /\ MissingAwaited /\ ChildrenFollow /\ StripFollows
  BY <1>1, <1>4 DEF NullExplained, MissingAwaited, ChildrenFollow, StripFollows,
                    Awaited
<1> QED BY <1>6, <1>7, <1>8, <1>9 DEF Inv

(* A step of the builder.                                                  *)
LEMMA BuildKeeps ==
  ASSUME Inv, Build
  PROVE  Inv'
<1>1. TreeShape /\ OnePlace /\ RunShape
  BY DEF Inv
<1>2. /\ status = "building" /\ status' = status /\ visitor' = visitor
      /\ agenda = <<>> /\ agenda' = <<>> /\ visited = <<>> /\ visited' = <<>>
      /\ level = 0 /\ level' = 0
  BY <1>1 DEF Build, outside, RunShape
<1>3. TreeShape' /\ OnePlace'
  <2>1. CASE \E parent \in 1 .. Len(ir), kind \in Kinds :
               \E field \in Pointers(ir[parent].kind) : Give(parent, field, kind)
    BY <1>1, <2>1, GiveKeeps
  <2>2. CASE \E n \in 1 .. Len(ir) : ir[n].kind \in Annotated /\ setInfo(n)
    <3>1. PICK n \in 1 .. Len(ir) : ir[n].kind \in Annotated /\ setInfo(n)
      BY <2>2
    <3>2. SameTree
      BY <1>1, <3>1, InfoSame DEF setInfo
    <3> QED BY <1>1, <3>2, SameTreeKeeps
  <2> QED BY <2>1, <2>2 DEF Build
<1>4. \A s : <<>> \in Seq(s) /\ ToSet(<<>>) = {}
  BY Tuples
<1>5. RunShape'
  BY <1>2, <1>4 DEF RunShape
<1>6. (NullExplained /\ MissingAwaited /\ ChildrenFollow /\ StripFollows)'
  BY <1>2, <1>4 DEF NullExplained, MissingAwaited, ChildrenFollow, StripFollows,
                    Awaited
<1> QED BY <1>3, <1>5, <1>6 DEF Inv

(* A visitor begins with the circuit.                                      *)
LEMMA StartKeeps ==
  ASSUME Inv, NEW v \in Runs, Start(v)
  PROVE  Inv'
<1>1. /\ TreeShape /\ OnePlace /\ RunShape
      /\ status = "building" /\ visitor' = v /\ v \in AllVisitors
      /\ agenda' = <<Call(1)>> /\ status' = "running"
      /\ visited = <<>> /\ visited' = <<>> /\ level' = 0 /\ ir' = ir
  BY TraversalAssumption DEF Inv, Start, RunShape
<1>2. SameTree
  BY <1>1 DEF SameTree, TreeShape
<1>3. TreeShape' /\ OnePlace'
  BY <1>1, <1>2, SameTreeKeeps
<1>4. Reachable' = Reachable
  BY <1>1, <1>2, <1>3, SameTreeReaches
<1>5. /\ Call(1) \in Pending /\ Call(1) # Call(NULL)
      /\ \A s : <<>> \in Seq(s) /\ ToSet(<<>>) = {}
  BY <1>1, ReachableFacts, Tuples DEF Call, Pending
<1>6. agenda' \in Seq(Pending) /\ ToSet(agenda') = {Call(1)}
  BY <1>1, <1>5, Tuples
<1>7. RunShape'
  BY <1>1, <1>4, <1>5, <1>6 DEF RunShape, Pending
<1>8. (NullExplained /\ MissingAwaited /\ ChildrenFollow /\ StripFollows)'
  BY <1>1, <1>5, <1>6 DEF NullExplained, MissingAwaited, ChildrenFollow,
                          StripFollows, Awaited
<1> QED BY <1>3, <1>7, <1>8 DEF Inv

(* The first of what is left to do, and the rest.                          *)
LEMMA HeadOfAgenda ==
  ASSUME TreeShape, RunShape, agenda # <<>>
  PROVE  /\ Head(agenda) \in Pending /\ Tail(agenda) \in Seq(Pending)
         /\ ToSet(agenda) = {Head(agenda)} \cup ToSet(Tail(agenda))
<1>1. agenda \in Seq(Pending)
  BY DEF RunShape
<1> DEFINE P == Pending
<1> HIDE DEF P
<1>2. agenda \in Seq(P)
  BY <1>1 DEF P
<1>3. /\ Head(agenda) \in P /\ Tail(agenda) \in Seq(P)
      /\ Len(Tail(agenda)) = Len(agenda) - 1
      /\ \A i \in 1 .. Len(Tail(agenda)) : Tail(agenda)[i] = agenda[i + 1]
      /\ Head(agenda) = agenda[1] /\ Len(agenda) \in Nat \ {0}
      /\ DOMAIN agenda = 1 .. Len(agenda)
      /\ DOMAIN Tail(agenda) = 1 .. Len(Tail(agenda))
  BY <1>2, HeadTailProperties, EmptySeq
<1>4. ASSUME NEW i \in DOMAIN agenda
      PROVE  agenda[i] \in {Head(agenda)} \cup ToSet(Tail(agenda))
  <2>1. CASE i = 1
    BY <1>3, <2>1
  <2>2. CASE i # 1
    <3>1. i - 1 \in DOMAIN Tail(agenda) /\ Tail(agenda)[i - 1] = agenda[i]
      BY <1>3, <2>2
    <3> QED BY <3>1 DEF ToSet
  <2> QED BY <2>1, <2>2
<1>5. ASSUME NEW i \in DOMAIN Tail(agenda)
      PROVE  Tail(agenda)[i] \in ToSet(agenda)
  <2>1. i + 1 \in DOMAIN agenda /\ agenda[i + 1] = Tail(agenda)[i]
    BY <1>3
  <2> QED BY <2>1 DEF ToSet
<1>6. Head(agenda) \in ToSet(agenda)
  BY <1>3 DEF ToSet
<1> QED BY <1>3, <1>4, <1>5, <1>6 DEF ToSet, P

(* The steps that visit no node and take the first of what is left, unless *)
(* it is a null pointer.                                                   *)
LEMMA TakeKeeps ==
  ASSUME Inv, agenda # <<>>, Head(agenda).do # "accept",
         agenda' = Tail(agenda), UNCHANGED <<ir, visitor, visited>>,
         status = "running", status' \in {"running", "threw"}, level' \in Nat
  PROVE  Inv'
<1>1. TreeShape /\ OnePlace /\ RunShape
  BY DEF Inv
<1>2. /\ Head(agenda) \in Pending /\ Tail(agenda) \in Seq(Pending)
      /\ ToSet(agenda) = {Head(agenda)} \cup ToSet(Tail(agenda))
  BY <1>1, HeadOfAgenda
<1>3. SameTree
  BY <1>1 DEF SameTree, TreeShape
<1>4. TreeShape' /\ OnePlace'
  BY <1>1, <1>3, SameTreeKeeps
<1>5. Reachable' = Reachable
  BY <1>1, <1>3, <1>4, SameTreeReaches
<1>6. RunShape'
  BY <1>1, <1>2, <1>5 DEF RunShape, Pending
<1>7. \A c : Awaited(c) => Awaited(c)'
  BY <1>2 DEF Awaited, Call
<1>8. \A c : Awaited(c)' => Awaited(c)
  BY <1>2 DEF Awaited
<1>9. NullExplained'
  <2>1. /\ \A n \in 1 .. Len(ir) : Complete(n)' <=> Complete(n)
        /\ Reachable \subseteq 1 .. Len(ir)
    BY <1>1, <1>3, <1>4, SameTreeReaches, ReachableFacts
  <2>2. NullExplained /\ status # "crashed" /\ status' # "crashed"
    BY DEF Inv
  <2> QED BY <1>5, <1>8, <2>1, <2>2 DEF NullExplained
<1>10. MissingAwaited'
  BY <1>7 DEF MissingAwaited, Inv, Target
<1>11. ChildrenFollow'
  BY <1>7 DEF ChildrenFollow, Inv, Target, Seen
<1>12. StripFollows'
  BY DEF StripFollows, Inv
<1> QED BY <1>4, <1>6, <1>9, <1>10, <1>11, <1>12 DEF Inv

(* What a step of accept comes to.                                         *)
LEMMA AcceptFacts ==
  ASSUME Inv, Accept
  PROVE  \E n \in Reachable :
           /\ Head(agenda) = Call(n)
           /\ ToSet(agenda) = {Call(n)} \cup ToSet(Tail(agenda))
           /\ Tail(agenda) \in Seq(Pending)
           /\ agenda' = Calls(n) \o Tail(agenda)
           /\ agenda' \in Seq(Pending)
           /\ ToSet(agenda') = ToSet(Calls(n)) \cup ToSet(Tail(agenda))
           /\ visited' \in Seq(Reachable)
           /\ visited' = IF ir[n].kind = "TypeBundle" THEN visited ELSE Append(visited, n)
           /\ ToSet(visited') = ToSet(visited) \cup
                                (IF ir[n].kind = "TypeBundle" THEN {} ELSE {n})
           /\ SameTree
           /\ visitor = "stripinfo" =>
                /\ \A m \in 1 .. Len(ir) : ir'[m].info => ir[m].info
                /\ ir[n].kind \in Stripped => ~ ir'[n].info
<1>1. TreeShape /\ OnePlace /\ RunShape
  BY DEF Inv
<1>2. PICK n : n = Head(agenda).at
  OBVIOUS
<1>3. /\ agenda # <<>> /\ Head(agenda).do = "accept" /\ n # NULL
      /\ agenda' = Calls(n) \o Tail(agenda)
      /\ visited' = IF ir[n].kind = "TypeBundle" THEN visited ELSE Append(visited, n)
      /\ ir' = IF visitor = "stripinfo" /\ ir[n].kind \in Stripped
               THEN [ir EXCEPT ![n].info = FALSE] ELSE ir
      /\ visitor' = visitor /\ status = "running"
  BY <1>2 DEF Accept, Due
<1>4. /\ Head(agenda) \in Pending /\ Tail(agenda) \in Seq(Pending)
      /\ ToSet(agenda) = {Head(agenda)} \cup ToSet(Tail(agenda))
  BY <1>1, <1>3, HeadOfAgenda
<1>5. n \in Reachable /\ Head(agenda) = Call(n)
  BY <1>2, <1>3, <1>4 DEF Pending, Call
<1>6. visitor \in AllVisitors
  BY <1>1, <1>3 DEF RunShape
<1>7. Calls(n) \in Seq(Pending)
  BY <1>1, <1>5, <1>6, CallsFacts
<1>8. agenda' \in Seq(Pending) /\ ToSet(agenda') = ToSet(Calls(n)) \cup ToSet(Tail(agenda))
  <2> DEFINE P == Pending
             s == Calls(n)
             t == Tail(agenda)
  <2>1. s \in Seq(P) /\ t \in Seq(P) /\ agenda' = s \o t
    BY <1>3, <1>4, <1>7
  <2> HIDE DEF P, s, t
  <2>2. s \o t \in Seq(P) /\ ToSet(s \o t) = ToSet(s) \cup ToSet(t)
    BY <2>1, ConcatProperties, ConcatHas
  <2> QED BY <2>1, <2>2 DEF P, s, t
<1>9. /\ visited' \in Seq(Reachable)
      /\ ToSet(visited') = ToSet(visited) \cup
                           (IF ir[n].kind = "TypeBundle" THEN {} ELSE {n})
  <2>1. visited \in Seq(Reachable)
    BY <1>1 DEF RunShape
  <2>2. visited \in Seq(ToSet(visited))
    BY <2>1 DEF ToSet
  <2>3. ToSet(Append(visited, n)) = ToSet(visited) \cup {n}
    BY <2>2, Appended
  <2>4. Append(visited, n) \in Seq(Reachable)
    BY <1>5, <2>1
  <2> QED BY <1>3, <2>1, <2>3, <2>4
<1>10. /\ SameTree
       /\ visitor = "stripinfo" =>
            /\ \A m \in 1 .. Len(ir) : ir'[m].info => ir[m].info
            /\ ir[n].kind \in Stripped => ~ ir'[n].info
  <2>1. n \in 1 .. Len(ir)
    BY <1>1, <1>5, ReachableFacts
  <2>2. CASE visitor = "stripinfo" /\ ir[n].kind \in Stripped
    BY <1>1, <1>3, <2>1, <2>2, InfoSame
  <2>3. CASE ~ (visitor = "stripinfo" /\ ir[n].kind \in Stripped)
    <3>1. ir' = ir
      BY <1>3, <2>3
    <3>2. SameTree
      BY <1>1, <3>1 DEF SameTree, TreeShape
    <3> QED BY <2>3, <3>1, <3>2
  <2> QED BY <2>2, <2>3
<1> QED BY <1>3, <1>4, <1>5, <1>8, <1>9, <1>10

(* A visit.                                                                *)
LEMMA AcceptKeeps ==
  ASSUME Inv, Accept
  PROVE  Inv'
<1>1. /\ TreeShape /\ OnePlace /\ RunShape /\ status = "running" /\ visitor \in AllVisitors
      /\ visitor' = visitor /\ level' = level /\ status' = status
  BY DEF Inv, Accept, Due, RunShape
<1>2. PICK n \in Reachable :
           /\ Head(agenda) = Call(n)
           /\ ToSet(agenda) = {Call(n)} \cup ToSet(Tail(agenda))
           /\ agenda' \in Seq(Pending)
           /\ ToSet(agenda') = ToSet(Calls(n)) \cup ToSet(Tail(agenda))
           /\ visited' \in Seq(Reachable)
           /\ ToSet(visited') = ToSet(visited) \cup
                                (IF ir[n].kind = "TypeBundle" THEN {} ELSE {n})
           /\ SameTree
           /\ visitor = "stripinfo" =>
                /\ \A m \in 1 .. Len(ir) : ir'[m].info => ir[m].info
                /\ ir[n].kind \in Stripped => ~ ir'[n].info
  BY AcceptFacts
<1>3. TreeShape' /\ OnePlace'
  BY <1>1, <1>2, SameTreeKeeps
<1>4. /\ Reachable' = Reachable
      /\ \A m \in 1 .. Len(ir) : \A f : Target(m, f)' = Target(m, f)
      /\ \A m \in 1 .. Len(ir) : Complete(m)' <=> Complete(m)
      /\ \A m \in 1 .. Len(ir) : ir'[m].kind = ir[m].kind
  BY <1>1, <1>2, <1>3, SameTreeReaches DEF SameTree
<1>5. /\ Calls(n) \in Seq(Pending)
      /\ Call(NULL) \in ToSet(Calls(n)) => ~ Complete(n)
      /\ \A f \in Kept \cap Pointers(ir[n].kind) :
           \A c \in ToSet(Target(n, f)) : Call(c) \in ToSet(Calls(n))
      /\ ir[n].kind = "Conditional" /\ Target(n, "mThen") = <<>> =>
           Call(NULL) \in ToSet(Calls(n))
  BY <1>1, <1>2, CallsFacts
<1>6. Reachable \subseteq 1 .. Len(ir) /\ NULL \notin Reachable
  BY <1>1, ReachableFacts
<1>7. ToSet(visited) \subseteq Reachable /\ ToSet(visited') \subseteq Reachable
  BY <1>1, <1>2 DEF RunShape, ToSet
<1>8. RunShape'
  BY <1>1, <1>2, <1>4 DEF RunShape, Pending
<1>9. \A c, d : Call(c) = Call(d) => c = d
  BY DEF Call
<1>10. NullExplained'
  <2>1. NullExplained
    BY DEF Inv
  <2>2. Awaited(NULL)' => Awaited(NULL) \/ ~ Complete(n)
    BY <1>2, <1>5 DEF Awaited
  <2> QED BY <1>1, <1>2, <1>4, <1>6, <2>1, <2>2 DEF NullExplained
(* The call that was taken was not at a null pointer.                      *)
<1>11. ASSUME NEW c, Awaited(c), c # n
       PROVE  Awaited(c)'
  BY <1>2, <1>9, <1>11 DEF Awaited
<1>12. MissingAwaited'
  <2>1. ASSUME NEW m \in ToSet(visited'), ir'[m].kind = "Conditional",
               Target(m, "mThen")' = <<>>
        PROVE  Awaited(NULL)'
    <3>1. m \in 1 .. Len(ir) /\ ir[m].kind = "Conditional" /\ Target(m, "mThen") = <<>>
      BY <1>4, <1>6, <1>7, <2>1
    <3>2. CASE m \in ToSet(visited)
      <4>1. Awaited(NULL)
        BY <3>1, <3>2 DEF Inv, MissingAwaited
      <4> QED BY <1>6, <1>11, <4>1
    <3>3. CASE m = n
      BY <1>2, <1>5, <3>1, <3>3 DEF Awaited
    <3> QED BY <1>2, <2>1, <3>2, <3>3
  <2> QED BY <2>1 DEF MissingAwaited
<1>13. ASSUME NEW c, Seen(c) \/ Awaited(c), ir[c].kind # "TypeBundle"
       PROVE  Seen(c)' \/ Awaited(c)'
  <2>1. CASE c = n
    BY <1>2, <1>13, <2>1 DEF Seen
  <2>2. CASE c # n
    BY <1>2, <1>11, <1>13, <2>2 DEF Seen
  <2> QED BY <2>1, <2>2
<1>14. ChildrenFollow'
  <2>1. ir[1].kind # "TypeBundle" /\ (Seen(1) \/ Awaited(1)) /\ status' # "done"
    BY <1>1 DEF Inv, TreeShape, ChildrenFollow
  <2>2. ASSUME NEW m \in ToSet(visited'), NEW f \in Kept \cap Pointers(ir'[m].kind),
               NEW c \in ToSet(Target(m, f)')
        PROVE  Seen(c)' \/ Awaited(c)'
    <3>1. m \in 1 .. Len(ir) /\ f \in Kept \cap Pointers(ir[m].kind) /\ c \in ToSet(Target(m, f))
      BY <1>4, <1>6, <1>7, <2>2
    <3>2. ir[c].kind # "TypeBundle"
      <4>1. ir[c].kind \in Pointee(f)
        BY <1>1, <3>1 DEF TreeShape, PointsWell
      <4> QED BY <3>1, <4>1 DEF Pointee, Kept, Stmts
    <3>3. CASE m \in ToSet(visited)
      <4>1. Seen(c) \/ Awaited(c)
        BY <3>1, <3>3 DEF Inv, ChildrenFollow
      <4> QED BY <1>13, <3>2, <4>1
    <3>4. CASE m = n
      BY <1>2, <1>5, <3>1, <3>4 DEF Awaited
    <3> QED BY <1>2, <2>2, <3>3, <3>4
  <2>3. Seen(1)' \/ Awaited(1)'
    BY <1>13, <2>1
  <2> QED BY <2>1, <2>2, <2>3 DEF ChildrenFollow
<1>15. StripFollows'
  <2> SUFFICES ASSUME visitor = "stripinfo", NEW m \in ToSet(visited'),
                      ir'[m].kind \in Stripped
               PROVE  ~ ir'[m].info
    BY <1>1 DEF StripFollows
  <2>1. m \in 1 .. Len(ir) /\ ir[m].kind \in Stripped
    BY <1>4, <1>6, <1>7
  <2>2. CASE m \in ToSet(visited)
    BY <1>2, <2>1, <2>2 DEF Inv, StripFollows
  <2>3. CASE m = n
    BY <1>2, <2>1, <2>3
  <2> QED BY <1>2, <2>2, <2>3
<1> QED BY <1>3, <1>8, <1>10, <1>12, <1>14, <1>15 DEF Inv

(* The end, at a null pointer or where nothing is left.                    *)
LEMMA StopKeeps ==
  ASSUME Inv, AcceptNull \/ Return
  PROVE  Inv'
<1>1. TreeShape /\ OnePlace /\ RunShape /\ status = "running"
  BY DEF Inv, AcceptNull, Return, Due
<1>2. /\ UNCHANGED <<ir, visitor, agenda, level, visited>>
      /\ \/ status' = "crashed" /\ Awaited(NULL)
         \/ status' = "done" /\ agenda = <<>>
  <2>1. CASE AcceptNull
    <3>1. /\ Head(agenda) \in Pending
          /\ ToSet(agenda) = {Head(agenda)} \cup ToSet(Tail(agenda))
      BY <1>1, <2>1, HeadOfAgenda DEF AcceptNull, Due
    <3>2. Head(agenda) = Call(NULL)
      BY <2>1, <3>1 DEF AcceptNull, Due, Pending, Call
    <3> QED BY <2>1, <3>1, <3>2 DEF AcceptNull, Awaited
  <2>2. CASE Return
    BY <2>2 DEF Return
  <2> QED BY <2>1, <2>2
<1>3. SameTree
  BY <1>1, <1>2 DEF SameTree, TreeShape
<1>4. TreeShape' /\ OnePlace'
  BY <1>1, <1>3, SameTreeKeeps
<1>5. Reachable' = Reachable
  BY <1>1, <1>3, <1>4, SameTreeReaches
<1>6. RunShape'
  BY <1>1, <1>2, <1>5 DEF RunShape, Pending
<1>7. NullExplained'
  <2>1. /\ \A n \in 1 .. Len(ir) : Complete(n)' <=> Complete(n)
        /\ Reachable \subseteq 1 .. Len(ir)
    BY <1>1, <1>3, <1>4, SameTreeReaches, ReachableFacts
  <2>2. Awaited(NULL)' \/ status' = "crashed" => Awaited(NULL)
    BY <1>2 DEF Awaited
  <2>3. Awaited(NULL) => \E n \in Reachable : ~ Complete(n)
    BY DEF Inv, NullExplained
  <2> QED BY <1>5, <2>1, <2>2, <2>3 DEF NullExplained
<1>8. MissingAwaited'
  BY <1>2 DEF MissingAwaited, Inv, Target, Awaited
<1>9. ChildrenFollow'
  BY <1>1, <1>2 DEF ChildrenFollow, Inv, Target, Seen, Awaited
<1>10. StripFollows'
  BY <1>2 DEF StripFollows, Inv
<1> QED BY <1>4, <1>6, <1>7, <1>8, <1>9, <1>10 DEF Inv

(* Stuttering.                                                             *)
LEMMA UnchangedKeeps ==
  ASSUME Inv, UNCHANGED vars
  PROVE  Inv'
<1>1. TreeShape /\ OnePlace /\ RunShape /\ UNCHANGED <<ir, visitor, agenda, level, visited, status>>
  BY DEF Inv, vars
<1>2. SameTree
  BY <1>1 DEF SameTree, TreeShape
<1>3. TreeShape' /\ OnePlace'
  BY <1>1, <1>2, SameTreeKeeps
<1>4. Reachable' = Reachable
  BY <1>1, <1>2, <1>3, SameTreeReaches
<1>5. RunShape'
  BY <1>1, <1>4 DEF RunShape, Pending
<1>6. NullExplained'
  <2>1. /\ \A n \in 1 .. Len(ir) : Complete(n)' <=> Complete(n)
        /\ Reachable \subseteq 1 .. Len(ir)
    BY <1>1, <1>2, <1>3, SameTreeReaches, ReachableFacts
  <2> QED BY <1>1, <1>4, <2>1 DEF Inv, NullExplained, Awaited
<1>7. MissingAwaited'
  BY <1>1 DEF MissingAwaited, Inv, Target, Awaited
<1>8. ChildrenFollow'
  BY <1>1 DEF ChildrenFollow, Inv, Target, Seen, Awaited
<1>9. StripFollows'
  BY <1>1 DEF StripFollows, Inv
<1> QED BY <1>3, <1>5, <1>6, <1>7, <1>8, <1>9 DEF Inv

(* Every step.                                                             *)
LEMMA StepKeeps ==
  ASSUME Inv, [Next]_vars
  PROVE  Inv'
<1>1. CASE Build
  BY <1>1, BuildKeeps
<1>2. ASSUME NEW v \in Runs, Start(v)
      PROVE  Inv'
  BY <1>2, StartKeeps
<1>3. CASE Accept
  BY <1>3, AcceptKeeps
<1>4. CASE AcceptNull \/ Return
  BY <1>4, StopKeeps
<1>5. level \in Nat
  BY DEF Inv, RunShape
<1>6. CASE Indent
  <2>1. level' \in Nat
    BY <1>5, <1>6 DEF Indent
  <2> QED BY <1>6, <2>1, TakeKeeps DEF Indent, Due
<1>7. CASE Dedent
  <2>1. level' \in Nat /\ status' \in {"running", "threw"}
    BY <1>5, <1>7 DEF Dedent, Due
  <2> QED BY <1>7, <2>1, TakeKeeps DEF Dedent, Due
<1>8. CASE UNCHANGED vars
  BY <1>8, UnchangedKeeps
<1> QED BY <1>1, <1>2, <1>3, <1>4, <1>6, <1>7, <1>8 DEF Next, Visit

-----------------------------------------------------------------------------
(***************************************************************************)
(* What follows for a run that is done.                                    *)
(***************************************************************************)
(* Every module, port and statement of the tree was visited when all that  *)
(* was left to do is done.                                                 *)
LEMMA AllSeen ==
  ASSUME Inv, status = "done", NEW n \in Reachable, Declared(n)
  PROVE  Seen(n)
<1> DEFINE T == {m \in 1 .. Len(ir) : Declared(m) => Seen(m)}
<1>1. TreeShape /\ agenda = <<>> /\ ToSet(<<>>) = {}
  BY Tuples DEF Inv, ChildrenFollow
<1>2. \A c : ~ Awaited(c)
  BY <1>1 DEF Awaited
<1>3. 1 \in T
  <2>1. Seen(1)
    BY <1>2 DEF Inv, ChildrenFollow
  <2> QED BY <1>1, <2>1 DEF TreeShape
<1>4. ASSUME NEW m \in T, NEW c \in Successors(m)
      PROVE  c \in T
  <2>1. PICK f \in Pointers(ir[m].kind) : c \in ToSet(Target(m, f))
    BY DEF Successors
  <2>2. /\ c \in 1 .. Len(ir) /\ ir[c].kind \in Pointee(f)
    <3>1. PointsWell(m, f) /\ Len(ir) \in Nat
      BY <1>1 DEF TreeShape
    <3>2. Target(m, f) \in Seq(m + 1 .. Len(ir))
      BY <3>1 DEF PointsWell
    <3>3. c \in m + 1 .. Len(ir)
      BY <2>1, <3>2 DEF ToSet
    <3> QED BY <2>1, <3>1, <3>3 DEF PointsWell
  <2>3. ASSUME Declared(c)
        PROVE  Seen(c)
    <3>1. f \in Kept
      <4>1. Pointee(f) \cap (Stmts \cup Modules \cup {"Circuit", "Port", "ConditionalElse"}) # {}
        BY <2>2, <2>3 DEF Declared
      <4> QED BY <4>1 DEF Pointee, Kept, Stmts, Modules, Types, Expressions
    <3>2. ir[m].kind \in AllKinds
      BY <1>1, ReachableFacts
    <3>3. Declared(m)
      BY <2>1, <3>1, <3>2, PointersTable
         DEF Declared, Kept, AllKinds, Stmts, Modules, Types, Expressions
    <3>4. m \in ToSet(visited)
      BY <3>3 DEF Seen
    <3> QED BY <1>2, <2>1, <3>1, <3>4 DEF Inv, ChildrenFollow
  <2> QED BY <2>2, <2>3
<1>5. Reachable \subseteq T
  <2> HIDE DEF T
  <2>1. \A m \in T \cap 1 .. Len(ir) : Successors(m) \subseteq T
    BY <1>4
  <2> QED BY <1>1, <1>3, <2>1, ReachableFacts
<1> QED BY <1>5

(* A node that was visited was visited once at least.                      *)
LEMMA SeenCounts ==
  ASSUME visited \in Seq(Nat), NEW n, Seen(n)
  PROVE  Count(n) >= 1
<1> DEFINE at == {i \in 1 .. Len(visited) : visited[i] = n}
<1>1. PICK i \in 1 .. Len(visited) : visited[i] = n
  BY DEF Seen, ToSet
<1>2. IsFiniteSet(at) /\ Cardinality(at) \in Nat
  <2>1. IsFiniteSet(1 .. Len(visited)) /\ at \subseteq 1 .. Len(visited)
    BY FS_Interval
  <2> QED BY <2>1, FS_Subset, FS_CardinalityType
<1>3. at # {}
  BY <1>1
<1>4. Cardinality(at) # 0
  BY <1>2, <1>3, FS_EmptySet
<1> QED BY <1>2, <1>4 DEF Count

(* The invariant holds in every reachable state.                           *)
LEMMA InvHolds == Spec => []Inv
<1>1. Init => Inv
  BY InitHolds
<1>2. Inv /\ [Next]_vars => Inv'
  BY StepKeeps
<1> QED BY <1>1, <1>2, PTL DEF Spec

(* No visitor follows a null pointer in a tree whose nodes are complete,   *)
(* of whatever shape the tree is.                                          *)
THEOREM CompleteIsSafeCorrect == Spec => []CompleteIsSafe
<1>1. Inv => CompleteIsSafe
  BY DEF Inv, NullExplained, CompleteIsSafe
<1> QED BY <1>1, InvHolds, PTL

(* A visitor that is done has visited every module, port and statement.    *)
THEOREM EverythingVisitedCorrect == Spec => []EverythingVisited
<1>1. Inv => EverythingVisited
  <2> SUFFICES ASSUME Inv, status = "done", NEW n \in Reachable, Declared(n)
               PROVE  Count(n) >= 1
    BY DEF EverythingVisited
  <2>1. visited \in Seq(Nat)
    <3>1. Reachable \subseteq Nat /\ visited \in Seq(Reachable)
      BY ReachableFacts DEF Inv, RunShape
    <3> QED BY <3>1, SeqMonotonic
  <2> QED BY <2>1, AllSeen, SeenCounts
<1> QED BY <1>1, InvHolds, PTL

(* No visitor is ever done with a tree that has a conditional without      *)
(* statements.                                                             *)
THEOREM NoThenNoEndCorrect == Spec => []NoThenNoEnd
<1>1. Inv => NoThenNoEnd
  <2> SUFFICES ASSUME Inv, status = "done", NEW n \in Reachable,
                      ir[n].kind = "Conditional", Target(n, "mThen") = <<>>
               PROVE  FALSE
    BY DEF NoThenNoEnd
  <2>1. n \in ToSet(visited)
    BY AllSeen DEF Declared, Stmts, Seen
  <2>2. Awaited(NULL)
    BY <2>1 DEF Inv, MissingAwaited
  <2>3. ToSet(agenda) = {}
    BY Tuples DEF Inv, ChildrenFollow
  <2> QED BY <2>2, <2>3 DEF Awaited
<1> QED BY <1>1, InvHolds, PTL

(* The pass leaves no info in the tree, if none but the kinds the frontend *)
(* annotates were given one: other nodes are never asked for theirs.       *)
THEOREM StripCompleteCorrect ==
  ASSUME Annotated \subseteq FrontendAnnotated
  PROVE  Spec => []StripComplete
<1>1. Inv => StripComplete
  <2> SUFFICES ASSUME Inv, status = "done", visitor = "stripinfo",
                      NEW n \in Reachable, ir[n].info
               PROVE  FALSE
    BY DEF StripComplete
  <2>1. n \in 1 .. Len(ir) /\ ir[n].kind \in FrontendAnnotated
    BY ReachableFacts DEF Inv, TreeShape
  <2>2. Declared(n) /\ ir[n].kind \in Stripped
    BY <2>1 DEF Declared, Stripped, StripInfoStops, FrontendAnnotated, Stmts, Modules
  <2>3. n \in ToSet(visited)
    BY <2>2, AllSeen DEF Seen
  <2> QED BY <2>2, <2>3 DEF Inv, StripFollows
<1> QED BY <1>1, InvHolds, PTL

-----------------------------------------------------------------------------
(***************************************************************************)
(* Levels: what is done at a node ends where it began.                     *)
(***************************************************************************)
(* What is left to do that changes the level.                              *)
Ups == [do : {"indent"}, at : Nat]

Downs == [do : {"dedent"}, at : Nat]

(* The walk of a script.                                                   *)
Level(script, a, b) == Climbs({"indent"}, {"dedent"}, script, a, b)

(* A script that ends where it began, and is never below that.             *)
Balanced(script) == \A h \in Nat : Level(script, h, h)

(* One script after the other.                                             *)
LEMMA BalancedConcat ==
  ASSUME NEW s \in Seq(Entries), NEW t \in Seq(Entries), Balanced(s), Balanced(t)
  PROVE  Balanced(s \o t)
BY ClimbsConcat DEF Balanced, Level

(* Pointers alone, and in a block.                                         *)
LEMMA BalancedPlain ==
  ASSUME NEW s \in Seq(Entries \ Marks)
  PROVE  /\ Balanced(s) /\ s \in Seq(Entries)
         /\ Balanced(<<"indent">> \o (s \o <<"dedent">>))
<1>1. ASSUME NEW h \in Nat
      PROVE  Level(s, h, h)
  <2>1. (Entries \ Marks) \cap ({"indent"} \cup {"dedent"}) = {}
    BY DEF Marks
  <2> DEFINE S == Entries \ Marks
  <2> HIDE DEF S
  <2>2. S \cap ({"indent"} \cup {"dedent"}) = {} /\ s \in Seq(S)
    BY <2>1 DEF S
  <2> QED BY <2>2, ClimbsFlat DEF Level
<1>2. s \in Seq(Entries)
  <2> DEFINE S == Entries \ Marks
             T == Entries
  <2>1. S \subseteq T /\ s \in Seq(S)
    OBVIOUS
  <2> HIDE DEF S, T
  <2>2. s \in Seq(T)
    BY <2>1, SeqMonotonic
  <2> QED BY <2>2 DEF T
<1>3. <<"indent">> \in Seq(Entries) /\ <<"dedent">> \in Seq(Entries)
  BY DEF Entries, Marks
<1>4. ASSUME NEW h \in Nat
      PROVE  Level(<<"indent">> \o (s \o <<"dedent">>), h, h)
  <2>1. Level(<<"indent">>, h, h + 1)
    <3>1. Stepped({"indent"}, {"dedent"}, "indent", h) = h + 1
      BY DEF Stepped
    <3> QED BY <3>1, ClimbsOne DEF Level
  <2>2. Level(<<"dedent">>, h + 1, h)
    <3>1. Stepped({"indent"}, {"dedent"}, "dedent", h + 1) = h
      BY DEF Stepped
    <3> QED BY <3>1, ClimbsOne DEF Level
  <2>3. Level(s, h + 1, h + 1)
    BY <1>1
  <2>4. Level(s \o <<"dedent">>, h + 1, h) /\ s \o <<"dedent">> \in Seq(Entries)
    BY <1>2, <1>3, <2>2, <2>3, ClimbsConcat, ConcatProperties DEF Level
  <2> QED BY <1>3, <2>1, <2>4, ClimbsConcat DEF Level
<1> QED BY <1>1, <1>2, <1>4 DEF Balanced

(* Where visit() begins a block that leave() ends.                         *)
Block(v, k) == \/ v = "FIRRTL" /\ k \in {"Circuit", "Module", "ExtModule"}
               \/ v = "tree" /\ k \in TreeBlocks

(* Pointers alone, written out.                                            *)
LEMMA PlainTuples ==
  /\ <<>> \in Seq(Entries \ Marks)
  /\ <<"mType">> \in Seq(Entries \ Marks)
  /\ <<"mType", "mClock", "mResetTrigger", "mResetValue">> \in Seq(Entries \ Marks)
  /\ <<"mTo", "mFrom">> \in Seq(Entries \ Marks)
  /\ <<"mFrom", "mTo">> \in Seq(Entries \ Marks)
  /\ <<"mClock", "mCond">> \in Seq(Entries \ Marks)
  /\ <<"mClock", "mCond", "mArguments">> \in Seq(Entries \ Marks)
  /\ <<"mField", "mOf">> \in Seq(Entries \ Marks)
  /\ <<"mOf", "mField">> \in Seq(Entries \ Marks)
  /\ <<"mOf">> \in Seq(Entries \ Marks)
  /\ <<"mExp", "mOf">> \in Seq(Entries \ Marks)
  /\ <<"mOf", "mExp">> \in Seq(Entries \ Marks)
  /\ <<"mSel", "mA", "mB">> \in Seq(Entries \ Marks)
  /\ <<"mSel", "mA">> \in Seq(Entries \ Marks)
  /\ <<"mOperands">> \in Seq(Entries \ Marks)
  /\ <<"mDType">> \in Seq(Entries \ Marks)
  /\ <<"mStmts">> \in Seq(Entries \ Marks)
  /\ <<"mThen">> \in Seq(Entries \ Marks)
  /\ <<"mElse">> \in Seq(Entries \ Marks)
  /\ <<"mCond">> \in Seq(Entries \ Marks)
BY DEF Entries, Marks

(* A block written out.                                                    *)
LEMMA Blocked ==
  /\ \A a : <<"indent", a, "dedent">> = <<"indent">> \o (<<a>> \o <<"dedent">>)
  /\ \A a, b : <<"indent", a, b, "dedent">> = <<"indent">> \o (<<a, b>> \o <<"dedent">>)
  /\ \A a, b, c : <<"indent", a, b, c, "dedent">>
                    = <<"indent">> \o (<<a, b, c>> \o <<"dedent">>)
  /\ \A a, b, c, d : <<"indent", a, b, c, d, "dedent">>
                       = <<"indent">> \o (<<a, b, c, d>> \o <<"dedent">>)
OBVIOUS

(* Two that are written out with other levels.                             *)
LEMMA OthersBalanced ==
  /\ Balanced(<<"indent", "dedent">>)
  /\ Balanced(<<"mCond", "indent", "mThen", "dedent", "mElse">>)
<1>1. ASSUME NEW h \in Nat
      PROVE  Level(<<"indent", "dedent">>, h, h)
  <2> DEFINE s == <<"indent", "dedent">>
             d == [i \in 0 .. 2 |-> IF i = 1 THEN h + 1 ELSE h]
  <2>1. Len(s) = 2 /\ s[1] = "indent" /\ s[2] = "dedent"
    OBVIOUS
  <2>2. d \in [0 .. 2 -> Nat] /\ d[0] = h /\ d[1] = h + 1 /\ d[2] = h
    OBVIOUS
  <2> HIDE DEF s, d
  <2>3. Heights({"indent"}, {"dedent"}, s, d)
    <3> SUFFICES ASSUME NEW i \in 1 .. 2
                 PROVE  d[i] = Stepped({"indent"}, {"dedent"}, s[i], d[i - 1])
      BY <2>1 DEF Heights
    <3>1. CASE i = 1
      BY <2>1, <2>2, <3>1 DEF Stepped
    <3>2. CASE i = 2
      BY <2>1, <2>2, <3>2 DEF Stepped
    <3> QED BY <3>1, <3>2
  <2>4. Level(s, h, h)
    BY <2>1, <2>2, <2>3 DEF Level, Climbs
  <2> QED BY <2>4 DEF s
<1>2. ASSUME NEW h \in Nat
      PROVE  Level(<<"mCond", "indent", "mThen", "dedent", "mElse">>, h, h)
  <2> DEFINE s == <<"mCond", "indent", "mThen", "dedent", "mElse">>
             d == [i \in 0 .. 5 |-> IF i \in {2, 3} THEN h + 1 ELSE h]
  <2>1. /\ Len(s) = 5 /\ s[1] = "mCond" /\ s[2] = "indent" /\ s[3] = "mThen"
        /\ s[4] = "dedent" /\ s[5] = "mElse"
    OBVIOUS
  <2>2. /\ d \in [0 .. 5 -> Nat] /\ d[0] = h /\ d[1] = h /\ d[2] = h + 1
        /\ d[3] = h + 1 /\ d[4] = h /\ d[5] = h
    OBVIOUS
  <2> HIDE DEF s, d
  <2>3. Heights({"indent"}, {"dedent"}, s, d)
    <3> SUFFICES ASSUME NEW i \in 1 .. 5
                 PROVE  d[i] = Stepped({"indent"}, {"dedent"}, s[i], d[i - 1])
      BY <2>1 DEF Heights
    <3>1. CASE i = 1
      BY <2>1, <2>2, <3>1 DEF Stepped
    <3>2. CASE i = 2
      BY <2>1, <2>2, <3>2 DEF Stepped
    <3>3. CASE i = 3
      BY <2>1, <2>2, <3>3 DEF Stepped
    <3>4. CASE i = 4
      BY <2>1, <2>2, <3>4 DEF Stepped
    <3>5. CASE i = 5
      BY <2>1, <2>2, <3>5 DEF Stepped
    <3> QED BY <3>1, <3>2, <3>3, <3>4, <3>5
  <2>4. Level(s, h, h)
    BY <2>1, <2>2, <2>3 DEF Level, Climbs
  <2> QED BY <2>4 DEF s
<1> QED BY <1>1, <1>2 DEF Balanced

(* The visits of the tree backend that leave nothing to leave().           *)
LEMMA TreeScriptsBalanced ==
  ASSUME NEW k \in DOMAIN TreeVisit, k \notin TreeBlocks
  PROVE  Balanced(TreeVisit[k])
<1>1. /\ Balanced(<<"indent", "mType", "mClock", "mResetTrigger", "mResetValue", "dedent">>)
      /\ Balanced(<<"indent", "mTo", "mFrom", "dedent">>)
      /\ Balanced(<<"indent", "mClock", "mCond", "dedent">>)
      /\ Balanced(<<"indent", "mClock", "mCond", "mArguments", "dedent">>)
      /\ Balanced(<<"indent", "mType", "dedent">>)
      /\ Balanced(<<"indent", "mField", "mOf", "dedent">>)
      /\ Balanced(<<"indent", "mOf", "dedent">>)
      /\ Balanced(<<"indent", "mExp", "mOf", "dedent">>)
      /\ Balanced(<<"indent", "mSel", "mA", "mB", "dedent">>)
      /\ Balanced(<<"indent", "mSel", "mA", "dedent">>)
  BY PlainTuples, Blocked, BalancedPlain
<1> QED BY <1>1, TreeTable

(* The visits of the FIRRTL backend that leave nothing to leave().         *)
LEMMA FirrtlScriptsBalanced ==
  ASSUME NEW k \in DOMAIN FirrtlVisit, k \notin {"Circuit", "Module", "ExtModule"}
  PROVE  Balanced(FirrtlVisit[k])
<1>1. /\ Balanced(<<"indent", "mDType", "dedent">>)
      /\ Balanced(<<"indent", "mStmts", "dedent">>)
  BY PlainTuples, Blocked, BalancedPlain
<1>2. Balanced(<<"mCond", "indent", "mThen", "dedent", "mElse">>)
  BY OthersBalanced
<1>3. /\ Balanced(<<"mType", "mClock", "mResetTrigger", "mResetValue">>)
      /\ Balanced(<<"mTo", "mFrom">>)
      /\ Balanced(<<"mClock", "mCond">>)
      /\ Balanced(<<"mOf", "mField">>)
      /\ Balanced(<<"mOf">>)
      /\ Balanced(<<"mOf", "mExp">>)
      /\ Balanced(<<"mSel", "mA", "mB">>)
      /\ Balanced(<<"mSel", "mA">>)
      /\ Balanced(<<"mOperands">>)
  BY PlainTuples, BalancedPlain
<1> QED BY <1>1, <1>2, <1>3, FirrtlTable

(* A visit that begins no block.                                           *)
LEMMA VisitBalanced ==
  ASSUME NEW v \in AllVisitors, NEW k, ~ Block(v, k)
  PROVE  Balanced(VisitScript(v, k))
<1>1. Balanced(<<>>)
  BY PlainTuples, BalancedPlain
<1>2. CASE v = "stripinfo"
  BY <1>1, <1>2 DEF VisitScript
<1>3. CASE v = "FIRRTL"
  BY <1>1, <1>3, FirrtlScriptsBalanced DEF VisitScript, Entry, Block
<1>4. CASE v = "tree"
  BY <1>1, <1>4, TreeScriptsBalanced DEF VisitScript, Entry, Block
<1>5. CASE v = "dot"
  <2>1. Balanced(<<"mFrom", "mTo">>)
    BY PlainTuples, BalancedPlain
  <2>2. DOMAIN DotVisits = {"Connect"} /\ DotVisits["Connect"] = <<"mFrom", "mTo">>
    BY DEF DotVisits
  <2> QED BY <1>1, <1>5, <2>1, <2>2 DEF VisitScript, Entry
<1> QED BY <1>2, <1>3, <1>4, <1>5 DEF AllVisitors

(* What leave() does where visit() opened no block, or one.                *)
LEMMA LeaveCloses ==
  ASSUME NEW v \in AllVisitors, NEW k, k # "Reg" \/ k \notin Stops(v)
  PROVE  /\ k # "Reg" /\ Block(v, k) => LeaveScript(v, k) = <<"dedent">>
         /\ k # "Reg" /\ ~ Block(v, k) => LeaveScript(v, k) \in {<<>>, <<"indent", "dedent">>}
         /\ k = "Reg" => v = "stripinfo" /\ LeaveScript(v, k) = <<>>
<1>1. /\ DOMAIN FirrtlLeave = {"Circuit", "Module", "ExtModule"}
      /\ \A c \in DOMAIN FirrtlLeave : FirrtlLeave[c] = <<"dedent">>
      /\ DOMAIN TreeLeave = TreeBlocks
      /\ \A c \in DOMAIN TreeLeave : TreeLeave[c] = <<"dedent">>
      /\ \A c \in DOMAIN DotLeave : DotLeave[c] = <<"indent", "dedent">>
  BY DEF FirrtlLeave, TreeLeave, DotLeave
<1>2. "Reg" \in FirrtlStops /\ "Reg" \in TreeStops /\ "Reg" \in DotStops
  BY DEF FirrtlStops, TreeStops, DotStops
<1> QED BY <1>1, <1>2 DEF AllVisitors, LeaveScript, Entry, Block, Stops

(* All that is done at a node is balanced, but for a vector type the tree  *)
(* backend prints.                                                         *)
LEMMA ScriptBalanced ==
  ASSUME NEW v \in AllVisitors, NEW k \in AllKinds \ {"Field", "Parameter"},
         ~ (v = "tree" /\ k = "TypeVector")
  PROVE  Balanced(Script(v, k))
<1>0. Balanced(<<>>) /\ <<>> \in Seq(Entries)
  BY PlainTuples, BalancedPlain
<1>1. CASE k = "TypeBundle"
  BY <1>0, <1>1 DEF Script
<1>2. CASE k # "TypeBundle" /\ k \in DOMAIN AcceptOrder /\ k \notin Stops(v)
  <2>1. Script(v, k) = VisitScript(v, k) \o (AcceptOrder[k] \o LeaveScript(v, k))
    BY <1>2 DEF Script
  <2>2. AcceptOrder[k] \in Seq(Entries \ Marks)
    BY <1>2, AcceptEntries DEF ToSet
  <2>3. CASE Block(v, k)
    <3>1. VisitScript(v, k) = <<"indent">>
      BY <2>3, FirrtlTable, TreeTable DEF Block, VisitScript, Entry
    <3>2. LeaveScript(v, k) = <<"dedent">>
      BY <1>2, <2>3, LeaveCloses DEF Block, TreeBlocks
    <3> QED BY <2>1, <2>2, <3>1, <3>2, BalancedPlain
  <2>4. CASE ~ Block(v, k)
    <3>1. Balanced(VisitScript(v, k)) /\ VisitScript(v, k) \in Seq(Entries)
      BY <2>4, VisitBalanced, VisitFollows DEF Follows
    <3>2. LeaveScript(v, k) \in {<<>>, <<"indent", "dedent">>}
      BY <1>2, <2>4, LeaveCloses
    <3>3. Balanced(<<"indent", "dedent">>)
      BY OthersBalanced
    <3>4. Balanced(LeaveScript(v, k)) /\ LeaveScript(v, k) \in Seq(Entries)
      BY <1>0, <3>2, <3>3, LeaveMarks
    <3>5. Balanced(AcceptOrder[k]) /\ AcceptOrder[k] \in Seq(Entries)
      BY <2>2, BalancedPlain
    <3>6. /\ Balanced(AcceptOrder[k] \o LeaveScript(v, k))
          /\ AcceptOrder[k] \o LeaveScript(v, k) \in Seq(Entries)
      BY <3>4, <3>5, BalancedConcat, ConcatProperties
    <3> QED BY <2>1, <3>1, <3>6, BalancedConcat
  <2> QED BY <2>3, <2>4
<1>3. CASE k # "TypeBundle" /\ ~ (k \in DOMAIN AcceptOrder /\ k \notin Stops(v))
  <2>1. Script(v, k) = VisitScript(v, k)
    <3>1. Script(v, k) = VisitScript(v, k) \o <<>>
      BY <1>3 DEF Script
    <3> QED BY <3>1, VisitFollows, ConcatEmptySeq DEF Follows
  <2>2. ~ Block(v, k)
    BY <1>3, AcceptDomain DEF Block, TreeBlocks, Stops, FirrtlStops, TreeStops
  <2> QED BY <2>1, <2>2, VisitBalanced
<1> QED BY <1>1, <1>2, <1>3

(* That one leaves a level behind.                                         *)
LEMMA VectorLevel ==
  ASSUME NEW h \in Nat
  PROVE  Level(Script("tree", "TypeVector"), h, h + 1)
<1>1. VisitScript("tree", "TypeVector") = <<"indent">>
  BY TreeTable DEF VisitScript, Entry, TreeBlocks
<1>2. Script("tree", "TypeVector") = <<"indent">> \o <<>>
  BY <1>1, AcceptDomain DEF Script
<1>3. <<"indent">> \o <<>> = <<"indent">>
  OBVIOUS
<1>4. Stepped({"indent"}, {"dedent"}, "indent", h) = h + 1
  BY DEF Stepped
<1>5. Climbs({"indent"}, {"dedent"}, <<"indent">>, h, h + 1)
  BY <1>4, ClimbsOne
<1> QED BY <1>2, <1>3, <1>5 DEF Level

(* One entry of a script, in the agenda: calls change no level.            *)
LEMMA ItemsClimb ==
  ASSUME TreeShape, visitor \in AllVisitors, NEW n \in Reachable,
         NEW e \in Marks \cup Pointers(ir[n].kind), NEW h \in Nat,
         Stepped({"indent"}, {"dedent"}, e, h) \in Nat
  PROVE  Climbs(Ups, Downs, Items(n, e), h, Stepped({"indent"}, {"dedent"}, e, h))
<1>1. /\ n \in 1 .. Len(ir) /\ n \in Nat /\ ir[n].kind \in AllKinds
      /\ Pointers(ir[n].kind) \cap Marks = {}
  BY ReachableFacts, NoMarks
<1>2. CASE e \in Marks
  <2> DEFINE x == [do |-> e, at |-> n]
  <2>1. Items(n, e) = <<x>>
    BY <1>2 DEF Items, Marks
  <2>2. (x \in Ups <=> e = "indent") /\ (x \in Downs <=> e = "dedent")
    BY <1>1, <1>2 DEF Ups, Downs, Marks
  <2>3. Stepped(Ups, Downs, x, h) = Stepped({"indent"}, {"dedent"}, e, h)
    BY <2>2 DEF Stepped
  <2> HIDE DEF x
  <2>4. Climbs(Ups, Downs, <<x>>, h, Stepped(Ups, Downs, x, h))
    BY <2>3, ClimbsOne
  <2> QED BY <2>1, <2>3, <2>4
<1>3. CASE e \in Pointers(ir[n].kind)
  <2> DEFINE P == [do : {"accept"}, at : Reachable \cup {NULL}]
  <2>1. Items(n, e) \in Seq(Pending) /\ e \notin Marks
    BY <1>1, <1>3, ItemsFacts
  <2>2. Items(n, e) \in {<<>>, <<Call(NULL)>>,
                         [i \in 1 .. Len(Target(n, e)) |-> Call(Target(n, e)[i])]}
    BY <2>1 DEF Items, Marks
  <2>3. Items(n, e) \in Seq(P)
    <3>1. \A i \in DOMAIN Items(n, e) : Items(n, e)[i].do = "accept"
      BY <2>1, <2>2 DEF Call
    <3>2. \A p \in Pending : p.do = "accept" => p \in P
      BY DEF Pending
    <3> HIDE DEF P
    <3>3. \A i \in DOMAIN Items(n, e) : Items(n, e)[i] \in P
      BY <2>1, <3>1, <3>2
    <3> QED BY <2>1, <3>3
  <2>4. P \cap (Ups \cup Downs) = {}
    BY DEF Ups, Downs
  <2> HIDE DEF P
  <2>5. Climbs(Ups, Downs, Items(n, e), h, h)
    BY <2>3, <2>4, ClimbsFlat
  <2>6. Stepped({"indent"}, {"dedent"}, e, h) = h
    BY <2>1 DEF Stepped, Marks
  <2> QED BY <2>5, <2>6
<1> QED BY <1>2, <1>3

(* A script, in the agenda.                                                *)
LEMMA CallsClimb ==
  ASSUME TreeShape, visitor \in AllVisitors, NEW n \in Reachable, NEW a, NEW b,
         Level(Script(visitor, ir[n].kind), a, b)
  PROVE  Climbs(Ups, Downs, Calls(n), a, b)
<1> DEFINE script == Script(visitor, ir[n].kind)
           seqs == [i \in 1 .. Len(script) |-> Items(n, script[i])]
<1>1. ir[n].kind \in AllKinds
  BY ReachableFacts
<1>2. /\ script \in Seq(Entries)
      /\ ToSet(script) \subseteq Marks \cup Pointers(ir[n].kind)
  BY <1>1, ScriptFollows DEF Follows
<1>3. Calls(n) = FlattenSeq(seqs)
  BY DEF Calls
<1>4. PICK d \in [0 .. Len(script) -> Nat] :
        d[0] = a /\ d[Len(script)] = b /\ Heights({"indent"}, {"dedent"}, script, d)
  BY DEF Level, Climbs
<1> HIDE DEF script
<1>5. /\ Len(script) \in Nat /\ DOMAIN script = 1 .. Len(script)
      /\ \A i \in 1 .. Len(script) : script[i] \in Marks \cup Pointers(ir[n].kind)
  BY <1>2 DEF ToSet
<1>6. \A i \in 1 .. Len(script) : Items(n, script[i]) \in Seq(Pending)
  BY <1>5, ItemsFacts
<1>7. seqs \in Seq(Seq(Pending)) /\ Len(seqs) = Len(script)
      /\ \A i \in 1 .. Len(script) : seqs[i] = Items(n, script[i])
  BY <1>5, <1>6
<1> HIDE DEF seqs
<1>8. PICK f \in [0 .. Len(seqs) -> Seq(Pending)] :
        Flattens(seqs, f) /\ FlattenSeq(seqs) = f[Len(seqs)]
  BY <1>7, FlattenJoins
<1> DEFINE L == Len(script)
           D == {m \in Nat : m <= L => Climbs(Ups, Downs, f[m], a, d[m])}
<1>9. L \in Nat /\ Len(seqs) = L
  BY <1>5, <1>7
<1>10. 0 \in D
  <2>1. d[0] = a /\ a \in Nat /\ f[0] = <<>>
    <3>1. 0 \in 0 .. L
      BY <1>9
    <3> QED BY <1>4, <1>8, <3>1 DEF Flattens
  <2>2. Climbs(Ups, Downs, <<>>, a, a)
    BY <2>1, ClimbsNothing
  <2> QED BY <2>1, <2>2
<1>11. ASSUME NEW m \in Nat, m \in D
       PROVE  m + 1 \in D
  <2> SUFFICES ASSUME m + 1 <= L
               PROVE  Climbs(Ups, Downs, f[m + 1], a, d[m + 1])
    OBVIOUS
  <2>1. /\ m + 1 \in 1 .. L /\ m \in 0 .. L /\ m + 1 \in 0 .. L /\ (m + 1) - 1 = m
    BY <1>9
  <2>2. /\ f[m + 1] = f[m] \o seqs[m + 1] /\ f[m] \in Seq(Pending)
        /\ seqs[m + 1] = Items(n, script[m + 1]) /\ seqs[m + 1] \in Seq(Pending)
    BY <1>6, <1>7, <1>8, <1>9, <2>1 DEF Flattens
  <2>3. /\ d[m + 1] = Stepped({"indent"}, {"dedent"}, script[m + 1], d[m])
        /\ d[m] \in Nat /\ d[m + 1] \in Nat
    BY <1>4, <2>1 DEF Heights
  <2>4. Climbs(Ups, Downs, Items(n, script[m + 1]), d[m], d[m + 1])
    BY <1>5, <2>1, <2>3, ItemsClimb
  <2>5. Climbs(Ups, Downs, f[m], a, d[m])
    BY <1>9, <1>11, <2>1
  <2>6. seqs[m + 1] = Items(n, script[m + 1])
    BY <2>2
  <2> DEFINE P == Pending
             s == f[m]
             t == seqs[m + 1]
  <2>7. s \in Seq(P) /\ t \in Seq(P)
    BY <2>2
  <2>8. Climbs(Ups, Downs, s, a, d[m]) /\ Climbs(Ups, Downs, t, d[m], d[m + 1])
    BY <2>4, <2>5, <2>6
  <2> HIDE DEF P, s, t
  <2>9. Climbs(Ups, Downs, s \o t, a, d[m + 1])
    BY <2>7, <2>8, ClimbsConcat
  <2> QED BY <2>2, <2>9 DEF s, t
<1>12. L \in D
  <2> HIDE DEF D
  <2> QED BY <1>9, <1>10, <1>11, Induction
<1> QED BY <1>3, <1>4, <1>8, <1>9, <1>12

-----------------------------------------------------------------------------
(***************************************************************************)
(* The walk that is left ends at the number of vectors that were visited.  *)
(***************************************************************************)
(* The places of the vectors the tree backend has visited.                 *)
VectorPlaces == {i \in 1 .. Len(visited) :
                   visitor = "tree" /\ ir[visited[i]].kind = "TypeVector"}

(* What is left to do takes the level, never below 0, to as many as there  *)
(* were vectors.                                                           *)
LevelFollows ==
  /\ status # "threw"
  /\ status \in {"running", "done"} =>
       Climbs(Ups, Downs, agenda, level, Cardinality(VectorPlaces))

(* They can be counted.                                                    *)
LEMMA PlacesCount ==
  ASSUME RunShape
  PROVE  IsFiniteSet(VectorPlaces) /\ Cardinality(VectorPlaces) \in Nat
<1>1. IsFiniteSet(1 .. Len(visited)) /\ VectorPlaces \subseteq 1 .. Len(visited)
  BY FS_Interval DEF VectorPlaces, RunShape
<1> QED BY <1>1, FS_Subset, FS_CardinalityType

(* A visit adds one if it is of a vector.                                  *)
LEMMA VisitPlaces ==
  ASSUME Inv, Accept, NEW n \in Reachable, Head(agenda) = Call(n)
  PROVE  Cardinality(VectorPlaces') =
           IF visitor = "tree" /\ ir[n].kind = "TypeVector"
           THEN Cardinality(VectorPlaces) + 1 ELSE Cardinality(VectorPlaces)
<1>1. /\ TreeShape /\ RunShape /\ visited \in Seq(Reachable)
      /\ visitor' = visitor
      /\ visited' = IF ir[n].kind = "TypeBundle" THEN visited ELSE Append(visited, n)
  BY DEF Inv, RunShape, Accept, Call
<1>2. SameTree
  BY AcceptFacts
<1>3. \A m \in Reachable : ir'[m].kind = ir[m].kind
  BY <1>1, <1>2, ReachableFacts DEF SameTree
<1>4. /\ Len(visited) \in Nat
      /\ \A i \in 1 .. Len(visited) : visited[i] \in Reachable
  BY <1>1
<1>5. CASE ir[n].kind = "TypeBundle"
  <2>1. visited' = visited
    BY <1>1, <1>5
  <2>2. VectorPlaces' = VectorPlaces
    BY <1>1, <1>3, <1>4, <2>1 DEF VectorPlaces
  <2> QED BY <1>5, <2>2
<1>6. CASE ir[n].kind # "TypeBundle"
  <2>1. /\ visited' = Append(visited, n)
        /\ Len(visited') = Len(visited) + 1 /\ visited'[Len(visited) + 1] = n
        /\ \A i \in 1 .. Len(visited) : visited'[i] = visited[i]
    BY <1>1, <1>6
  <2> DEFINE last == Len(visited) + 1
  <2>2. 1 .. Len(visited') = 1 .. Len(visited) \cup {last} /\ last \notin 1 .. Len(visited)
    BY <1>4, <2>1
  <2>3. visited'[last] = n /\ \A i \in 1 .. Len(visited) : visited'[i] = visited[i]
    BY <2>1
  <2> HIDE DEF last
  <2>4. \A i \in 1 .. Len(visited) : i \in VectorPlaces' <=> i \in VectorPlaces
    BY <1>1, <1>3, <1>4, <2>2, <2>3 DEF VectorPlaces
  <2>5. last \in VectorPlaces' <=> visitor = "tree" /\ ir[n].kind = "TypeVector"
    BY <1>1, <1>3, <2>2, <2>3 DEF VectorPlaces
  <2>6. VectorPlaces' \subseteq 1 .. Len(visited) \cup {last}
        /\ VectorPlaces \subseteq 1 .. Len(visited)
    BY <2>2 DEF VectorPlaces
  <2>7. IsFiniteSet(VectorPlaces) /\ Cardinality(VectorPlaces) \in Nat
    BY <1>1, PlacesCount
  <2>8. CASE visitor = "tree" /\ ir[n].kind = "TypeVector"
    <3>1. VectorPlaces' = VectorPlaces \cup {last} /\ last \notin VectorPlaces
      BY <2>2, <2>4, <2>5, <2>6, <2>8
    <3>2. Cardinality(VectorPlaces \cup {last}) = Cardinality(VectorPlaces) + 1
      BY <2>7, <3>1, FS_AddElement
    <3> QED BY <2>8, <3>1, <3>2
  <2>9. CASE ~ (visitor = "tree" /\ ir[n].kind = "TypeVector")
    <3>1. VectorPlaces' = VectorPlaces
      BY <2>2, <2>4, <2>5, <2>6, <2>9
    <3> QED BY <2>9, <3>1
  <2> QED BY <2>8, <2>9
<1> QED BY <1>5, <1>6

(* A visit keeps it: what is left gets longer, and ends one higher for a   *)
(* vector.                                                                 *)
LEMMA AcceptLevels ==
  ASSUME Inv, LevelFollows, Accept
  PROVE  LevelFollows'
<1>1. /\ TreeShape /\ RunShape /\ status = "running" /\ status' = status
      /\ level' = level /\ visitor \in AllVisitors
      /\ agenda \in Seq(Pending) /\ agenda # <<>>
  BY DEF Inv, RunShape, Accept, Due
<1>2. PICK n \in Reachable :
        /\ Head(agenda) = Call(n)
        /\ Tail(agenda) \in Seq(Pending)
        /\ agenda' = Calls(n) \o Tail(agenda)
  BY AcceptFacts
<1> DEFINE c == Cardinality(VectorPlaces)
           P == Pending
           s == Calls(n)
           t == Tail(agenda)
<1>3. /\ Head(agenda) \notin Ups /\ Head(agenda) \notin Downs
      /\ Stepped(Ups, Downs, Head(agenda), level) = level
  BY <1>2 DEF Call, Ups, Downs, Stepped
<1>4. Climbs(Ups, Downs, agenda, level, c) /\ level \in Nat /\ c \in Nat
  BY <1>1, PlacesCount DEF LevelFollows, RunShape
<1>5. Climbs(Ups, Downs, t, level, c)
  <2> HIDE DEF c, P
  <2>1. agenda \in Seq(P)
    BY <1>1 DEF P
  <2>2. Climbs(Ups, Downs, t, Stepped(Ups, Downs, Head(agenda), level), c)
    BY <1>1, <1>4, <2>1, ClimbsFirst
  <2> QED BY <1>3, <2>2
<1>6. s \in Seq(P) /\ t \in Seq(P) /\ agenda' = s \o t
  BY <1>1, <1>2, CallsFacts
<1>7. ir[n].kind \in AllKinds \ {"Field", "Parameter"}
  BY <1>1, ReachableFacts
<1>8. Cardinality(VectorPlaces') =
           IF visitor = "tree" /\ ir[n].kind = "TypeVector" THEN c + 1 ELSE c
  BY <1>2, VisitPlaces
<1> HIDE DEF c, P, s, t
<1>9. CASE visitor = "tree" /\ ir[n].kind = "TypeVector"
  <2>1. Level(Script(visitor, ir[n].kind), level, level + 1)
    BY <1>4, <1>9, VectorLevel
  <2>2. Climbs(Ups, Downs, s, level, level + 1)
    BY <1>1, <2>1, CallsClimb DEF s
  <2>3. Climbs(Ups, Downs, t, level + 1, c + 1)
    BY <1>5, <1>6, ClimbsHigher
  <2>4. Climbs(Ups, Downs, s \o t, level, c + 1)
    BY <1>6, <2>2, <2>3, ClimbsConcat
  <2> QED BY <1>1, <1>6, <1>8, <1>9, <2>4 DEF LevelFollows
<1>10. CASE ~ (visitor = "tree" /\ ir[n].kind = "TypeVector")
  <2>1. Level(Script(visitor, ir[n].kind), level, level)
    BY <1>1, <1>4, <1>7, <1>10, ScriptBalanced DEF Balanced
  <2>2. Climbs(Ups, Downs, s, level, level)
    BY <1>1, <2>1, CallsClimb DEF s
  <2>4. Climbs(Ups, Downs, s \o t, level, c)
    BY <1>5, <1>6, <2>2, ClimbsConcat
  <2> QED BY <1>1, <1>6, <1>8, <1>10, <2>4 DEF LevelFollows
<1> QED BY <1>9, <1>10

(* An indent or a dedent is the first step of the walk.                    *)
LEMMA MarkLevels ==
  ASSUME Inv, LevelFollows, Indent \/ Dedent
  PROVE  LevelFollows'
<1>1. /\ TreeShape /\ RunShape /\ status = "running"
      /\ agenda \in Seq(Pending) /\ agenda # <<>> /\ agenda' = Tail(agenda)
      /\ UNCHANGED <<ir, visitor, visited>> /\ level \in Nat
  BY DEF Inv, RunShape, Indent, Dedent, Due
<1>2. Head(agenda) \in Pending
  BY <1>1, HeadOfAgenda
<1>3. Climbs(Ups, Downs, agenda, level, Cardinality(VectorPlaces))
  BY <1>1 DEF LevelFollows
<1>4. VectorPlaces' = VectorPlaces
  BY <1>1 DEF VectorPlaces
<1> DEFINE new == Stepped(Ups, Downs, Head(agenda), level)
           c == Cardinality(VectorPlaces)
           P == Pending
<1>5. new \in Nat /\ Climbs(Ups, Downs, Tail(agenda), new, c)
  <2> HIDE DEF c, P
  <2>1. agenda \in Seq(P)
    BY <1>1 DEF P
  <2> QED BY <1>1, <1>3, <2>1, ClimbsFirst DEF c
<1>6. Reachable \subseteq Nat
  BY <1>1, ReachableFacts
<1>7. status' = "running" /\ level' = new
  <2>1. CASE Indent
    <3>1. Head(agenda) \in Ups
      BY <1>2, <1>6, <2>1 DEF Indent, Due, Pending, Ups
    <3> QED BY <2>1, <3>1 DEF Indent, Due, Stepped
  <2>2. CASE Dedent
    <3>1. Head(agenda) \in Downs /\ Head(agenda) \notin Ups
      BY <1>2, <1>6, <2>2 DEF Dedent, Due, Pending, Ups, Downs
    <3>2. new = level - 1
      BY <3>1 DEF Stepped
    <3>3. level # 0
      BY <1>5, <3>2
    <3> QED BY <2>2, <3>2, <3>3 DEF Dedent, Due
  <2> QED BY <2>1, <2>2
<1> QED BY <1>1, <1>4, <1>5, <1>7 DEF LevelFollows

(* Every step keeps it.                                                    *)
LEMMA LevelsKept ==
  ASSUME Inv, LevelFollows, [Next]_vars
  PROVE  LevelFollows'
<1>1. CASE Build
  <2>1. status' = "building"
    BY <1>1 DEF Build, outside
  <2> QED BY <2>1 DEF LevelFollows
<1>2. ASSUME NEW v \in Runs, Start(v)
      PROVE  LevelFollows'
  <2>1. /\ visited' = <<>> /\ level' = 0 /\ agenda' = <<Call(1)>> /\ status' = "running"
    BY <1>2 DEF Start, Inv, RunShape
  <2>2. VectorPlaces' = {}
    BY <2>1 DEF VectorPlaces
  <2>3. Call(1) \notin Ups /\ Call(1) \notin Downs
    BY DEF Call, Ups, Downs
  <2>4. Stepped(Ups, Downs, Call(1), 0) = 0
    BY <2>3 DEF Stepped
  <2>5. Climbs(Ups, Downs, <<Call(1)>>, 0, 0)
    BY <2>4, ClimbsOne
  <2>6. Cardinality({}) = 0
    BY FS_EmptySet
  <2> QED BY <2>1, <2>2, <2>5, <2>6 DEF LevelFollows
<1>3. CASE AcceptNull
  BY <1>3 DEF AcceptNull, LevelFollows
<1>4. CASE Return \/ UNCHANGED vars
  <2>1. /\ UNCHANGED <<ir, visitor, agenda, level, visited>>
        /\ status' # "threw"
        /\ status' \in {"running", "done"} => status \in {"running", "done"}
    BY <1>4 DEF Return, vars, LevelFollows
  <2>2. VectorPlaces' = VectorPlaces
    BY <2>1 DEF VectorPlaces
  <2> QED BY <2>1, <2>2 DEF LevelFollows
<1> QED BY <1>1, <1>2, <1>3, <1>4, AcceptLevels, MarkLevels DEF Next, Visit

(* No visitor takes a level away that is not there, and one that is done   *)
(* leaves the level at 0, or one higher for each vector type that the tree *)
(* backend has printed.                                                    *)
THEOREM LevelsBalanceCorrect == Spec => []LevelsBalance
<1>1. Init => LevelFollows
  BY DEF Init, LevelFollows
<1>2. Inv /\ LevelFollows /\ [Next]_vars => LevelFollows'
  BY LevelsKept
<1>3. Inv /\ LevelFollows => LevelsBalance
  <2> SUFFICES ASSUME Inv, LevelFollows, status = "done"
               PROVE  level = Cardinality(VectorPlaces)
    BY DEF LevelsBalance, LevelFollows, VectorPlaces
  <2>1. Climbs(Ups, Downs, <<>>, level, Cardinality(VectorPlaces))
    BY DEF Inv, ChildrenFollow, LevelFollows
  <2> QED BY <2>1, ClimbsNothing
<1> QED BY <1>1, <1>2, <1>3, InvHolds, PTL DEF Spec

-----------------------------------------------------------------------------
(***************************************************************************)
(* How often a node is visited.                                            *)
(***************************************************************************)
(* How often a script follows a pointer: the FIRRTL backend prints what is *)
(* below an else and has accept() do it again.                             *)
Follow(v, k) == IF v = "FIRRTL" /\ k = "ConditionalElse" THEN 2 ELSE 1

(* accept() follows a pointer once.                                        *)
LEMMA AcceptLone ==
  ASSUME NEW k \in DOMAIN AcceptOrder, NEW f
  PROVE  Lone(f, AcceptOrder[k])
<1>1. /\ Lone(f, <<"mExternalModules", "mInternalModules">>)
      /\ Lone(f, <<"mPorts", "mStmts">>)
      /\ Lone(f, <<"mType">>)
      /\ Lone(f, <<"mGroup">>)
      /\ Lone(f, <<"mType", "mClock", "mResetTrigger", "mResetValue">>)
      /\ Lone(f, <<"mOf">>)
      /\ Lone(f, <<"mExpr">>)
      /\ Lone(f, <<"mTo", "mFrom">>)
      /\ Lone(f, <<"mExp">>)
      /\ Lone(f, <<"mCond", "mThen", "mElse">>)
      /\ Lone(f, <<"mStmts">>)
      /\ Lone(f, <<"mClock", "mCond">>)
      /\ Lone(f, <<"mClock", "mCond", "mArguments">>)
      /\ Lone(f, <<"mOf", "mField">>)
      /\ Lone(f, <<"mOf", "mExp">>)
      /\ Lone(f, <<"mSel", "mA", "mB">>)
      /\ Lone(f, <<"mSel", "mA">>)
      /\ Lone(f, <<"mOperands">>)
  BY DEF Lone
<1> QED BY <1>1, AcceptTable, AcceptDomain

(* And so does visit().                                                    *)
LEMMA VisitLone ==
  ASSUME NEW v \in AllVisitors, NEW k, NEW f, f \notin Marks
  PROVE  Lone(f, VisitScript(v, k))
<1>0. Lone(f, <<>>)
  BY DEF Lone
<1>1. Lone(f, <<"indent">>)
  BY DEF Lone
<1>2. CASE v = "stripinfo"
  BY <1>0, <1>2 DEF VisitScript
<1>3. CASE v = "FIRRTL"
  <2>1. /\ Lone(f, <<"mType", "mClock", "mResetTrigger", "mResetValue">>)
        /\ Lone(f, <<"indent", "mDType", "dedent">>)
        /\ Lone(f, <<"mTo", "mFrom">>)
        /\ Lone(f, <<"mCond", "indent", "mThen", "dedent", "mElse">>)
        /\ Lone(f, <<"indent", "mStmts", "dedent">>)
        /\ Lone(f, <<"mClock", "mCond">>)
        /\ Lone(f, <<"mOf", "mField">>)
        /\ Lone(f, <<"mOf">>)
        /\ Lone(f, <<"mOf", "mExp">>)
        /\ Lone(f, <<"mSel", "mA", "mB">>)
        /\ Lone(f, <<"mSel", "mA">>)
        /\ Lone(f, <<"mOperands">>)
    BY DEF Lone, Marks
  <2>2. \A c \in DOMAIN FirrtlVisit : Lone(f, FirrtlVisit[c])
    BY <1>1, <2>1, FirrtlTable
  <2> QED BY <1>0, <1>3, <2>2 DEF VisitScript, Entry
<1>4. CASE v = "tree"
  <2>1. /\ Lone(f, <<"indent", "mType", "mClock", "mResetTrigger", "mResetValue", "dedent">>)
        /\ Lone(f, <<"indent", "mTo", "mFrom", "dedent">>)
        /\ Lone(f, <<"indent", "mClock", "mCond", "dedent">>)
        /\ Lone(f, <<"indent", "mClock", "mCond", "mArguments", "dedent">>)
        /\ Lone(f, <<"indent", "mType", "dedent">>)
        /\ Lone(f, <<"indent", "mField", "mOf", "dedent">>)
        /\ Lone(f, <<"indent", "mOf", "dedent">>)
        /\ Lone(f, <<"indent", "mExp", "mOf", "dedent">>)
        /\ Lone(f, <<"indent", "mSel", "mA", "mB", "dedent">>)
        /\ Lone(f, <<"indent", "mSel", "mA", "dedent">>)
    BY DEF Lone, Marks
  <2>2. \A c \in DOMAIN TreeVisit : Lone(f, TreeVisit[c])
    BY <1>1, <2>1, TreeTable
  <2> QED BY <1>0, <1>4, <2>2 DEF VisitScript, Entry
<1>5. CASE v = "dot"
  <2>1. Lone(f, <<"mFrom", "mTo">>)
    BY DEF Lone
  <2>2. DOMAIN DotVisits = {"Connect"} /\ DotVisits["Connect"] = <<"mFrom", "mTo">>
    BY DEF DotVisits
  <2> QED BY <1>0, <1>5, <2>1, <2>2 DEF VisitScript, Entry
<1> QED BY <1>2, <1>3, <1>4, <1>5 DEF AllVisitors

(* A visitor that leaves the pointers to accept() follows none itself, but *)
(* for the else.                                                           *)
LEMMA VisitLeavesAlone ==
  ASSUME NEW v \in AllVisitors, NEW k \in DOMAIN AcceptOrder, k \notin Stops(v),
         Follow(v, k) = 1
  PROVE  VisitScript(v, k) \in {<<>>, <<"indent">>}
<1>1. CASE v = "stripinfo"
  BY <1>1 DEF VisitScript
<1>2. CASE v = "FIRRTL"
  <2>1. k \in DOMAIN FirrtlVisit => k \in {"Circuit", "Module", "ExtModule"}
    BY <1>2, FirrtlTable DEF Stops, FirrtlStops, Follow
  <2> QED BY <1>2, <2>1, FirrtlTable DEF VisitScript, Entry
<1>3. CASE v = "tree"
  <2>1. k \in DOMAIN TreeVisit => k \in TreeBlocks
    BY <1>3, TreeTable, AcceptDomain DEF Stops, TreeStops
  <2> QED BY <1>3, <2>1, TreeTable DEF VisitScript, Entry
<1>4. CASE v = "dot"
  <2>1. k \notin DOMAIN DotVisits
    BY <1>4 DEF Stops, DotStops, DotVisits
  <2> QED BY <1>4, <2>1 DEF VisitScript, Entry
<1> QED BY <1>1, <1>2, <1>3, <1>4 DEF AllVisitors

(* Both together, once for most kinds: the visit that follows a pointer    *)
(* keeps accept() from it.                                                 *)
LEMMA ScriptAdds ==
  ASSUME NEW v \in AllVisitors, NEW k \in AllKinds, NEW f, f \notin Marks
  PROVE  Adds(f, Script(v, k), Follow(v, k))
<1>0. /\ Follow(v, k) \in {1, 2} /\ VisitScript(v, k) \in Seq(Entries)
      /\ LeaveScript(v, k) \in Seq(Entries)
      /\ f \notin ToSet(LeaveScript(v, k))
  BY VisitFollows, LeaveMarks DEF Follow, Follows
<1>1. Adds(f, VisitScript(v, k), 1) /\ Adds(f, LeaveScript(v, k), 0)
  BY <1>0, VisitLone, AddsLone, AddsNone
<1>2. CASE k = "TypeBundle"
  <2>1. Script(v, k) = <<>> /\ <<>> \in Seq(Entries) /\ f \notin ToSet(<<>>)
    BY <1>2, Tuples DEF Script
  <2>2. Adds(f, <<>>, 0)
    BY <2>1, AddsNone
  <2> QED BY <1>0, <2>1, <2>2, AddsMore
<1>3. CASE k # "TypeBundle" /\ k \in DOMAIN AcceptOrder /\ k \notin Stops(v)
  <2> DEFINE rest == AcceptOrder[k] \o LeaveScript(v, k)
  <2>1. Script(v, k) = VisitScript(v, k) \o rest
    BY <1>3 DEF Script
  <2>2. AcceptOrder[k] \in Seq(Entries) /\ rest \in Seq(Entries)
    BY <1>0, <1>3, AcceptEntries, ConcatProperties
  <2>3. Adds(f, AcceptOrder[k], 1)
    BY <1>3, <2>2, AcceptLone, AddsLone
  <2>4. Adds(f, rest, 1)
    <3>1. Adds(f, rest, 1 + 0)
      BY <1>0, <1>1, <2>2, <2>3, AddsConcat
    <3> QED BY <3>1
  <2> HIDE DEF rest
  <2>5. CASE Follow(v, k) = 2
    <3>1. Adds(f, VisitScript(v, k) \o rest, 1 + 1)
      BY <1>0, <1>1, <2>2, <2>4, AddsConcat
    <3> QED BY <2>1, <2>5, <3>1
  <2>6. CASE Follow(v, k) = 1
    <3>1. VisitScript(v, k) \in {<<>>, <<"indent">>}
      BY <1>3, <2>6, VisitLeavesAlone
    <3>2. ToSet(<<>>) = {} /\ ToSet(<<"indent">>) = {"indent"}
      BY Tuples DEF ToSet
    <3>3. f \notin ToSet(VisitScript(v, k))
      BY <3>1, <3>2 DEF Marks
    <3>4. Adds(f, VisitScript(v, k), 0)
      BY <1>0, <3>3, AddsNone
    <3>5. Adds(f, VisitScript(v, k) \o rest, 0 + 1)
      BY <1>0, <2>2, <2>4, <3>4, AddsConcat
    <3> QED BY <2>1, <2>6, <3>5
  <2> QED BY <1>0, <2>5, <2>6
<1>4. CASE k # "TypeBundle" /\ ~ (k \in DOMAIN AcceptOrder /\ k \notin Stops(v))
  <2>1. Script(v, k) = VisitScript(v, k)
    <3>1. Script(v, k) = VisitScript(v, k) \o <<>>
      BY <1>4 DEF Script
    <3> QED BY <1>0, <3>1, ConcatEmptySeq
  <2> QED BY <1>0, <1>1, <2>1, AddsMore
<1> QED BY <1>2, <1>3, <1>4

(* A child is called from its parent as often as the script says, and from *)
(* no other node.                                                          *)
LEMMA ItemsCalls ==
  ASSUME TreeShape, visitor \in AllVisitors, NEW n \in Reachable,
         NEW e \in Marks \cup Pointers(ir[n].kind), NEW c \in Nat, c # NULL,
         Call(c) \in ToSet(Items(n, e))
  PROVE  e \in Pointers(ir[n].kind) /\ c \in ToSet(Target(n, e))
<1>1. e \notin Marks
  <2>1. e \in Marks => Items(n, e) = <<[do |-> e, at |-> n]>>
    BY DEF Items, Marks
  <2>2. ToSet(<<[do |-> e, at |-> n]>>) = {[do |-> e, at |-> n]}
    BY Tuples
  <2>3. e \in Marks => Call(c) # [do |-> e, at |-> n]
    BY DEF Marks, Call
  <2> QED BY <2>1, <2>2, <2>3
<1>2. Items(n, e) \in {<<>>, <<Call(NULL)>>,
                       [i \in 1 .. Len(Target(n, e)) |-> Call(Target(n, e)[i])]}
  BY <1>1 DEF Items, Marks
<1>3. ToSet(<<>>) = {} /\ ToSet(<<Call(NULL)>>) = {Call(NULL)} /\ Call(c) # Call(NULL)
  BY Tuples DEF Call
<1>4. Items(n, e) = [i \in 1 .. Len(Target(n, e)) |-> Call(Target(n, e)[i])]
  BY <1>2, <1>3
<1>5. PICK i \in 1 .. Len(Target(n, e)) : Call(c) = Call(Target(n, e)[i])
  BY <1>4 DEF ToSet
<1>6. Target(n, e) \in Seq(n + 1 .. Len(ir))
  <2>1. e \in Pointers(ir[n].kind) /\ n \in 1 .. Len(ir)
    BY <1>1, ReachableFacts
  <2> QED BY <2>1 DEF TreeShape, PointsWell
<1>7. c = Target(n, e)[i] /\ i \in DOMAIN Target(n, e)
  BY <1>5, <1>6 DEF Call
<1> QED BY <1>1, <1>7 DEF ToSet

(* An entry calls a child once: it is in the list of its parent once.      *)
LEMMA ItemsLone ==
  ASSUME TreeShape, OnePlace, visitor \in AllVisitors, NEW n \in Reachable,
         NEW e \in Pointers(ir[n].kind), NEW c \in Nat, c # NULL
  PROVE  Lone(Call(c), Items(n, e))
<1>1. e \notin Marks /\ n \in 1 .. Len(ir)
  BY ReachableFacts, NoMarks
<1>2. Items(n, e) \in {<<>>, <<Call(NULL)>>,
                       [i \in 1 .. Len(Target(n, e)) |-> Call(Target(n, e)[i])]}
  BY <1>1 DEF Items, Marks
<1>3. Lone(Call(c), <<>>) /\ Lone(Call(c), <<Call(NULL)>>)
  BY DEF Lone
<1>4. Target(n, e) \in Seq(n + 1 .. Len(ir))
  BY <1>1 DEF TreeShape, PointsWell
<1>5. \A i, j \in DOMAIN Target(n, e) : Target(n, e)[i] = Target(n, e)[j] => i = j
  BY <1>1 DEF OnePlace
<1>6. Lone(Call(c), [i \in 1 .. Len(Target(n, e)) |-> Call(Target(n, e)[i])])
  <2> DEFINE t == Target(n, e)
             calls == [i \in 1 .. Len(t) |-> Call(t[i])]
  <2>1. DOMAIN t = 1 .. Len(t) /\ Len(t) \in Nat
    BY <1>4
  <2>2. \A i, j \in 1 .. Len(t) : t[i] = t[j] => i = j
    BY <1>5, <2>1
  <2> HIDE DEF t
  <2>3. Len(calls) = Len(t) /\ \A i \in 1 .. Len(t) : calls[i] = Call(t[i])
    BY <2>1
  <2> HIDE DEF calls
  <2>4. Lone(Call(c), calls)
    <3> SUFFICES ASSUME NEW i \in 1 .. Len(calls), NEW j \in 1 .. Len(calls),
                        calls[i] = Call(c), calls[j] = Call(c)
                 PROVE  i = j
      BY DEF Lone
    <3>1. i \in 1 .. Len(t) /\ j \in 1 .. Len(t)
      BY <2>3
    <3>2. Call(t[i]) = Call(c) /\ Call(t[j]) = Call(c)
      BY <2>3, <3>1
    <3>3. t[i] = t[j]
      BY <3>2 DEF Call
    <3> QED BY <2>2, <3>1, <3>3
  <2> QED BY <2>4 DEF calls, t
<1> QED BY <1>2, <1>3, <1>6

(* The whole script.                                                       *)
LEMMA CallsAdd ==
  ASSUME TreeShape, OnePlace, visitor \in AllVisitors, NEW n \in Reachable,
         NEW p \in Reachable, NEW c \in Successors(p)
  PROVE  /\ n # p => Adds(Call(c), Calls(n), 0)
         /\ n = p => Adds(Call(c), Calls(n), Follow(visitor, ir[n].kind))
<1> DEFINE script == Script(visitor, ir[n].kind)
           seqs == [i \in 1 .. Len(script) |-> Items(n, script[i])]
<1>1. /\ ir[n].kind \in AllKinds /\ n \in 1 .. Len(ir) /\ p \in 1 .. Len(ir)
      /\ c \in Reachable /\ c \in Nat /\ c # NULL
  BY ReachableFacts
<1>2. /\ script \in Seq(Entries)
      /\ ToSet(script) \subseteq Marks \cup Pointers(ir[n].kind)
  BY <1>1, ScriptFollows DEF Follows
<1>3. Calls(n) = FlattenSeq(seqs)
  BY DEF Calls
<1>4. PICK f \in Pointers(ir[p].kind) : c \in ToSet(Target(p, f))
  BY DEF Successors
<1>5. f \notin Marks
  <2>1. ir[p].kind \in AllKinds
    BY ReachableFacts
  <2> QED BY <2>1, NoMarks
<1>6. Adds(f, script, Follow(visitor, ir[n].kind)) /\ Follow(visitor, ir[n].kind) \in Nat
  BY <1>1, <1>5, ScriptAdds DEF Follow
<1> HIDE DEF script
<1>7. /\ Len(script) \in Nat /\ DOMAIN script = 1 .. Len(script)
      /\ \A i \in 1 .. Len(script) : script[i] \in Marks \cup Pointers(ir[n].kind)
  BY <1>2 DEF ToSet
<1>8. \A i \in 1 .. Len(script) : Items(n, script[i]) \in Seq(Pending)
  BY <1>7, ItemsFacts
<1>9. seqs \in Seq(Seq(Pending)) /\ Len(seqs) = Len(script)
      /\ \A i \in 1 .. Len(script) : seqs[i] = Items(n, script[i])
  BY <1>7, <1>8
<1> HIDE DEF seqs
(* No other pointer holds the child.                                       *)
<1>10. ASSUME NEW e \in Marks \cup Pointers(ir[n].kind), n # p \/ e # f
       PROVE  Call(c) \notin ToSet(Items(n, e))
  <2> SUFFICES ASSUME Call(c) \in ToSet(Items(n, e))
               PROVE  FALSE
    OBVIOUS
  <2>1. e \in Pointers(ir[n].kind) /\ c \in ToSet(Target(n, e))
    BY <1>1, ItemsCalls
  <2>2. PICK i \in DOMAIN Target(n, e) : Target(n, e)[i] = c
    BY <2>1 DEF ToSet
  <2>3. PICK j \in DOMAIN Target(p, f) : Target(p, f)[j] = c
    BY <1>4 DEF ToSet
  <2>4. n = p /\ e = f
    BY <1>1, <1>4, <2>1, <2>2, <2>3 DEF OnePlace
  <2> QED BY <1>10, <2>4
<1>11. ASSUME n # p
       PROVE  Adds(Call(c), Calls(n), 0)
  <2>1. \A i \in 1 .. Len(seqs) : Call(c) \notin ToSet(seqs[i])
    BY <1>7, <1>9, <1>10, <1>11
  <2>2. FlattenSeq(seqs) \in Seq(Pending) /\ Call(c) \notin ToSet(FlattenSeq(seqs))
    BY <1>9, <2>1, FlattenHas
  <2> QED BY <1>3, <2>2, AddsNone
<1>12. ASSUME n = p
       PROVE  Adds(Call(c), Calls(n), Follow(visitor, ir[n].kind))
  <2>1. ASSUME NEW i \in 1 .. Len(seqs)
        PROVE  Adds(Call(c), seqs[i], IF script[i] = f THEN 1 ELSE 0)
    <3>1. seqs[i] = Items(n, script[i]) /\ seqs[i] \in Seq(Pending)
          /\ script[i] \in Marks \cup Pointers(ir[n].kind)
      BY <1>7, <1>8, <1>9
    <3>2. CASE script[i] = f
      <4>1. Lone(Call(c), seqs[i])
        BY <1>1, <1>4, <1>12, <3>1, <3>2, ItemsLone
      <4> QED BY <3>1, <3>2, <4>1, AddsLone
    <3>3. CASE script[i] # f
      <4>1. Call(c) \notin ToSet(seqs[i])
        BY <1>10, <3>1, <3>3
      <4> QED BY <3>1, <3>3, <4>1, AddsNone
    <3> QED BY <3>2, <3>3
  <2> DEFINE P == Pending
             E == Entries
             x == Call(c)
  <2>2. seqs \in Seq(Seq(P)) /\ script \in Seq(E) /\ Len(script) = Len(seqs)
    BY <1>2, <1>9
  <2> HIDE DEF P, E, x
  <2>3. Adds(x, FlattenSeq(seqs), Follow(visitor, ir[n].kind))
    BY <1>6, <2>1, <2>2, AddsFlattened DEF x
  <2> QED BY <1>3, <2>3 DEF x
<1> QED BY <1>11, <1>12

(* What is left to do visits c until it was visited b times at most.       *)
Most(c, b) ==
  \E k \in Nat : k <= b /\ Climbs({Call(c)}, {}, agenda, Count(c), k)

(* The circuit is visited once, a child as often as each visit of its      *)
(* parent follows the pointer to it.                                       *)
VisitsBounded ==
  status \in {"running", "done"} =>
    /\ Most(1, 1)
    /\ \A p \in Reachable : \A c \in Successors(p) :
         Most(c, Follow(visitor, ir[p].kind) * Count(p))

(* Where a node was visited.                                               *)
Places(n) == {i \in 1 .. Len(visited) : visited[i] = n}

(* The visits can be counted.                                              *)
LEMMA CountType ==
  ASSUME RunShape, NEW n
  PROVE  IsFiniteSet(Places(n)) /\ Count(n) = Cardinality(Places(n)) /\ Count(n) \in Nat
<1>1. IsFiniteSet(1 .. Len(visited)) /\ Places(n) \subseteq 1 .. Len(visited)
  BY FS_Interval DEF Places, RunShape
<1>2. Count(n) = Cardinality(Places(n))
  BY DEF Count, Places
<1> QED BY <1>1, <1>2, FS_Subset, FS_CardinalityType

(* A visit adds one to those of its node.                                  *)
LEMMA CountAppended ==
  ASSUME RunShape, NEW n, visited' = Append(visited, n), NEW c
  PROVE  Count(c)' = IF c = n THEN Count(c) + 1 ELSE Count(c)
<1> DEFINE last == Len(visited) + 1
<1>1. /\ Len(visited) \in Nat
      /\ Len(visited') = Len(visited) + 1 /\ visited'[Len(visited) + 1] = n
      /\ \A i \in 1 .. Len(visited) : visited'[i] = visited[i]
  BY AppendProperties DEF RunShape
<1>2. 1 .. Len(visited') = 1 .. Len(visited) \cup {last} /\ last \notin 1 .. Len(visited)
  BY <1>1
<1>3. visited'[last] = n
  BY <1>1
<1>4. IsFiniteSet(Places(c)) /\ Count(c) = Cardinality(Places(c)) /\ Count(c) \in Nat
  BY CountType
<1>5. Count(c)' = Cardinality(Places(c)')
  BY DEF Count, Places
<1> HIDE DEF last
<1>6. CASE c = n
  <2>1. Places(c)' = Places(c) \cup {last} /\ last \notin Places(c)
    BY <1>1, <1>2, <1>3, <1>6 DEF Places
  <2>2. Cardinality(Places(c) \cup {last}) = Cardinality(Places(c)) + 1
    BY <1>4, <2>1, FS_AddElement
  <2>3. Cardinality(Places(c)') = Cardinality(Places(c)) + 1
    BY <2>1, <2>2
  <2> QED BY <1>4, <1>5, <1>6, <2>3
<1>7. CASE c # n
  <2>1. Places(c)' = Places(c)
    BY <1>1, <1>2, <1>3, <1>7 DEF Places
  <2> QED BY <1>4, <1>5, <1>7, <2>1
<1> QED BY <1>6, <1>7

(* One visit: the node that is visited was the first of what is left.      *)
LEMMA MostAccepted ==
  ASSUME Inv, Accept, NEW n \in Reachable, Head(agenda) = Call(n),
         NEW c \in Reachable, NEW b \in Nat, Most(c, b), NEW j \in Nat,
         Adds(Call(c), Calls(n), j)
  PROVE  Most(c, b + j)'
<1>1. /\ TreeShape /\ RunShape /\ agenda \in Seq(Pending) /\ agenda # <<>>
      /\ visitor \in AllVisitors
      /\ agenda' = Calls(n) \o Tail(agenda)
      /\ visited' = IF ir[n].kind = "TypeBundle" THEN visited ELSE Append(visited, n)
  <2>1. Head(agenda).at = n
    BY DEF Call
  <2>2. TreeShape /\ RunShape /\ status = "running" /\ agenda # <<>>
    BY DEF Inv, Accept, Due
  <2> QED BY <2>1, <2>2 DEF RunShape, Accept
<1>2. PICK k \in Nat : k <= b /\ Climbs({Call(c)}, {}, agenda, Count(c), k)
  BY DEF Most
<1> DEFINE P == Pending
           x == Call(c)
           s == Calls(n)
           t == Tail(agenda)
<1>3. s \in Seq(P) /\ t \in Seq(P) /\ agenda' = s \o t /\ agenda \in Seq(P)
  BY <1>1, CallsFacts, HeadOfAgenda
<1>4. Count(c) \in Nat
  BY <1>1, CountType
<1>5. c = n <=> Head(agenda) = x
  BY DEF Call
<1> HIDE DEF P, x, s, t
<1>6. Climbs({x}, {}, t, Stepped({x}, {}, Head(agenda), Count(c)), k)
  BY <1>1, <1>2, <1>3, ClimbsFirst DEF x, t
<1>7. \E a \in Nat : a <= k /\ Climbs({x}, {}, t, Count(c)', a)
  <2>1. CASE c # n
    <3>1. Stepped({x}, {}, Head(agenda), Count(c)) = Count(c)
      BY <1>5, <2>1 DEF Stepped
    <3>2. Count(c)' = Count(c)
      <4>1. CASE ir[n].kind = "TypeBundle"
        BY <1>1, <4>1 DEF Count
      <4>2. CASE ir[n].kind # "TypeBundle"
        BY <1>1, <2>1, <4>2, CountAppended
      <4> QED BY <4>1, <4>2
    <3> QED BY <1>6, <3>1, <3>2
  <2>2. CASE c = n
    <3>1. Stepped({x}, {}, Head(agenda), Count(c)) = Count(c) + 1
      BY <1>5, <2>2 DEF Stepped
    <3>2. CASE ir[n].kind # "TypeBundle"
      <4>1. Count(c)' = Count(c) + 1
        BY <1>1, <2>2, <3>2, CountAppended
      <4> QED BY <1>6, <3>1, <4>1
    <3>3. CASE ir[n].kind = "TypeBundle"
      <4>1. Count(c)' = Count(c)
        BY <1>1, <3>3 DEF Count
      <4>2. k \in Nat /\ k >= 1 /\ Climbs({x}, {}, t, Count(c), k - 1)
        BY <1>3, <1>4, <1>6, <3>1, ClimbsLower
      <4>3. k - 1 \in Nat /\ k - 1 <= k
        BY <4>2
      <4> QED BY <4>1, <4>2, <4>3
    <3> QED BY <3>2, <3>3
  <2> QED BY <2>1, <2>2
<1>8. PICK a \in Nat : a <= k /\ Climbs({x}, {}, t, Count(c)', a)
  BY <1>7
<1>9. PICK i \in 0 .. j : \A h \in Nat : Climbs({x}, {}, s, h, h + i)
  BY DEF Adds, s, x
<1>10. Count(c)' \in Nat
  BY <1>3, <1>8, ClimbsUp
<1>11. Climbs({x}, {}, t, Count(c)' + i, a + i)
  BY <1>3, <1>8, <1>9, ClimbsUp
<1>12. Climbs({x}, {}, s, Count(c)', Count(c)' + i)
  BY <1>9, <1>10
<1>13. Climbs({x}, {}, s \o t, Count(c)', a + i)
  BY <1>3, <1>11, <1>12, ClimbsConcat
<1>14. a + i \in Nat /\ a + i <= b + j
  BY <1>2, <1>8, <1>9
<1>15. Call(c)' = x
  BY DEF Call, x
<1> QED BY <1>3, <1>13, <1>14 DEF Most, x, Call

(* When a run begins the circuit is left to visit once, and nothing else   *)
(* is.                                                                     *)
LEMMA MostStart ==
  ASSUME visited = <<>>, agenda = <<Call(1)>>, NEW c
  PROVE  /\ c = 1 => Most(c, 1)
         /\ c # 1 => Most(c, 0)
<1>1. Count(c) = 0
  <2>1. {i \in 1 .. Len(visited) : visited[i] = c} = {}
    OBVIOUS
  <2> QED BY <2>1, FS_EmptySet DEF Count
<1>2. Stepped({Call(c)}, {}, Call(1), 0) = IF c = 1 THEN 1 ELSE 0
  BY DEF Stepped, Call
<1>3. Climbs({Call(c)}, {}, <<Call(1)>>, 0, IF c = 1 THEN 1 ELSE 0)
  BY <1>2, ClimbsOne
<1>4. ASSUME c = 1
      PROVE  Most(c, 1)
  BY <1>1, <1>3, <1>4 DEF Most
<1>5. ASSUME c # 1
      PROVE  Most(c, 0)
  BY <1>1, <1>3, <1>5 DEF Most
<1> QED BY <1>4, <1>5

(* What is taken is not a call.                                            *)
LEMMA MostTaken ==
  ASSUME RunShape, agenda # <<>>, Head(agenda).do # "accept", agenda' = Tail(agenda),
         visited' = visited, NEW c, NEW b, Most(c, b)
  PROVE  Most(c, b)'
<1>1. PICK k \in Nat : k <= b /\ Climbs({Call(c)}, {}, agenda, Count(c), k)
  BY DEF Most
<1>2. Stepped({Call(c)}, {}, Head(agenda), Count(c)) = Count(c)
  BY DEF Stepped, Call
<1> DEFINE P == Pending
           x == Call(c)
<1>3. agenda \in Seq(P)
  BY DEF RunShape
<1>4. Climbs({x}, {}, agenda, Count(c), k) /\ Stepped({x}, {}, Head(agenda), Count(c)) = Count(c)
  BY <1>1, <1>2
<1> HIDE DEF P, x
<1>5. Climbs({x}, {}, Tail(agenda), Count(c), k)
  BY <1>3, <1>4, ClimbsFirst
<1>6. Count(c)' = Count(c)
  BY DEF Count
<1> QED BY <1>1, <1>5, <1>6 DEF Most, x, Call

(* Who is called is a child.                                               *)
LEMMA CallsReach ==
  ASSUME TreeShape, visitor \in AllVisitors, NEW n \in Reachable, NEW c \in Reachable,
         Call(c) \in ToSet(Calls(n))
  PROVE  c \in Successors(n)
<1> DEFINE script == Script(visitor, ir[n].kind)
           seqs == [i \in 1 .. Len(script) |-> Items(n, script[i])]
<1>1. ir[n].kind \in AllKinds /\ c \in Nat /\ c # NULL
  BY ReachableFacts
<1>2. /\ script \in Seq(Entries)
      /\ ToSet(script) \subseteq Marks \cup Pointers(ir[n].kind)
  BY <1>1, ScriptFollows DEF Follows
<1>3. Calls(n) = FlattenSeq(seqs)
  BY DEF Calls
<1> HIDE DEF script
<1>4. /\ Len(script) \in Nat /\ DOMAIN script = 1 .. Len(script)
      /\ \A i \in 1 .. Len(script) : script[i] \in Marks \cup Pointers(ir[n].kind)
  BY <1>2 DEF ToSet
<1>5. \A i \in 1 .. Len(script) : Items(n, script[i]) \in Seq(Pending)
  BY <1>4, ItemsFacts
<1>6. seqs \in Seq(Seq(Pending)) /\ Len(seqs) = Len(script)
      /\ \A i \in 1 .. Len(script) : seqs[i] = Items(n, script[i])
  BY <1>4, <1>5
<1> HIDE DEF seqs
<1>7. PICK i \in 1 .. Len(script) : Call(c) \in ToSet(Items(n, script[i]))
  BY <1>3, <1>6, FlattenHas
<1>8. script[i] \in Pointers(ir[n].kind) /\ c \in ToSet(Target(n, script[i]))
  BY <1>1, <1>4, <1>7, ItemsCalls
<1> QED BY <1>8 DEF Successors

(* A visit keeps the bounds.                                               *)
LEMMA BoundedAccepts ==
  ASSUME Inv, VisitsBounded, Accept
  PROVE  VisitsBounded'
<1>1. /\ TreeShape /\ OnePlace /\ RunShape /\ status = "running" /\ visitor \in AllVisitors
      /\ visitor' = visitor
  BY DEF Inv, Accept, Due, RunShape
<1>2. PICK n \in Reachable :
        /\ Head(agenda) = Call(n)
        /\ visited' = IF ir[n].kind = "TypeBundle" THEN visited ELSE Append(visited, n)
        /\ SameTree
  BY AcceptFacts
<1>3. TreeShape'
  BY <1>1, <1>2, SameTreeKeeps
<1>4. /\ Reachable' = Reachable /\ Reachable \subseteq 1 .. Len(ir) /\ 1 \in Reachable
      /\ \A m \in 1 .. Len(ir) : Successors(m)' = Successors(m)
      /\ \A m \in 1 .. Len(ir) : ir'[m].kind = ir[m].kind
      /\ \A m \in Reachable : Successors(m) \subseteq Reachable
  BY <1>1, <1>2, <1>3, SameTreeReaches, ReachableFacts DEF SameTree
<1>5. Most(1, 1) /\ \A p \in Reachable : \A c \in Successors(p) :
                      Most(c, Follow(visitor, ir[p].kind) * Count(p))
  BY <1>1 DEF VisitsBounded
<1>6. Most(1, 1)'
  <2>1. Call(1) \notin ToSet(Calls(n))
    <3> SUFFICES ASSUME Call(1) \in ToSet(Calls(n))
                 PROVE  FALSE
      OBVIOUS
    <3>1. 1 \in Successors(n)
      BY <1>1, <1>2, <1>4, CallsReach
    <3>2. Successors(n) \subseteq n + 1 .. Len(ir) /\ n \in 1 .. Len(ir)
      BY <1>1, <1>4, TreeOrdered DEF Ordered
    <3> QED BY <3>1, <3>2
  <2>2. Calls(n) \in Seq(Pending)
    BY <1>1, CallsFacts
  <2>3. Adds(Call(1), Calls(n), 0)
    BY <2>1, <2>2, AddsNone
  <2>4. Most(1, 1 + 0)'
    BY <1>2, <1>4, <1>5, <2>3, MostAccepted
  <2> QED BY <2>4
<1>7. ASSUME NEW p \in Reachable, NEW c \in Successors(p)
      PROVE  Most(c, Follow(visitor, ir[p].kind) * Count(p))'
  <2>1. PICK k \in Nat : k = Follow(visitor, ir[p].kind)
    BY DEF Follow
  <2>2. PICK b \in Nat : b = k * Count(p)
    <3>1. Count(p) \in Nat
      BY <1>1, CountType
    <3> QED BY <3>1
  <2>3. Most(c, b) /\ c \in Reachable /\ Count(p) \in Nat
    BY <1>1, <1>4, <1>5, <1>7, <2>1, <2>2, CountType
  <2>4. Follow(visitor, ir[p].kind)' = k
    BY <1>1, <1>4, <2>1 DEF Follow
  <2>5. CASE n # p
    <3>1. Count(p)' = Count(p)
      <4>1. CASE ir[n].kind = "TypeBundle"
        BY <1>2, <4>1 DEF Count
      <4>2. CASE ir[n].kind # "TypeBundle"
        BY <1>1, <1>2, <2>5, <4>2, CountAppended
      <4> QED BY <4>1, <4>2
    <3>2. Adds(Call(c), Calls(n), 0)
      BY <1>1, <2>5, CallsAdd
    <3>3. Most(c, b + 0)'
      BY <1>2, <2>3, <3>2, MostAccepted
    <3>4. b + 0 = Follow(visitor, ir[p].kind)' * Count(p)'
      BY <2>2, <2>4, <3>1
    <3> QED BY <3>3, <3>4
  <2>6. CASE n = p
    <3>1. ir[n].kind # "TypeBundle"
      <4>1. Pointers(ir[n].kind) # {}
        BY <1>7, <2>6 DEF Successors
      <4>2. Pointers("TypeBundle") = {}
        BY PointersTable DEF Types
      <4> QED BY <4>1, <4>2
    <3>2. Count(p)' = Count(p) + 1
      BY <1>1, <1>2, <2>6, <3>1, CountAppended
    <3>3. Adds(Call(c), Calls(n), k)
      BY <1>1, <2>1, <2>6, CallsAdd
    <3>4. Most(c, b + k)'
      BY <1>2, <2>1, <2>3, <3>3, MostAccepted
    <3>5. b + k = Follow(visitor, ir[p].kind)' * Count(p)'
      <4>1. k * (Count(p) + 1) = k * Count(p) + k
        BY <2>1, <2>3
      <4> QED BY <2>2, <2>4, <3>2, <4>1
    <3> QED BY <3>4, <3>5
  <2> QED BY <2>5, <2>6
<1>8. \A p \in Reachable' : \A c \in Successors(p)' :
        Most(c, Follow(visitor, ir[p].kind) * Count(p))'
  BY <1>4, <1>7
<1> QED BY <1>6, <1>8 DEF VisitsBounded

(* The same of every node.                                                 *)
LEMMA MostStarts ==
  visited = <<>> /\ agenda = <<Call(1)>> =>
    \A c : (c = 1 => Most(c, 1)) /\ (c # 1 => Most(c, 0))
BY MostStart

(* And of the next state.                                                  *)
LEMMA MostStartNext ==
  (visited = <<>> /\ agenda = <<Call(1)>> =>
    \A c : (c = 1 => Most(c, 1)) /\ (c # 1 => Most(c, 0)))'
BY MostStarts, PTL

(* Every step keeps them.                                                  *)
LEMMA BoundedKept ==
  ASSUME Inv, VisitsBounded, [Next]_vars
  PROVE  VisitsBounded'
<1>1. CASE Build
  <2>1. status' = "building"
    BY <1>1 DEF Build, outside
  <2> QED BY <2>1 DEF VisitsBounded
<1>2. ASSUME NEW v \in Runs, Start(v)
      PROVE  VisitsBounded'
  <2>1. /\ visited' = <<>> /\ agenda' = <<Call(1)>> /\ ir' = ir /\ visitor' = v
        /\ TreeShape /\ OnePlace
    BY <1>2 DEF Start, Inv, RunShape
  <2>2. SameTree
    BY <2>1 DEF SameTree, TreeShape
  <2>3. TreeShape'
    BY <2>1, <2>2, SameTreeKeeps
  <2>4. TreeShape' => (Reachable \subseteq 1 .. Len(ir))' /\ Ordered'
    BY ReachableFacts, TreeOrdered, PTL
  <2>5. \A c : (c = 1 => Most(c, 1)') /\ (c # 1 => Most(c, 0)')
    <3>1. (visited = <<>> /\ agenda = <<Call(1)>>)'
      BY <2>1 DEF Call
    <3> QED BY <3>1, MostStartNext
  <2>6. ASSUME NEW p \in Reachable', NEW c \in Successors(p)'
        PROVE  Most(c, Follow(visitor, ir[p].kind) * Count(p))'
    <3>1. c # 1
      BY <2>3, <2>4 DEF Ordered
    <3>2. Count(p)' = 0
      <4>1. {i \in 1 .. Len(visited') : visited'[i] = p} = {}
        BY <2>1
      <4> QED BY <4>1, FS_EmptySet DEF Count
    <3>3. (Follow(visitor, ir[p].kind) * Count(p))' = 0
      BY <3>2 DEF Follow
    <3> QED BY <2>5, <3>1, <3>3
  <2> QED BY <2>5, <2>6 DEF VisitsBounded
<1>3. CASE Accept
  BY <1>3, BoundedAccepts
<1>4. CASE AcceptNull
  BY <1>4 DEF AcceptNull, VisitsBounded
<1>5. CASE Indent \/ Dedent
  <2>1. /\ RunShape /\ agenda # <<>> /\ Head(agenda).do # "accept" /\ agenda' = Tail(agenda)
        /\ UNCHANGED <<ir, visitor, visited>> /\ status = "running"
    BY <1>5 DEF Inv, Indent, Dedent, Due
  <2>2. \A c, b : Most(c, b) => Most(c, b)'
    BY <2>1, MostTaken
  <2>3. /\ Reachable' = Reachable
        /\ \A p : Successors(p)' = Successors(p) /\ Count(p)' = Count(p)
    BY <2>1 DEF Reachable, From, Successors, Target, Count
  <2> QED BY <2>1, <2>2, <2>3 DEF VisitsBounded, Follow
<1>6. CASE Return \/ UNCHANGED vars
  <2>1. /\ UNCHANGED <<ir, visitor, agenda, level, visited>>
        /\ status' \in {"running", "done"} => status \in {"running", "done"}
    BY <1>6 DEF Return, vars
  <2>2. /\ Reachable' = Reachable
        /\ \A p : Successors(p)' = Successors(p) /\ Count(p)' = Count(p)
    BY <2>1 DEF Reachable, From, Successors, Target, Count
  <2>3. \A c, b : Most(c, b) => Most(c, b)'
    BY <2>1, <2>2 DEF Most, Call
  <2> QED BY <2>1, <2>2, <2>3 DEF VisitsBounded, Follow
<1> QED BY <1>1, <1>2, <1>3, <1>4, <1>5, <1>6 DEF Next, Visit

-----------------------------------------------------------------------------
(***************************************************************************)
(* Each else doubles the visits of what is below it.                       *)
(***************************************************************************)
(* The elses a node is below.                                              *)
Over(n) == {e \in Reachable : ir[e].kind = "ConditionalElse" /\ n \in From(Successors(e))}

(* A child is in every else its parent is in, and in its parent if that is *)
(* one.                                                                    *)
LEMMA OverGrows ==
  ASSUME TreeShape, NEW p \in Reachable, NEW c \in Successors(p)
  PROVE  /\ Over(p) \subseteq Over(c)
         /\ ir[p].kind = "ConditionalElse" => p \in Over(c)
         /\ p \notin Over(p)
         /\ IsFiniteSet(Over(c))
         /\ Cardinality(Over(p)) = ElsesAbove(p) /\ Cardinality(Over(c)) = ElsesAbove(c)
<1>1. /\ FromIsLeast /\ Ordered /\ Len(ir) \in Nat
      /\ Reachable \subseteq 1 .. Len(ir)
  BY TreeOrdered, FromFacts, ReachableFacts DEF Ordered
<1>2. ASSUME NEW e \in Reachable
      PROVE  /\ Successors(e) \subseteq From(Successors(e))
             /\ \A m \in From(Successors(e)) : Successors(m) \subseteq From(Successors(e))
             /\ From(Successors(e)) \subseteq e + 1 .. Len(ir)
  <2>1. Successors(e) \in SUBSET (1 .. Len(ir)) /\ Successors(e) \subseteq e + 1 .. Len(ir)
        /\ e \in 1 .. Len(ir)
    BY <1>1 DEF Ordered
  <2>2. \A m \in (e + 1 .. Len(ir)) \cap 1 .. Len(ir) : Successors(m) \subseteq e + 1 .. Len(ir)
    <3> SUFFICES ASSUME NEW m \in 1 .. Len(ir), m \in e + 1 .. Len(ir)
                 PROVE  Successors(m) \subseteq e + 1 .. Len(ir)
      OBVIOUS
    <3>1. Successors(m) \subseteq m + 1 .. Len(ir)
      BY <1>1 DEF Ordered
    <3>2. m + 1 .. Len(ir) \subseteq e + 1 .. Len(ir)
      BY <1>1, <2>1
    <3> QED BY <3>1, <3>2
  <2> DEFINE start == Successors(e)
             T == e + 1 .. Len(ir)
  <2>3. /\ start \subseteq From(start)
        /\ \A m \in From(start) : Successors(m) \subseteq From(start)
        /\ \A U : start \subseteq U /\ (\A m \in U \cap 1 .. Len(ir) : Successors(m) \subseteq U)
                => From(start) \subseteq U
    BY <1>1, <2>1 DEF FromIsLeast
  <2>4. start \subseteq T /\ \A m \in T \cap 1 .. Len(ir) : Successors(m) \subseteq T
    BY <2>1, <2>2
  <2> HIDE DEF start, T
  <2>5. From(start) \subseteq T
    BY <2>3, <2>4
  <2> QED BY <2>3, <2>5 DEF start, T
<1>3. Over(p) \subseteq Over(c)
  BY <1>2 DEF Over
<1>4. ir[p].kind = "ConditionalElse" => p \in Over(c)
  BY <1>2 DEF Over
<1>5. p \notin Over(p)
  <2>1. p \notin p + 1 .. Len(ir)
    BY <1>1
  <2> QED BY <1>2, <2>1 DEF Over
<1>6. IsFiniteSet(Over(c))
  <2>1. IsFiniteSet(1 .. Len(ir))
    BY <1>1, FS_Interval
  <2>2. Over(c) \subseteq 1 .. Len(ir)
    BY <1>1 DEF Over
  <2> QED BY <2>1, <2>2, FS_Subset
<1> QED BY <1>3, <1>4, <1>5, <1>6 DEF Over, ElsesAbove

(* No visitor visits a node twice, but the FIRRTL backend, at most twice   *)
(* for every else the node is below: however deep conditionals are nested. *)
THEOREM VisitedOnceCorrect == Spec => []VisitedOnce
<1>1. Init => VisitsBounded
  BY DEF Init, VisitsBounded
<1>2. Inv /\ VisitsBounded /\ [Next]_vars => VisitsBounded'
  BY BoundedKept
<1>3. Inv /\ VisitsBounded => VisitedOnce
  <2> SUFFICES ASSUME Inv, VisitsBounded, status = "done"
               PROVE  \A n \in Reachable :
                        Count(n) <= (IF visitor = "FIRRTL" THEN 2 ^ ElsesAbove(n) ELSE 1)
    BY DEF VisitedOnce
  <2>1. /\ TreeShape /\ RunShape /\ agenda = <<>>
    BY DEF Inv, ChildrenFollow
  <2>2. ASSUME NEW c, NEW b, Most(c, b)
        PROVE  Count(c) <= b
    <3>1. PICK k \in Nat : k <= b /\ Climbs({Call(c)}, {}, <<>>, Count(c), k)
      BY <2>1, <2>2 DEF Most
    <3>2. Count(c) = k
      BY <3>1, ClimbsNothing
    <3> QED BY <3>1, <3>2
  <2>3. \A n : Count(n) \in Nat
    BY <2>1, CountType
  <2>4. /\ Count(1) <= 1
        /\ \A p \in Reachable : \A c \in Successors(p) :
             Count(c) <= Follow(visitor, ir[p].kind) * Count(p)
    BY <2>2 DEF VisitsBounded
  <2> DEFINE Bound(n) == IF visitor = "FIRRTL" THEN 2 ^ ElsesAbove(n) ELSE 1
             T == {n \in Reachable : Count(n) <= Bound(n)}
  <2>5. 1 \in T
    <3>1. 1 \in Reachable /\ IsFiniteSet(Over(1)) /\ Cardinality(Over(1)) = ElsesAbove(1)
      <4>1. IsFiniteSet(1 .. Len(ir))
        BY <2>1, FS_Interval DEF TreeShape
      <4>2. Over(1) \subseteq 1 .. Len(ir) /\ 1 \in Reachable
        BY <2>1, ReachableFacts DEF Over
      <4> QED BY <4>1, <4>2, FS_Subset DEF Over, ElsesAbove
    <3>2. 2 ^ ElsesAbove(1) \in Nat \ {0}
      BY <3>1, SubsetsGrow
    <3> QED BY <2>3, <2>4, <3>1, <3>2
  <2>6. ASSUME NEW p \in T, NEW c \in Successors(p)
        PROVE  c \in T
    <3>1. /\ p \in Reachable /\ c \in Reachable /\ Count(p) \in Nat /\ Count(c) \in Nat
          /\ Count(p) <= Bound(p)
          /\ Count(c) <= Follow(visitor, ir[p].kind) * Count(p)
      BY <2>1, <2>3, <2>4, <2>6, ReachableFacts
    <3>2. /\ Over(p) \subseteq Over(c)
          /\ ir[p].kind = "ConditionalElse" => p \in Over(c)
          /\ p \notin Over(p)
          /\ IsFiniteSet(Over(c))
          /\ Cardinality(Over(p)) = ElsesAbove(p) /\ Cardinality(Over(c)) = ElsesAbove(c)
      BY <2>1, <2>6, <3>1, OverGrows
    <3>3. CASE visitor # "FIRRTL"
      BY <3>1, <3>3 DEF Follow
    <3>4. CASE visitor = "FIRRTL" /\ ir[p].kind # "ConditionalElse"
      <4>1. /\ 2 ^ ElsesAbove(p) <= 2 ^ ElsesAbove(c)
            /\ 2 ^ ElsesAbove(p) \in Nat /\ 2 ^ ElsesAbove(c) \in Nat
        BY <3>2, SubsetsGrow
      <4>2. Follow(visitor, ir[p].kind) = 1
        BY <3>4 DEF Follow
      <4> QED BY <3>1, <3>4, <4>1, <4>2
    <3>5. CASE visitor = "FIRRTL" /\ ir[p].kind = "ConditionalElse"
      <4>1. /\ 2 * (2 ^ ElsesAbove(p)) <= 2 ^ ElsesAbove(c)
            /\ 2 ^ ElsesAbove(p) \in Nat /\ 2 ^ ElsesAbove(c) \in Nat
        <5>1. Over(p) \cup {p} \subseteq Over(c)
          BY <3>2, <3>5
        <5> QED BY <3>2, <5>1, SubsetsDouble
      <4>2. Follow(visitor, ir[p].kind) = 2
        BY <3>5 DEF Follow
      <4> QED BY <3>1, <3>5, <4>1, <4>2
    <3> QED BY <3>3, <3>4, <3>5
  <2>7. Reachable \subseteq T
    <3> HIDE DEF T
    <3>1. \A p \in T \cap 1 .. Len(ir) : Successors(p) \subseteq T
      BY <2>6
    <3> QED BY <2>1, <2>5, <3>1, ReachableFacts
  <2> QED BY <2>7
<1> QED BY <1>1, <1>2, <1>3, InvHolds, PTL DEF Spec

-----------------------------------------------------------------------------
(***************************************************************************)
(* The graph of the dot backend, for trees of any size and whatever order  *)
(* the nodes are visited in.                                               *)
(*                                                                         *)
(* Edges are printed with the numbers of their nodes: the dictionary has   *)
(* every node that was drawn, with the place it was last drawn at; it may  *)
(* have others, with 0, but no edge begins at one.                         *)
(*                                                                         *)
(* What is drawn is the tree: DotInv says that what was visited was drawn  *)
(* with all its edges, that what an edge leads to is drawn or will be, and *)
(* that nothing is drawn after the edges are printed, which is done while  *)
(* the circuit is left (DotPhase). As no node is in two places of the tree *)
(* (OnePlace) there are as many edges as pairs of nodes in it.             *)
(***************************************************************************)

Numbered ==
  /\ ToSet(mNodes) \subseteq DOMAIN mNodeDictionary
  /\ \A p \in DOMAIN mNodeDictionary :
       IF p \in ToSet(mNodes) THEN Names(mNodeDictionary[p], p)
                              ELSE mNodeDictionary[p] = 0

GraphInv ==
  /\ mNodes \in Seq(ToSet(mNodes))
  /\ Numbered
  /\ \A e \in mEdges : e.from \in ToSet(mNodes)

(* The edges of a node begin at it.                                        *)
LEMMA EdgesBegin ==
  ASSUME NEW n, NEW e \in EdgesOf(n)
  PROVE  e.from = n
<1>1. PICK pointer : e \in Links(n, pointer)
  BY DEF EdgesOf
<1>2. PICK i, to : e = Edge(n, pointer, i, to)
  BY <1>1 DEF Links
<1>3. QED
  BY <1>2 DEF Edge

(* Drawing a node.                                                         *)
LEMMA DrawKeeps ==
  ASSUME GraphInv, visit
  PROVE  GraphInv'
<1> DEFINE n == Head(agenda).at
<1>1. CASE UNCHANGED graph
  BY <1>1 DEF GraphInv, Numbered, Names, graph
<1>2. CASE addNode(n) /\ mEdges' = mEdges \cup EdgesOf(n)
  <2>1. /\ mNodes' = Append(mNodes, n)
        /\ mNodeDictionary' = [m \in DOMAIN mNodeDictionary \cup {n} |->
                                 IF m = n THEN Len(mNodes) ELSE mNodeDictionary[m]]
    BY <1>2 DEF addNode
  <2>2. mNodes \in Seq(ToSet(mNodes))
    BY DEF GraphInv
  <2> HIDE DEF n
  <2>3. /\ mNodes' \in Seq(ToSet(mNodes'))
        /\ ToSet(mNodes') = ToSet(mNodes) \cup {n}
        /\ \A i \in DOMAIN mNodes : i \in DOMAIN mNodes' /\ mNodes'[i] = mNodes[i]
        /\ Len(mNodes) \in Nat
        /\ Len(mNodes) + 1 \in DOMAIN mNodes'
        /\ mNodes'[Len(mNodes) + 1] = n
    BY ONLY <2>1, <2>2, Appended
  <2>4. ToSet(mNodes') \subseteq DOMAIN mNodeDictionary'
    BY <2>1, <2>3 DEF GraphInv, Numbered
  <2>5. ASSUME NEW p \in DOMAIN mNodeDictionary'
        PROVE  IF p \in ToSet(mNodes') THEN Names(mNodeDictionary[p], p)'
                                       ELSE mNodeDictionary'[p] = 0
    <3>1. CASE p = n
      BY <3>1, <2>1, <2>3 DEF Names
    <3>2. CASE p # n
      <4>1. /\ p \in DOMAIN mNodeDictionary
            /\ mNodeDictionary'[p] = mNodeDictionary[p]
            /\ p \in ToSet(mNodes') <=> p \in ToSet(mNodes)
        BY <3>2, <2>1, <2>3
      <4>2. QED
        BY <4>1, <2>3 DEF GraphInv, Numbered, Names
    <3>3. QED
      BY <3>1, <3>2
  <2>6. ASSUME NEW e \in mEdges'
        PROVE  e.from \in ToSet(mNodes')
    <3>1. CASE e \in mEdges
      BY <3>1, <2>3 DEF GraphInv
    <3>2. CASE e \in EdgesOf(n)
      BY <3>2, <2>3, EdgesBegin
    <3>3. QED
      BY <1>2, <3>1, <3>2 DEF n
  <2>7. QED
    BY <2>3, <2>4, <2>5, <2>6 DEF GraphInv, Numbered
<1>3. QED
  BY <1>1, <1>2 DEF visit

(* Printing: a number that is asked for is the one the dictionary has, and *)
(* what it has not was not drawn.                                          *)
LEMMA PrintKeeps ==
  ASSUME GraphInv, print
  PROVE  GraphInv' /\ EdgesName'
<1>1. /\ mNodes' = mNodes /\ mEdges' = mEdges
      /\ printed' = [e \in mEdges |-> <<Number(e.from), Number(e.to)>>]
      /\ mNodeDictionary' =
           [p \in DOMAIN mNodeDictionary \cup UNION {{e.from, e.to} : e \in mEdges} |->
              Number(p)]
  BY DEF print
<1>2. ASSUME NEW p
      PROVE  IF p \in ToSet(mNodes) THEN Names(Number(p), p) ELSE Number(p) = 0
  BY DEF Number, GraphInv, Numbered
<1>3. GraphInv'
  <2>1. ToSet(mNodes) \subseteq DOMAIN mNodeDictionary'
    BY <1>1 DEF GraphInv, Numbered
  <2>2. \A p \in DOMAIN mNodeDictionary' : mNodeDictionary'[p] = Number(p)
    BY <1>1
  <2> HIDE DEF Number
  <2>3. QED
    BY <1>1, <1>2, <2>1, <2>2 DEF GraphInv, Numbered, Names
<1>4. EdgesName'
  <2>1. ASSUME NEW e \in DOMAIN printed'
        PROVE  /\ e \in mEdges
               /\ printed'[e][1] = Number(e.from)
               /\ printed'[e][2] = Number(e.to)
    BY <1>1
  <2>2. ASSUME NEW e \in mEdges
        PROVE  Names(Number(e.from), e.from)
    BY <1>2 DEF GraphInv
  <2> HIDE DEF Number
  <2>3. QED
    BY <1>1, <1>2, <2>1, <2>2 DEF EdgesName, Names
<1>5. QED
  BY <1>3, <1>4

(* Every step keeps the invariant.                                         *)
LEMMA GraphStepKeeps ==
  ASSUME GraphInv, [DotNext]_dotVars
  PROVE  GraphInv' /\ (printed' # printed => EdgesName')
<1>1. CASE UNCHANGED graph
  BY <1>1 DEF GraphInv, Numbered, Names, graph
<1>2. CASE visit
  <2>1. printed' = printed
    BY <1>2 DEF visit, graph
  <2>2. QED
    BY <1>2, <2>1, DrawKeeps
<1>3. CASE leave
  BY <1>1, <1>3, PrintKeeps DEF leave
<1>4. QED
  BY <1>1, <1>2, <1>3 DEF DotNext, DotVisit, dotVars

(* Nothing is drawn at first.                                              *)
LEMMA GraphInitHolds == DotInit => GraphInv
<1>1. ASSUME DotInit
      PROVE  mNodes = <<>> /\ mEdges = {} /\ mNodeDictionary = [n \in {} |-> 0]
  BY <1>1 DEF DotInit, GraphInit
<1>2. ToSet(<<>>) = {}
  BY DEF ToSet
<1>3. QED
  BY <1>1, <1>2 DEF GraphInv, Numbered

-----------------------------------------------------------------------------
(***************************************************************************)
(* Every edge is printed with the numbers of the nodes it was added for,   *)
(* and with 0 for a null pointer, in every step that prints.               *)
(***************************************************************************)
THEOREM EdgesNameNodesCorrect == DotSpec => EdgesNameNodes
<1>1. DotInit => GraphInv
  BY GraphInitHolds
<1>2. GraphInv /\ [DotNext]_dotVars => GraphInv' /\ (printed' # printed => EdgesName')
  BY GraphStepKeeps
<1>3. GraphInv /\ [DotNext]_dotVars => [printed' # printed => EdgesName']_dotVars
  BY <1>2
<1>4. QED
  BY <1>1, <1>2, <1>3, PTL DEF DotSpec, EdgesNameNodes

-----------------------------------------------------------------------------
(***************************************************************************)
(* The script of the dot backend.                                          *)
(***************************************************************************)
(* Edges are drawn for every pointer of the kinds that are drawn with any. *)
LEMMA LinkedTable ==
  /\ DOMAIN LinkedPointers = Linking
  /\ \A k \in Linking : LinkedPointers[k] = Pointers(k)
  /\ Linking \subseteq Drawn /\ Linking \subseteq AllKinds /\ "TypeBundle" \notin Drawn
<1>1. /\ DOMAIN LinkedPointers = {"Circuit", "Module", "ExtModule", "StmtGroup",
                                  "Connect", "Conditional", "PrimOp"}
      /\ LinkedPointers["Circuit"] = {"mExternalModules", "mInternalModules"}
      /\ LinkedPointers["Module"] = {"mPorts", "mStmts"}
      /\ LinkedPointers["ExtModule"] = {"mPorts", "mStmts"}
      /\ LinkedPointers["StmtGroup"] = {"mGroup"}
      /\ LinkedPointers["Connect"] = {"mFrom", "mTo"}
      /\ LinkedPointers["Conditional"] = {"mCond", "mThen", "mElse"}
      /\ LinkedPointers["PrimOp"] = {"mOperands"}
  BY DEF LinkedPointers
<1>2. {"mFrom", "mTo"} = {"mTo", "mFrom"}
  OBVIOUS
<1>3. Linking = {"Circuit", "StmtGroup", "Connect", "Conditional", "PrimOp",
                 "Module", "ExtModule"}
  BY DEF Linking, Modules
<1>4. Linking \subseteq Drawn /\ Linking \subseteq AllKinds /\ "TypeBundle" \notin Drawn
  BY <1>3 DEF Drawn, AllKinds, Modules, Stmts, Expressions
<1> QED BY <1>1, <1>2, <1>3, <1>4, PointersTable

(* Only the circuit is left with anything to do.                           *)
LEMMA DotLeaves ==
  ASSUME NEW k \in AllKinds, k \notin DotStops
  PROVE  LeaveScript("dot", k) = IF k = "Circuit" THEN <<"indent", "dedent">> ELSE <<>>
<1>1. DOMAIN DotLeave = {"Circuit"} /\ DotLeave["Circuit"] = <<"indent", "dedent">>
  BY DEF DotLeave
<1>2. k # "Reg"
  BY DEF DotStops
<1> QED BY <1>1, <1>2 DEF LeaveScript, Entry

(* The script at the circuit, and at the others.                           *)
LEMMA DotScripts ==
  ASSUME NEW k \in AllKinds
  PROVE  /\ k = "Circuit" => Script("dot", k) =
              <<"mExternalModules", "mInternalModules", "indent", "dedent">>
         /\ k # "Circuit" => ToSet(Script("dot", k)) \cap Marks = {}
         /\ Script("dot", k) \in Seq(Entries)
         /\ ToSet(Script("dot", k)) \subseteq Marks \cup Pointers(k)
         /\ k \in Linking => Pointers(k) \subseteq ToSet(Script("dot", k))
<1>1. "dot" \in AllVisitors /\ DotStops = {"Reg", "Connect"} /\ Stops("dot") = DotStops
  BY DEF AllVisitors, DotStops, Stops
<1>2. DOMAIN DotVisits = {"Connect"} /\ DotVisits["Connect"] = <<"mFrom", "mTo">>
  BY DEF DotVisits
<1>3. VisitScript("dot", k) = IF k = "Connect" THEN <<"mFrom", "mTo">> ELSE <<>>
  BY <1>2 DEF VisitScript, Entry
<1>4. /\ Script("dot", k) \in Seq(Entries)
      /\ ToSet(Script("dot", k)) \subseteq Marks \cup Pointers(k)
  BY <1>1, ScriptFollows DEF Follows
<1>5. ToSet(<<>>) = {} /\ <<>> \in Seq(Entries)
  BY Tuples
<1>6. CASE k = "Connect"
  <2>1. Script("dot", k) = <<"mFrom", "mTo">> \o <<>>
    BY <1>1, <1>3, <1>6 DEF Script
  <2>2. <<"mFrom", "mTo">> \in Seq(Entries)
        /\ ToSet(<<"mFrom", "mTo">>) = {"mFrom", "mTo"}
    BY DEF Entries, ToSet
  <2>3. Script("dot", k) = <<"mFrom", "mTo">>
    BY <2>1, <2>2, ConcatEmptySeq
  <2>4. {"mFrom", "mTo"} \cap Marks = {}
    BY DEF Marks
  <2> QED BY <1>4, <1>6, <2>2, <2>3, <2>4, PointersTable
<1>7. CASE k # "Connect" /\ k # "TypeBundle" /\ k \in DOMAIN AcceptOrder /\ k # "Reg"
  <2>1. k \notin DotStops
    BY <1>1, <1>7
  <2>2. /\ AcceptOrder[k] \in Seq(Entries)
        /\ ToSet(AcceptOrder[k]) \cap Marks = {}
        /\ ToSet(AcceptOrder[k]) = Pointers(k)
    BY <1>7, AcceptEntries
  <2> DEFINE order == AcceptOrder[k]
             left == LeaveScript("dot", k)
  <2>3. Script("dot", k) = <<>> \o (order \o left)
    BY <1>1, <1>3, <1>7, <2>1 DEF Script
  <2>4. left \in Seq(Entries)
    BY <1>1, LeaveMarks
  <2>5. order \in Seq(Entries)
    BY <2>2
  <2> HIDE DEF order, left
  <2>6. order \o left \in Seq(Entries)
    BY <2>4, <2>5, ConcatProperties
  <2>7. Script("dot", k) = order \o left
    BY <2>3, <2>6, ConcatEmptySeq
  <2>8. CASE k = "Circuit"
    <3>1. order = <<"mExternalModules", "mInternalModules">>
      BY <2>8, AcceptTable DEF order
    <3>2. left = <<"indent", "dedent">>
      BY <2>1, <2>8, DotLeaves DEF left
    <3>3. Script("dot", k) = <<"mExternalModules", "mInternalModules">> \o <<"indent", "dedent">>
      BY <2>7, <3>1, <3>2
    <3>4. Script("dot", k) = <<"mExternalModules", "mInternalModules", "indent", "dedent">>
      BY ONLY <3>3
    <3>5. ToSet(<<"mExternalModules", "mInternalModules", "indent", "dedent">>)
            = {"mExternalModules", "mInternalModules", "indent", "dedent"}
      BY DEF ToSet
    <3> QED BY <1>4, <2>8, <3>4, <3>5, PointersTable
  <2>9. CASE k # "Circuit"
    <3>1. left = <<>>
      BY <2>1, <2>9, DotLeaves DEF left
    <3>2. Script("dot", k) = order
      BY <2>5, <2>7, <3>1, ConcatEmptySeq
    <3> QED BY <1>4, <2>2, <2>9, <3>2 DEF order
  <2> QED BY <2>8, <2>9
<1>8. CASE k # "Connect" /\ ~ (k # "TypeBundle" /\ k \in DOMAIN AcceptOrder /\ k # "Reg")
  <2>1. k \in {"Reg", "TypeBundle"} \/ k \notin DOMAIN AcceptOrder
    BY <1>8
  <2>2. Script("dot", k) = <<>> \/ Script("dot", k) = <<>> \o <<>>
    BY <1>1, <1>3, <1>8 DEF Script
  <2>3. Script("dot", k) = <<>>
    BY <1>5, <2>2, ConcatEmptySeq
  <2>4. k \notin Linking /\ k # "Circuit"
    BY <2>1, AcceptDomain DEF Linking, Modules
  <2> QED BY <1>4, <1>5, <2>3, <2>4
<1> QED BY <1>6, <1>7, <1>8

-----------------------------------------------------------------------------
(***************************************************************************)
(* What a visit of the dot backend leaves to do.                           *)
(***************************************************************************)
(* Calls at a null pointer or below the circuit.                           *)
Below == [do : {"accept"}, at : {c \in Reachable : ir[c].kind # "Circuit"} \cup {NULL}]

Mark(do) == [do |-> do, at |-> 1]

(* Leaving the circuit prints the edges in a block.                        *)
Leaving == <<Mark("indent"), Mark("dedent")>>

(* The pointers that are given an edge also where they are null.           *)
Always(f) == f \notin Lists \cup {"mElse", "mStmts"}

(* A pointer calls what it leads to, and a null pointer if it is followed  *)
(* without being asked for.                                                *)
LEMMA DotItems ==
  ASSUME TreeShape, visitor = "dot", NEW n \in Reachable, NEW f \in Pointers(ir[n].kind)
  PROVE  /\ Items(n, f) \in Seq(Below)
         /\ ir[n].kind \in Linking =>
              /\ \A c \in ToSet(Target(n, f)) : Call(c) \in ToSet(Items(n, f))
              /\ Target(n, f) = <<>> /\ Always(f) => Call(NULL) \in ToSet(Items(n, f))
<1> DEFINE hit == \E field \in Asked(visitor, ir[n].kind, f) : Target(n, field) = <<>>
           null == Target(n, f) = <<>> /\ f \notin Lists
           calls == [i \in 1 .. Len(Target(n, f)) |-> Call(Target(n, f)[i])]
<1>1. /\ n \in 1 .. Len(ir) /\ ir[n].kind \in AllKinds
      /\ Pointers(ir[n].kind) \cap Marks = {}
  BY ReachableFacts, NoMarks
<1>2. /\ hit => Items(n, f) = <<>>
      /\ ~ hit /\ null => Items(n, f) = <<Call(NULL)>>
      /\ ~ hit /\ ~ null => Items(n, f) = calls
  BY <1>1 DEF Items, Marks
<1>3. PointsWell(n, f) /\ Target(n, f) \in Seq(n + 1 .. Len(ir))
  BY <1>1 DEF TreeShape, PointsWell
<1>4. /\ DOMAIN Target(n, f) = 1 .. Len(Target(n, f)) /\ Len(Target(n, f)) \in Nat
      /\ ToSet(Target(n, f)) \subseteq Reachable
  <2>1. ToSet(Target(n, f)) \subseteq Successors(n)
    BY DEF Successors
  <2> QED BY <1>3, <2>1, ReachableFacts
<1>5. \A c \in ToSet(Target(n, f)) : Call(c) \in Below
  <2>1. ASSUME NEW c \in ToSet(Target(n, f))
        PROVE  ir[c].kind # "Circuit"
    <3>1. ir[c].kind \in Pointee(f)
      BY <1>3 DEF PointsWell
    <3> QED BY <3>1 DEF Pointee, Types, Stmts, Expressions
  <2> QED BY <1>4, <2>1 DEF Below, Call
<1>6. calls \in Seq(Below) /\ ToSet(calls) = {Call(c) : c \in ToSet(Target(n, f))}
  <2>1. \A i \in 1 .. Len(Target(n, f)) : Call(Target(n, f)[i]) \in Below
    BY <1>4, <1>5 DEF ToSet
  <2> QED BY <1>4, <2>1 DEF ToSet
<1>7. Call(NULL) \in Below
  BY DEF Call, Below
<1>8. /\ <<>> \in Seq(Below) /\ ToSet(<<>>) = {}
      /\ \A p \in Below : <<p>> \in Seq(Below) /\ ToSet(<<p>>) = {p}
  BY Tuples
<1>9. ir[n].kind \in Linking /\ hit => Target(n, f) = <<>> /\ ~ Always(f)
  <2>1. ir[n].kind \in Linking =>
          \A field \in Asked(visitor, ir[n].kind, f) : field = f /\ f \in {"mElse", "mStmts"}
    BY DEF Asked, Linking, Modules
  <2> QED BY <2>1 DEF Always
<1>10. Always(f) => f \notin Lists
  BY DEF Always
<1> HIDE DEF calls, hit, Always
<1>11. CASE hit
  BY <1>2, <1>8, <1>9, <1>11
<1>12. CASE ~ hit /\ null
  <2>1. Items(n, f) \in Seq(Below) /\ ToSet(Items(n, f)) = {Call(NULL)}
    BY <1>2, <1>7, <1>8, <1>12
  <2>2. ToSet(Target(n, f)) = {}
    BY <1>8, <1>12
  <2> QED BY <2>1, <2>2
<1>13. CASE ~ hit /\ ~ null
  BY <1>2, <1>6, <1>10, <1>13
<1> QED BY <1>11, <1>12, <1>13

(* What a visit leaves to do has what its node leads to.                   *)
LinksCalled(n) ==
  ir[n].kind \in Linking =>
    \A f \in Pointers(ir[n].kind) :
      /\ \A c \in ToSet(Target(n, f)) : Call(c) \in ToSet(Calls(n))
      /\ Target(n, f) = <<>> /\ Always(f) => Call(NULL) \in ToSet(Calls(n))

(* Below the circuit a visit leaves nothing but calls, also below it.      *)
LEMMA DotCalls ==
  ASSUME TreeShape, visitor = "dot", NEW n \in Reachable
  PROVE  /\ ir[n].kind # "Circuit" => Calls(n) \in Seq(Below)
         /\ LinksCalled(n)
<1> DEFINE script == Script(visitor, ir[n].kind)
           seqs == [i \in 1 .. Len(script) |-> Items(n, script[i])]
<1>1. ir[n].kind \in AllKinds /\ visitor \in AllVisitors
  BY ReachableFacts DEF AllVisitors
<1>2. /\ script \in Seq(Entries)
      /\ ToSet(script) \subseteq Marks \cup Pointers(ir[n].kind)
      /\ ir[n].kind # "Circuit" => ToSet(script) \cap Marks = {}
      /\ ir[n].kind \in Linking => Pointers(ir[n].kind) \subseteq ToSet(script)
  BY <1>1, DotScripts
<1>3. Calls(n) = FlattenSeq(seqs)
  BY DEF Calls
<1> HIDE DEF script
<1>4. /\ Len(script) \in Nat /\ DOMAIN script = 1 .. Len(script)
      /\ \A i \in 1 .. Len(script) : script[i] \in ToSet(script)
  BY <1>2 DEF ToSet
<1>5. ASSUME ir[n].kind # "Circuit"
      PROVE  Calls(n) \in Seq(Below)
  <2>1. \A i \in 1 .. Len(script) : Items(n, script[i]) \in Seq(Below)
    BY <1>2, <1>4, <1>5, DotItems
  <2>2. seqs \in Seq(Seq(Below))
    BY <1>4, <2>1
  <2> HIDE DEF seqs
  <2> QED BY <1>3, <2>2, FlattenHas
<1>6. ASSUME NEW f \in ToSet(script), NEW p \in ToSet(Items(n, f))
      PROVE  p \in ToSet(Calls(n))
  <2>1. PICK i \in 1 .. Len(script) : script[i] = f
    BY <1>4 DEF ToSet
  <2>2. \A j \in 1 .. Len(script) : Items(n, script[j]) \in Seq(Pending)
    BY <1>1, <1>2, <1>4, ItemsFacts
  <2>3. /\ seqs \in Seq(Seq(Pending)) /\ Len(seqs) = Len(script)
        /\ seqs[i] = Items(n, f)
    BY <1>4, <2>1, <2>2
  <2> HIDE DEF seqs
  <2>4. ToSet(Calls(n)) = UNION {ToSet(seqs[j]) : j \in 1 .. Len(seqs)}
    BY <1>3, <2>3, FlattenHas
  <2> QED BY <1>6, <2>3, <2>4
<1>7. LinksCalled(n)
  <2> SUFFICES ASSUME ir[n].kind \in Linking, NEW f \in Pointers(ir[n].kind)
               PROVE  /\ \A c \in ToSet(Target(n, f)) : Call(c) \in ToSet(Calls(n))
                      /\ Target(n, f) = <<>> /\ Always(f) => Call(NULL) \in ToSet(Calls(n))
    BY DEF LinksCalled
  <2>1. /\ \A c \in ToSet(Target(n, f)) : Call(c) \in ToSet(Items(n, f))
        /\ Target(n, f) = <<>> /\ Always(f) => Call(NULL) \in ToSet(Items(n, f))
    BY DotItems
  <2>2. f \in ToSet(script)
    BY <1>2
  <2> QED BY <1>6, <2>1, <2>2
<1> QED BY <1>5, <1>7

(* At the circuit it leaves calls, and after them the leaving.             *)
LEMMA CircuitCalls ==
  ASSUME TreeShape, visitor = "dot"
  PROVE  \E s \in Seq(Below) : Calls(1) = s \o Leaving
<1> DEFINE a == Items(1, "mExternalModules")
           b == Items(1, "mInternalModules")
           S == Below \cup {Mark("indent"), Mark("dedent")}
           seqs == <<a, b, <<Mark("indent")>>, <<Mark("dedent")>> >>
<1>1. 1 \in Reachable /\ ir[1].kind = "Circuit"
  BY ReachableFacts DEF TreeShape
<1>2. Script("dot", "Circuit") = <<"mExternalModules", "mInternalModules", "indent", "dedent">>
  BY DotScripts DEF AllKinds
<1>3. Items(1, "indent") = <<Mark("indent")>> /\ Items(1, "dedent") = <<Mark("dedent")>>
  BY DEF Items, Mark
<1>4. Calls(1) = FlattenSeq(seqs)
  <2> DEFINE script == <<"mExternalModules", "mInternalModules", "indent", "dedent">>
  <2>1. [i \in 1 .. Len(script) |-> Items(1, script[i])]
          = <<Items(1, "mExternalModules"), Items(1, "mInternalModules"),
              Items(1, "indent"), Items(1, "dedent")>>
    OBVIOUS
  <2>2. Calls(1) = FlattenSeq([i \in 1 .. Len(script) |-> Items(1, script[i])])
    BY <1>1, <1>2 DEF Calls
  <2> QED BY <1>3, <2>1, <2>2
<1>5. a \in Seq(Below) /\ b \in Seq(Below)
  <2>1. {"mExternalModules", "mInternalModules"} = Pointers(ir[1].kind)
    BY <1>1, PointersTable
  <2> QED BY <1>1, <2>1, DotItems
<1>6. /\ a \in Seq(S) /\ b \in Seq(S)
      /\ <<Mark("indent")>> \in Seq(S) /\ <<Mark("dedent")>> \in Seq(S)
      /\ Leaving = <<Mark("indent")>> \o <<Mark("dedent")>>
  BY <1>5 DEF Leaving
<1> HIDE DEF a, b, S
<1> DEFINE i == <<Mark("indent")>>
           d == <<Mark("dedent")>>
<1>7. /\ i \in Seq(S) /\ d \in Seq(S) /\ Leaving = i \o d
      /\ seqs = <<a, b, i, d>>
  BY <1>6
<1> HIDE DEF i, d
<1>8. seqs \in Seq(Seq(S)) /\ Len(seqs) = 4
      /\ seqs[1] = a /\ seqs[2] = b /\ seqs[3] = i /\ seqs[4] = d
  BY <1>6, <1>7
<1> HIDE DEF seqs
<1>9. PICK f \in [0 .. Len(seqs) -> Seq(S)] :
         Flattens(seqs, f) /\ FlattenSeq(seqs) = f[Len(seqs)]
  BY <1>8, FlattenJoins
<1>10. f[0] = <<>> /\ f[1] = f[0] \o a /\ f[2] = f[1] \o b /\ f[3] = f[2] \o i
       /\ f[4] = f[3] \o d
  <2>1. f[0] = <<>> /\ \A m \in 1 .. Len(seqs) : f[m] = f[m - 1] \o seqs[m]
    BY <1>9 DEF Flattens
  <2>2. 1 - 1 = 0 /\ 2 - 1 = 1 /\ 3 - 1 = 2 /\ 4 - 1 = 3
    OBVIOUS
  <2>3. 1 \in 1 .. Len(seqs) /\ 2 \in 1 .. Len(seqs) /\ 3 \in 1 .. Len(seqs)
        /\ 4 \in 1 .. Len(seqs)
    BY <1>8
  <2>4. /\ f[1] = f[1 - 1] \o seqs[1] /\ f[2] = f[2 - 1] \o seqs[2]
        /\ f[3] = f[3 - 1] \o seqs[3] /\ f[4] = f[4 - 1] \o seqs[4]
    BY ONLY <2>1, <2>3, Zenon
  <2> QED BY <1>8, <2>1, <2>2, <2>4
<1>11. f[1] = a
  BY <1>6, <1>10, ConcatEmptySeq
<1> DEFINE ab == a \o b
<1>12. ab \in Seq(Below) /\ ab \in Seq(S)
  BY <1>5, <1>6, ConcatProperties
<1>13. f[4] = (ab \o i) \o d
  BY <1>10, <1>11
<1> HIDE DEF ab
<1>14. (ab \o i) \o d = ab \o (i \o d)
  <2>1. ab \in Seq(S) /\ i \in Seq(S) /\ d \in Seq(S)
    BY <1>7, <1>12
  <2> QED BY ONLY <2>1, ConcatAssociative
<1> QED BY <1>4, <1>7, <1>8, <1>9, <1>12, <1>13, <1>14

-----------------------------------------------------------------------------
(***************************************************************************)
(* The inductive invariant: what was drawn, and how far the drawing is.    *)
(***************************************************************************)
(* The dot backend has begun.                                              *)
Draws == status # "building" /\ visitor = "dot"

(* What was visited was drawn, with all its edges, the circuit first.      *)
DrawnWell ==
  /\ status = "building" => mNodes = <<>> /\ mEdges = {}
  /\ Draws =>
       /\ ToSet(mNodes) = {n \in ToSet(visited) : ir[n].kind \in Drawn}
       /\ mEdges = UNION {EdgesOf(n) : n \in ToSet(mNodes)}
       /\ mNodes # <<>> => mNodes[1] = 1

(* What an edge leads to will be drawn, if it was not, and an edge to a    *)
(* null pointer is one that a module has or one that ends the run.         *)
LinkFollows(n, f) ==
  /\ \A c \in ToSet(Target(n, f)) : Seen(c) \/ Awaited(c)
  /\ Target(n, f) = <<>> /\ Always(f) => Awaited(NULL)

LinksFollow ==
  Draws => \A n \in ToSet(visited) : ir[n].kind \in Linking =>
             \A f \in Pointers(ir[n].kind) : LinkFollows(n, f)

(* The edges are all printed, with the numbers of their nodes.             *)
Printed == DOMAIN printed = mEdges /\ EdgesName

(* Nothing is drawn after the edges are printed.                           *)
Begins == agenda = <<Call(1)>> /\ visited = <<>>

Draw(s) == s \in Seq(Below) /\ agenda = s \o Leaving /\ Seen(1)

Ends == agenda \in {<<Mark("dedent")>>, <<>>} /\ Printed

DotPhase == Draws => Begins \/ (\E s : Draw(s)) \/ Ends

DotInv == DrawnWell /\ LinksFollow /\ DotPhase

(* What is done first in each of them.                                     *)
LEMMA PhaseHead ==
  ASSUME TreeShape, DotPhase, Draws, agenda # <<>>
  PROVE  \/ /\ agenda = <<Call(1)>> /\ visited = <<>> /\ Head(agenda) = Call(1)
            /\ Tail(agenda) = <<>>
         \/ \E s \in Seq(Below) :
              /\ Head(agenda) \in Below /\ Tail(agenda) = s \o Leaving /\ Seen(1)
         \/ /\ Head(agenda) = Mark("indent") /\ Tail(agenda) = <<Mark("dedent")>> /\ Seen(1)
         \/ Head(agenda) = Mark("dedent") /\ Tail(agenda) = <<>> /\ Printed
<1>1. CASE Begins
  BY <1>1 DEF Begins
<1>2. ASSUME NEW s, Draw(s)
      PROVE  \/ \E t \in Seq(Below) :
                  Head(agenda) \in Below /\ Tail(agenda) = t \o Leaving /\ Seen(1)
             \/ /\ Head(agenda) = Mark("indent") /\ Tail(agenda) = <<Mark("dedent")>> /\ Seen(1)
  <2> DEFINE S == Below \cup {Mark("indent"), Mark("dedent")}
             B == Below
             L == Leaving
  <2>1. s \in Seq(B) /\ s \in Seq(S) /\ L \in Seq(S) /\ agenda = s \o L /\ Seen(1)
    BY <1>2 DEF Draw, Leaving
  <2>2. L = <<Mark("indent"), Mark("dedent")>>
    BY DEF Leaving
  <2>3. Head(L) = Mark("indent") /\ Tail(L) = <<Mark("dedent")>>
    BY <2>2
  <2> HIDE DEF S, B, L
  <2>4. CASE s = <<>>
    <3>1. agenda = L
      BY <2>1, <2>4, ConcatEmptySeq
    <3> QED BY <2>1, <2>3, <3>1
  <2>5. CASE s # <<>>
    <3>1. Head(agenda) = Head(s) /\ Tail(agenda) = Tail(s) \o L
      BY <2>1, <2>5, TailConcat
    <3>2. Head(s) \in B /\ Tail(s) \in Seq(B)
      BY <2>1, <2>5, HeadTailProperties
    <3> QED BY <2>1, <3>1, <3>2 DEF B, L
  <2> QED BY <2>4, <2>5
<1>3. CASE Ends
  <2>1. agenda = <<Mark("dedent")>> /\ Printed
    BY <1>3 DEF Ends
  <2>2. Head(agenda) = Mark("dedent") /\ Tail(agenda) = <<>>
    BY <2>1
  <2> QED BY <2>1, <2>2
<1> QED BY <1>1, <1>2, <1>3 DEF DotPhase

(* The edges of a node are those of the tree it is in.                     *)
LEMMA EdgesSame ==
  ASSUME ir' = ir, NEW n
  PROVE  EdgesOf(n)' = EdgesOf(n)
BY DEF EdgesOf, Links, Given, Target

(* A visit draws its node.                                                 *)
LEMMA VisitDraws ==
  ASSUME Inv, GraphInv, DotInv, visit
  PROVE  DotInv'
<1>1. /\ TreeShape /\ RunShape /\ Accept /\ status = "running" /\ status' = status
      /\ visitor' = visitor /\ agenda # <<>> /\ Head(agenda).do = "accept"
  BY DEF Inv, visit, Accept, Due
<1>2. CASE visitor # "dot"
  BY <1>1, <1>2 DEF DotInv, DrawnWell, LinksFollow, DotPhase, Draws
<1>3. CASE visitor = "dot"
  <2>1. Draws /\ Draws'
    BY <1>1, <1>3 DEF Draws
  <2>2. ir' = ir
    BY <1>1, <1>3 DEF Accept
  <2>3. PICK n \in Reachable :
           /\ Head(agenda) = Call(n)
           /\ ToSet(agenda) = {Call(n)} \cup ToSet(Tail(agenda))
           /\ agenda' = Calls(n) \o Tail(agenda)
           /\ ToSet(agenda') = ToSet(Calls(n)) \cup ToSet(Tail(agenda))
           /\ ToSet(visited') = ToSet(visited) \cup
                                (IF ir[n].kind = "TypeBundle" THEN {} ELSE {n})
    BY <1>1, AcceptFacts
  <2>4. /\ Reachable' = Reachable /\ Below' = Below
        /\ \A m : EdgesOf(m)' = EdgesOf(m)
    BY <2>2, EdgesSame DEF Reachable, From, Successors, Target, Below
  <2>5. /\ ir[n].kind # "Circuit" => Calls(n) \in Seq(Below)
        /\ LinksCalled(n)
    BY <1>1, <1>3, DotCalls
  <2>6. n # NULL /\ n \in 1 .. Len(ir) /\ ir[1].kind = "Circuit"
    BY <1>1, ReachableFacts DEF TreeShape
  <2>7. \A c, d : Call(c) = Call(d) => c = d
    BY DEF Call
(* What is done next.                                                      *)
  <2>8. \/ agenda = <<Call(1)>> /\ visited = <<>> /\ n = 1 /\ Tail(agenda) = <<>>
        \/ \E s \in Seq(Below) :
             ir[n].kind # "Circuit" /\ Tail(agenda) = s \o Leaving /\ Seen(1)
    <3>1. Mark("indent").do # "accept" /\ Mark("dedent").do # "accept"
      BY DEF Mark
    <3>2. Call(n) \in Below => ir[n].kind # "Circuit"
      BY <2>6 DEF Call, Below
    <3> QED BY <1>1, <2>1, <2>3, <2>7, <3>1, <3>2, PhaseHead DEF DotInv
  <2>9. DotPhase'
    <3>1. CASE agenda = <<Call(1)>> /\ visited = <<>> /\ n = 1 /\ Tail(agenda) = <<>>
      <4>1. PICK s \in Seq(Below) : Calls(1) = s \o Leaving
        BY <1>1, <1>3, CircuitCalls
      <4>2. Calls(1) \in Seq(Pending)
        BY <1>1, <2>3, <3>1, CallsFacts DEF RunShape
      <4>3. agenda' = Calls(1)
        <5> DEFINE P == Pending
                   c == Calls(1)
        <5>1. c \in Seq(P) /\ agenda' = c \o <<>>
          BY <2>3, <3>1, <4>2
        <5> HIDE DEF P, c
        <5>2. agenda' = c
          BY <5>1, ConcatEmptySeq
        <5> QED BY <5>2 DEF c
      <4>4. Seen(1)'
        BY <2>3, <2>6, <3>1 DEF Seen
      <4>5. Leaving' = Leaving
        BY DEF Leaving, Mark
      <4>6. Draw(s)'
        BY <2>4, <4>1, <4>3, <4>4, <4>5 DEF Draw
      <4> QED BY <4>6 DEF DotPhase
    <3>2. ASSUME NEW s \in Seq(Below), ir[n].kind # "Circuit", Tail(agenda) = s \o Leaving,
                 Seen(1)
          PROVE  DotPhase'
      <4> DEFINE S == Below \cup {Mark("indent"), Mark("dedent")}
                 B == Below
                 L == Leaving
                 c == Calls(n)
      <4>1. /\ c \in Seq(B) /\ s \in Seq(B) /\ c \in Seq(S) /\ s \in Seq(S) /\ L \in Seq(S)
            /\ agenda' = c \o (s \o L)
        <5>1. L \in Seq(S)
          BY DEF Leaving
        <5>2. c \in Seq(B) /\ s \in Seq(B)
          BY <2>5, <3>2
        <5>3. agenda' = c \o (s \o L)
          BY <2>3, <3>2
        <5>4. B \subseteq S
          OBVIOUS
        <5> HIDE DEF B, S, c, L
        <5>5. c \in Seq(S) /\ s \in Seq(S)
          BY <5>2, <5>4, SeqMonotonic
        <5> QED BY <5>1, <5>2, <5>3, <5>5
      <4> HIDE DEF S, B, L, c
      <4>2. agenda' = (c \o s) \o L
        <5>1. c \in Seq(S) /\ s \in Seq(S) /\ L \in Seq(S)
          BY <4>1
        <5>2. (c \o s) \o L = c \o (s \o L)
          BY ONLY <5>1, ConcatAssociative
        <5> QED BY <4>1, <5>2
      <4>3. c \o s \in Seq(B)
        BY <4>1, ConcatProperties
      <4>4. Seen(1)'
        BY <2>3, <3>2 DEF Seen
      <4>5. Leaving' = Leaving
        BY DEF Leaving, Mark
      <4>6. PICK t : t = c \o s
        OBVIOUS
      <4>7. Draw(t)'
        BY <2>4, <4>2, <4>3, <4>4, <4>5, <4>6 DEF Draw, L, B
      <4> QED BY <4>7 DEF DotPhase
    <3> QED BY <2>8, <3>1, <3>2
(* What is drawn.                                                          *)
  <2>10. DrawnWell'
    <3>1. /\ ToSet(mNodes) = {m \in ToSet(visited) : ir[m].kind \in Drawn}
          /\ mEdges = UNION {EdgesOf(m) : m \in ToSet(mNodes)}
          /\ mNodes # <<>> => mNodes[1] = 1
      BY <2>1 DEF DotInv, DrawnWell
    <3>2. CASE ir[n].kind \notin Drawn
      <4>1. mNodes' = mNodes /\ mEdges' = mEdges
        BY <1>3, <2>3, <3>2 DEF visit, graph, Call
      <4>2. ToSet(mNodes') = {m \in ToSet(visited') : ir'[m].kind \in Drawn}
        BY <2>2, <2>3, <3>1, <3>2, <4>1
      <4> QED BY <1>1, <2>1, <2>4, <3>1, <4>1, <4>2 DEF DrawnWell
    <3>3. CASE ir[n].kind \in Drawn
      <4>1. mNodes' = Append(mNodes, n) /\ mEdges' = mEdges \cup EdgesOf(n)
        BY <1>3, <2>3, <3>3 DEF visit, addNode, Call
      <4>2. /\ ToSet(mNodes') = ToSet(mNodes) \cup {n}
            /\ \A i \in DOMAIN mNodes : mNodes'[i] = mNodes[i]
            /\ mNodes'[Len(mNodes) + 1] = n
            /\ mNodes \in Seq(ToSet(mNodes))
        BY <4>1, Appended DEF GraphInv
      <4>3. ir[n].kind # "TypeBundle"
        BY <3>3, LinkedTable
      <4>4. ToSet(mNodes') = {m \in ToSet(visited') : ir'[m].kind \in Drawn}
        BY <2>2, <2>3, <3>1, <3>3, <4>2, <4>3
      <4>5. mEdges' = UNION {EdgesOf(m)' : m \in ToSet(mNodes')}
        BY <2>4, <3>1, <4>1, <4>2
      <4>6. mNodes'[1] = 1
        <5>1. CASE mNodes = <<>>
          <6>1. ToSet(mNodes) = {} /\ Len(mNodes) = 0
            BY <5>1, Tuples
          <6>2. ~ Seen(1)
            BY <2>6, <3>1, <6>1, LinkedTable DEF Seen, Linking
          <6> QED BY <2>8, <4>2, <6>1, <6>2
        <5>2. CASE mNodes # <<>>
          <6>1. 1 \in DOMAIN mNodes
            <7> DEFINE M == ToSet(mNodes)
            <7>1. mNodes \in Seq(M)
              BY <4>2
            <7> HIDE DEF M
            <7> QED BY <5>2, <7>1
          <6> QED BY <3>1, <4>2, <5>2, <6>1
        <5> QED BY <5>1, <5>2
      <4> QED BY <1>1, <4>4, <4>5, <4>6 DEF DrawnWell
    <3> QED BY <3>2, <3>3
(* What edges lead to.                                                     *)
  <2>11. ASSUME NEW c, Awaited(c), c # n
         PROVE  Awaited(c)'
    BY <2>3, <2>7, <2>11 DEF Awaited
  <2>12. ASSUME NEW c \in ToSet(Calls(n))
         PROVE  c \in ToSet(agenda')
    BY <2>3
  <2>13. LinksFollow'
    <3> SUFFICES ASSUME NEW m \in ToSet(visited'), ir[m].kind \in Linking,
                        NEW f \in Pointers(ir[m].kind)
                 PROVE  /\ \A c \in ToSet(Target(m, f)) : Seen(c)' \/ Awaited(c)'
                        /\ Target(m, f) = <<>> /\ Always(f) => Awaited(NULL)'
      BY <2>2 DEF LinksFollow, LinkFollows, Target
    <3>1. CASE m = n
      BY <2>5, <2>12, <3>1 DEF LinksCalled, Awaited, Call
    <3>2. CASE m # n
      <4>1. m \in ToSet(visited)
        BY <2>3, <3>2
      <4>2. LinkFollows(m, f)
        BY <2>1, <4>1 DEF DotInv, LinksFollow
      <4>3. ASSUME NEW c \in ToSet(Target(m, f))
            PROVE  Seen(c)' \/ Awaited(c)'
        <5>1. ir[c].kind # "TypeBundle"
          <6>1. m \in 1 .. Len(ir)
            BY <1>1, <4>1, ReachableFacts DEF RunShape, ToSet
          <6>2. ir[c].kind \in Pointee(f)
            BY <1>1, <6>1 DEF TreeShape, PointsWell
          <6>3. f \in {"mExternalModules", "mInternalModules", "mPorts", "mStmts", "mGroup",
                       "mTo", "mFrom", "mCond", "mThen", "mElse", "mOperands"}
            BY PointersTable DEF Linking, Modules
          <6> QED BY <6>2, <6>3 DEF Pointee, Stmts, Expressions
        <5>2. Seen(c) \/ Awaited(c)
          BY <4>2 DEF LinkFollows
        <5>3. Seen(c) => Seen(c)'
          BY <2>3 DEF Seen
        <5>4. c = n => Seen(c)'
          BY <2>3, <5>1 DEF Seen
        <5> QED BY <2>11, <5>2, <5>3, <5>4
      <4>4. Target(m, f) = <<>> /\ Always(f) => Awaited(NULL)'
        BY <2>6, <2>11, <4>2 DEF LinkFollows
      <4> QED BY <4>3, <4>4
    <3> QED BY <3>1, <3>2
  <2> QED BY <2>9, <2>10, <2>13 DEF DotInv
<1> QED BY <1>2, <1>3

(* Leaving the circuit: the edges are all there, and are printed.          *)
LEMMA LeaveDraws ==
  ASSUME Inv, GraphInv, DotInv, leave
  PROVE  DotInv'
<1>1. /\ TreeShape /\ RunShape /\ status = "running" /\ status' = status
      /\ agenda # <<>> /\ Head(agenda).do = "indent" /\ agenda' = Tail(agenda)
      /\ UNCHANGED <<ir, visitor, visited>>
  BY DEF Inv, leave, Indent, Due
<1>2. CASE visitor # "dot"
  BY <1>1, <1>2 DEF DotInv, DrawnWell, LinksFollow, DotPhase, Draws
<1>3. CASE visitor = "dot"
  <2>1. Draws /\ Draws' /\ print
    BY <1>1, <1>3 DEF Draws, leave
  <2>2. mNodes' = mNodes /\ mEdges' = mEdges /\ DOMAIN printed' = mEdges
    BY <2>1 DEF print
  <2>3. ToSet(agenda) = {Head(agenda)} \cup ToSet(agenda')
    BY <1>1, HeadOfAgenda
  <2>4. \A c : Awaited(c) => Awaited(c)'
    BY <1>1, <2>3 DEF Awaited, Call
  <2>5. \A m : EdgesOf(m)' = EdgesOf(m)
    BY <1>1, EdgesSame
  <2>6. DrawnWell'
    BY <1>1, <2>1, <2>2, <2>5 DEF DotInv, DrawnWell
  <2>7. LinksFollow'
    BY <1>1, <2>1, <2>4 DEF DotInv, LinksFollow, LinkFollows, Target, Seen
  <2>8. agenda' = <<Mark("dedent")>>
    <3>1. Call(1).do # "indent" /\ Mark("dedent").do # "indent"
          /\ \A x \in Below : x.do # "indent"
      BY DEF Call, Mark, Below
    <3> QED BY <1>1, <2>1, <3>1, PhaseHead DEF DotInv
  <2>9. EdgesName'
    BY <2>1, PrintKeeps
  <2>10. Ends'
    BY <2>2, <2>8, <2>9 DEF Ends, Printed, Mark
  <2> QED BY <2>6, <2>7, <2>10 DEF DotInv, DotPhase
<1> QED BY <1>2, <1>3

(* A dedent ends the block of the edges.                                   *)
LEMMA DedentDraws ==
  ASSUME Inv, DotInv, Dedent, UNCHANGED graph
  PROVE  DotInv'
<1>1. /\ TreeShape /\ RunShape /\ status = "running" /\ status' \in {"running", "threw"}
      /\ agenda # <<>> /\ Head(agenda).do = "dedent" /\ agenda' = Tail(agenda)
      /\ UNCHANGED <<ir, visitor, visited, mNodes, mEdges, printed>>
  BY DEF Inv, Dedent, Due, graph
<1>2. CASE visitor # "dot"
  BY <1>1, <1>2 DEF DotInv, DrawnWell, LinksFollow, DotPhase, Draws
<1>3. CASE visitor = "dot"
  <2>1. Draws /\ Draws'
    BY <1>1, <1>3 DEF Draws
  <2>2. ToSet(agenda) = {Head(agenda)} \cup ToSet(agenda')
    BY <1>1, HeadOfAgenda
  <2>3. \A c : Awaited(c) => Awaited(c)'
    BY <1>1, <2>2 DEF Awaited, Call
  <2>4. \A m : EdgesOf(m)' = EdgesOf(m)
    BY <1>1, EdgesSame
  <2>5. DrawnWell'
    BY <1>1, <2>1, <2>4 DEF DotInv, DrawnWell
  <2>6. LinksFollow'
    BY <1>1, <2>1, <2>3 DEF DotInv, LinksFollow, LinkFollows, Target, Seen
  <2>7. agenda' = <<>> /\ Printed
    <3>1. Call(1).do # "dedent" /\ Mark("indent").do # "dedent"
          /\ \A x \in Below : x.do # "dedent"
      BY DEF Call, Mark, Below
    <3> QED BY <1>1, <2>1, <3>1, PhaseHead DEF DotInv
  <2>8. Ends'
    BY <1>1, <2>7 DEF Ends, Printed, EdgesName, Names
  <2> QED BY <2>5, <2>6, <2>8 DEF DotInv, DotPhase
<1> QED BY <1>2, <1>3

(* The steps that do nothing but end the run.                              *)
LEMMA RestDraws ==
  ASSUME DotInv, UNCHANGED <<ir, visitor, agenda, visited, graph>>,
         status' # "building", status # "building" \/ UNCHANGED status
  PROVE  DotInv'
<1>1. /\ mNodes' = mNodes /\ mEdges' = mEdges /\ printed' = printed
      /\ ir' = ir /\ visitor' = visitor /\ agenda' = agenda /\ visited' = visited
      /\ Draws' => Draws
  BY DEF graph, Draws
<1>2. /\ Reachable' = Reachable /\ \A m : EdgesOf(m)' = EdgesOf(m)
  BY <1>1, EdgesSame DEF Reachable, From, Successors, Target
<1>3. Below' = Below /\ Leaving' = Leaving
  BY <1>1, <1>2 DEF Below, Leaving, Mark
<1>4. DrawnWell'
  BY <1>1, <1>2 DEF DotInv, DrawnWell
<1>5. LinksFollow'
  BY <1>1 DEF DotInv, LinksFollow, LinkFollows, Target, Seen, Awaited
<1>6. DotPhase'
  <2>1. Printed => Printed'
    BY <1>1 DEF Printed, EdgesName, Names
  <2>2. ASSUME NEW s, Draw(s)
        PROVE  Draw(s)'
    BY <1>1, <1>3, <2>2 DEF Draw, Seen
  <2>3. Begins => Begins'
    BY <1>1 DEF Begins
  <2>4. Ends => Ends'
    BY <1>1, <2>1 DEF Ends, Mark
  <2> QED BY <1>1, <2>2, <2>3, <2>4 DEF DotInv, DotPhase
<1> QED BY <1>4, <1>5, <1>6 DEF DotInv

(* Every step keeps it.                                                    *)
LEMMA DotStepKeeps ==
  ASSUME Inv, GraphInv, DotInv, [DotNext]_dotVars
  PROVE  DotInv'
<1>1. CASE Build /\ UNCHANGED graph
  <2>1. status = "building" /\ status' = "building" /\ mNodes' = mNodes /\ mEdges' = mEdges
    BY <1>1 DEF Build, outside, graph
  <2> QED BY <2>1 DEF DotInv, DrawnWell, LinksFollow, DotPhase, Draws
<1>2. ASSUME NEW v \in Runs, Start(v), UNCHANGED graph
      PROVE  DotInv'
  <2>1. /\ status = "building" /\ status' = "running" /\ agenda' = <<Call(1)>>
        /\ visited' = <<>> /\ mNodes' = <<>> /\ mEdges' = {}
    BY <1>2 DEF Start, graph, Inv, RunShape, DotInv, DrawnWell
  <2>2. ToSet(<<>>) = {}
    BY Tuples
  <2>3. DrawnWell' /\ LinksFollow'
    BY <2>1, <2>2 DEF DrawnWell, LinksFollow
  <2>4. Begins'
    BY <2>1 DEF Begins, Call
  <2> QED BY <2>3, <2>4 DEF DotInv, DotPhase
<1>3. CASE visit
  BY <1>3, VisitDraws
<1>4. CASE leave
  BY <1>4, LeaveDraws
<1>5. CASE Dedent /\ UNCHANGED graph
  BY <1>5, DedentDraws
<1>6. CASE (AcceptNull \/ Return) /\ UNCHANGED graph
  <2>1. /\ UNCHANGED <<ir, visitor, agenda, visited, graph>>
        /\ status' # "building" /\ status # "building"
    BY <1>6 DEF AcceptNull, Return, Due
  <2> QED BY <2>1, RestDraws
<1>7. CASE UNCHANGED dotVars
  <2>1. UNCHANGED <<ir, visitor, agenda, visited, graph, status>>
    BY <1>7 DEF dotVars, vars
  <2>2. CASE status = "building"
    BY <2>1, <2>2 DEF DotInv, DrawnWell, LinksFollow, DotPhase, Draws, graph
  <2>3. CASE status # "building"
    BY <2>1, <2>3, RestDraws
  <2> QED BY <2>2, <2>3
<1> QED BY <1>1, <1>2, <1>3, <1>4, <1>5, <1>6, <1>7 DEF DotNext, DotVisit

-----------------------------------------------------------------------------
(***************************************************************************)
(* The graph when the run is done.                                         *)
(***************************************************************************)
(* The nodes that were drawn with edges.                                   *)
Linkers == {m \in ToSet(mNodes) : ir[m].kind \in Linking}

(* Nothing is left: the edges are printed, all that they lead to was       *)
(* drawn, and no other pointer is null than that of a module.              *)
LEMMA DrawingDone ==
  ASSUME Inv, DotInv, status = "done", visitor = "dot"
  PROVE  /\ Printed /\ Seen(1) /\ mNodes # <<>> /\ mNodes[1] = 1
         /\ ToSet(mNodes) \subseteq 1 .. Len(ir) /\ Len(ir) \in Nat /\ NULL \notin 1 .. Len(ir)
         /\ mEdges = UNION {EdgesOf(n) : n \in ToSet(mNodes)}
         /\ \A n \in Linkers : \A f \in Pointers(ir[n].kind) :
              /\ ToSet(Target(n, f)) \subseteq ToSet(mNodes)
              /\ Target(n, f) = <<>> => ~ Always(f)
<1>1. /\ TreeShape /\ RunShape /\ agenda = <<>> /\ Draws /\ ToSet(<<>>) = {}
  BY Tuples DEF Inv, ChildrenFollow, Draws
<1>2. \A c : ~ Awaited(c)
  BY <1>1 DEF Awaited
<1>3. Seen(1)
  BY <1>2, <1>1 DEF Inv, ChildrenFollow
<1>4. /\ ToSet(mNodes) = {n \in ToSet(visited) : ir[n].kind \in Drawn}
      /\ mEdges = UNION {EdgesOf(n) : n \in ToSet(mNodes)}
      /\ mNodes # <<>> => mNodes[1] = 1
  BY <1>1 DEF DotInv, DrawnWell
<1>5. 1 \in ToSet(mNodes)
  BY <1>1, <1>3, <1>4, LinkedTable DEF Seen, TreeShape, Linking
<1>6. mNodes # <<>>
  BY <1>1, <1>5
<1>7. ToSet(visited) \subseteq 1 .. Len(ir) /\ Len(ir) \in Nat /\ NULL \notin 1 .. Len(ir)
  <2>1. ToSet(visited) \subseteq Reachable
    BY <1>1 DEF RunShape, ToSet
  <2>2. Len(ir) \in Nat /\ NULL \notin 1 .. Len(ir)
    BY <1>1, IRAssumption DEF TreeShape
  <2> QED BY <1>1, <2>1, <2>2, ReachableFacts
<1>8. Printed
  <2>1. ~ Begins
    BY <1>1 DEF Begins
  <2>2. ASSUME NEW s, Draw(s)
        PROVE  FALSE
    <3> DEFINE S == Below \cup {Mark("indent"), Mark("dedent")}
               B == Below
               L == Leaving
    <3>1. s \in Seq(B) /\ s \o L = <<>> /\ B \subseteq S
      BY <1>1, <2>2 DEF Draw
    <3>2. L \in Seq(S) /\ Len(L) = 2
      BY DEF Leaving
    <3> HIDE DEF S, L, B
    <3>3. s \in Seq(S)
      BY <3>1, SeqMonotonic
    <3>4. Len(s \o L) = Len(s) + Len(L) /\ Len(s) \in Nat
      <4>1. s \in Seq(S) /\ L \in Seq(S)
        BY <3>2, <3>3
      <4> QED BY ONLY <4>1, ConcatProperties
    <3>5. Len(<<>>) = 0
      OBVIOUS
    <3> QED BY <3>1, <3>2, <3>4, <3>5
  <2> QED BY <1>1, <2>1, <2>2 DEF DotInv, DotPhase, Ends
<1>9. ASSUME NEW n \in Linkers, NEW f \in Pointers(ir[n].kind)
      PROVE  /\ ToSet(Target(n, f)) \subseteq ToSet(mNodes)
             /\ Target(n, f) = <<>> => ~ Always(f)
  <2>1. n \in ToSet(visited) /\ ir[n].kind \in Linking /\ n \in 1 .. Len(ir)
    BY <1>4, <1>7 DEF Linkers
  <2>2. LinkFollows(n, f)
    BY <1>1, <2>1 DEF DotInv, LinksFollow
  <2>3. ASSUME NEW c \in ToSet(Target(n, f))
        PROVE  c \in ToSet(mNodes)
    <3>1. Seen(c)
      BY <1>2, <2>2 DEF LinkFollows
    <3>2. ir[c].kind \in Pointee(f)
      BY <1>1, <2>1 DEF TreeShape, PointsWell
    <3>3. f \in {"mExternalModules", "mInternalModules", "mPorts", "mStmts", "mGroup",
                 "mTo", "mFrom", "mCond", "mThen", "mElse", "mOperands"}
      BY <2>1, PointersTable DEF Linking, Modules
    <3>4. ir[c].kind \in Drawn
      BY <3>2, <3>3 DEF Pointee, Drawn, Modules, Stmts, Expressions
    <3> QED BY <1>4, <3>1, <3>4 DEF Seen
  <2> QED BY <1>2, <2>2, <2>3 DEF LinkFollows
<1> QED BY <1>3, <1>4, <1>6, <1>7, <1>8, <1>9

(* An edge of the tree.                                                    *)
IsLink(e, n, f, i) ==
  /\ n \in Linkers /\ f \in Pointers(ir[n].kind) /\ i \in DOMAIN Target(n, f)
  /\ e = Edge(n, f, i, Target(n, f)[i])

(* Those, and one for each module without statements, are the edges.       *)
LEMMA EdgesAre ==
  ASSUME Inv, DotInv, status = "done", visitor = "dot"
  PROVE  /\ \A e \in mEdges : \/ \E n, f, i : IsLink(e, n, f, i)
                              \/ \E n \in NoStatements : e = Edge(n, "mStmts", 1, NULL)
         /\ \A e, n, f, i : IsLink(e, n, f, i) => e \in mEdges
         /\ \A n \in NoStatements : Edge(n, "mStmts", 1, NULL) \in mEdges
<1>1. /\ mEdges = UNION {EdgesOf(n) : n \in ToSet(mNodes)}
      /\ \A n \in Linkers : \A f \in Pointers(ir[n].kind) :
           Target(n, f) = <<>> => ~ Always(f)
  BY DrawingDone
<1>2. ASSUME NEW n \in ToSet(mNodes)
      PROVE  EdgesOf(n) = IF ir[n].kind \in Linking
                          THEN UNION {Links(n, f) : f \in Pointers(ir[n].kind)} ELSE {}
  BY LinkedTable DEF EdgesOf
<1>3. ASSUME NEW e \in mEdges
      PROVE  \/ \E n, f, i : IsLink(e, n, f, i)
             \/ \E n \in NoStatements : e = Edge(n, "mStmts", 1, NULL)
  <2>1. PICK n \in ToSet(mNodes) : e \in EdgesOf(n)
    BY <1>1
  <2>2. n \in Linkers
    BY <1>2, <2>1 DEF Linkers
  <2>3. PICK f \in Pointers(ir[n].kind) : e \in Links(n, f)
    BY <1>2, <2>1
  <2>4. CASE Given(n, f)
    <3>1. PICK i \in DOMAIN Target(n, f) : e = Edge(n, f, i, Target(n, f)[i])
      BY <2>3, <2>4 DEF Links
    <3>2. IsLink(e, n, f, i)
      BY <2>2, <3>1 DEF IsLink
    <3> QED BY <3>2
  <2>5. CASE ~ Given(n, f)
    <3>1. f \notin Lists \cup {"mElse"} /\ e = Edge(n, f, 1, NULL)
      BY <2>3, <2>5 DEF Links
    <3>2. f = "mStmts"
      BY <1>1, <2>2, <2>5, <3>1 DEF Given, Always
    <3>3. ir[n].kind \in Modules
      BY <2>2, <3>2, PointersTable DEF Linkers, Linking, Modules
    <3>4. n \in NoStatements
      BY <2>5, <3>2, <3>3 DEF NoStatements
    <3> QED BY <3>1, <3>2, <3>4
  <2> QED BY <2>4, <2>5
<1>4. ASSUME NEW e, NEW n, NEW f, NEW i, IsLink(e, n, f, i)
      PROVE  e \in mEdges
  <2>1. /\ n \in ToSet(mNodes) /\ ir[n].kind \in Linking /\ f \in Pointers(ir[n].kind)
        /\ i \in DOMAIN Target(n, f) /\ e = Edge(n, f, i, Target(n, f)[i])
    BY <1>4 DEF IsLink, Linkers
  <2>2. Given(n, f)
    BY <2>1 DEF Given
  <2>3. e \in Links(n, f)
    BY <2>1, <2>2 DEF Links
  <2> QED BY <1>1, <1>2, <2>1, <2>3
<1>5. ASSUME NEW n \in NoStatements
      PROVE  Edge(n, "mStmts", 1, NULL) \in mEdges
  <2>1. n \in ToSet(mNodes) /\ ir[n].kind \in Modules /\ ~ Given(n, "mStmts")
    BY DEF NoStatements
  <2>2. Edge(n, "mStmts", 1, NULL) \in Links(n, "mStmts")
    BY <2>1 DEF Links, Lists
  <2>3. ir[n].kind \in Linking /\ "mStmts" \in Pointers(ir[n].kind)
    BY <2>1, PointersTable DEF Linking, Modules
  <2> QED BY <1>1, <1>2, <2>1, <2>2, <2>3
<1> QED BY <1>3, <1>4, <1>5

(* The pairs of a node and one it leads to.                                *)
TreePairs == UNION {{<<n, c>> : c \in Successors(n)} : n \in Linkers}

ToNodes == {e \in mEdges : e.to # NULL}

ToNull == {e \in mEdges : e.to = NULL}

(* As many edges as pairs, and as modules without statements: no node is   *)
(* in two places, so that the pair tells the edge.                         *)
LEMMA EdgesCounted ==
  ASSUME Inv, DotInv, status = "done", visitor = "dot"
  PROVE  /\ \A e \in ToNodes : <<e.from, e.to>> \in TreePairs
         /\ \A p \in TreePairs : \E e \in ToNodes : p = <<e.from, e.to>>
         /\ \A e \in ToNull : e.from \in NoStatements
         /\ \A n \in NoStatements : \E e \in ToNull : e.from = n
         /\ Cardinality(mEdges) = Cardinality(TreePairs) + Cardinality(NoStatements)
<1>1. /\ \A e \in mEdges : \/ \E n, f, i : IsLink(e, n, f, i)
                           \/ \E n \in NoStatements : e = Edge(n, "mStmts", 1, NULL)
      /\ \A e, n, f, i : IsLink(e, n, f, i) => e \in mEdges
      /\ \A n \in NoStatements : Edge(n, "mStmts", 1, NULL) \in mEdges
  BY EdgesAre
<1>2. /\ ToSet(mNodes) \subseteq 1 .. Len(ir) /\ Len(ir) \in Nat /\ NULL \notin 1 .. Len(ir)
      /\ \A n \in Linkers : \A f \in Pointers(ir[n].kind) : ToSet(Target(n, f)) \subseteq ToSet(mNodes)
  BY DrawingDone
<1>3. Linkers \subseteq 1 .. Len(ir) /\ NoStatements \subseteq 1 .. Len(ir)
  BY <1>2 DEF Linkers, NoStatements
<1>4. ASSUME NEW e, NEW n, NEW f, NEW i, IsLink(e, n, f, i)
      PROVE  /\ e \in ToNodes /\ e.from = n /\ e.to = Target(n, f)[i]
             /\ e.to \in Successors(n) /\ e.to \in 1 .. Len(ir) /\ n \in Linkers
  <2>1. /\ n \in Linkers /\ f \in Pointers(ir[n].kind) /\ i \in DOMAIN Target(n, f)
        /\ e.from = n /\ e.to = Target(n, f)[i]
    BY <1>4 DEF IsLink, Edge
  <2>2. e.to \in ToSet(Target(n, f))
    BY <2>1 DEF ToSet
  <2>3. e.to \in 1 .. Len(ir) /\ e.to \in Successors(n)
    BY <1>2, <2>1, <2>2 DEF Successors
  <2>4. e \in ToNodes
    BY <1>1, <1>2, <1>4, <2>3 DEF ToNodes
  <2> QED BY <2>1, <2>3, <2>4
<1>5. ASSUME NEW n \in NoStatements
      PROVE  /\ Edge(n, "mStmts", 1, NULL) \in ToNull
             /\ Edge(n, "mStmts", 1, NULL).from = n
  BY <1>1 DEF ToNull, Edge
<1>6. ASSUME NEW e \in ToNodes
      PROVE  \E n, f, i : IsLink(e, n, f, i)
  <2>1. \A n \in NoStatements : Edge(n, "mStmts", 1, NULL).to = NULL
    BY DEF Edge
  <2> QED BY <1>1, <2>1 DEF ToNodes
<1>7. ASSUME NEW e \in ToNull
      PROVE  \E n \in NoStatements : e = Edge(n, "mStmts", 1, NULL)
  BY <1>1, <1>2, <1>4 DEF ToNull
<1>8. ASSUME NEW e \in ToNodes
      PROVE  <<e.from, e.to>> \in TreePairs
  BY <1>4, <1>6 DEF TreePairs
<1>9. ASSUME NEW p \in TreePairs
      PROVE  \E e \in ToNodes : p = <<e.from, e.to>>
  <2>1. PICK n, c : n \in Linkers /\ c \in Successors(n) /\ p = <<n, c>>
    BY DEF TreePairs
  <2>2. PICK f \in Pointers(ir[n].kind) : c \in ToSet(Target(n, f))
    BY <2>1 DEF Successors
  <2>3. PICK i \in DOMAIN Target(n, f) : c = Target(n, f)[i]
    BY <2>2 DEF ToSet
  <2>4. IsLink(Edge(n, f, i, c), n, f, i)
    BY <2>1, <2>3 DEF IsLink
  <2> QED BY <1>4, <2>1, <2>3, <2>4
(* The pair tells the edge.                                                *)
<1>10. ASSUME NEW d \in ToNodes, NEW e \in ToNodes, d.from = e.from, d.to = e.to
       PROVE  d = e
  <2>1. PICK n, f, i : IsLink(d, n, f, i)
    BY <1>6
  <2>2. PICK m, g, j : IsLink(e, m, g, j)
    BY <1>6
  <2>3. n = m /\ Target(n, f)[i] = Target(m, g)[j]
    BY <1>4, <1>10, <2>1, <2>2
  <2>4. /\ n \in 1 .. Len(ir) /\ f \in Pointers(ir[n].kind) /\ i \in DOMAIN Target(n, f)
        /\ d = Edge(n, f, i, Target(n, f)[i])
    BY <1>3, <2>1 DEF IsLink
  <2>5. /\ m \in 1 .. Len(ir) /\ g \in Pointers(ir[m].kind) /\ j \in DOMAIN Target(m, g)
        /\ e = Edge(m, g, j, Target(m, g)[j])
    BY <1>3, <2>2 DEF IsLink
  <2>6. f = g /\ i = j
    <3>1. OnePlace
      BY DEF Inv
    <3> QED BY <2>3, <2>4, <2>5, <3>1 DEF OnePlace
  <2> QED BY <2>3, <2>4, <2>5, <2>6
(* Both can be counted.                                                    *)
<1>11. IsFiniteSet(TreePairs) /\ IsFiniteSet(NoStatements)
  <2>1. IsFiniteSet(1 .. Len(ir))
    BY <1>2, FS_Interval
  <2>2. IsFiniteSet((1 .. Len(ir)) \X (1 .. Len(ir)))
    BY <2>1, FS_Product
  <2>3. TreePairs \subseteq (1 .. Len(ir)) \X (1 .. Len(ir))
    <3> SUFFICES ASSUME NEW p \in TreePairs
                 PROVE  p \in (1 .. Len(ir)) \X (1 .. Len(ir))
      OBVIOUS
    <3>1. PICK e \in ToNodes : p = <<e.from, e.to>>
      BY <1>9
    <3> QED BY <1>3, <1>4, <1>6, <3>1
  <2> QED BY <1>3, <2>1, <2>2, <2>3, FS_Subset
<1>12. IsFiniteSet(ToNodes) /\ Cardinality(ToNodes) = Cardinality(TreePairs)
  <2> DEFINE F == [e \in ToNodes |-> <<e.from, e.to>>]
  <2>1. F \in [ToNodes -> TreePairs]
    BY <1>8
  <2>2. \A a, b \in ToNodes : F[a] = F[b] => a = b
    BY <1>10
  <2>3. \A p \in TreePairs : \E e \in ToNodes : F[e] = p
    BY <1>9
  <2> HIDE DEF F
  <2>4. F \in Bijection(ToNodes, TreePairs)
    BY <2>1, <2>2, <2>3, Fun_IsBij
  <2>5. ExistsBijection(ToNodes, TreePairs)
    BY <2>4 DEF ExistsBijection
  <2>6. ExistsBijection(TreePairs, ToNodes)
    BY <2>5, Fun_ExistsBijSymmetric
  <2> QED BY <1>11, <2>6, FS_Bijection
<1>13. IsFiniteSet(ToNull) /\ Cardinality(ToNull) = Cardinality(NoStatements)
  <2> DEFINE F == [n \in NoStatements |-> Edge(n, "mStmts", 1, NULL)]
  <2>1. F \in [NoStatements -> ToNull]
    BY <1>5
  <2>2. \A a, b \in NoStatements : F[a] = F[b] => a = b
    BY <1>5
  <2>3. \A e \in ToNull : \E n \in NoStatements : F[n] = e
    BY <1>7
  <2> HIDE DEF F
  <2>4. F \in Bijection(NoStatements, ToNull)
    BY <2>1, <2>2, <2>3, Fun_IsBij
  <2>5. ExistsBijection(NoStatements, ToNull)
    BY <2>4 DEF ExistsBijection
  <2> QED BY <1>11, <2>5, FS_Bijection
<1>14. Cardinality(mEdges) = Cardinality(TreePairs) + Cardinality(NoStatements)
  <2>1. mEdges = ToNodes \cup ToNull /\ ToNodes \cap ToNull = {}
    BY DEF ToNodes, ToNull
  <2>2. Cardinality(ToNodes \cup ToNull)
          = Cardinality(ToNodes) + Cardinality(ToNull) - Cardinality(ToNodes \cap ToNull)
    BY <1>12, <1>13, FS_Union
  <2>3. Cardinality({}) = 0
    BY FS_EmptySet
  <2>4. Cardinality(ToNodes) \in Nat /\ Cardinality(ToNull) \in Nat
    BY <1>12, <1>13, FS_CardinalityType
  <2> DEFINE a == Cardinality(ToNodes)
             b == Cardinality(ToNull)
  <2>5. Cardinality(mEdges) = a + b - 0 /\ a \in Nat /\ b \in Nat
    BY <2>1, <2>2, <2>3, <2>4
  <2> HIDE DEF a, b
  <2>6. Cardinality(mEdges) = a + b
    BY <2>5
  <2> QED BY <1>12, <1>13, <2>6 DEF a, b
<1> QED BY <1>5, <1>7, <1>8, <1>9, <1>14

(* What is drawn is the tree, for trees of any size: every edge of it once *)
(* and no other but that of a module without statements to the circuit.    *)
THEOREM GraphIsTheTreeCorrect == DotSpec => []GraphIsTheTree
<1>1. DotInit => Init
  BY DEF DotInit
<1>2. [DotNext]_dotVars => [Next]_vars
  BY DEF DotNext, DotVisit, visit, leave, Next, Visit, dotVars
<1>3. DotInit => DotInv
  BY DEF DotInit, Init, GraphInit, DotInv, DrawnWell, LinksFollow, DotPhase, Draws
<1>4. Inv /\ [Next]_vars => Inv'
  BY StepKeeps
<1>5. GraphInv /\ [DotNext]_dotVars => GraphInv'
  BY GraphStepKeeps
<1>6. Inv /\ GraphInv /\ DotInv /\ [DotNext]_dotVars => DotInv'
  BY DotStepKeeps
<1>7. Inv /\ DotInv => GraphIsTheTree
  <2> SUFFICES ASSUME Inv, DotInv, status = "done", visitor = "dot"
               PROVE  GraphIsTheTree
    BY DEF GraphIsTheTree
  <2> DEFINE drawn(e) == <<mNodes[printed[e][1] + 1], mNodes[printed[e][2] + 1]>>
             pairs == {drawn(e) : e \in DOMAIN printed}
             extra == {<<n, 1>> : n \in NoStatements}
  <2>1. /\ Printed /\ mNodes[1] = 1 /\ NULL \notin ToSet(mNodes)
    BY DrawingDone
  <2>2. /\ \A e \in ToNodes : <<e.from, e.to>> \in TreePairs
        /\ \A p \in TreePairs : \E e \in ToNodes : p = <<e.from, e.to>>
        /\ \A e \in ToNull : e.from \in NoStatements
        /\ \A n \in NoStatements : \E e \in ToNull : e.from = n
        /\ Cardinality(mEdges) = Cardinality(TreePairs) + Cardinality(NoStatements)
    BY EdgesCounted
  <2>3. ASSUME NEW e \in mEdges
        PROVE  drawn(e) = IF e \in ToNull THEN <<e.from, 1>> ELSE <<e.from, e.to>>
    <3>1. /\ mNodes[printed[e][1] + 1] = e.from
          /\ IF e.to \in ToSet(mNodes) THEN mNodes[printed[e][2] + 1] = e.to
                                       ELSE printed[e][2] = 0
      BY <2>1 DEF Printed, EdgesName, Names
    <3>2. CASE e \in ToNull
      <4>1. printed[e][2] = 0
        BY <2>1, <3>1, <3>2 DEF ToNull
      <4>2. mNodes[printed[e][2] + 1] = 1
        BY <2>1, <4>1
      <4> QED BY <3>1, <3>2, <4>2
    <3>3. CASE e \notin ToNull
      <4>1. <<e.from, e.to>> \in TreePairs
        BY <2>2, <3>3 DEF ToNull, ToNodes
      <4>2. e.to \in ToSet(mNodes)
        <5>1. PICK n, c : n \in Linkers /\ c \in Successors(n) /\ <<e.from, e.to>> = <<n, c>>
          BY <4>1 DEF TreePairs
        <5>2. PICK f \in Pointers(ir[n].kind) : c \in ToSet(Target(n, f))
          BY <5>1 DEF Successors
        <5>3. ToSet(Target(n, f)) \subseteq ToSet(mNodes)
          BY <5>1, DrawingDone
        <5> QED BY <5>1, <5>2, <5>3
      <4> QED BY <3>1, <3>3, <4>2
    <3> QED BY <3>2, <3>3
  <2>4. DOMAIN printed = mEdges /\ ToNodes \subseteq mEdges /\ ToNull \subseteq mEdges
        /\ mEdges = ToNodes \cup ToNull /\ ToNodes \cap ToNull = {}
    BY <2>1 DEF Printed, ToNodes, ToNull
  <2> HIDE DEF drawn
  <2>5. pairs \subseteq TreePairs \cup extra
    BY <2>2, <2>3, <2>4
  <2>6. ASSUME NEW p \in TreePairs
        PROVE  p \in pairs
    <3>1. PICK e \in ToNodes : p = <<e.from, e.to>>
      BY <2>2
    <3>2. drawn(e) = p /\ e \in DOMAIN printed
      BY <2>3, <2>4, <3>1
    <3> QED BY <3>2
  <2>7. ASSUME NEW p \in extra
        PROVE  p \in pairs
    <3>1. PICK n \in NoStatements : p = <<n, 1>>
      OBVIOUS
    <3>2. PICK e \in ToNull : e.from = n
      BY <2>2
    <3>3. drawn(e) = p /\ e \in DOMAIN printed
      BY <2>3, <2>4, <3>1, <3>2
    <3> QED BY <3>3
  <2>8. pairs = TreePairs \cup extra
    BY <2>5, <2>6, <2>7
  <2> QED BY <2>2, <2>4, <2>8 DEF GraphIsTheTree, TreePairs, Linkers, drawn
<1> QED BY <1>1, <1>2, <1>3, <1>4, <1>5, <1>6, <1>7, InitHolds, GraphInitHolds, PTL DEF DotSpec
=============================================================================
