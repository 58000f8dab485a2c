----------------------------- MODULE MCTraversal -----------------------------
(***************************************************************************)
(* Small trees for Traversal and DotGraph.  Trees that differ in nothing   *)
(* but the order their nodes were made in are built in one order: a node   *)
(* is given to the node that was given something last, or to a later one.  *)
(*                                                                         *)
(* A setting says what is built and who visits it.  Where the trees are to *)
(* be complete the program builds in the order of the grammar: it starts   *)
(* with a module that has a statement group, completes a node, from the    *)
(* first pointer to the last and none twice, before it gives anything to   *)
(* the next, makes groups for modules and conditionals alone, and visits   *)
(* complete trees alone.                                                   *)
(***************************************************************************)
EXTENDS DotGraph

VARIABLE setting

Setting(runs, kinds, n, complete, annotated) ==
  [runs |-> runs, kinds |-> kinds, nodes |-> n, complete |-> complete,
   annotated |-> annotated]

Backends == {"FIRRTL", "tree", "dot"}

(* Conditionals, with infos and as they may be without statements.         *)
Strips == Setting({"stripinfo"},
  {"Module", "StmtGroup", "Conditional", "ConditionalElse", "Empty", "Reference"},
  8, FALSE, FrontendAnnotated)

(* Conditionals with elses two deep.                                       *)
Nests == Setting(Backends,
  {"StmtGroup", "Conditional", "ConditionalElse", "Empty", "Reference"},
  13, TRUE, {})

(* The other kinds, as a program may leave them.                           *)
Leaves == Setting(Backends,
  {"ExtModule", "Module", "Port", "StmtGroup", "Reg", "Memory", "Printf",
   "PrimOp", "Constant", "TypeInt", "TypeVector", "TypeBundle"},
  7, FALSE, {})

Connects == Setting(Backends, {"Connect", "Reference", "SubField"}, 9, TRUE, {})

Settings == {Strips, Nests, Leaves, Connects}

MCInit ==
  /\ setting \in Settings
  /\ IF setting.complete
     THEN ir = << [New("Circuit") EXCEPT !.to.mInternalModules = <<2>>],
                  [New("Module") EXCEPT !.to.mStmts = <<3>>],
                  New("StmtGroup") >>
     ELSE IRInit
  /\ visitor = "none"
  /\ agenda = <<>>
  /\ level = 0
  /\ visited = <<>>
  /\ status = "building"
  /\ GraphInit

LastParent ==
  IF Len(ir) = 1 THEN 1
                 ELSE CHOOSE p \in 1 .. Len(ir) : Len(ir) \in Successors(p)

Incomplete == {n \in 1 .. Len(ir) : ~ Complete(n)}

FollowsIn(parent, field) ==
  LET order == AcceptOrder[ir[parent].kind]
      at == CHOOSE i \in 1 .. Len(order) : order[i] = field
  IN  {order[i] : i \in at .. Len(order)} \ ({field} \cap Lists)

InOrder(parent, field, kind) ==
  /\ field = "mGroup" => kind # "StmtGroup"
  /\ Incomplete \cap 1 .. parent - 1 = {}
  /\ UNION {ToSet(Target(parent, f)) : f \in FollowsIn(parent, field)} = {}

MCBuild ==
  /\ status = "building"
  /\ \/ \E parent \in LastParent .. Len(ir), kind \in setting.kinds :
          \E field \in Pointers(ir[parent].kind) :
            /\ Len(ir) < setting.nodes
            /\ setting.complete => InOrder(parent, field, kind)
            /\ Give(parent, field, kind)
     \/ \E n \in 1 .. Len(ir) : ir[n].kind \in setting.annotated /\ setInfo(n)
  /\ UNCHANGED <<outside, graph>>

MCStart ==
  /\ setting.complete => Incomplete \cap Reachable = {}
  /\ \E v \in setting.runs : Start(v)
  /\ UNCHANGED graph

MCNext == (MCBuild \/ MCStart \/ DotVisit) /\ UNCHANGED setting

MCSpec == MCInit /\ [][MCNext]_<<dotVars, setting>>
=============================================================================
