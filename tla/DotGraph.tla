------------------------------ MODULE DotGraph ------------------------------
(***************************************************************************)
(* The graph the dot backend draws: its visitor numbers the nodes it comes *)
(* to and writes down edges between nodes, some before the node at the     *)
(* other end has a number; only when the circuit is left are the edges     *)
(* printed, with the numbers of their nodes.                               *)
(***************************************************************************)
EXTENDS Traversal

VARIABLES mNodes,           \* the nodes in the order they are printed in
          mEdges,           \* the edges; a graph has no order of them
          mNodeDictionary,  \* the numbers of nodes, counted from 0
          printed           \* for each edge the two numbers it is printed with

graph == <<mNodes, mEdges, mNodeDictionary, printed>>
dotVars == <<vars, graph>>

GraphInit ==
  /\ mNodes = <<>>
  /\ mEdges = {}
  /\ mNodeDictionary = [n \in {} |-> 0]
  /\ printed = [e \in {} |-> <<>>]

(* The kinds whose visit adds a node.                                      *)
Drawn == {"Circuit", "Port", "ConditionalElse"} \cup Modules \cup Stmts
           \cup Expressions

(* The pointers that visit adds an edge for.                               *)
LinkedPointers ==
  [Circuit     |-> {"mExternalModules", "mInternalModules"},
   Module      |-> {"mPorts", "mStmts"},
   ExtModule   |-> {"mPorts", "mStmts"},
   StmtGroup   |-> {"mGroup"},
   Connect     |-> {"mFrom", "mTo"},
   Conditional |-> {"mCond", "mThen", "mElse"},
   PrimOp      |-> {"mOperands"}]

(* The text of an edge is its pointer, or its place in a list.             *)
Edge(from, pointer, i, to) ==
  [from |-> from, to |-> to, text |-> <<pointer, i>>]

(* Variant: an else is not asked for.                                      *)
LinksUnasked(n, pointer) ==
  IF Given(n, pointer)
  THEN {Edge(n, pointer, i, Target(n, pointer)[i]) : i \in DOMAIN Target(n, pointer)}
  ELSE IF pointer \in Lists THEN {}
  ELSE {Edge(n, pointer, 1, NULL)}

(* Only an else is asked for; a null pointer gets an edge all the same.    *)
Links(n, pointer) ==
  IF Given(n, pointer)
  THEN {Edge(n, pointer, i, Target(n, pointer)[i]) : i \in DOMAIN Target(n, pointer)}
  ELSE IF pointer \in Lists \cup {"mElse"} THEN {}
  ELSE {Edge(n, pointer, 1, NULL)}

EdgesOf(n) ==
  IF ir[n].kind \in DOMAIN LinkedPointers
  THEN UNION {Links(n, pointer) : pointer \in LinkedPointers[ir[n].kind]}
  ELSE {}

(* Variant: the number is taken after the node was added.                  *)
addNodeFirst(n) ==
  /\ mNodes' = Append(mNodes, n)
  /\ mNodeDictionary' = [m \in DOMAIN mNodeDictionary \cup {n} |->
                           IF m = n THEN Len(mNodes) + 1 ELSE mNodeDictionary[m]]

addNode(n) ==
  /\ mNodes' = Append(mNodes, n)
  /\ mNodeDictionary' = [m \in DOMAIN mNodeDictionary \cup {n} |->
                           IF m = n THEN Len(mNodes) ELSE mNodeDictionary[m]]

(* What the dictionary answers: 0 for what it does not have.               *)
Number(p) == IF p \in DOMAIN mNodeDictionary THEN mNodeDictionary[p] ELSE 0

(* Asking for a number leaves it in the dictionary.                        *)
print ==
  /\ printed' = [e \in mEdges |-> <<Number(e.from), Number(e.to)>>]
  /\ mNodeDictionary' =
       [p \in DOMAIN mNodeDictionary \cup UNION {{e.from, e.to} : e \in mEdges} |->
          Number(p)]
  /\ UNCHANGED <<mNodes, mEdges>>

-----------------------------------------------------------------------------
visit ==
  /\ Accept
  /\ LET n == Head(agenda).at
     IN  IF visitor = "dot" /\ ir[n].kind \in Drawn
         THEN /\ addNode(n)
              /\ mEdges' = mEdges \cup EdgesOf(n)
              /\ UNCHANGED printed
         ELSE UNCHANGED graph

(* Of the dot visitor's calls only leave(Circuit) indents.                 *)
leave == Indent /\ IF visitor = "dot" THEN print ELSE UNCHANGED graph

DotVisit == \/ visit
            \/ leave
            \/ (AcceptNull \/ Dedent \/ Return) /\ UNCHANGED graph

DotInit == Init /\ GraphInit

DotNext ==
  \/ (Build \/ \E v \in Runs : Start(v)) /\ UNCHANGED graph
  \/ DotVisit

DotSpec == DotInit /\ [][DotNext]_dotVars

-----------------------------------------------------------------------------
(* The number k is printed for the node n.                                 *)
Names(k, n) == k + 1 \in DOMAIN mNodes /\ mNodes[k + 1] = n

EdgesName ==
  \A e \in DOMAIN printed :
    /\ Names(printed[e][1], e.from)
    /\ IF e.to \in ToSet(mNodes) THEN Names(printed[e][2], e.to)
                                 ELSE printed[e][2] = 0

(***************************************************************************)
(* Edges are printed with the numbers of the nodes they were added for,    *)
(* also of those that had no number then.  What was never drawn, a null    *)
(* pointer, they take for the circuit, the node with the number 0.         *)
(***************************************************************************)
EdgesNameNodes == [][printed' # printed => EdgesName']_dotVars

(* The kinds that are drawn with edges to all that they lead to.           *)
Linking == {"Circuit", "StmtGroup", "Connect", "Conditional", "PrimOp"}
             \cup Modules

NoStatements == {n \in ToSet(mNodes) : ir[n].kind \in Modules /\ ~ Given(n, "mStmts")}

(***************************************************************************)
(* What is drawn is the tree: every edge of it once and no other, but for  *)
(* modules without statements, which are drawn with an edge to the circuit.*)
(***************************************************************************)
GraphIsTheTree ==
  status = "done" /\ visitor = "dot" =>
    LET tree == UNION {{<<n, c>> : c \in Successors(n)} :
                       n \in {m \in ToSet(mNodes) : ir[m].kind \in Linking}}
        drawn(e) == <<mNodes[printed[e][1] + 1], mNodes[printed[e][2] + 1]>>
    IN  /\ {drawn(e) : e \in DOMAIN printed}
             = tree \cup {<<n, 1>> : n \in NoStatements}
        /\ Cardinality(DOMAIN printed)
             = Cardinality(tree) + Cardinality(NoStatements)
=============================================================================
