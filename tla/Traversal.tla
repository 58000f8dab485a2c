------------------------------ MODULE Traversal ------------------------------
(***************************************************************************)
(* A program builds an IR and lets a visitor run over it: accept(), visit()*)
(* and leave() call each other until the circuit is left, a null pointer   *)
(* is followed, or a manipulator throws.  What the calls still have to do  *)
(* is kept, first things first, in agenda.                                 *)
(***************************************************************************)
EXTENDS Visitors

CONSTANTS Runs,       \* the visitors that are run
          Annotated   \* the kinds of node that are given an info

ASSUME TraversalAssumption ==
  Runs \subseteq AllVisitors /\ Annotated \subseteq AllKinds

(* The kinds the frontend gives an info to.                                *)
FrontendAnnotated ==
  {"Circuit", "Module", "ExtModule", "Port", "ConditionalElse", "Wire", "Reg",
   "Instance", "Node", "Connect", "Invalid", "Conditional", "Stop", "Printf",
   "Empty"}

VARIABLES visitor,    \* the one that runs, or "none" while the IR is built
          agenda,     \* what is left of all the calls that have begun
          level,      \* how deep the output is indented
          visited,    \* the nodes visit() was called with, in order
          status

vars == <<ir, visitor, agenda, level, visited, status>>
outside == <<visitor, agenda, level, visited, status>>

Init ==
  /\ IRInit
  /\ visitor = "none"
  /\ agenda = <<>>
  /\ level = 0
  /\ visited = <<>>
  /\ status = "building"

Build ==
  /\ status = "building"
  /\ \/ \E parent \in 1 .. Len(ir), kind \in Kinds :
          \E field \in Pointers(ir[parent].kind) : Give(parent, field, kind)
     \/ \E n \in 1 .. Len(ir) : ir[n].kind \in Annotated /\ setInfo(n)
  /\ UNCHANGED outside

Call(n) == [do |-> "accept", at |-> n]

Start(v) ==
  /\ status = "building"
  /\ visitor' = v
  /\ agenda' = <<Call(1)>>
  /\ status' = "running"
  /\ UNCHANGED <<ir, level, visited>>

(***************************************************************************)
(* What an entry of a script comes to at node n.  The FIRRTL visitor takes *)
(* the first operand of an operation without asking whether there is one.  *)
(***************************************************************************)
Items(n, entry) ==
  IF entry \in {"indent", "dedent"} THEN <<[do |-> entry, at |-> n]>>
  ELSE IF \E field \in Asked(visitor, ir[n].kind, entry) :
            Target(n, field) = <<>> THEN <<>>
  ELSE IF Target(n, entry) = <<>> /\
            (entry \notin Lists \/ (visitor = "FIRRTL" /\ entry = "mOperands"))
       THEN <<Call(NULL)>>
  ELSE [i \in 1 .. Len(Target(n, entry)) |-> Call(Target(n, entry)[i])]

Calls(n) ==
  LET script == Script(visitor, ir[n].kind)
  IN  FlattenSeq([i \in 1 .. Len(script) |-> Items(n, script[i])])

(* The kinds the pass overrides visit() for: it takes their info away.     *)
Stripped == StripInfoStops \cup
  {"Circuit", "Module", "ExtModule", "Conditional", "ConditionalElse", "Empty"}

Due(do) == status = "running" /\ agenda # <<>> /\ Head(agenda).do = do

Accept ==
  /\ Due("accept")
  /\ LET n == Head(agenda).at
     IN  /\ n # NULL
         /\ agenda' = Calls(n) \o Tail(agenda)
         /\ visited' = IF ir[n].kind = "TypeBundle" THEN visited
                                                    ELSE Append(visited, n)
         /\ ir' = IF visitor = "stripinfo" /\ ir[n].kind \in Stripped
                  THEN [ir EXCEPT ![n].info = FALSE] ELSE ir
  /\ UNCHANGED <<visitor, level, status>>

(* Variant: a null pointer is passed over.                                 *)
AcceptNullReturns ==
  /\ Due("accept")
  /\ Head(agenda).at = NULL
  /\ agenda' = Tail(agenda)
  /\ UNCHANGED <<ir, visitor, level, visited, status>>

AcceptNull ==
  /\ Due("accept")
  /\ Head(agenda).at = NULL
  /\ status' = "crashed"
  /\ UNCHANGED <<ir, visitor, agenda, level, visited>>

Indent ==
  /\ Due("indent")
  /\ level' = level + 1
  /\ agenda' = Tail(agenda)
  /\ UNCHANGED <<ir, visitor, visited, status>>

(* The manipulator throws when there is no level left to take.             *)
Dedent ==
  /\ Due("dedent")
  /\ level' = IF level = 0 THEN 0 ELSE level - 1
  /\ status' = IF level = 0 THEN "threw" ELSE status
  /\ agenda' = Tail(agenda)
  /\ UNCHANGED <<ir, visitor, visited>>

Return ==
  /\ status = "running"
  /\ agenda = <<>>
  /\ status' = "done"
  /\ UNCHANGED <<ir, visitor, agenda, level, visited>>

Visit == Accept \/ AcceptNull \/ Indent \/ Dedent \/ Return

Next == Build \/ (\E v \in Runs : Start(v)) \/ Visit

Spec == Init /\ [][Next]_vars

-----------------------------------------------------------------------------
(***************************************************************************)
(* Once stripinfo is done no node of the tree has an info left: a visit    *)
(* that returns false never hides one that has, wherever statements are    *)
(* nested.                                                                 *)
(***************************************************************************)
StripComplete ==
  status = "done" /\ visitor = "stripinfo" =>
    \A n \in Reachable : ~ ir[n].info

Count(n) == Cardinality({i \in 1 .. Len(visited) : visited[i] = n})

ElsesAbove(n) ==
  Cardinality({e \in Reachable :
    ir[e].kind = "ConditionalElse" /\ n \in From(Successors(e))})

(***************************************************************************)
(* No visitor visits a node twice, but the FIRRTL backend, which prints    *)
(* what is below an else and then lets accept() do it again: twice for     *)
(* every else a statement is in.                                           *)
(***************************************************************************)
VisitedOnce ==
  status = "done" =>
    \A n \in Reachable :
      Count(n) <= (IF visitor = "FIRRTL" THEN 2 ^ ElsesAbove(n) ELSE 1)

(* What every visitor is after: the modules, their ports and statements.   *)
Declared(n) ==
  ir[n].kind \in Stmts \cup Modules \cup {"Circuit", "Port", "ConditionalElse"}

(***************************************************************************)
(* No visitor misses a module, a port or a statement of the tree: whatever *)
(* its visits return, it gets to every one of them.                        *)
(***************************************************************************)
EverythingVisited ==
  status = "done" => \A n \in Reachable : Declared(n) => Count(n) >= 1

(***************************************************************************)
(* Every indent of a visitor has its dedent, also where the dedent is left *)
(* to leave() and leave() to accept(): the level is never below 0 and ends *)
(* at 0.  A vector type is the exception: its leave() is never called.     *)
(***************************************************************************)
LevelsBalance ==
  /\ status # "threw"
  /\ status = "done" =>
       level = Cardinality({i \in 1 .. Len(visited) :
                 visitor = "tree" /\ ir[visited[i]].kind = "TypeVector"})

(***************************************************************************)
(* Where a traversal stops at a null pointer: only where a node of the     *)
(* tree was left without something that accept() or a visitor takes for    *)
(* granted.                                                                *)
(***************************************************************************)
Optional(kind) ==
  IF kind \in Modules THEN {"mStmts"}
  ELSE IF kind = "Conditional" THEN {"mElse"}
  ELSE {}

ResetSet(n) ==
  (Target(n, "mResetTrigger") = <<>>) = (Target(n, "mResetValue") = <<>>)

Complete(n) ==
  /\ \A field \in Pointers(ir[n].kind) :
       \/ field \in Lists /\ field # "mOperands"
       \/ field \in Optional(ir[n].kind)
       \/ ir[n].kind = "Reg" /\ field \in {"mResetTrigger", "mResetValue"}
       \/ Target(n, field) # <<>>
  /\ ir[n].kind = "Reg" => ResetSet(n)

CompleteIsSafe == (\A n \in Reachable : Complete(n)) => status # "crashed"

(***************************************************************************)
(* A conditional that was never given its statements, as the grammar makes *)
(* one of "when c :" with nothing after it, ends every visitor that gets   *)
(* to it, the pass among them: none of them completes.                     *)
(***************************************************************************)
NoThenNoEnd ==
  status = "done" =>
    \A n \in Reachable :
      ir[n].kind = "Conditional" => Target(n, "mThen") # <<>>

=============================================================================
