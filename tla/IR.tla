--------------------------------- MODULE IR ---------------------------------
(***************************************************************************)
(* The intermediate representation: a tree of nodes, each of the kind its  *)
(* class says, and what accept() of each class hands on to its children.   *)
(*                                                                         *)
(* The values a node holds (names, widths, constants) are left out; its    *)
(* pointers to other nodes, its info, and whether a width was set are kept.*)
(***************************************************************************)
EXTENDS Integers, Sequences, SequencesExt, FiniteSets

CONSTANTS NULL,       \* the null pointer
          Kinds,      \* the kinds of node a program makes
          MaxNodes    \* how many it makes: bounds the runs

Modules == {"Module", "ExtModule"}  \* mExternal tells the second
Types == {"TypeInt", "TypeClock", "TypeBundle", "TypeVector"}
Stmts == {"StmtGroup", "Wire", "Reg", "Instance", "Memory", "Node", "Connect",
          "Invalid", "Conditional", "Stop", "Printf", "Empty"}
Expressions == {"Reference", "Constant", "SubField", "SubIndex", "SubAccess",
                "Mux", "CondValid", "PrimOp"}
AllKinds == {"Circuit", "Port", "Parameter", "Field", "ConditionalElse"}
              \cup Modules \cup Types \cup Stmts \cup Expressions

ASSUME IRAssumption ==
  /\ Kinds \subseteq AllKinds
  /\ MaxNodes \in Nat \ {0}
  /\ NULL \notin 1 .. MaxNodes

(* The entries of two tables, given by what they are indexed with.         *)
Joined(f, g) == [k \in DOMAIN f \cup DOMAIN g |-> IF k \in DOMAIN f THEN f[k] ELSE g[k]]

(***************************************************************************)
(* The pointers that accept() follows once visit() has returned true, in   *)
(* the order it follows them.  A class that is not listed calls visit() at *)
(* most, and returns whatever it answered.                                 *)
(***************************************************************************)
CircuitAccept == [Circuit |-> <<"mExternalModules", "mInternalModules">>]

ModuleAccept == [Module    |-> <<"mPorts", "mStmts">>,
                 ExtModule |-> <<"mPorts", "mStmts">>]

PortAccept == [Port |-> <<"mType">>]

DeclarationAccept ==
  [StmtGroup |-> <<"mGroup">>,
   Wire      |-> <<"mType">>,
   Reg       |-> <<"mType", "mClock", "mResetTrigger", "mResetValue">>,
   Instance  |-> <<"mOf">>,
   Node      |-> <<"mExpr">>]

StmtAccept ==
  [Connect         |-> <<"mTo", "mFrom">>,
   Invalid         |-> <<"mExp">>,
   Conditional     |-> <<"mCond", "mThen", "mElse">>,
   ConditionalElse |-> <<"mStmts">>,
   Stop            |-> <<"mClock", "mCond">>,
   Printf          |-> <<"mClock", "mCond", "mArguments">>]

ExpressionAccept ==
  [SubField  |-> <<"mOf", "mField">>,
   SubIndex  |-> <<"mOf">>,
   SubAccess |-> <<"mOf", "mExp">>,
   Mux       |-> <<"mSel", "mA", "mB">>,
   CondValid |-> <<"mSel", "mA">>,
   PrimOp    |-> <<"mOperands">>]

AcceptOrder ==
  Joined(Joined(Joined(CircuitAccept, ModuleAccept), PortAccept),
         Joined(Joined(DeclarationAccept, StmtAccept), ExpressionAccept))

(* Pointers that accept() does not follow.                                 *)
OtherPointers == [Memory |-> <<"mDType">>, Constant |-> <<"mType">>]

Pointers(kind) ==
  IF kind \in DOMAIN AcceptOrder THEN ToSet(AcceptOrder[kind])
  ELSE IF kind \in DOMAIN OtherPointers THEN ToSet(OtherPointers[kind])
  ELSE {}

Lists == {"mExternalModules", "mInternalModules", "mPorts", "mGroup",
          "mArguments", "mOperands"}

(***************************************************************************)
(* The setters, which may be called again; the other pointers that are not *)
(* lists are arguments of constructors.                                    *)
(***************************************************************************)
Setters == {<<"Module", "mStmts">>, <<"ExtModule", "mStmts">>,
            <<"Reg", "mResetTrigger">>, <<"Reg", "mResetValue">>,
            <<"Conditional", "mThen">>, <<"Conditional", "mElse">>,
            <<"ConditionalElse", "mStmts">>, <<"Memory", "mDType">>}

(* What a pointer may point to: the types of the members.                  *)
Pointee(field) ==
  CASE field = "mExternalModules" -> {"ExtModule"}
    [] field = "mInternalModules" -> {"Module"}
    [] field = "mPorts" -> {"Port"}
    [] field \in {"mStmts", "mThen"} -> {"StmtGroup"}
    [] field = "mElse" -> {"ConditionalElse"}
    [] field = "mGroup" -> Stmts
    [] field = "mType" -> Types
    [] field = "mDType" -> Types
    [] field \in {"mField"} -> {"Reference"}
    [] OTHER -> Expressions

-----------------------------------------------------------------------------
VARIABLE ir           \* the nodes; the first is the circuit

(* A node as its default constructor leaves it.                            *)
New(kind) == [kind |-> kind, info |-> FALSE, width |-> FALSE,
              to |-> [field \in Pointers(kind) |-> <<>>]]

IRInit == ir = <<New("Circuit")>>

Made(n) == n \in 1 .. Len(ir)

Target(parent, field) == ir[parent].to[field]

(* The pointer is not null; the list has a node.                           *)
Given(n, pointer) == Target(n, pointer) # <<>>

(***************************************************************************)
(* A program makes a node and gives it to another: to a list at its end    *)
(* (addModule, addPort, addStatement, addOperand), to a pointer by its     *)
(* setter, or to a constructor, as long as nothing was given to it.        *)
(***************************************************************************)
Give(parent, field, kind) ==
  /\ Len(ir) < MaxNodes
  /\ field \in Pointers(ir[parent].kind)
  /\ kind \in Kinds \cap Pointee(field)
  /\ LET child == Len(ir) + 1
         made == Append(ir, New(kind))
     IN  \/ /\ field \in Lists
            /\ ir' = [made EXCEPT ![parent].to[field] = Append(@, child)]
         \/ /\ <<ir[parent].kind, field>> \in Setters
            /\ ir' = [made EXCEPT ![parent].to[field] = <<child>>]
         \/ /\ field \notin Lists
            /\ <<ir[parent].kind, field>> \notin Setters
            /\ Target(parent, field) = <<>>
            /\ ir' = [made EXCEPT ![parent].to[field] = <<child>>]

setInfo(n) ==
  /\ ~ ir[n].info
  /\ ir' = [ir EXCEPT ![n].info = TRUE]

(* The width of an integer type is -1 until it is set.                     *)
setWidth(n) == ir' = [ir EXCEPT ![n].width = TRUE]

IRTypeOK ==
  \A n \in 1 .. Len(ir) :
    /\ ir[n].kind \in AllKinds
    /\ ir[n].info \in BOOLEAN /\ ir[n].width \in BOOLEAN
    /\ \A field \in Pointers(ir[n].kind) :
         \A i \in 1 .. Len(Target(n, field)) :
           /\ Made(Target(n, field)[i])
           /\ ir[Target(n, field)[i]].kind \in Pointee(field)

-----------------------------------------------------------------------------
(* The nodes of the tree: what the circuit leads to.                       *)
Successors(n) == UNION {ToSet(Target(n, f)) : f \in Pointers(ir[n].kind)}

(* A node is made after its parent, so the nodes are taken in that order.  *)
From(start) ==
  LET found[n \in 0 .. Len(ir)] ==
        IF n = 0 THEN start
        ELSE LET before == found[n - 1]
             IN  IF n \in before THEN before \cup Successors(n) ELSE before
  IN  found[Len(ir)]

Reachable == From({1})
=============================================================================
