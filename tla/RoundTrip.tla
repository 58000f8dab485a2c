------------------------------ MODULE RoundTrip ------------------------------
(***************************************************************************)
(* A design is read, written back as FIRRTL, and what was written is read  *)
(* again: the frontend, the backend and the frontend once more.            *)
(***************************************************************************)
EXTENDS FirrtlTree, FirrtlPrinter

VARIABLES stage,      \* "read", "write", or "reread"
          design      \* the tree that was written

parser == <<input, pos, ahead, frames, agenda, choices, origin, fields>>
all == <<vars, level, lines, todo, stage, design>>

RoundInit == Init /\ PrinterInit /\ stage = "read" /\ design = <<>>

Parse ==
  /\ stage # "write"
  /\ Next
  /\ UNCHANGED <<level, lines, todo, stage, design>>

generate ==
  /\ stage = "read"
  /\ status = "accepted"
  /\ stage' = "write"
  /\ todo' = <<Visit(1)>>
  /\ UNCHANGED <<vars, level, lines, design>>

VisitNext ==
  /\ stage = "write"
  /\ \/ PrinterNext /\ UNCHANGED status
     \/ FollowsNull /\ status' = "crashed" /\ todo' = <<>>
           /\ UNCHANGED <<ir, level, lines>>
  /\ UNCHANGED <<parser, stage, design>>

(* The file that was written is read by a frontend that is new.            *)
ReadAgain ==
  /\ stage = "write"
  /\ todo = <<>>
  /\ status # "crashed"
  /\ stage' = "reread"
  /\ design' = ir
  /\ input' = Written
  /\ pos' = 1 /\ ahead' = 1
  /\ frames' = <<Frame(NULL, NULL, 1)>>
  /\ agenda' = <<R("circuit")>>
  /\ choices' = <<>>
  /\ ir' = <<>> /\ origin' = <<>> /\ fields' = <<>>
  /\ status' = "parsing"
  /\ UNCHANGED <<level, lines, todo>>

RoundNext == Parse \/ generate \/ VisitNext \/ ReadAgain

RoundSpec == RoundInit /\ [][RoundNext]_all

-----------------------------------------------------------------------------
(* A tree without the numbers of its nodes.                                *)
RECURSIVE Shape(_, _)
Shape(tree, n) ==
  [kind |-> tree[n].kind, info |-> tree[n].info, width |-> tree[n].width,
   to |-> [f \in DOMAIN tree[n].to |->
             [i \in 1 .. Len(tree[n].to[f]) |-> Shape(tree, tree[n].to[f][i])]]]

Reread == stage = "reread" /\ status \in Stopped

Same == status = "accepted" /\ Shape(design, 1) = Shape(ir, 1)

(* The nodes that were written, of some kind.                              *)
OfKind(kind) == {n \in Under(design, 1) : design[n].kind = kind}

(***************************************************************************)
(* What the backend writes in a way that the frontend does not read, or    *)
(* reads as something else.                                                *)
(***************************************************************************)
Unreadable ==
  \/ OfKind("Memory") \cup OfKind("TypeBundle") \cup OfKind("CondValid") # {}
  \/ \E n \in OfKind("Reg") : design[n].to.mResetTrigger = <<>>
  \/ \E n \in OfKind("TypeInt") : ~ design[n].width

InfoLost == \E n \in OfKind("Printf") : design[n].info

(* The last module of the text ends with a conditional: its statements are *)
(* in a block that the end of the text does not close.                     *)
EndsOpen ==
  LET modules == design[1].to.mInternalModules
  IN  /\ modules # <<>>
      /\ design[Last(modules)].to.mStmts # <<>>
      /\ LET group == design[design[Last(modules)].to.mStmts[1]].to.mGroup
         IN  design[Last(group)].kind = "Conditional"

(***************************************************************************)
(* A design that was written is read again as the same design, but for     *)
(* these, and for these it never is: that the blocks at the end of the     *)
(* text stay open, and the rules they are read by fail, does no more harm. *)
(***************************************************************************)
SurvivesUnless ==
  Reread => Same = ~ (Unreadable \/ InfoLost \/ EndsOpen)

(***************************************************************************)
(* Of a design that ends open only the statements at the end are lost: it  *)
(* is accepted with a conditional that has none, which cannot be written a *)
(* second time.                                                            *)
(***************************************************************************)
NotTwice ==
  Reread /\ EndsOpen /\ ~ Unreadable =>
    /\ status = "accepted"
    /\ Cardinality({n \in Tree : ir[n].kind = "Conditional" /\ ~ Given(n, "mThen")}) = 1
=============================================================================
