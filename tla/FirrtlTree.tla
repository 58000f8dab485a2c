------------------------------ MODULE FirrtlTree ------------------------------
(***************************************************************************)
(* What the frontend makes of a text, as far as it takes recursion to say: *)
(* the tree that it leaves, beside the statements of the text, and where a *)
(* type of the text ends.                                                  *)
(***************************************************************************)
EXTENDS FirrtlParser

(***************************************************************************)
(* The statements of the text: each begins with a keyword, or a line with  *)
(* a name.                                                                 *)
(***************************************************************************)
Keywords == {"wire", "reg", "mem", "inst", "node", "when", "stop", "printf",
             "skip"}

Lines == DOMAIN input.lines
Depth(l) == input.lines[l].depth
LineAt(p) == CHOOSE l \in Lines :
               /\ input.lines[l].at <= p
               /\ \A k \in Lines : input.lines[k].at <= p => k <= l
Begins(p) == \E l \in Lines : input.lines[l].at = p

Statements == {p \in 1 .. Length :
                 \/ TokenAt(p) \in Keywords
                 \/ TokenAt(p) = "identifier" /\ Begins(p)}

(***************************************************************************)
(* A node with all that is below it.  Which of a node and its parent was   *)
(* made first depends on the rule.                                         *)
(***************************************************************************)
RECURSIVE Under(_, _)
Under(tree, n) ==
  {n} \cup UNION {Under(tree, m) :
                  m \in UNION {ToSet(tree[n].to[f]) : f \in DOMAIN tree[n].to}}

Tree == Under(ir, 1)

InTree(p) == \E n \in Tree : origin[n] = p /\ ir[n].kind \in Stmts

(* The when or the else at p has its statements in a block.                *)
OpensBlock(p) == \E q \in p .. Length :
  /\ TokenAt(q) = ":"
  /\ \A r \in p .. q - 1 : TokenAt(r) # ":"
  /\ TokenAt(q + (IF TokenAt(q + 1) = "info" THEN 2 ELSE 1)) = "INDENT"

(* The line of q is behind the line of p, in a block at this depth or in   *)
(* a deeper one.                                                           *)
InBlock(p, q, depth) ==
  \A j \in LineAt(p) + 1 .. LineAt(q) : Depth(j) >= depth

(***************************************************************************)
(* What the parser takes for the statements of an else: its block, or,     *)
(* when it has none, all that follows in the block that it is in itself.   *)
(***************************************************************************)
ElseTakes(p, q) ==
  /\ p < q
  /\ InBlock(p, q, Depth(LineAt(p)) + (IF OpensBlock(p) THEN 1 ELSE 0))

Elses == {p \in 1 .. Length : TokenAt(p) = "else"}

Lost(q) == \E p \in Elses : ElseTakes(p, q)

(* In a block that is still open where the text ends.                      *)
OpenAtEnd(q) == \E p \in Statements :
  /\ p < q /\ TokenAt(p) = "when" /\ OpensBlock(p)
  /\ InBlock(p, Length, Depth(LineAt(p)) + 1)

(***************************************************************************)
(* The tree of an accepted text has every statement of the text, but those *)
(* that an else takes, and has none of these.  If the text does not end    *)
(* with a line break, the statements of the blocks that are open there are *)
(* missing too; of the last line it may be accepted with anything.         *)
(***************************************************************************)
StatementsKept ==
  Accepted => \A p \in Statements :
    \/ ~ Terminated /\ LineAt(p) = Len(input.lines)
    \/ InTree(p) = ~ (Lost(p) \/ (~ Terminated /\ OpenAtEnd(p)))

(***************************************************************************)
(* The statements of a block, and no others, are below the conditional     *)
(* that the block belongs to; without a block they are at least behind it  *)
(* in the block that it is in itself.                                      *)
(***************************************************************************)
SuitesStay ==
  Accepted /\ Terminated =>
    \A n, m \in Tree :
      LET p == origin[n]
          q == origin[m]
      IN  /\ ir[n].kind = "Conditional" /\ Begins(p)
          /\ ir[m].kind \in Stmts \ {"StmtGroup"} /\ Begins(q)
          /\ p < q
          => IF OpensBlock(p)
             THEN m \in Under(ir, n) <=> InBlock(p, q, Depth(LineAt(p)) + 1)
             ELSE m \in Under(ir, n) => InBlock(p, q, Depth(LineAt(p)))

Parents(n) == {m \in DOMAIN ir : n \in Successors(m)}

(***************************************************************************)
(* What alternatives that failed did to a node does not show: every node   *)
(* of the tree has one parent, and that among all that were ever made, no  *)
(* two are made from the same text, and the nodes of a list follow each    *)
(* other as in the text.                                                   *)
(***************************************************************************)
ReadOnce ==
  Accepted =>
    /\ \A n \in Tree \ {1} : Cardinality(Parents(n)) = 1
    /\ \A n, m \in Tree :
         n # m => <<ir[n].kind, origin[n]>> # <<ir[m].kind, origin[m]>>
    /\ \A n \in Tree : \A list \in Pointers(ir[n].kind) \cap Lists :
         \A i \in 2 .. Len(Target(n, list)) :
           origin[Target(n, list)[i - 1]] < origin[Target(n, list)[i]]

(* "when c :" with nothing under it.                                       *)
NoBody(n) == \E p \in origin[n] .. Length :
  /\ TokenAt(p) = ":"
  /\ \A q \in origin[n] .. p - 1 : TokenAt(q) # ":"
  /\ TokenAt(p + (IF TokenAt(p + 1) = "info" THEN 2 ELSE 1)) \in {"DEDENT", "else"}

(***************************************************************************)
(* The tree of an accepted text can be traversed: every pointer that the   *)
(* visitors follow without asking was given a node, unless the text itself *)
(* leaves it out, where the grammar lets it; and a register has both its   *)
(* trigger and its value, or none.                                         *)
(***************************************************************************)
TreeComplete ==
  Accepted /\ Terminated =>
    \A n \in Tree : \A pointer \in Pointers(ir[n].kind) :
      \/ Given(n, pointer)
      \/ pointer \in Lists \/ ir[n].kind \in Modules
      \/ pointer = "mElse"
      \/ pointer = "mThen" /\ NoBody(n)
      \/ pointer = "mDType" /\ "dtype" \notin fields[n]
      \/ /\ pointer \in {"mResetTrigger", "mResetValue"}
         /\ ~ Given(n, "mResetTrigger") /\ ~ Given(n, "mResetValue")

(***************************************************************************)
(* Where the type that begins at p ends, or 0 if none does: an integer or  *)
(* a clock, or a bundle of fields that are not flipped.                    *)
(***************************************************************************)
RECURSIVE TypeEnd(_), FieldsEnd(_)
TypeEnd(p) ==
  IF TokenAt(p) = "Clock" THEN p + 1
  ELSE IF TokenAt(p) \in {"UInt", "SInt"}
  THEN IF <<TokenAt(p + 1), TokenAt(p + 2), TokenAt(p + 3)>> = <<"<", "int", ">">>
       THEN p + 4 ELSE p + 1
  ELSE IF TokenAt(p) = "{" THEN FieldsEnd(p + 1)
  ELSE 0

FieldsEnd(p) ==
  IF TokenAt(p) = "}" THEN p + 1
  ELSE IF /\ Matches("identifier", TokenAt(p))
          /\ TokenAt(p + 1) = ":"
          /\ TypeEnd(p + 2) # 0
  THEN FieldsEnd(TypeEnd(p + 2))
  ELSE 0

(***************************************************************************)
(* The rule of a type calls itself, at the token it began at, when there   *)
(* is no type at that token, and never returns: that, and nothing else,    *)
(* uses up the stack, and no vector is ever made.                          *)
(***************************************************************************)
OverflowAtType ==
  /\ LeftRecursion
  /\ \A i, j \in DOMAIN frames : Recurs(i, j) => TypeEnd(frames[i].start) = 0
  /\ status = "overflowed" => \E i, j \in DOMAIN frames : Recurs(i, j)
  /\ \A n \in DOMAIN ir : ir[n].kind # "TypeVector"
===============================================================================
