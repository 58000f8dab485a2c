-------------------------- MODULE FirrtlParserProofs --------------------------
(***************************************************************************)
(* Proofs about the parser, for every set of texts and every depth of the  *)
(* call stack.                                                             *)
(*                                                                         *)
(* The argument: what is left to match (the agenda, with what each choice  *)
(* would go back to) can be matched item by item from where the parser     *)
(* stands, each item leading from what is known of the rule it stands in   *)
(* to what is known behind it.  What is known: the kinds of the rule's     *)
(* node and of its last attributes, how many blocks are open, whether the  *)
(* rule has read a token, and whether choices are pending that go back     *)
(* before the next token.  First every rule of the grammar is shown to     *)
(* lead from its entry to its exit, then every step of the parser to keep  *)
(* what is left matchable.                                                 *)
(***************************************************************************)
EXTENDS FirrtlParser, DataLemmas

-----------------------------------------------------------------------------
(***************************************************************************)
(* What is known of a rule at a place in it.                               *)
(***************************************************************************)
(* The kinds of the nodes that are ever made.                              *)
ReadKinds == AllKinds \ Unread

(* Any kind, or none: the null pointer, or an attribute that is not there. *)
Unknown == ReadKinds \cup {"none"}

(* Expressions and types that can be read.                                 *)
ReadExps == Expressions \ {"SubIndex", "SubAccess"}
ReadTypes == Types \ {"TypeVector"}

(* The kinds of the node that a rule gives to the one that called it.      *)
RuleKinds(r) ==
  CASE r = "circuit" -> {"Circuit"}
    [] r = "module" -> Modules
    [] r = "intmodule" -> {"Module"}
    [] r = "extmodule" -> {"ExtModule"}
    [] r = "port" -> {"Port"}
    [] r = "type" -> ReadTypes
    [] r = "type_int" -> {"TypeInt"}
    [] r = "type_bundle" -> {"TypeBundle"}
    [] r = "type_vector" -> {}
    [] r = "field" -> {"Field"}
    [] r = "stmt" -> Stmts
    [] r \in {"stmt_group", "stmt_suite"} -> {"StmtGroup"}
    [] r = "wire" -> {"Wire"}
    [] r = "reg" -> {"Reg"}
    [] r = "mem" -> {"Memory"}
    [] r = "inst" -> {"Instance"}
    [] r = "node" -> {"Node"}
    [] r \in {"connect", "partconnect"} -> {"Connect"}
    [] r = "invalidate" -> {"Invalid"}
    [] r = "conditional" -> {"Conditional"}
    [] r = "conditional_else" -> {"ConditionalElse"}
    [] r = "stop" -> {"Stop"}
    [] r = "printf_" -> {"Printf"}
    [] r = "empty" -> {"Empty"}
    [] r = "reference" -> {"Reference"}
    [] r = "exp_int" -> {"Constant"}
    [] r = "mux" -> {"Mux"}
    [] r = "validif" -> {"CondValid"}
    [] r = "primop" -> {"PrimOp"}
    [] OTHER -> ReadExps

(* A rule calls only rules of a lower rank at the token it began at, or    *)
(* both are rules of a type that call each other there.                    *)
Rank(r) ==
  CASE r = NULL -> 9
    [] r = "circuit" -> 8
    [] r = "module" -> 7
    [] r = "stmt_group" -> 6
    [] r = "stmt" -> 5
    [] r = "exp_" -> 3
    [] r \in {"reference", "exp_int", "mux", "validif", "primop", "type",
              "type_vector"} -> 2
    [] r \in {"type_int", "type_bundle"} -> 1
    [] OTHER -> 4

TypeLoop == {"type", "type_vector"}

MayBegin(r, s) == {r, s} \subseteq TypeLoop \/ Rank(s) < Rank(r)

(* A state of a rule: the kinds its node and its last three attributes may *)
(* have, how many blocks are open, whether it has matched a token, and two *)
(* things about the choices that are pending. If slack is 0 there is none, *)
(* if it is 1 they all go back to the token that is next. If a rule's node *)
(* is kept, a choice relies on it.                                         *)
State(rule, val, last, second, third, open, moved, slack, kept) ==
  [rule |-> rule, val |-> val, last |-> last, second |-> second,
   third |-> third, open |-> open, moved |-> moved, slack |-> slack,
   kept |-> kept]

(* What is known in s is known in t, or more is not known in t.            *)
Below(s, t) ==
  /\ s.rule = t.rule /\ s.open = t.open /\ s.kept = t.kept
  /\ s.open \in Nat /\ s.slack \in Nat /\ t.slack \in Nat /\ s.slack <= t.slack
  /\ s.val \subseteq t.val /\ s.last \subseteq t.last
  /\ s.second \subseteq t.second /\ s.third \subseteq t.third
  /\ t.moved => s.moved

(* The kinds of the k-th attribute, from the last one.                     *)
Attribute(s, k) ==
  CASE k = 1 -> s.last [] k = 2 -> s.second [] OTHER -> s.third

Pushed(s, kinds) ==
  State(s.rule, s.val, kinds, s.last, s.second, s.open, s.moved, s.slack,
        s.kept)

(* Its node is one of these.                                               *)
Valued(s, kinds) ==
  State(s.rule, kinds, s.last, s.second, s.third, s.open, s.moved, s.slack,
        s.kept)

(* After a token.                                                          *)
Read(s, w) ==
  State(s.rule, s.val, s.last, s.second, s.third,
        IF w = "INDENT" THEN s.open + 1 ELSE IF w = "DEDENT" THEN s.open - 1
          ELSE s.open,
        TRUE, IF s.slack = 1 THEN 2 ELSE s.slack, s.kept)

(* After a rule: one that inherits a node may have matched nothing.        *)
Called(s, r) ==
  State(s.rule, s.val, RuleKinds(r), s.last, s.second, s.open,
        IF r = "exp_helper" THEN s.moved ELSE TRUE, s.slack, s.kept)

(* A rule that begins where the rule that calls it is in state s.          *)
Begun(r, inherits, s) ==
  State(r, IF inherits THEN s.val ELSE {"none"},
        IF inherits THEN s.val ELSE Unknown, Unknown, Unknown,
        s.open, FALSE, s.slack, FALSE)

(* The same for all places where a rule is called.                         *)
Slack(open) == IF open = 0 THEN 0 ELSE 2
Entry(r, open) ==
  State(r, IF r = "exp_helper" THEN ReadExps ELSE {"none"},
        IF r = "exp_helper" THEN ReadExps ELSE Unknown, Unknown, Unknown,
        open, FALSE, Slack(open), FALSE)
Exit(r, open) ==
  State(r, RuleKinds(r), Unknown, Unknown, Unknown, open, r # "exp_helper",
        Slack(open), FALSE)

(* In an alternative that others follow, in the last one, and behind it.   *)
Trying(s, keep) ==
  State(s.rule, IF keep THEN s.val ELSE Unknown, s.last, s.second, s.third,
        s.open, s.moved, IF s.slack < 2 THEN 1 ELSE 2, keep)
Retrying(s, keep) == Valued(s, IF keep THEN s.val ELSE Unknown)
Settled(s, t) ==
  State(s.rule, s.val, s.last, s.second, s.third, s.open, s.moved, t.slack,
        t.kept)
Inside(s) ==
  State(s.rule, s.val, s.last, s.second, s.third, s.open, s.moved, s.slack,
        TRUE)

-----------------------------------------------------------------------------
Along(Q, f, a, b, at) ==
  /\ Below(a, at[0]) /\ at[Len(f)] = b
  /\ \A i \in 1 .. Len(f) :
       \E u : <<f[i], at[i - 1], u>> \in Q /\ Below(u, at[i])

Path(Q, f, a, b) == IsSeq(f) /\ \E at : Along(Q, f, a, b, at)

TokenStep(w, s, t) ==
  /\ w \notin {"end-of-input", "flip"}
  /\ s.open > 0 \/ s.slack < 2
  /\ \/ w \in {"[", "]"}
     \/ (w = "DEDENT" => s.open > 0) /\ Below(Read(s, w), t)

RuleStep(r, inherits, s, t) ==
  /\ r \in DOMAIN Grammar
  /\ inherits <=> r = "exp_helper"
  /\ inherits => s.val \subseteq ReadExps
  /\ IF s.open = 0 THEN r = "circuit" /\ s.slack = 0
                   ELSE r # "circuit" /\ s.slack = 2
  /\ s.moved \/ MayBegin(s.rule, r)
  /\ Below(Called(s, r), t)

ChoiceStep(Q, of, s, t) ==
  /\ IsSeq(of) /\ Len(of) > 0
  /\ t.kept = s.kept /\ s.slack <= t.slack /\ t.slack # 1
  /\ IF of[1] = <<>> THEN Below(s, t)
     ELSE \E keep \in BOOLEAN :
            /\ keep \/ ~ s.kept
            /\ Path(Q, of[Len(of)], Retrying(s, keep), t)
            /\ \A i \in 1 .. Len(of) - 1 :
                 IsSeq(of[i]) /\ \E v : Path(Q, of[i], Trying(s, keep), v)
                   /\ Below(Settled(v, t), t)

RepeatStep(Q, of, s, t) ==
  /\ Below(s, t) /\ t.slack = 2
  /\ \E v : Path(Q, of, Inside(t), v) /\ Below(Settled(v, t), t)

(* What is given to a pointer: what it takes, as far as it can be read.    *)
Takes(pointer) ==
  (IF pointer = "mModules" THEN Modules ELSE Pointee(pointer)) \ Unread

MakeStep(kind, pointers, s, t) ==
  /\ ~ s.kept
  /\ kind \in ReadKinds
  /\ Len(pointers) \in 0 .. 3
  /\ \A i \in 1 .. Len(pointers) :
       Attribute(s, Len(pointers) + 1 - i) \subseteq Takes(pointers[i])
  /\ Below(Valued(s, {kind}), t)

(* An item of the grammar between two states.                              *)
Local(Q, x, s, t) ==
  /\ x.item \in {"token", "rule", "choice", "repeat", "make", "wrap", "take",
                 "attach", "set", "param", "info", "width"}
  /\ Below(s, s) /\ Below(t, t)
  /\ x.item = "token" => TokenStep(x.t, s, t)
  /\ x.item = "rule" => RuleStep(x.rule, x.inherits, s, t)
  /\ x.item = "choice" => ChoiceStep(Q, x.of, s, t)
  /\ x.item = "repeat" => RepeatStep(Q, x.of, s, t)
  /\ x.item = "make" => s.val = {} \/ MakeStep(x.kind, x.fields, s, t)
  /\ x.item = "wrap" => /\ x.kind \in ReadKinds
                        /\ s.last \subseteq Takes(x.field)
                        /\ Below(Pushed(s, {x.kind}), t)
  /\ x.item = "take" => /\ ~ s.kept /\ "none" \notin s.last
                        /\ Below(Valued(s, s.last), t)
  /\ x.item = "attach" => /\ "none" \notin s.val
                          /\ s.last \subseteq Takes(x.field)
                          /\ Below(s, t)
  /\ x.item \in {"set", "info", "width"} => "none" \notin s.val /\ Below(s, t)

(* Grammars nest: a set of items between states that holds for all that is *)
(* inside of one, too.                                                     *)
Closed(Q) == \A x, s, t : <<x, s, t>> \in Q => Local(Q, x, s, t)
Fit(x, s, t) == \E Q : Closed(Q) /\ <<x, s, t>> \in Q
Has(f, s, t) == \E Q : Closed(Q) /\ Path(Q, f, s, t)

-----------------------------------------------------------------------------
(* More is known in a state below another; that is an order.               *)
LEMMA BelowReflexive ==
  ASSUME NEW s, s.open \in Nat, s.slack \in Nat
  PROVE  Below(s, s)
BY DEF Below

(* What is known in a third state follows through the second.              *)
LEMMA BelowTransitive ==
  ASSUME NEW s, NEW t, NEW u, Below(s, t), Below(t, u)
  PROVE  Below(s, u)
BY DEF Below

(* A path is one in a larger set, too, and so is a step.                   *)
LEMMA PathGrows ==
  ASSUME NEW Q, NEW P, Q \subseteq P, NEW f, NEW a, NEW b, Path(Q, f, a, b)
  PROVE  Path(P, f, a, b)
BY DEF Path, Along

(* A choice is one in a larger set, too.                                   *)
LEMMA ChoiceGrows ==
  ASSUME NEW Q, NEW P, Q \subseteq P, NEW of, NEW s, NEW t,
         ChoiceStep(Q, of, s, t)
  PROVE  ChoiceStep(P, of, s, t)
<1>1. CASE of[1] = <<>>
  BY <1>1 DEF ChoiceStep
<1>2. CASE of[1] # <<>>
  <2>1. PICK keep \in BOOLEAN :
            /\ keep \/ ~ s.kept
            /\ Path(Q, of[Len(of)], Retrying(s, keep), t)
            /\ \A i \in 1 .. Len(of) - 1 :
                 IsSeq(of[i]) /\ \E v : Path(Q, of[i], Trying(s, keep), v)
                   /\ Below(Settled(v, t), t)
    BY <1>2 DEF ChoiceStep
  <2>2. Path(P, of[Len(of)], Retrying(s, keep), t)
    BY <2>1, PathGrows
  <2>3. ASSUME NEW i \in 1 .. Len(of) - 1
        PROVE  IsSeq(of[i]) /\ \E v : Path(P, of[i], Trying(s, keep), v)
               /\ Below(Settled(v, t), t)
    BY <2>1, PathGrows
  <2> QED BY <1>2, <2>1, <2>2, <2>3 DEF ChoiceStep
<1> QED BY <1>1, <1>2

(* And so is whatever an item does.                                        *)
LEMMA LocalGrows ==
  ASSUME NEW Q, NEW P, Q \subseteq P, NEW x, NEW s, NEW t, Local(Q, x, s, t)
  PROVE  Local(P, x, s, t)
<1>1. x.item = "choice" => ChoiceStep(P, x.of, s, t)
  BY ChoiceGrows DEF Local
<1>2. x.item = "repeat" => RepeatStep(P, x.of, s, t)
  BY PathGrows DEF Local, RepeatStep
<1> QED BY <1>1, <1>2 DEF Local

(* All closed sets of a family together are closed.                        *)
LEMMA ClosedUnion ==
  ASSUME NEW F, \A Q \in F : Closed(Q)
  PROVE  Closed(UNION F)
<1> SUFFICES ASSUME NEW x, NEW s, NEW t, <<x, s, t>> \in UNION F
             PROVE  Local(UNION F, x, s, t)
  BY DEF Closed
<1>1. PICK Q \in F : <<x, s, t>> \in Q
  OBVIOUS
<1>2. Local(Q, x, s, t)
  BY <1>1 DEF Closed
<1>3. Q \subseteq UNION F
  OBVIOUS
<1> QED BY <1>2, <1>3, LocalGrows

(* Two closed sets together are closed.                                    *)
LEMMA ClosedBoth ==
  ASSUME NEW P, NEW Q, Closed(P), Closed(Q)
  PROVE  Closed(P \cup Q)
<1>1. Closed(UNION {P, Q})
  BY ClosedUnion
<1>2. UNION {P, Q} = P \cup Q
  OBVIOUS
<1> QED BY <1>1, <1>2

(* A step on what is closed makes an item fit.                             *)
LEMMA FitIntro ==
  ASSUME NEW Q, Closed(Q), NEW x, NEW s, NEW t, Local(Q, x, s, t)
  PROVE  Fit(x, s, t)
<1> DEFINE P == Q \cup {<<x, s, t>>}
<1>1. Q \subseteq P /\ <<x, s, t>> \in P
  OBVIOUS
<1>2. ASSUME NEW y, NEW u, NEW v, <<y, u, v>> \in P
      PROVE  Local(P, y, u, v)
  <2>1. CASE <<y, u, v>> \in Q
    <3>1. Local(Q, y, u, v)
      BY <2>1 DEF Closed
    <3> HIDE DEF P
    <3> QED BY <1>1, <3>1, LocalGrows
  <2>2. CASE y = x /\ u = s /\ v = t
    <3> HIDE DEF P
    <3> QED BY <1>1, <2>2, LocalGrows
  <2> QED BY <1>2, <2>1, <2>2
<1> HIDE DEF P
<1> QED BY <1>1, <1>2 DEF Fit, Closed

(* An item that has no others inside.                                      *)
LEMMA FitAtom ==
  ASSUME NEW x, NEW s, NEW t, Local({}, x, s, t)
  PROVE  Fit(x, s, t)
<1>1. Closed({})
  BY DEF Closed
<1> QED BY <1>1, FitIntro

-----------------------------------------------------------------------------
(* Items that fit one after the other make a path.                         *)
LEMMA HasIntro ==
  ASSUME NEW f, NEW a, NEW b, NEW at, IsSeq(f), Below(a, at[0]),
         at[Len(f)] = b,
         \A i \in 1 .. Len(f) : \E u : Fit(f[i], at[i - 1], u)
           /\ Below(u, at[i])
  PROVE  Has(f, a, b)
<1> DEFINE Fits(i, Q) == /\ Closed(Q)
                         /\ \E u : <<f[i], at[i - 1], u>> \in Q
                            /\ Below(u, at[i])
           Of(i) == CHOOSE Q : Fits(i, Q)
           F == {Of(i) : i \in 1 .. Len(f)}
<1>1. ASSUME NEW i \in 1 .. Len(f)
      PROVE  Fits(i, Of(i))
  <2>1. \E Q : Fits(i, Q)
    BY DEF Fit
  <2> QED BY <2>1
<1> HIDE DEF Of
<1>2. Closed(UNION F)
  <2>1. \A Q \in F : Closed(Q)
    BY <1>1
  <2> HIDE DEF F
  <2> QED BY <2>1, ClosedUnion
<1>3. ASSUME NEW i \in 1 .. Len(f)
      PROVE  \E u : <<f[i], at[i - 1], u>> \in UNION F /\ Below(u, at[i])
  <2>1. PICK u : <<f[i], at[i - 1], u>> \in Of(i) /\ Below(u, at[i])
    BY <1>1
  <2>2. Of(i) \in F
    OBVIOUS
  <2> QED BY <2>1, <2>2
<1>4. Along(UNION F, f, a, b, at)
  BY <1>3 DEF Along
<1> QED BY <1>2, <1>4 DEF Has, Path

(* A path behind another.                                                  *)
LEMMA HasConcat ==
  ASSUME NEW f, NEW g, NEW a, NEW m, NEW b, Has(f, a, m), Has(g, m, b)
  PROVE  Has(f \o g, a, b)
<1>1. PICK Q : Closed(Q) /\ Path(Q, f, a, m)
  BY DEF Has
<1>2. PICK P : Closed(P) /\ Path(P, g, m, b)
  BY DEF Has
<1> DEFINE U == Q \cup P
<1>3. Closed(U)
  BY <1>1, <1>2, ClosedBoth
<1>4. Q \subseteq U /\ P \subseteq U
  OBVIOUS
<1> HIDE DEF U
<1>5. PICK p : Along(U, f, a, m, p)
  BY <1>1, <1>4, PathGrows DEF Path
<1>6. PICK q : Along(U, g, m, b, q)
  BY <1>2, <1>4, PathGrows DEF Path
<1>7. IsSeq(f) /\ IsSeq(g)
  BY <1>1, <1>2 DEF Path
<1> DEFINE h == f \o g
           n == Len(f)
           k == Len(g)
           at == [i \in 0 .. n + k |-> IF i < n THEN p[i] ELSE q[i - n]]
<1>8. /\ IsSeq(h) /\ n \in Nat /\ k \in Nat /\ Len(h) = n + k
      /\ \A i \in 1 .. n : h[i] = f[i]
      /\ \A i \in n + 1 .. n + k : h[i] = g[i - n]
  BY <1>7, Joining
<1> HIDE DEF h
<1>9. Below(a, at[0])
  <2>1. CASE n = 0
    <3>1. Below(a, m) /\ Below(m, q[0])
      BY <1>5, <1>6, <2>1 DEF Along
    <3>2. at[0] = q[0]
      BY <1>8, <2>1
    <3> QED BY <3>1, <3>2, BelowTransitive
  <2>2. CASE n # 0
    <3>1. at[0] = p[0]
      BY <1>8, <2>2
    <3> QED BY <1>5, <3>1 DEF Along
  <2> QED BY <2>1, <2>2
<1>10. at[Len(h)] = b
  <2>1. at[n + k] = q[k]
    BY <1>8
  <2> QED BY <1>6, <1>8, <2>1 DEF Along
<1>11. ASSUME NEW i \in 1 .. Len(h)
       PROVE  \E u : <<h[i], at[i - 1], u>> \in U /\ Below(u, at[i])
  <2>1. CASE i <= n
    <3>1. i \in 1 .. n /\ h[i] = f[i] /\ at[i - 1] = p[i - 1]
      BY <1>8, <2>1
    <3>2. PICK u : <<f[i], p[i - 1], u>> \in U /\ Below(u, p[i])
      BY <1>5, <3>1 DEF Along
    <3>3. Below(u, at[i])
      <4>1. CASE i < n
        BY <1>8, <3>1, <3>2, <4>1
      <4>2. CASE i = n
        <5>1. p[i] = m /\ Below(m, q[0])
          BY <1>5, <1>6, <4>2 DEF Along
        <5>2. at[i] = q[0]
          BY <1>8, <4>2
        <5> QED BY <3>2, <5>1, <5>2, BelowTransitive
      <4> QED BY <1>8, <3>1, <4>1, <4>2
    <3> QED BY <3>1, <3>2, <3>3
  <2>2. CASE i > n
    <3> DEFINE j == i - n
    <3>1. j \in 1 .. k /\ h[i] = g[j] /\ at[i - 1] = q[j - 1] /\ at[i] = q[j]
      BY <1>8, <2>2
    <3>2. \A l \in 1 .. k : \E u : <<g[l], q[l - 1], u>> \in U
          /\ Below(u, q[l])
      BY <1>6 DEF Along
    <3> HIDE DEF j, at
    <3>3. PICK u : <<g[j], q[j - 1], u>> \in U /\ Below(u, q[j])
      BY <3>1, <3>2
    <3> QED BY <3>1, <3>3
  <2>3. i <= n \/ i > n
    BY <1>8
  <2> HIDE DEF at
  <2> QED BY <2>1, <2>2, <2>3
<1>12. Along(U, h, a, b, at)
  BY <1>9, <1>10, <1>11 DEF Along
<1> QED BY <1>3, <1>8, <1>12 DEF Has, Path, h

(* The states of an item that fits.                                        *)
LEMMA FitStates ==
  ASSUME NEW x, NEW s, NEW t, Fit(x, s, t)
  PROVE  Below(s, s) /\ Below(t, t)
BY DEF Fit, Closed, Local

(* A path of 1 item.                                                       *)
LEMMA Has1 ==
  ASSUME NEW x1, NEW s0, NEW s1, Fit(x1, s0, s1)
  PROVE  Has(<<x1>>, s0, s1)
<1> DEFINE f == <<x1>>
           at == [i \in 0 .. 1 |->
                  CASE i = 0 -> s0
                     [] OTHER -> s1]
<1>1. /\ at[0] = s0 /\ at[1] = s1
  OBVIOUS
<1>2. /\ Len(f) = 1
      /\ f[1] = x1
  OBVIOUS
<1>3. IsSeq(f)
  BY Literal
<1> HIDE DEF f, at
<1>4. ASSUME NEW i \in 1 .. Len(f)
      PROVE  Fit(f[i], at[i - 1], at[i]) /\ Below(at[i], at[i])
  BY <1>1, <1>2, FitStates
<1>5. Below(s0, at[0])
  BY <1>1, FitStates
<1>6. Has(f, s0, s1)
  BY <1>1, <1>2, <1>3, <1>4, <1>5, HasIntro
<1> QED BY <1>6 DEF f

(* A path of 2 items.                                                      *)
LEMMA Has2 ==
  ASSUME NEW x1, NEW x2, NEW s0, NEW s1, NEW s2, Fit(x1, s0, s1),
         Fit(x2, s1, s2)
  PROVE  Has(<<x1, x2>>, s0, s2)
<1> DEFINE f == <<x1, x2>>
           at == [i \in 0 .. 2 |->
                  CASE i = 0 -> s0
                     [] i = 1 -> s1
                     [] OTHER -> s2]
<1>1. /\ at[0] = s0 /\ at[1] = s1 /\ at[2] = s2
  OBVIOUS
<1>2. /\ Len(f) = 2
      /\ f[1] = x1 /\ f[2] = x2
  OBVIOUS
<1>3. IsSeq(f)
  BY Literal
<1> HIDE DEF f, at
<1>4. ASSUME NEW i \in 1 .. Len(f)
      PROVE  Fit(f[i], at[i - 1], at[i]) /\ Below(at[i], at[i])
  BY <1>1, <1>2, FitStates
<1>5. Below(s0, at[0])
  BY <1>1, FitStates
<1>6. Has(f, s0, s2)
  BY <1>1, <1>2, <1>3, <1>4, <1>5, HasIntro
<1> QED BY <1>6 DEF f

(* A path of 3 items.                                                      *)
LEMMA Has3 ==
  ASSUME NEW x1, NEW x2, NEW x3, NEW s0, NEW s1, NEW s2, NEW s3,
         Fit(x1, s0, s1), Fit(x2, s1, s2), Fit(x3, s2, s3)
  PROVE  Has(<<x1, x2, x3>>, s0, s3)
<1> DEFINE f == <<x1, x2, x3>>
           at == [i \in 0 .. 3 |->
                  CASE i = 0 -> s0
                     [] i = 1 -> s1
                     [] i = 2 -> s2
                     [] OTHER -> s3]
<1>1. /\ at[0] = s0 /\ at[1] = s1 /\ at[2] = s2 /\ at[3] = s3
  OBVIOUS
<1>2. /\ Len(f) = 3
      /\ f[1] = x1 /\ f[2] = x2 /\ f[3] = x3
  OBVIOUS
<1>3. IsSeq(f)
  BY Literal
<1> HIDE DEF f, at
<1>4. ASSUME NEW i \in 1 .. Len(f)
      PROVE  Fit(f[i], at[i - 1], at[i]) /\ Below(at[i], at[i])
  BY <1>1, <1>2, FitStates
<1>5. Below(s0, at[0])
  BY <1>1, FitStates
<1>6. Has(f, s0, s3)
  BY <1>1, <1>2, <1>3, <1>4, <1>5, HasIntro
<1> QED BY <1>6 DEF f

(* A path of 4 items.                                                      *)
LEMMA Has4 ==
  ASSUME NEW x1, NEW x2, NEW x3, NEW x4, NEW s0, NEW s1, NEW s2, NEW s3,
         NEW s4, Fit(x1, s0, s1), Fit(x2, s1, s2), Fit(x3, s2, s3),
         Fit(x4, s3, s4)
  PROVE  Has(<<x1, x2, x3, x4>>, s0, s4)
<1> DEFINE f == <<x1, x2, x3, x4>>
           at == [i \in 0 .. 4 |->
                  CASE i = 0 -> s0
                     [] i = 1 -> s1
                     [] i = 2 -> s2
                     [] i = 3 -> s3
                     [] OTHER -> s4]
<1>1. /\ at[0] = s0 /\ at[1] = s1 /\ at[2] = s2 /\ at[3] = s3 /\ at[4] = s4
  OBVIOUS
<1>2. /\ Len(f) = 4
      /\ f[1] = x1 /\ f[2] = x2 /\ f[3] = x3 /\ f[4] = x4
  OBVIOUS
<1>3. IsSeq(f)
  BY Literal
<1> HIDE DEF f, at
<1>4. ASSUME NEW i \in 1 .. Len(f)
      PROVE  Fit(f[i], at[i - 1], at[i]) /\ Below(at[i], at[i])
  BY <1>1, <1>2, FitStates
<1>5. Below(s0, at[0])
  BY <1>1, FitStates
<1>6. Has(f, s0, s4)
  BY <1>1, <1>2, <1>3, <1>4, <1>5, HasIntro
<1> QED BY <1>6 DEF f

(* A path of 5 items.                                                      *)
LEMMA Has5 ==
  ASSUME NEW x1, NEW x2, NEW x3, NEW x4, NEW x5, NEW s0, NEW s1, NEW s2,
         NEW s3, NEW s4, NEW s5, Fit(x1, s0, s1), Fit(x2, s1, s2),
         Fit(x3, s2, s3), Fit(x4, s3, s4), Fit(x5, s4, s5)
  PROVE  Has(<<x1, x2, x3, x4, x5>>, s0, s5)
<1> DEFINE f == <<x1, x2, x3, x4, x5>>
           at == [i \in 0 .. 5 |->
                  CASE i = 0 -> s0
                     [] i = 1 -> s1
                     [] i = 2 -> s2
                     [] i = 3 -> s3
                     [] i = 4 -> s4
                     [] OTHER -> s5]
<1>1. /\ at[0] = s0 /\ at[1] = s1 /\ at[2] = s2 /\ at[3] = s3 /\ at[4] = s4
      /\ at[5] = s5
  OBVIOUS
<1>2. /\ Len(f) = 5
      /\ f[1] = x1 /\ f[2] = x2 /\ f[3] = x3 /\ f[4] = x4 /\ f[5] = x5
  OBVIOUS
<1>3. IsSeq(f)
  BY Literal
<1> HIDE DEF f, at
<1>4. ASSUME NEW i \in 1 .. Len(f)
      PROVE  Fit(f[i], at[i - 1], at[i]) /\ Below(at[i], at[i])
  BY <1>1, <1>2, FitStates
<1>5. Below(s0, at[0])
  BY <1>1, FitStates
<1>6. Has(f, s0, s5)
  BY <1>1, <1>2, <1>3, <1>4, <1>5, HasIntro
<1> QED BY <1>6 DEF f

(* A path of 6 items.                                                      *)
LEMMA Has6 ==
  ASSUME NEW x1, NEW x2, NEW x3, NEW x4, NEW x5, NEW x6, NEW s0, NEW s1,
         NEW s2, NEW s3, NEW s4, NEW s5, NEW s6, Fit(x1, s0, s1),
         Fit(x2, s1, s2), Fit(x3, s2, s3), Fit(x4, s3, s4), Fit(x5, s4, s5),
         Fit(x6, s5, s6)
  PROVE  Has(<<x1, x2, x3, x4, x5, x6>>, s0, s6)
<1> DEFINE f == <<x1, x2, x3, x4, x5, x6>>
           at == [i \in 0 .. 6 |->
                  CASE i = 0 -> s0
                     [] i = 1 -> s1
                     [] i = 2 -> s2
                     [] i = 3 -> s3
                     [] i = 4 -> s4
                     [] i = 5 -> s5
                     [] OTHER -> s6]
<1>1. /\ at[0] = s0 /\ at[1] = s1 /\ at[2] = s2 /\ at[3] = s3 /\ at[4] = s4
      /\ at[5] = s5 /\ at[6] = s6
  OBVIOUS
<1>2. /\ Len(f) = 6
      /\ f[1] = x1 /\ f[2] = x2 /\ f[3] = x3 /\ f[4] = x4 /\ f[5] = x5
      /\ f[6] = x6
  OBVIOUS
<1>3. IsSeq(f)
  BY Literal
<1> HIDE DEF f, at
<1>4. ASSUME NEW i \in 1 .. Len(f)
      PROVE  Fit(f[i], at[i - 1], at[i]) /\ Below(at[i], at[i])
  BY <1>1, <1>2, FitStates
<1>5. Below(s0, at[0])
  BY <1>1, FitStates
<1>6. Has(f, s0, s6)
  BY <1>1, <1>2, <1>3, <1>4, <1>5, HasIntro
<1> QED BY <1>6 DEF f

(* A path of 7 items.                                                      *)
LEMMA Has7 ==
  ASSUME NEW x1, NEW x2, NEW x3, NEW x4, NEW x5, NEW x6, NEW x7, NEW s0,
         NEW s1, NEW s2, NEW s3, NEW s4, NEW s5, NEW s6, NEW s7,
         Fit(x1, s0, s1), Fit(x2, s1, s2), Fit(x3, s2, s3), Fit(x4, s3, s4),
         Fit(x5, s4, s5), Fit(x6, s5, s6), Fit(x7, s6, s7)
  PROVE  Has(<<x1, x2, x3, x4, x5, x6, x7>>, s0, s7)
<1> DEFINE f == <<x1, x2, x3, x4, x5, x6, x7>>
           at == [i \in 0 .. 7 |->
                  CASE i = 0 -> s0
                     [] i = 1 -> s1
                     [] i = 2 -> s2
                     [] i = 3 -> s3
                     [] i = 4 -> s4
                     [] i = 5 -> s5
                     [] i = 6 -> s6
                     [] OTHER -> s7]
<1>1. /\ at[0] = s0 /\ at[1] = s1 /\ at[2] = s2 /\ at[3] = s3 /\ at[4] = s4
      /\ at[5] = s5 /\ at[6] = s6 /\ at[7] = s7
  OBVIOUS
<1>2. /\ Len(f) = 7
      /\ f[1] = x1 /\ f[2] = x2 /\ f[3] = x3 /\ f[4] = x4 /\ f[5] = x5
      /\ f[6] = x6 /\ f[7] = x7
  OBVIOUS
<1>3. IsSeq(f)
  BY Literal
<1> HIDE DEF f, at
<1>4. ASSUME NEW i \in 1 .. Len(f)
      PROVE  Fit(f[i], at[i - 1], at[i]) /\ Below(at[i], at[i])
  BY <1>1, <1>2, FitStates
<1>5. Below(s0, at[0])
  BY <1>1, FitStates
<1>6. Has(f, s0, s7)
  BY <1>1, <1>2, <1>3, <1>4, <1>5, HasIntro
<1> QED BY <1>6 DEF f

(* A path of 8 items.                                                      *)
LEMMA Has8 ==
  ASSUME NEW x1, NEW x2, NEW x3, NEW x4, NEW x5, NEW x6, NEW x7, NEW x8,
         NEW s0, NEW s1, NEW s2, NEW s3, NEW s4, NEW s5, NEW s6, NEW s7,
         NEW s8, Fit(x1, s0, s1), Fit(x2, s1, s2), Fit(x3, s2, s3),
         Fit(x4, s3, s4), Fit(x5, s4, s5), Fit(x6, s5, s6), Fit(x7, s6, s7),
         Fit(x8, s7, s8)
  PROVE  Has(<<x1, x2, x3, x4, x5, x6, x7, x8>>, s0, s8)
<1> DEFINE f == <<x1, x2, x3, x4, x5, x6, x7, x8>>
           at == [i \in 0 .. 8 |->
                  CASE i = 0 -> s0
                     [] i = 1 -> s1
                     [] i = 2 -> s2
                     [] i = 3 -> s3
                     [] i = 4 -> s4
                     [] i = 5 -> s5
                     [] i = 6 -> s6
                     [] i = 7 -> s7
                     [] OTHER -> s8]
<1>1. /\ at[0] = s0 /\ at[1] = s1 /\ at[2] = s2 /\ at[3] = s3 /\ at[4] = s4
      /\ at[5] = s5 /\ at[6] = s6 /\ at[7] = s7 /\ at[8] = s8
  OBVIOUS
<1>2. /\ Len(f) = 8
      /\ f[1] = x1 /\ f[2] = x2 /\ f[3] = x3 /\ f[4] = x4 /\ f[5] = x5
      /\ f[6] = x6 /\ f[7] = x7 /\ f[8] = x8
  OBVIOUS
<1>3. IsSeq(f)
  BY Literal
<1> HIDE DEF f, at
<1>4. ASSUME NEW i \in 1 .. Len(f)
      PROVE  Fit(f[i], at[i - 1], at[i]) /\ Below(at[i], at[i])
  BY <1>1, <1>2, FitStates
<1>5. Below(s0, at[0])
  BY <1>1, FitStates
<1>6. Has(f, s0, s8)
  BY <1>1, <1>2, <1>3, <1>4, <1>5, HasIntro
<1> QED BY <1>6 DEF f

(* A path of 9 items.                                                      *)
LEMMA Has9 ==
  ASSUME NEW x1, NEW x2, NEW x3, NEW x4, NEW x5, NEW x6, NEW x7, NEW x8,
         NEW x9, NEW s0, NEW s1, NEW s2, NEW s3, NEW s4, NEW s5, NEW s6,
         NEW s7, NEW s8, NEW s9, Fit(x1, s0, s1), Fit(x2, s1, s2),
         Fit(x3, s2, s3), Fit(x4, s3, s4), Fit(x5, s4, s5), Fit(x6, s5, s6),
         Fit(x7, s6, s7), Fit(x8, s7, s8), Fit(x9, s8, s9)
  PROVE  Has(<<x1, x2, x3, x4, x5, x6, x7, x8, x9>>, s0, s9)
<1> DEFINE f == <<x1, x2, x3, x4, x5, x6, x7, x8, x9>>
           at == [i \in 0 .. 9 |->
                  CASE i = 0 -> s0
                     [] i = 1 -> s1
                     [] i = 2 -> s2
                     [] i = 3 -> s3
                     [] i = 4 -> s4
                     [] i = 5 -> s5
                     [] i = 6 -> s6
                     [] i = 7 -> s7
                     [] i = 8 -> s8
                     [] OTHER -> s9]
<1>1. /\ at[0] = s0 /\ at[1] = s1 /\ at[2] = s2 /\ at[3] = s3 /\ at[4] = s4
      /\ at[5] = s5 /\ at[6] = s6 /\ at[7] = s7 /\ at[8] = s8 /\ at[9] = s9
  OBVIOUS
<1>2. /\ Len(f) = 9
      /\ f[1] = x1 /\ f[2] = x2 /\ f[3] = x3 /\ f[4] = x4 /\ f[5] = x5
      /\ f[6] = x6 /\ f[7] = x7 /\ f[8] = x8 /\ f[9] = x9
  OBVIOUS
<1>3. IsSeq(f)
  BY Literal
<1> HIDE DEF f, at
<1>4. ASSUME NEW i \in 1 .. Len(f)
      PROVE  Fit(f[i], at[i - 1], at[i]) /\ Below(at[i], at[i])
  BY <1>1, <1>2, FitStates
<1>5. Below(s0, at[0])
  BY <1>1, FitStates
<1>6. Has(f, s0, s9)
  BY <1>1, <1>2, <1>3, <1>4, <1>5, HasIntro
<1> QED BY <1>6 DEF f

-----------------------------------------------------------------------------
(* Less may be known where a path begins and more where it ends.           *)
LEMMA HasBelow ==
  ASSUME NEW f, NEW a, NEW b, NEW c, NEW d, Below(a, b), Has(f, b, c),
         Below(c, d)
  PROVE  Has(f, a, d)
<1>1. PICK Q : Closed(Q) /\ Path(Q, f, b, c)
  BY DEF Has
<1>2. PICK at : Along(Q, f, b, c, at)
  BY <1>1 DEF Path
<1>3. Len(f) \in Nat
  BY <1>1 DEF Path, IsSeq
<1> DEFINE n == Len(f)
           to == [i \in 0 .. n |-> IF i = n THEN d ELSE at[i]]
<1>4. Below(a, to[0])
  <2>1. Below(a, at[0])
    BY <1>2, BelowTransitive DEF Along
  <2>2. CASE n = 0
    <3>1. at[0] = c /\ to[0] = d
      BY <1>2, <2>2 DEF Along
    <3> QED BY <2>1, <3>1, BelowTransitive
  <2>3. CASE n # 0
    BY <1>3, <2>1, <2>3
  <2> QED BY <2>2, <2>3
<1>5. to[n] = d
  BY <1>3
<1>6. ASSUME NEW i \in 1 .. n
      PROVE  \E u : <<f[i], to[i - 1], u>> \in Q /\ Below(u, to[i])
  <2>1. PICK u : <<f[i], at[i - 1], u>> \in Q /\ Below(u, at[i])
    BY <1>2 DEF Along
  <2>2. to[i - 1] = at[i - 1]
    BY <1>3
  <2>3. Below(u, to[i])
    <3>1. CASE i = n
      <4>1. at[i] = c /\ to[i] = d
        BY <1>2, <1>3, <3>1 DEF Along
      <4> QED BY <2>1, <4>1, BelowTransitive
    <3>2. CASE i # n
      BY <1>3, <2>1, <3>2
    <3> QED BY <3>1, <3>2
  <2> QED BY <2>1, <2>2, <2>3
<1>7. Along(Q, f, a, d, to)
  BY <1>4, <1>5, <1>6 DEF Along
<1> QED BY <1>1, <1>7 DEF Has, Path

(* Nothing to match leaves all as it is.                                   *)
LEMMA HasNothing ==
  ASSUME NEW a, NEW b, Below(a, b), Below(b, b)
  PROVE  Has(<<>>, a, b)
<1> DEFINE at == [i \in 0 .. 0 |-> b]
<1>1. Below(a, at[0]) /\ at[Len(<<>>)] = b /\ 1 .. Len(<<>>) = {}
  OBVIOUS
<1> QED BY <1>1, HasIntro, Literal

-----------------------------------------------------------------------------
(***************************************************************************)
(* The items, inside of a module: a block is open, and nothing is known of *)
(* the choices that are pending.                                           *)
(***************************************************************************)
At(r, val, last, second, third, open, moved, kept) ==
  State(r, val, last, second, third, open, moved, 2, kept)

(* Larger sets of kinds say less, and so does not to know of a token.      *)
LEMMA AtBelow ==
  ASSUME NEW r, NEW v, NEW l, NEW s, NEW t, NEW n \in Nat, NEW m, NEW k,
         NEW w, NEW l2, NEW s2, NEW t2, NEW m2,
         v \subseteq w, l \subseteq l2, s \subseteq s2, t \subseteq t2, m2 => m
  PROVE  Below(At(r, v, l, s, t, n, m, k), At(r, w, l2, s2, t2, n, m2, k))
BY DEF Below, At, State

(* A token that neither opens a block nor closes one is matched.           *)
LEMMA TokenFit ==
  ASSUME NEW r, NEW v, NEW l, NEW s, NEW t, NEW n \in Nat \ {0}, NEW m, NEW k,
         NEW w, w \notin {"end-of-input", "flip", "INDENT", "DEDENT"}
  PROVE  Fit(T(w), At(r, v, l, s, t, n, m, k), At(r, v, l, s, t, n, TRUE, k))
<1> DEFINE a == At(r, v, l, s, t, n, m, k)
           b == At(r, v, l, s, t, n, TRUE, k)
<1>1. Below(a, a) /\ Below(b, b) /\ a.open = n
  BY DEF Below, At, State
<1>2. Below(Read(a, w), b)
  BY DEF Below, Read, At, State
<1> HIDE DEF a, b
<1>3. TokenStep(w, a, b)
  <2>1. a.open > 0
    BY <1>1
  <2> QED BY <1>2, <2>1 DEF TokenStep
<1>4. Local({}, T(w), a, b)
  BY <1>1, <1>3 DEF Local, T
<1> QED BY <1>4, FitAtom DEF a, b

(* A block is opened, or closed.                                           *)
LEMMA IndentFit ==
  ASSUME NEW r, NEW v, NEW l, NEW s, NEW t, NEW n \in Nat \ {0}, NEW m, NEW k,
         NEW o, o = n + 1
  PROVE  /\ Fit(T("INDENT"), At(r, v, l, s, t, n, m, k),
                At(r, v, l, s, t, o, TRUE, k))
         /\ Fit(T("DEDENT"), At(r, v, l, s, t, o, m, k),
                At(r, v, l, s, t, n, TRUE, k))
<1> DEFINE a(j, p) == At(r, v, l, s, t, j, p, k)
<1>1. \A j \in Nat : \A p : Below(a(j, p), a(j, p)) /\ a(j, p).open = j
  BY DEF Below, At, State
<1>2. /\ Below(Read(a(n, m), "INDENT"), a(o, TRUE))
      /\ Below(Read(a(o, m), "DEDENT"), a(n, TRUE))
  BY DEF Below, Read, At, State
<1> HIDE DEF a
<1>3. o \in Nat /\ n > 0 /\ o > 0
  OBVIOUS
<1>4. TokenStep("INDENT", a(n, m), a(o, TRUE))
      /\ TokenStep("DEDENT", a(o, m), a(n, TRUE))
  BY <1>1, <1>2, <1>3 DEF TokenStep
<1>5. Local({}, T("INDENT"), a(n, m), a(o, TRUE))
      /\ Local({}, T("DEDENT"), a(o, m), a(n, TRUE))
  BY <1>1, <1>3, <1>4 DEF Local, T
<1> QED BY <1>5, FitAtom DEF a

(* A bracket is never there: what is behind it may be in any state.        *)
LEMMA BracketFit ==
  ASSUME NEW r, NEW v, NEW l, NEW s, NEW t, NEW n \in Nat \ {0}, NEW m, NEW k,
         NEW w \in {"[", "]"}, NEW b, Below(b, b)
  PROVE  Fit(T(w), At(r, v, l, s, t, n, m, k), b)
<1> DEFINE a == At(r, v, l, s, t, n, m, k)
<1>1. Below(a, a) /\ a.open = n
  BY DEF Below, At, State
<1> HIDE DEF a
<1>2. a.open > 0
  BY <1>1
<1>3. TokenStep(w, a, b)
  <2>1. w \notin {"end-of-input", "flip"}
    OBVIOUS
  <2> QED BY <1>2, <2>1 DEF TokenStep
<1>4. Local({}, T(w), a, b)
  BY <1>1, <1>3 DEF Local, T
<1> QED BY <1>4, FitAtom DEF a

(* A rule is called, behind a token or with one of a lower rank, and gives *)
(* a node of its kinds.                                                    *)
LEMMA RuleFit ==
  ASSUME NEW r, NEW v, NEW l, NEW s, NEW t, NEW n \in Nat \ {0}, NEW m, NEW k,
         NEW q \in DOMAIN Grammar, q \notin {"circuit", "exp_helper"},
         m \/ MayBegin(r, q)
  PROVE  Fit(R(q), At(r, v, l, s, t, n, m, k),
             At(r, v, RuleKinds(q), l, s, n, TRUE, k))
<1> DEFINE a == At(r, v, l, s, t, n, m, k)
           b == At(r, v, RuleKinds(q), l, s, n, TRUE, k)
<1>1. Below(a, a) /\ Below(b, b) /\ a.open # 0 /\ a.slack = 2 /\ a.moved = m
      /\ a.rule = r
  BY DEF Below, At, State
<1>2. Below(Called(a, q), b)
  BY DEF Below, Called, At, State
<1> HIDE DEF a, b
<1>3. RuleStep(q, FALSE, a, b)
  BY <1>1, <1>2 DEF RuleStep
<1>4. Local({}, R(q), a, b)
  BY <1>1, <1>3 DEF Local, R
<1> QED BY <1>4, FitAtom DEF a, b

(* The helper of an expression is called: it inherits the node of the rule *)
(* and gives one.                                                          *)
LEMMA HelperFit ==
  ASSUME NEW r, NEW v, NEW l, NEW s, NEW t, NEW n \in Nat \ {0}, NEW k,
         v \subseteq ReadExps
  PROVE  Fit(Inherited("exp_helper"), At(r, v, l, s, t, n, TRUE, k),
             At(r, v, ReadExps, l, s, n, TRUE, k))
<1> DEFINE a == At(r, v, l, s, t, n, TRUE, k)
           b == At(r, v, ReadExps, l, s, n, TRUE, k)
<1>1. /\ Below(a, a) /\ Below(b, b) /\ a.open # 0 /\ a.slack = 2 /\ a.moved
      /\ a.val = v
  BY DEF Below, At, State
<1>3. RuleKinds("exp_helper") = ReadExps /\ "exp_helper" \in DOMAIN Grammar
  BY DEF RuleKinds, Grammar
<1>2. Below(Called(a, "exp_helper"), b)
  BY <1>3 DEF Below, Called, At, State
<1> HIDE DEF a, b
<1>4. RuleStep("exp_helper", TRUE, a, b)
  BY <1>1, <1>2, <1>3 DEF RuleStep
<1>5. Local({}, Inherited("exp_helper"), a, b)
  BY <1>1, <1>4 DEF Local, Inherited
<1> QED BY <1>5, FitAtom DEF a, b

(* A node is made of as many attributes as it is given.                    *)
LEMMA MakeFit ==
  ASSUME NEW r, NEW v, NEW l, NEW s, NEW t, NEW n \in Nat \ {0}, NEW m,
         NEW kind \in ReadKinds, NEW x, NEW y, NEW z
  PROVE  /\ Fit(Make(kind, <<>>), At(r, v, l, s, t, n, m, FALSE),
                At(r, {kind}, l, s, t, n, m, FALSE))
         /\ l \subseteq Takes(x) =>
              Fit(Make(kind, <<x>>), At(r, v, l, s, t, n, m, FALSE),
                  At(r, {kind}, l, s, t, n, m, FALSE))
         /\ s \subseteq Takes(x) /\ l \subseteq Takes(y) =>
              Fit(Make(kind, <<x, y>>), At(r, v, l, s, t, n, m, FALSE),
                  At(r, {kind}, l, s, t, n, m, FALSE))
         /\ t \subseteq Takes(x) /\ s \subseteq Takes(y)
            /\ l \subseteq Takes(z) =>
              Fit(Make(kind, <<x, y, z>>), At(r, v, l, s, t, n, m, FALSE),
                  At(r, {kind}, l, s, t, n, m, FALSE))
<1> DEFINE a == At(r, v, l, s, t, n, m, FALSE)
           b == At(r, {kind}, l, s, t, n, m, FALSE)
<1>1. /\ Below(a, a) /\ Below(b, b) /\ ~ a.kept
      /\ a.last = l /\ a.second = s /\ a.third = t
  BY DEF Below, At, State
<1>2. Below(Valued(a, {kind}), b)
  BY DEF Below, Valued, At, State
<1> HIDE DEF a, b
<1>3. ASSUME NEW p, MakeStep(kind, p, a, b)
      PROVE  Fit(Make(kind, p), a, b)
  <2>1. Local({}, Make(kind, p), a, b)
    BY <1>1, <1>3 DEF Local, Make
  <2> QED BY <2>1, FitAtom
<1>4. /\ Attribute(a, 1) = l /\ Attribute(a, 2) = s /\ Attribute(a, 3) = t
  BY <1>1 DEF Attribute
<1>5. MakeStep(kind, <<>>, a, b)
  BY <1>1, <1>2 DEF MakeStep
<1>6. ASSUME l \subseteq Takes(x)
      PROVE  MakeStep(kind, <<x>>, a, b)
  BY <1>1, <1>2, <1>4, <1>6 DEF MakeStep
<1>7. ASSUME s \subseteq Takes(x), l \subseteq Takes(y)
      PROVE  MakeStep(kind, <<x, y>>, a, b)
  <2> DEFINE p == <<x, y>>
  <2>1. Len(p) = 2 /\ p[1] = x /\ p[2] = y
    OBVIOUS
  <2> HIDE DEF p
  <2>2. \A i \in 1 .. Len(p) : Attribute(a,
                                         Len(p) + 1 - i) \subseteq Takes(p[i])
    BY <1>4, <1>7, <2>1
  <2>3. MakeStep(kind, p, a, b)
    BY <1>1, <1>2, <2>1, <2>2 DEF MakeStep
  <2> QED BY <2>3 DEF p
<1>8. ASSUME t \subseteq Takes(x), s \subseteq Takes(y), l \subseteq Takes(z)
      PROVE  MakeStep(kind, <<x, y, z>>, a, b)
  <2> DEFINE p == <<x, y, z>>
  <2>1. Len(p) = 3 /\ p[1] = x /\ p[2] = y /\ p[3] = z
    OBVIOUS
  <2> HIDE DEF p
  <2>2. \A i \in 1 .. Len(p) : Attribute(a,
                                         Len(p) + 1 - i) \subseteq Takes(p[i])
    BY <1>4, <1>8, <2>1
  <2>3. MakeStep(kind, p, a, b)
    BY <1>1, <1>2, <2>1, <2>2 DEF MakeStep
  <2> QED BY <2>3 DEF p
<1>9. /\ Fit(Make(kind, <<>>), a, b)
      /\ l \subseteq Takes(x) => Fit(Make(kind, <<x>>), a, b)
      /\ s \subseteq Takes(x) /\ l \subseteq Takes(y)
         => Fit(Make(kind, <<x, y>>), a, b)
      /\ t \subseteq Takes(x) /\ s \subseteq Takes(y)
         /\ l \subseteq Takes(z) =>
           Fit(Make(kind, <<x, y, z>>), a, b)
  BY <1>3, <1>5, <1>6, <1>7, <1>8
<1> QED BY <1>9 DEF a, b

(* Where nothing can be, a node may be made of anything.                   *)
LEMMA UnreachedFit ==
  ASSUME NEW r, NEW l, NEW s, NEW t, NEW n \in Nat \ {0}, NEW m, NEW k,
         NEW kind, NEW p, NEW b, Below(b, b)
  PROVE  Fit(Make(kind, p), At(r, {}, l, s, t, n, m, k), b)
<1> DEFINE a == At(r, {}, l, s, t, n, m, k)
<1>1. Below(a, a) /\ a.val = {}
  BY DEF Below, At, State
<1> HIDE DEF a
<1>2. Local({}, Make(kind, p), a, b)
  BY <1>1 DEF Local, Make
<1> QED BY <1>2, FitAtom DEF a

(* The rule takes the last node that it got for its own.                   *)
LEMMA TakeFit ==
  ASSUME NEW r, NEW v, NEW l, NEW s, NEW t, NEW n \in Nat \ {0}, NEW m,
         "none" \notin l
  PROVE  Fit(Take, At(r, v, l, s, t, n, m, FALSE),
             At(r, l, l, s, t, n, m, FALSE))
<1> DEFINE a == At(r, v, l, s, t, n, m, FALSE)
           b == At(r, l, l, s, t, n, m, FALSE)
<1>1. Below(a, a) /\ Below(b, b) /\ ~ a.kept /\ a.last = l
  BY DEF Below, At, State
<1>2. Below(Valued(a, a.last), b)
  BY DEF Below, Valued, At, State
<1> HIDE DEF a, b
<1>3. Local({}, Take, a, b)
  BY <1>1, <1>2 DEF Local, Take
<1> QED BY <1>3, FitAtom DEF a, b

(* A node is made around the last one and is the last one then.            *)
LEMMA WrapFit ==
  ASSUME NEW r, NEW v, NEW l, NEW s, NEW t, NEW n \in Nat \ {0}, NEW m, NEW k,
         NEW kind \in ReadKinds, NEW x, l \subseteq Takes(x)
  PROVE  Fit(Wrap(kind, x), At(r, v, l, s, t, n, m, k),
             At(r, v, {kind}, l, s, n, m, k))
<1> DEFINE a == At(r, v, l, s, t, n, m, k)
           b == At(r, v, {kind}, l, s, n, m, k)
<1>1. Below(a, a) /\ Below(b, b) /\ a.last = l
  BY DEF Below, At, State
<1>2. Below(Pushed(a, {kind}), b)
  BY DEF Below, Pushed, At, State
<1> HIDE DEF a, b
<1>3. Local({}, Wrap(kind, x), a, b)
  BY <1>1, <1>2 DEF Local, Wrap
<1> QED BY <1>3, FitAtom DEF a, b

(* What is done to the rule's own node.                                    *)
LEMMA ActFit ==
  ASSUME NEW r, NEW v, NEW l, NEW s, NEW t, NEW n \in Nat \ {0}, NEW m, NEW k,
         "none" \notin v, NEW x
  PROVE  /\ l \subseteq Takes(x) =>
              Fit(Attach(x), At(r, v, l, s, t, n, m, k),
                  At(r, v, l, s, t, n, m, k))
         /\ Fit(Set(x), At(r, v, l, s, t, n, m, k), At(r, v, l, s, t, n, m, k))
         /\ Fit([item |-> "width"], At(r, v, l, s, t, n, m, k),
                At(r, v, l, s, t, n, m, k))
<1> DEFINE a == At(r, v, l, s, t, n, m, k)
<1>1. Below(a, a) /\ a.last = l /\ a.val = v
  BY DEF Below, At, State
<1> HIDE DEF a
<1>2. l \subseteq Takes(x) => Local({}, Attach(x), a, a)
  BY <1>1 DEF Local, Attach
<1>3. Local({}, Set(x), a, a) /\ Local({}, [item |-> "width"], a, a)
  BY <1>1 DEF Local, Set
<1> QED BY <1>2, <1>3, FitAtom DEF a

(* The parameter of an operation: nothing is known behind it, as it        *)
(* throws.                                                                 *)
LEMMA ParamFit ==
  ASSUME NEW r, NEW v, NEW l, NEW s, NEW t, NEW n \in Nat \ {0}, NEW m, NEW k
  PROVE  Fit(Param, At(r, v, l, s, t, n, m, k), At(r, v, l, s, t, n, m, k))
<1> DEFINE a == At(r, v, l, s, t, n, m, k)
<1>1. Below(a, a)
  BY DEF Below, At, State
<1> HIDE DEF a
<1>2. Local({}, Param, a, a)
  BY <1>1 DEF Local, Param
<1> QED BY <1>2, FitAtom DEF a

-----------------------------------------------------------------------------
(* Alternatives: those that others follow leave the node, or any may be.   *)
LEMMA ChoiceFit ==
  ASSUME NEW of, IsSeq(of), Len(of) > 0, of[1] # <<>>, NEW s, NEW t,
         Below(s, s), Below(t, t), t.kept = s.kept, s.slack <= t.slack,
           t.slack # 1,
         NEW keep \in BOOLEAN, keep \/ ~ s.kept,
         Has(of[Len(of)], Retrying(s, keep), t),
         \A i \in 1 .. Len(of) - 1 :
           \E v : Has(of[i], Trying(s, keep), v) /\ Below(Settled(v, t), t)
  PROVE  Fit(Choice(of), s, t)
<1>0. Len(of) \in Nat
  BY DEF IsSeq
<1> DEFINE Good(i, Q) == /\ Closed(Q)
                         /\ \E v : Path(Q, of[i], Trying(s, keep), v)
                            /\ Below(Settled(v, t), t)
           Of(i) == CHOOSE Q : Good(i, Q)
           F == {Of(i) : i \in 1 .. Len(of) - 1}
<1>1. ASSUME NEW i \in 1 .. Len(of) - 1
      PROVE  Good(i, Of(i))
  <2>1. PICK v : Has(of[i], Trying(s, keep), v) /\ Below(Settled(v, t), t)
    OBVIOUS
  <2>2. \E Q : Good(i, Q)
    BY <2>1 DEF Has
  <2> QED BY <2>2
<1> HIDE DEF Of
<1>2. PICK P : Closed(P) /\ Path(P, of[Len(of)], Retrying(s, keep), t)
  BY DEF Has
<1> DEFINE U == (UNION F) \cup P
<1>3. Closed(UNION F)
  <2>1. \A Q \in F : Closed(Q)
    BY <1>1
  <2> HIDE DEF F
  <2> QED BY <2>1, ClosedUnion
<1>4. Closed(U) /\ P \subseteq U
  <2> DEFINE G == UNION F
  <2>1. Closed(G)
    BY <1>3
  <2> HIDE DEF G
  <2>2. Closed(G \cup P)
    BY <1>2, <2>1, ClosedBoth
  <2> HIDE DEF F
  <2> QED BY <2>2 DEF G
<1>5. ASSUME NEW i \in 1 .. Len(of) - 1
      PROVE  IsSeq(of[i]) /\ \E v : Path(U, of[i], Trying(s, keep), v)
             /\ Below(Settled(v, t), t)
  <2>1. PICK v : Path(Of(i), of[i], Trying(s, keep), v)
             /\ Below(Settled(v, t), t)
    BY <1>1
  <2>2. Of(i) \subseteq U
    OBVIOUS
  <2> HIDE DEF U
  <2>3. Path(U, of[i], Trying(s, keep), v)
    BY <2>1, <2>2, PathGrows
  <2> QED BY <2>1, <2>3 DEF Path
<1> HIDE DEF U, F
<1>6. Path(U, of[Len(of)], Retrying(s, keep), t)
  BY <1>2, <1>4, PathGrows
<1>7. ChoiceStep(U, of, s, t)
  BY <1>5, <1>6 DEF ChoiceStep
<1>8. Local(U, Choice(of), s, t)
  BY <1>7 DEF Local, Choice
<1> QED BY <1>4, <1>8, FitIntro

(* A choice whose first parser is nothing.                                 *)
LEMMA EmptyChoiceFit ==
  ASSUME NEW of, IsSeq(of), Len(of) > 0, of[1] = <<>>, NEW s, Below(s, s),
         s.slack # 1
  PROVE  Fit(Choice(of), s, s)
<1>1. ChoiceStep({}, of, s, s)
  BY DEF ChoiceStep, Below
<1>2. Local({}, Choice(of), s, s)
  BY <1>1 DEF Local, Choice
<1> QED BY <1>2, FitAtom

(* A repetition: what one round leaves is what it began with, or less is   *)
(* known of it.                                                            *)
LEMMA RepeatFit ==
  ASSUME NEW f, NEW s, NEW t, NEW v, Below(s, t), Below(s, s), Below(t, t),
         t.slack = 2, Has(f, Inside(t), v), Below(Settled(v, t), t)
  PROVE  Fit(Star(f), s, t)
<1>1. PICK Q : Closed(Q) /\ Path(Q, f, Inside(t), v)
  BY DEF Has
<1>2. RepeatStep(Q, f, s, t)
  BY <1>1 DEF RepeatStep
<1>3. Local(Q, Star(f), s, t)
  BY <1>2 DEF Local, Star
<1> QED BY <1>1, <1>3, FitIntro

-----------------------------------------------------------------------------
(***************************************************************************)
(* Choices inside of a module.                                             *)
(***************************************************************************)
AllHave(of, a, b) == \A i \in 1 .. Len(of) : Has(of[i], a, b)

(* Alternatives that leave the node of the rule.                           *)
LEMMA KeepFit ==
  ASSUME NEW of, IsSeq(of), Len(of) > 0, of[1] # <<>>,
         NEW r, NEW v, NEW l, NEW s, NEW t, NEW n \in Nat \ {0}, NEW m,
         NEW k \in BOOLEAN, NEW l2, NEW s2, NEW t2, NEW m2,
         AllHave(of, At(r, v, l, s, t, n, m, k),
                 At(r, v, l2, s2, t2, n, m2, k)),
         AllHave(of, At(r, v, l, s, t, n, m, TRUE),
                 At(r, v, l2, s2, t2, n, m2, TRUE))
  PROVE  Fit(Choice(of), At(r, v, l, s, t, n, m, k),
             At(r, v, l2, s2, t2, n, m2, k))
<1>0. Len(of) \in Nat
  BY DEF IsSeq
<1> DEFINE a(j) == At(r, v, l, s, t, n, m, j)
           b(j) == At(r, v, l2, s2, t2, n, m2, j)
<1>1. /\ Below(a(k), a(k)) /\ Below(b(k), b(k))
      /\ b(k).kept = a(k).kept /\ a(k).slack <= b(k).slack /\ b(k).slack # 1
  BY DEF Below, At, State
<1>2. Below(a(k), Retrying(a(k), TRUE)) /\ Below(Retrying(a(k), TRUE), a(k))
  BY DEF Below, At, State, Retrying, Valued
<1>3. Below(Trying(a(k), TRUE), a(TRUE)) /\ Below(Settled(b(TRUE), b(k)), b(k))
  BY DEF Below, At, State, Trying, Settled
<1>4. Below(b(TRUE), b(TRUE))
  BY DEF Below, At, State
<1>5. AllHave(of, a(k), b(k)) /\ AllHave(of, a(TRUE), b(TRUE))
  OBVIOUS
<1> HIDE DEF a, b
<1>6. Has(of[Len(of)], Retrying(a(k), TRUE), b(k))
  <2>1. Has(of[Len(of)], a(k), b(k))
    BY <1>0, <1>5 DEF AllHave
  <2> QED BY <1>1, <1>2, <2>1, HasBelow
<1>7. ASSUME NEW i \in 1 .. Len(of) - 1
      PROVE  Has(of[i], Trying(a(k), TRUE), b(TRUE))
             /\ Below(Settled(b(TRUE), b(k)), b(k))
  <2>0. i \in 1 .. Len(of)
    BY <1>0
  <2>1. Has(of[i], a(TRUE), b(TRUE))
    BY <1>5, <2>0, Zenon DEF AllHave
  <2> QED BY <1>3, <1>4, <2>1, HasBelow
<1>8. Fit(Choice(of), a(k), b(k))
  BY <1>1, <1>6, <1>7, ChoiceFit
<1> QED BY <1>8 DEF a, b

(* Alternatives that give the rule its node.                               *)
LEMMA FreeFit ==
  ASSUME NEW of, IsSeq(of), Len(of) > 0, of[1] # <<>>,
         NEW r, NEW v, NEW l, NEW s, NEW t, NEW n \in Nat \ {0}, NEW m,
         NEW v2, NEW l2, NEW s2, NEW t2, NEW m2,
         AllHave(of, At(r, Unknown, l, s, t, n, m, FALSE),
                 At(r, v2, l2, s2, t2, n, m2, FALSE))
  PROVE  Fit(Choice(of), At(r, v, l, s, t, n, m, FALSE),
             At(r, v2, l2, s2, t2, n, m2, FALSE))
<1>0. Len(of) \in Nat
  BY DEF IsSeq
<1> DEFINE a(w) == At(r, w, l, s, t, n, m, FALSE)
           b == At(r, v2, l2, s2, t2, n, m2, FALSE)
<1>1. /\ Below(a(v), a(v)) /\ Below(b, b)
      /\ b.kept = a(v).kept /\ ~ a(v).kept /\ a(v).slack <= b.slack
      /\ b.slack # 1
  BY DEF Below, At, State
<1>2. Below(Retrying(a(v), FALSE), a(Unknown))
  BY DEF Below, At, State, Retrying, Valued
<1>3. Below(Trying(a(v), FALSE), a(Unknown)) /\ Below(Settled(b, b), b)
  BY DEF Below, At, State, Trying, Settled
<1>4. AllHave(of, a(Unknown), b)
  OBVIOUS
<1> HIDE DEF a, b
<1>5. Has(of[Len(of)], Retrying(a(v), FALSE), b)
  <2>1. Has(of[Len(of)], a(Unknown), b)
    BY <1>0, <1>4 DEF AllHave
  <2> QED BY <1>1, <1>2, <2>1, HasBelow
<1>6. ASSUME NEW i \in 1 .. Len(of) - 1
      PROVE  Has(of[i], Trying(a(v), FALSE), b) /\ Below(Settled(b, b), b)
  <2>1. Has(of[i], a(Unknown), b)
    BY <1>0, <1>4 DEF AllHave
  <2> QED BY <1>1, <1>3, <2>1, HasBelow
<1>7. Fit(Choice(of), a(v), b)
  BY <1>1, <1>5, <1>6, ChoiceFit
<1> QED BY <1>7 DEF a, b

(* A choice whose first parser is nothing.                                 *)
LEMMA EmptyAt ==
  ASSUME NEW of, IsSeq(of), Len(of) > 0, of[1] = <<>>,
         NEW r, NEW v, NEW l, NEW s, NEW t, NEW n \in Nat \ {0}, NEW m, NEW k
  PROVE  Fit(Choice(of), At(r, v, l, s, t, n, m, k),
             At(r, v, l, s, t, n, m, k))
<1> DEFINE a == At(r, v, l, s, t, n, m, k)
<1>1. Below(a, a) /\ a.slack # 1
  BY DEF Below, At, State
<1> HIDE DEF a
<1>2. Fit(Choice(of), a, a)
  BY <1>1, EmptyChoiceFit
<1> QED BY <1>2 DEF a

(* The lists of alternatives that a grammar is written with.               *)
LEMMA Alternatives ==
  ASSUME NEW f, NEW g, NEW h, NEW i, NEW a, NEW b
  PROVE  /\ Has(f, a, b) /\ Has(g, a, b) => AllHave(<<f, g>>, a, b)
         /\ Has(f, a, b) /\ Has(g, a, b) /\ Has(h, a, b)
            => AllHave(<<f, g, h>>, a, b)
         /\ Has(f, a, b) /\ Has(g, a, b) /\ Has(h, a, b) /\ Has(i, a, b)
              => AllHave(<<f, g, h, i>>, a, b)
<1>1. Has(f, a, b) /\ Has(g, a, b) => AllHave(<<f, g>>, a, b)
  BY DEF AllHave
<1>2. Has(f, a, b) /\ Has(g, a, b) /\ Has(h, a, b)
      => AllHave(<<f, g, h>>, a, b)
  <2> DEFINE p == <<f, g, h>>
  <2>1. Len(p) = 3 /\ p[1] = f /\ p[2] = g /\ p[3] = h
    OBVIOUS
  <2> HIDE DEF p
  <2>2. Has(f, a, b) /\ Has(g, a, b) /\ Has(h, a, b) => AllHave(p, a, b)
    BY <2>1 DEF AllHave
  <2> QED BY <2>2 DEF p
<1>3. Has(f, a, b) /\ Has(g, a, b) /\ Has(h, a, b) /\ Has(i, a, b)
        => AllHave(<<f, g, h, i>>, a, b)
  <2> DEFINE p == <<f, g, h, i>>
  <2>1. Len(p) = 4 /\ p[1] = f /\ p[2] = g /\ p[3] = h /\ p[4] = i
    OBVIOUS
  <2> HIDE DEF p
  <2>2. Has(f, a, b) /\ Has(g, a, b) /\ Has(h, a, b) /\ Has(i, a, b)
        => AllHave(p, a, b)
    BY <2>1 DEF AllHave
  <2> QED BY <2>2 DEF p
<1> QED BY <1>1, <1>2, <1>3

(* What may be left out.                                                   *)
LEMMA OptFit ==
  ASSUME NEW f, f # <<>>,
         NEW r, NEW v, NEW l, NEW s, NEW t, NEW n \in Nat \ {0}, NEW m,
         NEW k \in BOOLEAN, NEW l2, NEW s2, NEW t2,
         l \subseteq l2, s \subseteq s2, t \subseteq t2,
         Has(f, At(r, v, l, s, t, n, m, k), At(r, v, l2, s2, t2, n, m, k)),
         Has(f, At(r, v, l, s, t, n, m, TRUE),
             At(r, v, l2, s2, t2, n, m, TRUE))
  PROVE  Fit(Opt(f), At(r, v, l, s, t, n, m, k), At(r, v, l2, s2, t2, n, m, k))
<1>1. \A j : Below(At(r, v, l, s, t, n, m, j), At(r, v, l2, s2, t2, n, m, j))
  BY AtBelow
<1>2. \A j : Has(<<>>, At(r, v, l, s, t, n, m, j),
                 At(r, v, l2, s2, t2, n, m, j))
  BY <1>1, AtBelow, HasNothing
<1> DEFINE of == <<f, <<>>>>
<1>3. /\ AllHave(of, At(r, v, l, s, t, n, m, k), At(r, v, l2, s2, t2, n, m, k))
      /\ AllHave(of, At(r, v, l, s, t, n, m, TRUE),
                 At(r, v, l2, s2, t2, n, m, TRUE))
  BY <1>2, Alternatives
<1>4. IsSeq(of)
  BY Literal
<1>5. Len(of) > 0 /\ of[1] # <<>>
  OBVIOUS
<1> HIDE DEF of
<1>6. Fit(Choice(of), At(r, v, l, s, t, n, m, k),
          At(r, v, l2, s2, t2, n, m, k))
  BY <1>3, <1>4, <1>5, KeepFit
<1> QED BY <1>6 DEF Opt, of

(* An info is set on the node of the rule.                                 *)
LEMMA InfoFit ==
  ASSUME NEW r, NEW v, NEW l, NEW s, NEW t, NEW n \in Nat \ {0}, NEW m,
         NEW k \in BOOLEAN, "none" \notin v
  PROVE  Fit(Info, At(r, v, l, s, t, n, m, k), At(r, v, l, s, t, n, m, k))
<1> DEFINE a(p, j) == At(r, v, l, s, t, n, p, j)
           act == [item |-> "info"]
<1>1. \A j : Fit(T("info"), a(m, j), a(TRUE, j))
  BY TokenFit
<1>2. \A j : Fit(act, a(TRUE, j), a(TRUE, j))
  <2> TAKE j
  <2> DEFINE b == a(TRUE, j)
  <2>1. Below(b, b) /\ b.val = v
    BY DEF Below, At, State
  <2> HIDE DEF b
  <2>2. Local({}, act, b, b)
    BY <2>1 DEF Local
  <2> QED BY <2>2, FitAtom DEF b
<1>3. \A j : Below(a(m, j), a(m, j)) /\ Below(a(TRUE, j), a(m, j))
  BY AtBelow
<1> HIDE DEF a, act
<1>4. \A j : Has(<<T("info"), act>>, a(m, j), a(TRUE, j))
  BY <1>1, <1>2, Has2
<1>5. \A j : Has(<<T("info"), act>>, a(m, j), a(m, j))
  BY <1>3, <1>4, HasBelow
<1>6. <<T("info"), act>> # <<>>
  OBVIOUS
<1> QED BY <1>5, <1>6, OptFit DEF Info, a, act

(* What may come as often as it does: nothing is known of the attributes   *)
(* behind it.                                                              *)
LEMMA StarFit ==
  ASSUME NEW f, NEW r, NEW v, NEW l, NEW s, NEW t, NEW n \in Nat \ {0}, NEW m,
         NEW k,
         l \subseteq Unknown, s \subseteq Unknown, t \subseteq Unknown,
         Has(f, At(r, v, Unknown, Unknown, Unknown, n, m, TRUE),
                At(r, v, Unknown, Unknown, Unknown, n, m, TRUE))
  PROVE  Fit(Star(f), At(r, v, l, s, t, n, m, k),
             At(r, v, Unknown, Unknown, Unknown, n, m, k))
<1> DEFINE a == At(r, v, l, s, t, n, m, k)
           b == At(r, v, Unknown, Unknown, Unknown, n, m, k)
           c == At(r, v, Unknown, Unknown, Unknown, n, m, TRUE)
<1>1. Below(a, b) /\ Below(a, a) /\ Below(b, b) /\ b.slack = 2
  BY DEF Below, At, State
<1>2. Below(Inside(b), c) /\ Below(Settled(c, b), b) /\ Below(c, c)
  BY DEF Below, Inside, Settled, At, State
<1> HIDE DEF a, b, c
<1>3. Has(f, c, c)
  BY DEF c
<1>4. Has(f, Inside(b), c)
  BY <1>2, <1>3, HasBelow
<1> QED BY <1>1, <1>2, <1>4, RepeatFit DEF a, b

(* Words one after the other.                                              *)
LEMMA TokensHave ==
  ASSUME NEW ts, IsSeq(ts), Len(ts) > 0,
         \A i \in 1 .. Len(ts) : ts[i] \notin {"end-of-input", "flip",
                                               "INDENT", "DEDENT"},
         NEW r, NEW v, NEW l, NEW s, NEW t, NEW n \in Nat \ {0}, NEW m, NEW k
  PROVE  Has(Tokens(ts), At(r, v, l, s, t, n, m, k),
             At(r, v, l, s, t, n, TRUE, k))
<1> DEFINE a == At(r, v, l, s, t, n, m, k)
           b == At(r, v, l, s, t, n, TRUE, k)
           f == Tokens(ts)
           at == [i \in 0 .. Len(ts) |-> IF i = 0 THEN a ELSE b]
<1>1. Len(ts) \in Nat
  BY DEF IsSeq
<1>2. Len(f) = Len(ts) /\ \A i \in 1 .. Len(f) : f[i] = T(ts[i])
  BY <1>1 DEF Tokens
<1>3. IsSeq(f)
  <2> DEFINE I == {T(ts[i]) : i \in 1 .. Len(ts)}
  <2>1. f \in Seq(I)
    BY <1>1 DEF Tokens
  <2> QED BY <2>1 DEF IsSeq
<1>4. Below(a, a) /\ Below(b, b)
  BY AtBelow
<1> HIDE DEF f
<1>5. \A i \in 1 .. Len(f) : Fit(f[i], a, b) /\ Fit(f[i], b, b)
  BY <1>2, TokenFit
<1> HIDE DEF a, b
<1>6. ASSUME NEW i \in 1 .. Len(f)
      PROVE  \E u : Fit(f[i], at[i - 1], u) /\ Below(u, at[i])
  <2>1. at[i] = b /\ (at[i - 1] = a \/ at[i - 1] = b)
    BY <1>1, <1>2
  <2> HIDE DEF at
  <2> QED BY <1>4, <1>5, <2>1
<1>7. at[0] = a /\ at[Len(f)] = b
  BY <1>1, <1>2
<1> HIDE DEF at
<1>8. Has(f, a, b)
  BY <1>3, <1>4, <1>6, <1>7, HasIntro
<1> QED BY <1>8 DEF a, b, f

(* Sequences that are not empty.                                           *)
LEMMA TokensAre ==
  ASSUME NEW ts, IsSeq(ts)
  PROVE  IsSeq(Tokens(ts)) /\ Len(Tokens(ts)) = Len(ts)
<1>1. Len(ts) \in Nat
  BY DEF IsSeq
<1> DEFINE I == {T(ts[i]) : i \in 1 .. Len(ts)}
<1>2. Tokens(ts) \in Seq(I) /\ Len(Tokens(ts)) = Len(ts)
  BY <1>1 DEF Tokens
<1> QED BY <1>2 DEF IsSeq

(* A rule that only chooses between others.                                *)
LEMMA OneOfHas ==
  ASSUME NEW rules, IsSeq(rules), Len(rules) > 0, NEW kinds,
         "none" \notin kinds,
         NEW r, NEW v, NEW n \in Nat \ {0},
         \A i \in 1 .. Len(rules) :
           /\ rules[i] \in DOMAIN Grammar \ {"circuit", "exp_helper"}
           /\ MayBegin(r, rules[i]) /\ RuleKinds(rules[i]) \subseteq kinds
  PROVE  Has(OneOf(rules), At(r, v, Unknown, Unknown, Unknown, n, FALSE,
                              FALSE),
             At(r, kinds, kinds, Unknown, Unknown, n, TRUE, FALSE))
<1> DEFINE a(w) == At(r, w, Unknown, Unknown, Unknown, n, FALSE, FALSE)
           b(l) == At(r, Unknown, l, Unknown, Unknown, n, TRUE, FALSE)
           c(l) == At(r, l, l, Unknown, Unknown, n, TRUE, FALSE)
           of == [i \in 1 .. Len(rules) |-> <<R(rules[i]), Take>>]
<1>1. Len(rules) \in Nat
  BY DEF IsSeq
<1>2. Len(of) = Len(rules) /\ \A i \in 1 .. Len(of) :
      of[i] = <<R(rules[i]), Take>>
  BY <1>1
<1>3. IsSeq(of)
  <2> DEFINE I == {<<R(rules[i]), Take>> : i \in 1 .. Len(rules)}
  <2>1. of \in Seq(I)
    BY <1>1
  <2> QED BY <2>1 DEF IsSeq
<1>4. of[1] # <<>>
  BY <1>1, <1>2
<1> HIDE DEF of
<1>5. ASSUME NEW i \in 1 .. Len(of)
      PROVE  Has(of[i], a(Unknown), c(kinds))
  <2> DEFINE q == rules[i]
             k == RuleKinds(q)
  <2>1. Fit(R(q), a(Unknown), b(k))
    BY <1>2, RuleFit
  <2>2. Fit(Take, b(k), c(k))
    BY <1>2, TakeFit
  <2>3. Has(<<R(q), Take>>, a(Unknown), c(k))
    BY <2>1, <2>2, Has2
  <2>4. Below(a(Unknown), a(Unknown)) /\ Below(c(k), c(kinds))
    BY <1>2, AtBelow
  <2> HIDE DEF a, c
  <2> QED BY <1>2, <2>3, <2>4, HasBelow
<1>6. AllHave(of, a(Unknown), c(kinds))
  BY <1>5 DEF AllHave
<1>7. Fit(Choice(of), a(v), c(kinds))
  BY <1>1, <1>2, <1>3, <1>4, <1>6, FreeFit
<1> HIDE DEF a, c
<1>8. Has(<<Choice(of)>>, a(v), c(kinds))
  BY <1>7, Has1
<1> QED BY <1>8 DEF OneOf, a, c, of
(* Two alternatives that leave the node of the rule.                       *)
LEMMA KeepTwo ==
  ASSUME NEW f, NEW g, f # <<>>,
         NEW r, NEW v, NEW l, NEW s, NEW t, NEW n \in Nat \ {0}, NEW m,
         NEW k \in BOOLEAN, NEW l2, NEW s2, NEW t2, NEW m2,
         \A j \in BOOLEAN : Has(f, At(r, v, l, s, t, n, m, j),
                                At(r, v, l2, s2, t2, n, m2, j)),
         \A j \in BOOLEAN : Has(g, At(r, v, l, s, t, n, m, j),
                                At(r, v, l2, s2, t2, n, m2, j))
  PROVE  Fit(Choice(<<f, g>>), At(r, v, l, s, t, n, m, k),
             At(r, v, l2, s2, t2, n, m2, k))
<1> DEFINE of == <<f, g>>
<1>1. IsSeq(of)
  BY Literal
<1>2. Len(of) > 0 /\ of[1] # <<>>
  OBVIOUS
<1>3. \A j \in BOOLEAN : AllHave(of, At(r, v, l, s, t, n, m, j),
                                 At(r, v, l2, s2, t2, n, m2, j))
  BY Alternatives
<1> HIDE DEF of
<1>4. Fit(Choice(of), At(r, v, l, s, t, n, m, k),
          At(r, v, l2, s2, t2, n, m2, k))
  BY <1>1, <1>2, <1>3, KeepFit
<1> QED BY <1>4 DEF of

(* Three alternatives that leave the node of the rule.                     *)
LEMMA KeepThree ==
  ASSUME NEW f, NEW g, NEW h, f # <<>>,
         NEW r, NEW v, NEW l, NEW s, NEW t, NEW n \in Nat \ {0}, NEW m,
         NEW k \in BOOLEAN, NEW l2, NEW s2, NEW t2, NEW m2,
         \A j \in BOOLEAN : Has(f, At(r, v, l, s, t, n, m, j),
                                At(r, v, l2, s2, t2, n, m2, j)),
         \A j \in BOOLEAN : Has(g, At(r, v, l, s, t, n, m, j),
                                At(r, v, l2, s2, t2, n, m2, j)),
         \A j \in BOOLEAN : Has(h, At(r, v, l, s, t, n, m, j),
                                At(r, v, l2, s2, t2, n, m2, j))
  PROVE  Fit(Choice(<<f, g, h>>), At(r, v, l, s, t, n, m, k),
             At(r, v, l2, s2, t2, n, m2, k))
<1> DEFINE of == <<f, g, h>>
<1>1. IsSeq(of)
  BY Literal
<1>2. Len(of) > 0 /\ of[1] # <<>>
  OBVIOUS
<1>3. \A j \in BOOLEAN : AllHave(of, At(r, v, l, s, t, n, m, j),
                                 At(r, v, l2, s2, t2, n, m2, j))
  BY Alternatives
<1> HIDE DEF of
<1>4. Fit(Choice(of), At(r, v, l, s, t, n, m, k),
          At(r, v, l2, s2, t2, n, m2, k))
  BY <1>1, <1>2, <1>3, KeepFit
<1> QED BY <1>4 DEF of

(* Four alternatives that leave the node of the rule.                      *)
LEMMA KeepFour ==
  ASSUME NEW f, NEW g, NEW h, NEW i, f # <<>>,
         NEW r, NEW v, NEW l, NEW s, NEW t, NEW n \in Nat \ {0}, NEW m,
         NEW k \in BOOLEAN, NEW l2, NEW s2, NEW t2, NEW m2,
         \A j \in BOOLEAN : Has(f, At(r, v, l, s, t, n, m, j),
                                At(r, v, l2, s2, t2, n, m2, j)),
         \A j \in BOOLEAN : Has(g, At(r, v, l, s, t, n, m, j),
                                At(r, v, l2, s2, t2, n, m2, j)),
         \A j \in BOOLEAN : Has(h, At(r, v, l, s, t, n, m, j),
                                At(r, v, l2, s2, t2, n, m2, j)),
         \A j \in BOOLEAN : Has(i, At(r, v, l, s, t, n, m, j),
                                At(r, v, l2, s2, t2, n, m2, j))
  PROVE  Fit(Choice(<<f, g, h, i>>), At(r, v, l, s, t, n, m, k),
             At(r, v, l2, s2, t2, n, m2, k))
<1> DEFINE of == <<f, g, h, i>>
<1>1. IsSeq(of)
  BY Literal
<1>2. Len(of) > 0 /\ of[1] # <<>>
  OBVIOUS
<1>3. \A j \in BOOLEAN : AllHave(of, At(r, v, l, s, t, n, m, j),
                                 At(r, v, l2, s2, t2, n, m2, j))
  BY Alternatives
<1> HIDE DEF of
<1>4. Fit(Choice(of), At(r, v, l, s, t, n, m, k),
          At(r, v, l2, s2, t2, n, m2, k))
  BY <1>1, <1>2, <1>3, KeepFit
<1> QED BY <1>4 DEF of

(* Two alternatives that give the rule its node.                           *)
LEMMA FreeTwo ==
  ASSUME NEW f, NEW g, f # <<>>,
         NEW r, NEW v, NEW l, NEW s, NEW t, NEW n \in Nat \ {0}, NEW m,
         NEW v2, NEW l2, NEW s2, NEW t2, NEW m2,
         Has(f, At(r, Unknown, l, s, t, n, m, FALSE),
             At(r, v2, l2, s2, t2, n, m2, FALSE)),
         Has(g, At(r, Unknown, l, s, t, n, m, FALSE),
             At(r, v2, l2, s2, t2, n, m2, FALSE))
  PROVE  Fit(Choice(<<f, g>>), At(r, v, l, s, t, n, m, FALSE),
             At(r, v2, l2, s2, t2, n, m2, FALSE))
<1> DEFINE of == <<f, g>>
<1>1. IsSeq(of)
  BY Literal
<1>2. Len(of) > 0 /\ of[1] # <<>>
  OBVIOUS
<1>3. AllHave(of, At(r, Unknown, l, s, t, n, m, FALSE),
              At(r, v2, l2, s2, t2, n, m2, FALSE))
  BY Alternatives
<1> HIDE DEF of
<1>4. Fit(Choice(of), At(r, v, l, s, t, n, m, FALSE),
          At(r, v2, l2, s2, t2, n, m2, FALSE))
  BY <1>1, <1>2, <1>3, FreeFit
<1> QED BY <1>4 DEF of

(* Four alternatives that give the rule its node.                          *)
LEMMA FreeFour ==
  ASSUME NEW f, NEW g, NEW h, NEW i, f # <<>>,
         NEW r, NEW v, NEW l, NEW s, NEW t, NEW n \in Nat \ {0}, NEW m,
         NEW v2, NEW l2, NEW s2, NEW t2, NEW m2,
         Has(f, At(r, Unknown, l, s, t, n, m, FALSE),
             At(r, v2, l2, s2, t2, n, m2, FALSE)),
         Has(g, At(r, Unknown, l, s, t, n, m, FALSE),
             At(r, v2, l2, s2, t2, n, m2, FALSE)),
         Has(h, At(r, Unknown, l, s, t, n, m, FALSE),
             At(r, v2, l2, s2, t2, n, m2, FALSE)),
         Has(i, At(r, Unknown, l, s, t, n, m, FALSE),
             At(r, v2, l2, s2, t2, n, m2, FALSE))
  PROVE  Fit(Choice(<<f, g, h, i>>), At(r, v, l, s, t, n, m, FALSE),
             At(r, v2, l2, s2, t2, n, m2, FALSE))
<1> DEFINE of == <<f, g, h, i>>
<1>1. IsSeq(of)
  BY Literal
<1>2. Len(of) > 0 /\ of[1] # <<>>
  OBVIOUS
<1>3. AllHave(of, At(r, Unknown, l, s, t, n, m, FALSE),
              At(r, v2, l2, s2, t2, n, m2, FALSE))
  BY Alternatives
<1> HIDE DEF of
<1>4. Fit(Choice(of), At(r, v, l, s, t, n, m, FALSE),
          At(r, v2, l2, s2, t2, n, m2, FALSE))
  BY <1>1, <1>2, <1>3, FreeFit
<1> QED BY <1>4 DEF of

-----------------------------------------------------------------------------
(* The names of the rules.                                                 *)
LEMMA RuleNames ==
  DOMAIN Grammar =
    {"circuit", "module", "intmodule", "extmodule", "port",
     "type", "type_int", "type_bundle", "type_vector", "field",
     "stmt", "stmt_group", "stmt_suite", "wire", "reg", "mem", "inst", "node",
     "connect", "partconnect", "invalidate", "conditional", "conditional_else",
     "stop", "printf_", "empty",
     "reference", "exp_", "exp_helper", "exp_int", "mux", "validif", "primop"}
BY DEF Grammar

(* The kinds of their nodes.                                               *)
LEMMA KindsOfRules ==
  /\ RuleKinds("circuit") = {"Circuit"} /\ RuleKinds("module") = Modules
  /\ RuleKinds("intmodule") = {"Module"}
  /\ RuleKinds("extmodule") = {"ExtModule"}
  /\ RuleKinds("port") = {"Port"} /\ RuleKinds("type") = ReadTypes
  /\ RuleKinds("type_int") = {"TypeInt"}
  /\ RuleKinds("type_bundle") = {"TypeBundle"}
  /\ RuleKinds("type_vector") = {} /\ RuleKinds("field") = {"Field"}
  /\ RuleKinds("stmt") = Stmts /\ RuleKinds("stmt_group") = {"StmtGroup"}
  /\ RuleKinds("stmt_suite") = {"StmtGroup"}
  /\ RuleKinds("conditional") = {"Conditional"}
  /\ RuleKinds("conditional_else") = {"ConditionalElse"}
  /\ RuleKinds("reference") = {"Reference"} /\ RuleKinds("exp_") = ReadExps
  /\ RuleKinds("exp_helper") = ReadExps
BY DEF RuleKinds

(* Which kinds may be given to which pointers.                             *)
LEMMA KindsAndPointers ==
  /\ \A x \in {"mClock", "mCond", "mExpr", "mTo", "mFrom", "mExp", "mOf",
               "mSel",
               "mA", "mB", "mOperands", "mResetTrigger", "mResetValue"} :
       Takes(x) = ReadExps
  /\ Takes("mField") = {"Reference"}
  /\ Takes("mType") = Types /\ Takes("mDType") = Types
  /\ Takes("mPorts") = {"Port"}
  /\ Takes("mStmts") = {"StmtGroup"} /\ Takes("mThen") = {"StmtGroup"}
  /\ Takes("mGroup") = Stmts
  /\ Takes("mModules") = Modules
<1>1. ASSUME NEW x \in {"mClock", "mCond", "mExpr", "mTo", "mFrom", "mExp",
                        "mOf", "mSel",
               "mA", "mB", "mOperands", "mResetTrigger", "mResetValue"}
      PROVE  Takes(x) = ReadExps
  <2>1. Pointee(x) = Expressions
    BY DEF Pointee
  <2> QED BY <2>1 DEF Takes, ReadExps, Unread, Expressions
<1>2. /\ Pointee("mField") = {"Reference"} /\ Pointee("mType") = Types
      /\ Pointee("mDType") = Types /\ Pointee("mPorts") = {"Port"}
      /\ Pointee("mStmts") = {"StmtGroup"} /\ Pointee("mThen") = {"StmtGroup"}
      /\ Pointee("mGroup") = Stmts
  BY DEF Pointee
<1>3. /\ Types \ Unread = Types /\ Stmts \ Unread = Stmts
      /\ Modules \ Unread = Modules
      /\ {"Reference"} \ Unread = {"Reference"} /\ {"Port"} \ Unread = {"Port"}
      /\ {"StmtGroup"} \ Unread = {"StmtGroup"}
  BY DEF Types, Stmts, Modules, Unread
<1> QED BY <1>1, <1>2, <1>3 DEF Takes

(* How the sets of kinds lie in each other.                                *)
LEMMA KindSets ==
  /\ ReadKinds \subseteq Unknown /\ {"none"} \subseteq Unknown
  /\ ReadExps \subseteq Expressions /\ ReadExps \subseteq Unknown
  /\ ReadTypes \subseteq Types /\ ReadTypes \subseteq Unknown
  /\ Types \subseteq Unknown /\ Stmts \subseteq Unknown
  /\ Modules \subseteq Unknown
  /\ \A k \in ReadKinds : {k} \subseteq Unknown
  /\ \A k \in {"Reference", "Constant", "SubField", "Mux", "CondValid",
               "PrimOp"} :
       {k} \subseteq ReadExps
  /\ \A k \in {"TypeInt", "TypeClock", "TypeBundle"} : {k} \subseteq ReadTypes
  /\ "none" \notin ReadExps /\ "none" \notin ReadTypes /\ "none" \notin Stmts
  /\ "none" \notin Modules /\ "none" \notin ReadKinds
BY DEF Unknown, ReadKinds, Unread, AllKinds, ReadExps, ReadTypes, Expressions,
   Types, Stmts, Modules

(* The kinds that the grammar makes are kinds of the IR.                   *)
LEMMA KindNames ==
  {"Circuit", "Port", "Field", "ConditionalElse", "Module", "ExtModule",
   "TypeInt",
   "TypeClock", "TypeBundle", "TypeVector", "StmtGroup", "Wire", "Reg",
     "Instance",
   "Memory", "Node", "Connect", "Invalid", "Conditional", "Stop", "Printf",
     "Empty",
   "Reference", "Constant", "SubField", "Mux", "CondValid", "PrimOp"}
    \subseteq ReadKinds
BY DEF ReadKinds, Unread, AllKinds, Expressions, Types, Stmts, Modules

(* Sets of kinds that a state may tell of, as parts of all that can be     *)
(* unknown.                                                                *)
LEMMA Known ==
  /\ {} \subseteq Unknown /\ {"none"} \subseteq Unknown
  /\ Unknown \subseteq Unknown
  /\ {"Port"} \subseteq Unknown /\ {"Field"} \subseteq Unknown
  /\ {"StmtGroup"} \subseteq Unknown /\ {"Reference"} \subseteq Unknown
  /\ {"Conditional"} \subseteq Unknown /\ {"ConditionalElse"} \subseteq Unknown
  /\ {"TypeInt"} \subseteq Unknown /\ {"TypeBundle"} \subseteq Unknown
  /\ ReadExps \subseteq Unknown /\ ReadTypes \subseteq Unknown
  /\ Stmts \subseteq Unknown /\ Modules \subseteq Unknown
BY KindSets, KindNames

(* Who may begin where another did.                                        *)
LEMMA Beginnings ==
  /\ \A q \in {"intmodule", "extmodule"} : MayBegin("module", q)
  /\ MayBegin("stmt_group", "stmt")
  /\ \A q \in {"wire", "reg", "mem", "inst", "node", "connect", "partconnect",
               "invalidate", "conditional", "stop", "printf_",
                 "empty"} : MayBegin("stmt", q)
  /\ \A q \in {"connect", "partconnect", "invalidate"} : MayBegin(q, "exp_")
  /\ \A q \in {"reference", "exp_int", "mux", "validif",
               "primop"} : MayBegin("exp_", q)
  /\ MayBegin("exp_int", "type_int")
  /\ \A q \in {"type_int", "type_bundle", "type_vector"} : MayBegin("type", q)
  /\ MayBegin("type_vector", "type")
<1>1. NULL \notin DOMAIN Grammar
  BY InputsAssumption
<1> DEFINE rank(r) == CASE r = "circuit" -> 8
    [] r = "module" -> 7
    [] r = "stmt_group" -> 6
    [] r = "stmt" -> 5
    [] r = "exp_" -> 3
    [] r \in {"reference", "exp_int", "mux", "validif", "primop", "type",
              "type_vector"} -> 2
    [] r \in {"type_int", "type_bundle"} -> 1
    [] OTHER -> 4
<1>2. \A r \in DOMAIN Grammar : Rank(r) = rank(r)
  BY <1>1 DEF Rank
<1>3. /\ rank("module") = 7 /\ rank("stmt_group") = 6 /\ rank("stmt") = 5
      /\ rank("exp_") = 3
      /\ rank("type_int") = 1
      /\ \A q \in {"reference", "exp_int", "mux", "validif",
                   "primop"} : rank(q) = 2
      /\ \A q \in {"intmodule", "extmodule", "wire", "reg", "mem", "inst",
                   "node", "connect",
               "partconnect", "invalidate", "conditional", "stop", "printf_",
                 "empty"} : rank(q) = 4
      /\ rank("type") = 2 /\ rank("type_bundle") = 1
  OBVIOUS
<1> HIDE DEF rank
<1> QED BY <1>2, <1>3, RuleNames DEF MayBegin, TypeLoop

(* The calls.                                                              *)
LEMMA CallFit ==
  ASSUME NEW r, NEW v, NEW l, NEW s, NEW t, NEW n \in Nat \ {0}, NEW m, NEW k
  PROVE
         /\ m \/ MayBegin(r, "module") =>
              Fit(R("module"), At(r, v, l, s, t, n, m, k),
                  At(r, v, Modules, l, s, n, TRUE, k))
         /\ m \/ MayBegin(r, "port") =>
              Fit(R("port"), At(r, v, l, s, t, n, m, k),
                  At(r, v, {"Port"}, l, s, n, TRUE, k))
         /\ m \/ MayBegin(r, "type") =>
              Fit(R("type"), At(r, v, l, s, t, n, m, k),
                  At(r, v, ReadTypes, l, s, n, TRUE, k))
         /\ m \/ MayBegin(r, "type_int") =>
              Fit(R("type_int"), At(r, v, l, s, t, n, m, k),
                  At(r, v, {"TypeInt"}, l, s, n, TRUE, k))
         /\ m \/ MayBegin(r, "type_bundle") =>
              Fit(R("type_bundle"), At(r, v, l, s, t, n, m, k),
                  At(r, v, {"TypeBundle"}, l, s, n, TRUE, k))
         /\ m \/ MayBegin(r, "type_vector") =>
              Fit(R("type_vector"), At(r, v, l, s, t, n, m, k),
                  At(r, v, {}, l, s, n, TRUE, k))
         /\ m \/ MayBegin(r, "field") =>
              Fit(R("field"), At(r, v, l, s, t, n, m, k),
                  At(r, v, {"Field"}, l, s, n, TRUE, k))
         /\ m \/ MayBegin(r, "stmt") =>
              Fit(R("stmt"), At(r, v, l, s, t, n, m, k),
                  At(r, v, Stmts, l, s, n, TRUE, k))
         /\ m \/ MayBegin(r, "stmt_group") =>
              Fit(R("stmt_group"), At(r, v, l, s, t, n, m, k),
                  At(r, v, {"StmtGroup"}, l, s, n, TRUE, k))
         /\ m \/ MayBegin(r, "stmt_suite") =>
              Fit(R("stmt_suite"), At(r, v, l, s, t, n, m, k),
                  At(r, v, {"StmtGroup"}, l, s, n, TRUE, k))
         /\ m \/ MayBegin(r, "conditional") =>
              Fit(R("conditional"), At(r, v, l, s, t, n, m, k),
                  At(r, v, {"Conditional"}, l, s, n, TRUE, k))
         /\ m \/ MayBegin(r, "conditional_else") =>
              Fit(R("conditional_else"), At(r, v, l, s, t, n, m, k),
                  At(r, v, {"ConditionalElse"}, l, s, n, TRUE, k))
         /\ m \/ MayBegin(r, "reference") =>
              Fit(R("reference"), At(r, v, l, s, t, n, m, k),
                  At(r, v, {"Reference"}, l, s, n, TRUE, k))
         /\ m \/ MayBegin(r, "exp_") =>
              Fit(R("exp_"), At(r, v, l, s, t, n, m, k),
                  At(r, v, ReadExps, l, s, n, TRUE, k))
<1>1. ASSUME NEW q \in DOMAIN Grammar \ {"circuit", "exp_helper"}, m
             \/ MayBegin(r, q)
      PROVE  Fit(R(q), At(r, v, l, s, t, n, m, k),
                 At(r, v, RuleKinds(q), l, s, n, TRUE, k))
  BY <1>1, RuleFit
<1> QED BY <1>1, RuleNames, KindsOfRules

(* The rule intmodule gives a module, and leaves the blocks as they were.  *)
LEMMA IntmoduleFits ==
  ASSUME NEW n \in Nat \ {0}
  PROVE  Has(intmodule,
             At("intmodule", {"none"}, Unknown, Unknown, Unknown, n, FALSE,
                FALSE),
             At("intmodule", {"Module"}, Unknown, Unknown, Unknown, n, TRUE,
                FALSE))
<1> DEFINE In(val, last, open, moved, kept) ==
             At("intmodule", val, last, Unknown, Unknown, open, moved, kept)
<1> DEFINE Start == In({"none"}, Unknown, n, FALSE, FALSE)
           Going == In({"none"}, Unknown, n, TRUE, FALSE)
           Built(kept) == In({"Module"}, Unknown, n, TRUE, kept)
<1>0. PICK o \in Nat \ {0} : o = n + 1
  OBVIOUS
<1>1. Has(<<T("module"), T("identifier"), Make("Module", <<>>), T(":"), Info,
            Opt(<<T("INDENT"), Ports>> \o Body \o <<T("DEDENT")>>)>>,
          Start,
          Built(FALSE))
  <2>1. Fit(T("module"), Start, Going)
    BY TokenFit
  <2>2. Fit(T("identifier"), Going, Going)
    BY TokenFit
  <2>3. Fit(Make("Module", <<>>), Going, Built(FALSE))
    BY MakeFit, KindNames
  <2>4. Fit(T(":"), Built(FALSE), Built(FALSE))
    BY TokenFit
  <2>5. Fit(Info, Built(FALSE), Built(FALSE))
    BY InfoFit
  <2>6. Fit(Opt(<<T("INDENT"), Ports>> \o Body \o <<T("DEDENT")>>),
            Built(FALSE),
            Built(FALSE))
    <3>1. ASSUME NEW k3 \in BOOLEAN
          PROVE  Has(<<T("INDENT"), Ports>> \o Body \o <<T("DEDENT")>>,
                     Built(k3),
                     Built(k3))
      <4>1. Has(<<T("INDENT"), Ports>>, Built(k3),
                In({"Module"}, Unknown, o, TRUE, k3))
        <5>1. Fit(T("INDENT"), Built(k3), In({"Module"}, Unknown, o, TRUE, k3))
          BY <1>0, IndentFit
        <5>2. Fit(Ports, In({"Module"}, Unknown, o, TRUE, k3),
                  In({"Module"}, Unknown, o, TRUE, k3))
          <6>1. Has(<<R("port"), Attach("mPorts")>>,
                    In({"Module"}, Unknown, o, TRUE, TRUE),
                    In({"Module"}, Unknown, o, TRUE, TRUE))
            <7>1. Fit(R("port"), In({"Module"}, Unknown, o, TRUE, TRUE),
                      In({"Module"}, {"Port"}, o, TRUE, TRUE))
              BY CallFit
            <7>2. Fit(Attach("mPorts"),
                      In({"Module"}, {"Port"}, o, TRUE, TRUE),
                      In({"Module"}, {"Port"}, o, TRUE, TRUE))
              BY ActFit, KindsAndPointers, KindSets
            <7>3. Has(<<R("port"), Attach("mPorts")>>,
                      In({"Module"}, Unknown, o, TRUE, TRUE),
                      In({"Module"}, {"Port"}, o, TRUE, TRUE))
              BY <7>1, <7>2, Has2
            <7>4. /\ Below(In({"Module"}, Unknown, o, TRUE, TRUE),
                           In({"Module"}, Unknown, o, TRUE, TRUE))
                  /\ Below(In({"Module"}, {"Port"}, o, TRUE, TRUE),
                           In({"Module"}, Unknown, o, TRUE, TRUE))
              BY AtBelow, Known, KindSets
            <7> QED BY <7>3, <7>4, HasBelow
          <6> QED BY <6>1, StarFit, Known DEF Ports
        <5> QED BY <5>1, <5>2, Has2
      <4>2. Has(Body, In({"Module"}, Unknown, o, TRUE, k3),
                In({"Module"}, {"StmtGroup"}, o, TRUE, k3))
        <5>1. Fit(R("stmt_group"), In({"Module"}, Unknown, o, TRUE, k3),
                  In({"Module"}, {"StmtGroup"}, o, TRUE, k3))
          BY CallFit
        <5>2. Fit(Attach("mStmts"), In({"Module"}, {"StmtGroup"}, o, TRUE, k3),
                  In({"Module"}, {"StmtGroup"}, o, TRUE, k3))
          BY ActFit, KindsAndPointers, KindSets
        <5> QED BY <5>1, <5>2, Has2 DEF Body
      <4>3. Has(<<T("DEDENT")>>, In({"Module"}, {"StmtGroup"}, o, TRUE, k3),
                In({"Module"}, {"StmtGroup"}, n, TRUE, k3))
        <5>1. Fit(T("DEDENT"), In({"Module"}, {"StmtGroup"}, o, TRUE, k3),
                  In({"Module"}, {"StmtGroup"}, n, TRUE, k3))
          BY <1>0, IndentFit
        <5> QED BY <5>1, Has1
      <4>4. Has(<<T("INDENT"), Ports>> \o Body, Built(k3),
                In({"Module"}, {"StmtGroup"}, o, TRUE, k3))
        BY <4>1, <4>2, HasConcat
      <4>5. Has(<<T("INDENT"), Ports>> \o Body \o <<T("DEDENT")>>, Built(k3),
                In({"Module"}, {"StmtGroup"}, n, TRUE, k3))
        BY <4>4, <4>3, HasConcat
      <4>6. /\ Below(Built(k3), Built(k3))
            /\ Below(In({"Module"}, {"StmtGroup"}, n, TRUE, k3), Built(k3))
        BY AtBelow, Known, KindSets
      <4> QED BY <4>5, <4>6, HasBelow
    <3>2. <<T("INDENT"), Ports>> \o Body \o <<T("DEDENT")>> # <<>>
      <4> DEFINE f == <<T("INDENT"), Ports>> h == <<T("DEDENT")>>
      <4>1. IsSeq(f) /\ IsSeq(h)
        BY Literal
      <4>2. IsSeq(Body)
        BY Literal DEF Body
      <4>3. Len(f) > 0
        OBVIOUS
      <4> HIDE DEF f, h
      <4>4. f \o Body \o h # <<>>
        BY <4>1, <4>2, <4>3, Longer
      <4> QED BY <4>4 DEF f, h
    <3> QED BY <3>1, <3>2, OptFit, Known
  <2> QED BY <2>1, <2>2, <2>3, <2>4, <2>5, <2>6, Has6
<1> QED BY <1>1 DEF intmodule

(* The rule extmodule gives an external module, and leaves the blocks as   *)
(* they were.                                                              *)
LEMMA ExtmoduleFits ==
  ASSUME NEW n \in Nat \ {0}
  PROVE  Has(extmodule,
             At("extmodule", {"none"}, Unknown, Unknown, Unknown, n, FALSE,
                FALSE),
             At("extmodule", {"ExtModule"}, Unknown, Unknown, Unknown, n, TRUE,
                FALSE))
<1> DEFINE In(val, last, open, moved, kept) ==
             At("extmodule", val, last, Unknown, Unknown, open, moved, kept)
<1> DEFINE Start == In({"none"}, Unknown, n, FALSE, FALSE)
           Going == In({"none"}, Unknown, n, TRUE, FALSE)
           Built(kept) == In({"ExtModule"}, Unknown, n, TRUE, kept)
<1>0. PICK o \in Nat \ {0} : o = n + 1
  OBVIOUS
<1>1. Has(<<T("extmodule"), T("identifier"), Make("ExtModule", <<>>), T(":"),
            Info, Opt(<<T("INDENT"), Ports,
                        Opt(Tokens(<<"defname", "=", "identifier">>)),
                        Star(Tokens(<<"parameter", "identifier", "=">>)
                             \o <<Choice(<<<<T("int")>>, <<T("double")>>,
                                           <<T("string")>>,
                                           <<T("single-string")>>>>)>>),
                                           T("DEDENT")>>)>>,
          Start,
          Built(FALSE))
  <2>1. Fit(T("extmodule"), Start, Going)
    BY TokenFit
  <2>2. Fit(T("identifier"), Going, Going)
    BY TokenFit
  <2>3. Fit(Make("ExtModule", <<>>), Going, Built(FALSE))
    BY MakeFit, KindNames
  <2>4. Fit(T(":"), Built(FALSE), Built(FALSE))
    BY TokenFit
  <2>5. Fit(Info, Built(FALSE), Built(FALSE))
    BY InfoFit
  <2>6. Fit(Opt(<<T("INDENT"), Ports,
                  Opt(Tokens(<<"defname", "=", "identifier">>)),
                  Star(Tokens(<<"parameter", "identifier", "=">>)
                       \o <<Choice(<<<<T("int")>>, <<T("double")>>,
                                     <<T("string")>>,
                                     <<T("single-string")>>>>)>>),
                                     T("DEDENT")>>),
            Built(FALSE),
            Built(FALSE))
    <3>1. ASSUME NEW k3 \in BOOLEAN
          PROVE  Has(<<T("INDENT"), Ports,
                       Opt(Tokens(<<"defname", "=", "identifier">>)),
                       Star(Tokens(<<"parameter", "identifier", "=">>)
                            \o <<Choice(<<<<T("int")>>, <<T("double")>>,
                                          <<T("string")>>,
                                          <<T("single-string")>>>>)>>),
                                          T("DEDENT")>>,
                     Built(k3),
                     Built(k3))
      <4>1. Fit(T("INDENT"), Built(k3),
                In({"ExtModule"}, Unknown, o, TRUE, k3))
        BY <1>0, IndentFit
      <4>2. Fit(Ports, In({"ExtModule"}, Unknown, o, TRUE, k3),
                In({"ExtModule"}, Unknown, o, TRUE, k3))
        <5>1. Has(<<R("port"), Attach("mPorts")>>,
                  In({"ExtModule"}, Unknown, o, TRUE, TRUE),
                  In({"ExtModule"}, Unknown, o, TRUE, TRUE))
          <6>1. Fit(R("port"), In({"ExtModule"}, Unknown, o, TRUE, TRUE),
                    In({"ExtModule"}, {"Port"}, o, TRUE, TRUE))
            BY CallFit
          <6>2. Fit(Attach("mPorts"),
                    In({"ExtModule"}, {"Port"}, o, TRUE, TRUE),
                    In({"ExtModule"}, {"Port"}, o, TRUE, TRUE))
            BY ActFit, KindsAndPointers, KindSets
          <6>3. Has(<<R("port"), Attach("mPorts")>>,
                    In({"ExtModule"}, Unknown, o, TRUE, TRUE),
                    In({"ExtModule"}, {"Port"}, o, TRUE, TRUE))
            BY <6>1, <6>2, Has2
          <6>4. /\ Below(In({"ExtModule"}, Unknown, o, TRUE, TRUE),
                         In({"ExtModule"}, Unknown, o, TRUE, TRUE))
                /\ Below(In({"ExtModule"}, {"Port"}, o, TRUE, TRUE),
                         In({"ExtModule"}, Unknown, o, TRUE, TRUE))
            BY AtBelow, Known, KindSets
          <6> QED BY <6>3, <6>4, HasBelow
        <5> QED BY <5>1, StarFit, Known DEF Ports
      <4>3. Fit(Opt(Tokens(<<"defname", "=", "identifier">>)),
                In({"ExtModule"}, Unknown, o, TRUE, k3),
                In({"ExtModule"}, Unknown, o, TRUE, k3))
        <5>1. ASSUME NEW k5 \in BOOLEAN
              PROVE  Has(Tokens(<<"defname", "=", "identifier">>),
                         In({"ExtModule"}, Unknown, o, TRUE, k5),
                         In({"ExtModule"}, Unknown, o, TRUE, k5))
          <6>1. Has(Tokens(<<"defname", "=", "identifier">>),
                    In({"ExtModule"}, Unknown, o, TRUE, k5),
                    In({"ExtModule"}, Unknown, o, TRUE, k5))
            <7> DEFINE ts == <<"defname", "=", "identifier">>
            <7>1. IsSeq(ts)
              BY Literal
            <7>2. /\ Len(ts) > 0
                  /\ \A i \in 1 .. Len(ts) :
                       ts[i] \notin {"end-of-input", "flip", "INDENT",
                                     "DEDENT"}
              OBVIOUS
            <7> HIDE DEF ts
            <7>3. Has(Tokens(ts), In({"ExtModule"}, Unknown, o, TRUE, k5),
                      In({"ExtModule"}, Unknown, o, TRUE, k5))
              BY <7>1, <7>2, TokensHave
            <7> QED BY <7>3 DEF ts
          <6> QED BY <6>1
        <5>2. Tokens(<<"defname", "=", "identifier">>) # <<>>
          BY DEF Tokens
        <5> QED BY <5>1, <5>2, OptFit, Known
      <4>4. Fit(Star(Tokens(<<"parameter", "identifier", "=">>)
                     \o <<Choice(<<<<T("int")>>, <<T("double")>>,
                                   <<T("string")>>,
                                   <<T("single-string")>>>>)>>),
                In({"ExtModule"}, Unknown, o, TRUE, k3),
                In({"ExtModule"}, Unknown, o, TRUE, k3))
        <5>1. Has(Tokens(<<"parameter", "identifier", "=">>)
                  \o <<Choice(<<<<T("int")>>, <<T("double")>>, <<T("string")>>,
                                <<T("single-string")>>>>)>>,
                  In({"ExtModule"}, Unknown, o, TRUE, TRUE),
                  In({"ExtModule"}, Unknown, o, TRUE, TRUE))
          <6>1. Has(Tokens(<<"parameter", "identifier", "=">>),
                    In({"ExtModule"}, Unknown, o, TRUE, TRUE),
                    In({"ExtModule"}, Unknown, o, TRUE, TRUE))
            <7> DEFINE ts == <<"parameter", "identifier", "=">>
            <7>1. IsSeq(ts)
              BY Literal
            <7>2. /\ Len(ts) > 0
                  /\ \A i \in 1 .. Len(ts) :
                       ts[i] \notin {"end-of-input", "flip", "INDENT",
                                     "DEDENT"}
              OBVIOUS
            <7> HIDE DEF ts
            <7>3. Has(Tokens(ts), In({"ExtModule"}, Unknown, o, TRUE, TRUE),
                      In({"ExtModule"}, Unknown, o, TRUE, TRUE))
              BY <7>1, <7>2, TokensHave
            <7> QED BY <7>3 DEF ts
          <6>2. Has(<<Choice(<<<<T("int")>>, <<T("double")>>, <<T("string")>>,
                               <<T("single-string")>>>>)>>,
                    In({"ExtModule"}, Unknown, o, TRUE, TRUE),
                    In({"ExtModule"}, Unknown, o, TRUE, TRUE))
            <7>1. Fit(Choice(<<<<T("int")>>, <<T("double")>>, <<T("string")>>,
                               <<T("single-string")>>>>),
                      In({"ExtModule"}, Unknown, o, TRUE, TRUE),
                      In({"ExtModule"}, Unknown, o, TRUE, TRUE))
              <8>1. ASSUME NEW k8 \in BOOLEAN
                    PROVE  Has(<<T("int")>>,
                               In({"ExtModule"}, Unknown, o, TRUE, k8),
                               In({"ExtModule"}, Unknown, o, TRUE, k8))
                <9>1. Fit(T("int"), In({"ExtModule"}, Unknown, o, TRUE, k8),
                          In({"ExtModule"}, Unknown, o, TRUE, k8))
                  BY TokenFit
                <9> QED BY <9>1, Has1
              <8>2. ASSUME NEW k8 \in BOOLEAN
                    PROVE  Has(<<T("double")>>,
                               In({"ExtModule"}, Unknown, o, TRUE, k8),
                               In({"ExtModule"}, Unknown, o, TRUE, k8))
                <9>1. Fit(T("double"), In({"ExtModule"}, Unknown, o, TRUE, k8),
                          In({"ExtModule"}, Unknown, o, TRUE, k8))
                  BY TokenFit
                <9> QED BY <9>1, Has1
              <8>3. ASSUME NEW k8 \in BOOLEAN
                    PROVE  Has(<<T("string")>>,
                               In({"ExtModule"}, Unknown, o, TRUE, k8),
                               In({"ExtModule"}, Unknown, o, TRUE, k8))
                <9>1. Fit(T("string"), In({"ExtModule"}, Unknown, o, TRUE, k8),
                          In({"ExtModule"}, Unknown, o, TRUE, k8))
                  BY TokenFit
                <9> QED BY <9>1, Has1
              <8>4. ASSUME NEW k8 \in BOOLEAN
                    PROVE  Has(<<T("single-string")>>,
                               In({"ExtModule"}, Unknown, o, TRUE, k8),
                               In({"ExtModule"}, Unknown, o, TRUE, k8))
                <9>1. Fit(T("single-string"),
                          In({"ExtModule"}, Unknown, o, TRUE, k8),
                          In({"ExtModule"}, Unknown, o, TRUE, k8))
                  BY TokenFit
                <9> QED BY <9>1, Has1
              <8>5. <<T("int")>> # <<>>
                OBVIOUS
              <8> QED BY <8>1, <8>2, <8>3, <8>4, <8>5, KeepFour
            <7> QED BY <7>1, Has1
          <6>3. Has(Tokens(<<"parameter", "identifier", "=">>)
                    \o <<Choice(<<<<T("int")>>, <<T("double")>>,
                                  <<T("string")>>, <<T("single-string")>>>>)>>,
                    In({"ExtModule"}, Unknown, o, TRUE, TRUE),
                    In({"ExtModule"}, Unknown, o, TRUE, TRUE))
            BY <6>1, <6>2, HasConcat
          <6> QED BY <6>3
        <5> QED BY <5>1, StarFit, Known
      <4>5. Fit(T("DEDENT"), In({"ExtModule"}, Unknown, o, TRUE, k3),
                Built(k3))
        BY <1>0, IndentFit
      <4> QED BY <4>1, <4>2, <4>3, <4>4, <4>5, Has5
    <3>2. <<T("INDENT"), Ports, Opt(Tokens(<<"defname", "=", "identifier">>)),
            Star(Tokens(<<"parameter", "identifier", "=">>)
                 \o <<Choice(<<<<T("int")>>, <<T("double")>>, <<T("string")>>,
                               <<T("single-string")>>>>)>>),
                               T("DEDENT")>> # <<>>
      OBVIOUS
    <3> QED BY <3>1, <3>2, OptFit, Known
  <2> QED BY <2>1, <2>2, <2>3, <2>4, <2>5, <2>6, Has6
<1> QED BY <1>1 DEF extmodule

(* The rule port gives a port, and leaves the blocks as they were.         *)
LEMMA PortFits ==
  ASSUME NEW n \in Nat \ {0}
  PROVE  Has(port,
             At("port", {"none"}, Unknown, Unknown, Unknown, n, FALSE, FALSE),
             At("port", {"Port"}, Unknown, Unknown, Unknown, n, TRUE, FALSE))
<1> DEFINE In(val, last, open, moved, kept) ==
             At("port", val, last, Unknown, Unknown, open, moved, kept)
<1> DEFINE Start == In({"none"}, Unknown, n, FALSE, FALSE)
           Going == In({"none"}, Unknown, n, TRUE, FALSE)
<1>1. Has(<<Choice(<<<<T("input")>>, <<T("output")>>>>), T("identifier"),
            T(":"), Type, Make("Port", <<"mType">>), Info>>,
          Start,
          In({"Port"}, Unknown, n, TRUE, FALSE))
  <2>1. Fit(Choice(<<<<T("input")>>, <<T("output")>>>>), Start, Going)
    <3>1. ASSUME NEW k3 \in BOOLEAN
          PROVE  Has(<<T("input")>>, In({"none"}, Unknown, n, FALSE, k3),
                     In({"none"}, Unknown, n, TRUE, k3))
      <4>1. Fit(T("input"), In({"none"}, Unknown, n, FALSE, k3),
                In({"none"}, Unknown, n, TRUE, k3))
        BY TokenFit
      <4> QED BY <4>1, Has1
    <3>2. ASSUME NEW k3 \in BOOLEAN
          PROVE  Has(<<T("output")>>, In({"none"}, Unknown, n, FALSE, k3),
                     In({"none"}, Unknown, n, TRUE, k3))
      <4>1. Fit(T("output"), In({"none"}, Unknown, n, FALSE, k3),
                In({"none"}, Unknown, n, TRUE, k3))
        BY TokenFit
      <4> QED BY <4>1, Has1
    <3>3. <<T("input")>> # <<>>
      OBVIOUS
    <3> QED BY <3>1, <3>2, <3>3, KeepTwo
  <2>2. Fit(T("identifier"), Going, Going)
    BY TokenFit
  <2>3. Fit(T(":"), Going, Going)
    BY TokenFit
  <2>4. Fit(Type, Going, In({"none"}, ReadTypes, n, TRUE, FALSE))
    BY CallFit DEF Type
  <2>5. Fit(Make("Port", <<"mType">>), In({"none"}, ReadTypes, n, TRUE, FALSE),
            In({"Port"}, ReadTypes, n, TRUE, FALSE))
    BY MakeFit, KindNames, KindsAndPointers, KindSets
  <2>6. Fit(Info, In({"Port"}, ReadTypes, n, TRUE, FALSE),
            In({"Port"}, ReadTypes, n, TRUE, FALSE))
    BY InfoFit
  <2>7. Has(<<Choice(<<<<T("input")>>, <<T("output")>>>>), T("identifier"),
              T(":"), Type, Make("Port", <<"mType">>), Info>>,
            Start,
            In({"Port"}, ReadTypes, n, TRUE, FALSE))
    BY <2>1, <2>2, <2>3, <2>4, <2>5, <2>6, Has6
  <2>8. /\ Below(Start, Start)
        /\ Below(In({"Port"}, ReadTypes, n, TRUE, FALSE),
                 In({"Port"}, Unknown, n, TRUE, FALSE))
    BY AtBelow, Known, KindSets
  <2> QED BY <2>7, <2>8, HasBelow
<1> QED BY <1>1 DEF port

(* The rule type gives a type, and leaves the blocks as they were.         *)
LEMMA TypeFits ==
  ASSUME NEW n \in Nat \ {0}
  PROVE  Has(type,
             At("type", {"none"}, Unknown, Unknown, Unknown, n, FALSE, FALSE),
             At("type", ReadTypes, Unknown, Unknown, Unknown, n, TRUE, FALSE))
<1> DEFINE In(val, last, open, moved, kept) ==
             At("type", val, last, Unknown, Unknown, open, moved, kept)
<1> DEFINE Start == In({"none"}, Unknown, n, FALSE, FALSE)
           Before == In(Unknown, Unknown, n, FALSE, FALSE)
           After == In(ReadTypes, Unknown, n, TRUE, FALSE)
           Built(kept) == In({"TypeClock"}, Unknown, n, TRUE, kept)
<1>1. Has(<<Choice(<<<<R("type_int"), Take>>,
                     <<T("Clock"), Make("TypeClock", <<>>)>>,
                     <<R("type_bundle"), Take>>,
                     <<R("type_vector"), Take>>>>)>>,
          Start,
          After)
  <2>1. Fit(Choice(<<<<R("type_int"), Take>>,
                     <<T("Clock"), Make("TypeClock", <<>>)>>,
                     <<R("type_bundle"), Take>>, <<R("type_vector"), Take>>>>),
            Start,
            After)
    <3>1. Has(<<R("type_int"), Take>>, Before, After)
      <4>1. Fit(R("type_int"), Before,
                In(Unknown, {"TypeInt"}, n, TRUE, FALSE))
        BY CallFit, Beginnings
      <4>2. Fit(Take, In(Unknown, {"TypeInt"}, n, TRUE, FALSE),
                In({"TypeInt"}, {"TypeInt"}, n, TRUE, FALSE))
        BY TakeFit, KindSets
      <4>3. Has(<<R("type_int"), Take>>, Before,
                In({"TypeInt"}, {"TypeInt"}, n, TRUE, FALSE))
        BY <4>1, <4>2, Has2
      <4>4. /\ Below(Before, Before)
            /\ Below(In({"TypeInt"}, {"TypeInt"}, n, TRUE, FALSE), After)
        BY AtBelow, Known, KindSets
      <4> QED BY <4>3, <4>4, HasBelow
    <3>2. Has(<<T("Clock"), Make("TypeClock", <<>>)>>, Before, After)
      <4>1. Fit(T("Clock"), Before, In(Unknown, Unknown, n, TRUE, FALSE))
        BY TokenFit
      <4>2. Fit(Make("TypeClock", <<>>), In(Unknown, Unknown, n, TRUE, FALSE),
                Built(FALSE))
        BY MakeFit, KindNames
      <4>3. Has(<<T("Clock"), Make("TypeClock", <<>>)>>, Before, Built(FALSE))
        BY <4>1, <4>2, Has2
      <4>4. /\ Below(Before, Before)
            /\ Below(Built(FALSE), After)
        BY AtBelow, Known, KindSets
      <4> QED BY <4>3, <4>4, HasBelow
    <3>3. Has(<<R("type_bundle"), Take>>, Before, After)
      <4>1. Fit(R("type_bundle"), Before,
                In(Unknown, {"TypeBundle"}, n, TRUE, FALSE))
        BY CallFit, Beginnings
      <4>2. Fit(Take, In(Unknown, {"TypeBundle"}, n, TRUE, FALSE),
                In({"TypeBundle"}, {"TypeBundle"}, n, TRUE, FALSE))
        BY TakeFit, KindSets
      <4>3. Has(<<R("type_bundle"), Take>>, Before,
                In({"TypeBundle"}, {"TypeBundle"}, n, TRUE, FALSE))
        BY <4>1, <4>2, Has2
      <4>4. /\ Below(Before, Before)
            /\ Below(In({"TypeBundle"}, {"TypeBundle"}, n, TRUE, FALSE), After)
        BY AtBelow, Known, KindSets
      <4> QED BY <4>3, <4>4, HasBelow
    <3>4. Has(<<R("type_vector"), Take>>, Before, After)
      <4>1. Fit(R("type_vector"), Before, In(Unknown, {}, n, TRUE, FALSE))
        BY CallFit, Beginnings
      <4>2. Fit(Take,
                In(Unknown, {}, n, TRUE, FALSE), In({}, {}, n, TRUE, FALSE))
        BY TakeFit, KindSets
      <4>3. Has(<<R("type_vector"), Take>>, Before, In({}, {}, n, TRUE, FALSE))
        BY <4>1, <4>2, Has2
      <4>4. /\ Below(Before, Before)
            /\ Below(In({}, {}, n, TRUE, FALSE), After)
        BY AtBelow, Known, KindSets
      <4> QED BY <4>3, <4>4, HasBelow
    <3>5. <<R("type_int"), Take>> # <<>>
      OBVIOUS
    <3> QED BY <3>1, <3>2, <3>3, <3>4, <3>5, FreeFour
  <2> QED BY <2>1, Has1
<1> QED BY <1>1 DEF type

(* The rule type_int gives an integer type, and leaves the blocks as they  *)
(* were.                                                                   *)
LEMMA TypeIntFits ==
  ASSUME NEW n \in Nat \ {0}
  PROVE  Has(type_int,
             At("type_int", {"none"}, Unknown, Unknown, Unknown, n, FALSE,
                FALSE),
             At("type_int", {"TypeInt"}, Unknown, Unknown, Unknown, n, TRUE,
                FALSE))
<1> DEFINE In(val, last, open, moved, kept) ==
             At("type_int", val, last, Unknown, Unknown, open, moved, kept)
<1> DEFINE Start == In({"none"}, Unknown, n, FALSE, FALSE)
           Built(kept) == In({"TypeInt"}, Unknown, n, TRUE, kept)
<1>1. Has(<<Choice(<<<<T("UInt"), Make("TypeInt", <<>>)>>,
                     <<T("SInt"), Make("TypeInt", <<>>)>>>>),
                     Opt(<<T("<"), T("int"), [item |-> "width"], T(">")>>)>>,
          Start,
          Built(FALSE))
  <2>1. Fit(Choice(<<<<T("UInt"), Make("TypeInt", <<>>)>>,
                     <<T("SInt"), Make("TypeInt", <<>>)>>>>),
            Start,
            Built(FALSE))
    <3>1. Has(<<T("UInt"), Make("TypeInt", <<>>)>>,
              In(Unknown, Unknown, n, FALSE, FALSE),
              Built(FALSE))
      <4>1. Fit(T("UInt"), In(Unknown, Unknown, n, FALSE, FALSE),
                In(Unknown, Unknown, n, TRUE, FALSE))
        BY TokenFit
      <4>2. Fit(Make("TypeInt", <<>>), In(Unknown, Unknown, n, TRUE, FALSE),
                Built(FALSE))
        BY MakeFit, KindNames
      <4> QED BY <4>1, <4>2, Has2
    <3>2. Has(<<T("SInt"), Make("TypeInt", <<>>)>>,
              In(Unknown, Unknown, n, FALSE, FALSE),
              Built(FALSE))
      <4>1. Fit(T("SInt"), In(Unknown, Unknown, n, FALSE, FALSE),
                In(Unknown, Unknown, n, TRUE, FALSE))
        BY TokenFit
      <4>2. Fit(Make("TypeInt", <<>>), In(Unknown, Unknown, n, TRUE, FALSE),
                Built(FALSE))
        BY MakeFit, KindNames
      <4> QED BY <4>1, <4>2, Has2
    <3>3. <<T("UInt"), Make("TypeInt", <<>>)>> # <<>>
      OBVIOUS
    <3> QED BY <3>1, <3>2, <3>3, FreeTwo
  <2>2. Fit(Opt(<<T("<"), T("int"), [item |-> "width"], T(">")>>),
            Built(FALSE),
            Built(FALSE))
    <3>1. ASSUME NEW k3 \in BOOLEAN
          PROVE  Has(<<T("<"), T("int"), [item |-> "width"], T(">")>>,
                     Built(k3),
                     Built(k3))
      <4>1. Fit(T("<"), Built(k3), Built(k3))
        BY TokenFit
      <4>2. Fit(T("int"), Built(k3), Built(k3))
        BY TokenFit
      <4>3. Fit([item |-> "width"], Built(k3), Built(k3))
        BY ActFit
      <4>4. Fit(T(">"), Built(k3), Built(k3))
        BY TokenFit
      <4> QED BY <4>1, <4>2, <4>3, <4>4, Has4
    <3>2. <<T("<"), T("int"), [item |-> "width"], T(">")>> # <<>>
      OBVIOUS
    <3> QED BY <3>1, <3>2, OptFit, Known
  <2> QED BY <2>1, <2>2, Has2
<1> QED BY <1>1 DEF type_int

(* The rule type_bundle gives a bundle, and leaves the blocks as they      *)
(* were.                                                                   *)
LEMMA TypeBundleFits ==
  ASSUME NEW n \in Nat \ {0}
  PROVE  Has(type_bundle,
             At("type_bundle", {"none"}, Unknown, Unknown, Unknown, n, FALSE,
                FALSE),
             At("type_bundle", {"TypeBundle"}, Unknown, Unknown, Unknown, n,
                TRUE, FALSE))
<1> DEFINE In(val, last, open, moved, kept) ==
             At("type_bundle", val, last, Unknown, Unknown, open, moved, kept)
<1> DEFINE Start == In({"none"}, Unknown, n, FALSE, FALSE)
           Going == In({"none"}, Unknown, n, TRUE, FALSE)
           Built(kept) == In({"TypeBundle"}, Unknown, n, TRUE, kept)
<1>1. Has(<<T("{"), Make("TypeBundle", <<>>), Star(<<R("field")>>), T("}")>>,
          Start,
          Built(FALSE))
  <2>1. Fit(T("{"), Start, Going)
    BY TokenFit
  <2>2. Fit(Make("TypeBundle", <<>>), Going, Built(FALSE))
    BY MakeFit, KindNames
  <2>3. Fit(Star(<<R("field")>>), Built(FALSE), Built(FALSE))
    <3>1. Has(<<R("field")>>, Built(TRUE), Built(TRUE))
      <4>1. Fit(R("field"), Built(TRUE),
                In({"TypeBundle"}, {"Field"}, n, TRUE, TRUE))
        BY CallFit
      <4>2. Has(<<R("field")>>, Built(TRUE),
                In({"TypeBundle"}, {"Field"}, n, TRUE, TRUE))
        BY <4>1, Has1
      <4>3. /\ Below(Built(TRUE), Built(TRUE))
            /\ Below(In({"TypeBundle"}, {"Field"}, n, TRUE, TRUE), Built(TRUE))
        BY AtBelow, Known, KindSets
      <4> QED BY <4>2, <4>3, HasBelow
    <3> QED BY <3>1, StarFit, Known
  <2>4. Fit(T("}"), Built(FALSE), Built(FALSE))
    BY TokenFit
  <2> QED BY <2>1, <2>2, <2>3, <2>4, Has4
<1> QED BY <1>1 DEF type_bundle

(* The rule type_vector never gives anything: it needs a bracket, and that *)
(* is no token.                                                            *)
LEMMA TypeVectorFits ==
  ASSUME NEW n \in Nat \ {0}
  PROVE  Has(type_vector,
             At("type_vector", {"none"}, Unknown, Unknown, Unknown, n, FALSE,
                FALSE),
             At("type_vector", {}, Unknown, Unknown, Unknown, n, TRUE, FALSE))
<1> DEFINE In(val, last, open, moved, kept) ==
             At("type_vector", val, last, Unknown, Unknown, open, moved, kept)
<1> DEFINE Start == In({"none"}, Unknown, n, FALSE, FALSE)
<1>1. Has(<<Type, Make("TypeVector", <<>>), T("["), T("int"), T("]")>>, Start,
          In({}, Unknown, n, TRUE, FALSE))
  <2>1. Fit(Type, Start, In({"none"}, ReadTypes, n, TRUE, FALSE))
    BY CallFit, Beginnings DEF Type
  <2>2. Fit(Make("TypeVector", <<>>), In({"none"}, ReadTypes, n, TRUE, FALSE),
            In({"TypeVector"}, ReadTypes, n, TRUE, FALSE))
    BY MakeFit, KindNames
  <2>3. Fit(T("["), In({"TypeVector"}, ReadTypes, n, TRUE, FALSE),
            In({}, Unknown, n, TRUE, FALSE))
    BY BracketFit, AtBelow
  <2>4. Fit(T("int"),
            In({}, Unknown, n, TRUE, FALSE), In({}, Unknown, n, TRUE, FALSE))
    BY TokenFit
  <2>5. Fit(T("]"),
            In({}, Unknown, n, TRUE, FALSE), In({}, Unknown, n, TRUE, FALSE))
    BY TokenFit
  <2> QED BY <2>1, <2>2, <2>3, <2>4, <2>5, Has5
<1> QED BY <1>1 DEF type_vector

(* The rule field gives a field, and leaves the blocks as they were.       *)
LEMMA FieldFits ==
  ASSUME NEW n \in Nat \ {0}
  PROVE  Has(field,
             At("field", {"none"}, Unknown, Unknown, Unknown, n, FALSE, FALSE),
             At("field", {"Field"}, Unknown, Unknown, Unknown, n, TRUE, FALSE))
<1> DEFINE In(val, last, open, moved, kept) ==
             At("field", val, last, Unknown, Unknown, open, moved, kept)
<1> DEFINE Start == In({"none"}, Unknown, n, FALSE, FALSE)
           Going == In({"none"}, Unknown, n, TRUE, FALSE)
<1>1. Has(<<Choice(<<<<>>, <<T("flip")>>>>), T("identifier"), T(":"), Type,
            Make("Field", <<>>)>>,
          Start,
          In({"Field"}, Unknown, n, TRUE, FALSE))
  <2>1. Fit(Choice(<<<<>>, <<T("flip")>>>>), Start, Start)
    <3> DEFINE of == <<<<>>, <<T("flip")>>>>
    <3>1. IsSeq(of)
      BY Literal
    <3>2. Len(of) > 0 /\ of[1] = <<>>
      OBVIOUS
    <3> HIDE DEF of
    <3>3. Fit(Choice(of), Start, Start)
      BY <3>1, <3>2, EmptyAt
    <3> QED BY <3>3 DEF of
  <2>2. Fit(T("identifier"), Start, Going)
    BY TokenFit
  <2>3. Fit(T(":"), Going, Going)
    BY TokenFit
  <2>4. Fit(Type, Going, In({"none"}, ReadTypes, n, TRUE, FALSE))
    BY CallFit DEF Type
  <2>5. Fit(Make("Field", <<>>), In({"none"}, ReadTypes, n, TRUE, FALSE),
            In({"Field"}, ReadTypes, n, TRUE, FALSE))
    BY MakeFit, KindNames
  <2>6. Has(<<Choice(<<<<>>, <<T("flip")>>>>), T("identifier"), T(":"), Type,
              Make("Field", <<>>)>>,
            Start,
            In({"Field"}, ReadTypes, n, TRUE, FALSE))
    BY <2>1, <2>2, <2>3, <2>4, <2>5, Has5
  <2>7. /\ Below(Start, Start)
        /\ Below(In({"Field"}, ReadTypes, n, TRUE, FALSE),
                 In({"Field"}, Unknown, n, TRUE, FALSE))
    BY AtBelow, Known, KindSets
  <2> QED BY <2>6, <2>7, HasBelow
<1> QED BY <1>1 DEF field

(* The rule stmt_group gives a group of statements, and leaves the blocks  *)
(* as they were.                                                           *)
LEMMA StmtGroupFits ==
  ASSUME NEW n \in Nat \ {0}
  PROVE  Has(stmt_group,
             At("stmt_group", {"none"}, Unknown, Unknown, Unknown, n, FALSE,
                FALSE),
             At("stmt_group", {"StmtGroup"}, Unknown, Unknown, Unknown, n,
                TRUE, FALSE))
<1> DEFINE In(val, last, open, moved, kept) ==
             At("stmt_group", val, last, Unknown, Unknown, open, moved, kept)
<1> DEFINE Start == In({"none"}, Unknown, n, FALSE, FALSE)
           Built(kept) == In({"StmtGroup"}, Unknown, n, TRUE, kept)
<1>1. Has(<<Make("StmtGroup", <<>>)>> \o Statement \o <<Star(Statement)>>,
          Start,
          Built(FALSE))
  <2>1. Has(<<Make("StmtGroup", <<>>)>>, Start,
            In({"StmtGroup"}, Unknown, n, FALSE, FALSE))
    <3>1. Fit(Make("StmtGroup", <<>>), Start,
              In({"StmtGroup"}, Unknown, n, FALSE, FALSE))
      BY MakeFit, KindNames
    <3> QED BY <3>1, Has1
  <2>2. Has(Statement, In({"StmtGroup"}, Unknown, n, FALSE, FALSE),
            In({"StmtGroup"}, Stmts, n, TRUE, FALSE))
    <3>1. Fit(R("stmt"), In({"StmtGroup"}, Unknown, n, FALSE, FALSE),
              In({"StmtGroup"}, Stmts, n, TRUE, FALSE))
      BY CallFit, Beginnings
    <3>2. Fit(Attach("mGroup"), In({"StmtGroup"}, Stmts, n, TRUE, FALSE),
              In({"StmtGroup"}, Stmts, n, TRUE, FALSE))
      BY ActFit, KindsAndPointers, KindSets
    <3> QED BY <3>1, <3>2, Has2 DEF Statement
  <2>3. Has(<<Star(Statement)>>, In({"StmtGroup"}, Stmts, n, TRUE, FALSE),
            Built(FALSE))
    <3>1. Fit(Star(Statement), In({"StmtGroup"}, Stmts, n, TRUE, FALSE),
              Built(FALSE))
      <4>1. Has(Statement, Built(TRUE), Built(TRUE))
        <5>1. Fit(R("stmt"), Built(TRUE),
                  In({"StmtGroup"}, Stmts, n, TRUE, TRUE))
          BY CallFit
        <5>2. Fit(Attach("mGroup"), In({"StmtGroup"}, Stmts, n, TRUE, TRUE),
                  In({"StmtGroup"}, Stmts, n, TRUE, TRUE))
          BY ActFit, KindsAndPointers, KindSets
        <5>3. Has(Statement, Built(TRUE),
                  In({"StmtGroup"}, Stmts, n, TRUE, TRUE))
          BY <5>1, <5>2, Has2 DEF Statement
        <5>4. /\ Below(Built(TRUE), Built(TRUE))
              /\ Below(In({"StmtGroup"}, Stmts, n, TRUE, TRUE), Built(TRUE))
          BY AtBelow, Known, KindSets
        <5> QED BY <5>3, <5>4, HasBelow
      <4> QED BY <4>1, StarFit, Known
    <3> QED BY <3>1, Has1
  <2>4. Has(<<Make("StmtGroup", <<>>)>> \o Statement, Start,
            In({"StmtGroup"}, Stmts, n, TRUE, FALSE))
    BY <2>1, <2>2, HasConcat
  <2>5. Has(<<Make("StmtGroup", <<>>)>> \o Statement \o <<Star(Statement)>>,
            Start,
            Built(FALSE))
    BY <2>4, <2>3, HasConcat
  <2> QED BY <2>5
<1> QED BY <1>1 DEF stmt_group

(* The rule stmt_suite gives a group of statements, and leaves the blocks  *)
(* as they were.                                                           *)
LEMMA StmtSuiteFits ==
  ASSUME NEW n \in Nat \ {0}
  PROVE  Has(stmt_suite,
             At("stmt_suite", {"none"}, Unknown, Unknown, Unknown, n, FALSE,
                FALSE),
             At("stmt_suite", {"StmtGroup"}, Unknown, Unknown, Unknown, n,
                TRUE, FALSE))
<1> DEFINE In(val, last, open, moved, kept) ==
             At("stmt_suite", val, last, Unknown, Unknown, open, moved, kept)
<1> DEFINE Start == In({"none"}, Unknown, n, FALSE, FALSE)
<1>0. PICK o \in Nat \ {0} : o = n + 1
  OBVIOUS
<1>1. Has(<<T("INDENT"), R("stmt_group"), Take, T("DEDENT")>>, Start,
          In({"StmtGroup"}, Unknown, n, TRUE, FALSE))
  <2>1. Fit(T("INDENT"), Start, In({"none"}, Unknown, o, TRUE, FALSE))
    BY <1>0, IndentFit
  <2>2. Fit(R("stmt_group"), In({"none"}, Unknown, o, TRUE, FALSE),
            In({"none"}, {"StmtGroup"}, o, TRUE, FALSE))
    BY CallFit
  <2>3. Fit(Take, In({"none"}, {"StmtGroup"}, o, TRUE, FALSE),
            In({"StmtGroup"}, {"StmtGroup"}, o, TRUE, FALSE))
    BY TakeFit, KindSets
  <2>4. Fit(T("DEDENT"), In({"StmtGroup"}, {"StmtGroup"}, o, TRUE, FALSE),
            In({"StmtGroup"}, {"StmtGroup"}, n, TRUE, FALSE))
    BY <1>0, IndentFit
  <2>5. Has(<<T("INDENT"), R("stmt_group"), Take, T("DEDENT")>>, Start,
            In({"StmtGroup"}, {"StmtGroup"}, n, TRUE, FALSE))
    BY <2>1, <2>2, <2>3, <2>4, Has4
  <2>6. /\ Below(Start, Start)
        /\ Below(In({"StmtGroup"}, {"StmtGroup"}, n, TRUE, FALSE),
                 In({"StmtGroup"}, Unknown, n, TRUE, FALSE))
    BY AtBelow, Known, KindSets
  <2> QED BY <2>5, <2>6, HasBelow
<1> QED BY <1>1 DEF stmt_suite

(* The rule wire gives a wire, and leaves the blocks as they were.         *)
LEMMA WireFits ==
  ASSUME NEW n \in Nat \ {0}
  PROVE  Has(wire,
             At("wire", {"none"}, Unknown, Unknown, Unknown, n, FALSE, FALSE),
             At("wire", {"Wire"}, Unknown, Unknown, Unknown, n, TRUE, FALSE))
<1> DEFINE In(val, last, open, moved, kept) ==
             At("wire", val, last, Unknown, Unknown, open, moved, kept)
<1> DEFINE Start == In({"none"}, Unknown, n, FALSE, FALSE)
           Going == In({"none"}, Unknown, n, TRUE, FALSE)
<1>1. Has(Tokens(<<"wire", "identifier", ":">>)
          \o <<Type, Make("Wire", <<"mType">>), Info>>,
          Start,
          In({"Wire"}, Unknown, n, TRUE, FALSE))
  <2>1. Has(Tokens(<<"wire", "identifier", ":">>), Start, Going)
    <3> DEFINE ts == <<"wire", "identifier", ":">>
    <3>1. IsSeq(ts)
      BY Literal
    <3>2. /\ Len(ts) > 0
          /\ \A i \in 1 .. Len(ts) :
               ts[i] \notin {"end-of-input", "flip", "INDENT", "DEDENT"}
      OBVIOUS
    <3> HIDE DEF ts
    <3>3. Has(Tokens(ts), Start, Going)
      BY <3>1, <3>2, TokensHave
    <3> QED BY <3>3 DEF ts
  <2>2. Has(<<Type, Make("Wire", <<"mType">>), Info>>, Going,
            In({"Wire"}, ReadTypes, n, TRUE, FALSE))
    <3>1. Fit(Type, Going, In({"none"}, ReadTypes, n, TRUE, FALSE))
      BY CallFit DEF Type
    <3>2. Fit(Make("Wire", <<"mType">>),
              In({"none"}, ReadTypes, n, TRUE, FALSE),
              In({"Wire"}, ReadTypes, n, TRUE, FALSE))
      BY MakeFit, KindNames, KindsAndPointers, KindSets
    <3>3. Fit(Info, In({"Wire"}, ReadTypes, n, TRUE, FALSE),
              In({"Wire"}, ReadTypes, n, TRUE, FALSE))
      BY InfoFit
    <3> QED BY <3>1, <3>2, <3>3, Has3
  <2>3. Has(Tokens(<<"wire", "identifier", ":">>)
            \o <<Type, Make("Wire", <<"mType">>), Info>>,
            Start,
            In({"Wire"}, ReadTypes, n, TRUE, FALSE))
    BY <2>1, <2>2, HasConcat
  <2>4. /\ Below(Start, Start)
        /\ Below(In({"Wire"}, ReadTypes, n, TRUE, FALSE),
                 In({"Wire"}, Unknown, n, TRUE, FALSE))
    BY AtBelow, Known, KindSets
  <2> QED BY <2>3, <2>4, HasBelow
<1> QED BY <1>1 DEF wire

(* The rule reg gives a register, and leaves the blocks as they were.      *)
LEMMA RegFits ==
  ASSUME NEW n \in Nat \ {0}
  PROVE  Has(reg,
             At("reg", {"none"}, Unknown, Unknown, Unknown, n, FALSE, FALSE),
             At("reg", {"Reg"}, Unknown, Unknown, Unknown, n, TRUE, FALSE))
<1> DEFINE In(val, last, open, moved, kept) ==
             At("reg", val, last, Unknown, Unknown, open, moved, kept)
<1> DEFINE Among(val, last, second, third, open, moved, kept) ==
             At("reg", val, last, second, third, open, moved, kept)
<1> DEFINE Start == In({"none"}, Unknown, n, FALSE, FALSE)
           Going == In({"none"}, Unknown, n, TRUE, FALSE)
<1>1. Has(Tokens(<<"reg", "identifier", ":">>)
          \o <<Type, Exp, Make("Reg", <<"mType", "mClock">>),
               Opt(Tokens(<<"with", ":", "(", "reset", "=>", "(">>)
                   \o <<Exp, Attach("mResetTrigger"), Exp,
                        Attach("mResetValue"), T(")"), T(")")>>), Info>>,
          Start,
          In({"Reg"}, Unknown, n, TRUE, FALSE))
  <2>1. Has(Tokens(<<"reg", "identifier", ":">>), Start, Going)
    <3> DEFINE ts == <<"reg", "identifier", ":">>
    <3>1. IsSeq(ts)
      BY Literal
    <3>2. /\ Len(ts) > 0
          /\ \A i \in 1 .. Len(ts) :
               ts[i] \notin {"end-of-input", "flip", "INDENT", "DEDENT"}
      OBVIOUS
    <3> HIDE DEF ts
    <3>3. Has(Tokens(ts), Start, Going)
      BY <3>1, <3>2, TokensHave
    <3> QED BY <3>3 DEF ts
  <2>2. Has(<<Type, Exp, Make("Reg", <<"mType", "mClock">>),
              Opt(Tokens(<<"with", ":", "(", "reset", "=>", "(">>)
                  \o <<Exp, Attach("mResetTrigger"), Exp,
                       Attach("mResetValue"), T(")"), T(")")>>), Info>>,
            Going,
            In({"Reg"}, ReadExps, n, TRUE, FALSE))
    <3>1. Fit(Type, Going, In({"none"}, ReadTypes, n, TRUE, FALSE))
      BY CallFit DEF Type
    <3>2. Fit(Exp, In({"none"}, ReadTypes, n, TRUE, FALSE),
              Among({"none"}, ReadExps, ReadTypes, Unknown, n, TRUE, FALSE))
      BY CallFit DEF Exp
    <3>3. Fit(Make("Reg", <<"mType", "mClock">>),
              Among({"none"}, ReadExps, ReadTypes, Unknown, n, TRUE, FALSE),
              Among({"Reg"}, ReadExps, ReadTypes, Unknown, n, TRUE, FALSE))
      BY MakeFit, KindNames, KindsAndPointers, KindSets
    <3>4. Fit(Opt(Tokens(<<"with", ":", "(", "reset", "=>", "(">>)
                  \o <<Exp, Attach("mResetTrigger"), Exp,
                       Attach("mResetValue"), T(")"), T(")")>>),
              Among({"Reg"}, ReadExps, ReadTypes, Unknown, n, TRUE, FALSE),
              In({"Reg"}, ReadExps, n, TRUE, FALSE))
      <4>1. ASSUME NEW k4 \in BOOLEAN
            PROVE  Has(Tokens(<<"with", ":", "(", "reset", "=>", "(">>)
                       \o <<Exp, Attach("mResetTrigger"), Exp,
                            Attach("mResetValue"), T(")"), T(")")>>,
                       Among({"Reg"}, ReadExps, ReadTypes, Unknown, n, TRUE,
                             k4),
                       In({"Reg"}, ReadExps, n, TRUE, k4))
        <5>1. Has(Tokens(<<"with", ":", "(", "reset", "=>", "(">>),
                  Among({"Reg"}, ReadExps, ReadTypes, Unknown, n, TRUE, k4),
                  Among({"Reg"}, ReadExps, ReadTypes, Unknown, n, TRUE, k4))
          <6> DEFINE ts == <<"with", ":", "(", "reset", "=>", "(">>
          <6>1. IsSeq(ts)
            BY Literal
          <6>2. /\ Len(ts) > 0
                /\ \A i \in 1 .. Len(ts) :
                     ts[i] \notin {"end-of-input", "flip", "INDENT", "DEDENT"}
            OBVIOUS
          <6> HIDE DEF ts
          <6>3. Has(Tokens(ts),
                    Among({"Reg"}, ReadExps, ReadTypes, Unknown, n, TRUE, k4),
                    Among({"Reg"}, ReadExps, ReadTypes, Unknown, n, TRUE, k4))
            BY <6>1, <6>2, TokensHave
          <6> QED BY <6>3 DEF ts
        <5>2. Has(<<Exp, Attach("mResetTrigger"), Exp, Attach("mResetValue"),
                    T(")"), T(")")>>,
                  Among({"Reg"}, ReadExps, ReadTypes, Unknown, n, TRUE, k4),
                  Among({"Reg"}, ReadExps, ReadExps, ReadExps, n, TRUE, k4))
          <6>1. Fit(Exp,
                    Among({"Reg"}, ReadExps, ReadTypes, Unknown, n, TRUE, k4),
                    Among({"Reg"}, ReadExps, ReadExps, ReadTypes, n, TRUE, k4))
            BY CallFit DEF Exp
          <6>2. Fit(Attach("mResetTrigger"),
                    Among({"Reg"}, ReadExps, ReadExps, ReadTypes, n, TRUE, k4),
                    Among({"Reg"}, ReadExps, ReadExps, ReadTypes, n, TRUE, k4))
            BY ActFit, KindsAndPointers, KindSets
          <6>3. Fit(Exp,
                    Among({"Reg"}, ReadExps, ReadExps, ReadTypes, n, TRUE, k4),
                    Among({"Reg"}, ReadExps, ReadExps, ReadExps, n, TRUE, k4))
            BY CallFit DEF Exp
          <6>4. Fit(Attach("mResetValue"),
                    Among({"Reg"}, ReadExps, ReadExps, ReadExps, n, TRUE, k4),
                    Among({"Reg"}, ReadExps, ReadExps, ReadExps, n, TRUE, k4))
            BY ActFit, KindsAndPointers, KindSets
          <6>5. Fit(T(")"),
                    Among({"Reg"}, ReadExps, ReadExps, ReadExps, n, TRUE, k4),
                    Among({"Reg"}, ReadExps, ReadExps, ReadExps, n, TRUE, k4))
            BY TokenFit
          <6>6. Fit(T(")"),
                    Among({"Reg"}, ReadExps, ReadExps, ReadExps, n, TRUE, k4),
                    Among({"Reg"}, ReadExps, ReadExps, ReadExps, n, TRUE, k4))
            BY TokenFit
          <6> QED BY <6>1, <6>2, <6>3, <6>4, <6>5, <6>6, Has6
        <5>3. Has(Tokens(<<"with", ":", "(", "reset", "=>", "(">>)
                  \o <<Exp, Attach("mResetTrigger"), Exp,
                       Attach("mResetValue"), T(")"), T(")")>>,
                  Among({"Reg"}, ReadExps, ReadTypes, Unknown, n, TRUE, k4),
                  Among({"Reg"}, ReadExps, ReadExps, ReadExps, n, TRUE, k4))
          BY <5>1, <5>2, HasConcat
        <5>4. /\ Below(Among({"Reg"}, ReadExps, ReadTypes, Unknown, n, TRUE,
                             k4),
                       Among({"Reg"}, ReadExps, ReadTypes, Unknown, n, TRUE,
                             k4))
              /\ Below(Among({"Reg"}, ReadExps, ReadExps, ReadExps, n, TRUE,
                             k4), In({"Reg"}, ReadExps, n, TRUE, k4))
          BY AtBelow, Known, KindSets
        <5> QED BY <5>3, <5>4, HasBelow
      <4>2. Tokens(<<"with", ":", "(", "reset", "=>", "(">>)
            \o <<Exp, Attach("mResetTrigger"), Exp, Attach("mResetValue"),
                 T(")"), T(")")>> # <<>>
        <5> DEFINE ts == <<"with", ":", "(", "reset", "=>", "(">>
                   f == Tokens(ts)
                   h == <<Exp, Attach("mResetTrigger"), Exp,
                          Attach("mResetValue"), T(")"), T(")")>>
        <5>1. IsSeq(ts) /\ IsSeq(h)
          BY Literal
        <5>2. Len(ts) > 0
          OBVIOUS
        <5> HIDE DEF ts, h
        <5>3. f \o h # <<>>
          BY <5>1, <5>2, TokensAre, Longer
        <5> QED BY <5>3 DEF ts, h
      <4> QED BY <4>1, <4>2, OptFit, Known
    <3>5. Fit(Info, In({"Reg"}, ReadExps, n, TRUE, FALSE),
              In({"Reg"}, ReadExps, n, TRUE, FALSE))
      BY InfoFit
    <3> QED BY <3>1, <3>2, <3>3, <3>4, <3>5, Has5
  <2>3. Has(Tokens(<<"reg", "identifier", ":">>)
            \o <<Type, Exp, Make("Reg", <<"mType", "mClock">>),
                 Opt(Tokens(<<"with", ":", "(", "reset", "=>", "(">>)
                     \o <<Exp, Attach("mResetTrigger"), Exp,
                          Attach("mResetValue"), T(")"), T(")")>>), Info>>,
            Start,
            In({"Reg"}, ReadExps, n, TRUE, FALSE))
    BY <2>1, <2>2, HasConcat
  <2>4. /\ Below(Start, Start)
        /\ Below(In({"Reg"}, ReadExps, n, TRUE, FALSE),
                 In({"Reg"}, Unknown, n, TRUE, FALSE))
    BY AtBelow, Known, KindSets
  <2> QED BY <2>3, <2>4, HasBelow
<1> QED BY <1>1 DEF reg

(* The data type of a memory is read into the memory that is there.        *)
LEMMA DtypeFits ==
  ASSUME NEW n \in Nat \ {0}, NEW k \in BOOLEAN
  PROVE  Has(mem_dtype,
             At("mem", {"Memory"}, Unknown, Unknown, Unknown, n, TRUE, k),
             At("mem", {"Memory"}, Unknown, Unknown, Unknown, n, TRUE, k))
<1> DEFINE In(val, last, open, moved, kept) ==
             At("mem", val, last, Unknown, Unknown, open, moved, kept)
<1> DEFINE Built(kept) == In({"Memory"}, Unknown, n, TRUE, kept)
<1>1. Has(<<T("datatype"), T("=>"), Type, Set("dtype"), Attach("mDType")>>,
          Built(k),
          Built(k))
  <2>1. Fit(T("datatype"), Built(k), Built(k))
    BY TokenFit
  <2>2. Fit(T("=>"), Built(k), Built(k))
    BY TokenFit
  <2>3. Fit(Type, Built(k), In({"Memory"}, ReadTypes, n, TRUE, k))
    BY CallFit DEF Type
  <2>4. Fit(Set("dtype"), In({"Memory"}, ReadTypes, n, TRUE, k),
            In({"Memory"}, ReadTypes, n, TRUE, k))
    BY ActFit
  <2>5. Fit(Attach("mDType"), In({"Memory"}, ReadTypes, n, TRUE, k),
            In({"Memory"}, ReadTypes, n, TRUE, k))
    BY ActFit, KindsAndPointers, KindSets
  <2>6. Has(<<T("datatype"), T("=>"), Type, Set("dtype"), Attach("mDType")>>,
            Built(k),
            In({"Memory"}, ReadTypes, n, TRUE, k))
    BY <2>1, <2>2, <2>3, <2>4, <2>5, Has5
  <2>7. /\ Below(Built(k), Built(k))
        /\ Below(In({"Memory"}, ReadTypes, n, TRUE, k), Built(k))
    BY AtBelow, Known, KindSets
  <2> QED BY <2>6, <2>7, HasBelow
<1> QED BY <1>1 DEF mem_dtype

(* The depth of a memory is read into the memory that is there.            *)
LEMMA DepthFits ==
  ASSUME NEW n \in Nat \ {0}, NEW k \in BOOLEAN
  PROVE  Has(mem_depth,
             At("mem", {"Memory"}, Unknown, Unknown, Unknown, n, TRUE, k),
             At("mem", {"Memory"}, Unknown, Unknown, Unknown, n, TRUE, k))
<1> DEFINE In(val, last, open, moved, kept) ==
             At("mem", val, last, Unknown, Unknown, open, moved, kept)
<1> DEFINE Built(kept) == In({"Memory"}, Unknown, n, TRUE, kept)
<1>1. Has(Tokens(<<"depth", "=>", "int">>) \o <<Set("depth")>>, Built(k),
          Built(k))
  <2>1. Has(Tokens(<<"depth", "=>", "int">>), Built(k), Built(k))
    <3> DEFINE ts == <<"depth", "=>", "int">>
    <3>1. IsSeq(ts)
      BY Literal
    <3>2. /\ Len(ts) > 0
          /\ \A i \in 1 .. Len(ts) :
               ts[i] \notin {"end-of-input", "flip", "INDENT", "DEDENT"}
      OBVIOUS
    <3> HIDE DEF ts
    <3>3. Has(Tokens(ts), Built(k), Built(k))
      BY <3>1, <3>2, TokensHave
    <3> QED BY <3>3 DEF ts
  <2>2. Has(<<Set("depth")>>, Built(k), Built(k))
    <3>1. Fit(Set("depth"), Built(k), Built(k))
      BY ActFit
    <3> QED BY <3>1, Has1
  <2>3. Has(Tokens(<<"depth", "=>", "int">>) \o <<Set("depth")>>, Built(k),
            Built(k))
    BY <2>1, <2>2, HasConcat
  <2> QED BY <2>3
<1> QED BY <1>1 DEF mem_depth

(* The read latency of a memory is read into the memory that is there.     *)
LEMMA ReadlatFits ==
  ASSUME NEW n \in Nat \ {0}, NEW k \in BOOLEAN
  PROVE  Has(mem_readlat,
             At("mem", {"Memory"}, Unknown, Unknown, Unknown, n, TRUE, k),
             At("mem", {"Memory"}, Unknown, Unknown, Unknown, n, TRUE, k))
<1> DEFINE In(val, last, open, moved, kept) ==
             At("mem", val, last, Unknown, Unknown, open, moved, kept)
<1> DEFINE Built(kept) == In({"Memory"}, Unknown, n, TRUE, kept)
<1>1. Has(Tokens(<<"read-latency", "=>", "int">>) \o <<Set("readlat")>>,
          Built(k),
          Built(k))
  <2>1. Has(Tokens(<<"read-latency", "=>", "int">>), Built(k), Built(k))
    <3> DEFINE ts == <<"read-latency", "=>", "int">>
    <3>1. IsSeq(ts)
      BY Literal
    <3>2. /\ Len(ts) > 0
          /\ \A i \in 1 .. Len(ts) :
               ts[i] \notin {"end-of-input", "flip", "INDENT", "DEDENT"}
      OBVIOUS
    <3> HIDE DEF ts
    <3>3. Has(Tokens(ts), Built(k), Built(k))
      BY <3>1, <3>2, TokensHave
    <3> QED BY <3>3 DEF ts
  <2>2. Has(<<Set("readlat")>>, Built(k), Built(k))
    <3>1. Fit(Set("readlat"), Built(k), Built(k))
      BY ActFit
    <3> QED BY <3>1, Has1
  <2>3. Has(Tokens(<<"read-latency", "=>", "int">>) \o <<Set("readlat")>>,
            Built(k),
            Built(k))
    BY <2>1, <2>2, HasConcat
  <2> QED BY <2>3
<1> QED BY <1>1 DEF mem_readlat

(* The write latency of a memory is read into the memory that is there.    *)
LEMMA WritelatFits ==
  ASSUME NEW n \in Nat \ {0}, NEW k \in BOOLEAN
  PROVE  Has(mem_writelat,
             At("mem", {"Memory"}, Unknown, Unknown, Unknown, n, TRUE, k),
             At("mem", {"Memory"}, Unknown, Unknown, Unknown, n, TRUE, k))
<1> DEFINE In(val, last, open, moved, kept) ==
             At("mem", val, last, Unknown, Unknown, open, moved, kept)
<1> DEFINE Built(kept) == In({"Memory"}, Unknown, n, TRUE, kept)
<1>1. Has(Tokens(<<"write-latency", "=>", "int">>) \o <<Set("writelat")>>,
          Built(k),
          Built(k))
  <2>1. Has(Tokens(<<"write-latency", "=>", "int">>), Built(k), Built(k))
    <3> DEFINE ts == <<"write-latency", "=>", "int">>
    <3>1. IsSeq(ts)
      BY Literal
    <3>2. /\ Len(ts) > 0
          /\ \A i \in 1 .. Len(ts) :
               ts[i] \notin {"end-of-input", "flip", "INDENT", "DEDENT"}
      OBVIOUS
    <3> HIDE DEF ts
    <3>3. Has(Tokens(ts), Built(k), Built(k))
      BY <3>1, <3>2, TokensHave
    <3> QED BY <3>3 DEF ts
  <2>2. Has(<<Set("writelat")>>, Built(k), Built(k))
    <3>1. Fit(Set("writelat"), Built(k), Built(k))
      BY ActFit
    <3> QED BY <3>1, Has1
  <2>3. Has(Tokens(<<"write-latency", "=>", "int">>) \o <<Set("writelat")>>,
            Built(k),
            Built(k))
    BY <2>1, <2>2, HasConcat
  <2> QED BY <2>3
<1> QED BY <1>1 DEF mem_writelat

(* The read-under-write policy of a memory is read into the memory that is *)
(* there.                                                                  *)
LEMMA RuwFits ==
  ASSUME NEW n \in Nat \ {0}, NEW k \in BOOLEAN
  PROVE  Has(mem_ruw,
             At("mem", {"Memory"}, Unknown, Unknown, Unknown, n, TRUE, k),
             At("mem", {"Memory"}, Unknown, Unknown, Unknown, n, TRUE, k))
<1> DEFINE In(val, last, open, moved, kept) ==
             At("mem", val, last, Unknown, Unknown, open, moved, kept)
<1> DEFINE Built(kept) == In({"Memory"}, Unknown, n, TRUE, kept)
<1>1. Has(<<T("read-under-write"), T("=>"),
            Choice(<<<<T("old")>>, <<T("new")>>, <<T("undefined")>>>>),
            Set("ruw")>>,
          Built(k),
          Built(k))
  <2>1. Fit(T("read-under-write"), Built(k), Built(k))
    BY TokenFit
  <2>2. Fit(T("=>"), Built(k), Built(k))
    BY TokenFit
  <2>3. Fit(Choice(<<<<T("old")>>, <<T("new")>>, <<T("undefined")>>>>),
            Built(k),
            Built(k))
    <3>1. ASSUME NEW k3 \in BOOLEAN
          PROVE  Has(<<T("old")>>, Built(k3), Built(k3))
      <4>1. Fit(T("old"), Built(k3), Built(k3))
        BY TokenFit
      <4> QED BY <4>1, Has1
    <3>2. ASSUME NEW k3 \in BOOLEAN
          PROVE  Has(<<T("new")>>, Built(k3), Built(k3))
      <4>1. Fit(T("new"), Built(k3), Built(k3))
        BY TokenFit
      <4> QED BY <4>1, Has1
    <3>3. ASSUME NEW k3 \in BOOLEAN
          PROVE  Has(<<T("undefined")>>, Built(k3), Built(k3))
      <4>1. Fit(T("undefined"), Built(k3), Built(k3))
        BY TokenFit
      <4> QED BY <4>1, Has1
    <3>4. <<T("old")>> # <<>>
      OBVIOUS
    <3> QED BY <3>1, <3>2, <3>3, <3>4, KeepThree
  <2>4. Fit(Set("ruw"), Built(k), Built(k))
    BY ActFit
  <2> QED BY <2>1, <2>2, <2>3, <2>4, Has4
<1> QED BY <1>1 DEF mem_ruw

(* A port of a memory, of any kind, is read into the memory that is there. *)
LEMMA MemPortFits ==
  ASSUME NEW n \in Nat \ {0}, NEW k \in BOOLEAN,
         NEW kind \in {"reader", "writer", "readwriter"}
  PROVE  Has(mem_port(kind),
             At("mem", {"Memory"}, Unknown, Unknown, Unknown, n, TRUE, k),
             At("mem", {"Memory"}, Unknown, Unknown, Unknown, n, TRUE, k))
<1> DEFINE In(val, last, open, moved, kept) ==
             At("mem", val, last, Unknown, Unknown, open, moved, kept)
<1> DEFINE Built(kept) == In({"Memory"}, Unknown, n, TRUE, kept)
<1>1. Has(Tokens(<<kind, "=>", "identifier">>) \o <<Set("port")>>, Built(k),
          Built(k))
  <2>1. Has(Tokens(<<kind, "=>", "identifier">>), Built(k), Built(k))
    <3> DEFINE ts == <<kind, "=>", "identifier">>
    <3>1. IsSeq(ts)
      BY Literal
    <3>2. /\ Len(ts) > 0
          /\ \A i \in 1 .. Len(ts) :
               ts[i] \notin {"end-of-input", "flip", "INDENT", "DEDENT"}
      OBVIOUS
    <3> HIDE DEF ts
    <3>3. Has(Tokens(ts), Built(k), Built(k))
      BY <3>1, <3>2, TokensHave
    <3> QED BY <3>3 DEF ts
  <2>2. Has(<<Set("port")>>, Built(k), Built(k))
    <3>1. Fit(Set("port"), Built(k), Built(k))
      BY ActFit
    <3> QED BY <3>1, Has1
  <2>3. Has(Tokens(<<kind, "=>", "identifier">>) \o <<Set("port")>>, Built(k),
            Built(k))
    BY <2>1, <2>2, HasConcat
  <2> QED BY <2>3
<1> QED BY <1>1 DEF mem_port

(* The fields of a memory, in any order.                                   *)
LEMMA MemFieldsFit ==
  ASSUME NEW n \in Nat \ {0}
  PROVE  Fit(Choice(MemFields),
             At("mem", {"Memory"}, Unknown, Unknown, Unknown, n, TRUE, TRUE),
             At("mem", {"Memory"}, Unknown, Unknown, Unknown, n, TRUE, TRUE))
<1> DEFINE a == At("mem", {"Memory"}, Unknown, Unknown, Unknown, n, TRUE,
                   TRUE) of == MemFields
<1>1. /\ Len(of) = 8
      /\ of[1] = mem_dtype /\ of[2] = mem_depth /\ of[3] = mem_readlat
      /\ of[4] = mem_writelat /\ of[5] = mem_ruw /\ of[6] = mem_port("reader")
      /\ of[7] = mem_port("writer") /\ of[8] = mem_port("readwriter")
  BY DEF MemFields
<1>2. IsSeq(of)
  BY Literal DEF MemFields
<1> HIDE DEF of
<1>3. of[1] # <<>>
  BY <1>1 DEF mem_dtype
<1>4. /\ Has(mem_dtype, a, a) /\ Has(mem_depth, a, a) /\ Has(mem_readlat, a, a)
      /\ Has(mem_writelat, a, a) /\ Has(mem_ruw, a, a)
      /\ Has(mem_port("reader"), a, a) /\ Has(mem_port("writer"), a, a)
      /\ Has(mem_port("readwriter"), a, a)
  BY DtypeFits, DepthFits, ReadlatFits, WritelatFits, RuwFits, MemPortFits
<1> HIDE DEF a
<1>5. AllHave(of, a, a)
  BY <1>1, <1>4 DEF AllHave
<1>6. Len(of) > 0
  BY <1>1
<1>7. Fit(Choice(of), a, a)
  BY <1>2, <1>3, <1>5, <1>6, KeepFit DEF a
<1> QED BY <1>7 DEF of, a

(* The rule mem gives a memory, and leaves the blocks as they were.        *)
LEMMA MemFits ==
  ASSUME NEW n \in Nat \ {0}
  PROVE  Has(mem,
             At("mem", {"none"}, Unknown, Unknown, Unknown, n, FALSE, FALSE),
             At("mem", {"Memory"}, Unknown, Unknown, Unknown, n, TRUE, FALSE))
<1> DEFINE In(val, last, open, moved, kept) ==
             At("mem", val, last, Unknown, Unknown, open, moved, kept)
<1> DEFINE Start == In({"none"}, Unknown, n, FALSE, FALSE)
           Going == In({"none"}, Unknown, n, TRUE, FALSE)
           Built(kept) == In({"Memory"}, Unknown, n, TRUE, kept)
<1>1. Has(<<T("mem"), T("identifier"), Make("Memory", <<>>), T(":"), T("("),
            Star(<<Choice(MemFields)>>), T(")")>>,
          Start,
          Built(FALSE))
  <2>1. Fit(T("mem"), Start, Going)
    BY TokenFit
  <2>2. Fit(T("identifier"), Going, Going)
    BY TokenFit
  <2>3. Fit(Make("Memory", <<>>), Going, Built(FALSE))
    BY MakeFit, KindNames
  <2>4. Fit(T(":"), Built(FALSE), Built(FALSE))
    BY TokenFit
  <2>5. Fit(T("("), Built(FALSE), Built(FALSE))
    BY TokenFit
  <2>6. Fit(Star(<<Choice(MemFields)>>), Built(FALSE), Built(FALSE))
    <3>1. Has(<<Choice(MemFields)>>, Built(TRUE), Built(TRUE))
      <4>1. Fit(Choice(MemFields), Built(TRUE), Built(TRUE))
        BY MemFieldsFit
      <4> QED BY <4>1, Has1
    <3> QED BY <3>1, StarFit, Known
  <2>7. Fit(T(")"), Built(FALSE), Built(FALSE))
    BY TokenFit
  <2> QED BY <2>1, <2>2, <2>3, <2>4, <2>5, <2>6, <2>7, Has7
<1> QED BY <1>1 DEF mem

(* The rule inst gives an instance, and leaves the blocks as they were.    *)
LEMMA InstFits ==
  ASSUME NEW n \in Nat \ {0}
  PROVE  Has(inst,
             At("inst", {"none"}, Unknown, Unknown, Unknown, n, FALSE, FALSE),
             At("inst", {"Instance"}, Unknown, Unknown, Unknown, n, TRUE,
                FALSE))
<1> DEFINE In(val, last, open, moved, kept) ==
             At("inst", val, last, Unknown, Unknown, open, moved, kept)
<1> DEFINE Start == In({"none"}, Unknown, n, FALSE, FALSE)
           Going == In({"none"}, Unknown, n, TRUE, FALSE)
<1>1. Has(Tokens(<<"inst", "identifier", "of">>)
          \o <<R("reference"), Make("Instance", <<"mOf">>), Info>>,
          Start,
          In({"Instance"}, Unknown, n, TRUE, FALSE))
  <2>1. Has(Tokens(<<"inst", "identifier", "of">>), Start, Going)
    <3> DEFINE ts == <<"inst", "identifier", "of">>
    <3>1. IsSeq(ts)
      BY Literal
    <3>2. /\ Len(ts) > 0
          /\ \A i \in 1 .. Len(ts) :
               ts[i] \notin {"end-of-input", "flip", "INDENT", "DEDENT"}
      OBVIOUS
    <3> HIDE DEF ts
    <3>3. Has(Tokens(ts), Start, Going)
      BY <3>1, <3>2, TokensHave
    <3> QED BY <3>3 DEF ts
  <2>2. Has(<<R("reference"), Make("Instance", <<"mOf">>), Info>>, Going,
            In({"Instance"}, {"Reference"}, n, TRUE, FALSE))
    <3>1. Fit(R("reference"), Going,
              In({"none"}, {"Reference"}, n, TRUE, FALSE))
      BY CallFit
    <3>2. Fit(Make("Instance", <<"mOf">>),
              In({"none"}, {"Reference"}, n, TRUE, FALSE),
              In({"Instance"}, {"Reference"}, n, TRUE, FALSE))
      BY MakeFit, KindNames, KindsAndPointers, KindSets
    <3>3. Fit(Info, In({"Instance"}, {"Reference"}, n, TRUE, FALSE),
              In({"Instance"}, {"Reference"}, n, TRUE, FALSE))
      BY InfoFit
    <3> QED BY <3>1, <3>2, <3>3, Has3
  <2>3. Has(Tokens(<<"inst", "identifier", "of">>)
            \o <<R("reference"), Make("Instance", <<"mOf">>), Info>>,
            Start,
            In({"Instance"}, {"Reference"}, n, TRUE, FALSE))
    BY <2>1, <2>2, HasConcat
  <2>4. /\ Below(Start, Start)
        /\ Below(In({"Instance"}, {"Reference"}, n, TRUE, FALSE),
                 In({"Instance"}, Unknown, n, TRUE, FALSE))
    BY AtBelow, Known, KindSets
  <2> QED BY <2>3, <2>4, HasBelow
<1> QED BY <1>1 DEF inst

(* The rule node gives a named node, and leaves the blocks as they were.   *)
LEMMA NodeFits ==
  ASSUME NEW n \in Nat \ {0}
  PROVE  Has(node,
             At("node", {"none"}, Unknown, Unknown, Unknown, n, FALSE, FALSE),
             At("node", {"Node"}, Unknown, Unknown, Unknown, n, TRUE, FALSE))
<1> DEFINE In(val, last, open, moved, kept) ==
             At("node", val, last, Unknown, Unknown, open, moved, kept)
<1> DEFINE Start == In({"none"}, Unknown, n, FALSE, FALSE)
           Going == In({"none"}, Unknown, n, TRUE, FALSE)
<1>1. Has(Tokens(<<"node", "identifier", "=">>)
          \o <<Exp, Make("Node", <<"mExpr">>), Info>>,
          Start,
          In({"Node"}, Unknown, n, TRUE, FALSE))
  <2>1. Has(Tokens(<<"node", "identifier", "=">>), Start, Going)
    <3> DEFINE ts == <<"node", "identifier", "=">>
    <3>1. IsSeq(ts)
      BY Literal
    <3>2. /\ Len(ts) > 0
          /\ \A i \in 1 .. Len(ts) :
               ts[i] \notin {"end-of-input", "flip", "INDENT", "DEDENT"}
      OBVIOUS
    <3> HIDE DEF ts
    <3>3. Has(Tokens(ts), Start, Going)
      BY <3>1, <3>2, TokensHave
    <3> QED BY <3>3 DEF ts
  <2>2. Has(<<Exp, Make("Node", <<"mExpr">>), Info>>, Going,
            In({"Node"}, ReadExps, n, TRUE, FALSE))
    <3>1. Fit(Exp, Going, In({"none"}, ReadExps, n, TRUE, FALSE))
      BY CallFit DEF Exp
    <3>2. Fit(Make("Node", <<"mExpr">>),
              In({"none"}, ReadExps, n, TRUE, FALSE),
              In({"Node"}, ReadExps, n, TRUE, FALSE))
      BY MakeFit, KindNames, KindsAndPointers, KindSets
    <3>3. Fit(Info, In({"Node"}, ReadExps, n, TRUE, FALSE),
              In({"Node"}, ReadExps, n, TRUE, FALSE))
      BY InfoFit
    <3> QED BY <3>1, <3>2, <3>3, Has3
  <2>3. Has(Tokens(<<"node", "identifier", "=">>)
            \o <<Exp, Make("Node", <<"mExpr">>), Info>>,
            Start,
            In({"Node"}, ReadExps, n, TRUE, FALSE))
    BY <2>1, <2>2, HasConcat
  <2>4. /\ Below(Start, Start)
        /\ Below(In({"Node"}, ReadExps, n, TRUE, FALSE),
                 In({"Node"}, Unknown, n, TRUE, FALSE))
    BY AtBelow, Known, KindSets
  <2> QED BY <2>3, <2>4, HasBelow
<1> QED BY <1>1 DEF node

(* The rule connect gives a connection, and leaves the blocks as they      *)
(* were.                                                                   *)
LEMMA ConnectFits ==
  ASSUME NEW n \in Nat \ {0}
  PROVE  Has(connect,
             At("connect", {"none"}, Unknown, Unknown, Unknown, n, FALSE,
                FALSE),
             At("connect", {"Connect"}, Unknown, Unknown, Unknown, n, TRUE,
                FALSE))
<1> DEFINE In(val, last, open, moved, kept) ==
             At("connect", val, last, Unknown, Unknown, open, moved, kept)
<1> DEFINE Among(val, last, second, third, open, moved, kept) ==
             At("connect", val, last, second, third, open, moved, kept)
<1> DEFINE Start == In({"none"}, Unknown, n, FALSE, FALSE)
<1>1. Has(<<Exp, T("<="), Exp, Make("Connect", <<"mTo", "mFrom">>), Info>>,
          Start,
          In({"Connect"}, Unknown, n, TRUE, FALSE))
  <2>1. Fit(Exp, Start, In({"none"}, ReadExps, n, TRUE, FALSE))
    BY CallFit, Beginnings DEF Exp
  <2>2. Fit(T("<="), In({"none"}, ReadExps, n, TRUE, FALSE),
            In({"none"}, ReadExps, n, TRUE, FALSE))
    BY TokenFit
  <2>3. Fit(Exp, In({"none"}, ReadExps, n, TRUE, FALSE),
            Among({"none"}, ReadExps, ReadExps, Unknown, n, TRUE, FALSE))
    BY CallFit DEF Exp
  <2>4. Fit(Make("Connect", <<"mTo", "mFrom">>),
            Among({"none"}, ReadExps, ReadExps, Unknown, n, TRUE, FALSE),
            Among({"Connect"}, ReadExps, ReadExps, Unknown, n, TRUE, FALSE))
    BY MakeFit, KindNames, KindsAndPointers, KindSets
  <2>5. Fit(Info,
            Among({"Connect"}, ReadExps, ReadExps, Unknown, n, TRUE, FALSE),
            Among({"Connect"}, ReadExps, ReadExps, Unknown, n, TRUE, FALSE))
    BY InfoFit
  <2>6. Has(<<Exp, T("<="), Exp, Make("Connect", <<"mTo", "mFrom">>), Info>>,
            Start,
            Among({"Connect"}, ReadExps, ReadExps, Unknown, n, TRUE, FALSE))
    BY <2>1, <2>2, <2>3, <2>4, <2>5, Has5
  <2>7. /\ Below(Start, Start)
        /\ Below(Among({"Connect"}, ReadExps, ReadExps, Unknown, n, TRUE,
                       FALSE), In({"Connect"}, Unknown, n, TRUE, FALSE))
    BY AtBelow, Known, KindSets
  <2> QED BY <2>6, <2>7, HasBelow
<1> QED BY <1>1 DEF connect

(* The rule partconnect gives a connection, and leaves the blocks as they  *)
(* were.                                                                   *)
LEMMA PartconnectFits ==
  ASSUME NEW n \in Nat \ {0}
  PROVE  Has(partconnect,
             At("partconnect", {"none"}, Unknown, Unknown, Unknown, n, FALSE,
                FALSE),
             At("partconnect", {"Connect"}, Unknown, Unknown, Unknown, n, TRUE,
                FALSE))
<1> DEFINE In(val, last, open, moved, kept) ==
             At("partconnect", val, last, Unknown, Unknown, open, moved, kept)
<1> DEFINE Among(val, last, second, third, open, moved, kept) ==
             At("partconnect", val, last, second, third, open, moved, kept)
<1> DEFINE Start == In({"none"}, Unknown, n, FALSE, FALSE)
<1>1. Has(<<Exp, T("<-"), Exp, Make("Connect", <<"mTo", "mFrom">>), Info>>,
          Start,
          In({"Connect"}, Unknown, n, TRUE, FALSE))
  <2>1. Fit(Exp, Start, In({"none"}, ReadExps, n, TRUE, FALSE))
    BY CallFit, Beginnings DEF Exp
  <2>2. Fit(T("<-"), In({"none"}, ReadExps, n, TRUE, FALSE),
            In({"none"}, ReadExps, n, TRUE, FALSE))
    BY TokenFit
  <2>3. Fit(Exp, In({"none"}, ReadExps, n, TRUE, FALSE),
            Among({"none"}, ReadExps, ReadExps, Unknown, n, TRUE, FALSE))
    BY CallFit DEF Exp
  <2>4. Fit(Make("Connect", <<"mTo", "mFrom">>),
            Among({"none"}, ReadExps, ReadExps, Unknown, n, TRUE, FALSE),
            Among({"Connect"}, ReadExps, ReadExps, Unknown, n, TRUE, FALSE))
    BY MakeFit, KindNames, KindsAndPointers, KindSets
  <2>5. Fit(Info,
            Among({"Connect"}, ReadExps, ReadExps, Unknown, n, TRUE, FALSE),
            Among({"Connect"}, ReadExps, ReadExps, Unknown, n, TRUE, FALSE))
    BY InfoFit
  <2>6. Has(<<Exp, T("<-"), Exp, Make("Connect", <<"mTo", "mFrom">>), Info>>,
            Start,
            Among({"Connect"}, ReadExps, ReadExps, Unknown, n, TRUE, FALSE))
    BY <2>1, <2>2, <2>3, <2>4, <2>5, Has5
  <2>7. /\ Below(Start, Start)
        /\ Below(Among({"Connect"}, ReadExps, ReadExps, Unknown, n, TRUE,
                       FALSE), In({"Connect"}, Unknown, n, TRUE, FALSE))
    BY AtBelow, Known, KindSets
  <2> QED BY <2>6, <2>7, HasBelow
<1> QED BY <1>1 DEF partconnect

(* The rule invalidate gives an invalidation, and leaves the blocks as     *)
(* they were.                                                              *)
LEMMA InvalidateFits ==
  ASSUME NEW n \in Nat \ {0}
  PROVE  Has(invalidate,
             At("invalidate", {"none"}, Unknown, Unknown, Unknown, n, FALSE,
                FALSE),
             At("invalidate", {"Invalid"}, Unknown, Unknown, Unknown, n, TRUE,
                FALSE))
<1> DEFINE In(val, last, open, moved, kept) ==
             At("invalidate", val, last, Unknown, Unknown, open, moved, kept)
<1> DEFINE Start == In({"none"}, Unknown, n, FALSE, FALSE)
<1>1. Has(<<Exp, Make("Invalid", <<"mExp">>), T("is"), T("invalid"), Info>>,
          Start,
          In({"Invalid"}, Unknown, n, TRUE, FALSE))
  <2>1. Fit(Exp, Start, In({"none"}, ReadExps, n, TRUE, FALSE))
    BY CallFit, Beginnings DEF Exp
  <2>2. Fit(Make("Invalid", <<"mExp">>),
            In({"none"}, ReadExps, n, TRUE, FALSE),
            In({"Invalid"}, ReadExps, n, TRUE, FALSE))
    BY MakeFit, KindNames, KindsAndPointers, KindSets
  <2>3. Fit(T("is"), In({"Invalid"}, ReadExps, n, TRUE, FALSE),
            In({"Invalid"}, ReadExps, n, TRUE, FALSE))
    BY TokenFit
  <2>4. Fit(T("invalid"), In({"Invalid"}, ReadExps, n, TRUE, FALSE),
            In({"Invalid"}, ReadExps, n, TRUE, FALSE))
    BY TokenFit
  <2>5. Fit(Info, In({"Invalid"}, ReadExps, n, TRUE, FALSE),
            In({"Invalid"}, ReadExps, n, TRUE, FALSE))
    BY InfoFit
  <2>6. Has(<<Exp, Make("Invalid", <<"mExp">>), T("is"), T("invalid"), Info>>,
            Start,
            In({"Invalid"}, ReadExps, n, TRUE, FALSE))
    BY <2>1, <2>2, <2>3, <2>4, <2>5, Has5
  <2>7. /\ Below(Start, Start)
        /\ Below(In({"Invalid"}, ReadExps, n, TRUE, FALSE),
                 In({"Invalid"}, Unknown, n, TRUE, FALSE))
    BY AtBelow, Known, KindSets
  <2> QED BY <2>6, <2>7, HasBelow
<1> QED BY <1>1 DEF invalidate

(* The rule conditional gives a conditional, and leaves the blocks as they *)
(* were.                                                                   *)
LEMMA ConditionalFits ==
  ASSUME NEW n \in Nat \ {0}
  PROVE  Has(conditional,
             At("conditional", {"none"}, Unknown, Unknown, Unknown, n, FALSE,
                FALSE),
             At("conditional", {"Conditional"}, Unknown, Unknown, Unknown, n,
                TRUE, FALSE))
<1> DEFINE In(val, last, open, moved, kept) ==
             At("conditional", val, last, Unknown, Unknown, open, moved, kept)
<1> DEFINE Among(val, last, second, third, open, moved, kept) ==
             At("conditional", val, last, second, third, open, moved, kept)
<1> DEFINE Start == In({"none"}, Unknown, n, FALSE, FALSE)
           Going == In({"none"}, Unknown, n, TRUE, FALSE)
           Built(kept) == In({"Conditional"}, Unknown, n, TRUE, kept)
<1>1. Has(<<T("when"), Exp, Make("Conditional", <<"mCond">>), T(":"), Info,
            Opt(<<Choice(<<<<R("stmt_group"), Attach("mThen")>>,
                           <<R("stmt_suite"), Attach("mThen")>>>>)>>),
                           Opt(<<R("conditional_else")>>)>>,
          Start,
          Built(FALSE))
  <2>1. Fit(T("when"), Start, Going)
    BY TokenFit
  <2>2. Fit(Exp, Going, In({"none"}, ReadExps, n, TRUE, FALSE))
    BY CallFit DEF Exp
  <2>3. Fit(Make("Conditional", <<"mCond">>),
            In({"none"}, ReadExps, n, TRUE, FALSE),
            In({"Conditional"}, ReadExps, n, TRUE, FALSE))
    BY MakeFit, KindNames, KindsAndPointers, KindSets
  <2>4. Fit(T(":"), In({"Conditional"}, ReadExps, n, TRUE, FALSE),
            In({"Conditional"}, ReadExps, n, TRUE, FALSE))
    BY TokenFit
  <2>5. Fit(Info, In({"Conditional"}, ReadExps, n, TRUE, FALSE),
            In({"Conditional"}, ReadExps, n, TRUE, FALSE))
    BY InfoFit
  <2>6. Fit(Opt(<<Choice(<<<<R("stmt_group"), Attach("mThen")>>,
                           <<R("stmt_suite"), Attach("mThen")>>>>)>>),
            In({"Conditional"}, ReadExps, n, TRUE, FALSE),
            Built(FALSE))
    <3>1. ASSUME NEW k3 \in BOOLEAN
          PROVE  Has(<<Choice(<<<<R("stmt_group"), Attach("mThen")>>,
                                <<R("stmt_suite"), Attach("mThen")>>>>)>>,
                     In({"Conditional"}, ReadExps, n, TRUE, k3),
                     Built(k3))
      <4>1. Fit(Choice(<<<<R("stmt_group"), Attach("mThen")>>,
                         <<R("stmt_suite"), Attach("mThen")>>>>),
                In({"Conditional"}, ReadExps, n, TRUE, k3),
                Among({"Conditional"}, {"StmtGroup"}, ReadExps, Unknown, n,
                      TRUE, k3))
        <5>1. ASSUME NEW k5 \in BOOLEAN
              PROVE  Has(<<R("stmt_group"), Attach("mThen")>>,
                         In({"Conditional"}, ReadExps, n, TRUE, k5),
                         Among({"Conditional"}, {"StmtGroup"}, ReadExps,
                               Unknown, n, TRUE, k5))
          <6>1. Fit(R("stmt_group"),
                    In({"Conditional"}, ReadExps, n, TRUE, k5),
                    Among({"Conditional"}, {"StmtGroup"}, ReadExps, Unknown, n,
                          TRUE, k5))
            BY CallFit
          <6>2. Fit(Attach("mThen"),
                    Among({"Conditional"}, {"StmtGroup"}, ReadExps, Unknown, n,
                          TRUE, k5),
                    Among({"Conditional"}, {"StmtGroup"}, ReadExps, Unknown, n,
                          TRUE, k5))
            BY ActFit, KindsAndPointers, KindSets
          <6> QED BY <6>1, <6>2, Has2
        <5>2. ASSUME NEW k5 \in BOOLEAN
              PROVE  Has(<<R("stmt_suite"), Attach("mThen")>>,
                         In({"Conditional"}, ReadExps, n, TRUE, k5),
                         Among({"Conditional"}, {"StmtGroup"}, ReadExps,
                               Unknown, n, TRUE, k5))
          <6>1. Fit(R("stmt_suite"),
                    In({"Conditional"}, ReadExps, n, TRUE, k5),
                    Among({"Conditional"}, {"StmtGroup"}, ReadExps, Unknown, n,
                          TRUE, k5))
            BY CallFit
          <6>2. Fit(Attach("mThen"),
                    Among({"Conditional"}, {"StmtGroup"}, ReadExps, Unknown, n,
                          TRUE, k5),
                    Among({"Conditional"}, {"StmtGroup"}, ReadExps, Unknown, n,
                          TRUE, k5))
            BY ActFit, KindsAndPointers, KindSets
          <6> QED BY <6>1, <6>2, Has2
        <5>3. <<R("stmt_group"), Attach("mThen")>> # <<>>
          OBVIOUS
        <5> QED BY <5>1, <5>2, <5>3, KeepTwo
      <4>2. Has(<<Choice(<<<<R("stmt_group"), Attach("mThen")>>,
                           <<R("stmt_suite"), Attach("mThen")>>>>)>>,
                In({"Conditional"}, ReadExps, n, TRUE, k3),
                Among({"Conditional"}, {"StmtGroup"}, ReadExps, Unknown, n,
                      TRUE, k3))
        BY <4>1, Has1
      <4>3. /\ Below(In({"Conditional"}, ReadExps, n, TRUE, k3),
                     In({"Conditional"}, ReadExps, n, TRUE, k3))
            /\ Below(Among({"Conditional"}, {"StmtGroup"}, ReadExps, Unknown,
                           n, TRUE, k3),
                     Built(k3))
        BY AtBelow, Known, KindSets
      <4> QED BY <4>2, <4>3, HasBelow
    <3>2. <<Choice(<<<<R("stmt_group"), Attach("mThen")>>,
                     <<R("stmt_suite"), Attach("mThen")>>>>)>> # <<>>
      OBVIOUS
    <3> QED BY <3>1, <3>2, OptFit, Known
  <2>7. Fit(Opt(<<R("conditional_else")>>), Built(FALSE), Built(FALSE))
    <3>1. ASSUME NEW k3 \in BOOLEAN
          PROVE  Has(<<R("conditional_else")>>, Built(k3), Built(k3))
      <4>1. Fit(R("conditional_else"), Built(k3),
                In({"Conditional"}, {"ConditionalElse"}, n, TRUE, k3))
        BY CallFit
      <4>2. Has(<<R("conditional_else")>>, Built(k3),
                In({"Conditional"}, {"ConditionalElse"}, n, TRUE, k3))
        BY <4>1, Has1
      <4>3. /\ Below(Built(k3), Built(k3))
            /\ Below(In({"Conditional"}, {"ConditionalElse"}, n, TRUE, k3),
                     Built(k3))
        BY AtBelow, Known, KindSets
      <4> QED BY <4>2, <4>3, HasBelow
    <3>2. <<R("conditional_else")>> # <<>>
      OBVIOUS
    <3> QED BY <3>1, <3>2, OptFit, Known
  <2> QED BY <2>1, <2>2, <2>3, <2>4, <2>5, <2>6, <2>7, Has7
<1> QED BY <1>1 DEF conditional

(* The rule conditional_else gives what a conditional has for an else, and *)
(* leaves the blocks as they were.                                         *)
LEMMA ConditionalElseFits ==
  ASSUME NEW n \in Nat \ {0}
  PROVE  Has(conditional_else,
             At("conditional_else", {"none"}, Unknown, Unknown, Unknown, n,
                FALSE, FALSE),
             At("conditional_else", {"ConditionalElse"}, Unknown, Unknown,
                Unknown, n, TRUE, FALSE))
<1> DEFINE In(val, last, open, moved, kept) ==
             At("conditional_else", val, last, Unknown, Unknown, open, moved,
                kept)
<1> DEFINE Among(val, last, second, third, open, moved, kept) ==
             At("conditional_else", val, last, second, third, open, moved,
                kept)
<1> DEFINE Start == In({"none"}, Unknown, n, FALSE, FALSE)
           Going == In({"none"}, Unknown, n, TRUE, FALSE)
           Built(kept) == In({"ConditionalElse"}, Unknown, n, TRUE, kept)
<1>1. Has(<<T("else"), Make("ConditionalElse", <<>>),
            Choice(<<<<R("conditional"), Wrap("StmtGroup", "mGroup")>>,
                     <<T(":"), Info,
                       Choice(<<<<R("stmt_group")>>,
                                <<R("stmt_suite")>>>>)>>>>),
                                Attach("mStmts")>>,
          Start,
          Built(FALSE))
  <2>1. Fit(T("else"), Start, Going)
    BY TokenFit
  <2>2. Fit(Make("ConditionalElse", <<>>), Going, Built(FALSE))
    BY MakeFit, KindNames
  <2>3. Fit(Choice(<<<<R("conditional"), Wrap("StmtGroup", "mGroup")>>,
                     <<T(":"), Info,
                       Choice(<<<<R("stmt_group")>>,
                                <<R("stmt_suite")>>>>)>>>>),
            Built(FALSE),
            In({"ConditionalElse"}, {"StmtGroup"}, n, TRUE, FALSE))
    <3>1. ASSUME NEW k3 \in BOOLEAN
          PROVE  Has(<<R("conditional"), Wrap("StmtGroup", "mGroup")>>,
                     Built(k3),
                     In({"ConditionalElse"}, {"StmtGroup"}, n, TRUE, k3))
      <4>1. Fit(R("conditional"), Built(k3),
                In({"ConditionalElse"}, {"Conditional"}, n, TRUE, k3))
        BY CallFit
      <4>2. Fit(Wrap("StmtGroup", "mGroup"),
                In({"ConditionalElse"}, {"Conditional"}, n, TRUE, k3),
                Among({"ConditionalElse"}, {"StmtGroup"}, {"Conditional"},
                      Unknown, n, TRUE, k3))
        BY WrapFit, KindNames, KindsAndPointers DEF Stmts
      <4>3. Has(<<R("conditional"), Wrap("StmtGroup", "mGroup")>>, Built(k3),
                Among({"ConditionalElse"}, {"StmtGroup"}, {"Conditional"},
                      Unknown, n, TRUE, k3))
        BY <4>1, <4>2, Has2
      <4>4. /\ Below(Built(k3), Built(k3))
            /\ Below(Among({"ConditionalElse"}, {"StmtGroup"}, {"Conditional"},
                           Unknown, n, TRUE, k3),
                     In({"ConditionalElse"}, {"StmtGroup"}, n, TRUE, k3))
        BY AtBelow, Known, KindSets
      <4> QED BY <4>3, <4>4, HasBelow
    <3>2. ASSUME NEW k3 \in BOOLEAN
          PROVE  Has(<<T(":"), Info,
                       Choice(<<<<R("stmt_group")>>, <<R("stmt_suite")>>>>)>>,
                     Built(k3),
                     In({"ConditionalElse"}, {"StmtGroup"}, n, TRUE, k3))
      <4>1. Fit(T(":"), Built(k3), Built(k3))
        BY TokenFit
      <4>2. Fit(Info, Built(k3), Built(k3))
        BY InfoFit
      <4>3. Fit(Choice(<<<<R("stmt_group")>>, <<R("stmt_suite")>>>>),
                Built(k3),
                In({"ConditionalElse"}, {"StmtGroup"}, n, TRUE, k3))
        <5>1. ASSUME NEW k5 \in BOOLEAN
              PROVE  Has(<<R("stmt_group")>>, Built(k5),
                         In({"ConditionalElse"}, {"StmtGroup"}, n, TRUE, k5))
          <6>1. Fit(R("stmt_group"), Built(k5),
                    In({"ConditionalElse"}, {"StmtGroup"}, n, TRUE, k5))
            BY CallFit
          <6> QED BY <6>1, Has1
        <5>2. ASSUME NEW k5 \in BOOLEAN
              PROVE  Has(<<R("stmt_suite")>>, Built(k5),
                         In({"ConditionalElse"}, {"StmtGroup"}, n, TRUE, k5))
          <6>1. Fit(R("stmt_suite"), Built(k5),
                    In({"ConditionalElse"}, {"StmtGroup"}, n, TRUE, k5))
            BY CallFit
          <6> QED BY <6>1, Has1
        <5>3. <<R("stmt_group")>> # <<>>
          OBVIOUS
        <5> QED BY <5>1, <5>2, <5>3, KeepTwo
      <4> QED BY <4>1, <4>2, <4>3, Has3
    <3>3. <<R("conditional"), Wrap("StmtGroup", "mGroup")>> # <<>>
      OBVIOUS
    <3> QED BY <3>1, <3>2, <3>3, KeepTwo
  <2>4. Fit(Attach("mStmts"),
            In({"ConditionalElse"}, {"StmtGroup"}, n, TRUE, FALSE),
            In({"ConditionalElse"}, {"StmtGroup"}, n, TRUE, FALSE))
    BY ActFit, KindsAndPointers, KindSets
  <2>5. Has(<<T("else"), Make("ConditionalElse", <<>>),
              Choice(<<<<R("conditional"), Wrap("StmtGroup", "mGroup")>>,
                       <<T(":"), Info,
                         Choice(<<<<R("stmt_group")>>,
                                  <<R("stmt_suite")>>>>)>>>>),
                                  Attach("mStmts")>>,
            Start,
            In({"ConditionalElse"}, {"StmtGroup"}, n, TRUE, FALSE))
    BY <2>1, <2>2, <2>3, <2>4, Has4
  <2>6. /\ Below(Start, Start)
        /\ Below(In({"ConditionalElse"}, {"StmtGroup"}, n, TRUE, FALSE),
                 Built(FALSE))
    BY AtBelow, Known, KindSets
  <2> QED BY <2>5, <2>6, HasBelow
<1> QED BY <1>1 DEF conditional_else

(* The rule stop gives a stop, and leaves the blocks as they were.         *)
LEMMA StopFits ==
  ASSUME NEW n \in Nat \ {0}
  PROVE  Has(stop,
             At("stop", {"none"}, Unknown, Unknown, Unknown, n, FALSE, FALSE),
             At("stop", {"Stop"}, Unknown, Unknown, Unknown, n, TRUE, FALSE))
<1> DEFINE In(val, last, open, moved, kept) ==
             At("stop", val, last, Unknown, Unknown, open, moved, kept)
<1> DEFINE Among(val, last, second, third, open, moved, kept) ==
             At("stop", val, last, second, third, open, moved, kept)
<1> DEFINE Start == In({"none"}, Unknown, n, FALSE, FALSE)
           Going == In({"none"}, Unknown, n, TRUE, FALSE)
<1>1. Has(<<T("stop"), T("("), Exp, Exp, T("int"),
            Make("Stop", <<"mClock", "mCond">>), T(")"), Info>>,
          Start,
          In({"Stop"}, Unknown, n, TRUE, FALSE))
  <2>1. Fit(T("stop"), Start, Going)
    BY TokenFit
  <2>2. Fit(T("("), Going, Going)
    BY TokenFit
  <2>3. Fit(Exp, Going, In({"none"}, ReadExps, n, TRUE, FALSE))
    BY CallFit DEF Exp
  <2>4. Fit(Exp, In({"none"}, ReadExps, n, TRUE, FALSE),
            Among({"none"}, ReadExps, ReadExps, Unknown, n, TRUE, FALSE))
    BY CallFit DEF Exp
  <2>5. Fit(T("int"),
            Among({"none"}, ReadExps, ReadExps, Unknown, n, TRUE, FALSE),
            Among({"none"}, ReadExps, ReadExps, Unknown, n, TRUE, FALSE))
    BY TokenFit
  <2>6. Fit(Make("Stop", <<"mClock", "mCond">>),
            Among({"none"}, ReadExps, ReadExps, Unknown, n, TRUE, FALSE),
            Among({"Stop"}, ReadExps, ReadExps, Unknown, n, TRUE, FALSE))
    BY MakeFit, KindNames, KindsAndPointers, KindSets
  <2>7. Fit(T(")"),
            Among({"Stop"}, ReadExps, ReadExps, Unknown, n, TRUE, FALSE),
            Among({"Stop"}, ReadExps, ReadExps, Unknown, n, TRUE, FALSE))
    BY TokenFit
  <2>8. Fit(Info, Among({"Stop"}, ReadExps, ReadExps, Unknown, n, TRUE, FALSE),
            Among({"Stop"}, ReadExps, ReadExps, Unknown, n, TRUE, FALSE))
    BY InfoFit
  <2>9. Has(<<T("stop"), T("("), Exp, Exp, T("int"),
              Make("Stop", <<"mClock", "mCond">>), T(")"), Info>>,
            Start,
            Among({"Stop"}, ReadExps, ReadExps, Unknown, n, TRUE, FALSE))
    BY <2>1, <2>2, <2>3, <2>4, <2>5, <2>6, <2>7, <2>8, Has8
  <2>10. /\ Below(Start, Start)
        /\ Below(Among({"Stop"}, ReadExps, ReadExps, Unknown, n, TRUE, FALSE),
                 In({"Stop"}, Unknown, n, TRUE, FALSE))
    BY AtBelow, Known, KindSets
  <2> QED BY <2>9, <2>10, HasBelow
<1> QED BY <1>1 DEF stop

(* The rule printf_ gives a print, and leaves the blocks as they were.     *)
LEMMA PrintfFits ==
  ASSUME NEW n \in Nat \ {0}
  PROVE  Has(printf_,
             At("printf_", {"none"}, Unknown, Unknown, Unknown, n, FALSE,
                FALSE),
             At("printf_", {"Printf"}, Unknown, Unknown, Unknown, n, TRUE,
                FALSE))
<1> DEFINE In(val, last, open, moved, kept) ==
             At("printf_", val, last, Unknown, Unknown, open, moved, kept)
<1> DEFINE Among(val, last, second, third, open, moved, kept) ==
             At("printf_", val, last, second, third, open, moved, kept)
<1> DEFINE Start == In({"none"}, Unknown, n, FALSE, FALSE)
           Going == In({"none"}, Unknown, n, TRUE, FALSE)
           Built(kept) == In({"Printf"}, Unknown, n, TRUE, kept)
<1>1. Has(<<T("printf"), T("("), Exp, Exp, T("string"),
            Make("Printf", <<"mClock", "mCond">>), Star(<<Exp>>), T(")"),
            Info>>,
          Start,
          Built(FALSE))
  <2>1. Fit(T("printf"), Start, Going)
    BY TokenFit
  <2>2. Fit(T("("), Going, Going)
    BY TokenFit
  <2>3. Fit(Exp, Going, In({"none"}, ReadExps, n, TRUE, FALSE))
    BY CallFit DEF Exp
  <2>4. Fit(Exp, In({"none"}, ReadExps, n, TRUE, FALSE),
            Among({"none"}, ReadExps, ReadExps, Unknown, n, TRUE, FALSE))
    BY CallFit DEF Exp
  <2>5. Fit(T("string"),
            Among({"none"}, ReadExps, ReadExps, Unknown, n, TRUE, FALSE),
            Among({"none"}, ReadExps, ReadExps, Unknown, n, TRUE, FALSE))
    BY TokenFit
  <2>6. Fit(Make("Printf", <<"mClock", "mCond">>),
            Among({"none"}, ReadExps, ReadExps, Unknown, n, TRUE, FALSE),
            Among({"Printf"}, ReadExps, ReadExps, Unknown, n, TRUE, FALSE))
    BY MakeFit, KindNames, KindsAndPointers, KindSets
  <2>7. Fit(Star(<<Exp>>),
            Among({"Printf"}, ReadExps, ReadExps, Unknown, n, TRUE, FALSE),
            Built(FALSE))
    <3>1. Has(<<Exp>>, Built(TRUE), Built(TRUE))
      <4>1. Fit(Exp, Built(TRUE), In({"Printf"}, ReadExps, n, TRUE, TRUE))
        BY CallFit DEF Exp
      <4>2. Has(<<Exp>>, Built(TRUE), In({"Printf"}, ReadExps, n, TRUE, TRUE))
        BY <4>1, Has1
      <4>3. /\ Below(Built(TRUE), Built(TRUE))
            /\ Below(In({"Printf"}, ReadExps, n, TRUE, TRUE), Built(TRUE))
        BY AtBelow, Known, KindSets
      <4> QED BY <4>2, <4>3, HasBelow
    <3> QED BY <3>1, StarFit, Known
  <2>8. Fit(T(")"), Built(FALSE), Built(FALSE))
    BY TokenFit
  <2>9. Fit(Info, Built(FALSE), Built(FALSE))
    BY InfoFit
  <2> QED BY <2>1, <2>2, <2>3, <2>4, <2>5, <2>6, <2>7, <2>8, <2>9, Has9
<1> QED BY <1>1 DEF printf_

(* The rule empty gives an empty statement, and leaves the blocks as they  *)
(* were.                                                                   *)
LEMMA EmptyFits ==
  ASSUME NEW n \in Nat \ {0}
  PROVE  Has(empty,
             At("empty", {"none"}, Unknown, Unknown, Unknown, n, FALSE, FALSE),
             At("empty", {"Empty"}, Unknown, Unknown, Unknown, n, TRUE, FALSE))
<1> DEFINE In(val, last, open, moved, kept) ==
             At("empty", val, last, Unknown, Unknown, open, moved, kept)
<1> DEFINE Start == In({"none"}, Unknown, n, FALSE, FALSE)
           Going == In({"none"}, Unknown, n, TRUE, FALSE)
           Built(kept) == In({"Empty"}, Unknown, n, TRUE, kept)
<1>1. Has(<<T("skip"), Make("Empty", <<>>), Info>>, Start, Built(FALSE))
  <2>1. Fit(T("skip"), Start, Going)
    BY TokenFit
  <2>2. Fit(Make("Empty", <<>>), Going, Built(FALSE))
    BY MakeFit, KindNames
  <2>3. Fit(Info, Built(FALSE), Built(FALSE))
    BY InfoFit
  <2> QED BY <2>1, <2>2, <2>3, Has3
<1> QED BY <1>1 DEF empty

(* The rule reference gives a reference, and leaves the blocks as they     *)
(* were.                                                                   *)
LEMMA ReferenceFits ==
  ASSUME NEW n \in Nat \ {0}
  PROVE  Has(reference,
             At("reference", {"none"}, Unknown, Unknown, Unknown, n, FALSE,
                FALSE),
             At("reference", {"Reference"}, Unknown, Unknown, Unknown, n, TRUE,
                FALSE))
<1> DEFINE In(val, last, open, moved, kept) ==
             At("reference", val, last, Unknown, Unknown, open, moved, kept)
<1> DEFINE Start == In({"none"}, Unknown, n, FALSE, FALSE)
           Going == In({"none"}, Unknown, n, TRUE, FALSE)
<1>1. Has(<<T("identifier"), Make("Reference", <<>>)>>, Start,
          In({"Reference"}, Unknown, n, TRUE, FALSE))
  <2>1. Fit(T("identifier"), Start, Going)
    BY TokenFit
  <2>2. Fit(Make("Reference", <<>>), Going,
            In({"Reference"}, Unknown, n, TRUE, FALSE))
    BY MakeFit, KindNames
  <2> QED BY <2>1, <2>2, Has2
<1> QED BY <1>1 DEF reference

(* The helper of an expression gives an expression, around the one it      *)
(* inherits, or that one.                                                  *)
LEMMA ExpHelperFits ==
  ASSUME NEW n \in Nat \ {0}
  PROVE  Has(exp_helper,
             At("exp_helper", ReadExps, ReadExps, Unknown, Unknown, n, FALSE,
                FALSE),
             At("exp_helper", ReadExps, Unknown, Unknown, Unknown, n, FALSE,
                FALSE))
<1> DEFINE In(val, last, open, moved, kept) ==
             At("exp_helper", val, last, Unknown, Unknown, open, moved, kept)
<1> DEFINE Among(val, last, second, third, open, moved, kept) ==
             At("exp_helper", val, last, second, third, open, moved, kept)
<1> DEFINE Failed == In(Unknown, ReadExps, n, FALSE, FALSE)
           Base == In(ReadExps, ReadExps, n, FALSE, FALSE)
           Indexed ==
             Among(ReadExps, ReadExps, ReadExps, ReadExps, n, TRUE, FALSE)
<1>1. Has(<<Choice(<<<<T("."), R("reference"),
                       Make("SubField", <<"mOf", "mField">>),
                       Inherited("exp_helper"), Take>>,
                     <<T("["), T("int"), Make("SubIndex", <<"mOf">>), T("]"),
                       Inherited("exp_helper"), Take>>,
                     <<T("["), Exp, Make("SubAccess", <<"mOf", "mExp">>),
                       T("]"), Inherited("exp_helper"), Take>>,
                     <<Take>>>>)>>,
          Base,
          In(ReadExps, Unknown, n, FALSE, FALSE))
  <2>1. Fit(Choice(<<<<T("."), R("reference"),
                       Make("SubField", <<"mOf", "mField">>),
                       Inherited("exp_helper"), Take>>,
                     <<T("["), T("int"), Make("SubIndex", <<"mOf">>), T("]"),
                       Inherited("exp_helper"), Take>>,
                     <<T("["), Exp, Make("SubAccess", <<"mOf", "mExp">>),
                       T("]"), Inherited("exp_helper"), Take>>,
                     <<Take>>>>),
            Base,
            Base)
    <3>1. Has(<<T("."), R("reference"), Make("SubField", <<"mOf", "mField">>),
                Inherited("exp_helper"), Take>>,
              Failed,
              Base)
      <4>1. Fit(T("."), Failed, In(Unknown, ReadExps, n, TRUE, FALSE))
        BY TokenFit
      <4>2. Fit(R("reference"), In(Unknown, ReadExps, n, TRUE, FALSE),
                Among(Unknown, {"Reference"}, ReadExps, Unknown, n, TRUE,
                      FALSE))
        BY CallFit
      <4>3. Fit(Make("SubField", <<"mOf", "mField">>),
                Among(Unknown, {"Reference"}, ReadExps, Unknown, n, TRUE,
                      FALSE),
                Among({"SubField"}, {"Reference"}, ReadExps, Unknown, n, TRUE,
                      FALSE))
        BY MakeFit, KindNames, KindsAndPointers, KindSets
      <4>4. Fit(Inherited("exp_helper"),
                Among({"SubField"}, {"Reference"}, ReadExps, Unknown, n, TRUE,
                      FALSE),
                Among({"SubField"}, ReadExps, {"Reference"}, ReadExps, n, TRUE,
                      FALSE))
        BY HelperFit, KindSets
      <4>5. Fit(Take,
                Among({"SubField"}, ReadExps, {"Reference"}, ReadExps, n, TRUE,
                      FALSE),
                Among(ReadExps, ReadExps, {"Reference"}, ReadExps, n, TRUE,
                      FALSE))
        BY TakeFit, KindSets
      <4>6. Has(<<T("."), R("reference"),
                  Make("SubField", <<"mOf", "mField">>),
                  Inherited("exp_helper"), Take>>,
                Failed,
                Among(ReadExps, ReadExps, {"Reference"}, ReadExps, n, TRUE,
                      FALSE))
        BY <4>1, <4>2, <4>3, <4>4, <4>5, Has5
      <4>7. /\ Below(Failed, Failed)
            /\ Below(Among(ReadExps, ReadExps, {"Reference"}, ReadExps, n,
                           TRUE, FALSE),
                     Base)
        BY AtBelow, Known, KindSets
      <4> QED BY <4>6, <4>7, HasBelow
    <3>2. Has(<<T("["), T("int"), Make("SubIndex", <<"mOf">>), T("]"),
                Inherited("exp_helper"), Take>>,
              Failed,
              Base)
      <4>1. Fit(T("["), Failed,
                Among({}, ReadExps, ReadExps, ReadExps, n, TRUE, FALSE))
        BY BracketFit, AtBelow
      <4>2. Fit(T("int"),
                Among({}, ReadExps, ReadExps, ReadExps, n, TRUE, FALSE),
                Among({}, ReadExps, ReadExps, ReadExps, n, TRUE, FALSE))
        BY TokenFit
      <4>3. Fit(Make("SubIndex", <<"mOf">>),
                Among({}, ReadExps, ReadExps, ReadExps, n, TRUE, FALSE),
                Among({}, ReadExps, ReadExps, ReadExps, n, TRUE, FALSE))
        BY UnreachedFit, AtBelow
      <4>4. Fit(T("]"),
                Among({}, ReadExps, ReadExps, ReadExps, n, TRUE, FALSE),
                Indexed)
        BY BracketFit, AtBelow
      <4>5. Fit(Inherited("exp_helper"), Indexed, Indexed)
        BY HelperFit, KindSets
      <4>6. Fit(Take, Indexed, Indexed)
        BY TakeFit, KindSets
      <4>7. Has(<<T("["), T("int"), Make("SubIndex", <<"mOf">>), T("]"),
                  Inherited("exp_helper"), Take>>,
                Failed,
                Indexed)
        BY <4>1, <4>2, <4>3, <4>4, <4>5, <4>6, Has6
      <4>8. /\ Below(Failed, Failed)
            /\ Below(Among(ReadExps, ReadExps, ReadExps, ReadExps, n, TRUE,
                           FALSE), Base)
        BY AtBelow, Known, KindSets
      <4> QED BY <4>7, <4>8, HasBelow
    <3>3. Has(<<T("["), Exp, Make("SubAccess", <<"mOf", "mExp">>), T("]"),
                Inherited("exp_helper"), Take>>,
              Failed,
              Base)
      <4>1. Fit(T("["), Failed,
                Among({}, ReadExps, ReadExps, ReadExps, n, TRUE, FALSE))
        BY BracketFit, AtBelow
      <4>2. Fit(Exp, Among({}, ReadExps, ReadExps, ReadExps, n, TRUE, FALSE),
                Among({}, ReadExps, ReadExps, ReadExps, n, TRUE, FALSE))
        BY CallFit DEF Exp
      <4>3. Fit(Make("SubAccess", <<"mOf", "mExp">>),
                Among({}, ReadExps, ReadExps, ReadExps, n, TRUE, FALSE),
                Among({}, ReadExps, ReadExps, ReadExps, n, TRUE, FALSE))
        BY UnreachedFit, AtBelow
      <4>4. Fit(T("]"),
                Among({}, ReadExps, ReadExps, ReadExps, n, TRUE, FALSE),
                Indexed)
        BY BracketFit, AtBelow
      <4>5. Fit(Inherited("exp_helper"), Indexed, Indexed)
        BY HelperFit, KindSets
      <4>6. Fit(Take, Indexed, Indexed)
        BY TakeFit, KindSets
      <4>7. Has(<<T("["), Exp, Make("SubAccess", <<"mOf", "mExp">>), T("]"),
                  Inherited("exp_helper"), Take>>,
                Failed,
                Indexed)
        BY <4>1, <4>2, <4>3, <4>4, <4>5, <4>6, Has6
      <4>8. /\ Below(Failed, Failed)
            /\ Below(Among(ReadExps, ReadExps, ReadExps, ReadExps, n, TRUE,
                           FALSE), Base)
        BY AtBelow, Known, KindSets
      <4> QED BY <4>7, <4>8, HasBelow
    <3>4. Has(<<Take>>, Failed, Base)
      <4>1. Fit(Take, Failed, Base)
        BY TakeFit, KindSets
      <4> QED BY <4>1, Has1
    <3>5. <<T("."), R("reference"), Make("SubField", <<"mOf", "mField">>),
            Inherited("exp_helper"), Take>> # <<>>
      OBVIOUS
    <3> QED BY <3>1, <3>2, <3>3, <3>4, <3>5, FreeFour
  <2>2. Has(<<Choice(<<<<T("."), R("reference"),
                         Make("SubField", <<"mOf", "mField">>),
                         Inherited("exp_helper"), Take>>,
                       <<T("["), T("int"), Make("SubIndex", <<"mOf">>),
                         T("]"), Inherited("exp_helper"), Take>>,
                       <<T("["), Exp, Make("SubAccess", <<"mOf", "mExp">>),
                         T("]"), Inherited("exp_helper"), Take>>,
                       <<Take>>>>)>>,
            Base,
            Base)
    BY <2>1, Has1
  <2>3. /\ Below(Base, Base)
        /\ Below(Base, In(ReadExps, Unknown, n, FALSE, FALSE))
    BY AtBelow, Known, KindSets
  <2> QED BY <2>2, <2>3, HasBelow
<1> QED BY <1>1 DEF exp_helper

(* The rule exp_int gives a constant, and leaves the blocks as they were.  *)
LEMMA ExpIntFits ==
  ASSUME NEW n \in Nat \ {0}
  PROVE  Has(exp_int,
             At("exp_int", {"none"}, Unknown, Unknown, Unknown, n, FALSE,
                FALSE),
             At("exp_int", {"Constant"}, Unknown, Unknown, Unknown, n, TRUE,
                FALSE))
<1> DEFINE In(val, last, open, moved, kept) ==
             At("exp_int", val, last, Unknown, Unknown, open, moved, kept)
<1> DEFINE Start == In({"none"}, Unknown, n, FALSE, FALSE)
<1>1. Has(<<R("type_int"), T("("), Choice(<<<<T("int"),
                                              Make("Constant", <<"mType">>)>>,
                                            <<T("string"),
                                              Make("Constant",
                                              <<"mType">>)>>>>),
                                                     T(")")>>,
          Start,
          In({"Constant"}, Unknown, n, TRUE, FALSE))
  <2>1. Fit(R("type_int"), Start, In({"none"}, {"TypeInt"}, n, TRUE, FALSE))
    BY CallFit, Beginnings
  <2>2. Fit(T("("), In({"none"}, {"TypeInt"}, n, TRUE, FALSE),
            In({"none"}, {"TypeInt"}, n, TRUE, FALSE))
    BY TokenFit
  <2>3. Fit(Choice(<<<<T("int"), Make("Constant", <<"mType">>)>>,
                     <<T("string"), Make("Constant", <<"mType">>)>>>>),
            In({"none"}, {"TypeInt"}, n, TRUE, FALSE),
            In({"Constant"}, {"TypeInt"}, n, TRUE, FALSE))
    <3>1. Has(<<T("int"), Make("Constant", <<"mType">>)>>,
              In(Unknown, {"TypeInt"}, n, TRUE, FALSE),
              In({"Constant"}, {"TypeInt"}, n, TRUE, FALSE))
      <4>1. Fit(T("int"), In(Unknown, {"TypeInt"}, n, TRUE, FALSE),
                In(Unknown, {"TypeInt"}, n, TRUE, FALSE))
        BY TokenFit
      <4>2. Fit(Make("Constant", <<"mType">>),
                In(Unknown, {"TypeInt"}, n, TRUE, FALSE),
                In({"Constant"}, {"TypeInt"}, n, TRUE, FALSE))
        BY MakeFit, KindNames, KindsAndPointers, KindSets
      <4> QED BY <4>1, <4>2, Has2
    <3>2. Has(<<T("string"), Make("Constant", <<"mType">>)>>,
              In(Unknown, {"TypeInt"}, n, TRUE, FALSE),
              In({"Constant"}, {"TypeInt"}, n, TRUE, FALSE))
      <4>1. Fit(T("string"), In(Unknown, {"TypeInt"}, n, TRUE, FALSE),
                In(Unknown, {"TypeInt"}, n, TRUE, FALSE))
        BY TokenFit
      <4>2. Fit(Make("Constant", <<"mType">>),
                In(Unknown, {"TypeInt"}, n, TRUE, FALSE),
                In({"Constant"}, {"TypeInt"}, n, TRUE, FALSE))
        BY MakeFit, KindNames, KindsAndPointers, KindSets
      <4> QED BY <4>1, <4>2, Has2
    <3>3. <<T("int"), Make("Constant", <<"mType">>)>> # <<>>
      OBVIOUS
    <3> QED BY <3>1, <3>2, <3>3, FreeTwo
  <2>4. Fit(T(")"), In({"Constant"}, {"TypeInt"}, n, TRUE, FALSE),
            In({"Constant"}, {"TypeInt"}, n, TRUE, FALSE))
    BY TokenFit
  <2>5. Has(<<R("type_int"), T("("),
              Choice(<<<<T("int"), Make("Constant", <<"mType">>)>>,
                       <<T("string"), Make("Constant", <<"mType">>)>>>>),
                       T(")")>>,
            Start,
            In({"Constant"}, {"TypeInt"}, n, TRUE, FALSE))
    BY <2>1, <2>2, <2>3, <2>4, Has4
  <2>6. /\ Below(Start, Start)
        /\ Below(In({"Constant"}, {"TypeInt"}, n, TRUE, FALSE),
                 In({"Constant"}, Unknown, n, TRUE, FALSE))
    BY AtBelow, Known, KindSets
  <2> QED BY <2>5, <2>6, HasBelow
<1> QED BY <1>1 DEF exp_int

(* The rule mux gives a multiplexer, and leaves the blocks as they were.   *)
LEMMA MuxFits ==
  ASSUME NEW n \in Nat \ {0}
  PROVE  Has(mux,
             At("mux", {"none"}, Unknown, Unknown, Unknown, n, FALSE, FALSE),
             At("mux", {"Mux"}, Unknown, Unknown, Unknown, n, TRUE, FALSE))
<1> DEFINE In(val, last, open, moved, kept) ==
             At("mux", val, last, Unknown, Unknown, open, moved, kept)
<1> DEFINE Among(val, last, second, third, open, moved, kept) ==
             At("mux", val, last, second, third, open, moved, kept)
<1> DEFINE Start == In({"none"}, Unknown, n, FALSE, FALSE)
           Going == In({"none"}, Unknown, n, TRUE, FALSE)
<1>1. Has(<<T("mux"), T("("), Exp, Exp, Exp,
            Make("Mux", <<"mSel", "mA", "mB">>), T(")")>>,
          Start,
          In({"Mux"}, Unknown, n, TRUE, FALSE))
  <2>1. Fit(T("mux"), Start, Going)
    BY TokenFit
  <2>2. Fit(T("("), Going, Going)
    BY TokenFit
  <2>3. Fit(Exp, Going, In({"none"}, ReadExps, n, TRUE, FALSE))
    BY CallFit DEF Exp
  <2>4. Fit(Exp, In({"none"}, ReadExps, n, TRUE, FALSE),
            Among({"none"}, ReadExps, ReadExps, Unknown, n, TRUE, FALSE))
    BY CallFit DEF Exp
  <2>5. Fit(Exp, Among({"none"}, ReadExps, ReadExps, Unknown, n, TRUE, FALSE),
            Among({"none"}, ReadExps, ReadExps, ReadExps, n, TRUE, FALSE))
    BY CallFit DEF Exp
  <2>6. Fit(Make("Mux", <<"mSel", "mA", "mB">>),
            Among({"none"}, ReadExps, ReadExps, ReadExps, n, TRUE, FALSE),
            Among({"Mux"}, ReadExps, ReadExps, ReadExps, n, TRUE, FALSE))
    BY MakeFit, KindNames, KindsAndPointers, KindSets
  <2>7. Fit(T(")"),
            Among({"Mux"}, ReadExps, ReadExps, ReadExps, n, TRUE, FALSE),
            Among({"Mux"}, ReadExps, ReadExps, ReadExps, n, TRUE, FALSE))
    BY TokenFit
  <2>8. Has(<<T("mux"), T("("), Exp, Exp, Exp,
              Make("Mux", <<"mSel", "mA", "mB">>), T(")")>>,
            Start,
            Among({"Mux"}, ReadExps, ReadExps, ReadExps, n, TRUE, FALSE))
    BY <2>1, <2>2, <2>3, <2>4, <2>5, <2>6, <2>7, Has7
  <2>9. /\ Below(Start, Start)
        /\ Below(Among({"Mux"}, ReadExps, ReadExps, ReadExps, n, TRUE, FALSE),
                 In({"Mux"}, Unknown, n, TRUE, FALSE))
    BY AtBelow, Known, KindSets
  <2> QED BY <2>8, <2>9, HasBelow
<1> QED BY <1>1 DEF mux

(* The rule validif gives a conditional value, and leaves the blocks as    *)
(* they were.                                                              *)
LEMMA ValidifFits ==
  ASSUME NEW n \in Nat \ {0}
  PROVE  Has(validif,
             At("validif", {"none"}, Unknown, Unknown, Unknown, n, FALSE,
                FALSE),
             At("validif", {"CondValid"}, Unknown, Unknown, Unknown, n, TRUE,
                FALSE))
<1> DEFINE In(val, last, open, moved, kept) ==
             At("validif", val, last, Unknown, Unknown, open, moved, kept)
<1> DEFINE Among(val, last, second, third, open, moved, kept) ==
             At("validif", val, last, second, third, open, moved, kept)
<1> DEFINE Start == In({"none"}, Unknown, n, FALSE, FALSE)
           Going == In({"none"}, Unknown, n, TRUE, FALSE)
<1>1. Has(<<T("validif"), T("("), Exp, Exp,
            Make("CondValid", <<"mSel", "mA">>), T(")")>>,
          Start,
          In({"CondValid"}, Unknown, n, TRUE, FALSE))
  <2>1. Fit(T("validif"), Start, Going)
    BY TokenFit
  <2>2. Fit(T("("), Going, Going)
    BY TokenFit
  <2>3. Fit(Exp, Going, In({"none"}, ReadExps, n, TRUE, FALSE))
    BY CallFit DEF Exp
  <2>4. Fit(Exp, In({"none"}, ReadExps, n, TRUE, FALSE),
            Among({"none"}, ReadExps, ReadExps, Unknown, n, TRUE, FALSE))
    BY CallFit DEF Exp
  <2>5. Fit(Make("CondValid", <<"mSel", "mA">>),
            Among({"none"}, ReadExps, ReadExps, Unknown, n, TRUE, FALSE),
            Among({"CondValid"}, ReadExps, ReadExps, Unknown, n, TRUE, FALSE))
    BY MakeFit, KindNames, KindsAndPointers, KindSets
  <2>6. Fit(T(")"),
            Among({"CondValid"}, ReadExps, ReadExps, Unknown, n, TRUE, FALSE),
            Among({"CondValid"}, ReadExps, ReadExps, Unknown, n, TRUE, FALSE))
    BY TokenFit
  <2>7. Has(<<T("validif"), T("("), Exp, Exp,
              Make("CondValid", <<"mSel", "mA">>), T(")")>>,
            Start,
            Among({"CondValid"}, ReadExps, ReadExps, Unknown, n, TRUE, FALSE))
    BY <2>1, <2>2, <2>3, <2>4, <2>5, <2>6, Has6
  <2>8. /\ Below(Start, Start)
        /\ Below(Among({"CondValid"}, ReadExps, ReadExps, Unknown, n, TRUE,
                       FALSE), In({"CondValid"}, Unknown, n, TRUE, FALSE))
    BY AtBelow, Known, KindSets
  <2> QED BY <2>7, <2>8, HasBelow
<1> QED BY <1>1 DEF validif

(* The rule primop gives an operation, and leaves the blocks as they were. *)
LEMMA PrimopFits ==
  ASSUME NEW n \in Nat \ {0}
  PROVE  Has(primop,
             At("primop", {"none"}, Unknown, Unknown, Unknown, n, FALSE,
                FALSE),
             At("primop", {"PrimOp"}, Unknown, Unknown, Unknown, n, TRUE,
                FALSE))
<1> DEFINE In(val, last, open, moved, kept) ==
             At("primop", val, last, Unknown, Unknown, open, moved, kept)
<1> DEFINE Start == In({"none"}, Unknown, n, FALSE, FALSE)
           Going == In({"none"}, Unknown, n, TRUE, FALSE)
           Built(kept) == In({"PrimOp"}, Unknown, n, TRUE, kept)
<1>1. Has(<<T("primop("), Make("PrimOp", <<>>),
            Star(<<Exp, Attach("mOperands")>>), Star(<<T("int"), Param>>),
            T(")")>>,
          Start,
          Built(FALSE))
  <2>1. Fit(T("primop("), Start, Going)
    BY TokenFit
  <2>2. Fit(Make("PrimOp", <<>>), Going, Built(FALSE))
    BY MakeFit, KindNames
  <2>3. Fit(Star(<<Exp, Attach("mOperands")>>), Built(FALSE), Built(FALSE))
    <3>1. Has(<<Exp, Attach("mOperands")>>, Built(TRUE), Built(TRUE))
      <4>1. Fit(Exp, Built(TRUE), In({"PrimOp"}, ReadExps, n, TRUE, TRUE))
        BY CallFit DEF Exp
      <4>2. Fit(Attach("mOperands"), In({"PrimOp"}, ReadExps, n, TRUE, TRUE),
                In({"PrimOp"}, ReadExps, n, TRUE, TRUE))
        BY ActFit, KindsAndPointers, KindSets
      <4>3. Has(<<Exp, Attach("mOperands")>>, Built(TRUE),
                In({"PrimOp"}, ReadExps, n, TRUE, TRUE))
        BY <4>1, <4>2, Has2
      <4>4. /\ Below(Built(TRUE), Built(TRUE))
            /\ Below(In({"PrimOp"}, ReadExps, n, TRUE, TRUE), Built(TRUE))
        BY AtBelow, Known, KindSets
      <4> QED BY <4>3, <4>4, HasBelow
    <3> QED BY <3>1, StarFit, Known
  <2>4. Fit(Star(<<T("int"), Param>>), Built(FALSE), Built(FALSE))
    <3>1. Has(<<T("int"), Param>>, Built(TRUE), Built(TRUE))
      <4>1. Fit(T("int"), Built(TRUE), Built(TRUE))
        BY TokenFit
      <4>2. Fit(Param, Built(TRUE), Built(TRUE))
        BY ParamFit
      <4> QED BY <4>1, <4>2, Has2
    <3> QED BY <3>1, StarFit, Known
  <2>5. Fit(T(")"), Built(FALSE), Built(FALSE))
    BY TokenFit
  <2> QED BY <2>1, <2>2, <2>3, <2>4, <2>5, Has5
<1> QED BY <1>1 DEF primop

-----------------------------------------------------------------------------
(* The rules that only choose.                                             *)
LEMMA ModuleFits ==
  ASSUME NEW n \in Nat \ {0}
  PROVE  Has(OneOf(<<"intmodule", "extmodule">>),
             At("module", {"none"}, Unknown, Unknown, Unknown, n, FALSE,
                FALSE),
             At("module", Modules, Unknown, Unknown, Unknown, n, TRUE, FALSE))
<1> DEFINE rules == <<"intmodule", "extmodule">>
<1>1. IsSeq(rules)
  BY Literal
<1>2. Len(rules) > 0 /\ \A i \in 1 .. Len(rules) :
      rules[i] \in {"intmodule", "extmodule"}
  OBVIOUS
<1>3. \A q \in {"intmodule", "extmodule"} :
        /\ q \in DOMAIN Grammar \ {"circuit", "exp_helper"}
        /\ MayBegin("module", q) /\ RuleKinds(q) \subseteq Modules
  BY RuleNames, Beginnings, KindsOfRules DEF Modules
<1> HIDE DEF rules
<1>4. Has(OneOf(rules),
          At("module", {"none"}, Unknown, Unknown, Unknown, n, FALSE, FALSE),
          At("module", Modules, Modules, Unknown, Unknown, n, TRUE, FALSE))
  BY <1>1, <1>2, <1>3, OneOfHas, KindSets
<1> DEFINE a == At("module", {"none"}, Unknown, Unknown, Unknown, n, FALSE,
                   FALSE)
           b == At("module", Modules, Modules, Unknown, Unknown, n, TRUE,
                   FALSE)
           c == At("module", Modules, Unknown, Unknown, Unknown, n, TRUE,
                   FALSE)
<1>5. Below(a, a) /\ Below(b, c)
  BY AtBelow, Known
<1>6. Has(OneOf(rules), a, b)
  BY <1>4
<1> HIDE DEF a, b, c
<1>7. Has(OneOf(rules), a, c)
  BY <1>5, <1>6, HasBelow
<1> QED BY <1>7 DEF rules, a, c

(* The rule stmt gives the statement that one of its rules gives.          *)
LEMMA StmtFits ==
  ASSUME NEW n \in Nat \ {0}
  PROVE  Has(stmt,
             At("stmt", {"none"}, Unknown, Unknown, Unknown, n, FALSE, FALSE),
             At("stmt", Stmts, Unknown, Unknown, Unknown, n, TRUE, FALSE))
<1> DEFINE rules == <<"wire", "reg", "mem", "inst", "node", "connect",
                      "partconnect",
                      "invalidate", "conditional", "stop", "printf_", "empty">>
           names == {"wire", "reg", "mem", "inst", "node", "connect",
                     "partconnect",
                     "invalidate", "conditional", "stop", "printf_", "empty"}
<1>1. rules \in Seq(names) /\ Len(rules) > 0
  OBVIOUS
<1>2. IsSeq(rules)
  BY <1>1 DEF IsSeq
<1>3. \A q \in names : /\ q \in DOMAIN Grammar \ {"circuit", "exp_helper"}
                       /\ MayBegin("stmt", q) /\ RuleKinds(q) \subseteq Stmts
  <2>1. \A q \in names : RuleKinds(q) \subseteq Stmts
    BY DEF RuleKinds, Stmts
  <2> QED BY <2>1, RuleNames, Beginnings
<1> HIDE DEF rules, names
<1>4. \A i \in 1 .. Len(rules) : rules[i] \in names
  BY <1>1
<1>5. Has(OneOf(rules),
          At("stmt", {"none"}, Unknown, Unknown, Unknown, n, FALSE, FALSE),
          At("stmt", Stmts, Stmts, Unknown, Unknown, n, TRUE, FALSE))
  BY <1>1, <1>2, <1>3, <1>4, OneOfHas, KindSets
<1> DEFINE a == At("stmt", {"none"}, Unknown, Unknown, Unknown, n, FALSE,
                   FALSE)
           b == At("stmt", Stmts, Stmts, Unknown, Unknown, n, TRUE, FALSE)
           c == At("stmt", Stmts, Unknown, Unknown, Unknown, n, TRUE, FALSE)
<1>6. Below(a, a) /\ Below(b, c)
  BY AtBelow, Known
<1>7. Has(OneOf(rules), a, b)
  BY <1>5
<1> HIDE DEF a, b, c
<1>8. Has(OneOf(rules), a, c)
  BY <1>6, <1>7, HasBelow
<1> QED BY <1>8 DEF stmt, rules, a, c

(* The rule exp_ gives an expression, with all that its helper adds.       *)
LEMMA ExpFits ==
  ASSUME NEW n \in Nat \ {0}
  PROVE  Has(exp_,
             At("exp_", {"none"}, Unknown, Unknown, Unknown, n, FALSE, FALSE),
             At("exp_", ReadExps, Unknown, Unknown, Unknown, n, TRUE, FALSE))
<1> DEFINE rules == <<"reference", "exp_int", "mux", "validif", "primop">>
           names == {"reference", "exp_int", "mux", "validif", "primop"}
           f == <<Inherited("exp_helper"), Take>>
           a == At("exp_", {"none"}, Unknown, Unknown, Unknown, n, FALSE,
                   FALSE)
           b == At("exp_", ReadExps, ReadExps, Unknown, Unknown, n, TRUE,
                   FALSE)
           c == At("exp_", ReadExps, ReadExps, ReadExps, Unknown, n, TRUE,
                   FALSE)
           d == At("exp_", ReadExps, Unknown, Unknown, Unknown, n, TRUE, FALSE)
<1>1. rules \in Seq(names) /\ Len(rules) > 0
  OBVIOUS
<1>2. IsSeq(rules)
  BY <1>1 DEF IsSeq
<1>3. \A q \in names : /\ q \in DOMAIN Grammar \ {"circuit", "exp_helper"}
                       /\ MayBegin("exp_", q)
                       /\ RuleKinds(q) \subseteq ReadExps
  <2>1. \A q \in names : RuleKinds(q) \subseteq ReadExps
    BY DEF RuleKinds, ReadExps, Expressions
  <2> QED BY <2>1, RuleNames, Beginnings
<1> HIDE DEF rules, names
<1>4. \A i \in 1 .. Len(rules) : rules[i] \in names
  BY <1>1
<1>5. Has(OneOf(rules), a, b)
  BY <1>1, <1>2, <1>3, <1>4, OneOfHas, KindSets
<1>6. Fit(Inherited("exp_helper"), b, c)
  BY HelperFit
<1>7. Fit(Take, c, c)
  BY TakeFit, KindSets
<1>8. Has(f, b, c)
  BY <1>6, <1>7, Has2
<1>9. Below(a, a) /\ Below(c, d)
  BY AtBelow, Known
<1> HIDE DEF a, b, c, d, f
<1>10. Has(OneOf(rules) \o f, a, c)
  BY <1>5, <1>8, HasConcat
<1>11. Has(OneOf(rules) \o f, a, d)
  BY <1>9, <1>10, HasBelow
<1> QED BY <1>11 DEF exp_, rules, f, a, d

-----------------------------------------------------------------------------
(***************************************************************************)
(* The circuit: no block is open and no choice is pending, but for the two *)
(* that it makes itself.                                                   *)
(***************************************************************************)
InCircuit(val, open, moved, slack, kept) ==
  State("circuit", val, Unknown, Unknown, Unknown, open, moved, slack, kept)

(* A state of the circuit says no more than itself.                        *)
LEMMA CircuitBelow ==
  ASSUME NEW v, NEW n \in Nat, NEW m, NEW s \in Nat, NEW k
  PROVE  Below(InCircuit(v, n, m, s, k), InCircuit(v, n, m, s, k))
BY DEF Below, InCircuit, State

(* A token of the circuit, before its modules or behind the choice of an   *)
(* info.                                                                   *)
LEMMA CircuitToken ==
  ASSUME NEW v, NEW m, NEW k, NEW w,
         w \notin {"end-of-input", "flip", "INDENT", "DEDENT"}
  PROVE  /\ Fit(T(w), InCircuit(v, 0, m, 0, k), InCircuit(v, 0, TRUE, 0, k))
         /\ Fit(T(w), InCircuit(v, 0, m, 1, k), InCircuit(v, 0, TRUE, 2, k))
<1> DEFINE a == InCircuit(v, 0, m, 0, k)
           b == InCircuit(v, 0, TRUE, 0, k)
           c == InCircuit(v, 0, m, 1, k)
           d == InCircuit(v, 0, TRUE, 2, k)
<1>1. /\ Below(a, a) /\ Below(b, b) /\ Below(c, c) /\ Below(d, d)
      /\ a.slack < 2 /\ c.slack < 2
  BY DEF Below, InCircuit, State
<1>2. Below(Read(a, w), b) /\ Below(Read(c, w), d)
  BY DEF Below, Read, InCircuit, State
<1> HIDE DEF a, b, c, d
<1>3. TokenStep(w, a, b) /\ TokenStep(w, c, d)
  BY <1>1, <1>2 DEF TokenStep
<1>4. Local({}, T(w), a, b) /\ Local({}, T(w), c, d)
  BY <1>1, <1>3 DEF Local, T
<1> QED BY <1>4, FitAtom DEF a, b, c, d

(* The block of the circuit is opened and closed.                          *)
LEMMA CircuitIndent ==
  ASSUME NEW v, NEW m, NEW k
  PROVE  /\ Fit(T("INDENT"), InCircuit(v, 0, m, 1, k),
                InCircuit(v, 1, TRUE, 2, k))
         /\ Fit(T("DEDENT"), InCircuit(v, 1, m, 2, k),
                InCircuit(v, 0, TRUE, 2, k))
<1> DEFINE a == InCircuit(v, 0, m, 1, k)
           b == InCircuit(v, 1, TRUE, 2, k)
           c == InCircuit(v, 1, m, 2, k)
           d == InCircuit(v, 0, TRUE, 2, k)
<1>1. /\ Below(a, a) /\ Below(b, b) /\ Below(c, c) /\ Below(d, d)
      /\ a.slack < 2 /\ c.open > 0
  BY DEF Below, InCircuit, State
<1>2. Below(Read(a, "INDENT"), b) /\ Below(Read(c, "DEDENT"), d)
  BY DEF Below, Read, InCircuit, State
<1> HIDE DEF a, b, c, d
<1>3. TokenStep("INDENT", a, b) /\ TokenStep("DEDENT", c, d)
  BY <1>1, <1>2 DEF TokenStep
<1>4. Local({}, T("INDENT"), a, b) /\ Local({}, T("DEDENT"), c, d)
  BY <1>1, <1>3 DEF Local, T
<1> QED BY <1>4, FitAtom DEF a, b, c, d

(* What may be left out leaves no choice behind.                           *)
LEMMA CircuitOpt ==
  ASSUME NEW f, f # <<>>, NEW v, NEW p,
         Has(f, InCircuit(v, 0, TRUE, 1, TRUE),
             InCircuit(v, 0, TRUE, p, TRUE)), p \in Nat
  PROVE  Fit(Opt(f), InCircuit(v, 0, TRUE, 0, FALSE),
             InCircuit(v, 0, TRUE, 0, FALSE))
<1> DEFINE a == InCircuit(v, 0, TRUE, 0, FALSE)
           b == InCircuit(v, 0, TRUE, 1, TRUE)
           c == InCircuit(v, 0, TRUE, p, TRUE)
           of == <<f, <<>>>>
<1>1. /\ Below(a, a) /\ a.kept = a.kept /\ a.slack <= a.slack /\ a.slack # 1
      /\ Below(Trying(a, TRUE), b) /\ Below(Retrying(a, TRUE), a)
      /\ Below(Settled(c, a), a) /\ Below(c, c)
  BY DEF Below, Trying, Retrying, Valued, Settled, InCircuit, State
<1>2. IsSeq(of)
  BY Literal
<1>3. Len(of) = 2 /\ of[1] = f /\ of[2] = <<>>
  OBVIOUS
<1>4. Has(f, b, c)
  OBVIOUS
<1> HIDE DEF a, b, c, of
<1>5. Has(<<>>, Retrying(a, TRUE), a)
  BY <1>1, HasNothing
<1>6. Has(f, Trying(a, TRUE), c)
  BY <1>1, <1>4, HasBelow
<1>7. \A i \in 1 .. Len(of) - 1 :
        \E u : Has(of[i], Trying(a, TRUE), u) /\ Below(Settled(u, a), a)
  <2>1. \A i \in 1 .. Len(of) - 1 : of[i] = f
    BY <1>3
  <2> QED BY <1>1, <1>6, <2>1
<1>8. Len(of) > 0 /\ of[1] # <<>> /\ Has(of[Len(of)], Retrying(a, TRUE), a)
  <2>1. Len(of) > 0 /\ of[1] # <<>> /\ of[Len(of)] = <<>>
    BY <1>3
  <2>2. of[Len(of)] = <<>> => Has(of[Len(of)], Retrying(a, TRUE), a)
    BY <1>5, Zenon
  <2> QED BY <2>1, <2>2
<1>9. Fit(Choice(of), a, a)
  BY <1>1, <1>2, <1>7, <1>8, ChoiceFit
<1> QED BY <1>9 DEF Opt, of, a

(* The rule circuit gives the circuit, with its block closed; outside of   *)
(* the block it never goes back before a token that it matched.            *)
LEMMA CircuitFits ==
  Has(circuit, InCircuit({"none"}, 0, FALSE, 0, FALSE),
      InCircuit({"Circuit"}, 0, TRUE, 0, FALSE))
<1> DEFINE none == {"none"}
           it == {"Circuit"}
           act == [item |-> "info"]
           star == Star(<<R("module"), Attach("mModules")>>)
<1>1. Fit(T("circuit"), InCircuit(none, 0, FALSE, 0, FALSE),
          InCircuit(none, 0, TRUE, 0, FALSE))
  BY CircuitToken
<1>2. Fit(T("identifier"), InCircuit(none, 0, TRUE, 0, FALSE),
          InCircuit(none, 0, TRUE, 0, FALSE))
  BY CircuitToken
<1>3. Fit(Make("Circuit", <<>>), InCircuit(none, 0, TRUE, 0, FALSE),
          InCircuit(it, 0, TRUE, 0, FALSE))
  <2> DEFINE a == InCircuit(none, 0, TRUE, 0, FALSE)
             b == InCircuit(it, 0, TRUE, 0, FALSE)
  <2>1. Below(a, a) /\ Below(b, b) /\ ~ a.kept
    BY DEF Below, InCircuit, State
  <2>2. Below(Valued(a, {"Circuit"}), b)
    BY DEF Below, Valued, InCircuit, State
  <2> HIDE DEF a, b
  <2>3. MakeStep("Circuit", <<>>, a, b)
    BY <2>1, <2>2, KindNames DEF MakeStep
  <2>4. Local({}, Make("Circuit", <<>>), a, b)
    BY <2>1, <2>3 DEF Local, Make
  <2> QED BY <2>4, FitAtom DEF a, b
<1>4. Fit(T(":"), InCircuit(it, 0, TRUE, 0, FALSE),
          InCircuit(it, 0, TRUE, 0, FALSE))
  BY CircuitToken
<1>5. Fit(Info, InCircuit(it, 0, TRUE, 0, FALSE),
          InCircuit(it, 0, TRUE, 0, FALSE))
  <2> DEFINE b == InCircuit(it, 0, TRUE, 2, TRUE)
  <2>1. Fit(T("info"), InCircuit(it, 0, TRUE, 1, TRUE), b)
    BY CircuitToken
  <2>2. Fit(act, b, b)
    <3>1. Below(b, b) /\ "none" \notin b.val
      BY DEF Below, InCircuit, State
    <3> HIDE DEF b
    <3>2. Local({}, act, b, b)
      BY <3>1 DEF Local
    <3> QED BY <3>2, FitAtom
  <2>3. Has(<<T("info"), act>>, InCircuit(it, 0, TRUE, 1, TRUE), b)
    BY <2>1, <2>2, Has2
  <2>4. <<T("info"), act>> # <<>>
    OBVIOUS
  <2> QED BY <2>3, <2>4, CircuitOpt DEF Info
<1>6. Fit(Opt(<<T("INDENT"), star, T("DEDENT")>>),
          InCircuit(it, 0, TRUE, 0, FALSE),
          InCircuit(it, 0, TRUE, 0, FALSE))
  <2> DEFINE f == <<T("INDENT"), star, T("DEDENT")>>
  <2>1. Fit(T("INDENT"), InCircuit(it, 0, TRUE, 1, TRUE),
            InCircuit(it, 1, TRUE, 2, TRUE))
    BY CircuitIndent
  <2>2. Fit(star, InCircuit(it, 1, TRUE, 2, TRUE),
            InCircuit(it, 1, TRUE, 2, TRUE))
    <3>0. PICK o \in Nat \ {0} : o = 1
      OBVIOUS
    <3> DEFINE a == At("circuit", it, Unknown, Unknown, Unknown, o, TRUE, TRUE)
               b == At("circuit", it, Modules, Unknown, Unknown, o, TRUE, TRUE)
    <3>1. Fit(R("module"), a, b)
      BY CallFit
    <3>2. Fit(Attach("mModules"), b, b)
      BY ActFit, KindsAndPointers
    <3>3. Has(<<R("module"), Attach("mModules")>>, a, b)
      BY <3>1, <3>2, Has2
    <3>4. Below(a, a) /\ Below(b, a)
      BY AtBelow, Known
    <3>5. Has(<<R("module"), Attach("mModules")>>, a, a)
      <4> HIDE DEF a, b
      <4> QED BY <3>3, <3>4, HasBelow
    <3>6. Fit(star, a, a)
      BY <3>5, StarFit, Known
    <3> QED BY <3>0, <3>6 DEF InCircuit, At
  <2>3. Fit(T("DEDENT"), InCircuit(it, 1, TRUE, 2, TRUE),
            InCircuit(it, 0, TRUE, 2, TRUE))
    BY CircuitIndent
  <2> HIDE DEF star
  <2>4. Has(f, InCircuit(it, 0, TRUE, 1, TRUE),
            InCircuit(it, 0, TRUE, 2, TRUE))
    BY <2>1, <2>2, <2>3, Has3
  <2>5. f # <<>>
    OBVIOUS
  <2> HIDE DEF f
  <2>6. Fit(Opt(f), InCircuit(it, 0, TRUE, 0, FALSE),
            InCircuit(it, 0, TRUE, 0, FALSE))
    BY <2>4, <2>5, CircuitOpt
  <2> QED BY <2>6 DEF f
<1> QED BY <1>1, <1>2, <1>3, <1>4, <1>5, <1>6, Has6 DEF circuit

-----------------------------------------------------------------------------
(***************************************************************************)
(* Every rule, wherever it is called: it gives a node of its kinds to the  *)
(* one that called it, closes the blocks it opened, and has matched a      *)
(* token, unless it inherits its node.                                     *)
(***************************************************************************)
LEMMA GrammarFits ==
  ASSUME NEW r \in DOMAIN Grammar, NEW n \in Nat, n = 0 <=> r = "circuit"
  PROVE  Has(Grammar[r], Entry(r, n), Exit(r, n))
<1>1. CASE r = "circuit"
  <2>1. Grammar[r] = circuit
    BY <1>1 DEF Grammar
  <2>2. Entry(r, n) = InCircuit({"none"}, 0, FALSE, 0, FALSE)
    BY <1>1 DEF Entry, InCircuit, Slack, State
  <2>3. Exit(r, n) = InCircuit({"Circuit"}, 0, TRUE, 0, FALSE)
    BY <1>1, KindsOfRules DEF Exit, InCircuit, Slack, State
  <2> QED BY <2>1, <2>2, <2>3, CircuitFits
<1>2. CASE r # "circuit"
  <2> DEFINE val == IF r = "exp_helper" THEN ReadExps ELSE {"none"}
             last == IF r = "exp_helper" THEN ReadExps ELSE Unknown
             a == At(r, val, last, Unknown, Unknown, n, FALSE, FALSE)
             b == At(r, RuleKinds(r), Unknown, Unknown, Unknown, n,
                     r # "exp_helper", FALSE)
  <2>1. n \in Nat \ {0}
    BY <1>2
  <2>2. Entry(r, n) = a /\ Exit(r, n) = b
    BY <2>1 DEF Entry, Exit, At, Slack
  <2>3. Has(Grammar[r], a, b)
    <3>1. CASE r = "module"
      BY <2>1, <3>1, ModuleFits DEF Grammar, RuleKinds
    <3>2. CASE r = "intmodule"
      BY <2>1, <3>2, IntmoduleFits DEF Grammar, RuleKinds
    <3>3. CASE r = "extmodule"
      BY <2>1, <3>3, ExtmoduleFits DEF Grammar, RuleKinds
    <3>4. CASE r = "port"
      BY <2>1, <3>4, PortFits DEF Grammar, RuleKinds
    <3>5. CASE r = "type"
      BY <2>1, <3>5, TypeFits DEF Grammar, RuleKinds
    <3>6. CASE r = "type_int"
      BY <2>1, <3>6, TypeIntFits DEF Grammar, RuleKinds
    <3>7. CASE r = "type_bundle"
      BY <2>1, <3>7, TypeBundleFits DEF Grammar, RuleKinds
    <3>8. CASE r = "type_vector"
      BY <2>1, <3>8, TypeVectorFits DEF Grammar, RuleKinds
    <3>9. CASE r = "field"
      BY <2>1, <3>9, FieldFits DEF Grammar, RuleKinds
    <3>10. CASE r = "stmt"
      BY <2>1, <3>10, StmtFits DEF Grammar, RuleKinds
    <3>11. CASE r = "stmt_group"
      BY <2>1, <3>11, StmtGroupFits DEF Grammar, RuleKinds
    <3>12. CASE r = "stmt_suite"
      BY <2>1, <3>12, StmtSuiteFits DEF Grammar, RuleKinds
    <3>13. CASE r = "wire"
      BY <2>1, <3>13, WireFits DEF Grammar, RuleKinds
    <3>14. CASE r = "reg"
      BY <2>1, <3>14, RegFits DEF Grammar, RuleKinds
    <3>15. CASE r = "mem"
      BY <2>1, <3>15, MemFits DEF Grammar, RuleKinds
    <3>16. CASE r = "inst"
      BY <2>1, <3>16, InstFits DEF Grammar, RuleKinds
    <3>17. CASE r = "node"
      BY <2>1, <3>17, NodeFits DEF Grammar, RuleKinds
    <3>18. CASE r = "connect"
      BY <2>1, <3>18, ConnectFits DEF Grammar, RuleKinds
    <3>19. CASE r = "partconnect"
      BY <2>1, <3>19, PartconnectFits DEF Grammar, RuleKinds
    <3>20. CASE r = "invalidate"
      BY <2>1, <3>20, InvalidateFits DEF Grammar, RuleKinds
    <3>21. CASE r = "conditional"
      BY <2>1, <3>21, ConditionalFits DEF Grammar, RuleKinds
    <3>22. CASE r = "conditional_else"
      BY <2>1, <3>22, ConditionalElseFits DEF Grammar, RuleKinds
    <3>23. CASE r = "stop"
      BY <2>1, <3>23, StopFits DEF Grammar, RuleKinds
    <3>24. CASE r = "printf_"
      BY <2>1, <3>24, PrintfFits DEF Grammar, RuleKinds
    <3>25. CASE r = "empty"
      BY <2>1, <3>25, EmptyFits DEF Grammar, RuleKinds
    <3>26. CASE r = "reference"
      BY <2>1, <3>26, ReferenceFits DEF Grammar, RuleKinds
    <3>27. CASE r = "exp_"
      BY <2>1, <3>27, ExpFits DEF Grammar, RuleKinds
    <3>28. CASE r = "exp_helper"
      BY <2>1, <3>28, ExpHelperFits DEF Grammar, RuleKinds
    <3>29. CASE r = "exp_int"
      BY <2>1, <3>29, ExpIntFits DEF Grammar, RuleKinds
    <3>30. CASE r = "mux"
      BY <2>1, <3>30, MuxFits DEF Grammar, RuleKinds
    <3>31. CASE r = "validif"
      BY <2>1, <3>31, ValidifFits DEF Grammar, RuleKinds
    <3>32. CASE r = "primop"
      BY <2>1, <3>32, PrimopFits DEF Grammar, RuleKinds
    <3> QED BY <1>2, RuleNames, <3>1, <3>2, <3>3, <3>4, <3>5, <3>6, <3>7, <3>8,
        <3>9, <3>10, <3>11, <3>12, <3>13, <3>14, <3>15, <3>16, <3>17, <3>18,
        <3>19, <3>20, <3>21, <3>22, <3>23, <3>24, <3>25, <3>26, <3>27, <3>28,
        <3>29, <3>30, <3>31, <3>32
  <2> HIDE DEF a, b
  <2> QED BY <2>2, <2>3
<1> QED BY <1>1, <1>2

-----------------------------------------------------------------------------
(***************************************************************************)
(* What is left to match, all of it: the states of the rules below the one *)
(* that is being matched, its own state, and for every choice that is      *)
(* pending the depth it was made at and whether it relies on the node      *)
(* there.                                                                  *)
(***************************************************************************)
IsKept(B, s, depth) ==
  IF depth = Len(B) + 1 THEN s.kept ELSE B[depth].kept

Good(B, s, D) ==
  /\ s.slack = 0 => D = <<>>
  /\ \A i \in 1 .. Len(D) : /\ D[i].depth \in 1 .. Len(B) + 1
                            /\ D[i].strict => IsKept(B, s, D[i].depth)

ReturnStep(B, s, D, A, t, E) ==
  LET below == B[Len(B)]
  IN  /\ Len(B) >= 1
      /\ s.val \subseteq RuleKinds(s.rule)
      /\ s.rule \in DOMAIN Grammar
      /\ s.moved \/ s.rule = "exp_helper"
      /\ s.open = below.open /\ s.slack <= below.slack
      /\ s.slack \in Nat /\ below.slack \in Nat
      /\ \A i \in 1 .. Len(D) : D[i].depth <= Len(B)
      /\ A = Front(B) /\ t = Called(below, s.rule) /\ E = D

CommitStep(to, B, s, D, A, t, E) ==
  /\ Len(D) >= 1 /\ to = Len(D) - 1 /\ D[Len(D)].depth = Len(B) + 1
  /\ Below(Settled(s, t), t) /\ t.slack # 1
  /\ A = B /\ E = Front(D) /\ Good(B, t, E)

Step(x, B, s, D, A, t, E) ==
  \/ x.item = "return" /\ ReturnStep(B, s, D, A, t, E)
  \/ x.item = "commit" /\ CommitStep(x.to, B, s, D, A, t, E)
  \/ x.item \notin {"return", "commit"} /\ Fit(x, s, t) /\ A = B /\ E = D

ClosedRuns(M) ==
  \A q, B, s, D : <<q, B, s, D>> \in M =>
    /\ IsSeq(q)
    /\ q # <<>> => \E A, t, E, u : /\ Step(Head(q), B, s, D, A, t, E)
                                   /\ Below(t, u)
                                   /\ <<Tail(q), A, u, E>> \in M

Runs(q, B, s, D) ==
  \E M, u : ClosedRuns(M) /\ Below(s, u) /\ <<q, B, u, D>> \in M

(* What is left to match is a sequence.                                    *)
LEMMA RunsSeq ==
  ASSUME NEW q, NEW B, NEW s, NEW D, Runs(q, B, s, D)
  PROVE  IsSeq(q)
BY DEF Runs, ClosedRuns

(* What can run in a state can run in one of which more is known.          *)
LEMMA RunsBelow ==
  ASSUME NEW q, NEW B, NEW s, NEW D, NEW r, Below(r, s), Runs(q, B, s, D)
  PROVE  Runs(q, B, r, D)
<1>1. PICK M, u : ClosedRuns(M) /\ Below(s, u) /\ <<q, B, u, D>> \in M
  BY DEF Runs
<1>2. Below(r, u)
  BY <1>1, BelowTransitive
<1> QED BY <1>1, <1>2 DEF Runs

(* Nothing is left to run.                                                 *)
LEMMA RunsNothing ==
  ASSUME NEW B, NEW s, NEW D, Below(s, s)
  PROVE  Runs(<<>>, B, s, D)
<1> DEFINE M == {<< <<>>, B, s, D >>}
<1>1. ClosedRuns(M)
  BY Literal DEF ClosedRuns
<1>2. << <<>>, B, s, D >> \in M
  OBVIOUS
<1> HIDE DEF M
<1> QED BY <1>1, <1>2 DEF Runs

(* The first of what is left.                                              *)
LEMMA RunsFirst ==
  ASSUME NEW q, NEW B, NEW s, NEW D, Runs(q, B, s, D), q # <<>>
  PROVE  \E u, A, t, E : /\ Below(s, u) /\ Step(Head(q), B, u, D, A, t, E)
                         /\ Runs(Tail(q), A, t, E)
<1>1. PICK M, u : ClosedRuns(M) /\ Below(s, u) /\ <<q, B, u, D>> \in M
  BY DEF Runs
<1>2. PICK A, t, E, v : /\ Step(Head(q), B, u, D, A, t, E) /\ Below(t, v)
                        /\ <<Tail(q), A, v, E>> \in M
  BY <1>1 DEF ClosedRuns
<1>3. Runs(Tail(q), A, t, E)
  BY <1>1, <1>2 DEF Runs
<1> QED BY <1>1, <1>2, <1>3

(* An item before what can run.                                            *)
LEMMA RunsBefore ==
  ASSUME NEW x, NEW q, NEW B, NEW s, NEW D, NEW A, NEW t, NEW E, Below(s, s),
         Step(x, B, s, D, A, t, E), Runs(q, A, t, E)
  PROVE  Runs(<<x>> \o q, B, s, D)
<1>1. PICK M, u : ClosedRuns(M) /\ Below(t, u) /\ <<q, A, u, E>> \in M
  BY DEF Runs
<1> DEFINE h == <<x>> \o q
           P == M \cup {<<h, B, s, D>>}
<1>2. IsSeq(h) /\ h # <<>> /\ Head(h) = x /\ Tail(h) = q
  BY <1>1, HeadAndTail DEF ClosedRuns
<1> HIDE DEF h
<1>3. ASSUME NEW q2, NEW B2, NEW s2, NEW D2, <<q2, B2, s2, D2>> \in P
      PROVE  /\ IsSeq(q2)
             /\ q2 # <<>> => \E A3, t3, E3, u3 :
                  /\ Step(Head(q2), B2, s2, D2, A3, t3, E3) /\ Below(t3, u3)
                  /\ <<Tail(q2), A3, u3, E3>> \in P
  <2>1. CASE <<q2, B2, s2, D2>> \in M
    BY <1>1, <2>1 DEF ClosedRuns
  <2>2. CASE q2 = h /\ B2 = B /\ s2 = s /\ D2 = D
    BY <1>1, <1>2, <2>2
  <2> QED BY <1>3, <2>1, <2>2
<1>4. ClosedRuns(P)
  <2> HIDE DEF P
  <2> QED BY <1>3 DEF ClosedRuns
<1>5. <<h, B, s, D>> \in P
  OBVIOUS
<1> HIDE DEF P
<1>6. Runs(h, B, s, D)
  BY <1>4, <1>5 DEF Runs
<1> QED BY <1>6 DEF h

(* A path before the others.                                               *)
LEMMA FitOther ==
  ASSUME NEW x, NEW s, NEW t, Fit(x, s, t), NEW B, NEW D
  PROVE  Step(x, B, s, D, B, t, D)
<1>1. x.item \notin {"return", "commit"}
  BY DEF Fit, Closed, Local
<1> QED BY <1>1 DEF Step

(* A path through items, before what can run from where it ends.           *)
LEMMA RunsPath ==
  ASSUME NEW Q, Closed(Q), NEW f, NEW s, NEW t, Path(Q, f, s, t),
         NEW q, NEW B, NEW D, Runs(q, B, t, D)
  PROVE  Runs(f \o q, B, s, D)
<1>1. PICK M, u : ClosedRuns(M) /\ Below(t, u) /\ <<q, B, u, D>> \in M
  BY DEF Runs
<1>2. IsSeq(f) /\ IsSeq(q)
  BY <1>1 DEF Path, ClosedRuns
<1>3. PICK at : Along(Q, f, s, t, at)
  BY DEF Path
<1> DEFINE h == f \o q
           n == Len(f)
           rest(i) == Rest(h, i)
           P == M \cup {<<rest(i), B, at[i], D>> : i \in 0 .. n - 1}
<1>4. /\ IsSeq(h) /\ n \in Nat /\ Len(q) \in Nat /\ Len(h) = n + Len(q)
      /\ \A i \in 1 .. n : h[i] = f[i]
  BY <1>2, Joining
<1>5. rest(n) = q
  BY <1>2, TailOfJoined
<1> HIDE DEF h
<1>6. ASSUME NEW i \in 0 .. n - 1
      PROVE  /\ IsSeq(rest(i)) /\ rest(i) # <<>> /\ Head(rest(i)) = f[i + 1]
             /\ Tail(rest(i)) = rest(i + 1)
  <2>1. i \in 0 .. Len(h) /\ i < Len(h) /\ h[i + 1] = f[i + 1]
    BY <1>4
  <2> QED BY <1>4, <2>1, RestSteps
<1>7. ASSUME NEW i \in 0 .. n - 1
      PROVE  \E A3, t3, E3, u3 :
               /\ Step(Head(rest(i)), B, at[i], D, A3, t3, E3) /\ Below(t3, u3)
               /\ <<Tail(rest(i)), A3, u3, E3>> \in P
  <2>1. i + 1 \in 1 .. n /\ i + 1 - 1 = i
    BY <1>4
  <2>2. PICK v : <<f[i + 1], at[i], v>> \in Q /\ Below(v, at[i + 1])
    BY <1>3, <2>1 DEF Along
  <2>3. Step(Head(rest(i)), B, at[i], D, B, v, D)
    BY <1>6, <2>2, FitOther DEF Fit
  <2>4. CASE i + 1 = n
    <3>1. at[i + 1] = t /\ Tail(rest(i)) = q
      BY <1>3, <1>5, <1>6, <2>4 DEF Along
    <3>2. Below(v, u)
      BY <1>1, <2>2, <3>1, BelowTransitive
    <3>3. <<Tail(rest(i)), B, u, D>> \in P
      BY <1>1, <3>1
    <3> QED BY <2>3, <3>2, <3>3
  <2>5. CASE i + 1 # n
    <3>1. i + 1 \in 0 .. n - 1
      BY <1>4, <2>5
    <3>2. <<Tail(rest(i)), B, at[i + 1], D>> \in P
      BY <1>6, <3>1
    <3> QED BY <2>2, <2>3, <3>2
  <2> QED BY <2>4, <2>5
<1>8. ClosedRuns(P)
  <2> SUFFICES ASSUME NEW q2, NEW B2, NEW s2, NEW D2, <<q2, B2, s2, D2>> \in P
               PROVE  /\ IsSeq(q2)
                      /\ q2 # <<>> => \E A3, t3, E3, u3 :
                           /\ Step(Head(q2), B2, s2, D2, A3, t3, E3)
                           /\ Below(t3, u3)
                           /\ <<Tail(q2), A3, u3, E3>> \in P
    BY Zenon DEF ClosedRuns
  <2>1. CASE <<q2, B2, s2, D2>> \in M
    BY <1>1, <2>1 DEF ClosedRuns
  <2>2. CASE \E i \in 0 .. n - 1 : q2 = rest(i) /\ B2 = B /\ s2 = at[i]
             /\ D2 = D
    <3>1. PICK i \in 0 .. n - 1 : q2 = rest(i) /\ B2 = B /\ s2 = at[i]
               /\ D2 = D
      BY <2>2
    <3> HIDE DEF P, rest
    <3> QED BY <1>6, <1>7, <3>1
  <2> QED BY <2>1, <2>2
<1>9. CASE n = 0
  <2>1. h = q /\ Below(s, t)
    <3>1. rest(0) = h
      BY <1>4, RestSteps
    <3> QED BY <1>3, <1>5, <1>9, <3>1 DEF Along
  <2>2. Below(s, u)
    BY <1>1, <2>1, BelowTransitive
  <2> QED BY <1>1, <2>1, <2>2 DEF Runs, h
<1>10. CASE n # 0
  <2>1. 0 \in 0 .. n - 1
    BY <1>4, <1>10
  <2>2. rest(0) = h
    BY <1>4, RestSteps
  <2>3. <<h, B, at[0], D>> \in P
    BY <2>1, <2>2
  <2>4. Below(s, at[0])
    BY <1>3 DEF Along
  <2> HIDE DEF P
  <2>5. Runs(h, B, s, D)
    BY <1>8, <2>3, <2>4 DEF Runs
  <2> QED BY <2>5 DEF h
<1> QED BY <1>9, <1>10

-----------------------------------------------------------------------------
(***************************************************************************)
(* A frame fits what is known of its rule: h is the tree, w are the tokens *)
(* and the token at here is the next.                                      *)
(***************************************************************************)
KindIn(h, n) == IF n \in 1 .. Len(h) THEN h[n].kind ELSE "none"

KindAt(h, got, k) ==
  IF k <= Len(got) THEN KindIn(h, got[Len(got) - k + 1]) ELSE "none"

FrameFits(w, h, frame, s, here) ==
  /\ frame.rule = s.rule
  /\ KindIn(h, frame.val) \in s.val
  /\ KindAt(h, frame.got, 1) \in s.last
  /\ KindAt(h, frame.got, 2) \in s.second
  /\ KindAt(h, frame.got, 3) \in s.third
  /\ frame.start <= here /\ (s.moved => frame.start < here)
  /\ s.open = Opened(w, here)

StackFits(w, h, F, B, s, p) ==
  /\ Len(F) = Len(B) + 1
  /\ FrameFits(w, h, F[Len(F)], s, p)
  /\ \A j \in 1 .. Len(B) : FrameFits(w, h, F[j], B[j], F[j + 1].start)

(* Where no token may be lost, the choices all go back to this one.        *)
Calm(s, D, ch, p) == s.slack <= 1 => \A i \in 1 .. Len(D) : ch[i].pos = p

(* Matching what is left is possible from here.                            *)
Stands(w, h, q, F, p, ch, B, s, D) ==
  /\ IsSeq(B) /\ IsSeq(D)
  /\ Runs(q, B, s, D) /\ Good(B, s, D)
  /\ StackFits(w, h, F, B, s, p) /\ Calm(s, D, ch, p)

Restored(F, c) == [SubSeq(F, 1, c.depth) EXCEPT ![c.depth].got = c.got]

(* Back at a choice it is, too, and the rule's node may have become        *)
(* another meanwhile, unless the choice relies on it.                      *)
Saved(w, h, F, ch, D, i) ==
  \E B, s : /\ Stands(w, h, ch[i].agenda, Restored(F, ch[i]), ch[i].pos, ch, B,
                      s,
                      SubSeq(D, 1, i - 1))
            /\ D[i].strict \/ Unknown \subseteq s.val

Pending(q, ch) ==
  IF q # <<>> /\ Head(q).item = "commit" THEN Len(ch) - 1 ELSE Len(ch)

Told(ch, D) ==
  Len(D) = Len(ch) /\ \A i \in 1 .. Len(ch) : D[i].depth = ch[i].depth

Place(w, h, q, F, p, ch) ==
  \E B, s, D : /\ Stands(w, h, q, F, p, ch, B, s, D) /\ Told(ch, D)
               /\ \A i \in 1 .. Pending(q, ch) : Saved(w, h, F, ch, D, i)

(* Frames, choices and the tree by themselves.                             *)
FrameSet(w, h) ==
  [rule : DOMAIN Grammar \cup {NULL}, val : 1 .. Len(h) \cup {NULL},
   got : Seq(1 .. Len(h)), start : 1 .. Len(w) + 1]

ChoicesFine(h, F, p, ch) ==
  /\ IsSeq(ch)
  /\ \A i \in 1 .. Len(ch) : /\ ch[i].pos \in 1 .. p
                             /\ ch[i].depth \in 1 .. Len(F)
                             /\ ch[i].got \in Seq(1 .. Len(h))
  /\ \A i \in 1 .. Len(ch) : \A j \in 1 .. i : ch[j].pos <= ch[i].pos

Grown(h, g) ==
  /\ Len(h) \in Nat /\ Len(g) \in Nat /\ Len(h) <= Len(g)
  /\ \A n \in 1 .. Len(h) : g[n].kind = h[n].kind
  /\ \A n \in 1 .. Len(g) : g[n].kind \in ReadKinds

(* A kind of a node, or none, is one of what may be unknown.               *)
LEMMA KindKnown ==
  ASSUME NEW h, \A n \in 1 .. Len(h) : h[n].kind \in ReadKinds, NEW n
  PROVE  KindIn(h, n) \in Unknown
BY DEF KindIn, Unknown

(* A node's kind stays as the tree grows.                                  *)
LEMMA KindStays ==
  ASSUME NEW h, NEW g, Grown(h, g), NEW n \in 1 .. Len(h) \cup {NULL}
  PROVE  KindIn(g, n) = KindIn(h, n)
<1>1. CASE n \in 1 .. Len(h)
  BY <1>1 DEF KindIn, Grown
<1>2. CASE n = NULL
  <2>1. NULL \notin Nat
    BY InputsAssumption
  <2>2. NULL \notin 1 .. Len(h) /\ NULL \notin 1 .. Len(g)
    BY <2>1 DEF Grown
  <2> QED BY <1>2, <2>2 DEF KindIn
<1> QED BY <1>1, <1>2

(* And so do the kinds of the attributes.                                  *)
LEMMA AttributeStays ==
  ASSUME NEW h, NEW g, Grown(h, g), NEW got \in Seq(1 .. Len(h)),
         NEW k \in 1 .. 3
  PROVE  KindAt(g, got, k) = KindAt(h, got, k)
<1>1. CASE k <= Len(got)
  <2>1. got[Len(got) - k + 1] \in 1 .. Len(h)
    BY <1>1
  <2> QED BY <1>1, <2>1, KindStays DEF KindAt
<1>2. CASE ~ (k <= Len(got))
  BY <1>2 DEF KindAt
<1> QED BY <1>1, <1>2

(* A frame that fits does so as the tree grows.                            *)
LEMMA FrameStays ==
  ASSUME NEW w, NEW h, NEW g, Grown(h, g), NEW frame \in FrameSet(w, h),
         NEW s, NEW p, FrameFits(w, h, frame, s, p)
  PROVE  FrameFits(w, g, frame, s, p)
<1>1. frame.val \in 1 .. Len(h) \cup {NULL} /\ frame.got \in Seq(1 .. Len(h))
  BY DEF FrameSet
<1>2. KindIn(g, frame.val) = KindIn(h, frame.val)
  BY <1>1, KindStays
<1>3. \A k \in 1 .. 3 : KindAt(g, frame.got, k) = KindAt(h, frame.got, k)
  BY <1>1, AttributeStays
<1>4. 1 \in 1 .. 3 /\ 2 \in 1 .. 3 /\ 3 \in 1 .. 3
  OBVIOUS
<1> QED BY <1>2, <1>3, <1>4 DEF FrameFits

(* A frame that fits what is known fits what less is known of.             *)
LEMMA FrameBelow ==
  ASSUME NEW w, NEW h, NEW frame, NEW s, NEW u, NEW p, Below(s, u),
         FrameFits(w, h, frame, s, p)
  PROVE  FrameFits(w, h, frame, u, p)
BY DEF FrameFits, Below

(* So does the stack, with what is known of the choices.                   *)
LEMMA StandsBelow ==
  ASSUME NEW B, NEW s, NEW u, NEW D, Below(s, u)
  PROVE  /\ Good(B, s, D) => Good(B, u, D)
         /\ \A ch, p : Calm(s, D, ch, p) => Calm(u, D, ch, p)
         /\ \A w, h, F, p : StackFits(w, h, F, B, s, p)
            => StackFits(w, h, F, B, u, p)
<1>1. ASSUME Good(B, s, D)
      PROVE  Good(B, u, D)
  <2>1. \A d : IsKept(B, u, d) = IsKept(B, s, d)
    BY DEF Below, IsKept
  <2>2. u.slack = 0 => s.slack = 0
    BY DEF Below
  <2> QED BY <1>1, <2>1, <2>2 DEF Good
<1>2. u.slack <= 1 => s.slack <= 1
  BY DEF Below
<1>3. ASSUME NEW ch, NEW p, Calm(s, D, ch, p)
      PROVE  Calm(u, D, ch, p)
  BY <1>2, <1>3 DEF Calm
<1>4. ASSUME NEW w, NEW h, NEW F, NEW p, StackFits(w, h, F, B, s, p)
      PROVE  StackFits(w, h, F, B, u, p)
  BY <1>4, FrameBelow DEF StackFits
<1> QED BY <1>1, <1>3, <1>4

-----------------------------------------------------------------------------
(* The frames that a choice goes back to.                                  *)
LEMMA RestoredFrames ==
  ASSUME NEW w, NEW h, NEW F \in Seq(FrameSet(w, h)), NEW c,
         c.depth \in 1 .. Len(F),
         c.got \in Seq(1 .. Len(h))
  PROVE  /\ Restored(F, c) \in Seq(FrameSet(w, h))
         /\ Len(Restored(F, c)) = c.depth
         /\ \A j \in 1 .. c.depth - 1 : Restored(F, c)[j] = F[j]
         /\ Restored(F, c)[c.depth].rule = F[c.depth].rule
         /\ Restored(F, c)[c.depth].val = F[c.depth].val
         /\ Restored(F, c)[c.depth].start = F[c.depth].start
         /\ Restored(F, c)[c.depth].got = c.got
<1> DEFINE n == c.depth
           G == SubSeq(F, 1, n)
<1>1. n \in Nat /\ Len(F) \in Nat /\ n \in 1 .. Len(F)
  OBVIOUS
<1>2. /\ G \in Seq(FrameSet(w, h)) /\ Len(G) = n
      /\ \A j \in 1 .. n : G[j] = F[j]
  BY <1>1
<1> HIDE DEF G
<1> DEFINE old == G[n]
           new == [old EXCEPT !.got = c.got]
<1>3. old \in FrameSet(w, h) /\ old = F[n]
  BY <1>1, <1>2
<1>4. /\ new \in FrameSet(w, h) /\ new.rule = old.rule /\ new.val = old.val
      /\ new.start = old.start /\ new.got = c.got
  BY <1>3 DEF FrameSet
<1>5. Restored(F, c) = [G EXCEPT ![n] = new]
  BY DEF Restored, G
<1> HIDE DEF new
<1>6. n \in 1 .. Len(G)
  BY <1>1, <1>2
<1>7. /\ [G EXCEPT ![n] = new] \in Seq(FrameSet(w, h))
      /\ Len([G EXCEPT ![n] = new]) = Len(G)
      /\ [G EXCEPT ![n] = new][n] = new
      /\ \A j \in 1 .. Len(G) : j # n => [G EXCEPT ![n] = new][j] = G[j]
  <2> HIDE DEF n, old
  <2> QED BY <1>2, <1>4, <1>6, Replaced
<1> DEFINE E == [G EXCEPT ![n] = new]
<1>8. /\ E \in Seq(FrameSet(w, h)) /\ Len(E) = n /\ E[n] = new
      /\ \A j \in 1 .. n - 1 : E[j] = F[j]
  <2>1. \A j \in 1 .. n - 1 : j \in 1 .. n /\ j # n
    BY <1>1
  <2>2. E \in Seq(FrameSet(w, h)) /\ Len(E) = Len(G) /\ E[n] = new
    BY <1>7
  <2>3. \A j \in 1 .. Len(G) : j # n => E[j] = G[j]
    BY <1>7
  <2> HIDE DEF n, E
  <2> QED BY <1>2, <2>1, <2>2, <2>3
<1>9. Restored(F, c) = E
  BY <1>5
<1> HIDE DEF E
<1> QED BY <1>3, <1>4, <1>8, <1>9

-----------------------------------------------------------------------------
(* Where a path ends.                                                      *)
LEMMA PathEnds ==
  ASSUME NEW Q, NEW f, NEW s, NEW t, Path(Q, f, s, t), Below(s, s)
  PROVE  IsSeq(f) /\ Below(t, t) /\ (f = <<>> => Below(s, t))
<1>1. PICK at : Along(Q, f, s, t, at)
  BY DEF Path
<1>2. IsSeq(f) /\ Len(f) \in Nat
  BY DEF Path, IsSeq
<1>3. CASE Len(f) = 0
  <2>1. Below(s, t)
    BY <1>1, <1>3 DEF Along
  <2>2. Below(t, t)
    BY <2>1 DEF Below
  <2> QED BY <1>2, <2>1, <2>2
<1>4. CASE Len(f) # 0
  <2>1. Len(f) \in 1 .. Len(f)
    BY <1>2, <1>4
  <2>2. PICK u : Below(u, t)
    BY <1>1, <2>1 DEF Along
  <2>3. Below(t, t)
    BY <2>2 DEF Below
  <2>4. f # <<>>
    BY <1>4
  <2> QED BY <1>2, <2>3, <2>4
<1> QED BY <1>3, <1>4

-----------------------------------------------------------------------------
(***************************************************************************)
(* All there is to know of a place: of the rules that have begun, in the   *)
(* states B and s, and of the choices that are pending.                    *)
(***************************************************************************)
Holds(w, h, F, p, ch, B, s, D) ==
  /\ IsSeq(B) /\ IsSeq(D) /\ Told(ch, D)
  /\ Good(B, s, D) /\ StackFits(w, h, F, B, s, p) /\ Calm(s, D, ch, p)
  /\ \A i \in 1 .. Len(ch) : Saved(w, h, F, ch, D, i)

(* The frames, the choices and the tree by themselves.                     *)
Shapes(w, h, F, p, ch) ==
  /\ Grown(h, h) /\ p \in 1 .. Len(w) + 1
  /\ F \in Seq(FrameSet(w, h)) /\ Len(F) >= 1
  /\ ChoicesFine(h, F, p, ch)

(* What is to be matched next.                                             *)
LEMMA NextItem ==
  ASSUME NEW w, NEW h, NEW q, NEW F, NEW p, NEW ch, Place(w, h, q, F, p, ch),
         q # <<>>, Head(q).item # "commit"
  PROVE  \E B, s, D, A, t, E : /\ Holds(w, h, F, p, ch, B, s, D)
                               /\ Step(Head(q), B, s, D, A, t, E)
                               /\ Runs(Tail(q), A, t, E)
<1>1. PICK B, s, D : /\ Stands(w, h, q, F, p, ch, B, s, D) /\ Told(ch, D)
                     /\ \A i \in 1 .. Pending(q, ch) : Saved(w, h, F, ch, D, i)
  BY DEF Place
<1>2. Pending(q, ch) = Len(ch)
  BY DEF Pending
<1>3. PICK u, A, t, E : /\ Below(s, u) /\ Step(Head(q), B, u, D, A, t, E)
                        /\ Runs(Tail(q), A, t, E)
  BY <1>1, RunsFirst DEF Stands
<1>4. Holds(w, h, F, p, ch, B, u, D)
  BY <1>1, <1>2, <1>3, StandsBelow DEF Stands, Holds
<1> QED BY <1>3, <1>4

(* A commit is next: the last choice is given up for what is left to run   *)
(* without it.                                                             *)
LEMMA NextCommit ==
  ASSUME NEW w, NEW h, NEW q, NEW F, NEW p, NEW ch, Place(w, h, q, F, p, ch),
         q # <<>>, Head(q).item = "commit"
  PROVE  \E B, s, D, t : /\ IsSeq(B) /\ IsSeq(D) /\ Told(ch, D)
                         /\ StackFits(w, h, F, B, s, p)
                         /\ \A i \in 1 .. Len(ch) - 1 : Saved(w, h, F, ch, D,
                                                              i)
                         /\ CommitStep(Head(q).to, B, s, D, B, t, Front(D))
                         /\ Runs(Tail(q), B, t, Front(D))
<1>1. PICK B, s, D : /\ Stands(w, h, q, F, p, ch, B, s, D) /\ Told(ch, D)
                     /\ \A i \in 1 .. Pending(q, ch) : Saved(w, h, F, ch, D, i)
  BY DEF Place
<1>2. Pending(q, ch) = Len(ch) - 1
  BY DEF Pending
<1>3. PICK u, A, t, E : /\ Below(s, u) /\ Step(Head(q), B, u, D, A, t, E)
                        /\ Runs(Tail(q), A, t, E)
  BY <1>1, RunsFirst DEF Stands
<1>4. CommitStep(Head(q).to, B, u, D, A, t, E)
  BY <1>3 DEF Step
<1>5. A = B /\ E = Front(D)
  BY <1>4 DEF CommitStep
<1>6. StackFits(w, h, F, B, u, p)
  BY <1>1, <1>3, StandsBelow DEF Stands
<1>7. IsSeq(B) /\ IsSeq(D)
  BY <1>1 DEF Stands
<1> QED BY <1>1, <1>2, <1>3, <1>4, <1>5, <1>6, <1>7

-----------------------------------------------------------------------------
(***************************************************************************)
(* A choice stays what it is, whatever is done behind it: more nodes are   *)
(* made, other rules begin and end above the one it was made in, and that  *)
(* one gets another node, if the choice does not rely on it.               *)
(***************************************************************************)
Untouched(F, G, c, strict) ==
  /\ c.depth \in 1 .. Len(F) /\ c.depth \in 1 .. Len(G)
  /\ \A j \in 1 .. c.depth - 1 : G[j] = F[j]
  /\ G[c.depth].rule = F[c.depth].rule /\ G[c.depth].start = F[c.depth].start
  /\ G[c.depth].val = F[c.depth].val \/ ~ strict

(* What can match back at a choice still can, if nothing that it relies on *)
(* has changed.                                                            *)
LEMMA SavedStays ==
  ASSUME NEW w, NEW h, NEW g, Grown(h, g),
         NEW F \in Seq(FrameSet(w, h)), NEW G \in Seq(FrameSet(w, g)),
         NEW ch, NEW co, NEW D, NEW E, IsSeq(D), IsSeq(E), NEW i \in Nat \ {0},
         i <= Len(D), i <= Len(E),
         \A j \in 1 .. i : co[j] = ch[j] /\ E[j] = D[j],
         Untouched(F, G, ch[i], D[i].strict), ch[i].got \in Seq(1 .. Len(h)),
         Saved(w, h, F, ch, D, i)
  PROVE  Saved(w, g, G, co, E, i)
<1> DEFINE c == ch[i]
           n == c.depth
           O == SubSeq(D, 1, i - 1)
           Q == Restored(F, c)
           V == Restored(G, c)
<1>1. PICK B, s : /\ Stands(w, h, c.agenda, Q, c.pos, ch, B, s, O)
                  /\ D[i].strict \/ Unknown \subseteq s.val
  BY DEF Saved
<1>2. i \in 1 .. i /\ co[i] = c /\ E[i] = D[i] /\ i - 1 \in Nat
  BY DEF c
<1>3. O = SubSeq(E, 1, i - 1) /\ IsSeq(O) /\ Len(O) = i - 1
  <2>1. Len(D) \in Nat /\ Len(E) \in Nat
    BY DEF IsSeq
  <2>2. i - 1 \in 0 .. Len(D) /\ i - 1 \in 0 .. Len(E)
    BY <2>1
  <2> DEFINE P == SubSeq(E, 1, i - 1)
  <2>3. /\ IsSeq(O) /\ Len(O) = i - 1 /\ \A j \in 1 .. i - 1 : O[j] = D[j]
    BY <2>2, SeqCut
  <2>4. /\ IsSeq(P) /\ Len(P) = i - 1 /\ \A j \in 1 .. i - 1 : P[j] = E[j]
    BY <2>2, SeqCut
  <2>5. \A j \in 1 .. i - 1 : O[j] = P[j]
    BY <2>3, <2>4
  <2> HIDE DEF O, P
  <2>6. O = P
    BY <2>3, <2>4, <2>5, SameEntries
  <2> QED BY <2>3, <2>6 DEF P
<1>4. ASSUME NEW t, Calm(t, O, ch, c.pos)
      PROVE  Calm(t, O, co, c.pos)
  <2>1. \A j \in 1 .. i - 1 : co[j] = ch[j]
    OBVIOUS
  <2> HIDE DEF O, c
  <2> QED BY <1>3, <1>4, <2>1 DEF Calm
<1>5. n \in 1 .. Len(F) /\ n \in 1 .. Len(G) /\ n \in Nat
  BY DEF Untouched
<1>6. c.got \in Seq(1 .. Len(g))
  <2> DEFINE I == 1 .. Len(h)
             J == 1 .. Len(g)
  <2>1. I \subseteq J
    BY DEF Grown
  <2>2. c.got \in Seq(I)
    OBVIOUS
  <2> HIDE DEF I, J, c
  <2>3. c.got \in Seq(J)
    BY <2>1, <2>2
  <2> QED BY <2>3 DEF J
<1>7. /\ Q \in Seq(FrameSet(w, h)) /\ Len(Q) = n
      /\ \A j \in 1 .. n - 1 : Q[j] = F[j]
      /\ Q[n].rule = F[n].rule /\ Q[n].val = F[n].val
      /\ Q[n].start = F[n].start /\ Q[n].got = c.got
  <2>1. F \in Seq(FrameSet(w, h)) /\ c.depth \in 1 .. Len(F)
        /\ c.got \in Seq(1 .. Len(h))
    BY <1>5
  <2> HIDE DEF c
  <2> QED BY <2>1, RestoredFrames
<1>8. /\ V \in Seq(FrameSet(w, g)) /\ Len(V) = n
      /\ \A j \in 1 .. n - 1 : V[j] = G[j]
      /\ V[n].rule = G[n].rule /\ V[n].val = G[n].val
      /\ V[n].start = G[n].start /\ V[n].got = c.got
  <2>1. G \in Seq(FrameSet(w, g)) /\ c.depth \in 1 .. Len(G)
    BY <1>5
  <2> HIDE DEF c
  <2> QED BY <1>6, <2>1, RestoredFrames
<1> HIDE DEF Q, V, O
<1>9. /\ \A j \in 1 .. n - 1 : V[j] = Q[j]
      /\ V[n].rule = Q[n].rule /\ V[n].start = Q[n].start
      /\ V[n].got = Q[n].got
      /\ V[n].val = Q[n].val \/ Unknown \subseteq s.val
  BY <1>1, <1>7, <1>8 DEF Untouched
<1>10. StackFits(w, h, Q, B, s, c.pos) /\ IsSeq(B) /\ Len(B) \in Nat
       /\ n = Len(B) + 1
  BY <1>1, <1>7 DEF Stands, StackFits, IsSeq
<1>11. ASSUME NEW j \in 1 .. Len(B)
       PROVE  FrameFits(w, g, V[j], B[j], V[j + 1].start)
  <2>1. j \in 1 .. n - 1 /\ j \in 1 .. n /\ (j + 1 \in 1 .. n - 1 \/ j + 1 = n)
    BY <1>10
  <2>2. V[j] = Q[j] /\ V[j + 1].start = Q[j + 1].start
    BY <1>9, <2>1
  <2>3. FrameFits(w, h, Q[j], B[j], Q[j + 1].start)
    BY <1>10 DEF StackFits
  <2>4. Q[j] \in FrameSet(w, h)
    BY <1>7, <2>1
  <2> QED BY <2>2, <2>3, <2>4, FrameStays
<1>12. FrameFits(w, g, V[n], s, c.pos)
  <2>1. FrameFits(w, h, Q[n], s, c.pos) /\ Q[n] \in FrameSet(w, h)
    BY <1>5, <1>7, <1>10 DEF StackFits
  <2>2. FrameFits(w, g, Q[n], s, c.pos)
    BY <2>1, FrameStays
  <2>3. KindIn(g, V[n].val) \in Unknown
    BY KindKnown DEF Grown
  <2>4. KindIn(g, V[n].val) \in s.val
    BY <1>9, <2>2, <2>3 DEF FrameFits
  <2> QED BY <1>9, <2>2, <2>4 DEF FrameFits
<1>13. StackFits(w, g, V, B, s, c.pos)
  BY <1>8, <1>10, <1>11, <1>12 DEF StackFits
<1>14. Stands(w, g, c.agenda, V, c.pos, co, B, s, O)
  BY <1>1, <1>3, <1>4, <1>13 DEF Stands
<1> QED BY <1>1, <1>2, <1>3, <1>14 DEF Saved, V

-----------------------------------------------------------------------------
(***************************************************************************)
(* Going on in the same rules: only the last one's node and attributes may *)
(* become others, and its node only if no choice relies on it.             *)
(***************************************************************************)
Renewed(F, G, kept) ==
  /\ Len(G) = Len(F)
  /\ \A j \in 1 .. Len(F) - 1 : G[j] = F[j]
  /\ G[Len(F)].rule = F[Len(F)].rule /\ G[Len(F)].start = F[Len(F)].start
  /\ G[Len(F)].val = F[Len(F)].val \/ ~ kept

(* As much is known of the choices behind as before.                       *)
Onward(s, t, p, o) ==
  /\ t.kept = s.kept /\ (t.slack = 0 => s.slack = 0)
  /\ t.slack <= 1 => s.slack <= 1 /\ (o = p \/ s.slack = 0)

(* An item of the grammar is next: what it does is known, and so is what   *)
(* can run behind it.                                                      *)
LEMMA ItemStep ==
  ASSUME NEW w, NEW h, NEW q, NEW F, NEW p, NEW ch, Place(w, h, q, F, p, ch),
         q # <<>>, Head(q).item \notin {"commit", "return"}
  PROVE  \E B, s, D, t, Q : /\ Holds(w, h, F, p, ch, B, s, D)
                            /\ Closed(Q) /\ Local(Q, Head(q), s, t)
                            /\ Below(s, s) /\ Below(t, t)
                            /\ IsSeq(Tail(q)) /\ Runs(Tail(q), B, t, D)
<1>1. PICK B, s, D, A, t, E : /\ Holds(w, h, F, p, ch, B, s, D)
                              /\ Step(Head(q), B, s, D, A, t, E)
                              /\ Runs(Tail(q), A, t, E)
  BY NextItem
<1>2. Fit(Head(q), s, t) /\ A = B /\ E = D
  BY <1>1 DEF Step
<1>3. PICK Q : Closed(Q) /\ <<Head(q), s, t>> \in Q
  BY <1>2 DEF Fit
<1>4. Local(Q, Head(q), s, t)
  BY <1>3 DEF Closed
<1>5. Below(s, s) /\ Below(t, t)
  BY <1>2, FitStates
<1>6. IsSeq(Tail(q)) /\ Runs(Tail(q), B, t, D)
  BY <1>1, <1>2, RunsSeq
<1> QED BY <1>1, <1>3, <1>4, <1>5, <1>6

(* Going on behind an item, at this token or the next, with the rule's     *)
(* frame as the item leaves it.                                            *)
LEMMA Advance ==
  ASSUME NEW w, NEW h, NEW g, Grown(h, g), NEW F \in Seq(FrameSet(w, h)),
         NEW G \in Seq(FrameSet(w, g)), NEW p, NEW o, NEW ch,
         ChoicesFine(h, F, p, ch),
         NEW B, NEW s, NEW D, Holds(w, h, F, p, ch, B, s, D),
         NEW t, Onward(s, t, p, o), Renewed(F, G, s.kept),
         FrameFits(w, g, G[Len(F)], t, o), NEW r, Runs(r, B, t, D)
  PROVE  Place(w, g, r, G, o, ch)
<1>1. /\ IsSeq(B) /\ Len(B) \in Nat /\ IsSeq(D) /\ Len(D) \in Nat
      /\ Len(F) = Len(B) + 1 /\ Len(D) = Len(ch)
  BY DEF Holds, StackFits, Told, IsSeq
<1>2. Good(B, t, D)
  <2>1. \A d : IsKept(B, t, d) = IsKept(B, s, d)
    BY DEF Onward, IsKept
  <2> QED BY <2>1 DEF Good, Onward, Holds
<1>3. StackFits(w, g, G, B, t, o)
  <2>1. ASSUME NEW j \in 1 .. Len(B)
        PROVE  FrameFits(w, g, G[j], B[j], G[j + 1].start)
    <3>1. j \in 1 .. Len(F) - 1 /\ j \in 1 .. Len(F)
            /\ (j + 1 \in 1 .. Len(F) - 1 \/ j + 1 = Len(F))
      BY <1>1
    <3>2. G[j] = F[j] /\ G[j + 1].start = F[j + 1].start
      BY <3>1 DEF Renewed
    <3>3. FrameFits(w, h, F[j], B[j], F[j + 1].start)
      BY DEF Holds, StackFits
    <3>4. F[j] \in FrameSet(w, h)
      BY <3>1
    <3> QED BY <3>2, <3>3, <3>4, FrameStays
  <2> QED BY <1>1, <2>1 DEF StackFits, Renewed
<1>4. Calm(t, D, ch, o)
  BY <1>1 DEF Calm, Onward, Holds, Good
<1>5. ASSUME NEW i \in 1 .. Len(ch)
      PROVE  Saved(w, g, G, ch, D, i)
  <2>1. i \in Nat \ {0} /\ i <= Len(D)
    BY <1>1
  <2>2. D[i].depth = ch[i].depth /\ ch[i].depth \in 1 .. Len(F)
          /\ ch[i].got \in Seq(1 .. Len(h))
    BY DEF Holds, Told, ChoicesFine
  <2>3. D[i].strict /\ D[i].depth = Len(F) => s.kept
    BY <1>1, <2>1 DEF Holds, Good, IsKept
  <2>4. Untouched(F, G, ch[i], D[i].strict)
    <3> DEFINE d == ch[i].depth
               n == Len(F)
    <3>1. d \in 1 .. n /\ n \in Nat /\ Len(G) = n
      BY <2>2 DEF Renewed
    <3>2. \A j \in 1 .. d - 1 : G[j] = F[j]
      BY <3>1 DEF Renewed
    <3>3. CASE d = n
      <4>1. /\ G[d].rule = F[d].rule /\ G[d].start = F[d].start
            /\ G[d].val = F[d].val \/ ~ D[i].strict
        BY <2>2, <2>3, <3>3 DEF Renewed
      <4> QED BY <3>1, <3>2, <4>1 DEF Untouched
    <3>4. CASE d # n
      <4>1. G[d] = F[d]
        BY <3>1, <3>4 DEF Renewed
      <4> QED BY <3>1, <3>2, <4>1 DEF Untouched
    <3> QED BY <3>3, <3>4
  <2>5. Saved(w, h, F, ch, D, i)
    BY DEF Holds
  <2> QED BY <1>1, <2>1, <2>2, <2>4, <2>5, SavedStays
<1>6. \A i \in 1 .. Pending(r, ch) : Saved(w, g, G, ch, D, i)
  <2>1. Pending(r, ch) \in Int /\ Pending(r, ch) <= Len(ch)
    BY <1>1 DEF Pending
  <2> QED BY <1>1, <1>5, <2>1
<1> QED BY <1>1, <1>2, <1>3, <1>4, <1>6 DEF Place, Stands, Holds

(* Nothing becomes another but what is known, and what is left to match.   *)
LEMMA Onwards ==
  ASSUME NEW w, NEW h, NEW F, NEW p, NEW ch, Shapes(w, h, F, p, ch),
         NEW B, NEW s, NEW D, Holds(w, h, F, p, ch, B, s, D),
         NEW t, Below(s, t), NEW r, Runs(r, B, t, D)
  PROVE  Place(w, h, r, F, p, ch)
<1>1. Onward(s, t, p, p)
  BY DEF Onward, Below
<1>2. Renewed(F, F, s.kept)
  BY DEF Renewed
<1>3. FrameFits(w, h, F[Len(F)], t, p)
  BY FrameBelow DEF Holds, StackFits
<1> QED BY <1>1, <1>2, <1>3, Advance DEF Shapes

-----------------------------------------------------------------------------
(* The blocks that are open behind a token.                                *)
LEMMA OpenedNext ==
  ASSUME NEW w, NEW p \in Nat \ {0}
  PROVE  /\ Opened(w, p) \in Int
         /\ Opened(w, p + 1) = IF w[p] = "INDENT" THEN Opened(w, p) + 1
                               ELSE IF w[p] = "DEDENT" THEN Opened(w, p) - 1
                               ELSE Opened(w, p)
<1> DEFINE Those(k, x) == {q \in 1 .. k - 1 : w[q] = x}
<1>1. ASSUME NEW x
      PROVE  /\ Cardinality(Those(p, x)) \in Nat
             /\ Cardinality(Those(p + 1, x)) =
                  IF w[p] = x THEN Cardinality(Those(p, x)) + 1
                    ELSE Cardinality(Those(p, x))
  <2>1. IsFiniteSet(1 .. p - 1) /\ Those(p, x) \subseteq 1 .. p - 1
    BY FS_Interval
  <2> DEFINE S == Those(p, x)
             I == 1 .. p - 1
  <2>2. IsFiniteSet(S)
    <3>1. IsFiniteSet(I) /\ S \subseteq I
      BY <2>1
    <3> HIDE DEF S, I
    <3> QED BY <3>1, FS_Subset
  <2>3. Cardinality(S) \in Nat
    <3> HIDE DEF S
    <3> QED BY <2>2, FS_CardinalityType
  <2>4. Those(p + 1, x) = IF w[p] = x THEN S \cup {p} ELSE S
    OBVIOUS
  <2>5. p \notin S
    OBVIOUS
  <2>6. Cardinality(S \cup {p}) = Cardinality(S) + 1
    <3> HIDE DEF S
    <3> QED BY <2>2, <2>5, FS_AddElement
  <2> HIDE DEF S
  <2>7. Cardinality(Those(p + 1, x)) = IF w[p] = x THEN Cardinality(S) + 1
        ELSE Cardinality(S)
    BY <2>4, <2>6
  <2> QED BY <2>3, <2>7 DEF S
<1> HIDE DEF Those
<1>2. /\ Opened(w, p) =
           Cardinality(Those(p, "INDENT")) - Cardinality(Those(p, "DEDENT"))
      /\ Opened(w, p + 1) =
           Cardinality(Those(p + 1, "INDENT")) - Cardinality(Those(p + 1,
                                                             "DEDENT"))
  BY DEF Opened, Those
<1> QED BY <1>1, <1>2

(* A token that matches.                                                   *)
LEMMA MatchPlace ==
  ASSUME NEW w \in Seq(STRING), ToSet(w) \cap NoToken = {}, NEW h, NEW q,
         NEW F, NEW p,
         NEW ch, Shapes(w, h, F, p, ch), Place(w, h, q, F, p, ch),
         q # <<>>, Head(q).item = "token",
         Matches(Head(q).t, IF p <= Len(w) THEN w[p] ELSE "end-of-input")
  PROVE  p <= Len(w) /\ w[p] # "flip" /\ Place(w, h, Tail(q), F, p + 1, ch)
<1>1. PICK B, s, D, t, Q : /\ Holds(w, h, F, p, ch, B, s, D)
                           /\ Closed(Q) /\ Local(Q, Head(q), s, t)
                           /\ Below(s, s) /\ Below(t, t)
                           /\ Runs(Tail(q), B, t, D)
  BY ItemStep
<1> DEFINE x == Head(q).t
<1>2. TokenStep(x, s, t)
  BY <1>1 DEF Local
<1>3. p \in Nat \ {0} /\ Len(w) \in Nat
  BY DEF Shapes
<1>4. p <= Len(w)
  BY <1>2 DEF Matches, TokenStep
<1>5. x = w[p] \/ (x = "identifier" /\ w[p] = "reset")
  BY <1>4 DEF Matches
<1>6. w[p] \notin {"[", "]"}
  BY <1>3, <1>4 DEF NoToken, ToSet
<1>7. w[p] # "flip" /\ x \notin {"[", "]"}
  BY <1>2, <1>5, <1>6 DEF TokenStep
<1>8. Below(Read(s, x), t)
  BY <1>2, <1>7 DEF TokenStep
<1>9. Onward(s, t, p, p + 1)
  BY <1>1, <1>8 DEF Onward, Below, Read, State
<1>10. Renewed(F, F, s.kept)
  BY DEF Renewed
<1>11. FrameFits(w, h, F[Len(F)], s, p)
  BY <1>1 DEF Holds, StackFits
<1>12. F[Len(F)].start \in Nat
  <2>1. F \in Seq(FrameSet(w, h)) /\ Len(F) \in 1 .. Len(F)
    BY DEF Shapes
  <2>2. F[Len(F)] \in FrameSet(w, h)
    BY <2>1
  <2> QED BY <2>2 DEF FrameSet
<1>13. FrameFits(w, h, F[Len(F)], Read(s, x), p + 1)
  <2>1. Read(s, x).open = Opened(w, p + 1)
    BY <1>3, <1>5, <1>11, OpenedNext DEF Read, State, FrameFits
  <2>2. F[Len(F)].start <= p + 1 /\ F[Len(F)].start < p + 1
    BY <1>3, <1>11, <1>12 DEF FrameFits
  <2> QED BY <1>11, <2>1, <2>2 DEF FrameFits, Read, State
<1>14. FrameFits(w, h, F[Len(F)], t, p + 1)
  BY <1>8, <1>13, FrameBelow
<1>15. Place(w, h, Tail(q), F, p + 1, ch)
  <2> DEFINE o == p + 1
  <2>1. Onward(s, t, p, o) /\ FrameFits(w, h, F[Len(F)], t, o)
    BY <1>9, <1>14
  <2> HIDE DEF o
  <2>2. Place(w, h, Tail(q), F, o, ch)
    BY <1>1, <1>10, <2>1, Advance DEF Shapes
  <2> QED BY <2>2 DEF o
<1> QED BY <1>4, <1>7, <1>15

-----------------------------------------------------------------------------
(* The first choices are the same ones, and none of their rules has ended. *)
SameChoices(ch, co, D, E, k) ==
  /\ k \in Nat /\ k <= Len(D) /\ k <= Len(E)
  /\ \A j \in 1 .. k : co[j] = ch[j] /\ E[j] = D[j]

AllUntouched(F, G, ch, D, k) ==
  \A i \in 1 .. k : Untouched(F, G, ch[i], D[i].strict)

(* The same for the first choices together.                                *)
LEMMA SavedStay ==
  ASSUME NEW w, NEW h, NEW g, Grown(h, g), NEW F \in Seq(FrameSet(w, h)),
         NEW G \in Seq(FrameSet(w, g)), NEW p, NEW ch,
         ChoicesFine(h, F, p, ch),
         NEW D, IsSeq(D), Told(ch, D), NEW co, NEW E, IsSeq(E),
         NEW k, SameChoices(ch, co, D, E, k), AllUntouched(F, G, ch, D, k),
         \A i \in 1 .. k : Saved(w, h, F, ch, D, i)
  PROVE  \A i \in 1 .. k : Saved(w, g, G, co, E, i)
<1> SUFFICES ASSUME NEW i \in 1 .. k
             PROVE  Saved(w, g, G, co, E, i)
  OBVIOUS
<1>1. Len(D) \in Nat /\ Len(E) \in Nat /\ Len(ch) = Len(D)
  BY DEF IsSeq, Told
<1>2. i \in Nat \ {0} /\ i <= Len(D) /\ i <= Len(E) /\ i \in 1 .. Len(ch)
  BY <1>1 DEF SameChoices
<1>3. \A j \in 1 .. i : co[j] = ch[j] /\ E[j] = D[j]
  BY <1>2 DEF SameChoices
<1>4. ch[i].got \in Seq(1 .. Len(h))
  BY <1>2 DEF ChoicesFine
<1>5. Untouched(F, G, ch[i], D[i].strict) /\ Saved(w, h, F, ch, D, i)
  BY DEF AllUntouched
<1> QED BY <1>2, <1>3, <1>4, <1>5, SavedStays

(* The rules that stay, as they are, leave a choice alone: the last of     *)
(* them may have other attributes.                                         *)
SameUpTo(F, G, m) ==
  /\ \A j \in 1 .. m : /\ G[j].rule = F[j].rule /\ G[j].start = F[j].start
                       /\ G[j].val = F[j].val
  /\ \A j \in 1 .. m - 1 : G[j] = F[j]

(* Frames that are not changed are untouched for every choice.             *)
LEMMA Kept ==
  ASSUME NEW F, NEW G, NEW ch, NEW D, NEW k, NEW m \in Nat,
         \A i \in 1 .. k : ch[i].depth \in 1 .. m,
         m <= Len(F), m <= Len(G), Len(F) \in Nat, Len(G) \in Nat,
         SameUpTo(F, G, m)
  PROVE  AllUntouched(F, G, ch, D, k)
<1> SUFFICES ASSUME NEW i \in 1 .. k
             PROVE  Untouched(F, G, ch[i], D[i].strict)
  BY DEF AllUntouched
<1>1. ch[i].depth \in 1 .. m
  OBVIOUS
<1>2. ch[i].depth \in 1 .. Len(F) /\ ch[i].depth \in 1 .. Len(G)
  BY <1>1
<1>3. \A j \in 1 .. ch[i].depth - 1 : G[j] = F[j]
  BY <1>1 DEF SameUpTo
<1> QED BY <1>1, <1>2, <1>3 DEF Untouched, SameUpTo

-----------------------------------------------------------------------------
(* A kind that is known is that of a node.                                 *)
LEMMA KindMade ==
  ASSUME NEW h, NEW n, NEW S, "none" \notin S, KindIn(h, n) \in S
  PROVE  n \in 1 .. Len(h) /\ h[n].kind \in S
BY DEF KindIn

(* An attribute that is known to be there, is there, and is of a kind that *)
(* is known.                                                               *)
LEMMA KindGot ==
  ASSUME NEW w, NEW h, NEW frame \in FrameSet(w, h), NEW s, NEW p,
         FrameFits(w, h, frame, s, p), NEW k \in 1 .. 3,
           "none" \notin Attribute(s, k)
  PROVE  /\ k <= Len(frame.got)
         /\ frame.got[Len(frame.got) - k + 1] \in 1 .. Len(h)
         /\ h[frame.got[Len(frame.got) - k + 1]].kind \in Attribute(s, k)
<1>1. KindAt(h, frame.got, k) \in Attribute(s, k)
  BY DEF FrameFits, Attribute
<1>2. k <= Len(frame.got)
  BY <1>1 DEF KindAt
<1>3. KindIn(h, frame.got[Len(frame.got) - k + 1]) \in Attribute(s, k)
  BY <1>1, <1>2 DEF KindAt
<1> QED BY <1>2, <1>3, KindMade

(* The same of the last attribute.                                         *)
LEMMA LastGot ==
  ASSUME NEW w, NEW h, NEW frame \in FrameSet(w, h), NEW s, NEW p,
         FrameFits(w, h, frame, s, p), "none" \notin s.last
  PROVE  /\ frame.got # <<>> /\ Last(frame.got) \in 1 .. Len(h)
         /\ h[Last(frame.got)].kind \in s.last
         /\ KindIn(h, Last(frame.got)) \in s.last
<1>1. 1 \in 1 .. 3 /\ Attribute(s, 1) = s.last
  BY DEF Attribute
<1>2. frame.got \in Seq(1 .. Len(h))
  BY DEF FrameSet
<1>3. /\ 1 <= Len(frame.got)
      /\ frame.got[Len(frame.got) - 1 + 1] \in 1 .. Len(h)
      /\ h[frame.got[Len(frame.got) - 1 + 1]].kind \in Attribute(s, 1)
  BY <1>1, KindGot
<1>4. frame.got # <<>> /\ Last(frame.got) = frame.got[Len(frame.got) - 1 + 1]
  BY <1>2, <1>3 DEF Last
<1> QED BY <1>1, <1>3, <1>4 DEF KindIn

(* A frame with another node, or with one more attribute.                  *)
WithNode(frame, n) == [frame EXCEPT !.val = n]
WithOne(frame, n) == [frame EXCEPT !.got = Append(@, n)]

(* A frame whose node is another now.                                      *)
LEMMA Renoded ==
  ASSUME NEW w, NEW h, NEW g, Grown(h, g), NEW frame \in FrameSet(w, h), NEW s,
         NEW p,
         FrameFits(w, h, frame, s, p), NEW n \in 1 .. Len(g), NEW K,
           g[n].kind \in K
  PROVE  /\ WithNode(frame, n) \in FrameSet(w, g)
         /\ FrameFits(w, g, WithNode(frame, n), Valued(s, K), p)
         /\ WithNode(frame, n).rule = frame.rule
         /\ WithNode(frame, n).start = frame.start
<1> DEFINE new == WithNode(frame, n)
           I == 1 .. Len(h)
           J == 1 .. Len(g)
<1>1. FrameFits(w, g, frame, s, p)
  BY FrameStays
<1>2. /\ frame.rule \in DOMAIN Grammar \cup {NULL} /\ frame.got \in Seq(I)
      /\ frame.start \in 1 .. Len(w) + 1
  BY DEF FrameSet
<1>3. frame.got \in Seq(J)
  <2>1. I \subseteq J
    BY DEF Grown
  <2> HIDE DEF I, J
  <2> QED BY <1>2, <2>1
<1>4. new = [rule |-> frame.rule, val |-> n, got |-> frame.got,
             start |-> frame.start]
  BY DEF FrameSet, WithNode
<1>5. new \in FrameSet(w, g)
  <2> HIDE DEF new
  <2> QED BY <1>2, <1>3, <1>4 DEF FrameSet
<1> HIDE DEF new
<1>6. FrameFits(w, g, new, Valued(s, K), p)
  BY <1>1, <1>4 DEF FrameFits, Valued, State, KindIn
<1> QED BY <1>4, <1>5, <1>6 DEF new

(* A frame with one more attribute.                                        *)
LEMMA Regot ==
  ASSUME NEW w, NEW h, NEW g, Grown(h, g), NEW frame \in FrameSet(w, h), NEW s,
         NEW p,
         FrameFits(w, h, frame, s, p), NEW n \in 1 .. Len(g), NEW K,
           g[n].kind \in K
  PROVE  /\ WithOne(frame, n) \in FrameSet(w, g)
         /\ FrameFits(w, g, WithOne(frame, n), Pushed(s, K), p)
         /\ WithOne(frame, n).rule = frame.rule
         /\ WithOne(frame, n).start = frame.start
         /\ WithOne(frame, n).val = frame.val
<1> DEFINE new == WithOne(frame, n)
           I == 1 .. Len(h)
           J == 1 .. Len(g)
           got == Append(frame.got, n)
<1>1. FrameFits(w, g, frame, s, p)
  BY FrameStays
<1>2. /\ frame.rule \in DOMAIN Grammar \cup {NULL} /\ frame.got \in Seq(I)
      /\ frame.val \in I \cup {NULL}
      /\ frame.start \in 1 .. Len(w) + 1
  BY DEF FrameSet
<1>3. frame.got \in Seq(J) /\ frame.val \in J \cup {NULL} /\ n \in J
  <2>1. I \subseteq J /\ n \in J
    BY DEF Grown
  <2> HIDE DEF I, J, got, new
  <2>2. frame.got \in Seq(J)
    <3>1. frame.got \in Seq(I)
      BY <1>2
    <3>2. I \subseteq J
      BY <2>1
    <3> QED BY <3>1, <3>2
  <2>3. frame.val \in J \cup {NULL}
    BY <1>2, <2>1, Zenon
  <2> QED BY <2>1, <2>2, <2>3
<1>4. new = [rule |-> frame.rule, val |-> frame.val, got |-> got,
             start |-> frame.start]
  <2>1. new = [frame EXCEPT !.got = got]
    BY DEF WithOne
  <2> HIDE DEF new, got
  <2>2. [frame EXCEPT !.got = got] =
          [rule |-> frame.rule, val |-> frame.val, got |-> got,
           start |-> frame.start]
    BY DEF FrameSet
  <2> QED BY <2>1, <2>2
<1>5. got \in Seq(J)
  <2> HIDE DEF J
  <2> QED BY <1>3
<1>6. new \in FrameSet(w, g)
  <2> HIDE DEF new, got
  <2> QED BY <1>2, <1>3, <1>4, <1>5 DEF FrameSet
<1>7. /\ KindAt(g, got, 1) = KindIn(g, n)
      /\ KindAt(g, got, 2) = KindAt(g, frame.got, 1)
      /\ KindAt(g, got, 3) = KindAt(g, frame.got, 2)
  <2>1. Len(frame.got) \in Nat /\ Len(got) = Len(frame.got) + 1
        /\ got[Len(got)] = n /\ \A i \in 1 .. Len(frame.got) :
           got[i] = frame.got[i]
    <3> HIDE DEF J
    <3> QED BY <1>3
  <2> HIDE DEF got
  <2>2. PICK m \in Nat : m = Len(frame.got)
    BY <2>1
  <2>3. KindAt(g, got, 1) = KindIn(g, n)
    <3>1. Len(got) - 1 + 1 = Len(got) /\ 1 <= Len(got)
      BY <2>1
    <3> QED BY <2>1, <3>1 DEF KindAt
  <2>4. ASSUME NEW k \in 1 .. 2
        PROVE  KindAt(g, got, k + 1) = KindAt(g, frame.got, k)
    <3>1. CASE k <= m
      <4>1. m - k + 1 \in 1 .. m /\ Len(got) - (k + 1) + 1 = m - k + 1
            /\ k + 1 <= Len(got)
        BY <2>1, <2>2, <3>1
      <4>2. got[m - k + 1] = frame.got[m - k + 1]
        BY <2>1, <2>2, <4>1
      <4> QED BY <2>2, <3>1, <4>1, <4>2 DEF KindAt
    <3>2. CASE ~ (k <= m)
      BY <2>1, <2>2, <3>2 DEF KindAt
    <3> QED BY <3>1, <3>2
  <2> QED BY <2>3, <2>4
<1> HIDE DEF new, got
<1>8. KindIn(g, n) \in K
  BY DEF KindIn
<1>9. FrameFits(w, g, new, Pushed(s, K), p)
  BY <1>1, <1>4, <1>7, <1>8 DEF FrameFits, Pushed, State
<1> QED BY <1>4, <1>6, <1>9 DEF new

-----------------------------------------------------------------------------
(* A rule that begins, and what is behind it.                              *)
LEMMA CallRuns ==
  ASSUME NEW Q, NEW x, x.item = "rule", NEW B, NEW s, NEW D, NEW t,
         Local(Q, x, s, t), Below(s, s), IsSeq(B), IsSeq(D), Good(B, s, D),
         NEW q, IsSeq(q), Runs(q, B, t, D)
  PROVE  /\ x.rule \in DOMAIN Grammar /\ (x.inherits <=> x.rule = "exp_helper")
         /\ x.inherits => s.val \subseteq ReadExps
         /\ s.moved \/ MayBegin(s.rule, x.rule)
         /\ Runs(Append(Grammar[x.rule], [item |-> "return"]) \o q,
                 Append(B, s),
                 Begun(x.rule, x.inherits, s), D)
<1> DEFINE r == x.rule
           n == s.open
           back == [item |-> "return"]
           b == Begun(r, x.inherits, s)
           C == Append(B, s)
<1>1. RuleStep(r, x.inherits, s, t)
  BY DEF Local
<1>2. r \in DOMAIN Grammar /\ (x.inherits <=> r = "exp_helper") /\ n \in Nat
        /\ (n = 0 <=> r = "circuit") /\ s.slack = Slack(n)
        /\ Below(Called(s, r), t)
  BY <1>1 DEF RuleStep, Below, Slack
<1>3. PICK P : Closed(P) /\ Path(P, Grammar[r], Entry(r, n), Exit(r, n))
  BY <1>2, GrammarFits DEF Has
<1>4. Below(b, Entry(r, n))
  BY <1>1, <1>2 DEF RuleStep, Begun, Entry, Below, State, Slack
<1>5. /\ Len(B) \in Nat /\ IsSeq(C) /\ Len(C) = Len(B) + 1 /\ C[Len(B) + 1] = s
      /\ Front(C) = B
  <2>1. /\ IsSeq(C) /\ Len(B) \in Nat /\ Len(C) = Len(B) + 1
        /\ \A i \in 1 .. Len(B) : C[i] = B[i]
        /\ C[Len(B) + 1] = s
    BY SeqLonger
  <2> HIDE DEF C
  <2>2. C # <<>> /\ Len(C) - 1 = Len(B)
    BY <2>1
  <2>7. /\ IsSeq(Front(C)) /\ Len(Front(C)) = Len(C) - 1
        /\ \A i \in 1 .. Len(C) - 1 : Front(C)[i] = C[i]
    BY <2>1, <2>2, SeqFront
  <2>3. /\ IsSeq(Front(C)) /\ Len(Front(C)) = Len(B)
        /\ \A i \in 1 .. Len(B) : Front(C)[i] = C[i]
    BY <2>2, <2>7
  <2>4. \A i \in 1 .. Len(B) : Front(C)[i] = B[i]
    BY <2>1, <2>3
  <2> DEFINE f == Front(C)
  <2>5. IsSeq(f) /\ Len(f) = Len(B) /\ \A i \in 1 .. Len(f) : f[i] = B[i]
    BY <2>3, <2>4
  <2> HIDE DEF f
  <2>6. f = B
    BY <2>5, SameEntries
  <2> QED BY <2>1, <2>6 DEF f
<1> HIDE DEF C
<1>6. Step(back, C, Exit(r, n), D, B, Called(s, r), D)
  <2>1. \A i \in 1 .. Len(D) : D[i].depth <= Len(C)
    BY <1>5 DEF Good
  <2> DEFINE e == Exit(r, n)
  <2>2. /\ e.val = RuleKinds(r) /\ e.rule = r /\ (e.moved \/ r = "exp_helper")
        /\ e.open = n /\ e.slack = Slack(n)
    BY DEF Exit, State
  <2>3. C[Len(C)] = s /\ Len(C) >= 1
    BY <1>5
  <2> HIDE DEF e, r
  <2>4. ReturnStep(C, e, D, B, Called(s, r), D)
    BY <1>2, <1>5, <2>1, <2>2, <2>3 DEF ReturnStep, Slack, Below
  <2> QED BY <2>4 DEF Step, e
<1>7. Runs(q, B, Called(s, r), D)
  BY <1>2, RunsBelow
<1>8. Below(Exit(r, n), Exit(r, n))
  BY <1>2 DEF Below, Exit, State, Slack
<1>9. Runs(<<back>> \o q, C, Exit(r, n), D)
  <2> HIDE DEF back
  <2> QED BY <1>6, <1>7, <1>8, RunsBefore
<1>10. Runs(Grammar[r] \o (<<back>> \o q), C, Entry(r, n), D)
  <2> HIDE DEF back
  <2> QED BY <1>3, <1>9, RunsPath
<1>11. IsSeq(Grammar[r])
  BY <1>3 DEF Path
<1>12. Append(Grammar[r], back) \o q = Grammar[r] \o (<<back>> \o q)
  <2>1. JoinsWith(Grammar[r], back, q)
    <3> HIDE DEF back, r
    <3> QED BY <1>2, <1>11, AppendJoins
  <2> QED BY <2>1 DEF JoinsWith
<1>13. Runs(Append(Grammar[r], back) \o q, C, b, D)
  BY <1>4, <1>10, <1>12, RunsBelow
<1> QED BY <1>1, <1>2, <1>13 DEF RuleStep, C

(* The kinds of no attribute and of one.                                   *)
LEMMA KindOne ==
  ASSUME NEW h, NEW v
  PROVE  /\ \A k \in 1 .. 3 : KindAt(h, <<>>, k) = "none"
         /\ KindAt(h, <<>>, 1) = "none" /\ KindAt(h, <<>>, 2) = "none"
         /\ KindAt(h, <<>>, 3) = "none"
         /\ KindAt(h, <<v>>, 1) = KindIn(h, v)
         /\ KindAt(h, <<v>>, 2) = "none" /\ KindAt(h, <<v>>, 3) = "none"
<1> DEFINE f == <<v>>
<1>1. Len(f) = 1 /\ f[1] = v
  OBVIOUS
<1> HIDE DEF f
<1>2. /\ KindAt(h, f, 1) = KindIn(h, v)
      /\ KindAt(h, f, 2) = "none" /\ KindAt(h, f, 3) = "none"
  BY <1>1 DEF KindAt
<1>3. \A k \in 1 .. 3 : KindAt(h, <<>>, k) = "none"
  BY DEF KindAt
<1> QED BY <1>2, <1>3 DEF f

(* A rule is called: its items run in its own frame, and behind them what  *)
(* was left runs in the frame below.                                       *)
LEMMA CallPlace ==
  ASSUME NEW w, NEW h, NEW q, NEW F, NEW p, NEW ch, Shapes(w, h, F, p, ch),
         Place(w, h, q, F, p, ch), q # <<>>, Head(q).item = "rule",
         NEW new, new = Frame(Head(q).rule, IF Head(q).inherits
                              THEN F[Len(F)].val
                                            ELSE NULL, p)
  PROVE  /\ Head(q).rule \in DOMAIN Grammar /\ new \in FrameSet(w, h)
         /\ F[Len(F)].start < p \/ MayBegin(F[Len(F)].rule, Head(q).rule)
         /\ Place(w, h, Append(Grammar[Head(q).rule], [item |-> "return"])
                  \o Tail(q),
                  Append(F, new), p, ch)
<1>1. PICK B, s, D, t, Q : /\ Holds(w, h, F, p, ch, B, s, D)
                           /\ Closed(Q) /\ Local(Q, Head(q), s, t)
                           /\ Below(s, s) /\ Below(t, t)
                           /\ IsSeq(Tail(q)) /\ Runs(Tail(q), B, t, D)
  BY ItemStep
<1> DEFINE x == Head(q)
           r == x.rule
           b == Begun(r, x.inherits, s)
           m == Len(B) + 1
           C == Append(B, s)
           G == Append(F, new)
           a == Append(Grammar[r], [item |-> "return"]) \o Tail(q)
           kind == KindIn(h, new.val)
<1>2. /\ r \in DOMAIN Grammar /\ (x.inherits <=> r = "exp_helper")
      /\ x.inherits => s.val \subseteq ReadExps
      /\ s.moved \/ MayBegin(s.rule, r)
      /\ Runs(a, C, b, D)
  BY <1>1, CallRuns DEF Holds
<1> HIDE DEF a
<1>3. /\ IsSeq(B) /\ Len(B) \in Nat /\ IsSeq(D) /\ Len(D) \in Nat
      /\ Len(F) = m /\ Len(D) = Len(ch) /\ m \in Nat
      /\ FrameFits(w, h, F[m], s, p)
  BY <1>1 DEF Holds, StackFits, Told, IsSeq
<1>4. /\ IsSeq(C) /\ Len(C) = m
      /\ \A i \in 1 .. Len(B) : C[i] = B[i]
      /\ C[m] = s
  BY <1>3, SeqLonger
<1> HIDE DEF C
<1>5. F[m] \in FrameSet(w, h) /\ p \in 1 .. Len(w) + 1 /\ Len(h) \in Nat
  <2>1. F \in Seq(FrameSet(w, h)) /\ m \in 1 .. Len(F)
    BY <1>3 DEF Shapes
  <2>2. F[m] \in FrameSet(w, h)
    BY <2>1
  <2> QED BY <2>2 DEF Shapes, Grown
<1>6. x.inherits => /\ F[m].val \in 1 .. Len(h)
                    /\ KindIn(h, F[m].val) \in s.val
  <2>1. x.inherits => "none" \notin s.val
    BY <1>2, KindSets
  <2>2. KindIn(h, F[m].val) \in s.val
    BY <1>3 DEF FrameFits
  <2> QED BY <2>1, <2>2 DEF KindIn
<1>7. NULL \notin Nat /\ NULL \notin DOMAIN Grammar
  BY InputsAssumption
<1>8. /\ new.rule = r /\ new.start = p
      /\ new.val = IF x.inherits THEN F[m].val ELSE NULL
      /\ new.got = IF new.val = NULL THEN <<>> ELSE <<new.val>>
      /\ new = [rule |-> new.rule, val |-> new.val, got |-> new.got,
                start |-> new.start]
  BY <1>3 DEF Frame
<1>9. new.val \in 1 .. Len(h) \cup {NULL} /\ new.got \in Seq(1 .. Len(h))
  <2> DEFINE I == 1 .. Len(h)
             v == new.val
  <2>1. v \in I \cup {NULL}
    BY <1>6, <1>8
  <2>2. v # NULL => v \in I
    BY <2>1
  <2> HIDE DEF I, v
  <2>3. <<>> \in Seq(I) /\ (v \in I => <<v>> \in Seq(I))
    OBVIOUS
  <2>4. new.got = IF v = NULL THEN <<>> ELSE <<v>>
    BY <1>8 DEF v
  <2>5. new.got \in Seq(I)
    BY <2>2, <2>3, <2>4
  <2> QED BY <2>1, <2>5 DEF I, v
<1>10. new \in FrameSet(w, h)
  <2>1. new.rule \in DOMAIN Grammar /\ new.start \in 1 .. Len(w) + 1
    BY <1>2, <1>5, <1>8
  <2> HIDE DEF r
  <2> QED BY <1>8, <1>9, <2>1 DEF FrameSet
<1>11. FrameFits(w, h, new, b, p)
  <2>1. KindIn(h, NULL) = "none"
    BY <1>5, <1>7 DEF KindIn
  <2>2. kind \in b.val
    BY <1>6, <1>8, <2>1 DEF Begun, State
  <2>8. /\ KindAt(h, <<>>, 1) = "none" /\ KindAt(h, <<>>, 2) = "none"
        /\ KindAt(h, <<>>, 3) = "none"
        /\ KindAt(h, <<new.val>>, 1) = kind
        /\ KindAt(h, <<new.val>>, 2) = "none"
        /\ KindAt(h, <<new.val>>, 3) = "none"
    BY KindOne
  <2>3. KindAt(h, new.got, 1) \in b.last
    <3>1. CASE new.val = NULL
      <4>1. KindAt(h, new.got, 1) = "none" /\ ~ x.inherits
        <5>1. ~ x.inherits
          <6>1. 1 .. Len(h) \subseteq Nat
            BY <1>5
          <6> QED BY <1>6, <1>7, <1>8, <3>1, <6>1
        <5>2. new.got = <<>>
          BY <1>8, <3>1
        <5> QED BY <2>8, <5>1, <5>2
      <4> QED BY <4>1 DEF Begun, State, Unknown
    <3>2. CASE new.val # NULL
      <4>1. KindAt(h, new.got, 1) = kind /\ x.inherits
        <5>1. x.inherits
          BY <1>8, <3>2
        <5>2. new.got = <<new.val>>
          BY <1>8, <3>2
        <5> QED BY <2>8, <5>1, <5>2
      <4> QED BY <1>6, <1>8, <4>1 DEF Begun, State
    <3> QED BY <3>1, <3>2
  <2>4. KindAt(h, new.got, 2) = "none" /\ KindAt(h, new.got, 3) = "none"
    <3>1. new.got = <<>> \/ new.got = <<new.val>>
      BY <1>8
    <3> QED BY <2>8, <3>1
  <2>5. "none" \in Unknown
    BY DEF Unknown
  <2>6. b.open = s.open /\ s.open = Opened(w, p) /\ ~ b.moved /\ b.rule = r
        /\ b.second = Unknown /\ b.third = Unknown
    BY <1>3 DEF Begun, State, FrameFits
  <2>7. new.start <= p
    BY <1>5, <1>8
  <2> HIDE DEF b, r
  <2> QED BY <1>8, <2>2, <2>3, <2>4, <2>5, <2>6, <2>7 DEF FrameFits
<1>12. F[m].start < p \/ MayBegin(F[m].rule, r)
  BY <1>2, <1>3 DEF FrameFits
<1>13. /\ G \in Seq(FrameSet(w, h)) /\ Len(G) = m + 1 /\ G[m + 1] = new
       /\ \A j \in 1 .. m : G[j] = F[j]
  <2>1. F \in Seq(FrameSet(w, h))
    BY DEF Shapes
  <2> DEFINE S == FrameSet(w, h)
  <2> HIDE DEF S
  <2>2. F \in Seq(S) /\ new \in S
    BY <1>10, <2>1 DEF S
  <2>3. G \in Seq(S) /\ Len(G) = m + 1 /\ G[m + 1] = new
        /\ \A j \in 1 .. m : G[j] = F[j]
    BY <1>3, <2>2
  <2> QED BY <2>3 DEF S
<1> HIDE DEF G
<1>14. Good(C, b, D)
  <2>1. b.slack = s.slack
    BY DEF Begun, State
  <2>2. ASSUME NEW i \in 1 .. Len(D)
        PROVE  /\ D[i].depth \in 1 .. Len(C) + 1
               /\ D[i].strict => IsKept(C, b, D[i].depth)
    <3>1. D[i].depth \in 1 .. m /\ (D[i].strict => IsKept(B, s, D[i].depth))
      BY <1>1 DEF Holds, Good
    <3>2. IsKept(C, b, D[i].depth) = IsKept(B, s, D[i].depth)
      BY <1>3, <1>4, <3>1 DEF IsKept
    <3> QED BY <1>3, <1>4, <3>1, <3>2
  <2>3. s.slack = 0 => D = <<>>
    BY <1>1 DEF Holds, Good
  <2> HIDE DEF b
  <2> QED BY <2>1, <2>2, <2>3 DEF Good
<1>15. StackFits(w, h, G, C, b, p)
  <2>1. ASSUME NEW j \in 1 .. m
        PROVE  FrameFits(w, h, G[j], C[j], G[j + 1].start)
    <3>1. CASE j = m
      BY <1>3, <1>4, <1>8, <1>13, <3>1
    <3>2. CASE j # m
      <4>1. j \in 1 .. Len(B) /\ j + 1 \in 1 .. m
        BY <1>3, <3>2
      <4>2. FrameFits(w, h, F[j], B[j], F[j + 1].start)
        BY <1>1, <4>1 DEF Holds, StackFits
      <4> QED BY <1>4, <1>13, <4>1, <4>2
    <3> QED BY <3>1, <3>2
  <2> HIDE DEF b
  <2> QED BY <1>3, <1>4, <1>11, <1>13, <2>1 DEF StackFits
<1>16. Calm(b, D, ch, p)
  <2>1. b.slack = s.slack
    BY DEF Begun, State
  <2> QED BY <1>1, <2>1 DEF Calm, Holds
<1>17. \A i \in 1 .. Len(ch) : Saved(w, h, G, ch, D, i)
  <2>1. SameChoices(ch, ch, D, D, Len(ch))
    BY <1>3 DEF SameChoices
  <2>2. AllUntouched(F, G, ch, D, Len(ch))
    <3>1. \A i \in 1 .. Len(ch) : ch[i].depth \in 1 .. m
      BY <1>3 DEF Shapes, ChoicesFine
    <3>2. m <= Len(F) /\ m <= Len(G) /\ Len(F) \in Nat /\ Len(G) \in Nat
      BY <1>3, <1>13
    <3>3. SameUpTo(F, G, m)
      BY <1>3, <1>13 DEF SameUpTo
    <3> HIDE DEF m
    <3> QED BY <1>3, <3>1, <3>2, <3>3, Kept
  <2> QED BY <1>1, <1>13, <2>1, <2>2, SavedStay DEF Shapes, Holds
<1>18. \A i \in 1 .. Pending(a, ch) : Saved(w, h, G, ch, D, i)
  <2>1. Pending(a, ch) \in Int /\ Pending(a, ch) <= Len(ch)
    BY <1>3 DEF Pending
  <2> QED BY <1>3, <1>17, <2>1
<1>19. Place(w, h, a, G, p, ch)
  <2> HIDE DEF b
  <2> QED BY <1>1, <1>2, <1>3, <1>4, <1>14, <1>15, <1>16, <1>18
      DEF Place, Stands, Holds
<1> QED BY <1>2, <1>3, <1>10, <1>12, <1>19 DEF a, G

-----------------------------------------------------------------------------
(* The frames of the rules that are left when one has ended.               *)
Ended(F) == [Front(F) EXCEPT ![Len(F) - 1].got = Append(@, F[Len(F)].val)]

(* The frames without the last, whose node the one below it got.           *)
LEMMA EndedFrames ==
  ASSUME NEW w, NEW h, NEW F \in Seq(FrameSet(w, h)), NEW m \in Nat \ {0},
         Len(F) = m + 1, Grown(h, h), F[m + 1].val \in 1 .. Len(h)
  PROVE  /\ Ended(F) \in Seq(FrameSet(w, h)) /\ Len(Ended(F)) = m
         /\ SameUpTo(F, Ended(F), m)
         /\ Ended(F)[m] = WithOne(F[m], F[m + 1].val)
<1> DEFINE S == FrameSet(w, h)
           G == Front(F)
           old == F[m]
           new == WithOne(old, F[m + 1].val)
<1>1. /\ G \in Seq(S) /\ Len(G) = m /\ \A j \in 1 .. m : G[j] = F[j]
  <2> HIDE DEF S
  <2>1. F \in Seq(S)
    BY DEF S
  <2>2. F # <<>> /\ IsSeq(F) /\ Len(F) - 1 = m
    BY <2>1 DEF IsSeq
  <2>3. /\ G = SubSeq(F, 1, Len(F) - 1) /\ Len(G) = Len(F) - 1
        /\ \A j \in 1 .. Len(F) - 1 : G[j] = F[j]
    BY <2>2, SeqFront
  <2> HIDE DEF G
  <2>4. SubSeq(F, 1, m) \in Seq(S)
    BY <2>1
  <2> QED BY <2>2, <2>3, <2>4
<1>2. old \in S /\ m \in 1 .. m
  <2> HIDE DEF S
  <2> QED BY DEF S
<1>3. /\ new \in S /\ new.rule = old.rule /\ new.start = old.start
      /\ new.val = old.val
  <2> DEFINE I == 1 .. Len(h)
             got == Append(old.got, F[m + 1].val)
  <2>1. old.got \in Seq(I)
    BY <1>2 DEF FrameSet
  <2>2. got \in Seq(I)
    <3>1. F[m + 1].val \in I
      OBVIOUS
    <3> HIDE DEF I, old
    <3> QED BY <2>1, <3>1
  <2>3. new = [old EXCEPT !.got = got]
    BY DEF WithOne
  <2> HIDE DEF new, got
  <2>4. [old EXCEPT !.got = got] \in S
        /\ [old EXCEPT !.got = got].rule = old.rule
        /\ [old EXCEPT !.got = got].start = old.start
        /\ [old EXCEPT !.got = got].val = old.val
    BY <1>2, <2>2 DEF FrameSet
  <2> QED BY <2>3, <2>4
<1>4. Ended(F) = [G EXCEPT ![m] = new]
  <2>1. Len(F) - 1 = m /\ G[m] = old
    BY <1>1, <1>2
  <2> HIDE DEF G, old
  <2>2. [G EXCEPT ![m] = [G[m] EXCEPT !.got = Append(@, F[m + 1].val)]]
        = [G EXCEPT ![m] = new]
    BY <2>1 DEF WithOne
  <2> QED BY <2>1, <2>2 DEF Ended, G
<1> HIDE DEF G, new, S
<1>5. /\ [G EXCEPT ![m] = new] \in Seq(S) /\ Len([G EXCEPT ![m] = new]) = m
      /\ [G EXCEPT ![m] = new][m] = new
      /\ \A j \in 1 .. m : j # m => [G EXCEPT ![m] = new][j] = G[j]
  <2>1. m \in 1 .. Len(G)
    BY <1>1
  <2> QED BY <1>1, <1>3, <2>1, Replaced
<1>6. SameUpTo(F, Ended(F), m)
  <2>1. \A j \in 1 .. m - 1 : Ended(F)[j] = F[j]
    BY <1>1, <1>4, <1>5
  <2>2. ASSUME NEW j \in 1 .. m
        PROVE  /\ Ended(F)[j].rule = F[j].rule
               /\ Ended(F)[j].start = F[j].start
               /\ Ended(F)[j].val = F[j].val
    <3>1. CASE j = m
      BY <1>3, <1>4, <1>5, <3>1
    <3>2. CASE j # m
      BY <2>1, <3>2
    <3> QED BY <3>1, <3>2
  <2> QED BY <2>1, <2>2 DEF SameUpTo
<1>7. Ended(F) \in Seq(S) /\ Len(Ended(F)) = m /\ Ended(F)[m] = new
  BY <1>4, <1>5
<1> QED BY <1>6, <1>7 DEF S, new

(* A rule returns: it has a node by then, no choice goes back into it, and *)
(* what is left runs in the frame below.                                   *)
LEMMA ReturnPlace ==
  ASSUME NEW w, NEW h, NEW q, NEW F, NEW p, NEW ch, Shapes(w, h, F, p, ch),
         Place(w, h, q, F, p, ch), q # <<>>, Head(q).item = "return"
  PROVE  /\ Len(F) >= 2 /\ F[Len(F)].val \in 1 .. Len(h)
         /\ \A i \in 1 .. Len(ch) : ch[i].depth \in 1 .. Len(F) - 1
         /\ Place(w, h, Tail(q), Ended(F), p, ch)
<1>1. PICK B, s, D, A, t, E : /\ Holds(w, h, F, p, ch, B, s, D)
                              /\ Step(Head(q), B, s, D, A, t, E)
                              /\ Runs(Tail(q), A, t, E)
  BY NextItem
<1> DEFINE m == Len(B)
           below == B[m]
           a == Tail(q)
<1>2. ReturnStep(B, s, D, A, t, E)
  BY <1>1 DEF Step
<1>3. /\ IsSeq(B) /\ m \in Nat /\ IsSeq(D) /\ Len(D) \in Nat
      /\ Len(F) = m + 1 /\ Len(D) = Len(ch) /\ m >= 1
      /\ FrameFits(w, h, F[m + 1], s, p)
      /\ FrameFits(w, h, F[m], below, F[m + 1].start)
  <2>1. IsSeq(B) /\ IsSeq(D) /\ Told(ch, D) /\ StackFits(w, h, F, B, s, p)
    BY <1>1 DEF Holds
  <2>2. m \in Nat /\ Len(D) \in Nat
    BY <2>1 DEF IsSeq
  <2>3. m >= 1
    BY <1>2 DEF ReturnStep
  <2>4. Len(D) = Len(ch)
    BY <2>1 DEF Told
  <2>5. /\ Len(F) = m + 1 /\ FrameFits(w, h, F[m + 1], s, p)
        /\ \A j \in 1 .. m : FrameFits(w, h, F[j], B[j], F[j + 1].start)
    BY <2>1 DEF StackFits
  <2>6. m \in 1 .. m
    BY <2>2, <2>3
  <2> QED BY <2>1, <2>2, <2>3, <2>4, <2>5, <2>6
<1>4. /\ s.val \subseteq RuleKinds(s.rule) /\ s.rule \in DOMAIN Grammar
      /\ (s.moved \/ s.rule = "exp_helper")
      /\ s.open = below.open /\ s.slack <= below.slack
      /\ s.slack \in Nat /\ below.slack \in Nat
      /\ \A i \in 1 .. Len(D) : D[i].depth <= m
      /\ A = Front(B) /\ t = Called(below, s.rule) /\ E = D
  BY <1>2 DEF ReturnStep
<1>5. /\ F \in Seq(FrameSet(w, h)) /\ Grown(h, h)
      /\ F[m] \in FrameSet(w, h) /\ F[m + 1] \in FrameSet(w, h)
      /\ F[m].start \in Nat /\ F[m + 1].start \in Nat /\ p \in Nat
  <2>1. F \in Seq(FrameSet(w, h)) /\ Grown(h, h) /\ p \in Nat
    BY DEF Shapes
  <2>2. m \in 1 .. Len(F) /\ m + 1 \in 1 .. Len(F)
    BY <1>3
  <2>3. F[m] \in FrameSet(w, h) /\ F[m + 1] \in FrameSet(w, h)
    BY <2>1, <2>2
  <2>4. \A f \in FrameSet(w, h) : f.start \in Nat
    BY DEF FrameSet
  <2> QED BY <2>1, <2>3, <2>4
<1>6. F[m + 1].val \in 1 .. Len(h) /\ h[F[m + 1].val].kind
      \in RuleKinds(s.rule)
  <2>1. "none" \notin RuleKinds(s.rule)
    BY <1>4, RuleNames, KindSets DEF RuleKinds
  <2>2. KindIn(h, F[m + 1].val) \in RuleKinds(s.rule)
    BY <1>3, <1>4 DEF FrameFits
  <2> QED BY <2>1, <2>2, KindMade
<1>19. PICK G : G = Ended(F)
  OBVIOUS
<1>7. /\ G \in Seq(FrameSet(w, h)) /\ Len(G) = m /\ SameUpTo(F, G, m)
      /\ G[m] = WithOne(F[m], F[m + 1].val)
  <2>1. m \in Nat \ {0}
    BY <1>3
  <2>2. /\ Len(F) = m + 1 /\ F \in Seq(FrameSet(w, h)) /\ Grown(h, h)
        /\ F[m + 1].val \in 1 .. Len(h)
    BY <1>3, <1>5, <1>6
  <2> HIDE DEF m
  <2> QED BY <1>19, <2>1, <2>2, EndedFrames
<1>8. FrameFits(w, h, G[m], t, p)
  <2> DEFINE n == F[m + 1].val
             K == RuleKinds(s.rule)
  <2>1. FrameFits(w, h, G[m], Pushed(below, K), F[m + 1].start)
    <3>1. /\ FrameFits(w, h, F[m], below, F[m + 1].start)
          /\ F[m] \in FrameSet(w, h)
          /\ Grown(h, h) /\ n \in 1 .. Len(h) /\ h[n].kind \in K
      BY <1>3, <1>5, <1>6
    <3>2. G[m] = WithOne(F[m], n)
      BY <1>7
    <3> DEFINE f == F[m]
               o == F[m + 1].start
    <3> HIDE DEF below, K, n, m, f, o
    <3>3. FrameFits(w, h, f, below, o) /\ f \in FrameSet(w, h)
      BY <3>1 DEF f, o
    <3>4. FrameFits(w, h, WithOne(f, n), Pushed(below, K), o)
      BY <3>1, <3>3, Regot
    <3> QED BY <3>2, <3>4 DEF f, o
  <2>2. G[m].start = F[m].start /\ F[m].start <= F[m + 1].start
        /\ F[m + 1].start <= p
    BY <1>3, <1>7 DEF FrameFits, SameUpTo
  <2>3. t.moved => F[m].start < p
    <3>1. CASE s.moved
      <4>1. F[m + 1].start < p
        BY <1>3, <3>1 DEF FrameFits
      <4> QED BY <1>5, <2>2, <4>1
    <3>2. CASE s.rule = "exp_helper"
      <4>1. t.moved = below.moved
        BY <1>4, <3>2 DEF Called, State
      <4>2. below.moved => F[m].start < F[m + 1].start
        BY <1>3 DEF FrameFits
      <4> QED BY <1>5, <2>2, <4>1, <4>2
    <3> QED BY <1>4, <3>1, <3>2
  <2>4. t.open = Opened(w, p)
    BY <1>3, <1>4 DEF FrameFits, Called, State
  <2>5. F[m].start <= p
    BY <1>5, <2>2
  <2> QED BY <1>4, <2>1, <2>2, <2>3, <2>4, <2>5
      DEF FrameFits, Pushed, Called, State
<1>9. /\ IsSeq(A) /\ Len(A) = m - 1 /\ \A j \in 1 .. m - 1 : A[j] = B[j]
  <2>1. B # <<>>
    BY <1>3
  <2> QED BY <1>3, <1>4, <2>1, SeqFront
<1>10. StackFits(w, h, G, A, t, p)
  <2>1. ASSUME NEW j \in 1 .. m - 1
        PROVE  FrameFits(w, h, G[j], A[j], G[j + 1].start)
    <3>1. j \in 1 .. m /\ j < m /\ j + 1 \in 1 .. m
      BY <1>3
    <3>2. FrameFits(w, h, F[j], B[j], F[j + 1].start)
      BY <1>1, <3>1 DEF Holds, StackFits
    <3>3. G[j] = F[j] /\ G[j + 1].start = F[j + 1].start
      BY <1>7, <3>1 DEF SameUpTo
    <3> QED BY <1>9, <3>1, <3>2, <3>3
  <2> QED BY <1>3, <1>7, <1>8, <1>9, <2>1 DEF StackFits
<1>11. t.slack = below.slack /\ t.kept = below.kept
  BY <1>4 DEF Called, State
<1>13. Good(A, t, D)
  <2>1. t.slack = 0 => D = <<>>
    BY <1>1, <1>4, <1>11 DEF Holds, Good, Below
  <2>2. ASSUME NEW i \in 1 .. Len(D)
        PROVE  /\ D[i].depth \in 1 .. Len(A) + 1
               /\ D[i].strict => IsKept(A, t, D[i].depth)
    <3>1. D[i].depth \in 1 .. m + 1 /\ (D[i].strict
                                        => IsKept(B, s, D[i].depth))
      BY <1>1 DEF Holds, Good
    <3>2. D[i].depth \in 1 .. m
      BY <1>3, <1>4, <3>1
    <3>3. IsKept(A, t, D[i].depth) = IsKept(B, s, D[i].depth)
      BY <1>3, <1>9, <1>11, <3>2 DEF IsKept
    <3> QED BY <1>3, <1>9, <3>1, <3>2, <3>3
  <2> QED BY <2>1, <2>2 DEF Good
<1>14. Calm(t, D, ch, p)
  BY <1>1, <1>4, <1>11 DEF Calm, Holds
<1>15. \A i \in 1 .. Len(ch) : ch[i].depth \in 1 .. m
  <2> TAKE i \in 1 .. Len(ch)
  <2>1. ch[i].depth \in 1 .. Len(F) /\ D[i].depth = ch[i].depth
        /\ D[i].depth <= m
    BY <1>1, <1>3, <1>4 DEF Holds, Told, Shapes, ChoicesFine
  <2> QED BY <1>3, <2>1
<1>16. \A i \in 1 .. Len(ch) : Saved(w, h, G, ch, D, i)
  <2>1. SameChoices(ch, ch, D, D, Len(ch))
    BY <1>3 DEF SameChoices
  <2>2. AllUntouched(F, G, ch, D, Len(ch))
    <3>2. m <= Len(F) /\ m <= Len(G) /\ Len(F) \in Nat /\ Len(G) \in Nat
      BY <1>3, <1>7
    <3> HIDE DEF m
    <3> QED BY <1>3, <1>7, <1>15, <3>2, Kept
  <2> QED BY <1>1, <1>3, <1>5, <1>7, <2>1, <2>2, SavedStay DEF Shapes, Holds
<1>17. \A i \in 1 .. Pending(a, ch) : Saved(w, h, G, ch, D, i)
  <2>1. Pending(a, ch) \in Int /\ Pending(a, ch) <= Len(ch)
    BY <1>3 DEF Pending
  <2> QED BY <1>3, <1>16, <2>1
<1>18. Place(w, h, a, G, p, ch)
  BY <1>1, <1>3, <1>4, <1>9, <1>10, <1>13, <1>14, <1>17
     DEF Place, Stands, Holds
<1> QED BY <1>3, <1>6, <1>15, <1>18, <1>19

-----------------------------------------------------------------------------
(***************************************************************************)
(* What a choice goes back to: the items a, with the frames as they are.   *)
(***************************************************************************)
Behind(w, h, F, p, ch, B, D, a, keep) ==
  \E u : /\ Runs(a, B, u, D) /\ Good(B, u, D) /\ Calm(u, D, ch, p)
         /\ FrameFits(w, h, F[Len(F)], u, p)
         /\ keep \/ Unknown \subseteq u.val

Try(depth, keep) == [depth |-> depth, strict |-> keep]

(* Where a choice has begun.                                               *)
Ahead(w, h, F, p, B, s, D, r, keep) ==
  \E v : /\ Runs(r, B, v, Append(D, Try(Len(F), keep)))
         /\ FrameFits(w, h, F[Len(F)], v, p)
         /\ (s.kept => v.kept) /\ (keep => v.kept)
         /\ v.slack # 0 /\ (v.slack <= 1 => s.slack <= 1)

(* A choice that goes back to here can match, if what it goes on with can. *)
LEMMA SavedLast ==
  ASSUME NEW w, NEW h, NEW F, NEW p, NEW ch, Shapes(w, h, F, p, ch),
         NEW B, NEW s, NEW D, Holds(w, h, F, p, ch, B, s, D),
         NEW c, c.pos = p, c.depth = Len(F), c.got = F[Len(F)].got,
         NEW keep \in BOOLEAN, Behind(w, h, F, p, ch, B, D, c.agenda, keep)
  PROVE  Saved(w, h, F, Append(ch, c), Append(D, Try(Len(F), keep)),
               Len(ch) + 1)
<1>1. PICK u : /\ Runs(c.agenda, B, u, D) /\ Good(B, u, D) /\ Calm(u, D, ch, p)
               /\ FrameFits(w, h, F[Len(F)], u, p)
               /\ keep \/ Unknown \subseteq u.val
  BY DEF Behind
<1>2. PICK co, E, k, n : /\ co = Append(ch, c)
                         /\ E = Append(D, Try(Len(F), keep))
                         /\ k = Len(ch) + 1 /\ n = Len(F)
  OBVIOUS
<1>3. /\ IsSeq(B) /\ Len(B) \in Nat /\ IsSeq(D) /\ Len(D) = Len(ch)
      /\ Len(ch) \in Nat
      /\ n = Len(B) + 1 /\ IsSeq(ch)
  BY <1>2 DEF Holds, StackFits, Told, IsSeq, Shapes, ChoicesFine
<1>4. /\ IsSeq(co) /\ Len(co) = k /\ co[k] = c
         /\ \A i \in 1 .. Len(ch) : co[i] = ch[i]
  BY <1>2, <1>3, SeqLonger
<1>5. E[k] = Try(Len(F), keep) /\ SubSeq(E, 1, k - 1) = D
  <2>1. E[k] = Try(Len(F), keep)
    BY <1>2, <1>3, SeqLonger
  <2>2. SubSeq(E, 1, Len(D)) = D /\ k - 1 = Len(D)
    BY <1>2, <1>3, CutLonger
  <2> QED BY <2>1, <2>2
<1>6. F \in Seq(FrameSet(w, h)) /\ n \in 1 .. Len(F) /\ F[n] \in FrameSet(w, h)
  <2>1. F \in Seq(FrameSet(w, h)) /\ n \in 1 .. Len(F)
    BY <1>2, <1>3 DEF Shapes
  <2> QED BY <2>1
<1>7. c.depth \in 1 .. Len(F) /\ c.got \in Seq(1 .. Len(h)) /\ c.depth = n
  <2>1. \A f \in FrameSet(w, h) : f.got \in Seq(1 .. Len(h))
    BY DEF FrameSet
  <2> QED BY <1>2, <1>6, <2>1
<1>8. PICK R2 : R2 = Restored(F, c)
  OBVIOUS
<1>9. /\ Len(R2) = n /\ \A j \in 1 .. n - 1 : R2[j] = F[j]
      /\ R2[n].rule = F[n].rule /\ R2[n].val = F[n].val
      /\ R2[n].start = F[n].start /\ R2[n].got = F[n].got
  <2>1. /\ Len(R2) = c.depth /\ \A j \in 1 .. c.depth - 1 : R2[j] = F[j]
        /\ R2[c.depth].rule = F[c.depth].rule
        /\ R2[c.depth].val = F[c.depth].val
        /\ R2[c.depth].start = F[c.depth].start /\ R2[c.depth].got = c.got
    <3>1. /\ Len(Restored(F, c)) = c.depth
          /\ \A j \in 1 .. c.depth - 1 : Restored(F, c)[j] = F[j]
          /\ Restored(F, c)[c.depth].rule = F[c.depth].rule
          /\ Restored(F, c)[c.depth].val = F[c.depth].val
          /\ Restored(F, c)[c.depth].start = F[c.depth].start
          /\ Restored(F, c)[c.depth].got = c.got
      <4>1. F \in Seq(FrameSet(w, h)) /\ c.depth \in 1 .. Len(F)
            /\ c.got \in Seq(1 .. Len(h))
        BY <1>6, <1>7
      <4> QED BY <4>1, RestoredFrames
    <3> QED BY <1>8, <3>1, Zenon
  <2> QED BY <1>2, <1>7, <2>1
<1>10. StackFits(w, h, R2, B, u, p)
  <2>1. FrameFits(w, h, R2[n], u, p)
    BY <1>1, <1>2, <1>9 DEF FrameFits
  <2>2. ASSUME NEW j \in 1 .. Len(B)
        PROVE  FrameFits(w, h, R2[j], B[j], R2[j + 1].start)
    <3>1. j \in 1 .. n - 1 /\ (j + 1 \in 1 .. n - 1 \/ j + 1 = n)
      BY <1>3
    <3>2. R2[j] = F[j] /\ R2[j + 1].start = F[j + 1].start
      BY <1>9, <3>1
    <3>3. FrameFits(w, h, F[j], B[j], F[j + 1].start)
      BY DEF Holds, StackFits
    <3> QED BY <3>2, <3>3
  <2> QED BY <1>3, <1>9, <2>1, <2>2 DEF StackFits
<1>11. Calm(u, D, co, p)
  BY <1>1, <1>3, <1>4 DEF Calm
<1>12. Stands(w, h, c.agenda, R2, c.pos, co, B, u, D)
  BY <1>1, <1>3, <1>10, <1>11 DEF Stands
<1>13. E[k].strict = keep
  BY <1>5 DEF Try
<1>14. Saved(w, h, F, co, E, k)
  <2>1. /\ Stands(w, h, co[k].agenda, Restored(F, co[k]), co[k].pos, co, B, u,
                  SubSeq(E, 1, k - 1))
        /\ E[k].strict \/ Unknown \subseteq u.val
    BY <1>1, <1>4, <1>5, <1>8, <1>12, <1>13
  <2> QED BY <2>1 DEF Saved
<1> QED BY <1>2, <1>14

(* What is left can match with one choice more.                            *)
LEMMA AddedPlace ==
  ASSUME NEW w, NEW h, NEW F, NEW p, NEW ch, Shapes(w, h, F, p, ch),
         NEW B, NEW s, NEW D, Holds(w, h, F, p, ch, B, s, D),
         NEW c, c.pos = p, c.depth = Len(F), c.got = F[Len(F)].got,
         NEW keep \in BOOLEAN, NEW r, Ahead(w, h, F, p, B, s, D, r, keep),
         \/ Behind(w, h, F, p, ch, B, D, c.agenda, keep)
         \/ r # <<>> /\ Head(r).item = "commit"
  PROVE  Place(w, h, r, F, p, Append(ch, c))
<1>1. PICK co, E, k, n : /\ co = Append(ch, c)
                         /\ E = Append(D, Try(Len(F), keep))
                         /\ k = Len(ch) + 1 /\ n = Len(F)
  OBVIOUS
<1>2. PICK v : /\ Runs(r, B, v, E)
               /\ FrameFits(w, h, F[n], v, p)
               /\ (s.kept => v.kept) /\ (keep => v.kept)
               /\ v.slack # 0 /\ (v.slack <= 1 => s.slack <= 1)
  BY <1>1 DEF Ahead
<1>3. /\ IsSeq(B) /\ Len(B) \in Nat /\ IsSeq(D) /\ Len(D) = Len(ch)
      /\ Len(ch) \in Nat
      /\ n = Len(B) + 1 /\ IsSeq(ch)
  BY <1>1 DEF Holds, StackFits, Told, IsSeq, Shapes, ChoicesFine
<1>4. /\ IsSeq(co) /\ Len(co) = k /\ co[k] = c
         /\ \A i \in 1 .. Len(ch) : co[i] = ch[i]
  BY <1>1, <1>3, SeqLonger
<1>5. /\ IsSeq(E) /\ Len(E) = k /\ E[k] = Try(n, keep)
         /\ \A i \in 1 .. Len(ch) : E[i] = D[i]
  BY <1>1, <1>3, SeqLonger
<1>6. E[k].depth = n /\ E[k].strict = keep
  BY <1>5 DEF Try
<1>7. Told(co, E)
  <2>1. ASSUME NEW i \in 1 .. Len(co)
        PROVE  E[i].depth = co[i].depth
    <3>1. CASE i = k
      BY <1>1, <1>4, <1>6, <3>1
    <3>2. CASE i # k
      <4>1. i \in 1 .. Len(ch)
        BY <1>1, <1>3, <1>4, <3>2
      <4> QED BY <1>4, <1>5, <4>1 DEF Holds, Told
    <3> QED BY <3>1, <3>2
  <2> QED BY <1>4, <1>5, <2>1 DEF Told
<1>8. Good(B, v, E)
  <2>1. ASSUME NEW i \in 1 .. Len(E)
        PROVE  E[i].depth \in 1 .. Len(B) + 1
               /\ (E[i].strict => IsKept(B, v, E[i].depth))
    <3>1. CASE i = k
      BY <1>2, <1>3, <1>6, <3>1 DEF IsKept
    <3>2. CASE i # k
      <4>1. i \in 1 .. Len(ch) /\ i \in 1 .. Len(D)
        BY <1>1, <1>3, <1>5, <3>2
      <4>2. D[i].depth \in 1 .. Len(B) + 1
            /\ (D[i].strict => IsKept(B, s, D[i].depth))
        BY <4>1 DEF Holds, Good
      <4>3. IsKept(B, s, D[i].depth) => IsKept(B, v, D[i].depth)
        BY <1>2 DEF IsKept
      <4> QED BY <1>5, <4>1, <4>2, <4>3
    <3> QED BY <3>1, <3>2
  <2> QED BY <1>2, <2>1 DEF Good
<1>9. StackFits(w, h, F, B, v, p)
  BY <1>1, <1>2 DEF Holds, StackFits
<1>10. Calm(v, E, co, p)
  <2>1. ASSUME v.slack <= 1, NEW i \in 1 .. Len(E)
        PROVE  co[i].pos = p
    <3>1. CASE i = k
      BY <1>4, <3>1
    <3>2. CASE i # k
      <4>1. i \in 1 .. Len(ch) /\ i \in 1 .. Len(D)
        BY <1>1, <1>3, <1>5, <3>2
      <4> QED BY <1>2, <1>4, <2>1, <4>1 DEF Holds, Calm
    <3> QED BY <3>1, <3>2
  <2> QED BY <2>1 DEF Calm
<1>11. \A i \in 1 .. Len(ch) : Saved(w, h, F, co, E, i)
  <2>1. SameChoices(ch, co, D, E, Len(ch))
    BY <1>1, <1>3, <1>4, <1>5 DEF SameChoices
  <2>2. AllUntouched(F, F, ch, D, Len(ch))
    <3>1. \A i \in 1 .. Len(ch) : ch[i].depth \in 1 .. Len(F)
      BY DEF Shapes, ChoicesFine
    <3> QED BY <3>1 DEF AllUntouched, Untouched
  <2> QED BY <1>3, <1>5, <2>1, <2>2, SavedStay DEF Shapes, Holds
<1>12. \A i \in 1 .. Pending(r, co) : Saved(w, h, F, co, E, i)
  <2>1. CASE r # <<>> /\ Head(r).item = "commit"
    <3>1. Pending(r, co) = Len(ch)
      BY <1>1, <1>3, <1>4, <2>1 DEF Pending
    <3> QED BY <1>11, <3>1
  <2>2. CASE Behind(w, h, F, p, ch, B, D, c.agenda, keep)
    <3>1. Saved(w, h, F, co, E, k)
      BY <1>1, <2>2, SavedLast
    <3>2. Pending(r, co) \in Int /\ Pending(r, co) <= k
      BY <1>1, <1>3, <1>4 DEF Pending
    <3>3. \A i \in 1 .. Pending(r, co) : i = k \/ i \in 1 .. Len(ch)
      BY <1>1, <1>3, <3>2
    <3> QED BY <1>11, <3>1, <3>3
  <2> QED BY <2>1, <2>2
<1>13. Place(w, h, r, F, p, co)
  BY <1>2, <1>3, <1>5, <1>7, <1>8, <1>9, <1>10, <1>12 DEF Place, Stands
<1> QED BY <1>1, <1>13

-----------------------------------------------------------------------------
(* What was tried has matched; what is behind it goes on.                  *)
LEMMA CommitRuns ==
  ASSUME NEW q, NEW B, NEW t, NEW D, Runs(q, B, t, D), IsSeq(D), Good(B, t, D),
         NEW x, x.item = "commit", x.to = Len(D), t.slack # 1,
         NEW v, Below(v, v), Below(Settled(v, t), t), NEW depth,
         depth = Len(B) + 1,
         NEW keep
  PROVE  Runs(<<x>> \o q, B, v, Append(D, Try(depth, keep)))
<1>1. PICK E : E = Append(D, Try(depth, keep))
  OBVIOUS
<1>2. /\ IsSeq(E) /\ Len(D) \in Nat /\ Len(E) = Len(D) + 1
      /\ E[Len(D) + 1] = Try(depth, keep) /\ SubSeq(E, 1, Len(D)) = D
  BY <1>1, SeqLonger, CutLonger
<1>3. Front(E) = D
  <2>1. E # <<>> /\ Len(E) - 1 = Len(D)
    BY <1>2
  <2>2. Front(E) = SubSeq(E, 1, Len(E) - 1)
    BY <1>2, <2>1, SeqFront
  <2> QED BY <1>2, <2>1, <2>2
<1>4. E[Len(E)].depth = depth
  BY <1>2 DEF Try
<1>5. CommitStep(x.to, B, v, E, B, t, D)
  BY <1>2, <1>3, <1>4 DEF CommitStep
<1>6. Step(x, B, v, E, B, t, D)
  BY <1>5 DEF Step
<1>7. Runs(<<x>> \o q, B, v, E)
  BY <1>6, RunsBefore
<1> QED BY <1>1, <1>7

(* The alternatives behind the first.                                      *)
LEMMA ChoiceTail ==
  ASSUME NEW Q, Closed(Q), NEW of, IsSeq(of), Len(of) > 1, NEW s, NEW t,
         Below(s, s), Below(t, t),
         t.kept = s.kept, s.slack <= t.slack, t.slack # 1,
         NEW keep \in BOOLEAN, keep \/ ~ s.kept,
         Path(Q, of[Len(of)], Retrying(s, keep), t),
         \A i \in 1 .. Len(of) - 1 :
           IsSeq(of[i]) /\ \E v : Path(Q, of[i], Trying(s, keep), v)
             /\ Below(Settled(v, t), t)
  PROVE  Fit(Choice(Tail(of)), Retrying(s, keep), t)
         /\ Below(Retrying(s, keep), Retrying(s, keep))
<1>1. PICK u, g, n : u = Retrying(s, keep) /\ g = Tail(of) /\ n = Len(of)
  OBVIOUS
<1>2. n \in Nat /\ n > 1 /\ IsSeq(g) /\ Len(g) = n - 1
      /\ \A i \in 1 .. n - 1 : g[i] = of[i + 1]
  <2>1. Len(of) \in Nat /\ Len(of) >= 1
    BY DEF IsSeq
  <2> QED BY <1>1, <2>1, SeqTail
<1>3. /\ u.rule = s.rule /\ u.open = s.open /\ u.kept = s.kept
      /\ u.slack = s.slack
      /\ u.last = s.last /\ u.second = s.second /\ u.third = s.third
      /\ u.moved = s.moved
      /\ u.val = IF keep THEN s.val ELSE Unknown
  BY <1>1 DEF Retrying, Valued, State
<1>4. Below(u, u)
  BY <1>3 DEF Below
<1>5. Retrying(u, keep) = u /\ Trying(u, keep) = Trying(s, keep)
  BY <1>1 DEF Retrying, Trying, Valued, State
<1>6. g[n - 1] = of[n] /\ \A i \in 1 .. n - 2 : g[i] = of[i + 1]
      /\ i + 1 \in 1 .. n - 1
  <2>1. n - 1 \in 1 .. n - 1 /\ n - 1 + 1 = n
    BY <1>2
  <2>2. \A i \in 1 .. n - 2 : i \in 1 .. n - 1 /\ i + 1 \in 1 .. n - 1
    BY <1>2
  <2> QED BY <1>2, <2>1, <2>2
<1>7. ChoiceStep(Q, g, u, t)
  <2>1. CASE g[1] = <<>>
    <3>1. CASE n = 2
      <4>1. Path(Q, <<>>, u, t)
        <5>1. n - 1 = 1
          BY <3>1
        <5>2. g[1] = of[Len(of)]
          BY <1>1, <1>6, <5>1
        <5> QED BY <1>1, <2>1, <5>2
      <4>2. Below(u, t)
        BY <1>4, <4>1, PathEnds
      <4> QED BY <1>2, <1>3, <2>1, <4>2 DEF ChoiceStep
    <3>2. CASE n # 2
      <4>1. 1 \in 1 .. n - 2 /\ 2 \in 1 .. n - 1 /\ g[1] = of[2]
        BY <1>2, <1>6, <3>2
      <4>2. PICK v : Path(Q, of[2], Trying(s, keep), v)
                 /\ Below(Settled(v, t), t)
        BY <1>1, <4>1
      <4> DEFINE y == Trying(s, keep)
      <4>3. /\ y.rule = s.rule /\ y.open = s.open /\ y.slack \in Nat
            /\ y.last = s.last /\ y.second = s.second /\ y.third = s.third
            /\ y.moved = s.moved /\ y.val = u.val
        BY <1>3 DEF Trying, State
      <4> HIDE DEF y
      <4>4. Below(y, y)
        BY <4>3 DEF Below
      <4>5. Below(y, v)
        BY <2>1, <4>1, <4>2, <4>4, PathEnds DEF y
      <4>6. Below(u, t)
        BY <1>3, <4>2, <4>3, <4>5 DEF Below, Settled, State
      <4> QED BY <1>2, <1>3, <2>1, <4>6 DEF ChoiceStep
    <3> QED BY <3>1, <3>2
  <2>2. CASE g[1] # <<>>
    <3>1. Len(g) > 0 /\ g[Len(g)] = of[n]
          /\ \A i \in 1 .. Len(g) - 1 : i \in 1 .. n - 2
      BY <1>2, <1>6
    <3>2. Path(Q, g[Len(g)], Retrying(u, keep), t)
      BY <1>1, <1>5, <3>1
    <3>3. ASSUME NEW i \in 1 .. Len(g) - 1
          PROVE  IsSeq(g[i]) /\ \E v : Path(Q, g[i], Trying(u, keep), v)
                 /\ Below(Settled(v, t), t)
      <4>1. g[i] = of[i + 1] /\ i + 1 \in 1 .. Len(of) - 1
        BY <1>1, <1>6, <3>1
      <4> QED BY <1>5, <4>1
    <3> QED BY <1>2, <1>3, <2>2, <3>1, <3>2, <3>3 DEF ChoiceStep
  <2> QED BY <2>1, <2>2
<1>8. Local(Q, Choice(g), u, t)
  <2>1. Choice(g).item = "choice" /\ Choice(g).of = g
    BY DEF Choice
  <2> HIDE DEF Choice
  <2> QED BY <1>4, <1>7, <2>1 DEF Local
<1>9. Fit(Choice(g), u, t)
  BY <1>8, FitIntro
<1> QED BY <1>1, <1>4, <1>9

-----------------------------------------------------------------------------
(* A choice: its only alternative, or its first one, and then the others.  *)
LEMMA OnlyPlace ==
  ASSUME NEW w, NEW h, NEW q, NEW F, NEW p, NEW ch, Shapes(w, h, F, p, ch),
         Place(w, h, q, F, p, ch), q # <<>>, Head(q).item = "choice",
         Len(Head(q).of) = 1
  PROVE  Place(w, h, Head(q).of[1] \o Tail(q), F, p, ch)
<1>1. PICK B, s, D, t, Q : /\ Holds(w, h, F, p, ch, B, s, D)
                           /\ Closed(Q) /\ Local(Q, Head(q), s, t)
                           /\ Below(s, s) /\ Below(t, t)
                           /\ IsSeq(Tail(q)) /\ Runs(Tail(q), B, t, D)
  BY ItemStep
<1>2. PICK of, a : of = Head(q).of /\ a = Tail(q)
  OBVIOUS
<1>3. ChoiceStep(Q, of, s, t) /\ Len(of) = 1
  BY <1>1, <1>2 DEF Local
<1>4. CASE of[1] = <<>>
  <2>1. Below(s, t)
    BY <1>3, <1>4 DEF ChoiceStep
  <2>2. of[1] \o a = a
    BY <1>1, <1>2, <1>4, NothingJoined
  <2>3. Runs(of[1] \o a, B, t, D)
    BY <1>1, <1>2, <2>2
  <2>4. Place(w, h, of[1] \o a, F, p, ch)
    BY <1>1, <2>1, <2>3, Onwards
  <2> QED BY <1>2, <2>4
<1>5. CASE of[1] # <<>>
  <2>1. PICK keep \in BOOLEAN : Path(Q, of[Len(of)], Retrying(s, keep), t)
    BY <1>3, <1>5 DEF ChoiceStep
  <2>2. PICK u : u = Retrying(s, keep)
    OBVIOUS
  <2>3. Path(Q, of[1], u, t)
    BY <1>3, <2>1, <2>2
  <2>4. Runs(of[1] \o a, B, u, D)
    BY <1>1, <1>2, <2>3, RunsPath
  <2>5. /\ u.rule = s.rule /\ u.open = s.open /\ u.kept = s.kept
        /\ u.slack = s.slack
        /\ u.last = s.last /\ u.second = s.second /\ u.third = s.third
        /\ u.moved = s.moved /\ (u.val = s.val \/ u.val = Unknown)
    BY <2>2 DEF Retrying, Valued, State
  <2>6. Onward(s, u, p, p) /\ Renewed(F, F, s.kept)
    BY <2>5 DEF Onward, Renewed
  <2>7. FrameFits(w, h, F[Len(F)], u, p)
    <3>1. FrameFits(w, h, F[Len(F)], s, p)
      BY <1>1 DEF Holds, StackFits
    <3>2. KindIn(h, F[Len(F)].val) \in Unknown
      BY KindKnown DEF Shapes, Grown
    <3> QED BY <2>5, <3>1, <3>2 DEF FrameFits
  <2>8. Place(w, h, of[1] \o a, F, p, ch)
    BY <1>1, <2>4, <2>6, <2>7, Advance DEF Shapes
  <2> QED BY <1>2, <2>8
<1> QED BY <1>4, <1>5

-----------------------------------------------------------------------------
(* A choice that is pending, and the item that ends it.                    *)
GoesBack(c, F, p, a) ==
  c.pos = p /\ c.depth = Len(F) /\ c.got = F[Len(F)].got /\ c.agenda = a

Commits(x, ch) == x.item = "commit" /\ x.to = Len(ch)

(* The first of several alternatives is tried, and the choice goes back to *)
(* the others.                                                             *)
LEMMA FirstPlace ==
  ASSUME NEW w, NEW h, NEW q, NEW F, NEW p, NEW ch, Shapes(w, h, F, p, ch),
         Place(w, h, q, F, p, ch), q # <<>>, Head(q).item = "choice",
         Len(Head(q).of) # 1,
         NEW x, Commits(x, ch),
         NEW c, GoesBack(c, F, p, <<Choice(Tail(Head(q).of))>> \o Tail(q))
  PROVE  Place(w, h, Append(Head(q).of[1], x) \o Tail(q), F, p, Append(ch, c))
<1>1. PICK B, s, D, t, Q : /\ Holds(w, h, F, p, ch, B, s, D)
                           /\ Closed(Q) /\ Local(Q, Head(q), s, t)
                           /\ Below(s, s) /\ Below(t, t)
                           /\ IsSeq(Tail(q)) /\ Runs(Tail(q), B, t, D)
  BY ItemStep
<1>2. PICK of, a : of = Head(q).of /\ a = Tail(q)
  OBVIOUS
<1>3. ChoiceStep(Q, of, s, t)
  BY <1>1, <1>2 DEF Local
<1>4. IsSeq(of) /\ Len(of) \in Nat /\ Len(of) > 1
        /\ t.kept = s.kept /\ s.slack <= t.slack /\ t.slack # 1
  BY <1>2, <1>3 DEF ChoiceStep, IsSeq
<1>5. /\ IsSeq(B) /\ Len(B) \in Nat /\ IsSeq(D) /\ Len(D) = Len(ch)
      /\ Len(F) = Len(B) + 1 /\ FrameFits(w, h, F[Len(F)], s, p)
  BY <1>1 DEF Holds, StackFits, Told, IsSeq
<1>6. Good(B, t, D)
  <2>1. \A d : IsKept(B, t, d) = IsKept(B, s, d)
    BY <1>4 DEF IsKept
  <2>2. t.slack = 0 => s.slack = 0
    BY <1>1, <1>4 DEF Below
  <2> QED BY <1>1, <2>1, <2>2 DEF Good, Holds
<1>7. CASE of[1] = <<>>
  <2>1. PICK v : v = Trying(s, TRUE)
    OBVIOUS
  <2>2. /\ v.rule = s.rule /\ v.open = s.open /\ v.kept = TRUE
        /\ v.slack = (IF s.slack < 2 THEN 1 ELSE 2)
        /\ v.last = s.last /\ v.second = s.second /\ v.third = s.third
        /\ v.moved = s.moved /\ v.val = s.val
    BY <2>1 DEF Trying, State
  <2>3. Below(s, t)
    BY <1>3, <1>7 DEF ChoiceStep
  <2>4. Below(v, v)
    BY <1>1, <2>2 DEF Below
  <2>5. Below(Settled(v, t), t)
    BY <2>2, <2>3 DEF Below, Settled, State
  <2>6. Runs(<<x>> \o a, B, v, Append(D, Try(Len(F), TRUE)))
    BY <1>1, <1>2, <1>4, <1>5, <1>6, <2>4, <2>5, CommitRuns DEF Commits
  <2>7. Ahead(w, h, F, p, B, s, D, <<x>> \o a, TRUE)
    <3>1. FrameFits(w, h, F[Len(F)], v, p)
      BY <1>5, <2>2 DEF FrameFits
    <3>2. v.slack # 0 /\ (v.slack <= 1 => s.slack <= 1)
      BY <1>1, <2>2 DEF Below
    <3> QED BY <2>2, <2>6, <3>1, <3>2 DEF Ahead
  <2>8. <<x>> \o a # <<>> /\ Head(<<x>> \o a).item = "commit"
    BY <1>1, <1>2, HeadAndTail DEF Commits
  <2>9. Place(w, h, <<x>> \o a, F, p, Append(ch, c))
    BY <1>1, <2>7, <2>8, AddedPlace DEF GoesBack
  <2>10. Append(of[1], x) \o a = <<x>> \o a
    <3>1. IsSeq(<<x>> \o a) /\ IsSeq(of[1])
      BY <1>1, <1>2, <1>7, HeadAndTail, Literal
    <3>2. Append(of[1], x) \o a = of[1] \o (<<x>> \o a)
      <4>1. IsSeq(a) /\ IsSeq(of[1])
        BY <1>1, <1>2, <3>1
      <4>2. JoinsWith(of[1], x, a)
        BY <4>1, AppendJoins
      <4> QED BY <4>2 DEF JoinsWith
    <3>3. of[1] \o (<<x>> \o a) = <<x>> \o a
      BY <1>7, <3>1, NothingJoined
    <3> QED BY <3>2, <3>3
  <2> QED BY <1>2, <2>9, <2>10
<1>8. CASE of[1] # <<>>
  <2>1. PICK keep \in BOOLEAN :
            /\ keep \/ ~ s.kept
            /\ Path(Q, of[Len(of)], Retrying(s, keep), t)
            /\ \A i \in 1 .. Len(of) - 1 :
                 IsSeq(of[i]) /\ \E v : Path(Q, of[i], Trying(s, keep), v)
                   /\ Below(Settled(v, t), t)
    BY <1>3, <1>8 DEF ChoiceStep
  <2>2. PICK u, y : u = Retrying(s, keep) /\ y = Trying(s, keep)
    OBVIOUS
  <2>3. Fit(Choice(Tail(of)), u, t) /\ Below(u, u)
    BY <1>1, <1>4, <2>1, <2>2, ChoiceTail
  <2>4. 1 \in 1 .. Len(of) - 1
    BY <1>4
  <2>5. PICK v : Path(Q, of[1], y, v) /\ Below(Settled(v, t), t)
             /\ IsSeq(of[1])
    BY <2>1, <2>2, <2>4
  <2>6. /\ u.rule = s.rule /\ u.open = s.open /\ u.kept = s.kept
        /\ u.slack = s.slack
        /\ u.last = s.last /\ u.second = s.second /\ u.third = s.third
        /\ u.moved = s.moved
        /\ u.val = IF keep THEN s.val ELSE Unknown
    BY <2>2 DEF Retrying, Valued, State
  <2>7. /\ y.rule = s.rule /\ y.open = s.open /\ y.kept = keep
        /\ y.slack = (IF s.slack < 2 THEN 1 ELSE 2)
        /\ y.last = s.last /\ y.second = s.second /\ y.third = s.third
        /\ y.moved = s.moved
        /\ y.val = IF keep THEN s.val ELSE Unknown
    BY <2>2 DEF Trying, State
  <2>8. KindIn(h, F[Len(F)].val) \in Unknown
    BY KindKnown DEF Shapes, Grown
  <2>9. FrameFits(w, h, F[Len(F)], u, p) /\ FrameFits(w, h, F[Len(F)], y, p)
    BY <1>5, <2>6, <2>7, <2>8 DEF FrameFits
  <2>10. Behind(w, h, F, p, ch, B, D, <<Choice(Tail(of))>> \o a, keep)
    <3>1. PICK z : z = Choice(Tail(of))
      OBVIOUS
    <3>2. Runs(<<z>> \o a, B, u, D)
      BY <1>1, <1>2, <2>3, <3>1, FitOther, RunsBefore
    <3>3. Good(B, u, D)
      <4>1. \A d : IsKept(B, u, d) = IsKept(B, s, d)
        BY <2>6 DEF IsKept
      <4> QED BY <1>1, <2>6, <4>1 DEF Good, Holds
    <3>4. Calm(u, D, ch, p)
      BY <1>1, <2>6 DEF Calm, Holds
    <3>5. keep \/ Unknown \subseteq u.val
      BY <2>6
    <3> QED BY <2>9, <3>1, <3>2, <3>3, <3>4, <3>5 DEF Behind
  <2>11. Ahead(w, h, F, p, B, s, D, of[1] \o (<<x>> \o a), keep)
    <3>1. Below(y, y)
      BY <1>1, <2>7 DEF Below
    <3>2. Below(v, v)
      BY <2>5, <3>1, PathEnds
    <3>3. Runs(<<x>> \o a, B, v, Append(D, Try(Len(F), keep)))
      BY <1>1, <1>2, <1>4, <1>5, <1>6, <2>5, <3>2, CommitRuns DEF Commits
    <3>4. Runs(of[1] \o (<<x>> \o a), B, y, Append(D, Try(Len(F), keep)))
      BY <1>1, <2>5, <3>3, RunsPath
    <3>5. y.slack # 0 /\ (y.slack <= 1 => s.slack <= 1)
      BY <1>1, <2>7 DEF Below
    <3>6. (s.kept => y.kept) /\ (keep => y.kept)
      BY <2>1, <2>7
    <3> QED BY <2>9, <3>4, <3>5, <3>6 DEF Ahead
  <2>12. Place(w, h, of[1] \o (<<x>> \o a), F, p, Append(ch, c))
    BY <1>1, <1>2, <2>10, <2>11, AddedPlace DEF GoesBack
  <2>13. Append(of[1], x) \o a = of[1] \o (<<x>> \o a)
    <3>1. IsSeq(a) /\ IsSeq(of[1])
      BY <1>1, <1>2, <2>5
    <3>2. JoinsWith(of[1], x, a)
      BY <3>1, AppendJoins
    <3> QED BY <3>2 DEF JoinsWith
  <2> QED BY <1>2, <2>12, <2>13
<1> QED BY <1>7, <1>8

(* Once more, or not.                                                      *)
LEMMA RepeatPlace ==
  ASSUME NEW w, NEW h, NEW q, NEW F, NEW p, NEW ch, Shapes(w, h, F, p, ch),
         Place(w, h, q, F, p, ch), q # <<>>, Head(q).item = "repeat",
         NEW x, Commits(x, ch),
         NEW c, GoesBack(c, F, p, <<>> \o Tail(q))
  PROVE  Place(w, h, (Head(q).of \o <<x, Head(q)>>) \o Tail(q), F, p,
               Append(ch, c))
<1>1. PICK B, s, D, t, Q : /\ Holds(w, h, F, p, ch, B, s, D)
                           /\ Closed(Q) /\ Local(Q, Head(q), s, t)
                           /\ Below(s, s) /\ Below(t, t)
                           /\ IsSeq(Tail(q)) /\ Runs(Tail(q), B, t, D)
  BY ItemStep
<1>2. PICK z, of, a : z = Head(q) /\ of = Head(q).of /\ a = Tail(q)
  OBVIOUS
<1>3. RepeatStep(Q, of, s, t) /\ z.item = "repeat" /\ z.of = of
  BY <1>1, <1>2 DEF Local
<1>4. PICK v : Path(Q, of, Inside(t), v) /\ Below(Settled(v, t), t)
  BY <1>3 DEF RepeatStep
<1>5. Below(s, t) /\ t.slack = 2
  BY <1>3 DEF RepeatStep
<1>6. /\ IsSeq(B) /\ Len(B) \in Nat /\ IsSeq(D) /\ Len(D) = Len(ch)
      /\ Len(F) = Len(B) + 1 /\ FrameFits(w, h, F[Len(F)], t, p)
  <2>1. FrameFits(w, h, F[Len(F)], s, p)
    BY <1>1 DEF Holds, StackFits
  <2> QED BY <1>1, <1>5, <2>1, FrameBelow DEF Holds, StackFits, Told, IsSeq
<1>7. Good(B, t, D) /\ Calm(t, D, ch, p)
  BY <1>1, <1>5, StandsBelow DEF Holds
<1>8. PICK y : y = Inside(t)
  OBVIOUS
<1>9. /\ y.rule = t.rule /\ y.open = t.open /\ y.kept = TRUE
      /\ y.slack = t.slack
      /\ y.last = t.last /\ y.second = t.second /\ y.third = t.third
      /\ y.moved = t.moved /\ y.val = t.val
  BY <1>8 DEF Inside, State
<1>10. Runs(<<z>> \o a, B, t, D)
  <2>1. RepeatStep(Q, of, t, t)
    BY <1>1, <1>4, <1>5 DEF RepeatStep
  <2>2. Local(Q, z, t, t)
    BY <1>1, <1>3, <2>1 DEF Local
  <2>3. Fit(z, t, t)
    BY <1>1, <2>2, FitIntro
  <2> QED BY <1>1, <1>2, <2>3, FitOther, RunsBefore
<1>11. Below(v, v)
  <2>1. Below(y, y)
    BY <1>1, <1>9 DEF Below
  <2> QED BY <1>4, <1>8, <2>1, PathEnds
<1>12. Runs(<<x>> \o (<<z>> \o a), B, v, Append(D, Try(Len(F), TRUE)))
  <2>1. PICK r : r = <<z>> \o a
    OBVIOUS
  <2>2. Runs(r, B, t, D) /\ t.slack # 1
    BY <1>5, <1>10, <2>1
  <2>3. Runs(<<x>> \o r, B, v, Append(D, Try(Len(F), TRUE)))
    BY <1>4, <1>6, <1>7, <1>11, <2>2, CommitRuns DEF Commits
  <2> QED BY <2>1, <2>3
<1>13. Runs(of \o (<<x>> \o (<<z>> \o a)), B, y, Append(D, Try(Len(F), TRUE)))
  BY <1>1, <1>4, <1>8, <1>12, RunsPath
<1>14. Ahead(w, h, F, p, B, s, D, of \o (<<x>> \o (<<z>> \o a)), TRUE)
  <2>1. FrameFits(w, h, F[Len(F)], y, p)
    BY <1>6, <1>9 DEF FrameFits
  <2>2. y.slack # 0 /\ ~ (y.slack <= 1)
    BY <1>5, <1>9
  <2> QED BY <1>9, <1>13, <2>1, <2>2 DEF Ahead
<1>15. Behind(w, h, F, p, ch, B, D, c.agenda, TRUE)
  <2>1. c.agenda = a
    BY <1>1, <1>2, NothingJoined DEF GoesBack
  <2>2. Runs(a, B, t, D)
    BY <1>1, <1>2
  <2> QED BY <1>6, <1>7, <2>1, <2>2 DEF Behind
<1>16. Place(w, h, of \o (<<x>> \o (<<z>> \o a)), F, p, Append(ch, c))
  BY <1>1, <1>14, <1>15, AddedPlace DEF GoesBack
<1>17. (of \o <<x, z>>) \o a = of \o (<<x>> \o (<<z>> \o a))
  <2>1. IsSeq(of) /\ IsSeq(a)
    BY <1>1, <1>2, <1>4 DEF Path
  <2> QED BY <2>1, JoinedTwice
<1> QED BY <1>2, <1>16, <1>17

-----------------------------------------------------------------------------
(* What matched is not tried again.                                        *)
LEMMA CommitPlace ==
  ASSUME NEW w, NEW h, NEW q, NEW F, NEW p, NEW ch, Shapes(w, h, F, p, ch),
         Place(w, h, q, F, p, ch), q # <<>>, Head(q).item = "commit"
  PROVE  /\ Head(q).to = Len(ch) - 1 /\ Len(ch) >= 1
         /\ Place(w, h, Tail(q), F, p, SubSeq(ch, 1, Head(q).to))
<1>1. PICK B, s, D, t : /\ IsSeq(B) /\ IsSeq(D) /\ Told(ch, D)
                        /\ StackFits(w, h, F, B, s, p)
                        /\ \A i \in 1 .. Len(ch) - 1 : Saved(w, h, F, ch, D, i)
                        /\ CommitStep(Head(q).to, B, s, D, B, t, Front(D))
                        /\ Runs(Tail(q), B, t, Front(D))
  BY NextCommit
<1>2. PICK E, k, a : E = Front(D) /\ k = Head(q).to /\ a = Tail(q)
  OBVIOUS
<1>3. /\ Len(D) >= 1 /\ k = Len(D) - 1 /\ Below(Settled(s, t), t)
      /\ t.slack # 1
      /\ Good(B, t, E) /\ Runs(a, B, t, E)
  BY <1>1, <1>2 DEF CommitStep
<1>4. PICK co : co = SubSeq(ch, 1, k)
  OBVIOUS
<1>5. Len(ch) \in Nat /\ IsSeq(ch) /\ Len(D) = Len(ch) /\ k \in 0 .. Len(ch)
      /\ k \in Nat
  BY <1>1, <1>3 DEF Told, Shapes, ChoicesFine, IsSeq
<1>6. /\ IsSeq(co) /\ Len(co) = k /\ \A i \in 1 .. k : co[i] = ch[i]
  BY <1>4, <1>5, SeqCut
<1>7. /\ IsSeq(E) /\ Len(E) = k /\ \A i \in 1 .. k : E[i] = D[i]
  <2>1. D # <<>>
    BY <1>3
  <2> QED BY <1>1, <1>2, <1>3, <2>1, SeqFront
<1>8. Told(co, E)
  <2>1. \A i \in 1 .. k : E[i].depth = co[i].depth
    BY <1>1, <1>5, <1>6, <1>7 DEF Told
  <2> QED BY <1>6, <1>7, <2>1 DEF Told
<1>9. StackFits(w, h, F, B, t, p)
  <2>1. FrameFits(w, h, F[Len(F)], s, p)
    BY <1>1 DEF StackFits
  <2>2. FrameFits(w, h, F[Len(F)], t, p)
    BY <1>3, <2>1 DEF FrameFits, Below, Settled, State
  <2> QED BY <1>1, <2>2 DEF StackFits
<1>10. Calm(t, E, co, p)
  <2>1. t.slack <= 1 => t.slack = 0
    BY <1>3 DEF Below
  <2>2. t.slack = 0 => E = <<>>
    BY <1>3 DEF Good
  <2> QED BY <2>1, <2>2 DEF Calm
<1>11. \A i \in 1 .. k : Saved(w, h, F, co, E, i)
  <2>1. SameChoices(ch, co, D, E, k)
    BY <1>3, <1>5, <1>6, <1>7 DEF SameChoices
  <2>2. AllUntouched(F, F, ch, D, k)
    <3>1. \A i \in 1 .. k : ch[i].depth \in 1 .. Len(F)
      BY <1>5 DEF Shapes, ChoicesFine
    <3> QED BY <3>1 DEF AllUntouched, Untouched
  <2>3. \A i \in 1 .. k : Saved(w, h, F, ch, D, i)
    BY <1>1, <1>3, <1>5
  <2> QED BY <1>1, <1>7, <2>1, <2>2, <2>3, SavedStay DEF Shapes
<1>12. \A i \in 1 .. Pending(a, co) : Saved(w, h, F, co, E, i)
  <2>1. Pending(a, co) \in Int /\ Pending(a, co) <= k
    BY <1>5, <1>6 DEF Pending
  <2> QED BY <1>5, <1>11, <2>1
<1>13. Place(w, h, a, F, p, co)
  BY <1>1, <1>3, <1>7, <1>8, <1>9, <1>10, <1>12 DEF Place, Stands
<1> QED BY <1>2, <1>3, <1>4, <1>5, <1>13

-----------------------------------------------------------------------------
(* Back to the last choice: not another place, where the text has ended    *)
(* and all its blocks are closed.                                          *)
LEMMA BackPlace ==
  ASSUME NEW w, NEW h, NEW q, NEW F, NEW p, NEW ch, Shapes(w, h, F, p, ch),
         Place(w, h, q, F, p, ch), q # <<>>, Head(q).item = "token",
         ch # <<>>, NEW c, c = Last(ch)
  PROVE  /\ Place(w, h, c.agenda, Restored(F, c), c.pos, Front(ch))
         /\ Opened(w, p) = 0 => c.pos = p
         /\ Restored(F, c)[c.depth].start <= c.pos
         /\ \A i \in 1 .. Len(ch) : ch[i].depth \in 1 .. c.depth
<1>1. PICK B, s, D, t, Q : /\ Holds(w, h, F, p, ch, B, s, D)
                           /\ Closed(Q) /\ Local(Q, Head(q), s, t)
                           /\ Below(s, s) /\ Below(t, t)
                           /\ IsSeq(Tail(q)) /\ Runs(Tail(q), B, t, D)
  BY ItemStep
<1>2. PICK n, G, co, E : /\ n = Len(ch) /\ G = Restored(F, c) /\ co = Front(ch)
                         /\ E = SubSeq(D, 1, n - 1)
  OBVIOUS
<1>3. /\ n \in Nat /\ n >= 1 /\ IsSeq(ch) /\ c = ch[n] /\ IsSeq(D)
      /\ Len(D) = n
      /\ n \in 1 .. Len(ch)
  <2>1. IsSeq(ch) /\ IsSeq(D) /\ Len(D) = Len(ch)
    BY <1>1 DEF Shapes, ChoicesFine, Holds, Told
  <2>2. Len(ch) \in Nat /\ Len(ch) > 0 /\ Last(ch) = ch[Len(ch)]
    BY <2>1, SeqFront
  <2> QED BY <1>2, <2>1, <2>2
<1>4. /\ IsSeq(co) /\ Len(co) = n - 1 /\ \A i \in 1 .. n - 1 : co[i] = ch[i]
  BY <1>2, <1>3, SeqFront
<1>5. /\ IsSeq(E) /\ Len(E) = n - 1 /\ \A i \in 1 .. n - 1 : E[i] = D[i]
  <2>1. n - 1 \in 0 .. Len(D)
    BY <1>3
  <2> QED BY <1>2, <1>3, <2>1, SeqCut
<1>6. Saved(w, h, F, ch, D, n)
  BY <1>1, <1>3 DEF Holds
<1>7. PICK A, u : Stands(w, h, ch[n].agenda, Restored(F, ch[n]), ch[n].pos, ch,
                         A, u,
                         SubSeq(D, 1, n - 1))
  BY <1>6 DEF Saved
<1>8. Stands(w, h, c.agenda, G, c.pos, ch, A, u, E)
  BY <1>2, <1>3, <1>7
<1>9. /\ c.depth \in 1 .. Len(F) /\ c.got \in Seq(1 .. Len(h))
      /\ F \in Seq(FrameSet(w, h)) /\ Grown(h, h)
  BY <1>3 DEF Shapes, ChoicesFine
<1>10. /\ G \in Seq(FrameSet(w, h)) /\ Len(G) = c.depth
       /\ \A j \in 1 .. c.depth - 1 : G[j] = F[j]
       /\ G[c.depth].rule = F[c.depth].rule /\ G[c.depth].val = F[c.depth].val
       /\ G[c.depth].start = F[c.depth].start
  <2>1. /\ Restored(F, c) \in Seq(FrameSet(w, h))
        /\ Len(Restored(F, c)) = c.depth
        /\ \A j \in 1 .. c.depth - 1 : Restored(F, c)[j] = F[j]
        /\ Restored(F, c)[c.depth].rule = F[c.depth].rule
        /\ Restored(F, c)[c.depth].val = F[c.depth].val
        /\ Restored(F, c)[c.depth].start = F[c.depth].start
    BY <1>9, RestoredFrames
  <2> QED BY <1>2, <2>1, Zenon
<1>11. /\ IsSeq(A) /\ Len(A) \in Nat /\ c.depth = Len(A) + 1
       /\ FrameFits(w, h, G[c.depth], u, c.pos)
  BY <1>8, <1>10 DEF Stands, StackFits, IsSeq
<1>12. \A i \in 1 .. n - 1 : ch[i].depth \in 1 .. c.depth
  <2> TAKE i \in 1 .. n - 1
  <2>1. i \in 1 .. Len(E) /\ i \in 1 .. Len(ch) /\ E[i] = D[i]
    BY <1>2, <1>3, <1>5
  <2>2. E[i].depth \in 1 .. Len(A) + 1
    BY <1>8, <2>1 DEF Stands, Good
  <2>3. D[i].depth = ch[i].depth
    BY <1>1, <2>1 DEF Holds, Told
  <2> QED BY <1>11, <2>1, <2>2, <2>3
<1>13. Told(co, E)
  <2>1. \A i \in 1 .. n - 1 : E[i].depth = co[i].depth
    BY <1>1, <1>3, <1>4, <1>5 DEF Holds, Told
  <2> QED BY <1>4, <1>5, <2>1 DEF Told
<1>14. Calm(u, E, co, c.pos)
  <2>1. \A i \in 1 .. Len(E) : co[i] = ch[i]
    BY <1>4, <1>5
  <2> QED BY <1>8, <2>1 DEF Stands, Calm
<1>15. \A i \in 1 .. n - 1 : Saved(w, h, G, co, E, i)
  <2>1. SameChoices(ch, co, D, E, n - 1)
    BY <1>3, <1>4, <1>5 DEF SameChoices
  <2>2. AllUntouched(F, G, ch, D, n - 1)
    <3>1. SameUpTo(F, G, c.depth)
      <4>1. ASSUME NEW j \in 1 .. c.depth
            PROVE  /\ G[j].rule = F[j].rule /\ G[j].start = F[j].start
                   /\ G[j].val = F[j].val
        <5>1. j = c.depth \/ j \in 1 .. c.depth - 1
          BY <1>11
        <5> QED BY <1>10, <5>1
      <4> QED BY <1>10, <4>1 DEF SameUpTo
    <3>2. c.depth \in Nat /\ c.depth <= Len(F) /\ c.depth <= Len(G)
            /\ Len(F) \in Nat /\ Len(G) \in Nat
      BY <1>9, <1>10, <1>11
    <3>3. PICK k, m : k = n - 1 /\ m = c.depth
      OBVIOUS
    <3>4. \A i \in 1 .. k : ch[i].depth \in 1 .. m
      BY <1>12, <3>3
    <3>5. AllUntouched(F, G, ch, D, k)
      BY <3>1, <3>2, <3>3, <3>4, Kept
    <3> QED BY <3>3, <3>5
  <2>3. \A i \in 1 .. n - 1 : Saved(w, h, F, ch, D, i)
    BY <1>1, <1>2, <1>3 DEF Holds
  <2>4. IsSeq(D) /\ Told(ch, D) /\ ChoicesFine(h, F, p, ch)
    BY <1>1 DEF Holds, Shapes
  <2> QED BY <1>5, <1>9, <1>10, <2>1, <2>2, <2>3, <2>4, SavedStay
<1>16. \A i \in 1 .. Pending(c.agenda, co) : Saved(w, h, G, co, E, i)
  <2>1. Pending(c.agenda, co) \in Int /\ Pending(c.agenda, co) <= n - 1
    BY <1>3, <1>4 DEF Pending
  <2> QED BY <1>3, <1>15, <2>1
<1>17. Place(w, h, c.agenda, G, c.pos, co)
  <2>1. Stands(w, h, c.agenda, G, c.pos, co, A, u, E)
    BY <1>8, <1>14 DEF Stands
  <2> QED BY <1>13, <1>16, <2>1 DEF Place
<1>18. ASSUME Opened(w, p) = 0
       PROVE  c.pos = p
  <2>1. TokenStep(Head(q).t, s, t)
    BY <1>1 DEF Local
  <2>2. s.open = 0
    BY <1>1, <1>18 DEF Holds, StackFits, FrameFits
  <2>3. s.slack < 2 /\ s.slack \in Nat
    BY <1>1, <2>1, <2>2 DEF TokenStep, Below
  <2>4. s.slack <= 1
    BY <2>3
  <2>5. ch[n].pos = p
    BY <1>1, <1>3, <2>4 DEF Holds, Calm
  <2> QED BY <1>3, <2>5
<1>19. G[c.depth].start <= c.pos
  BY <1>11 DEF FrameFits
<1>20. \A i \in 1 .. Len(ch) : ch[i].depth \in 1 .. c.depth
  <2> TAKE i \in 1 .. Len(ch)
  <2>1. i = n \/ i \in 1 .. n - 1
    BY <1>2, <1>3
  <2>2. c.depth \in 1 .. c.depth
    BY <1>11
  <2> QED BY <1>3, <1>12, <2>1, <2>2
<1> QED BY <1>2, <1>17, <1>18, <1>19, <1>20

-----------------------------------------------------------------------------
(***************************************************************************)
(* The nodes: each has the pointers of its class, and they lead to nodes   *)
(* of kinds that they take and that are read.                              *)
(***************************************************************************)
NodeFine(h, x) ==
  /\ x \in [kind : ReadKinds, info : BOOLEAN, width : BOOLEAN, to : {x.to}]
  /\ x.to \in [Pointers(x.kind) -> Seq(1 .. Len(h))]
  /\ \A f \in Pointers(x.kind) : \A i \in 1 .. Len(x.to[f]) :
       h[x.to[f][i]].kind \in Pointee(f) \ Unread

TreeFine(h) == IsSeq(h) /\ \A n \in 1 .. Len(h) : NodeFine(h, h[n])

(* A tree that is fine is one whose kinds are known.                       *)
LEMMA TreeKinds ==
  ASSUME NEW h, TreeFine(h)
  PROVE  Grown(h, h) /\ Len(h) \in Nat
<1>1. Len(h) \in Nat
  BY DEF TreeFine, IsSeq
<1>2. \A n \in 1 .. Len(h) : h[n].kind \in ReadKinds
  BY DEF TreeFine, NodeFine
<1> QED BY <1>1, <1>2 DEF Grown

(* A node stays fine as the tree grows.                                    *)
LEMMA NodeStays ==
  ASSUME NEW h, NEW g, Grown(h, g), NEW x, NodeFine(h, x)
  PROVE  NodeFine(g, x)
<1> DEFINE I == 1 .. Len(h)
           J == 1 .. Len(g)
<1>1. I \subseteq J
  BY DEF Grown
<1>2. x.to \in [Pointers(x.kind) -> Seq(I)]
  BY DEF NodeFine
<1>3. ASSUME NEW f \in Pointers(x.kind)
      PROVE  /\ x.to[f] \in Seq(J)
             /\ \A i \in 1 .. Len(x.to[f]) :
                g[x.to[f][i]].kind \in Pointee(f) \ Unread
  <2> HIDE DEF I, J
  <2>1. x.to[f] \in Seq(I)
    BY <1>2
  <2>2. x.to[f] \in Seq(J)
    BY <1>1, <2>1
  <2>3. ASSUME NEW i \in 1 .. Len(x.to[f])
        PROVE  g[x.to[f][i]].kind \in Pointee(f) \ Unread
    <3>1. x.to[f][i] \in I
      BY <2>1
    <3>2. g[x.to[f][i]].kind = h[x.to[f][i]].kind
      BY <3>1 DEF Grown, I
    <3>3. h[x.to[f][i]].kind \in Pointee(f) \ Unread
      BY DEF NodeFine
    <3> QED BY <3>2, <3>3
  <2> QED BY <2>2, <2>3
<1>4. x.to \in [Pointers(x.kind) -> Seq(J)]
  <2> HIDE DEF I, J
  <2>1. \A f \in Pointers(x.kind) : x.to[f] \in Seq(J)
    BY <1>3
  <2> QED BY <1>2, <2>1
<1>5. x \in [kind : ReadKinds, info : BOOLEAN, width : BOOLEAN, to : {x.to}]
  BY DEF NodeFine
<1> QED BY <1>3, <1>4, <1>5 DEF NodeFine

(* One node more.                                                          *)
LEMMA TreeLonger ==
  ASSUME NEW h, TreeFine(h), NEW x, NodeFine(h, x)
  PROVE  /\ TreeFine(Append(h, x)) /\ Grown(h, Append(h, x))
         /\ Len(Append(h, x)) = Len(h) + 1
         /\ Len(h) + 1 \in 1 .. Len(Append(h, x))
         /\ Append(h, x)[Len(h) + 1] = x
<1>1. PICK g : g = Append(h, x)
  OBVIOUS
<1>2. /\ IsSeq(g) /\ Len(h) \in Nat /\ Len(g) = Len(h) + 1
      /\ \A i \in 1 .. Len(h) : g[i] = h[i]
      /\ g[Len(h) + 1] = x
  BY <1>1, SeqLonger DEF TreeFine
<1>3. \A n \in 1 .. Len(g) : n \in 1 .. Len(h) \/ n = Len(h) + 1
  BY <1>2
<1>4. \A n \in 1 .. Len(g) : NodeFine(h, g[n])
  BY <1>2, <1>3 DEF TreeFine
<1>5. Grown(h, g)
  <2>1. \A n \in 1 .. Len(g) : g[n].kind \in ReadKinds
    BY <1>4 DEF NodeFine
  <2> QED BY <1>2, <2>1 DEF Grown
<1>6. \A n \in 1 .. Len(g) : NodeFine(g, g[n])
  BY <1>4, <1>5, NodeStays
<1>7. TreeFine(g) /\ Len(h) + 1 \in 1 .. Len(g)
  BY <1>2, <1>6 DEF TreeFine
<1> QED BY <1>1, <1>2, <1>5, <1>7

(* One node changed.                                                       *)
LEMMA TreeChanged ==
  ASSUME NEW h, TreeFine(h), NEW n \in 1 .. Len(h), NEW x, NodeFine(h, x),
         x.kind = h[n].kind
  PROVE  /\ TreeFine([h EXCEPT ![n] = x]) /\ Grown(h, [h EXCEPT ![n] = x])
         /\ Len([h EXCEPT ![n] = x]) = Len(h)
<1>1. PICK I : h \in Seq(I)
  BY DEF TreeFine, IsSeq
<1>2. PICK J : J = I \cup {x}
  OBVIOUS
<1>3. h \in Seq(J) /\ x \in J
  <2>1. I \subseteq J /\ x \in J
    BY <1>2
  <2> QED BY <1>1, <2>1
<1>4. PICK g : g = [h EXCEPT ![n] = x]
  OBVIOUS
<1>5. /\ g \in Seq(J) /\ Len(g) = Len(h) /\ g[n] = x
      /\ \A j \in 1 .. Len(h) : j # n => g[j] = h[j]
  BY <1>3, <1>4, Replaced
<1>6. \A j \in 1 .. Len(g) : NodeFine(h, g[j])
  BY <1>5 DEF TreeFine
<1>7. Grown(h, g)
  <2>1. \A j \in 1 .. Len(g) : g[j].kind \in ReadKinds
    BY <1>6 DEF NodeFine
  <2>2. \A j \in 1 .. Len(h) : g[j].kind = h[j].kind
    BY <1>5
  <2> QED BY <1>3, <1>5, <2>1, <2>2 DEF Grown
<1>8. \A j \in 1 .. Len(g) : NodeFine(g, g[j])
  BY <1>6, <1>7, NodeStays
<1> QED BY <1>4, <1>5, <1>7, <1>8 DEF TreeFine, IsSeq

-----------------------------------------------------------------------------
(* A node whose info or width is set, or one of whose pointers is.         *)
Informed(x) == [x EXCEPT !.info = TRUE]
Sized(x) == [x EXCEPT !.width = TRUE]
Pointing(x, f, targets) == [x EXCEPT !.to[f] = targets]

(* A node stays fine when its info or its width is set.                    *)
LEMMA SetFine ==
  ASSUME NEW h, NEW x, NodeFine(h, x)
  PROVE  /\ NodeFine(h, Informed(x)) /\ Informed(x).kind = x.kind
         /\ NodeFine(h, Sized(x)) /\ Sized(x).kind = x.kind
<1>1. ASSUME NEW y, y \in {Informed(x), Sized(x)}
      PROVE  /\ y \in [kind : ReadKinds, info : BOOLEAN, width : BOOLEAN,
                       to : {y.to}]
             /\ y.kind = x.kind /\ y.to = x.to
  <2>1. x \in [kind : ReadKinds, info : BOOLEAN, width : BOOLEAN, to : {x.to}]
    BY DEF NodeFine
  <2> QED BY <1>1, <2>1 DEF Informed, Sized
<1>2. \A y \in {Informed(x), Sized(x)} : NodeFine(h, y) /\ y.kind = x.kind
  BY <1>1 DEF NodeFine
<1> QED BY <1>2

(* What is given to a pointer that the class does not have, goes nowhere.  *)
LEMMA PointingFine ==
  ASSUME NEW h, NEW x, NodeFine(h, x), NEW f,
         NEW targets, f \in Pointers(x.kind) => targets \in Seq(1 .. Len(h)),
         f \in Pointers(x.kind) =>
           \A i \in 1 .. Len(targets) :
             h[targets[i]].kind \in Pointee(f) \ Unread
  PROVE  NodeFine(h, Pointing(x, f, targets))
         /\ Pointing(x, f, targets).kind = x.kind
<1>1. PICK y : y = Pointing(x, f, targets)
  OBVIOUS
<1>2. PICK to : to = [x.to EXCEPT ![f] = targets]
  OBVIOUS
<1>3. x \in [kind : ReadKinds, info : BOOLEAN, width : BOOLEAN, to : {x.to}]
  BY DEF NodeFine
<1>4. /\ y.kind = x.kind /\ y.to = to
      /\ y \in [kind : ReadKinds, info : BOOLEAN, width : BOOLEAN, to : {to}]
  <2>1. y = [x EXCEPT !.to = to]
    BY <1>1, <1>2 DEF Pointing
  <2> QED BY <1>3, <2>1
<1>5. PICK P : P = Pointers(x.kind)
  OBVIOUS
<1>6. x.to \in [P -> Seq(1 .. Len(h))]
  BY <1>5 DEF NodeFine
<1>7. /\ to \in [P -> Seq(1 .. Len(h))]
      /\ \A e \in P : to[e] = IF e = f THEN targets ELSE x.to[e]
  BY <1>2, <1>5, <1>6
<1>8. ASSUME NEW e \in P, NEW i \in 1 .. Len(to[e])
      PROVE  h[to[e][i]].kind \in Pointee(e) \ Unread
  <2>1. CASE e = f
    <3>1. to[e] = targets /\ f \in P
      BY <1>7, <2>1
    <3> QED BY <1>5, <2>1, <3>1
  <2>2. CASE e # f
    <3>1. to[e] = x.to[e]
      BY <1>7, <2>2
    <3> QED BY <1>5, <3>1 DEF NodeFine
  <2> QED BY <2>1, <2>2
<1>9. NodeFine(h, y)
  BY <1>4, <1>5, <1>7, <1>8 DEF NodeFine
<1> QED BY <1>1, <1>4, <1>9

(* No class has the pointer that addModule splits.                         *)
Unsplit(table) == \A k \in DOMAIN table : "mModules" \notin ToSet(table[k])

(* Two tables without the pointer to all modules, joined, do not have it.  *)
LEMMA JoinedUnsplit ==
  ASSUME NEW f, NEW g, Unsplit(f), Unsplit(g)
  PROVE  Unsplit(Joined(f, g))
BY DEF Unsplit, Joined

(* No class has one pointer to all modules: a circuit has one for each     *)
(* sort.                                                                   *)
LEMMA NoModules ==
  ASSUME NEW kind
  PROVE  "mModules" \notin Pointers(kind)
<1>1. Unsplit(CircuitAccept)
  BY DEF Unsplit, CircuitAccept, ToSet
<1>2. Unsplit(ModuleAccept)
  BY DEF Unsplit, ModuleAccept, ToSet
<1>3. Unsplit(PortAccept)
  BY DEF Unsplit, PortAccept, ToSet
<1>4. Unsplit(DeclarationAccept)
  BY DEF Unsplit, DeclarationAccept, ToSet
<1>5. Unsplit(StmtAccept)
  BY DEF Unsplit, StmtAccept, ToSet
<1>6. Unsplit(ExpressionAccept)
  BY DEF Unsplit, ExpressionAccept, ToSet
<1>7. Unsplit(AcceptOrder)
  BY <1>1, <1>2, <1>3, <1>4, <1>5, <1>6, JoinedUnsplit DEF AcceptOrder
<1>8. \A k \in DOMAIN OtherPointers : "mModules" \notin ToSet(OtherPointers[k])
  BY DEF OtherPointers, ToSet
<1> QED BY <1>7, <1>8 DEF Unsplit, Pointers

-----------------------------------------------------------------------------
(* What a pointer takes is a node.                                         *)
LEMMA TakesKinds ==
  ASSUME NEW f
  PROVE  "none" \notin Takes(f)
<1>1. "none" \notin AllKinds
  BY DEF AllKinds, Expressions, Types, Stmts, Modules
<1>2. Pointee(f) \subseteq AllKinds
  <2>1. /\ Stmts \subseteq AllKinds /\ Types \subseteq AllKinds
        /\ Expressions \subseteq AllKinds
    BY DEF AllKinds
  <2>2. /\ {"ExtModule"} \subseteq AllKinds /\ {"Module"} \subseteq AllKinds
        /\ {"Port"} \subseteq AllKinds /\ {"StmtGroup"} \subseteq AllKinds
        /\ {"ConditionalElse"} \subseteq AllKinds
        /\ {"Reference"} \subseteq AllKinds
    BY DEF AllKinds, Expressions, Types, Stmts, Modules
  <2> QED BY <2>1, <2>2 DEF Pointee
<1>3. "none" \notin Modules
  BY KindSets
<1> QED BY <1>1, <1>2, <1>3 DEF Takes

(* A new node gets the attributes that its pointers take.                  *)
LEMMA FilledFine ==
  ASSUME NEW w, TreeFine(ir), Top \in FrameSet(w, ir), NEW s, NEW p,
         FrameFits(w, ir, Top, s, p), NEW kind \in ReadKinds, NEW pointers,
         Len(pointers) \in 0 .. 3,
         \A i \in 1 .. Len(pointers) :
           Attribute(s, Len(pointers) + 1 - i) \subseteq Takes(pointers[i])
  PROVE  /\ NodeFine(ir, Filled(New(kind), pointers))
         /\ Filled(New(kind), pointers).kind = kind
<1>1. PICK P : P = Pointers(kind)
  OBVIOUS
<1>2. PICK to : to = [f \in P |->
          IF \E i \in 1 .. Len(pointers) : pointers[i] = f
          THEN LET i == CHOOSE j \in 1 .. Len(pointers) : pointers[j] = f
               IN  <<Top.got[Len(Top.got) - Len(pointers) + i]>>
          ELSE <<>>]
  OBVIOUS
<1>3. New(kind) = [kind |-> kind, info |-> FALSE, width |-> FALSE,
                   to |-> [f \in P |-> <<>>]]
  BY <1>1 DEF New
<1>4. PICK x : /\ x = Filled(New(kind), pointers) /\ x.kind = kind /\ x.to = to
               /\ x \in [kind : ReadKinds, info : BOOLEAN, width : BOOLEAN,
                         to : {to}]
  <2>1. PICK base : base = New(kind)
    OBVIOUS
  <2>2. PICK mid : mid = [f \in DOMAIN base.to |->
          IF \E i \in 1 .. Len(pointers) : pointers[i] = f
          THEN LET i == CHOOSE j \in 1 .. Len(pointers) : pointers[j] = f
               IN  <<Top.got[Len(Top.got) - Len(pointers) + i]>>
          ELSE base.to[f]]
    OBVIOUS
  <2>3. Filled(base, pointers) = [base EXCEPT !.to = mid]
    BY <2>2 DEF Filled
  <2>4. base.to = [f \in P |-> <<>>]
    BY <1>3, <2>1
  <2>5. DOMAIN base.to = P /\ \A f \in P : base.to[f] = <<>>
    BY <2>4
  <2>6. mid = to
    BY <1>2, <2>2, <2>5
  <2>7. base \in [kind : {kind}, info : BOOLEAN, width : BOOLEAN,
                  to : {base.to}]
    BY <1>3, <2>1
  <2>8. PICK x : x = [base EXCEPT !.to = to]
    OBVIOUS
  <2>9. /\ x.kind = kind /\ x.to = to
        /\ x \in [kind : ReadKinds, info : BOOLEAN, width : BOOLEAN, to : {to}]
    BY <2>7, <2>8
  <2>10. x = Filled(New(kind), pointers)
    BY <2>1, <2>3, <2>6, <2>8
  <2> QED BY <2>9, <2>10
<1>5. ASSUME NEW f \in P, \E i \in 1 .. Len(pointers) : pointers[i] = f
      PROVE  \E n \in 1 .. Len(ir) :
               to[f] = <<n>> /\ ir[n].kind \in Pointee(f) \ Unread
  <2>1. PICK i : /\ i = (CHOOSE j \in 1 .. Len(pointers) : pointers[j] = f)
                 /\ i \in 1 .. Len(pointers) /\ pointers[i] = f
    BY <1>5
  <2>2. to[f] = <<Top.got[Len(Top.got) - Len(pointers) + i]>>
    BY <1>2, <1>5, <2>1
  <2>3. PICK k \in 1 .. 3 : k = Len(pointers) + 1 - i
    <3>1. Len(pointers) \in 0 .. 3 /\ i \in 1 .. Len(pointers)
      BY <2>1
    <3>2. PICK n \in 0 .. 3 : n = Len(pointers)
      BY <3>1
    <3>3. n + 1 - i \in 1 .. 3
      <4>1. i \in 1 .. n
        BY <3>1, <3>2
      <4>2. n \in Int /\ i \in Int /\ 1 <= i /\ i <= n /\ n <= 3
        BY <4>1
      <4> QED BY <4>2
    <3>4. Len(pointers) + 1 - i \in 1 .. 3
      BY <3>2, <3>3
    <3> QED BY <3>4
  <2>4. Attribute(s, k) \subseteq Takes(f)
    BY <2>1, <2>3
  <2>5. f # "mModules"
    BY <1>1, <1>5, NoModules
  <2>6. Takes(f) = Pointee(f) \ Unread
    BY <2>5 DEF Takes
  <2>7. "none" \notin Takes(f)
    BY TakesKinds
  <2>8. /\ Top.got[Len(Top.got) - k + 1] \in 1 .. Len(ir)
        /\ ir[Top.got[Len(Top.got) - k + 1]].kind \in Attribute(s, k)
    BY <2>3, <2>4, <2>7, KindGot
  <2>9. Top.got \in Seq(1 .. Len(ir))
    BY DEF FrameSet
  <2>10. Len(Top.got) - k + 1 = Len(Top.got) - Len(pointers) + i
    <3>1. /\ Len(Top.got) \in Nat /\ Len(pointers) \in 0 .. 3
          /\ i \in 1 .. Len(pointers)
          /\ k = Len(pointers) + 1 - i
      BY <2>1, <2>3, <2>9
    <3> QED BY <3>1
  <2> QED BY <2>2, <2>4, <2>6, <2>8, <2>10
<1>6. ASSUME NEW f \in P, ~ \E i \in 1 .. Len(pointers) : pointers[i] = f
      PROVE  to[f] = <<>>
  BY <1>2, <1>6
<1>7. ASSUME NEW f \in P
      PROVE  /\ to[f] \in Seq(1 .. Len(ir))
             /\ \A i \in 1 .. Len(to[f]) :
                ir[to[f][i]].kind \in Pointee(f) \ Unread
  <2>1. CASE \E i \in 1 .. Len(pointers) : pointers[i] = f
    <3>1. PICK n \in 1 .. Len(ir) : to[f] = <<n>>
               /\ ir[n].kind \in Pointee(f) \ Unread
      BY <1>5, <2>1
    <3>2. PICK I : I = 1 .. Len(ir)
      OBVIOUS
    <3>3. <<n>> \in Seq(I) /\ Len(<<n>>) = 1 /\ <<n>>[1] = n
      BY <3>2
    <3>4. \A i \in 1 .. Len(<<n>>) : <<n>>[i] = n
      BY <3>3
    <3> QED BY <3>1, <3>2, <3>3, <3>4
  <2>2. CASE ~ \E i \in 1 .. Len(pointers) : pointers[i] = f
    <3>1. to[f] = <<>>
      BY <1>6, <2>2
    <3>2. Len(<<>>) = 0 /\ <<>> \in Seq(1 .. Len(ir)) /\ 1 .. 0 = {}
      OBVIOUS
    <3> QED BY <3>1, <3>2
  <2> QED BY <2>1, <2>2
<1>8. to \in [P -> Seq(1 .. Len(ir))]
  <2>1. to = [f \in P |-> to[f]]
    BY <1>2
  <2>2. \A f \in P : to[f] \in Seq(1 .. Len(ir))
    BY <1>7
  <2> QED BY <2>1, <2>2
<1>9. NodeFine(ir, x)
  BY <1>1, <1>4, <1>7, <1>8 DEF NodeFine
<1> QED BY <1>4, <1>9

-----------------------------------------------------------------------------
(* Frames and choices stay what they are as the tree grows.                *)
LEMMA FramesGrow ==
  ASSUME NEW w, NEW h, NEW g, Grown(h, g)
  PROVE  /\ FrameSet(w, h) \subseteq FrameSet(w, g)
         /\ Seq(FrameSet(w, h)) \subseteq Seq(FrameSet(w, g))
         /\ Seq(1 .. Len(h)) \subseteq Seq(1 .. Len(g))
<1>1. PICK I : I = 1 .. Len(h)
  OBVIOUS
<1>2. PICK J : J = 1 .. Len(g)
  OBVIOUS
<1>3. I \subseteq J
  BY <1>1, <1>2 DEF Grown
<1>4. Seq(I) \subseteq Seq(J)
  BY <1>3
<1>5. FrameSet(w, h) \subseteq FrameSet(w, g)
  <2>1. ASSUME NEW x \in FrameSet(w, h)
        PROVE  x \in FrameSet(w, g)
    <3>1. x \in [rule : DOMAIN Grammar \cup {NULL}, val : I \cup {NULL},
                 got : Seq(I), start : 1 .. Len(w) + 1]
      BY <1>1 DEF FrameSet
    <3>2. x \in [rule : DOMAIN Grammar \cup {NULL}, val : J \cup {NULL},
                 got : Seq(J), start : 1 .. Len(w) + 1]
      BY <1>3, <1>4, <3>1
    <3> QED BY <1>2, <3>2 DEF FrameSet
  <2> QED BY <2>1
<1>6. PICK S : S = FrameSet(w, h)
  OBVIOUS
<1>7. PICK T1 : T1 = FrameSet(w, g)
  OBVIOUS
<1>8. Seq(S) \subseteq Seq(T1)
  <2>1. S \subseteq T1
    BY <1>5, <1>6, <1>7
  <2> QED BY <2>1
<1> QED BY <1>1, <1>2, <1>4, <1>5, <1>6, <1>7, <1>8

(* Choices stay fine as the tree grows and the parser goes on.             *)
LEMMA ChoicesGrow ==
  ASSUME NEW h, NEW g, Grown(h, g), NEW F, NEW G, Len(G) = Len(F), NEW p,
         NEW o,
         p \in Nat, o \in Nat, p <= o, NEW ch, ChoicesFine(h, F, p, ch)
  PROVE  ChoicesFine(g, G, o, ch)
<1>1. Seq(1 .. Len(h)) \subseteq Seq(1 .. Len(g))
  BY FramesGrow
<1>2. ASSUME NEW i \in 1 .. Len(ch)
      PROVE  /\ ch[i].pos \in 1 .. o /\ ch[i].depth \in 1 .. Len(G)
             /\ ch[i].got \in Seq(1 .. Len(g))
  BY <1>1 DEF ChoicesFine
<1> QED BY <1>2 DEF ChoicesFine

(* And so do the frames.                                                   *)
LEMMA ShapesGrow ==
  ASSUME NEW w, NEW h, NEW g, Grown(h, g), NEW F, NEW G, NEW p, NEW ch,
         Shapes(w, h, F, p, ch), G \in Seq(FrameSet(w, g)), Len(G) = Len(F)
  PROVE  Shapes(w, g, G, p, ch)
<1>1. Grown(g, g)
  BY DEF Grown
<1>2. p \in Nat
  BY DEF Shapes
<1>3. ChoicesFine(g, G, p, ch)
  <2>1. ChoicesFine(h, F, p, ch) /\ p <= p
    BY <1>2 DEF Shapes
  <2> QED BY <1>2, <2>1, ChoicesGrow
<1> QED BY <1>1, <1>3 DEF Shapes

-----------------------------------------------------------------------------
(* The last rule's frame with another node or other attributes, and more   *)
(* nodes than before.                                                      *)
OnTop(F, x) == [F EXCEPT ![Len(F)] = x]

(* There is always a frame on top.                                         *)
LEMMA TopFrame ==
  ASSUME NEW w, NEW h, NEW F, NEW p, NEW ch, Shapes(w, h, F, p, ch)
  PROVE  Len(F) \in 1 .. Len(F) /\ F[Len(F)] \in FrameSet(w, h)
BY DEF Shapes

(* The frame on top is another: what is left can match, if the new one     *)
(* fits.                                                                   *)
LEMMA TopPlace ==
  ASSUME NEW w, NEW h, NEW g, Grown(h, g), NEW F, NEW p, NEW ch,
         Shapes(w, h, F, p, ch),
         NEW B, NEW s, NEW D, Holds(w, h, F, p, ch, B, s, D),
         NEW x \in FrameSet(w, g), x.rule = F[Len(F)].rule,
         x.start = F[Len(F)].start,
         x.val = F[Len(F)].val \/ ~ s.kept,
         NEW u, u.kept = s.kept, u.slack = s.slack, s.slack \in Nat,
         FrameFits(w, g, x, u, p), NEW t, Below(u, t), NEW r, Runs(r, B, t, D)
  PROVE  Place(w, g, r, OnTop(F, x), p, ch) /\ Shapes(w, g, OnTop(F, x), p, ch)
<1>1. PICK G : G = OnTop(F, x)
  OBVIOUS
<1>2. PICK S : S = FrameSet(w, g)
  OBVIOUS
<1>3. F \in Seq(S) /\ Len(F) \in 1 .. Len(F) /\ x \in S
  BY <1>2, FramesGrow, TopFrame DEF Shapes
<1>4. /\ G \in Seq(S) /\ Len(G) = Len(F) /\ G[Len(F)] = x
      /\ \A j \in 1 .. Len(F) : j # Len(F) => G[j] = F[j]
  BY <1>1, <1>3, Replaced DEF OnTop
<1>5. Renewed(F, G, s.kept)
  BY <1>3, <1>4 DEF Renewed
<1>6. Onward(s, t, p, p)
  BY DEF Onward, Below
<1>7. FrameFits(w, g, G[Len(F)], t, p)
  BY <1>4, FrameBelow
<1>8. F \in Seq(FrameSet(w, h)) /\ ChoicesFine(h, F, p, ch)
  BY DEF Shapes
<1>9. Place(w, g, r, G, p, ch)
  BY <1>2, <1>4, <1>5, <1>6, <1>7, <1>8, Advance
<1>10. Shapes(w, g, G, p, ch)
  BY <1>2, <1>4, ShapesGrow
<1> QED BY <1>1, <1>9, <1>10

(* Nothing of the rules becomes another, but nodes do.                     *)
LEMMA SamePlace ==
  ASSUME NEW w, NEW h, NEW g, Grown(h, g), NEW F, NEW p, NEW ch,
         Shapes(w, h, F, p, ch),
         NEW B, NEW s, NEW D, Holds(w, h, F, p, ch, B, s, D),
         NEW t, Below(s, t), NEW r, Runs(r, B, t, D)
  PROVE  Place(w, g, r, F, p, ch) /\ Shapes(w, g, F, p, ch)
<1>1. Onward(s, t, p, p)
  BY DEF Onward, Below
<1>2. Renewed(F, F, s.kept)
  BY DEF Renewed
<1>3. F[Len(F)] \in FrameSet(w, h)
  BY TopFrame
<1>4. FrameFits(w, g, F[Len(F)], s, p)
  BY <1>3, FrameStays DEF Holds, StackFits
<1>5. FrameFits(w, g, F[Len(F)], t, p)
  BY <1>4, FrameBelow
<1>6. F \in Seq(FrameSet(w, h)) /\ F \in Seq(FrameSet(w, g))
      /\ ChoicesFine(h, F, p, ch)
  BY FramesGrow DEF Shapes
<1>7. Place(w, g, r, F, p, ch)
  BY <1>1, <1>2, <1>5, <1>6, Advance
<1> QED BY <1>6, <1>7, ShapesGrow

-----------------------------------------------------------------------------
(* The semantic actions, wherever one is due.                              *)
Gains(g, kind, pointers) == g = Append(ir, Filled(New(kind), pointers))

(* The node of a rule is made.                                             *)
LEMMA MakePlace ==
  ASSUME NEW w, TreeFine(ir), Shapes(w, ir, frames, pos, choices),
         Place(w, ir, agenda, frames, pos, choices),
         agenda # <<>>, Head(agenda).item = "make",
         NEW g, Gains(g, Head(agenda).kind, Head(agenda).fields)
  PROVE  /\ TreeFine(g) /\ Len(g) = Len(ir) + 1
         /\ Place(w, g, Tail(agenda),
                  OnTop(frames, WithNode(Top, Len(ir) + 1)), pos, choices)
         /\ Shapes(w, g, OnTop(frames, WithNode(Top, Len(ir) + 1)), pos,
                   choices)
<1>1. PICK B, s, D, t, Q : /\ Holds(w, ir, frames, pos, choices, B, s, D)
                           /\ Local(Q, Head(agenda), s, t)
                           /\ Below(s, s) /\ Runs(Tail(agenda), B, t, D)
  BY ItemStep
<1>2. MakeStep(Head(agenda).kind, Head(agenda).fields, s, t)
  <2>1. s.val # {}
    <3>1. FrameFits(w, ir, Top, s, pos)
      BY <1>1 DEF Holds, StackFits, Top
    <3> QED BY <3>1 DEF FrameFits
  <2> QED BY <1>1, <2>1 DEF Local
<1>3. PICK kind, pointers : kind = Head(agenda).kind
           /\ pointers = Head(agenda).fields
  OBVIOUS
<1>4. FrameFits(w, ir, Top, s, pos) /\ Top \in FrameSet(w, ir)
  BY <1>1, TopFrame DEF Holds, StackFits, Top
<1>5. PICK x : x = Filled(New(kind), pointers)
  OBVIOUS
<1>6. NodeFine(ir, x) /\ x.kind = kind
  <2>1. MakeStep(kind, pointers, s, t)
    BY <1>2, <1>3
  <2>2. /\ kind \in ReadKinds /\ Len(pointers) \in 0 .. 3
        /\ \A i \in 1 .. Len(pointers) :
             Attribute(s, Len(pointers) + 1 - i) \subseteq Takes(pointers[i])
    BY <2>1 DEF MakeStep
  <2>3. NodeFine(ir, Filled(New(kind), pointers))
        /\ Filled(New(kind), pointers).kind = kind
    BY <1>4, <2>2, FilledFine
  <2> QED BY <1>5, <2>3
<1>7. PICK n : n = Len(ir) + 1
  OBVIOUS
<1>8. /\ TreeFine(g) /\ Grown(ir, g) /\ Len(g) = n /\ n \in 1 .. Len(g)
      /\ g[n].kind \in {kind}
  BY <1>3, <1>5, <1>6, <1>7, TreeLonger DEF Gains
<1>9. /\ WithNode(Top, n) \in FrameSet(w, g)
      /\ FrameFits(w, g, WithNode(Top, n), Valued(s, {kind}), pos)
      /\ WithNode(Top, n).rule = Top.rule
      /\ WithNode(Top, n).start = Top.start
  <2>1. PICK K : K = {kind}
    OBVIOUS
  <2>2. g[n].kind \in K /\ Grown(ir, g) /\ n \in 1 .. Len(g)
    BY <1>8, <2>1
  <2>3. /\ WithNode(Top, n) \in FrameSet(w, g)
        /\ FrameFits(w, g, WithNode(Top, n), Valued(s, K), pos)
        /\ WithNode(Top, n).rule = Top.rule
        /\ WithNode(Top, n).start = Top.start
    BY <1>4, <2>2, Renoded
  <2> QED BY <2>1, <2>3
<1>10. PICK u : u = Valued(s, {kind})
  OBVIOUS
<1>13. u.kept = s.kept /\ u.slack = s.slack
  BY <1>10 DEF Valued, State
<1>11. ~ s.kept /\ Below(u, t) /\ s.slack \in Nat
  BY <1>1, <1>2, <1>3, <1>10 DEF MakeStep, Below
<1>12. /\ Place(w, g, Tail(agenda), OnTop(frames, WithNode(Top, n)), pos,
                choices)
       /\ Shapes(w, g, OnTop(frames, WithNode(Top, n)), pos, choices)
  BY <1>1, <1>8, <1>9, <1>10, <1>11, <1>13, TopPlace DEF Top
<1> QED BY <1>7, <1>8, <1>12

(* A node is made around the last attribute.                               *)
LEMMA WrapPlace ==
  ASSUME NEW w, TreeFine(ir), Shapes(w, ir, frames, pos, choices),
         Place(w, ir, agenda, frames, pos, choices),
         agenda # <<>>, Head(agenda).item = "wrap",
         NEW g, Gains(g, Head(agenda).kind, <<Head(agenda).field>>)
  PROVE  /\ TreeFine(g) /\ Len(g) = Len(ir) + 1
         /\ Place(w, g, Tail(agenda), OnTop(frames, WithOne(Top, Len(ir) + 1)),
                  pos, choices)
         /\ Shapes(w, g, OnTop(frames, WithOne(Top, Len(ir) + 1)), pos,
                   choices)
<1>1. PICK B, s, D, t, Q : /\ Holds(w, ir, frames, pos, choices, B, s, D)
                           /\ Local(Q, Head(agenda), s, t)
                           /\ Below(s, s) /\ Runs(Tail(agenda), B, t, D)
  BY ItemStep
<1>2. PICK kind, field0 : kind = Head(agenda).kind
           /\ field0 = Head(agenda).field
  OBVIOUS
<1>3. /\ kind \in ReadKinds /\ s.last \subseteq Takes(field0)
      /\ Below(Pushed(s, {kind}), t)
  BY <1>1, <1>2 DEF Local
<1>4. FrameFits(w, ir, Top, s, pos) /\ Top \in FrameSet(w, ir)
  BY <1>1, TopFrame DEF Holds, StackFits, Top
<1>5. PICK x, pointers : pointers = <<field0>>
           /\ x = Filled(New(kind), pointers)
  OBVIOUS
<1>6. NodeFine(ir, x) /\ x.kind = kind
  <2>1. Len(pointers) = 1 /\ pointers[1] = field0 /\ Len(pointers) \in 0 .. 3
    BY <1>5
  <2>2. Attribute(s, 1) = s.last
    BY DEF Attribute
  <2>3. ASSUME NEW i \in 1 .. Len(pointers)
        PROVE  Attribute(s, Len(pointers) + 1 - i) \subseteq Takes(pointers[i])
    <3>1. i = 1 /\ Len(pointers) + 1 - i = 1
      BY <2>1
    <3> QED BY <1>3, <2>1, <2>2, <3>1
  <2>4. NodeFine(ir, Filled(New(kind), pointers))
        /\ Filled(New(kind), pointers).kind = kind
    <3>1. /\ kind \in ReadKinds /\ Len(pointers) \in 0 .. 3
          /\ \A i \in 1 .. Len(pointers) :
               Attribute(s, Len(pointers) + 1 - i) \subseteq Takes(pointers[i])
      BY <1>3, <2>1, <2>3
    <3> QED BY <1>4, <3>1, FilledFine
  <2> QED BY <1>5, <2>4
<1>7. PICK n : n = Len(ir) + 1
  OBVIOUS
<1>8. /\ TreeFine(g) /\ Grown(ir, g) /\ Len(g) = n /\ n \in 1 .. Len(g)
      /\ g[n].kind \in {kind}
  BY <1>2, <1>5, <1>6, <1>7, TreeLonger DEF Gains
<1>9. /\ WithOne(Top, n) \in FrameSet(w, g)
      /\ FrameFits(w, g, WithOne(Top, n), Pushed(s, {kind}), pos)
      /\ WithOne(Top, n).rule = Top.rule
      /\ WithOne(Top, n).start = Top.start
      /\ WithOne(Top, n).val = Top.val
  <2>1. PICK K : K = {kind}
    OBVIOUS
  <2>2. g[n].kind \in K /\ Grown(ir, g) /\ n \in 1 .. Len(g)
    BY <1>8, <2>1
  <2>3. /\ WithOne(Top, n) \in FrameSet(w, g)
        /\ FrameFits(w, g, WithOne(Top, n), Pushed(s, K), pos)
        /\ WithOne(Top, n).rule = Top.rule
        /\ WithOne(Top, n).start = Top.start
        /\ WithOne(Top, n).val = Top.val
    BY <1>4, <2>2, Regot
  <2> QED BY <2>1, <2>3
<1>10. PICK u : u = Pushed(s, {kind})
  OBVIOUS
<1>13. u.kept = s.kept /\ u.slack = s.slack
  BY <1>10 DEF Pushed, State
<1>11. Below(u, t) /\ s.slack \in Nat
  BY <1>1, <1>3, <1>10 DEF Below
<1>12. /\ Place(w, g, Tail(agenda), OnTop(frames, WithOne(Top, n)), pos,
                choices)
       /\ Shapes(w, g, OnTop(frames, WithOne(Top, n)), pos, choices)
  BY <1>1, <1>8, <1>9, <1>10, <1>11, <1>13, TopPlace DEF Top
<1> QED BY <1>7, <1>8, <1>12

(* The last attribute is taken for the rule's node.                        *)
LEMMA TakePlace ==
  ASSUME NEW w, TreeFine(ir), Shapes(w, ir, frames, pos, choices),
         Place(w, ir, agenda, frames, pos, choices),
         agenda # <<>>, Head(agenda).item = "take"
  PROVE  /\ Place(w, ir, Tail(agenda),
                  OnTop(frames, WithNode(Top, Last(Top.got))), pos, choices)
         /\ Shapes(w, ir, OnTop(frames, WithNode(Top, Last(Top.got))), pos,
                   choices)
<1>1. PICK B, s, D, t, Q : /\ Holds(w, ir, frames, pos, choices, B, s, D)
                           /\ Local(Q, Head(agenda), s, t)
                           /\ Below(s, s) /\ Runs(Tail(agenda), B, t, D)
  BY ItemStep
<1>2. ~ s.kept /\ "none" \notin s.last /\ Below(Valued(s, s.last), t)
  BY <1>1 DEF Local
<1>3. FrameFits(w, ir, Top, s, pos) /\ Top \in FrameSet(w, ir)
  BY <1>1, TopFrame DEF Holds, StackFits, Top
<1>4. PICK n : n = Last(Top.got)
  OBVIOUS
<1>5. n \in 1 .. Len(ir) /\ ir[n].kind \in s.last
  BY <1>2, <1>3, <1>4, LastGot
<1>6. Grown(ir, ir)
  BY TreeKinds
<1>7. /\ WithNode(Top, n) \in FrameSet(w, ir)
      /\ FrameFits(w, ir, WithNode(Top, n), Valued(s, s.last), pos)
      /\ WithNode(Top, n).rule = Top.rule
      /\ WithNode(Top, n).start = Top.start
  BY <1>3, <1>5, <1>6, Renoded
<1>8. PICK u : u = Valued(s, s.last)
  OBVIOUS
<1>11. u.kept = s.kept /\ u.slack = s.slack
  BY <1>8 DEF Valued, State
<1>9. Below(u, t) /\ s.slack \in Nat
  BY <1>1, <1>2, <1>8 DEF Below
<1>10. /\ Place(w, ir, Tail(agenda), OnTop(frames, WithNode(Top, n)), pos,
                choices)
       /\ Shapes(w, ir, OnTop(frames, WithNode(Top, n)), pos, choices)
  BY <1>1, <1>2, <1>6, <1>7, <1>8, <1>9, <1>11, TopPlace DEF Top
<1> QED BY <1>4, <1>10

-----------------------------------------------------------------------------
(* The actions that change the rule's node: it is there.                   *)
LEMMA ChangePlace ==
  ASSUME NEW w, TreeFine(ir), Shapes(w, ir, frames, pos, choices),
         Place(w, ir, agenda, frames, pos, choices),
         agenda # <<>>, Head(agenda).item
           \in {"attach", "set", "info", "width"}
  PROVE  /\ Top.val \in 1 .. Len(ir)
         /\ \A g : Grown(ir, g) =>
              /\ Place(w, g, Tail(agenda), frames, pos, choices)
              /\ Shapes(w, g, frames, pos, choices)
<1>1. PICK B, s, D, t, Q : /\ Holds(w, ir, frames, pos, choices, B, s, D)
                           /\ Local(Q, Head(agenda), s, t)
                           /\ Below(s, s) /\ Runs(Tail(agenda), B, t, D)
  BY ItemStep
<1>2. "none" \notin s.val /\ Below(s, t)
  BY <1>1 DEF Local
<1>3. FrameFits(w, ir, Top, s, pos)
  BY <1>1 DEF Holds, StackFits, Top
<1>4. Top.val \in 1 .. Len(ir)
  BY <1>2, <1>3, KindMade DEF FrameFits
<1>5. ASSUME NEW g, Grown(ir, g)
      PROVE  /\ Place(w, g, Tail(agenda), frames, pos, choices)
             /\ Shapes(w, g, frames, pos, choices)
  BY <1>1, <1>2, <1>5, SamePlace
<1> QED BY <1>4, <1>5

(* What is attached is of a kind that the pointer takes.                   *)
LEMMA AttachGives ==
  ASSUME NEW w, TreeFine(ir), Shapes(w, ir, frames, pos, choices),
         Place(w, ir, agenda, frames, pos, choices),
         agenda # <<>>, Head(agenda).item = "attach"
  PROVE  /\ Last(Top.got) \in 1 .. Len(ir)
         /\ ir[Last(Top.got)].kind \in Takes(Head(agenda).field)
<1>1. PICK B, s, D, t, Q : /\ Holds(w, ir, frames, pos, choices, B, s, D)
                           /\ Local(Q, Head(agenda), s, t)
  BY ItemStep
<1>2. s.last \subseteq Takes(Head(agenda).field)
  BY <1>1 DEF Local
<1>3. FrameFits(w, ir, Top, s, pos) /\ Top \in FrameSet(w, ir)
  BY <1>1, TopFrame DEF Holds, StackFits, Top
<1>4. "none" \notin s.last
  BY <1>2, TakesKinds
<1> QED BY <1>2, <1>3, <1>4, LastGot

(* The pointer it is given to, and what the pointer leads to then.         *)
Attaches(v, to, child, targets) ==
  targets = IF to \in Lists THEN Append(ir[v].to[to], child) ELSE <<child>>
Leads(pointer, child, to) == to = PointerOf(pointer, child)

(* A node stays fine when a pointer of it is given what it takes.          *)
LEMMA AttachFine ==
  ASSUME TreeFine(ir), NEW v \in 1 .. Len(ir), NEW child \in 1 .. Len(ir),
         NEW pointer,
         ir[child].kind \in Takes(pointer), NEW to, Leads(pointer, child, to),
         NEW targets, Attaches(v, to, child, targets)
  PROVE  /\ NodeFine(ir, Pointing(ir[v], to, targets))
         /\ Pointing(ir[v], to, targets).kind = ir[v].kind
<1>1. ir[child].kind \in Pointee(to) \ Unread
  <2>1. CASE pointer # "mModules"
    BY <2>1 DEF PointerOf, Takes, Leads
  <2>2. CASE pointer = "mModules"
    <3>1. ir[child].kind \in {"Module", "ExtModule"} \ Unread
      BY <2>2 DEF Takes, Modules
    <3>2. Pointee("mExternalModules") = {"ExtModule"}
          /\ Pointee("mInternalModules") = {"Module"}
      BY DEF Pointee
    <3> QED BY <2>2, <3>1, <3>2 DEF PointerOf, Leads
  <2> QED BY <2>1, <2>2
<1>2. NodeFine(ir, ir[v])
  BY DEF TreeFine
<1>3. ASSUME to \in Pointers(ir[v].kind)
      PROVE  /\ targets \in Seq(1 .. Len(ir))
             /\ \A i \in 1 .. Len(targets) :
                ir[targets[i]].kind \in Pointee(to) \ Unread
  <2>1. PICK I : I = 1 .. Len(ir)
    OBVIOUS
  <2>2. PICK f : f = ir[v].to[to]
    OBVIOUS
  <2>3. /\ f \in Seq(I)
        /\ \A i \in 1 .. Len(f) : ir[f[i]].kind \in Pointee(to) \ Unread
    BY <1>2, <1>3, <2>1, <2>2 DEF NodeFine
  <2>4. CASE to \in Lists
    <3>1. targets = Append(f, child)
      BY <2>2, <2>4 DEF Attaches
    <3>2. child \in I /\ Len(f) \in Nat
      BY <2>1, <2>3
    <3>3. /\ targets \in Seq(I) /\ Len(targets) = Len(f) + 1
          /\ targets[Len(f) + 1] = child
          /\ \A i \in 1 .. Len(f) : targets[i] = f[i]
      BY <2>3, <3>1, <3>2
    <3>4. ASSUME NEW i \in 1 .. Len(targets)
          PROVE  ir[targets[i]].kind \in Pointee(to) \ Unread
      <4>1. i \in 1 .. Len(f) \/ i = Len(f) + 1
        BY <3>2, <3>3
      <4> QED BY <1>1, <2>3, <3>3, <4>1
    <3> QED BY <2>1, <3>3, <3>4
  <2>5. CASE to \notin Lists
    <3>1. targets = <<child>>
      BY <2>5 DEF Attaches
    <3>2. <<child>> \in Seq(I) /\ \A i \in 1 .. Len(<<child>>) :
          <<child>>[i] = child
      BY <2>1
    <3> QED BY <1>1, <2>1, <3>1, <3>2
  <2> QED BY <2>4, <2>5
<1> QED BY <1>2, <1>3, PointingFine

-----------------------------------------------------------------------------
(* The frames and the choices after each step of the descent.              *)
LEMMA ChoicesHere ==
  ASSUME NEW h, NEW F, NEW G, NEW p, NEW ch, ChoicesFine(h, F, p, ch),
         \A i \in 1 .. Len(ch) : ch[i].depth \in 1 .. Len(G)
  PROVE  ChoicesFine(h, G, p, ch)
BY DEF ChoicesFine

(* The frames of the same rules; and choices made where these were.        *)
SameRules(F, G) ==
  \A j \in 1 .. Len(G) : G[j].rule = F[j].rule /\ G[j].start = F[j].start

Deepest(ch, n) == \A i \in 1 .. Len(ch) : ch[i].depth \in 1 .. n

(* Frames and choices after a call.                                        *)
LEMMA CallShapes ==
  ASSUME NEW w, NEW h, NEW F, NEW p, NEW ch, Shapes(w, h, F, p, ch),
         NEW new \in FrameSet(w, h)
  PROVE  /\ Shapes(w, h, Append(F, new), p, ch)
         /\ Len(Append(F, new)) = Len(F) + 1
         /\ \A j \in 1 .. Len(F) : Append(F, new)[j] = F[j]
         /\ Append(F, new)[Len(F) + 1] = new
<1>1. PICK S : S = FrameSet(w, h)
  OBVIOUS
<1>2. PICK G : G = Append(F, new)
  OBVIOUS
<1>3. F \in Seq(S) /\ Len(F) \in Nat
  BY <1>1 DEF Shapes
<1>4. /\ G \in Seq(S) /\ Len(G) = Len(F) + 1
      /\ \A j \in 1 .. Len(F) : G[j] = F[j]
      /\ G[Len(F) + 1] = new
  BY <1>1, <1>2, <1>3
<1>5. \A i \in 1 .. Len(ch) : ch[i].depth \in 1 .. Len(G)
  BY <1>3, <1>4 DEF Shapes, ChoicesFine
<1>6. ChoicesFine(h, G, p, ch)
  BY <1>5, ChoicesHere DEF Shapes
<1>7. Len(G) >= 1
  BY <1>3, <1>4
<1>8. Shapes(w, h, G, p, ch)
  BY <1>1, <1>4, <1>6, <1>7 DEF Shapes
<1> QED BY <1>2, <1>4, <1>8

(* After a return.                                                         *)
LEMMA ReturnShapes ==
  ASSUME NEW w, NEW h, NEW F, NEW p, NEW ch, Shapes(w, h, F, p, ch),
         Len(F) >= 2,
         F[Len(F)].val \in 1 .. Len(h),
         Deepest(ch, Len(F) - 1)
  PROVE  /\ Shapes(w, h, Ended(F), p, ch) /\ Len(Ended(F)) = Len(F) - 1
         /\ SameRules(F, Ended(F))
<1>1. F \in Seq(FrameSet(w, h)) /\ Len(F) \in Nat /\ Grown(h, h)
  BY DEF Shapes
<1>2. PICK m \in Nat \ {0} : m = Len(F) - 1 /\ Len(F) = m + 1
  BY <1>1
<1>3. PICK G : G = Ended(F)
  OBVIOUS
<1>4. G \in Seq(FrameSet(w, h)) /\ Len(G) = m /\ SameUpTo(F, G, m)
  <2>1. F[m + 1].val \in 1 .. Len(h)
    BY <1>2
  <2> QED BY <1>1, <1>2, <1>3, <2>1, EndedFrames
<1>5. \A i \in 1 .. Len(ch) : ch[i].depth \in 1 .. Len(G)
  BY <1>2, <1>4 DEF Deepest
<1>6. ChoicesFine(h, G, p, ch)
  BY <1>5, ChoicesHere DEF Shapes
<1>7. Shapes(w, h, G, p, ch)
  BY <1>4, <1>6 DEF Shapes
<1> QED BY <1>2, <1>3, <1>4, <1>7 DEF SameUpTo, SameRules

(* With one choice more.                                                   *)
LEMMA AddedShapes ==
  ASSUME NEW w, NEW h, NEW F, NEW p, NEW ch, Shapes(w, h, F, p, ch), NEW a,
         NEW c,
         GoesBack(c, F, p, a)
  PROVE  Shapes(w, h, F, p, Append(ch, c))
<1>1. PICK co : co = Append(ch, c)
  OBVIOUS
<1>2. IsSeq(ch)
  BY DEF Shapes, ChoicesFine
<1>3. /\ IsSeq(co) /\ Len(ch) \in Nat /\ Len(co) = Len(ch) + 1
      /\ \A i \in 1 .. Len(ch) : co[i] = ch[i]
      /\ co[Len(ch) + 1] = c
  BY <1>1, <1>2, SeqLonger
<1>4. /\ p \in 1 .. Len(w) + 1 /\ p \in Nat
      /\ c.pos = p /\ c.depth \in 1 .. Len(F) /\ c.got \in Seq(1 .. Len(h))
  <2>1. F[Len(F)] \in FrameSet(w, h) /\ Len(F) \in 1 .. Len(F)
    BY TopFrame
  <2>2. F[Len(F)].got \in Seq(1 .. Len(h))
    BY <2>1 DEF FrameSet
  <2>3. c.pos = p /\ c.depth = Len(F) /\ c.got = F[Len(F)].got
    BY DEF GoesBack
  <2>4. p \in 1 .. Len(w) + 1 /\ p \in Nat
    BY DEF Shapes
  <2>5. c.depth \in 1 .. Len(F)
    BY <2>1, <2>3, Zenon
  <2>6. c.got \in Seq(1 .. Len(h))
    BY <2>2, <2>3, Zenon
  <2> QED BY <2>3, <2>4, <2>5, <2>6
<1>5. \A i \in 1 .. Len(co) : i \in 1 .. Len(ch) \/ i = Len(ch) + 1
  BY <1>3
<1>6. p \in 1 .. p
  BY <1>4
<1>7. ASSUME NEW i \in 1 .. Len(co)
      PROVE  /\ co[i].pos \in 1 .. p /\ co[i].depth \in 1 .. Len(F)
             /\ co[i].got \in Seq(1 .. Len(h))
  <2>1. CASE i \in 1 .. Len(ch)
    BY <1>3, <2>1 DEF Shapes, ChoicesFine
  <2>2. CASE i = Len(ch) + 1
    BY <1>3, <1>4, <1>6, <2>2
  <2> QED BY <1>5, <2>1, <2>2
<1>8. ASSUME NEW i \in 1 .. Len(co), NEW j \in 1 .. i
      PROVE  co[j].pos <= co[i].pos
  <2>1. CASE i \in 1 .. Len(ch)
    <3>1. j \in 1 .. Len(ch)
      BY <2>1
    <3>2. ch[j].pos <= ch[i].pos
      BY <2>1 DEF Shapes, ChoicesFine
    <3> QED BY <1>3, <2>1, <3>1, <3>2
  <2>2. CASE i = Len(ch) + 1
    <3>1. j \in 1 .. Len(co)
      BY <1>3, <2>2
    <3>2. co[j].pos \in 1 .. p /\ co[i].pos = p
      BY <1>3, <1>4, <1>7, <2>2, <3>1
    <3> QED BY <1>4, <3>2
  <2> QED BY <1>5, <2>1, <2>2
<1>9. ChoicesFine(h, F, p, co)
  BY <1>3, <1>7, <1>8 DEF ChoicesFine
<1> QED BY <1>1, <1>9 DEF Shapes

(* With the first choices alone.                                           *)
LEMMA CutShapes ==
  ASSUME NEW w, NEW h, NEW F, NEW p, NEW ch, Shapes(w, h, F, p, ch),
         NEW n \in 0 .. Len(ch)
  PROVE  Shapes(w, h, F, p, SubSeq(ch, 1, n))
<1>1. PICK co : co = SubSeq(ch, 1, n)
  OBVIOUS
<1>2. IsSeq(ch) /\ Len(ch) \in Nat
  BY DEF Shapes, ChoicesFine, IsSeq
<1>3. IsSeq(co) /\ Len(co) = n /\ \A i \in 1 .. n : co[i] = ch[i]
  BY <1>1, <1>2, SeqCut
<1>4. \A i \in 1 .. n : i \in 1 .. Len(ch) /\ \A j \in 1 .. i : j \in 1 .. n
  BY <1>2
<1>5. ChoicesFine(h, F, p, co)
  BY <1>3, <1>4 DEF Shapes, ChoicesFine
<1> QED BY <1>1, <1>5 DEF Shapes

(* Back at the last choice.                                                *)
LEMMA BackShapes ==
  ASSUME NEW w, NEW h, NEW F, NEW p, NEW ch, Shapes(w, h, F, p, ch), ch # <<>>,
         NEW c, c = Last(ch),
         Deepest(ch, c.depth)
  PROVE  /\ Shapes(w, h, Restored(F, c), c.pos, Front(ch))
         /\ c.pos \in 1 .. p /\ c.depth \in 1 .. Len(F)
         /\ Len(Restored(F, c)) = c.depth
         /\ SameRules(F, Restored(F, c))
<1>1. /\ IsSeq(ch) /\ F \in Seq(FrameSet(w, h)) /\ Len(F) \in Nat
      /\ p \in 1 .. Len(w) + 1 /\ p \in Nat
  BY DEF Shapes, ChoicesFine
<1>2. PICK co : co = Front(ch)
  OBVIOUS
<1>3. PICK n \in Nat \ {0} : Len(ch) = n
  BY <1>1, SeqFront
<1>4. /\ c = ch[n] /\ IsSeq(co) /\ Len(co) = n - 1
      /\ \A i \in 1 .. n - 1 : co[i] = ch[i]
  BY <1>1, <1>2, <1>3, SeqFront
<1>5. c.pos \in 1 .. p /\ c.depth \in 1 .. Len(F) /\ c.got \in Seq(1 .. Len(h))
  <2>1. n \in 1 .. Len(ch)
    BY <1>3
  <2>2. \A i \in 1 .. Len(ch) : /\ ch[i].pos \in 1 .. p
                               /\ ch[i].depth \in 1 .. Len(F)
                               /\ ch[i].got \in Seq(1 .. Len(h))
    BY DEF Shapes, ChoicesFine
  <2>3. c = ch[n]
    BY <1>4
  <2> QED BY <2>1, <2>2, <2>3
<1>6. PICK G : G = Restored(F, c)
  OBVIOUS
<1>7. /\ G \in Seq(FrameSet(w, h)) /\ Len(G) = c.depth
      /\ \A j \in 1 .. c.depth - 1 : G[j] = F[j]
      /\ G[c.depth].rule = F[c.depth].rule
      /\ G[c.depth].start = F[c.depth].start
  BY <1>1, <1>5, <1>6, RestoredFrames
<1>8. ASSUME NEW j \in 1 .. c.depth
      PROVE  G[j].rule = F[j].rule /\ G[j].start = F[j].start
  <2>1. j \in 1 .. c.depth - 1 \/ j = c.depth
    BY <1>5
  <2> QED BY <1>7, <2>1
<1>9. ASSUME NEW i \in 1 .. Len(co)
      PROVE  /\ co[i].pos \in 1 .. c.pos
             /\ co[i].depth \in 1 .. Len(G)
             /\ co[i].got \in Seq(1 .. Len(h))
  <2>1. i \in 1 .. n - 1 /\ i \in 1 .. Len(ch) /\ n \in 1 .. Len(ch)
        /\ i \in 1 .. n
    BY <1>3, <1>4
  <2>2. /\ co[i] = ch[i] /\ ch[i].pos \in 1 .. p
        /\ ch[i].got \in Seq(1 .. Len(h))
        /\ ch[i].pos <= ch[n].pos
    BY <1>4, <2>1 DEF Shapes, ChoicesFine
  <2>3. ch[i].depth \in 1 .. c.depth
    BY <2>1 DEF Deepest
  <2>4. co[i].pos \in 1 .. c.pos
    BY <1>4, <1>5, <2>2
  <2> QED BY <1>7, <2>2, <2>3, <2>4
<1>10. ASSUME NEW i \in 1 .. Len(co), NEW j \in 1 .. i
       PROVE  co[j].pos <= co[i].pos
  <2>1. i \in 1 .. n - 1 /\ j \in 1 .. n - 1 /\ i \in 1 .. Len(ch)
    BY <1>3, <1>4
  <2>2. ch[j].pos <= ch[i].pos
    BY <2>1 DEF Shapes, ChoicesFine
  <2> QED BY <1>4, <2>1, <2>2
<1>11. ChoicesFine(h, G, c.pos, co)
  BY <1>4, <1>9, <1>10 DEF ChoicesFine
<1>12. c.pos \in 1 .. Len(w) + 1 /\ Len(G) >= 1
  BY <1>1, <1>5, <1>7
<1>13. Shapes(w, h, G, c.pos, co)
  BY <1>7, <1>11, <1>12 DEF Shapes
<1> QED BY <1>2, <1>5, <1>6, <1>7, <1>8, <1>13 DEF SameRules

-----------------------------------------------------------------------------
(* The rules that have begun, in that order: no rule begins before the one *)
(* that calls it, and where both begin at one token they are of those that *)
(* may.                                                                    *)
Ordered(F, p) ==
  \A j \in 1 .. Len(F) :
    /\ F[j].start <= p
    /\ \A i \in 1 .. j - 1 :
         /\ F[i].start <= F[j].start
         /\ F[i].start = F[j].start => MayBegin(F[i].rule, F[j].rule)

(* The ranks of rules.                                                     *)
LEMMA RankKnown ==
  /\ \A r : Rank(r) \in Nat
  /\ Rank("type") = 2 /\ Rank("type_vector") = 2
<1>1. \A r : Rank(r) \in Nat
  BY DEF Rank
<1>2. NULL \notin {"type", "type_vector"}
  BY InputsAssumption, RuleNames
<1>3. Rank("type") = 2 /\ Rank("type_vector") = 2
  BY <1>2 DEF Rank
<1> QED BY <1>1, <1>3

(* Who may begin where another did, may where a third did that the other   *)
(* may begin with; and no rule may with itself, but the two of a type.     *)
LEMMA BeginsTransitive ==
  ASSUME NEW q, NEW r, NEW s, MayBegin(q, r), MayBegin(r, s)
  PROVE  MayBegin(q, s)
<1>1. \A x \in TypeLoop : Rank(x) = 2
  BY RankKnown DEF TypeLoop
<1>2. Rank(q) \in Nat /\ Rank(r) \in Nat /\ Rank(s) \in Nat
  BY RankKnown
<1>3. CASE {q, r} \subseteq TypeLoop /\ {r, s} \subseteq TypeLoop
  BY <1>3 DEF MayBegin
<1>4. CASE {q, r} \subseteq TypeLoop /\ Rank(s) < Rank(r)
  BY <1>1, <1>2, <1>4 DEF MayBegin
<1>5. CASE Rank(r) < Rank(q) /\ {r, s} \subseteq TypeLoop
  BY <1>1, <1>2, <1>5 DEF MayBegin
<1>6. CASE Rank(r) < Rank(q) /\ Rank(s) < Rank(r)
  BY <1>2, <1>6 DEF MayBegin
<1> QED BY <1>3, <1>4, <1>5, <1>6 DEF MayBegin

(* Where a rule may begin again at its token, it is one of a type.         *)
LEMMA BeginsAgain ==
  ASSUME NEW r, MayBegin(r, r)
  PROVE  r \in TypeLoop
BY RankKnown DEF MayBegin

(* The rules that are left when others have ended.                         *)
LEMMA OrderedCut ==
  ASSUME NEW F, NEW G, NEW p, NEW o, Ordered(F, p), Len(F) \in Nat,
         Len(G) \in Nat,
         Len(G) <= Len(F),
         SameRules(F, G),
         \A j \in 1 .. Len(G) : G[j].start <= o
  PROVE  Ordered(G, o)
<1> SUFFICES ASSUME NEW j \in 1 .. Len(G), NEW i \in 1 .. j - 1
             PROVE  /\ G[i].start <= G[j].start
                    /\ G[i].start = G[j].start
                       => MayBegin(G[i].rule, G[j].rule)
  BY DEF Ordered
<1>1. j \in 1 .. Len(F) /\ i \in 1 .. Len(G)
  OBVIOUS
<1> QED BY <1>1 DEF Ordered, SameRules

(* A rule that begins.                                                     *)
LEMMA OrderedCall ==
  ASSUME NEW w, Len(w) \in Nat, NEW h, NEW F \in Seq(FrameSet(w, h)),
         Len(F) >= 1, NEW p \in Nat,
         Ordered(F, p), NEW new, new.start = p,
         F[Len(F)].start < p \/ MayBegin(F[Len(F)].rule, new.rule),
         NEW G, Len(G) = Len(F) + 1, \A j \in 1 .. Len(F) : G[j] = F[j],
         G[Len(F) + 1] = new
  PROVE  Ordered(G, p)
<1>1. Len(F) \in Nat /\ \A j \in 1 .. Len(F) : F[j].start \in Nat
  <2>1. PICK S : S = FrameSet(w, h)
    OBVIOUS
  <2>2. Len(F) \in Nat /\ \A j \in 1 .. Len(F) : F[j] \in S
    BY <2>1
  <2>3. \A x \in S : x.start \in 1 .. Len(w) + 1
    BY <2>1 DEF FrameSet
  <2>4. \A x \in S : x.start \in Nat
    BY <2>3
  <2> QED BY <2>2, <2>4
<1>2. PICK n \in Nat \ {0} : n = Len(F)
  BY <1>1
<1>3. ASSUME NEW i \in 1 .. n
      PROVE  F[i].start <= p /\ (F[i].start = p
                                 => MayBegin(F[i].rule, new.rule))
  <2>1. F[i].start <= p /\ F[n].start <= p /\ F[i].start \in Nat
        /\ F[n].start \in Nat
    BY <1>1, <1>2 DEF Ordered
  <2>2. ASSUME F[i].start = p
        PROVE  MayBegin(F[i].rule, new.rule)
    <3>1. CASE i = n
      BY <1>2, <2>2, <3>1
    <3>2. CASE i # n
      <4>1. n \in 1 .. Len(F) /\ i \in 1 .. n - 1
        BY <1>2, <3>2
      <4>2. /\ F[i].start <= F[n].start
            /\ F[i].start = F[n].start => MayBegin(F[i].rule, F[n].rule)
        BY <4>1 DEF Ordered
      <4>3. F[n].start = p
        BY <2>1, <2>2, <4>2
      <4>4. MayBegin(F[i].rule, F[n].rule) /\ MayBegin(F[n].rule, new.rule)
        BY <1>2, <2>1, <2>2, <4>2, <4>3
      <4> QED BY <4>4, BeginsTransitive
    <3> QED BY <3>1, <3>2
  <2> QED BY <2>1, <2>2
<1>4. ASSUME NEW j \in 1 .. Len(G), NEW i \in 1 .. j - 1
      PROVE  /\ G[j].start <= p
             /\ G[i].start <= G[j].start
             /\ G[i].start = G[j].start => MayBegin(G[i].rule, G[j].rule)
  <2>1. CASE j = n + 1
    BY <1>2, <1>3, <2>1
  <2>2. CASE j # n + 1
    <3>1. j \in 1 .. n /\ i \in 1 .. n
      BY <1>2, <2>2
    <3> QED BY <1>2, <3>1 DEF Ordered
  <2> QED BY <2>1, <2>2
<1>5. ASSUME NEW j \in 1 .. Len(G)
      PROVE  G[j].start <= p
  <2>1. CASE j = n + 1
    BY <1>2, <2>1
  <2>2. CASE j # n + 1
    <3>1. j \in 1 .. n
      BY <1>2, <2>2
    <3> QED BY <1>2, <1>3, <3>1
  <2> QED BY <2>1, <2>2
<1> QED BY <1>4, <1>5 DEF Ordered

-----------------------------------------------------------------------------
(***************************************************************************)
(* The invariant: what is left can match from where the parser is, as all  *)
(* that is pending could from where it goes back to; the rules have begun  *)
(* in order; and the lexer that has looked behind the end of a text that   *)
(* is terminated has taken the parser there.                               *)
(***************************************************************************)
Reading ==
  /\ ahead \in pos .. Length + 1
  /\ Terminated /\ ahead = Length + 1 => pos = Length + 1
  /\ \A q \in 1 .. pos - 1 : input.tokens[q] # "flip"

Nodes == /\ TreeFine(ir) /\ IsSeq(origin) /\ IsSeq(fields)
         /\ Len(origin) = Len(ir) /\ Len(fields) = Len(ir)

Stack == /\ Shapes(input.tokens, ir, frames, pos, choices)
         /\ Len(frames) \in 1 .. MaxDepth
         /\ Ordered(frames, pos)

Inv ==
  /\ input \in Inputs
  /\ Reading
  /\ Nodes
  /\ Stack
  /\ Place(input.tokens, ir, agenda, frames, pos, choices)
  /\ status \in {"parsing"} \cup Stopped
  /\ AcceptedIsRead

(* Steps that read no token and go nowhere back.                           *)
LEMMA Steady ==
  ASSUME Inv, status = "parsing", UNCHANGED <<input, pos, ahead>>,
         status' \in {"parsing", "threw", "crashed", "overflowed", "refused"},
         Nodes', Stack',
         Place(input.tokens, ir, agenda, frames, pos, choices)'
  PROVE  Inv'
<1>1. Reading'
  BY DEF Inv, Reading, Length, Terminated
<1>2. status' \in {"parsing"} \cup Stopped /\ status' # "accepted"
  BY DEF Stopped
<1>3. AcceptedIsRead'
  BY <1>2 DEF AcceptedIsRead, Accepted
<1> QED BY <1>1, <1>2, <1>3 DEF Inv

(* A text.                                                                 *)
LEMMA TextKnown ==
  ASSUME Inv
  PROVE  /\ input.tokens \in Seq(STRING) /\ Length \in Nat
         /\ ToSet(input.tokens) \cap NoToken = {}
         /\ Terminated => Opened(input.tokens, Length + 1) = 0
         /\ pos \in 1 .. Length + 1 /\ pos \in Nat
<1>1. input \in Inputs
  BY DEF Inv
<1>2. /\ input.tokens \in Seq(STRING) /\ ToSet(input.tokens) \cap NoToken = {}
      /\ Terminated => Opened(input.tokens, Length + 1) = 0
  BY <1>1, InputsAssumption DEF Terminated, Length
<1>3. pos \in 1 .. Length + 1
  BY DEF Inv, Stack, Shapes, Length
<1> QED BY <1>2, <1>3 DEF Length

-----------------------------------------------------------------------------
(* Where the parser begins.                                                *)
LEMMA FirstState ==
  ASSUME NEW s, s = State(NULL, {"none"}, Unknown, Unknown, Unknown, 0, FALSE,
                          0, FALSE)
  PROVE  Below(s, s) /\ Runs(<<R("circuit")>>, <<>>, s, <<>>)
<1>1. Below(s, s) /\ s.rule = NULL /\ s.open = 0 /\ s.slack = 0
      /\ s.moved = FALSE
  BY DEF Below, State
<1>2. PICK t : t = Called(s, "circuit")
  OBVIOUS
<1>3. Below(t, t) /\ t.slack = 0
  BY <1>1, <1>2 DEF Below, Called, State
<1>4. MayBegin(NULL, "circuit")
  <2>1. NULL \notin {"circuit", "module", "stmt_group", "stmt", "exp_",
                     "reference",
                     "exp_int", "mux", "validif", "primop", "type",
                       "type_vector",
                     "type_int", "type_bundle"}
    BY InputsAssumption, RuleNames
  <2>2. Rank(NULL) = 9
    BY <2>1 DEF Rank
  <2>3. Rank("circuit") = 8
    BY <2>1 DEF Rank
  <2> QED BY <2>2, <2>3 DEF MayBegin
<1>5. RuleStep("circuit", FALSE, s, t)
  BY <1>1, <1>2, <1>3, <1>4, RuleNames DEF RuleStep
<1>6. Local({}, R("circuit"), s, t)
  BY <1>1, <1>3, <1>5 DEF Local, R
<1>7. Fit(R("circuit"), s, t)
  BY <1>6, FitAtom
<1>8. Step(R("circuit"), <<>>, s, <<>>, <<>>, t, <<>>)
  BY <1>7, FitOther
<1>9. Runs(<<>>, <<>>, t, <<>>)
  BY <1>3, RunsNothing
<1>10. Runs(<<R("circuit")>> \o <<>>, <<>>, s, <<>>)
  BY <1>1, <1>8, <1>9, RunsBefore
<1>11. <<R("circuit")>> \o <<>> = <<R("circuit")>>
  OBVIOUS
<1> QED BY <1>1, <1>10, <1>11

(* Before the first token no block is open.                                *)
LEMMA NothingOpened ==
  ASSUME NEW w
  PROVE  Opened(w, 1) = 0
<1>1. \A x : {q \in 1 .. 1 - 1 : w[q] = x} = {}
  OBVIOUS
<1>2. Cardinality({}) = 0
  BY FS_EmptySet
<1> QED BY <1>1, <1>2 DEF Opened

(* From the start of a text, its tokens being what they may, a circuit can *)
(* match.                                                                  *)
LEMMA FirstPlaceHolds ==
  ASSUME NEW w \in Seq(STRING), NEW F, F = <<Frame(NULL, NULL, 1)>>
  PROVE  /\ Shapes(w, <<>>, F, 1, <<>>)
         /\ Place(w, <<>>, <<R("circuit")>>, F, 1, <<>>)
<1>1. PICK s : s = State(NULL, {"none"}, Unknown, Unknown, Unknown, 0, FALSE,
                         0, FALSE)
  OBVIOUS
<1>2. Below(s, s) /\ Runs(<<R("circuit")>>, <<>>, s, <<>>)
  BY <1>1, FirstState
<1>3. PICK frame : frame = Frame(NULL, NULL, 1)
  OBVIOUS
<1>4. /\ frame.rule = NULL /\ frame.val = NULL /\ frame.got = <<>>
      /\ frame.start = 1
      /\ frame = [rule |-> NULL, val |-> NULL, got |-> <<>>, start |-> 1]
  BY <1>3 DEF Frame
<1>5. Len(w) \in Nat
  OBVIOUS
<1>6. frame \in FrameSet(w, <<>>)
  <2>1. 1 \in 1 .. Len(w) + 1
    BY <1>5
  <2>2. <<>> \in Seq(1 .. Len(<<>>))
    OBVIOUS
  <2> QED BY <1>4, <2>1, <2>2 DEF FrameSet
<1>7. F = <<frame>> /\ F \in Seq(FrameSet(w, <<>>)) /\ Len(F) = 1
      /\ F[1] = frame
  <2>1. PICK S : S = FrameSet(w, <<>>)
    OBVIOUS
  <2>2. <<frame>> \in Seq(S)
    BY <1>6, <2>1
  <2> QED BY <1>3, <2>1, <2>2
<1>8. \A n : KindIn(<<>>, n) = "none"
  BY DEF KindIn
<1>9. FrameFits(w, <<>>, frame, s, 1)
  <2>1. \A k : KindAt(<<>>, <<>>, k) = "none"
    BY <1>8 DEF KindAt
  <2>2. /\ s.rule = NULL /\ s.val = {"none"} /\ s.last = Unknown
        /\ s.second = Unknown
        /\ s.third = Unknown /\ s.open = 0 /\ s.moved = FALSE
    BY <1>1 DEF State
  <2>3. "none" \in Unknown
    BY DEF Unknown
  <2> QED BY <1>4, <1>8, <2>1, <2>2, <2>3, NothingOpened DEF FrameFits
<1>10. IsSeq(<<>>)
  BY Literal
<1>11. Len(<<>>) = 0 /\ 1 .. 0 = {}
  OBVIOUS
<1>12. StackFits(w, <<>>, F, <<>>, s, 1)
  BY <1>7, <1>9, <1>11 DEF StackFits
<1>13. Good(<<>>, s, <<>>) /\ Calm(s, <<>>, <<>>, 1) /\ Told(<<>>, <<>>)
  BY <1>11 DEF Good, Calm, Told
<1>14. Pending(<<R("circuit")>>, <<>>) = 0
  BY <1>11 DEF Pending, R
<1>15. Place(w, <<>>, <<R("circuit")>>, F, 1, <<>>)
  <2>1. Stands(w, <<>>, <<R("circuit")>>, F, 1, <<>>, <<>>, s, <<>>)
    BY <1>2, <1>10, <1>12, <1>13 DEF Stands
  <2>2. \A i \in 1 .. Pending(<<R("circuit")>>, <<>>) : Saved(w, <<>>, F, <<>>,
                                                              <<>>, i)
    BY <1>11, <1>14
  <2> QED BY <1>13, <2>1, <2>2 DEF Place
<1>16. Grown(<<>>, <<>>)
  BY <1>11 DEF Grown
<1>17. ChoicesFine(<<>>, F, 1, <<>>)
  BY <1>10, <1>11 DEF ChoicesFine
<1>18. 1 \in 1 .. Len(w) + 1 /\ Len(F) >= 1
  BY <1>5, <1>7
<1> QED BY <1>7, <1>15, <1>16, <1>17, <1>18 DEF Shapes

(* The invariant holds where the parser begins.                            *)
LEMMA InitInv ==
  Init => Inv
<1> SUFFICES ASSUME Init
             PROVE  Inv
  OBVIOUS
<1>1. input \in Inputs /\ input.tokens \in Seq(STRING) /\ Length \in Nat
      /\ MaxDepth \in Nat \ {0}
  <2>1. input \in Inputs
    BY DEF Init
  <2>2. input.tokens \in Seq(STRING) /\ MaxDepth \in Nat \ {0}
    BY <2>1, InputsAssumption
  <2> QED BY <2>1, <2>2 DEF Length
<1>2. /\ pos = 1 /\ ahead = 1 /\ frames = <<Frame(NULL, NULL, 1)>>
      /\ choices = <<>>
      /\ agenda = <<R("circuit")>> /\ ir = <<>> /\ origin = <<>>
      /\ fields = <<>>
      /\ status = "parsing"
  BY DEF Init
<1>3. Reading
  BY <1>1, <1>2 DEF Reading
<1>4. Nodes
  <2>1. IsSeq(<<>>)
    BY Literal
  <2>2. Len(<<>>) = 0 /\ 1 .. 0 = {}
    OBVIOUS
  <2> QED BY <1>2, <2>1, <2>2 DEF Nodes, TreeFine
<1>5. /\ Shapes(input.tokens, ir, frames, pos, choices)
      /\ Place(input.tokens, ir, agenda, frames, pos, choices)
  BY <1>1, <1>2, FirstPlaceHolds
<1>6. Len(frames) = 1 /\ frames[1].start = 1
  BY <1>2 DEF Frame
<1>7. Ordered(frames, pos)
  BY <1>2, <1>6 DEF Ordered
<1>8. Stack
  BY <1>1, <1>5, <1>6, <1>7 DEF Stack
<1>9. status \in {"parsing"} \cup Stopped /\ AcceptedIsRead
  BY <1>2 DEF AcceptedIsRead, Accepted
<1> QED BY <1>1, <1>3, <1>4, <1>5, <1>8, <1>9 DEF Inv

-----------------------------------------------------------------------------
(* What is left when the first item has been dealt with.                   *)
LEMMA RestLeft ==
  ASSUME Inv, agenda # <<>>, Continue(<<>>)
  PROVE  agenda' = Tail(agenda)
<1>1. IsSeq(agenda)
  BY RunsSeq DEF Inv, Place, Stands
<1>2. IsSeq(Tail(agenda))
  BY <1>1 DEF IsSeq
<1> QED BY <1>2, NothingJoined DEF Continue

(* What the invariant says of the parts of the state.                      *)
LEMMA InvParts ==
  ASSUME Inv
  PROVE  /\ TreeFine(ir) /\ Shapes(input.tokens, ir, frames, pos, choices)
         /\ Place(input.tokens, ir, agenda, frames, pos, choices)
         /\ Ordered(frames, pos) /\ Len(frames) \in 1 .. MaxDepth
         /\ MaxDepth \in Nat \ {0} /\ Len(frames) \in Nat
         /\ frames \in Seq(FrameSet(input.tokens, ir))
         /\ IsSeq(choices)
<1>1. MaxDepth \in Nat \ {0}
  BY InputsAssumption
<1>2. Shapes(input.tokens, ir, frames, pos, choices)
  BY DEF Inv, Stack
<1>3. frames \in Seq(FrameSet(input.tokens, ir)) /\ IsSeq(choices)
  BY <1>2 DEF Shapes, ChoicesFine
<1>4. Len(frames) \in Nat
  BY <1>3
<1> QED BY <1>1, <1>2, <1>3, <1>4 DEF Inv, Stack, Nodes

(* A token matches, and the lexer looks for the one behind it.             *)
LEMMA MatchInv ==
  ASSUME Inv, Match
  PROVE  Inv'
<1>1. /\ Due("token") /\ agenda # <<>> /\ Head(agenda).item = "token"
      /\ status = "parsing"
      /\ Matches(Head(agenda).t, TokenAt(pos))
      /\ pos' = pos + 1 /\ ahead' = IF pos + 1 > ahead THEN pos + 1 ELSE ahead
      /\ status' \in {"parsing", "threw"} /\ Continue(<<>>)
      /\ input' = input /\ frames' = frames /\ choices' = choices
      /\ ir' = ir /\ origin' = origin /\ fields' = fields
  BY DEF Match, Due, nodes
<1>2. agenda' = Tail(agenda)
  BY <1>1, RestLeft
<1>3. /\ input.tokens \in Seq(STRING) /\ Length \in Nat
      /\ ToSet(input.tokens) \cap NoToken = {}
      /\ pos \in Nat /\ pos \in 1 .. Length + 1
  BY TextKnown
<1>4. /\ pos <= Length /\ input.tokens[pos] # "flip"
      /\ Place(input.tokens, ir, Tail(agenda), frames, pos + 1, choices)
  BY <1>1, <1>3, InvParts, MatchPlace DEF TokenAt, Length
<1>5. Reading'
  <2>1. ahead \in pos .. Length + 1 /\ (Terminated /\ ahead = Length + 1
                                        => pos = Length + 1)
    BY DEF Inv, Reading
  <2>2. ahead' \in pos' .. Length + 1
    BY <1>1, <1>3, <1>4, <2>1
  <2>3. Terminated /\ ahead' = Length + 1 => pos' = Length + 1
    BY <1>1, <1>3, <1>4, <2>1
  <2>4. \A q \in 1 .. pos' - 1 : input.tokens[q] # "flip"
    <3>1. \A q \in 1 .. pos - 1 : input.tokens[q] # "flip"
      BY DEF Inv, Reading
    <3>2. \A q \in 1 .. pos' - 1 : q \in 1 .. pos - 1 \/ q = pos
      BY <1>1, <1>3
    <3> QED BY <1>4, <3>1, <3>2
  <2>5. Length' = Length /\ Terminated' = Terminated
    BY <1>1 DEF Length, Terminated
  <2> QED BY <1>1, <2>2, <2>3, <2>4, <2>5 DEF Reading
<1>6. Nodes'
  BY <1>1 DEF Inv, Nodes
<1>7. Stack'
  <2>1. Shapes(input.tokens, ir, frames, pos + 1, choices)
    <3>1. pos + 1 \in 1 .. Len(input.tokens) + 1
      BY <1>3, <1>4 DEF Length
    <3>2. Grown(ir, ir) /\ ChoicesFine(ir, frames, pos, choices)
      BY InvParts DEF Shapes
    <3>3. PICK o \in Nat : o = pos + 1 /\ pos <= o
      BY <1>3
    <3>4. ChoicesFine(ir, frames, o, choices)
      BY <1>3, <3>2, <3>3, ChoicesGrow
    <3> QED BY <3>1, <3>3, <3>4, InvParts DEF Shapes
  <2>2. Ordered(frames, pos + 1)
    <3>1. \A j \in 1 .. Len(frames) : frames[j].start <= pos
          /\ frames[j].start \in Nat
      <4>1. \A j \in 1 .. Len(frames) :
            frames[j] \in FrameSet(input.tokens, ir)
        BY InvParts
      <4>2. \A x \in FrameSet(input.tokens, ir) : x.start \in 1 .. Length + 1
        BY DEF FrameSet, Length
      <4>3. \A x \in FrameSet(input.tokens, ir) : x.start \in Nat
        BY <1>3, <4>2
      <4> QED BY <4>1, <4>3, InvParts DEF Ordered
    <3>2. PICK o \in Nat : o = pos + 1 /\ pos <= o
      BY <1>3
    <3>3. \A j \in 1 .. Len(frames) : frames[j].start <= o
      BY <1>3, <3>1, <3>2
    <3>4. Len(frames) <= Len(frames)
      BY InvParts
    <3>5. SameRules(frames, frames)
      BY DEF SameRules
    <3>6. Ordered(frames, o)
      BY <3>3, <3>4, <3>5, InvParts, OrderedCut
    <3> QED BY <3>2, <3>6
  <2> QED BY <1>1, <2>1, <2>2, InvParts DEF Stack
<1>8. Place(input.tokens, ir, agenda, frames, pos, choices)'
  BY <1>1, <1>2, <1>4
<1>9. status' \in {"parsing"} \cup Stopped /\ AcceptedIsRead'
      /\ input' \in Inputs
  BY <1>1 DEF Stopped, AcceptedIsRead, Accepted, Inv
<1> QED BY <1>5, <1>6, <1>7, <1>8, <1>9 DEF Inv

(* A rule is called, or there is no room for it.                           *)
LEMMA CallInv ==
  ASSUME Inv, Call
  PROVE  Inv'
<1>1. /\ Due("rule") /\ agenda # <<>> /\ Head(agenda).item = "rule"
      /\ status = "parsing"
      /\ UNCHANGED <<input, pos, ahead>> /\ choices' = choices
      /\ ir' = ir /\ origin' = origin /\ fields' = fields
  BY DEF Call, Due, nodes
<1>2. Nodes'
  BY <1>1 DEF Inv, Nodes
<1>3. CASE Len(frames) = MaxDepth
  <2>1. status' = "overflowed" /\ frames' = frames /\ agenda' = agenda
    BY <1>3 DEF Call
  <2>2. Stack'
    BY <1>1, <2>1 DEF Inv, Stack
  <2>3. Place(input.tokens, ir, agenda, frames, pos, choices)'
    BY <1>1, <2>1, InvParts
  <2> QED BY <1>1, <1>2, <2>1, <2>2, <2>3, Steady
<1>4. CASE Len(frames) # MaxDepth
  <2>1. PICK new : new = Frame(Head(agenda).rule,
                            IF Head(agenda).inherits THEN Top.val
                              ELSE NULL, pos)
    OBVIOUS
  <2>2. /\ frames' = Append(frames, new) /\ status' = status
        /\ agenda' = Append(Grammar[Head(agenda).rule], [item |-> "return"])
           \o Tail(agenda)
    BY <1>4, <2>1 DEF Call, Continue, Handed
  <2>3. /\ Head(agenda).rule \in DOMAIN Grammar
        /\ new \in FrameSet(input.tokens, ir)
        /\ Top.start < pos \/ MayBegin(Top.rule, Head(agenda).rule)
        /\ Place(input.tokens, ir, agenda', Append(frames, new), pos, choices)
    BY <1>1, <2>1, <2>2, InvParts, CallPlace DEF Top
  <2>4. /\ Shapes(input.tokens, ir, frames', pos, choices)
        /\ Len(frames') = Len(frames) + 1
        /\ \A j \in 1 .. Len(frames) : frames'[j] = frames[j]
        /\ frames'[Len(frames) + 1] = new
    BY <2>2, <2>3, InvParts, CallShapes
  <2>5. Ordered(frames', pos)
    <3>1. new.rule = Head(agenda).rule /\ new.start = pos
      BY <2>1 DEF Frame
    <3>2. frames[Len(frames)].start < pos
          \/ MayBegin(frames[Len(frames)].rule, new.rule)
      BY <2>3, <3>1 DEF Top
    <3>3. Len(input.tokens) \in Nat /\ pos \in Nat /\ Len(frames) >= 1
      BY TextKnown, InvParts DEF Length
    <3> QED BY <2>4, <3>1, <3>2, <3>3, InvParts, OrderedCall
  <2>6. Len(frames') \in 1 .. MaxDepth
    BY <1>4, <2>4, InvParts
  <2>7. Stack'
    BY <1>1, <2>4, <2>5, <2>6 DEF Stack
  <2>8. Place(input.tokens, ir, agenda, frames, pos, choices)'
    BY <1>1, <2>2, <2>3
  <2> QED BY <1>1, <1>2, <2>2, <2>7, <2>8, Steady
<1> QED BY <1>3, <1>4

(* A rule ends.                                                            *)
LEMMA ReturnInv ==
  ASSUME Inv, Return
  PROVE  Inv'
<1>1. /\ Due("return") /\ agenda # <<>> /\ Head(agenda).item = "return"
      /\ status = "parsing"
      /\ UNCHANGED <<input, pos, ahead>> /\ choices' = choices
      /\ status' = status
      /\ ir' = ir /\ origin' = origin /\ fields' = fields
      /\ Continue(<<>>) /\ frames' = Ended(frames)
  BY DEF Return, Due, nodes, Ended, Top
<1>2. agenda' = Tail(agenda)
  BY <1>1, RestLeft
<1>3. /\ Len(frames) >= 2 /\ frames[Len(frames)].val \in 1 .. Len(ir)
      /\ \A i \in 1 .. Len(choices) : choices[i].depth \in 1 .. Len(frames) - 1
      /\ Place(input.tokens, ir, Tail(agenda), Ended(frames), pos, choices)
  BY <1>1, InvParts, ReturnPlace
<1>4. /\ Shapes(input.tokens, ir, frames', pos, choices)
      /\ Len(frames') = Len(frames) - 1
      /\ SameRules(frames, frames')
  <2>1. Deepest(choices, Len(frames) - 1)
    BY <1>3 DEF Deepest
  <2>2. /\ Shapes(input.tokens, ir, Ended(frames), pos, choices)
        /\ Len(Ended(frames)) = Len(frames) - 1
        /\ SameRules(frames, Ended(frames))
    BY <1>3, <2>1, InvParts, ReturnShapes
  <2>3. frames' = Ended(frames)
    BY <1>1
  <2> QED BY <2>2, <2>3
<1>5. Len(frames') \in 1 .. MaxDepth /\ Len(frames') <= Len(frames)
      /\ Len(frames') \in Nat
  BY <1>3, <1>4, InvParts
<1>6. Ordered(frames', pos)
  <2>1. \A j \in 1 .. Len(frames') : j \in 1 .. Len(frames)
    BY <1>5, InvParts
  <2>2. \A j \in 1 .. Len(frames') : frames'[j].start <= pos
    BY <1>4, <2>1, InvParts DEF Ordered, SameRules
  <2> QED BY <1>4, <1>5, <2>2, InvParts, OrderedCut
<1>7. Stack'
  BY <1>1, <1>4, <1>5, <1>6 DEF Stack
<1>8. Place(input.tokens, ir, agenda, frames, pos, choices)'
  BY <1>1, <1>2, <1>3
<1>9. Nodes'
  BY <1>1 DEF Inv, Nodes
<1> QED BY <1>1, <1>7, <1>8, <1>9, Steady

-----------------------------------------------------------------------------
(* A step of the descent that makes no node and begins and ends no rule.   *)
LEMMA ChoicesInv ==
  ASSUME Inv, status = "parsing", UNCHANGED <<input, pos, ahead, frames, nodes,
                                              status>>,
         Shapes(input.tokens, ir, frames, pos, choices'),
         Place(input.tokens, ir, agenda', frames, pos, choices')
  PROVE  Inv'
<1>1. /\ UNCHANGED <<input, pos, ahead>> /\ frames' = frames
      /\ status' = status
      /\ ir' = ir /\ origin' = origin /\ fields' = fields
  BY DEF nodes
<1>2. Nodes'
  BY <1>1 DEF Inv, Nodes
<1>3. Stack'
  BY <1>1, InvParts DEF Stack
<1>4. Place(input.tokens, ir, agenda, frames, pos, choices)'
  BY <1>1
<1> QED BY <1>1, <1>2, <1>3, <1>4, Steady

(* The place that a choice made here goes back to, and the end of it.      *)
LEMMA BackToHere ==
  ASSUME NEW items
  PROVE  /\ GoesBack(BackTo(items), frames, pos, items \o Tail(agenda))
         /\ Commits(Committed, choices)
BY DEF GoesBack, BackTo, Commits, Committed, Top

(* The first of some parsers is tried.                                     *)
LEMMA ChooseInv ==
  ASSUME Inv, Choose
  PROVE  Inv'
<1>1. /\ agenda # <<>> /\ Head(agenda).item = "choice" /\ status = "parsing"
      /\ UNCHANGED <<input, pos, ahead, frames, nodes, status>>
  BY DEF Choose, Due
<1>2. CASE Len(Head(agenda).of) = 1
  <2>1. agenda' = Head(agenda).of[1] \o Tail(agenda) /\ choices' = choices
    BY <1>2 DEF Choose, Continue
  <2>2. Place(input.tokens, ir, agenda', frames, pos, choices')
    BY <1>1, <1>2, <2>1, InvParts, OnlyPlace
  <2> QED BY <1>1, <2>1, <2>2, InvParts, ChoicesInv
<1>3. CASE Len(Head(agenda).of) # 1
  <2>1. PICK c : c = BackTo(<<Choice(Tail(Head(agenda).of))>>)
    OBVIOUS
  <2>2. PICK x : x = Committed
    OBVIOUS
  <2>3. agenda' = Append(Head(agenda).of[1], x) \o Tail(agenda)
        /\ choices' = Append(choices, c)
    BY <1>3, <2>1, <2>2 DEF Choose, Continue
  <2>4. /\ GoesBack(c, frames, pos, <<Choice(Tail(Head(agenda).of))>>
                    \o Tail(agenda))
        /\ Commits(x, choices)
    BY <2>1, <2>2, BackToHere
  <2>5. Place(input.tokens, ir, agenda', frames, pos, choices')
    BY <1>1, <1>3, <2>3, <2>4, InvParts, FirstPlace
  <2>6. Shapes(input.tokens, ir, frames, pos, choices')
    BY <2>3, <2>4, InvParts, AddedShapes
  <2> QED BY <1>1, <2>5, <2>6, ChoicesInv
<1> QED BY <1>2, <1>3

(* A parser is tried once more.                                            *)
LEMMA RepeatInv ==
  ASSUME Inv, Repeat
  PROVE  Inv'
<1>1. /\ agenda # <<>> /\ Head(agenda).item = "repeat" /\ status = "parsing"
      /\ UNCHANGED <<input, pos, ahead, frames, nodes, status>>
  BY DEF Repeat, Due
<1>2. PICK c : c = BackTo(<<>>)
  OBVIOUS
<1>3. PICK x : x = Committed
  OBVIOUS
<1>4. /\ agenda' = (Head(agenda).of \o <<x, Head(agenda)>>) \o Tail(agenda)
      /\ choices' = Append(choices, c)
  BY <1>2, <1>3 DEF Repeat, Continue
<1>5. GoesBack(c, frames, pos, <<>> \o Tail(agenda)) /\ Commits(x, choices)
  BY <1>2, <1>3, BackToHere
<1>6. Place(input.tokens, ir, agenda', frames, pos, choices')
  BY <1>1, <1>4, <1>5, InvParts, RepeatPlace
<1>7. Shapes(input.tokens, ir, frames, pos, choices')
  BY <1>4, <1>5, InvParts, AddedShapes
<1> QED BY <1>1, <1>6, <1>7, ChoicesInv

(* What matched is not tried again in another way.                         *)
LEMMA CommitInv ==
  ASSUME Inv, Commit
  PROVE  Inv'
<1>1. /\ agenda # <<>> /\ Head(agenda).item = "commit" /\ status = "parsing"
      /\ UNCHANGED <<input, pos, ahead, frames, nodes, status>>
      /\ Continue(<<>>) /\ choices' = SubSeq(choices, 1, Head(agenda).to)
  BY DEF Commit, Due
<1>2. agenda' = Tail(agenda)
  BY <1>1, RestLeft
<1>3. /\ Head(agenda).to = Len(choices) - 1 /\ Len(choices) >= 1
      /\ Place(input.tokens, ir, Tail(agenda), frames, pos,
               SubSeq(choices, 1, Head(agenda).to))
  BY <1>1, InvParts, CommitPlace
<1>4. Head(agenda).to \in 0 .. Len(choices)
  <2>1. Len(choices) \in Nat
    BY InvParts DEF IsSeq
  <2> QED BY <1>3, <2>1
<1>5. Shapes(input.tokens, ir, frames, pos,
             SubSeq(choices, 1, Head(agenda).to))
  BY <1>4, InvParts, CutShapes
<1> QED BY <1>1, <1>2, <1>3, <1>5, ChoicesInv

(* Back to the last choice.                                                *)
LEMMA BacktrackInv ==
  ASSUME Inv, Backtrack
  PROVE  Inv'
<1>1. PICK c : c = Last(choices)
  OBVIOUS
<1>2. /\ agenda # <<>> /\ Head(agenda).item = "token" /\ status = "parsing"
      /\ choices # <<>>
      /\ pos' = c.pos /\ agenda' = c.agenda /\ frames' = Restored(frames, c)
      /\ choices' = Front(choices)
      /\ input' = input /\ ahead' = ahead /\ status' = status
      /\ ir' = ir /\ origin' = origin /\ fields' = fields
  BY <1>1 DEF Backtrack, Fails, Due, Restored, nodes
<1>3. /\ Place(input.tokens, ir, agenda', frames', pos', choices')
      /\ Opened(input.tokens, pos) = 0 => c.pos = pos
      /\ Restored(frames, c)[c.depth].start <= c.pos
      /\ \A i \in 1 .. Len(choices) : choices[i].depth \in 1 .. c.depth
  BY <1>1, <1>2, InvParts, BackPlace
<1>4. Deepest(choices, c.depth)
  BY <1>3 DEF Deepest
<1>5. /\ Shapes(input.tokens, ir, frames', pos', choices')
      /\ c.pos \in 1 .. pos /\ c.depth \in 1 .. Len(frames)
      /\ Len(frames') = c.depth
      /\ SameRules(frames, frames')
  BY <1>1, <1>2, <1>4, InvParts, BackShapes
<1>6. pos \in Nat /\ Length \in Nat /\ pos \in 1 .. Length + 1
  BY TextKnown
<1>7. Ordered(frames', pos')
  <2>1. Len(frames') \in Nat /\ Len(frames') <= Len(frames)
        /\ c.depth \in 1 .. Len(frames')
    BY <1>5, InvParts
  <2>2. \A x \in FrameSet(input.tokens, ir) : x.start \in Nat
    <3>1. \A x \in FrameSet(input.tokens, ir) : x.start \in 1 .. Length + 1
      BY DEF FrameSet, Length
    <3> QED BY <1>6, <3>1
  <2>3. \A j \in 1 .. Len(frames) : frames[j].start \in Nat
    BY <2>2, InvParts
  <2>4. frames[c.depth].start <= c.pos
    BY <1>2, <1>3, <2>1, <1>5 DEF SameRules
  <2>5. ASSUME NEW j \in 1 .. Len(frames')
        PROVE  frames'[j].start <= pos'
    <3>1. j \in 1 .. Len(frames) /\ frames'[j].start = frames[j].start
          /\ j <= c.depth
      BY <1>5, <2>1 DEF SameRules
    <3>2. frames[j].start <= frames[c.depth].start
      <4>1. CASE j = c.depth
        BY <2>3, <3>1, <4>1
      <4>2. CASE j # c.depth
        <5>1. j \in 1 .. c.depth - 1
          BY <1>5, <3>1, <4>2
        <5> QED BY <1>5, <5>1, InvParts DEF Ordered
      <4> QED BY <4>1, <4>2
    <3>3. frames[j].start \in Nat /\ frames[c.depth].start \in Nat
      BY <1>5, <2>3, <3>1
    <3> QED BY <1>2, <1>5, <1>6, <2>4, <3>1, <3>2, <3>3
  <2> QED BY <1>5, <2>1, <2>5, InvParts, OrderedCut
<1>8. Len(frames') \in 1 .. MaxDepth
  BY <1>5, InvParts
<1>9. Stack'
  BY <1>2, <1>5, <1>7, <1>8 DEF Stack
<1>10. Nodes'
  BY <1>2 DEF Inv, Nodes
<1>11. Reading'
  <2>1. /\ ahead \in pos .. Length + 1
        /\ Terminated /\ ahead = Length + 1 => pos = Length + 1
        /\ \A q \in 1 .. pos - 1 : input.tokens[q] # "flip"
    BY DEF Inv, Reading
  <2>2. ahead' \in pos' .. Length + 1
    BY <1>2, <1>5, <1>6, <2>1
  <2>3. ASSUME Terminated, ahead' = Length + 1
        PROVE  pos' = Length + 1
    <3>1. pos = Length + 1
      BY <1>2, <2>1, <2>3
    <3>2. Opened(input.tokens, Length + 1) = 0
      BY <2>3, TextKnown
    <3> QED BY <1>2, <1>3, <3>1, <3>2
  <2>4. \A q \in 1 .. pos' - 1 : q \in 1 .. pos - 1
    BY <1>2, <1>5, <1>6
  <2>5. Length' = Length /\ Terminated' = Terminated
    BY <1>2 DEF Length, Terminated
  <2> QED BY <1>2, <2>1, <2>2, <2>3, <2>4, <2>5 DEF Reading
<1>12. Place(input.tokens, ir, agenda, frames, pos, choices)'
  BY <1>2, <1>3
<1>13. status' \in {"parsing"} \cup Stopped /\ AcceptedIsRead'
       /\ input' \in Inputs
  BY <1>2 DEF AcceptedIsRead, Accepted, Inv
<1> QED BY <1>9, <1>10, <1>11, <1>12, <1>13 DEF Inv

(* Nothing is left to go back to; or nothing is left to match, and the     *)
(* frontend asks how far the lexer is.                                     *)
LEMMA StopInv ==
  ASSUME Inv, Refuse \/ AddParameter \/ Finish
  PROVE  Inv'
<1>1. /\ status = "parsing" /\ agenda' = agenda /\ choices' = choices
      /\ input' = input /\ pos' = pos /\ ahead' = ahead /\ frames' = frames
      /\ ir' = ir /\ origin' = origin /\ fields' = fields
      /\ \/ status' \in {"refused", "threw"}
         \/ status' = IF LexedToEnd THEN "accepted" ELSE "refused"
  BY DEF Refuse, AddParameter, Finish, Fails, Due, nodes
<1>2. Reading' /\ Nodes' /\ Stack' /\ input' \in Inputs
  <2>1. Length' = Length /\ Terminated' = Terminated
    BY <1>1 DEF Length, Terminated
  <2>2. Reading'
    BY <1>1, <2>1 DEF Inv, Reading
  <2>3. Nodes'
    BY <1>1 DEF Inv, Nodes
  <2>4. Stack'
    BY <1>1 DEF Inv, Stack
  <2> QED BY <1>1, <2>2, <2>3, <2>4 DEF Inv
<1>3. Place(input.tokens, ir, agenda, frames, pos, choices)'
  BY <1>1, InvParts
<1>4. status' \in {"parsing"} \cup Stopped
  BY <1>1 DEF Stopped
<1>5. AcceptedIsRead'
  <2>1. SUFFICES ASSUME status' = "accepted", Terminated
                 PROVE  pos = Length + 1
    BY <1>1 DEF AcceptedIsRead, Accepted, Length, Terminated
  <2>2. LexedToEnd
    BY <1>1, <2>1
  <2>3. ahead > Length
    BY <2>1, <2>2 DEF LexedToEnd, Terminated
  <2>4. /\ ahead \in pos .. Length + 1 /\ Length \in Nat /\ pos \in Nat
        /\ ahead = Length + 1 => pos = Length + 1
    BY <2>1, TextKnown DEF Inv, Reading
  <2> QED BY <2>3, <2>4
<1> QED BY <1>2, <1>3, <1>4, <1>5 DEF Inv

-----------------------------------------------------------------------------
(* A semantic action: nothing but the last rule's frame and the nodes.     *)
LEMMA ActionInv ==
  ASSUME Inv, status = "parsing", UNCHANGED <<input, pos, ahead, choices>>,
         status' \in {"parsing", "threw", "crashed"}, Nodes',
         Len(frames') = Len(frames), SameRules(frames, frames'),
         Shapes(input.tokens, ir', frames', pos, choices),
         Place(input.tokens, ir', agenda', frames', pos, choices)
  PROVE  Inv'
<1>1. Len(frames') \in Nat /\ Len(frames') <= Len(frames)
  BY InvParts
<1>2. \A j \in 1 .. Len(frames') : frames'[j].start <= pos
  BY InvParts DEF Ordered, SameRules
<1>3. Ordered(frames', pos)
  BY <1>1, <1>2, InvParts, OrderedCut
<1>4. Stack'
  BY <1>3, InvParts DEF Stack
<1>5. Place(input.tokens, ir, agenda, frames, pos, choices)'
  OBVIOUS
<1> QED BY <1>4, <1>5, Steady

(* The last rule's frame is still that of the rule.                        *)
LEMMA OnTopSame ==
  ASSUME NEW S, NEW F \in Seq(S), Len(F) >= 1, NEW x, x.rule = F[Len(F)].rule,
         x.start = F[Len(F)].start
  PROVE  Len(OnTop(F, x)) = Len(F) /\ SameRules(F, OnTop(F, x))
<1>1. PICK J : J = S \cup {x}
  OBVIOUS
<1>2. F \in Seq(J) /\ x \in J /\ Len(F) \in 1 .. Len(F)
  <2>1. S \subseteq J /\ x \in J
    BY <1>1
  <2> QED BY <2>1
<1>3. PICK G : G = OnTop(F, x)
  OBVIOUS
<1>4. /\ Len(G) = Len(F) /\ G[Len(F)] = x
      /\ \A j \in 1 .. Len(F) : j # Len(F) => G[j] = F[j]
  BY <1>2, <1>3, Replaced DEF OnTop
<1>5. SameRules(F, G)
  BY <1>4 DEF SameRules
<1> QED BY <1>3, <1>4, <1>5

(* The tables of the nodes grow with them.                                 *)
LEMMA TablesGrow ==
  ASSUME Inv, NEW x, NEW y, TreeFine(ir'), Len(ir') = Len(ir) + 1,
         origin' = Append(origin, x), fields' = Append(fields, y)
  PROVE  Nodes'
<1>1. IsSeq(origin) /\ IsSeq(fields) /\ Len(origin) = Len(ir)
      /\ Len(fields) = Len(ir)
  BY DEF Inv, Nodes
<1>2. /\ IsSeq(origin') /\ Len(origin') = Len(origin) + 1
      /\ IsSeq(fields') /\ Len(fields') = Len(fields) + 1
  BY <1>1, SeqLonger
<1> QED BY <1>1, <1>2 DEF Nodes

(* A frame that gets a node or an attribute is the same rule's.            *)
LEMMA TopRule ==
  ASSUME NEW n
  PROVE  /\ WithNode(Top, n).rule = Top.rule
         /\ WithNode(Top, n).start = Top.start
         /\ WithOne(Top, n).rule = Top.rule
         /\ WithOne(Top, n).start = Top.start
BY DEF WithNode, WithOne

(* A rule makes its node.                                                  *)
LEMMA MakeInv ==
  ASSUME Inv, MakeNode
  PROVE  Inv'
<1>1. /\ agenda # <<>> /\ Head(agenda).item = "make" /\ status = "parsing"
      /\ UNCHANGED <<input, pos, ahead, choices>> /\ status' = status
      /\ Continue(<<>>)
      /\ Gains(ir', Head(agenda).kind, Head(agenda).fields)
      /\ origin' = Append(origin, Top.start) /\ fields' = Append(fields, {})
      /\ frames' = OnTop(frames, WithNode(Top, Len(ir) + 1))
  BY DEF MakeNode, Due, NewNode, Gains, SetTop, OnTop, WithNode
<1>2. agenda' = Tail(agenda)
  BY <1>1, RestLeft
<1>3. /\ TreeFine(ir') /\ Len(ir') = Len(ir) + 1
      /\ Place(input.tokens, ir', agenda', frames', pos, choices)
      /\ Shapes(input.tokens, ir', frames', pos, choices)
  BY <1>1, <1>2, InvParts, MakePlace
<1>4. Nodes'
  BY <1>1, <1>3, TablesGrow
<1>5. Len(frames') = Len(frames) /\ SameRules(frames, frames')
  BY <1>1, InvParts, OnTopSame, TopRule DEF Top
<1> QED BY <1>1, <1>3, <1>4, <1>5, ActionInv

(* The last attribute is put into a node of its own.                       *)
LEMMA WrapInv ==
  ASSUME Inv, WrapNode
  PROVE  Inv'
<1>1. /\ agenda # <<>> /\ Head(agenda).item = "wrap" /\ status = "parsing"
      /\ UNCHANGED <<input, pos, ahead, choices>> /\ status' = status
      /\ Continue(<<>>)
      /\ Gains(ir', Head(agenda).kind, <<Head(agenda).field>>)
      /\ origin' = Append(origin, Top.start) /\ fields' = Append(fields, {})
      /\ frames' = OnTop(frames, WithOne(Top, Len(ir) + 1))
  BY DEF WrapNode, Due, NewNode, Gains, SetTop, OnTop, WithOne, Got
<1>2. agenda' = Tail(agenda)
  BY <1>1, RestLeft
<1>3. /\ TreeFine(ir') /\ Len(ir') = Len(ir) + 1
      /\ Place(input.tokens, ir', agenda', frames', pos, choices)
      /\ Shapes(input.tokens, ir', frames', pos, choices)
  BY <1>1, <1>2, InvParts, WrapPlace
<1>4. Nodes'
  BY <1>1, <1>3, TablesGrow
<1>5. Len(frames') = Len(frames) /\ SameRules(frames, frames')
  BY <1>1, InvParts, OnTopSame, TopRule DEF Top
<1> QED BY <1>1, <1>3, <1>4, <1>5, ActionInv

(* The last attribute is taken as the rule's node.                         *)
LEMMA TakeInv ==
  ASSUME Inv, TakeNode
  PROVE  Inv'
<1>1. /\ agenda # <<>> /\ Head(agenda).item = "take" /\ status = "parsing"
      /\ UNCHANGED <<input, pos, ahead, choices>> /\ status' = status
      /\ Continue(<<>>)
      /\ ir' = ir /\ origin' = origin /\ fields' = fields
      /\ frames' = OnTop(frames, WithNode(Top, Last(Top.got)))
  BY DEF TakeNode, Due, nodes, SetTop, OnTop, WithNode
<1>2. agenda' = Tail(agenda)
  BY <1>1, RestLeft
<1>3. /\ Place(input.tokens, ir, Tail(agenda), frames', pos, choices)
      /\ Shapes(input.tokens, ir, frames', pos, choices)
  BY <1>1, InvParts, TakePlace
<1>4. Nodes'
  BY <1>1 DEF Inv, Nodes
<1>5. Len(frames') = Len(frames) /\ SameRules(frames, frames')
  BY <1>1, InvParts, OnTopSame, TopRule DEF Top
<1> QED BY <1>1, <1>2, <1>3, <1>4, <1>5, ActionInv

-----------------------------------------------------------------------------
(* The rule's node is changed.                                             *)
LEMMA ChangedInv ==
  ASSUME Inv, agenda # <<>>, Head(agenda).item
         \in {"attach", "set", "info", "width"},
         status = "parsing", UNCHANGED <<input, pos, ahead, choices, frames>>,
         status' \in {"parsing", "threw", "crashed"}, Continue(<<>>),
         Nodes', Grown(ir, ir')
  PROVE  Inv'
<1>1. agenda' = Tail(agenda)
  BY RestLeft
<1>2. /\ Place(input.tokens, ir', Tail(agenda), frames, pos, choices)
      /\ Shapes(input.tokens, ir', frames, pos, choices)
  BY InvParts, ChangePlace
<1>3. frames' = frames /\ Len(frames') = Len(frames)
      /\ SameRules(frames, frames')
  BY DEF SameRules
<1> QED BY <1>1, <1>2, <1>3, ActionInv

(* One node is changed and keeps its kind: the nodes are fine.             *)
LEMMA NodeChanged ==
  ASSUME Inv, NEW v \in 1 .. Len(ir), NEW x, NodeFine(ir, x),
         x.kind = ir[v].kind,
         ir' = [ir EXCEPT ![v] = x], origin' = origin, fields' = fields
  PROVE  Nodes' /\ Grown(ir, ir')
<1>1. TreeFine(ir') /\ Grown(ir, ir') /\ Len(ir') = Len(ir)
  BY InvParts, TreeChanged
<1> QED BY <1>1 DEF Inv, Nodes

(* The last attribute is given to the rule's node.                         *)
LEMMA AttachInv ==
  ASSUME Inv, AttachNode
  PROVE  Inv'
<1>1. /\ agenda # <<>> /\ Head(agenda).item = "attach" /\ status = "parsing"
      /\ UNCHANGED <<input, pos, ahead, choices, frames>> /\ Continue(<<>>)
      /\ origin' = origin /\ fields' = fields
  BY DEF AttachNode, Due
<1>2. PICK child, to, v : /\ child = Last(Top.got)
                          /\ to = PointerOf(Head(agenda).field, child)
                          /\ v = Top.val
  OBVIOUS
<1>3. v \in 1 .. Len(ir) /\ child \in 1 .. Len(ir)
      /\ ir[child].kind \in Takes(Head(agenda).field)
  BY <1>1, <1>2, InvParts, ChangePlace, AttachGives
<1>4. PICK targets : targets = IF to \in Lists THEN Append(ir[v].to[to], child)
           ELSE <<child>>
  OBVIOUS
<1>5. PICK x : x = Pointing(ir[v], to, targets)
  OBVIOUS
<1>6. NodeFine(ir, x) /\ x.kind = ir[v].kind
  <2>1. Leads(Head(agenda).field, child, to)
    BY <1>2 DEF Leads
  <2>2. Attaches(v, to, child, targets)
    BY <1>4 DEF Attaches
  <2>3. TreeFine(ir)
    BY InvParts
  <2>4. /\ NodeFine(ir, Pointing(ir[v], to, targets))
        /\ Pointing(ir[v], to, targets).kind = ir[v].kind
    BY <1>3, <2>1, <2>2, <2>3, AttachFine
  <2> QED BY <1>5, <2>4
<1>7. \/ status' = "threw" /\ ir' = ir
      \/ status' = status /\ ir' = [ir EXCEPT ![v] = x]
  <2>1. \/ status' = "threw" /\ ir' = ir
        \/ /\ status' = status
           /\ ir' = [ir EXCEPT ![v].to[to] = IF to \in Lists
                     THEN Append(@, child) ELSE <<child>>]
    BY <1>2 DEF AttachNode
  <2>2. [ir EXCEPT ![v].to[to] = IF to \in Lists THEN Append(@, child)
         ELSE <<child>>]
          = [ir EXCEPT ![v] = x]
    BY <1>4, <1>5 DEF Pointing
  <2> QED BY <2>1, <2>2
<1>8. CASE status' = "threw" /\ ir' = ir
  <2>1. Nodes' /\ Grown(ir, ir')
    BY <1>1, <1>8, InvParts, TreeKinds DEF Inv, Nodes
  <2> QED BY <1>1, <1>8, <2>1, ChangedInv
<1>9. CASE status' = status /\ ir' = [ir EXCEPT ![v] = x]
  <2>1. Nodes' /\ Grown(ir, ir')
    BY <1>1, <1>3, <1>6, <1>9, NodeChanged
  <2> QED BY <1>1, <1>9, <2>1, ChangedInv
<1> QED BY <1>7, <1>8, <1>9

(* A field of the memory is set.                                           *)
LEMMA SetFieldInv ==
  ASSUME Inv, SetField
  PROVE  Inv'
<1>1. /\ agenda # <<>> /\ Head(agenda).item = "set" /\ status = "parsing"
      /\ UNCHANGED <<input, pos, ahead, choices, frames>> /\ Continue(<<>>)
      /\ ir' = ir /\ origin' = origin
  BY DEF SetField, Due
<1>2. PICK y : /\ status' \in {"parsing", "threw", "crashed"}
               /\ fields' = fields \/ fields' = [fields EXCEPT ![Top.val] = y]
  BY <1>1 DEF SetField
<1>3. Top.val \in 1 .. Len(ir)
  BY <1>1, InvParts, ChangePlace
<1>4. IsSeq(fields) /\ Len(fields) = Len(ir)
  BY DEF Inv, Nodes
<1>5. IsSeq(fields') /\ Len(fields') = Len(fields)
  <2>1. CASE fields' = fields
    BY <1>4, <2>1
  <2>2. CASE fields' = [fields EXCEPT ![Top.val] = y]
    <3>1. PICK I : fields \in Seq(I)
      BY <1>4 DEF IsSeq
    <3>2. PICK J : J = I \cup {y}
      OBVIOUS
    <3>3. fields \in Seq(J) /\ y \in J
      <4>1. I \subseteq J /\ y \in J
        BY <3>2
      <4> QED BY <3>1, <4>1
    <3>4. fields' \in Seq(J) /\ Len(fields') = Len(fields)
      BY <1>3, <1>4, <2>2, <3>3, Replaced
    <3> QED BY <3>4 DEF IsSeq
  <2> QED BY <1>2, <2>1, <2>2
<1>6. Nodes' /\ Grown(ir, ir')
  BY <1>1, <1>4, <1>5, InvParts, TreeKinds DEF Inv, Nodes
<1> QED BY <1>1, <1>2, <1>6, ChangedInv

(* The info or the width of the rule's node is set.                        *)
LEMMA SetInfoInv ==
  ASSUME Inv, SetInfo \/ SetWidth
  PROVE  Inv'
<1>1. /\ agenda # <<>> /\ Head(agenda).item \in {"info", "width"}
      /\ status = "parsing"
      /\ UNCHANGED <<input, pos, ahead, choices, frames>> /\ Continue(<<>>)
      /\ origin' = origin /\ fields' = fields /\ status' = status
      /\ \/ ir' = [ir EXCEPT ![Top.val] = Informed(ir[Top.val])]
         \/ ir' = [ir EXCEPT ![Top.val] = Sized(ir[Top.val])]
  BY DEF SetInfo, SetWidth, setWidth, Due, Informed, Sized
<1>2. Top.val \in 1 .. Len(ir)
  BY <1>1, InvParts, ChangePlace
<1>3. NodeFine(ir, ir[Top.val])
  BY <1>2, InvParts DEF TreeFine
<1>4. PICK x : /\ ir' = [ir EXCEPT ![Top.val] = x]
               /\ NodeFine(ir, x) /\ x.kind = ir[Top.val].kind
  BY <1>1, <1>3, SetFine
<1>5. Nodes' /\ Grown(ir, ir')
  BY <1>1, <1>2, <1>4, NodeChanged
<1> QED BY <1>1, <1>5, ChangedInv

-----------------------------------------------------------------------------
(* Nothing happens.                                                        *)
LEMMA StutterInv ==
  ASSUME Inv, UNCHANGED vars
  PROVE  Inv'
BY DEF Inv, vars, nodes, Reading, Nodes, Stack, AcceptedIsRead, Accepted,
   Terminated,
       Length, Stopped

(* Every step keeps the invariant.                                         *)
LEMMA NextInv ==
  Inv /\ [Next]_vars => Inv'
<1> SUFFICES ASSUME Inv, [Next]_vars
             PROVE  Inv'
  OBVIOUS
<1>1. CASE Match
  BY <1>1, MatchInv
<1>2. CASE Call
  BY <1>2, CallInv
<1>3. CASE Return
  BY <1>3, ReturnInv
<1>4. CASE Choose
  BY <1>4, ChooseInv
<1>5. CASE Repeat
  BY <1>5, RepeatInv
<1>6. CASE Commit
  BY <1>6, CommitInv
<1>7. CASE Backtrack
  BY <1>7, BacktrackInv
<1>8. CASE Refuse \/ AddParameter \/ Finish
  BY <1>8, StopInv
<1>9. CASE MakeNode
  BY <1>9, MakeInv
<1>10. CASE WrapNode
  BY <1>10, WrapInv
<1>11. CASE TakeNode
  BY <1>11, TakeInv
<1>12. CASE AttachNode
  BY <1>12, AttachInv
<1>13. CASE SetField
  BY <1>13, SetFieldInv
<1>14. CASE SetInfo \/ SetWidth
  BY <1>14, SetInfoInv
<1>15. CASE UNCHANGED vars
  BY <1>15, StutterInv
<1> QED
  BY <1>1, <1>2, <1>3, <1>4, <1>5, <1>6, <1>7, <1>8, <1>9, <1>10, <1>11,
     <1>12, <1>13, <1>14, <1>15
  DEF Next, Descent, Action

(* The invariant holds of every state, for every set of texts.             *)
LEMMA InvHolds == Spec => []Inv
BY InitInv, NextInv, PTL DEF Spec

(* A tree that is fine is one that the IR can hold.                        *)
LEMMA TreeIsIR ==
  ASSUME TreeFine(ir)
  PROVE  IRTypeOK
<1> SUFFICES ASSUME NEW n \in 1 .. Len(ir)
             PROVE  /\ ir[n].kind \in AllKinds
                    /\ ir[n].info \in BOOLEAN /\ ir[n].width \in BOOLEAN
                    /\ \A pointer \in Pointers(ir[n].kind) :
                         \A i \in 1 .. Len(ir[n].to[pointer]) :
                           /\ ir[n].to[pointer][i] \in 1 .. Len(ir)
                           /\ ir[ir[n].to[pointer][i]].kind
                              \in Pointee(pointer)
  BY DEF IRTypeOK, Target, Made
<1>1. NodeFine(ir, ir[n])
  BY DEF TreeFine
<1>2. ir[n].kind \in AllKinds /\ ir[n].info \in BOOLEAN
      /\ ir[n].width \in BOOLEAN
  BY <1>1 DEF NodeFine, ReadKinds
<1>3. ASSUME NEW pointer \in Pointers(ir[n].kind),
             NEW i \in 1 .. Len(ir[n].to[pointer])
      PROVE  /\ ir[n].to[pointer][i] \in 1 .. Len(ir)
             /\ ir[ir[n].to[pointer][i]].kind \in Pointee(pointer)
  <2>1. ir[n].to[pointer] \in Seq(1 .. Len(ir))
    BY <1>1 DEF NodeFine
  <2>2. ir[n].to[pointer][i] \in 1 .. Len(ir)
    BY <2>1
  <2> QED BY <1>1, <2>2 DEF NodeFine
<1> QED BY <1>2, <1>3

-----------------------------------------------------------------------------
(***************************************************************************)
(* The types, whatever the texts and however long they are: the lexer is   *)
(* never behind the parser nor behind the end, a choice goes back to a     *)
(* place before this one, and a pointer leads to a kind its class takes.   *)
(***************************************************************************)
THEOREM TypeCorrect == Spec => []TypeOK
<1>1. ASSUME Inv
      PROVE  TypeOK
  <2>1. pos \in 1 .. Length + 1 /\ ahead \in pos .. Length + 1
    BY <1>1, TextKnown DEF Inv, Reading
  <2>2. Len(frames) \in 1 .. MaxDepth
    BY <1>1, InvParts
  <2>3. ASSUME NEW i \in 1 .. Len(frames)
        PROVE  /\ frames[i].val = NULL \/ Made(frames[i].val)
               /\ frames[i].start \in 1 .. Length + 1
    <3>1. PICK S : S = FrameSet(input.tokens, ir)
      OBVIOUS
    <3>2. frames \in Seq(S)
      BY <1>1, <3>1, InvParts
    <3>3. frames[i] \in S
      BY <3>2
    <3> QED BY <3>1, <3>3 DEF FrameSet, Made, Length
  <2>4. ASSUME NEW i \in 1 .. Len(choices)
        PROVE  choices[i].pos <= pos /\ choices[i].depth <= Len(frames)
    <3>1. choices[i].pos \in 1 .. pos /\ choices[i].depth \in 1 .. Len(frames)
      BY <1>1, InvParts DEF Shapes, ChoicesFine
    <3> QED BY <3>1
  <2>5. IRTypeOK
    BY <1>1, InvParts, TreeIsIR
  <2>6. Len(origin) = Len(ir) /\ Len(fields) = Len(ir)
    BY <1>1 DEF Inv, Nodes
  <2>7. status \in {"parsing"} \cup Stopped
    BY <1>1 DEF Inv
  <2> QED BY <2>1, <2>2, <2>3, <2>4, <2>5, <2>6, <2>7 DEF TypeOK
<1> QED BY <1>1, InvHolds, PTL

(***************************************************************************)
(* A text that ends with a line break and is accepted was read to its end, *)
(* whatever the texts, though the frontend asks the lexer and not the      *)
(* parser: in no state can what is left match without the blocks that are  *)
(* open being closed.                                                      *)
(***************************************************************************)
THEOREM AcceptedIsReadCorrect == Spec => []AcceptedIsRead
<1>1. Inv => AcceptedIsRead
  BY DEF Inv
<1> QED BY <1>1, InvHolds, PTL

(***************************************************************************)
(* No flip and no index is ever read, whatever the texts: the parser never *)
(* passes the token of a flip, and no node of an index is ever made, in no *)
(* alternative, since one would be made behind a bracket only, and there   *)
(* is no token for a bracket.                                              *)
(***************************************************************************)
THEOREM NeverReadCorrect == Spec => []NeverRead
<1>1. ASSUME Inv
      PROVE  NeverRead
  <2>1. ASSUME Accepted, Terminated
        PROVE  "flip" \notin ToSet(input.tokens)
    <3>1. pos = Length + 1 /\ Length \in Nat /\ input.tokens \in Seq(STRING)
      BY <1>1, <2>1, TextKnown DEF Inv, AcceptedIsRead
    <3>2. \A q \in 1 .. Length : input.tokens[q] # "flip"
      BY <1>1, <3>1 DEF Inv, Reading
    <3> QED BY <3>1, <3>2 DEF ToSet, Length
  <2>2. TreeFine(ir) /\ DOMAIN ir = 1 .. Len(ir)
    BY <1>1, InvParts DEF Inv, Nodes, TreeFine, IsSeq
  <2>3. ASSUME NEW n \in DOMAIN ir
        PROVE  ir[n].kind \notin Unread
    BY <2>2 DEF TreeFine, NodeFine, ReadKinds
  <2> QED BY <2>1, <2>3 DEF NeverRead
<1> QED BY <1>1, InvHolds, PTL

(* A rule that has begun twice at one token is a rule of a type.           *)
LEMMA InvGivesLeftRecursion ==
  ASSUME Inv
  PROVE  LeftRecursion
<1>1. SUFFICES ASSUME NEW i \in DOMAIN frames, NEW j \in DOMAIN frames,
                      i < j, frames[i].rule = frames[j].rule,
                      frames[i].start = frames[j].start
               PROVE  frames[i].rule \in TypeLoop
  BY DEF LeftRecursion, Recurs, TypeLoop
<1>2. DOMAIN frames = 1 .. Len(frames) /\ Len(frames) \in Nat
  BY InvParts
<1>3. j \in 1 .. Len(frames) /\ i \in 1 .. j - 1
  BY <1>1, <1>2
<1>4. MayBegin(frames[i].rule, frames[j].rule)
  BY <1>1, <1>3, InvParts DEF Ordered
<1> QED BY <1>1, <1>4, BeginsAgain

(***************************************************************************)
(* Only the rules of a type begin twice at one token, whatever the texts:  *)
(* between any other call of a rule and the next of that rule, by itself   *)
(* or by others, a token was read.                                         *)
(***************************************************************************)
THEOREM LeftRecursionCorrect == Spec => []LeftRecursion
BY InvGivesLeftRecursion, InvHolds, PTL

-----------------------------------------------------------------------------
(* How far a rule is: the token it began at, and then its rank.            *)
Height(F, j) == 10 * F[j].start - Rank(F[j].rule)

(* No rule has begun twice at one token.                                   *)
NoneTwice(F) ==
  \A i, j \in 1 .. Len(F) :
    i < j => ~ (F[i].rule = F[j].rule /\ F[i].start = F[j].start)

(* A rank is a digit.                                                      *)
LEMMA RankDigit ==
  ASSUME NEW r
  PROVE  Rank(r) \in 0 .. 9
BY DEF Rank

(* How far a rule is, in the tokens of the text.                           *)
LEMMA HeightKnown ==
  ASSUME NEW F, NEW k, NEW m \in Nat, F[k].start \in 1 .. m
  PROVE  Height(F, k) \in 1 .. 10 * m
<1>1. PICK a \in 1 .. m : a = F[k].start
  OBVIOUS
<1>2. PICK x \in 0 .. 9 : x = Rank(F[k].rule)
  BY RankDigit
<1>3. Height(F, k) = 10 * a - x
  BY <1>1, <1>2 DEF Height
<1> QED BY <1>3

(* A rule is as far as the one that called it or further; as far, where    *)
(* both are rules of a type that began at one token.                       *)
LEMMA HeightGrows ==
  ASSUME NEW F, NEW p, Ordered(F, p), Len(F) \in Nat,
         \A k \in 1 .. Len(F) : F[k].start \in Nat,
         NEW j \in 1 .. Len(F), NEW i \in 1 .. j - 1
  PROVE  \/ Height(F, i) < Height(F, j)
         \/ /\ Height(F, i) = Height(F, j) /\ F[i].start = F[j].start
            /\ {F[i].rule, F[j].rule} \subseteq TypeLoop
<1>1. i \in 1 .. Len(F)
  OBVIOUS
<1>2. PICK a \in Nat, b \in Nat : a = F[i].start /\ b = F[j].start
  BY <1>1
<1>3. PICK x \in 0 .. 9, y \in 0 .. 9 : x = Rank(F[i].rule)
           /\ y = Rank(F[j].rule)
  BY RankDigit
<1>4. a <= b /\ (a = b => MayBegin(F[i].rule, F[j].rule))
  BY <1>1, <1>2 DEF Ordered
<1>5. Height(F, i) = 10 * a - x /\ Height(F, j) = 10 * b - y
  BY <1>2, <1>3 DEF Height
<1>6. CASE a < b
  BY <1>5, <1>6
<1>7. CASE a = b /\ y < x
  BY <1>5, <1>7
<1>8. CASE a = b /\ {F[i].rule, F[j].rule} \subseteq TypeLoop
  <2>1. x = 2 /\ y = 2
    BY <1>3, <1>8, RankKnown DEF TypeLoop
  <2> QED BY <1>2, <1>5, <1>8, <2>1
<1> QED BY <1>3, <1>4, <1>6, <1>7, <1>8 DEF MayBegin

(* Two rules further there is one that is further.                         *)
LEMMA HeightGrowsByTwo ==
  ASSUME NEW F, NEW p, Ordered(F, p), Len(F) \in Nat, NoneTwice(F),
         \A k \in 1 .. Len(F) : F[k].start \in Nat,
         NEW j \in 1 .. Len(F), j > 2
  PROVE  Height(F, j - 2) < Height(F, j)
<1>1. /\ j - 2 \in 1 .. Len(F) /\ j - 1 \in 1 .. Len(F)
      /\ j - 2 \in 1 .. (j - 1) - 1 /\ j - 1 \in 1 .. j - 1
  OBVIOUS
<1>2. Height(F, j) \in Int /\ Height(F, j - 1) \in Int
      /\ Height(F, j - 2) \in Int
  <2>1. ASSUME NEW k \in 1 .. Len(F)
        PROVE  Height(F, k) \in Int
    <3>1. PICK a \in Nat, x \in 0 .. 9 : a = F[k].start /\ x = Rank(F[k].rule)
      BY RankDigit
    <3>2. Height(F, k) = 10 * a - x
      BY <3>1 DEF Height
    <3> QED BY <3>2
  <2> QED BY <1>1, <2>1
<1>3. PICK h \in 1 .. Len(F), k \in 1 .. Len(F) : h = j - 2 /\ k = j - 1
  BY <1>1
<1>4. \/ Height(F, h) < Height(F, k)
      \/ /\ Height(F, h) = Height(F, k) /\ F[h].start = F[k].start
         /\ {F[h].rule, F[k].rule} \subseteq TypeLoop
  BY <1>1, <1>3, HeightGrows
<1>5. \/ Height(F, k) < Height(F, j)
      \/ /\ Height(F, k) = Height(F, j) /\ F[k].start = F[j].start
         /\ {F[k].rule, F[j].rule} \subseteq TypeLoop
  BY <1>1, <1>3, HeightGrows
<1>6. CASE /\ F[h].start = F[k].start
              /\ {F[h].rule, F[k].rule} \subseteq TypeLoop
           /\ F[k].start = F[j].start
           /\ {F[k].rule, F[j].rule} \subseteq TypeLoop
  <2>1. /\ ~ (F[h].rule = F[k].rule /\ F[h].start = F[k].start)
        /\ ~ (F[k].rule = F[j].rule /\ F[k].start = F[j].start)
        /\ ~ (F[h].rule = F[j].rule /\ F[h].start = F[j].start)
    BY <1>3 DEF NoneTwice
  <2> QED BY <1>6, <2>1 DEF TypeLoop
<1> QED BY <1>2, <1>3, <1>4, <1>5, <1>6

(* So there are at most twenty for every token.                            *)
LEMMA FewRules ==
  ASSUME NEW F, NEW p, Ordered(F, p), Len(F) \in Nat, NoneTwice(F),
         NEW m \in Nat, \A k \in 1 .. Len(F) : F[k].start \in 1 .. m
  PROVE  Len(F) <= 20 * m
<1>1. \A k \in 1 .. Len(F) : F[k].start \in Nat
  OBVIOUS
<1>2. ASSUME NEW k \in 1 .. Len(F)
      PROVE  Height(F, k) \in 1 .. 10 * m
  BY HeightKnown
<1> DEFINE S == {n \in Nat : \A j \in 1 .. Len(F) : j <= n
                 => j <= 2 * Height(F, j)}
<1>3. 0 \in S
  OBVIOUS
<1>4. ASSUME NEW n \in Nat, n \in S
      PROVE  n + 1 \in S
  <2> SUFFICES ASSUME NEW j \in 1 .. Len(F), j <= n + 1
               PROVE  j <= 2 * Height(F, j)
    OBVIOUS
  <2>1. CASE j <= 2
    BY <1>2, <2>1
  <2>2. CASE j > 2
    <3>1. j - 2 \in 1 .. Len(F) /\ j - 2 <= n
      BY <2>2
    <3>2. j - 2 <= 2 * Height(F, j - 2)
      BY <1>4, <3>1
    <3>3. Height(F, j - 2) < Height(F, j)
      BY <1>1, <2>2, HeightGrowsByTwo
    <3>4. Height(F, j) \in Int /\ Height(F, j - 2) \in Int
      BY <1>2, <3>1
    <3> QED BY <3>2, <3>3, <3>4
  <2> QED BY <2>1, <2>2
<1>5. Len(F) \in S
  <2> HIDE DEF S
  <2> QED BY <1>3, <1>4, Induction
<1>6. CASE Len(F) = 0
  BY <1>6
<1>7. CASE Len(F) # 0
  <2>1. Len(F) \in 1 .. Len(F)
    BY <1>7
  <2>2. Len(F) <= 2 * Height(F, Len(F)) /\ Height(F, Len(F)) \in 1 .. 10 * m
    BY <1>2, <1>5, <2>1
  <2> QED BY <2>2
<1> QED BY <1>6, <1>7

-----------------------------------------------------------------------------
(* The stack is full where it overflows.                                   *)
OverflowsFull == status = "overflowed" => Len(frames) = MaxDepth

(* Only a call makes it overflow, and no step is taken after it.           *)
LEMMA OverflowsFullStep ==
  OverflowsFull /\ [Next]_vars => OverflowsFull'
<1> SUFFICES ASSUME OverflowsFull, [Next]_vars, status' = "overflowed"
             PROVE  Len(frames') = MaxDepth
  BY DEF OverflowsFull
<1>1. CASE UNCHANGED vars
  BY <1>1 DEF vars, OverflowsFull
<1>2. CASE Call
  <2>1. status = "parsing"
    BY <1>2 DEF Call, Due
  <2>2. Len(frames) = MaxDepth /\ frames' = frames
    BY <1>2, <2>1 DEF Call
  <2> QED BY <2>2
<1>3. CASE Match
  BY <1>3 DEF Match, Due
<1>4. CASE Return \/ Choose \/ Repeat \/ Commit
  BY <1>4 DEF Return, Choose, Repeat, Commit, Due
<1>5. CASE Backtrack \/ Refuse \/ Finish
  BY <1>5 DEF Backtrack, Refuse, Finish, Fails, Due
<1>6. CASE MakeNode \/ WrapNode \/ TakeNode \/ AttachNode
  BY <1>6 DEF MakeNode, WrapNode, TakeNode, AttachNode, Due
<1>7. CASE SetField \/ AddParameter \/ SetInfo \/ SetWidth
  BY <1>7 DEF SetField, AddParameter, SetInfo, SetWidth, Due
<1> QED BY <1>1, <1>2, <1>3, <1>4, <1>5, <1>6, <1>7 DEF Next, Descent, Action

(* A call stack that has room for twenty rules at every token and one more *)
(* is used up by a rule that has begun twice at one token, or not at all.  *)
OverflowRecurs ==
  status = "overflowed" /\ 20 * (Length + 1) < MaxDepth =>
    \E i, j \in DOMAIN frames :
      Recurs(i, j) /\ frames[i].rule \in {"type", "type_vector"}

(***************************************************************************)
(* If the call stack is not too small for the text, only the rules of a    *)
(* type that call each other use it up, whatever the text.                 *)
(***************************************************************************)
THEOREM OverflowRecursCorrect == Spec => []OverflowRecurs
<1>1. Init => OverflowsFull
  BY DEF Init, OverflowsFull
<1>2. ASSUME Inv, OverflowsFull
      PROVE  OverflowRecurs
  <2> SUFFICES ASSUME status = "overflowed", 20 * (Length + 1) < MaxDepth
               PROVE  \E i, j \in DOMAIN frames :
                        /\ Recurs(i, j)
                        /\ frames[i].rule \in {"type", "type_vector"}
    BY DEF OverflowRecurs
  <2>1. /\ Len(frames) = MaxDepth /\ MaxDepth \in Nat /\ Length \in Nat
        /\ DOMAIN frames = 1 .. Len(frames)
    BY <1>2, InvParts, TextKnown DEF OverflowsFull
  <2>2. ASSUME NEW k \in 1 .. Len(frames)
        PROVE  frames[k].start \in 1 .. Length + 1
    <3>1. PICK S : S = FrameSet(input.tokens, ir)
      OBVIOUS
    <3>2. frames \in Seq(S)
      BY <1>2, <3>1, InvParts
    <3>3. frames[k] \in S
      BY <3>2
    <3> QED BY <3>1, <3>3 DEF FrameSet, Length
  <2>3. ~ NoneTwice(frames)
    <3>1. SUFFICES ASSUME NoneTwice(frames)
                   PROVE  Len(frames) <= 20 * (Length + 1)
      BY <2>1
    <3>2. Ordered(frames, pos)
      BY <1>2, InvParts
    <3>3. PICK m \in Nat : m = Length + 1
      BY <2>1
    <3> QED BY <2>1, <2>2, <3>1, <3>2, <3>3, FewRules
  <2>4. PICK i \in DOMAIN frames, j \in DOMAIN frames : Recurs(i, j)
    BY <2>1, <2>3 DEF NoneTwice, Recurs
  <2>5. LeftRecursion
    BY <1>2, InvGivesLeftRecursion
  <2> QED BY <2>4, <2>5 DEF LeftRecursion
<1> QED BY <1>1, <1>2, InvHolds, OverflowsFullStep, PTL DEF Spec
===============================================================================
