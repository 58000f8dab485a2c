----------------------------- MODULE DataLemmas -----------------------------
(***************************************************************************)
(* What the proofs know of the data of the models: sets of natural         *)
(* numbers, finite sets, and sequences, with the operators of the          *)
(* community modules on them.                                              *)
(*                                                                         *)
(* An induction is over the set of the numbers something holds for: that   *)
(* set has 0 and the number after each of its numbers, so it has them all. *)
(***************************************************************************)
EXTENDS Integers, SequencesExt, FiniteSetTheorems, SequenceTheorems,
        WellFoundedInduction, TLAPS

(* A set of natural numbers that is not empty has a least element.         *)
LEMMA HasLeast ==
  ASSUME NEW S, S \subseteq Nat, S # {}
  PROVE  \E x \in S : \A y \in S : x <= y
<1> DEFINE R == OpToRel(<, Nat)
<1>1. IsWellFoundedOn(R, Nat)
  BY NatLessThanWellFounded
<1>2. \A y, x \in Nat : y < x => <<y, x>> \in R
  BY DEF OpToRel
<1> HIDE DEF R
<1>3. \E x \in S : \A y \in S : ~ (<<y, x>> \in R)
  BY <1>1, WFMin
<1>4. PICK x \in S : \A y \in S : ~ (<<y, x>> \in R)
  BY <1>3
<1>5. \A y \in S : ~ (y < x)
  BY <1>2, <1>4
<1>6. \A y \in S : x <= y
  BY <1>5
<1> QED BY <1>6

(* A set of numbers from 1 to a bound that is not empty has a greatest.    *)
LEMMA HasGreatest ==
  ASSUME NEW n \in Nat, NEW S, S \subseteq 1 .. n, S # {}
  PROVE  \E x \in S : \A y \in S : x >= y
<1> DEFINE T == {m \in Nat : n - m \in S}
<1>1. T \subseteq Nat
  OBVIOUS
<1>2. PICK x0 \in S : TRUE
  OBVIOUS
<1>3. n - x0 \in T
  BY n - (n - x0) = x0
<1>4. PICK t \in T : \A u \in T : t <= u
  BY <1>1, <1>3, HasLeast
<1>5. ASSUME NEW y \in S
      PROVE  n - t >= y
  <2>1. n - y \in T
    BY n - (n - y) = y
  <2> QED BY <1>4, <2>1
<1> QED BY <1>4, <1>5

(* Induction, over the set of the numbers something holds for.             *)
LEMMA Induction ==
  ASSUME NEW S, 0 \in S, \A n \in Nat : n \in S => n + 1 \in S
  PROVE  \A n \in Nat : n \in S
<1> SUFFICES ASSUME NEW n \in Nat, n \notin S
             PROVE  FALSE
  OBVIOUS
<1> DEFINE T == {m \in Nat : m \notin S}
<1>1. T \subseteq Nat /\ T # {}
  OBVIOUS
<1>2. PICK x \in T : \A y \in T : x <= y
  BY <1>1, HasLeast
<1>3. x \in Nat /\ x # 0 /\ x - 1 \in Nat
  OBVIOUS
<1>4. x - 1 \in S
  BY <1>2, <1>3
<1> QED BY <1>3, <1>4

(* A sequence with a node at its end: what it has, and where.              *)
LEMMA Appended ==
  ASSUME NEW s, s \in Seq(ToSet(s)), NEW n
  PROVE  /\ Append(s, n) \in Seq(ToSet(Append(s, n)))
         /\ ToSet(Append(s, n)) = ToSet(s) \cup {n}
         /\ \A i \in DOMAIN s : i \in DOMAIN Append(s, n) /\ Append(s, n)[i] = s[i]
         /\ Len(s) \in Nat
         /\ Len(s) + 1 \in DOMAIN Append(s, n)
         /\ Append(s, n)[Len(s) + 1] = n
<1> DEFINE S == ToSet(s) \cup {n}
           t == Append(s, n)
<1>1. s \in Seq(S)
  <2>1. ToSet(s) \subseteq S
    OBVIOUS
  <2> QED  BY <2>1
<1>2. n \in S
  OBVIOUS
<1> HIDE DEF S
<1>3. /\ t \in Seq(S)
      /\ DOMAIN t = 1 .. Len(s) + 1
      /\ DOMAIN s = 1 .. Len(s)
      /\ Len(s) \in Nat
      /\ \A i \in 1 .. Len(s) : t[i] = s[i]
      /\ t[Len(s) + 1] = n
  BY <1>1, <1>2
<1> HIDE DEF t
<1>4. ToSet(t) = S
  BY <1>3 DEF ToSet, S
<1>5. QED
  BY <1>3, <1>4 DEF t, S

(* What a sequence has that two were joined to.                            *)
LEMMA ConcatHas ==
  ASSUME NEW S, NEW s \in Seq(S), NEW t \in Seq(S)
  PROVE  ToSet(s \o t) = ToSet(s) \cup ToSet(t)
<1>1. /\ s \o t \in Seq(S)
      /\ Len(s \o t) = Len(s) + Len(t)
      /\ \A i \in 1 .. Len(s) + Len(t) : (s \o t)[i] =
           IF i <= Len(s) THEN s[i] ELSE t[i - Len(s)]
  BY ConcatProperties
<1>2. /\ Len(s) \in Nat /\ DOMAIN s = 1 .. Len(s)
      /\ Len(t) \in Nat /\ DOMAIN t = 1 .. Len(t)
      /\ DOMAIN (s \o t) = 1 .. Len(s) + Len(t)
  BY <1>1
<1> DEFINE st == s \o t
<1> HIDE DEF st
<1>3. ASSUME NEW i \in DOMAIN st
      PROVE  st[i] \in ToSet(s) \cup ToSet(t)
  <2>1. CASE i <= Len(s)
    BY <1>1, <1>2, <2>1 DEF ToSet, st
  <2>2. CASE ~ (i <= Len(s))
    <3>1. i - Len(s) \in DOMAIN t
      BY <1>1, <1>2, <2>2 DEF st
    <3> QED BY <1>1, <1>2, <2>2, <3>1 DEF ToSet, st
  <2> QED BY <2>1, <2>2
<1>4. ASSUME NEW i \in DOMAIN s
      PROVE  s[i] \in ToSet(st)
  <2>1. i \in DOMAIN st /\ st[i] = s[i]
    BY <1>1, <1>2 DEF st
  <2> QED BY <2>1 DEF ToSet
<1>5. ASSUME NEW i \in DOMAIN t
      PROVE  t[i] \in ToSet(st)
  <2>1. Len(s) + i \in DOMAIN st /\ st[Len(s) + i] = t[i]
    BY <1>1, <1>2 DEF st
  <2> QED BY <2>1 DEF ToSet
<1> QED BY <1>3, <1>4, <1>5 DEF ToSet, st

(* Taking the first from two sequences that were joined.                   *)
LEMMA TailConcat ==
  ASSUME NEW S, NEW s \in Seq(S), NEW t \in Seq(S), s # <<>>
  PROVE  /\ s \o t # <<>> /\ Head(s \o t) = Head(s)
         /\ Tail(s \o t) = Tail(s) \o t /\ Tail(s) \in Seq(S)
<1> DEFINE st == s \o t
           u == Tail(s)
           a == Tail(st)
           b == u \o t
<1>1. /\ st \in Seq(S) /\ Len(st) = Len(s) + Len(t)
      /\ \A i \in 1 .. Len(s) + Len(t) : st[i] = IF i <= Len(s) THEN s[i] ELSE t[i - Len(s)]
  BY ConcatProperties
<1>2. /\ Len(s) \in Nat \ {0} /\ Len(t) \in Nat
      /\ Head(s) = s[1] /\ u \in Seq(S) /\ Len(u) = Len(s) - 1
      /\ \A i \in 1 .. Len(u) : u[i] = s[i + 1]
  BY HeadTailProperties, EmptySeq
<1> HIDE DEF st, u
<1>3. st # <<>> /\ st[1] = s[1]
  BY <1>1, <1>2
<1>4. /\ Head(st) = st[1] /\ a \in Seq(S) /\ Len(a) = Len(st) - 1
      /\ \A i \in 1 .. Len(a) : a[i] = st[i + 1]
  BY <1>1, <1>3, HeadTailProperties
<1>5. /\ b \in Seq(S) /\ Len(b) = Len(u) + Len(t)
      /\ \A i \in 1 .. Len(u) + Len(t) : b[i] = IF i <= Len(u) THEN u[i] ELSE t[i - Len(u)]
  BY <1>2, ConcatProperties
<1> HIDE DEF a, b
<1>6. Len(a) = Len(b) /\ Len(a) \in Nat
  BY <1>1, <1>2, <1>4, <1>5
<1>7. ASSUME NEW i \in 1 .. Len(a)
      PROVE  a[i] = b[i]
  <2>1. i + 1 \in 1 .. Len(s) + Len(t) /\ i \in 1 .. Len(u) + Len(t) /\ i \in Nat
    BY <1>1, <1>2, <1>4
  <2>2. a[i] = st[i + 1]
    BY <1>4
  <2>3. CASE i <= Len(u)
    <3>1. i + 1 <= Len(s) /\ i \in 1 .. Len(u)
      BY <1>2, <2>1, <2>3
    <3>2. st[i + 1] = s[i + 1] /\ b[i] = u[i] /\ u[i] = s[i + 1]
      BY <1>1, <1>2, <1>5, <2>1, <2>3, <3>1
    <3> QED BY <2>2, <3>2
  <2>4. CASE ~ (i <= Len(u))
    <3>1. ~ (i + 1 <= Len(s)) /\ (i + 1) - Len(s) = i - Len(u)
      BY <1>2, <2>1, <2>4
    <3>2. st[i + 1] = t[(i + 1) - Len(s)] /\ b[i] = t[i - Len(u)]
      BY <1>1, <1>5, <2>1, <2>4, <3>1
    <3> QED BY <2>2, <3>1, <3>2
  <2> QED BY <2>3, <2>4
<1>8. a = b
  BY <1>4, <1>5, <1>6, <1>7
<1> QED BY <1>2, <1>3, <1>4, <1>8 DEF a, b, st, u

(* Sequences that are written out: what they have.                         *)
LEMMA Tuples ==
  ASSUME NEW S
  PROVE  /\ <<>> \in Seq(S) /\ ToSet(<<>>) = {}
         /\ \A a \in S : <<a>> \in Seq(S) /\ ToSet(<<a>>) = {a}
         /\ \A a, b \in S : <<a, b>> \in Seq(S) /\ ToSet(<<a, b>>) = {a, b}
         /\ \A a, b, c \in S : <<a, b, c>> \in Seq(S) /\ ToSet(<<a, b, c>>) = {a, b, c}
         /\ \A a, b, c, d \in S :
              <<a, b, c, d>> \in Seq(S) /\ ToSet(<<a, b, c, d>>) = {a, b, c, d}
         /\ \A a, b, c, d, e \in S :
              <<a, b, c, d, e>> \in Seq(S) /\ ToSet(<<a, b, c, d, e>>) = {a, b, c, d, e}
         /\ \A a, b, c, d, e, f \in S :
              /\ <<a, b, c, d, e, f>> \in Seq(S)
              /\ ToSet(<<a, b, c, d, e, f>>) = {a, b, c, d, e, f}
BY DEF ToSet

-----------------------------------------------------------------------------
(***************************************************************************)
(* A search through numbers in their order, as IR.From is one: next says   *)
(* where a number leads, and leads to later ones alone.                    *)
(***************************************************************************)
(* The search as it is written, and what it comes to step by step.         *)
Searches(L, start, next, found) ==
  found = [n \in 0 .. L |->
            IF n = 0 THEN start
            ELSE IF n \in found[n - 1] THEN found[n - 1] \cup next[n]
            ELSE found[n - 1]]

Searched(L, start, next, found) ==
  /\ found[0] = start
  /\ \A n \in 1 .. L : found[n] =
       IF n \in found[n - 1] THEN found[n - 1] \cup next[n] ELSE found[n - 1]

(* What is in all is start, and what it leads to, and nothing else.        *)
Closure(L, start, next, all) ==
  /\ start \subseteq all
  /\ all \subseteq 1 .. L
  /\ \A n \in all : next[n] \subseteq all
  /\ \A T : start \subseteq T /\ (\A n \in T \cap 1 .. L : next[n] \subseteq T)
                => all \subseteq T

(* There is such a function: the search is defined.                        *)
LEMMA SearchDefined ==
  ASSUME NEW L \in Nat, NEW start, NEW next
  PROVE  \E found : Searches(L, start, next, found)
<1> DEFINE After(f, n) == IF n = 0 THEN start
                          ELSE IF n \in f[n - 1] THEN f[n - 1] \cup next[n]
                          ELSE f[n - 1]
           D == {m \in Nat : \E f : \A n \in 0 .. m : f[n] = After(f, n)}
<1>1. 0 \in D
  <2> DEFINE f == [n \in {0} |-> start]
  <2>1. \A n \in 0 .. 0 : f[n] = After(f, n)
    OBVIOUS
  <2> HIDE DEF f, After
  <2> QED BY <2>1
<1>2. ASSUME NEW m \in Nat, m \in D
      PROVE  m + 1 \in D
  <2>1. PICK f : \A n \in 0 .. m : f[n] = After(f, n)
    BY <1>2
  <2> DEFINE g == [n \in 0 .. m + 1 |->
                     IF n = m + 1 THEN After(f, n) ELSE f[n]]
  <2>2. ASSUME NEW n \in 0 .. m + 1
        PROVE  g[n] = After(g, n)
    <3>1. n # 0 => n - 1 \in 0 .. m
      OBVIOUS
    <3>2. n # 0 => g[n - 1] = f[n - 1]
      BY <3>1
    <3>3. After(g, n) = After(f, n)
      BY <3>2
    <3>4. n # m + 1 => n \in 0 .. m
      OBVIOUS
    <3> HIDE DEF After
    <3> QED BY <2>1, <3>3, <3>4
  <2> HIDE DEF g, After
  <2> QED BY <2>2
<1> HIDE DEF D
<1>3. L \in D
  BY <1>1, <1>2, Induction
<1>4. PICK f : \A n \in 0 .. L : f[n] = After(f, n)
  BY <1>3 DEF D
<1> DEFINE g == [n \in 0 .. L |-> f[n]]
<1>5. ASSUME NEW n \in 0 .. L
      PROVE  g[n] = After(g, n)
  <2>1. n # 0 => n - 1 \in 0 .. L
    OBVIOUS
  <2>2. After(g, n) = After(f, n)
    BY <2>1
  <2> QED BY <1>4, <2>2
<1>6. g = [n \in 0 .. L |-> After(g, n)]
  BY <1>5
<1> HIDE DEF g
<1>7. Searches(L, start, next, g)
  BY <1>6 DEF Searches
<1> QED BY <1>7

(* It finds all that start leads to and nothing else.                      *)
LEMMA SearchFinds ==
  ASSUME NEW L \in Nat, NEW start, start \subseteq 1 .. L, NEW next,
         \A n \in 1 .. L : next[n] \subseteq n + 1 .. L,
         NEW found, Searched(L, start, next, found)
  PROVE  Closure(L, start, next, found[L])
<1>1. /\ found[0] = start
      /\ \A n \in 1 .. L : found[n] =
           IF n \in found[n - 1] THEN found[n - 1] \cup next[n] ELSE found[n - 1]
  BY DEF Searched
<1>2. ASSUME NEW n \in Nat, n + 1 <= L
      PROVE  found[n + 1] = IF n + 1 \in found[n] THEN found[n] \cup next[n + 1]
                                                  ELSE found[n]
  <2>1. n + 1 \in 1 .. L /\ (n + 1) - 1 = n
    BY <1>2
  <2> QED BY <1>1, <2>1
<1> DEFINE Upto(n) ==
      /\ start \subseteq found[n]
      /\ found[n] \subseteq 1 .. L
      /\ \A m \in found[n] : m <= n => next[m] \subseteq found[n]
      /\ \A T : start \subseteq T /\ (\A m \in T \cap 1 .. L : next[m] \subseteq T)
                  => found[n] \subseteq T
    D == {n \in Nat : n <= L => Upto(n)}
<1>3. 0 \in D
  <2>1. ASSUME NEW m \in found[0], m <= 0
        PROVE  FALSE
    <3>1. m \in 1 .. L
      BY <1>1
    <3> QED BY <2>1, <3>1
  <2>2. Upto(0)
    BY <1>1, <2>1
  <2> QED BY <2>2
<1>4. ASSUME NEW n \in Nat, n \in D
      PROVE  n + 1 \in D
  <2> SUFFICES ASSUME n + 1 <= L
               PROVE  Upto(n + 1)
    OBVIOUS
  <2>1. Upto(n) /\ n + 1 \in 1 .. L
    BY <1>4
  <2>2. CASE n + 1 \notin found[n]
    <3>1. found[n + 1] = found[n]
      BY <1>2, <2>1, <2>2
    <3>2. ASSUME NEW m \in found[n], m <= n + 1
          PROVE  m <= n
      BY <2>1, <2>2, <3>2
    <3> QED BY <2>1, <3>1, <3>2
  <2>3. CASE n + 1 \in found[n]
    <3>1. found[n + 1] = found[n] \cup next[n + 1]
      BY <1>2, <2>1, <2>3
    <3>2. next[n + 1] \subseteq n + 2 .. L
      BY <2>1
    <3>3. ASSUME NEW m \in found[n + 1], m <= n + 1
          PROVE  next[m] \subseteq found[n + 1]
      <4>1. m \in found[n] /\ m \in 1 .. L
        BY <2>1, <3>1, <3>2, <3>3
      <4>2. m <= n \/ m = n + 1
        BY <4>1, <3>3
      <4> QED BY <2>1, <3>1, <4>1, <4>2
    <3>4. found[n + 1] \subseteq 1 .. L
      BY <2>1, <3>1, <3>2
    <3>5. ASSUME NEW T, start \subseteq T,
                 \A m \in T \cap 1 .. L : next[m] \subseteq T
          PROVE  found[n + 1] \subseteq T
      <4>1. found[n] \subseteq T
        BY <2>1, <3>5
      <4> QED BY <2>1, <2>3, <3>1, <3>5, <4>1
    <3> QED BY <2>1, <3>1, <3>3, <3>4, <3>5
  <2> QED BY <2>2, <2>3
<1> HIDE DEF Upto
<1>5. L \in D
  <2> HIDE DEF D
  <2> QED BY <1>3, <1>4, Induction
<1>6. Upto(L)
  BY <1>5
<1> QED BY <1>6 DEF Upto, Closure

-----------------------------------------------------------------------------
(***************************************************************************)
(* FlattenSeq, as what it comes to sequence after sequence.                *)
(***************************************************************************)
(* f has the sequences up to each joined.                                  *)
Flattens(seqs, f) ==
  /\ f[0] = <<>>
  /\ \A i \in 1 .. Len(seqs) : f[i] = f[i - 1] \o seqs[i]

(* There is such a function.                                               *)
LEMMA FlattenDefined ==
  ASSUME NEW S, NEW seqs \in Seq(Seq(S))
  PROVE  \E f \in [0 .. Len(seqs) -> Seq(S)] : Flattens(seqs, f)
<1> DEFINE L == Len(seqs)
           Can(m) == \E f \in [0 .. m -> Seq(S)] :
                       /\ f[0] = <<>>
                       /\ \A i \in 1 .. m : f[i] = f[i - 1] \o seqs[i]
           D == {m \in Nat : m <= L => Can(m)}
<1>1. Can(0)
  <2> DEFINE f == [n \in 0 .. 0 |-> <<>>]
  <2>1. f \in [0 .. 0 -> Seq(S)] /\ f[0] = <<>>
    BY EmptySeq
  <2>2. \A i \in 1 .. 0 : FALSE
    OBVIOUS
  <2> HIDE DEF f
  <2> QED BY <2>1, <2>2
<1>2. ASSUME NEW m \in Nat, m + 1 <= L, Can(m)
      PROVE  Can(m + 1)
  <2>1. PICK f \in [0 .. m -> Seq(S)] :
          /\ f[0] = <<>>
          /\ \A i \in 1 .. m : f[i] = f[i - 1] \o seqs[i]
    BY <1>2
  <2>2. m + 1 \in 1 .. L /\ seqs[m + 1] \in Seq(S)
    BY <1>2
  <2> DEFINE t == f[m] \o seqs[m + 1]
             g == [n \in 0 .. m + 1 |-> IF n = m + 1 THEN t ELSE f[n]]
  <2>3. f[m] \in Seq(S)
    BY <2>1
  <2>4. t \in Seq(S)
    BY <2>2, <2>3, ConcatProperties
  <2> HIDE DEF t
  <2>5. g \in [0 .. m + 1 -> Seq(S)]
    BY <2>1, <2>4
  <2>6. \A n \in 0 .. m : g[n] = f[n]
    OBVIOUS
  <2>7. g[m + 1] = t /\ 0 \in 0 .. m
    OBVIOUS
  <2> HIDE DEF g
  <2>8. ASSUME NEW i \in 1 .. m + 1
        PROVE  g[i] = g[i - 1] \o seqs[i]
    <3>1. CASE i \in 1 .. m
      <4>1. i \in 0 .. m /\ i - 1 \in 0 .. m
        BY <3>1
      <4> QED BY <2>1, <2>6, <3>1, <4>1
    <3>2. CASE i = m + 1
      <4>1. i - 1 = m /\ m \in 0 .. m
        BY <3>2
      <4>2. g[m] = f[m]
        BY <2>6, <4>1
      <4>3. g[m + 1] = g[m] \o seqs[m + 1]
        BY <2>7, <4>2 DEF t
      <4> QED BY <3>2, <4>1, <4>3
    <3>3. i \in 1 .. m \/ i = m + 1
      OBVIOUS
    <3> QED BY <3>1, <3>2, <3>3, Zenon
  <2> QED BY <2>1, <2>5, <2>6, <2>7, <2>8
<1> HIDE DEF Can
<1>3. L \in Nat
  OBVIOUS
<1>4. 0 \in D /\ \A m \in Nat : m \in D => m + 1 \in D
  <2> HIDE DEF L
  <2> QED BY <1>1, <1>2, <1>3
<1>5. L \in D
  <2> HIDE DEF D
  <2> QED BY <1>3, <1>4, Induction
<1>6. Can(L)
  BY <1>5
<1> QED BY <1>6 DEF Can, Flattens

(* FlattenSeq is where it ends.                                            *)
LEMMA FlattenJoins ==
  ASSUME NEW S, NEW seqs \in Seq(Seq(S))
  PROVE  \E f \in [0 .. Len(seqs) -> Seq(S)] :
           Flattens(seqs, f) /\ FlattenSeq(seqs) = f[Len(seqs)]
<1> DEFINE L == Len(seqs)
           Is(g) == g = [i \in 1 .. L |-> IF i = 1 THEN seqs[i] ELSE g[i - 1] \o seqs[i]]
           flatten == CHOOSE g : Is(g)
<1>1. L \in Nat /\ \A i \in 1 .. L : seqs[i] \in Seq(S)
  OBVIOUS
<1>2. PICK f \in [0 .. L -> Seq(S)] : Flattens(seqs, f)
  BY FlattenDefined
<1>3. \E g : Is(g)
  <2> DEFINE g == [i \in 1 .. L |-> f[i]]
  <2>1. ASSUME NEW i \in 1 .. L
        PROVE  g[i] = IF i = 1 THEN seqs[i] ELSE g[i - 1] \o seqs[i]
    <3>1. CASE i = 1
      <4>0. f[1] = f[1 - 1] \o seqs[1] /\ f[0] = <<>>
        BY <1>2, <3>1 DEF Flattens
      <4>1. f[1] = <<>> \o seqs[1]
        <5>1. 1 - 1 = 0
          OBVIOUS
        <5> QED BY ONLY <4>0, <5>1, Zenon
      <4>2. <<>> \o seqs[1] = seqs[1]
        BY <1>1, <3>1, ConcatEmptySeq
      <4> QED BY <3>1, <4>1, <4>2
    <3>2. CASE i # 1
      <4>1. i - 1 \in 1 .. L
        BY <3>2
      <4>2. g[i - 1] = f[i - 1]
        BY <4>1
      <4> QED BY <1>2, <3>2, <4>2 DEF Flattens
    <3> QED BY <3>1, <3>2
  <2>2. g = [i \in 1 .. L |-> IF i = 1 THEN seqs[i] ELSE g[i - 1] \o seqs[i]]
    BY <2>1
  <2> HIDE DEF g
  <2>3. Is(g)
    BY <2>2
  <2> QED BY <2>3
<1>4. Is(flatten)
  <2> HIDE DEF Is
  <2> QED BY <1>3
<1>5. L # 0 => FlattenSeq(seqs) = flatten[L]
  BY DEF FlattenSeq
<1>6. L = 0 => FlattenSeq(seqs) = <<>>
  BY DEF FlattenSeq
<1> HIDE DEF flatten
<1>7. \A i \in 1 .. L : flatten[i] = IF i = 1 THEN seqs[i] ELSE flatten[i - 1] \o seqs[i]
  BY <1>4, Zenon
<1> HIDE DEF Is, L
<1>8. f[0] = <<>> /\ \A i \in 1 .. L : f[i] = f[i - 1] \o seqs[i]
  BY <1>2 DEF Flattens, L
<1> DEFINE D == {m \in Nat : m + 1 <= L => flatten[m + 1] = f[m + 1]}
<1>9. 0 \in D
  <2> SUFFICES ASSUME 1 <= L
               PROVE  flatten[1] = f[1]
    OBVIOUS
  <2>1. 1 \in 1 .. L /\ 1 - 1 = 0
    BY <1>1
  <2>2. flatten[1] = seqs[1]
    BY <1>7, <2>1
  <2>3. f[1] = <<>> \o seqs[1]
    BY <1>8, <2>1
  <2>4. <<>> \o seqs[1] = seqs[1]
    BY <1>1, <2>1, ConcatEmptySeq
  <2> QED BY <2>2, <2>3, <2>4
<1>10. ASSUME NEW m \in Nat, m \in D
       PROVE  m + 1 \in D
  <2> SUFFICES ASSUME m + 2 <= L
               PROVE  flatten[m + 2] = f[m + 2]
    OBVIOUS
  <2>1. m + 2 \in 1 .. L /\ m + 2 # 1 /\ (m + 2) - 1 = m + 1
    BY <1>1
  <2>2. flatten[m + 2] = flatten[m + 1] \o seqs[m + 2]
    BY <1>7, <2>1
  <2>3. f[m + 2] = f[m + 1] \o seqs[m + 2]
    BY <1>8, <2>1
  <2>4. flatten[m + 1] = f[m + 1]
    BY <1>1, <1>10
  <2> QED BY <2>2, <2>3, <2>4
<1>11. \A m \in Nat : m \in D
  <2> HIDE DEF D
  <2> QED BY <1>9, <1>10, Induction
<1>12. FlattenSeq(seqs) = f[L]
  <2>1. CASE L = 0
    BY <1>6, <1>8, <2>1
  <2>2. CASE L # 0
    <3>1. L - 1 \in Nat /\ (L - 1) + 1 = L
      BY <1>1, <2>2
    <3>2. flatten[L] = f[L]
      BY <1>11, <3>1
    <3> QED BY <1>5, <2>2, <3>2
  <2> QED BY <2>1, <2>2
<1> QED BY <1>2, <1>12 DEF L

(* What is in the sequences is in the joined one, and nothing else.        *)
LEMMA FlattenHas ==
  ASSUME NEW S, NEW seqs \in Seq(Seq(S))
  PROVE  /\ FlattenSeq(seqs) \in Seq(S)
         /\ ToSet(FlattenSeq(seqs)) = UNION {ToSet(seqs[i]) : i \in 1 .. Len(seqs)}
<1>1. PICK f \in [0 .. Len(seqs) -> Seq(S)] :
         Flattens(seqs, f) /\ FlattenSeq(seqs) = f[Len(seqs)]
  BY FlattenJoins
<1>2. Len(seqs) \in Nat /\ \A i \in 1 .. Len(seqs) : seqs[i] \in Seq(S)
  OBVIOUS
<1> DEFINE Has(m) == ToSet(f[m]) = UNION {ToSet(seqs[i]) : i \in 1 .. m}
           D == {m \in Nat : m <= Len(seqs) => Has(m)}
<1>3. 0 \in D
  <2>1. ToSet(<<>>) = {}
    BY DEF ToSet
  <2>2. 1 .. 0 = {}
    OBVIOUS
  <2>3. Has(0)
    BY <1>1, <2>1, <2>2 DEF Flattens
  <2> QED BY <2>3
<1>4. ASSUME NEW m \in Nat, m \in D
      PROVE  m + 1 \in D
  <2> SUFFICES ASSUME m + 1 <= Len(seqs)
               PROVE  Has(m + 1)
    OBVIOUS
  <2>1. /\ m + 1 \in 1 .. Len(seqs) /\ (m + 1) - 1 = m /\ m \in 0 .. Len(seqs)
        /\ 1 .. m + 1 = 1 .. m \cup {m + 1}
    BY <1>2
  <2>2. f[m + 1] = f[m] \o seqs[m + 1]
    BY <1>1, <2>1 DEF Flattens
  <2>3. f[m] \in Seq(S) /\ seqs[m + 1] \in Seq(S)
    BY <1>1, <1>2, <2>1
  <2>5. ToSet(f[m + 1]) = ToSet(f[m]) \cup ToSet(seqs[m + 1])
    BY <2>2, <2>3, ConcatHas
  <2>4. Has(m)
    BY <1>2, <1>4
  <2> HIDE DEF D
  <2> QED BY <2>1, <2>5, <2>4
<1>5. Has(Len(seqs))
  <2> HIDE DEF Has
  <2>1. \A m \in Nat : m \in D
    <3> HIDE DEF D
    <3> QED BY <1>3, <1>4, Induction
  <2> QED BY <1>2, <2>1
<1> QED BY <1>1, <1>2, <1>5

-----------------------------------------------------------------------------
(***************************************************************************)
(* Walks: a sequence takes the level from a to b and never below 0. What   *)
(* is in up adds one to the level, what is in down takes one away.         *)
(***************************************************************************)
(* One step.                                                               *)
Stepped(up, down, x, h) == IF x \in up THEN h + 1
                           ELSE IF x \in down THEN h - 1 ELSE h

(* The levels on the way.                                                  *)
Heights(up, down, s, d) ==
  \A i \in 1 .. Len(s) : d[i] = Stepped(up, down, s[i], d[i - 1])

(* The way from a to b.                                                    *)
Climbs(up, down, s, a, b) ==
  \E d \in [0 .. Len(s) -> Nat] :
    d[0] = a /\ d[Len(s)] = b /\ Heights(up, down, s, d)

(* The empty sequence goes nowhere.                                        *)
LEMMA ClimbsNothing ==
  ASSUME NEW up, NEW down, NEW a, NEW b
  PROVE  /\ a \in Nat => Climbs(up, down, <<>>, a, a)
         /\ Climbs(up, down, <<>>, a, b) => a = b
<1>1. ASSUME a \in Nat
      PROVE  Climbs(up, down, <<>>, a, a)
  <2> DEFINE d == [i \in 0 .. 0 |-> a]
  <2>1. d \in [0 .. Len(<<>>) -> Nat] /\ d[0] = a /\ d[Len(<<>>)] = a
    BY <1>1
  <2>2. \A i \in 1 .. Len(<<>>) : FALSE
    OBVIOUS
  <2> HIDE DEF d
  <2> QED BY <2>1, <2>2 DEF Climbs, Heights
<1>2. Climbs(up, down, <<>>, a, b) => a = b
  BY DEF Climbs
<1> QED BY <1>1, <1>2

(* A sequence that changes nothing.                                        *)
LEMMA ClimbsFlat ==
  ASSUME NEW up, NEW down, NEW S, S \cap (up \cup down) = {}, NEW s \in Seq(S),
         NEW a \in Nat
  PROVE  Climbs(up, down, s, a, a)
<1> DEFINE d == [i \in 0 .. Len(s) |-> a]
<1>1. d \in [0 .. Len(s) -> Nat] /\ d[0] = a /\ d[Len(s)] = a
  OBVIOUS
<1>2. ASSUME NEW i \in 1 .. Len(s)
      PROVE  d[i] = Stepped(up, down, s[i], d[i - 1])
  <2>1. i \in 0 .. Len(s) /\ i - 1 \in 0 .. Len(s) /\ s[i] \in S
    OBVIOUS
  <2> QED BY <2>1 DEF Stepped
<1> HIDE DEF d
<1> QED BY <1>1, <1>2 DEF Climbs, Heights

(* A single step.                                                          *)
LEMMA ClimbsOne ==
  ASSUME NEW up, NEW down, NEW x, NEW a \in Nat, Stepped(up, down, x, a) \in Nat
  PROVE  Climbs(up, down, <<x>>, a, Stepped(up, down, x, a))
<1> DEFINE d == [i \in 0 .. 1 |-> IF i = 0 THEN a ELSE Stepped(up, down, x, a)]
<1>1. d \in [0 .. Len(<<x>>) -> Nat] /\ d[0] = a
      /\ d[Len(<<x>>)] = Stepped(up, down, x, a) /\ d[1] = Stepped(up, down, x, a)
  OBVIOUS
<1>2. ASSUME NEW i \in 1 .. Len(<<x>>)
      PROVE  i = 1 /\ <<x>>[i] = x /\ i - 1 = 0
  OBVIOUS
<1> HIDE DEF d
<1>3. Heights(up, down, <<x>>, d)
  <2> SUFFICES ASSUME NEW i \in 1 .. Len(<<x>>)
               PROVE  d[i] = Stepped(up, down, <<x>>[i], d[i - 1])
    BY DEF Heights
  <2> QED BY <1>1, <1>2
<1> QED BY <1>1, <1>3 DEF Climbs

(* One after the other.                                                    *)
LEMMA ClimbsConcat ==
  ASSUME NEW up, NEW down, NEW S, NEW s \in Seq(S), NEW t \in Seq(S),
         NEW a, NEW b, NEW c, Climbs(up, down, s, a, b), Climbs(up, down, t, b, c)
  PROVE  Climbs(up, down, s \o t, a, c)
<1>1. PICK d \in [0 .. Len(s) -> Nat] :
        d[0] = a /\ d[Len(s)] = b /\ Heights(up, down, s, d)
  BY DEF Climbs
<1>2. PICK e \in [0 .. Len(t) -> Nat] :
        e[0] = b /\ e[Len(t)] = c /\ Heights(up, down, t, e)
  BY DEF Climbs
<1> DEFINE st == s \o t
           f == [i \in 0 .. Len(s) + Len(t) |->
                  IF i <= Len(s) THEN d[i] ELSE e[i - Len(s)]]
<1>3. /\ Len(st) = Len(s) + Len(t)
      /\ \A i \in 1 .. Len(s) + Len(t) : st[i] =
           IF i <= Len(s) THEN s[i] ELSE t[i - Len(s)]
      /\ Len(s) \in Nat /\ Len(t) \in Nat
  BY ConcatProperties
<1> HIDE DEF st
<1>4. /\ f \in [0 .. Len(st) -> Nat]
      /\ \A i \in 0 .. Len(s) : f[i] = d[i]
      /\ \A i \in 0 .. Len(t) : f[Len(s) + i] = e[i]
  <2>1. ASSUME NEW i \in 0 .. Len(s) + Len(t)
        PROVE  (IF i <= Len(s) THEN d[i] ELSE e[i - Len(s)]) \in Nat
    <3>1. i <= Len(s) => i \in 0 .. Len(s)
      BY <1>3
    <3>2. ~ (i <= Len(s)) => i - Len(s) \in 0 .. Len(t)
      BY <1>3
    <3> QED BY <3>1, <3>2
  <2>2. f \in [0 .. Len(st) -> Nat]
    BY <1>3, <2>1
  <2>3. ASSUME NEW i \in 0 .. Len(s)
        PROVE  f[i] = d[i]
    BY <1>3
  <2>4. ASSUME NEW i \in 0 .. Len(t)
        PROVE  f[Len(s) + i] = e[i]
    <3>1. Len(s) + i \in 0 .. Len(s) + Len(t) /\ (Len(s) + i) - Len(s) = i
      BY <1>3
    <3>2. Len(s) + i <= Len(s) => i = 0 /\ Len(s) + i = Len(s)
      BY <1>3
    <3> QED BY <1>1, <1>2, <3>1, <3>2
  <2> QED BY <2>2, <2>3, <2>4
<1> HIDE DEF f
<1>5. f[0] = a /\ f[Len(st)] = c
  <2>1. 0 \in 0 .. Len(s) /\ Len(t) \in 0 .. Len(t)
    BY <1>3
  <2> QED BY <1>1, <1>2, <1>3, <1>4, <2>1
<1>6. ASSUME NEW i \in 1 .. Len(st)
      PROVE  f[i] = Stepped(up, down, st[i], f[i - 1])
  <2>1. CASE i <= Len(s)
    <3>1. i \in 1 .. Len(s) /\ i \in 0 .. Len(s) /\ i - 1 \in 0 .. Len(s) /\ st[i] = s[i]
      BY <1>3, <2>1
    <3>2. f[i] = d[i] /\ f[i - 1] = d[i - 1]
      BY <1>4, <3>1
    <3> QED BY <1>1, <3>1, <3>2 DEF Heights
  <2>2. CASE ~ (i <= Len(s))
    <3> DEFINE j == i - Len(s)
    <3>1. /\ j \in 1 .. Len(t) /\ j \in 0 .. Len(t) /\ j - 1 \in 0 .. Len(t)
          /\ st[i] = t[j] /\ Len(s) + j = i /\ Len(s) + (j - 1) = i - 1
      BY <1>3, <2>2
    <3> HIDE DEF j
    <3>2. f[i] = e[j] /\ f[i - 1] = e[j - 1]
      BY <1>4, <3>1
    <3> QED BY <1>2, <3>1, <3>2 DEF Heights
  <2> QED BY <2>1, <2>2
<1>7. Climbs(up, down, st, a, c)
  BY <1>4, <1>5, <1>6 DEF Climbs, Heights
<1> QED BY <1>7 DEF st

(* From one level higher.                                                  *)
LEMMA ClimbsHigher ==
  ASSUME NEW up, NEW down, NEW S, NEW s \in Seq(S), NEW a, NEW b,
         Climbs(up, down, s, a, b)
  PROVE  Climbs(up, down, s, a + 1, b + 1)
<1>1. PICK d \in [0 .. Len(s) -> Nat] :
        d[0] = a /\ d[Len(s)] = b /\ Heights(up, down, s, d)
  BY DEF Climbs
<1> DEFINE f == [i \in 0 .. Len(s) |-> d[i] + 1]
<1>2. Len(s) \in Nat
  OBVIOUS
<1>3. f \in [0 .. Len(s) -> Nat] /\ f[0] = a + 1 /\ f[Len(s)] = b + 1
  BY <1>1, <1>2
<1>4. ASSUME NEW i \in 1 .. Len(s)
      PROVE  f[i] = Stepped(up, down, s[i], f[i - 1])
  <2>1. i \in 0 .. Len(s) /\ i - 1 \in 0 .. Len(s)
    BY <1>2
  <2>2. d[i] = Stepped(up, down, s[i], d[i - 1]) /\ d[i - 1] \in Nat
    BY <1>1, <2>1 DEF Heights
  <2> QED BY <2>1, <2>2 DEF Stepped
<1> HIDE DEF f
<1> QED BY <1>3, <1>4 DEF Climbs, Heights

(* The first step of the way, and the rest of it.                          *)
LEMMA ClimbsFirst ==
  ASSUME NEW up, NEW down, NEW S, NEW s \in Seq(S), s # <<>>, NEW a, NEW b,
         Climbs(up, down, s, a, b)
  PROVE  /\ a \in Nat /\ Stepped(up, down, Head(s), a) \in Nat
         /\ Climbs(up, down, Tail(s), Stepped(up, down, Head(s), a), b)
<1>1. PICK d \in [0 .. Len(s) -> Nat] :
        d[0] = a /\ d[Len(s)] = b /\ Heights(up, down, s, d)
  BY DEF Climbs
<1> DEFINE t == Tail(s)
           f == [i \in 0 .. Len(t) |-> d[i + 1]]
<1>2. /\ Len(s) \in Nat \ {0} /\ Head(s) = s[1]
      /\ Len(t) = Len(s) - 1
      /\ \A i \in 1 .. Len(t) : t[i] = s[i + 1]
  BY HeadTailProperties, EmptySeq
<1> HIDE DEF t
<1>3. d[1] = Stepped(up, down, Head(s), a) /\ d[1] \in Nat /\ d[0] \in Nat
  <2>1. 1 \in 1 .. Len(s) /\ 1 - 1 = 0 /\ 1 \in 0 .. Len(s) /\ 0 \in 0 .. Len(s)
    BY <1>2
  <2> QED BY <1>1, <1>2, <2>1 DEF Heights
<1>4. f \in [0 .. Len(t) -> Nat] /\ f[0] = d[1] /\ f[Len(t)] = b
  <2>1. \A i \in 0 .. Len(t) : i + 1 \in 0 .. Len(s)
    BY <1>2
  <2>2. f \in [0 .. Len(t) -> Nat]
    BY <1>1, <2>1
  <2>3. 0 \in 0 .. Len(t) /\ 0 + 1 = 1 /\ Len(t) \in 0 .. Len(t) /\ Len(t) + 1 = Len(s)
    BY <1>2
  <2> QED BY <1>1, <2>2, <2>3
<1>5. ASSUME NEW i \in 1 .. Len(t)
      PROVE  f[i] = Stepped(up, down, t[i], f[i - 1])
  <2>1. /\ i \in 0 .. Len(t) /\ i - 1 \in 0 .. Len(t) /\ i + 1 \in 1 .. Len(s)
        /\ (i - 1) + 1 = i /\ (i + 1) - 1 = i
    BY <1>2
  <2>2. d[i + 1] = Stepped(up, down, s[i + 1], d[i])
    BY <1>1, <2>1 DEF Heights
  <2>3. f[i] = d[i + 1] /\ f[i - 1] = d[i]
    BY <2>1
  <2> QED BY <1>2, <2>2, <2>3
<1> HIDE DEF f
<1>6. Climbs(up, down, t, d[1], b)
  BY <1>4, <1>5 DEF Climbs, Heights
<1> QED BY <1>1, <1>3, <1>6 DEF t

(* From one level lower, where nothing takes a level away.                 *)
LEMMA ClimbsLower ==
  ASSUME NEW up, NEW S, NEW s \in Seq(S), NEW a \in Nat, NEW b,
         Climbs(up, {}, s, a + 1, b)
  PROVE  b \in Nat /\ b >= 1 /\ Climbs(up, {}, s, a, b - 1)
<1>1. PICK d \in [0 .. Len(s) -> Nat] :
        d[0] = a + 1 /\ d[Len(s)] = b /\ Heights(up, {}, s, d)
  BY DEF Climbs
<1>2. Len(s) \in Nat
  OBVIOUS
<1>3. \A i \in 0 .. Len(s) : d[i] >= 1
  <2> DEFINE D == {m \in Nat : m <= Len(s) => d[m] >= 1}
  <2>1. 0 \in D
    BY <1>1
  <2>2. ASSUME NEW m \in Nat, m \in D
        PROVE  m + 1 \in D
    <3> SUFFICES ASSUME m + 1 <= Len(s)
                 PROVE  d[m + 1] >= 1
      OBVIOUS
    <3>1. m + 1 \in 1 .. Len(s) /\ (m + 1) - 1 = m /\ m \in 0 .. Len(s)
      BY <1>2
    <3>2. d[m + 1] = Stepped(up, {}, s[m + 1], d[m]) /\ d[m] \in Nat
      BY <1>1, <3>1 DEF Heights
    <3>3. d[m] >= 1
      BY <1>2, <2>2, <3>1
    <3> QED BY <3>2, <3>3 DEF Stepped
  <2>3. \A m \in Nat : m \in D
    <3> HIDE DEF D
    <3> QED BY <2>1, <2>2, Induction
  <2> QED BY <1>2, <2>3
<1> DEFINE f == [i \in 0 .. Len(s) |-> d[i] - 1]
<1>4. f \in [0 .. Len(s) -> Nat] /\ f[0] = a /\ f[Len(s)] = b - 1
  <2>1. \A i \in 0 .. Len(s) : d[i] - 1 \in Nat
    BY <1>3
  <2> QED BY <1>1, <1>2, <2>1
<1>5. ASSUME NEW i \in 1 .. Len(s)
      PROVE  f[i] = Stepped(up, {}, s[i], f[i - 1])
  <2>1. i \in 0 .. Len(s) /\ i - 1 \in 0 .. Len(s)
    BY <1>2
  <2>2. d[i] = Stepped(up, {}, s[i], d[i - 1]) /\ d[i - 1] \in Nat
    BY <1>1, <2>1 DEF Heights
  <2> QED BY <2>1, <2>2 DEF Stepped
<1>6. b \in Nat /\ b >= 1
  <2>1. Len(s) \in 0 .. Len(s)
    BY <1>2
  <2> QED BY <1>1, <1>3, <2>1
<1> HIDE DEF f
<1> QED BY <1>4, <1>5, <1>6 DEF Climbs, Heights

(* Where it starts is a level, and it may start higher.                    *)
LEMMA ClimbsUp ==
  ASSUME NEW up, NEW down, NEW S, NEW s \in Seq(S), NEW a, NEW b \in Nat,
         Climbs(up, down, s, a, b)
  PROVE  a \in Nat /\ \A i \in Nat : Climbs(up, down, s, a + i, b + i)
<1>1. a \in Nat
  <2>1. 0 \in 0 .. Len(s)
    OBVIOUS
  <2> QED BY <2>1 DEF Climbs
<1> DEFINE D == {i \in Nat : Climbs(up, down, s, a + i, b + i)}
<1>2. 0 \in D
  <2>1. a + 0 = a /\ b + 0 = b
    BY <1>1
  <2> QED BY <2>1
<1>3. ASSUME NEW i \in Nat, i \in D
      PROVE  i + 1 \in D
  <2>1. Climbs(up, down, s, (a + i) + 1, (b + i) + 1)
    BY <1>3, ClimbsHigher
  <2>2. (a + i) + 1 = a + (i + 1) /\ (b + i) + 1 = b + (i + 1)
    BY <1>1
  <2> QED BY <2>1, <2>2
<1>4. \A i \in Nat : i \in D
  <2> HIDE DEF D
  <2> QED BY <1>2, <1>3, Induction
<1> QED BY <1>1, <1>4

-----------------------------------------------------------------------------
(***************************************************************************)
(* Counting by walking: where x alone adds to the level, a sequence takes  *)
(* it up as often as it has x.                                             *)
(***************************************************************************)
(* s has x k times at most.                                                *)
Adds(x, s, k) ==
  \E j \in 0 .. k : \A h \in Nat : Climbs({x}, {}, s, h, h + j)

(* A sequence without x.                                                   *)
LEMMA AddsNone ==
  ASSUME NEW S, NEW s \in Seq(S), NEW x, x \notin ToSet(s)
  PROVE  Adds(x, s, 0)
<1> DEFINE T == ToSet(s)
<1>1. s \in Seq(T) /\ T \cap ({x} \cup {}) = {}
  BY DEF ToSet
<1> HIDE DEF T
<1>2. ASSUME NEW h \in Nat
      PROVE  Climbs({x}, {}, s, h, h + 0)
  BY <1>1, ClimbsFlat
<1>3. 0 \in 0 .. 0
  OBVIOUS
<1> QED BY <1>2, <1>3 DEF Adds

(* What has x in one place at most.                                        *)
Lone(x, s) == \A i, j \in 1 .. Len(s) : s[i] = x /\ s[j] = x => i = j

(* It has it once at most.                                                 *)
LEMMA AddsLone ==
  ASSUME NEW S, NEW s \in Seq(S), NEW x, Lone(x, s)
  PROVE  Adds(x, s, 1)
<1>1. Len(s) \in Nat
  OBVIOUS
<1>2. CASE \A i \in 1 .. Len(s) : s[i] # x
  <2>1. x \notin ToSet(s)
    BY <1>2 DEF ToSet
  <2>2. PICK j \in 0 .. 0 : \A h \in Nat : Climbs({x}, {}, s, h, h + j)
    BY <2>1, AddsNone DEF Adds
  <2>3. j \in 0 .. 1
    OBVIOUS
  <2> QED BY <2>2, <2>3 DEF Adds
<1>3. CASE \E i \in 1 .. Len(s) : s[i] = x
  <2>1. PICK p \in 1 .. Len(s) : s[p] = x
    BY <1>3
  <2>2. \A i \in 1 .. Len(s) : s[i] = x <=> i = p
    BY <2>1 DEF Lone
  <2>3. ASSUME NEW h \in Nat
        PROVE  Climbs({x}, {}, s, h, h + 1)
    <3> DEFINE d == [i \in 0 .. Len(s) |-> IF p <= i THEN h + 1 ELSE h]
    <3>1. d \in [0 .. Len(s) -> Nat] /\ d[0] = h /\ d[Len(s)] = h + 1
      BY <1>1, <2>1
    <3>2. ASSUME NEW i \in 1 .. Len(s)
          PROVE  d[i] = Stepped({x}, {}, s[i], d[i - 1])
      <4>1. i \in 0 .. Len(s) /\ i - 1 \in 0 .. Len(s)
        BY <1>1
      <4>2. d[i] = (IF p <= i THEN h + 1 ELSE h) /\ d[i - 1] = (IF p <= i - 1 THEN h + 1 ELSE h)
        BY <4>1
      <4> HIDE DEF d
      <4>3. CASE i = p
        <5>1. d[i] = h + 1 /\ d[i - 1] = h
          BY <1>1, <2>1, <4>2, <4>3
        <5> QED BY <2>1, <4>3, <5>1 DEF Stepped
      <4>4. CASE i # p
        <5>1. d[i] = d[i - 1]
          BY <1>1, <2>1, <4>2, <4>4
        <5> QED BY <2>2, <4>4, <5>1 DEF Stepped
      <4> QED BY <4>3, <4>4
    <3> HIDE DEF d
    <3> QED BY <3>1, <3>2 DEF Climbs, Heights
  <2>4. 1 \in 0 .. 1
    OBVIOUS
  <2> QED BY <2>3, <2>4 DEF Adds
<1> QED BY <1>2, <1>3

(* Two sequences have it as often as both together.                        *)
LEMMA AddsConcat ==
  ASSUME NEW S, NEW s \in Seq(S), NEW t \in Seq(S), NEW x, NEW a \in Nat, NEW b \in Nat,
         Adds(x, s, a), Adds(x, t, b)
  PROVE  Adds(x, s \o t, a + b)
<1>1. PICK i \in 0 .. a : \A h \in Nat : Climbs({x}, {}, s, h, h + i)
  BY DEF Adds
<1>2. PICK j \in 0 .. b : \A h \in Nat : Climbs({x}, {}, t, h, h + j)
  BY DEF Adds
<1>3. ASSUME NEW h \in Nat
      PROVE  Climbs({x}, {}, s \o t, h, h + (i + j))
  <2>1. Climbs({x}, {}, s, h, h + i)
    BY <1>1
  <2>2. h + i \in Nat /\ (h + i) + j = h + (i + j)
    OBVIOUS
  <2>3. Climbs({x}, {}, t, h + i, h + (i + j))
    BY <1>2, <2>2
  <2> QED BY <2>1, <2>3, ClimbsConcat
<1>4. i + j \in 0 .. a + b
  OBVIOUS
<1> QED BY <1>3, <1>4 DEF Adds

(* A bound may be higher.                                                  *)
LEMMA AddsMore ==
  ASSUME NEW s, NEW x, NEW a \in Nat, NEW b \in Nat, a <= b, Adds(x, s, a)
  PROVE  Adds(x, s, b)
<1>1. PICK i \in 0 .. a : \A h \in Nat : Climbs({x}, {}, s, h, h + i)
  BY DEF Adds
<1>2. i \in 0 .. b
  OBVIOUS
<1> QED BY <1>1, <1>2 DEF Adds

(* A sequence of sequences has x as often as what stands for those with x, *)
(* if each of these has it once.                                           *)
LEMMA AddsFlattened ==
  ASSUME NEW S, NEW seqs \in Seq(Seq(S)), NEW T, NEW script \in Seq(T),
         Len(script) = Len(seqs), NEW x, NEW f, NEW k \in Nat, Adds(f, script, k),
         \A i \in 1 .. Len(seqs) : Adds(x, seqs[i], IF script[i] = f THEN 1 ELSE 0)
  PROVE  Adds(x, FlattenSeq(seqs), k)
<1>1. PICK j \in 0 .. k : \A h \in Nat : Climbs({f}, {}, script, h, h + j)
  BY DEF Adds
<1>2. PICK d \in [0 .. Len(seqs) -> Nat] :
        d[0] = 0 /\ d[Len(seqs)] = j /\ Heights({f}, {}, script, d)
  <2>1. Climbs({f}, {}, script, 0, 0 + j)
    BY <1>1
  <2>2. 0 + j = j
    OBVIOUS
  <2> QED BY <2>1, <2>2 DEF Climbs
<1>3. PICK g \in [0 .. Len(seqs) -> Seq(S)] :
        Flattens(seqs, g) /\ FlattenSeq(seqs) = g[Len(seqs)]
  BY FlattenJoins
<1> DEFINE L == Len(seqs)
           D == {m \in Nat : m <= L => Adds(x, g[m], d[m])}
<1>4. L \in Nat
  OBVIOUS
<1>8. \A i \in 1 .. L : seqs[i] \in Seq(S)
  OBVIOUS
<1>9. \A i \in 0 .. L : g[i] \in Seq(S)
  OBVIOUS
<1>5. 0 \in D
  <2>1. g[0] = <<>> /\ <<>> \in Seq(S) /\ x \notin ToSet(<<>>)
    BY <1>3, Tuples DEF Flattens
  <2>2. Adds(x, <<>>, 0)
    BY <2>1, AddsNone
  <2> QED BY <1>2, <2>1, <2>2
<1>6. ASSUME NEW m \in Nat, m \in D
      PROVE  m + 1 \in D
  <2> SUFFICES ASSUME m + 1 <= L
               PROVE  Adds(x, g[m + 1], d[m + 1])
    OBVIOUS
  <2>1. m + 1 \in 1 .. L /\ m \in 0 .. L /\ m + 1 \in 0 .. L /\ (m + 1) - 1 = m
    BY <1>4
  <2>2. g[m + 1] = g[m] \o seqs[m + 1] /\ g[m] \in Seq(S) /\ seqs[m + 1] \in Seq(S)
    <3>1. g[m + 1] = g[m] \o seqs[m + 1]
      BY <1>3, <2>1 DEF Flattens
    <3>2. g[m] \in Seq(S) /\ seqs[m + 1] \in Seq(S)
      BY ONLY <1>8, <1>9, <2>1
    <3> QED BY <3>1, <3>2
  <2>3. d[m + 1] = Stepped({f}, {}, script[m + 1], d[m]) /\ d[m] \in Nat
    BY <1>2, <2>1 DEF Heights
  <2> DEFINE one == IF script[m + 1] = f THEN 1 ELSE 0
  <2>4. d[m + 1] = d[m] + one /\ one \in Nat
    BY <2>3 DEF Stepped
  <2>5. Adds(x, seqs[m + 1], one)
    BY <2>1
  <2>6. Adds(x, g[m], d[m])
    BY <1>4, <1>6, <2>1
  <2> HIDE DEF one
  <2>7. Adds(x, g[m] \o seqs[m + 1], d[m] + one)
    BY <2>2, <2>3, <2>4, <2>5, <2>6, AddsConcat
  <2> QED BY <2>2, <2>4, <2>7
<1>7. Adds(x, g[L], d[L])
  <2>1. L \in D
    <3> HIDE DEF D
    <3> QED BY <1>4, <1>5, <1>6, Induction
  <2> QED BY <2>1
<1> QED
  <2>1. Adds(x, FlattenSeq(seqs), j) /\ j \in Nat /\ j <= k
    BY <1>2, <1>3, <1>7
  <2> QED BY <2>1, AddsMore

(* One element more gives at least twice the subsets.                      *)
LEMMA SubsetsDouble ==
  ASSUME NEW B, IsFiniteSet(B), NEW A, NEW x, A \cup {x} \subseteq B, x \notin A
  PROVE  2 * (2 ^ Cardinality(A)) <= 2 ^ Cardinality(B)
         /\ 2 ^ Cardinality(A) \in Nat /\ 2 ^ Cardinality(B) \in Nat
<1> DEFINE S == SUBSET A
           T == {X \cup {x} : X \in S}
           f == [X \in S |-> X \cup {x}]
<1>1. IsFiniteSet(A)
  BY FS_Subset
<1>2. /\ IsFiniteSet(S) /\ Cardinality(S) = 2 ^ Cardinality(A)
      /\ IsFiniteSet(SUBSET B) /\ Cardinality(SUBSET B) = 2 ^ Cardinality(B)
  BY <1>1, FS_SUBSET
<1>3. \A X, Y \in S : X \cup {x} = Y \cup {x} => X = Y
  OBVIOUS
<1>4. f \in Bijection(S, T)
  <2>1. f \in [S -> T] /\ \A X \in S : f[X] = X \cup {x}
    OBVIOUS
  <2>2. \A Y \in T : \E X \in S : f[X] = Y
    OBVIOUS
  <2>3. \A X, Y \in S : f[X] = f[Y] => X = Y
    BY <1>3, <2>1
  <2> HIDE DEF S, T, f
  <2> QED BY <2>1, <2>2, <2>3 DEF Bijection, Injection, Surjection, IsInjective
<1>5. S \cap T = {} /\ S \cup T \subseteq SUBSET B
  OBVIOUS
<1> HIDE DEF S, T, f
<1>6. IsFiniteSet(T) /\ Cardinality(T) = Cardinality(S)
  BY <1>2, <1>4, FS_Bijection DEF ExistsBijection
<1>7. /\ Cardinality(S \cup T) = Cardinality(S) + Cardinality(T) - Cardinality(S \cap T)
      /\ Cardinality({}) = 0
  BY <1>2, <1>6, FS_Union, FS_EmptySet
<1>8. Cardinality(S \cup T) <= Cardinality(SUBSET B)
  BY <1>2, <1>5, FS_Subset
<1>9. Cardinality(S) \in Nat /\ Cardinality(SUBSET B) \in Nat
  BY <1>2, FS_CardinalityType
<1>10. Cardinality(S \cup T) = 2 * Cardinality(S)
  <2>1. Cardinality(S \cap T) = 0
    BY <1>5, <1>7
  <2> QED BY <1>6, <1>7, <1>9, <2>1
<1>11. 2 * Cardinality(S) <= Cardinality(SUBSET B)
  BY <1>8, <1>10
<1> QED BY <1>2, <1>9, <1>11

(* More elements give at least as many subsets.                            *)
LEMMA SubsetsGrow ==
  ASSUME NEW B, IsFiniteSet(B), NEW A, A \subseteq B
  PROVE  /\ 2 ^ Cardinality(A) <= 2 ^ Cardinality(B)
         /\ 2 ^ Cardinality(A) \in Nat \ {0} /\ 2 ^ Cardinality(B) \in Nat
<1>1. IsFiniteSet(A)
  BY FS_Subset
<1>2. /\ IsFiniteSet(SUBSET A) /\ Cardinality(SUBSET A) = 2 ^ Cardinality(A)
      /\ IsFiniteSet(SUBSET B) /\ Cardinality(SUBSET B) = 2 ^ Cardinality(B)
  BY <1>1, FS_SUBSET
<1>3. SUBSET A \subseteq SUBSET B /\ SUBSET A # {}
  OBVIOUS
<1>4. Cardinality(SUBSET A) <= Cardinality(SUBSET B)
  BY <1>2, <1>3, FS_Subset
<1>5. Cardinality(SUBSET A) \in Nat \ {0} /\ Cardinality(SUBSET B) \in Nat
  BY <1>2, <1>3, FS_CardinalityType, FS_EmptySet
<1> QED BY <1>2, <1>4, <1>5

-----------------------------------------------------------------------------
(* A sequence without what stands at the places in D.                      *)
Filters(s, D, f) ==
  f = [p \in 0 .. Len(s) |->
        IF p = 0 THEN <<>>
        ELSE IF p \in D THEN f[p - 1] ELSE Append(f[p - 1], s[p])]

(* There is such a function.                                               *)
LEMMA FilterDefined ==
  ASSUME NEW S, NEW s \in Seq(S), NEW D
  PROVE  \E f : Filters(s, D, f)
<1> DEFINE L == Len(s)
           After(f, p) == IF p = 0 THEN <<>>
                          ELSE IF p \in D THEN f[p - 1]
                          ELSE Append(f[p - 1], s[p])
           C == {m \in Nat : \E f : \A p \in 0 .. m : f[p] = After(f, p)}
<1>1. 0 \in C
  <2> DEFINE f == [p \in {0} |-> <<>>]
  <2>1. \A p \in 0 .. 0 : f[p] = After(f, p)
    OBVIOUS
  <2> HIDE DEF f, After
  <2> QED BY <2>1
<1>2. ASSUME NEW m \in Nat, m \in C
      PROVE  m + 1 \in C
  <2>1. PICK f : \A p \in 0 .. m : f[p] = After(f, p)
    BY <1>2
  <2> DEFINE g == [p \in 0 .. m + 1 |-> IF p = m + 1 THEN After(f, p) ELSE f[p]]
  <2>2. ASSUME NEW p \in 0 .. m + 1
        PROVE  g[p] = After(g, p)
    <3>1. p # 0 => p - 1 \in 0 .. m
      OBVIOUS
    <3>2. p # 0 => g[p - 1] = f[p - 1]
      BY <3>1
    <3>3. After(g, p) = After(f, p)
      BY <3>2
    <3>4. p # m + 1 => p \in 0 .. m
      OBVIOUS
    <3> HIDE DEF After
    <3> QED BY <2>1, <3>3, <3>4
  <2> HIDE DEF g, After
  <2> QED BY <2>2
<1> HIDE DEF C
<1>3. L \in Nat
  OBVIOUS
<1>4. L \in C
  BY <1>1, <1>2, <1>3, Induction
<1>5. PICK f : \A p \in 0 .. L : f[p] = After(f, p)
  BY <1>4 DEF C
<1> DEFINE g == [p \in 0 .. L |-> f[p]]
<1>6. ASSUME NEW p \in 0 .. L
      PROVE  g[p] = After(g, p)
  <2>1. p # 0 => p - 1 \in 0 .. L
    BY <1>3
  <2>2. After(g, p) = After(f, p)
    BY <2>1
  <2> QED BY <1>5, <2>2
<1>7. g = [p \in 0 .. L |-> After(g, p)]
  BY <1>6
<1> HIDE DEF g
<1>8. Filters(s, D, g)
  BY <1>7 DEF Filters
<1> QED BY <1>8

(* What it has up to each place, step by step.                             *)
LEMMA FilterSteps ==
  ASSUME NEW S, NEW s \in Seq(S), NEW D, NEW f, Filters(s, D, f)
  PROVE  /\ f[0] = <<>>
         /\ \A p \in 1 .. Len(s) :
              f[p] = IF p \in D THEN f[p - 1] ELSE Append(f[p - 1], s[p])
         /\ \A p \in 0 .. Len(s) : f[p] \in Seq(S) /\ Len(f[p]) <= p
<1> DEFINE L == Len(s)
<1>1. L \in Nat /\ \A p \in 1 .. L : s[p] \in S
  OBVIOUS
<1>2. \A p \in 0 .. L :
        f[p] = IF p = 0 THEN <<>>
               ELSE IF p \in D THEN f[p - 1] ELSE Append(f[p - 1], s[p])
  <2> HIDE DEF L
  <2>1. f = [p \in 0 .. L |-> IF p = 0 THEN <<>>
               ELSE IF p \in D THEN f[p - 1] ELSE Append(f[p - 1], s[p])]
    BY DEF Filters, L
  <2> QED BY <2>1, Zenon
<1> HIDE DEF L
<1>3. f[0] = <<>>
  BY <1>1, <1>2
<1>4. \A p \in 1 .. L :
        f[p] = IF p \in D THEN f[p - 1] ELSE Append(f[p - 1], s[p])
  <2>1. \A p \in 1 .. L : p \in 0 .. L /\ p # 0
    BY <1>1
  <2> QED BY <1>2, <2>1, Zenon
<1> DEFINE C == {m \in Nat : m <= L => f[m] \in Seq(S) /\ Len(f[m]) <= m}
<1>5. 0 \in C
  <2>1. <<>> \in Seq(S) /\ Len(<<>>) <= 0
    OBVIOUS
  <2> QED BY <1>3, <2>1
<1>6. ASSUME NEW m \in Nat, m \in C
      PROVE  m + 1 \in C
  <2> SUFFICES ASSUME m + 1 <= L
               PROVE  f[m + 1] \in Seq(S) /\ Len(f[m + 1]) <= m + 1
    OBVIOUS
  <2>1. m + 1 \in 1 .. L /\ (m + 1) - 1 = m /\ m <= L
    BY <1>1
  <2>2. f[m] \in Seq(S) /\ Len(f[m]) <= m /\ s[m + 1] \in S
    BY <1>1, <1>6, <2>1
  <2>3. f[m + 1] = f[m] \/ f[m + 1] = Append(f[m], s[m + 1])
    BY <1>4, <2>1
  <2>4. Append(f[m], s[m + 1]) \in Seq(S)
        /\ Len(Append(f[m], s[m + 1])) = Len(f[m]) + 1 /\ Len(f[m]) \in Nat
    BY <2>2, AppendProperties
  <2>5. CASE f[m + 1] = f[m]
    <3>1. Len(f[m]) <= m + 1
      BY <2>2, <2>4
    <3> QED BY <2>2, <2>5, <3>1
  <2>6. CASE f[m + 1] = Append(f[m], s[m + 1])
    <3>1. Len(f[m]) + 1 <= m + 1
      BY <2>2, <2>4
    <3> QED BY <2>4, <2>6, <3>1
  <2> QED BY <2>3, <2>5, <2>6
<1>7. \A m \in Nat : m \in C
  <2> HIDE DEF C
  <2> QED BY <1>5, <1>6, Induction
<1>8. \A p \in 0 .. L : f[p] \in Seq(S) /\ Len(f[p]) <= p
  BY <1>1, <1>7
<1> QED BY <1>3, <1>4, <1>8 DEF L

(* What it has up to a place stays, what is kept there is the last of it,  *)
(* and up to the first place in D it has everything.                       *)
LEMMA FilterFacts ==
  ASSUME NEW S, NEW s \in Seq(S), NEW D, NEW f, Filters(s, D, f)
  PROVE  /\ \A p \in 0 .. Len(s) : f[p] \in Seq(S) /\ Len(f[p]) <= p
         /\ \A p, r \in 0 .. Len(s) : p <= r =>
              /\ Len(f[p]) <= Len(f[r])
              /\ Len(f[r]) <= Len(f[p]) + (r - p)
              /\ \A i \in 1 .. Len(f[p]) : f[r][i] = f[p][i]
         /\ \A p \in 1 .. Len(s) : p \notin D =>
              Len(f[p]) = Len(f[p - 1]) + 1 /\ f[p][Len(f[p])] = s[p]
         /\ \A p \in 1 .. Len(s) : p \in D => Len(f[p]) = Len(f[p - 1])
<1> DEFINE L == Len(s)
<1>1. L \in Nat /\ \A p \in 1 .. L : s[p] \in S
  OBVIOUS
<1>2. /\ \A p \in 1 .. L :
           f[p] = IF p \in D THEN f[p - 1] ELSE Append(f[p - 1], s[p])
      /\ \A p \in 0 .. L : f[p] \in Seq(S) /\ Len(f[p]) <= p
  BY FilterSteps
<1> HIDE DEF L
<1>3. ASSUME NEW p \in 1 .. L
      PROVE  /\ p \in D => f[p] = f[p - 1]
             /\ p \notin D => /\ Len(f[p]) = Len(f[p - 1]) + 1
                              /\ f[p][Len(f[p])] = s[p]
                              /\ \A i \in 1 .. Len(f[p - 1]) : f[p][i] = f[p - 1][i]
  <2>1. p - 1 \in 0 .. L
    BY <1>1
  <2>2. f[p - 1] \in Seq(S) /\ s[p] \in S
    BY <1>1, <1>2, <2>1
  <2>3. p \in D => f[p] = f[p - 1]
    BY <1>2
  <2>4. p \notin D => f[p] = Append(f[p - 1], s[p])
    BY <1>2
  <2> QED BY <2>2, <2>3, <2>4
<1>4. ASSUME NEW p \in 0 .. L, NEW r \in 0 .. L, p <= r
      PROVE  /\ Len(f[p]) <= Len(f[r])
             /\ Len(f[r]) <= Len(f[p]) + (r - p)
             /\ \A i \in 1 .. Len(f[p]) : f[r][i] = f[p][i]
  <2> DEFINE Ok(m) == /\ Len(f[p]) <= Len(f[p + m])
                      /\ Len(f[p + m]) <= Len(f[p]) + m
                      /\ \A i \in 1 .. Len(f[p]) : f[p + m][i] = f[p][i]
             C == {m \in Nat : p + m <= L => Ok(m)}
  <2>0. Len(f[p]) \in Nat
    BY <1>2
  <2>1. 0 \in C
    <3>1. p + 0 = p
      OBVIOUS
    <3> QED BY <2>0, <3>1
  <2>2. ASSUME NEW m \in Nat, m \in C
        PROVE  m + 1 \in C
    <3> SUFFICES ASSUME p + (m + 1) <= L
                 PROVE  Ok(m + 1)
      <4> HIDE DEF Ok
      <4> QED OBVIOUS
    <3> DEFINE q == p + m
               r1 == p + (m + 1)
    <3>1. Ok(m)
      BY <1>1, <2>2
    <3>2. r1 \in 1 .. L /\ r1 - 1 = q /\ q \in 0 .. L
      BY <1>1
    <3> HIDE DEF q, r1
    <3>3. /\ r1 \in D => f[r1] = f[q]
          /\ r1 \notin D =>
               /\ Len(f[r1]) = Len(f[q]) + 1
               /\ \A i \in 1 .. Len(f[q]) : f[r1][i] = f[q][i]
      BY <1>3, <3>2
    <3>4. Len(f[q]) \in Nat
      BY <1>2, <3>2
    <3>5. /\ Len(f[p]) <= Len(f[q])
          /\ Len(f[q]) <= Len(f[p]) + m
          /\ \A i \in 1 .. Len(f[p]) : f[q][i] = f[p][i]
      BY <3>1 DEF q
    <3>6. \A i \in 1 .. Len(f[p]) : i \in 1 .. Len(f[q])
      BY <2>0, <3>4, <3>5
    <3>8. /\ Len(f[p]) <= Len(f[q])
          /\ Len(f[p]) <= Len(f[q]) + 1
          /\ Len(f[q]) <= Len(f[p]) + (m + 1)
          /\ Len(f[q]) + 1 <= Len(f[p]) + (m + 1)
      <4> DEFINE a == Len(f[p])
                 b == Len(f[q])
      <4>1. a \in Nat /\ b \in Nat /\ a <= b /\ b <= a + m
        BY <2>0, <3>4, <3>5
      <4> HIDE DEF a, b
      <4>2. a <= b /\ a <= b + 1 /\ b <= a + (m + 1) /\ b + 1 <= a + (m + 1)
        BY ONLY <4>1, m \in Nat
      <4> QED BY <4>2 DEF a, b
    <3>7. /\ Len(f[p]) <= Len(f[r1])
          /\ Len(f[r1]) <= Len(f[p]) + (m + 1)
          /\ \A i \in 1 .. Len(f[p]) : f[r1][i] = f[p][i]
      <4>1. CASE r1 \in D
        <5>1. f[r1] = f[q]
          BY <3>3, <4>1
        <5>2. Len(f[q]) <= Len(f[p]) + (m + 1)
          BY <3>8
        <5> QED BY <3>5, <5>1, <5>2
      <4>2. CASE r1 \notin D
        <5>1. \A i \in 1 .. Len(f[p]) : f[r1][i] = f[p][i]
          BY <3>3, <3>5, <3>6, <4>2
        <5>2. Len(f[r1]) = Len(f[q]) + 1
          BY <3>3, <4>2
        <5>3. Len(f[p]) <= Len(f[r1]) /\ Len(f[r1]) <= Len(f[p]) + (m + 1)
          BY <3>8, <5>2
        <5> QED BY <5>1, <5>3
      <4> QED BY <4>1, <4>2
    <3> QED BY <3>7 DEF r1
  <2>3. \A m \in Nat : m \in C
    <3> HIDE DEF C
    <3> QED BY <2>1, <2>2, Induction
  <2>4. r - p \in Nat /\ p + (r - p) = r
    BY <1>1, <1>4
  <2>5. Ok(r - p)
    <3> HIDE DEF Ok
    <3>1. r - p \in C
      BY <2>3, <2>4
    <3>2. p + (r - p) <= L
      BY <1>1, <2>4
    <3> QED BY <3>1, <3>2
  <2> QED BY <2>4, <2>5
<1> QED BY <1>2, <1>3, <1>4 DEF L

-----------------------------------------------------------------------------
(***************************************************************************)
(* Sequences whose entries are anything.                                   *)
(***************************************************************************)
(* What an item does to the state of the rule that it stands in.           *)
IsSeq(f) == \E I : f \in Seq(I)

(* Two sequences, joined.                                                  *)
LEMMA Joining ==
  ASSUME NEW f, NEW g, IsSeq(f), IsSeq(g)
  PROVE  /\ IsSeq(f \o g)
         /\ Len(f) \in Nat /\ Len(g) \in Nat /\ Len(f \o g) = Len(f) + Len(g)
         /\ \A i \in 1 .. Len(f) : (f \o g)[i] = f[i]
         /\ \A i \in Len(f) + 1 .. Len(f) + Len(g) :
            (f \o g)[i] = g[i - Len(f)]
<1>1. PICK I : f \in Seq(I)
  BY DEF IsSeq
<1>2. PICK J : g \in Seq(J)
  BY DEF IsSeq
<1> DEFINE K == I \cup J
<1>3. f \in Seq(K) /\ g \in Seq(K)
  <2>1. I \subseteq K /\ J \subseteq K
    OBVIOUS
  <2> HIDE DEF K
  <2> QED BY <1>1, <1>2, <2>1
<1> HIDE DEF K
<1>4. /\ f \o g \in Seq(K)
      /\ Len(f \o g) = Len(f) + Len(g)
      /\ \A i \in 1 .. Len(f) + Len(g) : (f \o g)[i] =
           IF i <= Len(f) THEN f[i] ELSE g[i - Len(f)]
  BY <1>3, ConcatProperties
<1>5. Len(f) \in Nat /\ Len(g) \in Nat
  BY <1>3
<1>6. IsSeq(f \o g)
  BY <1>4 DEF IsSeq
<1>7. ASSUME NEW i \in 1 .. Len(f)
      PROVE  (f \o g)[i] = f[i]
  BY <1>4, <1>5
<1>8. ASSUME NEW i \in Len(f) + 1 .. Len(f) + Len(g)
      PROVE  (f \o g)[i] = g[i - Len(f)]
  BY <1>4, <1>5
<1> QED BY <1>4, <1>5, <1>6, <1>7, <1>8

(* The sequences that a grammar is written with, up to nine items.         *)
LEMMA Literal ==
  ASSUME NEW a, NEW b, NEW c, NEW d, NEW e, NEW g, NEW h, NEW i, NEW j
  PROVE  /\ IsSeq(<<>>) /\ IsSeq(<<a>>) /\ IsSeq(<<a, b>>)
         /\ IsSeq(<<a, b, c>>)
         /\ IsSeq(<<a, b, c, d>>) /\ IsSeq(<<a, b, c, d, e>>)
         /\ IsSeq(<<a, b, c, d, e, g>>) /\ IsSeq(<<a, b, c, d, e, g, h>>)
         /\ IsSeq(<<a, b, c, d, e, g, h, i>>)
         /\ IsSeq(<<a, b, c, d, e, g, h, i, j>>)
<1> DEFINE K == {a, b, c, d, e, g, h, i, j}
<1>1. a \in K /\ b \in K /\ c \in K /\ d \in K /\ e \in K /\ g \in K /\ h \in K
        /\ i \in K /\ j \in K
  OBVIOUS
<1> HIDE DEF K
<1>2. /\ <<>> \in Seq(K) /\ <<a>> \in Seq(K) /\ <<a, b>> \in Seq(K)
      /\ <<a, b, c>> \in Seq(K)
      /\ <<a, b, c, d>> \in Seq(K) /\ <<a, b, c, d, e>> \in Seq(K)
      /\ <<a, b, c, d, e, g>> \in Seq(K) /\ <<a, b, c, d, e, g, h>> \in Seq(K)
      /\ <<a, b, c, d, e, g, h, i>> \in Seq(K)
      /\ <<a, b, c, d, e, g, h, i, j>> \in Seq(K)
  BY <1>1
<1> QED BY <1>2 DEF IsSeq

(* A sequence with something in front of it.                               *)
LEMMA Longer ==
  ASSUME NEW f, NEW g, IsSeq(f), Len(f) > 0, IsSeq(g)
  PROVE  IsSeq(f \o g) /\ Len(f \o g) > 0 /\ f \o g # <<>>
<1>1. IsSeq(f \o g) /\ Len(f \o g) > 0
  BY Joining
<1> DEFINE h == f \o g
<1> HIDE DEF h
<1>2. Len(h) > 0 => h # <<>>
  OBVIOUS
<1> QED BY <1>1, <1>2 DEF h

(* One item before the others.                                             *)
LEMMA HeadAndTail ==
  ASSUME NEW x, NEW q, IsSeq(q)
  PROVE  /\ IsSeq(<<x>> \o q) /\ <<x>> \o q # <<>>
         /\ Head(<<x>> \o q) = x /\ Tail(<<x>> \o q) = q
<1>1. PICK I : q \in Seq(I)
  BY DEF IsSeq
<1> DEFINE J == I \cup {x}
<1>2. I \subseteq J /\ x \in J
  OBVIOUS
<1> HIDE DEF J
<1>3. q \in Seq(J)
  BY <1>1, <1>2
<1> QED BY <1>2, <1>3 DEF IsSeq

Rest(h, i) == SubSeq(h, i + 1, Len(h))

(* The rest of a sequence, one entry after the other.                      *)
LEMMA RestSteps ==
  ASSUME NEW h, IsSeq(h), NEW i \in 0 .. Len(h)
  PROVE  /\ IsSeq(Rest(h, i))
         /\ i = 0 => Rest(h, i) = h
         /\ i < Len(h) => /\ Rest(h, i) # <<>> /\ Head(Rest(h, i)) = h[i + 1]
                          /\ Tail(Rest(h, i)) = Rest(h, i + 1)
<1>1. PICK I : h \in Seq(I)
  BY DEF IsSeq
<1> DEFINE n == Len(h)
           g == Rest(h, i)
           k == Rest(h, i + 1)
<1>2. n \in Nat
  BY <1>1
<1>3. /\ g \in Seq(I) /\ Len(g) = n - i
         /\ \A j \in 1 .. n - i : g[j] = h[i + j]
  BY <1>1, <1>2 DEF Rest
<1>4. i < n => /\ k \in Seq(I) /\ Len(k) = n - i - 1
               /\ \A j \in 1 .. n - i - 1 : k[j] = h[i + 1 + j]
  BY <1>1, <1>2 DEF Rest
<1> HIDE DEF g, k
<1>5. IsSeq(g)
  BY <1>3 DEF IsSeq
<1>6. ASSUME i = 0
      PROVE  g = h
  BY <1>1, <1>2, <1>3, <1>6
<1>7. ASSUME i < n
      PROVE  g # <<>> /\ Head(g) = h[i + 1] /\ Tail(g) = k
  <2>2. g # <<>> /\ Head(g) = h[i + 1]
    BY <1>2, <1>3, <1>7
  <2>3. Tail(g) \in Seq(I) /\ Len(Tail(g)) = n - i - 1
    BY <1>2, <1>3, <1>7
  <2>4. \A j \in 1 .. n - i - 1 : Tail(g)[j] = g[j + 1]
    BY <1>2, <1>3, <1>7
  <2>5. \A j \in 1 .. n - i - 1 : Tail(g)[j] = k[j]
    <3> TAKE j \in 1 .. n - i - 1
    <3>1. j + 1 \in 1 .. n - i /\ i + (j + 1) = i + 1 + j
      BY <1>2
    <3> QED BY <1>3, <1>4, <1>7, <2>4, <3>1
  <2>6. Tail(g) = k
    <3> DEFINE l == Tail(g)
    <3>1. /\ l \in Seq(I) /\ k \in Seq(I) /\ Len(l) = Len(k)
          /\ Len(k) = n - i - 1 /\ \A j \in 1 .. n - i - 1 : l[j] = k[j]
      BY <1>4, <1>7, <2>3, <2>5
    <3> HIDE DEF l
    <3>2. l = k
      BY <3>1
    <3> QED BY <3>2 DEF l
  <2> QED BY <2>2, <2>6
<1>8. IsSeq(g) /\ (i = 0 => g = h)
      /\ (i < Len(h) => g # <<>> /\ Head(g) = h[i + 1] /\ Tail(g) = k)
  BY <1>5, <1>6, <1>7
<1> QED BY <1>8 DEF g, k

(* Behind the first of two sequences there is the second.                  *)
LEMMA TailOfJoined ==
  ASSUME NEW f, NEW q, IsSeq(f), IsSeq(q)
  PROVE  Rest(f \o q, Len(f)) = q
<1>1. PICK I : f \in Seq(I)
  BY DEF IsSeq
<1>2. PICK J : q \in Seq(J)
  BY DEF IsSeq
<1> DEFINE K == I \cup J
           h == f \o q
           n == Len(f)
           g == Rest(h, n)
<1>3. f \in Seq(K) /\ q \in Seq(K)
  <2>1. I \subseteq K /\ J \subseteq K
    OBVIOUS
  <2> HIDE DEF K
  <2> QED BY <1>1, <1>2, <2>1
<1> HIDE DEF K
<1>4. /\ n \in Nat /\ Len(q) \in Nat /\ Len(h) = n + Len(q)
      /\ \A i \in n + 1 .. n + Len(q) : h[i] = q[i - n]
  BY <1>3, Joining DEF IsSeq
<1>5. h \in Seq(K)
  BY <1>3, ConcatProperties
<1> HIDE DEF h
<1>6. /\ g \in Seq(K) /\ Len(g) = Len(q)
      /\ \A j \in 1 .. Len(q) : g[j] = h[n + j]
  BY <1>4, <1>5 DEF Rest
<1>7. \A j \in 1 .. Len(q) : g[j] = q[j]
  <2> TAKE j \in 1 .. Len(q)
  <2>1. n + j \in n + 1 .. n + Len(q) /\ n + j - n = j
    BY <1>4
  <2> QED BY <1>4, <1>6, <2>1
<1> HIDE DEF g
<1>8. g = q
  BY <1>3, <1>6, <1>7
<1> QED BY <1>8 DEF g, h

(* Sequences of whatever there is.                                         *)
LEMMA SeqLonger ==
  ASSUME NEW f, IsSeq(f), NEW x
  PROVE  /\ IsSeq(Append(f, x)) /\ Len(f) \in Nat
         /\ Len(Append(f, x)) = Len(f) + 1
         /\ \A i \in 1 .. Len(f) : Append(f, x)[i] = f[i]
         /\ Append(f, x)[Len(f) + 1] = x
<1>1. PICK I : f \in Seq(I)
  BY DEF IsSeq
<1> DEFINE J == I \cup {x}
<1>2. I \subseteq J /\ x \in J
  OBVIOUS
<1> HIDE DEF J
<1>3. f \in Seq(J)
  BY <1>1, <1>2
<1>4. Append(f, x) \in Seq(J)
  BY <1>2, <1>3
<1> QED BY <1>2, <1>3, <1>4 DEF IsSeq

(* The first entries of a sequence.                                        *)
LEMMA SeqCut ==
  ASSUME NEW f, IsSeq(f), NEW n \in 0 .. Len(f)
  PROVE  /\ IsSeq(SubSeq(f, 1, n)) /\ Len(SubSeq(f, 1, n)) = n
         /\ \A i \in 1 .. n : SubSeq(f, 1, n)[i] = f[i]
<1>1. PICK I : f \in Seq(I)
  BY DEF IsSeq
<1>2. Len(f) \in Nat
  BY <1>1
<1>3. SubSeq(f, 1, n) \in Seq(I)
  BY <1>1, <1>2
<1> QED BY <1>1, <1>2, <1>3 DEF IsSeq

(* All entries of a sequence but the last.                                 *)
LEMMA SeqFront ==
  ASSUME NEW f, IsSeq(f), f # <<>>
  PROVE  /\ Len(f) \in Nat /\ Len(f) > 0 /\ Front(f) = SubSeq(f, 1, Len(f) - 1)
         /\ Last(f) = f[Len(f)]
         /\ IsSeq(Front(f)) /\ Len(Front(f)) = Len(f) - 1
         /\ \A i \in 1 .. Len(f) - 1 : Front(f)[i] = f[i]
<1>1. PICK I : f \in Seq(I)
  BY DEF IsSeq
<1>2. Len(f) \in Nat /\ Len(f) > 0
  BY <1>1
<1>3. Front(f) = SubSeq(f, 1, Len(f) - 1) /\ Last(f) = f[Len(f)]
  BY DEF Front, Last
<1>4. Len(f) - 1 \in 0 .. Len(f)
  BY <1>2
<1> QED BY <1>2, <1>3, <1>4, SeqCut

(* Sequences with the same entries are the same.                           *)
LEMMA SameEntries ==
  ASSUME NEW f, NEW g, IsSeq(f), IsSeq(g), Len(f) = Len(g),
         \A i \in 1 .. Len(f) : f[i] = g[i]
  PROVE  f = g
<1>1. PICK I : f \in Seq(I)
  BY DEF IsSeq
<1>2. PICK J : g \in Seq(J)
  BY DEF IsSeq
<1> DEFINE K == I \cup J
<1>3. f \in Seq(K) /\ g \in Seq(K)
  <2>1. I \subseteq K /\ J \subseteq K
    OBVIOUS
  <2> HIDE DEF K
  <2> QED BY <1>1, <1>2, <2>1
<1> HIDE DEF K
<1> QED BY <1>3, SeqEqual

(* One entry replaced.                                                     *)
LEMMA Replaced ==
  ASSUME NEW S, NEW f \in Seq(S), NEW n \in 1 .. Len(f), NEW x \in S
  PROVE  /\ [f EXCEPT ![n] = x] \in Seq(S) /\ Len([f EXCEPT ![n] = x]) = Len(f)
         /\ [f EXCEPT ![n] = x][n] = x
         /\ \A j \in 1 .. Len(f) : j # n => [f EXCEPT ![n] = x][j] = f[j]
<1>1. Len(f) \in Nat /\ DOMAIN f = 1 .. Len(f) /\ f \in [1 .. Len(f) -> S]
  OBVIOUS
<1> DEFINE g == [f EXCEPT ![n] = x]
<1>2. g \in [1 .. Len(f) -> S]
  BY <1>1
<1>3. g[n] = x /\ \A j \in 1 .. Len(f) : j # n => g[j] = f[j]
  BY <1>1
<1> HIDE DEF g
<1>4. g \in Seq(S) /\ Len(g) = Len(f)
  BY <1>1, <1>2
<1>5. /\ g \in Seq(S) /\ Len(g) = Len(f)
      /\ g[n] = x /\ \A j \in 1 .. Len(f) : j # n => g[j] = f[j]
  BY <1>3, <1>4
<1> QED BY <1>5 DEF g

(* Two ways to join the same items.                                        *)
LEMMA AppendJoined ==
  ASSUME NEW f, NEW q, NEW x, IsSeq(f), IsSeq(q)
  PROVE  Append(f, x) \o q = f \o (<<x>> \o q)
<1>1. PICK I : f \in Seq(I)
  BY DEF IsSeq
<1>2. PICK J : q \in Seq(J)
  BY DEF IsSeq
<1> DEFINE K == I \cup J \cup {x}
<1>3. f \in Seq(K) /\ q \in Seq(K) /\ x \in K
  <2>1. I \subseteq K /\ J \subseteq K /\ x \in K
    OBVIOUS
  <2> HIDE DEF K
  <2> QED BY <1>1, <1>2, <2>1
<1> HIDE DEF K
<1>4. Append(f, x) = f \o <<x>>
  BY <1>3, AppendIsConcat
<1>5. <<x>> \in Seq(K)
  BY <1>3
<1> QED BY <1>3, <1>4, <1>5, ConcatAssociative

(* The first way gives what the second one gives.                          *)
JoinsWith(f, x, q) == Append(f, x) \o q = f \o (<<x>> \o q)

(* So it does for all items.                                               *)
LEMMA AppendJoins ==
  ASSUME NEW f, NEW q, IsSeq(f), IsSeq(q)
  PROVE  \A x : JoinsWith(f, x, q)
<1>1. ASSUME NEW x
      PROVE  Append(f, x) \o q = f \o (<<x>> \o q)
  BY AppendJoined
<1> QED BY <1>1 DEF JoinsWith

(* Two items between two sequences are before the second one after the     *)
(* other.                                                                  *)
LEMMA JoinedTwice ==
  ASSUME NEW f, NEW q, NEW x, NEW y, IsSeq(f), IsSeq(q)
  PROVE  (f \o <<x, y>>) \o q = f \o (<<x>> \o (<<y>> \o q))
<1>1. IsSeq(<<x>>) /\ IsSeq(<<x, y>>)
  BY Literal
<1>4. <<x, y>> = Append(<<x>>, y)
  OBVIOUS
<1>5. Append(<<x>>, y) \o q = <<x>> \o (<<y>> \o q)
  BY <1>1, AppendJoined
<1>2. <<x, y>> \o q = <<x>> \o (<<y>> \o q)
  BY <1>4, <1>5
<1>3. (f \o <<x, y>>) \o q = f \o (<<x, y>> \o q)
  <2>1. PICK I : f \in Seq(I)
    BY DEF IsSeq
  <2>2. PICK J : q \in Seq(J)
    BY DEF IsSeq
  <2> DEFINE K == I \cup J \cup {x, y}
  <2>3. f \in Seq(K) /\ q \in Seq(K) /\ x \in K /\ y \in K
    <3>1. I \subseteq K /\ J \subseteq K /\ x \in K /\ y \in K
      OBVIOUS
    <3> HIDE DEF K
    <3> QED BY <2>1, <2>2, <3>1
  <2> HIDE DEF K
  <2>4. <<x, y>> \in Seq(K)
    BY <2>3
  <2> QED BY <2>3, <2>4, ConcatAssociative
<1> QED BY <1>2, <1>3

(* Nothing before the rest.                                                *)
LEMMA NothingJoined ==
  ASSUME NEW q, IsSeq(q)
  PROVE  <<>> \o q = q
BY DEF IsSeq

(* A sequence before one more entry.                                       *)
LEMMA CutLonger ==
  ASSUME NEW f, IsSeq(f), NEW x
  PROVE  SubSeq(Append(f, x), 1, Len(f)) = f
<1>1. PICK g : g = Append(f, x)
  OBVIOUS
<1>2. /\ IsSeq(g) /\ Len(f) \in Nat /\ Len(g) = Len(f) + 1
      /\ \A i \in 1 .. Len(f) : g[i] = f[i]
  BY <1>1, SeqLonger
<1>3. Len(f) \in 0 .. Len(g)
  BY <1>2
<1>4. PICK k : k = SubSeq(g, 1, Len(f))
  OBVIOUS
<1>5. IsSeq(k) /\ Len(k) = Len(f) /\ \A i \in 1 .. Len(f) : k[i] = g[i]
  BY <1>2, <1>3, <1>4, SeqCut
<1>6. \A i \in 1 .. Len(f) : k[i] = f[i]
  BY <1>2, <1>5
<1>7. k = f
  BY <1>5, <1>6, SameEntries
<1> QED BY <1>1, <1>4, <1>7

(* All entries of a sequence but the first.                                *)
LEMMA SeqTail ==
  ASSUME NEW f, IsSeq(f), Len(f) >= 1
  PROVE  /\ IsSeq(Tail(f)) /\ Len(Tail(f)) = Len(f) - 1
         /\ \A i \in 1 .. Len(f) - 1 : Tail(f)[i] = f[i + 1]
<1>1. PICK I : f \in Seq(I)
  BY DEF IsSeq
<1>2. f # <<>>
  BY <1>1
<1>3. Tail(f) \in Seq(I) /\ Len(Tail(f)) = Len(f) - 1
      /\ \A i \in 1 .. Len(f) - 1 : Tail(f)[i] = f[i + 1]
  BY <1>1, <1>2
<1> QED BY <1>3 DEF IsSeq
=============================================================================
