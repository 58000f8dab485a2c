----------------------------- MODULE TokenProofs -----------------------------
(***************************************************************************)
(* Proofs about the two tokens with a value.  An operation: whatever node  *)
(* is made for it, what is written of it is read as the tables say.  A     *)
(* string, a text of any length: the loop that unquotes it writes into the *)
(* buffer that it reads, never over what it has still to read; it leaves   *)
(* out what it should; and what is written of a string is read as the same *)
(* one exactly when its quotes are the only ones.                          *)
(***************************************************************************)
EXTENDS PrimOp, Quotes, DataLemmas

(* The names that the table knows.                                         *)
Names == {"add", "sub", "mul", "div", "mod", "lt", "leq", "gt", "geq", "eq",
          "neq", "pad", "asUInt", "asSInt", "asClock", "shl", "shr", "dshl",
          "dshr", "cvt", "neg", "not", "and", "or", "xor", "andr", "orr",
          "xorr", "cat", "bits", "head", "tail"}

(* The table has these names and no other.                                 *)
LEMMA NamesAre == DOMAIN lookup = Names
BY DEF lookup, Names

(* Operation by operation: of all the names, only that of a conversion to  *)
(* SInt is no token.                                                       *)
LEMMA OnlyOneIsRefused ==
  ASSUME NEW name \in Names, name \notin primop
  PROVE  lookup[name] = "ASSINT"
<1>1. name = "asSInt"
  BY DEF Names, primop
<1> QED BY <1>1 DEF lookup

(* And that name is none, though the table has it.                         *)
LEMMA OneIsRefused ==
  ASSUME NEW name \in Names, lookup[name] = "ASSINT"
  PROVE  name \notin primop
BY DEF Names, lookup, primop

(* What is written for an operation is found again.                        *)
LEMMA NameIsFound ==
  ASSUME NEW op \in Operations
  PROVE  operationName(op) \in Names /\ lookup[operationName(op)] = op
<1>1. PICK name \in Names : lookup[name] = op
  BY NamesAre DEF Operations
<1>2. operationName(op) = name
  <2>1. \A n \in Names : operationNames[lookup[n]] = n
    BY DEF Names, lookup, operationNames
  <2> QED BY <1>1, <2>1 DEF operationName
<1> QED BY <1>1, <1>2

(* The class gives its own operation to the base class, but for two.       *)
LEMMA OperationOfFacts ==
  ASSUME NEW op \in Operations
  PROVE  /\ OperationOf(op) \in Operations
         /\ OperationOf(OperationOf(op)) = OperationOf(op)
         /\ OperationOf(op) = "ASSINT" <=> op = "ASSINT"
         /\ OperationOf(op) # op <=> op \in {"PAD", "AND"}
         /\ OperationOf(op) # op => OperationOf(op) = "ADD"
<1>1. "ADD" \in Operations
  <2>1. lookup["add"] = "ADD" /\ "add" \in DOMAIN lookup
    BY NamesAre DEF lookup, Names
  <2> QED BY <2>1 DEF Operations
<1> QED BY <1>1 DEF OperationOf

(***************************************************************************)
(* What is known of an operation at each station of its way.               *)
(***************************************************************************)
MadeAs ==
  status \in {"made", "written", "read", "refused"} =>
    /\ class \in Operations
    /\ \E p, n, r : node = [mOp            |-> OperationOf(class),
                            mNumOperands   |-> IF class \in Unary THEN 1 ELSE 2,
                            mNumParameters |-> r,
                            mOperands      |-> n,
                            mParameters    |-> p]

WrittenAs ==
  status \in {"written", "read", "refused"} =>
    text.name = operationName(node.mOp) /\ text.operands = node.mOperands

FoundAs ==
  /\ status = "read" =>
       /\ text.name \in primop \cap DOMAIN lookup
       /\ back.mOp = OperationOf(lookup[text.name])
       /\ back.mOperands = text.operands
  /\ status = "refused" => text.name \notin primop \cap DOMAIN lookup

OnItsWay == MadeAs /\ WrittenAs /\ FoundAs

(* A node that was just made has the operation of its class.               *)
LEMMA GenerateStep ==
  ASSUME NEW op, generate(op)
  PROVE  OnItsWay'
<1>1. CASE op \in Operations
  <2>1. class' = op /\ node' = New(op) /\ status' = "made"
    BY <1>1 DEF generate
  <2> QED BY <1>1, <2>1 DEF OnItsWay, MadeAs, WrittenAs, FoundAs, New
<1>2. CASE op \notin Operations
  <2>1. status' = "threw"
    BY <1>2 DEF generate
  <2> QED BY <2>1 DEF OnItsWay, MadeAs, WrittenAs, FoundAs
<1> QED BY <1>1, <1>2

(* Operands and parameters change nothing else.                            *)
LEMMA FilledStep ==
  ASSUME OnItsWay, addOperand \/ addParameter
  PROVE  OnItsWay'
<1>1. status = "made" /\ class' = class /\ status' \in {"made", "threw"}
  BY DEF addOperand, addParameter
<1>2. ASSUME status' = "made"
      PROVE  MadeAs'
  <2>1. PICK p, n, r : node = [mOp            |-> OperationOf(class),
                            mNumOperands   |-> IF class \in Unary THEN 1 ELSE 2,
                            mNumParameters |-> r,
                            mOperands      |-> n,
                            mParameters    |-> p]
    BY <1>1 DEF OnItsWay, MadeAs
  <2>2. \/ node' = [node EXCEPT !.mOperands = @ + 1]
        \/ node' = [node EXCEPT !.mParameters = @ + 1]
    BY <1>2 DEF addOperand, addParameter
  <2>3. \E q, m : node' = [mOp            |-> OperationOf(class),
                           mNumOperands   |-> IF class \in Unary THEN 1 ELSE 2,
                           mNumParameters |-> r,
                           mOperands      |-> m,
                           mParameters    |-> q]
    BY <2>1, <2>2
  <2>4. class \in Operations
    BY <1>1 DEF OnItsWay, MadeAs
  <2> QED BY <1>1, <2>3, <2>4 DEF MadeAs
<1> QED BY <1>1, <1>2 DEF OnItsWay, MadeAs, WrittenAs, FoundAs

(* What is written is the name of the operation, and its operands.         *)
LEMMA VisitStep ==
  ASSUME OnItsWay, visit
  PROVE  OnItsWay'
<1>1. status = "made" /\ class' = class /\ node' = node
      /\ status' \in {"undefined", "written"}
  BY DEF visit
<1>2. status' = "written" =>
        text' = [name |-> operationName(node.mOp), operands |-> node.mOperands]
  BY DEF visit
<1>3. MadeAs'
  BY <1>1 DEF OnItsWay, MadeAs
<1>4. WrittenAs'
  <2>1. (operationName(node.mOp))' = operationName(node.mOp)
    BY <1>1
  <2> QED BY <1>1, <1>2, <2>1 DEF WrittenAs
<1> QED BY <1>1, <1>3, <1>4 DEF OnItsWay, FoundAs

(* What is read is what the table says of that name.                       *)
LEMMA ReadBackStep ==
  ASSUME OnItsWay, readBack
  PROVE  OnItsWay'
<1>1. status = "written" /\ UNCHANGED <<class, node, text>>
      /\ status' \in {"refused", "threw", "read"}
  BY DEF readBack
<1>2. MadeAs'
  BY <1>1 DEF OnItsWay, MadeAs
<1>3. WrittenAs'
  <2>1. (operationName(node.mOp))' = operationName(node.mOp)
    BY <1>1
  <2> QED BY <1>1, <2>1 DEF OnItsWay, WrittenAs
<1>4. status' = "refused" => text.name \notin primop \cap DOMAIN lookup
  BY DEF readBack
<1>5. ASSUME status' = "read"
      PROVE  /\ text.name \in primop \cap DOMAIN lookup
             /\ back'.mOp = OperationOf(lookup[text.name])
             /\ back'.mOperands = text.operands
  <2>1. text.name \in primop \cap DOMAIN lookup
        /\ back' = [New(lookup[text.name]) EXCEPT !.mOperands = text.operands]
    BY <1>5 DEF readBack
  <2> QED BY <2>1 DEF New
<1> QED BY <1>1, <1>2, <1>3, <1>4, <1>5 DEF OnItsWay, FoundAs

(* From what is known at each station: the tables agree.                   *)
LEMMA WayAgrees ==
  ASSUME OnItsWay
  PROVE  TablesAgree
<1>1. ASSUME status \in {"read", "refused"}
      PROVE  /\ class \in Operations /\ node.mOp = OperationOf(class)
             /\ text.operands = node.mOperands
             /\ text.name \in Names /\ lookup[text.name] = node.mOp
  <2>1. class \in Operations /\ node.mOp = OperationOf(class)
    BY <1>1 DEF OnItsWay, MadeAs
  <2>2. node.mOp \in Operations
    BY <2>1, OperationOfFacts
  <2>3. text.name = operationName(node.mOp) /\ text.operands = node.mOperands
    BY <1>1 DEF OnItsWay, WrittenAs
  <2>4. text.name \in Names /\ lookup[text.name] = node.mOp
    BY <2>2, <2>3, NameIsFound
  <2> QED BY <2>1, <2>3, <2>4
<1>2. ASSUME status = "read"
      PROVE  /\ back.mOp = node.mOp /\ back.mOperands = node.mOperands
             /\ back.mOp # class <=> class \in {"PAD", "AND"} /\ back.mOp = "ADD"
             /\ class # "ASSINT"
  <2>1. /\ class \in Operations /\ node.mOp = OperationOf(class)
        /\ text.operands = node.mOperands
        /\ text.name \in Names /\ lookup[text.name] = node.mOp
    BY <1>1, <1>2
  <2>2. /\ text.name \in primop
        /\ back.mOp = OperationOf(lookup[text.name])
        /\ back.mOperands = text.operands
    BY <1>2 DEF OnItsWay, FoundAs
  <2>3. back.mOp = OperationOf(OperationOf(class))
    BY <2>1, <2>2
  <2>4. back.mOp = OperationOf(class)
    BY <2>1, <2>3, OperationOfFacts
  <2>5. lookup[text.name] # "ASSINT"
    BY <2>1, <2>2, OneIsRefused
  <2>6. class # "ASSINT"
    BY <2>1, <2>5, OperationOfFacts
  <2>7. back.mOp # class <=> class \in {"PAD", "AND"} /\ back.mOp = "ADD"
    BY <2>1, <2>4, OperationOfFacts
  <2> QED BY <2>1, <2>2, <2>4, <2>6, <2>7
<1>3. ASSUME status = "refused"
      PROVE  class = "ASSINT"
  <2>1. /\ class \in Operations /\ node.mOp = OperationOf(class)
        /\ text.name \in Names /\ lookup[text.name] = node.mOp
    BY <1>1, <1>3
  <2>2. text.name \notin primop
    BY <1>3, <2>1, NamesAre DEF OnItsWay, FoundAs
  <2>3. OperationOf(class) = "ASSINT"
    BY <2>1, <2>2, OnlyOneIsRefused
  <2> QED BY <2>1, <2>3, OperationOfFacts
<1> QED BY <1>2, <1>3 DEF TablesAgree

(* Whatever an operation was given, and in which order: what is written of *)
(* it is read as the same operation, but for the classes of pad and and.   *)
THEOREM TablesAgreeCorrect == Spec => []TablesAgree
<1>1. Init => OnItsWay
  BY DEF Init, OnItsWay, MadeAs, WrittenAs, FoundAs
<1>2. OnItsWay /\ [Next]_vars => OnItsWay'
  <2> SUFFICES ASSUME OnItsWay, [Next]_vars
               PROVE  OnItsWay'
    OBVIOUS
  <2>1. CASE UNCHANGED vars
    <3>1. UNCHANGED <<class, node, text, back, status>>
      BY <2>1 DEF vars
    <3>2. MadeAs'
      BY <3>1 DEF OnItsWay, MadeAs
    <3>3. WrittenAs'
      <4>1. (operationName(node.mOp))' = operationName(node.mOp)
        BY <3>1
      <4> QED BY <3>1, <4>1 DEF OnItsWay, WrittenAs
    <3>4. FoundAs'
      BY <3>1 DEF OnItsWay, FoundAs
    <3> QED BY <3>2, <3>3, <3>4 DEF OnItsWay
  <2>2. ASSUME NEW raw \in primop, HandlePrimOp(raw)
        PROVE  OnItsWay'
    BY <2>2, GenerateStep DEF HandlePrimOp
  <2> QED BY <2>1, <2>2, GenerateStep, FilledStep, VisitStep, ReadBackStep
          DEF Next
<1>3. OnItsWay => TablesAgree
  BY WayAgrees
<1> QED BY <1>1, <1>2, <1>3, PTL DEF Spec

-----------------------------------------------------------------------------
Characters == {"q", "bs", "c"}

TextOK ==
  /\ source \in Seq(Characters)
  /\ val \in Seq(Characters)
  /\ in \in Nat \ {0} /\ outidx \in Nat

(***************************************************************************)
(* What is written is behind what is read, inside the buffer, and what is  *)
(* still to be read is as the lexer matched it.                            *)
(***************************************************************************)
UnreadIntact ==
  outcome = "unquoting" =>
    /\ outidx < in
    /\ in <= Len(val) + 1
    /\ \A p \in in .. Len(val) : val[p] = source[p]

IInv == TextOK /\ UnreadIntact

-----------------------------------------------------------------------------
(* The first characters of a text.                                         *)
LEMMA FrontFacts ==
  ASSUME NEW s \in Seq(Characters), NEW n \in 0 .. Len(s)
  PROVE  /\ SubSeq(s, 1, n) \in Seq(Characters)
         /\ Len(SubSeq(s, 1, n)) = n
         /\ \A i \in 1 .. n : SubSeq(s, 1, n)[i] = s[i]
<1>1. 1 \in Int /\ n \in Int /\ \A i \in 1 .. n : s[i] \in Characters
  BY LenProperties
<1> DEFINE f == SubSeq(s, 1, n)
<1>2. /\ f \in Seq(Characters)
      /\ Len(f) = IF 1 <= n THEN n - 1 + 1 ELSE 0
      /\ \A i \in 1 .. n - 1 + 1 : f[i] = s[1 + i - 1]
  BY ONLY <1>1, SubSeqProperties
<1> HIDE DEF f
<1>3. n \in Nat
  BY LenProperties
<1>4. Len(f) = n /\ \A i \in 1 .. n : f[i] = s[i]
  BY <1>2, <1>3
<1> QED BY <1>2, <1>4 DEF f

(* Appending from a place that is not read yet.                            *)
LEMMA AppendStep ==
  ASSUME IInv, outcome = "unquoting", NEW p \in in .. Len(val), AppendFrom(p),
         UNCHANGED source
  PROVE  IInv'
<1>1. /\ val \in Seq(Characters) /\ Len(val) \in Nat
      /\ in \in Nat \ {0} /\ outidx \in Nat /\ outidx < in
      /\ \A i \in in .. Len(val) : val[i] = source[i]
  BY LenProperties DEF IInv, TextOK, UnreadIntact
<1>2. outidx + 1 \in 1 .. Len(val) /\ outidx + 1 <= p /\ val[p] \in Characters
  <2>1. p \in 1 .. Len(val) /\ outidx + 1 \in 1 .. Len(val) /\ outidx + 1 <= p
    BY <1>1
  <2> QED BY <1>1, <2>1, ElementOfSeq
<1>3. /\ val' = [val EXCEPT ![outidx + 1] = val[p]]
      /\ outidx' = outidx + 1 /\ in' = p + 1
  BY DEF AppendFrom
<1>4. /\ val' \in Seq(Characters) /\ Len(val') = Len(val)
      /\ \A j \in 1 .. Len(val) :
           val'[j] = IF j = outidx + 1 THEN val[p] ELSE val[j]
  BY <1>1, <1>2, <1>3, ExceptSeq
<1>5. outidx' < in' /\ in' <= Len(val') + 1
  BY <1>1, <1>2, <1>3, <1>4
<1>6. ASSUME NEW j \in in' .. Len(val')
      PROVE  val'[j] = source'[j]
  <2>1. j \in in .. Len(val) /\ j \in 1 .. Len(val) /\ j # outidx + 1
    BY <1>1, <1>2, <1>3, <1>4
  <2> QED BY <1>1, <1>4, <2>1
<1>7. TextOK'
  BY <1>1, <1>3, <1>4 DEF IInv, TextOK
<1> QED BY <1>5, <1>6, <1>7 DEF IInv, UnreadIntact

(* The buffer is the beginning of the source.                              *)
LEMMA LexStep ==
  ASSUME IInv, Lex
  PROVE  IInv'
<1>1. /\ source \in Seq(Characters) /\ Len(source) \in Nat
      /\ source' = source /\ in' = 1 /\ outidx' = 0
  BY LenProperties DEF IInv, TextOK, Lex
<1>2. CASE Lengths = {}
  <2>1. outcome' = "unmatched" /\ val' = val
    BY <1>2 DEF Lex
  <2>2. 1 \in Nat \ {0} /\ 0 \in Nat
    OBVIOUS
  <2> QED BY <1>1, <2>1, <2>2 DEF IInv, TextOK, UnreadIntact
<1>3. CASE Lengths # {}
  <2>1. Lengths \subseteq 1 .. Len(source)
    BY <1>1 DEF Lengths
  <2>2. \E x \in Lengths : \A y \in Lengths : x >= y
    BY <1>1, <1>3, <2>1, HasGreatest
  <2> DEFINE n == Max(Lengths)
  <2>3. n \in Lengths
    BY <2>2 DEF Max
  <2>4. n \in 0 .. Len(source)
    <3> HIDE DEF n
    <3>1. n \in 1 .. Len(source)
      BY <2>1, <2>3
    <3> QED BY <1>1, <3>1
  <2>5. val' = SubSeq(source, 1, n)
    BY <1>3 DEF Lex
  <2> HIDE DEF n
  <2>6. /\ val' \in Seq(Characters) /\ Len(val') = n
        /\ \A i \in 1 .. n : val'[i] = source[i]
    BY <1>1, <2>4, <2>5, FrontFacts
  <2> QED BY <1>1, <2>4, <2>6 DEF IInv, TextOK, UnreadIntact
<1> QED BY <1>2, <1>3

(* A quote is left out, or ends the token.                                 *)
LEMMA EatStep ==
  ASSUME IInv, EatQuote
  PROVE  IInv'
<1>1. /\ val \in Seq(Characters) /\ Len(val) \in Nat
      /\ in \in Nat \ {0} /\ outidx \in Nat /\ outidx < in
      /\ in <= Len(val) /\ outcome = "unquoting" /\ source' = source
  BY LenProperties DEF IInv, TextOK, UnreadIntact, EatQuote
<1>2. CASE in = Len(val)
  <2>1. outidx \in 0 .. Len(val)
    BY <1>1
  <2>2. SubSeq(val, 1, outidx) \in Seq(Characters)
    BY <1>1, <2>1, FrontFacts
  <2> QED BY <1>1, <1>2, <2>2 DEF EatQuote, IInv, TextOK, UnreadIntact
<1>3. CASE in # Len(val)
  <2>1. in + 1 \in in .. Len(val)
    BY <1>1, <1>3
  <2>2. AppendFrom(in + 1)
    BY <1>3 DEF EatQuote
  <2> QED BY <1>1, <2>1, <2>2, AppendStep
<1> QED BY <1>2, <1>3

(* What is written is a text again.                                        *)
LEMMA WriteStep ==
  ASSUME IInv, WriteAgain
  PROVE  IInv'
<1>1. PICK tail \in Behind : source' = Quoted(val) \o tail
  BY DEF WriteAgain
<1>2. tail \in Seq(Characters) /\ <<"q">> \in Seq(Characters)
      /\ val \in Seq(Characters)
  BY SourcesAssumption DEF Characters, IInv, TextOK
<1>3. Quoted(val) \in Seq(Characters)
  BY <1>2, ConcatProperties DEF Quoted
<1>4. source' \in Seq(Characters)
  BY <1>1, <1>2, <1>3, ConcatProperties
<1> QED BY <1>4 DEF WriteAgain, IInv, TextOK, UnreadIntact

(* Every step keeps both.                                                  *)
LEMMA IInvStep ==
  ASSUME IInv, [QuotesNext]_strings
  PROVE  IInv'
<1>1. CASE AppendCharacter
  <2>1. in \in in .. Len(val)
    BY <1>1, LenProperties DEF AppendCharacter, IInv, TextOK
  <2> QED BY <1>1, <2>1, AppendStep DEF AppendCharacter
<1>2. CASE NotEnded
  BY <1>2 DEF NotEnded, IInv, TextOK, UnreadIntact
<1>3. CASE UNCHANGED strings
  BY <1>3 DEF strings, IInv, TextOK, UnreadIntact
<1> QED BY <1>1, <1>2, <1>3, LexStep, EatStep, WriteStep DEF QuotesNext

(* Whatever the text, and however often it is written and read again: a    *)
(* character is read as the lexer matched it, never as the loop wrote it.  *)
THEOREM UnreadIntactCorrect == QuotesSpec => []UnreadIntact
<1>1. QuotesInit => IInv
  <2>1. <<>> \in Seq(Characters)
    BY EmptySeq
  <2> QED BY <2>1, SourcesAssumption
          DEF QuotesInit, IInv, TextOK, UnreadIntact, Characters
<1>2. IInv /\ [QuotesNext]_strings => IInv'
  BY IInvStep
<1>3. IInv => UnreadIntact
  BY DEF IInv
<1> QED BY <1>1, <1>2, <1>3, PTL DEF QuotesSpec

(* Where a run of quotes begins.                                           *)
LEMMA RunFacts ==
  ASSUME NEW s, NEW p \in Nat \ {0}, s[p] = "q"
  PROVE  /\ RunStart(s, p) \in 1 .. p
         /\ \A i \in RunStart(s, p) .. p : s[i] = "q"
         /\ RunStart(s, p) = 1 \/ s[RunStart(s, p) - 1] # "q"
<1> DEFINE T == {r \in 1 .. p : \A i \in r .. p : s[i] = "q"}
<1>1. T \subseteq Nat /\ p \in T
  OBVIOUS
<1>2. PICK r \in T : \A t \in T : r <= t
  BY <1>1, HasLeast
<1>3. r = 1 \/ s[r - 1] # "q"
  <2> SUFFICES ASSUME r # 1, s[r - 1] = "q"
               PROVE  FALSE
    OBVIOUS
  <2>1. r - 1 \in 1 .. p
    BY <1>2
  <2>2. \A i \in r - 1 .. p : i = r - 1 \/ i \in r .. p
    BY <1>2
  <2>3. r - 1 \in T
    BY <2>1, <2>2
  <2> QED BY <1>2, <2>3
<1> QED BY <1>2, <1>3 DEF RunStart

(* There is one such beginning.                                            *)
LEMMA RunIs ==
  ASSUME NEW s, NEW p \in Nat \ {0}, NEW r \in 1 .. p,
         \A i \in r .. p : s[i] = "q", r = 1 \/ s[r - 1] # "q"
  PROVE  RunStart(s, p) = r
<1> DEFINE t == RunStart(s, p)
<1>1. s[p] = "q"
  OBVIOUS
<1>2. /\ t \in 1 .. p
      /\ \A i \in t .. p : s[i] = "q"
      /\ t = 1 \/ s[t - 1] # "q"
  BY <1>1, RunFacts
<1> HIDE DEF t
<1>3. ~ (t < r)
  <2> SUFFICES ASSUME t < r
               PROVE  FALSE
    OBVIOUS
  <2>1. r - 1 \in t .. p /\ r # 1
    BY <1>2
  <2> QED BY <1>2, <2>1
<1>4. ~ (r < t)
  <2> SUFFICES ASSUME r < t
               PROVE  FALSE
    OBVIOUS
  <2>1. t - 1 \in r .. p /\ t # 1
    BY <1>2
  <2> QED BY <1>2, <2>1
<1>5. t = r
  BY <1>2, <1>3, <1>4
<1> QED BY <1>5 DEF t

(* The first quote of a run is odd, and each is what the one before it is  *)
(* not.                                                                    *)
LEMMA OddFirst ==
  ASSUME NEW s, NEW p \in Nat \ {0}, s[p] = "q", p = 1 \/ s[p - 1] # "q"
  PROVE  RunStart(s, p) = p /\ OddAt(s, p)
<1>1. RunStart(s, p) = p
  BY RunIs
<1>2. (p - p) % 2 = 0
  OBVIOUS
<1> QED BY <1>1, <1>2 DEF OddAt

(* From a quote to the next.                                               *)
LEMMA OddNext ==
  ASSUME NEW s, NEW p \in Nat \ {0}, s[p] = "q", s[p + 1] = "q"
  PROVE  /\ RunStart(s, p + 1) = RunStart(s, p)
         /\ OddAt(s, p + 1) <=> ~ OddAt(s, p)
<1> DEFINE r == RunStart(s, p)
<1>1. /\ r \in 1 .. p
      /\ \A i \in r .. p : s[i] = "q"
      /\ r = 1 \/ s[r - 1] # "q"
  BY RunFacts
<1> HIDE DEF r
<1>2. \A i \in r .. p + 1 : s[i] = "q"
  <2>1. \A i \in r .. p + 1 : i \in r .. p \/ i = p + 1
    BY <1>1
  <2> QED BY <1>1, <2>1
<1>3. RunStart(s, p + 1) = r
  <2>1. r \in 1 .. p + 1 /\ p + 1 \in Nat \ {0}
    BY <1>1
  <2> QED BY <1>1, <1>2, <2>1, RunIs
<1>4. ((p + 1) - r) % 2 = 0 <=> ~ ((p - r) % 2 = 0)
  BY <1>1
<1> QED BY <1>3, <1>4 DEF OddAt, r

(* A text that begins with quotes alone: every second one is odd.          *)
LEMMA OddFromStart ==
  ASSUME NEW s, NEW p \in Nat \ {0}, \A i \in 1 .. p : s[i] = "q"
  PROVE  RunStart(s, p) = 1 /\ (OddAt(s, p) <=> (p - 1) % 2 = 0)
<1>1. RunStart(s, p) = 1
  BY RunIs
<1> QED BY <1>1 DEF OddAt

(* The quotes that are left out of a text, and the text without them.      *)
Odds(s) == {p \in 1 .. Len(s) : OddAt(s, p)}
Upto(s) == CHOOSE f : Filters(s, Odds(s), f) /\ Halved(s) = f[Len(s)]

(* The function that Halved defines is this one.                           *)
LEMMA HalvedIs ==
  ASSUME NEW s \in Seq(Characters)
  PROVE  Filters(s, Odds(s), Upto(s)) /\ Halved(s) = Upto(s)[Len(s)]
<1> DEFINE Is(f) == f = [p \in 0 .. Len(s) |->
                          IF p = 0 THEN <<>>
                          ELSE IF OddAt(s, p) THEN f[p - 1]
                          ELSE Append(f[p - 1], s[p])]
           D == Odds(s)
           h == CHOOSE f : Is(f)
<1>1. Halved(s) = h[Len(s)]
  BY DEF Halved
<1>2. \A p \in 0 .. Len(s) : p # 0 => (p \in D <=> OddAt(s, p))
  BY DEF Odds
<1> HIDE DEF D
<1>3. ASSUME NEW f
      PROVE  Is(f) <=> Filters(s, D, f)
  <2>1. [p \in 0 .. Len(s) |-> IF p = 0 THEN <<>>
                               ELSE IF OddAt(s, p) THEN f[p - 1]
                               ELSE Append(f[p - 1], s[p])]
        = [p \in 0 .. Len(s) |-> IF p = 0 THEN <<>>
                                 ELSE IF p \in D THEN f[p - 1]
                                 ELSE Append(f[p - 1], s[p])]
    BY <1>2, Zenon
  <2> QED BY <2>1, Zenon DEF Filters
<1> HIDE DEF Is
<1>4. \E f : Filters(s, D, f)
  BY FilterDefined
<1>5. Is(h)
  <2>1. \E f : Is(f)
    BY <1>3, <1>4
  <2> QED BY <2>1
<1> HIDE DEF h
<1>6. Filters(s, D, h) /\ Halved(s) = h[Len(s)]
  BY <1>1, <1>3, <1>5
<1>7. Filters(s, D, Upto(s)) /\ Halved(s) = Upto(s)[Len(s)]
  <2> HIDE DEF Filters, Halved
  <2>1. Filters(s, Odds(s), h) /\ Halved(s) = h[Len(s)]
    BY <1>6 DEF D
  <2> DEFINE P(f) == Filters(s, Odds(s), f) /\ Halved(s) = f[Len(s)]
  <2>2. P(h)
    BY <2>1
  <2>3. Upto(s) = CHOOSE f : P(f)
    BY DEF Upto
  <2> HIDE DEF P
  <2>4. P(Upto(s))
    BY <2>2, <2>3
  <2> QED BY <2>4 DEF P, D
<1> QED BY <1>7 DEF D

(* Step by step: an odd quote adds nothing, all else itself.               *)
LEMMA HalvedSteps ==
  ASSUME NEW s \in Seq(Characters)
  PROVE  /\ \A p \in 0 .. Len(s) : Upto(s)[p] \in Seq(Characters)
         /\ Len(Upto(s)[0]) = 0
         /\ \A p \in 1 .. Len(s) : p \in Odds(s) => Upto(s)[p] = Upto(s)[p - 1]
         /\ \A p \in 1 .. Len(s) : p \notin Odds(s) =>
              /\ Len(Upto(s)[p]) = Len(Upto(s)[p - 1]) + 1
              /\ Upto(s)[p][Len(Upto(s)[p])] = s[p]
              /\ \A i \in 1 .. Len(Upto(s)[p - 1]) : Upto(s)[p][i] = Upto(s)[p - 1][i]
<1> DEFINE f == Upto(s)
           D == Odds(s)
<1>1. Filters(s, D, f)
  BY HalvedIs
<1> HIDE DEF f, D
<1>2. /\ f[0] = <<>>
      /\ \A p \in 1 .. Len(s) :
           f[p] = IF p \in D THEN f[p - 1] ELSE Append(f[p - 1], s[p])
      /\ \A p \in 0 .. Len(s) : f[p] \in Seq(Characters)
  BY <1>1, FilterSteps
<1>3. ASSUME NEW p \in 1 .. Len(s), p \notin D
      PROVE  /\ Len(f[p]) = Len(f[p - 1]) + 1
             /\ f[p][Len(f[p])] = s[p]
             /\ \A i \in 1 .. Len(f[p - 1]) : f[p][i] = f[p - 1][i]
  <2>1. p - 1 \in 0 .. Len(s) /\ s[p] \in Characters
    OBVIOUS
  <2>2. f[p - 1] \in Seq(Characters)
    BY <1>2, <2>1
  <2>3. f[p] = Append(f[p - 1], s[p])
    BY <1>2, <1>3
  <2> QED BY <2>1, <2>2, <2>3
<1>4. Len(f[0]) = 0
  BY <1>2
<1> QED BY <1>2, <1>3, <1>4 DEF f, D

(* What cannot be read.                                                    *)
Unreadable(s) ==
  (\A p \in 1 .. Len(s) : s[p] = "q") \/ Single(s, Len(s))

(***************************************************************************)
(* Where the loop is in the token of the string c: with what stands for    *)
(* its first k characters written, and behind these.  It is one ahead of   *)
(* the quotes that the token begins with, since the first one of all makes *)
(* it take the next for escaped.  Or it has jumped over the last quote.    *)
(***************************************************************************)
AllQuotes(c, k) == \A p \in 1 .. k : c[p] = "q"

Begins(v, o, u) == o = Len(u) /\ \A p \in 1 .. o : v[p] = u[p]

Behindhand(c, v, o, i, k) ==
  /\ k \in 0 .. Len(c) /\ k \notin Odds(c)
  /\ Begins(v, o, Upto(c)[k])
  /\ i = IF AllQuotes(c, k) THEN k + 1 ELSE k + 2

Reading(c, v, o, i) ==
  \/ \E k \in Nat : Behindhand(c, v, o, i, k)
  \/ i = Len(c) + 3 /\ Unreadable(c)

ReadInv ==
  /\ source # <<>> => source[1] = "q"
  /\ outcome = "unquoting" =>
       Lengths # {} /\ Len(val) = Max(Lengths) /\ Reading(Content, val, outidx, in)
  /\ ReadAs

(* The token depends on the text and the kind of string alone.             *)
LEMMA ContentSame ==
  ASSUME source' = source, kind' = kind
  PROVE  Lengths' = Lengths /\ Content' = Content
BY DEF Lengths, Content, Body

(* The token and what is between its quotes.                               *)
LEMMA TokenFacts ==
  ASSUME source \in Seq(Characters), Lengths # {}
  PROVE  /\ Max(Lengths) \in Lengths /\ Max(Lengths) \in 2 .. Len(source)
         /\ \A n \in Lengths : n <= Max(Lengths)
         /\ Content \in Seq(Characters) /\ Len(Content) = Max(Lengths) - 2
         /\ \A i \in 1 .. Len(Content) : Content[i] = source[i + 1]
         /\ source[Max(Lengths)] = "q"
         /\ Body(Content)
<1>1. Len(source) \in Nat /\ \A i \in 1 .. Len(source) : source[i] \in Characters
  OBVIOUS
<1>2. Lengths \subseteq 1 .. Len(source)
  BY <1>1 DEF Lengths
<1>3. \E x \in Lengths : \A y \in Lengths : x >= y
  BY <1>1, <1>2, HasGreatest
<1> DEFINE n == Max(Lengths)
<1>4. n \in Lengths /\ \A y \in Lengths : n >= y
  BY <1>3 DEF Max
<1>5. n \in 2 .. Len(source) /\ source[n] = "q" /\ Body(SubSeq(source, 2, n - 1))
  <2> HIDE DEF n
  <2> QED BY <1>4 DEF Lengths
<1>6. Content = SubSeq(source, 2, n - 1)
  BY DEF Content
<1> HIDE DEF n
<1>7. 2 \in Int /\ n - 1 \in Int /\ \A i \in 2 .. n - 1 : source[i] \in Characters
  BY <1>1, <1>5
<1> DEFINE c == SubSeq(source, 2, n - 1)
<1>8. /\ c \in Seq(Characters)
      /\ Len(c) = IF 2 <= n - 1 THEN (n - 1) - 2 + 1 ELSE 0
      /\ \A i \in 1 .. (n - 1) - 2 + 1 : c[i] = source[2 + i - 1]
  BY ONLY <1>7, SubSeqProperties
<1> HIDE DEF c
<1>9. Len(c) = n - 2 /\ \A i \in 1 .. Len(c) : c[i] = source[i + 1]
  <2>1. Len(c) = n - 2
    BY <1>5, <1>8
  <2>2. ASSUME NEW i \in 1 .. Len(c)
        PROVE  c[i] = source[i + 1]
    <3>1. i \in 1 .. (n - 1) - 2 + 1 /\ 2 + i - 1 = i + 1
      BY <1>5, <2>1
    <3> QED BY <1>8, <3>1
  <2> QED BY <2>1, <2>2
<1>10. \A y \in Lengths : y <= n
  BY <1>2, <1>4, <1>5
<1> QED BY <1>4, <1>5, <1>6, <1>8, <1>9, <1>10 DEF n, c

(* One more character is written.                                          *)
LEMMA WrittenOneMore ==
  ASSUME NEW c \in Seq(Characters), NEW m \in Nat, m + 1 \in 1 .. Len(c),
         m + 1 \notin Odds(c), NEW o \in Nat, NEW w,
         Begins(w, o, Upto(c)[m]), w[o + 1] = c[m + 1]
  PROVE  Begins(w, o + 1, Upto(c)[m + 1])
<1> DEFINE f == Upto(c)
           k == m + 1
<1>0. k - 1 = m /\ k \in 1 .. Len(c) /\ k \notin Odds(c)
  OBVIOUS
<1>1. /\ Len(f[k]) = Len(f[m]) + 1
      /\ f[k][Len(f[k])] = c[k]
      /\ \A i \in 1 .. Len(f[m]) : f[k][i] = f[m][i]
  <2> HIDE DEF k
  <2> QED BY <1>0, HalvedSteps
<1>2. o = Len(f[m]) /\ w[o + 1] = c[k] /\ \A p \in 1 .. o : w[p] = f[m][p]
  BY DEF Begins
<1> HIDE DEF f, k
<1>3. Len(f[k]) = o + 1
  BY <1>1, <1>2
<1>4. ASSUME NEW p \in 1 .. o + 1
      PROVE  w[p] = f[k][p]
  <2>1. CASE p = o + 1
    BY <1>1, <1>2, <1>3, <2>1
  <2>2. CASE p # o + 1
    <3>1. p \in 1 .. o
      BY <2>2
    <3> QED BY <1>1, <1>2, <3>1
  <2> QED BY <2>1, <2>2
<1>5. Begins(w, o + 1, f[k])
  BY <1>3, <1>4 DEF Begins
<1> QED BY <1>5 DEF f, k

(* Reading one character, or a quote and what is behind it.                *)
LEMMA ReadsPlain ==
  ASSUME NEW c \in Seq(Characters), NEW v, NEW w, NEW o \in Nat, NEW k,
         Behindhand(c, v, o, k + 2, k), ~ AllQuotes(c, k),
         k + 1 \in 1 .. Len(c), c[k + 1] # "q",
         \A p \in 1 .. o : w[p] = v[p], w[o + 1] = c[k + 1]
  PROVE  Behindhand(c, w, o + 1, k + 3, k + 1)
<1>1. k \in Nat /\ k + 1 \notin Odds(c) /\ (k + 1) - 1 = k
  BY DEF Behindhand, Odds, OddAt
<1>2. Begins(w, o + 1, Upto(c)[k + 1])
  <2>1. Begins(w, o, Upto(c)[k])
    BY DEF Behindhand, Begins
  <2> QED BY <1>1, <2>1, WrittenOneMore
<1>3. ~ AllQuotes(c, k + 1)
  BY <1>1 DEF AllQuotes
<1>4. k + 3 = (k + 1) + 2 /\ k + 1 \in 0 .. Len(c)
  BY <1>1
<1> QED BY <1>1, <1>2, <1>3, <1>4 DEF Behindhand

(* A quote is left out, and what follows it taken.                         *)
LEMMA ReadsEscaped ==
  ASSUME NEW c \in Seq(Characters), NEW v, NEW w, NEW o \in Nat, NEW k,
         Behindhand(c, v, o, k + 2, k), ~ AllQuotes(c, k),
         k + 1 \in 1 .. Len(c), c[k + 1] = "q",
         k + 2 <= Len(c) =>
           (\A p \in 1 .. o : w[p] = v[p]) /\ w[o + 1] = c[k + 2]
  PROVE  Reading(c, w, o + 1, k + 4)
<1>1. k \in Nat \ {0} /\ k <= Len(c) /\ k \notin Odds(c) /\ Len(c) \in Nat
  BY DEF Behindhand, AllQuotes
<1>2. OddAt(c, k + 1)
  <2>1. CASE c[k] = "q"
    <3>1. ~ OddAt(c, k)
      BY <1>1 DEF Odds
    <3> QED BY <1>1, <2>1, <3>1, OddNext
  <2>2. CASE c[k] # "q"
    BY <1>1, <2>2, OddFirst
  <2> QED BY <2>1, <2>2
<1>3. CASE k + 1 = Len(c)
  <2>1. Unreadable(c)
    BY <1>2, <1>3 DEF Unreadable, Single
  <2>2. k + 4 = Len(c) + 3
    BY <1>1, <1>3
  <2> QED BY <2>1, <2>2 DEF Reading
<1>4. CASE k + 1 # Len(c)
  <2>1. k + 2 \in 1 .. Len(c) /\ (k + 2) - 1 = k + 1 /\ (k + 1) - 1 = k
        /\ k + 1 \in Nat \ {0} /\ (k + 1) + 1 = k + 2
    BY <1>1, <1>4
  <2>2. k + 2 \notin Odds(c)
    <3>1. c[k + 2] = "q" => ~ OddAt(c, k + 2)
      BY <1>2, <2>1, OddNext
    <3> QED BY <3>1 DEF Odds, OddAt
  <2>3. Upto(c)[k + 1] = Upto(c)[k]
    <3>1. k + 1 \in Odds(c)
      BY <1>2 DEF Odds
    <3> QED BY <2>1, <3>1, HalvedSteps
  <2>4. Begins(w, o + 1, Upto(c)[k + 2])
    <3> DEFINE m == k + 1
    <3>1. k + 2 <= Len(c) /\ m + 1 = k + 2 /\ m \in Nat
      BY <2>1
    <3> HIDE DEF m
    <3>2. Begins(w, o, Upto(c)[m]) /\ w[o + 1] = c[m + 1]
      BY <2>3, <3>1 DEF Behindhand, Begins, m
    <3>0. m \in Nat
      BY <3>1
    <3>3. m + 1 \in 1 .. Len(c) /\ m + 1 \notin Odds(c)
      BY <2>1, <2>2, <3>1
    <3>4. Begins(w, o + 1, Upto(c)[m + 1])
      BY ONLY c \in Seq(Characters), o \in Nat, <3>0, <3>2, <3>3, WrittenOneMore
    <3> QED BY <3>1, <3>4
  <2>5. ~ AllQuotes(c, k + 2)
    BY <1>1 DEF AllQuotes
  <2>6. k + 4 = (k + 2) + 2 /\ k + 2 \in 0 .. Len(c) /\ k + 2 \in Nat
    BY <1>1, <2>1
  <2>7. Behindhand(c, w, o + 1, k + 4, k + 2)
    BY <2>2, <2>4, <2>5, <2>6 DEF Behindhand
  <2> QED BY <2>6, <2>7 DEF Reading
<1> QED BY <1>3, <1>4

(* At the quotes a token begins with: the loop takes the one behind, and   *)
(* they are an even number.                                                *)
LEMMA ReadsFirst ==
  ASSUME NEW c \in Seq(Characters), Body(c), NEW v, NEW w, NEW o \in Nat, NEW k,
         Behindhand(c, v, o, k + 1, k), AllQuotes(c, k),
         k + 1 <= Len(c) =>
           (\A p \in 1 .. o : w[p] = v[p]) /\ w[o + 1] = c[k + 1]
  PROVE  Reading(c, w, o + 1, k + 3)
<1>1. k \in Nat /\ k <= Len(c) /\ k \notin Odds(c) /\ Len(c) \in Nat
  BY DEF Behindhand
<1>2. CASE k = Len(c)
  <2>1. Unreadable(c) /\ k + 3 = Len(c) + 3
    BY <1>2 DEF Unreadable, AllQuotes
  <2> QED BY <2>1 DEF Reading
<1>3. CASE k # Len(c) /\ c[k + 1] # "q"
  <2>1. k + 1 \in 1 .. Len(c) /\ k + 1 \notin Odds(c) /\ (k + 1) - 1 = k
        /\ k + 1 <= Len(c) /\ k + 1 \in Nat
    BY <1>1, <1>3 DEF Odds, OddAt
  <2>2. Begins(w, o + 1, Upto(c)[k + 1])
    <3>1. Begins(w, o, Upto(c)[k]) /\ w[o + 1] = c[k + 1]
      BY <2>1 DEF Behindhand, Begins
    <3> QED BY ONLY c \in Seq(Characters), o \in Nat, <1>1, <2>1, <3>1, WrittenOneMore
  <2>3. ~ AllQuotes(c, k + 1)
    BY <1>3, <2>1 DEF AllQuotes
  <2>4. k + 3 = (k + 1) + 2 /\ k + 1 \in 0 .. Len(c)
    BY <1>1, <2>1
  <2>5. Behindhand(c, w, o + 1, k + 3, k + 1)
    BY <2>1, <2>2, <2>3, <2>4 DEF Behindhand
  <2> QED BY <2>1, <2>5 DEF Reading
<1>4. CASE k # Len(c) /\ c[k + 1] = "q"
  <2>1. k + 1 \in 1 .. Len(c) /\ k + 1 \in Nat \ {0} /\ (k + 1) - 1 = k
        /\ (k + 1) + 1 = k + 2 /\ k + 1 <= Len(c)
    BY <1>1, <1>4
  <2>2. AllQuotes(c, k + 1)
    <3>1. \A p \in 1 .. k + 1 : p \in 1 .. k \/ p = k + 1
      BY <1>1
    <3> QED BY <1>4, <3>1 DEF AllQuotes
  <2>3. RunStart(c, k + 1) = 1
    BY <2>1, <2>2, OddFromStart DEF AllQuotes
  <2>4. OddAt(c, k + 1)
    <3>1. CASE k = 0
      BY <1>4, <2>1, <3>1, OddFirst
    <3>2. CASE k # 0
      <4>1. k \in Nat \ {0} /\ c[k] = "q" /\ ~ OddAt(c, k)
        BY <1>1, <3>2 DEF AllQuotes, Odds
      <4> QED BY <1>4, <4>1, OddNext
    <3> QED BY <3>1, <3>2
  <2>5. ~ Single(c, k + 1)
    BY <2>1, <2>3 DEF Body
  <2>6. k + 2 \in 1 .. Len(c) /\ c[k + 2] = "q"
    <3>1. k + 1 # Len(c) /\ c[k + 2] = "q"
      BY <2>1, <2>4, <2>5 DEF Single
    <3> QED BY <1>1, <2>1, <3>1
  <2>7. k + 2 \notin Odds(c)
    BY <1>4, <2>1, <2>4, <2>6, OddNext DEF Odds
  <2>8. Upto(c)[k + 1] = Upto(c)[k]
    <3>1. k + 1 \in Odds(c)
      BY <2>1, <2>4 DEF Odds
    <3> QED BY <2>1, <3>1, HalvedSteps
  <2>9. Begins(w, o + 1, Upto(c)[k + 2])
    <3> DEFINE m == k + 1
    <3>1. m + 1 = k + 2 /\ m \in Nat /\ c[k + 2] = c[k + 1]
      BY <1>1, <1>4, <2>1, <2>6
    <3> HIDE DEF m
    <3>2. Begins(w, o, Upto(c)[m]) /\ w[o + 1] = c[m + 1]
      BY <2>1, <2>8, <3>1 DEF Behindhand, Begins, m
    <3>0. m \in Nat
      BY <3>1
    <3>3. m + 1 \in 1 .. Len(c) /\ m + 1 \notin Odds(c)
      BY <2>6, <2>7, <3>1
    <3>4. Begins(w, o + 1, Upto(c)[m + 1])
      BY ONLY c \in Seq(Characters), o \in Nat, <3>0, <3>2, <3>3, WrittenOneMore
    <3> QED BY <3>1, <3>4
  <2>10. AllQuotes(c, k + 2)
    <3>1. \A p \in 1 .. k + 2 : p \in 1 .. k + 1 \/ p = k + 2
      BY <1>1
    <3> QED BY <2>2, <2>6, <3>1 DEF AllQuotes
  <2>11. k + 3 = (k + 2) + 1 /\ k + 2 \in 0 .. Len(c) /\ k + 2 \in Nat
    BY <1>1, <2>6
  <2>12. Behindhand(c, w, o + 1, k + 3, k + 2)
    BY <2>7, <2>9, <2>10, <2>11 DEF Behindhand
  <2> QED BY <2>11, <2>12 DEF Reading
<1> QED BY <1>2, <1>3, <1>4

(* What a step of the loop does to the buffer.                             *)
LEMMA BufferStep ==
  ASSUME IInv, outcome = "unquoting", NEW p \in in .. Len(val), AppendFrom(p)
  PROVE  /\ Len(val') = Len(val) /\ outidx' = outidx + 1 /\ in' = p + 1
         /\ outcome' = "unquoting"
         /\ val'[outidx + 1] = source[p]
         /\ \A j \in 1 .. outidx : val'[j] = val[j]
<1>1. /\ val \in Seq(Characters) /\ Len(val) \in Nat
      /\ in \in Nat \ {0} /\ outidx \in Nat /\ outidx < in
      /\ \A i \in in .. Len(val) : val[i] = source[i]
  BY LenProperties DEF IInv, TextOK, UnreadIntact
<1>2. outidx + 1 \in 1 .. Len(val) /\ val[p] \in Characters /\ val[p] = source[p]
  <2>1. p \in 1 .. Len(val) /\ outidx + 1 \in 1 .. Len(val)
    BY <1>1
  <2> QED BY <1>1, <2>1, ElementOfSeq
<1>3. /\ val' = [val EXCEPT ![outidx + 1] = val[p]]
      /\ outidx' = outidx + 1 /\ in' = p + 1 /\ outcome' = "unquoting"
  BY DEF AppendFrom
<1>4. /\ Len(val') = Len(val)
      /\ \A j \in 1 .. Len(val) :
           val'[j] = IF j = outidx + 1 THEN val[p] ELSE val[j]
  BY <1>1, <1>2, <1>3, ExceptSeq
<1>5. \A j \in 1 .. outidx : j \in 1 .. Len(val) /\ j # outidx + 1
  BY <1>1, <1>2
<1> QED BY <1>2, <1>3, <1>4, <1>5

(* The token is as long as its content and the two quotes.                 *)
LEMMA InToken ==
  ASSUME IInv, ReadInv, outcome = "unquoting"
  PROVE  /\ Content \in Seq(Characters) /\ Len(Content) \in Nat /\ Body(Content)
         /\ Len(val) = Len(Content) + 2
         /\ source[1] = "q"
         /\ \A i \in 1 .. Len(Content) : Content[i] = source[i + 1]
         /\ Reading(Content, val, outidx, in)
         /\ outidx \in Nat /\ in \in Nat /\ in <= Len(val) + 1
         /\ \A p \in in .. Len(val) : val[p] = source[p]
         /\ Lengths # {} /\ Len(val) = Max(Lengths)
<1>1. source \in Seq(Characters) /\ Lengths # {} /\ Len(val) = Max(Lengths)
      /\ Reading(Content, val, outidx, in)
  BY DEF IInv, TextOK, ReadInv
<1>2. /\ Content \in Seq(Characters) /\ Len(Content) = Max(Lengths) - 2
      /\ \A i \in 1 .. Len(Content) : Content[i] = source[i + 1]
      /\ Body(Content) /\ Max(Lengths) \in 2 .. Len(source)
  BY <1>1, TokenFacts
<1>3. Len(Content) \in Nat /\ Len(val) = Len(Content) + 2
  BY <1>1, <1>2
<1>4. source # <<>>
  BY <1>1, <1>2
<1>5. /\ outidx \in Nat /\ in \in Nat /\ in <= Len(val) + 1
      /\ \A p \in in .. Len(val) : val[p] = source[p]
  BY DEF IInv, TextOK, UnreadIntact
<1> QED BY <1>1, <1>2, <1>3, <1>4, <1>5 DEF ReadInv

(* It is enough to show where the loop is.                                 *)
LEMMA StaysReading ==
  ASSUME IInv, ReadInv, outcome = "unquoting", outcome' = "unquoting",
         UNCHANGED <<kind, source>>, Len(val') = Len(val),
         Reading(Content, val', outidx', in')
  PROVE  ReadInv'
<1>1. Lengths' = Lengths /\ Content' = Content
  BY ContentSame
<1>2. Lengths # {} /\ Len(val) = Max(Lengths)
  BY InToken
<1>3. (Reading(Content, val, outidx, in))'
  BY <1>1
<1>4. ReadAs'
  BY DEF ReadAs
<1> QED BY <1>1, <1>2, <1>3, <1>4 DEF ReadInv

(* At first nothing is read.                                               *)
LEMMA LexReads ==
  ASSUME IInv, ReadInv, Lex
  PROVE  ReadInv'
<1>1. /\ source \in Seq(Characters) /\ Len(source) \in Nat
      /\ source' = source /\ kind' = kind /\ in' = 1 /\ outidx' = 0
  BY LenProperties DEF IInv, TextOK, Lex
<1>2. Lengths' = Lengths /\ Content' = Content
  BY <1>1, ContentSame
<1>3. CASE Lengths = {}
  <2>1. outcome' = "unmatched"
    BY <1>3 DEF Lex
  <2> QED BY <1>1, <2>1 DEF ReadInv, ReadAs
<1>4. CASE Lengths # {}
  <2>1. outcome' = "unquoting" /\ val' = SubSeq(source, 1, Max(Lengths))
    BY <1>4 DEF Lex
  <2> DEFINE n == Max(Lengths)
             c == Content
  <2>2. n \in 2 .. Len(source) /\ c \in Seq(Characters) /\ source # <<>>
    BY <1>1, <1>4, TokenFacts
  <2>3. Len(val') = n
    <3> HIDE DEF n
    <3>1. n \in 0 .. Len(source) /\ val' = SubSeq(source, 1, n)
      BY <1>1, <2>1, <2>2 DEF n
    <3> QED BY <1>1, <3>1, FrontFacts
  <2>4. Behindhand(c, val', 0, 1, 0)
    <3> HIDE DEF c
    <3>1. Len(Upto(c)[0]) = 0 /\ Len(c) \in Nat
      BY <2>2, HalvedSteps
    <3>2. 0 \notin Odds(c) /\ AllQuotes(c, 0)
      BY DEF Odds, AllQuotes
    <3> QED BY <3>1, <3>2 DEF Behindhand, Begins
  <2>5. Reading(c, val', 0, 1)
    BY <2>4 DEF Reading
  <2>6. (Reading(Content, val, outidx, in))'
    BY <1>1, <1>2, <2>5
  <2> QED BY <1>1, <1>2, <1>4, <2>1, <2>3, <2>6 DEF ReadInv, ReadAs
<1> QED BY <1>3, <1>4

(* A character that is no quote.                                           *)
LEMMA AppendReads ==
  ASSUME IInv, ReadInv, AppendCharacter
  PROVE  ReadInv'
<1> DEFINE c == Content
<1>1. /\ outcome = "unquoting" /\ in <= Len(val) /\ val[in] # "q"
      /\ AppendFrom(in) /\ UNCHANGED <<kind, source>>
  BY DEF AppendCharacter
<1>2. /\ c \in Seq(Characters) /\ Len(c) \in Nat
      /\ Len(val) = Len(c) + 2
      /\ source[1] = "q"
      /\ \A i \in 1 .. Len(c) : c[i] = source[i + 1]
      /\ Reading(c, val, outidx, in)
      /\ outidx \in Nat /\ in \in Nat
      /\ \A p \in in .. Len(val) : val[p] = source[p]
  BY <1>1, InToken
<1>3. in \in in .. Len(val) /\ val[in] = source[in]
  BY <1>1, <1>2
<1>4. /\ Len(val') = Len(val) /\ outidx' = outidx + 1 /\ in' = in + 1
      /\ outcome' = "unquoting"
      /\ val'[outidx + 1] = source[in]
      /\ \A j \in 1 .. outidx : val'[j] = val[j]
  BY <1>1, <1>3, BufferStep
<1> HIDE DEF c
<1>5. PICK k \in Nat : Behindhand(c, val, outidx, in, k)
  <2>1. in # Len(c) + 3
    BY <1>1, <1>2
  <2> QED BY <1>2, <2>1 DEF Reading
<1>6. k <= Len(c) /\ k \in 0 .. Len(c)
  BY <1>5, <1>2 DEF Behindhand
<1>7. ~ AllQuotes(c, k)
  <2> SUFFICES ASSUME AllQuotes(c, k)
               PROVE  FALSE
    OBVIOUS
  <2>1. in = k + 1
    BY <1>5 DEF Behindhand
  <2>2. CASE k = 0
    BY <1>1, <1>2, <1>3, <2>1, <2>2
  <2>3. CASE k # 0
    <3>1. k \in 1 .. k /\ k \in 1 .. Len(c)
      BY <1>2, <1>6, <2>3
    <3>2. c[k] = "q" /\ c[k] = source[k + 1]
      BY <1>2, <3>1 DEF AllQuotes
    <3> QED BY <1>1, <1>3, <2>1, <3>2
  <2> QED BY <2>2, <2>3
<1>8. in = k + 2 /\ Behindhand(c, val, outidx, k + 2, k)
  BY <1>5, <1>7 DEF Behindhand
<1>9. k + 1 \in 1 .. Len(c) /\ source[in] # "q" /\ (k + 1) + 1 = in
  <2>1. k # Len(c)
    <3> SUFFICES ASSUME k = Len(c)
                 PROVE  FALSE
      OBVIOUS
    <3>1. source[Max(Lengths)] = "q" /\ Len(val) = Max(Lengths)
      <4>1. Lengths # {} /\ Len(val) = Max(Lengths) /\ source \in Seq(Characters)
        BY <1>1, InToken DEF IInv, TextOK
      <4> QED BY <4>1, TokenFacts
    <3>2. in = Len(val)
      BY <1>2, <1>8
    <3> QED BY <1>1, <1>3, <3>1, <3>2
  <2> QED BY <1>1, <1>2, <1>3, <1>6, <1>8, <2>1
<1>10. c[k + 1] = source[in]
  <2>1. c[k + 1] = source[(k + 1) + 1]
    BY <1>2, <1>9
  <2> QED BY <1>9, <2>1
<1> DEFINE v == val'
           w == val
           o == outidx
<1>11. Behindhand(c, v, o + 1, k + 3, k + 1)
  <2>1. /\ c[k + 1] # "q" /\ v[o + 1] = c[k + 1]
        /\ \A p \in 1 .. o : v[p] = w[p]
        /\ Behindhand(c, w, o, k + 2, k) /\ o \in Nat
    BY <1>2, <1>4, <1>8, <1>9, <1>10
  <2> HIDE DEF v, w, o
  <2> QED BY <1>2, <1>7, <1>9, <2>1, ReadsPlain
<1>12. Reading(c, val', outidx', in')
  <2>1. in' = k + 3 /\ k + 1 \in Nat
    BY <1>4, <1>8
  <2> QED BY <1>4, <1>11, <2>1 DEF Reading
<1> QED BY <1>1, <1>4, <1>12, StaysReading DEF c

(* The last quote: the first characters of the buffer are the value.       *)
LEMMA LastQuote ==
  ASSUME IInv, ReadInv, EatQuote, in = Len(val)
  PROVE  ReadInv'
<1> DEFINE c == Content
           u == Upto(c)[Len(c)]
<1>1. /\ outcome = "unquoting" /\ outcome' = "value"
      /\ val' = SubSeq(val, 1, outidx) /\ UNCHANGED <<kind, source>>
      /\ val[in] = "q"
  BY DEF EatQuote
<1>2. /\ c \in Seq(Characters) /\ Len(c) \in Nat
      /\ Len(val) = Len(c) + 2 /\ source[1] = "q"
      /\ \A i \in 1 .. Len(c) : c[i] = source[i + 1]
      /\ Reading(c, val, outidx, in)
      /\ outidx \in Nat /\ in \in Nat
  BY <1>1, InToken
<1>3. Lengths' = Lengths /\ Content' = c
  BY <1>1, ContentSame
<1> HIDE DEF c
<1>4. PICK k \in Nat : Behindhand(c, val, outidx, in, k)
  <2>1. in # Len(c) + 3
    BY <1>2
  <2> QED BY <1>2, <2>1 DEF Reading
<1>5. k = Len(c) /\ ~ AllQuotes(c, k) /\ k \notin Odds(c)
      /\ Begins(val, outidx, Upto(c)[k])
  <2>1. /\ k \in 0 .. Len(c) /\ in = IF AllQuotes(c, k) THEN k + 1 ELSE k + 2
        /\ k \notin Odds(c) /\ Begins(val, outidx, Upto(c)[k])
    BY <1>4 DEF Behindhand
  <2> QED BY <1>2, <2>1
<1>6. u \in Seq(Characters) /\ Len(u) = outidx
      /\ \A p \in 1 .. outidx : val[p] = u[p]
  <2>1. Len(c) \in 0 .. Len(c)
    BY <1>2
  <2>2. u \in Seq(Characters)
    BY <1>2, <2>1, HalvedSteps
  <2> QED BY <1>5, <2>2 DEF Begins
<1>7. u = Halved(c)
  BY <1>2, HalvedIs
<1> HIDE DEF u
<1>8. val' = u
  <2>1. outidx \in 0 .. Len(val) /\ val \in Seq(Characters)
    BY <1>1, <1>2 DEF IInv, TextOK, UnreadIntact
  <2> DEFINE v == SubSeq(val, 1, outidx)
  <2>2. /\ v \in Seq(Characters) /\ Len(v) = outidx
        /\ \A i \in 1 .. outidx : v[i] = val[i]
    BY <2>1, FrontFacts
  <2> HIDE DEF v
  <2>3. \A i \in 1 .. Len(v) : v[i] = u[i]
    BY <1>6, <2>2
  <2>4. v = u
    BY ONLY <1>6, <2>2, <2>3, SeqEqual
  <2> QED BY <1>1, <2>4 DEF v
<1>9. ~ Unreadable(c)
  <2>1. ~ Single(c, Len(c))
    <3> SUFFICES ASSUME OddAt(c, Len(c))
                 PROVE  FALSE
      BY DEF Single
    <3>1. Len(c) # 0
      BY <1>5 DEF AllQuotes
    <3> QED BY <1>2, <1>5, <3>1 DEF Odds
  <2> QED BY <1>5, <2>1 DEF Unreadable, AllQuotes
<1>10. ReadAs'
  <2>1. /\ (Halved(Content))' = Halved(c)
        /\ (Unreadable(Content))' = Unreadable(c)
    BY <1>3
  <2>2. (Unreadable(Content) <=> (\A p \in 1 .. Len(Content) : Content[p] = "q")
                                 \/ Single(Content, Len(Content)))'
    BY DEF Unreadable
  <2>3. outcome' # "failed"
    BY <1>1
  <2> QED BY <1>1, <1>7, <1>8, <1>9, <2>1, <2>2, <2>3 DEF ReadAs
<1>11. outcome' # "unquoting"
  BY <1>1
<1> QED BY <1>1, <1>2, <1>10, <1>11 DEF ReadInv

(* A quote before the end.                                                 *)
LEMMA QuoteReads ==
  ASSUME IInv, ReadInv, EatQuote, in # Len(val)
  PROVE  ReadInv'
<1> DEFINE c == Content
           v == val'
           w == val
           o == outidx
<1>1. /\ outcome = "unquoting" /\ in <= Len(val) /\ val[in] = "q"
      /\ AppendFrom(in + 1) /\ UNCHANGED <<kind, source>>
  BY DEF EatQuote
<1>2. /\ c \in Seq(Characters) /\ Len(c) \in Nat /\ Body(c)
      /\ Len(val) = Len(c) + 2
      /\ \A i \in 1 .. Len(c) : c[i] = source[i + 1]
      /\ Reading(c, val, outidx, in)
      /\ o \in Nat /\ in \in Nat
      /\ \A p \in in .. Len(val) : val[p] = source[p]
  BY <1>1, InToken
<1>3. in + 1 \in in .. Len(val) /\ in \in in .. Len(val) /\ val[in] = source[in]
  BY <1>1, <1>2
<1>4. /\ Len(val') = Len(val) /\ outidx' = outidx + 1 /\ in' = (in + 1) + 1
      /\ outcome' = "unquoting"
      /\ v[o + 1] = source[in + 1]
      /\ \A j \in 1 .. o : v[j] = w[j]
  BY <1>1, <1>3, BufferStep
<1>5. PICK k \in Nat : Behindhand(c, w, o, in, k)
  <2>1. in # Len(c) + 3
    BY <1>1, <1>2
  <2> QED BY <1>2, <2>1 DEF Reading
<1> HIDE DEF c, v, w, o
<1>6. k <= Len(c) /\ k \in 0 .. Len(c)
  BY <1>5, <1>2 DEF Behindhand
<1>7. Reading(c, v, o + 1, in')
  <2>1. CASE AllQuotes(c, k)
    <3>1. in = k + 1
      BY <1>5, <2>1 DEF Behindhand
    <3>2. k + 1 <= Len(c) => v[o + 1] = c[k + 1]
      <4> SUFFICES ASSUME k + 1 <= Len(c)
                   PROVE  v[o + 1] = c[k + 1]
        OBVIOUS
      <4>1. k + 1 \in 1 .. Len(c)
        BY <1>2
      <4>2. c[k + 1] = source[(k + 1) + 1]
        BY <1>2, <4>1
      <4> QED BY <1>4, <3>1, <4>2
    <3>3. Behindhand(c, w, o, k + 1, k)
      BY <1>5, <3>1
    <3>4. Reading(c, v, o + 1, k + 3)
      BY <1>2, <1>4, <2>1, <3>2, <3>3, ReadsFirst
    <3>5. in' = k + 3
      BY <1>4, <3>1
    <3> QED BY <3>4, <3>5
  <2>2. CASE ~ AllQuotes(c, k)
    <3>1. in = k + 2
      BY <1>5, <2>2 DEF Behindhand
    <3>2. Behindhand(c, w, o, k + 2, k)
      BY <1>5, <3>1
    <3>3. k + 1 \in 1 .. Len(c)
      BY <1>1, <1>2, <1>3, <3>1
    <3>4. c[k + 1] = "q"
      <4>1. c[k + 1] = source[(k + 1) + 1] /\ (k + 1) + 1 = in
        BY <1>2, <3>1, <3>3
      <4> QED BY <1>1, <1>3, <4>1
    <3>5. k + 2 <= Len(c) => v[o + 1] = c[k + 2]
      <4> SUFFICES ASSUME k + 2 <= Len(c)
                   PROVE  v[o + 1] = c[k + 2]
        OBVIOUS
      <4>1. k + 2 \in 1 .. Len(c)
        BY <1>2
      <4>2. c[k + 2] = source[(k + 2) + 1] /\ (k + 2) + 1 = in + 1
        BY <1>2, <3>1, <4>1
      <4> QED BY <1>4, <4>2
    <3>6. Reading(c, v, o + 1, k + 4)
      BY <1>2, <1>4, <2>2, <3>2, <3>3, <3>4, <3>5, ReadsEscaped
    <3>7. in' = k + 4
      BY <1>4, <3>1
    <3> QED BY <3>6, <3>7
  <2> QED BY <2>1, <2>2
<1>8. Reading(Content, val', outidx', in')
  BY <1>4, <1>7 DEF c, v, o
<1> QED BY <1>1, <1>4, <1>8, StaysReading

(* The loop has run over the end.                                          *)
LEMMA NotEndedReads ==
  ASSUME IInv, ReadInv, NotEnded
  PROVE  ReadInv'
<1> DEFINE c == Content
<1>1. /\ outcome = "unquoting" /\ in = Len(val) + 1 /\ outcome' = "failed"
      /\ UNCHANGED <<kind, source>>
  BY DEF NotEnded
<1>2. /\ Len(c) \in Nat /\ Len(val) = Len(c) + 2 /\ source[1] = "q"
      /\ Reading(c, val, outidx, in)
  BY <1>1, InToken
<1>3. Lengths' = Lengths /\ Content' = c
  BY <1>1, ContentSame
<1> HIDE DEF c
<1>4. ~ \E k \in Nat : Behindhand(c, val, outidx, in, k)
  <2> SUFFICES ASSUME NEW k \in Nat, Behindhand(c, val, outidx, in, k)
               PROVE  FALSE
    OBVIOUS
  <2>1. k <= Len(c) /\ (in = k + 1 \/ in = k + 2)
    BY <1>2 DEF Behindhand
  <2> QED BY <1>1, <1>2, <2>1
<1>5. Unreadable(c)
  BY <1>2, <1>4 DEF Reading
<1>6. ReadAs'
  <2>1. (Unreadable(Content))' = Unreadable(c)
    BY <1>3
  <2>2. (Unreadable(Content) <=> (\A p \in 1 .. Len(Content) : Content[p] = "q")
                                 \/ Single(Content, Len(Content)))'
    BY DEF Unreadable
  <2> QED BY <1>1, <1>5, <2>1, <2>2 DEF ReadAs
<1> QED BY <1>1, <1>2, <1>6 DEF ReadInv

(* A text that was written begins with a quote.                            *)
LEMMA WriteReads ==
  ASSUME IInv, ReadInv, WriteAgain
  PROVE  ReadInv'
<1>1. PICK tail \in Behind : source' = Quoted(val) \o tail
  BY DEF WriteAgain
<1>2. tail \in Seq(Characters) /\ <<"q">> \in Seq(Characters)
      /\ val \in Seq(Characters)
  BY SourcesAssumption DEF Characters, IInv, TextOK
<1> DEFINE a == <<"q">> \o val
           b == a \o <<"q">>
<1>3. a \in Seq(Characters) /\ Len(a) >= 1 /\ a[1] = "q"
  BY <1>2
<1> HIDE DEF a
<1>4. b \in Seq(Characters) /\ Len(b) >= 1 /\ b[1] = "q"
  BY <1>2, <1>3
<1>5. source' = b \o tail
  BY <1>1 DEF Quoted, a
<1> HIDE DEF b
<1>6. source'[1] = "q"
  BY <1>2, <1>4, <1>5
<1>7. outcome' = "lexing"
  BY DEF WriteAgain
<1> QED BY <1>6, <1>7 DEF ReadInv, ReadAs

(* It holds at the beginning.                                              *)
LEMMA ReadInit ==
  ASSUME QuotesInit
  PROVE  IInv /\ ReadInv
<1>1. <<>> \in Seq(Characters)
  BY EmptySeq
<1> QED BY <1>1, SourcesAssumption
        DEF QuotesInit, IInv, TextOK, UnreadIntact, Characters, ReadInv, ReadAs

(* And after every step.                                                   *)
LEMMA ReadStep ==
  ASSUME IInv, ReadInv, [QuotesNext]_strings
  PROVE  ReadInv'
<1>1. CASE UNCHANGED strings
  <2>1. UNCHANGED <<kind, source, val, in, outidx, outcome>>
    BY <1>1 DEF strings
  <2>2. Lengths' = Lengths /\ Content' = Content
    BY <2>1, ContentSame
  <2>3. ReadAs' <=> ReadAs
    BY <2>1, <2>2 DEF ReadAs
  <2>4. (Reading(Content, val, outidx, in))' <=> Reading(Content, val, outidx, in)
    BY <2>1, <2>2
  <2> QED BY <2>1, <2>2, <2>3, <2>4 DEF ReadInv
<1>2. CASE EatQuote
  BY <1>2, LastQuote, QuoteReads
<1> QED BY <1>1, <1>2, LexReads, AppendReads, NotEndedReads, WriteReads
        DEF QuotesNext

(* Whatever the text: the loop takes out of a token what it should, and    *)
(* runs over its end exactly with the strings that the property names.     *)
THEOREM ReadAsCorrect == QuotesSpec => []ReadAs
<1>1. QuotesInit => IInv /\ ReadInv
  BY ReadInit
<1>2. IInv /\ [QuotesNext]_strings => IInv'
  BY IInvStep
<1>3. IInv /\ ReadInv /\ [QuotesNext]_strings => ReadInv'
  BY ReadStep
<1>4. ReadInv => ReadAs
  BY DEF ReadInv
<1> QED BY <1>1, <1>2, <1>3, <1>4, PTL DEF QuotesSpec

(* What is between the quotes of a token of n characters.                  *)
LEMMA Inside ==
  ASSUME NEW s \in Seq(Characters), NEW n \in 2 .. Len(s)
  PROVE  /\ SubSeq(s, 2, n - 1) \in Seq(Characters)
         /\ Len(SubSeq(s, 2, n - 1)) = n - 2
         /\ \A i \in 1 .. n - 2 : SubSeq(s, 2, n - 1)[i] = s[i + 1]
<1>1. Len(s) \in Nat /\ \A i \in 1 .. Len(s) : s[i] \in Characters
  OBVIOUS
<1>2. 2 \in Int /\ n - 1 \in Int /\ \A i \in 2 .. n - 1 : s[i] \in Characters
  BY <1>1
<1> DEFINE c == SubSeq(s, 2, n - 1)
<1>3. /\ c \in Seq(Characters)
      /\ Len(c) = IF 2 <= n - 1 THEN (n - 1) - 2 + 1 ELSE 0
      /\ \A i \in 1 .. (n - 1) - 2 + 1 : c[i] = s[2 + i - 1]
  BY ONLY <1>2, SubSeqProperties
<1> HIDE DEF c
<1>4. Len(c) = n - 2
  BY <1>1, <1>3
<1>5. ASSUME NEW i \in 1 .. n - 2
      PROVE  c[i] = s[i + 1]
  <2>1. i \in 1 .. (n - 1) - 2 + 1 /\ 2 + i - 1 = i + 1
    BY <1>1
  <2> QED BY <1>3, <2>1
<1> QED BY <1>3, <1>4, <1>5 DEF c

(* A string that was written, and what follows it.                         *)
QuotedBefore(s, w, tail) ==
  /\ s \in Seq(Characters) /\ Len(s) = Len(w) + 2 + Len(tail)
  /\ s[1] = "q" /\ s[Len(w) + 2] = "q"
  /\ \A i \in 1 .. Len(w) : s[i + 1] = w[i]
  /\ \A i \in 1 .. Len(tail) : s[Len(w) + 2 + i] = tail[i]

(* Its quotes and characters are where they should be.                     *)
LEMMA QuotedFacts ==
  ASSUME NEW w \in Seq(Characters), NEW tail \in Seq(Characters), NEW s,
         s = Quoted(w) \o tail
  PROVE  QuotedBefore(s, w, tail)
<1>1. <<"q">> \in Seq(Characters) /\ Len(w) \in Nat /\ Len(tail) \in Nat
  BY DEF Characters
<1> DEFINE a == <<"q">> \o w
           b == a \o <<"q">>
<1>2. /\ a \in Seq(Characters) /\ Len(a) = Len(w) + 1 /\ a[1] = "q"
      /\ \A i \in 1 .. Len(w) : a[i + 1] = w[i]
  BY <1>1
<1> HIDE DEF a
<1>3. /\ b \in Seq(Characters) /\ Len(b) = Len(w) + 2
      /\ b[Len(w) + 2] = "q"
      /\ \A i \in 1 .. Len(w) + 1 : b[i] = a[i]
  BY <1>1, <1>2
<1>4. s = b \o tail
  BY DEF Quoted, a
<1> HIDE DEF b
<1>5. /\ s \in Seq(Characters) /\ Len(s) = Len(w) + 2 + Len(tail)
      /\ \A i \in 1 .. Len(w) + 2 : s[i] = b[i]
      /\ \A i \in 1 .. Len(tail) : s[Len(w) + 2 + i] = tail[i]
  <2>1. /\ s \in Seq(Characters) /\ Len(s) = Len(b) + Len(tail)
        /\ \A i \in 1 .. Len(b) + Len(tail) :
             s[i] = IF i <= Len(b) THEN b[i] ELSE tail[i - Len(b)]
    BY ONLY <1>3, <1>4, tail \in Seq(Characters), ConcatProperties
  <2>2. \A i \in 1 .. Len(w) + 2 : s[i] = b[i]
    BY <1>1, <1>3, <2>1
  <2>3. ASSUME NEW i \in 1 .. Len(tail)
        PROVE  s[Len(w) + 2 + i] = tail[i]
    <3> DEFINE p == Len(w) + 2 + i
    <3>1. p \in 1 .. Len(b) + Len(tail) /\ ~ (p <= Len(b)) /\ p - Len(b) = i
      BY <1>1, <1>3
    <3> HIDE DEF p
    <3>2. s[p] = tail[i]
      BY <2>1, <3>1
    <3> QED BY <3>2 DEF p
  <2> QED BY <1>3, <2>1, <2>2, <2>3
<1>6. s[1] = "q" /\ s[Len(w) + 2] = "q"
  BY <1>1, <1>2, <1>3, <1>5
<1>7. ASSUME NEW i \in 1 .. Len(w)
      PROVE  s[i + 1] = w[i]
  <2>1. i + 1 \in 1 .. Len(w) + 1 /\ i + 1 \in 1 .. Len(w) + 2
    BY <1>1
  <2> QED BY <1>2, <1>3, <1>5, <2>1
<1> QED BY <1>5, <1>6, <1>7 DEF QuotedBefore

(* Up to the first quote nothing is left out.                              *)
LEMMA NothingLeftOut ==
  ASSUME NEW s \in Seq(Characters), NEW n \in 0 .. Len(s),
         \A i \in 1 .. n : s[i] # "q"
  PROVE  Begins(s, n, Upto(s)[n])
<1> DEFINE C == {m \in Nat : m <= n => Begins(s, m, Upto(s)[m])}
<1>1. 0 \in C
  <2>1. Len(Upto(s)[0]) = 0
    BY HalvedSteps
  <2> QED BY <2>1 DEF Begins
<1>2. ASSUME NEW m \in Nat, m \in C
      PROVE  m + 1 \in C
  <2> SUFFICES ASSUME m + 1 <= n
               PROVE  Begins(s, m + 1, Upto(s)[m + 1])
    OBVIOUS
  <2>1. /\ m + 1 \in 1 .. Len(s) /\ m + 1 \notin Odds(s)
        /\ Begins(s, m, Upto(s)[m]) /\ s[m + 1] = s[m + 1]
    BY <1>2 DEF Odds, OddAt
  <2> QED BY ONLY s \in Seq(Characters), m \in Nat, <2>1, WrittenOneMore
<1>3. n \in Nat
  OBVIOUS
<1>4. n \in C
  <2> HIDE DEF C
  <2> QED BY <1>1, <1>2, <1>3, Induction
<1> QED BY <1>3, <1>4

(* How the text without its odd quotes grows.                              *)
LEMMA HalvedGrows ==
  ASSUME NEW s \in Seq(Characters)
  PROVE  /\ Halved(s) = Upto(s)[Len(s)]
         /\ \A p \in 0 .. Len(s) : Len(Upto(s)[p]) \in Nat /\ Len(Upto(s)[p]) <= p
         /\ \A p, r \in 0 .. Len(s) : p <= r =>
              /\ Len(Upto(s)[p]) <= Len(Upto(s)[r])
              /\ Len(Upto(s)[r]) <= Len(Upto(s)[p]) + (r - p)
              /\ \A i \in 1 .. Len(Upto(s)[p]) : Upto(s)[r][i] = Upto(s)[p][i]
         /\ \A p \in 1 .. Len(s) : p \notin Odds(s) =>
              /\ Len(Upto(s)[p]) = Len(Upto(s)[p - 1]) + 1
              /\ Upto(s)[p][Len(Upto(s)[p])] = s[p]
         /\ \A p \in 1 .. Len(s) : p \in Odds(s) =>
              Len(Upto(s)[p]) = Len(Upto(s)[p - 1])
<1> DEFINE f == Upto(s)
           D == Odds(s)
<1>1. Filters(s, D, f) /\ Halved(s) = f[Len(s)]
  BY HalvedIs
<1> HIDE DEF f, D
<1>2. /\ \A p \in 0 .. Len(s) : f[p] \in Seq(Characters) /\ Len(f[p]) <= p
      /\ \A p, r \in 0 .. Len(s) : p <= r =>
              /\ Len(f[p]) <= Len(f[r])
              /\ Len(f[r]) <= Len(f[p]) + (r - p)
              /\ \A i \in 1 .. Len(f[p]) : f[r][i] = f[p][i]
      /\ \A p \in 1 .. Len(s) : p \notin D =>
              Len(f[p]) = Len(f[p - 1]) + 1 /\ f[p][Len(f[p])] = s[p]
      /\ \A p \in 1 .. Len(s) : p \in D => Len(f[p]) = Len(f[p - 1])
  BY <1>1, FilterFacts
<1>3. \A p \in 0 .. Len(s) : Len(f[p]) \in Nat
  BY <1>2
<1> QED BY <1>1, <1>2, <1>3 DEF f, D

(* Without a quote it is the text itself, and that can be read.            *)
LEMMA PlainSurvives ==
  ASSUME NEW w \in Seq(Characters), w # <<>>, \A i \in 1 .. Len(w) : w[i] # "q"
  PROVE  Halved(w) = w /\ ~ Unreadable(w)
<1>1. Len(w) \in Nat /\ Len(w) # 0
  OBVIOUS
<1> DEFINE u == Upto(w)[Len(w)]
<1>2. Begins(w, Len(w), u)
  <2>1. Len(w) \in 0 .. Len(w)
    BY <1>1
  <2> QED BY <2>1, NothingLeftOut
<1>3. u \in Seq(Characters) /\ Halved(w) = u
  <2>1. Len(w) \in 0 .. Len(w)
    BY <1>1
  <2> QED BY <2>1, HalvedSteps, HalvedIs
<1> HIDE DEF u
<1>4. Len(w) = Len(u) /\ \A p \in 1 .. Len(w) : w[p] = u[p]
  BY <1>2 DEF Begins
<1>5. w = u
  BY ONLY <1>3, <1>4, w \in Seq(Characters), SeqEqual
<1>6. ~ Unreadable(w)
  BY <1>1 DEF Unreadable, Single, OddAt
<1> QED BY <1>3, <1>5, <1>6

(***************************************************************************)
(* The text is a string w that was written and what follows it, that does  *)
(* not begin with a quote.                                                 *)
(***************************************************************************)
Written(w) ==
  /\ w \in Seq(Characters) /\ w # <<>>
  /\ source \in Seq(Characters) /\ kind = "double"
  /\ Len(w) + 2 <= Len(source)
  /\ \A i \in 1 .. Len(w) : source[i + 1] = w[i]
  /\ source[Len(w) + 2] = "q"
  /\ Len(w) + 3 <= Len(source) => source[Len(w) + 3] # "q"

Plain(w) == \A i \in 1 .. Len(w) : w[i] # "q"
Follows(w) == \E i \in Len(w) + 3 .. Len(source) : source[i] = "q"

(* A text between quotes is a token whose first single quote may be at the *)
(* end of w, that has a backslash there, or nowhere.                       *)
LEMMA TokenOf ==
  ASSUME NEW w, Written(w), NEW n, n \in Lengths
  PROVE  /\ n \in 2 .. Len(source) /\ source[n] = "q"
         /\ SubSeq(source, 2, n - 1) \in Seq(Characters)
         /\ Len(SubSeq(source, 2, n - 1)) = n - 2
         /\ \A i \in 1 .. n - 2 : SubSeq(source, 2, n - 1)[i] = source[i + 1]
         /\ Body(SubSeq(source, 2, n - 1))
<1>1. n \in 2 .. Len(source) /\ source[n] = "q" /\ Body(SubSeq(source, 2, n - 1))
  BY DEF Lengths
<1>2. source \in Seq(Characters)
  BY DEF Written
<1> QED BY <1>1, <1>2, Inside

(* The written string itself is a token, if it has no quote.               *)
LEMMA WrittenIsToken ==
  ASSUME NEW w, Written(w), Plain(w)
  PROVE  Len(w) + 2 \in Lengths
<1> DEFINE n == Len(w) + 2
           c == SubSeq(source, 2, n - 1)
<1>1. /\ w \in Seq(Characters) /\ source \in Seq(Characters)
      /\ n <= Len(source) /\ source[n] = "q"
      /\ \A i \in 1 .. Len(w) : source[i + 1] = w[i]
  BY DEF Written
<1>2. Len(w) \in Nat /\ Len(source) \in Nat /\ n \in 2 .. Len(source) /\ n - 2 = Len(w)
  BY <1>1
<1> HIDE DEF n
<1>3. Len(c) = Len(w) /\ \A i \in 1 .. Len(w) : c[i] = source[i + 1]
  BY <1>1, <1>2, Inside
<1> HIDE DEF c
<1>4. \A p \in 1 .. Len(c) : c[p] # "q"
  BY <1>1, <1>3 DEF Plain
<1>5. Body(c)
  BY <1>4 DEF Body, Single, OddAt
<1> QED BY <1>1, <1>2, <1>5 DEF Lengths, n, c

(* Nothing longer is one, unless w ends with a backslash and a quote       *)
(* follows.                                                                *)
LEMMA NothingLonger ==
  ASSUME NEW w, Written(w), Plain(w), ~ (w[Len(w)] = "bs" /\ Follows(w)),
         NEW n \in Lengths
  PROVE  n <= Len(w) + 2
<1> DEFINE L == Len(w)
           c == SubSeq(source, 2, n - 1)
<1>1. /\ L \in Nat /\ L # 0 /\ Len(source) \in Nat
      /\ \A i \in 1 .. L : source[i + 1] = w[i]
      /\ source[L + 2] = "q"
      /\ L + 3 <= Len(source) => source[L + 3] # "q"
  BY DEF Written
<1>2. /\ n \in 2 .. Len(source) /\ source[n] = "q"
      /\ Len(c) = n - 2
      /\ \A i \in 1 .. n - 2 : c[i] = source[i + 1]
      /\ Body(c)
  BY TokenOf
<1>3. L \in 1 .. L => w[L] # "q"
  BY DEF Plain
<1>4. ~ (w[L] = "bs" /\ \E i \in L + 3 .. Len(source) : source[i] = "q")
  BY DEF Follows
<1> HIDE DEF L, c
<1> SUFFICES ASSUME n > L + 2
             PROVE  FALSE
  BY <1>1, <1>2 DEF L
<1>5. n # L + 3 /\ L + 3 <= Len(source) /\ n \in L + 3 .. Len(source)
      /\ L + 1 \in 1 .. n - 2 /\ L + 2 \in 1 .. n - 2 /\ L \in 1 .. n - 2
      /\ L \in 1 .. L /\ L + 1 \in Nat \ {0} /\ (L + 1) - 1 = L
  BY <1>1, <1>2
<1>6. w[L] # "bs"
  BY <1>2, <1>4, <1>5
<1>7. c[L] = source[L + 1] /\ c[L + 1] = source[(L + 1) + 1]
      /\ c[(L + 1) + 1] = source[(L + 2) + 1]
  <2>1. (L + 1) + 1 = L + 2
    BY <1>1
  <2> QED BY <1>2, <1>5, <2>1
<1>8. c[L] = w[L] /\ c[L + 1] = "q" /\ c[(L + 1) + 1] # "q"
  <2>1. (L + 1) + 1 = L + 2 /\ (L + 2) + 1 = L + 3
    BY <1>1
  <2> QED BY <1>1, <1>5, <1>7, <2>1
<1>9. RunStart(c, L + 1) = L + 1 /\ OddAt(c, L + 1)
  BY <1>3, <1>5, <1>8, OddFirst
<1>10. Single(c, L + 1) /\ L + 1 \in 1 .. Len(c)
  BY <1>2, <1>5, <1>8, <1>9 DEF Single
<1>11. c[(L + 1) - 1] = "bs"
  BY <1>2, <1>9, <1>10 DEF Body
<1> QED BY <1>5, <1>6, <1>8, <1>11

(* And with these, the first quote that follows ends a longer one.         *)
LEMMA SomethingLonger ==
  ASSUME NEW w, Written(w), Plain(w), w[Len(w)] = "bs", Follows(w)
  PROVE  \E n \in Lengths : n > Len(w) + 2
<1> DEFINE L == Len(w)
           F == {i \in L + 3 .. Len(source) : source[i] = "q"}
<1>1. /\ L \in Nat /\ L # 0 /\ Len(source) \in Nat
      /\ source \in Seq(Characters) /\ kind = "double"
      /\ \A i \in 1 .. L : source[i + 1] = w[i]
      /\ source[L + 2] = "q"
      /\ \A i \in 1 .. L : w[i] # "q"
  BY DEF Written, Plain
<1>2. PICK n \in F : \A i \in F : n <= i
  <2>1. F # {} /\ F \subseteq Nat
    BY <1>1 DEF Follows
  <2> HIDE DEF F
  <2> QED BY <2>1, HasLeast
<1> DEFINE c == SubSeq(source, 2, n - 1)
<1>3. n \in 2 .. Len(source) /\ n >= L + 3 /\ source[n] = "q"
  BY <1>1, <1>2
<1>4. /\ Len(c) = n - 2
      /\ \A i \in 1 .. n - 2 : c[i] = source[i + 1]
  BY <1>1, <1>3, Inside
<1>5. w[L] = "bs"
  OBVIOUS
<1>6. \A i \in L + 3 .. n - 1 : source[i] # "q"
  BY <1>1, <1>2, <1>3
<1> HIDE DEF L, c, F
<1>7. ASSUME NEW p \in 1 .. Len(c), c[p] = "q"
      PROVE  p = L + 1
  <2>1. source[p + 1] = "q" /\ p + 1 <= n - 1
    BY <1>1, <1>3, <1>4, <1>7
  <2>2. ~ (p <= L)
    <3> SUFFICES ASSUME p <= L
                 PROVE  FALSE
      OBVIOUS
    <3>1. p \in 1 .. L
      BY <1>1
    <3> QED BY <1>1, <2>1, <3>1
  <2>3. ~ (p >= L + 2)
    <3> SUFFICES ASSUME p >= L + 2
                 PROVE  FALSE
      OBVIOUS
    <3>1. p + 1 \in L + 3 .. n - 1
      BY <1>1, <1>3, <2>1
    <3> QED BY <1>6, <2>1, <3>1
  <2> QED BY <1>1, <2>2, <2>3
<1>8. c[L] = "bs" /\ L # 0
  <2>1. L \in 1 .. n - 2 /\ L \in 1 .. L
    BY <1>1, <1>3
  <2> QED BY <1>1, <1>4, <1>5, <2>1
<1>9. Body(c)
  <2> SUFFICES ASSUME NEW p \in 1 .. Len(c), Single(c, p)
               PROVE  RunStart(c, p) > 1 /\ c[RunStart(c, p) - 1] = "bs"
    BY <1>1 DEF Body
  <2>1. c[p] = "q" /\ p = L + 1
    BY <1>7 DEF Single, OddAt
  <2>2. p \in Nat \ {0} /\ p - 1 = L
    BY <1>1, <2>1
  <2>3. RunStart(c, p) = p
    BY <1>8, <2>1, <2>2, OddFirst
  <2> QED BY <1>1, <1>8, <2>1, <2>2, <2>3
<1>10. n \in Lengths
  BY <1>3, <1>9 DEF Lengths, c
<1> QED BY <1>3, <1>1, <1>10 DEF L

(* Less is left of a text than its length if it begins with w, that has a  *)
(* quote, and w ends where it does, or with quotes alone before another    *)
(* character: that one is then where w has a quote.                        *)
LEMMA QuoteLost ==
  ASSUME NEW w \in Seq(Characters), NEW c \in Seq(Characters), ~ Plain(w),
         \A i \in 1 .. Len(c) : i <= Len(w) => c[i] = w[i],
         \/ Len(c) <= Len(w)
         \/ Len(c) >= Len(w) + 2 /\ c[Len(w) + 1] = "q" /\ c[Len(w) + 2] # "q"
  PROVE  Halved(c) # w
<1> DEFINE L == Len(w)
           N == Len(c)
           h(p) == Len(Upto(c)[p])
           Q == {i \in 1 .. L : w[i] = "q"}
<1>1. L \in Nat /\ N \in Nat
  OBVIOUS
<1>2. PICK j \in Q : \A i \in Q : j <= i
  <2>1. Q # {} /\ Q \subseteq Nat
    BY <1>1 DEF Plain
  <2> HIDE DEF Q
  <2> QED BY <2>1, HasLeast
<1>3. /\ j \in 1 .. L /\ w[j] = "q"
      /\ \A i \in 1 .. j - 1 : w[i] # "q"
  <2>1. \A i \in 1 .. j - 1 : i \in 1 .. L /\ ~ (j <= i)
    BY <1>1, <1>2
  <2> QED BY <1>2, <2>1
<1> HIDE DEF Q
<1>4. /\ Halved(c) = Upto(c)[N]
      /\ \A p \in 0 .. N : h(p) \in Nat /\ h(p) <= p
      /\ \A p, r \in 0 .. N : p <= r =>
           /\ h(p) <= h(r)
           /\ h(r) <= h(p) + (r - p)
           /\ \A i \in 1 .. h(p) : Upto(c)[r][i] = Upto(c)[p][i]
      /\ \A p \in 1 .. N : p \notin Odds(c) =>
           h(p) = h(p - 1) + 1 /\ Upto(c)[p][h(p)] = c[p]
      /\ \A p \in 1 .. N : p \in Odds(c) => h(p) = h(p - 1)
  BY HalvedGrows
<1>5. ASSUME j <= N
      PROVE  h(j - 1) = j - 1 /\ h(j) = j - 1
  <2>1. j \in 1 .. N /\ j - 1 \in 0 .. N /\ j \in Nat \ {0}
    BY <1>1, <1>3, <1>5
  <2>2. \A i \in 1 .. j - 1 : c[i] # "q"
    <3>1. \A i \in 1 .. j - 1 : i \in 1 .. N /\ i <= L
      BY <1>1, <1>3, <1>5
    <3> QED BY <1>3, <3>1
  <2>3. c[j] = "q"
    BY <1>1, <1>3, <2>1
  <2>4. Begins(c, j - 1, Upto(c)[j - 1])
    BY <2>1, <2>2, NothingLeftOut
  <2>5. h(j - 1) = j - 1
    BY <2>4 DEF Begins
  <2>6. j = 1 \/ c[j - 1] # "q"
    <3>1. j # 1 => j - 1 \in 1 .. j - 1
      BY <2>1
    <3> QED BY <2>2, <3>1
  <2>7. j \in Odds(c)
    BY <2>1, <2>3, <2>6, OddFirst DEF Odds
  <2> QED BY <1>4, <2>1, <2>5, <2>7
<1> HIDE DEF h, L, N
<1> SUFFICES ASSUME Halved(c) = w
             PROVE  FALSE
  OBVIOUS
<1>6. h(N) = L /\ N \in 0 .. N
  BY <1>1, <1>4 DEF h, L
<1>7. CASE N <= L
  <2>1. j <= N
    BY <1>1, <1>3, <1>4, <1>6, <1>7
  <2>2. j \in 0 .. N
    BY <1>1, <1>3, <2>1
  <2>3. h(N) <= h(j) + (N - j)
    BY <1>1, <1>4, <1>6, <2>1, <2>2
  <2> QED BY <1>1, <1>3, <1>5, <1>6, <1>7, <2>1, <2>3
<1>8. CASE ~ (N <= L)
  <2>1. N >= L + 2 /\ c[L + 1] = "q" /\ c[L + 2] # "q"
        /\ \A i \in 1 .. N : i <= L => c[i] = w[i]
    BY <1>8 DEF L, N
  <2> DEFINE K == {i \in 1 .. L + 2 : i > j /\ c[i] # "q"}
  <2>2. PICK k \in K : \A i \in K : k <= i
    <3>1. L + 2 \in K /\ K \subseteq Nat
      BY <1>1, <1>3, <2>1
    <3> HIDE DEF K
    <3> QED BY <3>1, HasLeast
  <2>3. /\ k \in 1 .. N /\ k > j /\ c[k] # "q" /\ k <= L + 2 /\ k \in Nat
    BY <1>1, <2>1, <2>2
  <2>4. ASSUME NEW i \in Nat, j <= i, i < k
        PROVE  c[i] = "q"
    <3>1. CASE i = j
      BY <1>1, <1>3, <2>1, <3>1
    <3>2. CASE i # j
      <4>1. i \in 1 .. L + 2 /\ i > j /\ ~ (k <= i)
        BY <1>1, <1>3, <2>3, <2>4, <3>2
      <4> QED BY <2>2, <4>1
    <3> QED BY <3>1, <3>2
  <2> HIDE DEF K
  <2>5. k \notin Odds(c) /\ k - 1 \in 0 .. N /\ j - 1 \in 0 .. N /\ j \in 0 .. N
        /\ k \in 0 .. N /\ j - 1 <= k - 1 /\ j <= k /\ j <= N /\ j \in Nat
    BY <1>1, <1>3, <2>3 DEF Odds, OddAt
  <2>6. h(j - 1) = j - 1 /\ h(j) = j - 1
    BY <1>5, <2>5
  <2> DEFINE m == h(k)
  <2>7. /\ m = h(k - 1) + 1 /\ Upto(c)[k][m] = c[k]
        /\ h(j - 1) <= h(k - 1) /\ m <= h(j) + (k - j)
        /\ m <= h(N) /\ m \in Nat /\ h(k - 1) \in Nat
        /\ \A i \in 1 .. m : Upto(c)[N][i] = Upto(c)[k][i]
    <3>1. m = h(k - 1) + 1 /\ Upto(c)[k][m] = c[k]
      BY <1>4, <2>3, <2>5
    <3>2. h(j - 1) <= h(k - 1) /\ m <= h(j) + (k - j)
      BY <1>4, <2>5
    <3>3. k <= N
      BY <1>1, <2>3
    <3>4. m <= h(N) /\ \A i \in 1 .. m : Upto(c)[N][i] = Upto(c)[k][i]
      BY <1>4, <1>6, <2>5, <3>3
    <3>5. m \in Nat /\ h(k - 1) \in Nat
      BY <1>4, <2>5
    <3> QED BY <3>1, <3>2, <3>4, <3>5
  <2> HIDE DEF m
  <2>8. j <= m /\ m < k /\ m <= L /\ m \in 1 .. L
    BY <1>3, <1>6, <2>3, <2>5, <2>6, <2>7
  <2>9. c[m] = "q"
    BY <2>4, <2>7, <2>8
  <2>10. c[m] = w[m]
    BY <1>1, <2>1, <2>8
  <2>11. w[m] = c[k]
    <3>1. w[m] = Upto(c)[N][m]
      BY <1>4
    <3>2. m \in 1 .. m
      BY <2>7, <2>8
    <3> QED BY <2>7, <3>1, <3>2
  <2> QED BY <2>3, <2>9, <2>10, <2>11
<1> QED BY <1>7, <1>8

(* What is read of a string that was written is the string exactly when    *)
(* its quotes were the only ones.                                          *)
LEMMA ReadsAsWritten ==
  ASSUME NEW w, Written(w), Lengths # {}, Halved(Content) = w
  PROVE  Plain(w) /\ ~ (w[Len(w)] = "bs" /\ Follows(w))
<1> DEFINE L == Len(w)
           c == Content
           M == Max(Lengths)
<1>1. /\ w \in Seq(Characters) /\ w # <<>> /\ source \in Seq(Characters)
      /\ L + 2 <= Len(source)
      /\ \A i \in 1 .. L : source[i + 1] = w[i]
      /\ source[L + 2] = "q"
      /\ L + 3 <= Len(source) => source[L + 3] # "q"
  BY DEF Written
<1>2. /\ M \in 2 .. Len(source) /\ source[M] = "q"
      /\ c \in Seq(Characters) /\ Len(c) = M - 2
      /\ \A i \in 1 .. Len(c) : c[i] = source[i + 1]
      /\ \A n \in Lengths : n <= M
      /\ M \in Lengths
  BY <1>1, TokenFacts
<1>3. L \in Nat /\ Len(source) \in Nat /\ L # 0 /\ Len(c) \in Nat
  BY <1>1, <1>2
<1> HIDE DEF L, M, c
<1>4. \A i \in 1 .. Len(c) : i <= L => c[i] = w[i]
  <2> SUFFICES ASSUME NEW i \in 1 .. Len(c), i <= L
               PROVE  c[i] = w[i]
    OBVIOUS
  <2>1. i \in 1 .. L
    BY <1>3
  <2> QED BY <1>1, <1>2, <2>1
<1>5. Len(c) > L => Len(c) >= L + 2 /\ c[L + 1] = "q" /\ c[L + 2] # "q"
  <2> SUFFICES ASSUME Len(c) > L
               PROVE  Len(c) >= L + 2 /\ c[L + 1] = "q" /\ c[L + 2] # "q"
    OBVIOUS
  <2>1. M >= L + 3 /\ L + 3 <= Len(source)
    BY <1>2, <1>3
  <2>2. M # L + 3
    BY <1>1, <1>2, <2>1
  <2>3. Len(c) >= L + 2 /\ L + 1 \in 1 .. Len(c) /\ L + 2 \in 1 .. Len(c)
        /\ (L + 1) + 1 = L + 2 /\ (L + 2) + 1 = L + 3
    BY <1>2, <1>3, <2>1, <2>2
  <2> QED BY <1>1, <1>2, <2>1, <2>3
<1>6. Plain(w)
  <2> SUFFICES ASSUME ~ Plain(w)
               PROVE  FALSE
    OBVIOUS
  <2>1. Len(c) <= L \/ (Len(c) >= L + 2 /\ c[L + 1] = "q" /\ c[L + 2] # "q")
    <3>1. Len(c) <= L \/ Len(c) > L
      BY <1>3
    <3> QED BY <1>5, <3>1
  <2>2. Halved(c) = w
    BY DEF c
  <2> QED BY <1>1, <1>2, <1>4, <2>1, <2>2, QuoteLost DEF L
<1>7. ~ (w[L] = "bs" /\ Follows(w))
  <2> SUFFICES ASSUME w[L] = "bs", Follows(w)
               PROVE  FALSE
    OBVIOUS
  <2>1. PICK n \in Lengths : n > L + 2
    BY <1>6, SomethingLonger DEF L
  <2>2. M > L + 2
    <3>1. n <= M /\ n \in 2 .. Len(source)
      BY <1>2 DEF Lengths
    <3> QED BY <1>2, <1>3, <2>1, <3>1
  <2>3. Len(c) > L
    BY <1>2, <1>3, <2>2
  <2>4. Len(c) >= L + 2 /\ c[L + 1] = "q" /\ c[L + 2] # "q"
    BY <1>5, <2>3
  <2> DEFINE h(p) == Len(Upto(c)[p])
  <2>5. /\ Halved(c) = Upto(c)[Len(c)]
        /\ \A p, r \in 0 .. Len(c) : p <= r => h(p) <= h(r)
        /\ \A p \in 0 .. Len(c) : h(p) \in Nat
        /\ \A p \in 1 .. Len(c) : p \notin Odds(c) => h(p) = h(p - 1) + 1
    BY <1>2, HalvedGrows
  <2>6. h(L) = L
    <3>1. L \in 0 .. Len(c) /\ \A i \in 1 .. L : i \in 1 .. Len(c) /\ i <= L
      BY <1>3, <2>3
    <3>2. \A i \in 1 .. L : c[i] # "q"
      BY <1>4, <1>6, <3>1 DEF Plain, L
    <3>3. Begins(c, L, Upto(c)[L])
      BY <1>2, <3>1, <3>2, NothingLeftOut
    <3> QED BY <3>3 DEF Begins
  <2>7. h(Len(c)) = L
    <3>1. Halved(c) = w
      BY DEF c
    <3> QED BY <2>5, <3>1 DEF L
  <2> HIDE DEF h
  <2>8. L + 2 \in 1 .. Len(c) /\ (L + 2) - 1 = L + 1 /\ L + 1 \in 0 .. Len(c)
        /\ L \in 0 .. Len(c) /\ L + 2 \in 0 .. Len(c) /\ Len(c) \in 0 .. Len(c)
        /\ L <= L + 1 /\ L + 2 <= Len(c)
    BY <1>3, <2>4
  <2>9. h(L + 2) = h(L + 1) + 1
    <3>1. L + 2 \notin Odds(c)
      BY <2>4 DEF Odds, OddAt
    <3> QED BY <2>5, <2>8, <3>1
  <2>10. h(L) <= h(L + 1) /\ h(L + 2) <= h(Len(c)) /\ h(L + 1) \in Nat
    BY <2>5, <2>8
  <2> QED BY <1>3, <2>6, <2>7, <2>9, <2>10
<1> QED BY <1>6, <1>7 DEF L

(* And then it is read.                                                    *)
LEMMA PlainIsRead ==
  ASSUME NEW w, Written(w), Plain(w), ~ (w[Len(w)] = "bs" /\ Follows(w))
  PROVE  Lengths # {} /\ Halved(Content) = w /\ ~ Unreadable(Content)
<1> DEFINE L == Len(w)
           c == Content
           M == Max(Lengths)
<1>1. /\ w \in Seq(Characters) /\ w # <<>> /\ source \in Seq(Characters)
      /\ \A i \in 1 .. L : source[i + 1] = w[i]
  BY DEF Written
<1>2. L + 2 \in Lengths
  BY WrittenIsToken
<1>3. /\ M \in 2 .. Len(source) /\ M \in Lengths
      /\ c \in Seq(Characters) /\ Len(c) = M - 2
      /\ \A i \in 1 .. Len(c) : c[i] = source[i + 1]
      /\ \A n \in Lengths : n <= M
  BY <1>1, <1>2, TokenFacts
<1>4. M <= L + 2
  BY <1>3, NothingLonger
<1>5. L \in Nat /\ Len(source) \in Nat
  BY <1>1
<1> HIDE DEF L, M, c
<1>6. Len(c) = L
  <2>1. L + 2 <= M
    BY <1>2, <1>3
  <2>2. M = L + 2
    BY <1>3, <1>4, <1>5, <2>1
  <2> QED BY <1>3, <1>5, <2>2
<1>7. c = w
  <2>1. Len(c) = Len(w) /\ \A i \in 1 .. Len(c) : c[i] = w[i]
    BY <1>1, <1>3, <1>6 DEF L
  <2> QED BY ONLY <1>1, <1>3, <2>1, SeqEqual
<1>8. Halved(w) = w /\ ~ Unreadable(w)
  BY <1>1, PlainSurvives DEF Plain
<1> QED BY <1>2, <1>7, <1>8 DEF c

(***************************************************************************)
(* What was written is in front of the lexer, between quotes, and it says  *)
(* that there is no token only if there is none.                           *)
(***************************************************************************)
WrittenInv ==
  /\ written # <<>> => Written(written)
  /\ outcome = "unmatched" => Lengths = {}
  /\ outcome \in {"value", "failed"} => Lengths # {}

(* What the backend writes is such a text.                                 *)
LEMMA WriteWritten ==
  ASSUME IInv, WriteAgain
  PROVE  WrittenInv'
<1>1. PICK tail \in Behind : source' = Quoted(val) \o tail
  BY DEF WriteAgain
<1>2. tail \in Seq(Characters) /\ val \in Seq(Characters)
      /\ (tail # <<>> => tail[1] # "q")
  BY SourcesAssumption DEF Characters, IInv, TextOK
<1> DEFINE s == source'
<1>3. /\ s \in Seq(Characters) /\ Len(s) = Len(val) + 2 + Len(tail)
      /\ s[Len(val) + 2] = "q"
      /\ \A i \in 1 .. Len(val) : s[i + 1] = val[i]
      /\ \A i \in 1 .. Len(tail) : s[Len(val) + 2 + i] = tail[i]
  <2> HIDE DEF s
  <2>1. s = Quoted(val) \o tail
    BY <1>1 DEF s
  <2>2. tail \in Seq(Characters) /\ val \in Seq(Characters)
    BY <1>2
  <2>3. QuotedBefore(s, val, tail)
    BY ONLY <2>1, <2>2, QuotedFacts
  <2> QED BY <2>3 DEF QuotedBefore
<1>4. written' = val /\ kind' = "double" /\ outcome' = "lexing"
  BY DEF WriteAgain
<1> HIDE DEF s
<1>5. Len(val) + 2 <= Len(s) /\ (Len(val) + 3 <= Len(s) => s[Len(val) + 3] # "q")
  <2>1. Len(val) \in Nat /\ Len(tail) \in Nat
    BY <1>2
  <2>2. Len(val) + 2 <= Len(s)
    BY <1>3, <2>1
  <2>3. ASSUME Len(val) + 3 <= Len(s)
        PROVE  s[Len(val) + 3] # "q"
    <3>1. 1 \in 1 .. Len(tail) /\ Len(val) + 2 + 1 = Len(val) + 3
      BY <1>3, <2>1, <2>3
    <3>2. s[Len(val) + 3] = tail[1]
      BY <1>3, <3>1
    <3>3. tail # <<>>
      BY <1>2, <3>1
    <3> QED BY <1>2, <3>2, <3>3
  <2> QED BY <2>2, <2>3
<1>6. written' # <<>> => (Written(written))'
  <2> SUFFICES ASSUME written' # <<>>
               PROVE  (Written(written))'
    OBVIOUS
  <2> QED BY <1>2, <1>3, <1>4, <1>5 DEF Written, s
<1> QED BY <1>4, <1>6 DEF WrittenInv

(* It stays what it is while it is read.                                   *)
LEMMA WrittenStep ==
  ASSUME IInv, ReadInv, WrittenInv, [QuotesNext]_strings
  PROVE  WrittenInv'
<1>1. CASE WriteAgain
  BY <1>1, WriteWritten
<1>2. CASE ~ WriteAgain
  <2>1. UNCHANGED <<kind, source, written>>
    BY <1>2 DEF QuotesNext, Lex, AppendCharacter, EatQuote, NotEnded, strings
  <2>2. Lengths' = Lengths
    BY <2>1, ContentSame
  <2>3. (Written(written))' <=> Written(written)
    BY <2>1 DEF Written
  <2>4. outcome' = "unmatched" => Lengths = {}
    BY <1>2 DEF QuotesNext, Lex, AppendCharacter, EatQuote, NotEnded, strings,
                AppendFrom, WrittenInv
  <2>5. outcome' \in {"value", "failed"} =>
          outcome = "unquoting" \/ outcome = outcome'
    BY <1>2 DEF QuotesNext, Lex, AppendCharacter, EatQuote, NotEnded, strings,
                AppendFrom
  <2>6. outcome = "unquoting" => Lengths # {}
    BY DEF ReadInv
  <2> QED BY <2>1, <2>2, <2>3, <2>4, <2>5, <2>6 DEF WrittenInv
<1> QED BY <1>1, <1>2

(* From what is known of a text that was written.                          *)
LEMMA SurvivesIs ==
  ASSUME ReadInv, WrittenInv
  PROVE  StringSurvives
<1> DEFINE w == written
           tail == SubSeq(source, Len(w) + 3, Len(source))
<1> SUFFICES ASSUME w # <<>>, outcome \in {"value", "failed", "unmatched"}
             PROVE  (outcome = "value" /\ val = w)
                      <=> /\ "q" \notin ToSet(w)
                          /\ ~ (Last(w) = "bs" /\ "q" \in ToSet(tail))
  BY DEF StringSurvives
<1>1. Written(w)
  BY DEF WrittenInv
<1>2. w \in Seq(Characters) /\ source \in Seq(Characters) /\ Len(w) \in Nat
      /\ Len(source) \in Nat /\ Len(w) + 2 <= Len(source)
  BY <1>1 DEF Written
<1> HIDE DEF w
<1>3. "q" \notin ToSet(w) <=> Plain(w)
  <2>1. ToSet(w) = {w[i] : i \in 1 .. Len(w)}
    BY <1>2 DEF ToSet
  <2> QED BY <2>1 DEF Plain
<1>4. Last(w) = w[Len(w)]
  BY DEF Last
<1>5. "q" \in ToSet(tail) <=> Follows(w)
  <2> DEFINE a == Len(w) + 3
             b == Len(source)
  <2>1. a \in Nat /\ b \in Nat /\ a <= b + 1 /\ a >= 3
    BY <1>2
  <2>2. \A i \in a .. b : source[i] \in Characters
    BY <1>2
  <2>3. Follows(w) <=> \E i \in a .. b : source[i] = "q"
    BY DEF Follows
  <2>4. tail = SubSeq(source, a, b)
    OBVIOUS
  <2> HIDE DEF a, b, tail
  <2>5. /\ tail \in Seq(Characters)
        /\ Len(tail) = IF a <= b THEN b - a + 1 ELSE 0
        /\ \A i \in 1 .. b - a + 1 : tail[i] = source[a + i - 1]
    BY ONLY <2>1, <2>2, <2>4, SubSeqProperties
  <2>6. Len(tail) = b - a + 1
    BY <2>1, <2>5
  <2>7. ToSet(tail) = {tail[i] : i \in 1 .. Len(tail)}
    BY <2>5 DEF ToSet
  <2>8. ASSUME NEW i \in 1 .. Len(tail), tail[i] = "q"
        PROVE  \E p \in a .. b : source[p] = "q"
    <3>1. a + i - 1 \in a .. b /\ tail[i] = source[a + i - 1]
      BY <2>1, <2>5, <2>6
    <3> QED BY <2>8, <3>1
  <2>9. ASSUME NEW p \in a .. b, source[p] = "q"
        PROVE  \E i \in 1 .. Len(tail) : tail[i] = "q"
    <3> DEFINE i == p - a + 1
    <3>1. i \in 1 .. b - a + 1 /\ i \in 1 .. Len(tail) /\ a + i - 1 = p
      BY <2>1, <2>6
    <3> HIDE DEF i
    <3>2. tail[i] = source[p]
      BY <2>5, <3>1
    <3> QED BY <2>9, <3>1, <3>2
  <2> QED BY <2>3, <2>7, <2>8, <2>9
<1> HIDE DEF tail
<1>6. ASSUME outcome = "value", val = w
      PROVE  Plain(w) /\ ~ (w[Len(w)] = "bs" /\ Follows(w))
  <2>1. Lengths # {} /\ Halved(Content) = w
    BY <1>6 DEF WrittenInv, ReadInv, ReadAs
  <2> QED BY <1>1, <2>1, ReadsAsWritten
<1>7. ASSUME Plain(w), ~ (w[Len(w)] = "bs" /\ Follows(w))
      PROVE  outcome = "value" /\ val = w
  <2>1. Lengths # {} /\ Halved(Content) = w /\ ~ Unreadable(Content)
    BY <1>1, <1>7, PlainIsRead
  <2>2. outcome # "unmatched"
    BY <2>1 DEF WrittenInv
  <2>3. outcome # "failed"
    BY <2>1 DEF ReadInv, ReadAs, Unreadable
  <2>4. outcome = "value"
    BY <2>2, <2>3
  <2> QED BY <2>1, <2>4 DEF ReadInv, ReadAs
<1> QED BY <1>3, <1>4, <1>5, <1>6, <1>7

(* A string of any length that is written behind another, or alone, comes  *)
(* back as itself exactly when it has no quote, and not a backslash at its *)
(* end before a text with another quote.                                   *)
THEOREM StringSurvivesCorrect == QuotesSpec => []StringSurvives
<1>1. QuotesInit => IInv /\ ReadInv /\ WrittenInv
  <2>1. QuotesInit => WrittenInv
    BY DEF QuotesInit, WrittenInv
  <2> QED BY <2>1, ReadInit
<1>2. IInv /\ [QuotesNext]_strings => IInv'
  BY IInvStep
<1>3. IInv /\ ReadInv /\ [QuotesNext]_strings => ReadInv'
  BY ReadStep
<1>4. IInv /\ ReadInv /\ WrittenInv /\ [QuotesNext]_strings => WrittenInv'
  BY WrittenStep
<1>5. ReadInv /\ WrittenInv => StringSurvives
  BY SurvivesIs
<1> QED BY <1>1, <1>2, <1>3, <1>4, <1>5, PTL DEF QuotesSpec
=============================================================================
