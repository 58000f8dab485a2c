-------------------------- MODULE IndentLexerProofs --------------------------
(***************************************************************************)
(* Proofs about IndentLexer, for every set of inputs: the types, the order *)
(* of the open levels, the balance of INDENT and DEDENT tokens, that an    *)
(* input that ends with a line break leaves no block open, and that the    *)
(* lexer implements the off-side rule of Layout.                           *)
(***************************************************************************)
EXTENDS IndentLexer, DataLemmas

-----------------------------------------------------------------------------
(* Popping a sequence leaves its other elements where they are.            *)
LEMMA PoppedFacts ==
  ASSUME NEW S, NEW s \in Seq(S), s # <<>>
  PROVE  LET p == SubSeq(s, 1, Len(s) - 1)
         IN  /\ p \in Seq(S)
             /\ Len(p) = Len(s) - 1
             /\ \A i \in 1 .. Len(p) : p[i] = s[i]
<1>1. Len(s) \in Nat \ {0} /\ \A i \in 1 .. Len(s) : s[i] \in S
  BY EmptySeq, LenProperties
<1>2. 1 \in Int /\ Len(s) - 1 \in Int
      /\ \A i \in 1 .. Len(s) - 1 : s[i] \in S
  BY <1>1
<1> DEFINE p == SubSeq(s, 1, Len(s) - 1)
           n == Len(s)
<1>3. /\ p \in Seq(S)
      /\ Len(p) = IF 1 <= n - 1 THEN n - 1 - 1 + 1 ELSE 0
      /\ \A i \in 1 .. n - 1 - 1 + 1 : p[i] = s[1 + i - 1]
  BY ONLY <1>2, SubSeqProperties
<1>4. n \in Nat \ {0}
  BY <1>1
<1> HIDE DEF p, n
<1>5. Len(p) = n - 1
  BY <1>3, <1>4
<1>6. \A i \in 1 .. Len(p) : p[i] = s[i]
  BY <1>3, <1>4, <1>5
<1> QED BY <1>3, <1>5, <1>6 DEF p, n

(* Appending a token adds its position to the positions of its type.       *)
LEMMA OfAppend ==
  ASSUME NEW type, NEW line1 \in Nat, TypeOK, TypeOK',
         tokens' = Append(tokens, [type |-> type, line |-> line1])
  PROVE  /\ Of(type)' = Of(type) \cup {Len(tokens) + 1}
         /\ Len(tokens) + 1 \notin Of(type)
         /\ \A other : other # type => Of(other)' = Of(other)
<1> DEFINE n == Len(tokens) + 1
<1>1. /\ n \in Nat
      /\ Len(tokens') = n
      /\ \A i \in 1 .. Len(tokens) : tokens'[i] = tokens[i]
      /\ tokens'[n] = [type |-> type, line |-> line1]
  BY DEF TypeOK
<1>2. 1 .. Len(tokens') = (1 .. Len(tokens)) \cup {n} /\ n \notin 1 .. Len(tokens)
  BY <1>1 DEF TypeOK
<1> QED BY <1>1, <1>2 DEF Of

(* The positions of a type of token are a finite set.                      *)
LEMMA OfFinite ==
  ASSUME NEW type, TypeOK
  PROVE  IsFiniteSet(Of(type)) /\ Cardinality(Of(type)) \in Nat
<1>1. IsFiniteSet(1 .. Len(tokens))
  BY FS_Interval DEF TypeOK
<1>2. Of(type) \subseteq 1 .. Len(tokens)
  BY DEF Of
<1> QED BY <1>1, <1>2, FS_Subset, FS_CardinalityType

(* Emitting a token counts it, and no other.                               *)
LEMMA EmitCounts ==
  ASSUME NEW type, TypeOK, TypeOK', Emit(type)
  PROVE  /\ Cardinality(Of(type)') = Cardinality(Of(type)) + 1
         /\ \A other : other # type => Of(other)' = Of(other)
<1>1. /\ Of(type)' = Of(type) \cup {Len(tokens) + 1}
      /\ Len(tokens) + 1 \notin Of(type)
      /\ \A other : other # type => Of(other)' = Of(other)
  BY OfAppend DEF Emit, TypeOK
<1> QED BY <1>1, OfFinite, FS_AddElement

-----------------------------------------------------------------------------
(* The line the lexer is on is one of the input.                           *)
LEMMA LineType ==
  ASSUME TypeOK, NEW state, NEW part, Lexing(state, part)
  PROVE  line \in 1 .. Len(doc) /\ doc[line] \in Line
<1>1. Len(doc) \in Nat /\ doc \in [1 .. Len(doc) -> Line]
  BY LenProperties DEF TypeOK
<1>2. line \in 1 .. Len(doc)
  BY <1>1 DEF TypeOK, Lexing, AtEnd
<1> QED BY <1>1, <1>2

(* The first state of every input has its type.                            *)
LEMMA TypeInit == Init => TypeOK
  BY DocumentsAssumption DEF Init, TypeOK, Outcomes

(* No step of the lexer leaves the type of its state.                      *)
LEMMA TypeStep == TypeOK /\ [Next]_vars => TypeOK'
<1> SUFFICES ASSUME TypeOK, [Next]_vars PROVE TypeOK'
  OBVIOUS
<1> USE DEF TypeOK, Outcomes
<1>1. ASSUME NEW type \in {"INDENT", "DEDENT", "TEXT"}, Emit(type)
      PROVE  tokens' \in Seq([type : {"INDENT", "DEDENT", "TEXT"}, line : Nat])
  BY <1>1 DEF Emit
<1>2. ASSUME LeaveBody
      PROVE  line' \in Nat \ {0} /\ rest' \in {"indent", "body", "newline"}
  BY <1>2 DEF LeaveBody
<1>3. scopeLevels # <<>> => Popped \in Seq(Nat)
  BY PoppedFacts DEF Popped
<1>4. ASSUME Lexing("INITIAL", "indent") PROVE doc[line].level \in Nat
  BY <1>4, LineType DEF Line
<1>5. CASE HandleEmpty
  BY <1>2, <1>5 DEF HandleEmpty
<1>6. CASE IndentNotFromZero
  BY <1>6 DEF IndentNotFromZero
<1>7. CASE IndentSame
  BY <1>7 DEF IndentSame
<1>8. CASE IndentDeeper
  BY <1>1, <1>4, <1>8 DEF IndentDeeper, Indented
<1>9. CASE IndentDedent
  BY <1>1, <1>3, <1>9 DEF IndentDedent
<1>10. CASE LexText
  BY <1>1, <1>2, <1>10 DEF LexText
<1>11. CASE SkipComment
  BY <1>2, <1>11 DEF SkipComment
<1>12. CASE LexNoMatch
  BY <1>12 DEF LexNoMatch
<1>13. CASE NewlineAtEnd
  BY <1>1, <1>3, <1>13 DEF NewlineAtEnd
<1>14. CASE NewlineOnEmptyStack
  BY <1>14 DEF NewlineOnEmptyStack
<1>15. CASE Newline
  BY <1>15 DEF Newline
<1>16. CASE EndOfInput
  BY <1>16 DEF EndOfInput
<1>17. CASE UNCHANGED vars
  BY <1>17 DEF vars
<1> QED BY <1>5, <1>6, <1>7, <1>8, <1>9, <1>10, <1>11, <1>12, <1>13, <1>14,
           <1>15, <1>16, <1>17 DEF Next

(* Every value of the state stays in its type, whatever the inputs.        *)
THEOREM TypeCorrect == Spec => []TypeOK
  BY TypeInit, TypeStep, PTL DEF Spec

-----------------------------------------------------------------------------
(***************************************************************************)
(* What a step does to the stack and to the tokens: it leaves both alone   *)
(* (but for TEXT), opens the outermost level, pushes a level with its      *)
(* INDENT, pops one with its DEDENT, or throws.                            *)
(***************************************************************************)
Keeps == /\ UNCHANGED scopeLevels
         /\ UNCHANGED tokens \/ Emit("TEXT")
         /\ status # "threw"
         /\ status' # "threw"
Starts == /\ scopeLevels = <<>> /\ scopeLevels' = <<0>>
          /\ UNCHANGED <<tokens, status>>
Pushes == /\ scopeLevels # <<>>
          /\ \E level \in Nat : /\ level > Top
                               /\ scopeLevels' = Append(scopeLevels, level)
          /\ Emit("INDENT")
          /\ UNCHANGED status
Pops == /\ scopeLevels # <<>> /\ scopeLevels' = Popped /\ Top # 0
        /\ Emit("DEDENT")
        /\ UNCHANGED status
Throws == /\ \/ UNCHANGED scopeLevels
             \/ scopeLevels # <<>> /\ scopeLevels' = Popped
          /\ UNCHANGED tokens
          /\ status' = "threw"

(* Every step leaves the stack alone, pushes a level with its INDENT,      *)
(* pops one with its DEDENT, or pops one and throws.                       *)
LEMMA StackSteps ==
  ASSUME TypeOK, Next
  PROVE  Keeps \/ Starts \/ Pushes \/ Pops \/ Throws
<1> USE DEF TypeOK, Outcomes
<1>1. ASSUME Lexing("INITIAL", "indent") PROVE doc[line].level \in Nat
  BY <1>1, LineType DEF Line
<1>2. scopeLevels # <<>> => Top \in Nat
  BY EmptySeq, LenProperties DEF Top
<1>3. CASE HandleEmpty
  BY <1>3 DEF HandleEmpty, Keeps, Lexing
<1>4. CASE IndentNotFromZero
  BY <1>4 DEF IndentNotFromZero, Throws
<1>5. CASE IndentSame
  BY <1>5 DEF IndentSame, Indented, Lexing, Keeps, Starts
<1>6. CASE IndentDeeper
  BY <1>1, <1>6 DEF IndentDeeper, Indented, Pushes
<1>7. CASE IndentDedent
  BY <1>1, <1>2, <1>7 DEF IndentDedent, Indented, Pops, Throws
<1>8. CASE LexText
  BY <1>8 DEF LexText, Lexing, Keeps
<1>9. CASE SkipComment
  BY <1>9 DEF SkipComment, Lexing, Keeps
<1>10. CASE LexNoMatch
  BY <1>10 DEF LexNoMatch, Lexing, Keeps
<1>11. CASE NewlineAtEnd
  BY <1>11 DEF NewlineAtEnd, Pops
<1>12. CASE NewlineOnEmptyStack
  BY <1>12 DEF NewlineOnEmptyStack, Lexing, Keeps
<1>13. CASE Newline
  BY <1>13 DEF Newline, Lexing, Keeps
<1>14. CASE EndOfInput
  BY <1>14 DEF EndOfInput, Keeps
<1> QED BY <1>3, <1>4, <1>5, <1>6, <1>7, <1>8, <1>9, <1>10, <1>11, <1>12,
           <1>13, <1>14 DEF Next

-----------------------------------------------------------------------------
(* The stack stays ordered: what is pushed is above the top.               *)
LEMMA OpenLevelsStep ==
  ASSUME TypeOK, TypeOK', OpenLevels, [Next]_vars
  PROVE  OpenLevels'
<1> DEFINE n == Len(scopeLevels)
<1>1. n \in Nat /\ \A i \in 1 .. n : scopeLevels[i] \in Nat
  BY LenProperties DEF TypeOK
<1>2. CASE UNCHANGED scopeLevels
  BY <1>2 DEF OpenLevels
<1>3. CASE Starts
  BY <1>3 DEF Starts, OpenLevels
<1>4. CASE Pushes
  <2>1. PICK level \in Nat : /\ level > Top
                             /\ scopeLevels' = Append(scopeLevels, level)
    BY <1>4 DEF Pushes
  <2>2. /\ Len(scopeLevels') = n + 1
        /\ \A i \in 1 .. n : scopeLevels'[i] = scopeLevels[i]
        /\ scopeLevels'[n + 1] = level
    BY <2>1, AppendProperties DEF TypeOK
  <2>3. n # 0 /\ scopeLevels[1] = 0
    BY <1>4, EmptySeq DEF Pushes, TypeOK, OpenLevels
  <2>4. \A i, j \in 1 .. n : i < j => scopeLevels[i] < scopeLevels[j]
    BY DEF OpenLevels
  <2>5. Top = scopeLevels[n]
    BY DEF Top
  <2> HIDE DEF n
  <2>6. \A i \in 1 .. n : scopeLevels[i] < level
    BY <1>1, <2>1, <2>3, <2>4, <2>5
  <2>7. \A i, j \in 1 .. n + 1 : i < j => scopeLevels'[i] < scopeLevels'[j]
    BY <1>1, <2>2, <2>4, <2>6
  <2>8. scopeLevels'[1] = 0
    BY <1>1, <2>2, <2>3
  <2> QED BY <2>2, <2>7, <2>8 DEF OpenLevels
<1>5. CASE scopeLevels # <<>> /\ scopeLevels' = Popped
  <2>1. /\ Len(scopeLevels') = n - 1
        /\ \A i \in 1 .. n - 1 : scopeLevels'[i] = scopeLevels[i]
    BY <1>5, PoppedFacts DEF Popped, TypeOK
  <2>2. scopeLevels' # <<>> => n - 1 # 0
    BY <2>1, EmptySeq DEF TypeOK
  <2>3. n # 0 /\ scopeLevels[1] = 0
    BY <1>5, EmptySeq DEF TypeOK, OpenLevels
  <2>4. \A i, j \in 1 .. n : i < j => scopeLevels[i] < scopeLevels[j]
    BY DEF OpenLevels
  <2> HIDE DEF n
  <2>5. n - 1 # 0 => scopeLevels'[1] = 0
    BY <1>1, <2>1, <2>3
  <2>6. \A i, j \in 1 .. n - 1 : i < j => scopeLevels'[i] < scopeLevels'[j]
    BY <1>1, <2>1, <2>4
  <2> QED BY <2>1, <2>2, <2>5, <2>6 DEF OpenLevels
<1> QED BY <1>2, <1>3, <1>4, <1>5, StackSteps
        DEF Keeps, Pops, Throws, vars

(* The open levels are ordered, whatever the inputs.                       *)
THEOREM OpenLevelsCorrect == Spec => []OpenLevels
<1>1. Init => TypeOK /\ OpenLevels
  BY TypeInit DEF Init, OpenLevels
<1>2. TypeOK /\ OpenLevels /\ [Next]_vars => TypeOK' /\ OpenLevels'
  BY TypeStep, OpenLevelsStep
<1> QED BY <1>1, <1>2, PTL DEF Spec

-----------------------------------------------------------------------------
(***************************************************************************)
(* Balanced is not inductive: while no line with a layout has come it says *)
(* nothing of the tokens.  Then there are none that count.                 *)
(***************************************************************************)
EmptyMeansUntouched ==
  status # "threw" /\ scopeLevels = <<>> =>
    Of("INDENT") = {} /\ Of("DEDENT") = {}

Counted == Balanced /\ EmptyMeansUntouched

(* Each step changes the count of tokens as it changes the stack, and      *)
(* nothing is emitted while there is no bottom level.                      *)
LEMMA CountedStep ==
  ASSUME TypeOK, TypeOK', OpenLevels, Counted, [Next]_vars
  PROVE  Counted'
<1> DEFINE n == Len(scopeLevels)
           in == Cardinality(Of("INDENT"))
           out == Cardinality(Of("DEDENT"))
<1>1. n \in Nat /\ in \in Nat /\ out \in Nat
  BY LenProperties, OfFinite DEF TypeOK
<1>2. CASE UNCHANGED <<scopeLevels, tokens, status>>
  BY <1>2 DEF Counted, Balanced, EmptyMeansUntouched, Of
<1>3. CASE Keeps
  <2>1. Of("INDENT")' = Of("INDENT") /\ Of("DEDENT")' = Of("DEDENT")
    <3>1. CASE UNCHANGED tokens
      BY <3>1 DEF Of
    <3>2. CASE Emit("TEXT")
      BY <3>2, EmitCounts
    <3> QED BY <1>3, <3>1, <3>2 DEF Keeps
  <2> QED BY <1>3, <2>1 DEF Keeps, Counted, Balanced, EmptyMeansUntouched
<1>4. CASE Starts
  <2>1. Of("INDENT")' = Of("INDENT") /\ Of("DEDENT")' = Of("DEDENT")
    BY <1>4 DEF Starts, Of
  <2>2. status' # "threw" => Of("INDENT") = {} /\ Of("DEDENT") = {}
    BY <1>4 DEF Starts, Counted, EmptyMeansUntouched
  <2>3. scopeLevels' # <<>> /\ Len(scopeLevels') = 1
    BY <1>4 DEF Starts
  <2> QED BY <2>1, <2>2, <2>3 DEF Counted, Balanced, EmptyMeansUntouched
<1>5. CASE Pushes
  <2>1. /\ Cardinality(Of("INDENT")') = in + 1
        /\ Cardinality(Of("DEDENT")') = out
    BY <1>5, EmitCounts DEF Pushes
  <2>2. scopeLevels' # <<>> /\ Len(scopeLevels') = n + 1
    BY <1>5, AppendProperties DEF Pushes, TypeOK
  <2>3. status' # "threw" => in + 1 = out + n
    BY <1>5 DEF Pushes, Counted, Balanced
  <2> QED BY <1>1, <2>1, <2>2, <2>3 DEF Counted, Balanced, EmptyMeansUntouched
<1>6. CASE Pops
  <2>1. /\ Cardinality(Of("DEDENT")') = out + 1
        /\ Cardinality(Of("INDENT")') = in
    BY <1>6, EmitCounts DEF Pops
  <2>2. Len(scopeLevels') = n - 1
    BY <1>6, PoppedFacts DEF Pops, Popped, TypeOK
  <2>3. status' # "threw" => in + 1 = out + n
    BY <1>6 DEF Pops, Counted, Balanced
  <2>4. n # 0 /\ scopeLevels[n] # 0 /\ scopeLevels[1] = 0
    BY <1>6, EmptySeq DEF Pops, Top, TypeOK, OpenLevels
  <2>5. n # 1
    BY <2>4
  <2>6. scopeLevels' # <<>>
    BY <1>1, <2>2, <2>5
  <2> QED BY <1>1, <2>1, <2>2, <2>3, <2>6
          DEF Counted, Balanced, EmptyMeansUntouched
<1>7. CASE Throws
  BY <1>7 DEF Throws, Counted, Balanced, EmptyMeansUntouched
<1> QED BY <1>2, <1>3, <1>4, <1>5, <1>6, <1>7, StackSteps DEF vars

(* INDENT and DEDENT tokens balance with the open levels, whatever the     *)
(* inputs.                                                                 *)
THEOREM BalancedCorrect == Spec => []Balanced
<1>1. Init => TypeOK /\ OpenLevels /\ Counted
  <2>1. Init => Of("INDENT") = {} /\ Of("DEDENT") = {}
    BY DEF Init, Of
  <2> QED BY <2>1, TypeInit
          DEF Init, OpenLevels, Counted, Balanced, EmptyMeansUntouched
<1>2. TypeOK /\ OpenLevels /\ Counted /\ [Next]_vars
        => TypeOK' /\ OpenLevels' /\ Counted'
  BY TypeStep, OpenLevelsStep, CountedStep
<1>3. Counted => Balanced
  BY DEF Counted
<1> QED BY <1>1, <1>2, <1>3, PTL DEF Spec

-----------------------------------------------------------------------------
(***************************************************************************)
(* The lexer passes the last line break of an input only with 0 on top of  *)
(* the stack, and after it there is nothing left to open a block.          *)
(***************************************************************************)
ZeroOnTopAtEnd ==
  doc # <<>> /\ doc[Len(doc)].eol /\ AtEnd =>
    scopeLevels # <<>> /\ Top = 0

(* The last line is only left, by its line break, with 0 on top.           *)
LEMMA AtEndStep ==
  ASSUME TypeOK, doc \in Documents, ZeroOnTopAtEnd, [Next]_vars
  PROVE  ZeroOnTopAtEnd'
<1>1. Len(doc) \in Nat /\ line \in Nat
  BY LenProperties DEF TypeOK
<1>2. UNCHANGED doc
  BY DEF Next, vars, HandleEmpty, IndentNotFromZero, IndentSame, IndentDeeper,
         IndentDedent, LexText, SkipComment, LexNoMatch, NewlineAtEnd,
         NewlineOnEmptyStack, Newline, EndOfInput
<1>3. ASSUME NEW state, NEW part, Lexing(state, part), LeaveBody,
             doc[Len(doc)].eol
      PROVE  UNCHANGED line
  <2>1. line \in 1 .. Len(doc)
    BY <1>3, LineType
  <2>2. line < Len(doc) => doc[line].eol
    BY <2>1, DocumentsAssumption
  <2>3. doc[line].eol
    BY <1>1, <1>3, <2>1, <2>2
  <2> QED BY <1>3, <2>3 DEF LeaveBody
<1>4. CASE UNCHANGED <<line, scopeLevels>>
  BY <1>2, <1>4 DEF ZeroOnTopAtEnd, AtEnd, Top
<1>5. ASSUME NEW state, NEW part, Lexing(state, part), UNCHANGED line
      PROVE  ZeroOnTopAtEnd'
  BY <1>2, <1>5 DEF ZeroOnTopAtEnd, AtEnd, Lexing
<1>6. ASSUME NEW state, NEW part, Lexing(state, part), LeaveBody
      PROVE  ZeroOnTopAtEnd'
  BY <1>2, <1>3, <1>5, <1>6 DEF ZeroOnTopAtEnd
<1>7. CASE Newline
  <2>1. CASE line = Len(doc)
    BY <1>2, <1>7, <2>1 DEF Newline, ZeroOnTopAtEnd, Top
  <2>2. CASE line # Len(doc)
    BY <1>1, <1>2, <1>7, <2>2 DEF Newline, Lexing, ZeroOnTopAtEnd, AtEnd
  <2> QED BY <2>1, <2>2
<1> QED BY <1>4, <1>5, <1>6, <1>7
        DEF Next, vars, Indented, HandleEmpty, IndentNotFromZero, IndentSame,
            IndentDeeper, IndentDedent, LexText, SkipComment, LexNoMatch,
            NewlineAtEnd, NewlineOnEmptyStack, EndOfInput

EndSeen == status = "eof" => AtEnd

(* The lexer reports the end of the input only where it is.                *)
LEMMA EndSeenStep ==
  ASSUME EndSeen, [Next]_vars
  PROVE  EndSeen'
  BY DEF Next, vars, EndSeen, AtEnd, Lexing, Indented, HandleEmpty,
         IndentNotFromZero, IndentSame, IndentDeeper, IndentDedent, LexText,
         SkipComment, LexNoMatch, NewlineAtEnd, NewlineOnEmptyStack, Newline,
         EndOfInput

(* An input that ends with a line break leaves no block open, whatever the *)
(* input.                                                                  *)
THEOREM TerminatedInputClosesCorrect == Spec => []TerminatedInputCloses
<1> DEFINE Inv == /\ TypeOK /\ doc \in Documents
                  /\ OpenLevels /\ Counted /\ ZeroOnTopAtEnd /\ EndSeen
<1>1. Init => Inv
  <2>1. Init => Of("INDENT") = {} /\ Of("DEDENT") = {}
    BY DEF Init, Of
  <2>2. ASSUME Init PROVE ZeroOnTopAtEnd
    BY <2>2, TypeInit, EmptySeq, LenProperties
       DEF Init, ZeroOnTopAtEnd, AtEnd, TypeOK
  <2> QED BY <2>1, <2>2, TypeInit
          DEF Init, OpenLevels, Counted, Balanced, EmptyMeansUntouched, EndSeen
<1>2. Inv /\ [Next]_vars => Inv'
  <2>1. [Next]_vars => UNCHANGED doc
    BY DEF Next, vars, HandleEmpty, IndentNotFromZero, IndentSame,
           IndentDeeper, IndentDedent, LexText, SkipComment, LexNoMatch,
           NewlineAtEnd, NewlineOnEmptyStack, Newline, EndOfInput
  <2> QED BY <2>1, TypeStep, OpenLevelsStep, CountedStep, AtEndStep,
              EndSeenStep
<1>3. Inv => TerminatedInputCloses
  <2> SUFFICES ASSUME Inv, status = "eof", doc # <<>>, doc[Len(doc)].eol
               PROVE  /\ Len(scopeLevels) = 1
                      /\ Cardinality(Of("INDENT")) = Cardinality(Of("DEDENT"))
    BY DEF TerminatedInputCloses
  <2> DEFINE n == Len(scopeLevels)
  <2>1. scopeLevels # <<>> /\ scopeLevels[n] = 0
    BY DEF EndSeen, ZeroOnTopAtEnd, Top
  <2>2. n \in Nat \ {0}
    BY <2>1, EmptySeq DEF TypeOK
  <2>3. scopeLevels[1] = 0 /\ (1 < n => scopeLevels[1] < scopeLevels[n])
    BY <2>1, <2>2 DEF OpenLevels
  <2> HIDE DEF n
  <2>4. ~ (1 < n)
    BY <2>1, <2>3
  <2>5. n = 1
    BY <2>2, <2>4
  <2>6. Cardinality(Of("INDENT")) + 1 = Cardinality(Of("DEDENT")) + n
    BY <2>1 DEF n, Counted, Balanced
  <2> QED BY <2>5, <2>6, OfFinite DEF n
<1> QED BY <1>1, <1>2, <1>3, PTL DEF Spec

-----------------------------------------------------------------------------
(***************************************************************************)
(* The lexer implements the off-side rule: each step of IndentLexer is a   *)
(* step of Layout or none.                                                 *)
(***************************************************************************)
(* The levels of the blocks that are open where line l begins.             *)
OpenAt(d, l) ==
  {v \in Nat : \E j \in 1 .. l - 1 :
     /\ Rule!HasLayout(d, j)
     /\ d[j].level = v
     /\ \A k \in Rule!Between(d, j, l) : v <= d[k].level}

-----------------------------------------------------------------------------
(* Lines and levels of an input.                                           *)
LEMMA DocFacts ==
  ASSUME NEW d \in Seq(Line)
  PROVE  /\ Len(d) \in Nat
         /\ \A l \in 1 .. Len(d) : d[l].level \in Nat /\ d[l].body \in Bodies
<1>1. Len(d) \in Nat /\ \A l \in 1 .. Len(d) : d[l] \in Line
  BY LenProperties
<1> QED BY <1>1 DEF Line

(* A line without layout changes nothing.                                  *)
LEMMA OpenSkip ==
  ASSUME NEW d \in Seq(Line), NEW l \in 1 .. Len(d), ~ Rule!HasLayout(d, l)
  PROVE  OpenAt(d, l + 1) = OpenAt(d, l)
<1>1. Len(d) \in Nat /\ l \in Nat
  BY DocFacts
<1>2. ASSUME NEW j \in 1 .. l - 1
      PROVE  Rule!Between(d, j, l + 1) = Rule!Between(d, j, l)
  <2>1. \A k \in j + 1 .. l : k = l \/ k \in j + 1 .. l - 1
    BY <1>1
  <2>2. \A k \in j + 1 .. l - 1 : k \in j + 1 .. l
    BY <1>1
  <2>3. l + 1 - 1 = l
    BY <1>1
  <2> QED BY <2>1, <2>2, <2>3 DEF Rule!Between
<1>3. \A j \in 1 .. l : j = l \/ j \in 1 .. l - 1
  BY <1>1
<1>4. \A j \in 1 .. l - 1 : j \in 1 .. l
  BY <1>1
<1>5. l + 1 - 1 = l
  BY <1>1
<1> QED BY <1>2, <1>3, <1>4, <1>5 DEF OpenAt

(* A line with layout closes the deeper blocks and is open itself.         *)
LEMMA OpenAdd ==
  ASSUME NEW d \in Seq(Line), NEW l \in 1 .. Len(d), Rule!HasLayout(d, l)
  PROVE  OpenAt(d, l + 1)
           = {v \in OpenAt(d, l) : v <= d[l].level} \cup {d[l].level}
<1>1. Len(d) \in Nat /\ l \in Nat /\ d[l].level \in Nat /\ l + 1 - 1 = l
  BY DocFacts
<1>2. ASSUME NEW j \in 1 .. l - 1
      PROVE  Rule!Between(d, j, l + 1) = Rule!Between(d, j, l) \cup {l}
  <2>1. \A k \in j + 1 .. l : k = l \/ k \in j + 1 .. l - 1
    BY <1>1
  <2>2. \A k \in j + 1 .. l - 1 : k \in j + 1 .. l
    BY <1>1
  <2>3. l \in j + 1 .. l
    BY <1>1
  <2> QED BY <1>1, <2>1, <2>2, <2>3 DEF Rule!Between
<1>3. Rule!Between(d, l, l + 1) = {}
  BY <1>1 DEF Rule!Between
<1>4. \A j \in 1 .. l : j = l \/ j \in 1 .. l - 1
  BY <1>1
<1>5. \A j \in 1 .. l - 1 : j \in 1 .. l
  BY <1>1
<1>6. ASSUME NEW v \in OpenAt(d, l + 1)
      PROVE  v \in {u \in OpenAt(d, l) : u <= d[l].level} \cup {d[l].level}
  <2>1. PICK j \in 1 .. l :
          /\ d[j].level = v
          /\ Rule!HasLayout(d, j)
          /\ \A k \in Rule!Between(d, j, l + 1) : v <= d[k].level
    BY <1>1 DEF OpenAt
  <2>2. CASE j = l
    BY <2>1, <2>2
  <2>3. CASE j \in 1 .. l - 1
    <3>1. v <= d[l].level /\ \A k \in Rule!Between(d, j, l) : v <= d[k].level
      BY <1>2, <2>1, <2>3
    <3>2. v \in Nat
      BY DEF OpenAt
    <3> QED BY <2>1, <2>3, <3>1, <3>2 DEF OpenAt
  <2> QED BY <1>4, <2>2, <2>3
<1>7. d[l].level \in OpenAt(d, l + 1)
  <2>1. l \in 1 .. l
    BY <1>1
  <2> QED BY <1>1, <1>3, <2>1 DEF OpenAt
<1>8. ASSUME NEW v \in OpenAt(d, l), v <= d[l].level
      PROVE  v \in OpenAt(d, l + 1)
  <2>1. PICK j \in 1 .. l - 1 :
          /\ d[j].level = v
          /\ Rule!HasLayout(d, j)
          /\ \A k \in Rule!Between(d, j, l) : v <= d[k].level
    BY DEF OpenAt
  <2>2. j \in 1 .. l /\ \A k \in Rule!Between(d, j, l + 1) : v <= d[k].level
    BY <1>2, <1>5, <1>8, <2>1
  <2> QED BY <1>1, <2>1, <2>2 DEF OpenAt
<1> QED BY <1>6, <1>7, <1>8

(* The last line with layout is open, and no open block is deeper.         *)
LEMMA LastLine ==
  ASSUME NEW d \in Seq(Line), NEW l \in 1 .. Len(d) + 1,
         NEW i \in 1 .. l - 1, Rule!HasLayout(d, i)
  PROVE  \E j \in 1 .. l - 1 :
           /\ Rule!HasLayout(d, j)
           /\ Rule!Between(d, j, l) = {}
           /\ d[j].level \in OpenAt(d, l)
           /\ \A v \in OpenAt(d, l) : v <= d[j].level
<1>1. Len(d) \in Nat /\ l \in Nat /\ l - 1 \in Nat
      /\ \A j \in 1 .. l - 1 : d[j].level \in Nat
  BY DocFacts
<1> DEFINE J == {j \in 1 .. l - 1 : Rule!HasLayout(d, j)}
<1>2. J \subseteq 1 .. l - 1 /\ J # {}
  OBVIOUS
<1>3. PICK j \in J : \A k \in J : j >= k
  <2> HIDE DEF J
  <2> QED BY <1>1, <1>2, HasGreatest
<1>4. j \in 1 .. l - 1 /\ Rule!HasLayout(d, j)
  BY <1>3
<1>5. Rule!Between(d, j, l) = {}
  <2>1. \A k \in j + 1 .. l - 1 : k \in 1 .. l - 1 /\ ~ (j >= k)
    BY <1>1, <1>4
  <2>2. \A k \in j + 1 .. l - 1 : ~ Rule!HasLayout(d, k)
    BY <1>3, <2>1
  <2> QED BY <2>2 DEF Rule!Between
<1>6. d[j].level \in OpenAt(d, l)
  BY <1>1, <1>4, <1>5 DEF OpenAt
<1>7. ASSUME NEW v \in OpenAt(d, l)
      PROVE  v <= d[j].level
  <2>1. PICK i2 \in 1 .. l - 1 :
          /\ d[i2].level = v
          /\ Rule!HasLayout(d, i2)
          /\ \A k \in Rule!Between(d, i2, l) : v <= d[k].level
    BY DEF OpenAt
  <2>2. j >= i2
    BY <1>3, <2>1
  <2>3. CASE j = i2
    BY <1>1, <2>1, <2>3
  <2>4. CASE j # i2
    <3>1. j \in i2 + 1 .. l - 1
      BY <1>1, <1>4, <2>2, <2>4
    <3>2. j \in Rule!Between(d, i2, l)
      BY <1>4, <3>1 DEF Rule!Between
    <3> QED BY <2>1, <3>2
  <2> QED BY <2>3, <2>4
<1> QED BY <1>4, <1>5, <1>6, <1>7

-----------------------------------------------------------------------------
(* The cardinality of Layout is the cardinality there is.                  *)
LEMMA SameCardinality ==
  ASSUME NEW S
  PROVE  Rule!Cardinality(S) = Cardinality(S)
  BY DEF Rule!Cardinality, Cardinality

(* Line l is as deep as there are open blocks above its indentation: every *)
(* such block is of one line that encloses l.                              *)
LEMMA EnclosingLines ==
  ASSUME NEW d \in Seq(Line), NEW l \in 1 .. Len(d)
  PROVE  LET E == {j \in 1 .. l - 1 : Rule!Encloses(d, j, l)}
             V == {v \in OpenAt(d, l) : v < d[l].level}
         IN  IsFiniteSet(E) /\ ExistsBijection(E, V)
<1> DEFINE E == {j \in 1 .. l - 1 : Rule!Encloses(d, j, l)}
           V == {v \in OpenAt(d, l) : v < d[l].level}
           f == [j \in E |-> d[j].level]
<1>1. /\ Len(d) \in Nat /\ l \in Nat /\ l - 1 \in Nat
      /\ d[l].level \in Nat
      /\ \A j \in 1 .. l - 1 : j \in Nat /\ d[j].level \in Nat
  BY DocFacts
<1>2. IsFiniteSet(E)
  <2>1. IsFiniteSet(1 .. l - 1) /\ E \subseteq 1 .. l - 1
    BY <1>1, FS_Interval
  <2> QED BY <2>1, FS_Subset
<1>3. ASSUME NEW j \in E
      PROVE  d[j].level \in V
  <2>1. /\ j \in 1 .. l - 1 /\ Rule!HasLayout(d, j) /\ d[j].level < d[l].level
        /\ \A k \in Rule!Between(d, j, l) : d[j].level < d[k].level
    BY DEF Rule!Encloses
  <2>2. \A k \in Rule!Between(d, j, l) : k \in 1 .. l - 1
    BY <1>1, <2>1 DEF Rule!Between
  <2>3. \A k \in Rule!Between(d, j, l) : d[j].level <= d[k].level
    BY <1>1, <2>1, <2>2
  <2>4. d[j].level \in OpenAt(d, l)
    BY <1>1, <2>1, <2>3 DEF OpenAt
  <2> QED BY <2>1, <2>4
<1>4. ASSUME NEW j \in E, NEW k \in E, j < k
      PROVE  d[j].level < d[k].level
  <2>1. k \in 1 .. l - 1 /\ j \in 1 .. l - 1 /\ Rule!HasLayout(d, k)
    BY DEF Rule!Encloses
  <2>2. k \in Rule!Between(d, j, l)
    BY <1>1, <1>4, <2>1 DEF Rule!Between
  <2> QED BY <2>2 DEF Rule!Encloses
<1>5. ASSUME NEW v \in V
      PROVE  \E j \in E : d[j].level = v
  <2> DEFINE J == {j \in 1 .. l - 1 :
                    /\ Rule!HasLayout(d, j)
                    /\ d[j].level = v
                    /\ \A k \in Rule!Between(d, j, l) : v <= d[k].level}
  <2>1. v \in Nat /\ v < d[l].level /\ J # {} /\ J \subseteq 1 .. l - 1
    BY DEF OpenAt
  <2>2. PICK j \in J : \A k \in J : j >= k
    <3> HIDE DEF J
    <3> QED BY <1>1, <2>1, HasGreatest
  <2>3. ASSUME NEW k \in Rule!Between(d, j, l)
        PROVE  v < d[k].level
    <3>1. k \in j + 1 .. l - 1 /\ Rule!HasLayout(d, k) /\ v <= d[k].level
      BY <2>2 DEF Rule!Between
    <3>2. j \in 1 .. l - 1
      BY <2>2
    <3>3. k \in 1 .. l - 1 /\ ~ (j >= k)
      BY <1>1, <3>1, <3>2
    <3>4. \A i \in Rule!Between(d, k, l) : i \in Rule!Between(d, j, l)
      BY <1>1, <3>1, <3>2, <3>3 DEF Rule!Between
    <3>5. d[k].level # v
      BY <2>2, <3>1, <3>3, <3>4
    <3> QED BY <1>1, <2>1, <3>1, <3>3, <3>5
  <2>4. j \in 1 .. l - 1 /\ d[j].level = v /\ Rule!HasLayout(d, j)
    BY <2>2
  <2>5. Rule!Encloses(d, j, l)
    BY <2>1, <2>3, <2>4 DEF Rule!Encloses
  <2> QED BY <2>4, <2>5
<1>6. ASSUME NEW j \in E, NEW k \in E, d[j].level = d[k].level
      PROVE  j = k
  <2>1. j \in 1 .. l - 1 /\ k \in 1 .. l - 1
    OBVIOUS
  <2> HIDE DEF E
  <2>2. ~ (j < k) /\ ~ (k < j)
    BY <1>1, <1>4, <1>6, <2>1
  <2> QED BY <1>1, <2>1, <2>2
<1>7. f \in Bijection(E, V)
  <2> HIDE DEF E, V
  <2> QED BY <1>3, <1>5, <1>6 DEF Bijection, Injection, Surjection, IsInjective
<1> QED BY <1>2, <1>7 DEF ExistsBijection

(* A stack that grows strictly and holds the open levels that are above or *)
(* at the level of a line, which is its top, has one more level than the   *)
(* line is deep.                                                           *)
LEMMA DepthIs ==
  ASSUME NEW d \in Seq(Line), NEW l \in 1 .. Len(d),
         NEW s \in Seq(Nat), s # <<>>,
         \A i, j \in 1 .. Len(s) : i < j => s[i] < s[j],
         s[Len(s)] = d[l].level,
         {s[i] : i \in 1 .. Len(s)}
           = {v \in OpenAt(d, l) : v <= d[l].level} \cup {d[l].level}
  PROVE  Rule!DepthOf(d, l) = Len(s) - 1
<1> DEFINE E == {j \in 1 .. l - 1 : Rule!Encloses(d, j, l)}
           V == {v \in OpenAt(d, l) : v < d[l].level}
           n == Len(s)
           g == [i \in 1 .. n - 1 |-> s[i]]
<1>1. n \in Nat \ {0} /\ \A i \in 1 .. n : s[i] \in Nat
  BY EmptySeq, LenProperties
<1>2. n - 1 \in Nat /\ \A i \in 1 .. n - 1 : i \in 1 .. n /\ i < n
  BY <1>1
<1>3. n \in 1 .. n /\ \A i \in 1 .. n : i = n \/ i \in 1 .. n - 1
  BY <1>1
<1>4. ASSUME NEW i \in 1 .. n - 1
      PROVE  s[i] \in V
  <2>1. i \in 1 .. n /\ s[i] < s[n]
    BY <1>2, <1>3
  <2>2. s[i] \in {v \in OpenAt(d, l) : v <= d[l].level} \cup {d[l].level}
    BY <2>1
  <2>3. s[i] < d[l].level /\ s[i] # d[l].level
    BY <1>1, <1>3, <2>1
  <2> QED BY <2>2, <2>3
<1>5. ASSUME NEW v \in V
      PROVE  \E i \in 1 .. n - 1 : s[i] = v
  <2>1. v \in Nat /\ v < d[l].level /\ v \in OpenAt(d, l) /\ d[l].level \in Nat
    BY DocFacts DEF OpenAt
  <2>2. v <= d[l].level /\ v # d[l].level
    BY <2>1
  <2>3. v \in {s[i] : i \in 1 .. Len(s)}
    BY <2>1, <2>2
  <2>4. PICK i \in 1 .. n : s[i] = v
    BY <2>3
  <2> QED BY <1>3, <2>2, <2>4
<1>6. ASSUME NEW i \in 1 .. n - 1, NEW j \in 1 .. n - 1, s[i] = s[j]
      PROVE  i = j
  <2>1. i \in 1 .. n /\ j \in 1 .. n
    BY <1>2
  <2>2. (i < j => s[i] < s[j]) /\ (j < i => s[j] < s[i])
    BY <2>1
  <2> QED BY <1>1, <1>6, <2>1, <2>2
<1>7. g \in Bijection(1 .. n - 1, V)
  <2> HIDE DEF V, n
  <2> QED BY <1>4, <1>5, <1>6 DEF Bijection, Injection, Surjection, IsInjective
<1>8. Cardinality(V) = n - 1
  <2> HIDE DEF V, n
  <2> QED BY <1>2, <1>7, FS_CountingElements DEF ExistsBijection
<1>9. IsFiniteSet(E) /\ ExistsBijection(E, V)
  BY EnclosingLines
<1>10. Cardinality(E) = Cardinality(V)
  <2> HIDE DEF E, V
  <2> QED BY <1>9, FS_Bijection
<1>11. Rule!DepthOf(d, l) = Cardinality(E)
  BY SameCardinality DEF Rule!DepthOf
<1> QED BY <1>8, <1>10, <1>11

-----------------------------------------------------------------------------
(* Which lines are well placed, told from the open blocks alone.           *)
LEMMA PlacedIs ==
  ASSUME NEW d \in Seq(Line), NEW l \in 1 .. Len(d), Rule!HasLayout(d, l)
  PROVE  Rule!WellPlaced(d, l) <=>
           \/ OpenAt(d, l) = {} /\ d[l].level = 0
           \/ OpenAt(d, l) # {} /\ \A v \in OpenAt(d, l) : v < d[l].level
           \/ d[l].level \in OpenAt(d, l)
<1>1. /\ Len(d) \in Nat /\ l \in Nat /\ l - 1 \in Nat
      /\ d[l].level \in Nat
      /\ \A j \in 1 .. l - 1 : j \in Nat /\ d[j].level \in Nat
      /\ l \in 1 .. Len(d) + 1
  BY DocFacts
<1>2. Rule!IsFirst(d, l) <=> OpenAt(d, l) = {}
  <2>1. 0 + 1 = 1
    OBVIOUS
  <2>2. Rule!IsFirst(d, l) <=> \A i \in 1 .. l - 1 : ~ Rule!HasLayout(d, i)
    BY <2>1 DEF Rule!IsFirst, Rule!Between
  <2>3. (\A i \in 1 .. l - 1 : ~ Rule!HasLayout(d, i)) => OpenAt(d, l) = {}
    BY DEF OpenAt
  <2>4. ASSUME NEW i \in 1 .. l - 1, Rule!HasLayout(d, i)
        PROVE  OpenAt(d, l) # {}
    BY <1>1, <2>4, LastLine
  <2> QED BY <2>2, <2>3, <2>4
<1>3. (\E j \in 1 .. l - 1 : Rule!AlignsWith(d, j, l))
        <=> d[l].level \in OpenAt(d, l)
  <2>1. ASSUME NEW j \in 1 .. l - 1, Rule!AlignsWith(d, j, l)
        PROVE  d[l].level \in OpenAt(d, l)
    BY <1>1, <2>1 DEF Rule!AlignsWith, OpenAt
  <2>2. ASSUME d[l].level \in OpenAt(d, l)
        PROVE  \E j \in 1 .. l - 1 : Rule!AlignsWith(d, j, l)
    BY <2>2 DEF Rule!AlignsWith, OpenAt
  <2> QED BY <2>1, <2>2
<1>4. ASSUME NEW i \in 1 .. l - 1, Rule!HasLayout(d, i)
      PROVE  Rule!OpensBlock(d, l)
               <=> \A v \in OpenAt(d, l) : v < d[l].level
  <2>1. PICK j \in 1 .. l - 1 :
          /\ Rule!HasLayout(d, j)
          /\ Rule!Between(d, j, l) = {}
          /\ d[j].level \in OpenAt(d, l)
          /\ \A v \in OpenAt(d, l) : v <= d[j].level
    BY <1>1, <1>4, LastLine
  <2>2. ASSUME NEW k \in 1 .. l - 1, Rule!HasLayout(d, k),
               Rule!Between(d, k, l) = {}
        PROVE  k = j
    <3>1. k < j => j \in Rule!Between(d, k, l)
      BY <1>1, <2>1 DEF Rule!Between
    <3>2. j < k => k \in Rule!Between(d, j, l)
      BY <1>1, <2>2 DEF Rule!Between
    <3> QED BY <1>1, <2>1, <2>2, <3>1, <3>2
  <2>3. Rule!OpensBlock(d, l) <=> d[j].level < d[l].level
    BY <2>1, <2>2 DEF Rule!OpensBlock
  <2>4. \A v \in OpenAt(d, l) : v \in Nat
    BY DEF OpenAt
  <2> QED BY <1>1, <2>1, <2>3, <2>4
<1>5. (\A i \in 1 .. l - 1 : ~ Rule!HasLayout(d, i))
        => ~ Rule!OpensBlock(d, l) /\ OpenAt(d, l) = {}
  BY DEF Rule!OpensBlock, OpenAt
<1>6. Rule!OpensBlock(d, l)
        <=> OpenAt(d, l) # {} /\ \A v \in OpenAt(d, l) : v < d[l].level
  <2>1. ASSUME NEW i \in 1 .. l - 1, Rule!HasLayout(d, i)
        PROVE  OpenAt(d, l) # {}
    BY <1>1, <2>1, LastLine
  <2> QED BY <1>4, <1>5, <2>1
<1> QED BY <1>2, <1>3, <1>6 DEF Rule!WellPlaced

-----------------------------------------------------------------------------
(* The levels a stack holds.                                               *)
Held(s) == {s[i] : i \in 1 .. Len(s)}

(* A level that is pushed is held.                                         *)
LEMMA HeldPush ==
  ASSUME NEW s \in Seq(Nat), NEW v \in Nat
  PROVE  Held(Append(s, v)) = Held(s) \cup {v}
<1> DEFINE t == Append(s, v)
           n == Len(s)
<1>1. /\ n \in Nat /\ Len(t) = n + 1 /\ t[n + 1] = v
      /\ \A i \in 1 .. n : t[i] = s[i]
  BY LenProperties, AppendProperties
<1> HIDE DEF t, n
<1>2. 1 .. n + 1 = (1 .. n) \cup {n + 1}
  BY <1>1
<1>3. {t[i] : i \in 1 .. n + 1} = {s[i] : i \in 1 .. n} \cup {v}
  BY <1>1, <1>2
<1> QED BY <1>1, <1>3 DEF Held, t, n

(* The top of a stack that grows strictly is the greatest level it holds,  *)
(* and popping it takes this level alone.                                  *)
LEMMA HeldPop ==
  ASSUME NEW s \in Seq(Nat), s # <<>>,
         \A i, j \in 1 .. Len(s) : i < j => s[i] < s[j]
  PROVE  /\ s[Len(s)] \in Nat
         /\ s[Len(s)] \in Held(s)
         /\ \A v \in Held(s) : v \in Nat /\ v <= s[Len(s)]
         /\ Held(SubSeq(s, 1, Len(s) - 1)) = Held(s) \ {s[Len(s)]}
<1> DEFINE p == SubSeq(s, 1, Len(s) - 1)
           n == Len(s)
<1>1. /\ n \in Nat \ {0} /\ Len(p) = n - 1
      /\ \A i \in 1 .. n - 1 : p[i] = s[i]
      /\ \A i \in 1 .. n : s[i] \in Nat
  BY EmptySeq, LenProperties, PoppedFacts
<1>2. \A i, j \in 1 .. n : i < j => s[i] < s[j]
  OBVIOUS
<1>3. Held(s) = {s[i] : i \in 1 .. n} /\ Held(p) = {p[i] : i \in 1 .. n - 1}
  BY <1>1 DEF Held
<1> HIDE DEF p, n
<1>4. n \in 1 .. n /\ \A i \in 1 .. n : i = n \/ (i < n /\ i \in 1 .. n - 1)
  BY <1>1
<1>5. \A i \in 1 .. n - 1 : i \in 1 .. n /\ i < n
  BY <1>1
<1>6. \A i \in 1 .. n - 1 : s[i] < s[n] /\ s[i] # s[n]
  BY <1>1, <1>2, <1>4, <1>5
<1>7. \A i \in 1 .. n : s[i] <= s[n]
  BY <1>1, <1>4, <1>6
<1>8. {p[i] : i \in 1 .. n - 1} = {s[i] : i \in 1 .. n} \ {s[n]}
  BY <1>1, <1>4, <1>5, <1>6
<1>9. s[n] \in Held(s) /\ \A v \in Held(s) : v \in Nat /\ v <= s[n]
  BY <1>1, <1>3, <1>4, <1>7
<1> QED BY <1>1, <1>3, <1>4, <1>8, <1>9 DEF p, n

-----------------------------------------------------------------------------
(***************************************************************************)
(* What the stack holds.  While the lexer looks at the blanks of a line,   *)
(* the levels of the open blocks, but for deeper ones that it has closed   *)
(* already; behind the blanks, the levels open for the next line.  Of the  *)
(* last line break, which pops them, only who remains on the stack counts. *)
(***************************************************************************)
BeforeLine ==
  /\ Held(scopeLevels) \subseteq OpenAt(doc, line)
  /\ \A v \in OpenAt(doc, line) \ Held(scopeLevels) :
       /\ Rule!HasLayout(doc, line)
       /\ doc[line].level < v
       /\ scopeLevels # <<>>
       /\ doc[line].level <= Top

InLine ==
  /\ Rule!HasLayout(doc, line)
  /\ Rule!WellPlaced(doc, line)
  /\ scopeLevels # <<>>
  /\ Top = doc[line].level
  /\ Held(scopeLevels) = OpenAt(doc, line + 1)

BehindLine ==
  /\ line < Len(doc) => Held(scopeLevels) = OpenAt(doc, line + 1)
  /\ scopeLevels = <<>> => OpenAt(doc, line + 1) = {}

Nested ==
  status = "lexing" =>
    /\ line <= Len(doc) + 1
    /\ rest # "indent" => line <= Len(doc)
    /\ rest = "indent" /\ line <= Len(doc) => BeforeLine
    /\ rest = "body" => InLine
    /\ rest = "newline" => BehindLine

Open == TypeOK /\ OpenLevels /\ Nested

(* What is known of a line whose blanks the lexer looks at.                *)
LEMMA AtBlanks ==
  ASSUME Open, Lexing("INITIAL", "indent")
  PROVE  /\ line \in 1 .. Len(doc) /\ doc \in Seq(Line)
         /\ line \in Nat /\ Len(doc) \in Nat
         /\ doc[line].level \in Nat
         /\ BeforeLine
         /\ \A v \in OpenAt(doc, line) : v \in Nat
         /\ scopeLevels = <<>> => Held(scopeLevels) = {}
         /\ scopeLevels # <<>> =>
              /\ Top \in Nat /\ Top \in Held(scopeLevels)
              /\ \A v \in Held(scopeLevels) : v \in Nat /\ v <= Top
              /\ Popped \in Seq(Nat)
              /\ Held(Popped) = Held(scopeLevels) \ {Top}
<1>1. /\ line \in 1 .. Len(doc) /\ doc \in Seq(Line)
      /\ line \in Nat /\ Len(doc) \in Nat /\ doc[line].level \in Nat
  BY LineType, DocFacts, LenProperties DEF Open, TypeOK
<1>2. BeforeLine
  BY <1>1 DEF Open, Nested, Lexing
<1>3. Held(<<>>) = {}
  BY DEF Held
<1>4. ASSUME scopeLevels # <<>>
      PROVE  /\ Top \in Nat /\ Top \in Held(scopeLevels)
             /\ \A v \in Held(scopeLevels) : v \in Nat /\ v <= Top
             /\ Held(Popped) = Held(scopeLevels) \ {Top}
  BY <1>4, HeldPop DEF Open, TypeOK, OpenLevels, Top, Popped
<1>5. scopeLevels # <<>> => Popped \in Seq(Nat)
  BY PoppedFacts DEF Open, TypeOK, Popped
<1>6. \A v \in OpenAt(doc, line) : v \in Nat
  BY DEF OpenAt
<1> QED BY <1>1, <1>2, <1>3, <1>4, <1>5, <1>6

(* The line that finds its level on top, or pushes it, is well placed, and *)
(* the stack holds what is open behind it.                                 *)
LEMMA Opened ==
  ASSUME Open, IndentSame \/ IndentDeeper
  PROVE  InLine'
<1> DEFINE O == OpenAt(doc, line)
           H == Held(scopeLevels)
           level == doc[line].level
<1>1. Lexing("INITIAL", "indent") /\ UNCHANGED <<doc, line>>
      /\ Rule!HasLayout(doc, line)
  BY DEF IndentSame, IndentDeeper, Indented, Rule!HasLayout
<1>2. /\ line \in 1 .. Len(doc) /\ doc \in Seq(Line) /\ level \in Nat
      /\ BeforeLine /\ \A v \in O : v \in Nat
  BY <1>1, AtBlanks
<1>3. OpenAt(doc, line + 1) = {v \in O : v <= level} \cup {level}
  BY <1>1, <1>2, OpenAdd
<1>4. Rule!WellPlaced(doc, line) <=>
           \/ O = {} /\ level = 0
           \/ O # {} /\ \A v \in O : v < level
           \/ level \in O
  BY <1>1, <1>2, PlacedIs
<1>5. H \subseteq O /\ \A v \in O \ H : level < v /\ scopeLevels # <<>>
                                      /\ level <= Top
  BY <1>2 DEF BeforeLine
<1>6. SUFFICES /\ Rule!WellPlaced(doc, line)
               /\ scopeLevels' # <<>>
               /\ scopeLevels'[Len(scopeLevels')] = level
               /\ Held(scopeLevels') = {v \in O : v <= level} \cup {level}
  BY <1>1, <1>3 DEF InLine, Top
<1>7. CASE IndentSame /\ scopeLevels = <<>>
  <2>1. scopeLevels' = <<0>> /\ level = 0 /\ O = {}
    <3>1. H = {}
      BY <1>1, <1>7, AtBlanks
    <3>2. scopeLevels' = <<0>> /\ level = 0
      BY <1>7 DEF IndentSame
    <3> QED BY <1>5, <1>7, <3>1, <3>2
  <2>2. Held(<<0>>) = {0}
    BY DEF Held
  <2> QED BY <1>4, <2>1, <2>2
<1>8. CASE IndentSame /\ scopeLevels # <<>>
  <2>1. scopeLevels' = scopeLevels /\ level = Top
    BY <1>8 DEF IndentSame, Top
  <2>2. Top \in H /\ \A v \in H : v <= Top
    BY <1>1, <1>8, AtBlanks
  <2>3. \A v \in O : v <= level => v \in H
    BY <1>2, <1>5
  <2>4. H = {v \in O : v <= level} \cup {level}
    BY <1>5, <2>1, <2>2, <2>3
  <2> QED BY <1>4, <1>5, <1>8, <2>1, <2>2, <2>4 DEF Top
<1>9. CASE IndentDeeper
  <2>1. scopeLevels' = Append(scopeLevels, level) /\ level > Top
        /\ scopeLevels # <<>>
    BY <1>9 DEF IndentDeeper
  <2>2. Top \in Nat /\ Top \in H /\ \A v \in H : v \in Nat /\ v <= Top
    BY <1>1, <2>1, AtBlanks
  <2>3. O = H
    <3>1. ~ (level <= Top)
      BY <1>2, <2>1, <2>2
    <3> QED BY <1>5, <3>1
  <2>4. \A v \in O : v < level /\ v <= level
    BY <1>2, <2>1, <2>2, <2>3
  <2>5. Held(scopeLevels') = O \cup {level}
    BY <1>2, <2>1, <2>3, HeldPush DEF Open, TypeOK
  <2>6. scopeLevels' # <<>> /\ scopeLevels'[Len(scopeLevels')] = level
    <3>1. scopeLevels \in Seq(Nat)
      BY DEF Open, TypeOK
    <3> HIDE DEF level
    <3> QED BY <1>2, <2>1, <3>1, AppendProperties
  <2>7. Rule!WellPlaced(doc, line)
    BY <1>4, <2>2, <2>3, <2>4
  <2>8. {v \in O : v <= level} = O
    BY <2>4
  <2> QED BY <2>5, <2>6, <2>7, <2>8
<1> QED BY <1>7, <1>8, <1>9

(* A line that closes a block, and does not throw, still stands before the *)
(* levels it has not closed; one that throws is ill placed.                *)
LEMMA Closed ==
  ASSUME Open, IndentDedent
  PROVE  IF status' = "lexing" THEN BeforeLine'
                               ELSE ~ Rule!WellPlaced(doc, line)
<1> DEFINE O == OpenAt(doc, line)
           H == Held(scopeLevels)
           level == doc[line].level
<1>1. /\ Lexing("INITIAL", "indent") /\ UNCHANGED <<doc, line>>
      /\ Rule!HasLayout(doc, line)
      /\ scopeLevels # <<>> /\ level < Top /\ scopeLevels' = Popped
      /\ IF Popped = <<>> \/ level > Popped[Len(Popped)]
           THEN status' = "threw" ELSE UNCHANGED status
  BY DEF IndentDedent, Indented, Rule!HasLayout
<1>2. /\ line \in 1 .. Len(doc) /\ doc \in Seq(Line) /\ level \in Nat
      /\ BeforeLine /\ \A v \in O : v \in Nat
      /\ Top \in Nat /\ Top \in H /\ \A v \in H : v \in Nat /\ v <= Top
      /\ Popped \in Seq(Nat) /\ Held(Popped) = H \ {Top}
  BY <1>1, AtBlanks
<1>3. H \subseteq O /\ \A v \in O \ H : level < v
  BY <1>2 DEF BeforeLine
<1>4. Popped # <<>> => /\ Popped[Len(Popped)] \in Nat
                       /\ \A v \in Held(Popped) : v <= Popped[Len(Popped)]
  <2>1. SUFFICES ASSUME Popped # <<>>
                 PROVE  \A i, j \in 1 .. Len(Popped) :
                          i < j => Popped[i] < Popped[j]
    BY <1>2, HeldPop
  <2>2. /\ Len(scopeLevels) \in Nat /\ Len(Popped) = Len(scopeLevels) - 1
        /\ \A i \in 1 .. Len(Popped) : Popped[i] = scopeLevels[i]
    BY <1>1, PoppedFacts, LenProperties DEF Open, TypeOK, Popped
  <2>3. \A i, j \in 1 .. Len(scopeLevels) :
          i < j => scopeLevels[i] < scopeLevels[j]
    BY DEF Open, OpenLevels
  <2>4. \A i \in 1 .. Len(Popped) : i \in 1 .. Len(scopeLevels)
    BY <2>2
  <2> QED BY <2>2, <2>3, <2>4
<1>5. CASE Popped = <<>> \/ level > Popped[Len(Popped)]
  <2>1. \A v \in Held(Popped) : v < level /\ v # level
    <3>1. CASE Popped = <<>>
      BY <3>1 DEF Held
    <3>2. CASE Popped # <<>>
      BY <1>2, <1>4, <1>5, <3>2
    <3> QED BY <3>1, <3>2
  <2>2. level \notin H
    BY <1>1, <1>2, <2>1
  <2>3. level \notin O /\ Top \in O /\ ~ (Top < level)
    BY <1>1, <1>2, <1>3, <2>2
  <2>4. ~ Rule!WellPlaced(doc, line)
    BY <1>1, <1>2, <2>3, PlacedIs
  <2> QED BY <1>1, <1>5, <2>4
<1>6. CASE ~ (Popped = <<>> \/ level > Popped[Len(Popped)])
  <2>1. status' = "lexing"
    BY <1>1, <1>6 DEF Lexing
  <2>2. level <= Popped[Len(Popped)] /\ Popped # <<>>
    BY <1>2, <1>4, <1>6
  <2>3. ASSUME NEW v \in O, v \notin Held(Popped)
        PROVE  level < v
    BY <1>1, <1>2, <1>3, <2>3
  <2> QED BY <1>1, <1>2, <1>3, <2>1, <2>2, <2>3 DEF BeforeLine, Top
<1> QED BY <1>5, <1>6

(* The first line with a layout is ill placed when it is indented.         *)
LEMMA NotFromZero ==
  ASSUME Open, IndentNotFromZero
  PROVE  ~ Rule!WellPlaced(doc, line)
<1>1. /\ Lexing("INITIAL", "indent") /\ scopeLevels = <<>>
      /\ doc[line].level # 0 /\ Rule!HasLayout(doc, line)
  BY DEF IndentNotFromZero, Indented, Rule!HasLayout
<1>2. /\ line \in 1 .. Len(doc) /\ doc \in Seq(Line) /\ BeforeLine
  BY <1>1, AtBlanks
<1>3. OpenAt(doc, line) = {}
  BY <1>1, <1>2 DEF BeforeLine, Held
<1> QED BY <1>1, <1>2, <1>3, PlacedIs

(* Where the stack holds what is open behind a line, it does so once the   *)
(* line is left.                                                           *)
LEMMA LineLeft ==
  ASSUME Open, NEW state, NEW part, Lexing(state, part), LeaveBody,
         UNCHANGED <<doc, scopeLevels>>,
         Held(scopeLevels) = OpenAt(doc, line + 1)
  PROVE  Nested'
<1>1. line \in Nat /\ Len(doc) \in Nat /\ line <= Len(doc)
  BY LineType, LenProperties DEF Open, TypeOK
<1>2. CASE doc[line].eol
  <2>1. rest' = "newline" /\ UNCHANGED line
    BY <1>2 DEF LeaveBody
  <2>2. scopeLevels = <<>> => OpenAt(doc, line + 1) = {}
    BY DEF Held
  <2> QED BY <1>1, <2>1, <2>2 DEF Nested, BehindLine
<1>3. CASE ~ doc[line].eol
  <2>1. rest' = "indent" /\ line' = line + 1
    BY <1>3 DEF LeaveBody
  <2> QED BY <1>1, <2>1 DEF Nested, BeforeLine
<1> QED BY <1>2, <1>3

-----------------------------------------------------------------------------
(***************************************************************************)
(* The lines of text are numbered by the TEXT tokens before theirs, so     *)
(* that TextAt names one token for every number.                           *)
(***************************************************************************)
Numbered ==
  \A n \in 1 .. Cardinality(Of("TEXT")) :
    \E i \in Of("TEXT") : Before(i, "TEXT") = n - 1

(* The elements of a set of numbers are told apart by how many are less.   *)
LEMMA NumbersDiffer ==
  ASSUME NEW T, T \subseteq Nat, IsFiniteSet(T), NEW i \in T, NEW j \in T, i < j
  PROVE  Cardinality({k \in T : k < i}) # Cardinality({k \in T : k < j})
<1> DEFINE I == {k \in T : k < i}
           J == {k \in T : k < j}
<1>1. IsFiniteSet(I) /\ IsFiniteSet(J)
  BY FS_Subset
<1>2. I \cup {i} \subseteq J /\ i \notin I
  <2>1. \A k \in I : k \in T /\ k < j
    OBVIOUS
  <2>2. ~ (i < i)
    OBVIOUS
  <2> QED BY <2>1, <2>2
<1> HIDE DEF I, J
<1>3. Cardinality(I \cup {i}) = Cardinality(I) + 1 /\ IsFiniteSet(I \cup {i})
  BY <1>1, <1>2, FS_AddElement
<1>4. Cardinality(I) + 1 <= Cardinality(J)
  BY <1>1, <1>2, <1>3, FS_Subset
<1>5. Cardinality(I) \in Nat /\ Cardinality(J) \in Nat
  BY <1>1, FS_CardinalityType
<1>6. Cardinality(I) # Cardinality(J)
  BY <1>4, <1>5
<1> QED BY <1>6 DEF I, J

(* The element below which there is a number of others.                    *)
LEMMA NumberedElement ==
  ASSUME NEW T, T \subseteq Nat, IsFiniteSet(T), NEW m, NEW i \in T,
         Cardinality({k \in T : k < i}) = m
  PROVE  (CHOOSE j \in T : Cardinality({k \in T : k < j}) = m) = i
<1>1. ASSUME NEW j \in T, Cardinality({k \in T : k < j}) = m
      PROVE  j = i
  <2>1. ~ (i < j) /\ ~ (j < i)
    BY <1>1, NumbersDiffer
  <2>2. i \in Nat /\ j \in Nat
    OBVIOUS
  <2> QED BY <2>1, <2>2
<1> DEFINE c == CHOOSE j \in T : Cardinality({k \in T : k < j}) = m
<1>2. c \in T /\ Cardinality({k \in T : k < c}) = m
  OBVIOUS
<1> QED BY <1>1, <1>2

(* The TEXT token of a number.                                             *)
LEMMA TextAtIs ==
  ASSUME TypeOK, TypeOK', NEW n, NEW i
  PROVE  /\ i \in Of("TEXT") /\ Before(i, "TEXT") = n - 1 => TextAt(n) = i
         /\ i \in Of("TEXT")' /\ Before(i, "TEXT")' = n - 1 => TextAt(n)' = i
<1>1. Of("TEXT") \subseteq Nat /\ Of("TEXT")' \subseteq Nat
  BY LenProperties DEF TypeOK, Of
<1>2. IsFiniteSet(Of("TEXT")) /\ IsFiniteSet(Of("TEXT")')
  <2>1. IsFiniteSet(1 .. Len(tokens)) /\ IsFiniteSet(1 .. Len(tokens'))
    BY LenProperties, FS_Interval DEF TypeOK
  <2> QED BY <2>1, FS_Subset DEF Of
<1>3. i \in Of("TEXT") /\ Before(i, "TEXT") = n - 1 => TextAt(n) = i
  BY <1>1, <1>2, NumberedElement DEF TextAt, Before
<1>4. i \in Of("TEXT")' /\ Before(i, "TEXT")' = n - 1 => TextAt(n)' = i
  BY <1>1, <1>2, NumberedElement DEF TextAt, Before
<1> QED BY <1>3, <1>4

(* A token that is emitted comes after all that were.                      *)
LEMMA EmitBefore ==
  ASSUME TypeOK, TypeOK', NEW type, Emit(type)
  PROVE  /\ Len(tokens) \in Nat
         /\ \A other, i : i \in 1 .. Len(tokens) =>
              Before(i, other)' = Before(i, other)
         /\ \A other, i : i = Len(tokens) + 1 =>
              Before(i, other)' = Cardinality(Of(other))
<1> DEFINE n == Len(tokens)
<1>1. n \in Nat /\ \A other : \A k \in Of(other) : k \in 1 .. n
  BY LenProperties DEF TypeOK, Of
<1>2. /\ Of(type)' = Of(type) \cup {n + 1}
      /\ \A other : other # type => Of(other)' = Of(other)
  BY OfAppend DEF Emit, TypeOK
<1>3. \A other : Of(other) \subseteq Of(other)'
                /\ Of(other)' \subseteq Of(other) \cup {n + 1}
  BY <1>2
<1>4. ASSUME NEW other, NEW i \in 1 .. n
      PROVE  Before(i, other)' = Before(i, other)
  <2>1. {j \in Of(other)' : j < i} = {j \in Of(other) : j < i}
    <3> HIDE DEF n
    <3> QED BY <1>1, <1>3
  <2> QED BY <2>1 DEF Before
<1>5. ASSUME NEW other, NEW i, i = n + 1
      PROVE  Before(i, other)' = Cardinality(Of(other))
  <2>1. {j \in Of(other)' : j < i} = Of(other)
    <3> HIDE DEF n
    <3> QED BY <1>1, <1>3, <1>5
  <2> QED BY <2>1 DEF Before
<1> QED BY <1>1, <1>4, <1>5

(* A token that is no text changes no depth.                               *)
LEMMA DepthKept ==
  ASSUME TypeOK, TypeOK', Numbered,
         UNCHANGED tokens \/ Emit("INDENT") \/ Emit("DEDENT")
  PROVE  DepthSeen' = DepthSeen /\ Numbered'
<1>1. CASE UNCHANGED tokens
  <2>1. \A type : Of(type)' = Of(type)
    BY <1>1 DEF Of
  <2>2. \A i, type : Before(i, type)' = Before(i, type)
    BY <2>1, Zenon DEF Before
  <2>3. \A n : TextAt(n)' = TextAt(n)
    BY <2>1, <2>2, Zenon DEF TextAt
  <2>4. DepthSeen' = DepthSeen
    BY <2>1, <2>2, <2>3, Zenon DEF DepthSeen
  <2>5. Numbered'
    BY <2>1, <2>2, Zenon DEF Numbered
  <2> QED BY <2>4, <2>5
<1>2. ASSUME NEW type \in {"INDENT", "DEDENT"}, Emit(type)
      PROVE  DepthSeen' = DepthSeen /\ Numbered'
  <2>1. Of("TEXT")' = Of("TEXT")
    BY <1>2, EmitCounts
  <2>2. \A i \in Of("TEXT") : \A other : Before(i, other)' = Before(i, other)
    BY <1>2, EmitBefore DEF Of
  <2>3. Numbered'
    BY <2>1, <2>2 DEF Numbered
  <2>4. Cardinality(Of("TEXT")) \in Nat
    BY OfFinite
  <2>5. ASSUME NEW n \in 1 .. Cardinality(Of("TEXT"))
        PROVE  /\ TextAt(n)' = TextAt(n)
               /\ TextAt(n) \in Of("TEXT")
    <3>1. PICK i \in Of("TEXT") : Before(i, "TEXT") = n - 1
      BY DEF Numbered
    <3>3. TextAt(n) = i
      BY <3>1, TextAtIs
    <3>4. i \in Of("TEXT")' /\ Before(i, "TEXT")' = n - 1
      BY <2>1, <2>2, <3>1
    <3>5. TextAt(n)' = i
      BY <3>4, TextAtIs
    <3> QED BY <3>3, <3>5
  <2> QED BY <2>1, <2>2, <2>3, <2>5 DEF DepthSeen
<1> QED BY <1>1, <1>2

(* A text gets the depth of the blocks that are open for the parser.       *)
LEMMA DepthAdded ==
  ASSUME TypeOK, TypeOK', Numbered, Emit("TEXT")
  PROVE  /\ DepthSeen' = Append(DepthSeen, Cardinality(Of("INDENT"))
                                            - Cardinality(Of("DEDENT")))
         /\ Numbered'
<1> DEFINE c == Cardinality(Of("TEXT"))
           p == Len(tokens) + 1
           F(i) == Before(i, "INDENT") - Before(i, "DEDENT")
           e == Cardinality(Of("INDENT")) - Cardinality(Of("DEDENT"))
<1>1. c \in Nat /\ e \in Int
  BY OfFinite
<1>2. Cardinality(Of("TEXT")') = c + 1
  BY EmitCounts
<1>3. Of("TEXT")' = Of("TEXT") \cup {p}
  BY OfAppend DEF Emit, TypeOK
<1>4. \A i \in Of("TEXT") : \A other : Before(i, other)' = Before(i, other)
  BY EmitBefore DEF Of
<1>5. \A other : \A i : i = p => Before(i, other)' = Cardinality(Of(other))
  BY EmitBefore
<1>6. ASSUME NEW n \in 1 .. c
      PROVE  /\ TextAt(n)' = TextAt(n) /\ TextAt(n) \in Of("TEXT")
             /\ \E i \in Of("TEXT")' : Before(i, "TEXT")' = n - 1
  <2>1. PICK i \in Of("TEXT") : Before(i, "TEXT") = n - 1
    BY DEF Numbered
  <2>2. TextAt(n) = i
    BY <2>1, TextAtIs
  <2>3. i \in Of("TEXT")' /\ Before(i, "TEXT")' = n - 1
    BY <1>3, <1>4, <2>1
  <2>4. TextAt(n)' = i
    BY <2>3, TextAtIs
  <2> QED BY <2>2, <2>3, <2>4
<1>7. PICK i : i = p
  OBVIOUS
<1>8. i \in Of("TEXT")' /\ Before(i, "TEXT")' = (c + 1) - 1
  BY <1>1, <1>3, <1>5, <1>7
<1>9. PICK m : m = c + 1
  OBVIOUS
<1>10. TextAt(m)' = i
  BY <1>8, <1>9, TextAtIs
<1>11. 1 .. c + 1 = (1 .. c) \cup {c + 1}
  BY <1>1
<1>12. Numbered'
  <2> HIDE DEF c
  <2>1. \A n \in 1 .. c + 1 : \E j \in Of("TEXT")' : Before(j, "TEXT")' = n - 1
    BY <1>6, <1>8, <1>11
  <2> QED BY <1>2, <2>1 DEF Numbered
<1>13. ASSUME NEW n \in 1 .. c
       PROVE  (Before(TextAt(n), "INDENT") - Before(TextAt(n), "DEDENT"))'
                = DepthSeen[n]
  <2>1. PICK j \in Of("TEXT") : TextAt(n) = j /\ TextAt(n)' = j
    BY <1>6
  <2>2. \A other : Before(TextAt(n), other)' = Before(j, other)'
    BY <2>1 DEF Before
  <2>3. DepthSeen[n] = Before(j, "INDENT") - Before(j, "DEDENT")
    BY <2>1 DEF DepthSeen
  <2> QED BY <1>4, <2>2, <2>3
<1>14. /\ m \notin 1 .. c
       /\ (Before(TextAt(m), "INDENT") - Before(TextAt(m), "DEDENT"))' = e
  <2>1. \A other : Before(TextAt(m), other)' = Before(i, other)'
    BY <1>10 DEF Before
  <2>2. \A other : Before(i, other)' = Cardinality(Of(other))
    BY <1>5, <1>7
  <2>3. m \notin 1 .. c
    <3> HIDE DEF c
    <3> QED BY <1>1, <1>9
  <2> QED BY <2>1, <2>2, <2>3
<1>15. DepthSeen' = [n \in 1 .. c + 1 |-> IF n \in 1 .. c THEN DepthSeen[n] ELSE e]
  <2>1. DepthSeen' = [n \in 1 .. c + 1 |->
          (Before(TextAt(n), "INDENT") - Before(TextAt(n), "DEDENT"))']
    BY <1>2 DEF DepthSeen
  <2>2. \A n \in 1 .. c + 1 :
          (Before(TextAt(n), "INDENT") - Before(TextAt(n), "DEDENT"))'
            = IF n \in 1 .. c THEN DepthSeen[n] ELSE e
    <3> HIDE DEF c, e
    <3> QED BY <1>9, <1>11, <1>13, <1>14
  <2> QED BY <2>1, <2>2
<1>16. Append(DepthSeen, e)
         = [n \in 1 .. c + 1 |-> IF n \in 1 .. c THEN DepthSeen[n] ELSE e]
  <2> DEFINE s == DepthSeen
             t == [n \in 1 .. c + 1 |-> IF n \in 1 .. c THEN s[n] ELSE e]
  <2>1. \A n \in 1 .. c : s[n] \in Int
    <3>1. ASSUME NEW n \in 1 .. c
          PROVE  s[n] \in Int
      <4>1. IsFiniteSet(Of("INDENT")) /\ IsFiniteSet(Of("DEDENT"))
        BY OfFinite
      <4>2. \A j : Before(j, "INDENT") \in Nat /\ Before(j, "DEDENT") \in Nat
        BY <4>1, FS_Subset, FS_CardinalityType DEF Before
      <4>3. s[n] = Before(TextAt(n), "INDENT") - Before(TextAt(n), "DEDENT")
        BY DEF DepthSeen
      <4> QED BY <4>2, <4>3
    <3> QED BY <3>1
  <2>2. s = [n \in 1 .. c |-> s[n]]
    BY DEF DepthSeen
  <2> HIDE DEF s, c, e
  <2>3. s \in Seq(Int) /\ Len(s) = c
    BY <1>1, <2>1, <2>2
  <2>4. t \in Seq(Int) /\ Len(t) = c + 1
    BY <1>1, <2>1
  <2>5. /\ Append(s, e) \in Seq(Int) /\ Len(Append(s, e)) = c + 1
        /\ \A n \in 1 .. c : Append(s, e)[n] = s[n]
        /\ Append(s, e)[c + 1] = e
    BY <1>1, <2>3, AppendProperties
  <2>6. c + 1 \notin 1 .. c /\ \A n \in 1 .. c : n \in 1 .. c + 1
    BY <1>1
  <2>7. \A n \in 1 .. c + 1 : t[n] = Append(s, e)[n]
    BY <1>11, <2>5, <2>6
  <2> HIDE DEF t
  <2>8. t = Append(s, e)
    BY <2>4, <2>5, <2>7, SeqEqual
  <2> QED BY <2>8 DEF t, s
<1> QED BY <1>12, <1>15, <1>16

-----------------------------------------------------------------------------
(***************************************************************************)
(* The inductive invariant: the order and the contents of the stack, its   *)
(* balance with the tokens, and the numbering of the lines of text.        *)
(***************************************************************************)
IInv == Open /\ doc \in Documents /\ Counted /\ Numbered

(* Before the first match nothing is open and no token is numbered.        *)
LEMMA IInvInit == Init => IInv
<1> SUFFICES ASSUME Init PROVE IInv
  OBVIOUS
<1>1. TypeOK /\ doc \in Documents /\ Len(doc) \in Nat
  BY TypeInit, LenProperties DEF Init, TypeOK
<1>2. Of("INDENT") = {} /\ Of("DEDENT") = {} /\ Of("TEXT") = {}
  BY DEF Init, Of
<1>3. OpenLevels /\ Counted
  BY <1>2 DEF Init, OpenLevels, Counted, Balanced, EmptyMeansUntouched
<1>4. Numbered
  BY <1>2, FS_EmptySet DEF Numbered
<1>5. OpenAt(doc, 1) = {}
  BY 1 - 1 = 0, 1 .. 0 = {} DEF OpenAt
<1>6. Held(<<>>) = {}
  BY DEF Held
<1>7. Nested
  BY <1>1, <1>5, <1>6 DEF Init, Nested, BeforeLine
<1> QED BY <1>1, <1>3, <1>4, <1>7 DEF IInv, Open

(* The stack holds the open levels after every step.                       *)
LEMMA NestedStep ==
  ASSUME Open, [Next]_vars
  PROVE  Nested'
<1>1. CASE HandleEmpty
  <2>1. /\ Lexing("INITIAL", "indent") /\ ~ Rule!HasLayout(doc, line)
        /\ LeaveBody /\ UNCHANGED <<doc, scopeLevels>>
    BY <1>1 DEF HandleEmpty, Rule!HasLayout
  <2>2. line \in 1 .. Len(doc) /\ doc \in Seq(Line) /\ BeforeLine
    BY <2>1, AtBlanks
  <2>3. Held(scopeLevels) = OpenAt(doc, line)
    BY <2>1, <2>2 DEF BeforeLine
  <2>4. OpenAt(doc, line + 1) = OpenAt(doc, line)
    BY <2>1, <2>2, OpenSkip
  <2> QED BY <2>1, <2>3, <2>4, LineLeft
<1>2. CASE IndentSame \/ IndentDeeper
  <2>1. InLine'
    BY <1>2, Opened
  <2>2. rest' = "body" /\ UNCHANGED <<doc, line>>
        /\ Lexing("INITIAL", "indent")
    BY <1>2 DEF IndentSame, IndentDeeper, Indented
  <2>3. line \in Nat /\ Len(doc) \in Nat /\ line <= Len(doc)
    BY <2>2, AtBlanks
  <2> QED BY <2>1, <2>2, <2>3 DEF Nested
<1>3. CASE IndentDedent
  <2>1. rest' = "indent" /\ UNCHANGED <<doc, line>>
        /\ Lexing("INITIAL", "indent")
    BY <1>3 DEF IndentDedent, Indented, Lexing
  <2>2. line \in Nat /\ Len(doc) \in Nat /\ line <= Len(doc)
    BY <2>1, AtBlanks
  <2>3. status' = "lexing" => BeforeLine'
    BY <1>3, Closed
  <2> QED BY <2>1, <2>2, <2>3 DEF Nested
<1>4. CASE LexText \/ SkipComment
  <2>1. Lexing("NORMAL", "body") /\ LeaveBody /\ UNCHANGED <<doc, scopeLevels>>
    BY <1>4 DEF LexText, SkipComment
  <2>2. Held(scopeLevels) = OpenAt(doc, line + 1)
    BY <2>1 DEF Open, Nested, Lexing, InLine
  <2> QED BY <2>1, <2>2, LineLeft
<1>5. CASE NewlineAtEnd
  <2>1. /\ rest' = "newline" /\ UNCHANGED <<doc, line>> /\ line = Len(doc)
        /\ scopeLevels # <<>> /\ Top # 0 /\ scopeLevels' = Popped
    BY <1>5 DEF NewlineAtEnd, Lexing
  <2>2. /\ Len(scopeLevels) \in Nat \ {0}
        /\ Len(Popped) = Len(scopeLevels) - 1
    BY <2>1, EmptySeq, PoppedFacts DEF Open, TypeOK, Popped
  <2>3. Len(scopeLevels) # 1
    BY <2>1 DEF Open, OpenLevels, Top
  <2>4. scopeLevels' # <<>>
    BY <2>1, <2>2, <2>3, Len(<<>>) = 0
  <2>5. Len(doc) \in Nat
    BY LenProperties DEF Open, TypeOK
  <2> QED BY <2>1, <2>4, <2>5 DEF Nested, BehindLine
<1>6. CASE Newline
  <2>1. /\ rest' = "indent" /\ line' = line + 1 /\ UNCHANGED <<doc, scopeLevels>>
        /\ Lexing("NORMAL", "newline")
    BY <1>6 DEF Newline
  <2>2. line \in 1 .. Len(doc) /\ Len(doc) \in Nat /\ line \in Nat
    BY <2>1, LineType, LenProperties DEF Open, TypeOK
  <2>3. line < Len(doc) => Held(scopeLevels) = OpenAt(doc, line + 1)
    BY <2>1 DEF Open, Nested, Lexing, BehindLine
  <2> QED BY <2>1, <2>2, <2>3 DEF Nested, BeforeLine
<1>7. CASE IndentNotFromZero \/ LexNoMatch \/ NewlineOnEmptyStack \/ EndOfInput
  BY <1>7 DEF IndentNotFromZero, LexNoMatch, NewlineOnEmptyStack, EndOfInput,
              Nested
<1>8. CASE UNCHANGED vars
  BY <1>8 DEF Open, Nested, BeforeLine, InLine, BehindLine, Top, vars
<1> QED BY <1>1, <1>2, <1>3, <1>4, <1>5, <1>6, <1>7, <1>8 DEF Next

(* No step of the lexer leaves the invariant.                              *)
LEMMA IInvStep == IInv /\ [Next]_vars => IInv'
<1> SUFFICES ASSUME IInv, [Next]_vars PROVE IInv'
  OBVIOUS
<1>1. TypeOK' /\ OpenLevels' /\ Nested'
  BY TypeStep, OpenLevelsStep, NestedStep DEF IInv, Open
<1>2. Counted'
  BY <1>1, CountedStep DEF IInv, Open
<1>3. UNCHANGED doc
  BY DEF Next, vars, HandleEmpty, IndentNotFromZero, IndentSame, IndentDeeper,
         IndentDedent, LexText, SkipComment, LexNoMatch, NewlineAtEnd,
         NewlineOnEmptyStack, Newline, EndOfInput
<1>4. UNCHANGED tokens \/ Emit("INDENT") \/ Emit("DEDENT") \/ Emit("TEXT")
  BY DEF Next, vars, HandleEmpty, IndentNotFromZero, IndentSame, IndentDeeper,
         IndentDedent, LexText, SkipComment, LexNoMatch, NewlineAtEnd,
         NewlineOnEmptyStack, Newline, EndOfInput
<1>5. Numbered'
  BY <1>1, <1>4, DepthKept, DepthAdded DEF IInv, Open
<1> QED BY <1>1, <1>2, <1>3, <1>5 DEF IInv, Open

-----------------------------------------------------------------------------
(* How many lines have passed, as the refinement maps it.                  *)
At == IF rest = "newline" THEN line ELSE line - 1

(* A line that is left is one more line passed.                            *)
LEMMA LinePassed ==
  ASSUME Open, NEW state, NEW part \in {"indent", "body"},
         Lexing(state, part), LeaveBody
  PROVE  /\ At + 1 = line /\ At' = At + 1 /\ At < Len(doc)
         /\ line \in 1 .. Len(doc)
<1>1. line \in 1 .. Len(doc) /\ line \in Nat /\ Len(doc) \in Nat
  BY LineType, LenProperties DEF Open, TypeOK
<1>2. rest # "newline"
  BY DEF Lexing
<1> QED BY <1>1, <1>2 DEF At, LeaveBody

(* A line of blanks, of text or of a comment passes.                       *)
LEMMA Passes ==
  ASSUME IInv, IInv', HandleEmpty \/ LexText \/ SkipComment
  PROVE  Rule!Pass
<1>1. /\ UNCHANGED doc /\ status = "lexing" /\ UNCHANGED status
      /\ At + 1 = line /\ At' = At + 1 /\ At < Len(doc)
      /\ line \in 1 .. Len(doc)
  BY LinePassed DEF HandleEmpty, LexText, SkipComment, Lexing, IInv
<1>2. Verdict = "reading" /\ Verdict' = "reading"
  BY <1>1 DEF Verdict
<1>3. Rule!WellPlaced(doc, line)
  <2>1. CASE HandleEmpty
    BY <2>1 DEF HandleEmpty, Rule!WellPlaced, Rule!HasLayout
  <2>2. CASE LexText \/ SkipComment
    BY <2>2 DEF LexText, SkipComment, Lexing, IInv, Open, Nested, InLine
  <2> QED BY <2>1, <2>2
<1>4. DepthSeen' = IF doc[line].body = "text"
                   THEN Append(DepthSeen, Rule!DepthOf(doc, line))
                   ELSE DepthSeen
  <2>1. CASE HandleEmpty \/ SkipComment
    <3>1. UNCHANGED tokens /\ doc[line].body # "text"
      BY <2>1 DEF HandleEmpty, SkipComment
    <3> QED BY <3>1, DepthKept DEF IInv, Open
  <2>2. CASE LexText
    <3>1. Emit("TEXT") /\ doc[line].body = "text" /\ Lexing("NORMAL", "body")
      BY <2>2 DEF LexText
    <3>2. InLine
      BY <3>1 DEF IInv, Open, Nested, Lexing
    <3>3. Held(scopeLevels) = {v \in OpenAt(doc, line) : v <= doc[line].level}
                                \cup {doc[line].level}
      BY <1>1, <3>2, OpenAdd DEF IInv, Open, TypeOK, InLine
    <3>4. Rule!DepthOf(doc, line) = Len(scopeLevels) - 1
      BY <1>1, <3>2, <3>3, DepthIs
         DEF IInv, Open, TypeOK, OpenLevels, InLine, Top, Held
    <3>5. Cardinality(Of("INDENT")) + 1
            = Cardinality(Of("DEDENT")) + Len(scopeLevels)
      BY <1>1, <3>2 DEF InLine, IInv, Counted, Balanced
    <3>6. /\ Cardinality(Of("INDENT")) \in Nat
          /\ Cardinality(Of("DEDENT")) \in Nat /\ Len(scopeLevels) \in Nat
      BY OfFinite, LenProperties DEF IInv, Open, TypeOK
    <3>7. Cardinality(Of("INDENT")) - Cardinality(Of("DEDENT"))
            = Len(scopeLevels) - 1
      BY <3>5, <3>6
    <3> QED BY <3>1, <3>4, <3>7, DepthAdded DEF IInv, Open
  <2> QED BY <2>1, <2>2
<1> QED BY <1>1, <1>2, <1>3, <1>4 DEF Rule!Pass, At

(* An ill placed line is rejected.                                         *)
LEMMA Rejects ==
  ASSUME IInv, IInv', IndentNotFromZero \/ (IndentDedent /\ status' = "threw")
  PROVE  Rule!Reject
<1>1. /\ Lexing("INITIAL", "indent") /\ UNCHANGED <<doc, line, rest, tokens>>
      /\ status' = "threw"
  <2>1. "lexing" # "threw"
    OBVIOUS
  <2> QED BY <2>1 DEF IndentNotFromZero, IndentDedent, Indented, Lexing
<1>2. line \in 1 .. Len(doc) /\ line \in Nat /\ Len(doc) \in Nat
  BY <1>1, AtBlanks DEF IInv
<1>3. ~ Rule!WellPlaced(doc, line)
  BY <1>1, Closed, NotFromZero DEF IInv
<1>4. Verdict = "reading" /\ Verdict' = "rejected"
  BY <1>1 DEF Verdict, Lexing
<1>5. DepthSeen' = DepthSeen
  BY <1>1, DepthKept DEF IInv, Open
<1>6. At + 1 = line /\ At < Len(doc) /\ UNCHANGED At
  BY <1>1, <1>2 DEF At, Lexing
<1> QED BY <1>1, <1>3, <1>4, <1>5, <1>6 DEF Rule!Reject, At

(* The end of the input is where all lines have passed.                    *)
LEMMA Finishes ==
  ASSUME IInv, IInv', EndOfInput
  PROVE  Rule!Finish
<1>1. /\ status = "lexing" /\ line > Len(doc) /\ status' = "eof"
      /\ UNCHANGED <<doc, line, rest, tokens>>
  BY DEF EndOfInput, AtEnd
<1>2. line \in Nat /\ Len(doc) \in Nat
  BY LenProperties DEF IInv, Open, TypeOK
<1>3. At = Len(doc) /\ UNCHANGED At
  BY <1>1, <1>2 DEF IInv, Open, Nested, At
<1>4. DepthSeen' = DepthSeen
  BY <1>1, DepthKept DEF IInv, Open
<1>5. Verdict = "reading" /\ Verdict' = "finished"
  BY <1>1 DEF Verdict
<1> QED BY <1>1, <1>3, <1>4, <1>5 DEF Rule!Finish, At

(* The stack is empty at the last line break of blank lines alone.         *)
LEMMA GivesUp ==
  ASSUME IInv, IInv', NewlineOnEmptyStack
  PROVE  Rule!Undefined
<1>1. /\ Lexing("NORMAL", "newline") /\ line = Len(doc) /\ scopeLevels = <<>>
      /\ status' = "undefined" /\ UNCHANGED <<doc, line, rest, tokens>>
  BY DEF NewlineOnEmptyStack
<1>2. line \in Nat /\ doc \in Seq(Line)
  BY DEF IInv, Open, TypeOK
<1>3. OpenAt(doc, line + 1) = {}
  BY <1>1 DEF IInv, Open, Nested, Lexing, BehindLine
<1>4. \A l \in 1 .. Len(doc) : ~ Rule!HasLayout(doc, l)
  <2>1. line + 1 \in 1 .. Len(doc) + 1 /\ line + 1 - 1 = line
    BY <1>1, <1>2
  <2> QED BY <1>1, <1>2, <1>3, <2>1, LastLine
<1>5. DepthSeen' = DepthSeen
  BY <1>1, DepthKept DEF IInv, Open
<1>6. Verdict = "reading" /\ Verdict' = "undefined"
  BY <1>1 DEF Verdict, Lexing
<1>7. At = Len(doc) /\ UNCHANGED At
  BY <1>1 DEF At, Lexing
<1> QED BY <1>1, <1>4, <1>5, <1>6, <1>7 DEF Rule!Undefined, At

(* No other step is one that the rule sees.                                *)
LEMMA Stutters ==
  ASSUME IInv, IInv',
         \/ IndentSame \/ IndentDeeper \/ (IndentDedent /\ status' # "threw")
         \/ LexNoMatch \/ NewlineAtEnd \/ Newline \/ UNCHANGED vars
  PROVE  UNCHANGED Rule!vars
<1>1. /\ UNCHANGED doc
      /\ UNCHANGED tokens \/ Emit("INDENT") \/ Emit("DEDENT")
      /\ UNCHANGED status \/ (status = "lexing" /\ status' = "nomatch")
  BY DEF IndentSame, IndentDeeper, IndentDedent, Indented, LexNoMatch, Lexing,
         NewlineAtEnd, Newline, vars
<1>2. DepthSeen' = DepthSeen
  BY <1>1, DepthKept DEF IInv, Open
<1>3. Verdict' = Verdict
  BY <1>1 DEF Verdict
<1>4. line \in Nat
  BY DEF IInv, Open, TypeOK
<1>5. UNCHANGED At
  BY <1>4 DEF At, IndentSame, IndentDeeper, IndentDedent, Indented, LexNoMatch,
              Lexing, NewlineAtEnd, Newline, vars
<1> QED BY <1>1, <1>2, <1>3, <1>5 DEF Rule!vars, At

(* Where the lexer begins, no line has passed.                             *)
LEMMA BeginsTheRule == Init => Rule!Init
<1> SUFFICES ASSUME Init PROVE Rule!Init
  OBVIOUS
<1>1. \A x \in Line : x \in Rule!Line
  BY DEF Line, Bodies, Rule!Line, Rule!Bodies
<1>2. doc \in Seq(Rule!Line)
  BY <1>1, TypeInit, LenProperties DEF TypeOK
<1>3. DepthSeen = <<>>
  <2>1. Of("TEXT") = {}
    BY DEF Init, Of
  <2>2. 1 .. Cardinality(Of("TEXT")) = {}
    BY <2>1, FS_EmptySet
  <2> QED BY <2>2 DEF DepthSeen
<1>4. Verdict = "reading" /\ At = 0
  BY DEF Init, Verdict, At
<1> QED BY <1>2, <1>3, <1>4 DEF Rule!Init, At

(***************************************************************************)
(* The stack machine implements the off-side rule, whatever the inputs: a  *)
(* line of text gets the depth of the lines that enclose it, just the ill  *)
(* placed lines are rejected, and only blank input is undefined.           *)
(***************************************************************************)
THEOREM ImplementsLayoutCorrect == Spec => ImplementsLayout
<1>1. IInv /\ IInv' /\ [Next]_vars => [Rule!Next]_(Rule!vars)
  BY Passes, Rejects, Finishes, GivesUp, Stutters DEF Next, Rule!Next
<1> QED BY <1>1, IInvInit, IInvStep, BeginsTheRule, PTL
        DEF Spec, ImplementsLayout, Rule!Spec
=============================================================================
