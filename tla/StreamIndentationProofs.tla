---------------------- MODULE StreamIndentationProofs ----------------------
(***************************************************************************)
(* Proofs about StreamIndentation, for all texts, buffers and levels: used *)
(* as the backends use them the manipulators leave nothing but blanks      *)
(* behind the write position, a line begins at the level of the stream,    *)
(* and the buffer holds the lines that LineWriter keeps.                   *)
(***************************************************************************)
EXTENDS StreamIndentation, DataLemmas

Characters == {"nl", "sp"} \cup UNION {ToSet(t) : t \in Texts}

(* What is written is never begun with a blank.                            *)
FirstNotBlank == buffer # <<>> => buffer[1] # "sp"

(* Before anything is written there is no level to leave.                  *)
BeginsAtZero == buffer = <<>> => level = 0

IInv == TypeOK /\ OnlyBlanksBehind /\ FirstNotBlank /\ BeginsAtZero /\ AtLevel

-----------------------------------------------------------------------------
(* The indentation of a level is two blanks each.                          *)
LEMMA BlanksFacts ==
  ASSUME NEW n \in Nat
  PROVE  /\ Blanks(n) \in Seq(Characters)
         /\ Len(Blanks(n)) = 2 * n
         /\ \A i \in 1 .. 2 * n : Blanks(n)[i] = "sp"
<1>1. 2 * n \in Nat /\ "sp" \in Characters
  BY DEF Characters
<1> DEFINE m == 2 * n
<1> HIDE DEF m
<1>2. m \in Nat
  BY <1>1 DEF m
<1>3. /\ [i \in 1 .. m |-> "sp"] \in Seq(Characters)
      /\ Len([i \in 1 .. m |-> "sp"]) = m
  BY <1>1, <1>2
<1> QED BY <1>3 DEF Blanks, m

(* A text is made of characters, none of them a line break.                *)
LEMMA TextFacts ==
  ASSUME NEW t \in Texts
  PROVE  /\ t \in Seq(Characters)
         /\ Len(t) \in Nat
         /\ \A i \in 1 .. Len(t) : t[i] # "nl"
<1>1. t \in Seq(STRING) /\ "nl" \notin ToSet(t)
  BY StreamAssumption
<1>2. Len(t) \in Nat /\ DOMAIN t = 1 .. Len(t) /\ t \in [1 .. Len(t) -> STRING]
  BY <1>1, LenProperties
<1>3. \A i \in 1 .. Len(t) : t[i] \in ToSet(t)
  BY <1>2 DEF ToSet
<1>4. ToSet(t) \subseteq Characters
  BY DEF Characters
<1>5. t \in [1 .. Len(t) -> Characters]
  BY <1>2, <1>3, <1>4
<1>6. t \in Seq(Characters)
  BY <1>2, <1>5, SeqDef
<1> QED BY <1>1, <1>2, <1>3, <1>6

(* What is behind some characters of a sequence.                           *)
LEMMA RestFacts ==
  ASSUME NEW S, NEW s \in Seq(S), NEW m \in Nat
  PROVE  LET rest == SubSeq(s, m + 1, Len(s))
         IN  /\ rest \in Seq(S)
             /\ Len(rest) = IF m < Len(s) THEN Len(s) - m ELSE 0
             /\ \A i \in 1 .. Len(s) - m : rest[i] = s[m + i]
<1> DEFINE n == Len(s)
           rest == SubSeq(s, m + 1, n)
<1>1. n \in Nat /\ \A i \in 1 .. n : s[i] \in S
  BY LenProperties
<1> HIDE DEF n
<1>2. m + 1 \in Int /\ n \in Int /\ \A i \in m + 1 .. n : s[i] \in S
  BY <1>1
<1>3. /\ rest \in Seq(S)
      /\ Len(rest) = IF m + 1 <= n THEN n - (m + 1) + 1 ELSE 0
      /\ \A i \in 1 .. n - (m + 1) + 1 : rest[i] = s[m + 1 + i - 1]
  BY ONLY <1>2, SubSeqProperties
<1> HIDE DEF rest
<1>4. Len(rest) = IF m < n THEN n - m ELSE 0
  BY <1>1, <1>3
<1>5. ASSUME NEW i \in 1 .. n - m
      PROVE  rest[i] = s[m + i]
  <2>1. i \in 1 .. n - (m + 1) + 1 /\ m + 1 + i - 1 = m + i
    BY <1>1
  <2> QED BY <1>3, <2>1
<1> QED BY <1>3, <1>4, <1>5 DEF n, rest

(* Three sequences after one another.                                      *)
LEMMA ThreeFacts ==
  ASSUME NEW S, NEW f \in Seq(S), NEW s \in Seq(S), NEW b \in Seq(S)
  PROVE  LET all == (f \o s) \o b
             p == Len(f)
             k == Len(s)
         IN  /\ all \in Seq(S)
             /\ Len(all) = p + k + Len(b)
             /\ \A i \in 1 .. Len(all) :
                  all[i] = IF i <= p THEN f[i]
                           ELSE IF i <= p + k THEN s[i - p]
                           ELSE b[i - (p + k)]
<1> DEFINE p == Len(f)
           k == Len(s)
           l == Len(b)
           fs == f \o s
           all == fs \o b
<1>1. p \in Nat /\ k \in Nat /\ l \in Nat
  BY LenProperties
<1>2. /\ fs \in Seq(S)
      /\ Len(fs) = p + k
      /\ \A i \in 1 .. p + k : fs[i] = IF i <= p THEN f[i] ELSE s[i - p]
  BY ConcatProperties
<1> HIDE DEF fs
<1>3. /\ all \in Seq(S)
      /\ Len(all) = Len(fs) + l
      /\ \A i \in 1 .. Len(fs) + l :
           all[i] = IF i <= Len(fs) THEN fs[i] ELSE b[i - Len(fs)]
  <2>1. fs \in Seq(S) /\ b \in Seq(S)
    BY <1>2
  <2> QED BY ONLY <2>1, ConcatProperties
<1> HIDE DEF all, p, k, l
<1>4. Len(all) = p + k + l
  BY <1>1, <1>2, <1>3
<1>5. ASSUME NEW i \in 1 .. Len(all)
      PROVE  all[i] = IF i <= p THEN f[i]
                      ELSE IF i <= p + k THEN s[i - p] ELSE b[i - (p + k)]
  <2>1. i \in 1 .. Len(fs) + l
    BY <1>2, <1>4
  <2>2. all[i] = IF i <= p + k THEN fs[i] ELSE b[i - (p + k)]
    BY <1>2, <1>3, <2>1
  <2>3. CASE i <= p + k
    <3>1. i \in 1 .. p + k
      BY <1>1, <1>4, <2>3
    <3> QED BY <1>2, <2>2, <2>3, <3>1
  <2>4. CASE ~ (i <= p + k)
    <3>1. ~ (i <= p)
      BY <1>1, <1>4, <2>4
    <3> QED BY <2>2, <2>4, <3>1
  <2> QED BY <2>3, <2>4
<1> QED BY <1>3, <1>4, <1>5 DEF all, fs, p, k, l

(* Writing changes the characters it is written over and no other.         *)
LEMMA OverwriteFacts ==
  ASSUME buffer \in Seq(Characters), NEW p \in 0 .. Len(buffer),
         NEW s \in Seq(Characters), Overwrite(p, s)
  PROVE  /\ buffer' \in Seq(Characters)
         /\ tellp' = p + Len(s)
         /\ Len(buffer') = IF p + Len(s) > Len(buffer) THEN p + Len(s)
                                                       ELSE Len(buffer)
         /\ \A i \in 1 .. Len(buffer') :
              buffer'[i] = IF i <= p THEN buffer[i]
                           ELSE IF i <= p + Len(s) THEN s[i - p]
                           ELSE buffer[i]
<1> DEFINE n == Len(buffer)
           k == Len(s)
           f == SubSeq(buffer, 1, p)
           m == p + k
           b == SubSeq(buffer, m + 1, n)
<1>1. n \in Nat /\ k \in Nat /\ p \in Nat /\ p <= n
      /\ \A i \in 1 .. n : buffer[i] \in Characters
  BY LenProperties
<1>2. f \in Seq(Characters) /\ Len(f) = p
      /\ \A i \in 1 .. p : f[i] = buffer[i]
  <2>1. 1 \in Int /\ p \in Int /\ \A i \in 1 .. p : buffer[i] \in Characters
    BY <1>1
  <2>2. /\ f \in Seq(Characters)
        /\ Len(f) = IF 1 <= p THEN p - 1 + 1 ELSE 0
        /\ \A i \in 1 .. p - 1 + 1 : f[i] = buffer[1 + i - 1]
    BY ONLY <2>1, SubSeqProperties
  <2> HIDE DEF f
  <2> QED BY <1>1, <2>2
<1>3. m \in Nat
  BY <1>1
<1>4. buffer' = (f \o s) \o b /\ tellp' = m
  BY DEF Overwrite
<1> HIDE DEF m
<1>5. /\ b \in Seq(Characters)
      /\ Len(b) = IF m < n THEN n - m ELSE 0
      /\ \A i \in 1 .. n - m : b[i] = buffer[m + i]
  BY <1>3, RestFacts
<1> HIDE DEF f, b
<1>6. /\ buffer' \in Seq(Characters)
      /\ Len(buffer') = Len(f) + Len(s) + Len(b)
      /\ \A i \in 1 .. Len(buffer') :
           buffer'[i] = IF i <= Len(f) THEN f[i]
                        ELSE IF i <= Len(f) + Len(s) THEN s[i - Len(f)]
                        ELSE b[i - (Len(f) + Len(s))]
  BY <1>2, <1>4, <1>5, ThreeFacts
<1>7. /\ Len(buffer') = m + Len(b)
      /\ \A i \in 1 .. Len(buffer') :
           buffer'[i] = IF i <= p THEN f[i]
                        ELSE IF i <= m THEN s[i - p] ELSE b[i - m]
  BY <1>2, <1>6 DEF m
<1>8. Len(buffer') = IF m > n THEN m ELSE n
  <2> HIDE DEF n
  <2> QED BY <1>1, <1>3, <1>5, <1>7
<1>9. ASSUME NEW i \in 1 .. Len(buffer')
      PROVE  buffer'[i] = IF i <= p THEN buffer[i]
                          ELSE IF i <= m THEN s[i - p] ELSE buffer[i]
  <2>1. CASE i <= m
    <3>1. i <= p => i \in 1 .. p
      BY <1>1, <1>8
    <3> QED BY <1>2, <1>7, <2>1, <3>1
  <2>2. CASE ~ (i <= m)
    <3> HIDE DEF n
    <3>1. i \in Int /\ i <= n /\ i > m
      BY <1>1, <1>3, <1>8, <2>2
    <3>2. i - m \in 1 .. n - m /\ m + (i - m) = i /\ ~ (i <= p)
      BY <1>1, <1>3, <3>1 DEF m
    <3>3. b[i - m] = buffer[i]
      BY <1>5, <3>2
    <3> QED BY <1>7, <2>2, <3>2, <3>3
  <2> QED BY <2>1, <2>2
<1> QED BY <1>4, <1>6, <1>8, <1>9 DEF m, n, k

-----------------------------------------------------------------------------
(***************************************************************************)
(* On a line without text the last character that is not a blank is its    *)
(* line break, and the write position is where the level puts it.          *)
(***************************************************************************)
LEMMA LineBreakBefore ==
  ASSUME IInv, buffer # <<>>, ~ HasText
  PROVE  \E b \in 1 .. tellp :
           /\ buffer[b] = "nl"
           /\ \A p \in b + 1 .. Len(buffer) : buffer[p] = "sp"
           /\ tellp = b + 2 * level
<1> DEFINE n == Len(buffer)
           Written == {p \in 1 .. tellp : buffer[p] # "sp"}
<1>1. n \in Nat /\ n > 0 /\ tellp \in 0 .. n
  BY LenProperties, EmptySeq DEF IInv, TypeOK
<1>2. \A p \in tellp + 1 .. n : buffer[p] = "sp"
  BY DEF IInv, OnlyBlanksBehind
<1>3. buffer[1] # "sp"
  BY DEF IInv, FirstNotBlank
<1>4. 1 \in Written
  <2> HIDE DEF n
  <2>1. tellp # 0
    BY <1>1, <1>2, <1>3
  <2> QED BY <1>1, <1>3, <2>1
<1>5. PICK b \in Written : \A p \in Written : b >= p
  <2>1. tellp \in Nat /\ Written \subseteq 1 .. tellp /\ Written # {}
    BY <1>1, <1>4
  <2> HIDE DEF Written
  <2> QED BY <2>1, HasGreatest
<1>6. b \in 1 .. tellp /\ buffer[b] # "sp"
  BY <1>5
<1>7. ASSUME NEW p \in b + 1 .. n
      PROVE  buffer[p] = "sp"
  <2> HIDE DEF n
  <2>1. CASE p <= tellp
    BY <1>1, <1>5, <1>6, <2>1
  <2>2. CASE p > tellp
    BY <1>1, <1>2, <1>6, <2>2
  <2> QED BY <1>1, <1>6, <2>1, <2>2
<1>8. buffer[b] = "nl"
  <2>1. SUFFICES ASSUME buffer[b] # "nl"
                 PROVE  OnLine(b)
    BY <1>6 DEF HasText
  <2>2. \A q \in b + 1 .. tellp : buffer[q] # "nl"
    <3> HIDE DEF n
    <3> QED BY <1>1, <1>6, <1>7
  <2>3. \A q \in b .. tellp : buffer[q] # "nl"
    BY <1>1, <1>6, <2>1, <2>2
  <2> QED BY <1>6, <2>3 DEF OnLine
<1>9. b \in Breaks
  BY <1>1, <1>6, <1>8 DEF Breaks
<1>10. tellp = b + 2 * level
  BY <1>7, <1>9 DEF IInv, AtLevel
<1> QED BY <1>6, <1>7, <1>8, <1>10

(* The last character but one that is not a blank, from where it is known. *)
LEMMA NotBlankMax ==
  ASSUME tellp \in Nat, NEW q \in 1 .. tellp - 1, buffer[q] # "sp"
  PROVE  /\ NotBlank # {}
         /\ Max(NotBlank) \in q .. tellp - 1
         /\ buffer[Max(NotBlank)] # "sp"
<1>1. q \in NotBlank
  BY DEF NotBlank
<1>2. NotBlank \subseteq 1 .. tellp - 1 /\ tellp - 1 \in Nat
  BY DEF NotBlank
<1>3. \E x \in NotBlank : \A y \in NotBlank : x >= y
  BY <1>1, <1>2, HasGreatest
<1>4. Max(NotBlank) \in NotBlank /\ \A y \in NotBlank : Max(NotBlank) >= y
  BY <1>3 DEF Max
<1> HIDE DEF NotBlank
<1>5. Max(NotBlank) \in 1 .. tellp - 1 /\ Max(NotBlank) >= q
  BY <1>1, <1>2, <1>4
<1> QED BY <1>1, <1>4, <1>5 DEF NotBlank

(* Behind a text beginOfLine does nothing.                                 *)
LEMMA BehindText ==
  ASSUME IInv, HasText, ~ Alone, NEW newLevel, beginOfLine(newLevel)
  PROVE  UNCHANGED <<buffer, tellp>>
<1>1. tellp \in Nat
  BY LenProperties DEF IInv, TypeOK
<1>2. PICK p \in 1 .. tellp : OnLine(p)
  BY DEF HasText
<1>3. PICK q \in 1 .. tellp - 1 : OnLine(q)
  BY <1>1, <1>2 DEF Alone
<1>4. buffer[q] # "sp" /\ \A r \in q .. tellp : buffer[r] # "nl"
  BY <1>3 DEF OnLine
<1>5. /\ NotBlank # {}
      /\ Max(NotBlank) \in q .. tellp - 1
  BY <1>1, <1>4, NotBlankMax
<1>6. buffer[Max(NotBlank)] # "nl"
  BY <1>1, <1>4, <1>5
<1>7. ~ (tellp <= 1)
  BY <1>1
<1> QED BY <1>5, <1>6, <1>7 DEF beginOfLine

(* On a line that has none it writes the blanks anew, from the line break. *)
LEMMA WithoutText ==
  ASSUME IInv, buffer # <<>>, ~ HasText, level > 0,
         NEW newLevel \in Nat, beginOfLine(newLevel)
  PROVE  \E b \in 1 .. tellp :
           /\ buffer[b] = "nl"
           /\ \A p \in b + 1 .. Len(buffer) : buffer[p] = "sp"
           /\ Overwrite(b, Blanks(newLevel))
<1>1. PICK b \in 1 .. tellp :
        /\ buffer[b] = "nl"
        /\ \A p \in b + 1 .. Len(buffer) : buffer[p] = "sp"
        /\ tellp = b + 2 * level
  BY LineBreakBefore
<1>2. /\ tellp \in 0 .. Len(buffer) /\ Len(buffer) \in Nat
      /\ level \in Nat /\ MaxLevel \in Nat
  BY LenProperties, StreamAssumption DEF IInv, TypeOK
<1>3. b \in 1 .. tellp - 1 /\ tellp \in Nat
  BY <1>1, <1>2
<1>4. /\ NotBlank # {}
      /\ Max(NotBlank) \in b .. tellp - 1
      /\ buffer[Max(NotBlank)] # "sp"
  BY <1>1, <1>3, NotBlankMax
<1>5. Max(NotBlank) = b
  <2> DEFINE m == Max(NotBlank)
  <2> HIDE DEF m
  <2>1. m \in b .. tellp - 1 /\ buffer[m] # "sp"
    BY <1>4 DEF m
  <2>2. m \notin b + 1 .. Len(buffer)
    BY <1>1, <2>1
  <2>3. m = b
    BY <1>2, <1>3, <2>1, <2>2
  <2> QED BY <2>3 DEF m
<1>6. ~ (tellp <= 1)
  BY <1>3
<1> QED BY <1>1, <1>4, <1>5, <1>6 DEF beginOfLine

-----------------------------------------------------------------------------
(* What the invariant says of the numbers and the characters.              *)
LEMMA Numbers ==
  ASSUME IInv
  PROVE  /\ buffer \in Seq(Characters)
         /\ Len(buffer) \in Nat /\ tellp \in 0 .. Len(buffer)
         /\ level \in Nat /\ level <= MaxLevel /\ MaxLevel \in Nat
         /\ \A p \in tellp + 1 .. Len(buffer) : buffer[p] = "sp"
         /\ buffer = <<>> <=> Len(buffer) = 0
<1>1. buffer \in Seq(Characters)
  BY DEF IInv, TypeOK, Characters
<1>2. Len(buffer) \in Nat /\ (buffer = <<>> <=> Len(buffer) = 0)
  BY <1>1, LenProperties, EmptySeq
<1>3. level \in Nat /\ level <= MaxLevel /\ MaxLevel \in Nat
  BY StreamAssumption DEF IInv, TypeOK
<1> QED BY <1>1, <1>2, <1>3 DEF IInv, TypeOK, OnlyBlanksBehind

(* A text that begins with a blank is behind another one on its line.      *)
LEMMA WriteStep ==
  ASSUME IInv, NEW t \in Texts, t # <<>> /\ t[1] = "sp" => HasText, Write(t)
  PROVE  IInv'
<1> DEFINE n == Len(buffer)
           k == Len(t)
<1>1. /\ buffer \in Seq(Characters) /\ n \in Nat /\ tellp \in 0 .. n
      /\ \A p \in tellp + 1 .. n : buffer[p] = "sp"
      /\ buffer = <<>> <=> n = 0
  BY Numbers
<1>2. /\ t \in Seq(Characters) /\ k \in Nat
      /\ \A i \in 1 .. k : t[i] # "nl"
  BY TextFacts
<1>3. t = <<>> <=> k = 0
  BY <1>2, EmptySeq
<1>4. /\ buffer' \in Seq(Characters)
      /\ tellp' = tellp + k
      /\ Len(buffer') = IF tellp + k > n THEN tellp + k ELSE n
      /\ \A i \in 1 .. Len(buffer') :
           buffer'[i] = IF i <= tellp THEN buffer[i]
                        ELSE IF i <= tellp + k THEN t[i - tellp]
                        ELSE buffer[i]
  BY <1>1, <1>2, OverwriteFacts DEF Write
<1> HIDE DEF n, k
<1>5. Len(buffer') \in Nat /\ Len(buffer') >= n /\ tellp' \in 0 .. Len(buffer')
  BY <1>1, <1>2, <1>4
<1>6. TypeOK'
  BY <1>4, <1>5 DEF IInv, TypeOK, Characters, Write
<1>7. OnlyBlanksBehind'
  <2>1. ASSUME NEW p \in tellp' + 1 .. Len(buffer')
        PROVE  buffer'[p] = "sp"
    <3>1. p \in 1 .. Len(buffer') /\ p > tellp + k /\ p \in tellp + 1 .. n
      BY <1>1, <1>2, <1>4, <1>5
    <3>2. ~ (p <= tellp) /\ ~ (p <= tellp + k)
      BY <1>1, <1>2, <3>1
    <3> QED BY <1>1, <1>4, <3>1, <3>2
  <2> QED BY <2>1 DEF OnlyBlanksBehind
<1>8. FirstNotBlank'
  <2>1. SUFFICES ASSUME buffer' # <<>>
                 PROVE  buffer'[1] # "sp"
    BY DEF FirstNotBlank
  <2>2. Len(buffer') # 0
    BY <1>4, <2>1, EmptySeq
  <2>3. 1 \in 1 .. Len(buffer')
    BY <1>5, <2>2
  <2>4. CASE tellp > 0
    <3>1. n # 0 /\ 1 <= tellp
      BY <1>1, <2>4
    <3>2. buffer[1] # "sp"
      BY <1>1, <3>1 DEF IInv, FirstNotBlank
    <3> QED BY <1>4, <2>3, <3>1, <3>2
  <2>5. CASE tellp = 0
    <3>1. n = 0
      <4>1. n # 0 => buffer[1] = "sp"
        BY <1>1, <2>5
      <4> QED BY <1>1, <4>1 DEF IInv, FirstNotBlank
    <3>2. k > 0
      BY <1>2, <1>4, <2>2, <2>5, <3>1
    <3>3. ~ HasText
      BY <2>5 DEF HasText
    <3>4. t[1] # "sp"
      BY <1>2, <1>3, <3>2, <3>3
    <3>5. buffer'[1] = t[1]
      BY <1>2, <1>4, <2>3, <2>5, <3>2
    <3> QED BY <3>4, <3>5
  <2> QED BY <1>1, <2>4, <2>5
<1>9. AtLevel'
  <2>1. SUFFICES ASSUME NEW b \in Breaks',
                        \A p \in b + 1 .. Len(buffer') : buffer'[p] = "sp"
                 PROVE  tellp' = b + 2 * level'
    BY DEF AtLevel
  <2>2. b \in 1 .. Len(buffer') /\ buffer'[b] = "nl"
    BY DEF Breaks
  <2>3. b <= tellp
    <3>1. CASE tellp < b /\ b <= tellp + k
      <4>1. buffer'[b] = t[b - tellp] /\ b - tellp \in 1 .. k
        BY <1>1, <1>2, <1>4, <2>2, <3>1
      <4> QED BY <1>2, <2>2, <4>1
    <3>2. CASE tellp + k < b
      <4>1. b \in tellp + 1 .. n /\ buffer'[b] = buffer[b]
        BY <1>1, <1>2, <1>4, <2>2, <3>2
      <4> QED BY <1>1, <2>2, <4>1
    <3> QED BY <1>1, <1>2, <2>2, <3>1, <3>2
  <2>4. b \in Breaks /\ buffer[b] = "nl"
    BY <1>1, <1>4, <2>2, <2>3 DEF Breaks, n
  <2>5. \A p \in b + 1 .. tellp : buffer[p] = "sp"
    <3>1. ASSUME NEW p \in b + 1 .. tellp
          PROVE  buffer[p] = "sp"
      <4>1. p \in b + 1 .. Len(buffer') /\ p \in 1 .. Len(buffer') /\ p <= tellp
        BY <1>1, <1>5, <2>2
      <4> QED BY <1>4, <2>1, <4>1
    <3> QED BY <3>1
  <2>6. ~ HasText
    <3>1. ASSUME NEW p \in 1 .. tellp, OnLine(p)
          PROVE  FALSE
      <4>1. buffer[p] # "sp" /\ \A q \in p .. tellp : buffer[q] # "nl"
        BY <3>1 DEF OnLine
      <4>2. ~ (p <= b)
        BY <1>1, <2>2, <2>3, <2>4, <4>1
      <4> QED BY <1>1, <2>2, <2>5, <4>1, <4>2
    <3> QED BY <3>1 DEF HasText
  <2>7. k = 0
    <3>1. SUFFICES ASSUME k > 0
                   PROVE  FALSE
      BY <1>2
    <3>2. tellp + 1 \in 1 .. Len(buffer') /\ tellp + 1 \in b + 1 .. Len(buffer')
      BY <1>1, <1>2, <1>4, <1>5, <2>2, <2>3, <3>1
    <3>3. buffer'[tellp + 1] = t[1]
      BY <1>1, <1>2, <1>4, <3>1, <3>2
    <3>4. t[1] = "sp"
      BY <2>1, <3>2, <3>3
    <3> QED BY <1>3, <2>6, <3>1, <3>4
  <2>8. \A p \in b + 1 .. n : buffer[p] = "sp"
    BY <1>1, <2>2, <2>3, <2>5
  <2>9. tellp = b + 2 * level
    BY <2>4, <2>8 DEF IInv, AtLevel, n
  <2> QED BY <1>1, <1>4, <2>7, <2>9 DEF Write
<1>10. BeginsAtZero'
  <2>1. SUFFICES ASSUME buffer' = <<>>
                 PROVE  level' = 0
    BY DEF BeginsAtZero
  <2>2. Len(buffer') = 0
    BY <1>4, <2>1, EmptySeq
  <2>3. n = 0
    BY <1>1, <1>5, <2>2
  <2> QED BY <1>1, <2>3 DEF IInv, BeginsAtZero, Write
<1> QED BY <1>6, <1>7, <1>8, <1>9, <1>10 DEF IInv

(* What a line break writes.                                               *)
LEMMA BreakFacts ==
  ASSUME level \in Nat
  PROVE  LET s == <<"nl">> \o Blanks(level)
             k == 1 + 2 * level
         IN  /\ s \in Seq(Characters) /\ Len(s) = k /\ k \in Nat
             /\ s[1] = "nl"
             /\ \A i \in 2 .. k : s[i] = "sp"
<1> DEFINE s == <<"nl">> \o Blanks(level)
           k == 1 + 2 * level
<1>1. /\ Blanks(level) \in Seq(Characters)
      /\ Len(Blanks(level)) = 2 * level
      /\ \A i \in 1 .. 2 * level : Blanks(level)[i] = "sp"
  BY BlanksFacts
<1>2. <<"nl">> \in Seq(Characters) /\ Len(<<"nl">>) = 1 /\ <<"nl">>[1] = "nl"
  BY DEF Characters
<1>3. /\ s \in Seq(Characters)
      /\ Len(s) = Len(<<"nl">>) + Len(Blanks(level))
      /\ \A i \in 1 .. Len(<<"nl">>) + Len(Blanks(level)) :
           s[i] = IF i <= Len(<<"nl">>) THEN <<"nl">>[i]
                  ELSE Blanks(level)[i - Len(<<"nl">>)]
  BY ONLY <1>1, <1>2, ConcatProperties
<1> HIDE DEF s
<1>4. /\ Len(s) = 1 + 2 * level
      /\ \A i \in 1 .. 1 + 2 * level :
           s[i] = IF i <= 1 THEN "nl" ELSE Blanks(level)[i - 1]
  BY <1>1, <1>2, <1>3
<1>5. ASSUME NEW i \in 2 .. 1 + 2 * level
      PROVE  s[i] = "sp"
  <2>1. i \in 1 .. 1 + 2 * level /\ ~ (i <= 1) /\ i - 1 \in 1 .. 2 * level
    BY <1>1
  <2> QED BY <1>1, <1>4, <2>1
<1>6. s[1] = "nl"
  BY <1>1, <1>4
<1>7. k \in Nat
  BY ONLY level \in Nat
<1> QED BY <1>3, <1>4, <1>5, <1>6, <1>7 DEF s

(* A line break, and the blanks of the line that it begins.                *)
LEMMA EndlStep ==
  ASSUME IInv, endl
  PROVE  IInv'
<1> DEFINE n == Len(buffer)
           s == <<"nl">> \o Blanks(level)
           k == 1 + 2 * level
<1>1. /\ buffer \in Seq(Characters) /\ n \in Nat /\ tellp \in 0 .. n
      /\ level \in Nat
      /\ \A p \in tellp + 1 .. n : buffer[p] = "sp"
      /\ buffer = <<>> <=> n = 0
  BY Numbers
<1>2. /\ s \in Seq(Characters) /\ Len(s) = k /\ k \in Nat
      /\ s[1] = "nl"
      /\ \A i \in 2 .. k : s[i] = "sp"
  BY <1>1, BreakFacts
<1>3. Overwrite(tellp, s) /\ level' = level /\ outcome' = "done"
  BY DEF endl
<1> HIDE DEF s, k
<1>4. /\ buffer' \in Seq(Characters)
      /\ tellp' = tellp + k
      /\ Len(buffer') = IF tellp + k > n THEN tellp + k ELSE n
      /\ \A i \in 1 .. Len(buffer') :
           buffer'[i] = IF i <= tellp THEN buffer[i]
                        ELSE IF i <= tellp + k THEN s[i - tellp]
                        ELSE buffer[i]
  BY <1>1, <1>2, <1>3, OverwriteFacts
<1> HIDE DEF n
<1>5. Len(buffer') \in Nat /\ Len(buffer') >= n /\ tellp' \in 0 .. Len(buffer')
      /\ k >= 1
  BY <1>1, <1>2, <1>4 DEF k
<1>6. TypeOK'
  BY <1>3, <1>4, <1>5 DEF IInv, TypeOK, Characters
<1>7. ASSUME NEW p \in tellp + 2 .. Len(buffer')
      PROVE  buffer'[p] = "sp"
  <2>1. CASE p <= tellp + k
    <3>1. p \in 1 .. Len(buffer') /\ ~ (p <= tellp) /\ p - tellp \in 2 .. k
      BY <1>1, <1>2, <2>1
    <3> QED BY <1>2, <1>4, <2>1, <3>1
  <2>2. CASE ~ (p <= tellp + k)
    <3>1. p \in tellp + 1 .. n /\ p \in 1 .. Len(buffer') /\ ~ (p <= tellp)
      BY <1>1, <1>2, <1>4, <2>2
    <3> QED BY <1>1, <1>4, <2>2, <3>1
  <2> QED BY <2>1, <2>2
<1>8. buffer'[tellp + 1] = "nl"
  <2> DEFINE i == tellp + 1
  <2>1. /\ i \in 1 .. Len(buffer') /\ ~ (i <= tellp)
        /\ i <= tellp + k /\ i - tellp = 1
    BY <1>1, <1>2, <1>4, <1>5
  <2> HIDE DEF i
  <2>2. buffer'[i] = s[i - tellp]
    BY <1>4, <2>1
  <2> QED BY <1>2, <2>1, <2>2 DEF i
<1>9. OnlyBlanksBehind'
  <2>1. \A p \in tellp' + 1 .. Len(buffer') : p \in tellp + 2 .. Len(buffer')
    BY <1>1, <1>2, <1>4, <1>5
  <2> QED BY <1>7, <2>1 DEF OnlyBlanksBehind
<1>10. FirstNotBlank'
  <2>1. CASE tellp = 0
    BY <1>8, <2>1 DEF FirstNotBlank
  <2>2. CASE tellp > 0
    <3>1. n # 0 /\ 1 <= tellp /\ 1 \in 1 .. Len(buffer')
      BY <1>1, <1>5, <2>2
    <3>2. buffer[1] # "sp"
      BY <1>1, <3>1 DEF IInv, FirstNotBlank
    <3> QED BY <1>4, <3>1, <3>2 DEF FirstNotBlank
  <2> QED BY <1>1, <2>1, <2>2
<1>11. AtLevel'
  <2>1. SUFFICES ASSUME NEW b \in Breaks',
                        \A p \in b + 1 .. Len(buffer') : buffer'[p] = "sp"
                 PROVE  tellp' = b + 2 * level'
    BY DEF AtLevel
  <2>2. b \in 1 .. Len(buffer') /\ buffer'[b] = "nl"
    BY DEF Breaks
  <2>3. b \notin tellp + 2 .. Len(buffer')
    BY <1>7, <2>2
  <2>4. tellp + 1 \notin b + 1 .. Len(buffer')
    BY <1>8, <2>1
  <2>5. b = tellp + 1
    BY <1>1, <1>2, <1>4, <1>5, <2>2, <2>3, <2>4
  <2> QED BY <1>1, <1>3, <1>4, <2>5 DEF k
<1>12. BeginsAtZero'
  <2>1. Len(buffer') # 0
    BY <1>1, <1>2, <1>4, <1>5
  <2>2. buffer' # <<>>
    BY <1>4, <2>1, EmptySeq
  <2> QED BY <2>2 DEF BeginsAtZero
<1> QED BY <1>6, <1>9, <1>10, <1>11, <1>12 DEF IInv

(* The blanks of a line without text, written anew.                        *)
LEMMA AnewStep ==
  ASSUME IInv, level' \in 0 .. MaxLevel, outcome' = "done",
         NEW b \in 1 .. tellp, buffer[b] = "nl",
         \A p \in b + 1 .. Len(buffer) : buffer[p] = "sp",
         Overwrite(b, Blanks(level'))
  PROVE  IInv'
<1> DEFINE n == Len(buffer)
           l == level'
           k == 2 * l
           s == Blanks(l)
<1>1. /\ buffer \in Seq(Characters) /\ n \in Nat /\ tellp \in 0 .. n
      /\ l \in Nat /\ b \in 1 .. n
  BY Numbers
<1>2. s \in Seq(Characters) /\ Len(s) = k /\ \A i \in 1 .. k : s[i] = "sp"
  BY <1>1, BlanksFacts
<1>3. Overwrite(b, s) /\ b \in 0 .. n
  BY <1>1
<1> HIDE DEF s
<1>4. /\ buffer' \in Seq(Characters)
      /\ tellp' = b + k
      /\ Len(buffer') = IF b + k > n THEN b + k ELSE n
      /\ \A i \in 1 .. Len(buffer') :
           buffer'[i] = IF i <= b THEN buffer[i]
                        ELSE IF i <= b + k THEN s[i - b]
                        ELSE buffer[i]
  BY <1>1, <1>2, <1>3, OverwriteFacts
<1>5. k \in Nat
  <2> HIDE DEF l
  <2> QED BY <1>1
<1> HIDE DEF n, k
<1>6. Len(buffer') \in Nat /\ Len(buffer') >= n /\ tellp' \in 0 .. Len(buffer')
  BY <1>1, <1>4, <1>5
<1>7. TypeOK'
  BY <1>4, <1>6 DEF IInv, TypeOK, Characters
<1>8. ASSUME NEW p \in b + 1 .. Len(buffer')
      PROVE  buffer'[p] = "sp"
  <2>1. CASE p <= b + k
    <3>1. p \in 1 .. Len(buffer') /\ ~ (p <= b) /\ p - b \in 1 .. k
      BY <1>1, <1>5, <2>1
    <3> QED BY <1>2, <1>4, <2>1, <3>1
  <2>2. CASE ~ (p <= b + k)
    <3>1. p \in b + 1 .. n /\ p \in 1 .. Len(buffer') /\ ~ (p <= b)
      BY <1>1, <1>4, <1>5, <2>2
    <3> QED BY <1>4, <2>2, <3>1 DEF n
  <2> QED BY <2>1, <2>2
<1>9. OnlyBlanksBehind'
  <2>1. \A p \in tellp' + 1 .. Len(buffer') : p \in b + 1 .. Len(buffer')
    BY <1>1, <1>4, <1>5, <1>6
  <2> QED BY <1>8, <2>1 DEF OnlyBlanksBehind
<1>10. b \in 1 .. Len(buffer') /\ buffer'[b] = "nl"
  BY <1>1, <1>4, <1>6
<1>11. FirstNotBlank'
  <2>1. buffer # <<>> /\ 1 \in 1 .. Len(buffer') /\ 1 <= b
    BY <1>1, <1>6, Numbers DEF n
  <2> QED BY <1>4, <2>1 DEF IInv, FirstNotBlank
<1>12. AtLevel'
  <2>1. SUFFICES ASSUME NEW c \in Breaks',
                        \A p \in c + 1 .. Len(buffer') : buffer'[p] = "sp"
                 PROVE  tellp' = c + 2 * level'
    BY DEF AtLevel
  <2>2. c \in 1 .. Len(buffer') /\ buffer'[c] = "nl"
    BY DEF Breaks
  <2>3. c \notin b + 1 .. Len(buffer') /\ b \notin c + 1 .. Len(buffer')
    BY <1>8, <1>10, <2>1, <2>2
  <2>4. c = b
    BY <1>6, <1>10, <2>2, <2>3
  <2> QED BY <1>4, <2>4 DEF k
<1>13. BeginsAtZero'
  <2>1. Len(buffer') # 0
    BY <1>1, <1>6, <1>10
  <2>2. buffer' # <<>>
    BY <1>4, <2>1, EmptySeq
  <2> QED BY <2>2 DEF BeginsAtZero
<1> QED BY <1>7, <1>9, <1>11, <1>12, <1>13 DEF IInv

(* indent and dedent: behind a text, and on a line that has none.          *)
LEMMA LevelStep ==
  ASSUME IInv, HasText \/ level > 0, ~ Alone,
         level' \in 0 .. MaxLevel, outcome' = "done", beginOfLine(level')
  PROVE  IInv'
<1>1. CASE HasText
  <2>1. UNCHANGED <<buffer, tellp>>
    BY <1>1, BehindText
  <2>2. PICK p \in 1 .. tellp : OnLine(p)
    BY <1>1 DEF HasText
  <2>3. buffer[p] # "sp" /\ \A q \in p .. tellp : buffer[q] # "nl"
    BY <2>2 DEF OnLine
  <2>4. Len(buffer) \in Nat /\ tellp \in 0 .. Len(buffer)
        /\ \A r \in tellp + 1 .. Len(buffer) : buffer[r] = "sp"
    BY Numbers
  <2>5. AtLevel'
    <3>1. SUFFICES ASSUME NEW b \in Breaks',
                          \A r \in b + 1 .. Len(buffer) : buffer[r] = "sp"
                   PROVE  FALSE
      BY <2>1 DEF AtLevel
    <3>2. b \in 1 .. Len(buffer) /\ buffer[b] = "nl"
      BY <2>1 DEF Breaks
    <3>3. b \notin p .. tellp /\ b \notin tellp + 1 .. Len(buffer)
      BY <2>3, <2>4, <3>2
    <3>4. p \in b + 1 .. Len(buffer)
      BY <2>4, <3>2, <3>3
    <3> QED BY <2>3, <3>1, <3>4
  <2>6. buffer # <<>>
    BY <2>2, <2>4, Numbers
  <2> QED BY <2>1, <2>5, <2>6
          DEF IInv, TypeOK, OnlyBlanksBehind, FirstNotBlank, BeginsAtZero
<1>2. CASE ~ HasText /\ buffer # <<>>
  <2>1. level' \in Nat
    BY Numbers
  <2>2. \E b \in 1 .. tellp :
          /\ buffer[b] = "nl"
          /\ \A p \in b + 1 .. Len(buffer) : buffer[p] = "sp"
          /\ Overwrite(b, Blanks(level'))
    BY <1>2, <2>1, WithoutText
  <2> QED BY <2>2, AnewStep
<1>3. CASE ~ HasText /\ buffer = <<>>
  BY <1>3 DEF IInv, BeginsAtZero
<1> QED BY <1>1, <1>2, <1>3

-----------------------------------------------------------------------------
LEMMA InitInv ==
  ASSUME Init
  PROVE  IInv
<1>1. buffer = <<>> /\ tellp = 0 /\ level = 0 /\ outcome = "done"
  BY DEF Init
<1>2. buffer \in Seq(Characters) /\ Len(buffer) = 0
  BY <1>1, EmptySeq
<1>3. TypeOK
  BY <1>1, <1>2, StreamAssumption DEF TypeOK, Characters
<1> QED BY <1>1, <1>2, <1>3
        DEF IInv, OnlyBlanksBehind, FirstNotBlank, BeginsAtZero, AtLevel, Breaks

LEMMA UseStep ==
  ASSUME IInv, [UseNext]_vars
  PROVE  IInv'
<1>1. ASSUME NEW t \in Texts, t # <<>> /\ t[1] = "sp" => HasText, Write(t)
      PROVE  IInv'
  BY <1>1, WriteStep
<1>2. CASE (HasText \/ level > 0) /\ ~ Alone /\ indent
  <2>1. level' \in 0 .. MaxLevel
    BY <1>2, Numbers DEF indent
  <2> QED BY <1>2, <2>1, LevelStep DEF indent
<1>3. CASE ~ Alone /\ dedent
  <2>1. level > 0 /\ level' \in 0 .. MaxLevel
    BY <1>3, Numbers DEF dedent
  <2> QED BY <1>3, <2>1, LevelStep DEF dedent
<1>4. CASE dedentAtZero
  BY <1>4 DEF dedentAtZero, IInv, TypeOK, OnlyBlanksBehind, FirstNotBlank,
              BeginsAtZero, AtLevel, Breaks
<1>5. CASE endl
  BY <1>5, EndlStep
<1>6. CASE UNCHANGED vars
  BY <1>6 DEF vars, IInv, TypeOK, OnlyBlanksBehind, FirstNotBlank,
              BeginsAtZero, AtLevel, Breaks
<1> QED BY <1>1, <1>2, <1>3, <1>4, <1>5, <1>6 DEF UseNext

LEMMA UseInvariant == UseSpec => []IInv
<1>1. Init => IInv
  BY InitInv
<1>2. IInv /\ [UseNext]_vars => IInv'
  BY UseStep
<1> QED BY <1>1, <1>2, PTL DEF UseSpec

(* The buffer, the write position and the level keep their types.          *)
THEOREM TypeCorrect == UseSpec => []TypeOK
<1>1. IInv => TypeOK
  BY DEF IInv
<1> QED BY <1>1, UseInvariant, PTL

(* A text is only ever written over blanks, however often the manipulators *)
(* went back over the indentation of its line.                             *)
THEOREM OnlyBlanksBehindCorrect == UseSpec => []OnlyBlanksBehind
<1>1. IInv => OnlyBlanksBehind
  BY DEF IInv
<1> QED BY <1>1, UseInvariant, PTL

(* A line gets its text at the level of the stream, also when the level    *)
(* changed after its line break.                                           *)
THEOREM AtLevelCorrect == UseSpec => []AtLevel
<1>1. IInv => AtLevel
  BY DEF IInv
<1> QED BY <1>1, UseInvariant, PTL

-----------------------------------------------------------------------------
(***************************************************************************)
(* The refinement.  What is on a line, from its first character on.        *)
(***************************************************************************)
IsText(b, first, f) ==
  f = [p \in 0 .. Len(b) |->
        IF p < first THEN <<>>
        ELSE IF b[p] = "sp" THEN f[p - 1]
        ELSE Append(f[p - 1], b[p])]

TextOf(b, first) == CHOOSE f : IsText(b, first, f)

(* There is such a function.                                               *)
LEMMA TextExists ==
  ASSUME NEW S, NEW b \in Seq(S), NEW first \in Nat \ {0}
  PROVE  \E f : IsText(b, first, f)
<1> DEFINE L == Len(b)
           D == {p \in 1 .. L : p < first \/ b[p] = "sp"}
<1>1. PICK f : Filters(b, D, f)
  BY FilterDefined
<1>2. /\ f[0] = <<>>
      /\ \A p \in 1 .. L :
           f[p] = IF p \in D THEN f[p - 1] ELSE Append(f[p - 1], b[p])
  BY <1>1, FilterSteps
<1>3. L \in Nat
  OBVIOUS
<1>4. \A p \in 1 .. L : p \in D <=> p < first \/ b[p] = "sp"
  OBVIOUS
<1>5. f = [p \in 0 .. L |->
        IF p = 0 THEN <<>>
        ELSE IF p \in D THEN f[p - 1] ELSE Append(f[p - 1], b[p])]
  BY <1>1 DEF Filters
<1> HIDE DEF L, D
<1> DEFINE C == {m \in Nat : m <= L /\ m < first => f[m] = <<>>}
<1>6. \A m \in Nat : m \in C
  <2>1. 0 \in C
    BY <1>2
  <2>2. ASSUME NEW m \in Nat, m \in C
        PROVE  m + 1 \in C
    <3> SUFFICES ASSUME m + 1 <= L, m + 1 < first
                 PROVE  f[m + 1] = <<>>
      OBVIOUS
    <3>1. m + 1 \in 1 .. L /\ (m + 1) - 1 = m /\ m <= L /\ m < first
      BY <1>3
    <3>2. f[m] = <<>>
      BY <2>2, <3>1
    <3> QED BY <1>2, <1>4, <3>1, <3>2
  <2> HIDE DEF C
  <2> QED BY <2>1, <2>2, Induction
<1>7. ASSUME NEW p \in 0 .. L
      PROVE  (IF p = 0 THEN <<>>
              ELSE IF p \in D THEN f[p - 1] ELSE Append(f[p - 1], b[p]))
             = (IF p < first THEN <<>>
                ELSE IF b[p] = "sp" THEN f[p - 1] ELSE Append(f[p - 1], b[p]))
  <2>1. CASE p < first
    <3>1. f[p] = <<>>
      BY <1>3, <1>6, <2>1
    <3>2. p # 0 => p \in 1 .. L /\ p \in D
      BY <1>3, <1>4, <2>1
    <3>3. p # 0 => f[p - 1] = <<>>
      BY <1>2, <3>1, <3>2
    <3> QED BY <2>1, <3>2, <3>3
  <2>2. CASE ~ (p < first)
    <3>1. p # 0 /\ p \in 1 .. L
      BY <1>3, <2>2
    <3>2. p \in D <=> b[p] = "sp"
      BY <1>4, <2>2, <3>1
    <3> QED BY <2>2, <3>1, <3>2
  <2> QED BY <2>1, <2>2
<1>8. f = [p \in 0 .. L |->
        IF p < first THEN <<>>
        ELSE IF b[p] = "sp" THEN f[p - 1] ELSE Append(f[p - 1], b[p])]
  <2> DEFINE g == [p \in 0 .. L |->
        IF p = 0 THEN <<>>
        ELSE IF p \in D THEN f[p - 1] ELSE Append(f[p - 1], b[p])]
             h == [p \in 0 .. L |->
        IF p < first THEN <<>>
        ELSE IF b[p] = "sp" THEN f[p - 1] ELSE Append(f[p - 1], b[p])]
  <2>1. g = h
    BY <1>7
  <2> QED BY <1>5, <2>1
<1> QED BY <1>8 DEF IsText, L

(* What it has up to each character, step by step.                         *)
LEMMA TextSteps ==
  ASSUME NEW S, NEW b \in Seq(S), NEW first \in Nat \ {0}
  PROVE  \A p \in 0 .. Len(b) :
           /\ p < first => TextOf(b, first)[p] = <<>>
           /\ p >= first =>
                TextOf(b, first)[p] =
                  IF b[p] = "sp" THEN TextOf(b, first)[p - 1]
                  ELSE Append(TextOf(b, first)[p - 1], b[p])
           /\ TextOf(b, first)[p] \in Seq(S)
<1> DEFINE L == Len(b)
           f == TextOf(b, first)
<1>1. L \in Nat /\ \A p \in 1 .. L : b[p] \in S
  OBVIOUS
<1>2. IsText(b, first, f)
  BY TextExists DEF TextOf
<1> HIDE DEF f
<1>3. \A p \in 0 .. L :
        f[p] = IF p < first THEN <<>>
               ELSE IF b[p] = "sp" THEN f[p - 1] ELSE Append(f[p - 1], b[p])
  <2> HIDE DEF L
  <2>1. f = [p \in 0 .. L |->
        IF p < first THEN <<>>
        ELSE IF b[p] = "sp" THEN f[p - 1] ELSE Append(f[p - 1], b[p])]
    BY <1>2 DEF IsText, L
  <2> QED BY <2>1, Zenon
<1> HIDE DEF L
<1>4. \A p \in 0 .. L : p >= first => ~ (p < first)
  BY <1>1
<1>5. \A p \in 0 .. L :
        /\ p < first => f[p] = <<>>
        /\ p >= first =>
             f[p] = IF b[p] = "sp" THEN f[p - 1] ELSE Append(f[p - 1], b[p])
  BY <1>3, <1>4
<1> DEFINE C == {m \in Nat : m <= L => f[m] \in Seq(S)}
<1>6. \A m \in Nat : m \in C
  <2>1. 0 \in C
    <3>1. 0 \in 0 .. L /\ 0 < first
      BY <1>1
    <3>2. f[0] = <<>>
      BY <1>5, <3>1
    <3>3. f[0] \in Seq(S)
      BY <3>2, EmptySeq
    <3> QED BY <3>3
  <2>2. ASSUME NEW m \in Nat, m \in C
        PROVE  m + 1 \in C
    <3> SUFFICES ASSUME m + 1 <= L
                 PROVE  f[m + 1] \in Seq(S)
      OBVIOUS
    <3>1. m + 1 \in 1 .. L /\ m + 1 \in 0 .. L /\ (m + 1) - 1 = m /\ m <= L
      BY <1>1
    <3>2. f[m] \in Seq(S) /\ b[m + 1] \in S
      BY <1>1, <2>2, <3>1
    <3>3. f[m + 1] = <<>> \/ f[m + 1] = f[m] \/ f[m + 1] = Append(f[m], b[m + 1])
      <4>1. m + 1 < first \/ m + 1 >= first
        OBVIOUS
      <4>2. CASE m + 1 < first
        BY <1>5, <3>1, <4>2
      <4>3. CASE m + 1 >= first
        <5>1. f[m + 1] = IF b[m + 1] = "sp" THEN f[m] ELSE Append(f[m], b[m + 1])
          BY <1>5, <3>1, <4>3
        <5> QED BY <5>1
      <4> QED BY <4>1, <4>2, <4>3
    <3>4. Append(f[m], b[m + 1]) \in Seq(S) /\ <<>> \in Seq(S)
      BY <3>2, AppendProperties
    <3> QED BY <3>2, <3>3, <3>4
  <2> HIDE DEF C
  <2> QED BY <2>1, <2>2, Induction
<1> QED BY <1>1, <1>5, <1>6 DEF L, f

(* It depends on the characters up to there, from the first one on.        *)
LEMMA TextSame ==
  ASSUME NEW S, NEW b \in Seq(S), NEW c \in Seq(S), NEW first \in Nat \ {0},
         NEW n \in Nat, n <= Len(b), n <= Len(c),
         \A q \in first .. n : b[q] = c[q]
  PROVE  TextOf(b, first)[n] = TextOf(c, first)[n]
<1> DEFINE f == TextOf(b, first)
           g == TextOf(c, first)
<1>1. \A p \in 0 .. Len(b) :
           /\ p < first => f[p] = <<>>
           /\ p >= first =>
                f[p] = IF b[p] = "sp" THEN f[p - 1] ELSE Append(f[p - 1], b[p])
  BY TextSteps
<1>2. \A p \in 0 .. Len(c) :
           /\ p < first => g[p] = <<>>
           /\ p >= first =>
                g[p] = IF c[p] = "sp" THEN g[p - 1] ELSE Append(g[p - 1], c[p])
  BY TextSteps
<1> HIDE DEF f, g
<1> DEFINE C == {m \in Nat : m <= n => f[m] = g[m]}
<1>3. 0 \in C
  <2>1. 0 \in 0 .. Len(b) /\ 0 \in 0 .. Len(c) /\ 0 < first
    OBVIOUS
  <2> QED BY <1>1, <1>2, <2>1
<1>4. ASSUME NEW m \in Nat, m \in C
      PROVE  m + 1 \in C
  <2> SUFFICES ASSUME m + 1 <= n
               PROVE  f[m + 1] = g[m + 1]
    OBVIOUS
  <2>1. /\ m + 1 \in 0 .. Len(b) /\ m + 1 \in 0 .. Len(c) /\ (m + 1) - 1 = m
        /\ m <= n
    OBVIOUS
  <2>2. f[m] = g[m]
    BY <1>4, <2>1
  <2>3. CASE m + 1 < first
    BY <1>1, <1>2, <2>1, <2>3
  <2>4. CASE m + 1 >= first
    <3>1. b[m + 1] = c[m + 1]
      BY <2>4
    <3> QED BY <1>1, <1>2, <2>1, <2>2, <2>4, <3>1
  <2> QED BY <2>3, <2>4
<1>5. n \in C
  <2> HIDE DEF C
  <2> QED BY <1>3, <1>4, Induction
<1> QED BY <1>5 DEF f, g

(* Blanks add nothing to it.                                               *)
LEMMA TextBlanks ==
  ASSUME NEW S, NEW b \in Seq(S), NEW first \in Nat \ {0},
         NEW a \in Nat, NEW n \in Nat, a <= n, n <= Len(b),
         \A q \in a + 1 .. n : b[q] = "sp"
  PROVE  TextOf(b, first)[n] = TextOf(b, first)[a]
<1> DEFINE f == TextOf(b, first)
<1>1. \A p \in 0 .. Len(b) :
           /\ p < first => f[p] = <<>>
           /\ p >= first =>
                f[p] = IF b[p] = "sp" THEN f[p - 1] ELSE Append(f[p - 1], b[p])
  BY TextSteps
<1> HIDE DEF f
<1> DEFINE C == {m \in Nat : a + m <= n => f[a + m] = f[a]}
<1>3. 0 \in C
  <2>1. a + 0 = a
    OBVIOUS
  <2> QED BY <2>1
<1>4. ASSUME NEW m \in Nat, m \in C
      PROVE  m + 1 \in C
  <2> SUFFICES ASSUME a + (m + 1) <= n
               PROVE  f[a + (m + 1)] = f[a]
    OBVIOUS
  <2> DEFINE r == a + (m + 1)
  <2>1. r \in 0 .. Len(b) /\ r - 1 = a + m /\ a + m <= n /\ r \in a + 1 .. n
        /\ r - 1 \in 0 .. Len(b) /\ (r < first => r - 1 < first)
        /\ r - 1 \in Nat /\ r \in Nat
    OBVIOUS
  <2>2. f[r - 1] = f[a]
    BY <1>4, <2>1
  <2> HIDE DEF r
  <2>3. CASE r < first
    BY <1>1, <2>1, <2>2, <2>3
  <2>4. CASE r >= first
    <3>1. b[r] = "sp"
      BY <2>1
    <3> QED BY <1>1, <2>1, <2>2, <2>4, <3>1 DEF r
  <2> QED BY <2>1, <2>3, <2>4 DEF r
<1>5. n - a \in C /\ a + (n - a) = n /\ n - a \in Nat
  <2>1. n - a \in Nat /\ a + (n - a) = n
    OBVIOUS
  <2> HIDE DEF C
  <2>2. n - a \in C
    BY <1>3, <1>4, <2>1, Induction
  <2> QED BY <2>1, <2>2
<1> QED BY <1>5 DEF f

(* It is empty only if there is nothing but blanks.                        *)
LEMMA TextEmpty ==
  ASSUME NEW S, NEW b \in Seq(S), NEW first \in Nat \ {0},
         NEW n \in Nat, n <= Len(b)
  PROVE  TextOf(b, first)[n] = <<>> <=> \A q \in first .. n : b[q] = "sp"
<1> DEFINE f == TextOf(b, first)
<1>1. \A p \in 0 .. Len(b) :
           /\ p < first => f[p] = <<>>
           /\ p >= first =>
                f[p] = IF b[p] = "sp" THEN f[p - 1] ELSE Append(f[p - 1], b[p])
           /\ f[p] \in Seq(S)
  BY TextSteps
<1> HIDE DEF f
<1> DEFINE Blank(m) == \A q \in first .. m : b[q] = "sp"
           C == {m \in Nat : m <= n => (f[m] = <<>> <=> Blank(m))}
<1>3. 0 \in C
  <2>1. 0 \in 0 .. Len(b) /\ 0 < first /\ first .. 0 = {}
    OBVIOUS
  <2> QED BY <1>1, <2>1
<1>4. ASSUME NEW m \in Nat, m \in C
      PROVE  m + 1 \in C
  <2> SUFFICES ASSUME m + 1 <= n
               PROVE  f[m + 1] = <<>> <=> Blank(m + 1)
    <3> HIDE DEF Blank
    <3> QED OBVIOUS
  <2>1. /\ m + 1 \in 0 .. Len(b) /\ (m + 1) - 1 = m /\ m <= n /\ m \in 0 .. Len(b)
    OBVIOUS
  <2>2. f[m] = <<>> <=> Blank(m)
    <3> HIDE DEF Blank
    <3> QED BY <1>4, <2>1
  <2>3. CASE m + 1 < first
    <3>1. first .. m + 1 = {}
      BY <2>3
    <3> QED BY <1>1, <2>1, <2>3, <3>1
  <2>4. CASE m + 1 >= first
    <3>1. Blank(m + 1) <=> Blank(m) /\ b[m + 1] = "sp"
      <4>1. first .. m + 1 = (first .. m) \cup {m + 1}
        BY <2>4
      <4> QED BY <4>1
    <3> HIDE DEF Blank
    <3>2. CASE b[m + 1] = "sp"
      BY <1>1, <2>1, <2>2, <2>4, <3>1, <3>2
    <3>3. CASE b[m + 1] # "sp"
      <4>1. f[m + 1] = Append(f[m], b[m + 1])
        BY <1>1, <2>1, <2>4, <3>3
      <4>2. f[m] \in Seq(S) /\ b[m + 1] \in S
        BY <1>1, <2>1, <2>4
      <4>3. Append(f[m], b[m + 1]) # <<>>
        BY <4>2, AppendProperties
      <4> QED BY <3>1, <3>3, <4>1, <4>3
    <3> QED BY <3>2, <3>3
  <2> QED BY <2>3, <2>4
<1>5. n \in C
  <2> HIDE DEF C
  <2> QED BY <1>3, <1>4, Induction
<1> QED BY <1>5 DEF f

(* After the first q characters of b comes t in c.                         *)
Follows(b, q, t, c) ==
  /\ q <= Len(b) /\ q + Len(t) <= Len(c)
  /\ \A p \in 1 .. q : b[p] = c[p]
  /\ \A i \in 1 .. Len(t) : c[q + i] = t[i]

Joined(x, y) == x \o y

(* A text that is written behind others is added to them.                  *)
LEMMA TextWritten ==
  ASSUME NEW S, NEW b \in Seq(S), NEW c \in Seq(S), NEW t \in Seq(S),
         NEW first \in Nat \ {0}, NEW q \in Nat, first <= q + 1,
         Follows(b, q, t, c)
  PROVE  TextOf(c, first)[q + Len(t)]
           = Joined(TextOf(b, first)[q], TextOf(t, 1)[Len(t)])
<1> DEFINE f == TextOf(b, first)
           g == TextOf(c, first)
           h == TextOf(t, 1)
           k == Len(t)
           x == f[q]
<1>0. k \in Nat /\ Len(b) \in Nat /\ Len(c) \in Nat /\ \A i \in 1 .. k : t[i] \in S
  OBVIOUS
<1>9. /\ q <= Len(b) /\ q + Len(t) <= Len(c)
      /\ \A p \in first .. q : b[p] = c[p]
      /\ \A i \in 1 .. Len(t) : c[q + i] = t[i]
  BY DEF Follows
<1>1. g[q] = x
  <2>1. q <= Len(c)
    BY <1>0, <1>9
  <2> QED BY <1>9, <2>1, TextSame
<1>2. \A p \in 0 .. Len(c) : p >= first =>
        g[p] = IF c[p] = "sp" THEN g[p - 1] ELSE Append(g[p - 1], c[p])
  BY TextSteps
<1>3. \A p \in 0 .. k :
        /\ p < 1 => h[p] = <<>>
        /\ p >= 1 =>
             h[p] = IF t[p] = "sp" THEN h[p - 1] ELSE Append(h[p - 1], t[p])
        /\ h[p] \in Seq(S)
  BY TextSteps
<1>4. x \in Seq(S)
  <2>1. q \in 0 .. Len(b)
    BY <1>0, <1>9
  <2> QED BY <2>1, TextSteps
<1> HIDE DEF f, g, h, x, k
<1> DEFINE C == {m \in Nat : m <= k => g[q + m] = x \o h[m]}
<1>5. 0 \in C
  <2>1. q + 0 = q /\ 0 \in 0 .. k
    BY <1>0
  <2>2. x \o <<>> = x
    BY <1>4, ConcatEmptySeq
  <2>3. h[0] = <<>>
    BY <1>3, <2>1
  <2>4. g[q + 0] = x \o h[0]
    BY <1>1, <2>1, <2>2, <2>3
  <2> QED BY <2>4
<1>6. ASSUME NEW m \in Nat, m \in C
      PROVE  m + 1 \in C
  <2> SUFFICES ASSUME m + 1 <= k
               PROVE  g[q + (m + 1)] = x \o h[m + 1]
    OBVIOUS
  <2> DEFINE r == q + (m + 1)
  <2>1. /\ r \in 0 .. Len(c) /\ r >= first /\ r - 1 = q + m /\ m + 1 \in 1 .. k
        /\ m + 1 \in 0 .. k /\ (m + 1) - 1 = m /\ m <= k /\ m \in 0 .. k
    BY <1>0, <1>9 DEF k
  <2>2. g[r - 1] = x \o h[m] /\ c[r] = t[m + 1] /\ h[m] \in Seq(S) /\ t[m + 1] \in S
    BY <1>0, <1>3, <1>6, <1>9, <2>1 DEF k
  <2>3. h[m + 1] = IF t[m + 1] = "sp" THEN h[m] ELSE Append(h[m], t[m + 1])
    <3> DEFINE n == m + 1
    <3>1. n \in 0 .. k /\ n >= 1 /\ n - 1 = m
      BY <2>1
    <3> HIDE DEF n
    <3>2. h[n] = IF t[n] = "sp" THEN h[n - 1] ELSE Append(h[n - 1], t[n])
      BY <1>3, <3>1
    <3> QED BY <3>1, <3>2 DEF n
  <2>4. g[r] = IF c[r] = "sp" THEN g[r - 1] ELSE Append(g[r - 1], c[r])
    <3> HIDE DEF r
    <3> QED BY <1>2, <2>1
  <2> DEFINE y == h[m]
             e == t[m + 1]
  <2>5. Append(x \o y, e) = x \o Append(y, e)
    <3>1. y \in Seq(S) /\ e \in S
      BY <2>2
    <3> HIDE DEF y, e
    <3>2. /\ Append(x \o y, e) = (x \o y) \o <<e>>
          /\ Append(y, e) = y \o <<e>>
          /\ <<e>> \in Seq(S)
      <4>1. x \o y \in Seq(S)
        BY ONLY <1>4, <3>1, ConcatProperties
      <4> QED BY <3>1, <4>1, AppendIsConcat
    <3>3. (x \o y) \o <<e>> = x \o (y \o <<e>>)
      <4> DEFINE z == <<e>>
      <4>1. z \in Seq(S)
        BY <3>2
      <4> HIDE DEF z
      <4>2. (x \o y) \o z = x \o (y \o z)
        BY ONLY <1>4, <3>1, <4>1, ConcatAssociative
      <4> QED BY <4>2 DEF z
    <3> QED BY <3>2, <3>3
  <2> HIDE DEF r
  <2>6. CASE e = "sp"
    <3>1. g[r] = g[r - 1] /\ h[m + 1] = h[m]
      BY <2>2, <2>3, <2>4, <2>6
    <3> QED BY <2>2, <3>1 DEF r
  <2>7. CASE e # "sp"
    <3>1. g[r] = Append(x \o y, e) /\ h[m + 1] = Append(y, e)
      BY <2>2, <2>3, <2>4, <2>7
    <3> QED BY <2>5, <3>1 DEF r
  <2> QED BY <2>6, <2>7
<1>7. g[q + k] = x \o h[k]
  <2>1. k \in Nat
    BY <1>0
  <2>2. k \in C
    <3> HIDE DEF C
    <3> QED BY <2>1, <1>5, <1>6, Induction
  <2> QED BY <2>1, <2>2
<1>8. g[q + k] = Joined(x, h[k])
  BY <1>7 DEF Joined
<1> QED BY <1>8 DEF f, g, h, x, k

-----------------------------------------------------------------------------
(***************************************************************************)
(* The lines of a buffer, from the places of its line breaks: where line n *)
(* ends there are n - 1 line breaks before.                                *)
(***************************************************************************)
Before(B, p) == {q \in B : q < p}

Ended(B, e, n, p) == p \in B \cup {e} /\ Cardinality(Before(B, p)) = n - 1

EndIn(B, e, n) ==
  CHOOSE p \in B \cup {e} : Cardinality({q \in B : q < p}) = n - 1

(* Places with line breaks in them, and one behind them all.               *)
Places(B, e) == e \in Nat /\ B \subseteq 1 .. e - 1

(* The more line breaks come before it the later is a place.               *)
LEMMA BeforeGrows ==
  ASSUME NEW B, NEW e, Places(B, e)
  PROVE  /\ IsFiniteSet(B) /\ Cardinality(B) \in Nat
         /\ \A p \in Nat : Cardinality(Before(B, p)) \in Nat
                             /\ Cardinality(Before(B, p)) <= Cardinality(B)
         /\ \A p \in B, q \in Nat : p < q =>
              Cardinality(Before(B, p)) < Cardinality(Before(B, q))
         /\ Before(B, e) = B
<1>1. IsFiniteSet(B)
  <2>1. e - 1 \in Int /\ 1 \in Int
    BY DEF Places
  <2>2. IsFiniteSet(1 .. e - 1)
    BY <2>1, FS_Interval
  <2> QED BY <2>2, FS_Subset DEF Places
<1>2. \A p : Before(B, p) \subseteq B
  BY DEF Before
<1>3. \A p : IsFiniteSet(Before(B, p))
           /\ Cardinality(Before(B, p)) \in Nat
           /\ Cardinality(Before(B, p)) <= Cardinality(B)
  BY <1>1, <1>2, FS_Subset, FS_CardinalityType
<1>4. ASSUME NEW p \in B, NEW q \in Nat, p < q
      PROVE  Cardinality(Before(B, p)) < Cardinality(Before(B, q))
  <2>1. p \in Nat
    BY DEF Places
  <2>2. Before(B, p) \subseteq Before(B, q)
    <3>1. ASSUME NEW r \in Before(B, p)
          PROVE  r \in Before(B, q)
      <4>1. r \in B /\ r < p /\ r \in Nat
        BY DEF Before, Places
      <4>2. r < q
        BY <1>4, <2>1, <4>1
      <4> QED BY <4>1, <4>2 DEF Before
    <3> QED BY <3>1
  <2>3. p \in Before(B, q) /\ p \notin Before(B, p)
    BY <1>4, <2>1 DEF Before
  <2> DEFINE X == Before(B, p)
             Y == Before(B, q)
  <2>4. IsFiniteSet(X) /\ IsFiniteSet(Y) /\ X \subseteq Y /\ X # Y
    BY <1>3, <2>2, <2>3
  <2> HIDE DEF X, Y
  <2>5. Cardinality(X) < Cardinality(Y)
    BY <2>4, FS_Subset, FS_CardinalityType
  <2> QED BY <2>5 DEF X, Y
<1>5. Before(B, e) = B
  <2>1. \A q \in B : q < e
    BY DEF Places
  <2> QED BY <2>1 DEF Before
<1>6. Cardinality(B) \in Nat
  BY <1>1, FS_CardinalityType
<1> QED BY <1>1, <1>3, <1>4, <1>5, <1>6

(* A line ends at one place.                                               *)
LEMMA EndIs ==
  ASSUME NEW B, NEW e, Places(B, e), NEW n, NEW p, Ended(B, e, n, p)
  PROVE  EndIn(B, e, n) = p
<1>1. ASSUME NEW q, Ended(B, e, n, q)
      PROVE  q = p
  <2>1. /\ p \in B \cup {e} /\ q \in B \cup {e} /\ p \in Nat /\ q \in Nat
        /\ p <= e /\ q <= e
        /\ Cardinality(Before(B, p)) = Cardinality(Before(B, q))
    BY <1>1 DEF Ended, Places
  <2>2. ~ (p < q)
    <3> SUFFICES ASSUME p < q
                 PROVE  FALSE
      OBVIOUS
    <3>1. p \in B
      BY <2>1 DEF Places
    <3>2. Cardinality(Before(B, p)) < Cardinality(Before(B, q))
          /\ Cardinality(Before(B, p)) \in Nat
      BY <2>1, <3>1, BeforeGrows
    <3> QED BY <2>1, <3>2
  <2>3. ~ (q < p)
    <3> SUFFICES ASSUME q < p
                 PROVE  FALSE
      OBVIOUS
    <3>1. q \in B
      BY <2>1 DEF Places
    <3>2. Cardinality(Before(B, q)) < Cardinality(Before(B, p))
          /\ Cardinality(Before(B, p)) \in Nat
      BY <2>1, <3>1, BeforeGrows
    <3> QED BY <2>1, <3>2
  <2> QED BY <2>1, <2>2, <2>3
<1>2. \A q \in B \cup {e} :
        Cardinality({r \in B : r < q}) = n - 1 <=> Ended(B, e, n, q)
  BY DEF Ended, Before
<1>3. p \in B \cup {e}
  BY DEF Ended
<1>4. /\ Cardinality({r \in B : r < p}) = n - 1
      /\ \A q \in B \cup {e} : Cardinality({r \in B : r < q}) = n - 1 => q = p
  BY <1>1, <1>2, <1>3
<1> QED BY <1>3, <1>4 DEF EndIn

(* Each line but the last ends at a line break.                            *)
LEMMA BreakEnds ==
  ASSUME NEW B, NEW e, Places(B, e), NEW n \in 1 .. Cardinality(B)
  PROVE  \E p \in B : Ended(B, e, n, p)
<1> DEFINE Rank(p) == Cardinality(Before(B, p))
           T == {p \in B \cup {e} : Rank(p) >= n}
<1>1. /\ IsFiniteSet(B) /\ Cardinality(B) \in Nat
      /\ \A p \in Nat : Rank(p) \in Nat
      /\ \A p \in B, q \in Nat : p < q => Rank(p) < Rank(q)
      /\ Before(B, e) = B
  BY BeforeGrows
<1>2. B \subseteq Nat /\ e \in Nat
  BY DEF Places
<1>3. e \in T
  BY <1>1
<1>4. PICK p \in T : \A q \in T : p <= q
  BY <1>2, <1>3, HasLeast
<1>5. p \in Nat /\ Rank(p) >= n /\ Rank(p) \in Nat
  BY <1>1, <1>2, <1>4
<1> DEFINE X == Before(B, p)
<1>6. X # {}
  <2>1. Rank(p) # 0
    BY <1>5
  <2> QED BY <2>1, FS_EmptySet
<1>7. X \subseteq Nat /\ \A x \in X : x < p /\ x \in B
  BY <1>2 DEF Before
<1>8. PICK r \in X : \A x \in X : r >= x
  <2> HIDE DEF X
  <2>1. p \in Nat /\ X \subseteq 1 .. p
    <3>1. \A x \in X : x \in 1 .. e - 1
      BY <1>7 DEF Places
    <3> QED BY <1>2, <1>5, <1>7, <3>1
  <2> QED BY <1>6, <2>1, HasGreatest
<1>9. r \in B /\ r < p /\ r \in Nat
  BY <1>7, <1>8
<1>10. ~ (Rank(r) >= n)
  <2>1. r \notin T
    BY <1>4, <1>5, <1>9
  <2> QED BY <1>9, <2>1
<1>11. X = Before(B, r) \cup {r}
  <2>1. ASSUME NEW x \in X
        PROVE  x \in Before(B, r) \cup {r}
    <3>1. x <= r /\ x \in B /\ x \in Nat
      BY <1>2, <1>7, <1>8
    <3> QED BY <1>9, <3>1 DEF Before
  <2>2. ASSUME NEW x \in Before(B, r)
        PROVE  x \in X
    <3>1. x \in B /\ x < r /\ x \in Nat
      BY <1>2 DEF Before
    <3>2. x < p
      BY <1>5, <1>9, <3>1
    <3> QED BY <3>1, <3>2 DEF Before
  <2> QED BY <1>8, <2>1, <2>2
<1>12. Rank(p) = Rank(r) + 1
  <2>1. r \notin Before(B, r)
    BY <1>9 DEF Before
  <2>2. IsFiniteSet(Before(B, r))
    <3>1. Before(B, r) \subseteq B
      BY DEF Before
    <3> QED BY <1>1, <3>1, FS_Subset
  <2> DEFINE Y == Before(B, r)
  <2> HIDE DEF Y
  <2>3. Cardinality(Y \cup {r}) = Cardinality(Y) + 1
    BY <2>1, <2>2, FS_AddElement DEF Y
  <2> QED BY <1>11, <2>3 DEF Y
<1>13. Rank(r) = n - 1
  <2>1. Rank(r) \in Nat
    BY <1>1, <1>9
  <2> QED BY <1>1, <1>5, <1>10, <1>12, <2>1
<1> QED BY <1>9, <1>13 DEF Ended

(* And the last one behind the last line break.                            *)
LEMMA LastEnds ==
  ASSUME NEW B, NEW e, Places(B, e)
  PROVE  EndIn(B, e, Cardinality(B) + 1) = e
<1>1. Cardinality(B) \in Nat /\ Before(B, e) = B
  BY BeforeGrows
<1>2. Ended(B, e, Cardinality(B) + 1, e)
  BY <1>1 DEF Ended
<1> QED BY <1>2, EndIs

(* The lines before the last do not depend on how long the last one is.    *)
LEMMA SameEnds ==
  ASSUME NEW B, NEW e, NEW d, Places(B, e), Places(B, d),
         NEW n \in 1 .. Cardinality(B)
  PROVE  EndIn(B, d, n) = EndIn(B, e, n) /\ EndIn(B, e, n) \in B
<1>1. PICK p \in B : Ended(B, e, n, p)
  BY BreakEnds
<1>2. Ended(B, d, n, p)
  BY <1>1 DEF Ended
<1> QED BY <1>1, <1>2, EndIs

(* Nor on a line break behind it.                                          *)
LEMMA MoreEnds ==
  ASSUME NEW B, NEW e, NEW d, Places(B, e), Places(B \cup {e}, d)
  PROVE  /\ Cardinality(B \cup {e}) = Cardinality(B) + 1
         /\ \A n \in 1 .. Cardinality(B) + 1 :
              EndIn(B \cup {e}, d, n) = EndIn(B, e, n)
<1> DEFINE A == B \cup {e}
<1>1. IsFiniteSet(B) /\ Cardinality(B) \in Nat /\ Before(B, e) = B
  BY BeforeGrows
<1>2. e \notin B
  BY DEF Places
<1>3. Cardinality(A) = Cardinality(B) + 1
  BY <1>1, <1>2, FS_AddElement
<1>4. ASSUME NEW n \in 1 .. Cardinality(B) + 1
      PROVE  EndIn(A, d, n) = EndIn(B, e, n)
  <2>1. \E p \in A : Ended(B, e, n, p)
    <3>1. CASE n \in 1 .. Cardinality(B)
      BY <3>1, BreakEnds
    <3>2. CASE n = Cardinality(B) + 1
      <4>1. Ended(B, e, n, e)
        BY <1>1, <3>2 DEF Ended
      <4> QED BY <4>1
    <3> QED BY <1>1, <3>1, <3>2
  <2>2. PICK p \in A : Ended(B, e, n, p)
    BY <2>1
  <2>3. Before(A, p) = Before(B, p)
    <3>1. p <= e /\ p \in Nat /\ e \in Nat
      BY DEF Places
    <3>2. ~ (e < p)
      BY <3>1
    <3> QED BY <3>2 DEF Before
  <2>4. Ended(A, d, n, p)
    BY <2>2, <2>3 DEF Ended
  <2>5. EndIn(B, e, n) = p
    BY <2>2, EndIs
  <2>6. EndIn(A, d, n) = p
    <3> HIDE DEF A
    <3>1. Places(A, d)
      BY DEF A
    <3> QED BY <2>4, <3>1, EndIs
  <2> QED BY <2>5, <2>6
<1> QED BY <1>3, <1>4

-----------------------------------------------------------------------------
(***************************************************************************)
(* The lines that a sequence of characters is.                             *)
(***************************************************************************)
Blank(b, first, last) == \A p \in first .. last : b[p] = "sp"

Bare == [level |-> 0, text |-> <<>>]

LineOf(b, first, last) ==
  LET Body == {p \in first .. last : b[p] # "sp"}
  IN  IF Body = {} THEN [level |-> 0, text |-> <<>>]
      ELSE [level |-> (Min(Body) - first) \div 2,
            text  |-> TextOf(b, first)[last]]

BreaksOf(b) == {p \in 1 .. Len(b) : b[p] = "nl"}

LinesOf(b) ==
  [n \in 1 .. Cardinality(BreaksOf(b)) + 1 |->
     LineOf(b, IF n = 1 THEN 1 ELSE EndIn(BreaksOf(b), Len(b) + 1, n - 1) + 1,
            EndIn(BreaksOf(b), Len(b) + 1, n) - 1)]

(* They are the lines of the buffer.                                       *)
LEMMA TextFromIs ==
  ASSUME NEW first
  PROVE  TextFrom(first) = TextOf(buffer, first)
BY DEF TextFrom, TextOf, IsText

LEMMA LinesAre == Lines = LinesOf(buffer)
<1>1. \A first, last : LineText(first, last) = LineOf(buffer, first, last)
  BY TextFromIs DEF LineText, LineOf
<1>2. Breaks = BreaksOf(buffer)
  BY DEF Breaks, BreaksOf
<1>3. \A n : EndOf(n) = EndIn(BreaksOf(buffer), Len(buffer) + 1, n)
  BY <1>2 DEF EndOf, EndIn
<1> QED BY <1>1, <1>2, <1>3 DEF Lines, LinesOf

(* Also in the next state.                                                 *)
LEMMA LinesAreNext == Lines' = LinesOf(buffer')
<1>1. (Lines = LinesOf(buffer))'
  BY LinesAre, PTL
<1> QED BY <1>1

(* A sequence of characters, and where its last line begins.               *)
LastBreak(b, m) ==
  /\ m \in 0 .. Len(b)
  /\ m # 0 => b[m] = "nl"
  /\ \A p \in m + 1 .. Len(b) : b[p] # "nl"

(* A line that depends on what is between its ends alone.                  *)
LEMMA LineSame ==
  ASSUME NEW S, NEW b \in Seq(S), NEW c \in Seq(S), NEW first \in Nat \ {0},
         NEW last \in Nat, last <= Len(b), last <= Len(c),
         \A q \in first .. last : b[q] = c[q]
  PROVE  LineOf(b, first, last) = LineOf(c, first, last)
<1>1. {p \in first .. last : b[p] # "sp"} = {p \in first .. last : c[p] # "sp"}
  OBVIOUS
<1>2. TextOf(b, first)[last] = TextOf(c, first)[last]
  BY TextSame
<1> QED BY <1>1, <1>2 DEF LineOf

(* Blanks at its end are no part of it.                                    *)
LEMMA LineBlanks ==
  ASSUME NEW S, NEW b \in Seq(S), NEW first \in Nat \ {0},
         NEW a \in Nat, NEW n \in Nat, a <= n, n <= Len(b), first <= a + 1,
         Blank(b, a + 1, n)
  PROVE  LineOf(b, first, n) = LineOf(b, first, a)
<1>1. {p \in first .. n : b[p] # "sp"} = {p \in first .. a : b[p] # "sp"}
  <2>1. ASSUME NEW p \in first .. n, b[p] # "sp"
        PROVE  p \in first .. a
    <3>1. p \notin a + 1 .. n
      BY <2>1 DEF Blank
    <3> QED BY <3>1
  <2>2. first .. a \subseteq first .. n
    OBVIOUS
  <2> QED BY <2>1, <2>2
<1>2. TextOf(b, first)[n] = TextOf(b, first)[a]
  BY TextBlanks DEF Blank
<1> QED BY <1>1, <1>2 DEF LineOf

(* Nothing but blanks is no text.                                          *)
LEMMA LineBare ==
  ASSUME NEW b, NEW first, NEW last, Blank(b, first, last)
  PROVE  LineOf(b, first, last) = Bare
BY DEF Blank, LineOf, Bare

(* It begins behind the last line break.                                   *)
LEMMA LastBegins ==
  ASSUME NEW B, NEW e, Places(B, e), NEW m \in Nat, m # 0 => m \in B,
         \A p \in B : p \in 1 .. m
  PROVE  (IF Cardinality(B) = 0 THEN 1 ELSE EndIn(B, e, Cardinality(B)) + 1) = m + 1
<1> DEFINE k == Cardinality(B)
<1>1. k \in Nat /\ IsFiniteSet(B)
  BY BeforeGrows
<1>2. CASE m = 0
  <2>1. B = {}
    BY <1>2
  <2>2. k = 0
    BY <2>1, FS_EmptySet
  <2> QED BY <1>2, <2>2
<1>3. CASE m # 0
  <2>1. m \in B
    BY <1>3
  <2>2. k # 0
    BY <1>1, <2>1, FS_EmptySet
  <2>3. Cardinality(B \ {m}) = k - 1
    BY <1>1, <2>1, FS_RemoveElement
  <2>4. Before(B, m) = B \ {m}
    <3>1. \A p \in B : p < m <=> p # m
      OBVIOUS
    <3> QED BY <3>1 DEF Before
  <2>5. Ended(B, e, k, m)
    BY <2>1, <2>3, <2>4 DEF Ended
  <2>6. EndIn(B, e, k) = m
    BY <2>5, EndIs
  <2> QED BY <2>2, <2>6
<1> QED BY <1>2, <1>3

(* The last of the lines, and how many there are.                          *)
LEMMA LastLine ==
  ASSUME NEW S, NEW b \in Seq(S), NEW m, LastBreak(b, m)
  PROVE  LET k == Cardinality(BreaksOf(b))
         IN  /\ k \in Nat
             /\ Len(LinesOf(b)) = k + 1 /\ DOMAIN LinesOf(b) = 1 .. k + 1
             /\ LinesOf(b) \in Seq({LinesOf(b)[n] : n \in 1 .. k + 1})
             /\ LinesOf(b)[k + 1] = LineOf(b, m + 1, Len(b))
             /\ Places(BreaksOf(b), Len(b) + 1)
             /\ \A p \in BreaksOf(b) : p \in 1 .. m
<1> DEFINE B == BreaksOf(b)
           e == Len(b) + 1
           k == Cardinality(B)
           T == {LinesOf(b)[n] : n \in 1 .. k + 1}
<1>1. Places(B, e)
  <2>1. Len(b) \in Nat
    OBVIOUS
  <2> QED BY <2>1 DEF Places, BreaksOf
<1>2. k \in Nat /\ IsFiniteSet(B) /\ Before(B, e) = B
  BY <1>1, BeforeGrows
<1>3. EndIn(B, e, k + 1) = e
  BY <1>1, LastEnds
<1>4. \A p \in B : p \in 1 .. m
  <2>1. ASSUME NEW p \in B
        PROVE  p \in 1 .. m
    <3>1. p \in 1 .. Len(b) /\ b[p] = "nl" /\ Len(b) \in Nat
      BY DEF BreaksOf
    <3>2. p \notin m + 1 .. Len(b) /\ m \in 0 .. Len(b)
      BY <3>1 DEF LastBreak
    <3> QED BY <3>1, <3>2
  <2> QED BY <2>1
<1>5. (IF k + 1 = 1 THEN 1 ELSE EndIn(B, e, (k + 1) - 1) + 1) = m + 1
  <2>1. m \in Nat /\ (m # 0 => m \in B)
    BY DEF LastBreak, BreaksOf
  <2>2. (IF k = 0 THEN 1 ELSE EndIn(B, e, k) + 1) = m + 1
    BY <1>1, <1>4, <2>1, LastBegins
  <2>3. (k + 1 = 1 <=> k = 0) /\ (k + 1) - 1 = k
    BY <1>2
  <2> HIDE DEF k
  <2> QED BY <2>2, <2>3
<1>6. LinesOf(b) = [n \in 1 .. k + 1 |->
           LineOf(b, IF n = 1 THEN 1 ELSE EndIn(B, e, n - 1) + 1,
                  EndIn(B, e, n) - 1)]
  BY DEF LinesOf
<1> HIDE DEF B, k
<1>7. k + 1 \in 1 .. k + 1
  BY <1>2
<1>8. LinesOf(b)[k + 1] = LineOf(b, m + 1, e - 1)
  BY <1>3, <1>5, <1>6, <1>7
<1>9. e - 1 = Len(b)
  BY DEF Places
<1>10. DOMAIN LinesOf(b) = 1 .. k + 1
  BY <1>6
<1>11. LinesOf(b) \in Seq(T)
  <2> DEFINE x == LinesOf(b)
  <2>1. DOMAIN x = 1 .. k + 1 /\ k + 1 \in Nat
    BY <1>2, <1>10
  <2>2. x = [n \in 1 .. k + 1 |-> x[n]]
    BY <1>6
  <2>3. \A n \in 1 .. k + 1 : x[n] \in T
    OBVIOUS
  <2> HIDE DEF x, T
  <2>4. x \in [1 .. k + 1 -> T]
    BY <2>2, <2>3
  <2> QED BY <2>1, <2>4, SeqDef DEF x
<1>12. Len(LinesOf(b)) = k + 1
  BY <1>2, <1>10, <1>11, LenProperties
<1> QED BY <1>1, <1>2, <1>4, <1>8, <1>9, <1>10, <1>11, <1>12 DEF B, k, T

(* Lines with the same end, and the same characters up to it.              *)
LEMMA LinesSame ==
  ASSUME NEW S, NEW b \in Seq(S), NEW c \in Seq(S), NEW m, LastBreak(b, m),
         m <= Len(c), \A q \in 1 .. m : b[q] = c[q],
         NEW n \in 1 .. Cardinality(BreaksOf(b)),
         EndIn(BreaksOf(c), Len(c) + 1, n) = EndIn(BreaksOf(b), Len(b) + 1, n),
         n # 1 => EndIn(BreaksOf(c), Len(c) + 1, n - 1)
                    = EndIn(BreaksOf(b), Len(b) + 1, n - 1),
         n \in 1 .. Cardinality(BreaksOf(c)) + 1
  PROVE  LinesOf(c)[n] = LinesOf(b)[n]
<1> DEFINE B == BreaksOf(b)
           e == Len(b) + 1
           k == Cardinality(B)
           last == EndIn(B, e, n) - 1
           first == IF n = 1 THEN 1 ELSE EndIn(B, e, n - 1) + 1
<1>1. k \in Nat /\ Places(B, e) /\ \A p \in B : p \in 1 .. m
  BY LastLine
<1>2. m \in Nat /\ m <= Len(b)
  BY DEF LastBreak
<1>3. EndIn(B, e, n) \in 1 .. m
  BY <1>1, SameEnds
<1>4. n # 1 => EndIn(B, e, n - 1) \in 1 .. m
  <2>1. n # 1 => n - 1 \in 1 .. k
    BY <1>1
  <2> QED BY <1>1, <2>1, SameEnds
<1> HIDE DEF B, e
<1>5. last \in Nat /\ last <= m /\ first \in Nat \ {0}
  BY <1>2, <1>3, <1>4
<1>6. LinesOf(b)[n] = LineOf(b, first, last)
  <2>1. n \in 1 .. k + 1
    BY <1>1 DEF B
  <2> QED BY <2>1 DEF LinesOf, B, e
<1>7. LinesOf(c)[n] = LineOf(c, first, last)
  BY DEF LinesOf, B, e
<1> HIDE DEF first, last
<1>8. LineOf(b, first, last) = LineOf(c, first, last)
  <2>1. last <= Len(b) /\ last <= Len(c)
    BY <1>2, <1>5
  <2>2. \A q \in first .. last : b[q] = c[q]
    BY <1>2, <1>5
  <2> QED BY <1>5, <2>1, <2>2, LineSame
<1> QED BY <1>6, <1>7, <1>8

(* What is written behind the last line break changes the last line only.  *)
LEMMA Rewritten ==
  ASSUME NEW S, NEW b \in Seq(S), NEW c \in Seq(S), NEW m,
         LastBreak(b, m), LastBreak(c, m), \A q \in 1 .. m : b[q] = c[q]
  PROVE  LinesOf(c) = [LinesOf(b) EXCEPT ![Len(LinesOf(b))] = LineOf(c, m + 1, Len(c))]
<1> DEFINE B == BreaksOf(b)
           k == Cardinality(B)
           e == Len(b) + 1
           d == Len(c) + 1
<1>1. /\ k \in Nat /\ Len(LinesOf(b)) = k + 1 /\ DOMAIN LinesOf(b) = 1 .. k + 1
      /\ Places(B, e) /\ \A p \in B : p \in 1 .. m
  BY LastLine
<1>2. BreaksOf(c) = B
  <2>1. m \in Nat /\ m <= Len(b) /\ m <= Len(c) /\ Len(b) \in Nat /\ Len(c) \in Nat
    BY DEF LastBreak
  <2>2. \A p \in 1 .. Len(b) : b[p] = "nl" => p \in 1 .. m
    BY <2>1 DEF LastBreak
  <2>3. \A p \in 1 .. Len(c) : c[p] = "nl" => p \in 1 .. m
    BY <2>1 DEF LastBreak
  <2>4. \A p \in 1 .. m : p \in 1 .. Len(b) /\ p \in 1 .. Len(c)
    BY <2>1
  <2> QED BY <2>2, <2>3, <2>4 DEF BreaksOf
<1>3. /\ Places(B, d) /\ DOMAIN LinesOf(c) = 1 .. k + 1
      /\ LinesOf(c)[k + 1] = LineOf(c, m + 1, Len(c))
  BY <1>2, LastLine
<1>4. ASSUME NEW n \in 1 .. k
      PROVE  LinesOf(c)[n] = LinesOf(b)[n]
  <2>1. EndIn(B, d, n) = EndIn(B, e, n)
    BY <1>1, <1>3, SameEnds
  <2>2. n # 1 => EndIn(B, d, n - 1) = EndIn(B, e, n - 1)
    <3>1. n # 1 => n - 1 \in 1 .. k
      BY <1>1
    <3> QED BY <1>1, <1>3, <3>1, SameEnds
  <2>3. n \in 1 .. k + 1
    BY <1>1
  <2>4. m <= Len(c)
    BY DEF LastBreak
  <2> QED BY <1>2, <2>1, <2>2, <2>3, <2>4, LinesSame
<1> DEFINE x == LinesOf(b)
           y == LinesOf(c)
           l == LineOf(c, m + 1, Len(c))
<1>5. y = [n \in 1 .. k + 1 |-> y[n]]
  BY <1>2 DEF LinesOf
<1>6. x = [n \in 1 .. k + 1 |-> x[n]]
  BY DEF LinesOf
<1> HIDE DEF x, y, l, k
<1>7. \A n \in 1 .. k + 1 : y[n] = IF n = k + 1 THEN l ELSE x[n]
  <2>1. \A n \in 1 .. k + 1 : n = k + 1 \/ n \in 1 .. k
    BY <1>1
  <2>2. ~ (k + 1 \in 1 .. k)
    BY <1>1
  <2> QED BY <1>3, <1>4, <2>1, <2>2 DEF x, y, l
<1>8. y = [n \in 1 .. k + 1 |-> IF n = k + 1 THEN l ELSE x[n]]
  BY <1>5, <1>7
<1>9. [x EXCEPT ![k + 1] = l] = [n \in 1 .. k + 1 |-> IF n = k + 1 THEN l ELSE x[n]]
  <2>1. DOMAIN x = 1 .. k + 1
    BY <1>6
  <2> QED BY <2>1
<1> QED BY <1>1, <1>8, <1>9 DEF x, y, l

(* A line break ends the last line and begins a bare one.                  *)
LEMMA BreakAdded ==
  ASSUME NEW S, NEW b \in Seq(S), NEW c \in Seq(S), NEW m, LastBreak(b, m),
         NEW e \in Nat, m < e, e <= Len(b) + 1, Blank(b, e, Len(b)),
         e <= Len(c), \A q \in 1 .. e - 1 : b[q] = c[q],
         c[e] = "nl", Blank(c, e + 1, Len(c))
  PROVE  LinesOf(c) = Append(LinesOf(b), Bare)
<1> DEFINE B == BreaksOf(b)
           A == BreaksOf(c)
           k == Cardinality(B)
           f == Len(b) + 1
           d == Len(c) + 1
           x == LinesOf(b)
           y == LinesOf(c)
           T == {x[n] : n \in 1 .. k + 1} \cup {Bare}
<1>0. /\ m \in Nat /\ m <= Len(b) /\ Len(b) \in Nat /\ Len(c) \in Nat
  BY DEF LastBreak
<1>1. /\ k \in Nat /\ Len(x) = k + 1 /\ DOMAIN x = 1 .. k + 1
      /\ x[k + 1] = LineOf(b, m + 1, Len(b))
      /\ Places(B, f) /\ \A p \in B : p \in 1 .. m
  BY LastLine
<1>2. A = B \cup {e}
  <2>1. \A p \in 1 .. Len(b) : b[p] = "nl" => p \in 1 .. m
    BY <1>0 DEF LastBreak
  <2>2. \A p \in 1 .. Len(c) : c[p] = "nl" => p \in 1 .. e
    <3>1. \A p \in e + 1 .. Len(c) : c[p] # "nl"
      BY DEF Blank
    <3> QED BY <1>0, <3>1
  <2>3. \A p \in 1 .. e - 1 : p \in 1 .. Len(b) /\ p \in 1 .. Len(c) /\ b[p] = c[p]
    BY <1>0
  <2>4. e \in 1 .. Len(c) /\ \A p \in 1 .. m : p \in 1 .. e - 1 /\ p # e
    BY <1>0
  <2>5. \A p \in 1 .. e : p = e \/ p \in 1 .. e - 1
    OBVIOUS
  <2>6. ASSUME NEW p \in A
        PROVE  p \in B \cup {e}
    BY <2>2, <2>3, <2>5 DEF BreaksOf
  <2>7. ASSUME NEW p \in B \cup {e}
        PROVE  p \in A
    BY <2>1, <2>3, <2>4 DEF BreaksOf
  <2> QED BY <2>6, <2>7
<1>3. LastBreak(c, e)
  <2>1. e \in 0 .. Len(c)
    BY <1>0
  <2> QED BY <2>1 DEF LastBreak, Blank
<1>4. /\ Cardinality(A) \in Nat /\ DOMAIN y = 1 .. Cardinality(A) + 1
      /\ y[Cardinality(A) + 1] = LineOf(c, e + 1, Len(c))
      /\ Places(A, d)
      /\ y \in Seq({y[n] : n \in 1 .. Cardinality(A) + 1})
  BY <1>3, LastLine
<1>5. Places(B, e)
  BY <1>0, <1>1 DEF Places
<1>6. /\ Cardinality(A) = k + 1
      /\ \A n \in 1 .. k + 1 : EndIn(A, d, n) = EndIn(B, e, n)
  <2>1. Places(B \cup {e}, d)
    BY <1>2, <1>4
  <2> HIDE DEF B, A, d
  <2>2. /\ Cardinality(B \cup {e}) = Cardinality(B) + 1
        /\ \A n \in 1 .. Cardinality(B) + 1 :
             EndIn(B \cup {e}, d, n) = EndIn(B, e, n)
    BY <1>5, <2>1, MoreEnds
  <2> QED BY <1>2, <2>2
<1>7. \A n \in 1 .. k : EndIn(B, e, n) = EndIn(B, f, n)
  BY <1>1, <1>5, SameEnds
<1>8. ASSUME NEW n \in 1 .. k
      PROVE  y[n] = x[n]
  <2>1. n \in 1 .. k + 1 /\ n \in 1 .. (k + 1) + 1
    BY <1>1
  <2>2. EndIn(A, d, n) = EndIn(B, f, n)
    BY <1>6, <1>7, <2>1
  <2>3. n # 1 => EndIn(A, d, n - 1) = EndIn(B, f, n - 1)
    <3>1. n # 1 => n - 1 \in 1 .. k /\ n - 1 \in 1 .. k + 1
      BY <1>1
    <3> QED BY <1>6, <1>7, <3>1
  <2>4. m <= Len(c) /\ \A q \in 1 .. m : b[q] = c[q]
    BY <1>0
  <2> QED BY <1>6, <2>1, <2>2, <2>3, <2>4, LinesSame
<1>9. y[k + 1] = x[k + 1]
  <2>1. EndIn(A, d, k + 1) = e
    <3>1. k + 1 \in 1 .. k + 1
      BY <1>1
    <3> QED BY <1>5, <1>6, <3>1, LastEnds
  <2>2. (IF k + 1 = 1 THEN 1 ELSE EndIn(A, d, (k + 1) - 1) + 1) = m + 1
    <3>1. m # 0 => m \in B
      BY <1>0 DEF LastBreak, BreaksOf
    <3>2. (IF k = 0 THEN 1 ELSE EndIn(B, e, k) + 1) = m + 1
      BY <1>0, <1>1, <1>5, <3>1, LastBegins
    <3>3. (k + 1 = 1 <=> k = 0) /\ (k + 1) - 1 = k /\ (k # 0 => k \in 1 .. k + 1)
      BY <1>1
    <3> HIDE DEF k, A, d, B
    <3>4. k # 0 => EndIn(A, d, k) = EndIn(B, e, k)
      BY <1>6, <3>3
    <3> QED BY <3>2, <3>3, <3>4
  <2>3. y[k + 1] = LineOf(c, m + 1, e - 1)
    <3>1. k + 1 \in 1 .. Cardinality(A) + 1
      BY <1>1, <1>6
    <3>2. y[k + 1] = LineOf(c, IF k + 1 = 1 THEN 1 ELSE EndIn(A, d, (k + 1) - 1) + 1,
                            EndIn(A, d, k + 1) - 1)
      BY <3>1 DEF LinesOf
    <3> QED BY <2>1, <2>2, <3>2
  <2>4. LineOf(b, m + 1, e - 1) = LineOf(c, m + 1, e - 1)
    <3>1. /\ m + 1 \in Nat \ {0} /\ e - 1 \in Nat /\ e - 1 <= Len(b) /\ e - 1 <= Len(c)
          /\ \A q \in m + 1 .. e - 1 : b[q] = c[q]
      BY <1>0
    <3> QED BY <3>1, LineSame
  <2>5. LineOf(b, m + 1, Len(b)) = LineOf(b, m + 1, e - 1)
    <3>1. /\ m + 1 \in Nat \ {0} /\ e - 1 \in Nat /\ e - 1 <= Len(b)
          /\ m + 1 <= (e - 1) + 1 /\ (e - 1) + 1 = e
      BY <1>0
    <3>2. Blank(b, (e - 1) + 1, Len(b))
      BY <3>1
    <3> QED BY <1>0, <3>1, <3>2, LineBlanks
  <2> QED BY <1>1, <2>3, <2>4, <2>5
<1>10. y[(k + 1) + 1] = Bare
  BY <1>4, <1>6, LineBare
<1>11. x \in Seq(T)
  <2>1. x \in Seq({x[n] : n \in 1 .. k + 1})
    BY LastLine
  <2> DEFINE U == {x[n] : n \in 1 .. k + 1}
             V == U \cup {Bare}
  <2>2. x \in Seq(U) /\ U \subseteq V
    BY <2>1
  <2> HIDE DEF U
  <2>3. Seq(U) \subseteq Seq(V)
    BY <2>2, SeqMonotonic
  <2> QED BY <2>2, <2>3 DEF U
<1>12. DOMAIN y = 1 .. (k + 1) + 1
  BY <1>4, <1>6
<1>13. y = [n \in 1 .. (k + 1) + 1 |-> y[n]]
  BY <1>6 DEF LinesOf
<1> DEFINE z == Append(x, Bare)
<1>14. /\ z \in Seq(T) /\ Len(z) = (k + 1) + 1
       /\ \A n \in 1 .. k + 1 : z[n] = x[n]
       /\ z[(k + 1) + 1] = Bare
  <2>1. Bare \in T
    OBVIOUS
  <2> HIDE DEF T, x
  <2> QED BY <1>1, <1>11, <2>1, AppendProperties
<1> HIDE DEF x, y, z, T, k
<1>15. z = [n \in 1 .. (k + 1) + 1 |-> z[n]]
  <2>1. DOMAIN z = 1 .. (k + 1) + 1
    BY <1>14, LenProperties
  <2> QED BY <1>14, <2>1
<1>16. \A n \in 1 .. (k + 1) + 1 : y[n] = z[n]
  <2>1. ASSUME NEW n \in 1 .. (k + 1) + 1
        PROVE  y[n] = z[n]
    <3>1. n \in 1 .. k \/ n = k + 1 \/ n = (k + 1) + 1
      BY <1>1
    <3>2. n \in 1 .. k => n \in 1 .. k + 1
      BY <1>1
    <3>3. k + 1 \in 1 .. k + 1
      BY <1>1
    <3> QED BY <1>8, <1>9, <1>10, <1>14, <3>1, <3>2, <3>3
  <2> QED BY <2>1
<1>17. y = z
  BY <1>13, <1>15, <1>16
<1> QED BY <1>17 DEF x, y, z

-----------------------------------------------------------------------------
(***************************************************************************)
(* What each manipulator does to the lines.                                *)
(***************************************************************************)
(* The least of a set of numbers is one.                                   *)
LEMMA LeastIs ==
  ASSUME NEW X, X \subseteq Nat, NEW x \in X, \A y \in X : x <= y
  PROVE  Min(X) = x
<1>1. \A z \in X : (\A y \in X : z <= y) => z = x
  <2>1. ASSUME NEW z \in X, \A y \in X : z <= y
        PROVE  z = x
    <3>1. z <= x /\ x <= z /\ z \in Nat /\ x \in Nat
      BY <2>1
    <3> QED BY <3>1
  <2> QED BY <2>1
<1>2. \E z \in X : \A y \in X : z <= y
  OBVIOUS
<1>3. Min(X) \in X /\ \A y \in X : Min(X) <= y
  BY <1>2 DEF Min
<1> QED BY <1>1, <1>3

(* A buffer has a last line.                                               *)
LEMMA HasLastBreak ==
  ASSUME IInv
  PROVE  \E m \in 0 .. tellp : LastBreak(buffer, m)
<1> DEFINE P == {p \in 1 .. tellp : buffer[p] = "nl"}
<1>1. /\ Len(buffer) \in Nat /\ tellp \in 0 .. Len(buffer)
      /\ \A p \in tellp + 1 .. Len(buffer) : buffer[p] = "sp"
  BY Numbers
<1>2. PICK m \in P \cup {0} : \A p \in P \cup {0} : m >= p
  <2>1. CASE P = {}
    <3>1. 0 \in P \cup {0} /\ \A p \in P \cup {0} : 0 >= p
      BY <2>1
    <3> QED BY <3>1
  <2>2. CASE P # {}
    <3>1. tellp \in Nat /\ P \subseteq 1 .. tellp
      BY <1>1
    <3>2. PICK x \in P : \A y \in P : x >= y
      <4> HIDE DEF P
      <4> QED BY <2>2, <3>1, HasGreatest
    <3>3. x \in P \cup {0} /\ \A p \in P \cup {0} : x >= p
      BY <3>1, <3>2
    <3> QED BY <3>3
  <2> QED BY <2>1, <2>2
<1>3. m \in 0 .. tellp /\ m \in 0 .. Len(buffer) /\ (m # 0 => buffer[m] = "nl")
  BY <1>1, <1>2
<1>4. ASSUME NEW p \in m + 1 .. Len(buffer)
      PROVE  buffer[p] # "nl"
  <2>1. CASE p <= tellp
    <3>1. p \in 1 .. tellp /\ ~ (m >= p)
      BY <1>1, <1>3, <2>1
    <3> QED BY <1>2, <3>1
  <2>2. CASE ~ (p <= tellp)
    <3>1. p \in tellp + 1 .. Len(buffer)
      BY <1>1, <1>3, <2>2
    <3> QED BY <1>1, <3>1
  <2> QED BY <2>1, <2>2
<1> QED BY <1>3, <1>4 DEF LastBreak

(* A line break.                                                           *)
LEMMA EndlLines ==
  ASSUME IInv, endl
  PROVE  Lines' = Append(Lines, Bare)
<1> DEFINE n == Len(buffer)
           s == <<"nl">> \o Blanks(level)
           k == 1 + 2 * level
<1>1. /\ buffer \in Seq(Characters) /\ n \in Nat /\ tellp \in 0 .. n
      /\ level \in Nat
      /\ \A p \in tellp + 1 .. n : buffer[p] = "sp"
  BY Numbers
<1>2. /\ s \in Seq(Characters) /\ Len(s) = k /\ k \in Nat
      /\ s[1] = "nl"
      /\ \A i \in 2 .. k : s[i] = "sp"
  BY <1>1, BreakFacts
<1>3. Overwrite(tellp, s)
  BY DEF endl
<1> HIDE DEF s, k
<1>4. /\ buffer' \in Seq(Characters)
      /\ Len(buffer') = IF tellp + k > n THEN tellp + k ELSE n
      /\ \A i \in 1 .. Len(buffer') :
           buffer'[i] = IF i <= tellp THEN buffer[i]
                        ELSE IF i <= tellp + k THEN s[i - tellp]
                        ELSE buffer[i]
  BY <1>1, <1>2, <1>3, OverwriteFacts
<1> HIDE DEF n
<1> DEFINE e == tellp + 1
           c == buffer'
<1>5. /\ Len(c) \in Nat /\ Len(c) >= n /\ k >= 1 /\ e \in Nat /\ e <= Len(c)
      /\ e <= n + 1 /\ e \in 1 .. Len(c)
  BY <1>1, <1>2, <1>4 DEF k
<1>6. PICK m \in 0 .. tellp : LastBreak(buffer, m)
  BY HasLastBreak
<1>7. m < e
  BY <1>1
<1>8. \A q \in 1 .. e - 1 : buffer[q] = c[q]
  <2>1. \A q \in 1 .. e - 1 : q \in 1 .. Len(c) /\ q <= tellp
    BY <1>1, <1>5
  <2> QED BY <1>4, <2>1
<1>9. c[e] = "nl"
  <2>1. ~ (e <= tellp) /\ e <= tellp + k /\ e - tellp = 1
    BY <1>1, <1>2, <1>5
  <2> HIDE DEF e
  <2>2. c[e] = s[e - tellp]
    BY <1>4, <1>5, <2>1
  <2> QED BY <1>2, <2>1, <2>2
<1>10. ASSUME NEW p \in e + 1 .. Len(c)
       PROVE  c[p] = "sp"
  <2>1. CASE p <= tellp + k
    <3>1. p \in 1 .. Len(c) /\ ~ (p <= tellp) /\ p - tellp \in 2 .. k
      BY <1>1, <1>2, <1>5, <2>1
    <3> QED BY <1>2, <1>4, <2>1, <3>1
  <2>2. CASE ~ (p <= tellp + k)
    <3>1. p \in tellp + 1 .. n /\ p \in 1 .. Len(c) /\ ~ (p <= tellp)
      BY <1>1, <1>2, <1>4, <1>5, <2>2
    <3> QED BY <1>1, <1>4, <2>2, <3>1
  <2> QED BY <2>1, <2>2
<1>11. Blank(c, e + 1, Len(c)) /\ Blank(buffer, e, n)
  BY <1>1, <1>10 DEF Blank
<1> HIDE DEF e
<1>12. LinesOf(c) = Append(LinesOf(buffer), Bare)
  BY <1>1, <1>4, <1>5, <1>6, <1>7, <1>8, <1>9, <1>11, BreakAdded DEF n
<1> QED BY <1>12, LinesAre, LinesAreNext

(* The blanks of a line without text, written anew.                        *)
LEMMA AnewLines ==
  ASSUME IInv, level' \in Nat,
         NEW b \in 1 .. tellp, buffer[b] = "nl",
         \A p \in b + 1 .. Len(buffer) : buffer[p] = "sp",
         Overwrite(b, Blanks(level'))
  PROVE  Lines' = Lines
<1> DEFINE n == Len(buffer)
           l == level'
           k == 2 * l
           s == Blanks(l)
           c == buffer'
<1>1. /\ buffer \in Seq(Characters) /\ n \in Nat /\ tellp \in 0 .. n
      /\ l \in Nat /\ b \in 1 .. n /\ k \in Nat
  <2>1. /\ buffer \in Seq(Characters) /\ n \in Nat /\ tellp \in 0 .. n
        /\ l \in Nat /\ b \in 1 .. n
    BY Numbers
  <2> HIDE DEF l
  <2> QED BY <2>1
<1>2. s \in Seq(Characters) /\ Len(s) = k /\ \A i \in 1 .. k : s[i] = "sp"
  BY <1>1, BlanksFacts
<1>3. Overwrite(b, s) /\ b \in 0 .. n
  BY <1>1
<1> HIDE DEF s, k
<1>4. /\ c \in Seq(Characters)
      /\ Len(c) = IF b + k > n THEN b + k ELSE n
      /\ \A i \in 1 .. Len(c) :
           c[i] = IF i <= b THEN buffer[i]
                  ELSE IF i <= b + k THEN s[i - b]
                  ELSE buffer[i]
  BY <1>1, <1>2, <1>3, OverwriteFacts
<1> HIDE DEF n
<1>6. Len(c) \in Nat /\ Len(c) >= n
  BY <1>1, <1>4
<1>8. ASSUME NEW p \in b + 1 .. Len(c)
      PROVE  c[p] = "sp"
  <2>1. CASE p <= b + k
    <3>1. p \in 1 .. Len(c) /\ ~ (p <= b) /\ p - b \in 1 .. k
      BY <1>1, <2>1
    <3> QED BY <1>2, <1>4, <2>1, <3>1
  <2>2. CASE ~ (p <= b + k)
    <3>1. p \in b + 1 .. n /\ p \in 1 .. Len(c) /\ ~ (p <= b)
      BY <1>1, <1>4, <2>2
    <3> QED BY <1>4, <2>2, <3>1 DEF n
  <2> QED BY <2>1, <2>2
<1>9. \A q \in 1 .. b : buffer[q] = c[q]
  <2>1. \A q \in 1 .. b : q \in 1 .. Len(c) /\ q <= b
    BY <1>1, <1>6
  <2> QED BY <1>4, <2>1
<1>10. LastBreak(buffer, b) /\ LastBreak(c, b)
  <2>1. b \in 0 .. Len(buffer) /\ b \in 0 .. Len(c) /\ b \in 1 .. b
    BY <1>1, <1>6 DEF n
  <2>2. c[b] = "nl"
    BY <1>9, <2>1
  <2> QED BY <1>8, <2>1, <2>2 DEF LastBreak
<1>11. LinesOf(c) = [LinesOf(buffer) EXCEPT ![Len(LinesOf(buffer))] = LineOf(c, b + 1, Len(c))]
  <2> HIDE DEF c
  <2>1. buffer \in Seq(Characters) /\ c \in Seq(Characters)
    BY <1>1, <1>4
  <2> QED BY <1>9, <1>10, <2>1, Rewritten
<1>12. LineOf(c, b + 1, Len(c)) = Bare /\ LineOf(buffer, b + 1, Len(buffer)) = Bare
  BY <1>8, LineBare DEF Blank
<1>13. LinesOf(buffer)[Len(LinesOf(buffer))] = Bare
  BY <1>1, <1>10, <1>12, LastLine
<1>14. LinesOf(c) = LinesOf(buffer)
  <2> DEFINE x == LinesOf(buffer)
  <2>1. x = [i \in DOMAIN x |-> x[i]]
    BY DEF LinesOf
  <2> HIDE DEF x
  <2>2. x[Len(x)] = Bare => [x EXCEPT ![Len(x)] = Bare] = x
    BY <2>1
  <2> QED BY <1>11, <1>12, <1>13, <2>2 DEF x
<1> QED BY <1>14, LinesAre, LinesAreNext

(* indent and dedent.                                                      *)
LEMMA LevelLines ==
  ASSUME IInv, HasText \/ level > 0, ~ Alone,
         level' \in Nat, beginOfLine(level')
  PROVE  Lines' = Lines
<1>1. CASE UNCHANGED buffer
  BY <1>1, LinesAre, LinesAreNext
<1>2. CASE HasText
  BY <1>1, <1>2, BehindText
<1>3. CASE ~ HasText /\ buffer # <<>>
  <2>1. \E b \in 1 .. tellp :
          /\ buffer[b] = "nl"
          /\ \A p \in b + 1 .. Len(buffer) : buffer[p] = "sp"
          /\ Overwrite(b, Blanks(level'))
    BY <1>3, WithoutText
  <2> QED BY <2>1, AnewLines
<1>4. CASE ~ HasText /\ buffer = <<>>
  <2>1. tellp = 0
    BY <1>4, Numbers
  <2>2. UNCHANGED <<buffer, tellp>>
    BY <2>1 DEF beginOfLine
  <2> QED BY <1>1, <2>2
<1> QED BY <1>2, <1>3, <1>4

(* Nothing was written yet.                                                *)
LEMMA InitLines ==
  ASSUME Init
  PROVE  Lines = <<Bare>>
<1>1. buffer = <<>> /\ buffer \in Seq(Characters) /\ Len(buffer) = 0
  BY EmptySeq DEF Init
<1>2. LastBreak(buffer, 0) /\ BreaksOf(buffer) = {}
  BY <1>1 DEF LastBreak, BreaksOf
<1>3. Cardinality(BreaksOf(buffer)) = 0
  BY <1>2, FS_EmptySet
<1>4. /\ DOMAIN LinesOf(buffer) = 1 .. 1
      /\ LinesOf(buffer)[1] = LineOf(buffer, 1, 0)
      /\ Len(LinesOf(buffer)) = 1
      /\ LinesOf(buffer) \in Seq({LinesOf(buffer)[n] : n \in 1 .. 1})
  <2> DEFINE k == Cardinality(BreaksOf(buffer))
             m == 0
  <2>0. LastBreak(buffer, m)
    BY <1>2
  <2> HIDE DEF m
  <2>1. /\ Len(LinesOf(buffer)) = k + 1 /\ DOMAIN LinesOf(buffer) = 1 .. k + 1
        /\ LinesOf(buffer) \in Seq({LinesOf(buffer)[n] : n \in 1 .. k + 1})
        /\ LinesOf(buffer)[k + 1] = LineOf(buffer, m + 1, Len(buffer))
    <3>1. buffer \in Seq(Characters)
      BY <1>1
    <3> QED BY ONLY <2>0, <3>1, LastLine
  <2>2. k + 1 = 1 /\ m + 1 = 1
    BY <1>3 DEF m
  <2> HIDE DEF k
  <2> QED BY <1>1, <2>1, <2>2
<1>5. LineOf(buffer, 1, 0) = Bare
  BY LineBare DEF Blank
<1> DEFINE x == LinesOf(buffer)
<1>6. x = [n \in 1 .. 1 |-> x[n]]
  BY <1>3 DEF LinesOf
<1> HIDE DEF x
<1>7. x = <<Bare>>
  BY <1>4, <1>5, <1>6 DEF x
<1> QED BY <1>7, LinesAre DEF x

(* A text, on the last line.                                               *)
LEMMA WriteLines ==
  ASSUME IInv, NEW t \in Texts, t # <<>>, t[1] = "sp" => HasText, Write(t)
  PROVE  \E last :
           /\ Lines[Len(Lines)] = last
           /\ Lines' = [Lines EXCEPT ![Len(Lines)] =
                [level |-> IF last.text = <<>> THEN level ELSE last.level,
                 text  |-> last.text \o TextOf(t, 1)[Len(t)]]]
<1> DEFINE n == Len(buffer)
           k == Len(t)
           c == buffer'
           r == tellp + k
<1>1. /\ buffer \in Seq(Characters) /\ n \in Nat /\ tellp \in 0 .. n
      /\ level \in Nat
      /\ \A p \in tellp + 1 .. n : buffer[p] = "sp"
      /\ buffer = <<>> <=> n = 0
  BY Numbers
<1>2. /\ t \in Seq(Characters) /\ k \in Nat
      /\ \A i \in 1 .. k : t[i] # "nl"
  BY TextFacts
<1>3. k # 0
  BY <1>2, EmptySeq
<1>4. /\ c \in Seq(Characters)
      /\ Len(c) = IF r > n THEN r ELSE n
      /\ \A i \in 1 .. Len(c) :
           c[i] = IF i <= tellp THEN buffer[i]
                  ELSE IF i <= r THEN t[i - tellp]
                  ELSE buffer[i]
  BY <1>1, <1>2, OverwriteFacts DEF Write
<1>5. PICK m \in 0 .. tellp : LastBreak(buffer, m)
  BY HasLastBreak
<1> HIDE DEF n, k, c
<1>6. Len(c) \in Nat /\ Len(c) >= n /\ r \in 0 .. Len(c) /\ tellp \in Nat /\ m \in Nat
      /\ r > tellp /\ tellp <= n /\ m <= tellp /\ tellp <= Len(c) /\ r <= Len(c) /\ r \in Nat
  BY <1>1, <1>2, <1>3, <1>4
<1>7. \A q \in 1 .. tellp : c[q] = buffer[q]
  <2>1. \A q \in 1 .. tellp : q \in 1 .. Len(c) /\ q <= tellp
    BY <1>6
  <2> QED BY <1>4, <2>1
<1>8. \A i \in 1 .. k : c[tellp + i] = t[i]
  <2>1. ASSUME NEW i \in 1 .. k
        PROVE  c[tellp + i] = t[i]
    <3> DEFINE p == tellp + i
    <3>1. p \in 1 .. Len(c) /\ ~ (p <= tellp) /\ p <= r /\ p - tellp = i
      BY <1>2, <1>6
    <3> HIDE DEF p, r
    <3>2. c[p] = t[p - tellp]
      BY <1>4, <3>1
    <3> QED BY <3>1, <3>2 DEF p
  <2> QED BY <2>1
<1>9. \A q \in r + 1 .. Len(c) : c[q] = "sp"
  <2>1. ASSUME NEW q \in r + 1 .. Len(c)
        PROVE  c[q] = "sp"
    <3>1. q \in 1 .. Len(c) /\ ~ (q <= tellp) /\ ~ (q <= r) /\ q \in tellp + 1 .. n
      BY <1>1, <1>4, <1>6
    <3> HIDE DEF r
    <3> QED BY <1>1, <1>4, <3>1
  <2> QED BY <2>1
<1>10. LastBreak(c, m)
  <2>1. m \in 0 .. Len(c) /\ (m # 0 => c[m] = "nl")
    <3>1. m # 0 => buffer[m] = "nl"
      BY <1>5 DEF LastBreak
    <3>2. m # 0 => m \in 1 .. tellp
      BY <1>6
    <3> QED BY <1>6, <1>7, <3>1, <3>2
  <2>2. ASSUME NEW p \in m + 1 .. Len(c)
        PROVE  c[p] # "nl"
    <3>1. CASE p \in 1 .. tellp
      <4>1. p \in m + 1 .. Len(buffer)
        BY <1>6, <3>1 DEF n
      <4>2. buffer[p] # "nl"
        BY <1>5, <4>1 DEF LastBreak
      <4> QED BY <1>7, <3>1, <4>2
    <3>2. CASE p \in tellp + 1 .. r
      <4>1. p - tellp \in 1 .. k /\ tellp + (p - tellp) = p
        BY <1>2, <1>6, <3>2
      <4>2. c[p] = t[p - tellp]
        BY <1>8, <4>1
      <4> QED BY <1>2, <4>1, <4>2
    <3>3. CASE p \in r + 1 .. Len(c)
      BY <1>9, <3>3
    <3> QED BY <1>6, <3>1, <3>2, <3>3
  <2> QED BY <2>1, <2>2 DEF LastBreak
<1> DEFINE first == m + 1
           last == LineOf(buffer, first, n)
           new == LineOf(c, first, Len(c))
           f == TextOf(buffer, first)[tellp]
           g == TextOf(c, first)[r]
           h == TextOf(t, 1)[k]
<1>11. Lines' = [Lines EXCEPT ![Len(Lines)] = new]
  <2>1. \A q \in 1 .. m : buffer[q] = c[q]
    BY <1>6, <1>7
  <2>2. LinesOf(c) = [LinesOf(buffer) EXCEPT ![Len(LinesOf(buffer))] = new]
    BY <1>1, <1>4, <1>5, <1>10, <2>1, Rewritten
  <2> HIDE DEF new
  <2> QED BY <2>2, LinesAre, LinesAreNext DEF c
<1>12. Lines[Len(Lines)] = last
  BY <1>1, <1>5, LastLine, LinesAre DEF n
<1>13. first \in Nat \ {0} /\ first <= tellp + 1 /\ first <= r + 1
  BY <1>6
<1>14. g = f \o h
  <2>1. Follows(buffer, tellp, t, c)
    <3>1. \A p \in 1 .. tellp : buffer[p] = c[p]
      BY <1>7
    <3> QED BY <1>6, <1>8, <3>1 DEF Follows, k, n
  <2>2. /\ buffer \in Seq(Characters) /\ c \in Seq(Characters) /\ t \in Seq(Characters)
        /\ first \in Nat \ {0} /\ tellp \in Nat /\ first <= tellp + 1
    BY <1>1, <1>2, <1>4, <1>6, <1>13
  <2> HIDE DEF first
  <2>3. TextOf(c, first)[tellp + Len(t)]
          = Joined(TextOf(buffer, first)[tellp], TextOf(t, 1)[Len(t)])
    BY ONLY <2>1, <2>2, TextWritten
  <2> QED BY <2>3 DEF Joined, k
<1>15. last = LineOf(buffer, first, tellp)
  <2>1. Blank(buffer, tellp + 1, n)
    BY <1>1 DEF Blank
  <2> HIDE DEF first
  <2> QED BY <1>1, <1>6, <1>13, <2>1, LineBlanks DEF n
<1>16. new = LineOf(c, first, r)
  <2>1. Blank(c, r + 1, Len(c))
    BY <1>9 DEF Blank
  <2> HIDE DEF first, r
  <2> QED BY <1>4, <1>6, <1>13, <2>1, LineBlanks
<1> DEFINE Body == {p \in first .. tellp : buffer[p] # "sp"}
           Now == {p \in first .. r : c[p] # "sp"}
<1>17. /\ last = IF Body = {} THEN [level |-> 0, text |-> <<>>]
                 ELSE [level |-> (Min(Body) - first) \div 2, text |-> f]
       /\ new = IF Now = {} THEN [level |-> 0, text |-> <<>>]
                ELSE [level |-> (Min(Now) - first) \div 2, text |-> g]
  <2> HIDE DEF first, r
  <2> QED BY <1>15, <1>16 DEF LineOf
<1>18. f = <<>> <=> Body = {}
  <2>1. tellp <= Len(buffer)
    BY <1>6 DEF n
  <2>2. f = <<>> <=> \A q \in first .. tellp : buffer[q] = "sp"
    <3> HIDE DEF first
    <3> QED BY <1>1, <1>6, <1>13, <2>1, TextEmpty
  <2> QED BY <2>2
<1>19. f \in Seq(Characters) /\ h \in Seq(Characters)
  <2>1. tellp \in 0 .. Len(buffer) /\ k \in 0 .. Len(t) /\ 1 \in Nat \ {0}
    BY <1>1, <1>2 DEF n, k
  <2> HIDE DEF first
  <2> QED BY <1>1, <1>2, <1>13, <2>1, TextSteps
<1>20. Body \subseteq Now
  <2>1. \A p \in first .. tellp : p \in first .. r /\ p \in 1 .. tellp
    BY <1>6
  <2> QED BY <1>7, <2>1
<1>21. CASE Body # {}
  <2>1. Min(Now) = Min(Body)
    <3>1. Body \subseteq Nat /\ Now \subseteq Nat
      BY <1>6
    <3>2. PICK x \in Body : \A y \in Body : x <= y
      <4> HIDE DEF Body
      <4> QED BY <1>21, <3>1, HasLeast
    <3>3. \A y \in Now : x <= y
      <4>1. ASSUME NEW y \in Now
            PROVE  x <= y
        <5>1. CASE y <= tellp
          <6>1. y \in first .. tellp /\ y \in 1 .. tellp
            BY <1>6, <5>1
          <6> QED BY <1>7, <3>2, <6>1
        <5>2. CASE ~ (y <= tellp)
          BY <1>6, <3>2, <5>2
        <5> QED BY <5>1, <5>2
      <4> QED BY <4>1
    <3>4. x \in Now
      BY <1>20
    <3> HIDE DEF Body, Now
    <3>5. Min(Body) = x
      BY <3>1, <3>2, LeastIs
    <3>6. Min(Now) = x
      BY <3>1, <3>3, <3>4, LeastIs
    <3> QED BY <3>5, <3>6
  <2>2. Now # {}
    BY <1>20, <1>21
  <2> HIDE DEF Body, Now, first
  <2>3. /\ last = [level |-> (Min(Body) - first) \div 2, text |-> f]
        /\ new = [level |-> (Min(Body) - first) \div 2, text |-> g]
    BY <1>17, <1>21, <2>1, <2>2
  <2> HIDE DEF f, g, h
  <2>4. last.text = f /\ f # <<>> /\ last.level = (Min(Body) - first) \div 2
    BY <1>18, <1>21, <2>3
  <2>5. new = [level |-> IF last.text = <<>> THEN level ELSE last.level,
               text |-> last.text \o h]
    BY <1>14, <2>3, <2>4
  <2> HIDE DEF last, new
  <2>6. /\ Lines[Len(Lines)] = last
        /\ Lines' = [Lines EXCEPT ![Len(Lines)] =
             [level |-> IF last.text = <<>> THEN level ELSE last.level,
              text  |-> last.text \o h]]
    BY <1>11, <1>12, <2>5
  <2> QED BY <2>6 DEF h, k
<1>22. CASE Body = {}
  <2>1. ~ HasText
    <3>1. ASSUME NEW p \in 1 .. tellp, OnLine(p)
          PROVE  FALSE
      <4>1. buffer[p] # "sp" /\ \A q \in p .. tellp : buffer[q] # "nl"
        BY <3>1 DEF OnLine
      <4>2. p <= m
        <5>1. p \notin first .. tellp
          BY <1>22, <4>1
        <5> QED BY <1>6, <5>1
      <4>3. m \in p .. tellp /\ m # 0
        BY <1>6, <4>2
      <4> QED BY <1>5, <4>1, <4>3 DEF LastBreak
    <3> QED BY <3>1 DEF HasText
  <2>2. t[1] # "sp"
    BY <2>1
  <2>3. tellp = m + 2 * level
    <3>1. CASE buffer = <<>>
      <4>1. level = 0 /\ n = 0
        BY <1>1, <3>1 DEF IInv, BeginsAtZero
      <4> QED BY <1>6, <4>1
    <3>2. CASE buffer # <<>>
      <4>1. PICK b \in 1 .. tellp :
              /\ buffer[b] = "nl"
              /\ \A p \in b + 1 .. Len(buffer) : buffer[p] = "sp"
              /\ tellp = b + 2 * level
        BY <2>1, <3>2, LineBreakBefore
      <4>2. b <= m
        <5>1. b \notin m + 1 .. Len(buffer)
          BY <1>5, <4>1 DEF LastBreak
        <5> QED BY <1>6, <5>1 DEF n
      <4>3. m <= b
        <5>1. m \notin b + 1 .. Len(buffer)
          <6>1. m # 0 /\ buffer[m] = "nl"
            BY <1>5, <1>6, <4>2 DEF LastBreak
          <6> QED BY <4>1, <6>1
        <5> QED BY <1>6, <5>1 DEF n
      <4>4. b = m
        BY <1>6, <4>2, <4>3
      <4> QED BY <4>1, <4>4
    <3> QED BY <3>1, <3>2
  <2>4. c[tellp + 1] = t[1]
    <3>1. 1 \in 1 .. k
      BY <1>2, <1>3
    <3> QED BY <1>8, <3>1
  <2>5. tellp + 1 \in Now
    <3>1. tellp + 1 \in first .. r
      BY <1>6
    <3> QED BY <2>2, <2>4, <3>1
  <2>6. \A y \in Now : tellp + 1 <= y
    <3>1. ASSUME NEW y \in Now
          PROVE  tellp + 1 <= y
      <4>1. y \in first .. r /\ c[y] # "sp"
        OBVIOUS
      <4>2. ~ (y \in first .. tellp)
        <5>1. y \in first .. tellp => y \in 1 .. tellp
          BY <1>6
        <5> QED BY <1>7, <1>22, <4>1, <5>1
      <4> QED BY <1>6, <4>1, <4>2
    <3> QED BY <3>1
  <2>7. Min(Now) = tellp + 1
    <3>1. Now \subseteq Nat /\ tellp + 1 \in Nat
      BY <1>6
    <3> DEFINE x == tellp + 1
    <3> HIDE DEF Now, x
    <3>2. x \in Now /\ x \in Nat /\ Now \subseteq Nat /\ \A y \in Now : x <= y
      BY <2>5, <2>6, <3>1 DEF x
    <3>3. Min(Now) = x
      BY <3>2, LeastIs
    <3> QED BY <3>3 DEF x
  <2>8. (Min(Now) - first) \div 2 = level
    <3>1. Min(Now) - first = 2 * level
      BY <1>1, <1>6, <2>3, <2>7
    <3>2. (2 * level) \div 2 = level
      BY <1>1
    <3> QED BY <3>1, <3>2
  <2>9. Now # {}
    BY <2>5
  <2> HIDE DEF Body, Now, first
  <2>10. f = <<>> /\ last = [level |-> 0, text |-> <<>>] /\ new = [level |-> level, text |-> g]
    BY <1>17, <1>18, <1>22, <2>8, <2>9
  <2> HIDE DEF f, g, h, last, new
  <2>11. last.text = <<>> /\ last.text = f
    BY <2>10
  <2>12. new = [level |-> IF last.text = <<>> THEN level ELSE last.level,
                text |-> last.text \o h]
    BY <1>14, <2>10, <2>11
  <2>13. /\ Lines[Len(Lines)] = last
         /\ Lines' = [Lines EXCEPT ![Len(Lines)] =
              [level |-> IF last.text = <<>> THEN level ELSE last.level,
               text  |-> last.text \o h]]
    BY <1>11, <1>12, <2>12
  <2> QED BY <2>13 DEF h, k
<1> QED BY <1>21, <1>22

-----------------------------------------------------------------------------
(* What is on a line with a text alone is what is not blank in the text.   *)
LEMMA VisibleIs ==
  ASSUME NEW S, NEW t \in Seq(S)
  PROVE  Writer!Visible(t) = TextOf(t, 1)[Len(t)]
<1>1. Len(t) \in Nat
  BY LenProperties
<1>2. \A n \in 0 .. Len(t) : n = 0 <=> n < 1
  BY <1>1
<1> DEFINE body(f) == [n \in 0 .. Len(t) |->
                         IF n = 0 THEN <<>>
                         ELSE IF t[n] = "sp" THEN f[n - 1]
                         ELSE Append(f[n - 1], t[n])]
           bodyOf(f) == [p \in 0 .. Len(t) |->
                         IF p < 1 THEN <<>>
                         ELSE IF t[p] = "sp" THEN f[p - 1]
                         ELSE Append(f[p - 1], t[p])]
<1>3. \A f : body(f) = bodyOf(f)
  BY <1>2
<1>4. \A f : f = body(f) <=> f = bodyOf(f)
  <2> HIDE DEF body, bodyOf
  <2> QED BY <1>3
<1>5. \A f : f = body(f) <=> IsText(t, 1, f)
  BY <1>4 DEF IsText
<1>6. (CHOOSE f : f = body(f)) = TextOf(t, 1)
  <2> HIDE DEF body
  <2> QED BY <1>5 DEF TextOf
<1>7. Writer!Visible(t) = (CHOOSE f : f = body(f))[Len(t)]
  BY DEF Writer!Visible
<1> QED BY <1>6, <1>7

(* A text is added to the last line.                                       *)
LEMMA ImplementsWrite ==
  ASSUME IInv, NEW t \in Texts, t # <<>>, t[1] = "sp" => HasText, Write(t)
  PROVE  Writer!Write(t)
<1>1. PICK last :
        /\ Lines[Len(Lines)] = last
        /\ Lines' = [Lines EXCEPT ![Len(Lines)] =
             [level |-> IF last.text = <<>> THEN level ELSE last.level,
              text  |-> last.text \o TextOf(t, 1)[Len(t)]]]
  BY WriteLines
<1>2. Writer!Visible(t) = TextOf(t, 1)[Len(t)]
  BY TextFacts, VisibleIs
<1>3. UNCHANGED level
  BY DEF Write
<1> DEFINE x == Lines
           y == Lines'
<1>4. y = [x EXCEPT ![Len(x)] =
             [level |-> IF @.text = <<>> THEN level ELSE @.level,
              text  |-> @.text \o Writer!Visible(t)]]
  <2> HIDE DEF x, y
  <2> QED BY <1>1, <1>2 DEF x, y
<1> QED BY <1>3, <1>4 DEF Writer!Write

(* An empty text changes nothing.                                          *)
LEMMA EmptyText ==
  ASSUME IInv, Write(<<>>)
  PROVE  UNCHANGED Writer!vars
<1>1. buffer \in Seq(Characters) /\ Len(buffer) \in Nat /\ tellp \in 0 .. Len(buffer)
  BY Numbers
<1> DEFINE s == <<>>
           n == Len(buffer)
<1>2. s \in Seq(Characters) /\ Len(s) = 0
  BY EmptySeq
<1>3. Overwrite(tellp, s)
  BY DEF Write
<1> HIDE DEF s
<1>4. /\ buffer' \in Seq(Characters)
      /\ Len(buffer') = IF tellp + Len(s) > n THEN tellp + Len(s) ELSE n
      /\ \A i \in 1 .. Len(buffer') :
           buffer'[i] = IF i <= tellp THEN buffer[i]
                        ELSE IF i <= tellp + Len(s) THEN s[i - tellp]
                        ELSE buffer[i]
  BY <1>1, <1>2, <1>3, OverwriteFacts
<1>5. Len(buffer') = n
  BY <1>1, <1>2, <1>4
<1>6. \A i \in 1 .. n : buffer'[i] = buffer[i]
  BY <1>1, <1>2, <1>4, <1>5
<1>7. buffer' = buffer
  <2> DEFINE x == buffer
             y == buffer'
  <2>1. x \in Seq(Characters) /\ y \in Seq(Characters) /\ Len(x) = Len(y)
        /\ \A i \in 1 .. Len(x) : x[i] = y[i]
    BY <1>1, <1>4, <1>5, <1>6
  <2> HIDE DEF x, y
  <2>2. x = y
    BY <2>1, SeqEqual
  <2> QED BY <2>2 DEF x, y
<1>8. Lines' = Lines /\ level' = level
  BY <1>7, LinesAre, LinesAreNext DEF Write
<1> QED BY <1>8 DEF Writer!vars

(* Nothing was written, and there is one line without a text.              *)
LEMMA BeginsTheWriter == Init => Writer!Init
BY InitLines DEF Init, Writer!Init, Writer!NoText, Bare

(* Each step of a backend is one of the writer, or one it does not see.    *)
LEMMA WriterStep ==
  ASSUME IInv, [UseNext]_vars
  PROVE  [Writer!Next]_(Writer!vars)
<1>1. ASSUME NEW t \in Texts, t # <<>> /\ t[1] = "sp" => HasText, Write(t)
      PROVE  [Writer!Next]_(Writer!vars)
  <2>1. CASE t = <<>>
    BY <1>1, <2>1, EmptyText
  <2>2. CASE t # <<>>
    BY <1>1, <2>2, ImplementsWrite DEF Writer!Next
  <2> QED BY <2>1, <2>2
<1>2. CASE (HasText \/ level > 0) /\ ~ Alone /\ indent
  <2>1. level' = level + 1 /\ level' \in Nat /\ beginOfLine(level')
    BY <1>2, Numbers DEF indent
  <2>2. Lines' = Lines
    BY <1>2, <2>1, LevelLines
  <2> QED BY <2>1, <2>2 DEF Writer!Next, Writer!Indent
<1>3. CASE ~ Alone /\ dedent
  <2>1. level > 0 /\ level' = level - 1 /\ level' \in Nat /\ beginOfLine(level')
    BY <1>3, Numbers DEF dedent
  <2>2. Lines' = Lines
    BY <1>3, <2>1, LevelLines
  <2> QED BY <2>1, <2>2 DEF Writer!Next, Writer!Dedent
<1>4. CASE endl
  <2>1. Lines' = Append(Lines, Bare) /\ UNCHANGED level
    BY <1>4, EndlLines DEF endl
  <2> QED BY <2>1 DEF Writer!Next, Writer!Endl, Writer!NoText, Bare
<1>5. CASE dedentAtZero \/ UNCHANGED vars
  <2>1. UNCHANGED <<buffer, level>>
    BY <1>5 DEF dedentAtZero, vars
  <2> QED BY <2>1, LinesAre, LinesAreNext DEF Writer!vars
<1> QED BY <1>1, <1>2, <1>3, <1>4, <1>5 DEF UseNext

(* Used as the backends use them, the manipulators implement a writer of   *)
(* lines, for any texts, levels and length of the buffer: a text is on its *)
(* line at the level the line got its first text at, none is lost, and no  *)
(* change of the level moves a line or breaks one.                         *)
THEOREM ImplementsLineWriterCorrect == UseSpec => ImplementsLineWriter
<1>1. IInv /\ [UseNext]_vars => [Writer!Next]_(Writer!vars)
  BY WriterStep
<1> QED BY <1>1, UseInvariant, BeginsTheWriter, PTL
        DEF UseSpec, ImplementsLineWriter, Writer!Spec
=============================================================================
