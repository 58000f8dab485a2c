----------------------------- MODULE DriverProofs -----------------------------
(***************************************************************************)
(* Proofs about Driver, for every set of file types and passes: the types, *)
(* what an end with 0 means, and what a failure does to the file.          *)
(***************************************************************************)
EXTENDS Driver, SequenceTheorems, TLAPS

-----------------------------------------------------------------------------
(***************************************************************************)
(* The inductive invariant: the passes that ran over the design are the    *)
(* first of those asked for, and all of them once main came to the         *)
(* backend; open is the first to touch the file.                           *)
(***************************************************************************)
Asked == passes \in Seq(Passes \cup {Unknown})

Ran == mIR # NULL =>
         /\ mIR \in Seq(Passes)
         /\ Len(mIR) <= Len(passes)
         /\ \A i \in 1 .. Len(mIR) : mIR[i] = passes[i]

AllRan == passes = IF mIR = NULL THEN <<>> ELSE mIR

Untouched == {"begin", "parse", "passes", "open", "aborted", "exit 1"}

FileIs ==
  /\ pc \in Untouched => file = Holds("old", <<>>)
  /\ pc = "generate" =>
       file = IF writable THEN Holds("empty", <<>>) ELSE Holds("old", <<>>)
  /\ pc = "crashed" =>
       \/ file = Holds("old", <<>>)
       \/ file = Holds("empty", <<>>) /\ AllRan
  /\ pc = "exit 0" =>
       \/ file = Holds("old", <<>>) /\ (input = NULL \/ ~ writable)
       \/ file = Holds("design", passes) /\ passes \in Seq(Passes) /\ writable

IInv == /\ Asked /\ Ran /\ FileIs
        /\ pc \in {"open", "generate"} => AllRan
        /\ pc \in {"begin", "parse", "passes", "open", "generate"} \cup Ended

(* The passes that are asked for are a sequence.                           *)
LEMMA BoundedSeqFacts ==
  ASSUME NEW S, NEW s \in BoundedSeq(S, MaxPasses)
  PROVE  s \in Seq(S)
<1>1. PICK m \in 0 .. MaxPasses : s \in [1 .. m -> S]
  BY DEF BoundedSeq, SeqOf
<1>2. MaxPasses \in Nat
  BY DriverAssumption
<1>3. m \in Nat
  BY <1>2
<1> QED BY <1>1, <1>3, SeqDef

(* A program that begins has not touched its file.                         *)
LEMMA InitIInv == Init => IInv
  BY BoundedSeqFacts
     DEF Init, IInv, Asked, Ran, FileIs, Untouched

(* Nothing is open before the passes are through, and nothing is written   *)
(* before it is open.                                                      *)
LEMMA StepIInv == IInv /\ [Next]_vars => IInv'
<1> SUFFICES ASSUME IInv, [Next]_vars PROVE IInv'
  OBVIOUS
<1> USE DEF IInv, Asked, Ran, FileIs, AllRan, Untouched, Ended, args
<1>1. CASE Begin
  BY <1>1 DEF Begin, Ends
<1>2. CASE parseFile
  <2>1. Ran'
    <3>1. <<>> \in Seq(Passes) /\ Len(<<>>) = 0
      BY ONLY EmptySeq
    <3>2. CASE mIR' = <<>>
      BY <1>2, <3>1, <3>2, LenProperties DEF parseFile
    <3>3. CASE UNCHANGED mIR
      BY <1>2, <3>3 DEF parseFile
    <3> QED BY <1>2, <3>2, <3>3 DEF parseFile
  <2>2. file = Holds("old", <<>>) /\ UNCHANGED <<file, args>>
        /\ pc' \in {"passes", "aborted", "crashed"}
    BY <1>2 DEF parseFile
  <2> QED BY <2>1, <2>2
<1>3. CASE pass
  <2> DEFINE id == passes[Done + 1]
  <2>1. CASE pc' \in {"aborted", "crashed"} /\ UNCHANGED <<mIR, file>>
    BY <1>3, <2>1 DEF pass
  <2>2. CASE /\ id \in Passes /\ mIR # NULL
             /\ mIR' = Append(mIR, id)
             /\ UNCHANGED <<pc, file>>
    <3>1. /\ Done = Len(mIR) /\ Done \in Nat
          /\ Len(passes) \in Nat /\ Done < Len(passes)
          /\ pc = "passes" /\ UNCHANGED args
      BY <1>3, <2>2, LenProperties DEF pass, Done
    <3> HIDE DEF id
    <3>2. mIR \in Seq(Passes) /\ id \in Passes /\ mIR' = Append(mIR, id)
      BY <2>2
    <3>3. /\ mIR' \in Seq(Passes)
          /\ Len(mIR') = Len(mIR) + 1
          /\ \A i \in 1 .. Len(mIR) : mIR'[i] = mIR[i]
          /\ mIR'[Len(mIR) + 1] = id
      BY ONLY <3>2, AppendProperties
    <3>4. \A i \in 1 .. Len(mIR') : mIR'[i] = passes[i]
      BY <2>2, <3>1, <3>3 DEF id
    <3> QED BY <2>2, <3>1, <3>3, <3>4
  <2> QED BY <1>3, <2>1, <2>2 DEF pass, Ends
<1>4. CASE getBackend
  <2>1. AllRan
    <3>1. Len(passes) = Done
      BY <1>4 DEF getBackend
    <3>2. CASE mIR = NULL
      BY <3>1, <3>2, EmptySeq DEF Done
    <3>3. CASE mIR # NULL
      <4>1. /\ mIR \in Seq(Passes \cup {Unknown})
            /\ Len(mIR) = Len(passes)
            /\ \A i \in 1 .. Len(mIR) : mIR[i] = passes[i]
        BY <3>1, <3>3, SeqMonotonic DEF Done
      <4> QED BY <3>3, <4>1, SeqEqual
    <3> QED BY <3>2, <3>3
  <2> QED BY <1>4, <2>1 DEF getBackend, Ends
<1>5. CASE open
  BY <1>5 DEF open, Write
<1>6. CASE generate
  <2>1. CASE mIR # NULL /\ Write(Holds("design", mIR)) /\ pc' = "exit 0"
    <3>1. passes = mIR /\ mIR \in Seq(Passes) /\ UNCHANGED <<mIR, args>>
      BY <1>6, <2>1 DEF generate
    <3>2. CASE writable
      BY <2>1, <3>1, <3>2 DEF Write
    <3>3. CASE ~ writable
      <4>1. file' = Holds("old", <<>>)
        BY <1>6, <2>1, <3>3 DEF generate, Write
      <4>2. ~ writable' /\ passes' = passes
        BY <3>1, <3>3 DEF args
      <4> QED BY <2>1, <3>1, <4>1, <4>2
    <3> QED BY <3>2, <3>3
  <2>2. CASE UNCHANGED file /\ pc' = "crashed"
    BY <1>6, <2>2 DEF generate
  <2> QED BY <1>6, <2>1, <2>2 DEF generate
<1>7. CASE UNCHANGED vars
  BY <1>7 DEF vars
<1> QED BY <1>1, <1>2, <1>3, <1>4, <1>5, <1>6, <1>7 DEF Next

-----------------------------------------------------------------------------
(* The state of the program keeps its type, whatever its arguments.        *)
THEOREM TypeCorrect == Spec => []TypeOK
<1>1. IInv => TypeOK
  <2> SUFFICES ASSUME IInv PROVE TypeOK
    OBVIOUS
  <2>1. <<>> \in Seq(Passes)
    OBVIOUS
  <2>2. pc \in {"begin", "parse", "passes", "open", "generate"} \cup Ended
    BY DEF IInv
  <2>3. \/ file = Holds("old", <<>>)
        \/ file = Holds("empty", <<>>)
        \/ file = Holds("design", passes) /\ passes \in Seq(Passes)
    BY <2>2 DEF IInv, FileIs, Untouched, Ended
  <2>4. \A what \in {"old", "empty", "design"}, ran \in Seq(Passes) :
          Holds(what, ran)
            \in [what : {"old", "empty", "design"}, passes : Seq(Passes)]
    BY DEF Holds
  <2> QED BY <2>1, <2>2, <2>3, <2>4 DEF IInv, Ran, TypeOK
<1> QED BY <1>1, InitIInv, StepIInv, PTL DEF Spec

(* An end with 0 means that the design was written after all its passes,   *)
(* if the file could be opened, and that the file is as it was if not.     *)
THEOREM ExitZeroMeansWrittenCorrect == Spec => []ExitZeroMeansWritten
<1>1. IInv => ExitZeroMeansWritten
  BY DEF IInv, FileIs, ExitZeroMeansWritten
<1> QED BY <1>1, InitIInv, StepIInv, PTL DEF Spec

(* A failure that touches the file is one of the backend.                  *)
THEOREM FailureKeepsTheFileCorrect == Spec => []FailureKeepsTheFile
<1>1. IInv => FailureKeepsTheFile
  <2> SUFFICES ASSUME IInv, pc \in Ended \ {"exit 0"}, file.what # "old"
               PROVE  pc = "crashed" /\ file.what = "empty" /\ AllRan
    BY DEF FailureKeepsTheFile, AllRan
  <2>1. Holds("old", <<>>).what = "old" /\ Holds("empty", <<>>).what = "empty"
    BY DEF Holds
  <2>2. pc = "crashed"
    BY <2>1 DEF IInv, FileIs, Untouched, Ended
  <2> QED BY <2>1, <2>2 DEF IInv, FileIs
<1> QED BY <1>1, InitIInv, StepIInv, PTL DEF Spec
=============================================================================
