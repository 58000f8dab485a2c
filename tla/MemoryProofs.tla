----------------------------- MODULE MemoryProofs -----------------------------
(***************************************************************************)
(* Proofs about Memory, for every number of calls, names and types: the    *)
(* types, that ports need a data type, that fields are set once and read   *)
(* as they were set, and what becomes of the depth.                        *)
(***************************************************************************)
EXTENDS Memory, FiniteSetTheorems, SequenceTheorems, TLAPS

-----------------------------------------------------------------------------
(* Appending a name adds it to the names of a list.                        *)
LEMMA ToSetAppend ==
  ASSUME NEW S, NEW s \in Seq(S), NEW e \in S
  PROVE  /\ Append(s, e) \in Seq(S)
         /\ ToSet(Append(s, e)) = ToSet(s) \cup {e}
<1>1. /\ Append(s, e) \in Seq(S)
      /\ Len(Append(s, e)) = Len(s) + 1
      /\ \A i \in 1 .. Len(s) : Append(s, e)[i] = s[i]
      /\ Append(s, e)[Len(s) + 1] = e
  BY AppendProperties
<1>2. Len(s) \in Nat /\ DOMAIN s = 1 .. Len(s)
      /\ DOMAIN Append(s, e) = 1 .. Len(s) + 1
  BY <1>1, LenProperties
<1>3. 1 .. Len(s) + 1 = (1 .. Len(s)) \cup {Len(s) + 1}
  BY <1>2
<1> QED BY <1>1, <1>2, <1>3 DEF ToSet

-----------------------------------------------------------------------------
(***************************************************************************)
(* What a step does: it leaves all but outcome as it was, or a call        *)
(* returns, is recorded, and has assigned what its setter assigns.         *)
(***************************************************************************)
Refused == UNCHANGED <<scalars, ports, mType, calls>>

Arguments == DTypes \cup Names \cup Numbers \cup RuwFlag

Recorded(op, arg) == calls' = Append(calls, [op |-> op, arg |-> arg])

GivesDType(type) ==
  /\ Recorded("setDType", type)
  /\ mDType = NULL /\ mDType' = type
  /\ UNCHANGED <<mDepth, mReadlatency, mWritelatency, mRuwflagset, mRuwflag>>
  /\ UNCHANGED <<ports, mType>>

GivesDepth(n) ==
  /\ n >= 0
  /\ Recorded("setDepth", n)
  /\ mDepth = Unset /\ mDepth' = n
  /\ UNCHANGED <<mDType, mReadlatency, mWritelatency, mRuwflagset, mRuwflag>>
  /\ UNCHANGED <<ports, mType>>

GivesReadLatency(n) ==
  /\ n >= 0
  /\ Recorded("setReadLatency", n)
  /\ mDepth' = n
  /\ UNCHANGED <<mDType, mReadlatency, mWritelatency, mRuwflagset, mRuwflag>>
  /\ UNCHANGED <<ports, mType>>

GivesWriteLatency(n) ==
  /\ n >= 0
  /\ Recorded("setWriteLatency", n)
  /\ mWritelatency = Unset /\ mWritelatency' = n
  /\ UNCHANGED <<mDType, mDepth, mReadlatency, mRuwflagset, mRuwflag>>
  /\ UNCHANGED <<ports, mType>>

GivesRuwFlag(flag) ==
  /\ Recorded("setRuwFlag", flag)
  /\ ~ mRuwflagset /\ mRuwflagset' = TRUE /\ mRuwflag' = flag
  /\ UNCHANGED <<mDType, mDepth, mReadlatency, mWritelatency>>
  /\ UNCHANGED <<ports, mType>>

PortList(op) == IF op = "addReader" THEN mReaders
                ELSE IF op = "addWriter" THEN mWriters
                ELSE mReadWriters

PortOps == {"addReader", "addWriter", "addReadWriter"}

GivesPort(op, name) ==
  /\ Recorded(op, name)
  /\ mDType # NULL
  /\ name \notin ToSet(PortList(op))
  /\ PortList(op)' = Append(PortList(op), name)
  /\ \A other \in PortOps \ {op} : UNCHANGED PortList(other)
  /\ mType' = DeferedType
  /\ UNCHANGED scalars

(* Each action of the memory is one of these steps.                        *)
LEMMA Steps ==
  ASSUME [Next]_vars
  PROVE  \/ Refused
         \/ \E type \in DTypes : GivesDType(type)
         \/ \E n \in Numbers : \/ GivesDepth(n)
                               \/ GivesReadLatency(n)
                               \/ GivesWriteLatency(n)
         \/ \E flag \in RuwFlag : GivesRuwFlag(flag)
         \/ \E op \in PortOps, name \in Names : GivesPort(op, name)
<1> DEFINE Goal == \/ Refused
                   \/ \E type \in DTypes : GivesDType(type)
                   \/ \E n \in Numbers : \/ GivesDepth(n)
                                         \/ GivesReadLatency(n)
                                         \/ GivesWriteLatency(n)
                   \/ \E flag \in RuwFlag : GivesRuwFlag(flag)
                   \/ \E op \in PortOps, name \in Names : GivesPort(op, name)
<1> USE DEF Returns, Recorded, Callable
<1>1. Throws => Refused
  BY DEF Throws, Refused
<1>2. ASSUME NEW type \in DTypes \cup {NULL}, setDType(type) PROVE Goal
  <2>1. CASE type # NULL /\ mDType = NULL
    BY <1>2, <2>1 DEF setDType, GivesDType
  <2>2. CASE ~ (type # NULL /\ mDType = NULL)
    BY <1>1, <1>2, <2>2 DEF setDType
  <2> QED BY <2>1, <2>2
<1>3. ASSUME NEW n \in Numbers, setDepth(n) PROVE Goal
  <2>1. CASE n >= 0 /\ mDepth = Unset
    BY <1>3, <2>1 DEF setDepth, GivesDepth
  <2>2. CASE ~ (n >= 0 /\ mDepth = Unset)
    BY <1>1, <1>3, <2>2 DEF setDepth
  <2> QED BY <2>1, <2>2
<1>4. ASSUME NEW n \in Numbers, setReadLatency(n) PROVE Goal
  <2>1. CASE n >= 0 /\ mReadlatency = Unset
    BY <1>4, <2>1 DEF setReadLatency, GivesReadLatency
  <2>2. CASE ~ (n >= 0 /\ mReadlatency = Unset)
    BY <1>1, <1>4, <2>2 DEF setReadLatency
  <2> QED BY <2>1, <2>2
<1>5. ASSUME NEW n \in Numbers, setWriteLatency(n) PROVE Goal
  <2>1. CASE n >= 0 /\ mWritelatency = Unset
    BY <1>5, <2>1 DEF setWriteLatency, GivesWriteLatency
  <2>2. CASE ~ (n >= 0 /\ mWritelatency = Unset)
    BY <1>1, <1>5, <2>2 DEF setWriteLatency
  <2> QED BY <2>1, <2>2
<1>6. ASSUME NEW flag \in RuwFlag, setRuwFlag(flag) PROVE Goal
  BY <1>1, <1>6 DEF setRuwFlag, GivesRuwFlag
<1>7. ASSUME NEW op \in PortOps, NEW name \in Names,
             addPort(op, PortList(op), name)
      PROVE  Goal
  <2>1. CASE name \in ToSet(PortList(op))
    BY <1>1, <1>7, <2>1 DEF addPort
  <2>2. CASE name \notin ToSet(PortList(op)) /\ Crashes
    BY <1>7, <2>2 DEF addPort, Refused
  <2>3. CASE name \notin ToSet(PortList(op)) /\ ~ Crashes
    <3>1. /\ mType' = DeferedType
          /\ Recorded(op, name)
          /\ mReaders' = IF op = "addReader" THEN Append(PortList(op), name)
                                             ELSE mReaders
          /\ mWriters' = IF op = "addWriter" THEN Append(PortList(op), name)
                                             ELSE mWriters
          /\ mReadWriters' = IF op = "addReadWriter"
                             THEN Append(PortList(op), name)
                             ELSE mReadWriters
          /\ UNCHANGED scalars
      BY <1>7, <2>3 DEF addPort
    <3>2. /\ PortList(op)' = Append(PortList(op), name)
          /\ \A other \in PortOps \ {op} : UNCHANGED PortList(other)
      BY <3>1 DEF PortList, PortOps
    <3> QED BY <2>3, <3>1, <3>2 DEF GivesPort, Crashes
  <2> QED BY <2>1, <2>2, <2>3
<1>8. ASSUME NEW name \in Names,
             addReader(name) \/ addWriter(name) \/ addReadWriter(name)
      PROVE  Goal
  BY <1>7, <1>8 DEF addReader, addWriter, addReadWriter, PortOps, PortList
<1>9. CASE UNCHANGED vars
  BY <1>9 DEF vars, Refused
<1> QED BY <1>2, <1>3, <1>4, <1>5, <1>6, <1>8, <1>9 DEF Next

-----------------------------------------------------------------------------
(***************************************************************************)
(* The calls that returned, and how a recorded call changes what was given *)
(* to its operation and nothing that was given to another.                 *)
(***************************************************************************)
Ops == {"setDType", "setDepth", "setReadLatency", "setWriteLatency",
        "setRuwFlag"} \cup PortOps

Called == calls \in Seq([op : Ops, arg : Arguments])

Positions(op) == {j \in 1 .. Len(calls) : calls[j].op = op}

(* The calls of an operation are finitely many.                            *)
LEMMA PositionsFinite ==
  ASSUME Called, NEW op
  PROVE  IsFiniteSet(Positions(op))
<1>1. IsFiniteSet(1 .. Len(calls))
  BY LenProperties, FS_Interval DEF Called
<1>2. Positions(op) \subseteq 1 .. Len(calls)
  BY DEF Positions
<1> QED BY <1>1, <1>2, FS_Subset

(* The calls of an operation are counted, and none means none given.       *)
LEMMA CountFacts ==
  ASSUME Called, NEW op
  PROVE  Count(op) \in Nat /\ (Count(op) = 0 <=> Args(op) = {})
<1>1. /\ Cardinality(Positions(op)) \in Nat
      /\ Cardinality(Positions(op)) = 0 <=> Positions(op) = {}
  BY PositionsFinite, FS_CardinalityType, FS_EmptySet
<1>2. Count(op) = Cardinality(Positions(op))
      /\ Args(op) = {calls[i].arg : i \in Positions(op)}
  BY DEF Count, Args, Positions
<1> QED BY <1>1, <1>2

(* A recorded call is one more of its operation.                           *)
LEMMA CallFacts ==
  ASSUME Called, NEW op \in Ops, NEW arg \in Arguments, Recorded(op, arg)
  PROVE  /\ Called'
         /\ Args(op)' = Args(op) \cup {arg}
         /\ Count(op)' = Count(op) + 1
         /\ \A other : other # op => /\ Args(other)' = Args(other)
                                     /\ Count(other)' = Count(other)
<1> DEFINE call == [op |-> op, arg |-> arg]
           n == Len(calls)
<1>1. /\ calls' \in Seq([op : Ops, arg : Arguments])
      /\ Len(calls') = n + 1
      /\ \A i \in 1 .. n : calls'[i] = calls[i]
      /\ calls'[n + 1] = call
  BY AppendProperties DEF Called, Recorded
<1>2. n \in Nat /\ 1 .. n + 1 = (1 .. n) \cup {n + 1} /\ n + 1 \notin 1 .. n
  BY LenProperties DEF Called
<1>3. /\ Positions(op)' = Positions(op) \cup {n + 1}
      /\ n + 1 \notin Positions(op)
      /\ \A other : other # op => Positions(other)' = Positions(other)
  BY <1>1, <1>2 DEF Positions
<1>4. \A other : \A i \in Positions(other) : calls'[i] = calls[i]
  BY <1>1 DEF Positions
<1>5. \A other : Count(other) = Cardinality(Positions(other))
                 /\ Args(other) = {calls[i].arg : i \in Positions(other)}
  BY DEF Count, Args, Positions
<1>6. \A other : Count(other)' = Cardinality(Positions(other)')
                 /\ Args(other)' = {calls'[i].arg : i \in Positions(other)'}
  BY DEF Count, Args, Positions
<1>7. Count(op)' = Count(op) + 1
  BY <1>3, <1>5, <1>6, PositionsFinite, FS_AddElement
<1>8. Args(op)' = Args(op) \cup {arg}
  BY <1>1, <1>3, <1>4, <1>5, <1>6
<1>9. ASSUME NEW other, other # op
      PROVE  Args(other)' = Args(other) /\ Count(other)' = Count(other)
  BY <1>3, <1>4, <1>5, <1>6, <1>9
<1> QED BY <1>1, <1>7, <1>8, <1>9 DEF Called

(* A call that did not return was not recorded.                            *)
LEMMA RefusedFacts ==
  ASSUME Refused, Called
  PROVE  /\ Called'
         /\ \A op : Args(op)' = Args(op) /\ Count(op)' = Count(op)
BY DEF Refused, Called, Args, Count

-----------------------------------------------------------------------------
(***************************************************************************)
(* The inductive invariant: for each field, how often it was given, with   *)
(* what, and what it holds.  That a setter returns once follows from what  *)
(* the field holds after it did.                                           *)
(***************************************************************************)
DTypeGiven ==
  /\ mDType \in DTypes \cup {NULL}
  /\ IF mDType = NULL
     THEN Count("setDType") = 0
     ELSE Count("setDType") = 1 /\ Args("setDType") = {mDType}

WriteLatencyGiven ==
  /\ mWritelatency \in {Unset} \cup Numbers
  /\ IF mWritelatency = Unset
     THEN Count("setWriteLatency") = 0
     ELSE /\ Count("setWriteLatency") = 1
          /\ Args("setWriteLatency") = {mWritelatency}

FlagGiven ==
  /\ mRuwflagset \in BOOLEAN /\ mRuwflag \in RuwFlag
  /\ IF mRuwflagset
     THEN Count("setRuwFlag") = 1 /\ Args("setRuwFlag") = {mRuwflag}
     ELSE Count("setRuwFlag") = 0 /\ mRuwflag = "UNDEFINED"

(* The depth is unset only while neither setter that assigns it returned.  *)
DepthGiven ==
  /\ mReadlatency = Unset
  /\ mDepth \in {Unset} \cup Numbers
  /\ Count("setDepth") <= 1
  /\ mDepth = Unset =>
       Count("setDepth") = 0 /\ Count("setReadLatency") = 0
  /\ mDepth # Unset =>
       \/ mDepth \in Args("setReadLatency")
       \/ Args("setReadLatency") = {} /\ mDepth \in Args("setDepth")

(* A list has each name once, and the names it was given.                  *)
PortsGiven ==
  /\ \A op \in PortOps :
       /\ PortList(op) \in Seq(Names)
       /\ Args(op) = ToSet(PortList(op))
       /\ IsFiniteSet(Args(op))
       /\ Count(op) = Cardinality(Args(op))
  /\ AllPorts # {} => mDType # NULL
  /\ mType = (IF AllPorts = {} THEN NULL ELSE {})

IInv == /\ Called
        /\ DTypeGiven /\ WriteLatencyGiven /\ FlagGiven
        /\ DepthGiven /\ PortsGiven

(* Nothing was given to a new memory.                                      *)
LEMMA GivenInit == Init => IInv
<1> SUFFICES ASSUME Init PROVE IInv
  OBVIOUS
<1>1. calls = <<>> /\ Called
  BY DEF Init, Called
<1>2. \A op : Args(op) = {}
  BY <1>1 DEF Args
<1>3. \A op : Count(op) = 0
  BY <1>1, <1>2, CountFacts
<1>4. DTypeGiven /\ WriteLatencyGiven /\ DepthGiven
  BY <1>3 DEF Init, DTypeGiven, WriteLatencyGiven, DepthGiven
<1>5. FlagGiven
  BY <1>3 DEF Init, FlagGiven, RuwFlag
<1>6. ToSet(<<>>) = {} /\ <<>> \in Seq(Names)
  BY DEF ToSet
<1>7. \A op \in PortOps : PortList(op) = <<>>
  BY DEF Init, PortList
<1>8. AllPorts = {} /\ mType = NULL
  BY <1>6 DEF Init, AllPorts
<1>9. IsFiniteSet({}) /\ Cardinality({}) = 0
  BY FS_EmptySet
<1>10. PortsGiven
  BY <1>2, <1>3, <1>6, <1>7, <1>8, <1>9 DEF PortsGiven
<1> QED BY <1>1, <1>4, <1>5, <1>10 DEF IInv

(* A step that leaves a field alone, and returns from no call that gives   *)
(* it, leaves what was given to it; the data type, the write latency and   *)
(* the flag are given once.                                                *)
LEMMA FieldsStep ==
  ASSUME Called, DTypeGiven, WriteLatencyGiven, FlagGiven, [Next]_vars
  PROVE  DTypeGiven' /\ WriteLatencyGiven' /\ FlagGiven'
<1>1. ASSUME UNCHANGED mDType, Count("setDType")' = Count("setDType"),
             Args("setDType")' = Args("setDType")
      PROVE  DTypeGiven'
  BY <1>1 DEF DTypeGiven
<1>2. ASSUME UNCHANGED mWritelatency,
             Count("setWriteLatency")' = Count("setWriteLatency"),
             Args("setWriteLatency")' = Args("setWriteLatency")
      PROVE  WriteLatencyGiven'
  BY <1>2 DEF WriteLatencyGiven
<1>3. ASSUME UNCHANGED <<mRuwflagset, mRuwflag>>,
             Count("setRuwFlag")' = Count("setRuwFlag"),
             Args("setRuwFlag")' = Args("setRuwFlag")
      PROVE  FlagGiven'
  BY <1>3 DEF FlagGiven
<1>4. CASE Refused
  BY <1>1, <1>2, <1>3, <1>4, RefusedFacts DEF Refused, scalars
<1>5. ASSUME NEW type \in DTypes, GivesDType(type)
      PROVE  DTypeGiven' /\ WriteLatencyGiven' /\ FlagGiven'
  <2>1. /\ Args("setDType")' = Args("setDType") \cup {type}
        /\ Count("setDType")' = Count("setDType") + 1
        /\ \A other : other # "setDType" => /\ Args(other)' = Args(other)
                                            /\ Count(other)' = Count(other)
    BY <1>5, CallFacts DEF GivesDType, Arguments, Ops
  <2>2. Count("setDType") = 0 /\ Args("setDType") = {}
    BY <1>5, CountFacts DEF GivesDType, DTypeGiven
  <2>3. DTypeGiven'
    BY <1>5, <2>1, <2>2, MemoryAssumption DEF GivesDType, DTypeGiven
  <2> QED BY <1>2, <1>3, <1>5, <2>1, <2>3 DEF GivesDType
<1>6. ASSUME NEW n \in Numbers, GivesWriteLatency(n)
      PROVE  DTypeGiven' /\ WriteLatencyGiven' /\ FlagGiven'
  <2>1. /\ Args("setWriteLatency")' = Args("setWriteLatency") \cup {n}
        /\ Count("setWriteLatency")' = Count("setWriteLatency") + 1
        /\ \A other : other # "setWriteLatency" =>
             Args(other)' = Args(other) /\ Count(other)' = Count(other)
    BY <1>6, CallFacts DEF GivesWriteLatency, Arguments, Ops
  <2>2. Count("setWriteLatency") = 0 /\ Args("setWriteLatency") = {}
    BY <1>6, CountFacts DEF GivesWriteLatency, WriteLatencyGiven
  <2>3. WriteLatencyGiven'
    BY <1>6, <2>1, <2>2, MemoryAssumption
       DEF GivesWriteLatency, WriteLatencyGiven, Unset
  <2> QED BY <1>1, <1>3, <1>6, <2>1, <2>3 DEF GivesWriteLatency
<1>7. ASSUME NEW flag \in RuwFlag, GivesRuwFlag(flag)
      PROVE  DTypeGiven' /\ WriteLatencyGiven' /\ FlagGiven'
  <2>1. /\ Args("setRuwFlag")' = Args("setRuwFlag") \cup {flag}
        /\ Count("setRuwFlag")' = Count("setRuwFlag") + 1
        /\ \A other : other # "setRuwFlag" => /\ Args(other)' = Args(other)
                                              /\ Count(other)' = Count(other)
    BY <1>7, CallFacts DEF GivesRuwFlag, Arguments, Ops
  <2>2. Count("setRuwFlag") = 0 /\ Args("setRuwFlag") = {}
    BY <1>7, CountFacts DEF GivesRuwFlag, FlagGiven
  <2>3. Count("setRuwFlag")' = 1 /\ Args("setRuwFlag")' = {flag}
    BY <2>1, <2>2
  <2>4. FlagGiven'
    BY <1>7, <2>3 DEF GivesRuwFlag, FlagGiven
  <2> QED BY <1>1, <1>2, <1>7, <2>1, <2>4 DEF GivesRuwFlag
<1>8. ASSUME NEW op \in {"setDepth", "setReadLatency"} \cup PortOps,
             NEW arg \in Arguments, Recorded(op, arg),
             UNCHANGED <<mDType, mWritelatency, mRuwflagset, mRuwflag>>
      PROVE  DTypeGiven' /\ WriteLatencyGiven' /\ FlagGiven'
  <2>1. op \in Ops /\ op \notin {"setDType", "setWriteLatency", "setRuwFlag"}
    BY DEF PortOps, Ops
  <2>2. \A other : other # op => /\ Args(other)' = Args(other)
                                 /\ Count(other)' = Count(other)
    BY <1>8, <2>1, CallFacts
  <2> QED BY <1>1, <1>2, <1>3, <1>8, <2>1, <2>2
<1>9. ASSUME NEW n \in Numbers, GivesDepth(n) \/ GivesReadLatency(n)
      PROVE  DTypeGiven' /\ WriteLatencyGiven' /\ FlagGiven'
  BY <1>8, <1>9 DEF GivesDepth, GivesReadLatency, Arguments
<1>10. ASSUME NEW op \in PortOps, NEW name \in Names, GivesPort(op, name)
       PROVE  DTypeGiven' /\ WriteLatencyGiven' /\ FlagGiven'
  BY <1>8, <1>10 DEF GivesPort, Arguments, scalars
<1> QED BY <1>4, <1>5, <1>6, <1>7, <1>9, <1>10, Steps

(* The depth is what the read latency was, if one was ever given.          *)
LEMMA DepthStep ==
  ASSUME Called, DepthGiven, [Next]_vars
  PROVE  DepthGiven'
<1> DEFINE depths == {"setDepth", "setReadLatency"}
<1>1. ASSUME UNCHANGED <<mReadlatency, mDepth>>,
             \A op \in depths : /\ Args(op)' = Args(op)
                                /\ Count(op)' = Count(op)
      PROVE  DepthGiven'
  BY <1>1 DEF DepthGiven
<1>2. CASE Refused
  BY <1>1, <1>2, RefusedFacts DEF Refused, scalars
<1>3. ASSUME NEW n \in Numbers, GivesDepth(n) PROVE DepthGiven'
  <2>1. /\ Args("setDepth")' = Args("setDepth") \cup {n}
        /\ Count("setDepth")' = Count("setDepth") + 1
        /\ Args("setReadLatency")' = Args("setReadLatency")
    BY <1>3, CallFacts DEF GivesDepth, Arguments, Ops
  <2>2. Count("setDepth") = 0 /\ Args("setReadLatency") = {}
    BY <1>3, CountFacts DEF GivesDepth, DepthGiven
  <2> QED BY <1>3, <2>1, <2>2, MemoryAssumption
          DEF GivesDepth, DepthGiven, Unset
<1>4. ASSUME NEW n \in Numbers, GivesReadLatency(n) PROVE DepthGiven'
  <2>1. /\ Args("setReadLatency")' = Args("setReadLatency") \cup {n}
        /\ Count("setDepth")' = Count("setDepth")
    BY <1>4, CallFacts DEF GivesReadLatency, Arguments, Ops
  <2> QED BY <1>4, <2>1, MemoryAssumption
          DEF GivesReadLatency, DepthGiven, Unset
<1>5. ASSUME NEW op \in {"setDType", "setWriteLatency", "setRuwFlag"}
                          \cup PortOps,
             NEW arg \in Arguments, Recorded(op, arg),
             UNCHANGED <<mReadlatency, mDepth>>
      PROVE  DepthGiven'
  <2>1. op \in Ops /\ op \notin depths
    BY DEF PortOps, Ops
  <2>2. \A other : other # op => /\ Args(other)' = Args(other)
                                 /\ Count(other)' = Count(other)
    BY <1>5, <2>1, CallFacts
  <2> QED BY <1>1, <1>5, <2>1, <2>2
<1>6. ASSUME NEW type \in DTypes, GivesDType(type) PROVE DepthGiven'
  BY <1>5, <1>6 DEF GivesDType, Arguments
<1>7. ASSUME NEW n \in Numbers, GivesWriteLatency(n) PROVE DepthGiven'
  BY <1>5, <1>7 DEF GivesWriteLatency, Arguments
<1>8. ASSUME NEW flag \in RuwFlag, GivesRuwFlag(flag) PROVE DepthGiven'
  BY <1>5, <1>8 DEF GivesRuwFlag, Arguments
<1>9. ASSUME NEW op \in PortOps, NEW name \in Names, GivesPort(op, name)
      PROVE  DepthGiven'
  BY <1>5, <1>9 DEF GivesPort, Arguments, scalars
<1> QED BY <1>2, <1>3, <1>4, <1>6, <1>7, <1>8, <1>9, Steps

(* Ports are recorded once, after the data type, and not in the type.      *)
LEMMA PortsStep ==
  ASSUME Called, DTypeGiven, PortsGiven, [Next]_vars
  PROVE  PortsGiven'
<1>1. ASSUME UNCHANGED <<ports, mType>>, mDType # NULL => mDType' # NULL,
             \A op \in PortOps : /\ Args(op)' = Args(op)
                                 /\ Count(op)' = Count(op)
      PROVE  PortsGiven'
  <2>1. \A op \in PortOps : PortList(op)' = PortList(op)
    BY <1>1 DEF ports, PortList
  <2>2. AllPorts' = AllPorts
    BY <1>1 DEF ports, AllPorts
  <2> QED BY <1>1, <2>1, <2>2 DEF PortsGiven
<1>2. CASE Refused
  BY <1>1, <1>2, RefusedFacts DEF Refused, scalars
<1>3. ASSUME NEW op \in Ops \ PortOps, NEW arg \in Arguments,
             Recorded(op, arg), UNCHANGED <<ports, mType>>,
             mDType # NULL => mDType' # NULL
      PROVE  PortsGiven'
  <2>1. \A other : other # op => /\ Args(other)' = Args(other)
                                 /\ Count(other)' = Count(other)
    BY <1>3, CallFacts
  <2> QED BY <1>1, <1>3, <2>1
<1>4. ASSUME NEW type \in DTypes, GivesDType(type) PROVE PortsGiven'
  BY <1>3, <1>4, MemoryAssumption DEF GivesDType, Arguments, Ops, PortOps
<1>5. ASSUME NEW n \in Numbers,
             GivesDepth(n) \/ GivesReadLatency(n) \/ GivesWriteLatency(n)
      PROVE  PortsGiven'
  BY <1>3, <1>5 DEF GivesDepth, GivesReadLatency, GivesWriteLatency, Arguments,
                    Ops, PortOps
<1>6. ASSUME NEW flag \in RuwFlag, GivesRuwFlag(flag) PROVE PortsGiven'
  BY <1>3, <1>6 DEF GivesRuwFlag, Arguments, Ops, PortOps
<1>7. ASSUME NEW op \in PortOps, NEW name \in Names, GivesPort(op, name)
      PROVE  PortsGiven'
  <2>1. /\ Args(op)' = Args(op) \cup {name}
        /\ Count(op)' = Count(op) + 1
        /\ \A other : other # op => /\ Args(other)' = Args(other)
                                    /\ Count(other)' = Count(other)
    BY <1>7, CallFacts DEF GivesPort, Arguments, Ops
  <2>2. /\ PortList(op)' \in Seq(Names)
        /\ ToSet(PortList(op)') = ToSet(PortList(op)) \cup {name}
        /\ name \notin ToSet(PortList(op))
    BY <1>7, ToSetAppend DEF GivesPort, PortsGiven
  <2>3. /\ IsFiniteSet(Args(op)')
        /\ Cardinality(Args(op)') = Cardinality(Args(op)) + 1
    BY <2>1, <2>2, FS_AddElement DEF PortsGiven
  <2>4. \A other \in PortOps \ {op} : PortList(other)' = PortList(other)
    BY <1>7 DEF GivesPort
  <2>5. \A other \in PortOps :
          /\ PortList(other)' \in Seq(Names)
          /\ Args(other)' = ToSet(PortList(other)')
          /\ IsFiniteSet(Args(other)')
          /\ Count(other)' = Cardinality(Args(other)')
    BY <2>1, <2>2, <2>3, <2>4 DEF PortsGiven
  <2>6. AllPorts = UNION {ToSet(PortList(o)) : o \in PortOps}
    BY DEF AllPorts, PortList, PortOps
  <2>7. AllPorts' = UNION {ToSet(PortList(o)') : o \in PortOps}
    BY DEF AllPorts, PortList, PortOps
  <2>8. name \in AllPorts'
    BY <2>2, <2>7
  <2>9. mType' = {}
    BY <1>7, MemoryAssumption DEF GivesPort, PortsGiven, DeferedType
  <2>10. mDType' # NULL
    BY <1>7 DEF GivesPort, scalars
  <2> QED BY <2>5, <2>8, <2>9, <2>10 DEF PortsGiven
<1> QED BY <1>2, <1>4, <1>5, <1>6, <1>7, Steps

(* No step leaves the inductive invariant.                                 *)
LEMMA GivenStep == IInv /\ [Next]_vars => IInv'
<1> SUFFICES ASSUME IInv, [Next]_vars PROVE IInv'
  OBVIOUS
<1>1. Called'
  <2>1. ASSUME NEW op \in Ops, NEW arg \in Arguments, Recorded(op, arg)
        PROVE  Called'
    BY <2>1, CallFacts DEF IInv
  <2>2. CASE Refused
    BY <2>2, RefusedFacts DEF IInv
  <2> QED BY <2>1, <2>2, Steps
          DEF GivesDType, GivesDepth, GivesReadLatency, GivesWriteLatency,
              GivesRuwFlag, GivesPort, Ops, Arguments
<1> QED BY <1>1, FieldsStep, DepthStep, PortsStep DEF IInv

-----------------------------------------------------------------------------
(* What is left of the type: the outcomes, and the bound on the calls.     *)
Bounded == /\ outcome \in {"returned", "threw", "crashed"}
           /\ Len(calls) <= MaxCalls

(* No step leaves the outcomes, nor passes the bound.                      *)
LEMMA BoundedStep ==
  ASSUME Called, Bounded, [Next]_vars
  PROVE  Bounded'
<1> USE DEF Bounded
<1>1. Throws => Bounded'
  BY DEF Throws
<1>2. ASSUME NEW op, NEW arg, Callable, Returns(op, arg)
      PROVE  Bounded'
  BY <1>2, MemoryAssumption, LenProperties DEF Callable, Returns, Called
<1>3. ASSUME NEW type, setDType(type) PROVE Bounded'
  BY <1>1, <1>2, <1>3 DEF setDType
<1>4. ASSUME NEW n, setDepth(n) \/ setReadLatency(n) \/ setWriteLatency(n)
      PROVE  Bounded'
  BY <1>1, <1>2, <1>4 DEF setDepth, setReadLatency, setWriteLatency
<1>5. ASSUME NEW flag, setRuwFlag(flag) PROVE Bounded'
  BY <1>1, <1>2, <1>5 DEF setRuwFlag
<1>6. ASSUME NEW op, NEW list, NEW name, addPort(op, list, name)
      PROVE  Bounded'
  <2>1. CASE name \in ToSet(list)
    BY <1>1, <1>6, <2>1 DEF addPort
  <2>2. CASE name \notin ToSet(list) /\ Crashes
    BY <1>6, <2>2 DEF addPort
  <2>3. CASE name \notin ToSet(list) /\ ~ Crashes
    BY <1>2, <1>6, <2>3 DEF addPort
  <2> QED BY <2>1, <2>2, <2>3
<1>7. CASE UNCHANGED vars
  BY <1>7 DEF vars
<1> QED BY <1>3, <1>4, <1>5, <1>6, <1>7
        DEF Next, addReader, addWriter, addReadWriter

(* Every field keeps its type, whatever setters are called.                *)
THEOREM TypeCorrect == Spec => []TypeOK
<1>1. Init => Bounded
  BY MemoryAssumption DEF Init, Bounded
<1>2. IInv /\ Bounded /\ [Next]_vars => Bounded'
  BY BoundedStep DEF IInv
<1>3. IInv /\ Bounded => TypeOK
  BY DEF IInv, Bounded, DTypeGiven, WriteLatencyGiven, FlagGiven, DepthGiven,
         PortsGiven, PortOps, PortList, TypeOK
<1> QED BY <1>1, <1>2, <1>3, GivenInit, GivenStep, PTL DEF Spec

(* Each setter that works is obeyed once in the life of a memory, and each *)
(* port is declared once, whatever is called in between.                   *)
THEOREM SetOnceCorrect == Spec => []SetOnce
<1>1. IInv => SetOnce
  <2> SUFFICES ASSUME IInv PROVE SetOnce
    OBVIOUS
  <2>1. \A op : Count(op) \in Nat
    BY CountFacts DEF IInv
  <2>2. \A op \in SetOnceOps : Count(op) <= 1
    BY <2>1 DEF IInv, SetOnceOps, DTypeGiven, DepthGiven, WriteLatencyGiven,
                FlagGiven
  <2> QED BY <2>2 DEF IInv, SetOnce, PortsGiven, PortOps
<1> QED BY <1>1, GivenInit, GivenStep, PTL DEF Spec

(* The fields read as they were given, but for depth and read latency.     *)
THEOREM GettersAgreeCorrect == Spec => []GettersAgree
<1>1. IInv => GettersAgree
  <2> SUFFICES ASSUME IInv PROVE GettersAgree
    OBVIOUS
  <2>1. \A op : Count(op) = 0 <=> Args(op) = {}
    BY CountFacts DEF IInv
  <2>2. /\ IF mDType = NULL THEN Args("setDType") = {}
                            ELSE Args("setDType") = {mDType}
        /\ IF mWritelatency = Unset
           THEN Args("setWriteLatency") = {}
           ELSE Args("setWriteLatency") = {mWritelatency}
    BY <2>1 DEF IInv, DTypeGiven, WriteLatencyGiven
  <2>3. IF mRuwflagset THEN Args("setRuwFlag") = {mRuwflag}
                       ELSE Args("setRuwFlag") = {} /\ mRuwflag = "UNDEFINED"
    BY <2>1 DEF IInv, FlagGiven
  <2>4. /\ Args("addReader") = ToSet(mReaders)
        /\ Args("addWriter") = ToSet(mWriters)
        /\ Args("addReadWriter") = ToSet(mReadWriters)
    BY DEF IInv, PortsGiven, PortOps, PortList
  <2> QED BY <2>2, <2>3, <2>4 DEF GettersAgree
<1> QED BY <1>1, GivenInit, GivenStep, PTL DEF Spec

(* The depth is the read latency whenever one was given, in any order.     *)
THEOREM LatencyIsTheDepthCorrect == Spec => []LatencyIsTheDepth
<1>1. IInv => LatencyIsTheDepth
  <2> SUFFICES ASSUME IInv PROVE LatencyIsTheDepth
    OBVIOUS
  <2>1. \A op : Count(op) = 0 <=> Args(op) = {}
    BY CountFacts DEF IInv
  <2> QED BY <2>1 DEF IInv, DepthGiven, LatencyIsTheDepth
<1> QED BY <1>1, GivenInit, GivenStep, PTL DEF Spec

(* Ports are only declared after the data type, and none is in the type.   *)
THEOREM PortsNeedTypeCorrect == Spec => []PortsNeedType
<1>1. IInv => PortsNeedType
  BY DEF IInv, PortsGiven, PortsNeedType
<1> QED BY <1>1, GivenInit, GivenStep, PTL DEF Spec

=============================================================================
