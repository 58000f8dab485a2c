------------------------------- MODULE Memory -------------------------------
(***************************************************************************)
(* A memory of the IR while it is being built.  The grammar accepts the    *)
(* fields of a mem statement in any order and any number, and calls one    *)
(* setter per field as it goes; a program that builds IR calls the same    *)
(* setters.  A setter throws, leaving the memory as it was, or returns.    *)
(***************************************************************************)
EXTENDS Integers, Sequences, SequencesExt

CONSTANTS NULL,        \* the null pointer
          DTypes,      \* data types, other than the null pointer
          Names,       \* names of ports
          Numbers,     \* the integers a field may be given
          MaxCalls     \* how many setters may return: bounds the runs

ASSUME MemoryAssumption ==
  /\ Numbers \subseteq Int
  /\ MaxCalls \in Nat
  /\ NULL \notin DTypes
  /\ \A fields \in SUBSET Names : fields # NULL

RuwFlag == {"OLD", "NEW", "UNDEFINED"}

VARIABLES
  mDType, mType,                        \* mType: its fields, or NULL
  mReaders, mWriters, mReadWriters,
  mDepth, mReadlatency, mWritelatency,
  mRuwflagset, mRuwflag,
  outcome,                              \* of the last call
  calls                                 \* the calls that returned, in order

scalars == <<mDType, mDepth, mReadlatency, mWritelatency, mRuwflagset, mRuwflag>>
ports == <<mReaders, mWriters, mReadWriters>>
vars == <<scalars, ports, mType, outcome, calls>>

Unset == -1

-----------------------------------------------------------------------------
Init ==
  /\ mDType = NULL /\ mType = NULL
  /\ mReaders = <<>> /\ mWriters = <<>> /\ mReadWriters = <<>>
  /\ mDepth = Unset /\ mReadlatency = Unset /\ mWritelatency = Unset
  /\ mRuwflagset = FALSE /\ mRuwflag = "UNDEFINED"
  /\ outcome = "returned"
  /\ calls = <<>>

Callable == outcome # "crashed" /\ Len(calls) < MaxCalls

Returns(op, arg) ==
  /\ outcome' = "returned"
  /\ calls' = Append(calls, [op |-> op, arg |-> arg])

Throws ==
  /\ outcome' = "threw"
  /\ UNCHANGED <<scalars, ports, mType, calls>>

setDType(type) ==
  /\ Callable
  /\ IF type # NULL /\ mDType = NULL
     THEN /\ mDType' = type
          /\ Returns("setDType", type)
          /\ UNCHANGED <<mDepth, mReadlatency, mWritelatency, mRuwflagset,
                         mRuwflag, ports, mType>>
     ELSE Throws

(* Variant: the depth may be set again.                                    *)
setDepthAgain(depth) ==
  /\ Callable
  /\ depth >= 0
  /\ mDepth' = depth
  /\ Returns("setDepth", depth)
  /\ UNCHANGED <<mDType, mReadlatency, mWritelatency, mRuwflagset, mRuwflag,
                 ports, mType>>

setDepth(depth) ==
  /\ Callable
  /\ IF depth >= 0 /\ mDepth = Unset
     THEN /\ mDepth' = depth
          /\ Returns("setDepth", depth)
          /\ UNCHANGED <<mDType, mReadlatency, mWritelatency, mRuwflagset,
                         mRuwflag, ports, mType>>
     ELSE Throws

(* The member assigned is the depth.                                       *)
setReadLatency(lat) ==
  /\ Callable
  /\ IF lat >= 0 /\ mReadlatency = Unset
     THEN /\ mDepth' = lat
          /\ Returns("setReadLatency", lat)
          /\ UNCHANGED <<mDType, mReadlatency, mWritelatency, mRuwflagset,
                         mRuwflag, ports, mType>>
     ELSE Throws

(* Variants: the write latency may be set again; the member assigned is    *)
(* the depth.                                                              *)
setWriteLatencyAgain(lat) ==
  /\ Callable
  /\ lat >= 0
  /\ mWritelatency' = lat
  /\ Returns("setWriteLatency", lat)
  /\ UNCHANGED <<mDType, mDepth, mReadlatency, mRuwflagset, mRuwflag, ports,
                 mType>>

setWriteLatencyToDepth(lat) ==
  /\ Callable
  /\ lat >= 0
  /\ mDepth' = lat
  /\ Returns("setWriteLatency", lat)
  /\ UNCHANGED <<mDType, mReadlatency, mWritelatency, mRuwflagset, mRuwflag,
                 ports, mType>>

setWriteLatency(lat) ==
  /\ Callable
  /\ IF lat >= 0 /\ mWritelatency = Unset
     THEN /\ mWritelatency' = lat
          /\ Returns("setWriteLatency", lat)
          /\ UNCHANGED <<mDType, mDepth, mReadlatency, mRuwflagset, mRuwflag,
                         ports, mType>>
     ELSE Throws

setRuwFlag(flag) ==
  /\ Callable
  /\ IF ~ mRuwflagset
     THEN /\ mRuwflagset' = TRUE
          /\ mRuwflag' = flag
          /\ Returns("setRuwFlag", flag)
          /\ UNCHANGED <<mDType, mDepth, mReadlatency, mWritelatency, ports,
                         mType>>
     ELSE Throws

(***************************************************************************)
(* checkAndUpdateDeferedType and, where it answers false, the port's field *)
(* in the type.  The type is made once a data type is there, of the ports  *)
(* there are by then; a field is added to a null type otherwise, and       *)
(* nothing survives that.                                                  *)
(***************************************************************************)
AllPorts == ToSet(mReaders) \cup ToSet(mWriters) \cup ToSet(mReadWriters)

(* Variant: a null type is given fields like any other.                    *)
NeverCrashes == FALSE

Crashes == mDType = NULL

(* Variant: the data is a field of the type, and the ports are not.        *)
DataType == {mDType}

DeferedType == IF mType # NULL THEN mType ELSE AllPorts

addPort(op, list, name) ==
  /\ Callable
  /\ IF name \in ToSet(list) THEN Throws
     ELSE IF Crashes
     THEN /\ outcome' = "crashed"
          /\ UNCHANGED <<scalars, ports, mType, calls>>
     ELSE /\ mType' = DeferedType
          /\ Returns(op, name)
          /\ mReaders' = IF op = "addReader" THEN Append(list, name)
                                             ELSE mReaders
          /\ mWriters' = IF op = "addWriter" THEN Append(list, name)
                                             ELSE mWriters
          /\ mReadWriters' = IF op = "addReadWriter" THEN Append(list, name)
                                                     ELSE mReadWriters
          /\ UNCHANGED scalars

addReader(name) == addPort("addReader", mReaders, name)
addWriter(name) == addPort("addWriter", mWriters, name)
addReadWriter(name) == addPort("addReadWriter", mReadWriters, name)

Next ==
  \/ \E type \in DTypes \cup {NULL} : setDType(type)
  \/ \E n \in Numbers : \/ setDepth(n)
                        \/ setReadLatency(n)
                        \/ setWriteLatency(n)
  \/ \E flag \in RuwFlag : setRuwFlag(flag)
  \/ \E name \in Names : \/ addReader(name)
                         \/ addWriter(name)
                         \/ addReadWriter(name)

Spec == Init /\ [][Next]_vars

-----------------------------------------------------------------------------
TypeOK ==
  /\ mDType \in DTypes \cup {NULL}
  /\ mType = NULL \/ mType \in SUBSET Names
  /\ mReaders \in Seq(Names) /\ mWriters \in Seq(Names)
  /\ mReadWriters \in Seq(Names)
  /\ mDepth \in {Unset} \cup Numbers
  /\ mReadlatency \in {Unset} \cup Numbers
  /\ mWritelatency \in {Unset} \cup Numbers
  /\ mRuwflagset \in BOOLEAN /\ mRuwflag \in RuwFlag
  /\ outcome \in {"returned", "threw", "crashed"}
  /\ Len(calls) <= MaxCalls

Args(op) == {calls[i].arg : i \in {j \in 1 .. Len(calls) : calls[j].op = op}}
Count(op) == Cardinality({j \in 1 .. Len(calls) : calls[j].op = op})

SetOnceOps == {"setDType", "setDepth", "setWriteLatency", "setRuwFlag"}

(***************************************************************************)
(* The setters with a working "already set" assertion return once in the   *)
(* life of a memory, whatever is called in between; and since a port that  *)
(* is declared twice throws, no port call returns twice with one name.     *)
(***************************************************************************)
SetOnce ==
  /\ \A op \in SetOnceOps : Count(op) <= 1
  /\ \A op \in {"addReader", "addWriter", "addReadWriter"} :
       Count(op) = Cardinality(Args(op))

(***************************************************************************)
(* What the getters answer is what the setters were given, for every field *)
(* but the depth and the read latency.                                     *)
(***************************************************************************)
GettersAgree ==
  /\ IF mDType = NULL THEN Args("setDType") = {}
                      ELSE Args("setDType") = {mDType}
  /\ IF mWritelatency = Unset THEN Args("setWriteLatency") = {}
                              ELSE Args("setWriteLatency") = {mWritelatency}
  /\ IF mRuwflagset THEN Args("setRuwFlag") = {mRuwflag}
                    ELSE Args("setRuwFlag") = {} /\ mRuwflag = "UNDEFINED"
  /\ Args("addReader") = ToSet(mReaders)
  /\ Args("addWriter") = ToSet(mWriters)
  /\ Args("addReadWriter") = ToSet(mReadWriters)

(***************************************************************************)
(* The depth a memory ends with is the read latency it was given, whenever *)
(* it was given one, and the read latency is never known: setDepth cannot  *)
(* win, neither after (it throws) nor before (it is overwritten).          *)
(***************************************************************************)
LatencyIsTheDepth ==
  /\ mReadlatency = Unset
  /\ mDepth # Unset =>
       \/ mDepth \in Args("setReadLatency")
       \/ Args("setReadLatency") = {} /\ mDepth \in Args("setDepth")
  /\ Count("setDepth") = 1 /\ Count("setReadLatency") = 0 =>
       mDepth \in Args("setDepth")

(***************************************************************************)
(* A port can only be declared after the data type: before it the call     *)
(* does not return.  And the type of a memory, made by its first port      *)
(* before that port is recorded, has no field for any port: the ports that *)
(* follow find the type made and are left out of it too.                   *)
(***************************************************************************)
PortsNeedType ==
  /\ AllPorts # {} => mDType # NULL
  /\ mType = (IF AllPorts = {} THEN NULL ELSE {})

(***************************************************************************)
(* What the assertion "Memory depth already set" says of setDepth: the     *)
(* depth, once set, stays.                                                 *)
(***************************************************************************)
DepthStays == [][mDepth # Unset => mDepth' = mDepth]_vars
=============================================================================
