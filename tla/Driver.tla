-------------------------------- MODULE Driver --------------------------------
(***************************************************************************)
(* The program firrtlator: it reads a design, runs passes over it and      *)
(* writes it.  Each step asks a registry for the component it needs; an    *)
(* exception that leaves main, or a null pointer that is followed, ends    *)
(* the program where it stands.                                            *)
(*                                                                         *)
(* What frontends, passes and backends do to a design is abstracted to how *)
(* they may end.                                                           *)
(***************************************************************************)
EXTENDS Integers, Sequences, SequencesExt

CONSTANTS NULL,
          Filetypes,    \* the extensions of files; "" when there is none
          FrontendOf,   \* those with a frontend, to its name
          BackendOf,    \* those with a backend, to its name
          Passes,       \* the passes that are registered
          Unknown,      \* the name of one that is not
          MaxPasses     \* how many are asked for: bounds the runs

ASSUME DriverAssumption ==
  /\ DOMAIN FrontendOf \subseteq Filetypes \ {""}
  /\ DOMAIN BackendOf \subseteq Filetypes \ {""}
  /\ Unknown \notin Passes
  /\ MaxPasses \in Nat

VARIABLES
  input,      \* the extension of the file to read, NULL when none is given
  output,     \* the extension of the file to write
  passes,     \* the passes asked for
  writable,   \* whether the file to write can be opened
  pc,         \* what main does next
  mIR,        \* the design that is held: the passes that ran over it
  file        \* what is in the file to write, with the passes that ran over it

vars == <<input, output, passes, writable, pc, mIR, file>>
args == <<input, output, passes, writable>>

Ended == {"exit 0", "exit 1", "aborted", "crashed"}

Holds(what, ran) == [what |-> what, passes |-> ran]

Init ==
  /\ input \in Filetypes \cup {NULL}
  /\ output \in Filetypes
  /\ passes \in BoundedSeq(Passes \cup {Unknown}, MaxPasses)
  /\ writable \in BOOLEAN
  /\ pc = "begin"
  /\ mIR = NULL
  /\ file = Holds("old", <<>>)

Ends(how) == pc' = how /\ UNCHANGED <<mIR, file>>

Begin ==
  /\ pc = "begin"
  /\ IF input = NULL THEN Ends("exit 0")
     ELSE IF input = "" THEN Ends("exit 1")
     ELSE IF input \notin DOMAIN FrontendOf THEN Ends("aborted")
     ELSE Ends("parse")
  /\ UNCHANGED args

(***************************************************************************)
(* The frontend may accept the input, refuse it, throw or crash.  main     *)
(* goes on when it was refused, or could not be read, and holds no design. *)
(***************************************************************************)
parseFile ==
  /\ pc = "parse"
  /\ \/ pc' = "passes" /\ mIR' = <<>>
     \/ pc' = "passes" /\ UNCHANGED mIR
     \/ pc' \in {"aborted", "crashed"} /\ UNCHANGED mIR
  /\ UNCHANGED <<file, args>>

Done == IF mIR = NULL THEN 0 ELSE Len(mIR)

(* Variant: nobody asks whether the pass is registered.                    *)
passUnasked ==
  /\ pc = "passes"
  /\ Done < Len(passes)
  /\ mIR # NULL
  /\ mIR' = Append(mIR, passes[Done + 1])
  /\ UNCHANGED <<pc, file, args>>

pass ==
  /\ pc = "passes"
  /\ Done < Len(passes)
  /\ LET id == passes[Done + 1]
     IN  IF id \notin Passes THEN Ends("aborted")
         ELSE IF mIR = NULL THEN Ends("crashed")
         ELSE \/ Ends("crashed")
              \/ /\ mIR' = Append(mIR, id)
                 /\ UNCHANGED <<pc, file>>
  /\ UNCHANGED args

Write(content) == file' = IF writable THEN content ELSE file

(* Variant: the file is opened before its backend is known.                *)
getBackendLate ==
  /\ pc = "passes"
  /\ Done = Len(passes)
  /\ pc' = IF output \in DOMAIN BackendOf THEN "generate" ELSE "aborted"
  /\ Write(Holds("empty", <<>>))
  /\ UNCHANGED <<mIR, args>>

getBackend ==
  /\ pc = "passes"
  /\ Done = Len(passes)
  /\ IF output = "" THEN Ends("exit 1")
     ELSE IF output \notin DOMAIN BackendOf THEN Ends("aborted")
     ELSE Ends("open")
  /\ UNCHANGED args

(* Opening the file empties it; nobody asks whether it could be opened.    *)
open ==
  /\ pc = "open"
  /\ pc' = "generate"
  /\ Write(Holds("empty", <<>>))
  /\ UNCHANGED <<mIR, args>>

(* Variant: no backend follows the design when there is none.              *)
generateNothing ==
  /\ pc = "generate"
  /\ Write(IF mIR = NULL THEN Holds("empty", <<>>) ELSE Holds("design", mIR))
  /\ pc' = "exit 0"
  /\ UNCHANGED <<mIR, args>>

(* A backend writes to the file once it is through with the design.        *)
generate ==
  /\ pc = "generate"
  /\ \/ mIR # NULL /\ Write(Holds("design", mIR)) /\ pc' = "exit 0"
     \/ UNCHANGED file /\ pc' = "crashed"
  /\ UNCHANGED <<mIR, args>>

Next == Begin \/ parseFile \/ pass \/ getBackend \/ open \/ generate

Spec == Init /\ [][Next]_vars

-----------------------------------------------------------------------------
TypeOK ==
  /\ pc \in {"begin", "parse", "passes", "open", "generate"} \cup Ended
  /\ mIR # NULL => mIR \in Seq(Passes)
  /\ file \in [what : {"old", "empty", "design"}, passes : Seq(Passes)]

(***************************************************************************)
(* A program that was given an input and ends well has written the design, *)
(* with every pass that was asked for run over it, in that order, and none *)
(* of them unknown: a design that was refused, or a pass that failed, is   *)
(* never taken for a result.  A file that could not be opened is the       *)
(* exception: it stays as it was, and the program ends well all the same.  *)
(***************************************************************************)
ExitZeroMeansWritten ==
  pc = "exit 0" /\ input # NULL =>
    file = IF writable THEN Holds("design", passes) ELSE Holds("old", <<>>)

(***************************************************************************)
(* A program that fails leaves the file as it was, unless it fails in the  *)
(* backend: over the design all passes ran over, or over no design when it *)
(* was refused and no pass was asked for.  Then the file is empty.         *)
(***************************************************************************)
FailureKeepsTheFile ==
  pc \in Ended \ {"exit 0"} /\ file.what # "old" =>
    /\ pc = "crashed"
    /\ file.what = "empty"
    /\ passes = IF mIR = NULL THEN <<>> ELSE mIR
=============================================================================
