----------------------------- MODULE FirrtlParser -----------------------------
(***************************************************************************)
(* The FIRRTL frontend reading a text: Boost Spirit's recursive descent    *)
(* over the tokens of the lexer.  A choice remembers where it stands and   *)
(* goes back there when what it tried does not match; the nodes that the   *)
(* semantic actions made and changed meanwhile stay as they are.           *)
(*                                                                         *)
(* The lexer is always one token ahead of the parser, and the frontend     *)
(* asks at the end how far the lexer has come, not the parser.             *)
(***************************************************************************)
EXTENDS IR, FirrtlGrammar, FirrtlText

CONSTANTS Inputs,     \* the texts, as their tokens and how they end
          MaxDepth    \* how many rules fit on the call stack

(* How many blocks are open before the token at p.                         *)
Opened(tokens, p) ==
  Cardinality({q \in 1 .. p - 1 : tokens[q] = "INDENT"})
    - Cardinality({q \in 1 .. p - 1 : tokens[q] = "DEDENT"})

(***************************************************************************)
(* What the lexer gives: no token for what begins none, and as many blocks *)
(* closed as opened where a line break ends the text.                      *)
(***************************************************************************)
ASSUME InputsAssumption ==
  /\ \A i \in Inputs :
       /\ i.tokens \in Seq(STRING)
       /\ i.end \in Ends
       /\ i.lines \in Seq([at : Nat, depth : Nat])
       /\ ToSet(i.tokens) \cap NoToken = {}
       /\ i.end = "newline" => Opened(i.tokens, Len(i.tokens) + 1) = 0
  /\ MaxDepth \in Nat \ {0}
  /\ NULL \notin Nat \cup DOMAIN Grammar

VARIABLES
  input,      \* the text that is read
  pos,        \* the token that is next
  ahead,      \* the last token the lexer was asked for
  frames,     \* the rules that have begun: their nodes and attributes
  agenda,     \* what is left to match, first things first
  choices,    \* what to go back to, the last choice last
  origin,     \* for each node the token its rule began at
  fields,     \* for each node the fields that were set, if a memory
  status

nodes == <<ir, origin, fields>>
vars == <<input, pos, ahead, frames, agenda, choices, nodes, status>>

Frame(rule, val, start) ==
  [rule |-> rule, val |-> val, got |-> IF val = NULL THEN <<>> ELSE <<val>>,
   start |-> start]

Top == frames[Len(frames)]

Length == Len(input.tokens)

(* The token at p; behind the last one is the end of the input.            *)
TokenAt(p) == IF p <= Length THEN input.tokens[p] ELSE "end-of-input"

Matches(t, token) == t = token \/ (t = "identifier" /\ token = "reset")

(* Variant: that the grammar has matched is enough.                        *)
AnyEnd == TRUE

(***************************************************************************)
(* Whether the lexer has read the text to its end: it is there as soon as  *)
(* it looked behind the last token, or at the last token of a text that    *)
(* ends with it.                                                           *)
(***************************************************************************)
LexedToEnd ==
  \/ input.end \in {"newline", "blanks", "text"} /\ ahead > Length
  \/ input.end = "text" /\ ahead = Length

-----------------------------------------------------------------------------
Init ==
  /\ input \in Inputs
  /\ pos = 1
  /\ ahead = 1
  /\ frames = <<Frame(NULL, NULL, 1)>>
  /\ agenda = <<R("circuit")>>
  /\ choices = <<>>
  /\ ir = <<>>
  /\ origin = <<>>
  /\ fields = <<>>
  /\ status = "parsing"

Due(item) == status = "parsing" /\ agenda # <<>> /\ Head(agenda).item = item

(* Going on with these items in the place of the first.                    *)
Continue(items) == agenda' = items \o Tail(agenda)

Fails == Due("token") /\ ~ Matches(Head(agenda).t, TokenAt(pos))

(***************************************************************************)
(* The parser asks for the token behind the one it matched; if the lexer   *)
(* throws there, so does the parser.                                       *)
(***************************************************************************)
Match ==
  /\ Due("token")
  /\ Matches(Head(agenda).t, TokenAt(pos))
  /\ pos' = pos + 1
  /\ ahead' = IF pos + 1 > ahead THEN pos + 1 ELSE ahead
  /\ status' = IF input.end = "throws" /\ pos = Length THEN "threw" ELSE status
  /\ Continue(<<>>)
  /\ UNCHANGED <<input, frames, choices, nodes>>

(* Variant: a rule that inherits is given what was read last.              *)
LastRead == Last(Top.got)

(* What it is given: the node that its caller has chosen or made.          *)
Handed == Top.val

Call ==
  /\ Due("rule")
  /\ IF Len(frames) = MaxDepth
     THEN status' = "overflowed" /\ UNCHANGED <<frames, agenda>>
     ELSE /\ frames' = Append(frames,
                Frame(Head(agenda).rule,
                      IF Head(agenda).inherits THEN Handed ELSE NULL, pos))
          /\ Continue(Append(Grammar[Head(agenda).rule], [item |-> "return"]))
          /\ UNCHANGED status
  /\ UNCHANGED <<input, pos, ahead, choices, nodes>>

SetTop(frame) == frames' = [frames EXCEPT ![Len(frames)] = frame]
Got(attribute) == [Top EXCEPT !.got = Append(@, attribute)]

(* A rule that has matched gives its node to the one that called it.       *)
Return ==
  /\ Due("return")
  /\ frames' = [Front(frames) EXCEPT ![Len(frames) - 1].got =
                                       Append(@, Top.val)]
  /\ Continue(<<>>)
  /\ UNCHANGED <<input, pos, ahead, choices, nodes, status>>

(* To go back to this place, with these items to match instead.            *)
BackTo(items) ==
  [pos |-> pos, depth |-> Len(frames), got |-> Top.got,
   agenda |-> items \o Tail(agenda)]

Committed == [item |-> "commit", to |-> Len(choices)]

Choose ==
  /\ Due("choice")
  /\ LET parsers == Head(agenda).of
     IN  IF Len(parsers) = 1
         THEN Continue(parsers[1]) /\ UNCHANGED choices
         ELSE /\ choices' = Append(choices, BackTo(<<Choice(Tail(parsers))>>))
              /\ Continue(Append(parsers[1], Committed))
  /\ UNCHANGED <<input, pos, ahead, frames, nodes, status>>

Repeat ==
  /\ Due("repeat")
  /\ choices' = Append(choices, BackTo(<<>>))
  /\ Continue(Head(agenda).of \o <<Committed, Head(agenda)>>)
  /\ UNCHANGED <<input, pos, ahead, frames, nodes, status>>

(* What matched is not tried again in another way.                         *)
Commit ==
  /\ Due("commit")
  /\ choices' = SubSeq(choices, 1, Head(agenda).to)
  /\ Continue(<<>>)
  /\ UNCHANGED <<input, pos, ahead, frames, nodes, status>>

(***************************************************************************)
(* Back to the last choice: to its token and its attributes.  A rule that  *)
(* had made its node keeps it, with all that was done to it.               *)
(***************************************************************************)
Backtrack ==
  /\ Fails
  /\ choices # <<>>
  /\ LET back == Last(choices)
     IN  /\ pos' = back.pos
         /\ agenda' = back.agenda
         /\ frames' = [SubSeq(frames, 1, back.depth)
                         EXCEPT ![back.depth].got = back.got]
  /\ choices' = Front(choices)
  /\ UNCHANGED <<input, ahead, nodes, status>>

Refuse ==
  /\ Fails
  /\ choices = <<>>
  /\ status' = "refused"
  /\ UNCHANGED <<input, pos, ahead, frames, agenda, choices, nodes>>

-----------------------------------------------------------------------------
(* Semantic actions.                                                       *)

(* Variant: addModule does not ask what it is given.                       *)
PointerOfInternal(pointer, child) ==
  IF pointer = "mModules" THEN "mInternalModules" ELSE pointer

(* The kinds addModule tells apart.                                        *)
PointerOf(pointer, child) ==
  IF pointer # "mModules" THEN pointer
  ELSE IF ir[child].kind = "ExtModule" THEN "mExternalModules"
  ELSE "mInternalModules"

(* The last attributes, as many as there are pointers to fill.             *)
Filled(new, pointers) ==
  [new EXCEPT !.to =
     [f \in DOMAIN @ |->
        IF \E i \in 1 .. Len(pointers) : pointers[i] = f
        THEN LET i == CHOOSE j \in 1 .. Len(pointers) : pointers[j] = f
             IN  <<Top.got[Len(Top.got) - Len(pointers) + i]>>
        ELSE @[f]]]

NewNode(kind, pointers) ==
  /\ ir' = Append(ir, Filled(New(kind), pointers))
  /\ origin' = Append(origin, Top.start)
  /\ fields' = Append(fields, {})

MakeNode ==
  /\ Due("make")
  /\ NewNode(Head(agenda).kind, Head(agenda).fields)
  /\ SetTop([Top EXCEPT !.val = Len(ir) + 1])
  /\ Continue(<<>>)
  /\ UNCHANGED <<input, pos, ahead, choices, status>>

WrapNode ==
  /\ Due("wrap")
  /\ NewNode(Head(agenda).kind, <<Head(agenda).field>>)
  /\ SetTop(Got(Len(ir) + 1))
  /\ Continue(<<>>)
  /\ UNCHANGED <<input, pos, ahead, choices, status>>

TakeNode ==
  /\ Due("take")
  /\ SetTop([Top EXCEPT !.val = Last(Top.got)])
  /\ Continue(<<>>)
  /\ UNCHANGED <<input, pos, ahead, choices, nodes, status>>

(* An operation takes no more operands than it has.                        *)
Operands == 2

AttachNode ==
  /\ Due("attach")
  /\ LET child == Last(Top.got)
         to == PointerOf(Head(agenda).field, child)
         there == Target(Top.val, to)
     IN  IF to = "mOperands" /\ Len(there) = Operands
         THEN status' = "threw" /\ UNCHANGED ir
         ELSE /\ ir' = [ir EXCEPT ![Top.val].to[to] =
                          IF to \in Lists THEN Append(@, child) ELSE <<child>>]
              /\ UNCHANGED status
  /\ Continue(<<>>)
  /\ UNCHANGED <<input, pos, ahead, frames, choices, origin, fields>>

(***************************************************************************)
(* The setters of a memory, as module Memory has them: a field that was    *)
(* set is refused, the depth also once there was a read latency, and a     *)
(* port before the data type ends the program.                             *)
(***************************************************************************)
Refused(name, set) ==
  \/ name \in {"dtype", "depth", "writelat", "ruw"} /\ name \in set
  \/ name = "depth" /\ "readlat" \in set

SetField ==
  /\ Due("set")
  /\ LET name == Head(agenda).field
         set == fields[Top.val]
     IN  IF name = "port" /\ "dtype" \notin set
         THEN status' = "crashed" /\ UNCHANGED fields
         ELSE IF Refused(name, set)
         THEN status' = "threw" /\ UNCHANGED fields
         ELSE fields' = [fields EXCEPT ![Top.val] = @ \cup {name}] /\ UNCHANGED status
  /\ Continue(<<>>)
  /\ UNCHANGED <<input, pos, ahead, frames, choices, ir, origin>>

(* An operation without parameters takes none.                             *)
AddParameter ==
  /\ Due("param")
  /\ status' = "threw"
  /\ UNCHANGED <<input, pos, ahead, frames, agenda, choices, nodes>>

SetInfo ==
  /\ Due("info")
  /\ ir' = [ir EXCEPT ![Top.val].info = TRUE]
  /\ Continue(<<>>)
  /\ UNCHANGED <<input, pos, ahead, frames, choices, origin, fields, status>>

SetWidth ==
  /\ Due("width")
  /\ setWidth(Top.val)
  /\ Continue(<<>>)
  /\ UNCHANGED <<input, pos, ahead, frames, choices, origin, fields, status>>

(***************************************************************************)
(* The grammar has matched; begin is where the lexer stopped, and it has   *)
(* to be the end.                                                          *)
(***************************************************************************)
Finish ==
  /\ status = "parsing"
  /\ agenda = <<>>
  /\ status' = IF LexedToEnd THEN "accepted" ELSE "refused"
  /\ UNCHANGED <<input, pos, ahead, frames, agenda, choices, nodes>>

Action == MakeNode \/ WrapNode \/ TakeNode \/ AttachNode \/ SetField
            \/ AddParameter \/ SetInfo \/ SetWidth

Descent == Match \/ Call \/ Return \/ Choose \/ Repeat \/ Commit \/ Backtrack
             \/ Refuse

Next == Descent \/ Action \/ Finish

Spec == Init /\ [][Next]_vars

(* The parser is a function that runs by itself until it returns.          *)
FairSpec == Spec /\ WF_vars(Next)

-----------------------------------------------------------------------------
Stopped == {"accepted", "refused", "threw", "crashed", "overflowed"}

(***************************************************************************)
(* Types, and: the lexer is never behind the parser, a choice goes back to *)
(* a place before this one, and a pointer leads to a kind its class takes. *)
(***************************************************************************)
TypeOK ==
  /\ pos \in 1 .. Length + 1
  /\ ahead \in pos .. Length + 1
  /\ Len(frames) \in 1 .. MaxDepth
  /\ \A i \in 1 .. Len(frames) :
       /\ frames[i].val = NULL \/ Made(frames[i].val)
       /\ frames[i].start \in 1 .. Length + 1
  /\ \A i \in 1 .. Len(choices) :
       choices[i].pos <= pos /\ choices[i].depth <= Len(frames)
  /\ IRTypeOK
  /\ Len(origin) = Len(ir) /\ Len(fields) = Len(ir)
  /\ status \in {"parsing"} \cup Stopped

Accepted == status = "accepted"
Terminated == input.end = "newline"

(***************************************************************************)
(* Nothing of an accepted text was left unread, if a line break ends it:   *)
(* the frontend asks how far the lexer is, and goes by the blocks that are *)
(* closed before the end to know that the parser is there too.             *)
(***************************************************************************)
AcceptedIsRead == Accepted /\ Terminated => pos = Length + 1

(* A rule that has begun twice at the same token.                          *)
Recurs(i, j) == /\ i < j
                /\ frames[i].rule = frames[j].rule
                /\ frames[i].start = frames[j].start

(* Only the rules of a type do.                                            *)
LeftRecursion ==
  \A i, j \in DOMAIN frames :
    Recurs(i, j) => frames[i].rule \in {"type", "type_vector"}

(***************************************************************************)
(* No field of a bundle is ever read as flipped and no index is read at    *)
(* all, though there are rules for each: a text with a flip that ends with *)
(* a line break is not accepted, and no node of an index is ever made,     *)
(* not even one that an alternative leaves behind.                         *)
(***************************************************************************)
Unread == {"SubIndex", "SubAccess"}

NeverRead ==
  /\ Accepted /\ Terminated => "flip" \notin ToSet(input.tokens)
  /\ \A n \in DOMAIN ir : ir[n].kind \notin Unread

(* The parser comes to an end on every text, if only that of its stack.    *)
Termination == <>(status \in Stopped)
=============================================================================
