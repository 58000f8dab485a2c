-------------------------------- MODULE PrimOp --------------------------------
(***************************************************************************)
(* A primitive operation on its way through the program: its name is a     *)
(* token, the grammar makes a node of the class for that name and gives it *)
(* operands and parameters, the FIRRTL backend writes the node, and what   *)
(* it wrote is read again.  A program may also ask for a node by its       *)
(* operation and fill it in any order.                                     *)
(***************************************************************************)
EXTENDS Integers, FiniteSets

CONSTANT NULL                 \* no node

(* What the lexer takes for an operation, when "(" follows it.             *)
primop ==
  {"add", "sub", "mul", "div", "mod", "lt", "leq", "gt", "geq", "eq", "neq",
   "pad", "asUInt", "asSint", "asClock", "shl", "shr", "dshl", "dshr", "cvt",
   "neg", "not", "and", "or", "xor", "andr", "orr", "xorr", "cat", "bits",
   "head", "tail"}

lookup ==
  [add |-> "ADD", sub |-> "SUB", mul |-> "MUL", div |-> "DIV", mod |-> "MOD",
   lt |-> "LT", leq |-> "LEQ", gt |-> "GT", geq |-> "GEQ", eq |-> "EQ",
   neq |-> "NEQ", pad |-> "PAD", asUInt |-> "ASUINT", asSInt |-> "ASSINT",
   asClock |-> "ASCLOCK", shl |-> "SHL", shr |-> "SHR", dshl |-> "DSHL",
   dshr |-> "DSHR", cvt |-> "CVT", neg |-> "NEG", not |-> "NOT",
   and |-> "AND", or |-> "OR", xor |-> "XOR", andr |-> "ANDR", orr |-> "ORR",
   xorr |-> "XORR", cat |-> "CAT", bits |-> "BITS", head |-> "HEAD",
   tail |-> "TAIL"]

(* The rows of the switch of operationName.                                *)
operationNames ==
  [ADD |-> "add", SUB |-> "sub", MUL |-> "mul", DIV |-> "div", MOD |-> "mod",
   LT |-> "lt", LEQ |-> "leq", GT |-> "gt", GEQ |-> "geq", EQ |-> "eq",
   NEQ |-> "neq", PAD |-> "pad", ASUINT |-> "asUInt", ASSINT |-> "asSInt",
   ASCLOCK |-> "asClock", SHL |-> "shl", SHR |-> "shr", DSHL |-> "dshl",
   DSHR |-> "dshr", CVT |-> "cvt", NEG |-> "neg", NOT |-> "not",
   AND |-> "and", OR |-> "or", XOR |-> "xor", ANDR |-> "andr", ORR |-> "orr",
   XORR |-> "xorr", CAT |-> "cat", BITS |-> "bits", HEAD |-> "head",
   TAIL |-> "tail"]

(* Variant: one row is missing a letter.                                   *)
operationNameTypo(op) == IF op = "XORR" THEN "xor" ELSE operationNames[op]

operationName(op) == operationNames[op]

Operations == {lookup[name] : name \in DOMAIN lookup}

-----------------------------------------------------------------------------
(***************************************************************************)
(* The classes: the operation each gives to its base class, and how many   *)
(* operands and parameters it takes.                                       *)
(***************************************************************************)
Unary == {"PAD", "ASUINT", "ASSINT", "ASCLOCK", "SHL", "SHR", "CVT", "NEG",
          "NOT", "ANDR", "ORR", "XORR", "BITS", "HEAD", "TAIL"}

OperationOf(class) == IF class \in {"PAD", "AND"} THEN "ADD" ELSE class

Parameters(class) == CASE class = "BITS" -> 2
                       [] class \in {"PAD", "SHL", "SHR", "HEAD", "TAIL"} -> 1
                       [] OTHER -> 0

New(class) == [mOp            |-> OperationOf(class),
               mNumOperands   |-> IF class \in Unary THEN 1 ELSE 2,
               mNumParameters |-> Parameters(class),
               mOperands      |-> 0,      \* how many there are
               mParameters    |-> 0]

VARIABLES
  class,      \* the operation that was asked for
  node,       \* the node made for it
  text,       \* what was written of it: its name and its operands
  back,       \* the node made when that was read
  status      \* "none", "made", "written", "read", or how it ended before

vars == <<class, node, text, back, status>>

Init ==
  /\ class = "UNDEFINED"
  /\ node = NULL /\ text = NULL /\ back = NULL
  /\ status = "none"

generate(op) ==
  /\ status = "none"
  /\ IF op \in Operations
     THEN class' = op /\ node' = New(op) /\ status' = "made"
     ELSE status' = "threw" /\ UNCHANGED <<class, node>>
  /\ UNCHANGED <<text, back>>

(* The token of an operation reaches the grammar only when lookup knows it. *)
HandlePrimOp(raw) ==
  /\ raw \in primop \cap DOMAIN lookup
  /\ generate(lookup[raw])

addOperand ==
  /\ status = "made"
  /\ IF node.mOperands = node.mNumOperands
     THEN status' = "threw" /\ UNCHANGED node
     ELSE node' = [node EXCEPT !.mOperands = @ + 1] /\ UNCHANGED status
  /\ UNCHANGED <<class, text, back>>

addParameter ==
  /\ status = "made"
  /\ IF node.mParameters = node.mNumParameters
     THEN status' = "threw" /\ UNCHANGED node
     ELSE node' = [node EXCEPT !.mParameters = @ + 1] /\ UNCHANGED status
  /\ UNCHANGED <<class, text, back>>

(***************************************************************************)
(* The backend writes no parameter, and takes the first operand without    *)
(* asking for it: when there is none, nothing can be said of what follows. *)
(***************************************************************************)
visit ==
  /\ status = "made"
  /\ IF node.mOperands = 0
     THEN status' = "undefined" /\ UNCHANGED text
     ELSE /\ text' = [name |-> operationName(node.mOp),
                      operands |-> node.mOperands]
          /\ status' = "written"
  /\ UNCHANGED <<class, node, back>>

(* The grammar over what was written: a name that is no operation is an    *)
(* identifier, and no expression goes on with a "(".                       *)
readBack ==
  /\ status = "written"
  /\ IF text.name \notin primop \cap DOMAIN lookup
     THEN status' = "refused" /\ UNCHANGED back
     ELSE LET new == New(lookup[text.name])
          IN  IF text.operands > new.mNumOperands
              THEN status' = "threw" /\ UNCHANGED back
              ELSE /\ back' = [new EXCEPT !.mOperands = text.operands]
                   /\ status' = "read"
  /\ UNCHANGED <<class, node, text>>

Next == \/ \E raw \in primop : HandlePrimOp(raw)
        \/ \E op \in Operations \cup {"UNDEFINED"} : generate(op)
        \/ addOperand \/ addParameter \/ visit \/ readBack

Spec == Init /\ [][Next]_vars

-----------------------------------------------------------------------------
(***************************************************************************)
(* The four tables agree: what is written of a node is read as a node of   *)
(* the same operation with the same operands, whatever the node was given, *)
(* and only a conversion to SInt is written so that it cannot be read.     *)
(* The classes do not agree with them for pad and and alone: what was made *)
(* for these comes back as add.                                            *)
(***************************************************************************)
TablesAgree ==
  /\ status = "read" =>
       /\ back.mOp = node.mOp /\ back.mOperands = node.mOperands
       /\ back.mOp # class <=> class \in {"PAD", "AND"} /\ back.mOp = "ADD"
  /\ status = "refused" => class = "ASSINT"
  /\ class = "ASSINT" => status # "read"

(***************************************************************************)
(* What the README says of writing a design back as FIRRTL, for one        *)
(* operation of it: the design is preserved.                               *)
(***************************************************************************)
Preserved == status = "read" => back.mOp = class
=============================================================================
