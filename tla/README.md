# firrtlator in TLA+

firrtlator reads a circuit in FIRRTL, holds it as an intermediate
representation (IR), runs passes over it and writes it through a backend: as
FIRRTL, as a tree for debugging, or as a dot graph.  It is a sequential C++
program.  What makes it hard is not concurrency: it is state that lives across
many small calls (a lexer that acts on a stack while the parser pulls tokens, a
node that a grammar fills one setter at a time, a traversal spread over
`accept`, `visit` and `leave` of fifty classes, a stream that goes back over
what it wrote), where the order of the calls comes from the input.

The modules here model that state and those orders, from the characters of a
line to the text that is written, and the way a design goes through all of it
and back.  TLC checks them on small instances.  TLAPS proves, for every value of
the constants, the invariants of the layout lexer, of the tokens that have a
value (strings and operations), of the memory, of the traversal with every
visitor, of the dot graph, of the stream indentation and of the program, that the layout
lexer implements the off-side rule, and that the stream indentation implements a
writer of lines; and, for every text, the invariants of the parser that speak of
tokens, stack and nodes: what it accepts was read as a whole, some parts of the
language are never read, and only types call themselves.

## The system

| Component | State | Operations | Used by |
|---|---|---|---|
| Layout lexer, `lib/frontends/firrtl/include/FirrtlFrontendLexer{,Helper}.h` | lexer state INITIAL or NORMAL, stack `scopeLevels_`, position | semantic actions `HandleIndent`, `HandleNewline`, `HandleEmpty`; token definitions | pulled by the grammar, one token at a time |
| Token actions, same files | the token's buffer while a string is unquoted | quotes, numbers, info, `HandlePrimOp`, which makes a `PrimOp` | grammar |
| Grammar, `FirrtlFrontendGrammar.h`, `FirrtlFrontend.cpp` | attributes and locals of the rules | rules of a recursive descent with side effects on IR nodes | library interface |
| Memory node, `lib/ir/src/Memory.cpp` | data type, ports, depth, latencies, flag, deferred type | setters, `addReader`, `addWriter`, `addReadWriter` | grammar |
| Operations, `Expression.cpp`, `IR.h` | operation, operands, parameters | `generate`, `lookup`, `operationName`, `addOperand`, `addParameter` | lexer, grammar, backends |
| Nodes and `accept`, `lib/ir/src/*.cpp` | pointers between nodes, infos | setters, `add...`, `accept` | all |
| Pass stripinfo, `StripInfo.cpp` | none of its own | `visit` clears infos | library interface |
| Stream indentation, `StreamIndentation.cpp` | level in the stream's `iword`, buffer, write position | `indent`, `dedent`, `endl` | backends |
| FIRRTL, tree, dot backends | a string stream; dot: table of nodes and lists of edges | `visit`, `leave` of every class | library interface |
| Registries, `lib/{backends,frontends,passes}` | maps filled before `main` | lookup by name or extension | library interface |
| Library interface and program, `lib/src/Firrtlator.cpp`, `firrtlator/src/Firrtlator.cpp` | the IR that is held, the output file | `parseFile`, `pass`, `generate`; `main` | user |

They interact by calls only.  The grammar calls the lexer through a token
iterator and the IR through setters; a backend or a pass hands a visitor to
`accept` of the circuit, which calls back; backends write through the
manipulators.

What is hard in each, and what makes it correct:

* **Layout lexer.** One line may close several blocks; the same blanks are
  matched once per block, with the stack changed in between, and the line may
  turn out to be wrong after DEDENTs were handed out.  The end of the input is
  noticed only by a line break.  Correct: the stack is ordered, the tokens and
  the stack agree, the lexer ends, and the nesting the parser sees is the one of
  the off-side rule.
* **Memory.** Fields come in any order and any number.  Correct: a field is set
  once and read as it was set; the type follows the ports.
* **Strings.** A string is unquoted within its own token, by a loop that reads
  and writes the same buffer.  Correct: what is read is what its escapes stand
  for, nothing is overwritten before it is read, and what is written is read as
  the same string.
* **Grammar.** Semantic actions run while alternatives are still being tried, and
  are not undone; the lexer is a token ahead; setters throw in the middle; a
  rule may call itself without reading anything.  Correct: an accepted text was
  read as a whole and each part of it once, into a tree that has its statements
  in their blocks and can be traversed; and the parser ends.
* **Operations.** Four tables of the same 32 operations are kept by hand.
  Correct: they agree, an operation keeps its operands, and what is written is
  read as the same operation.
* **Printer.** Frontend and backend each have the syntax of 30 kinds by hand.
  Correct: what is written is read as the same design.
* **Dot graph.** Edges are kept by pointer and printed at the end with numbers that
  are looked up.  Correct: the graph is the tree.
* **Traversal.** Whether the children of a node are followed by `accept` or by
  the visitor is decided per class and visitor by the `bool` that `visit`
  returns; indents and dedents are in different functions.  Correct: nothing is
  missed, nothing is visited twice, levels balance, a complete tree does not
  crash.
* **stripinfo.** Correct: no info is left.
* **Stream indentation.** The blanks of a line are written before it is known at
  which level it will be, and `beginOfLine` goes back over them.  Correct: each
  text is on its line at its level, and none is lost.
* **Program.** Several steps may fail, some in ways nobody asks about.  Correct:
  a result is written only if every step worked, and a failure does not destroy
  a file without need.

## The modules

| Module | Models | Built on |
|---|---|---|
| `Layout` | the off-side rule, stated over lines without a stack (abstract) | |
| `IndentLexer` | the two lexer states and the layout actions | refines `Layout` |
| `Quotes` | a string from its token through unquoting to text and back | |
| `FirrtlText` | the tokens the lexer makes of lines, and how a text may end | |
| `FirrtlGrammar` | the rules of the grammar with their semantic actions, as data | |
| `FirrtlParser` | the frontend: recursive descent over that data | `IR`, `FirrtlGrammar`, `FirrtlText` |
| `FirrtlTree` | the properties of the tree that the frontend leaves, beside the statements and types of the text | `FirrtlParser` |
| `Memory` | the memory node while it is built | |
| `PrimOp` | an operation from its token through the IR to text and back | |
| `IR` | the nodes, their pointers, and the order `accept` follows them | |
| `Visitors` | what each of the four visitors does at each kind of node | `IR` |
| `Traversal` | building a tree and running a visitor over it | `Visitors` |
| `DotGraph` | the graph the dot backend draws | `Traversal` |
| `LineWriter` | a writer of indented lines (abstract) | |
| `StreamIndentation` | the manipulators over a string buffer | refines `LineWriter` |
| `FirrtlPrinter` | the FIRRTL backend and the tokens it writes | `IR`, `FirrtlText`, an instance of `LineWriter` |
| `RoundTrip` | a design read, written and read again | `FirrtlTree`, `FirrtlPrinter` |
| `Driver` | `main` and the library calls it makes | |
| `IndentLexerProofs`, `TokenProofs`, `FirrtlParserProofs`, `MemoryProofs`, `TraversalProofs`, `StreamIndentationProofs`, `DriverProofs` | theorems of these modules; those of `Quotes` and `PrimOp` are in `TokenProofs`, those of `DotGraph` in `TraversalProofs` | `DataLemmas` |
| `DataLemmas` | lemmas: sets of numbers, finite sets, sequences and what the community modules' operators make of them | |

The `MC...` modules give bounds and inputs to TLC.  A definition whose comment
begins with *Variant* is not part of a specification: it is a plausible slip in
the code (a dropped guard, a wrong member, a `visit` that returns the other
answer) written down beside the definition it would replace.  Put in its place
it makes TLC report the property it stands for, so that each property is known
to be able to fail.

The modules meet where the components do.  `IndentLexer` and `StreamIndentation`
work on characters and blanks, one step per match or manipulator; each is shown
to implement what the next layer up assumes, `Layout` and `LineWriter`.
`FirrtlText` gives the parser tokens with the depths of `Layout`, `FirrtlPrinter`
writes through an instance of `LineWriter`, and `RoundTrip` closes the circle.
The composition is by these abstractions: parser and lexer are not stepped
together character by character.

### IndentLexer and Layout

An input is a sequence of lines `[level, body, eol]`.  What is on a line is one
of: nothing but blanks, a comment (or the `\r` of a blank `\r\n` line), text, or
a character no token starts with.  Several line breaks in a row are one token,
so only the first line can be empty.  One action is one match of the lexer:

| Action | Code |
|---|---|
| `HandleEmpty` | `emptyline`, the first definition of INITIAL, wins on blank lines |
| `IndentNotFromZero`, `IndentSame`, `IndentDeeper`, `IndentDedent` | the branches of `HandleIndent` |
| `LexText`, `SkipComment`, `LexNoMatch` | the tokens of NORMAL |
| `NewlineAtEnd`, `NewlineOnEmptyStack`, `Newline` | the branches of `HandleNewline` |
| `EndOfInput` | the token iterator |

`IndentDedent` and `NewlineAtEnd` are zero matches: position and lexer state stay
and the match is made again.  `NewlineOnEmptyStack` is `top()` on an empty stack,
which the input "blank lines only" reaches; nothing is modelled after it.

`Layout` says how deep a line is from the indentation of the lines before it.
`ImplementsLayout` maps the lexer to it: the depth of a text line is the number
of INDENTs less DEDENTs before it.  Comment lines take part in the layout, in
the code and therefore in `Layout`.

### Quotes

A text is a sequence of three characters, the quote, the backslash and any other.
`Lengths` says which tokens the regular expressions of the lexer match where a
string begins; the longest is taken.  Then one action is one turn of the loop
that unquotes: `AppendCharacter`, `EatQuote` (a quote and what is behind it, also
at the quote that opens the token), `NotEnded`.  `WriteAgain` is `visit(Printf)`,
which puts quotes around the value as it is, and the lexer on the text that was
written, with something behind it.

### FirrtlGrammar, FirrtlText, FirrtlParser, FirrtlTree

A rule is a sequence of items: a token, a rule, an ordered choice, a repetition,
or a semantic action (make a node, wrap one, take the one that was read, attach
it at a pointer, set a field, an info, a width).  So the grammar reads like
`FirrtlFrontendGrammar.h`, and `FirrtlParser` is what Boost Spirit does with it:

| Variable | In the code |
|---|---|
| `frames` | the rules that are on the call stack, with their `_val`, locals and attributes |
| `agenda` | what they have still to match |
| `choices` | the iterators that are kept to go back to |
| `pos`, `ahead` | the token of the parser, and how far the lexer has come |
| `ir`, `fields` | the nodes made so far; which fields of a memory were set |
| `origin` | for the properties alone: the token at which a node's rule began |
| `status` | how `parse` ended |

`Backtrack` restores position and attributes and nothing else: nodes keep what
semantic actions did.  `Match` asks the lexer for the next token, so a text with
an indentation that makes the lexer throw throws there, also when the parser
would go back.  The setters of a memory are a table of which calls throw and
which end the program, those of module `Memory`; an operation refuses a third
operand and any parameter.  `exp_helper` is the one rule that is given a node: the
expression that was read before it, and inside of it the subfield or the index that
was just made around that, never what was read last (`Handed`).  So `a.b.c` is a
field of a field of `a`.  When the grammar has matched, the frontend compares
where the *lexer* is with the end: `Finish`.  A call beyond `MaxDepth` rules is the
end of the C++ stack.

`FirrtlText` is how a text looks to the parser: blocks become INDENT and DEDENT
tokens, a character that begins no token ends what can be read, and the end is
one of five (a line break, blanks, the last token itself, no match, a throw).
Names, numbers and texts have no value.

`FirrtlParser` ends with the properties that can be said of tokens, stack and nodes as
they are.  What takes recursion to say (all nodes of a tree, where a type of the text
ends) is in `FirrtlTree`, so that there is a module to prove about.  Two of the
properties are about every node that was ever made and not only those that are in the
tree: a node of the tree has no second parent among those that alternatives left behind
(`ReadOnce`), and no alternative makes a node of an index (`NeverRead`).

### Memory

One action per setter, each with the assertion that makes it throw.
`setReadLatency` assigns the depth, as the code does.  A port before the data
type adds a field to a null type and ends the program (`crashed`).  A memory's
type is made at the first port, from the ports recorded *before* it, and is kept:
so it never has a field for a port, which `PortsNeedType` states.

### PrimOp

The tables are functions from operations: the keyword of the lexer, `lookup`,
the rows of `operationName`, each as its switch has it, and the operation and sizes that the class hands to its base
class.  The actions make a node, fill it, print it as the FIRRTL backend does,
and read that text again.  `TablesAgree` says exactly which operations do not
survive: `and` and `pad` become `add` already when made, and `asSInt` is not a
keyword of the lexer.  Parameters are not printed.

### IR, Visitors, Traversal, DotGraph

A node has a kind, an info or none, and for each pointer the nodes it leads to.
`AcceptOrder` is `accept` of every class.  A visitor is two tables of *scripts*
(what `visit` and `leave` follow and how they indent) and the set of kinds where
`visit` returns false.  `Traversal` keeps what remains of all calls that have
begun, first things first, in `agenda`: `Accept` replaces a call by its script.
`AcceptNull` follows a pointer nobody asked about; what is asked for (`Asked`) is
the `if` of the code.  Two oddities of the code are tables like the rest:
`Reg::accept` leaves the register as a circuit, and `TypeBundle::accept` is empty.

`DotGraph` adds to the traversal what the dot backend keeps: the nodes in the
order they are numbered, the edges with the pointers at their ends, the
dictionary of numbers.  Only leaving the circuit prints, and asks for the
numbers.  `GraphIsTheTree` says what comes out, edge by edge.

### StreamIndentation and LineWriter

The buffer is a sequence of characters: `nl`, `sp`, or visible.  `beginOfLine` is
modelled with what it does to the write position, including that the search for
the start of the line leaves the last character out.  `LineWriter` keeps lines with
a level and a text.  `Next` calls the manipulators in any order; `UseNext` is the
use the backends make of them, and the refinement holds under it: no line begins
with a blank, level 0 is left only on a line that has a text, and no indent or
dedent is right behind a character that stands alone on its line.  One place in
the backends breaks the last of these, the `)` that ends a `mem`: `MCMemText` is
`visit(Memory)` over the same buffer, and shows that the parenthesis is lost.

### FirrtlPrinter and RoundTrip

For each kind of node a template: tokens, manipulators, and pointers that are
followed where they stand, in the order `accept`, `visit` and `leave` come to.  The
lines of `LineWriter`, without the empty ones, are the text, which ends with the
blanks of the line the last `endl` began.  What is no token for the lexer
(`data-type`, a bracket) is written as such.  `RoundTrip` runs the parser, the
printer and the parser again, and compares the two trees.

### Driver

Frontends, passes and backends are abstracted to how they may end.  Backends
write once, at their end; the file is opened, and emptied, before that.  A file
that cannot be opened is nobody's error.

## The runs

| Run | Question | Bounds |
|---|---|---|
| `indent_lexer` | type, ordered stack, balance, final closing, termination, refinement of `Layout` | all inputs of up to 3 lines of every body and level 0..2, and all text inputs of up to 5 lines and level 0..3 |
| `indent_lexer_end` | does every input close its blocks? **No**: one without a final line break does not | 2 lines, level 0..1 |
| `tokens` | tables, operands, round trip of each operation; what a string is read as, and whether it survives | all operations; texts of up to 8 characters |
| `prim_op_preserved` | does an operation survive a write? **No** | all operations |
| `memory` | what fields hold after any calls | 5 calls that return, 2 types, 2 names; throwing calls are free |
| `memory_depth` | does a depth that was set stay? **No** | 3 calls |
| `firrtl_parser` | is what is accepted read as a whole, once, with its statements in their blocks, into a tree that can be traversed? what uses up the stack, what is never read, does it end? | three sets of texts (below); 26 rules deep |
| `round_trip` | which designs survive being written, exactly | every two of 24 statements in a module, each of them in a module before others, with ports and modules from outside, and the README's example; 22 rules deep |
| `stream_indentation` | blanks only behind the write position, level, refinement of `LineWriter` | buffer of 9 characters, level 0..2 |
| `mem_text` | is the parenthesis of a memory in the text? **No** | level 1..3 |
| `traversal` | visits, levels, null pointers, cleared infos and drawn graphs | four settings (below) |
| `driver` | result and file over all outcomes of all steps | 3 passes |

The texts of `firrtl_parser`: conditionals, elses and statements in every nesting of
up to three lines, with bodies on the line of their `when` and behind it, some with
no line break at the end; one text that uses every rule, cut at each of its
tokens, ended there with a line break and without; and texts that break a
memory, an operation, a type or an expression, each with the ends a text can have.
The settings of `traversal`: conditionals with infos, complete or not, for
`stripinfo` (8 nodes); conditionals with elses in elses for each backend (13
nodes); all other kinds, complete or not (7 nodes); connections (9 nodes).

Why they are enough.  Three lines give every pair of bodies before a third line;
five lines of four levels let one line close three blocks, fail after closing
two, and go on.  Eight characters hold a string with two escapes, and a second
string behind a first.  Five calls let each setter be followed by every other and
by itself twice.  Three lines of statements give an else a conditional before it and a
statement behind it at each depth; the cut text fails every rule at every token it
can fail at, hence takes every way back the grammar has.  The deepest nesting of
these texts needs fewer rules than `MaxDepth`: only a rule that calls itself
without reading reaches it, and `OverflowAtType` says so.  Two statements are every
pair of neighbours in a text.  Nine characters hold two lines at level 2 of which one
was begun too deep.  Thirteen nodes are a module, a conditional with an else whose
statement is a conditional with an else, complete, so a statement is below two
elses; seven nodes hold every kind with all its pointers set but those of kinds
the other settings have.

Deadlock is not checked: each of the modelled things ends, the stream when its
buffer is full (each `.cfg` says so).

Fairness.  The lexer's and the parser's `FairSpec` assume `WF_vars(Next)`: each is a
function that runs by itself until it returns, and nothing else runs.  Both
`Termination` properties need it, and neither is a triviality: two actions leave
the lexer where it was, and the parser goes back to where it was before, with rules
that may match nothing and one that begins with itself.

## What disagrees with the code's own words

1. A comment in `HandleNewline` says that at the end of the input all non-zero
   levels are popped with a token each; that is so only when the last token is a
   line break (`EveryInputCloses`).
2. `setReadLatency` assigns `mDepth`: a depth that was set changes
   (`DepthStays`), and a read latency can be given twice.
3. `and` and `pad` are constructed as `add`, so a design that is read and written
   is not preserved, as the README says it is (`Preserved`).
4. The `)` that ends a memory is written over by the dedent behind it
   (`MemClosed`).

What else the code does that a reader may not expect is stated exactly by
properties that hold, so that the models are known to have it:

| What the code does | Where | Stated by |
|---|---|---|
| An else is read and given to nobody: its statements are lost, and without a block it takes all that follows in its block | grammar, 321 | `StatementsKept` |
| `when c : s` takes the statements behind it, as far as its block goes | grammar, 318 | `SuitesStay` |
| Of a text that ends without a line break, the statements of open blocks are dropped and the text is accepted, since it is the lexer that is asked whether it is at the end | frontend, 57 | `StatementsKept`, `AcceptedIsRead` |
| Where a type is expected and none is, the rule calls itself until the stack ends | grammar, 171 | `OverflowAtType` |
| `flip` and indices are never read, and no node of an index is ever made; nor is one of a vector | grammar, 178 and 392; 171 | `NeverRead`, `OverflowAtType` |
| A register without reset is written with a `)` too many, a conditionally valid expression as `mux` with two operands, a bundle as nothing, a width that was not given as `<-1>`; a memory's fields begin with a word that is no token; none of these can be read | FIRRTL backend, 197, 392, 113; `ir/src/Type.cpp`, 97 | `SurvivesUnless` |
| The arguments of `printf` are not kept, and its info is not written | grammar, 350 | `SurvivesUnless` |
| A file that was written ends with blanks, not with a line break: a conditional at its end is read without its statements, and what was read cannot be written a second time | stream indentation, 84 | `NotTwice` |
| A string of nothing but quotes, the empty one among them, cannot be read; quotes in a string are not escaped when it is written | lexer helper, 192; FIRRTL backend, 338 | `ReadAs`, `StringSurvives` |
| The FIRRTL backend visits the statements of an else twice, below two elses four times | FIRRTL backend, 318 | `VisitedOnce` |
| A module without statements is drawn with an edge to the circuit | dot backend, 76 | `GraphIsTheTree` |
| The program ends with 0 when it could not open its output | `Firrtlator.cpp`, 105 | `ExitZeroMeansWritten` |

## What is proved

`IndentLexerProofs`, for every set of inputs that satisfies `DocumentsAssumption`
(lines as above, every line but the last with its line break, an empty line only
at the start, which is how lines come out of the token definitions):

| Theorem | Inductive invariant |
|---|---|
| `TypeCorrect` | `TypeOK` itself |
| `OpenLevelsCorrect` | `TypeOK /\ OpenLevels`: what is pushed is above the top, and the first level pushed is 0 |
| `BalancedCorrect` | with `EmptyMeansUntouched`: `Balanced` says nothing while the stack is empty, so it has to be added that no INDENT or DEDENT was emitted by then |
| `TerminatedInputClosesCorrect` | with `ZeroOnTopAtEnd`, the last line is left only with 0 on top, and `EndSeen`; with `OpenLevels`, 0 on top is the bottom, so the stack has one level, and with `Balanced` the tokens match |

`StackSteps` carries the argument: every step leaves the stack alone, starts it,
pushes with an INDENT, pops with a DEDENT, or throws.  The invariants are proved
from that lemma rather than from the actions.

From the same assumption, in the same module: `ImplementsLayoutCorrect`, the lexer
implements the off-side rule.  The rule looks back over all lines, the lexer has
only its stack, so the invariant has to say what the stack holds: `OpenAt(d, l)` is
the set of levels of the blocks that are open where line `l` begins, defined over
the lines as the rule is.  `OpenSkip` and `OpenAdd` give it for the next line;
`DepthIs` and `PlacedIs` say that depth and rejection in the rule depend on that
set alone.  `Nested` then says that the stack holds just these levels before a line
is looked at, those not yet popped while it closes blocks, and those of the next
line once it is through; `Numbered` and `Counted` tie the tokens to the texts,
whose number in order `DepthSeen` is read from.  With `IInv` every step is a
`Pass`, a `Reject`, a `Finish`, the undefined case or a stutter (`Passes`,
`Rejects`, `Finishes`, `GivesUp`, `Stutters`).

`TokenProofs`, for strings of any length (`SourcesAssumption`: a text the lexer
looks at here begins with a quote, what may be written behind one does not) and any
order of making, filling and reading operations:

| Theorem | Inductive invariant |
|---|---|
| `UnreadIntactCorrect` | `UnreadIntact` with the types: the loop that unquotes a string in its own token has written fewer characters than it has read, and what is still to be read is as the lexer matched it, also when a backslash or a quote lets it jump over a character |
| `ReadAsCorrect` | `ReadInv`: where the loop is (`Behindhand`).  With the first `k` characters of the string done it stands at `k + 2`, but at `k + 1` as long as these are quotes only, since the quote that opens the token makes it take the first of them for escaped; or it has jumped over the end, and then the string is one that cannot be read (`Unreadable`) |
| `StringSurvivesCorrect` | `WrittenInv` with the two before: what was written is in front of the lexer (`Written`).  That it is read again is then a statement about texts without states: a string that has a quote does not come back (`QuoteLost`), one without is the longest token unless its last character takes the closing quote for escaped |
| `TablesAgreeCorrect` | `OnItsWay`: what a node was made as, what was written of it and what was found of that, each as the tables say; the tables are compared operation by operation |

`MemoryProofs`, for any types, names, numbers and number of calls
(`MemoryAssumption`: the null pointer is none of the types).  The invariants the
run checks are not inductive: that `setDepth` returns once says nothing of why.
`IInv` adds for each field how often it was given as a function of what it holds
(`DTypeGiven`, `WriteLatencyGiven`, `FlagGiven`, `DepthGiven`, `PortsGiven`), for
instance that the depth is unset only while neither `setDepth` nor
`setReadLatency` returned.  `Steps` reduces the actions to the calls that return
and those that change nothing, `CallFacts` says how a recorded call changes
`Args` and `Count`.  From `IInv` follow `SetOnceCorrect`, `GettersAgreeCorrect`,
`LatencyIsTheDepthCorrect`, `PortsNeedTypeCorrect`, and with the bound on the calls
`TypeCorrect`.

`StreamIndentationProofs`, for any texts, any level and a buffer of any length, under
the backends' use (`UseSpec`): `TypeCorrect`, `OnlyBlanksBehindCorrect` and
`AtLevelCorrect`.  `IInv` is the three with `FirstNotBlank` and `BeginsAtZero`: the
buffer, which has no line break before its first line, never begins with a blank,
and there is no level while it is empty.  They need each
other: that a text overwrites only blanks needs the position, that the position
is right needs that what is behind it is blank.  `BehindText` and `WithoutText`
say what `beginOfLine` finds in each case, with the greatest position that is
no blank taken from `DataLemmas`.

`ImplementsLineWriterCorrect` is about the whole buffer, not the line at the write
position alone.  Lines are counted by line breaks (`Places`, `Ended`), so a line
before the last keeps its ends and its characters whatever is written behind the
last line break (`SameEnds`, `Rewritten`), and a line break adds one bare line
(`BreakAdded`).  What is left is the last line: blanks at its end add nothing to it
(`LineBlanks`), a text adds what is visible of it (`TextWritten`), and the first text
puts it at the level of the stream, by `AtLevel` and `BeginsAtZero` (`WriteLines`).
`indent` and `dedent` leave all lines as they are (`LevelLines`).

`TraversalProofs`, for trees of any size, every visitor and every order of building
(`TraversalAssumption`, `IRAssumption`):

| Theorem | Argument |
|---|---|
| `CompleteIsSafeCorrect`, `NoThenNoEndCorrect`, `EverythingVisitedCorrect` | `Inv` |
| `StripCompleteCorrect` | `Inv`; it assumes that infos are given only to kinds the frontend annotates (`FrontendAnnotated`), for the pass clears no other |
| `LevelsBalanceCorrect` | `LevelFollows`, from `Inv` |
| `VisitedOnceCorrect` | `VisitsBounded`, from `Inv` |

`Inv` has two halves.  The tree: nodes are made after the node they are given to, have
the pointers of their kind, and none is given to two (`TreeShape`, `OnePlace`).  The
run: the agenda stands for the calls that have begun, so a child of a visited node
was visited or is called in it (`ChildrenFollow`), a null pointer in it belongs to a
node that is not complete (`NullExplained`), a conditional without statements left
one there (`MissingAwaited`), and a node that `stripinfo` visited has no info
(`StripFollows`).  From `ChildrenFollow` and an empty agenda all that can be reached
from the circuit was visited.

Levels and visits are counts over the agenda, which changes at its front by
whole scripts.  Both are stated as a walk along a sequence that goes up and down one
at some of its elements and never below 0 (`Climbs`): the level walks the agenda from
where it is to the number of vectors the tree backend printed; the visits of a node walk it
from the times it was visited to a bound, which for a child is what each visit of its
parent follows (`Follow`: 2 for the statements of an else in the FIRRTL backend, 1
otherwise) times the visits of the parent.  A step takes the beginning of the walk and
leaves its end.  That a node below `n` elses is visited `2 ^ n` times at most follows
along the tree, from parents to children (`SubsetsDouble`, `SubsetsGrow`).

An induction over a sequence is done over the set of the numbers for which the
statement holds (`Induction` in `DataLemmas`): the sets are explicit, so that no
operator has to be instantiated.  What `FlattenSeq` of the community modules and
the search of `From` compute is tied in the same way to functions that are given
step by step (`FlattenJoins`, `SearchFinds`).

In the same module, about the dot graph:

* `EdgesNameNodesCorrect`, in whatever order the nodes are visited: edges are printed
  with the numbers of the nodes they were added for.  `GraphInv` says that the
  dictionary has each drawn node with a place it was drawn at and anything else with 0,
  and that edges begin at drawn nodes only.
* `GraphIsTheTreeCorrect`: when the drawing is done, the graph is the tree.  Besides
  `Inv` of the traversal and `GraphInv` it needs `DotInv`: what was visited was drawn with
  all its edges, the circuit first (`DrawnWell`); what an edge leads to is drawn or
  will be (`LinksFollow`); and the drawing has three phases (`DotPhase`), of which only
  the last one prints, so nothing is drawn after the edges are printed.  The edges are
  as many as the pairs of a node and a child because no node is in two places
  (`OnePlace`); the edges to nothing are those of modules without statements.

`DriverProofs`, for any file types and passes (`DriverAssumption`): `IInv` says that
the passes that ran are the first of those asked for (`Ran`), all of them once the
backend is asked for (`AllRan`), and what the file holds at each point of `main`
(`FileIs`).  From it follow `TypeCorrect`, `ExitZeroMeansWrittenCorrect` and
`FailureKeepsTheFileCorrect`.

`FirrtlParserProofs`, for every set of texts and every depth of the call stack.  Two
things are assumed of the texts, both as the lexer gives them (`InputsAssumption`): that
there is no token with the name of the missing one, and that a text that ends with a
line break closes as many blocks as it opens, which is `TerminatedInputClosesCorrect` of
the lexer.

| Theorem | From |
|---|---|
| `TypeCorrect` | `Inv`; that pointers lead to the kinds their class takes is the part that needs the grammar |
| `AcceptedIsReadCorrect` | `Inv` |
| `NeverReadCorrect` | `Inv`: no flip is behind the parser, and each node that was ever made, also by an alternative that failed, is of one of the kinds that can be made (`ReadKinds`), which are all but those of an index |
| `LeftRecursionCorrect` | `Inv`: between two calls of a rule that is no type, a token was read |
| `OverflowRecursCorrect` | `Inv` with `OverflowsFull`, and a count of the rules that fit on the stack without one that begins twice at one token: at most 20 for each token |

None of these is inductive.  That a choice goes back to nowhere bad, or that a node has
the kind its next action expects, depends on all that is left to match.  So `Inv` says
of the whole of it, `frames`, `agenda` and `choices` together, that it *can be
matched* (`Place`): there is a state of knowledge for each rule on the stack, and each
item that is left leads from what is known before it to what is known behind it.  A
state (`State`) has the kinds that the rule's node and its last three attributes may
have, how many blocks are open, whether the rule has read a token yet, whether
choices are pending that go back behind a token that was read, and whether a choice
relies on the rule's node; `Below` orders states by how much is known.

The proof has three layers.

* The grammar.  `Local` is what one item does to a state, `Path` a sequence of items,
  and an item fits (`Fit`) if a set of items between states holds it that is closed
  under what is inside of a choice or a repetition.  One lemma for each of the rules
  shows that its items lead from where the rule begins (`Entry`) to where it returns
  (`Exit`); `GrammarFits` collects them.  It is here that a slip in the grammar would
  show: each pointer is given a kind that it takes, each DEDENT has its INDENT, each
  call before the first token goes to a rule of a lower `Rank`.
* The steps.  `Runs` carries `Path` over from one rule to the stack.  Every action
  keeps `Place`: `Match` and the semantic actions take the first item and leave the
  rest, `Call` puts in what `GrammarFits` says, `Choose` and `Repeat` record what the
  choice goes back to (`Saved`), `Backtrack` goes there, and finds the nodes it had,
  grown but of the same kind (`Grown`).
* What follows.  Outside of a block no choice goes back behind a token that was read,
  and inside of one the block must be closed by a token that is still ahead: so when
  the lexer has looked behind the end of a text whose blocks are closed, the parser
  stands there too and does not go back (`Reading`), hence `AcceptedIsRead`.

`Place` says that there are states, out of unbounded sets, so TLC cannot evaluate it;
the properties that follow from it are those that TLC checks.  Of the four parts of
`OverflowAtType` the first is `LeftRecursion`.  The third, that nothing else uses up the
stack, holds only of a stack that is large enough for the text; `OverflowRecurs` says
how large.  A bracket is never matched, so what is behind one has a state in which the
rule's node can be nothing (no kind at all); from there a node may be made of anything
(`UnreachedFit`), and only there is one of an index.

Only model-checked: both `Termination` properties, since the prover has no liveness
under fairness; `StatementsKept`, `SuitesStay`, `ReadOnce`, `TreeComplete`, that no type
is where one calls itself and that no vector is made (`OverflowAtType`), and `SurvivesUnless` and `NotTwice` of
`RoundTrip`, whose trees and texts are taken apart by operators that are declared
`RECURSIVE`, which the prover cannot use.

## What is not modelled

Names, numbers, and the texts of infos, constants and formats: the tokens of
numbers with their conversion, and what the values of constants and widths become.
The texts the tree and the dot backend write (their order, indentation and graph
are modelled).  A constant without a type: its text is put together by `getString`,
which follows the pointer to the type without asking, and `Traversal`, which does not
visit the type there, does not say so; no constant is read without one.  Vector types in the printer: no text can be read that has one, so
they occur in `Traversal` alone.  Boost Spirit itself: how it matches is taken from
how the code uses it.  The order of static initialisation of the registries: they
are constants.  The help text of the program.  The build files.

## The plan

Done, in this order: layout lexer and its proofs, memory, stream indentation, IR
with visitors and traversal, operations, program; proofs of memory and program;
dot graph; strings; grammar, parser, printer and round trip; proofs of the stream
indentation, of the dot graph, of the unquoting and of the refinement of `Layout`;
proofs of the traversal, of the graph as a tree, of strings and operations, and of
the refinement of `LineWriter`.

The last step were the proofs of the parser, for which its recursive properties moved to
`FirrtlTree`.

What could follow:

1. A proof that no node is given to two, over all nodes instead of those of the tree,
   which would need no recursion: `Place` knows which kinds a rule's attributes have, but
   not yet which of them have been given away.
2. Numbers: the tokens of whole and fractional numbers, whose dot stands for any
   character, with the grammar's choice between them; the values of constants.
