# Verification of LunarGLASS

LunarGLASS is a shader compiler stack.  A front end turns a shader into *Top
IR* (LLVM IR with graphics intrinsics), a middle end optimizes and
canonicalizes it into *Bottom IR*, a translator turns the control-flow graph
back into structured code, and a back end prints it (GLSL, TGSI).  This
directory holds TLA+ models of the parts whose logic is easy to get wrong, the
TLC configurations that check them, and TLAPS proofs of their main invariants.

    Standalone/main.cpp
          |  files, options, threads
          v
    glslang (external) --> GlslangToTopVisitor --+
                     \                            +--> gla::Builder --> Top IR
                      -> SPIR-V --> SpvToTop -----+                       |
                                                     TopToBottom passes   |
                                                                          v
    GLSL / TGSI / Dummy back end <-- BottomTranslator <------------ Bottom IR

## 1. Inventory

For each component: the state it keeps, its operations, whom it talks to, what
is hard about it, and what makes it correct.

**Stand-alone driver** (`src/Standalone/main.cpp`).  State: the work list, the
work items' results, and the global flags `CompileFailed` and `LinkFailed`,
shared by the threads of `-t`.  Operations: parse options, translate all
shaders linked, or each on its own by threads, print, return a code.  It calls
glslang, a manager, and is ended by `gla::UnsupportedFunctionality` from
whichever thread meets it.  Hard: interleavings of the threads, one thread's
failure seen by another, a thread that cannot be created, early exits that set
no flag.  Correct if every shader is taken once, nothing is printed that a
thread can still change, a failure of one shader costs only that shader, the
exit code tells failure from success, and the process ends.

**glslang front end** (`src/Frontends/glslang/GlslangToTopVisitor.cpp`).  A
recursive walk of the syntax tree that calls the builder.  State: `inMain`, the
stacks `breakForLoop` and `loopTerminal`, the block where global initializers
continue, the last block of main, and maps from symbols to values.  Hard:
early exits and dead code at any nesting, fall-through segments and labels in
any order in a switch, initializers between functions.  Correct if the blocks
run as the source does.

**Top IR builder, control flow** (`src/Core/TopBuilder.cpp`).  State: LLVM's
blocks and insert point, the stacks `loops` and `switchMerges`, the blocks of
the stage's end.  Operations: functions, return, discard, `If`, switch and loop
construction.  The front ends call them one by one in the order of the source;
the operations look at whether the current block has ended.  Correct if every
block ends once, is placed once, and is never reopened.

**Top IR builder, the rest.** Access chains (swizzles, components, indices;
state: one chain), the copy-in and copy-out of pipeline variables (state: the
list of outputs and of the slots written), and one-call construction of
expressions and intrinsics.  Correct if what an access chain loads is what it
stored, and every active output is written at every way out of the stage.

**SPIR-V front end** (`src/Frontends/SPIRV/SpvToTop.cpp`).  One pass over the
instructions of a module.  State: `commonMap`, from identities to functions,
blocks and values, the set of entry points, the current function.  Functions
and labels are made where they are first met, at their definition or at a use
in front of it.  Hard: forward references of both kinds, the label that
`handleOpFunction` peeks for, a kill in a function, which ends no block.
Correct if the blocks made are the module's control-flow graph.

**Deprecated GLSL front end** (`src/Frontends/Glsl2/`).  Same role, for an
older parser; only built on request.

**Pass schedule** (`src/Core/TopToBottom.cpp`).  Which LLVM and LunarGLASS
passes run, in which order, for which options and back-end queries.

**Control-flow canonicalization** (`CanonicalizeCFG.cpp`,
`FlattenConditionalAssignments.cpp`, `ConditionalUtil`).  They rewrite the
graph: one exit, no empty blocks, conditional assignments into selects.  Hard:
analyses that are stale after a change.  Correct if runs are preserved and the
form the translator asks for is reached.

**Instruction transforms** (`CanonicalizeInsts`, `CoalesceInserts`,
`GatherInsts`, `Scalarize`, `DecomposeInsts`, `IntrinsicCombine`).  Local
rewriting of instructions.  Correct if values are preserved.

**Structure analysis** (`IdentifyStructures`, `LoopUtil.h`,
`BasicBlockUtil.h`).  Finds for each branch its conditional (then, else, merge)
and for each loop header its loop (latch, exits, merge).  Correct if what it
calls a merge post-dominates both sides.

**Bottom translator** (`src/Core/BottomTranslator.cpp`).  A recursive walk of
the graph that emits structured calls (`addIf`, `beginLoop`, `addLoopExit`, phi
copies) to a back end.  State: the set of handled blocks, the stack of loops,
the phi aliases.  Hard: a block reached through several structures, the latch,
exits with code of their own, and the order of phi copies.  Correct if every
block is emitted once and the structured program runs as the graph does.

**GLSL back end** (`src/Backends/GLSL/BottomToGLSL.cpp`).  Called by the Bottom
translator in the order of the text.  State: `valueMap` (the text each value is
written with), `canonMap`, `hashedNames` and `lastVariable` (which names were
made), `globallyDeclared`, and the braces that are open.  Hard: a value may be
a variable, or be substituted where it is used, and a use may stand where the
variable's scope is closed or the variable has changed.  Correct if every name
is declared once where it is used and the text computes what the IR does.

**TGSI and Dummy back ends**.  Registers and nesting; a printer.  Neither is
linked into the program.

**Managers, options, utilities.**  A manager holds the modules of one
translation and runs the phases in order; options are switched on and off from
left to right; metadata encodes declarations; the utilities are stateless.

**Vendored code**: patched LLVM (three versions) and Mesa.

What is hardest to test is listed, line by line, in `PROJECT.json` under
`hazards`, with the properties that cover it.

## 2. Modules

| module | models | kind |
|---|---|---|
| `TopBuilder` | control flow of `gla::Builder` | operators on a builder record |
| `GlslangToTop` | `TGlslangToTopTraverser` | state machine over the builder |
| `TopSemantics` | the source program run beside the built blocks | composition, abstract meaning |
| `AccessChain` | the access chain and the outputs of `gla::Builder` | operators on a builder record |
| `Expressions` | `TGlslangToTopTraverser`'s visits of expressions | state machine over that builder |
| `ExpressionMeaning` | the values the shading language gives expressions | reference definition, properties |
| `SpvToTop` | `SpvToTopTranslator`: functions, labels, what ends a block | state machine over `TopBuilder` |
| `TranslationPool` | what the threaded driver promises | abstract specification |
| `Driver` | `main.cpp` | state machine of main and the threads |
| `DriverPool` | `Driver` implements `TranslationPool` | refinement mapping |
| `ControlFlow` | graphs, and LLVM's analyses by their meaning | pure operators |
| `Structures` | `IdentifyStructures`, `Conditional`, `LoopWrapper` | pure operators |
| `Canonicalize` | `CanonicalizeCFG`, `FlattenConditionalAssignments`, the LLVM passes they rely on, the schedule | a pass maps a graph to its outcomes |
| `BottomTranslator` | `BottomTranslator.cpp` | state machine, one action per way through a method |
| `MiddleEnd` | `runLLVMOptimizations1`, `translateBottomToTarget` | state machine behind `GlslangToTop` |
| `BottomSemantics` | what the structured calls do, beside the graphs they came from | composition, abstract meaning |
| `GlslTarget` | names, declarations, scopes and texts of `BottomToGLSL.cpp`, and the calls the Bottom translator makes | state machine |
| `GlslMeaning` | the text written run beside the IR | composition, abstract meaning |
| `MC*` | values of the constants | for TLC |
| `*_proofs` | theorems | for TLAPS |

### TopBuilder
The builder is a record: `blocks` (all blocks made; a block is named by its
place in this sequence and has a name, a function, the code and the
terminator), `layout` (blocks in their functions' lists, in order), `insert`
(LLVM's insert point), `loops`, `switches` (the builder's two stacks),
`stageEpilogue` and `stageExit`.  Each method that shapes control flow is an
operator from record to record named after it; a front end's handler composes
the calls it makes.  LLVM itself (create, place, terminate a block) is
external and modelled by what the builder relies on.  Adding a terminator to a
block that has one yields the terminator `double`, which LLVM would reject.

### GlslangToTop
Each action is a part of one visit function, between two traversals of
children: `VisitIf`, `VisitElse`, `EndIf` are `visitSelection` up to the true
block, up to the false block and after the last one.  `frames` is the C++
recursion with the local variables of each visit.  The tree is not enumerated
first; each step chooses the next node among those glslang's grammar and
semantic checks admit at that place, and `text` records the choice.  So a run
of TLC covers every tree within the bound, and the proofs cover every tree.
`VisitSwitch` keeps the odd arithmetic of the code: labels are mapped to
segment numbers, a segment behind the last label may be missing, and
`valueToSegment[-1]` is read if there is no case label, which the model makes a
free choice.  `SwitchAssumption` asks for what glslang accepts
(`AcceptedSwitch`) and leaves out the accepted bodies whose default has no
segment (`DefaultHasSegment`), for which `makeSwitch` may read past the segments.  What a statement computes is one event
that carries its place in the source, so that two statements are told apart.

### TopSemantics
The meaning of the shader is given independently of the code, by rules of the
shading language over `text` (what follows an `else`, a `continue`, a
`return`; initializers run before main; outputs are copied out on every way out
of main but a discard).  After the unit is built, the text and the blocks are
run in lockstep: silent moves are taken by each, something observable must be
shown by both and be the same, and the outcome of a test is then chosen once
for both.  `FaithfulRun` is the refinement of the source by the blocks, stated
as an invariant of this composition.

### AccessChain, Expressions, ExpressionMeaning
`AccessChain` has the methods of the builder's one access chain as operators on
a record whose fields are the class's members.  LLVM's loads, stores and
inserts are run as they are made, on a memory in the same record: what a
translation means is then simply what the memory holds at its end.  Outputs
are shadowed by variables; `setActiveOutput` marks their parts, and
`copyOutPipeline` writes the marked ones.

`Expressions` is the traverser.  A visit that traverses its children itself is
cut where it does so, a frame of `stack` is such a visit with its local
variables, and an action is the code between two traversals.  So the chain is
trashed by an operand exactly when the code forgets to save it.  The user's
function of the model has an `inout` and an `in` parameter and a side effect.

`ExpressionMeaning` evaluates the same tree by the rules of the language, by
places and values without a chain.  `Faithful` compares all variables,
`OutputsWritten` what reaches the pipeline, and in which slots.  A shader that
indexes out of range has no meaning, and is exempt.

### SpvToTop
An action per group of opcodes that treats control flow alike; a `stmt` stands
for every instruction that only appends to the current block.  `commonMap` maps
an identity to the block that stands for it, that is a function to its entry.
Of the builder, the operators of `TopBuilder` are used, with the one switch the
front end sets (`setNoPredecessorBlocks(false)`: no block behind a return).
`MakeLabelBlocks` says what calls of `makeLabelBlock` for a list of labels come
to, without a fold: the i-th label seen for the first time gets the i-th new
block.  `Valid` is what the translator takes for granted of a module (it never
checks any of it): the grammar of functions and blocks, one definition of each
`<id>`, calls of functions that the module has and that are no entry points, and
branches to labels of the same function other than its first, an `OpBranch` to
one.  TLC checks `Valid` of every module it translates.
The properties read the module directly (`EndsFor`, `CodeFor`) and compare it
with the blocks.

### Driver, TranslationPool, DriverPool
Fates and stages of the shaders and the options are chosen initially.  A
worker's step is one of the places where its thread can be interrupted with an
effect on others: taking an item under the lock, parsing (which may set
`CompileFailed`), the look at `CompileFailed`, linking, translating.  The main
thread creates threads one by one while those created run; creation may fail.
`exit(1)` ends the process in any state of the others.

`TranslationPool` is what the threaded mode promises, in four actions: shaders
are taken in order, each is settled once, all results are shown in order when
all are settled, and it ends having shown all or none.  `DriverPool` maps the
work list, the threads, the results and main's loops to it; `Implements` says
that every behaviour of the driver is one of the pool.

### ControlFlow, Structures
A graph keeps, of each block, its successors, its visible instructions (the
front end's events) and the place in the source its test comes from.
Dominators, post-dominators, dominance frontiers and natural loops are LLVM's
and are given by their definitions on paths.  `Conditional` and `LoopWrapper`
are records with the members of the classes of that name; the assertion of the
latter's constructor is `StructuredLoop`.  `Conditional::latch` is read but
never set in the code, so the exclusion of the latch from the merges
(`ConditionalUtil.cpp:154`) is absent from the model as it is from the program.

### Canonicalize
Each pass is an operator from a graph to the set of its outcomes, with a
verdict: `ok`, `unsupported` (the message of `UnsupportedFunctionality`) or
`assert` (an assertion fails).  It is a set because the code duplicates a block
for whichever predecessor comes first, and because whether the block that phis
the copies can be removed depends on values.  `Schedule` lists the passes of
`TopToBottom.cpp` that change control flow, in order.  Left out, because they
depend on values: folding of branches on constants, hoisting (every modelled
instruction writes memory or samples a texture, and is one that must not be
hoisted), rotation and unrolling of loops with a known trip count, and
LoopSimplify's separation of nested loops by their phis.  Analyses are
recomputed where the code updates them; answers of stale dominator trees are
not modelled.

### BottomTranslator
The C++ methods call each other recursively and call the back end as they go.
A method is an operator (`LoopBlock`, `IfBlock`, `LoopExit`, ...) that lists what
it does, in order: calls to the back end and calls of other methods.  An action
takes the next method call off `todo`, puts that method's list there instead,
and hands the calls in front of the next method call to the back end; so `todo`
is the C++ stack, and the order of everything is that of the code.  The other
variables are the members: `handled` (`handledBlocks`), `loops`, `last`
(`lastBlock`), and `calls`, all that the back end was told.  Assertions and
unsupported forms end the translation with a verdict.  The back end is the GLSL
one: structured, with phi copies.  A block where ways join has phis; a call
`copy` stands for all `addPhiCopy` calls of one edge.  Simple-inductive loops,
phi aliases and undefined operands are left out.

### MiddleEnd, BottomSemantics
`MiddleEnd` takes the blocks `GlslangToTop` has built (so that only graphs of
real programs are met), runs the passes one by one, and translates.
`BottomSemantics` then runs three programs in lockstep: the structured code,
by the meaning of braces, `break`, `continue` and `return` in the shader the
GLSL back end prints; the graph it was made from; and the graph the front end
built, before any pass.

- `RunsAsGraph`: whenever the code reaches a block's instructions, the graph is
  at that block, and the last copies into its phis are those of the edge the
  graph came along.  It is the refinement of the graph by the code.
- `KeepsBehaviour`: the events and tests seen of the code are those that would
  be seen of the front end's graph, where a test that the passes removed may go
  either way.  It is the refinement of the unoptimized by the optimized graph.

Together with `FaithfulRun` they carry from the shader's text to the text
printed, for what is visible: statements, tests, and which values phis hold.

### GlslTarget, GlslMeaning
The back end does not see the graph; it sees a sequence of calls.  `Shapes`
are the sequences of calls the Bottom translator makes for small functions
(diamonds, loops with phis and exits, a diamond or a loop in a loop), without
operands; at each call, TLC chooses the instruction, its operands among the
values that dominate it, and its name.  `ShapesAssumption` says of them what
`runOnModule` and `addPhiCopies` ensure: the phis are declared before the first
block is handled, and a phi is live where control arrives only if it has been
copied on the way.  Whether `referencedOutsideScope` is set is chosen as well,
and only values for which it was, phis, and values from in front of the loop are used behind it:
that is `isExternallyReferenced` (`UsedBehind`).  The constant `LeftOut`
names what the code gets wrong and the passing run leaves out: "swapped phis"
and "scoped text" (section 3).

A text is a variable with the operations applied to it, a name is a root with
digits.  Three questions are kept apart: `Scoped` asks whether each name in a
statement is declared, in an open scope or globally; `Distinct`, whether no
scope declares a name twice; `Faithful` runs the text beside the IR, with
values as terms, and compares all that is tested and written.  Hashes are taken at their
worst: any two texts may have the same, and only the `r` the code appends tells
names apart.  Operators are reduced to one that is always assigned
(`compute`) and one that is always substituted (`negate`), the two outcomes of
`mapOrEmit`, since which of them is taken depends on precision and size.
Memory, aggregates, types and I/O declarations are left out.

## 3. Runs

| run | expects | bound | what it shows |
|---|---|---|---|
| `keeps_up` | pass | 5 nodes; every loop form, four switch bodies, initializers with `?:`, a helper | blocks are never forgotten, reopened, ended twice or left out; the stacks agree with the recursion; the blocks run as the source does, across functions and initializers, and neither side runs on silently for ever |
| `faithful_main` | pass | 6 nodes, main only, for and while loops, switches, all jumps | the blocks run as the source does, with one more level of nesting |
| `do_while_continue` | violation | 5 nodes | `continue` in a do-while skips the test |
| `expressions` | pass | two statements, some 600 by 3, over six variables | one access chain serves all operands; every output stored to is written, in its own slot |
| `compound_assign` | violation | as above, `x += i++` | the right side is evaluated before the left is read |
| `spirv` | pass | 2 or 3 functions, every flow of 3 blocks in one of them, either order of definition | the blocks are the module's graph, well formed, and settled once made |
| `driver` | pass | 2 shaders, 2 workers, 2 stages, every fate and option | the driver's invariants and termination, and that it implements the pool |
| `loops` | pass | 6 nodes; return and discard without loops, or one loop of three forms with all jumps, rotation | the structured code runs as the graph, the graph as built; no assertion fails and, but for continues, all is supported |
| `nested_loops` | pass | 6 nodes, two while loops, with breaks or with plain tests | the right loop is left, with the right copies, and can be left; simple-conditional loops keep their test; supported, no assertion fails |
| `while_break` | violation | 4 nodes | code on the exit of a while's test also runs after a break |
| `glsl` | pass | nine orders of calls of at most 15, 2 rounds of a loop | names are declared where they are used, and once in a scope; the text runs as the IR |
| `name_collision` | violation | thirteen variables | a numbered name equals one already declared |

`MaxText` counts the nodes chosen, without functions and closers.  Six nodes
contain every pair of constructs nested in each other with a jump in each and a
statement behind it, that is each interaction two handlers can have through
the builder; the stacks' agreement, which is what deeper nesting depends on, is
proved for every depth.  Two shaders and two workers suffice for the
driver: each of its hazards is a conflict between two threads or two shaders,
and the list and printing properties are proved for any number.

An expression of the `expressions` run has an operand with a side effect in
each position a visit of the traverser can be interrupted at, and the second
statement meets whatever the first left of the chain, the slots and the
marks.  Vectors have three components, so that no swizzle is its own inverse by
accident.  In `spirv`, three blocks contain a loop, a diamond without its
merge, and a label used from one side or from both before it is defined; the
order of blocks is any that SPIR-V allows.  In `glsl`, every shape ends in a
write of any value that is in scope, so that each value made is compared, and
two rounds make a value of the last round differ from one of the round before.

In the runs behind the front end, `MaxLoops` bounds the loops of a program
that is translated.  Six nodes hold two nested ifs with a jump in each branch
and code behind both, or a loop with a conditional break, a conditional
continue and code between them, or two loops with a break; every decision of the
translator looks at a block, the innermost conditional and the innermost loop
only, so that deeper programs repeat these cases.  The two passing runs split
the programs by what the disagreements below do not touch: return and discard
without loops, or one loop with all its jumps (`ApartSpec`), and nested while
loops that have either breaks or plain tests (`PlainBreaks = FALSE`).  A
program with a loop that nothing leaves is not translated (`CanEnd`): its stage has no end that is reached, and an assertion stops it.
With continues, a translation may be given up as unsupported, since nested
continues are taken for cross edges; `Supported` says that this is the only
reason, and `NeverAsserts` that an assertion fails only for a discard on every
way (below).

Deadlock is checked in the runs of the front end and behind it, where the step
that repeats for ever is only enabled once the unit is built, given up, or its
run is over.  It is off where the system really stops: the driver, when
`exitCode` is set; `expressions` and `spirv`, when the shader is translated or
refused; `glsl`, when the text has been run.

**Fairness.** `keeps_up` assumes `WF(Advance)`: the composition of two
sequential programs, of which one can always move, moves.  `driver` assumes
weak fairness of the main thread and of each started thread: the scheduler of
the operating system.  No strong fairness is used; the lock of the work list
needs none, since no thread waits for a condition while others hold it.

**Findings.** The four violation runs are disagreements between the code and
its comments or tests; `PROJECT.json` quotes both sides.  Two can be seen in
the repository's own baseline `src/test/baseResults/loops.frag.out`: the
assignment behind the loop at line 2546 overwrites what the break at 2538
brought (`while_break`), and one `main` declares `vec4 colora;` at lines 3118
and 3143 (`name_collision`).

Further disagreements were met on the way.  They are kept out of the passing
runs by the choice of constants, and the named constants show them again:

| module and constants | property | what the code does |
|---|---|---|
| `MCBottom`: `MaxText = 3`, do-while loops, `MaxLoops = 2` | `RunsAsGraph` | a header that goes straight to the header of an inner do-while makes no phi copies for that edge (`BottomTranslator.cpp:590`); line 78 says nested loops are not supported, but nothing rejects them |
| `MCBottom`: `MaxText = 5`, `discard`, no loops | `NeverAsserts`, without its condition on discards | discarding on every way leaves `restoreMainBlocks` no predecessor to take for the epilogue (`CanonicalizeCFG.cpp:260`) |
| `MCBottom`: `MaxText = 5`, `return`, `WhileLoops`, `Unroll` | `RunsAsGraph` | a return inside a loop that is the last block to be handled is not written, and the loop goes on (`BottomTranslator.cpp:799`); the baseline has the empty `if` at line 3021 of `loops.frag.out` |
| `MCBottom`: `MaxText = 5`, `return`, while and endless loops, `MaxLoops = 2` | `NeverAsserts` | a return out of a loop in an endless loop fails "unstructured control flow" (`BottomTranslator.cpp:906`) |
| `MCBottom`: `MaxText = 5`, `discard`, `WhileLoops` | `LoopsCanBeLeft` | a loop behind an early discard loses its break: the way out is judged to end the stage by a dominance frontier that lies in the stage's end (`BottomTranslator.cpp:942`), where the comment at 936 speaks of a return just output |
| `MCDriver`, as in `driver` | `LinkFailureIsolated`, without its condition that all shaders compile | `CompileFailed` is a global that threads set and test (`main.cpp:707`), so that one failing shader makes other threads drop theirs, where lines 786-787 have each thread report its own |
| `MCGlslMeaning`: `LeftOut` without "swapped phis" | `Faithful` | the copies of one edge are made one after the other; if one phi's new value is another's old one, it may be overwritten first (`BottomTranslator.cpp:437`) |
| `MCGlslMeaning`: `LeftOut` without "scoped text" | `Scoped` | an extract or a cheap expression that is used behind its loop gets a global declaration that is never assigned (the comment at `BottomToGLSL.cpp:1553` says it is for such uses) and a text that names a variable declared in the loop (`:1828`) |
| `MCExpressions`: `and` with a side effect on its right | `Faithful` | `&&` and `\|\|` evaluate both sides (`GlslangToTopVisitor.cpp:1768`) |
| `MCExpressions`: a variable index into a swizzle, `v.yx[i]` | `Faithful` | a store obeys the swizzle only, a load the component only (`TopBuilder.cpp:285`) |

Others were read and are in no model, because they are about a single
assignment or about data the models do not have.  In the driver, `-r` has no
effect: `TranslateShaders` sets it in a local variable (`main.cpp:837`) while
`parse` and `link` read the global; and `TranslateSingleShader` does not look at
`-V` (`main.cpp:736`).  The model keeps both options as the code treats them
(`messages`, `how`).  `--disable unroll --enable unroll` leaves the threshold at
0 (`OptionParse.cpp:86-115`), and so for inlining and hoisting.  The SPIR-V front
end overwrites the profile it reads from `OpSource` (`SpvToTop.cpp:1269`), gives
every input and output one slot (`:796`), leaves out the initializers of
variables (`:672`), and never calls `setOutputMetadata`, which physical I/O
relies on.  The GLSL back end's obfuscated names depend on a counter that making
one does not advance (`BottomToGLSL.cpp:2533`), and an InsertValue shares the
name of its aggregate (`:1955`, with a comment that says so).

## 4. Proofs

Each theorem holds for every value of the constants that satisfies the named
assumptions: for any number of nodes, any statements, loop forms and switch
bodies (but those whose default has no segment), any number of shaders, workers
and stages, any valid SPIR-V modules, any order of calls of the back end.

### The front end and the builder

The builder's operations are proved about once, in `TopBuilder_proofs`, in three
layers, each with one lemma per operation; the traverser's handlers are
compositions of them, and their proofs compose the lemmas.

| layer | what a lemma says of an operation |
|---|---|
| types | it keeps the builder well formed (`BuilderOK`: every target, placed block, stack entry and the insert point exists) and changes the two stacks in a stated way |
| blocks | which old blocks it may change, and which it may leave without an end (`Touches`); most go on in the same block or in a new one (`GoesOn`) |
| shape | it keeps `Sound` (no block ends twice or is placed twice, jumps stay in their function), and which blocks it leaves unplaced or places (`LaysOut`) |

`GlslangToTop_proofs`:

- `TypeCorrect`: `Spec => []TypeOK`.  Types alone are not inductive: `break`
  reads the top of a stack whose existence only follows from the frames.  The
  inductive invariant `IInv` therefore conjoins the builder's well-formedness,
  the types of the frames' contents and the agreement of the stacks.
- `StacksCorrect`: `Spec => []StacksFollowTree`, from the same invariant.  A
  step is either quiet (frames and stacks as before), or pushes or pops one
  frame and one entry on the stacks of its kind; counting frames of a kind up to
  the i-th, the depth of a frame is not changed by what is put above it.
- `SegmentsCorrect`, for every body glslang accepts, those that
  `SwitchAssumption` leaves out included: the k-th case and the default lead to
  the code that follows them first; a case always leads to a segment that
  exists; and the default does, whatever `valueToSegment[-1]` holds, if and only
  if code follows it or a case follows the last code.  So the assumption leaves
  out just the bodies for which the code may index past its segments, and no
  other theorem loses more than these by it.

`GlslangBlocks_proofs` first proves `NoBlockForgottenCorrect` and
`SealedBlocksCorrect`.  Neither property is inductive: whether a handler may end
a block depends on who else means to end it.  The invariant `BInv` gives each
open construct the blocks it *holds* (`HeldBy`: an if its header and merge
block, a loop its exit, a switch the segments ahead and its merge block), and
lets other blocks wait *outside* the function being walked (`Outside`: the
stage's end, main's body before and its last block after the walk of main, the
helper's entry, the place of the next initializer).  It says that

- no block is held by two constructs, held and waiting, or held and the current
  one (`Apart`), and all these are unsealed;
- a block without an end is the current one, held, or waiting;
- a switch's segments follow each other in the blocks (`InOrder`), since the
  code computes them by their index;
- between functions the current block has no end and, if no `?:` in an
  initializer came after the last function, is where that function began.

From this a handler's effect is read off its `Touches` lemma: what it changes is
the current block and what the innermost construct holds, so nothing sealed;
and what it leaves open is taken over by the construct it opens.

`WellBuiltCorrect`, in the same module, is about the end of the walk only.  The invariant `WInv` says of every moment before that the builder is
`Sound`, that the unplaced blocks are just the stage's two and, of each open if
or loop, its merge or exit block (`Awaits`), and that what an open construct
will jump to belongs to the function being walked (`Refers`, `Homes`).  At
`Finish` no construct is open and `closeMain` places the two stage blocks; with
`BInv`, they and main's last block are all that is still open, and each is ended.

Of the three, `SealedBlocks` and `WellBuilt` are about units in which a function
follows the last initializer with a `?:` (`TrailingFlow`): otherwise the destructor
ends the block in front of that `?:` a second time.  That the blocks *run* as the source does
(`FaithfulRun`) is only model-checked.

### The driver

`Driver_proofs`:

- `TypeCorrect`; `OneTakerCorrect` (an item is on the list once or with one
  worker; the invariant adds that a shader on the list has no result);
  `PrintsSettledCorrect` (printing starts when all workers are done, and a
  worker that is done stays so).
- `LinkFailureIsolatedCorrect`: each shader that is neither waiting nor taken
  has a result or a reason to have none (`AccountInv`): it cannot be read, it
  does not link and `LinkFailed` is set, or `CompileFailed` is set.  If all
  shaders compile, only a thread that cannot be created sets the latter, and
  then nothing is printed (`IsolationInv`).
- `CleanExitCorrect`: main ends with nothing printed only if a flag is set, and
  exits with success only without one (`EndInv`); with `AccountInv`, a shader
  without a result has then set `LinkFailed`.

- `DriverImplementsPool`: `Spec => Pool!Spec` under the mapping of `DriverPool`.
  The initial states map to the pool's, and each action is one of the pool's or
  a stutter.  Taking, settling, showing and ending need the invariants above and
  that the list is the last part of the command line (`QueueInv`), so that items
  are taken in order.

### The SPIR-V front end

`SpvToTop_proofs`, for every valid module.  Each builder call either adds open
blocks only (`Changes`) or works on the insert block (`Works`), and
`MakeLabelBlocks` gives distinct new blocks to the labels it meets first
(`Extends`).  The inductive invariant `SInv` adds to the types, while the
translation runs:

- of the definitions still to be read, those whose `<id>` stands for a block
  already (`Pending`) have blocks that are open and pairwise distinct; none of
  them is the insert point, except for the label read next; a function's first
  label is not among them until its function has been read, and a called
  function is no entry point (`PendingOK`, `InsertOK`);
- the insert point is open where an instruction of a block comes next;
- within main, the two stage blocks are open, distinct, not the insert point and
  not the block of any pending definition (`StageOK`).

`TypeCorrect` (`Spec => []TypeOK`) follows at once; types alone are not
inductive, as `OpFunction` moves the insert point to whatever block a forward
call left in `commonMap`.  `SettledCorrect` (`Spec => Settled`) does too: a step only
changes the insert block or, at the end of main, the stage blocks, and these
are open; and an `<id>` gets a block only if it had none, which at `OpFunction`
for the peeked label and for main holds by the grammar.

`SameGraphCorrect` and `WellFormedCorrect` (`SpvBuilt_proofs`) are about the
blocks when the module has been read.  Both say nothing of the way there, so
that all of it has to be in the invariant, `GInv`, which relates what has been
made to the words read so far:

| part | what it says in front of each word | without it |
|---|---|---|
| `WordsOK` | the current function is that of the word, and the insert point is in it | a new label's block is in some function |
| `OwnersOK` | a block is in the function of its definition; one made ahead for a label is in the current function, and the label still to come in it | the label's own `OpLabel` may be in another function |
| `DistinctOK` | two definitions share a block only as a function and its first label; all words read stand for one | two labels are one block |
| `CoverOK` | there are no blocks but those of definitions and main's stage blocks, which are no definition's | a stray block is placed |
| `LayoutOK` | each block is placed once, behind its function's entry; main's stage blocks at the end of main | a forward call could put a block in front of the entry |
| `TargetsOK` | jumps stay in their function and do not lead to an entry | an `OpLabel` might be jumped to before its function is known |
| `OpenOK` | a block without an end waits for its definition, for the end of main, or is being filled; a function's `OpKill` leaves it to the next label or the function's end | a block is forgotten |
| `CodeOK` | each label read has the instructions and the end of its words, or so far those up to here; one not read has none | instructions go to another block |

`SpvGraph_proofs` states `GInv` and proves that it survives blocks being added
for labels and calls ahead (`Grows`, with one lemma per part) and an instruction
added to the insert block (`Fills`), and with these every opcode of a block;
`SpvBuilt_proofs` proves it of `OpFunction` (`Enters`: the entry is made here, by a
call before, or by `makeMain`) and `OpFunctionEnd` (`Leaves`), and reads the two
properties off it at the end of the module.  What the properties choose from
the module (a label's word, the word that ends its block, the first place of a
function) is shown to be what the invariant speaks of; the first occurrence of a
label among the labels of a branch is found with the library's well-founded
minimum, as its induction theorems cannot be instantiated.  TLC has checked `GInv` on the modules of the
run `spirv`.

### The GLSL back end

`GlslTarget_proofs`, for every order of calls that satisfies
`ShapesAssumption`, of any length and nesting, and every choice of
instructions, operands and names.  Each operation of the back end has one lemma,
which says which texts and declarations it keeps (`Keeps`), which it adds, and
that what its statements name is declared (`Says`); each call of the translator
then has one lemma for both invariants.

- `TypeCorrect` (`Spec => []TypeOK`): every value the translator may pass has a
  text, and a scope is open for each construct.  That a value is usable *now*
  says nothing of what is usable behind the construct that is closed next, so
  that the invariant `TInv` speaks of the sets kept with each open construct as
  well (`Constructs`), of phis, which become usable only at the end of a construct
  but have their text since their declaration or their copy (`PhisMapped`), and of the calls
  being the first ones of the shape (`Follows`).
- `ScopedCorrect` (`Spec => []Scoped`), if "scoped text" is left out.  `Scoped` is
  about the statement just written.  The invariant `VInv` says which declaration
  each text can rely on: a usable value's name is declared in some open scope
  (`UsableSeen`); the name of one that was usable when the k-th construct was
  opened, in one of the k outermost (`WithinSeen`), since it is usable again behind
  it; and the names of phis, of input reads and of assigned values known to be used outside, in
  the outermost or globally (`LastingSeen`), since these are used behind loops.
  Phis are declared in the outermost scope because no construct is open yet
  (`PhisOutside`).

The hypothesis is needed at one place: a value whose text is substituted can be
usable behind a loop though its text names a variable of that loop.  `End` with
"scoped text" left out has no such values, and all other steps are without it.
`Distinct` cannot be a theorem: `name_collision` refutes it.

### What is only model-checked

The comparison with the source (`FaithfulRun`), a simulation between a recursive
meaning and the blocks; liveness (`KeepsUp`, `Terminates`), which is out of the
prover's reach; everything about the middle end and the translator, whose graph
walks are recursive operators, also out of its reach; expressions, which are
compared with a recursive meaning; and of the GLSL back end `Faithful`, which
runs two programs beside each other, and `Distinct`, which holds for the names
of the run only.

## 5. Plan

1. *(done)* The front end with the builder: the largest body of ordering logic,
   on which everything later relies.  Abstract specification: the source text.
2. *(done)* The driver.
3. *(done)* Structure analysis and the Bottom translator, over the graphs the
   front end can build; abstract specification: the graph itself.
4. *(done)* Canonicalization of control flow and flattening, over the same
   graphs; abstract specification: the graph before the passes.
5. *(done)* Access chains, expressions and the copy-out; abstract specification:
   the values of the shading language.
6. *(done)* The SPIR-V front end's forward references, over the same builder.
7. *(done)* The driver's abstract specification and refinement.
8. *(done)* The GLSL back end's names, scopes and substitutions; abstract
   specification: the values of the IR.
9. *(done)* Theorems: the driver's exit code and its refinement of the pool; the
   front end's sealed, forgotten and well-built blocks.
10. *(done)* Theorems: `SpvToTop`'s `TypeOK` and `Settled`.
11. *(done)* Theorems: `SpvToTop`'s `WellFormed` and `SameGraph`, from `SInv`
    and `GInv`.
12. *(done)* Theorems: `GlslTarget`'s `TypeOK` and `Scoped`, from `TInv` and
    `VInv`.

## 6. Not modelled

- Expression, type and intrinsic construction in the builder, and the local
  rewriting of instructions: one value at a time, no state that outlives a call;
  the decompositions are identities of real numbers.
- The rest of the SPIR-V front end (types, constants, decorations): tables
  filled once and looked up.
- The rest of the GLSL back end (operators, textures, types, memory and I/O
  declarations), and pipeline intrinsics: spelling, one instruction at a time.
- The optimizations of values by LLVM, unrolling and trip counts, and with them
  simple-inductive loops; analyses that are stale.
- Managers and options: the first is a fixed order of phases, which `Driver` and
  `MiddleEnd` have as stages, the second are assigned before anything runs.
- TGSI and Dummy back ends, `LunarGManager`, the deprecated front end: not part
  of the program that is built.
- Vendored LLVM, except for what its passes do to control flow, and Mesa.  They
  are most of the repository's lines.
