-------------------------- MODULE BottomTranslator --------------------------
(***************************************************************************)
(* The Bottom translator (Core/BottomTranslator.cpp): it walks main's      *)
(* control-flow graph and calls a back end that wants structured code and  *)
(* copies in place of phis (the GLSL back end).                            *)
(*                                                                         *)
(* Its methods call each other and hand on to the back end as they go.     *)
(* Here a method is an action that says what it does next, in order, as a  *)
(* list of calls to the back end and of calls to methods; "todo" is the    *)
(* C++ stack, what all methods that were entered have left to do.          *)
(***************************************************************************)
EXTENDS Canonicalize
LOCAL INSTANCE SequencesExt

VARIABLES
  graph,    \* main's graph
  ids,      \* the structures identified in it
  handled,  \* handledBlocks
  loops,    \* the headers of the loops entered, innermost last
  last,     \* lastBlock
  todo,     \* the calls of methods still to come; calls to the back end between them
  calls,    \* what the back end was told
  verdict   \* "ok" while it goes on; "translated", "unsupported" or "assert"

translation == <<ids, handled, loops, last, todo, calls>>

(* What the back end is told: "at" is the block an instruction, test or    *)
(* copy comes from, "to" where a copy's phis are, "when" the position of   *)
(* the successor for which a test's true branch is taken.                  *)
Call(op, at, to, when) == [op |-> op, at |-> at, to |-> to, when |-> when]
Plain(op) == Call(op, None, None, 0)

(* Calls of methods: handleBlock, attemptHandleDominatee, and the parts of *)
(* handleLoopBlock behind the loop's body and at its merge.                *)
Block(bb) == Call("block", bb, None, 0)
Dominatee(dominator, bb) == Call("dominatee", dominator, bb, 0)
Methods == {"block", "dominatee", "finish", "merge"}

Due(op) == verdict = "ok" /\ todo # <<>> /\ Head(todo).op = op
Bb == Head(todo).at

(* The method at work does "work" before all else that is left to do; the  *)
(* back end is called up to the next call of a method.                     *)
Do(work) ==
  LET all == work \o Tail(todo)
      n == Cardinality({i \in DOMAIN all : \A j \in 1..i : all[j].op \notin Methods})
  IN  /\ calls' = calls \o SubSeq(all, 1, n)
      /\ todo' = SubSeq(all, n + 1, Len(all))

Require(holds) == verdict' = IF holds THEN "ok" ELSE "assert"
Optional(wanted, work) == IF wanted THEN work ELSE <<>>

(* loops.top(), or none *)
NoLoop == [header |-> None, latch |-> None, blocks |-> {}, simpleLatch |-> TRUE,
           simpleConditional |-> FALSE]
(* mutant: the outermost loop *)
OuterLoop == IF loops = <<>> THEN NoLoop ELSE ids.loops[Head(loops)]
CurrentLoop == IF loops = <<>> THEN NoLoop ELSE ids.loops[Last(loops)]
(* the latch of the innermost loop, where continues go to *)
NonSimpleLatch(bb) == CurrentLoop.latch = bb /\ ~ CurrentLoop.simpleLatch

(* handledBlocks.size() == numBBs *)
NoteLast(now) == last' = (last \/ now = graph.blocks)

-----------------------------------------------------------------------------
(* What methods do of themselves.                                          *)

(* addPhiCopies: every block where ways join begins with phis.             *)
PhiCopies(bb, next) ==
  Optional(Joins(graph, next) /\ next # Exit, <<Call("copy", bb, next, 0)>>)
AllPhiCopies(bb) ==
  FlattenSeq([i \in DOMAIN graph.succ[bb] |-> PhiCopies(bb, graph.succ[bb][i])])

(* handleInstructions, in loop l; a simple-conditional header's are its     *)
(* loop's test.                                                             *)
Instructions(l, bb) ==
  Optional(~ (l.simpleConditional /\ l.header = bb), <<Call("inst", bb, None, 0)>>)

(* forceReturn; the back end leaves out the return after the last block.   *)
ForceReturn(isLast) ==
  Instructions(CurrentLoop, Epilogue) \o Instructions(CurrentLoop, Exit)
  \o Optional(~ isLast, <<Plain("return")>>)

(* mutant: a continue takes no copies along *)
LoopBackBare(bb) == Instructions(CurrentLoop, bb) \o <<Plain("continue")>>
(* forceOutputLatch and the continue behind it *)
LoopBack(bb) == Instructions(CurrentLoop, bb) \o AllPhiCopies(bb) \o <<Plain("continue")>>

(* handleIfBlock *)
IfBlock(bb, c, first) ==
  <<Call("if", bb, None, first), Block(graph.succ[bb][first])>>
  \o Optional(IsIfThenElse(c), <<Plain("else"), Block(c.right)>>)
  \o <<Plain("endif")>> \o Optional(c.merge # None, <<Block(c.merge)>>)

(* handleBranchingBlock.  Its call of handleLoopBlock is never reached:      *)
(* handleBlock sends the blocks it is for there itself.                      *)
BranchingBlock(l, bb) ==
  Instructions(l, bb) \o AllPhiCopies(bb) \o
  IF IsConditional(graph, bb)
  THEN IfBlock(bb, ids.conditionals[bb], IF IsIfElse(ids.conditionals[bb]) THEN 2 ELSE 1)
  ELSE LET to == graph.succ[bb][1]
       IN  IF l.latch = to /\ ~ l.simpleLatch THEN <<Block(to)>> ELSE <<Dominatee(bb, to)>>
(* What handleIfBlock asserts. *)
IfStructured(l, bb) ==
  IsConditional(graph, bb) =>
    /\ ~ HasSharedMerge(ids.a, ids.conditionals[bb])
    /\ l.header = bb \/ ~ IsLoopRelevant(graph, l, bb)

(* setUpLoopBegin: the kinds of loop; a simple-conditional one stays in the *)
(* loop for the successor that is in it.                                    *)
LoopBegin(l) ==
  IF l.simpleConditional
  THEN <<Call("while", l.header, None,
              CHOOSE i \in 1..2 : graph.succ[l.header][i] \in l.blocks)>>
  ELSE <<Plain("loop")>>

(* mutant: an empty frontier passes *)
OnlyReturnsOrNothing(bb) == ids.a.front[bb] \subseteq {Exit, Epilogue}
(* ContainedDominanceFrontier: the way out only returns or discards. *)
OnlyReturns(bb) == ids.a.front[bb] # {} /\ ids.a.front[bb] \subseteq {Exit, Epilogue}

(* setUpLoopExit: whether the break is written here, whether it needs an if *)
(* of its own, and what is written.                                         *)
WritesExit(l, bb) == ~ (l.simpleConditional /\ l.header = bb)
ExitPosition(l, bb) == CHOOSE i \in ExitingEdges(graph, l, bb) : TRUE
ExitBlock(l, bb) == graph.succ[bb][ExitPosition(l, bb)]
WrapsExit(l, bb, exit) ==
  /\ IsConditional(graph, bb) /\ WritesExit(l, bb)
  /\ exit # l.exitMerge \/ (Joins(graph, exit) /\ exit # Exit)
LoopExit(l, bb, pos, exit, wrap) ==
  Optional(wrap, <<Call("if", bb, None, pos)>>) \o PhiCopies(bb, exit)
  \o Optional(WritesExit(l, bb),
       Optional(exit # l.exitMerge, <<Block(exit)>>)
       \o Optional(~ OnlyReturns(exit),
                   IF wrap \/ ~ IsConditional(graph, bb) THEN <<Plain("break")>>
                   ELSE <<Call("breakIf", bb, None, pos)>>)
       \o Optional(wrap, <<Plain("endif")>>))
  \o Optional(IsConditional(graph, bb), <<Dominatee(bb, graph.succ[bb][3 - pos])>>)

(* handleLoopBlock, behind the body of a header's loop: the latch, the end, *)
(* the exit block and the merge.                                            *)
HeaderExit(l) ==
  IF IsExiting(graph, l, l.header) THEN ExitBlock(l, l.header) ELSE None
MergeOf(l) ==
  IF l.simpleConditional /\ l.exitMerge = None THEN HeaderExit(l) ELSE l.exitMerge
RestOfLoop(l) ==
  Optional(~ IsConditional(graph, l.header), <<Block(graph.succ[l.header][1])>>)
  \o Optional(l.simpleLatch, <<Block(l.latch)>>)
  \o <<Plain("finish")>>
  \o Optional(HeaderExit(l) \notin {None, MergeOf(l)}, <<Block(HeaderExit(l))>>)
  \o Optional(MergeOf(l) # None, <<Call("merge", l.header, MergeOf(l), 0)>>)

(* handleLoopBlock: a header, a block that leaves the loop, a latch. *)
Branches(l, bb) ==
  IsConditional(graph, bb) /\ bb # l.latch /\ ~ IsExiting(graph, l, bb)
LoopBlock(l, bb) ==
  Optional(bb = l.header, LoopBegin(l))
  \o (IF Branches(l, bb) THEN BranchingBlock(l, bb) ELSE Instructions(l, bb))
  \o Optional(IsExiting(graph, l, bb),
              LET exit == ExitBlock(l, bb)
              IN  LoopExit(l, bb, ExitPosition(l, bb), exit, WrapsExit(l, bb, exit)))
  \o Optional(bb = l.latch, PhiCopies(bb, l.header))
  \o Optional(bb = l.header, RestOfLoop(l))
(* What handleLoopBlock and setUpLoopExit give up on, and assert.           *)
LoopVerdict(l, bb, now) ==
  IF Cardinality(ExitingEdges(graph, l, bb)) = 2 THEN "unsupported"
  ELSE IF \/ bb = l.latch /\ ~ l.simpleLatch
          \/ bb = l.latch /\ IsConditional(graph, bb) /\ ~ IsExiting(graph, l, bb)
          \/ Branches(l, bb) /\ ~ IfStructured(l, bb)
          \/ IsExiting(graph, l, bb) /\ l.exitMerge = None /\ ~ l.returns /\ ~ l.discards
  THEN "assert"
  ELSE IF IsExiting(graph, l, bb) /\ WritesExit(l, bb) /\ ExitBlock(l, bb) \in now
  THEN "unsupported"     \* shared exit block
  ELSE "ok"
-----------------------------------------------------------------------------
(* handleBlock: the stage's end, a latch that is not simple, a block that   *)
(* was handled, the header of a loop, a block that leaves or closes the     *)
(* innermost loop, and all others.                                          *)
HandleEnd ==
  /\ Due("block") /\ Bb \in {Exit, Epilogue}
  /\ NoteLast(handled)
  /\ Do(Optional(Bb = Epilogue, ForceReturn(last')))
  /\ UNCHANGED <<graph, ids, handled, loops, verdict>>

HandleLatch ==
  /\ Due("block") /\ NonSimpleLatch(Bb)
  /\ Do(LoopBack(Bb))
  /\ UNCHANGED <<graph, ids, handled, loops, last, verdict>>

SkipHandled ==
  /\ Due("block") /\ Bb \in handled \ {Exit, Epilogue} /\ ~ NonSimpleLatch(Bb)
  /\ Do(<<>>)
  /\ UNCHANGED <<graph, ids, handled, loops, last, verdict>>

(* newLoop, and handleLoopBlock for its header *)
HandleHeader ==
  /\ Due("block") /\ Bb \notin handled /\ Bb \in DOMAIN ids.loops
  /\ LET l == ids.loops[Bb]
     IN  /\ handled' = handled \cup {Bb} \cup (IF l.simpleLatch THEN {} ELSE {l.latch})
         /\ verdict' = LoopVerdict(l, Bb, handled')
         /\ IF verdict' = "ok" THEN Do(LoopBlock(l, Bb)) ELSE UNCHANGED <<calls, todo>>
  /\ NoteLast(handled \cup {Bb})
  /\ loops' = Append(loops, Bb)
  /\ UNCHANGED <<graph, ids>>

HandleLoopBlock ==
  /\ Due("block") /\ Bb \notin handled \cup DOMAIN ids.loops
  /\ IsLoopRelevant(graph, CurrentLoop, Bb)
  /\ handled' = handled \cup {Bb} /\ NoteLast(handled')
  /\ verdict' = LoopVerdict(CurrentLoop, Bb, handled')
  /\ IF verdict' = "ok" THEN Do(LoopBlock(CurrentLoop, Bb)) ELSE UNCHANGED <<calls, todo>>
  /\ UNCHANGED <<graph, ids, loops>>

HandleBranchingBlock ==
  /\ Due("block") /\ Bb \notin handled \cup DOMAIN ids.loops
  /\ ~ IsLoopRelevant(graph, CurrentLoop, Bb)
  /\ handled' = handled \cup {Bb} /\ NoteLast(handled')
  /\ Require(IfStructured(CurrentLoop, Bb))
  /\ Do(BranchingBlock(CurrentLoop, Bb))
  /\ UNCHANGED <<graph, ids, loops>>

(* attemptHandleDominatee *)
AttemptHandleDominatee ==
  /\ Due("dominatee")
  /\ LET bb == Head(todo).to
     IN  Do(CASE bb = Exit -> <<>>
              [] bb = Epilogue -> ForceReturn(last)
              [] OTHER -> Optional(ProperlyDominates(ids.a, Bb, bb), <<Block(bb)>>))
  /\ UNCHANGED <<graph, ids, handled, loops, last, verdict>>

(* handleLoopBlock's assertions behind the body, endLoop and closeLoop *)
AreEquivalent(g, x, y) ==
  x = y \/ (IsEmptyBB(g, x) /\ UncondBranchesTo(g, x, y))
        \/ (IsEmptyBB(g, y) /\ UncondBranchesTo(g, y, x))
FinishLoop ==
  /\ Due("finish")
  /\ LET l == CurrentLoop
     IN  Require(/\ l.blocks \subseteq handled
                 /\ (l.simpleConditional /\ l.exitMerge # None) =>
                       AreEquivalent(graph, HeaderExit(l), l.exitMerge))
  /\ loops' = Front(loops)
  /\ Do(<<Plain("endloop")>>)
  /\ UNCHANGED <<graph, ids, handled, last>>
HandleLoopMerge ==
  /\ Due("merge")
  /\ Require(ProperlyDominates(ids.a, Bb, Head(todo).to))
  /\ Do(<<Block(Head(todo).to)>>)
  /\ UNCHANGED <<graph, ids, handled, loops, last>>

(* runOnModule: only the first block has to be handled; the loops and the  *)
(* rest must then be.                                                      *)
NoStructures == [structured |-> TRUE]
TranslatorInit ==
  /\ ids = NoStructures /\ handled = {} /\ loops = <<>> /\ last = FALSE
  /\ todo = <<>> /\ calls = <<>>
StartFunctionBody ==
  /\ ids' = IdentifyStructures(graph)
  /\ handled' = {Epilogue, Exit} /\ todo' = <<Block(Entry)>>
  /\ Require(ids'.structured)
  /\ UNCHANGED <<graph, loops, last, calls>>
EndFunctionBody ==
  /\ verdict = "ok" /\ ids # NoStructures /\ todo = <<>>
  /\ verdict' = IF graph.blocks \subseteq handled THEN "translated" ELSE "assert"
  /\ ids' = NoStructures
  /\ UNCHANGED <<graph, handled, loops, last, todo, calls>>

Translate ==
  \/ HandleEnd \/ HandleLatch \/ SkipHandled
  \/ HandleHeader \/ HandleLoopBlock \/ HandleBranchingBlock
  \/ AttemptHandleDominatee \/ FinishLoop \/ HandleLoopMerge \/ EndFunctionBody
=============================================================================
