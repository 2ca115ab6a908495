----------------------------- MODULE Structures -----------------------------
(***************************************************************************)
(* IdentifyStructures: the conditional each testing block begins           *)
(* (ConditionalUtil.h, .cpp) and the loop each header begins (LoopUtil.h). *)
(* Loops whose trip count is known, and loops with an induction variable,  *)
(* are not told apart from others: conditions are opaque.                  *)
(***************************************************************************)
EXTENDS ControlFlow

(* GetMergePoints: the blocks where the ways on from all of "bbs" meet; a  *)
(* single one is its own merge point.                                      *)
MergePoints(a, bbs) ==
  IF Cardinality(bbs) <= 1 THEN bbs
  ELSE {m \in DOMAIN a.front : \A bb \in bbs : m = bb \/ m \in a.front[bb]}

(* Conditional::recalculate.  The latch it means to exclude is never set.  *)
(* Of an early discard the other side is the merge.                        *)
Conditional(g, a, entry) ==
  LET left    == g.succ[entry][1]
      right   == g.succ[entry][2]
      points  == MergePoints(a, {left, right}) \cap LoopAround(a, entry)
      merges  == points \ {Exit, Epilogue}
      goesOn  == IF Epilogue \in a.front[left] \/ Dominates(a, left, Epilogue)
                 THEN left ELSE right
      merge   == IF Cardinality(merges) = 1 THEN CHOOSE m \in merges : TRUE
                 ELSE IF points = {Exit} THEN goesOn ELSE None
      Pure(side) == side = merge \/ a.front[side] = {merge}
  IN  [entry |-> entry, left |-> left, right |-> right, merges |-> merges,
       merge |-> merge,
       selfContained |-> merge # None /\ Pure(left) /\ Pure(right),
       leftChildren  |-> IF left = merge THEN {} ELSE a.dom[left],
       rightChildren |-> IF right = merge THEN {} ELSE a.dom[right]]

IsIfElse(c)     == c.left = c.merge
IsIfThen(c)     == c.right = c.merge
IsIfThenElse(c) == ~ (IsIfElse(c) \/ IsIfThen(c))
(* mutant: one merge too few *)
HasPotentialCrossEdgeSoon(c) == Cardinality(c.merges) >= 1
HasPotentialCrossEdge(c) == Cardinality(c.merges) > 1
HasSharedMerge(a, c) == c.merge # None /\ ~ Dominates(a, c.entry, c.merge)
IsEmptyConditional(g, c) ==
  c.selfContained /\ \A x \in c.leftChildren \cup c.rightChildren : IsEmptyBB(g, x)

Entries(g) == {b \in g.blocks : IsConditional(g, b)}

-----------------------------------------------------------------------------
(* LoopWrapper *)

Exits(g, blocks) == UNION {Succs(g, b) : b \in blocks} \ blocks

(* IdentifyStructures::runOnFunction: continues are not needed. *)
SimpleLatch(g, a, latch) ==
  \/ IsConditional(g, latch)
  \/ HasSinglePred(g, latch)
  \/ LET above == IDom(a, latch)
     IN  IsConditional(g, above) /\ Conditional(g, a, above).merge = latch

(* LoopWrapper::isSimpleConditional: nothing in the header but a plain test *)
(* that may leave the loop.                                                 *)
SimpleConditional(g, h, blocks) ==
  /\ IsConditional(g, h) /\ ~ Succs(g, h) \subseteq blocks
  /\ g.test[h] \in g.plain /\ g.code[h] = <<>>

ExitMerges(g, a, h) == MergePoints(a, Exits(g, a.loops[h])) \ {Exit, Epilogue}

LoopWrapper(g, a, h) ==
  LET blocks == a.loops[h]
      exits  == Exits(g, blocks)
      merges == ExitMerges(g, a, h)
      latch  == CHOOSE t \in Latches(g, a.dom, h) : TRUE
  IN  [header |-> h, latch |-> latch, blocks |-> blocks,
       exitMerge |-> IF merges = {} THEN None ELSE CHOOSE m \in merges : TRUE,
       returns  |-> \E e \in exits : Epilogue \in a.front[e],
       discards |-> \E e \in exits : Exit \in a.front[e],
       simpleLatch |-> SimpleLatch(g, a, latch),
       simpleConditional |-> SimpleConditional(g, h, blocks)]

(* getLoopLatch needs there to be one: loop-simplify's form.               *)
OneLatch(g, a, h) == Cardinality(Latches(g, a.dom, h)) = 1
(* The assertion "Unstructured control flow". *)
StructuredLoop(g, a, h) == Cardinality(ExitMerges(g, a, h)) <= 1

(* The positions of a block's terminator that leave the loop.              *)
ExitingEdges(g, l, b) == {i \in DOMAIN g.succ[b] : g.succ[b][i] \notin l.blocks}
IsExiting(g, l, b) == ExitingEdges(g, l, b) # {}
IsLoopRelevant(g, l, b) ==
  b \in l.blocks /\ (IsExiting(g, l, b) \/ b = l.latch \/ b = l.header)

(* What IdentifyStructures keeps for a function; it asserts "structured".  *)
IdentifyStructures(g) ==
  LET a == Analyze(g)
  IN  [a |-> a,
       conditionals |-> [e \in Entries(g) |-> Conditional(g, a, e)],
       loops |-> [h \in DOMAIN a.loops |-> LoopWrapper(g, a, h)],
       structured |-> \A h \in DOMAIN a.loops :
                        OneLatch(g, a, h) /\ StructuredLoop(g, a, h)]
=============================================================================
