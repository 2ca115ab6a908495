---------------------------- MODULE Canonicalize ----------------------------
(***************************************************************************)
(* The passes that change the control flow of main between the front end   *)
(* and the Bottom translator: LunarGLASS's CanonicalizeCFG and             *)
(* FlattenConditionalAssignments, and what they rely on of LLVM's          *)
(* SimplifyCFG (as patched: it drops dead blocks and merges chains) and    *)
(* LoopSimplify.  A pass maps a graph to the set of outcomes it may have,  *)
(* records of a graph and a verdict: "ok"; "unsupported", the translation  *)
(* is given up with a message; or "assert", an assertion fails.            *)
(*                                                                         *)
(* Events are kept whole: they write memory or sample textures, so that    *)
(* no pass hoists, drops or reorders them.  Analyses are recomputed where  *)
(* the code uses updated or partly stale ones.                             *)
(***************************************************************************)
EXTENDS Structures

Outcome(g, verdict) == [g |-> g, verdict |-> verdict]

Fresh(g) == 1 + Max(g.blocks)

RestrictTo(g, kept) ==
  [g EXCEPT !.blocks = kept, !.succ = [b \in kept |-> g.succ[b]],
            !.code = [b \in kept |-> g.code[b]], !.test = [b \in kept |-> g.test[b]]]

(* RecursivelyRemoveNoPredecessorBlocks, PruneCFG *)
DropUnreachable(g) == RestrictTo(g, Reachable(g))

Redirected(targets, from, to) ==
  [i \in DOMAIN targets |-> IF targets[i] = from THEN to ELSE targets[i]]

(* A new block n: "preds", which went to b, go to n.                       *)
AddBlock(g, n, code, succ, preds, b) ==
  LET all == g.blocks \cup {n}
  IN  [g EXCEPT
        !.blocks = all,
        !.succ = [x \in all |-> IF x = n THEN succ
                                ELSE IF x \in preds THEN Redirected(g.succ[x], b, n)
                                ELSE g.succ[x]],
        !.code = [x \in all |-> IF x = n THEN code ELSE g.code[x]],
        !.test = [x \in all |-> IF x = n THEN 0 ELSE g.test[x]]]
(* SplitBlockPredecessors *)
SplitPreds(g, b, preds) == AddBlock(g, Fresh(g), <<>>, <<b>>, preds, b)

(* mutant: the block's code goes in front of its predecessor's *)
MergeIntoPredInFront(g, b) ==
  LET p == CHOOSE q \in Preds(g, b) : TRUE
  IN  IF b \in {Entry, Exit} \/ ~ HasSinglePred(g, b) \/ g.succ[p] # <<b>> \/ p = b THEN g
      ELSE IF b = Epilogue
      THEN [g EXCEPT !.code[p] = g.code[b] \o @, !.code[b] = <<>>]
      ELSE RestrictTo([g EXCEPT !.code[p] = g.code[b] \o @, !.succ[p] = g.succ[b],
                                !.test[p] = g.test[b]], g.blocks \ {b})
(* MergeBlockIntoPredecessor.  Whatever happens to the names of the stage's *)
(* two blocks, restoreMainBlocks splits them off again: only the epilogue's *)
(* code has moved.                                                          *)
MergeIntoPred(g, b) ==
  LET p == CHOOSE q \in Preds(g, b) : TRUE
  IN  IF b \in {Entry, Exit} \/ ~ HasSinglePred(g, b) \/ g.succ[p] # <<b>> \/ p = b THEN g
      ELSE IF b = Epilogue
      THEN [g EXCEPT !.code[p] = @ \o g.code[b], !.code[b] = <<>>]
      ELSE RestrictTo([g EXCEPT !.code[p] = @ \o g.code[b], !.succ[p] = g.succ[b],
                                !.test[p] = g.test[b]], g.blocks \ {b})
MergeChains(g) == FoldSet(LAMBDA b, h : MergeIntoPred(h, b), g, g.blocks)

-----------------------------------------------------------------------------
(* SimplifyCFG *)
Simplify(g) == {Outcome(MergeChains(DropUnreachable(g)), "ok")}

(* LoopSimplify: a preheader, exits entered from the loop only, one latch. *)
SimplifyLoop(g, h) ==
  LET a       == Analyze(g)
      loop    == a.loops[h]
      outside == Preds(g, h) \ loop
      g1 == IF Cardinality(outside) = 1 /\ \A p \in outside : Len(g.succ[p]) = 1
            THEN g ELSE SplitPreds(g, h, outside)
      shared == {e \in Exits(g, loop) : ~ Preds(g, e) \subseteq loop}
      g2 == FoldSet(LAMBDA e, x : SplitPreds(x, e, Preds(x, e) \cap loop), g1, shared)
      latches == Latches(g, a.dom, h)
  IN  IF Cardinality(latches) = 1 THEN g2 ELSE SplitPreds(g2, h, latches)
LoopSimplify(g) ==
  {Outcome(FoldSet(LAMBDA h, x : SimplifyLoop(x, h), g, DOMAIN Analyze(g).loops), "ok")}

(* mutant: the latch may hold code *)
FoldableFull(g, a, h) ==
  {l \in Latches(g, a.dom, h) : /\ ~ IsConditional(g, l) /\ HasSinglePred(g, l) /\ l # h
                                /\ \A p \in Preds(g, l) : ~ Succs(g, p) \subseteq a.loops[h]}
(* The part of LoopRotate that applies to every loop, where loops may be   *)
(* unrolled: an empty latch with one predecessor, which may leave the      *)
(* loop, is folded into it.                                                *)
Foldable(g, a, h) ==
  {l \in Latches(g, a.dom, h) : /\ IsEmptyBB(g, l) /\ HasSinglePred(g, l) /\ l # h
                                /\ \A p \in Preds(g, l) : ~ Succs(g, p) \subseteq a.loops[h]}
RotateLoop(g, h) ==
  LET fold == Foldable(g, Analyze(g), h)
  IN  IF fold = {} THEN g
      ELSE LET l == CHOOSE x \in fold : TRUE
               p == CHOOSE x \in Preds(g, l) : TRUE
           IN  RestrictTo([g EXCEPT !.succ[p] = Redirected(@, l, h)], g.blocks \ {l})
LoopRotate(g) ==
  {Outcome(FoldSet(LAMBDA h, x : RotateLoop(x, h), g, DOMAIN Analyze(g).loops), "ok")}

-----------------------------------------------------------------------------
(* CanonicalizeCFG *)

(* DetermineSimpleBlockToDuplicate: of two merges the one that goes         *)
(* straight on to the other, which post-dominates it.                      *)
SimpleBlocksToDuplicate(g, merges) ==
  IF Cardinality(merges) # 2 THEN {}
  ELSE {d \in merges : \E p \in merges \ {d} : d \in PostDominatedBy(g)[p] /\ g.succ[d] = <<p>>}

(* DuplicateBasicBlock: one predecessor, whichever is first, goes through   *)
(* a copy of the block.  The block that phis the copies' values goes away   *)
(* only if nothing but its successor's phis uses them.                      *)
Duplicates(g, d) ==
  IF Preds(g, d) = {} THEN {Outcome(g, "ok")}
  ELSE {Outcome(AddBlock(g, Fresh(g), g.code[d], g.succ[d], {p}, d), v) :
          p \in Preds(g, d),
          v \in IF g.code[d] = <<>> THEN {"ok"} ELSE {"ok", "unsupported"}}

(* CanonicalizeCFG::eliminateCrossEdges: each conditional with several      *)
(* merges, by what was known of it before, and then all once more.          *)
EliminateCrossEdges(g) ==
  LET a       == Analyze(g)
      crossed == {e \in Entries(g) : HasPotentialCrossEdge(Conditional(g, a, e))}
      OneOf(o, e) ==
        LET dup == SimpleBlocksToDuplicate(o.g, Conditional(g, a, e).merges)
            d   == CHOOSE x \in dup : TRUE
        IN  IF o.verdict # "ok" THEN {o}
            ELSE IF dup = {} THEN {Outcome(o.g, "unsupported")}
            ELSE {IF HasPotentialCrossEdge(Conditional(x.g, Analyze(DropUnreachable(x.g)), e))
                  THEN Outcome(x.g, "unsupported") ELSE x : x \in Duplicates(o.g, d)}
  IN  IF crossed = {} THEN {Outcome(g, "ok")}
      ELSE FoldSet(LAMBDA e, os : UNION {OneOf(o, e) : o \in os}, {Outcome(g, "ok")}, crossed)

(* Conditional::splitSharedMerge: the ways of this conditional into a merge *)
(* it does not dominate meet in a block of their own.                       *)
SplitSharedMerge(g, e) ==
  LET a == Analyze(g)
      c == Conditional(g, a, e)
  IN  IF ~ HasSharedMerge(a, c) THEN g
      ELSE SplitPreds(g, c.merge, {p \in Preds(g, c.merge) : Dominates(a, e, p)})
(* mutant: shared merges stay *)
SplitNoMergeBlocks(g) == g
SplitSharedMergeBlocks(g) ==
  LET a == Analyze(g)
  IN  IF \A e \in Entries(g) : ~ HasSharedMerge(a, Conditional(g, a, e)) THEN g
      ELSE FoldSet(LAMBDA e, x : SplitSharedMerge(x, e), g, Entries(g))

(* CanonicalizeCFG::restoreMainBlocks: main returns once; with no way to    *)
(* the epilogue, the exit needs a predecessor that does not discard.        *)
RestoreMainBlocks(g) ==
  LET preds == Preds(g, Exit)
  IN  IF Exit \notin g.blocks THEN Outcome(g, "assert")
      ELSE IF Epilogue \in g.blocks THEN Outcome(g, "ok")
      ELSE IF Cardinality(preds) = 1     \* the exit was merged into it
      THEN Outcome(AddBlock(g, Epilogue, <<>>, <<Exit>>, preds, Exit), "ok")
      ELSE Outcome(g, "assert")

CanonicalizeCFG(g) ==
  LET Rest(g1) == LET g2 == SplitSharedMergeBlocks(DropUnreachable(g1))
                      g3 == MergeChains(DropUnreachable(g2))
                  IN  RestoreMainBlocks(g3)
  IN  {IF o.verdict = "ok" THEN Rest(o.g) ELSE o : o \in EliminateCrossEdges(g)}

-----------------------------------------------------------------------------
(* FlattenConditionalAssignments *)

(* createMergeSelects turns a merge's phis into selects if it picks between *)
(* the two sides only; removeIfEmpty wants no phis left.                    *)
NoPhisLeft(g, c) ==
  \/ ~ Joins(g, c.merge)
  \/ Preds(g, c.merge) = {IF IsIfElse(c) THEN c.entry ELSE c.left,
                          IF IsIfThen(c) THEN c.entry ELSE c.right}
Removable(g, a, c) ==
  /\ c.merge # None
  /\ \A x \in {c.left, c.right, c.merge} : Dominates(a, c.entry, x)
  /\ IsEmptyConditional(g, c) /\ NoPhisLeft(g, c)

(* Conditional::removeIfEmpty *)
RemoveIfEmpty(g, e) ==
  IF e \notin Entries(g) THEN g
  ELSE LET a == Analyze(g)
           c == Conditional(g, a, e)
       IN  IF ~ Removable(g, a, c) THEN g
           ELSE MergeIntoPred(DropUnreachable([g EXCEPT !.succ[e] = <<c.merge>>,
                                                        !.test[e] = 0]), c.merge)
FlattenConds(g) == FoldSet(LAMBDA e, x : RemoveIfEmpty(x, e), g, Entries(g))
AnyRemovable(g) ==
  LET a == Analyze(g) IN \E e \in Entries(g) : Removable(g, a, Conditional(g, a, e))
(* FlattenCondAssn::runOnFunction: over and over while that removes any.    *)
RECURSIVE Flatten(_)
Flatten(g) ==
  IF AnyRemovable(g) THEN Flatten(FlattenConds(g)) ELSE {Outcome(g, "ok")}

-----------------------------------------------------------------------------
(* PrivateManager::runLLVMOptimizations1, the passes that change control    *)
(* flow; between two of a kind with nothing else between them one is named. *)
HasControlFlow(g) == Entries(g) # {}
Schedule(unroll) ==
  <<"simplify", "loopSimplify", "canonicalize", "flatten", "canonicalize",
    "loopSimplify", "canonicalize", "flatten", "canonicalize", "loopSimplify">>
  \o (IF unroll THEN <<"rotate">> ELSE <<>>) \o
  <<"canonicalize", "loopSimplify", "canonicalize", "flatten", "canonicalize",
    "loopSimplify", "canonicalize">>

(* CanonicalizeCFG runs even where there is no control flow.                *)
Run(pass, g, control) ==
  CASE pass = "canonicalize" -> CanonicalizeCFG(g)
    [] pass = "simplify" /\ control -> Simplify(g)
    [] pass = "loopSimplify" /\ control -> LoopSimplify(g)
    [] pass = "rotate" /\ control -> LoopRotate(g)
    [] pass = "flatten" /\ control -> Flatten(g)
    [] OTHER -> {Outcome(g, "ok")}
=============================================================================
