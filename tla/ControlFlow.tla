---------------------------- MODULE ControlFlow ----------------------------
(***************************************************************************)
(* Control-flow graphs of the middle end and what LLVM's analyses say of   *)
(* them: dominators, post-dominators, dominance frontiers, natural loops.  *)
(* The analyses are LLVM's; they are given here by what they mean.         *)
(*                                                                         *)
(* A graph is a record: blocks (numbers); succ, the targets of each        *)
(* block's terminator in order (none: it returns; two: it tests); code,    *)
(* each block's visible instructions, the front end's events; test, for a  *)
(* block that tests, the place in the source the condition comes from;     *)
(* plain, the tests that compare constants, uniforms or phis and nothing   *)
(* else.  Main's entry, stage-epilogue and stage-exit keep the numbers the *)
(* builder gave them.                                                      *)
(***************************************************************************)
EXTENDS Integers, Sequences, FiniteSets, FiniteSetsExt, Functions

(* No block. *)
None  == 0
Epilogue == 1
Exit     == 2
Entry    == 3

Succs(g, b) == Range(g.succ[b])
Preds(g, b) == {p \in g.blocks : b \in Succs(g, p)}
IsConditional(g, b) == Len(g.succ[b]) = 2
UncondBranchesTo(g, a, b) == g.succ[a] = <<b>>
(* getSinglePredecessor *)
HasSinglePred(g, b) == Cardinality(Preds(g, b)) = 1
(* Where ways join, phis pick the values: every way brings its own.        *)
Joins(g, b) == Cardinality(Preds(g, b)) > 1
(* IsEmptyBB: a block that tests holds the comparison.                     *)
IsEmptyBB(g, b) == g.code[b] = <<>> /\ ~ IsConditional(g, b)
(* HasDiscard *)
HasDiscard(g, b) == \E i \in DOMAIN g.code[b] : g.code[b][i].what = "discard"

(* The blocks a walk along "next" from "from" meets, never entering "not". *)
RECURSIVE Walk(_, _, _)
Walk(next, seen, not) ==
  LET more == seen \cup (UNION {next[b] : b \in seen} \ not)
  IN  IF more = seen THEN seen ELSE Walk(next, more, not)

Forwards(g)  == [b \in g.blocks |-> Succs(g, b)]
Backwards(g) == [b \in g.blocks |-> Preds(g, b)]
Reachable(g) == Walk(Forwards(g), {Entry}, {})

-----------------------------------------------------------------------------
(* DominatorTree, PostDominatorTree: the blocks that every way from the    *)
(* entry (every way to the exit) passes "by" to reach, "by" among them.    *)
DominatedBy(g, next) ==
  [by \in g.blocks |-> g.blocks \ Walk(next, {Entry} \ {by}, {by})]
PostDominatedBy(g) ==
  [by \in g.blocks |-> g.blocks \ Walk(Backwards(g), {Exit} \ {by}, {by})]

(* DominanceFrontier: where the dominance of a block ends. *)
Frontier(g, prev, dom) ==
  [a \in g.blocks |-> {b \in g.blocks : /\ prev[b] \cap dom[a] # {}
                                        /\ b = a \/ b \notin dom[a]}]

(* LoopInfo: each header's loop, the blocks that reach a back edge of it   *)
(* without passing it.                                                     *)
Latches(g, dom, h) == {t \in dom[h] : h \in Succs(g, t)}
NaturalLoops(g, prev, dom) ==
  [h \in {b \in g.blocks : Latches(g, dom, b) # {}} |->
     {h} \cup Walk(prev, Latches(g, dom, h) \ {h}, {h})]

(* All of it, for a graph of reachable blocks. *)
Analyze(g) ==
  LET next == Forwards(g)
      prev == Backwards(g)
      dom  == DominatedBy(g, next)
  IN  [dom |-> dom, front |-> Frontier(g, prev, dom), loops |-> NaturalLoops(g, prev, dom)]

Dominates(a, x, y) == y \in a.dom[x]
ProperlyDominates(a, x, y) == x # y /\ y \in a.dom[x]
(* getIDom: of the proper dominators, the one all others dominate *)
IDom(a, y) ==
  LET above == {x \in DOMAIN a.dom : ProperlyDominates(a, x, y)}
  IN  CHOOSE x \in above : \A z \in above : Dominates(a, z, x)
(* LoopInfo::getLoopFor: the blocks of the innermost loop around a block;  *)
(* outside of loops, all blocks.                                           *)
LoopAround(a, b) ==
  LET around == {h \in DOMAIN a.loops : b \in a.loops[h]}
  IN  IF around = {} THEN DOMAIN a.dom
      ELSE a.loops[CHOOSE h \in around : \A o \in around : a.loops[h] \subseteq a.loops[o]]
=============================================================================
