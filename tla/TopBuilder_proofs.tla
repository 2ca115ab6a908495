------------------------- MODULE TopBuilder_proofs --------------------------
(***************************************************************************)
(* What the builder's operations preserve, for any builder, in three parts: *)
(* a builder of n blocks mentions no other blocks, and only loops and switches *)
(* touch their stacks; which blocks an operation may change or leave without *)
(* an end; what it lays out.                                               *)
(***************************************************************************)
EXTENDS TopBuilder, SequenceTheorems, TLAPS

EventNames   == {"copyOut", "discard", "stmt", "init", "initThen", "initElse",
                 "terminal"}
EventType    == [what : EventNames, at : Nat]
TermType(n)  == [kind : TermKinds, to : Seq(1..n), at : Nat]
BlockType(n) == [name : BlockNames, fn : FunctionNames, term : TermType(n),
                 code : Seq(EventType)]
LoopType(n)  == [header : 1..n, exit : 1..n]
BuilderType(n) ==
  [blocks : Seq(BlockType(n)), layout : Seq(1..n), insert : 1..n,
   loops : Seq(LoopType(n)), switches : Seq(1..n),
   stageEpilogue : 1..n, stageExit : 1..n]

BuilderOK(b) == b \in BuilderType(Len(b.blocks))

SameStacks(b, c) == c.loops = b.loops /\ c.switches = b.switches

(* c is what an operation made of b; without opening or closing a loop or  *)
(* a switch, it grows b.                                                   *)
Builds(b, c) == /\ BuilderOK(c)
                /\ Len(b.blocks) \in Nat /\ Len(c.blocks) \in Nat
                /\ Len(b.blocks) <= Len(c.blocks)
Grows(b, c)  == Builds(b, c) /\ SameStacks(b, c)

-----------------------------------------------------------------------------
LEMMA SeqSubset ==
  ASSUME NEW S, NEW T, S \subseteq T
  PROVE  Seq(S) \subseteq Seq(T)
OBVIOUS

LEMMA LenNat ==
  ASSUME NEW b, BuilderOK(b)
  PROVE  Len(b.blocks) \in Nat
BY DEF BuilderOK, BuilderType

LEMMA TermMonotone ==
  ASSUME NEW n \in Nat, NEW m \in Nat, n <= m
  PROVE  TermType(n) \subseteq TermType(m)
BY SeqSubset, 1..n \subseteq 1..m DEF TermType

LEMMA BlockMonotone ==
  ASSUME NEW n \in Nat, NEW m \in Nat, n <= m
  PROVE  BlockType(n) \subseteq BlockType(m)
BY TermMonotone DEF BlockType

LEMMA BuilderMonotone ==
  ASSUME NEW n \in Nat, NEW m \in Nat, n <= m
  PROVE  BuilderType(n) \subseteq BuilderType(m)
<1>1. 1..n \subseteq 1..m
  OBVIOUS
<1>2. Seq(BlockType(n)) \subseteq Seq(BlockType(m))
  BY BlockMonotone, SeqSubset
<1>3. Seq(LoopType(n)) \subseteq Seq(LoopType(m))
  <2>1. LoopType(n) \subseteq LoopType(m)
    BY <1>1 DEF LoopType
  <2> QED
    BY <2>1, SeqSubset
<1>4. Seq(1..n) \subseteq Seq(1..m)
  BY <1>1, SeqSubset
<1> QED
  BY <1>1, <1>2, <1>3, <1>4 DEF BuilderType

LEMMA GrowsReflexive ==
  ASSUME NEW b, BuilderOK(b)
  PROVE  Grows(b, b)
BY LenNat DEF Grows, Builds, SameStacks

LEMMA GrowsTransitive ==
  ASSUME NEW b, NEW c, NEW d, Grows(b, c), Grows(c, d)
  PROVE  Grows(b, d)
BY DEF Grows, Builds, SameStacks

-----------------------------------------------------------------------------
(* The primitives. *)

LEMMA SetInsertGrows ==
  ASSUME NEW b, BuilderOK(b), NEW blk \in 1..Len(b.blocks)
  PROVE  Grows(b, SetInsertPoint(b, blk)) /\ SetInsertPoint(b, blk).blocks = b.blocks
<1> DEFINE n == Len(b.blocks)
           c == SetInsertPoint(b, blk)
<1>1. b \in BuilderType(n) /\ n \in Nat
  BY LenNat DEF BuilderOK
<1> HIDE DEF n
<1>2. c \in BuilderType(n) /\ SameStacks(b, c) /\ c.blocks = b.blocks
  BY <1>1, blk \in 1..n DEF SetInsertPoint, BuilderType, SameStacks, n
<1> QED
  BY <1>1, <1>2 DEF Grows, Builds, BuilderOK, n

LEMMA PushBackGrows ==
  ASSUME NEW b, BuilderOK(b), NEW blk \in 1..Len(b.blocks)
  PROVE  Grows(b, PushBack(b, blk)) /\ PushBack(b, blk).blocks = b.blocks
<1> DEFINE n == Len(b.blocks)
           c == PushBack(b, blk)
<1>1. b \in BuilderType(n) /\ n \in Nat
  BY LenNat DEF BuilderOK
<1>2. Append(b.layout, blk) \in Seq(1..n)
  BY <1>1 DEF BuilderType
<1>3. c = [b EXCEPT !.layout = Append(b.layout, blk)]
  BY DEF PushBack
<1> HIDE DEF n, c
<1>4. c \in BuilderType(n) /\ SameStacks(b, c) /\ c.blocks = b.blocks
  BY <1>1, <1>2, <1>3 DEF BuilderType, SameStacks
<1> QED
  BY <1>1, <1>4 DEF Grows, Builds, BuilderOK, n, c

LEMMA CreateGrows ==
  ASSUME NEW b, BuilderOK(b), NEW name \in BlockNames, NEW fn \in FunctionNames
  PROVE  /\ Grows(b, Create(b, name, fn))
         /\ Len(Create(b, name, fn).blocks) = Next1(b)
<1> DEFINE n == Len(b.blocks)
           c == Create(b, name, fn)
<1>1. b \in BuilderType(n) /\ n \in Nat
  BY LenNat DEF BuilderOK
<1>2. b \in BuilderType(n + 1)
  BY <1>1, BuilderMonotone
<1>3. NewBlock(name, fn) \in BlockType(n + 1)
  BY <1>1 DEF NewBlock, NoTerm, Term, BlockType, TermType, TermKinds
<1>4. /\ Append(b.blocks, NewBlock(name, fn)) \in Seq(BlockType(n + 1))
      /\ Len(Append(b.blocks, NewBlock(name, fn))) = n + 1
  BY <1>1, <1>2, <1>3 DEF BuilderType
<1>5. c = [b EXCEPT !.blocks = Append(b.blocks, NewBlock(name, fn))]
  BY DEF Create
<1>6. /\ c \in BuilderType(n + 1) /\ c.blocks = Append(b.blocks, NewBlock(name, fn))
      /\ SameStacks(b, c)
  BY <1>2, <1>4, <1>5 DEF BuilderType, SameStacks
<1> QED
  BY <1>1, <1>4, <1>6 DEF Grows, Builds, BuilderOK, Next1

LEMMA ReplaceOne ==
  ASSUME NEW S, NEW s \in Seq(S), NEW i \in 1..Len(s), NEW e \in S
  PROVE  [s EXCEPT ![i] = e] \in Seq(S) /\ Len([s EXCEPT ![i] = e]) = Len(s)
OBVIOUS

(* A builder whose blocks are replaced by as many well-typed ones. *)
LEMMA ReplaceBlocks ==
  ASSUME NEW b, BuilderOK(b), NEW d \in Seq(BlockType(Len(b.blocks))),
         Len(d) = Len(b.blocks)
  PROVE  LET c == [b EXCEPT !.blocks = d]
         IN  Grows(b, c) /\ Len(c.blocks) = Len(b.blocks)
<1> DEFINE n == Len(b.blocks)
           c == [b EXCEPT !.blocks = d]
<1>1. b \in BuilderType(n) /\ n \in Nat /\ d \in Seq(BlockType(n)) /\ Len(d) = n
  BY LenNat DEF BuilderOK
<1>2. c = [b EXCEPT !.blocks = d]
  OBVIOUS
<1> HIDE DEF n, c
<1>3. c \in BuilderType(n) /\ SameStacks(b, c) /\ c.blocks = d
  BY <1>1, <1>2 DEF BuilderType, SameStacks
<1> QED
  BY <1>1, <1>3 DEF Grows, Builds, BuilderOK, n, c

LEMMA TerminateGrows ==
  ASSUME NEW b, BuilderOK(b), NEW t \in TermType(Len(b.blocks))
  PROVE  /\ Grows(b, Terminate(b, t))
         /\ Len(Terminate(b, t).blocks) = Len(b.blocks)
<1> DEFINE n == Len(b.blocks)
           u == IF Terminated(b) THEN Double ELSE t
           d == [b.blocks EXCEPT ![b.insert].term = u]
<1>1. b \in BuilderType(n) /\ n \in Nat
  BY LenNat DEF BuilderOK
<1>2. u \in TermType(n)
  BY DEF Double, Term, TermType, TermKinds
<1>4. Terminate(b, t) = [b EXCEPT !.blocks = d]
  BY <1>1 DEF Terminate, BuilderType
<1> HIDE DEF n, u
<1>5. b.blocks \in Seq(BlockType(n)) /\ b.insert \in 1..n /\ n = Len(b.blocks)
  BY <1>1 DEF BuilderType, n
<1>6. b.blocks[b.insert] \in BlockType(n)
  BY <1>5
<1>7. [b.blocks[b.insert] EXCEPT !.term = u] \in BlockType(n)
  BY <1>2, <1>6 DEF BlockType
<1>3. d \in Seq(BlockType(n)) /\ Len(d) = n
  BY <1>5, <1>7, ReplaceOne
<1> QED
  BY <1>3, <1>4, ReplaceBlocks DEF n

LEMMA EmitGrows ==
  ASSUME NEW b, BuilderOK(b), NEW e \in EventType
  PROVE  Grows(b, Emit(b, e)) /\ Len(Emit(b, e).blocks) = Len(b.blocks)
<1> DEFINE n == Len(b.blocks)
           d == [b.blocks EXCEPT ![b.insert].code = Append(@, e)]
<1>1. b \in BuilderType(n) /\ n \in Nat
  BY LenNat DEF BuilderOK
<1>2. Emit(b, e) = [b EXCEPT !.blocks = d]
  BY <1>1 DEF Emit, BuilderType
<1> HIDE DEF n
<1>3. b.blocks \in Seq(BlockType(n)) /\ b.insert \in 1..n /\ n = Len(b.blocks)
  BY <1>1 DEF BuilderType, n
<1>4. b.blocks[b.insert] \in BlockType(n)
  BY <1>3
<1> DEFINE f == [b.blocks[b.insert] EXCEPT !.code = Append(@, e)]
<1>5. b.blocks[b.insert].code \in Seq(EventType)
  BY <1>4 DEF BlockType
<1>6. Append(b.blocks[b.insert].code, e) \in Seq(EventType)
  BY <1>5
<1>7. f \in BlockType(n)
  BY <1>4, <1>6 DEF BlockType
<1>8. d = [b.blocks EXCEPT ![b.insert] = f]
  OBVIOUS
<1> HIDE DEF d, f
<1>9. d \in Seq(BlockType(n)) /\ Len(d) = n
  BY <1>3, <1>7, <1>8, ReplaceOne
<1> QED
  BY <1>2, <1>9, ReplaceBlocks DEF n

-----------------------------------------------------------------------------
(* Block-making and block-ending calls that leave the stacks alone. *)

LEMMA GrownOK ==
  ASSUME NEW b, NEW c, Grows(b, c)
  PROVE  /\ BuilderOK(c) /\ SameStacks(b, c)
         /\ Len(b.blocks) \in Nat /\ Len(c.blocks) \in Nat
         /\ Len(b.blocks) <= Len(c.blocks)
BY DEF Grows, Builds

LEMMA InsertType ==
  ASSUME NEW b, BuilderOK(b)
  PROVE  b.insert \in 1..Len(b.blocks) /\ Parent(b) \in FunctionNames
<1> DEFINE n == Len(b.blocks)
<1>1. b \in BuilderType(n) /\ n \in Nat
  BY LenNat DEF BuilderOK
<1> HIDE DEF n
<1>2. b.insert \in 1..n /\ b.blocks \in Seq(BlockType(n)) /\ n = Len(b.blocks)
  BY <1>1 DEF BuilderType, n
<1>3. b.blocks[b.insert] \in BlockType(n)
  BY <1>2
<1> QED
  BY <1>2, <1>3 DEF Parent, BlockType

LEMMA StageBlocksType ==
  ASSUME NEW b, BuilderOK(b)
  PROVE  b.stageEpilogue \in 1..Len(b.blocks) /\ b.stageExit \in 1..Len(b.blocks)
BY DEF BuilderOK, BuilderType

LEMMA BlockFunction ==
  ASSUME NEW b, BuilderOK(b), NEW i \in 1..Len(b.blocks)
  PROVE  b.blocks[i].fn \in FunctionNames
<1> DEFINE n == Len(b.blocks)
<1>1. b.blocks \in Seq(BlockType(n))
  BY DEF BuilderOK, BuilderType
<1> HIDE DEF n
<1>2. b.blocks[i] \in BlockType(n)
  BY <1>1
<1> QED
  BY <1>2 DEF BlockType

LEMMA TermsType ==
  ASSUME NEW n \in Nat
  PROVE  /\ Ret \in TermType(n) /\ Unreachable \in TermType(n)
         /\ \A i \in 1..n : Br(i) \in TermType(n)
         /\ \A i, j \in 1..n, at \in Nat : Term("cond", <<i, j>>, at) \in TermType(n)
BY DEF Ret, Unreachable, Br, Term, TermType, TermKinds

LEMMA EventsType ==
  ASSUME NEW at \in Nat, NEW what \in EventNames
  PROVE  Event(what, at) \in EventType
BY DEF Event, EventType

LEMMA CopyOutType == CopyOut \in EventType
BY EventsType DEF CopyOut, EventNames

LEMMA CreateInGrows ==
  ASSUME NEW b, BuilderOK(b), NEW name \in BlockNames, NEW fn \in FunctionNames
  PROVE  /\ Grows(b, CreateIn(b, name, fn))
         /\ Len(CreateIn(b, name, fn).blocks) = Next1(b)
         /\ Next1(b) \in 1..Len(CreateIn(b, name, fn).blocks)
<1> DEFINE c == Create(b, name, fn)
<1>1. Grows(b, c) /\ Len(c.blocks) = Next1(b) /\ Next1(b) \in 1..Len(c.blocks)
  BY CreateGrows, LenNat DEF Next1
<1>2. Grows(c, PushBack(c, Next1(b))) /\ PushBack(c, Next1(b)).blocks = c.blocks
  BY <1>1, GrownOK, PushBackGrows
<1> QED
  BY <1>1, <1>2, GrowsTransitive DEF CreateIn

LEMMA CloseToGrows ==
  ASSUME NEW b, BuilderOK(b), NEW blk \in 1..Len(b.blocks)
  PROVE  Grows(b, CloseTo(b, blk)) /\ Len(CloseTo(b, blk).blocks) = Len(b.blocks)
BY LenNat, TermsType, TerminateGrows, GrowsReflexive DEF CloseTo

LEMMA NoPredecessorGrows ==
  ASSUME NEW b, BuilderOK(b), NEW name \in BlockNames
  PROVE  Grows(b, CreateAndSetNoPredecessorBlock(b, name))
<1> DEFINE c == CreateIn(b, name, Parent(b))
           d == SetInsertPoint(c, Next1(b))
<1>1. Grows(b, c) /\ Next1(b) \in 1..Len(c.blocks)
  BY InsertType, CreateInGrows
<1>2. Grows(c, d)
  BY <1>1, GrownOK, SetInsertGrows
<1>3. Grows(d, Terminate(d, Unreachable))
  BY <1>2, GrownOK, TermsType, TerminateGrows
<1> QED
  BY <1>1, <1>2, <1>3, GrowsTransitive DEF CreateAndSetNoPredecessorBlock

LEMMA MakeReturnGrows ==
  ASSUME NEW b, BuilderOK(b), NEW implicit \in BOOLEAN, NEW isMain \in BOOLEAN
  PROVE  Grows(b, MakeReturn(b, implicit, isMain))
<1> DEFINE t == IF isMain THEN Br(b.stageEpilogue) ELSE Ret
           r == Terminate(b, t)
<1>1. t \in TermType(Len(b.blocks))
  BY LenNat, StageBlocksType, TermsType
<1>2. Grows(b, r)
  BY <1>1, TerminateGrows
<1>3. Grows(b, CreateAndSetNoPredecessorBlock(r, "post-return"))
  BY <1>2, GrownOK, NoPredecessorGrows, GrowsTransitive DEF BlockNames
<1> QED
  BY <1>2, <1>3, GrowsReflexive DEF MakeReturn

LEMMA MakeDiscardGrows ==
  ASSUME NEW b, BuilderOK(b), NEW isMain \in BOOLEAN, NEW at \in Nat
  PROVE  Grows(b, MakeDiscard(b, isMain, at))
<1> DEFINE d == Emit(b, Event("discard", at))
           e == Terminate(d, Br(b.stageExit))
<1>1. Grows(b, d) /\ Len(d.blocks) = Len(b.blocks)
  BY EmitGrows, EventsType DEF EventNames
<1>2. Grows(d, e)
  BY <1>1, GrownOK, StageBlocksType, TermsType, TerminateGrows
<1>3. Grows(e, CreateAndSetNoPredecessorBlock(e, "post-discard"))
  BY <1>2, GrownOK, NoPredecessorGrows DEF BlockNames
<1> QED
  BY <1>1, <1>2, <1>3, GrowsTransitive, GrowsReflexive DEF MakeDiscard

LEMMA CloseMainGrows ==
  ASSUME NEW b, BuilderOK(b)
  PROVE  Grows(b, CloseMain(b))
<1> DEFINE c == SetInsertPoint(b, b.stageEpilogue)
           d == Emit(c, CopyOut)
           e == Terminate(d, Br(b.stageExit))
           f == SetInsertPoint(e, b.stageExit)
           g == Terminate(f, Ret)
           h == PushBack(g, b.stageEpilogue)
<1>0. b.stageEpilogue \in 1..Len(b.blocks) /\ b.stageExit \in 1..Len(b.blocks)
  BY StageBlocksType
<1>1. Grows(b, c) /\ c.blocks = b.blocks
  BY <1>0, SetInsertGrows
<1>2. Grows(c, d) /\ Len(d.blocks) = Len(c.blocks)
  BY <1>1, GrownOK, EmitGrows, CopyOutType
<1>3. Grows(d, e) /\ Len(e.blocks) = Len(d.blocks)
  BY <1>0, <1>1, <1>2, GrownOK, TermsType, TerminateGrows
<1>4. Grows(e, f) /\ f.blocks = e.blocks
  BY <1>0, <1>1, <1>2, <1>3, GrownOK, SetInsertGrows
<1>5. Grows(f, g) /\ Len(g.blocks) = Len(f.blocks)
  BY <1>4, GrownOK, TermsType, TerminateGrows
<1>6. Grows(g, h) /\ h.blocks = g.blocks
  BY <1>0, <1>1, <1>2, <1>3, <1>4, <1>5, GrownOK, PushBackGrows
<1>7. Grows(h, PushBack(h, b.stageExit))
  BY <1>0, <1>1, <1>2, <1>3, <1>4, <1>5, <1>6, GrownOK, PushBackGrows
<1>8. Grows(b, e)
  BY <1>1, <1>2, <1>3, GrowsTransitive
<1>9. Grows(e, h)
  BY <1>4, <1>5, <1>6, GrowsTransitive
<1> QED
  BY <1>7, <1>8, <1>9, GrowsTransitive DEF CloseMain

LEMMA LeaveFunctionGrows ==
  ASSUME NEW b, BuilderOK(b), NEW main \in BOOLEAN
  PROVE  Grows(b, LeaveFunction(b, main))
<1> DEFINE left == IF Terminated(b) THEN b
                   ELSE IF main /\ ~ InUnreachable(b) THEN MakeReturn(b, TRUE, TRUE)
                   ELSE IF InUnreachable(b) THEN Terminate(b, Unreachable)
                   ELSE MakeReturn(b, TRUE, FALSE)
<1>1. Grows(b, left)
  BY LenNat, GrowsReflexive, MakeReturnGrows, TermsType, TerminateGrows
<1>2. Grows(left, CloseMain(left))
  BY <1>1, GrownOK, CloseMainGrows
<1> QED
  BY <1>1, <1>2, GrowsTransitive DEF LeaveFunction

-----------------------------------------------------------------------------
(* Ifs. *)

IfType(n) == [header : 1..n, then : 1..n, else : 0..n, merge : 1..n]

LEMMA IfBeginGrows ==
  ASSUME NEW b, BuilderOK(b)
  PROVE  /\ Grows(b, IfBegin(b))
         /\ IfObject(b) \in IfType(Len(IfBegin(b).blocks))
<1> DEFINE fn == Parent(b)
           t  == CreateIn(b, "then", fn)
           m  == Create(t, "ifmerge", fn)
<1>1. Grows(b, t) /\ Len(t.blocks) = Next1(b) /\ fn \in FunctionNames
  BY InsertType, CreateInGrows DEF BlockNames
<1>2. Grows(t, m) /\ Len(m.blocks) = Next1(t)
  BY <1>1, GrownOK, CreateGrows DEF BlockNames
<1>3. /\ Len(b.blocks) \in Nat /\ Next1(b) = Len(b.blocks) + 1
      /\ Len(m.blocks) = Len(b.blocks) + 2
  BY <1>1, <1>2, LenNat DEF Next1
<1>4. Grows(m, SetInsertPoint(m, Next1(b))) /\ SetInsertPoint(m, Next1(b)).blocks = m.blocks
  BY <1>2, <1>3, GrownOK, SetInsertGrows
<1>5. IfObject(b) \in IfType(Len(m.blocks))
  BY <1>3, InsertType DEF IfObject, IfType
<1> QED
  BY <1>1, <1>2, <1>4, <1>5, GrowsTransitive DEF IfBegin

LEMMA MakeBeginElseGrows ==
  ASSUME NEW b, BuilderOK(b), NEW if \in IfType(Len(b.blocks))
  PROVE  /\ Grows(b, MakeBeginElse(b, if))
         /\ Next1(b) \in 1..Len(MakeBeginElse(b, if).blocks)
         /\ [if EXCEPT !.else = Next1(b)] \in IfType(Len(MakeBeginElse(b, if).blocks))
<1> DEFINE fn == b.blocks[if.header].fn
           c  == CloseTo(b, if.merge)
           e  == CreateIn(c, "else", fn)
<1>1. /\ if.header \in 1..Len(b.blocks) /\ if.merge \in 1..Len(b.blocks)
      /\ if.then \in 1..Len(b.blocks)
  BY DEF IfType
<1>2. Grows(b, c) /\ Len(c.blocks) = Len(b.blocks) /\ fn \in FunctionNames
  BY <1>1, CloseToGrows, BlockFunction
<1>3. Grows(c, e) /\ Len(e.blocks) = Next1(b)
  <2>1. BuilderOK(c) /\ "else" \in BlockNames
    BY <1>2, GrownOK DEF BlockNames
  <2>2. Grows(c, e) /\ Len(e.blocks) = Next1(c)
    BY <1>2, <2>1, CreateInGrows
  <2> QED
    BY <1>2, <2>2 DEF Next1
<1>4. Next1(b) \in 1..Len(e.blocks) /\ Len(b.blocks) <= Len(e.blocks)
  BY <1>3, LenNat DEF Next1
<1>5. Grows(e, SetInsertPoint(e, Next1(b))) /\ SetInsertPoint(e, Next1(b)).blocks = e.blocks
  BY <1>3, <1>4, GrownOK, SetInsertGrows
<1>6. [if EXCEPT !.else = Next1(b)] \in IfType(Len(e.blocks))
  BY <1>3, <1>4, LenNat DEF IfType, Next1
<1> QED
  BY <1>2, <1>3, <1>4, <1>5, <1>6, GrowsTransitive DEF MakeBeginElse

LEMMA MakeEndIfGrows ==
  ASSUME NEW b, BuilderOK(b), NEW if \in IfType(Len(b.blocks)), NEW at \in Nat
  PROVE  Grows(b, MakeEndIf(b, if, at))
<1> DEFINE closed == CloseTo(b, if.merge)
           target == IF if.else # 0 THEN if.else ELSE if.merge
           t      == Term("cond", <<if.then, target>>, at)
           moved  == SetInsertPoint(closed, if.header)
           split  == IF HasTerminator(closed, if.header) THEN closed
                     ELSE Terminate(moved, t)
           pushed == PushBack(split, if.merge)
<1>1. /\ if.header \in 1..Len(b.blocks) /\ if.merge \in 1..Len(b.blocks)
      /\ if.then \in 1..Len(b.blocks) /\ target \in 1..Len(b.blocks)
  BY LenNat DEF IfType
<1>2. Grows(b, closed) /\ Len(closed.blocks) = Len(b.blocks)
  BY <1>1, CloseToGrows
<1>3. Grows(closed, moved) /\ moved.blocks = closed.blocks
  BY <1>1, <1>2, GrownOK, SetInsertGrows
<1>4. t \in TermType(Len(b.blocks))
  BY <1>1, LenNat, TermsType
<1>5. Grows(moved, Terminate(moved, t)) /\ Len(Terminate(moved, t).blocks) = Len(b.blocks)
  BY <1>2, <1>3, <1>4, GrownOK, TerminateGrows
<1>6. Grows(b, split) /\ Len(split.blocks) = Len(b.blocks)
  BY <1>2, <1>3, <1>5, GrowsTransitive
<1>7. Grows(split, pushed) /\ pushed.blocks = split.blocks
  BY <1>1, <1>6, GrownOK, PushBackGrows
<1>8. Grows(pushed, SetInsertPoint(pushed, if.merge))
  BY <1>1, <1>6, <1>7, GrownOK, SetInsertGrows
<1> QED
  BY <1>6, <1>7, <1>8, GrowsTransitive DEF MakeEndIf

-----------------------------------------------------------------------------
(* Switches. *)

LEMMA TopPopType ==
  ASSUME NEW S, NEW s \in Seq(S), s # <<>>
  PROVE  TopOf(s) \in S /\ Pop(s) \in Seq(S) /\ Len(Pop(s)) = Len(s) - 1
<1>1. Len(s) \in Nat \ {0}
  OBVIOUS
<1>2. TopOf(s) \in S
  BY <1>1 DEF TopOf
<1> DEFINE n == Len(s) - 1
<1>4. n \in Nat /\ n \in Int /\ 1 \in Int /\ \A i \in 1..n : s[i] \in S
  BY <1>1
<1> HIDE DEF n
<1>5. /\ SubSeq(s, 1, n) \in Seq(S)
      /\ Len(SubSeq(s, 1, n)) = IF 1 <= n THEN n - 1 + 1 ELSE 0
  BY <1>4, SubSeqProperties
<1>3. SubSeq(s, 1, n) \in Seq(S) /\ Len(SubSeq(s, 1, n)) = n
  BY <1>4, <1>5
<1> QED
  BY <1>2, <1>3 DEF Pop, n

LEMMA StacksType ==
  ASSUME NEW b, BuilderOK(b)
  PROVE  b.switches \in Seq(1..Len(b.blocks)) /\ b.loops \in Seq(LoopType(Len(b.blocks)))
BY DEF BuilderOK, BuilderType

LEMMA AddSwitchBreakGrows ==
  ASSUME NEW b, BuilderOK(b), b.switches # <<>>
  PROVE  Grows(b, AddSwitchBreak(b))
<1> DEFINE c == CloseTo(b, TopOf(b.switches))
<1>1. Grows(b, c)
  BY StacksType, TopPopType, CloseToGrows
<1>2. Grows(c, CreateAndSetNoPredecessorBlock(c, "post-switch-break"))
  BY <1>1, GrownOK, NoPredecessorGrows DEF BlockNames
<1> QED
  BY <1>1, <1>2, GrowsTransitive DEF AddSwitchBreak

LEMMA NextSwitchSegmentGrows ==
  ASSUME NEW b, BuilderOK(b), NEW segments \in Seq(1..Len(b.blocks)),
         NEW s \in 1..Len(segments)
  PROVE  Grows(b, NextSwitchSegment(b, segments, s))
<1> DEFINE c == IF s > 1 THEN CloseTo(b, segments[s]) ELSE b
<1>1. segments[s] \in 1..Len(b.blocks)
  OBVIOUS
<1>2. Grows(b, c) /\ Len(c.blocks) = Len(b.blocks)
  BY <1>1, CloseToGrows, GrowsReflexive
<1>3. Grows(c, SetInsertPoint(c, segments[s]))
  BY <1>1, <1>2, GrownOK, SetInsertGrows
<1> QED
  BY <1>2, <1>3, GrowsTransitive DEF NextSwitchSegment

LEMMA EndSwitchBuilds ==
  ASSUME NEW b, BuilderOK(b), b.switches # <<>>
  PROVE  /\ Builds(b, EndSwitch(b))
         /\ EndSwitch(b).loops = b.loops /\ EndSwitch(b).switches = Pop(b.switches)
<1> DEFINE closed == IF Terminated(b) THEN b ELSE AddSwitchBreak(b)
           top    == TopOf(b.switches)
           c      == SetInsertPoint(closed, top)
           d      == [c EXCEPT !.switches = Pop(@)]
           n      == Len(c.blocks)
<1>1. Grows(b, closed)
  BY AddSwitchBreakGrows, GrowsReflexive
<1>2. top \in 1..Len(b.blocks)
  BY StacksType, TopPopType
<1>3. Grows(b, c)
  BY <1>1, <1>2, GrownOK, SetInsertGrows, GrowsTransitive
<1>4. EndSwitch(b) = [SetInsertPoint(closed, TopOf(b.switches)) EXCEPT !.switches = Pop(@)]
  BY DEF EndSwitch
<1>5. EndSwitch(b) = d
  BY <1>4
<1>6. c \in BuilderType(n) /\ n \in Nat /\ c.switches # <<>>
  BY <1>3, LenNat DEF Grows, Builds, SameStacks, BuilderOK
<1>7. Pop(c.switches) \in Seq(1..n)
  BY <1>6, TopPopType DEF BuilderType
<1> HIDE DEF c, n
<1>8. /\ d \in BuilderType(n) /\ d.blocks = c.blocks
      /\ d.loops = c.loops /\ d.switches = Pop(c.switches)
  BY <1>6, <1>7 DEF BuilderType
<1> HIDE DEF d
<1>9. Builds(b, d) /\ d.loops = b.loops /\ d.switches = Pop(b.switches)
  BY <1>3, <1>8 DEF Grows, Builds, SameStacks, BuilderOK, n
<1> QED
  BY <1>5, <1>9

(* The blocks a switch of n segments makes. *)
LEMMA SegmentBlocksType ==
  ASSUME NEW b, Len(b.blocks) \in Nat, NEW n \in Nat
  PROVE  /\ SegmentBlocks(b, n) \in Seq(1..(Len(b.blocks) + n))
         /\ Len(SegmentBlocks(b, n)) = n
         /\ \A s \in 1..n : SegmentBlocks(b, n)[s] \in 1..(Len(b.blocks) + n)
BY DEF SegmentBlocks

LEMMA MakeSwitchBuilds ==
  ASSUME NEW b, BuilderOK(b), NEW n \in Nat \ {0},
         NEW values \in Seq(0..(n - 1)), NEW default \in -1..(n - 1), NEW at \in Nat
  PROVE  LET c == MakeSwitch(b, n, values, default, at)
         IN  /\ Builds(b, c)
             /\ Len(c.blocks) = Len(b.blocks) + n + 1
             /\ c.loops = b.loops
             /\ c.switches = Append(b.switches, Len(b.blocks) + n + 1)
<1> DEFINE k     == Len(b.blocks)
           m     == k + n + 1
           fn    == Parent(b)
           seg   == SegmentBlocks(b, n)
           more  == [s \in 1..n |-> NewBlock("switch-segment", fn)]
           last  == NewBlock("switch-merge", fn)
           blks  == b.blocks \o more \o <<last>>
           lay   == b.layout \o seg \o <<m>>
           made  == [b EXCEPT !.blocks = blks, !.layout = lay]
           cases == [i \in DOMAIN values |-> seg[values[i] + 1]]
           dflt  == IF default >= 0 THEN seg[default + 1] ELSE m
           t     == Term("switch", Append(cases, dflt), at)
           split == IF Terminated(made) THEN made ELSE Terminate(made, t)
           c     == [split EXCEPT !.switches = Append(@, m)]
<1>1. b \in BuilderType(k) /\ k \in Nat /\ m \in Nat /\ k <= m /\ m \in 1..m
  BY LenNat DEF BuilderOK
<1>2. b \in BuilderType(m)
  BY <1>1, BuilderMonotone
<1>3. /\ seg \in Seq(1..m) /\ Len(seg) = n
      /\ \A s \in 1..n : seg[s] \in 1..m
  <2>1. Len(b.blocks) + n <= m /\ Len(b.blocks) + n \in Nat
    BY <1>1
  <2>2. 1..(Len(b.blocks) + n) \subseteq 1..m
    BY <1>1, <2>1
  <2>3. /\ seg \in Seq(1..(Len(b.blocks) + n)) /\ Len(seg) = n
        /\ \A s \in 1..n : seg[s] \in 1..(Len(b.blocks) + n)
    BY <1>1, SegmentBlocksType
  <2> HIDE DEF seg, m
  <2> QED
    BY <2>2, <2>3, SeqSubset
<1>4. blks \in Seq(BlockType(m)) /\ Len(blks) = m
  <2>1. fn \in FunctionNames
    BY InsertType
  <2>2. \A nm \in BlockNames : NewBlock(nm, fn) \in BlockType(m)
    BY <1>1, <2>1 DEF NewBlock, NoTerm, Term, BlockType, TermType, TermKinds
  <2>3. last \in BlockType(m) /\ more \in Seq(BlockType(m)) /\ Len(more) = n
    BY <2>2 DEF BlockNames
  <2>4. b.blocks \in Seq(BlockType(m))
    BY <1>2 DEF BuilderType
  <2> HIDE DEF last, more, m
  <2> DEFINE old == b.blocks
  <2>a. old \in Seq(BlockType(m)) /\ Len(old) = k
    BY <2>4
  <2> HIDE DEF old
  <2>b. old \o more \in Seq(BlockType(m)) /\ Len(old \o more) = Len(old) + Len(more)
    BY <2>3, <2>a, ConcatProperties
  <2>5. /\ b.blocks \o more \in Seq(BlockType(m))
        /\ Len(b.blocks \o more) = k + n
    BY <2>3, <2>a, <2>b DEF old
  <2>6. <<last>> \in Seq(BlockType(m)) /\ Len(<<last>>) = 1
    BY <2>3
  <2>7. /\ blks \in Seq(BlockType(m))
        /\ Len(blks) = Len(b.blocks \o more) + Len(<<last>>)
    BY <2>5, <2>6, ConcatProperties
  <2> QED
    BY <1>1, <2>5, <2>6, <2>7 DEF m
<1>5. lay \in Seq(1..m)
  <2>1. b.layout \in Seq(1..m)
    BY <1>2 DEF BuilderType
  <2> HIDE DEF m, seg
  <2> QED
    BY <1>1, <1>3, <2>1
<1>6. t \in TermType(m)
  <2> HIDE DEF m, seg
  <2>1. cases \in Seq(1..m)
    <3>1. \A i \in DOMAIN values : seg[values[i] + 1] \in 1..m
      BY <1>3
    <3>2. DOMAIN values = 1..Len(values) /\ Len(values) \in Nat
      OBVIOUS
    <3> QED
      BY <3>1, <3>2
  <2>2. dflt \in 1..m
    BY <1>1, <1>3
  <2> HIDE DEF cases, dflt
  <2>3. Append(cases, dflt) \in Seq(1..m)
    BY <2>1, <2>2
  <2> QED
    BY <2>3 DEF Term, TermType, TermKinds
<1>7. made = [b EXCEPT !.blocks = blks, !.layout = lay]
  OBVIOUS
<1>8. MakeSwitch(b, n, values, default, at) = c
  BY DEF MakeSwitch
<1>9. split = IF Terminated(made) THEN made ELSE Terminate(made, t)
  OBVIOUS
<1>10. c = [split EXCEPT !.switches = Append(split.switches, m)]
  OBVIOUS
<1> HIDE DEF made, blks, lay, t, split, m, seg, c
<1>11. /\ made \in BuilderType(m) /\ made.blocks = blks /\ SameStacks(b, made)
  BY <1>2, <1>4, <1>5, <1>7 DEF BuilderType, SameStacks
<1>12. BuilderOK(made) /\ Len(made.blocks) = m
  BY <1>4, <1>11 DEF BuilderOK
<1>13. Grows(made, split) /\ Len(split.blocks) = m
  BY <1>6, <1>9, <1>12, GrowsReflexive, TerminateGrows
<1>14. split \in BuilderType(m) /\ SameStacks(b, split)
  BY <1>11, <1>13 DEF Grows, Builds, BuilderOK, SameStacks
<1>15. Append(split.switches, m) \in Seq(1..m)
  BY <1>1, <1>14 DEF BuilderType
<1>16. /\ c \in BuilderType(m) /\ c.blocks = split.blocks
       /\ c.loops = split.loops /\ c.switches = Append(split.switches, m)
  BY <1>10, <1>14, <1>15 DEF BuilderType
<1>17. /\ Builds(b, c) /\ Len(c.blocks) = m
       /\ c.loops = b.loops /\ c.switches = Append(b.switches, m)
  BY <1>1, <1>13, <1>14, <1>16 DEF Builds, BuilderOK, SameStacks
<1> QED
  BY <1>8, <1>17 DEF m

-----------------------------------------------------------------------------
(* Loops. *)

LEMMA MakeNewLoopBuilds ==
  ASSUME NEW b, BuilderOK(b)
  PROVE  LET c == MakeNewLoop(b)
         IN  /\ Builds(b, c)
             /\ c.loops = Append(b.loops, [header |-> Next1(b), exit |-> Next1(b) + 1])
             /\ c.switches = b.switches
<1> DEFINE fn     == Parent(b)
           header == Next1(b)
           entry  == [header |-> header, exit |-> header + 1]
           top    == CreateIn(b, "loop-header", fn)
           made   == Create(top, "loop-merge", fn)
           pushed == [made EXCEPT !.loops = Append(@, entry)]
           m      == Len(made.blocks)
<1>1. Grows(b, top) /\ Len(top.blocks) = Next1(b) /\ fn \in FunctionNames
  BY InsertType, CreateInGrows DEF BlockNames
<1>2. Grows(top, made) /\ m = Next1(top)
  BY <1>1, GrownOK, CreateGrows DEF BlockNames
<1>3. header \in 1..m /\ header + 1 \in 1..m /\ m \in Nat
  BY <1>1, <1>2, LenNat DEF Next1
<1>4. made \in BuilderType(m) /\ SameStacks(b, made) /\ Len(b.blocks) <= m
  BY <1>1, <1>2, GrowsTransitive DEF Grows, Builds, BuilderOK
<1>5. Append(made.loops, entry) \in Seq(LoopType(m))
  <2>1. entry \in LoopType(m)
    BY <1>3 DEF LoopType
  <2> HIDE DEF entry
  <2> QED
    BY <1>4, <2>1 DEF BuilderType
<1>6. pushed = [made EXCEPT !.loops = Append(made.loops, entry)]
  OBVIOUS
<1>7. MakeNewLoop(b) = SetInsertPoint(CloseTo(pushed, header), header)
  BY DEF MakeNewLoop
<1> HIDE DEF made, m, entry, pushed, header
<1>8. /\ pushed \in BuilderType(m) /\ pushed.blocks = made.blocks
      /\ pushed.loops = Append(made.loops, entry) /\ pushed.switches = made.switches
  BY <1>4, <1>5, <1>6 DEF BuilderType
<1>9. BuilderOK(pushed) /\ Len(pushed.blocks) = m
  BY <1>8 DEF BuilderOK, m
<1>10. /\ Grows(pushed, CloseTo(pushed, header))
       /\ Len(CloseTo(pushed, header).blocks) = m
  BY <1>3, <1>9, CloseToGrows
<1>11. Grows(CloseTo(pushed, header), MakeNewLoop(b))
  BY <1>3, <1>7, <1>10, GrownOK, SetInsertGrows
<1>12. Grows(pushed, MakeNewLoop(b))
  BY <1>10, <1>11, GrowsTransitive
<1> QED
  BY <1>3, <1>4, <1>8, <1>9, <1>12, LenNat DEF Grows, Builds, SameStacks, entry, header

LEMMA LoopTopType ==
  ASSUME NEW b, BuilderOK(b), b.loops # <<>>
  PROVE  TopOf(b.loops).header \in 1..Len(b.blocks) /\ TopOf(b.loops).exit \in 1..Len(b.blocks)
<1>1. TopOf(b.loops) \in LoopType(Len(b.blocks))
  BY StacksType, TopPopType
<1> QED
  BY <1>1 DEF LoopType

LEMMA MakeLoopBackEdgeGrows ==
  ASSUME NEW b, BuilderOK(b), b.loops # <<>>, NEW implicit \in BOOLEAN
  PROVE  Grows(b, MakeLoopBackEdge(b, implicit))
<1> DEFINE t == Br(TopOf(b.loops).header)
           r == Terminate(b, t)
<1>1. t \in TermType(Len(b.blocks))
  BY LenNat, LoopTopType, TermsType
<1>2. Grows(b, r)
  BY <1>1, TerminateGrows
<1>3. Grows(b, CreateAndSetNoPredecessorBlock(r, "post-loop-continue"))
  BY <1>2, GrownOK, NoPredecessorGrows, GrowsTransitive DEF BlockNames
<1> QED
  BY <1>2, <1>3, GrowsReflexive DEF MakeLoopBackEdge

LEMMA MakeLoopExitGrows ==
  ASSUME NEW b, BuilderOK(b), b.loops # <<>>
  PROVE  Grows(b, MakeLoopExit(b))
<1> DEFINE t == Br(TopOf(b.loops).exit)
           r == Terminate(b, t)
<1>1. t \in TermType(Len(b.blocks))
  BY LenNat, LoopTopType, TermsType
<1>2. Grows(b, r)
  BY <1>1, TerminateGrows
<1>3. Grows(b, CreateAndSetNoPredecessorBlock(r, "post-loop-break"))
  BY <1>2, GrownOK, NoPredecessorGrows, GrowsTransitive DEF BlockNames
<1> QED
  BY <1>3, GrowsReflexive DEF MakeLoopExit

LEMMA CloseLoopBuilds ==
  ASSUME NEW b, BuilderOK(b), b.loops # <<>>
  PROVE  /\ Builds(b, CloseLoop(b))
         /\ CloseLoop(b).loops = Pop(b.loops) /\ CloseLoop(b).switches = b.switches
<1> DEFINE closed == IF Terminated(b) THEN b ELSE MakeLoopBackEdge(b, TRUE)
           exit   == TopOf(b.loops).exit
           pushed == PushBack(closed, exit)
           c      == SetInsertPoint(pushed, exit)
           d      == [c EXCEPT !.loops = Pop(@)]
           n      == Len(c.blocks)
<1>1. Grows(b, closed)
  BY MakeLoopBackEdgeGrows, GrowsReflexive
<1>2. exit \in 1..Len(closed.blocks)
  <2>1. exit \in 1..Len(b.blocks)
    BY LoopTopType
  <2>2. Len(closed.blocks) \in Nat /\ Len(b.blocks) \in Nat /\ Len(b.blocks) <= Len(closed.blocks)
    BY <1>1, GrownOK
  <2> HIDE DEF closed, exit
  <2> QED
    BY <2>1, <2>2
<1>3. Grows(closed, pushed) /\ pushed.blocks = closed.blocks
  BY <1>1, <1>2, GrownOK, PushBackGrows
<1>4. Grows(pushed, c)
  BY <1>2, <1>3, GrownOK, SetInsertGrows
<1>5. Grows(b, c) /\ closed.loops = b.loops
  BY <1>1, <1>3, <1>4, GrowsTransitive, GrownOK DEF SameStacks
<1>6. CloseLoop(b) = d
  BY <1>5 DEF CloseLoop
<1>7. c \in BuilderType(n) /\ n \in Nat /\ c.loops # <<>>
  <2> HIDE DEF c
  <2> QED
    BY <1>5, LenNat DEF Grows, Builds, SameStacks, BuilderOK
<1>8. Pop(c.loops) \in Seq(LoopType(n))
  BY <1>7, TopPopType DEF BuilderType
<1> HIDE DEF c, n
<1>9. /\ d \in BuilderType(n) /\ d.blocks = c.blocks
      /\ d.loops = Pop(c.loops) /\ d.switches = c.switches
  BY <1>7, <1>8 DEF BuilderType
<1> HIDE DEF d
<1>10. Builds(b, d) /\ d.loops = Pop(b.loops) /\ d.switches = b.switches
  BY <1>5, <1>9 DEF Grows, Builds, SameStacks, BuilderOK, n
<1> QED
  BY <1>6, <1>10

-----------------------------------------------------------------------------
(* What the builder's operations do to the blocks there are: which block   *)
(* each operation may change, and which it may leave without an end.       *)

Ids(b) == 1..Len(b.blocks)
Open(b, i) == b.blocks[i].term.kind = "none"
(* A block that has not ended, or has only been found to be unreachable. *)
Unsealed(b, i) == b.blocks[i].term.kind \in {"none", "unreachable"}
Fresh(b, c, i) == i \in Ids(c) /\ i \notin Ids(b)

(* From b to c only the blocks of T change, and of those and of the new    *)
(* blocks at most those of N are open.                                     *)
Touches(b, c, T, N) ==
  /\ BuilderOK(b) /\ Builds(b, c)
  /\ c.stageEpilogue = b.stageEpilogue /\ c.stageExit = b.stageExit
  /\ \A i \in Ids(b) : i \notin T => c.blocks[i] = b.blocks[i]
  /\ \A i \in Ids(c) : Open(c, i) => \/ i \in N
                                     \/ i \in Ids(b) /\ i \notin T /\ Open(b, i)

(* An operation that goes on in the same block, or ends it and goes on in  *)
(* a new one.                                                              *)
GoesOn(b, c) ==
  /\ Touches(b, c, {b.insert}, {c.insert})
  /\ c.insert = b.insert \/ Fresh(b, c, c.insert)
  /\ Unsealed(b, b.insert) => Unsealed(c, c.insert)

-----------------------------------------------------------------------------
LEMMA TouchedOK ==
  ASSUME NEW b, NEW c, NEW T, NEW N, Touches(b, c, T, N)
  PROVE  /\ BuilderOK(b) /\ BuilderOK(c) /\ Builds(b, c)
         /\ Len(b.blocks) \in Nat /\ Len(c.blocks) \in Nat
         /\ Len(b.blocks) <= Len(c.blocks)
         /\ \A i \in Ids(b) : i \in Ids(c)
         /\ c.stageEpilogue = b.stageEpilogue /\ c.stageExit = b.stageExit
         /\ \A i \in Ids(b) : i \notin T => c.blocks[i] = b.blocks[i]
         /\ \A i \in Ids(c) : Open(c, i) => \/ i \in N
                                            \/ i \in Ids(b) /\ i \notin T /\ Open(b, i)
BY DEF Touches, Builds, Ids

LEMMA BuildsReflexive ==
  ASSUME NEW b, BuilderOK(b)
  PROVE  Builds(b, b)
BY GrowsReflexive DEF Grows

LEMMA BuildsTransitive ==
  ASSUME NEW b, NEW c, NEW d, Builds(b, c), Builds(c, d)
  PROVE  Builds(b, d)
BY DEF Builds

LEMMA TouchesNothing ==
  ASSUME NEW b, BuilderOK(b), NEW N
  PROVE  Touches(b, b, {}, N)
BY BuildsReflexive DEF Touches

LEMMA TouchesThen ==
  ASSUME NEW b, NEW c, NEW d, NEW T, NEW N, NEW T1, NEW N1, NEW T2, NEW N2,
         Touches(b, c, T1, N1), Touches(c, d, T2, N2),
         T1 \subseteq T, \A i \in T2 : i \in Ids(b) => i \in T,
         T \subseteq T1 \cup T2, \A i \in N1 : i \in T2 \/ i \in N, N2 \subseteq N
  PROVE  Touches(b, d, T, N)
<1>1. BuilderOK(b) /\ Builds(b, d)
  BY TouchedOK, BuildsTransitive
<1>2. d.stageEpilogue = b.stageEpilogue /\ d.stageExit = b.stageExit
  BY TouchedOK
<1>3. ASSUME NEW i \in Ids(b), i \notin T
      PROVE  d.blocks[i] = b.blocks[i]
  <2>1. c.blocks[i] = b.blocks[i] /\ i \in Ids(c)
    BY <1>3, TouchedOK
  <2>2. d.blocks[i] = c.blocks[i]
    BY <1>3, <2>1, TouchedOK
  <2> QED
    BY <2>1, <2>2
<1>4. ASSUME NEW i \in Ids(d), Open(d, i), i \notin N
      PROVE  i \in Ids(b) /\ i \notin T /\ Open(b, i)
  <2>1. i \in Ids(c) /\ i \notin T2 /\ Open(c, i)
    BY <1>4, TouchedOK
  <2>2. i \notin N1
    BY <1>4, <2>1
  <2> QED
    BY <2>1, <2>2, TouchedOK
<1> QED
  BY <1>1, <1>2, <1>3, <1>4 DEF Touches

-----------------------------------------------------------------------------
(* The primitives. *)

LEMMA SetInsertTouches ==
  ASSUME NEW b, BuilderOK(b), NEW blk \in Ids(b)
  PROVE  LET c == SetInsertPoint(b, blk)
         IN  /\ Touches(b, c, {}, {}) /\ c.insert = blk
             /\ c.blocks = b.blocks /\ c.layout = b.layout
             /\ c.loops = b.loops /\ c.switches = b.switches
<1> DEFINE c == SetInsertPoint(b, blk)
<1>1. Grows(b, c) /\ c.blocks = b.blocks
  BY SetInsertGrows DEF Ids
<1>2. /\ c.insert = blk /\ c.layout = b.layout
      /\ c.loops = b.loops /\ c.switches = b.switches
      /\ c.stageEpilogue = b.stageEpilogue /\ c.stageExit = b.stageExit
  BY DEF SetInsertPoint, BuilderOK, BuilderType
<1> HIDE DEF c
<1>3. Touches(b, c, {}, {})
  BY <1>1, <1>2 DEF Touches, Grows, Open, Ids
<1> QED
  BY <1>1, <1>2, <1>3 DEF c

LEMMA PushBackTouches ==
  ASSUME NEW b, BuilderOK(b), NEW blk \in Ids(b)
  PROVE  LET c == PushBack(b, blk)
         IN  /\ Touches(b, c, {}, {}) /\ c.insert = b.insert
             /\ c.blocks = b.blocks /\ c.layout = Append(b.layout, blk)
             /\ c.loops = b.loops /\ c.switches = b.switches
<1> DEFINE c == PushBack(b, blk)
<1>1. Grows(b, c) /\ c.blocks = b.blocks
  BY PushBackGrows DEF Ids
<1>2. /\ c.insert = b.insert /\ c.layout = Append(b.layout, blk)
      /\ c.loops = b.loops /\ c.switches = b.switches
      /\ c.stageEpilogue = b.stageEpilogue /\ c.stageExit = b.stageExit
  BY DEF PushBack, BuilderOK, BuilderType
<1> HIDE DEF c
<1>3. Touches(b, c, {}, {})
  BY <1>1, <1>2 DEF Touches, Grows, Open, Ids
<1> QED
  BY <1>1, <1>2, <1>3 DEF c

LEMMA CreateTouches ==
  ASSUME NEW b, BuilderOK(b), NEW name \in BlockNames, NEW fn \in FunctionNames
  PROVE  LET c == Create(b, name, fn)
             n == Next1(b)
         IN  /\ Touches(b, c, {}, {n}) /\ c.insert = b.insert /\ c.layout = b.layout
             /\ c.loops = b.loops /\ c.switches = b.switches
             /\ Len(c.blocks) = n /\ c.blocks[n] = NewBlock(name, fn) /\ Open(c, n)
             /\ n \in Nat /\ n \notin Ids(b) /\ n \in Ids(c)
<1> DEFINE c == Create(b, name, fn)
           n == Next1(b)
<1>1. Grows(b, c) /\ Len(c.blocks) = n /\ n \in Nat /\ n = Len(b.blocks) + 1
  BY CreateGrows, LenNat DEF Next1
<1>2. /\ c.insert = b.insert /\ c.layout = b.layout
      /\ c.loops = b.loops /\ c.switches = b.switches
      /\ c.stageEpilogue = b.stageEpilogue /\ c.stageExit = b.stageExit
      /\ c.blocks = Append(b.blocks, NewBlock(name, fn))
  BY DEF Create, BuilderOK, BuilderType
<1>3. Len(b.blocks) \in Nat /\ \E S : b.blocks \in Seq(S)
  BY LenNat DEF BuilderOK, BuilderType
<1> HIDE DEF c, n
<1>4. /\ c.blocks[n] = NewBlock(name, fn)
      /\ \A i \in Ids(b) : c.blocks[i] = b.blocks[i]
  BY <1>1, <1>2, <1>3 DEF Ids
<1>5. Open(c, n) /\ n \notin Ids(b) /\ n \in Ids(c)
  BY <1>1, <1>3, <1>4 DEF Open, NewBlock, NoTerm, Term, Ids
<1>6. \A i \in Ids(c) : i \in Ids(b) \/ i = n
  BY <1>1, <1>3 DEF Ids
<1>7. Touches(b, c, {}, {n})
  BY <1>1, <1>2, <1>4, <1>6 DEF Touches, Grows, Open
<1> QED
  BY <1>1, <1>2, <1>4, <1>5, <1>7 DEF c, n

LEMMA CreateInTouches ==
  ASSUME NEW b, BuilderOK(b), NEW name \in BlockNames, NEW fn \in FunctionNames
  PROVE  LET c == CreateIn(b, name, fn)
             n == Next1(b)
         IN  /\ Touches(b, c, {}, {n}) /\ c.insert = b.insert
             /\ c.layout = Append(b.layout, n)
             /\ c.loops = b.loops /\ c.switches = b.switches
             /\ Len(c.blocks) = n /\ c.blocks[n] = NewBlock(name, fn) /\ Open(c, n)
             /\ n \in Nat /\ n \notin Ids(b) /\ n \in Ids(c)
<1> DEFINE n == Next1(b)
           c == Create(b, name, fn)
           d == PushBack(c, n)
<1>1. /\ Touches(b, c, {}, {n}) /\ c.insert = b.insert /\ c.layout = b.layout
      /\ c.loops = b.loops /\ c.switches = b.switches
      /\ Len(c.blocks) = n /\ c.blocks[n] = NewBlock(name, fn) /\ Open(c, n)
      /\ n \in Nat /\ n \notin Ids(b) /\ n \in Ids(c)
  BY CreateTouches
<1>2. CreateIn(b, name, fn) = d
  BY DEF CreateIn
<1> HIDE DEF c, n
<1>3. /\ Touches(c, d, {}, {}) /\ d.insert = c.insert
      /\ d.blocks = c.blocks /\ d.layout = Append(c.layout, n)
      /\ d.loops = c.loops /\ d.switches = c.switches
  BY <1>1, TouchedOK, PushBackTouches
<1> HIDE DEF d
<1>4. Touches(b, d, {}, {n})
  BY <1>1, <1>3, TouchesThen
<1>5. Open(d, n) /\ n \in Ids(d)
  BY <1>1, <1>3 DEF Open, Ids
<1> QED
  BY <1>1, <1>2, <1>3, <1>4, <1>5 DEF n

LEMMA TerminateTouches ==
  ASSUME NEW b, BuilderOK(b), NEW t \in TermType(Len(b.blocks)), t.kind # "none"
  PROVE  LET c == Terminate(b, t)
         IN  /\ Touches(b, c, {b.insert}, {}) /\ c.insert = b.insert
             /\ Len(c.blocks) = Len(b.blocks) /\ c.layout = b.layout
             /\ c.loops = b.loops /\ c.switches = b.switches
             /\ ~ Open(c, b.insert)
             /\ c.blocks[b.insert].fn = b.blocks[b.insert].fn
             /\ Open(b, b.insert) => c.blocks[b.insert].term = t
<1> DEFINE u == IF Terminated(b) THEN Double ELSE t
           e == [b.blocks[b.insert] EXCEPT !.term = u]
           c == Terminate(b, t)
<1>1. Grows(b, c) /\ Len(c.blocks) = Len(b.blocks)
  BY TerminateGrows
<1>2. c = [b EXCEPT !.blocks = [b.blocks EXCEPT ![b.insert] = e]]
  BY DEF Terminate
<1>3. u.kind # "none" /\ (Open(b, b.insert) => u = t)
  BY DEF Double, Term, Terminated, HasTerminator, Open
<1>4. b.insert \in Ids(b) /\ b.blocks \in Seq(BlockType(Len(b.blocks)))
  BY InsertType DEF Ids, BuilderOK, BuilderType
<1>a. b.blocks[b.insert] \in BlockType(Len(b.blocks))
  BY <1>4 DEF Ids
<1>5. e.term = u /\ e.fn = b.blocks[b.insert].fn
  <2> HIDE DEF u
  <2> QED
    BY <1>a DEF BlockType
<1> HIDE DEF u, e
<1>6. /\ c.insert = b.insert /\ c.layout = b.layout
      /\ c.loops = b.loops /\ c.switches = b.switches
      /\ c.stageEpilogue = b.stageEpilogue /\ c.stageExit = b.stageExit
      /\ c.blocks = [b.blocks EXCEPT ![b.insert] = e]
  BY <1>2 DEF BuilderOK, BuilderType
<1> HIDE DEF c
<1>7. /\ c.blocks[b.insert] = e
      /\ \A i \in Ids(b) : i # b.insert => c.blocks[i] = b.blocks[i]
  BY <1>4, <1>6 DEF Ids
<1>8. ~ Open(c, b.insert)
  BY <1>3, <1>5, <1>7 DEF Open
<1>9. Touches(b, c, {b.insert}, {})
  <2>1. Ids(c) = Ids(b) /\ Builds(b, c)
    BY <1>1 DEF Ids, Grows
  <2>2. \A i \in Ids(c) : Open(c, i) => i \in Ids(b) /\ i \notin {b.insert} /\ Open(b, i)
    BY <1>7, <1>8, <2>1 DEF Open
  <2> QED
    BY <1>6, <1>7, <2>1, <2>2 DEF Touches
<1> QED
  BY <1>1, <1>3, <1>5, <1>6, <1>7, <1>8, <1>9 DEF c

LEMMA EmitTouches ==
  ASSUME NEW b, BuilderOK(b), NEW e \in EventType
  PROVE  LET c == Emit(b, e)
         IN  /\ Touches(b, c, {b.insert}, {b.insert}) /\ c.insert = b.insert
             /\ Len(c.blocks) = Len(b.blocks) /\ c.layout = b.layout
             /\ c.loops = b.loops /\ c.switches = b.switches
             /\ c.blocks[b.insert].term = b.blocks[b.insert].term
             /\ c.blocks[b.insert].fn = b.blocks[b.insert].fn
<1> DEFINE f == [b.blocks[b.insert] EXCEPT !.code = Append(@, e)]
           c == Emit(b, e)
<1>1. Grows(b, c) /\ Len(c.blocks) = Len(b.blocks)
  BY EmitGrows
<1>2. c = [b EXCEPT !.blocks = [b.blocks EXCEPT ![b.insert] = f]]
  BY DEF Emit
<1>4. b.insert \in Ids(b) /\ b.blocks \in Seq(BlockType(Len(b.blocks)))
  BY InsertType DEF Ids, BuilderOK, BuilderType
<1>a. b.blocks[b.insert] \in BlockType(Len(b.blocks))
  BY <1>4 DEF Ids
<1>5. f.term = b.blocks[b.insert].term /\ f.fn = b.blocks[b.insert].fn
  BY <1>a DEF BlockType
<1> HIDE DEF f
<1>6. /\ c.insert = b.insert /\ c.layout = b.layout
      /\ c.loops = b.loops /\ c.switches = b.switches
      /\ c.stageEpilogue = b.stageEpilogue /\ c.stageExit = b.stageExit
      /\ c.blocks = [b.blocks EXCEPT ![b.insert] = f]
  BY <1>2 DEF BuilderOK, BuilderType
<1> HIDE DEF c
<1>7. /\ c.blocks[b.insert] = f
      /\ \A i \in Ids(b) : i # b.insert => c.blocks[i] = b.blocks[i]
  BY <1>4, <1>6 DEF Ids
<1>9. Touches(b, c, {b.insert}, {b.insert})
  <2>1. Ids(c) = Ids(b) /\ Builds(b, c)
    BY <1>1 DEF Ids, Grows
  <2>2. \A i \in Ids(c) : Open(c, i) => i \in {b.insert}
                                        \/ (i \in Ids(b) /\ i \notin {b.insert} /\ Open(b, i))
    BY <1>7, <2>1 DEF Open
  <2> QED
    BY <1>6, <1>7, <2>1, <2>2 DEF Touches
<1> QED
  BY <1>1, <1>5, <1>6, <1>7, <1>9 DEF c

-----------------------------------------------------------------------------
(* Operations that go on. *)

LEMMA GoesOnReflexive ==
  ASSUME NEW b, BuilderOK(b)
  PROVE  GoesOn(b, b)
BY BuildsReflexive DEF GoesOn, Touches

LEMMA GoesOnTransitive ==
  ASSUME NEW b, NEW c, NEW d, GoesOn(b, c), GoesOn(c, d)
  PROVE  GoesOn(b, d)
<1>1. /\ Touches(b, c, {b.insert}, {c.insert}) /\ Touches(c, d, {c.insert}, {d.insert})
      /\ c.insert = b.insert \/ Fresh(b, c, c.insert)
      /\ d.insert = c.insert \/ Fresh(c, d, d.insert)
  BY DEF GoesOn
<1>2. /\ \A i \in Ids(b) : i \in Ids(c)
      /\ \A i \in Ids(c) : i \in Ids(d)
  BY <1>1, TouchedOK
<1>3. Touches(b, d, {b.insert}, {d.insert})
  <2>1. \A i \in {c.insert} : i \in Ids(b) => i \in {b.insert}
    BY <1>1 DEF Fresh
  <2>2. \A i \in {c.insert} : i \in {c.insert} \/ i \in {d.insert}
    OBVIOUS
  <2> QED
    BY <1>1, <2>1, <2>2, TouchesThen
<1>4. d.insert = b.insert \/ Fresh(b, d, d.insert)
  BY <1>1, <1>2 DEF Fresh
<1> QED
  BY <1>3, <1>4 DEF GoesOn

LEMMA EmitGoesOn ==
  ASSUME NEW b, BuilderOK(b), NEW e \in EventType
  PROVE  GoesOn(b, Emit(b, e)) /\ Emit(b, e).insert = b.insert
<1>1. /\ Touches(b, Emit(b, e), {b.insert}, {b.insert}) /\ Emit(b, e).insert = b.insert
      /\ Emit(b, e).blocks[b.insert].term = b.blocks[b.insert].term
  BY EmitTouches
<1> QED
  BY <1>1 DEF GoesOn, Unsealed

LEMMA UnreachableType == ASSUME NEW n PROVE Unreachable \in TermType(n) /\ Unreachable.kind = "unreachable"
BY DEF Unreachable, Term, TermType, TermKinds

LEMMA NoPredecessorTouches ==
  ASSUME NEW b, BuilderOK(b), NEW name \in BlockNames
  PROVE  LET c == CreateAndSetNoPredecessorBlock(b, name)
         IN  /\ Touches(b, c, {}, {}) /\ Fresh(b, c, c.insert)
             /\ Unsealed(c, c.insert) /\ c.loops = b.loops /\ c.switches = b.switches
<1> DEFINE n == Next1(b)
           c == CreateIn(b, name, Parent(b))
           d == SetInsertPoint(c, n)
           e == Terminate(d, Unreachable)
<1>1. /\ Touches(b, c, {}, {n}) /\ c.loops = b.loops /\ c.switches = b.switches
      /\ c.blocks[n] = NewBlock(name, Parent(b)) /\ Open(c, n)
      /\ n \in Nat /\ n \notin Ids(b) /\ n \in Ids(c)
  BY InsertType, CreateInTouches
<1>2. CreateAndSetNoPredecessorBlock(b, name) = e
  BY DEF CreateAndSetNoPredecessorBlock
<1> HIDE DEF c, n
<1>3. /\ Touches(c, d, {}, {}) /\ d.insert = n /\ d.blocks = c.blocks
      /\ d.loops = c.loops /\ d.switches = c.switches
  BY <1>1, TouchedOK, SetInsertTouches
<1> HIDE DEF d
<1>4. BuilderOK(d) /\ Open(d, n)
  BY <1>1, <1>3, TouchedOK DEF Open
<1>5. /\ Touches(d, e, {n}, {}) /\ e.insert = n /\ Len(e.blocks) = Len(d.blocks)
      /\ e.loops = d.loops /\ e.switches = d.switches
      /\ e.blocks[n].term = Unreachable
  BY <1>3, <1>4, TerminateTouches, UnreachableType
<1> HIDE DEF e
<1>6. Touches(b, d, {}, {n})
  BY <1>1, <1>3, TouchesThen
<1>7. Touches(b, e, {}, {})
  BY <1>1, <1>5, <1>6, TouchesThen
<1>8. Unsealed(e, n) /\ Fresh(b, e, n)
  BY <1>1, <1>3, <1>5, UnreachableType DEF Unsealed, Fresh, Ids
<1> QED
  BY <1>1, <1>2, <1>3, <1>5, <1>7, <1>8

(* The block is ended, and what follows goes to a new one. *)
LEMMA EndedGoesOn ==
  ASSUME NEW b, BuilderOK(b), NEW c, Touches(b, c, {b.insert}, {}),
         NEW name \in BlockNames
  PROVE  LET d == CreateAndSetNoPredecessorBlock(c, name)
         IN  GoesOn(b, d) /\ Fresh(b, d, d.insert)
<1> DEFINE d == CreateAndSetNoPredecessorBlock(c, name)
<1>1. /\ Touches(c, d, {}, {}) /\ Fresh(c, d, d.insert) /\ Unsealed(d, d.insert)
  BY TouchedOK, NoPredecessorTouches
<1> HIDE DEF d
<1>2. Touches(b, d, {b.insert}, {d.insert})
  BY <1>1, TouchesThen
<1>3. Fresh(b, d, d.insert)
  BY <1>1, TouchedOK DEF Fresh
<1> QED
  BY <1>1, <1>2, <1>3 DEF GoesOn, d

LEMMA BrType ==
  ASSUME NEW n \in Nat, NEW i \in 1..n
  PROVE  Br(i) \in TermType(n) /\ Br(i).kind = "br"
BY TermsType DEF Br, Term

LEMMA RetType ==
  ASSUME NEW n \in Nat
  PROVE  Ret \in TermType(n) /\ Ret.kind = "ret"
BY TermsType DEF Ret, Term

LEMMA CloseToTouches ==
  ASSUME NEW b, BuilderOK(b), NEW blk \in Ids(b)
  PROVE  LET c == CloseTo(b, blk)
         IN  /\ Touches(b, c, {b.insert}, {}) /\ c.insert = b.insert
             /\ Len(c.blocks) = Len(b.blocks) /\ c.layout = b.layout
             /\ c.loops = b.loops /\ c.switches = b.switches
             /\ ~ Open(c, b.insert)
<1>1. Br(blk) \in TermType(Len(b.blocks)) /\ Br(blk).kind = "br"
  BY LenNat, BrType DEF Ids
<1>2. CASE Terminated(b)
  <2>1. CloseTo(b, blk) = b /\ ~ Open(b, b.insert)
    BY <1>2 DEF CloseTo, Terminated, HasTerminator, Open
  <2>2. Touches(b, b, {b.insert}, {})
    BY <2>1, BuildsReflexive DEF Touches
  <2> QED
    BY <2>1, <2>2
<1>3. CASE ~ Terminated(b)
  <2>1. CloseTo(b, blk) = Terminate(b, Br(blk))
    BY <1>3 DEF CloseTo
  <2> QED
    BY <1>1, <2>1, TerminateTouches
<1> QED
  BY <1>2, <1>3

LEMMA MakeReturnGoesOn ==
  ASSUME NEW b, BuilderOK(b), NEW isMain \in BOOLEAN
  PROVE  GoesOn(b, MakeReturn(b, FALSE, isMain))
<1> DEFINE t == IF isMain THEN Br(b.stageEpilogue) ELSE Ret
           r == Terminate(b, t)
<1>1. t \in TermType(Len(b.blocks)) /\ t.kind # "none"
  BY LenNat, StageBlocksType, BrType, RetType
<1> HIDE DEF t
<1>2. Touches(b, r, {b.insert}, {})
  BY <1>1, TerminateTouches
<1>3. GoesOn(b, CreateAndSetNoPredecessorBlock(r, "post-return"))
  BY <1>2, EndedGoesOn DEF BlockNames
<1> QED
  BY <1>3, GoesOnReflexive DEF MakeReturn, t

(* An implicit return only ends the block. *)
LEMMA MakeReturnTouches ==
  ASSUME NEW b, BuilderOK(b), NEW isMain \in BOOLEAN
  PROVE  LET c == MakeReturn(b, TRUE, isMain)
         IN  /\ Touches(b, c, {b.insert}, {}) /\ c.insert = b.insert
             /\ Len(c.blocks) = Len(b.blocks) /\ c.layout = b.layout
<1> DEFINE t == IF isMain THEN Br(b.stageEpilogue) ELSE Ret
<1>1. t \in TermType(Len(b.blocks)) /\ t.kind # "none"
  BY LenNat, StageBlocksType, BrType, RetType
<1>2. CASE Terminated(b)
  <2>1. ~ Open(b, b.insert)
    BY <1>2 DEF Terminated, HasTerminator, Open
  <2>2. Touches(b, b, {b.insert}, {})
    BY <2>1, BuildsReflexive DEF Touches
  <2> QED
    BY <1>2, <2>2 DEF MakeReturn
<1>3. CASE ~ Terminated(b)
  <2>1. MakeReturn(b, TRUE, isMain) = Terminate(b, t)
    BY <1>3 DEF MakeReturn
  <2> HIDE DEF t
  <2> QED
    BY <1>1, <2>1, TerminateTouches
<1> QED
  BY <1>2, <1>3

LEMMA MakeDiscardGoesOn ==
  ASSUME NEW b, BuilderOK(b), NEW isMain \in BOOLEAN, NEW at \in Nat
  PROVE  GoesOn(b, MakeDiscard(b, isMain, at))
<1> DEFINE d == Emit(b, Event("discard", at))
           e == Terminate(d, Br(b.stageExit))
<1>0. Event("discard", at) \in EventType
  BY EventsType DEF EventNames
<1>1. /\ Touches(b, d, {b.insert}, {b.insert}) /\ d.insert = b.insert
      /\ Len(d.blocks) = Len(b.blocks)
  BY <1>0, EmitTouches
<1>2. GoesOn(b, d)
  BY <1>0, EmitGoesOn
<1> HIDE DEF d
<1>3. Br(b.stageExit) \in TermType(Len(d.blocks)) /\ Br(b.stageExit).kind # "none"
  BY <1>1, LenNat, StageBlocksType, BrType
<1>4. Touches(d, e, {b.insert}, {})
  BY <1>1, <1>3, TouchedOK, TerminateTouches
<1> HIDE DEF e
<1>5. Touches(b, e, {b.insert}, {})
  BY <1>1, <1>4, TouchesThen
<1>6. GoesOn(b, CreateAndSetNoPredecessorBlock(e, "post-discard"))
  BY <1>5, EndedGoesOn DEF BlockNames
<1> QED
  BY <1>2, <1>6, GoesOnReflexive DEF MakeDiscard, d, e

LEMMA AddSwitchBreakGoesOn ==
  ASSUME NEW b, BuilderOK(b), b.switches # <<>>
  PROVE  LET c == AddSwitchBreak(b)
         IN  GoesOn(b, c) /\ Fresh(b, c, c.insert)
<1>1. TopOf(b.switches) \in Ids(b)
  BY StacksType, TopPopType DEF Ids
<1>2. Touches(b, CloseTo(b, TopOf(b.switches)), {b.insert}, {})
  BY <1>1, CloseToTouches
<1> QED
  BY <1>2, EndedGoesOn DEF AddSwitchBreak, BlockNames

LEMMA LoopEdgesGoOn ==
  ASSUME NEW b, BuilderOK(b), b.loops # <<>>
  PROVE  GoesOn(b, MakeLoopBackEdge(b, FALSE)) /\ GoesOn(b, MakeLoopExit(b))
<1> DEFINE back == Terminate(b, Br(TopOf(b.loops).header))
           exit == Terminate(b, Br(TopOf(b.loops).exit))
<1>1. /\ \A blk \in {TopOf(b.loops).header, TopOf(b.loops).exit} :
            Br(blk) \in TermType(Len(b.blocks)) /\ Br(blk).kind # "none"
  BY LenNat, LoopTopType, BrType
<1>2. Touches(b, back, {b.insert}, {}) /\ Touches(b, exit, {b.insert}, {})
  BY <1>1, TerminateTouches
<1>3. /\ GoesOn(b, CreateAndSetNoPredecessorBlock(back, "post-loop-continue"))
      /\ GoesOn(b, CreateAndSetNoPredecessorBlock(exit, "post-loop-break"))
  BY <1>2, EndedGoesOn DEF BlockNames
<1> QED
  BY <1>3, GoesOnReflexive DEF MakeLoopBackEdge, MakeLoopExit

LEMMA BackEdgeTouches ==
  ASSUME NEW b, BuilderOK(b), b.loops # <<>>
  PROVE  LET c == MakeLoopBackEdge(b, TRUE)
         IN  /\ Touches(b, c, {b.insert}, {}) /\ Len(c.blocks) = Len(b.blocks)
             /\ c.loops = b.loops /\ c.switches = b.switches /\ c.layout = b.layout
<1> DEFINE t == Br(TopOf(b.loops).header)
<1>1. t \in TermType(Len(b.blocks)) /\ t.kind # "none"
  BY LenNat, LoopTopType, BrType
<1>2. CASE Terminated(b)
  <2>1. ~ Open(b, b.insert)
    BY <1>2 DEF Terminated, HasTerminator, Open
  <2>2. Touches(b, b, {b.insert}, {})
    BY <2>1, BuildsReflexive DEF Touches
  <2> QED
    BY <1>2, <2>2 DEF MakeLoopBackEdge
<1>3. CASE ~ Terminated(b)
  <2>1. MakeLoopBackEdge(b, TRUE) = Terminate(b, t)
    BY <1>3 DEF MakeLoopBackEdge
  <2> HIDE DEF t
  <2> QED
    BY <1>1, <2>1, TerminateTouches
<1> QED
  BY <1>2, <1>3

-----------------------------------------------------------------------------
(* Ifs. *)

LEMMA TouchesMore ==
  ASSUME NEW b, NEW c, NEW T, NEW N, Touches(b, c, T, N), NEW i, ~ Open(c, i)
  PROVE  Touches(b, c, T \cup {i}, N)
BY DEF Touches

LEMMA IfBeginTouches ==
  ASSUME NEW b, BuilderOK(b)
  PROVE  LET c == IfBegin(b)
             n == Next1(b)
         IN  /\ Touches(b, c, {}, {n, n + 1}) /\ c.insert = n
             /\ Open(c, n) /\ Open(c, n + 1) /\ Len(c.blocks) = n + 1
             /\ n \in Nat /\ n = Len(b.blocks) + 1
             /\ c.loops = b.loops /\ c.switches = b.switches
<1> DEFINE n  == Next1(b)
           fn == Parent(b)
           t  == CreateIn(b, "then", fn)
           m  == Create(t, "ifmerge", fn)
           c  == SetInsertPoint(m, n)
<1>0. fn \in FunctionNames /\ n = Len(b.blocks) + 1 /\ Len(b.blocks) \in Nat
  BY InsertType, LenNat DEF Next1
<1>1. /\ Touches(b, t, {}, {n}) /\ t.loops = b.loops /\ t.switches = b.switches
      /\ Len(t.blocks) = n /\ Open(t, n) /\ n \in Ids(t) /\ n \in Nat
  BY <1>0, CreateInTouches DEF BlockNames
<1>2. IfBegin(b) = c
  BY DEF IfBegin
<1> HIDE DEF n, fn, t
<1>3. /\ Touches(t, m, {}, {n + 1}) /\ m.loops = t.loops /\ m.switches = t.switches
      /\ Len(m.blocks) = n + 1 /\ Open(m, n + 1)
  <2>1. Next1(t) = n + 1
    BY <1>1 DEF Next1
  <2>2. BuilderOK(t) /\ "ifmerge" \in BlockNames /\ fn \in FunctionNames
    BY <1>1, TouchedOK, InsertType DEF BlockNames, fn
  <2>3. LET k == Next1(t)
        IN  /\ Touches(t, m, {}, {k}) /\ m.loops = t.loops /\ m.switches = t.switches
            /\ Len(m.blocks) = k /\ Open(m, k)
    BY <2>2, CreateTouches
  <2> HIDE DEF m
  <2> QED
    BY <2>1, <2>3
<1> HIDE DEF m
<1>4. n \in Ids(m) /\ Open(m, n)
  <2>1. m.blocks[n] = t.blocks[n] /\ n \in Ids(m)
    BY <1>1, <1>3, TouchedOK
  <2> QED
    BY <1>1, <2>1 DEF Open
<1>5. /\ Touches(m, c, {}, {}) /\ c.insert = n /\ c.blocks = m.blocks
      /\ c.loops = m.loops /\ c.switches = m.switches
  BY <1>3, <1>4, TouchedOK, SetInsertTouches
<1> HIDE DEF c
<1>6. Touches(b, m, {}, {n, n + 1})
  BY <1>1, <1>3, TouchesThen
<1>7. Touches(b, c, {}, {n, n + 1})
  BY <1>5, <1>6, TouchesThen
<1>8. Open(c, n) /\ Open(c, n + 1) /\ Len(c.blocks) = n + 1
  BY <1>3, <1>4, <1>5 DEF Open
<1> QED
  BY <1>0, <1>1, <1>2, <1>3, <1>5, <1>7, <1>8 DEF n

LEMMA MakeBeginElseTouches ==
  ASSUME NEW b, BuilderOK(b), NEW if \in IfType(Len(b.blocks))
  PROVE  LET c == MakeBeginElse(b, if)
             n == Next1(b)
         IN  /\ Touches(b, c, {b.insert}, {n}) /\ c.insert = n
             /\ Open(c, n) /\ Len(c.blocks) = n /\ n \notin Ids(b) /\ n \in Ids(c)
             /\ c.loops = b.loops /\ c.switches = b.switches
<1> DEFINE n  == Next1(b)
           a  == CloseTo(b, if.merge)
           fn == b.blocks[if.header].fn
           e  == CreateIn(a, "else", fn)
           c  == SetInsertPoint(e, n)
<1>0. if.merge \in Ids(b) /\ fn \in FunctionNames
  BY BlockFunction DEF IfType, Ids
<1>1. /\ Touches(b, a, {b.insert}, {}) /\ Len(a.blocks) = Len(b.blocks)
      /\ a.loops = b.loops /\ a.switches = b.switches
  BY <1>0, CloseToTouches
<1>2. MakeBeginElse(b, if) = c
  BY DEF MakeBeginElse
<1> HIDE DEF a
<1>3. Next1(a) = n /\ Ids(a) = Ids(b)
  BY <1>1 DEF Next1, Ids
<1> HIDE DEF n, fn
<1>4. /\ Touches(a, e, {}, {n}) /\ e.loops = a.loops /\ e.switches = a.switches
      /\ Len(e.blocks) = n /\ Open(e, n) /\ n \notin Ids(b) /\ n \in Ids(e)
  <2>1. BuilderOK(a) /\ "else" \in BlockNames
    BY <1>1, TouchedOK DEF BlockNames
  <2>2. LET k == Next1(a)
        IN  /\ Touches(a, e, {}, {k}) /\ e.loops = a.loops /\ e.switches = a.switches
            /\ Len(e.blocks) = k /\ Open(e, k) /\ k \notin Ids(a) /\ k \in Ids(e)
    BY <1>0, <2>1, CreateInTouches
  <2> HIDE DEF e
  <2> QED
    BY <1>3, <2>2
<1> HIDE DEF e
<1>5. /\ Touches(e, c, {}, {}) /\ c.insert = n /\ c.blocks = e.blocks
      /\ c.loops = e.loops /\ c.switches = e.switches
  BY <1>4, TouchedOK, SetInsertTouches
<1> HIDE DEF c
<1>6. Touches(b, e, {b.insert}, {n})
  BY <1>1, <1>4, TouchesThen
<1>7. Touches(b, c, {b.insert}, {n})
  BY <1>5, <1>6, TouchesThen
<1>8. Open(c, n) /\ Len(c.blocks) = n /\ n \in Ids(c)
  BY <1>4, <1>5 DEF Open, Ids
<1> QED
  BY <1>1, <1>2, <1>4, <1>5, <1>7, <1>8 DEF n

LEMMA MakeEndIfTouches ==
  ASSUME NEW b, BuilderOK(b), NEW if \in IfType(Len(b.blocks)), NEW at \in Nat
  PROVE  LET c == MakeEndIf(b, if, at)
         IN  /\ Touches(b, c, {b.insert, if.header}, {}) /\ c.insert = if.merge
             /\ Len(c.blocks) = Len(b.blocks)
             /\ c.layout = Append(b.layout, if.merge)
             /\ ~ Open(b, if.header) /\ if.header # b.insert
                  => c.blocks[if.header] = b.blocks[if.header]
             /\ c.loops = b.loops /\ c.switches = b.switches
<1> DEFINE a      == CloseTo(b, if.merge)
           target == IF if.else # 0 THEN if.else ELSE if.merge
           t      == Term("cond", <<if.then, target>>, at)
           moved  == SetInsertPoint(a, if.header)
           d      == IF HasTerminator(a, if.header) THEN a ELSE Terminate(moved, t)
           p      == PushBack(d, if.merge)
           c      == SetInsertPoint(p, if.merge)
<1>0. /\ if.merge \in Ids(b) /\ if.header \in Ids(b)
      /\ if.then \in 1..Len(b.blocks) /\ target \in 1..Len(b.blocks)
  BY LenNat DEF IfType, Ids
<1>1. /\ Touches(b, a, {b.insert}, {}) /\ Len(a.blocks) = Len(b.blocks)
      /\ a.loops = b.loops /\ a.switches = b.switches /\ a.layout = b.layout
      /\ ~ Open(a, b.insert)
  BY <1>0, CloseToTouches
<1>2. MakeEndIf(b, if, at) = c
  BY DEF MakeEndIf
<1>3. t \in TermType(Len(b.blocks)) /\ t.kind # "none"
  BY <1>0, LenNat, TermsType DEF Term
<1> HIDE DEF a, t
<1>4. Ids(a) = Ids(b) /\ BuilderOK(a)
  BY <1>1, TouchedOK DEF Ids
<1>5. /\ Touches(b, d, {b.insert, if.header}, {}) /\ Len(d.blocks) = Len(b.blocks)
      /\ d.loops = b.loops /\ d.switches = b.switches /\ d.layout = b.layout
      /\ ~ Open(b, if.header) /\ if.header # b.insert
           => d.blocks[if.header] = b.blocks[if.header]
  <2>1. CASE HasTerminator(a, if.header)
    <3>1. ~ Open(a, if.header)
      BY <2>1 DEF HasTerminator, Open
    <3>2. Touches(b, a, {b.insert} \cup {if.header}, {})
      BY <1>1, <3>1, TouchesMore
    <3>3. {b.insert} \cup {if.header} = {b.insert, if.header}
      OBVIOUS
    <3>4. if.header # b.insert => a.blocks[if.header] = b.blocks[if.header]
      BY <1>0, <1>1, TouchedOK
    <3> QED
      BY <1>1, <2>1, <3>2, <3>3, <3>4
  <2>2. CASE ~ HasTerminator(a, if.header)
    <3>1. /\ Touches(a, moved, {}, {}) /\ moved.insert = if.header
          /\ moved.blocks = a.blocks /\ moved.layout = a.layout
          /\ moved.loops = a.loops /\ moved.switches = a.switches
      BY <1>0, <1>4, SetInsertTouches
    <3> DEFINE e == Terminate(moved, t)
    <3>2. d = e
      BY <2>2
    <3> HIDE DEF moved
    <3>3. /\ Touches(moved, e, {if.header}, {}) /\ Len(e.blocks) = Len(moved.blocks)
          /\ e.loops = moved.loops /\ e.switches = moved.switches
          /\ e.layout = moved.layout
      <4>1. BuilderOK(moved) /\ t \in TermType(Len(moved.blocks)) /\ t.kind # "none"
        BY <1>1, <1>3, <3>1, TouchedOK
      <4> QED
        BY <3>1, <4>1, TerminateTouches
    <3> HIDE DEF d, e
    <3>4. Touches(b, moved, {b.insert}, {})
      BY <1>1, <3>1, TouchesThen
    <3>5. Touches(b, e, {b.insert, if.header}, {})
      BY <3>3, <3>4, TouchesThen
    <3>6. if.header # b.insert => Open(b, if.header)
      <4>1. if.header # b.insert => a.blocks[if.header] = b.blocks[if.header]
        BY <1>0, <1>1, TouchedOK
      <4> QED
        BY <2>2, <4>1 DEF HasTerminator, Open
    <3> QED
      BY <1>1, <3>1, <3>2, <3>3, <3>5, <3>6
  <2> QED
    BY <2>1, <2>2
<1> HIDE DEF d
<1>6. Ids(d) = Ids(b) /\ BuilderOK(d)
  BY <1>5, TouchedOK DEF Ids
<1>7. /\ Touches(d, p, {}, {}) /\ p.blocks = d.blocks
      /\ p.layout = Append(d.layout, if.merge)
      /\ p.loops = d.loops /\ p.switches = d.switches
  BY <1>0, <1>6, PushBackTouches
<1> HIDE DEF p
<1>8. /\ Touches(p, c, {}, {}) /\ c.insert = if.merge /\ c.blocks = p.blocks
      /\ c.layout = p.layout /\ c.loops = p.loops /\ c.switches = p.switches
  <2>1. if.merge \in Ids(p) /\ BuilderOK(p)
    BY <1>0, <1>6, <1>7, TouchedOK DEF Ids
  <2> QED
    BY <2>1, SetInsertTouches
<1> HIDE DEF c
<1>9. Touches(b, p, {b.insert, if.header}, {})
  BY <1>5, <1>7, TouchesThen
<1>10. Touches(b, c, {b.insert, if.header}, {})
  BY <1>8, <1>9, TouchesThen
<1> QED
  BY <1>2, <1>5, <1>7, <1>8, <1>10

-----------------------------------------------------------------------------
(* Loops. *)

LEMMA MakeNewLoopTouches ==
  ASSUME NEW b, BuilderOK(b)
  PROVE  LET c == MakeNewLoop(b)
             n == Next1(b)
         IN  /\ Touches(b, c, {b.insert}, {n, n + 1}) /\ c.insert = n
             /\ Open(c, n) /\ Open(c, n + 1) /\ Len(c.blocks) = n + 1
             /\ n \in Nat /\ n = Len(b.blocks) + 1
             /\ c.loops = Append(b.loops, [header |-> n, exit |-> n + 1])
             /\ c.switches = b.switches
<1> DEFINE n      == Next1(b)
           fn     == Parent(b)
           t      == CreateIn(b, "loop-header", fn)
           m      == Create(t, "loop-merge", fn)
           entry  == [header |-> n, exit |-> n + 1]
           pushed == [m EXCEPT !.loops = Append(@, entry)]
           a      == CloseTo(pushed, n)
           c      == SetInsertPoint(a, n)
<1>0. /\ fn \in FunctionNames /\ n = Len(b.blocks) + 1 /\ Len(b.blocks) \in Nat
      /\ b.insert \in Ids(b)
  BY InsertType, LenNat DEF Next1, Ids
<1>1. /\ Touches(b, t, {}, {n}) /\ t.loops = b.loops /\ t.switches = b.switches
      /\ Len(t.blocks) = n /\ Open(t, n) /\ n \in Ids(t) /\ n \in Nat /\ n \notin Ids(b)
      /\ t.insert = b.insert
  BY <1>0, CreateInTouches DEF BlockNames
<1>2. MakeNewLoop(b) = c
  BY DEF MakeNewLoop
<1>a. pushed = [m EXCEPT !.loops = Append(m.loops, entry)]
  OBVIOUS
<1> HIDE DEF n, fn, t, entry
<1>3. /\ Touches(t, m, {}, {n + 1}) /\ m.loops = t.loops /\ m.switches = t.switches
      /\ Len(m.blocks) = n + 1 /\ Open(m, n + 1) /\ m.insert = t.insert
  <2>1. Next1(t) = n + 1
    BY <1>1 DEF Next1
  <2>2. BuilderOK(t) /\ "loop-merge" \in BlockNames /\ fn \in FunctionNames
    BY <1>1, TouchedOK, InsertType DEF BlockNames, fn
  <2>3. LET k == Next1(t)
        IN  /\ Touches(t, m, {}, {k}) /\ m.loops = t.loops /\ m.switches = t.switches
            /\ Len(m.blocks) = k /\ Open(m, k) /\ m.insert = t.insert
    BY <2>2, CreateTouches
  <2> HIDE DEF m
  <2> QED
    BY <2>1, <2>3
<1> HIDE DEF m
<1>4. Touches(b, m, {}, {n, n + 1}) /\ m.insert = b.insert
  BY <1>1, <1>3, TouchesThen
<1>5. n \in Ids(m) /\ Open(m, n)
  <2>1. m.blocks[n] = t.blocks[n] /\ n \in Ids(m)
    BY <1>1, <1>3, TouchedOK
  <2> QED
    BY <1>1, <2>1 DEF Open
<1>6. BuilderOK(m) /\ m \in BuilderType(n + 1) /\ n \in 1..(n + 1) /\ n + 1 \in 1..(n + 1)
  BY <1>1, <1>3, <1>4, TouchedOK DEF BuilderOK, Ids
<1>7. Append(m.loops, entry) \in Seq(LoopType(n + 1))
  <2>1. entry \in LoopType(n + 1)
    BY <1>6 DEF LoopType, entry
  <2> QED
    BY <1>6, <2>1 DEF BuilderType
<1> HIDE DEF pushed
<1>8. /\ pushed \in BuilderType(n + 1) /\ pushed.blocks = m.blocks
      /\ pushed.insert = m.insert /\ pushed.switches = m.switches
      /\ pushed.loops = Append(m.loops, entry)
      /\ pushed.stageEpilogue = m.stageEpilogue /\ pushed.stageExit = m.stageExit
  BY <1>6, <1>7, <1>a DEF BuilderType
<1>9. BuilderOK(pushed) /\ Len(pushed.blocks) = n + 1 /\ n \in Ids(pushed)
  BY <1>3, <1>6, <1>8 DEF BuilderOK, Ids
<1>10. Touches(b, pushed, {}, {n, n + 1})
  <2>1. Builds(b, pushed) /\ Ids(pushed) = Ids(m)
    BY <1>3, <1>4, <1>8, <1>9, TouchedOK DEF Builds, Ids
  <2> QED
    BY <1>4, <1>8, <2>1 DEF Touches, Open
<1>11. /\ Touches(pushed, a, {b.insert}, {}) /\ Len(a.blocks) = n + 1
       /\ a.loops = pushed.loops /\ a.switches = pushed.switches
  BY <1>4, <1>8, <1>9, CloseToTouches
<1> HIDE DEF a
<1>12. BuilderOK(a) /\ n \in Ids(a) /\ n + 1 \in Ids(pushed)
  BY <1>6, <1>9, <1>11, TouchedOK DEF Ids
<1>13. /\ Touches(a, c, {}, {}) /\ c.insert = n /\ c.blocks = a.blocks
       /\ c.loops = a.loops /\ c.switches = a.switches
  BY <1>12, SetInsertTouches
<1> HIDE DEF c
<1>14. Touches(b, a, {b.insert}, {n, n + 1})
  BY <1>10, <1>11, TouchesThen
<1>15. Touches(b, c, {b.insert}, {n, n + 1})
  BY <1>13, <1>14, TouchesThen
<1>16. Open(c, n) /\ Open(c, n + 1)
  <2>1. n # b.insert /\ n + 1 # b.insert
    BY <1>0 DEF Ids
  <2>2. a.blocks[n] = m.blocks[n] /\ a.blocks[n + 1] = m.blocks[n + 1]
    BY <1>8, <1>9, <1>11, <1>12, <2>1, TouchedOK
  <2> QED
    BY <1>3, <1>5, <1>13, <2>2 DEF Open
<1> QED
  BY <1>0, <1>1, <1>2, <1>3, <1>8, <1>11, <1>13, <1>15, <1>16 DEF n, entry

LEMMA CloseLoopTouches ==
  ASSUME NEW b, BuilderOK(b), b.loops # <<>>
  PROVE  LET c == CloseLoop(b)
         IN  /\ Touches(b, c, {b.insert}, {}) /\ c.insert = TopOf(b.loops).exit
             /\ Len(c.blocks) = Len(b.blocks)
             /\ c.layout = Append(b.layout, TopOf(b.loops).exit)
             /\ c.loops = Pop(b.loops) /\ c.switches = b.switches
<1> DEFINE a == IF Terminated(b) THEN b ELSE MakeLoopBackEdge(b, TRUE)
           x == TopOf(b.loops).exit
           p == PushBack(a, x)
           c == SetInsertPoint(p, x)
           d == [c EXCEPT !.loops = Pop(@)]
<1>1. CloseLoop(b) = d /\ x \in Ids(b)
  BY LoopTopType DEF CloseLoop, Ids
<1>2. /\ Touches(b, a, {b.insert}, {}) /\ Len(a.blocks) = Len(b.blocks)
      /\ a.loops = b.loops /\ a.switches = b.switches /\ a.layout = b.layout
  <2>1. CASE Terminated(b)
    <3>1. ~ Open(b, b.insert)
      BY <2>1 DEF Terminated, HasTerminator, Open
    <3> QED
      BY <2>1, <3>1, BuildsReflexive DEF Touches
  <2>2. CASE ~ Terminated(b)
    BY <2>2, BackEdgeTouches
  <2> QED
    BY <2>1, <2>2
<1> HIDE DEF a, x
<1>3. BuilderOK(a) /\ x \in Ids(a)
  BY <1>1, <1>2, TouchedOK
<1>4. /\ Touches(a, p, {}, {}) /\ p.blocks = a.blocks /\ p.layout = Append(a.layout, x)
      /\ p.loops = a.loops /\ p.switches = a.switches
  BY <1>3, PushBackTouches
<1> HIDE DEF p
<1>5. BuilderOK(p) /\ x \in Ids(p)
  BY <1>3, <1>4, TouchedOK
<1>6. /\ Touches(p, c, {}, {}) /\ c.insert = x /\ c.blocks = p.blocks
      /\ c.layout = p.layout /\ c.loops = p.loops /\ c.switches = p.switches
  BY <1>5, SetInsertTouches
<1>a. d = [c EXCEPT !.loops = Pop(c.loops)]
  OBVIOUS
<1> HIDE DEF c, d
<1>7. BuilderOK(c) /\ c.loops # <<>>
  BY <1>2, <1>4, <1>6, TouchedOK
<1>8. BuilderOK(d) /\ Builds(b, d)
  <2>1. Builds(b, CloseLoop(b))
    BY CloseLoopBuilds
  <2> QED
    BY <1>1, <2>1 DEF Builds
<1>9. /\ d.insert = c.insert /\ d.blocks = c.blocks /\ d.layout = c.layout
      /\ d.loops = Pop(c.loops) /\ d.switches = c.switches
      /\ d.stageEpilogue = c.stageEpilogue /\ d.stageExit = c.stageExit
  BY <1>7, <1>a DEF BuilderOK, BuilderType
<1>10. Touches(b, p, {b.insert}, {})
  BY <1>2, <1>4, TouchesThen
<1>11. Touches(b, c, {b.insert}, {})
  BY <1>6, <1>10, TouchesThen
<1>12. Touches(b, d, {b.insert}, {})
  BY <1>8, <1>9, <1>11 DEF Touches, Open, Ids
<1> QED
  BY <1>1, <1>2, <1>4, <1>6, <1>9, <1>12 DEF x

(* if (! condition) break; *)
LEMMA LoopTestTouches ==
  ASSUME NEW b, BuilderOK(b), b.loops # <<>>, NEW at \in Nat
  PROVE  LET i == IfBegin(b)
             e == MakeLoopExit(i)
             c == MakeEndIf(e, IfObject(b), at)
         IN  /\ GoesOn(b, c) /\ Fresh(b, c, c.insert) /\ Open(c, c.insert)
             /\ c.loops = b.loops /\ c.switches = b.switches
<1> DEFINE n  == Next1(b)
           i  == IfBegin(b)
           e  == MakeLoopExit(i)
           if == IfObject(b)
           c  == MakeEndIf(e, if, at)
<1>1. /\ Touches(b, i, {}, {n, n + 1}) /\ i.insert = n
      /\ Open(i, n) /\ Open(i, n + 1) /\ Len(i.blocks) = n + 1
      /\ n \in Nat /\ n = Len(b.blocks) + 1
      /\ i.loops = b.loops /\ i.switches = b.switches
  BY IfBeginTouches
<1>2. if.header = b.insert /\ if.merge = n + 1 /\ if \in IfType(Len(i.blocks))
  BY IfBeginGrows DEF IfObject
<1>3. b.insert \in Ids(b) /\ b.insert # n /\ b.insert # n + 1
  BY <1>1, InsertType DEF Ids
<1> HIDE DEF i, if, n
<1>4. BuilderOK(i)
  BY <1>1, TouchedOK
<1>5. /\ Touches(i, e, {n}, {e.insert}) /\ SameStacks(i, e)
      /\ e.insert = n \/ Fresh(i, e, e.insert)
  BY <1>1, <1>4, LoopEdgesGoOn, MakeLoopExitGrows DEF GoesOn, Grows
<1>7. ~ Open(e, e.insert)
  <2>0. ~ Terminated(i) /\ i.insert = n /\ i.loops # <<>>
    BY <1>1 DEF Terminated, HasTerminator, Open
  <2> DEFINE t == Terminate(i, Br(TopOf(i.loops).exit))
             d == CreateAndSetNoPredecessorBlock(t, "post-loop-break")
  <2>1. e = d
    BY <2>0 DEF MakeLoopExit
  <2>2. Br(TopOf(i.loops).exit) \in TermType(Len(i.blocks)) /\ Br(TopOf(i.loops).exit).kind # "none"
    BY <1>4, <2>0, LenNat, LoopTopType, BrType
  <2>3. Touches(i, t, {n}, {})
    BY <1>1, <1>4, <2>2, TerminateTouches
  <2> HIDE DEF t
  <2>4. Touches(t, d, {}, {}) /\ Fresh(t, d, d.insert)
    BY <2>3, TouchedOK, NoPredecessorTouches DEF BlockNames
  <2> HIDE DEF d, e
  <2> QED
    BY <2>1, <2>4 DEF Touches, Fresh
<1> HIDE DEF e
<1>8. /\ BuilderOK(e) /\ Len(i.blocks) \in Nat /\ Len(e.blocks) \in Nat
      /\ Len(i.blocks) <= Len(e.blocks) /\ n + 1 \in Ids(i) /\ n + 1 \in Ids(e)
  BY <1>1, <1>5, TouchedOK DEF Ids
<1>9. if \in IfType(Len(e.blocks))
  BY <1>2, <1>8 DEF IfType
<1>10. /\ Touches(e, c, {e.insert, b.insert}, {}) /\ c.insert = n + 1
       /\ Len(c.blocks) = Len(e.blocks) /\ c.loops = e.loops /\ c.switches = e.switches
  BY ZenonT(60), <1>2, <1>8, <1>9, MakeEndIfTouches
<1> HIDE DEF c
<1>11. e.insert # n + 1
  BY <1>1, <1>5, <1>8 DEF Fresh
<1>12. Open(c, n + 1) /\ Fresh(b, c, n + 1)
  <2>1. e.blocks[n + 1] = i.blocks[n + 1]
    BY <1>1, <1>5, <1>8, TouchedOK
  <2>2. c.blocks[n + 1] = e.blocks[n + 1]
    BY <1>3, <1>8, <1>10, <1>11, TouchedOK
  <2> QED
    BY <1>1, <1>8, <1>10, <2>1, <2>2 DEF Open, Fresh, Ids
<1>13. Touches(b, e, {}, {n + 1, e.insert})
  <2>1. \A j \in {n} : j \in Ids(b) => j \in {}
    BY <1>1 DEF Ids
  <2>2. \A j \in Ids(b) : e.blocks[j] = b.blocks[j]
    BY <1>1, <1>5, <2>1, TouchedOK
  <2>3. \A j \in Ids(e) : Open(e, j) => \/ j \in {n + 1, e.insert}
                                        \/ j \in Ids(b) /\ Open(b, j)
    BY <1>1, <1>5, TouchedOK
  <2>4. /\ BuilderOK(b) /\ Builds(b, e)
        /\ e.stageEpilogue = b.stageEpilogue /\ e.stageExit = b.stageExit
    BY <1>1, <1>5, TouchedOK, BuildsTransitive
  <2> QED
    BY <2>2, <2>3, <2>4 DEF Touches
<1>14. Touches(b, c, {b.insert}, {n + 1})
  <2>1. e.insert \notin Ids(b)
    BY <1>1, <1>5, TouchedOK DEF Fresh, Ids
  <2>2. \A j \in Ids(b) : j # b.insert => c.blocks[j] = b.blocks[j]
    BY <1>10, <1>13, <2>1, TouchedOK
  <2>3. \A j \in Ids(c) : Open(c, j) => \/ j \in {n + 1}
                                        \/ j \in Ids(b) /\ j \notin {b.insert} /\ Open(b, j)
    BY <1>10, <1>13, TouchedOK
  <2>4. /\ BuilderOK(b) /\ Builds(b, c)
        /\ c.stageEpilogue = b.stageEpilogue /\ c.stageExit = b.stageExit
    BY <1>10, <1>13, TouchedOK, BuildsTransitive
  <2> QED
    BY <2>2, <2>3, <2>4 DEF Touches
<1> QED
  BY <1>1, <1>5, <1>10, <1>12, <1>14 DEF GoesOn, Open, Unsealed, SameStacks, c, e, i, if

-----------------------------------------------------------------------------
(* Switches. *)

(* The blocks of a switch are the old ones, and behind them new ones. *)
LEMMA MoreBlocks ==
  ASSUME NEW S, NEW old \in Seq(S), NEW n \in Nat, NEW more \in Seq(S), Len(more) = n,
         NEW last \in S
  PROVE  LET s == old \o more \o <<last>>
         IN  /\ s \in Seq(S) /\ Len(s) = Len(old) + n + 1
             /\ \A i \in 1..Len(old) : s[i] = old[i]
             /\ \A k \in 1..n : s[Len(old) + k] = more[k]
             /\ s[Len(old) + n + 1] = last
<1> DEFINE t == old \o more
           s == t \o <<last>>
<1>1. t \in Seq(S) /\ Len(t) = Len(old) + n
  OBVIOUS
<1>2. \A i \in 1..Len(old) : t[i] = old[i]
  OBVIOUS
<1>3. \A k \in 1..n : t[Len(old) + k] = more[k]
  OBVIOUS
<1> HIDE DEF t
<1>4. /\ s \in Seq(S) /\ Len(s) = Len(old) + n + 1
      /\ \A i \in 1..Len(t) : s[i] = t[i]
      /\ s[Len(t) + 1] = last
  BY <1>1
<1> HIDE DEF s
<1>5. /\ \A i \in 1..Len(old) : s[i] = old[i]
      /\ \A k \in 1..n : s[Len(old) + k] = more[k]
  BY <1>1, <1>2, <1>3, <1>4
<1> QED
  BY <1>1, <1>4, <1>5 DEF s, t

LEMMA BlocksAndLayout ==
  ASSUME NEW b, BuilderOK(b), NEW x, NEW y
  PROVE  [b EXCEPT !.blocks = x, !.layout = y]
           = [blocks |-> x, layout |-> y, insert |-> b.insert, loops |-> b.loops,
              switches |-> b.switches, stageEpilogue |-> b.stageEpilogue,
              stageExit |-> b.stageExit]
<1> DEFINE n == Len(b.blocks)
<1>1. b \in BuilderType(n)
  BY DEF BuilderOK
<1> HIDE DEF n
<1>2. PICK B, L, I, P, S, E, X : b \in [blocks : B, layout : L, insert : I, loops : P,
                                     switches : S, stageEpilogue : E, stageExit : X]
  BY <1>1 DEF BuilderType
<1> DEFINE c == [b EXCEPT !.blocks = x, !.layout = y]
<1>3. c \in [blocks : {x}, layout : {y}, insert : {b.insert}, loops : {b.loops},
            switches : {b.switches}, stageEpilogue : {b.stageEpilogue},
            stageExit : {b.stageExit}]
  BY <1>2
<1> HIDE DEF c
<1>4. c = [blocks |-> c.blocks, layout |-> c.layout, insert |-> c.insert, loops |-> c.loops,
           switches |-> c.switches, stageEpilogue |-> c.stageEpilogue,
           stageExit |-> c.stageExit]
  BY <1>3
<1>5. /\ c.blocks = x /\ c.layout = y /\ c.insert = b.insert /\ c.loops = b.loops
      /\ c.switches = b.switches /\ c.stageEpilogue = b.stageEpilogue
      /\ c.stageExit = b.stageExit
  BY <1>3
<1> HIDE DEF c
<1>6. c = [blocks |-> x, layout |-> y, insert |-> b.insert, loops |-> b.loops,
           switches |-> b.switches, stageEpilogue |-> b.stageEpilogue,
           stageExit |-> b.stageExit]
  BY <1>4, <1>5
<1> QED
  BY <1>6 DEF c

LEMMA MakeSwitchTouches ==
  ASSUME NEW b, BuilderOK(b), NEW n \in Nat \ {0},
         NEW values \in Seq(0..(n - 1)), NEW default \in -1..(n - 1), NEW at \in Nat
  PROVE  LET c   == MakeSwitch(b, n, values, default, at)
             new == (Len(b.blocks) + 1)..(Len(b.blocks) + n + 1)
         IN  /\ Touches(b, c, {b.insert}, new) /\ c.insert = b.insert
             /\ \A x \in new : Open(c, x) /\ Fresh(b, c, x)
             /\ Len(c.blocks) = Len(b.blocks) + n + 1
             /\ c.loops = b.loops
             /\ c.switches = Append(b.switches, Len(b.blocks) + n + 1)
<1> DEFINE k     == Len(b.blocks)
           m     == k + n + 1
           new   == (k + 1)..m
           fn    == Parent(b)
           seg   == SegmentBlocks(b, n)
           more  == [s \in 1..n |-> NewBlock("switch-segment", fn)]
           last  == NewBlock("switch-merge", fn)
           blks  == b.blocks \o more \o <<last>>
           lay   == b.layout \o seg \o <<m>>
           made  == [b EXCEPT !.blocks = blks, !.layout = lay]
           cases == [i \in DOMAIN values |-> seg[values[i] + 1]]
           dflt  == IF default >= 0 THEN seg[default + 1] ELSE m
           t     == Term("switch", Append(cases, dflt), at)
           split == IF Terminated(made) THEN made ELSE Terminate(made, t)
           c     == [split EXCEPT !.switches = Append(@, m)]
<1>1. MakeSwitch(b, n, values, default, at) = c
  BY DEF MakeSwitch
<1>2. /\ Builds(b, c) /\ Len(c.blocks) = m /\ c.loops = b.loops
      /\ c.switches = Append(b.switches, m) /\ k \in Nat /\ m \in Nat
      /\ b.insert \in 1..k
  <2>1. LET d == MakeSwitch(b, n, values, default, at)
        IN  /\ Builds(b, d) /\ Len(d.blocks) = Len(b.blocks) + n + 1
            /\ d.loops = b.loops /\ d.switches = Append(b.switches, Len(b.blocks) + n + 1)
    BY MakeSwitchBuilds
  <2> HIDE DEF c
  <2> QED
    BY <1>1, <2>1, LenNat, InsertType
<1>3. t.kind # "none"
  BY DEF Term
<1>4. /\ Len(blks) = m
      /\ \A i \in 1..k : blks[i] = b.blocks[i]
      /\ \A i \in new : blks[i].term.kind = "none"
  <2>1. PICK S : b.blocks \in Seq(S)
    BY DEF BuilderOK, BuilderType
  <2> DEFINE B == S \cup {NewBlock("switch-segment", fn), last}
  <2>2. /\ b.blocks \in Seq(B) /\ more \in Seq(B) /\ Len(more) = n /\ last \in B
        /\ \A s \in 1..n : more[s] = NewBlock("switch-segment", fn)
    BY <2>1, SeqSubset, S \subseteq B
  <2> HIDE DEF more, last, B
  <2>3. /\ Len(blks) = k + n + 1
        /\ \A i \in 1..k : blks[i] = b.blocks[i]
        /\ \A s \in 1..n : blks[k + s] = more[s]
        /\ blks[k + n + 1] = last
    BY <2>2, MoreBlocks
  <2> HIDE DEF blks
  <2>4. ASSUME NEW i \in new PROVE blks[i].term.kind = "none"
    <3>1. i = k + n + 1 \/ (i - k \in 1..n /\ i = k + (i - k))
      <4>1. i \in (k + 1)..(k + n + 1) /\ k \in Nat
        BY <1>2
      <4> HIDE DEF k, more, last
      <4> QED
        BY <4>1
    <3>2. blks[i] = last \/ blks[i] = NewBlock("switch-segment", fn)
      BY <2>2, <2>3, <3>1
    <3> QED
      BY <3>2 DEF last, NewBlock, NoTerm, Term
  <2> QED
    BY <2>3, <2>4 DEF m
<1>5. /\ made.blocks = blks /\ made.insert = b.insert
      /\ made.stageEpilogue = b.stageEpilogue /\ made.stageExit = b.stageExit
      /\ made = [blocks |-> blks, layout |-> lay, insert |-> b.insert, loops |-> b.loops,
                 switches |-> b.switches, stageEpilogue |-> b.stageEpilogue,
                 stageExit |-> b.stageExit]
  <2> HIDE DEF blks, lay
  <2>1. made = [blocks |-> blks, layout |-> lay, insert |-> b.insert, loops |-> b.loops,
                switches |-> b.switches, stageEpilogue |-> b.stageEpilogue,
                stageExit |-> b.stageExit]
    BY BlocksAndLayout
  <2> HIDE DEF made
  <2> QED
    BY <2>1
<1>a. /\ split = IF Terminated(made) THEN made ELSE Terminate(made, t)
      /\ c = [split EXCEPT !.switches = Append(split.switches, m)]
  OBVIOUS
<1>b. new = (Len(b.blocks) + 1)..(Len(b.blocks) + n + 1) /\ m = Len(b.blocks) + n + 1
  OBVIOUS
<1> HIDE DEF blks, lay, t, made, split, c, m, new
<1>6. /\ split.insert = b.insert /\ ~ Open(split, b.insert)
      /\ split.stageEpilogue = b.stageEpilogue /\ split.stageExit = b.stageExit
      /\ \A i \in 1..m : i # b.insert => split.blocks[i] = blks[i]
      /\ split = [blocks |-> split.blocks, layout |-> lay, insert |-> b.insert,
                  loops |-> b.loops, switches |-> b.switches,
                  stageEpilogue |-> b.stageEpilogue, stageExit |-> b.stageExit]
  <2>1. CASE Terminated(made)
    BY <1>5, <1>a, <2>1 DEF Terminated, HasTerminator, Open
  <2>2. CASE ~ Terminated(made)
    <3> DEFINE e == [blks[b.insert] EXCEPT !.term = t]
    <3>1. /\ split = [made EXCEPT !.blocks = [blks EXCEPT ![b.insert] = e]]
      BY <1>5, <1>a, <2>2 DEF Terminate
    <3>2. e.term = t
      <4>1. b.blocks[b.insert] \in BlockType(k)
        BY <1>2 DEF BuilderOK, BuilderType
      <4>2. blks[b.insert] = b.blocks[b.insert]
        BY <1>2, <1>4
      <4> QED
        BY <4>1, <4>2 DEF BlockType
    <3> HIDE DEF e
    <3>3. /\ split.blocks = [blks EXCEPT ![b.insert] = e]
          /\ split = [blocks |-> split.blocks, layout |-> lay, insert |-> b.insert,
                      loops |-> b.loops, switches |-> b.switches,
                      stageEpilogue |-> b.stageEpilogue, stageExit |-> b.stageExit]
      BY <1>5, <3>1
    <3>4. DOMAIN blks = 1..m /\ b.insert \in 1..m
      <4>1. \E S : blks \in Seq(S)
        <5>1. PICK S : b.blocks \in Seq(S)
          BY DEF BuilderOK, BuilderType
        <5> DEFINE B == S \cup {NewBlock("switch-segment", fn), last}
        <5>2. /\ b.blocks \in Seq(B) /\ more \in Seq(B) /\ Len(more) = n /\ last \in B
          BY <5>1, SeqSubset, S \subseteq B
        <5> HIDE DEF more, last, B
        <5> QED
          BY <5>2, MoreBlocks DEF blks
      <4>2. b.insert \in 1..m
        BY <1>2 DEF m
      <4> QED
        BY <1>4, <4>1, <4>2
    <3>5. /\ split.blocks[b.insert] = e
          /\ \A i \in 1..m : i # b.insert => split.blocks[i] = blks[i]
      BY <3>3, <3>4
    <3>6. /\ split.insert = b.insert /\ split.stageEpilogue = b.stageEpilogue
          /\ split.stageExit = b.stageExit
      BY <3>3
    <3>7. ~ Open(split, b.insert)
      BY <1>3, <3>2, <3>5 DEF Open
    <3> QED
      BY <3>3, <3>5, <3>6, <3>7
  <2> QED
    BY <2>1, <2>2
<1>7. /\ c.insert = split.insert /\ c.blocks = split.blocks
      /\ c.stageEpilogue = split.stageEpilogue /\ c.stageExit = split.stageExit
  BY <1>6, <1>a
<1>8. /\ \A i \in Ids(b) : i # b.insert => c.blocks[i] = b.blocks[i]
      /\ ~ Open(c, b.insert)
      /\ \A i \in new : Open(c, i)
      /\ Ids(c) = 1..m
  <2>1. \A i \in Ids(b) : i \in 1..m
    BY <1>2 DEF Ids, m
  <2>2. \A i \in new : i \in 1..m /\ i # b.insert
    BY <1>2 DEF new, m
  <2> QED
    BY SMTT(60), <1>2, <1>4, <1>6, <1>7, <2>1, <2>2 DEF Open, Ids
<1>9. \A i \in 1..m : i \in Ids(b) \/ i \in new
  BY <1>2 DEF Ids, m, new
<1>10. \A i \in Ids(c) : Open(c, i) => \/ i \in new
                                       \/ i \in Ids(b) /\ i \notin {b.insert} /\ Open(b, i)
  BY <1>8, <1>9 DEF Open
<1>11. Touches(b, c, {b.insert}, new)
  BY <1>2, <1>6, <1>7, <1>8, <1>10 DEF Touches
<1>12. \A x \in new : Fresh(b, c, x)
  BY <1>2, <1>8 DEF Fresh, Ids, new, m
<1> QED
  BY <1>1, <1>2, <1>6, <1>7, <1>8, <1>11, <1>12, <1>b

LEMMA NextSwitchSegmentTouches ==
  ASSUME NEW b, BuilderOK(b), NEW segments \in Seq(1..Len(b.blocks)),
         NEW s \in 1..Len(segments)
  PROVE  LET c == NextSwitchSegment(b, segments, s)
         IN  /\ s = 1 => Touches(b, c, {}, {})
             /\ s > 1 => Touches(b, c, {b.insert}, {})
             /\ c.insert = segments[s] /\ Len(c.blocks) = Len(b.blocks)
             /\ segments[s] \in Ids(b)
             /\ c.loops = b.loops /\ c.switches = b.switches /\ c.layout = b.layout
<1> DEFINE a == IF s > 1 THEN CloseTo(b, segments[s]) ELSE b
           c == SetInsertPoint(a, segments[s])
<1>1. segments[s] \in Ids(b) /\ NextSwitchSegment(b, segments, s) = c
  BY DEF NextSwitchSegment, Ids
<1>2. /\ s = 1 => Touches(b, a, {}, {})
      /\ s > 1 => Touches(b, a, {b.insert}, {})
      /\ Len(a.blocks) = Len(b.blocks) /\ BuilderOK(a)
      /\ a.loops = b.loops /\ a.switches = b.switches /\ a.layout = b.layout
  <2>1. CASE s = 1
    BY <2>1, TouchesNothing
  <2>2. CASE s > 1
    <3>1. a = CloseTo(b, segments[s]) /\ s # 1
      BY <2>2
    <3> HIDE DEF a
    <3>2. /\ Touches(b, a, {b.insert}, {}) /\ Len(a.blocks) = Len(b.blocks)
          /\ a.layout = b.layout /\ a.loops = b.loops /\ a.switches = b.switches
      BY <1>1, <3>1, CloseToTouches
    <3> QED
      BY <3>1, <3>2, TouchedOK
  <2> QED
    BY <2>1, <2>2
<1> HIDE DEF a
<1>3. segments[s] \in Ids(a)
  BY <1>1, <1>2 DEF Ids
<1>4. /\ Touches(a, c, {}, {}) /\ c.insert = segments[s] /\ c.blocks = a.blocks
      /\ c.layout = a.layout /\ c.loops = a.loops /\ c.switches = a.switches
  BY <1>2, <1>3, SetInsertTouches
<1> HIDE DEF c
<1>5. s = 1 => Touches(b, c, {}, {})
  BY <1>2, <1>4, TouchesThen
<1>6. s > 1 => Touches(b, c, {b.insert}, {})
  BY <1>2, <1>4, TouchesThen
<1> QED
  BY <1>1, <1>2, <1>4, <1>5, <1>6

LEMMA AddSwitchBreakTouches ==
  ASSUME NEW b, BuilderOK(b), b.switches # <<>>
  PROVE  LET c == AddSwitchBreak(b)
         IN  Touches(b, c, {b.insert}, {}) /\ Fresh(b, c, c.insert) /\ Unsealed(c, c.insert)
<1> DEFINE a == CloseTo(b, TopOf(b.switches))
           c == CreateAndSetNoPredecessorBlock(a, "post-switch-break")
<1>1. TopOf(b.switches) \in Ids(b)
  BY StacksType, TopPopType DEF Ids
<1>2. Touches(b, a, {b.insert}, {})
  BY <1>1, CloseToTouches
<1>3. AddSwitchBreak(b) = c
  BY DEF AddSwitchBreak
<1> HIDE DEF a
<1>4. /\ Touches(a, c, {}, {}) /\ Fresh(a, c, c.insert) /\ Unsealed(c, c.insert)
  BY <1>2, TouchedOK, NoPredecessorTouches DEF BlockNames
<1> HIDE DEF c
<1>5. Touches(b, c, {b.insert}, {})
  BY <1>2, <1>4, TouchesThen
<1>6. Fresh(b, c, c.insert)
  BY <1>2, <1>4, TouchedOK DEF Fresh
<1> QED
  BY <1>3, <1>4, <1>5, <1>6

LEMMA EndSwitchTouches ==
  ASSUME NEW b, BuilderOK(b), b.switches # <<>>
  PROVE  LET c == EndSwitch(b)
         IN  /\ Touches(b, c, {b.insert}, {}) /\ c.insert = TopOf(b.switches)
             /\ TopOf(b.switches) \in Ids(b)
<1> DEFINE a == IF Terminated(b) THEN b ELSE AddSwitchBreak(b)
           x == TopOf(b.switches)
           c == SetInsertPoint(a, x)
           d == [c EXCEPT !.switches = Pop(@)]
<1>1. EndSwitch(b) = d /\ x \in Ids(b)
  BY StacksType, TopPopType DEF EndSwitch, Ids
<1>2. Touches(b, a, {b.insert}, {})
  <2>1. CASE Terminated(b)
    <3>1. ~ Open(b, b.insert)
      BY <2>1 DEF Terminated, HasTerminator, Open
    <3> QED
      BY <2>1, <3>1, BuildsReflexive DEF Touches
  <2>2. CASE ~ Terminated(b)
    BY <2>2, AddSwitchBreakTouches
  <2> QED
    BY <2>1, <2>2
<1> HIDE DEF a, x
<1>3. BuilderOK(a) /\ x \in Ids(a)
  BY <1>1, <1>2, TouchedOK
<1>4. Touches(a, c, {}, {}) /\ c.insert = x /\ c.blocks = a.blocks
  BY <1>3, SetInsertTouches
<1>a. d = [c EXCEPT !.switches = Pop(c.switches)]
  OBVIOUS
<1> HIDE DEF c, d
<1>5. BuilderOK(c)
  BY <1>4, TouchedOK
<1>6. BuilderOK(d) /\ Builds(b, d)
  <2>1. Builds(b, EndSwitch(b))
    BY EndSwitchBuilds
  <2> QED
    BY <1>1, <2>1 DEF Builds
<1>7. /\ d.insert = c.insert /\ d.blocks = c.blocks
      /\ d.stageEpilogue = c.stageEpilogue /\ d.stageExit = c.stageExit
  BY <1>5, <1>a DEF BuilderOK, BuilderType
<1>8. Touches(b, c, {b.insert}, {})
  BY <1>2, <1>4, TouchesThen
<1>9. Touches(b, d, {b.insert}, {})
  BY <1>6, <1>7, <1>8 DEF Touches, Open, Ids
<1> QED
  BY <1>1, <1>4, <1>7, <1>9 DEF x

-----------------------------------------------------------------------------
(* The end of a function, and of main. *)

LEMMA CloseMainTouches ==
  ASSUME NEW b, BuilderOK(b)
  PROVE  LET c == CloseMain(b)
         IN  /\ Touches(b, c, {b.stageEpilogue, b.stageExit}, {})
             /\ Len(c.blocks) = Len(b.blocks)
             /\ c.layout = Append(Append(b.layout, b.stageEpilogue), b.stageExit)
<1> DEFINE E == b.stageEpilogue
           X == b.stageExit
           c == SetInsertPoint(b, E)
           d == Emit(c, CopyOut)
           e == Terminate(d, Br(X))
           f == SetInsertPoint(e, X)
           g == Terminate(f, Ret)
           h == PushBack(g, E)
           k == PushBack(h, X)
<1>1. E \in Ids(b) /\ X \in Ids(b)
  BY StageBlocksType DEF Ids
<1>2. /\ Touches(b, c, {}, {}) /\ c.insert = E /\ c.blocks = b.blocks /\ c.layout = b.layout
      /\ c.stageEpilogue = E /\ c.stageExit = X
  BY <1>1, SetInsertTouches DEF Touches
<1>3. CloseMain(b) = k
  <2>1. c = SetInsertPoint(b, b.stageEpilogue) /\ X = b.stageExit
    OBVIOUS
  <2>2. e.stageExit = X /\ g.stageEpilogue = E /\ h.stageExit = X
    BY DEF SetInsertPoint, Emit, Terminate, PushBack, BuilderOK, BuilderType
  <2> QED
    BY DEF CloseMain
<1> HIDE DEF E, X, c
<1>4. /\ Touches(c, d, {E}, {E}) /\ d.insert = E /\ Len(d.blocks) = Len(c.blocks)
      /\ d.layout = c.layout
  BY ZenonT(60), <1>2, TouchedOK, EmitTouches, CopyOutType
<1> HIDE DEF d
<1>5. BuilderOK(d) /\ Br(X) \in TermType(Len(d.blocks)) /\ Br(X).kind # "none"
  <2>1. Len(d.blocks) = Len(b.blocks) /\ X \in 1..Len(b.blocks) /\ Len(b.blocks) \in Nat
    BY <1>1, <1>2, <1>4, LenNat DEF Ids
  <2> QED
    BY <1>4, <2>1, TouchedOK, BrType
<1>6. /\ Touches(d, e, {E}, {}) /\ Len(e.blocks) = Len(d.blocks) /\ e.layout = d.layout
  BY <1>4, <1>5, TerminateTouches
<1> HIDE DEF e
<1>7. /\ Touches(e, f, {}, {}) /\ f.insert = X /\ f.blocks = e.blocks /\ f.layout = e.layout
  <2>1. BuilderOK(e) /\ X \in Ids(e)
    BY <1>1, <1>2, <1>4, <1>6, TouchedOK DEF Ids
  <2> QED
    BY <2>1, SetInsertTouches
<1> HIDE DEF f
<1>8. /\ Touches(f, g, {X}, {}) /\ Len(g.blocks) = Len(f.blocks) /\ g.layout = f.layout
  <2>1. BuilderOK(f) /\ Ret \in TermType(Len(f.blocks)) /\ Ret.kind # "none"
    BY <1>7, TouchedOK, RetType
  <2> QED
    BY <1>7, <2>1, TerminateTouches
<1> HIDE DEF g
<1>9. Ids(g) = Ids(b) /\ Len(g.blocks) = Len(b.blocks)
  BY <1>2, <1>4, <1>6, <1>7, <1>8 DEF Ids
<1>10. /\ Touches(g, h, {}, {}) /\ h.blocks = g.blocks /\ h.layout = Append(g.layout, E)
  BY <1>1, <1>8, <1>9, TouchedOK, PushBackTouches
<1> HIDE DEF h
<1>11. /\ Touches(h, k, {}, {}) /\ k.blocks = h.blocks /\ k.layout = Append(h.layout, X)
  <2>1. BuilderOK(h) /\ X \in Ids(h)
    BY <1>1, <1>9, <1>10, TouchedOK DEF Ids
  <2> QED
    BY <2>1, PushBackTouches
<1> HIDE DEF k
<1>12. Touches(b, d, {E}, {E})
  BY <1>2, <1>4, TouchesThen
<1>13. Touches(b, e, {E}, {})
  BY <1>6, <1>12, TouchesThen
<1>14. Touches(b, f, {E}, {})
  BY <1>7, <1>13, TouchesThen
<1>15. Touches(b, g, {E, X}, {})
  BY <1>8, <1>14, TouchesThen
<1>16. Touches(b, h, {E, X}, {})
  BY <1>10, <1>15, TouchesThen
<1>17. Touches(b, k, {E, X}, {})
  BY <1>11, <1>16, TouchesThen
<1>18. /\ k.layout = Append(Append(b.layout, E), X) /\ Len(k.blocks) = Len(b.blocks)
  BY <1>2, <1>4, <1>6, <1>7, <1>8, <1>9, <1>10, <1>11
<1> QED
  BY <1>3, <1>17, <1>18 DEF E, X

(* What leaveFunction does before closeMain. *)
Leave(b, main) ==
  IF Terminated(b) THEN b
  ELSE IF main /\ ~ InUnreachable(b) THEN MakeReturn(b, TRUE, TRUE)
  ELSE IF InUnreachable(b) THEN Terminate(b, Unreachable)
  ELSE MakeReturn(b, TRUE, FALSE)

LEMMA LeaveTouches ==
  ASSUME NEW b, BuilderOK(b), NEW main \in BOOLEAN
  PROVE  LET c == Leave(b, main)
         IN  /\ Touches(b, c, {b.insert}, {}) /\ c.insert = b.insert
             /\ Len(c.blocks) = Len(b.blocks) /\ c.layout = b.layout
<1>1. CASE Terminated(b)
  <2>1. ~ Open(b, b.insert)
    BY <1>1 DEF Terminated, HasTerminator, Open
  <2>2. Touches(b, b, {b.insert}, {})
    BY <2>1, BuildsReflexive DEF Touches
  <2> QED
    BY <1>1, <2>2 DEF Leave
<1>2. CASE ~ Terminated(b) /\ main /\ ~ InUnreachable(b)
  <2>1. Leave(b, main) = MakeReturn(b, TRUE, TRUE)
    BY <1>2 DEF Leave
  <2> QED
    BY <2>1, MakeReturnTouches
<1>3. CASE ~ Terminated(b) /\ InUnreachable(b)
  <2>1. Leave(b, main) = Terminate(b, Unreachable)
    BY <1>3 DEF Leave
  <2>2. Unreachable \in TermType(Len(b.blocks)) /\ Unreachable.kind # "none"
    BY UnreachableType
  <2> QED
    BY <2>1, <2>2, TerminateTouches
<1>4. CASE ~ Terminated(b) /\ ~ main /\ ~ InUnreachable(b)
  <2>1. Leave(b, main) = MakeReturn(b, TRUE, FALSE)
    BY <1>4 DEF Leave
  <2> QED
    BY <2>1, MakeReturnTouches
<1> QED
  BY <1>1, <1>2, <1>3, <1>4

LEMMA LeaveFunctionTouches ==
  ASSUME NEW b, BuilderOK(b)
  PROVE  /\ Touches(b, LeaveFunction(b, FALSE), {b.insert}, {})
         /\ Touches(b, LeaveFunction(b, TRUE), {b.insert, b.stageEpilogue, b.stageExit}, {})
         /\ Len(LeaveFunction(b, FALSE).blocks) = Len(b.blocks)
         /\ Len(LeaveFunction(b, TRUE).blocks) = Len(b.blocks)
         /\ LeaveFunction(b, FALSE).layout = b.layout
         /\ LeaveFunction(b, TRUE).layout
              = Append(Append(b.layout, b.stageEpilogue), b.stageExit)
<1> DEFINE c == Leave(b, TRUE)
           d == CloseMain(c)
<1>1. LeaveFunction(b, FALSE) = Leave(b, FALSE) /\ LeaveFunction(b, TRUE) = d
  BY DEF LeaveFunction, Leave
<1>2. /\ Touches(b, c, {b.insert}, {}) /\ Len(c.blocks) = Len(b.blocks) /\ c.layout = b.layout
      /\ Touches(b, Leave(b, FALSE), {b.insert}, {})
      /\ Len(Leave(b, FALSE).blocks) = Len(b.blocks) /\ Leave(b, FALSE).layout = b.layout
  BY LeaveTouches
<1> HIDE DEF c
<1>3. BuilderOK(c) /\ c.stageEpilogue = b.stageEpilogue /\ c.stageExit = b.stageExit
  BY <1>2, TouchedOK
<1>4. /\ Touches(c, d, {b.stageEpilogue, b.stageExit}, {}) /\ Len(d.blocks) = Len(c.blocks)
      /\ d.layout = Append(Append(c.layout, b.stageEpilogue), b.stageExit)
  BY <1>3, CloseMainTouches
<1> HIDE DEF d
<1>5. Touches(b, d, {b.insert, b.stageEpilogue, b.stageExit}, {})
  BY <1>2, <1>4, TouchesThen
<1> QED
  BY <1>1, <1>2, <1>4, <1>5

-----------------------------------------------------------------------------
(* What the builder's operations lay out: no block is placed twice or ends *)
(* twice, every block belongs to the function it was made in, and jumps stay *)
(* in that function.                                                       *)

Of(b, fn)      == {i \in Ids(b) : b.blocks[i].fn = fn}
Unplaced(b, i) == i \in Ids(b) /\ \A k \in 1..Len(b.layout) : b.layout[k] # i
JumpsIn(b, t, fn) == \A k \in DOMAIN t.to : t.to[k] \in Of(b, fn)

Sound(b) ==
  /\ \A i \in Ids(b) : /\ b.blocks[i].term.kind # "double"
                       /\ JumpsIn(b, b.blocks[i].term, b.blocks[i].fn)
  /\ \A j, k \in 1..Len(b.layout) : b.layout[j] = b.layout[k] => j = k

(* From b to c blocks of function fn are made, ended and placed: those of  *)
(* U are left unplaced, and those of P are placed.                         *)
LaysOut(b, c, fn, U, P) ==
  /\ BuilderOK(b) /\ BuilderOK(c) /\ Sound(c) /\ c.insert \in Of(c, fn)
  /\ \A i \in Ids(b) : i \in Ids(c) /\ c.blocks[i].fn = b.blocks[i].fn
  /\ \A i \in Ids(c) : i \in Ids(b) \/ c.blocks[i].fn = fn
  /\ \A i : Unplaced(c, i) <=> i \in U \/ (Unplaced(b, i) /\ i \notin P)

-----------------------------------------------------------------------------
LEMMA LaidOut ==
  ASSUME NEW b, NEW c, NEW fn, NEW U, NEW P, LaysOut(b, c, fn, U, P)
  PROVE  /\ BuilderOK(b) /\ BuilderOK(c) /\ Sound(c) /\ c.insert \in Of(c, fn)
         /\ \A g : \A i \in Of(b, g) : i \in Of(c, g)
         /\ \A i \in Ids(c) : i \in Ids(b) \/ i \in Of(c, fn)
         /\ \A i : Unplaced(c, i) <=> i \in U \/ (Unplaced(b, i) /\ i \notin P)
BY DEF LaysOut, Of

LEMMA LaysOutThen ==
  ASSUME NEW b, NEW c, NEW d, NEW fn, NEW U1, NEW P1, NEW U2, NEW P2, NEW U, NEW P,
         LaysOut(b, c, fn, U1, P1), LaysOut(c, d, fn, U2, P2),
         \A i : i \in U <=> i \in U2 \/ (i \in U1 /\ i \notin P2),
         \A i \in Ids(b) : i \in P <=> i \in P1 \/ i \in P2
  PROVE  LaysOut(b, d, fn, U, P)
<1>1. /\ \A i \in Ids(b) : i \in Ids(d) /\ d.blocks[i].fn = b.blocks[i].fn
      /\ \A i \in Ids(d) : i \in Ids(b) \/ d.blocks[i].fn = fn
  BY DEF LaysOut
<1>2. \A i : Unplaced(d, i) <=> i \in U2 \/ (Unplaced(c, i) /\ i \notin P2)
  BY LaidOut
<1>3. \A i : Unplaced(c, i) <=> i \in U1 \/ (Unplaced(b, i) /\ i \notin P1)
  BY LaidOut
<1>4. \A i : Unplaced(b, i) => i \in Ids(b)
  BY DEF Unplaced
<1>5. \A i : Unplaced(d, i) <=> i \in U \/ (Unplaced(b, i) /\ i \notin P)
  BY <1>2, <1>3, <1>4
<1> QED
  BY <1>1, <1>5, LaidOut DEF LaysOut

(* An operation that only adds code, ends blocks and makes placed ones. *)
Plain(b, c, fn) == LaysOut(b, c, fn, {}, {})

LEMMA PlainThen ==
  ASSUME NEW b, NEW c, NEW d, NEW fn, NEW U, NEW P,
         \/ Plain(b, c, fn) /\ LaysOut(c, d, fn, U, P)
         \/ LaysOut(b, c, fn, U, P) /\ Plain(c, d, fn)
  PROVE  LaysOut(b, d, fn, U, P)
BY LaysOutThen DEF Plain

LEMMA PlainReflexive ==
  ASSUME NEW b, BuilderOK(b), Sound(b), NEW fn, b.insert \in Of(b, fn)
  PROVE  Plain(b, b, fn)
BY DEF Plain, LaysOut

-----------------------------------------------------------------------------
(* The primitives. *)

(* Blocks that stay as they are stay sound. *)
LEMMA SetInsertLays ==
  ASSUME NEW b, BuilderOK(b), Sound(b), NEW fn, NEW blk \in Of(b, fn)
  PROVE  Plain(b, SetInsertPoint(b, blk), fn)
<1> DEFINE c == SetInsertPoint(b, blk)
<1>1. blk \in Ids(b)
  BY DEF Of
<1>2. /\ Touches(b, c, {}, {}) /\ c.insert = blk
      /\ c.blocks = b.blocks /\ c.layout = b.layout
  BY <1>1, SetInsertTouches
<1> HIDE DEF c
<1>3. BuilderOK(c)
  BY <1>2, TouchedOK
<1> QED
  BY <1>2, <1>3 DEF Plain, LaysOut, Sound, Of, Ids, Unplaced, JumpsIn, c

LEMMA PlacedAfter ==
  ASSUME NEW b, BuilderOK(b), NEW c, NEW blk \in Ids(b),
         c.blocks = b.blocks, c.layout = Append(b.layout, blk)
  PROVE  /\ \A i : Unplaced(c, i) <=> Unplaced(b, i) /\ i # blk
         /\ (/\ Unplaced(b, blk)
             /\ \A j, k \in 1..Len(b.layout) : b.layout[j] = b.layout[k] => j = k)
              => \A j, k \in 1..Len(c.layout) : c.layout[j] = c.layout[k] => j = k
<1> DEFINE n == Len(b.layout)
<1>1. b.layout \in Seq(Ids(b))
  BY DEF BuilderOK, BuilderType, Ids
<1>2. /\ n \in Nat /\ Len(c.layout) = n + 1
      /\ \A k \in 1..n : c.layout[k] = b.layout[k]
      /\ c.layout[n + 1] = blk
  BY <1>1
<1> HIDE DEF n
<1>3. \A k \in 1..(n + 1) : k \in 1..n \/ k = n + 1
  BY <1>2
<1>4. n + 1 \in 1..(n + 1) /\ \A k \in 1..n : k \in 1..(n + 1)
  BY <1>2
<1>5. ASSUME NEW i PROVE Unplaced(c, i) <=> Unplaced(b, i) /\ i # blk
  <2>1. Unplaced(c, i) <=> i \in Ids(b) /\ \A k \in 1..(n + 1) : c.layout[k] # i
    BY <1>2 DEF Unplaced, Ids
  <2>2. Unplaced(b, i) <=> i \in Ids(b) /\ \A k \in 1..n : b.layout[k] # i
    BY DEF Unplaced, n
  <2> QED
    BY <1>2, <1>3, <1>4, <2>1, <2>2
<1>6. ASSUME Unplaced(b, blk),
             \A j, k \in 1..n : b.layout[j] = b.layout[k] => j = k,
             NEW j \in 1..(n + 1), NEW k \in 1..(n + 1), c.layout[j] = c.layout[k]
      PROVE  j = k
  <2>1. \A m \in 1..n : c.layout[m] # blk
    BY <1>2, <1>6 DEF Unplaced, n
  <2>2. CASE j \in 1..n /\ k \in 1..n
    BY <1>2, <1>6, <2>2
  <2> QED
    BY <1>2, <1>3, <1>6, <2>1, <2>2
<1> QED
  BY <1>2, <1>5, <1>6 DEF n

LEMMA PushBackLays ==
  ASSUME NEW b, BuilderOK(b), Sound(b), NEW fn, b.insert \in Of(b, fn),
         NEW blk, Unplaced(b, blk)
  PROVE  LaysOut(b, PushBack(b, blk), fn, {}, {blk})
<1> DEFINE c == PushBack(b, blk)
<1>1. blk \in Ids(b)
  BY DEF Unplaced
<1>2. /\ Touches(b, c, {}, {}) /\ c.insert = b.insert
      /\ c.blocks = b.blocks /\ c.layout = Append(b.layout, blk)
  BY <1>1, PushBackTouches
<1> HIDE DEF c
<1>3. BuilderOK(c)
  BY <1>2, TouchedOK
<1>4. /\ \A i : Unplaced(c, i) <=> Unplaced(b, i) /\ i # blk
      /\ \A j, k \in 1..Len(c.layout) : c.layout[j] = c.layout[k] => j = k
  BY <1>1, <1>2, PlacedAfter DEF Sound
<1>5. Ids(c) = Ids(b) /\ \A g : Of(c, g) = Of(b, g)
  BY <1>2 DEF Ids, Of
<1>6. Sound(c)
  BY <1>2, <1>4, <1>5 DEF Sound, JumpsIn
<1> QED
  BY <1>2, <1>3, <1>4, <1>5, <1>6 DEF LaysOut, c

LEMMA CreateLays ==
  ASSUME NEW b, BuilderOK(b), Sound(b), NEW fn \in FunctionNames, b.insert \in Of(b, fn),
         NEW name \in BlockNames
  PROVE  LET c == Create(b, name, fn)
             n == Next1(b)
         IN  LaysOut(b, c, fn, {n}, {}) /\ n \in Of(c, fn)
<1> DEFINE c == Create(b, name, fn)
           n == Next1(b)
<1>1. /\ Touches(b, c, {}, {n}) /\ c.insert = b.insert /\ c.layout = b.layout
      /\ Len(c.blocks) = n /\ c.blocks[n] = NewBlock(name, fn)
      /\ n \in Nat /\ n \notin Ids(b) /\ n \in Ids(c)
  BY CreateTouches
<1>2. n = Len(b.blocks) + 1 /\ Len(b.blocks) \in Nat
  BY LenNat DEF Next1
<1> HIDE DEF c, n
<1>3. /\ BuilderOK(c) /\ \A i \in Ids(b) : i \in Ids(c) /\ c.blocks[i] = b.blocks[i]
  BY <1>1, TouchedOK
<1>4. \A i \in Ids(c) : i \in Ids(b) \/ i = n
  BY <1>1, <1>2 DEF Ids
<1>5. n \in Of(c, fn) /\ \A g : \A i \in Of(b, g) : i \in Of(c, g)
  BY <1>1, <1>3 DEF Of, NewBlock
<1>6. /\ c.blocks[n].term.kind # "double" /\ JumpsIn(c, c.blocks[n].term, c.blocks[n].fn)
  BY <1>1 DEF NewBlock, NoTerm, Term, JumpsIn
<1>7. Sound(c)
  <2>1. \A i \in Ids(b) : /\ c.blocks[i].term.kind # "double"
                          /\ JumpsIn(c, c.blocks[i].term, c.blocks[i].fn)
    BY <1>3, <1>5 DEF Sound, JumpsIn
  <2> QED
    BY <1>1, <1>4, <1>6, <2>1 DEF Sound
<1>8. \A k \in 1..Len(b.layout) : b.layout[k] \in Ids(b)
  BY DEF BuilderOK, BuilderType, Ids
<1>9. \A i : Unplaced(c, i) <=> i \in {n} \/ (Unplaced(b, i) /\ i \notin {})
  <2>1. \A k \in 1..Len(b.layout) : b.layout[k] # n
    BY <1>1, <1>8
  <2>2. \A i : Unplaced(c, i) <=> i \in Ids(c) /\ \A k \in 1..Len(b.layout) : b.layout[k] # i
    BY <1>1 DEF Unplaced
  <2> QED
    BY <1>1, <1>3, <1>4, <2>1, <2>2 DEF Unplaced
<1>10. LaysOut(b, c, fn, {n}, {})
  <2>1. /\ \A i \in Ids(b) : i \in Ids(c) /\ c.blocks[i].fn = b.blocks[i].fn
        /\ \A i \in Ids(c) : i \in Ids(b) \/ c.blocks[i].fn = fn
    BY <1>3, <1>4, <1>5 DEF Of
  <2>2. c.insert \in Of(c, fn)
    BY <1>1, <1>5
  <2> QED
    BY <1>3, <1>7, <1>9, <2>1, <2>2 DEF LaysOut
<1> QED
  BY <1>5, <1>10 DEF c, n

LEMMA CreateInLays ==
  ASSUME NEW b, BuilderOK(b), Sound(b), NEW fn \in FunctionNames, b.insert \in Of(b, fn),
         NEW name \in BlockNames
  PROVE  LET c == CreateIn(b, name, fn)
         IN  Plain(b, c, fn) /\ Next1(b) \in Of(c, fn)
<1> DEFINE n == Next1(b)
           c == Create(b, name, fn)
           d == PushBack(c, n)
<1>1. LaysOut(b, c, fn, {n}, {}) /\ n \in Of(c, fn)
  BY CreateLays
<1>2. n \notin Ids(b)
  BY LenNat DEF Next1, Ids
<1>3. CreateIn(b, name, fn) = d
  BY DEF CreateIn
<1> HIDE DEF c, n
<1>4. BuilderOK(c) /\ Sound(c) /\ c.insert \in Of(c, fn) /\ Unplaced(c, n)
  BY <1>1, LaidOut
<1>5. LaysOut(c, d, fn, {}, {n})
  BY <1>4, PushBackLays
<1> HIDE DEF d
<1>6. Plain(b, d, fn)
  <2>1. /\ \A i : i \in {} <=> i \in {} \/ (i \in {n} /\ i \notin {n})
        /\ \A i \in Ids(b) : i \in {} <=> i \in {} \/ i \in {n}
    BY <1>2
  <2> QED
    BY <1>1, <1>5, <2>1, LaysOutThen DEF Plain
<1>7. n \in Of(d, fn)
  BY <1>1, <1>5, LaidOut
<1> QED
  BY <1>3, <1>6, <1>7 DEF n

(* An operation that changes only the insert block. *)
LEMMA InsertChanges ==
  ASSUME NEW b, BuilderOK(b), Sound(b), NEW fn, b.insert \in Of(b, fn),
         NEW c, NEW N, Touches(b, c, {b.insert}, N), c.insert = b.insert,
         Len(c.blocks) = Len(b.blocks), c.layout = b.layout,
         c.blocks[b.insert].fn = b.blocks[b.insert].fn,
         c.blocks[b.insert].term.kind # "double",
         JumpsIn(b, c.blocks[b.insert].term, fn)
  PROVE  Plain(b, c, fn)
<1>1. /\ BuilderOK(c) /\ \A i \in Ids(b) : i \notin {b.insert} => c.blocks[i] = b.blocks[i]
  BY TouchedOK
<1>2. Ids(c) = Ids(b)
  BY DEF Ids
<1>3. \A i \in Ids(b) : c.blocks[i].fn = b.blocks[i].fn
  BY <1>1
<1>4. \A g : Of(c, g) = Of(b, g)
  BY <1>2, <1>3 DEF Of
<1>5. ASSUME NEW i \in Ids(c)
      PROVE  /\ c.blocks[i].term.kind # "double"
             /\ JumpsIn(c, c.blocks[i].term, c.blocks[i].fn)
  <2>1. CASE i = b.insert
    <3>1. c.blocks[i].fn = fn
      BY <2>1 DEF Of
    <3> QED
      BY <1>4, <2>1, <3>1 DEF JumpsIn
  <2>2. CASE i # b.insert
    <3>1. c.blocks[i] = b.blocks[i]
      BY <1>1, <1>2, <2>2
    <3> QED
      BY <1>2, <1>4, <3>1 DEF Sound, JumpsIn
  <2> QED
    BY <2>1, <2>2
<1>6. Sound(c)
  BY <1>5 DEF Sound
<1>7. \A i : Unplaced(c, i) <=> Unplaced(b, i)
  BY <1>2 DEF Unplaced
<1> QED
  BY <1>1, <1>2, <1>3, <1>4, <1>6, <1>7 DEF Plain, LaysOut

LEMMA TerminateLays ==
  ASSUME NEW b, BuilderOK(b), Sound(b), NEW fn, b.insert \in Of(b, fn), Open(b, b.insert),
         NEW t \in TermType(Len(b.blocks)), t.kind \notin {"none", "double"}, JumpsIn(b, t, fn)
  PROVE  Plain(b, Terminate(b, t), fn)
<1> DEFINE c == Terminate(b, t)
<1>1. /\ Touches(b, c, {b.insert}, {}) /\ c.insert = b.insert
      /\ Len(c.blocks) = Len(b.blocks) /\ c.layout = b.layout
      /\ c.blocks[b.insert].fn = b.blocks[b.insert].fn
      /\ c.blocks[b.insert].term = t
  BY TerminateTouches
<1> HIDE DEF c
<1>2. Plain(b, c, fn)
  BY <1>1, InsertChanges
<1> QED
  BY <1>2 DEF c

LEMMA EmitLays ==
  ASSUME NEW b, BuilderOK(b), Sound(b), NEW fn, b.insert \in Of(b, fn), NEW e \in EventType
  PROVE  Plain(b, Emit(b, e), fn)
<1> DEFINE c == Emit(b, e)
<1>1. /\ Touches(b, c, {b.insert}, {b.insert}) /\ c.insert = b.insert
      /\ Len(c.blocks) = Len(b.blocks) /\ c.layout = b.layout
      /\ c.blocks[b.insert].term = b.blocks[b.insert].term
      /\ c.blocks[b.insert].fn = b.blocks[b.insert].fn
  BY EmitTouches
<1> HIDE DEF c
<1>2. /\ b.blocks[b.insert].term.kind # "double"
      /\ JumpsIn(b, b.blocks[b.insert].term, fn)
  BY DEF Sound, Of
<1>3. Plain(b, c, fn)
  BY <1>1, <1>2, InsertChanges
<1> QED
  BY <1>3 DEF c

LEMMA BrJumps ==
  ASSUME NEW b, BuilderOK(b), NEW fn, NEW blk \in Of(b, fn)
  PROVE  /\ Br(blk) \in TermType(Len(b.blocks)) /\ Br(blk).kind \notin {"none", "double"}
         /\ JumpsIn(b, Br(blk), fn)
<1>1. blk \in 1..Len(b.blocks) /\ Len(b.blocks) \in Nat
  BY LenNat DEF Of, Ids
<1>2. Br(blk) \in TermType(Len(b.blocks)) /\ Br(blk).kind = "br"
  BY <1>1, BrType
<1>3. Br(blk).to = <<blk>>
  BY DEF Br, Term
<1> QED
  BY <1>2, <1>3 DEF JumpsIn

LEMMA EndsJumpNowhere ==
  ASSUME NEW b, BuilderOK(b), NEW fn
  PROVE  /\ Ret \in TermType(Len(b.blocks)) /\ Ret.kind \notin {"none", "double"}
         /\ JumpsIn(b, Ret, fn)
         /\ Unreachable \in TermType(Len(b.blocks)) /\ Unreachable.kind \notin {"none", "double"}
         /\ JumpsIn(b, Unreachable, fn)
<1>1. Ret.to = <<>> /\ Unreachable.to = <<>>
  BY DEF Ret, Unreachable, Term
<1>2. /\ Ret \in TermType(Len(b.blocks)) /\ Ret.kind = "ret"
      /\ Unreachable \in TermType(Len(b.blocks)) /\ Unreachable.kind = "unreachable"
  BY LenNat, RetType, UnreachableType
<1> QED
  BY <1>1, <1>2 DEF JumpsIn

-----------------------------------------------------------------------------
(* The block-making and block-ending calls. *)

LEMMA NoPredecessorLays ==
  ASSUME NEW b, BuilderOK(b), Sound(b), NEW fn, b.insert \in Of(b, fn),
         NEW name \in BlockNames
  PROVE  Plain(b, CreateAndSetNoPredecessorBlock(b, name), fn)
<1> DEFINE n == Next1(b)
           c == CreateIn(b, name, Parent(b))
           d == SetInsertPoint(c, n)
           e == Terminate(d, Unreachable)
<1>1. Parent(b) = fn /\ fn \in FunctionNames
  BY InsertType DEF Parent, Of
<1>2. /\ Plain(b, c, fn) /\ n \in Of(c, fn) /\ Open(c, n)
  BY <1>1, CreateInLays, CreateInTouches
<1>3. CreateAndSetNoPredecessorBlock(b, name) = e
  BY DEF CreateAndSetNoPredecessorBlock
<1> HIDE DEF n, c
<1>4. BuilderOK(c) /\ Sound(c) /\ n \in Ids(c)
  BY <1>2, LaidOut DEF Plain, Of
<1>5. Plain(c, d, fn) /\ d.insert = n /\ d.blocks = c.blocks
  BY <1>2, <1>4, SetInsertLays, SetInsertTouches
<1> HIDE DEF d
<1>6. BuilderOK(d) /\ Sound(d) /\ d.insert \in Of(d, fn) /\ Open(d, d.insert)
  BY <1>2, <1>5, LaidOut DEF Plain, Open
<1>7. Plain(d, e, fn)
  BY <1>6, EndsJumpNowhere, TerminateLays
<1> HIDE DEF e
<1>8. Plain(b, d, fn)
  BY <1>2, <1>5, PlainThen DEF Plain
<1>9. Plain(b, e, fn)
  BY <1>7, <1>8, PlainThen DEF Plain
<1> QED
  BY <1>3, <1>9

LEMMA CloseToLays ==
  ASSUME NEW b, BuilderOK(b), Sound(b), NEW fn, b.insert \in Of(b, fn), NEW blk \in Of(b, fn)
  PROVE  Plain(b, CloseTo(b, blk), fn)
<1>1. CASE Terminated(b)
  BY <1>1, PlainReflexive DEF CloseTo
<1>2. CASE ~ Terminated(b)
  <2>1. Open(b, b.insert)
    BY <1>2 DEF Terminated, HasTerminator, Open
  <2> QED
    BY <1>2, <2>1, BrJumps, TerminateLays DEF CloseTo
<1> QED
  BY <1>1, <1>2

(* The block ends and a dead one takes its place. *)
LEMMA EndAndGoOnLays ==
  ASSUME NEW b, NEW fn, NEW c, Plain(b, c, fn), NEW name \in BlockNames
  PROVE  Plain(b, CreateAndSetNoPredecessorBlock(c, name), fn)
<1>1. BuilderOK(c) /\ Sound(c) /\ c.insert \in Of(c, fn)
  BY LaidOut DEF Plain
<1>2. Plain(c, CreateAndSetNoPredecessorBlock(c, name), fn)
  BY <1>1, NoPredecessorLays
<1> QED
  BY <1>2, PlainThen DEF Plain

LEMMA MakeReturnLays ==
  ASSUME NEW b, BuilderOK(b), Sound(b), NEW fn, b.insert \in Of(b, fn),
         NEW implicit \in BOOLEAN, NEW isMain \in BOOLEAN,
         isMain => b.stageEpilogue \in Of(b, fn)
  PROVE  Plain(b, MakeReturn(b, implicit, isMain), fn)
<1> DEFINE t == IF isMain THEN Br(b.stageEpilogue) ELSE Ret
           r == Terminate(b, t)
           d == CreateAndSetNoPredecessorBlock(r, "post-return")
<1>1. t \in TermType(Len(b.blocks)) /\ t.kind \notin {"none", "double"} /\ JumpsIn(b, t, fn)
  BY BrJumps, EndsJumpNowhere
<1>2. CASE Terminated(b)
  BY <1>2, PlainReflexive DEF MakeReturn
<1>3. CASE ~ Terminated(b)
  <2>1. Open(b, b.insert)
    BY <1>3 DEF Terminated, HasTerminator, Open
  <2>2. MakeReturn(b, implicit, isMain) = IF implicit THEN r ELSE d
    BY <1>3 DEF MakeReturn
  <2> HIDE DEF t
  <2>3. Plain(b, r, fn)
    BY <1>1, <2>1, TerminateLays
  <2> HIDE DEF r
  <2>4. Plain(b, d, fn)
    BY <2>3, EndAndGoOnLays, "post-return" \in BlockNames DEF BlockNames
  <2> HIDE DEF d
  <2> QED
    BY <2>2, <2>3, <2>4
<1> QED
  BY <1>2, <1>3

LEMMA MakeDiscardLays ==
  ASSUME NEW b, BuilderOK(b), Sound(b), NEW fn, b.insert \in Of(b, fn),
         NEW isMain \in BOOLEAN, NEW at \in Nat, isMain => b.stageExit \in Of(b, fn)
  PROVE  Plain(b, MakeDiscard(b, isMain, at), fn)
<1> DEFINE d == Emit(b, Event("discard", at))
           t == Br(b.stageExit)
           e == Terminate(d, t)
           f == CreateAndSetNoPredecessorBlock(e, "post-discard")
<1>0. Event("discard", at) \in EventType
  BY EventsType DEF EventNames
<1>1. /\ Plain(b, d, fn) /\ d.insert = b.insert
      /\ d.blocks[b.insert].term = b.blocks[b.insert].term
  BY <1>0, EmitLays, EmitTouches
<1>2. MakeDiscard(b, isMain, at) = IF Terminated(b) THEN b ELSE IF isMain THEN f ELSE d
  BY DEF MakeDiscard
<1> HIDE DEF d
<1>3. BuilderOK(d) /\ Sound(d) /\ d.insert \in Of(d, fn) /\ \A i \in Of(b, fn) : i \in Of(d, fn)
  BY <1>1, LaidOut DEF Plain
<1>4. CASE Terminated(b)
  BY <1>2, <1>4, PlainReflexive
<1>5. CASE ~ Terminated(b) /\ isMain
  <2>1. Open(d, d.insert)
    BY <1>1, <1>5 DEF Terminated, HasTerminator, Open
  <2>2. t \in TermType(Len(d.blocks)) /\ t.kind \notin {"none", "double"} /\ JumpsIn(d, t, fn)
    BY <1>3, <1>5, BrJumps
  <2> HIDE DEF t
  <2>3. Plain(d, e, fn)
    BY <1>3, <2>1, <2>2, TerminateLays
  <2> HIDE DEF e
  <2>4. Plain(b, e, fn)
    BY <1>1, <2>3, PlainThen DEF Plain
  <2>5. Plain(b, f, fn)
    BY <2>4, EndAndGoOnLays, "post-discard" \in BlockNames DEF BlockNames
  <2> QED
    BY <1>2, <1>5, <2>5
<1>6. CASE ~ Terminated(b) /\ ~ isMain
  BY <1>1, <1>2, <1>6
<1> QED
  BY <1>4, <1>5, <1>6

(* A jump out of the open insert block, and a dead block behind it or not. *)
LEMMA JumpLays ==
  ASSUME NEW b, BuilderOK(b), Sound(b), NEW fn, b.insert \in Of(b, fn), ~ Terminated(b),
         NEW blk \in Of(b, fn)
  PROVE  /\ Plain(b, Terminate(b, Br(blk)), fn)
         /\ \A name \in BlockNames :
              Plain(b, CreateAndSetNoPredecessorBlock(Terminate(b, Br(blk)), name), fn)
<1>1. Open(b, b.insert)
  BY DEF Terminated, HasTerminator, Open
<1>2. Plain(b, Terminate(b, Br(blk)), fn)
  BY <1>1, BrJumps, TerminateLays
<1> QED
  BY <1>2, EndAndGoOnLays

LEMMA MakeLoopBackEdgeLays ==
  ASSUME NEW b, BuilderOK(b), Sound(b), NEW fn, b.insert \in Of(b, fn),
         TopOf(b.loops).header \in Of(b, fn), NEW implicit \in BOOLEAN
  PROVE  Plain(b, MakeLoopBackEdge(b, implicit), fn)
<1> DEFINE h == TopOf(b.loops).header
           back == Terminate(b, Br(h))
           d == CreateAndSetNoPredecessorBlock(back, "post-loop-continue")
<1>1. CASE Terminated(b)
  BY <1>1, PlainReflexive DEF MakeLoopBackEdge
<1>2. CASE ~ Terminated(b)
  <2>1. MakeLoopBackEdge(b, implicit) = IF implicit THEN back ELSE d
    BY <1>2 DEF MakeLoopBackEdge
  <2>2. "post-loop-continue" \in BlockNames
    BY DEF BlockNames
  <2> HIDE DEF h
  <2>3. Plain(b, back, fn) /\ Plain(b, d, fn)
    BY <1>2, <2>2, JumpLays DEF h
  <2> QED
    BY <2>1, <2>3
<1> QED
  BY <1>1, <1>2

LEMMA MakeLoopExitLays ==
  ASSUME NEW b, BuilderOK(b), Sound(b), NEW fn, b.insert \in Of(b, fn),
         TopOf(b.loops).exit \in Of(b, fn)
  PROVE  Plain(b, MakeLoopExit(b), fn)
<1> DEFINE x == TopOf(b.loops).exit
           d == CreateAndSetNoPredecessorBlock(Terminate(b, Br(x)), "post-loop-break")
<1>1. CASE Terminated(b)
  BY <1>1, PlainReflexive DEF MakeLoopExit
<1>2. CASE ~ Terminated(b)
  <2>1. MakeLoopExit(b) = d
    BY <1>2 DEF MakeLoopExit
  <2>2. "post-loop-break" \in BlockNames
    BY DEF BlockNames
  <2> HIDE DEF x
  <2>3. Plain(b, d, fn)
    BY <1>2, <2>2, JumpLays DEF x
  <2> QED
    BY <2>1, <2>3
<1> QED
  BY <1>1, <1>2

LEMMA AddSwitchBreakLays ==
  ASSUME NEW b, BuilderOK(b), Sound(b), NEW fn, b.insert \in Of(b, fn),
         TopOf(b.switches) \in Of(b, fn)
  PROVE  Plain(b, AddSwitchBreak(b), fn)
<1> DEFINE c == CloseTo(b, TopOf(b.switches))
<1>1. Plain(b, c, fn)
  BY CloseToLays
<1>2. AddSwitchBreak(b) = CreateAndSetNoPredecessorBlock(c, "post-switch-break")
  BY DEF AddSwitchBreak
<1> HIDE DEF c
<1> QED
  BY <1>1, <1>2, EndAndGoOnLays, "post-switch-break" \in BlockNames DEF BlockNames

-----------------------------------------------------------------------------
(* Ifs. *)

LEMMA IfBeginLays ==
  ASSUME NEW b, BuilderOK(b), Sound(b), NEW fn, b.insert \in Of(b, fn)
  PROVE  LET c == IfBegin(b)
             n == Next1(b)
         IN  LaysOut(b, c, fn, {n + 1}, {}) /\ n \in Of(c, fn) /\ n + 1 \in Of(c, fn)
<1> DEFINE n == Next1(b)
           t == CreateIn(b, "then", fn)
           m == Create(t, "ifmerge", fn)
           c == SetInsertPoint(m, n)
<1>1. Parent(b) = fn /\ fn \in FunctionNames
  BY InsertType DEF Parent, Of
<1>2. IfBegin(b) = c
  BY <1>1 DEF IfBegin
<1>3. "then" \in BlockNames /\ "ifmerge" \in BlockNames
  BY DEF BlockNames
<1>4. Plain(b, t, fn) /\ n \in Of(t, fn) /\ Len(t.blocks) = n
  BY <1>1, <1>3, CreateInLays, CreateInTouches
<1> HIDE DEF n, t
<1>5. BuilderOK(t) /\ Sound(t) /\ t.insert \in Of(t, fn) /\ Next1(t) = n + 1
  BY <1>4, LaidOut DEF Plain, Next1
<1>6. LaysOut(t, m, fn, {n + 1}, {}) /\ n + 1 \in Of(m, fn)
  <2>1. LET k == Next1(t)
        IN  LaysOut(t, m, fn, {k}, {}) /\ k \in Of(m, fn)
    BY <1>1, <1>3, <1>5, CreateLays
  <2> HIDE DEF m
  <2> QED
    BY <1>5, <2>1
<1> HIDE DEF m
<1>7. BuilderOK(m) /\ Sound(m) /\ n \in Of(m, fn)
  BY <1>4, <1>6, LaidOut
<1>8. Plain(m, c, fn)
  BY <1>7, SetInsertLays
<1> HIDE DEF c
<1>9. LaysOut(b, m, fn, {n + 1}, {})
  BY <1>4, <1>6, PlainThen
<1>10. LaysOut(b, c, fn, {n + 1}, {})
  BY <1>8, <1>9, PlainThen
<1>11. n \in Of(c, fn) /\ n + 1 \in Of(c, fn)
  BY <1>6, <1>7, <1>8, LaidOut DEF Plain
<1> QED
  BY <1>2, <1>10, <1>11 DEF n

LEMMA MakeBeginElseLays ==
  ASSUME NEW b, BuilderOK(b), Sound(b), NEW fn, b.insert \in Of(b, fn),
         NEW if, if.merge \in Of(b, fn), if.header \in Of(b, fn)
  PROVE  LET c == MakeBeginElse(b, if)
         IN  Plain(b, c, fn) /\ Next1(b) \in Of(c, fn)
<1> DEFINE a == CloseTo(b, if.merge)
           n == Next1(b)
           e == CreateIn(a, "else", fn)
           c == SetInsertPoint(e, n)
<1>1. b.blocks[if.header].fn = fn /\ fn \in FunctionNames /\ if.merge \in Ids(b)
  BY InsertType DEF Of, Parent
<1>2. MakeBeginElse(b, if) = c
  BY <1>1 DEF MakeBeginElse
<1>3. Plain(b, a, fn) /\ Len(a.blocks) = Len(b.blocks)
  BY <1>1, CloseToLays, CloseToTouches
<1> HIDE DEF a
<1>4. BuilderOK(a) /\ Sound(a) /\ a.insert \in Of(a, fn) /\ Next1(a) = n
  BY <1>3, LaidOut DEF Plain, Next1
<1> HIDE DEF n
<1>5. Plain(a, e, fn) /\ n \in Of(e, fn)
  <2>1. "else" \in BlockNames
    BY DEF BlockNames
  <2>2. Plain(a, e, fn) /\ Next1(a) \in Of(e, fn)
    BY <1>1, <1>4, <2>1, CreateInLays
  <2> QED
    BY <1>4, <2>2
<1> HIDE DEF e
<1>6. Plain(e, c, fn)
  BY <1>5, LaidOut, SetInsertLays DEF Plain
<1> HIDE DEF c
<1>7. Plain(b, e, fn)
  BY <1>3, <1>5, PlainThen DEF Plain
<1>8. Plain(b, c, fn)
  BY <1>6, <1>7, PlainThen DEF Plain
<1>9. n \in Of(c, fn)
  BY <1>5, <1>6, LaidOut DEF Plain
<1> QED
  BY <1>2, <1>8, <1>9 DEF n

LEMMA MakeEndIfLays ==
  ASSUME NEW b, BuilderOK(b), Sound(b), NEW fn, b.insert \in Of(b, fn), NEW at \in Nat,
         NEW if, if.merge \in Of(b, fn), if.header \in Of(b, fn), if.then \in Of(b, fn),
         if.else # 0 => if.else \in Of(b, fn), Unplaced(b, if.merge)
  PROVE  LaysOut(b, MakeEndIf(b, if, at), fn, {}, {if.merge})
<1> DEFINE target == IF if.else # 0 THEN if.else ELSE if.merge
           m      == if.merge
           h      == if.header
           t      == Term("cond", <<if.then, target>>, at)
           a      == CloseTo(b, m)
           moved  == SetInsertPoint(a, h)
           split  == Terminate(moved, t)
           d      == IF HasTerminator(a, h) THEN a ELSE split
           p      == PushBack(d, m)
           c      == SetInsertPoint(p, m)
<1>0. target \in Of(b, fn)
  OBVIOUS
<1>1. MakeEndIf(b, if, at) = c
  BY DEF MakeEndIf
<1> HIDE DEF target, m, h
<1>2. Plain(b, a, fn)
  BY CloseToLays DEF m
<1> HIDE DEF a
<1>3. /\ BuilderOK(a) /\ Sound(a) /\ a.insert \in Of(a, fn)
      /\ m \in Of(a, fn) /\ h \in Of(a, fn) /\ if.then \in Of(a, fn) /\ target \in Of(a, fn)
  BY <1>0, <1>2, LaidOut DEF Plain, m, h
<1>4. Plain(a, d, fn)
  <2>1. CASE HasTerminator(a, h)
    BY <1>3, <2>1, PlainReflexive
  <2>2. CASE ~ HasTerminator(a, h)
    <3>1. Plain(a, moved, fn) /\ moved.insert = h /\ moved.blocks = a.blocks
      BY <1>3, SetInsertLays, SetInsertTouches DEF Of
    <3> HIDE DEF moved
    <3>2. /\ BuilderOK(moved) /\ Sound(moved) /\ moved.insert \in Of(moved, fn)
          /\ if.then \in Of(moved, fn) /\ target \in Of(moved, fn)
      BY <1>3, <3>1, LaidOut DEF Plain
    <3>3. Open(moved, moved.insert)
      BY <2>2, <3>1 DEF HasTerminator, Open
    <3>4. t \in TermType(Len(moved.blocks)) /\ t.kind \notin {"none", "double"}
      <4>1. if.then \in 1..Len(moved.blocks) /\ target \in 1..Len(moved.blocks)
        BY <3>2 DEF Of, Ids
      <4>2. Len(moved.blocks) \in Nat
        BY <3>2, LenNat
      <4> QED
        BY <4>1, <4>2, TermsType DEF Term
    <3>5. JumpsIn(moved, t, fn)
      BY <3>2 DEF JumpsIn, Term
    <3> HIDE DEF t
    <3>6. Plain(moved, split, fn)
      BY <3>2, <3>3, <3>4, <3>5, TerminateLays
    <3> HIDE DEF split
    <3>7. Plain(a, split, fn)
      BY <3>1, <3>6, PlainThen DEF Plain
    <3> QED
      BY <2>2, <3>7
  <2> QED
    BY <2>1, <2>2
<1> HIDE DEF d
<1>5. Plain(b, d, fn)
  BY <1>2, <1>4, PlainThen DEF Plain
<1>6. /\ BuilderOK(d) /\ Sound(d) /\ d.insert \in Of(d, fn) /\ m \in Of(d, fn)
      /\ Unplaced(d, m)
  BY <1>5, LaidOut DEF Plain, m
<1>7. LaysOut(d, p, fn, {}, {m})
  BY <1>6, PushBackLays
<1> HIDE DEF p
<1>8. Plain(p, c, fn)
  BY <1>6, <1>7, LaidOut, SetInsertLays
<1> HIDE DEF c
<1>9. LaysOut(b, p, fn, {}, {m})
  BY <1>5, <1>7, PlainThen
<1>10. LaysOut(b, c, fn, {}, {m})
  BY <1>8, <1>9, PlainThen
<1> QED
  BY <1>1, <1>10 DEF m

-----------------------------------------------------------------------------
(* Loops. *)

(* A builder that differs in its stacks lays out the same blocks. *)
LEMMA StacksLay ==
  ASSUME NEW b, BuilderOK(b), Sound(b), NEW fn, b.insert \in Of(b, fn),
         NEW c, BuilderOK(c), c.blocks = b.blocks, c.layout = b.layout, c.insert = b.insert
  PROVE  Plain(b, c, fn)
<1>1. Ids(c) = Ids(b) /\ \A g : Of(c, g) = Of(b, g)
  BY DEF Ids, Of
<1>2. Sound(c)
  BY <1>1 DEF Sound, JumpsIn
<1> QED
  BY <1>1, <1>2 DEF Plain, LaysOut, Unplaced

LEMMA LoopPushed ==
  ASSUME NEW b, BuilderOK(b), NEW entry \in LoopType(Len(b.blocks))
  PROVE  LET c == [b EXCEPT !.loops = Append(@, entry)]
         IN  /\ BuilderOK(c) /\ c.blocks = b.blocks /\ c.layout = b.layout
             /\ c.insert = b.insert
<1> DEFINE n == Len(b.blocks)
           l == Append(b.loops, entry)
           c == [b EXCEPT !.loops = Append(@, entry)]
<1>1. b \in BuilderType(n) /\ l \in Seq(LoopType(n))
  BY DEF BuilderOK, BuilderType
<1>2. c = [b EXCEPT !.loops = l]
  OBVIOUS
<1> HIDE DEF n, l, c
<1>3. /\ c \in BuilderType(n) /\ c.blocks = b.blocks /\ c.layout = b.layout
      /\ c.insert = b.insert
  BY <1>1, <1>2 DEF BuilderType
<1> QED
  BY <1>3 DEF BuilderOK, n, c

LEMMA MakeNewLoopLays ==
  ASSUME NEW b, BuilderOK(b), Sound(b), NEW fn, b.insert \in Of(b, fn)
  PROVE  LET c == MakeNewLoop(b)
             n == Next1(b)
         IN  LaysOut(b, c, fn, {n + 1}, {}) /\ n \in Of(c, fn) /\ n + 1 \in Of(c, fn)
<1> DEFINE n      == Next1(b)
           t      == CreateIn(b, "loop-header", fn)
           m      == Create(t, "loop-merge", fn)
           entry  == [header |-> n, exit |-> n + 1]
           pushed == [m EXCEPT !.loops = Append(@, entry)]
           a      == CloseTo(pushed, n)
           c      == SetInsertPoint(a, n)
<1>1. Parent(b) = fn /\ fn \in FunctionNames
  BY InsertType DEF Parent, Of
<1>2. MakeNewLoop(b) = c
  BY <1>1 DEF MakeNewLoop
<1>3. "loop-header" \in BlockNames /\ "loop-merge" \in BlockNames
  BY DEF BlockNames
<1>4. Plain(b, t, fn) /\ n \in Of(t, fn) /\ Len(t.blocks) = n
  BY <1>1, <1>3, CreateInLays, CreateInTouches
<1> HIDE DEF n, t
<1>5. BuilderOK(t) /\ Sound(t) /\ t.insert \in Of(t, fn) /\ Next1(t) = n + 1
  BY <1>4, LaidOut DEF Plain, Next1
<1>6. LaysOut(t, m, fn, {n + 1}, {}) /\ n + 1 \in Of(m, fn)
  <2>1. LET k == Next1(t)
        IN  LaysOut(t, m, fn, {k}, {}) /\ k \in Of(m, fn)
    BY <1>1, <1>3, <1>5, CreateLays
  <2> HIDE DEF m
  <2> QED
    BY <1>5, <2>1
<1> HIDE DEF m
<1>7. /\ BuilderOK(m) /\ Sound(m) /\ m.insert \in Of(m, fn)
      /\ n \in Of(m, fn) /\ n + 1 \in Of(m, fn)
  BY <1>4, <1>6, LaidOut
<1>8. Plain(m, pushed, fn)
  <2>1. entry \in LoopType(Len(m.blocks))
    BY <1>7 DEF LoopType, Of, Ids
  <2> HIDE DEF entry
  <2>2. /\ BuilderOK(pushed) /\ pushed.blocks = m.blocks /\ pushed.layout = m.layout
        /\ pushed.insert = m.insert
    BY <1>7, <2>1, LoopPushed
  <2> HIDE DEF pushed
  <2> QED
    BY <1>7, <2>2, StacksLay
<1> HIDE DEF pushed
<1>9. /\ BuilderOK(pushed) /\ Sound(pushed) /\ pushed.insert \in Of(pushed, fn)
      /\ n \in Of(pushed, fn)
  BY <1>7, <1>8, LaidOut DEF Plain
<1>10. Plain(pushed, a, fn)
  BY <1>9, CloseToLays
<1> HIDE DEF a
<1>11. Plain(a, c, fn)
  BY <1>9, <1>10, LaidOut, SetInsertLays DEF Plain
<1> HIDE DEF c
<1>12. LaysOut(b, m, fn, {n + 1}, {})
  BY <1>4, <1>6, PlainThen
<1>13. LaysOut(b, pushed, fn, {n + 1}, {})
  BY <1>8, <1>12, PlainThen
<1>14. LaysOut(b, a, fn, {n + 1}, {})
  BY <1>10, <1>13, PlainThen
<1>15. LaysOut(b, c, fn, {n + 1}, {})
  BY <1>11, <1>14, PlainThen
<1>16. n \in Of(c, fn) /\ n + 1 \in Of(c, fn)
  <2>1. n \in Of(pushed, fn) /\ n + 1 \in Of(pushed, fn)
    BY <1>7, <1>8, LaidOut DEF Plain
  <2>2. n \in Of(a, fn) /\ n + 1 \in Of(a, fn)
    BY <1>10, <2>1, LaidOut DEF Plain
  <2> QED
    BY <1>11, <2>2, LaidOut DEF Plain
<1> QED
  BY <1>2, <1>15, <1>16 DEF n

LEMMA CloseLoopLays ==
  ASSUME NEW b, BuilderOK(b), Sound(b), NEW fn, b.insert \in Of(b, fn), b.loops # <<>>,
         TopOf(b.loops).header \in Of(b, fn), TopOf(b.loops).exit \in Of(b, fn),
         Unplaced(b, TopOf(b.loops).exit)
  PROVE  LaysOut(b, CloseLoop(b), fn, {}, {TopOf(b.loops).exit})
<1> DEFINE a == IF Terminated(b) THEN b ELSE MakeLoopBackEdge(b, TRUE)
           x == TopOf(b.loops).exit
           p == PushBack(a, x)
           c == SetInsertPoint(p, x)
           d == [c EXCEPT !.loops = Pop(@)]
<1>1. CloseLoop(b) = d
  BY DEF CloseLoop
<1>2. Plain(b, a, fn)
  BY PlainReflexive, MakeLoopBackEdgeLays
<1>0. x \in Of(b, fn) /\ Unplaced(b, x)
  OBVIOUS
<1> HIDE DEF a, x
<1>3. /\ BuilderOK(a) /\ Sound(a) /\ a.insert \in Of(a, fn) /\ Unplaced(a, x)
      /\ x \in Of(a, fn)
  BY <1>0, <1>2, LaidOut DEF Plain
<1>4. LaysOut(a, p, fn, {}, {x})
  BY <1>3, PushBackLays
<1> HIDE DEF p
<1>5. Plain(p, c, fn)
  BY <1>3, <1>4, LaidOut, SetInsertLays
<1>6. d = [c EXCEPT !.loops = Pop(c.loops)]
  OBVIOUS
<1> HIDE DEF c, d
<1>7. BuilderOK(d)
  <2>1. Builds(b, CloseLoop(b))
    BY CloseLoopBuilds
  <2> QED
    BY <1>1, <2>1 DEF Builds
<1>8. BuilderOK(c) /\ Sound(c) /\ c.insert \in Of(c, fn)
  BY <1>5, LaidOut DEF Plain
<1>9. d.blocks = c.blocks /\ d.layout = c.layout /\ d.insert = c.insert
  BY <1>6, <1>8 DEF BuilderOK, BuilderType
<1>10. Plain(c, d, fn)
  BY <1>7, <1>8, <1>9, StacksLay
<1>11. LaysOut(b, p, fn, {}, {x})
  BY <1>2, <1>4, PlainThen
<1>12. LaysOut(b, c, fn, {}, {x})
  BY <1>5, <1>11, PlainThen
<1>13. LaysOut(b, d, fn, {}, {x})
  BY <1>10, <1>12, PlainThen
<1> QED
  BY <1>1, <1>13 DEF x

(* if (! condition) break; *)
LEMMA LoopTestLays ==
  ASSUME NEW b, BuilderOK(b), Sound(b), NEW fn, b.insert \in Of(b, fn), b.loops # <<>>,
         TopOf(b.loops).exit \in Of(b, fn), NEW at \in Nat
  PROVE  Plain(b, MakeEndIf(MakeLoopExit(IfBegin(b)), IfObject(b), at), fn)
<1> DEFINE n  == Next1(b)
           i  == IfBegin(b)
           e  == MakeLoopExit(i)
           if == IfObject(b)
           c  == MakeEndIf(e, if, at)
<1>1. /\ LaysOut(b, i, fn, {n + 1}, {}) /\ n \in Of(i, fn) /\ n + 1 \in Of(i, fn)
      /\ i.loops = b.loops /\ n + 1 \notin Ids(b)
  <2>1. n + 1 \notin Ids(b)
    <3>1. Len(b.blocks) \in Nat /\ n = Len(b.blocks) + 1
      BY LenNat DEF Next1
    <3> QED
      BY <3>1 DEF Ids
  <2>2. LaysOut(b, i, fn, {n + 1}, {}) /\ n \in Of(i, fn) /\ n + 1 \in Of(i, fn)
    BY IfBeginLays
  <2>3. i.loops = b.loops
    BY IfBeginTouches
  <2> QED
    BY <2>1, <2>2, <2>3
<1>2. if.header = b.insert /\ if.then = n /\ if.else = 0 /\ if.merge = n + 1
  BY DEF IfObject
<1> HIDE DEF n, i, if
<1>3. /\ BuilderOK(i) /\ Sound(i) /\ i.insert \in Of(i, fn) /\ b.insert \in Of(i, fn)
      /\ TopOf(i.loops).exit \in Of(i, fn) /\ Unplaced(i, n + 1)
  BY <1>1, LaidOut
<1>4. Plain(i, e, fn)
  BY <1>3, MakeLoopExitLays
<1> HIDE DEF e
<1>5. /\ BuilderOK(e) /\ Sound(e) /\ e.insert \in Of(e, fn)
      /\ if.header \in Of(e, fn) /\ if.then \in Of(e, fn) /\ if.merge \in Of(e, fn)
      /\ Unplaced(e, if.merge)
  BY <1>1, <1>2, <1>3, <1>4, LaidOut DEF Plain
<1>6. LaysOut(e, c, fn, {}, {if.merge})
  BY <1>2, <1>5, MakeEndIfLays
<1> HIDE DEF c
<1>7. LaysOut(b, e, fn, {n + 1}, {})
  BY <1>1, <1>4, PlainThen
<1>8. Plain(b, c, fn)
  <2>1. /\ \A k : k \in {} <=> k \in {} \/ (k \in {n + 1} /\ k \notin {n + 1})
        /\ \A k \in Ids(b) : k \in {} <=> k \in {} \/ k \in {n + 1}
    BY <1>1
  <2> QED
    BY <1>2, <1>6, <1>7, <2>1, LaysOutThen DEF Plain
<1> QED
  BY <1>8 DEF c, e, i, if

-----------------------------------------------------------------------------
(* Switches. *)

(* The blocks of a switch follow the old ones, in the layout too. *)
Behind(k, m, old, lay) ==
  /\ old \in Seq(1..k) /\ Len(lay) = Len(old) + m
  /\ \A j \in 1..Len(old) : lay[j] = old[j]
  /\ \A s \in 1..m : lay[Len(old) + s] = k + s
NoneTwice(lay)  == \A j, l \in 1..Len(lay) : lay[j] = lay[l] => j = l
Missing(lay, i) == \A j \in 1..Len(lay) : lay[j] # i

LEMMA LaidBehind ==
  ASSUME NEW k \in Nat, NEW m \in Nat, NEW old, NEW lay, Behind(k, m, old, lay)
  PROVE  /\ NoneTwice(old) => NoneTwice(lay)
         /\ \A i : Missing(lay, i) <=> i \notin (k + 1)..(k + m) /\ Missing(old, i)
<1> DEFINE n == Len(old)
<1>1. n \in Nat /\ \A j \in 1..n : lay[j] \in 1..k /\ lay[j] = old[j]
  BY DEF Behind
<1>2. Len(lay) = n + m /\ \A s \in 1..m : lay[n + s] = k + s
  BY DEF Behind
<1> HIDE DEF n
<1>3. \A j \in 1..(n + m) : j \in 1..n \/ (j - n \in 1..m /\ j = n + (j - n))
  BY <1>1
<1>4. \A j \in 1..(n + m) : j \notin 1..n => lay[j] = k + (j - n) /\ j - n \in 1..m
  BY <1>2, <1>3
<1>5. ASSUME \A j, l \in 1..n : old[j] = old[l] => j = l,
             NEW j \in 1..(n + m), NEW l \in 1..(n + m), lay[j] = lay[l]
      PROVE  j = l
  <2>1. CASE j \in 1..n /\ l \in 1..n
    BY <1>1, <1>5, <2>1
  <2>2. CASE j \in 1..n /\ l \notin 1..n
    <3>1. lay[j] \in 1..k /\ lay[l] = k + (l - n) /\ l - n \in 1..m
      BY <1>1, <1>4, <2>2
    <3> QED
      BY <1>1, <1>5, <3>1
  <2>3. CASE j \notin 1..n /\ l \in 1..n
    <3>1. lay[l] \in 1..k /\ lay[j] = k + (j - n) /\ j - n \in 1..m
      BY <1>1, <1>4, <2>3
    <3> QED
      BY <1>1, <1>5, <3>1
  <2>4. CASE j \notin 1..n /\ l \notin 1..n
    <3>1. lay[l] = k + (l - n) /\ lay[j] = k + (j - n)
      BY <1>4, <2>4
    <3> QED
      BY <1>1, <1>5, <3>1
  <2> QED
    BY <2>1, <2>2, <2>3, <2>4
<1>6. ASSUME NEW i
      PROVE  (\A j \in 1..(n + m) : lay[j] # i)
               <=> i \notin (k + 1)..(k + m) /\ \A j \in 1..n : old[j] # i
  <2>1. ASSUME \A j \in 1..(n + m) : lay[j] # i
        PROVE  i \notin (k + 1)..(k + m) /\ \A j \in 1..n : old[j] # i
    <3>1. \A s \in 1..m : n + s \in 1..(n + m)
      BY <1>1
    <3>2. \A s \in 1..m : k + s # i
      BY <1>2, <2>1, <3>1
    <3>3. i \in (k + 1)..(k + m) => i - k \in 1..m /\ i = k + (i - k)
      OBVIOUS
    <3>4. \A j \in 1..n : j \in 1..(n + m)
      BY <1>1
    <3> QED
      BY <1>1, <2>1, <3>2, <3>3, <3>4
  <2>2. ASSUME i \notin (k + 1)..(k + m), \A j \in 1..n : old[j] # i, NEW j \in 1..(n + m)
        PROVE  lay[j] # i
    <3>1. CASE j \in 1..n
      BY <1>1, <2>2, <3>1
    <3>2. CASE j \notin 1..n
      <4>1. lay[j] = k + (j - n) /\ j - n \in 1..m
        BY <1>4, <3>2
      <4>2. k + (j - n) \in (k + 1)..(k + m)
        <5> DEFINE s == j - n
        <5>1. s \in 1..m
          BY <4>1
        <5> HIDE DEF s
        <5>2. k + s \in (k + 1)..(k + m)
          BY <5>1
        <5> QED
          BY <5>2 DEF s
      <4> QED
        BY <2>2, <4>1, <4>2
    <3> QED
      BY <3>1, <3>2
  <2> QED
    BY <2>1, <2>2
<1> QED
  BY <1>2, <1>5, <1>6 DEF n, NoneTwice, Missing

(* What makeSwitch has made before it ends the block it is in. *)
Segmented(b, n) ==
  [b EXCEPT !.blocks = @ \o [s \in 1..n |-> NewBlock("switch-segment", Parent(b))]
                         \o <<NewBlock("switch-merge", Parent(b))>>,
            !.layout = @ \o SegmentBlocks(b, n) \o <<Len(b.blocks) + n + 1>>]

LEMMA SegmentedFields ==
  ASSUME NEW b, BuilderOK(b), NEW n \in Nat \ {0}
  PROVE  LET c == Segmented(b, n)
             k == Len(b.blocks)
             L == Len(b.layout)
         IN  /\ BuilderOK(c) /\ c.insert = b.insert
             /\ Len(c.blocks) = k + n + 1 /\ Len(c.layout) = L + (n + 1)
             /\ \A i \in 1..k : c.blocks[i] = b.blocks[i]
             /\ \A s \in 1..(n + 1) : /\ c.blocks[k + s].fn = Parent(b)
                                      /\ c.blocks[k + s].term = NoTerm
             /\ \A j \in 1..L : c.layout[j] = b.layout[j]
             /\ \A s \in 1..(n + 1) : c.layout[L + s] = k + s
<1> DEFINE k     == Len(b.blocks)
           L     == Len(b.layout)
           m     == k + n + 1
           fn    == Parent(b)
           seg   == SegmentBlocks(b, n)
           more  == [s \in 1..n |-> NewBlock("switch-segment", fn)]
           last  == NewBlock("switch-merge", fn)
           blks  == b.blocks \o more \o <<last>>
           lay   == b.layout \o seg \o <<m>>
           c     == [b EXCEPT !.blocks = blks, !.layout = lay]
<1>0. Segmented(b, n) = c
  BY DEF Segmented
<1>1. b \in BuilderType(k) /\ k \in Nat /\ m \in Nat /\ k <= m /\ m \in 1..m
  BY LenNat DEF BuilderOK
<1>2. b \in BuilderType(m)
  BY <1>1, BuilderMonotone
<1>a. m = k + n + 1
  OBVIOUS
<1>3. /\ seg \in Seq(1..m) /\ Len(seg) = n /\ \A s \in 1..n : seg[s] = k + s
  <2>1. \A s \in 1..n : k + s \in 1..m
    BY <1>1
  <2> HIDE DEF k, m
  <2>2. seg = [s \in 1..n |-> k + s]
    BY DEF SegmentBlocks, k
  <2> HIDE DEF seg
  <2> QED
    BY <2>1, <2>2
<1>4. /\ last \in BlockType(m) /\ more \in Seq(BlockType(m)) /\ Len(more) = n
      /\ b.blocks \in Seq(BlockType(m)) /\ b.layout \in Seq(1..m)
      /\ \A s \in 1..n : more[s] = NewBlock("switch-segment", fn)
  <2>1. fn \in FunctionNames
    BY InsertType
  <2>2. \A nm \in BlockNames : NewBlock(nm, fn) \in BlockType(m)
    BY <1>1, <2>1 DEF NewBlock, NoTerm, Term, BlockType, TermType, TermKinds
  <2>3. last \in BlockType(m) /\ more \in Seq(BlockType(m)) /\ Len(more) = n
    BY <2>2 DEF BlockNames
  <2> QED
    BY <1>2, <2>3 DEF BuilderType
<1>b. /\ last.fn = fn /\ last.term = NoTerm
      /\ \A nm : NewBlock(nm, fn).fn = fn /\ NewBlock(nm, fn).term = NoTerm
  BY DEF NewBlock
<1> HIDE DEF more, last, seg, m
<1>5. /\ blks \in Seq(BlockType(m)) /\ Len(blks) = k + n + 1
      /\ \A i \in 1..k : blks[i] = b.blocks[i]
      /\ \A s \in 1..n : blks[k + s] = more[s]
      /\ blks[k + n + 1] = last
  BY <1>4, MoreBlocks
<1>6. /\ lay \in Seq(1..m) /\ Len(lay) = L + n + 1
      /\ \A i \in 1..L : lay[i] = b.layout[i]
      /\ \A s \in 1..n : lay[L + s] = seg[s]
      /\ lay[L + n + 1] = m
  <2> DEFINE S == 1..m
             old == b.layout
  <2>1. old \in Seq(S) /\ seg \in Seq(S) /\ Len(seg) = n /\ m \in S /\ n \in Nat
    BY <1>1, <1>3, <1>4
  <2> HIDE DEF S, old, k
  <2>2. LET s == old \o seg \o <<m>>
        IN  /\ s \in Seq(S) /\ Len(s) = Len(old) + n + 1
            /\ \A i \in 1..Len(old) : s[i] = old[i]
            /\ \A i \in 1..n : s[Len(old) + i] = seg[i]
            /\ s[Len(old) + n + 1] = m
    BY <2>1, MoreBlocks
  <2> QED
    BY <2>2 DEF S, old
<1>7. L \in Nat
  BY <1>4
<1>8. c = [blocks |-> blks, layout |-> lay, insert |-> b.insert, loops |-> b.loops,
           switches |-> b.switches, stageEpilogue |-> b.stageEpilogue,
           stageExit |-> b.stageExit]
  <2> HIDE DEF blks, lay
  <2> QED
    BY BlocksAndLayout
<1> HIDE DEF blks, lay, c, k, L, fn
<1>9. c.blocks = blks /\ c.layout = lay /\ c.insert = b.insert
  BY <1>8
<1>10. BuilderOK(c)
  <2>1. c \in BuilderType(m)
    BY <1>2, <1>5, <1>6, <1>8 DEF BuilderType
  <2> QED
    BY <1>5, <1>9, <1>a, <2>1 DEF BuilderOK
<1>11. \A s \in 1..(n + 1) : s \in 1..n \/ s = n + 1
  OBVIOUS
<1>12. k + (n + 1) = k + n + 1 /\ L + (n + 1) = L + n + 1
  BY <1>1, <1>7
<1>13. \A s \in 1..(n + 1) : c.blocks[k + s].fn = fn /\ c.blocks[k + s].term = NoTerm
  BY SMTT(60), <1>4, <1>5, <1>9, <1>b, <1>11, <1>12
<1>14. \A s \in 1..(n + 1) : c.layout[L + s] = k + s
  BY <1>3, <1>6, <1>9, <1>a, <1>11, <1>12
<1> QED
  BY <1>0, <1>5, <1>6, <1>9, <1>10, <1>12, <1>13, <1>14 DEF k, L, fn

LEMMA SegmentedLays ==
  ASSUME NEW b, BuilderOK(b), Sound(b), NEW fn, b.insert \in Of(b, fn), NEW n \in Nat \ {0}
  PROVE  LET c == Segmented(b, n)
         IN  /\ Plain(b, c, fn)
             /\ \A i \in (Len(b.blocks) + 1)..(Len(b.blocks) + n + 1) : i \in Of(c, fn)
<1> DEFINE c == Segmented(b, n)
           k == Len(b.blocks)
           L == Len(b.layout)
           m == n + 1
<1>1. Parent(b) = fn
  BY DEF Parent, Of
<1>2. /\ BuilderOK(c) /\ c.insert = b.insert
      /\ Len(c.blocks) = k + n + 1 /\ Len(c.layout) = L + m
      /\ \A i \in 1..k : c.blocks[i] = b.blocks[i]
      /\ \A s \in 1..m : c.blocks[k + s].fn = fn /\ c.blocks[k + s].term = NoTerm
      /\ \A j \in 1..L : c.layout[j] = b.layout[j]
      /\ \A s \in 1..m : c.layout[L + s] = k + s
  BY ZenonT(60), <1>1, SegmentedFields
<1>3. k \in Nat /\ m \in Nat /\ k + n + 1 = k + m /\ b.layout \in Seq(1..k)
  BY LenNat DEF BuilderOK, BuilderType
<1>4. /\ Ids(b) = 1..k /\ Ids(c) = 1..(k + m)
  BY <1>2, <1>3 DEF Ids
<1>5. /\ (\A j, l \in 1..L : b.layout[j] = b.layout[l] => j = l)
           => \A j, l \in 1..Len(c.layout) : c.layout[j] = c.layout[l] => j = l
      /\ \A i : (\A j \in 1..Len(c.layout) : c.layout[j] # i)
                  <=> i \notin (k + 1)..(k + m) /\ \A j \in 1..L : b.layout[j] # i
  <2>1. Behind(k, m, b.layout, c.layout)
    BY <1>2, <1>3 DEF Behind
  <2> HIDE DEF c, m, k, L
  <2>2. /\ NoneTwice(b.layout) => NoneTwice(c.layout)
        /\ \A i : Missing(c.layout, i) <=> i \notin (k + 1)..(k + m) /\ Missing(b.layout, i)
    BY <1>3, <2>1, LaidBehind
  <2> QED
    BY <2>2 DEF NoneTwice, Missing, L
<1>a. /\ b.insert \in Of(b, fn)
      /\ \A i : Unplaced(b, i) <=> i \in Ids(b) /\ \A j \in 1..L : b.layout[j] # i
      /\ \A i : Unplaced(c, i) <=> i \in Ids(c) /\ \A j \in 1..Len(c.layout) : c.layout[j] # i
  BY DEF Unplaced
<1> HIDE DEF c, k, L, m
<1>6. /\ \A i \in 1..(k + m) : i \in 1..k \/ i \in (k + 1)..(k + m)
      /\ \A i \in (k + 1)..(k + m) : i \in 1..(k + m) /\ i \notin 1..k
      /\ \A i \in 1..k : i \in 1..(k + m) /\ i \notin (k + 1)..(k + m)
  BY <1>3
<1>7. \A i \in (k + 1)..(k + m) : c.blocks[i].fn = fn /\ c.blocks[i].term = NoTerm
  <2>1. \A i \in (k + 1)..(k + m) : i - k \in 1..m /\ i = k + (i - k)
    BY <1>3
  <2> QED
    BY <1>2, <2>1
<1>8. \A i \in (k + 1)..(k + m) : i \in Of(c, fn)
  BY <1>4, <1>6, <1>7 DEF Of
<1>9. \A g : \A i \in Of(b, g) : i \in Of(c, g)
  BY <1>2, <1>4, <1>6 DEF Of
<1>10. Sound(c)
  <2>1. ASSUME NEW i \in 1..(k + m)
        PROVE  /\ c.blocks[i].term.kind # "double"
               /\ JumpsIn(c, c.blocks[i].term, c.blocks[i].fn)
    <3>1. CASE i \in 1..k
      BY <1>2, <1>4, <1>9, <3>1 DEF Sound, JumpsIn
    <3>2. CASE i \in (k + 1)..(k + m)
      BY <1>7, <3>2 DEF NoTerm, Term, JumpsIn
    <3> QED
      BY <1>6, <3>1, <3>2
  <2> QED
    BY <1>4, <1>5, <2>1 DEF Sound, L
<1>11. \A i : Unplaced(c, i) <=> Unplaced(b, i)
  <2>1. ASSUME NEW i PROVE Unplaced(c, i) <=> Unplaced(b, i)
    <3>1. Unplaced(c, i) <=> /\ i \in 1..(k + m) /\ i \notin (k + 1)..(k + m)
                             /\ \A j \in 1..L : b.layout[j] # i
      BY <1>4, <1>5, <1>a
    <3>2. i \in 1..(k + m) /\ i \notin (k + 1)..(k + m) <=> i \in 1..k
      BY <1>6
    <3> QED
      BY <1>4, <1>a, <3>1, <3>2
  <2> QED
    BY <2>1
<1>12. Plain(b, c, fn)
  <2>1. c.insert \in Of(c, fn)
    BY <1>2, <1>9, <1>a
  <2>2. /\ \A i \in Ids(b) : i \in Ids(c) /\ c.blocks[i].fn = b.blocks[i].fn
        /\ \A i \in Ids(c) : i \in Ids(b) \/ c.blocks[i].fn = fn
    BY <1>2, <1>4, <1>6, <1>7
  <2>3. \A i : Unplaced(c, i) <=> i \in {} \/ (Unplaced(b, i) /\ i \notin {})
    BY <1>11
  <2> QED
    BY <1>2, <1>10, <2>1, <2>2, <2>3 DEF Plain, LaysOut
<1>13. (Len(b.blocks) + 1)..(Len(b.blocks) + n + 1) = (k + 1)..(k + m)
  BY <1>3 DEF k
<1> QED
  BY <1>8, <1>12, <1>13 DEF c

(* Every target of a switch is one of the blocks made for it. *)
LEMMA SwitchTargets ==
  ASSUME NEW b, BuilderOK(b), NEW n \in Nat \ {0},
         NEW values \in Seq(0..(n - 1)), NEW default \in -1..(n - 1)
  PROVE  LET k     == Len(b.blocks)
             seg   == SegmentBlocks(b, n)
             cases == [i \in DOMAIN values |-> seg[values[i] + 1]]
             dflt  == IF default >= 0 THEN seg[default + 1] ELSE k + n + 1
         IN  Append(cases, dflt) \in Seq((k + 1)..(k + n + 1))
<1> DEFINE k     == Len(b.blocks)
           new   == (k + 1)..(k + n + 1)
           seg   == SegmentBlocks(b, n)
           cases == [i \in DOMAIN values |-> seg[values[i] + 1]]
           dflt  == IF default >= 0 THEN seg[default + 1] ELSE k + n + 1
<1>1. k \in Nat
  BY LenNat
<1>2. \A s \in 1..n : seg[s] = k + s
  BY DEF SegmentBlocks
<1> HIDE DEF k, seg
<1>3. \A s \in 1..n : seg[s] \in new
  BY <1>1, <1>2
<1>4. \A i \in DOMAIN values : values[i] + 1 \in 1..n
  OBVIOUS
<1>5. default >= 0 => default + 1 \in 1..n
  OBVIOUS
<1>6. k + n + 1 \in new
  BY <1>1
<1> HIDE DEF new
<1>7. cases \in Seq(new)
  BY SMTT(60), <1>3, <1>4
<1>8. dflt \in new
  BY <1>3, <1>5, <1>6
<1> HIDE DEF cases, dflt
<1>9. Append(cases, dflt) \in Seq(new)
  BY <1>7, <1>8
<1> QED
  BY <1>9 DEF cases, dflt, new, seg, k

LEMMA MakeSwitchLays ==
  ASSUME NEW b, BuilderOK(b), Sound(b), NEW fn, b.insert \in Of(b, fn),
         NEW n \in Nat \ {0}, NEW values \in Seq(0..(n - 1)), NEW default \in -1..(n - 1),
         NEW at \in Nat
  PROVE  LET c == MakeSwitch(b, n, values, default, at)
         IN  /\ Plain(b, c, fn)
             /\ \A i \in (Len(b.blocks) + 1)..(Len(b.blocks) + n + 1) : i \in Of(c, fn)
<1> DEFINE k     == Len(b.blocks)
           m     == k + n + 1
           new   == (k + 1)..m
           seg   == SegmentBlocks(b, n)
           made  == Segmented(b, n)
           cases == [i \in DOMAIN values |-> seg[values[i] + 1]]
           dflt  == IF default >= 0 THEN seg[default + 1] ELSE m
           to    == Append(cases, dflt)
           t     == Term("switch", to, at)
           split == IF Terminated(made) THEN made ELSE Terminate(made, t)
           c     == [split EXCEPT !.switches = Append(@, m)]
<1>1. MakeSwitch(b, n, values, default, at) = c
  BY DEF MakeSwitch, Segmented
<1>2. Plain(b, made, fn) /\ \A i \in new : i \in Of(made, fn)
  BY SegmentedLays
<1>3. to \in Seq(new)
  BY SwitchTargets
<1>4. Builds(b, c)
  <2>1. Builds(b, MakeSwitch(b, n, values, default, at))
    BY MakeSwitchBuilds
  <2> QED
    BY <1>1, <2>1
<1>5. c = [split EXCEPT !.switches = Append(split.switches, m)]
  OBVIOUS
<1>a. new = (Len(b.blocks) + 1)..(Len(b.blocks) + n + 1)
  OBVIOUS
<1> HIDE DEF c, to, made, new, m
<1>6. BuilderOK(made) /\ Sound(made) /\ made.insert \in Of(made, fn)
  BY <1>2, LaidOut DEF Plain
<1>7. t \in TermType(Len(made.blocks)) /\ t.kind \notin {"none", "double"} /\ JumpsIn(made, t, fn)
  <2>1. \A i \in new : i \in 1..Len(made.blocks)
    BY <1>2 DEF Of, Ids
  <2>2. to \in Seq(1..Len(made.blocks))
    BY <1>3, <2>1, SeqSubset
  <2>3. \A i \in DOMAIN to : to[i] \in new
    BY <1>3
  <2> QED
    BY <1>2, <2>2, <2>3 DEF Term, TermType, TermKinds, JumpsIn
<1> HIDE DEF t
<1>8. Plain(made, split, fn)
  <2>1. CASE Terminated(made)
    BY <1>6, <2>1, PlainReflexive
  <2>2. CASE ~ Terminated(made)
    <3>1. Open(made, made.insert)
      BY <2>2 DEF Terminated, HasTerminator, Open
    <3> QED
      BY <1>6, <1>7, <2>2, <3>1, TerminateLays
  <2> QED
    BY <2>1, <2>2
<1> HIDE DEF split
<1>9. BuilderOK(split) /\ Sound(split) /\ split.insert \in Of(split, fn)
  BY <1>8, LaidOut DEF Plain
<1>10. c.blocks = split.blocks /\ c.layout = split.layout /\ c.insert = split.insert
  BY <1>5, <1>9 DEF BuilderOK, BuilderType
<1>11. Plain(split, c, fn)
  BY <1>4, <1>9, <1>10, StacksLay DEF Builds
<1>12. Plain(b, split, fn)
  BY <1>2, <1>8, PlainThen DEF Plain
<1>13. Plain(b, c, fn)
  BY <1>11, <1>12, PlainThen DEF Plain
<1>14. \A i \in new : i \in Of(c, fn)
  BY <1>2, <1>8, <1>11, LaidOut DEF Plain
<1> QED
  BY <1>1, <1>13, <1>14, <1>a

LEMMA NextSwitchSegmentLays ==
  ASSUME NEW b, BuilderOK(b), Sound(b), NEW fn, b.insert \in Of(b, fn),
         NEW segments, NEW s, segments[s] \in Of(b, fn)
  PROVE  Plain(b, NextSwitchSegment(b, segments, s), fn)
<1> DEFINE x == segments[s]
           a == IF s > 1 THEN CloseTo(b, x) ELSE b
           c == SetInsertPoint(a, x)
<1>1. NextSwitchSegment(b, segments, s) = c
  BY DEF NextSwitchSegment
<1>2. x \in Of(b, fn)
  OBVIOUS
<1> HIDE DEF x
<1>3. Plain(b, a, fn)
  BY <1>2, CloseToLays, PlainReflexive
<1> HIDE DEF a
<1>4. Plain(a, c, fn)
  BY <1>2, <1>3, LaidOut, SetInsertLays DEF Plain
<1> HIDE DEF c
<1>5. Plain(b, c, fn)
  BY <1>3, <1>4, PlainThen DEF Plain
<1> QED
  BY <1>1, <1>5

LEMMA EndSwitchLays ==
  ASSUME NEW b, BuilderOK(b), Sound(b), NEW fn, b.insert \in Of(b, fn), b.switches # <<>>,
         TopOf(b.switches) \in Of(b, fn)
  PROVE  Plain(b, EndSwitch(b), fn)
<1> DEFINE a == IF Terminated(b) THEN b ELSE AddSwitchBreak(b)
           x == TopOf(b.switches)
           c == SetInsertPoint(a, x)
           d == [c EXCEPT !.switches = Pop(@)]
<1>1. EndSwitch(b) = d
  BY DEF EndSwitch
<1>2. Plain(b, a, fn)
  BY PlainReflexive, AddSwitchBreakLays
<1>3. x \in Of(b, fn)
  OBVIOUS
<1> HIDE DEF a, x
<1>4. Plain(a, c, fn)
  BY <1>2, <1>3, LaidOut, SetInsertLays DEF Plain
<1>5. d = [c EXCEPT !.switches = Pop(c.switches)]
  OBVIOUS
<1> HIDE DEF c, d
<1>6. BuilderOK(c) /\ Sound(c) /\ c.insert \in Of(c, fn)
  BY <1>4, LaidOut DEF Plain
<1>7. BuilderOK(d)
  <2>1. Builds(b, EndSwitch(b))
    BY EndSwitchBuilds
  <2> QED
    BY <1>1, <2>1 DEF Builds
<1>8. d.blocks = c.blocks /\ d.layout = c.layout /\ d.insert = c.insert
  BY <1>5, <1>6 DEF BuilderOK, BuilderType
<1>9. Plain(c, d, fn)
  BY <1>6, <1>7, <1>8, StacksLay
<1>10. Plain(b, c, fn)
  BY <1>2, <1>4, PlainThen DEF Plain
<1>11. Plain(b, d, fn)
  BY <1>9, <1>10, PlainThen DEF Plain
<1> QED
  BY <1>1, <1>11

-----------------------------------------------------------------------------
(* The end of a function, and of main. *)

LEMMA LeaveLays ==
  ASSUME NEW b, BuilderOK(b), Sound(b), NEW fn, b.insert \in Of(b, fn), NEW main \in BOOLEAN,
         main => b.stageEpilogue \in Of(b, fn)
  PROVE  Plain(b, Leave(b, main), fn)
<1>1. CASE Terminated(b)
  BY <1>1, PlainReflexive DEF Leave
<1>2. CASE ~ Terminated(b) /\ main /\ ~ InUnreachable(b)
  <2>1. Leave(b, main) = MakeReturn(b, TRUE, TRUE)
    BY <1>2 DEF Leave
  <2> QED
    BY <1>2, <2>1, MakeReturnLays
<1>3. CASE ~ Terminated(b) /\ InUnreachable(b)
  <2>1. Leave(b, main) = Terminate(b, Unreachable)
    BY <1>3 DEF Leave
  <2>2. Open(b, b.insert)
    BY <1>3 DEF Terminated, HasTerminator, Open
  <2> QED
    BY <2>1, <2>2, EndsJumpNowhere, TerminateLays
<1>4. CASE ~ Terminated(b) /\ ~ main /\ ~ InUnreachable(b)
  <2>1. Leave(b, main) = MakeReturn(b, TRUE, FALSE)
    BY <1>4 DEF Leave
  <2> QED
    BY <2>1, MakeReturnLays
<1> QED
  BY <1>1, <1>2, <1>3, <1>4

LEMMA CloseMainLays ==
  ASSUME NEW b, BuilderOK(b), Sound(b), NEW fn, b.insert \in Of(b, fn),
         b.stageEpilogue \in Of(b, fn), b.stageExit \in Of(b, fn),
         b.stageEpilogue # b.stageExit,
         Open(b, b.stageEpilogue), Open(b, b.stageExit),
         Unplaced(b, b.stageEpilogue), Unplaced(b, b.stageExit)
  PROVE  LaysOut(b, CloseMain(b), fn, {}, {b.stageEpilogue, b.stageExit})
<1> DEFINE E == b.stageEpilogue
           X == b.stageExit
           c == SetInsertPoint(b, E)
           d == Emit(c, CopyOut)
           e == Terminate(d, Br(X))
           f == SetInsertPoint(e, X)
           g == Terminate(f, Ret)
           h == PushBack(g, E)
           k == PushBack(h, X)
<1>1. /\ E \in Of(b, fn) /\ X \in Of(b, fn) /\ E # X /\ Open(b, E) /\ Open(b, X)
      /\ Unplaced(b, E) /\ Unplaced(b, X) /\ E \in Ids(b) /\ X \in Ids(b)
  BY DEF Of
<1>2. CloseMain(b) = k
  <2>1. c = SetInsertPoint(b, b.stageEpilogue) /\ X = b.stageExit
    OBVIOUS
  <2>2. e.stageExit = X /\ g.stageEpilogue = E /\ h.stageExit = X
    BY DEF SetInsertPoint, Emit, Terminate, PushBack, BuilderOK, BuilderType
  <2> QED
    BY DEF CloseMain
<1> HIDE DEF E, X
<1>3. Plain(b, c, fn) /\ c.insert = E /\ c.blocks = b.blocks
  BY <1>1, SetInsertLays, SetInsertTouches
<1> HIDE DEF c
<1>4. /\ BuilderOK(c) /\ Sound(c) /\ c.insert \in Of(c, fn) /\ X \in Of(c, fn) /\ X \in Ids(c)
      /\ Unplaced(c, E) /\ Unplaced(c, X)
  BY <1>1, <1>3, LaidOut DEF Plain, Of
<1>5. /\ Plain(c, d, fn) /\ d.insert = E /\ Touches(c, d, {E}, {E})
      /\ d.blocks[E].term = c.blocks[E].term
  BY <1>3, <1>4, CopyOutType, EmitLays, EmitTouches
<1> HIDE DEF d
<1>6. /\ BuilderOK(d) /\ Sound(d) /\ d.insert \in Of(d, fn) /\ X \in Of(d, fn)
      /\ Open(d, E) /\ Open(d, X) /\ X \in Ids(d)
  <2>1. d.blocks[X] = c.blocks[X]
    BY <1>1, <1>4, <1>5, TouchedOK
  <2> QED
    BY <1>1, <1>3, <1>4, <1>5, <2>1, LaidOut DEF Plain, Open, Of
<1>7. Plain(d, e, fn) /\ Touches(d, e, {E}, {})
  <2>1. /\ Br(X) \in TermType(Len(d.blocks)) /\ Br(X).kind \notin {"none", "double"}
        /\ JumpsIn(d, Br(X), fn)
    BY <1>6, BrJumps
  <2> QED
    BY <1>5, <1>6, <2>1, TerminateLays, TerminateTouches
<1> HIDE DEF e
<1>8. /\ BuilderOK(e) /\ Sound(e) /\ X \in Of(e, fn) /\ X \in Ids(e) /\ Open(e, X)
  <2>1. e.blocks[X] = d.blocks[X]
    BY <1>1, <1>6, <1>7, TouchedOK
  <2> QED
    BY <1>6, <1>7, <2>1, LaidOut DEF Plain, Open, Of
<1>9. Plain(e, f, fn) /\ f.insert = X /\ f.blocks = e.blocks
  BY <1>8, SetInsertLays, SetInsertTouches
<1> HIDE DEF f
<1>10. BuilderOK(f) /\ Sound(f) /\ f.insert \in Of(f, fn) /\ Open(f, f.insert)
  BY <1>8, <1>9, LaidOut DEF Plain, Open
<1>11. Plain(f, g, fn)
  BY <1>10, EndsJumpNowhere, TerminateLays
<1> HIDE DEF g
<1>12. Plain(b, g, fn)
  <2>1. Plain(b, d, fn)
    BY <1>3, <1>5, PlainThen DEF Plain
  <2>2. Plain(b, e, fn)
    BY <1>7, <2>1, PlainThen DEF Plain
  <2>3. Plain(b, f, fn)
    BY <1>9, <2>2, PlainThen DEF Plain
  <2> QED
    BY <1>11, <2>3, PlainThen DEF Plain
<1>13. /\ BuilderOK(g) /\ Sound(g) /\ g.insert \in Of(g, fn)
       /\ Unplaced(g, E) /\ Unplaced(g, X)
  BY <1>1, <1>12, LaidOut DEF Plain
<1>14. LaysOut(g, h, fn, {}, {E})
  BY <1>13, PushBackLays
<1> HIDE DEF h
<1>15. BuilderOK(h) /\ Sound(h) /\ h.insert \in Of(h, fn) /\ Unplaced(h, X)
  BY <1>1, <1>13, <1>14, LaidOut
<1>16. LaysOut(h, k, fn, {}, {X})
  BY <1>15, PushBackLays
<1> HIDE DEF k
<1>17. LaysOut(b, h, fn, {}, {E})
  BY <1>12, <1>14, PlainThen
<1>18. LaysOut(b, k, fn, {}, {E, X})
  <2>1. /\ \A i : i \in {} <=> i \in {} \/ (i \in {} /\ i \notin {X})
        /\ \A i \in Ids(b) : i \in {E, X} <=> i \in {E} \/ i \in {X}
    OBVIOUS
  <2> QED
    BY <1>16, <1>17, <2>1, LaysOutThen
<1> QED
  BY <1>2, <1>18 DEF E, X

LEMMA LeaveFunctionLays ==
  ASSUME NEW b, BuilderOK(b), Sound(b), NEW fn, b.insert \in Of(b, fn)
  PROVE  /\ Plain(b, LeaveFunction(b, FALSE), fn)
         /\ (/\ b.stageEpilogue \in Of(b, fn) /\ b.stageExit \in Of(b, fn)
             /\ b.stageEpilogue # b.stageExit
             /\ b.insert \notin {b.stageEpilogue, b.stageExit}
             /\ Open(b, b.stageEpilogue) /\ Open(b, b.stageExit)
             /\ Unplaced(b, b.stageEpilogue) /\ Unplaced(b, b.stageExit))
              => LaysOut(b, LeaveFunction(b, TRUE), fn, {}, {b.stageEpilogue, b.stageExit})
<1> DEFINE c == Leave(b, TRUE)
           d == CloseMain(c)
<1>1. LeaveFunction(b, FALSE) = Leave(b, FALSE) /\ LeaveFunction(b, TRUE) = d
  BY DEF LeaveFunction, Leave
<1>2. Plain(b, Leave(b, FALSE), fn)
  BY LeaveLays
<1>3. ASSUME b.stageEpilogue \in Of(b, fn), b.stageExit \in Of(b, fn),
             b.stageEpilogue # b.stageExit,
             b.insert \notin {b.stageEpilogue, b.stageExit},
             Open(b, b.stageEpilogue), Open(b, b.stageExit),
             Unplaced(b, b.stageEpilogue), Unplaced(b, b.stageExit)
      PROVE  LaysOut(b, d, fn, {}, {b.stageEpilogue, b.stageExit})
  <2>1. Plain(b, c, fn) /\ Touches(b, c, {b.insert}, {})
    BY <1>3, LeaveLays, LeaveTouches
  <2> HIDE DEF c
  <2>2. /\ BuilderOK(c) /\ Sound(c) /\ c.insert \in Of(c, fn)
        /\ c.stageEpilogue = b.stageEpilogue /\ c.stageExit = b.stageExit
        /\ c.stageEpilogue \in Of(c, fn) /\ c.stageExit \in Of(c, fn)
        /\ Unplaced(c, c.stageEpilogue) /\ Unplaced(c, c.stageExit)
    BY <1>3, <2>1, LaidOut, TouchedOK DEF Plain
  <2>3. Open(c, c.stageEpilogue) /\ Open(c, c.stageExit)
    <3>1. b.stageEpilogue \in Ids(b) /\ b.stageExit \in Ids(b)
      BY <1>3 DEF Of
    <3>2. /\ c.blocks[b.stageEpilogue] = b.blocks[b.stageEpilogue]
          /\ c.blocks[b.stageExit] = b.blocks[b.stageExit]
      BY <1>3, <2>1, <3>1, TouchedOK
    <3> QED
      BY <1>3, <2>2, <3>2 DEF Open
  <2>4. LaysOut(c, d, fn, {}, {b.stageEpilogue, b.stageExit})
    BY <1>3, <2>2, <2>3, CloseMainLays
  <2> HIDE DEF d
  <2> QED
    BY <2>1, <2>4, PlainThen
<1> QED
  BY <1>1, <1>2, <1>3

(* A ?: in an initializer: both branches, and the merge block. *)
LEMMA FlowLays ==
  ASSUME NEW b, BuilderOK(b), Sound(b), NEW fn, b.insert \in Of(b, fn), NEW at \in Nat,
         NEW e1 \in EventType, NEW e2 \in EventType
  PROVE  LET if   == IfObject(b)
             then == Emit(IfBegin(b), e1)
             else == Emit(MakeBeginElse(then, if), e2)
         IN  Plain(b, MakeEndIf(else, [if EXCEPT !.else = Next1(then)], at), fn)
<1> DEFINE n    == Next1(b)
           i    == IfBegin(b)
           if   == IfObject(b)
           then == Emit(i, e1)
           m    == MakeBeginElse(then, if)
           else == Emit(m, e2)
           x    == Next1(then)
           if2  == [if EXCEPT !.else = x]
           c    == MakeEndIf(else, if2, at)
<1>1. LaysOut(b, i, fn, {n + 1}, {}) /\ n \in Of(i, fn) /\ n + 1 \in Of(i, fn)
  BY IfBeginLays
<1>2. n + 1 \notin Ids(b)
  <2>1. Len(b.blocks) \in Nat /\ n = Len(b.blocks) + 1
    BY LenNat DEF Next1
  <2> QED
    BY <2>1 DEF Ids
<1>3. /\ if.header = b.insert /\ if.then = n /\ if.merge = n + 1
      /\ if2.header = b.insert /\ if2.then = n /\ if2.merge = n + 1 /\ if2.else = x
  BY DEF IfObject
<1> HIDE DEF n, i, if, x, if2
<1>4. BuilderOK(i) /\ Sound(i) /\ i.insert \in Of(i, fn) /\ b.insert \in Of(i, fn)
  BY <1>1, LaidOut
<1>5. Plain(i, then, fn)
  BY <1>4, EmitLays
<1> HIDE DEF then
<1>6. /\ BuilderOK(then) /\ Sound(then) /\ then.insert \in Of(then, fn)
      /\ b.insert \in Of(then, fn) /\ n \in Of(then, fn) /\ n + 1 \in Of(then, fn)
  BY <1>1, <1>4, <1>5, LaidOut DEF Plain
<1>7. Plain(then, m, fn) /\ x \in Of(m, fn)
  BY <1>3, <1>6, MakeBeginElseLays DEF x
<1> HIDE DEF m
<1>8. BuilderOK(m) /\ Sound(m) /\ m.insert \in Of(m, fn)
  BY <1>7, LaidOut DEF Plain
<1>9. Plain(m, else, fn)
  BY <1>8, EmitLays
<1> HIDE DEF else
<1>10. LaysOut(b, else, fn, {n + 1}, {})
  <2>1. LaysOut(b, then, fn, {n + 1}, {})
    BY <1>1, <1>5, PlainThen
  <2>2. LaysOut(b, m, fn, {n + 1}, {})
    BY <1>7, <2>1, PlainThen
  <2> QED
    BY <1>9, <2>2, PlainThen
<1>11. /\ BuilderOK(else) /\ Sound(else) /\ else.insert \in Of(else, fn)
       /\ b.insert \in Of(else, fn) /\ n \in Of(else, fn) /\ n + 1 \in Of(else, fn)
       /\ x \in Of(else, fn) /\ Unplaced(else, n + 1)
  <2>1. b.insert \in Of(m, fn) /\ n \in Of(m, fn) /\ n + 1 \in Of(m, fn)
    BY <1>6, <1>7, LaidOut DEF Plain
  <2> QED
    BY <1>7, <1>9, <1>10, <2>1, LaidOut DEF Plain
<1>12. LaysOut(else, c, fn, {}, {n + 1})
  <2>1. /\ if2.merge \in Of(else, fn) /\ if2.header \in Of(else, fn)
        /\ if2.then \in Of(else, fn) /\ (if2.else # 0 => if2.else \in Of(else, fn))
        /\ Unplaced(else, if2.merge)
    BY <1>3, <1>11
  <2>2. LaysOut(else, c, fn, {}, {if2.merge})
    BY <1>11, <2>1, MakeEndIfLays
  <2> QED
    BY <1>3, <2>2
<1> HIDE DEF c
<1>13. Plain(b, c, fn)
  <2>1. /\ \A k : k \in {} <=> k \in {} \/ (k \in {n + 1} /\ k \notin {n + 1})
        /\ \A k \in Ids(b) : k \in {} <=> k \in {} \/ k \in {n + 1}
    BY <1>2
  <2> QED
    BY <1>10, <1>12, <2>1, LaysOutThen DEF Plain
<1> QED
  BY <1>13 DEF c, if2, x, else, m, then, i, if
=============================================================================
