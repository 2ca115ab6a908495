----------------------------- MODULE AccessChain -----------------------------
(***************************************************************************)
(* The access chain of gla::Builder and its cache of pipeline outputs      *)
(* (Core/TopBuilder.cpp).  A front end walks a.b[i].yx from left to right  *)
(* and pushes what it meets on one chain; a load or a store turns the      *)
(* chain into LLVM instructions.  Outputs are shadowed by variables; a     *)
(* dereference through a chain marks the slots it may touch, and the end   *)
(* of the stage writes the marked ones out.                                *)
(*                                                                         *)
(* The instructions are run as they are made: the builder's record holds   *)
(* the shader's memory, and "live" says whether the block that is being    *)
(* filled is one the run enters.  Scalars are sequences of length one,     *)
(* vectors of their length, aggregates sequences of their elements.        *)
(* Indices count from 0.                                                   *)
(***************************************************************************)
EXTENDS Integers, Sequences
LOCAL INSTANCE SequencesExt

CONSTANT
  Leaves  \* of each variable: the paths of its slot-sized parts, in order

(* llvm::Value: its data, and whether it is a Constant. *)
Value(d, const) == [d |-> d, const |-> const]
Null == Value(<<>>, TRUE)
Constant(k) == Value(<<k>>, TRUE)

-----------------------------------------------------------------------------
(* LLVM's instructions. *)
At(w, k) == w[(k % Len(w)) + 1]
Select(w, path) == FoldLeft(LAMBDA x, k : At(x, k), w, path)
InRange(w, path) ==
  \A j \in DOMAIN path : path[j] \in 0..Len(Select(w, SubSeq(path, 1, j - 1))) - 1
Put(w, k, x) == [w EXCEPT ![(k % Len(w)) + 1] = x]
Replace(w, path, x) ==
  FoldRight(LAMBDA j, inner : Put(Select(w, SubSeq(path, 1, j - 1)), path[j], inner),
            [j \in DOMAIN path |-> j], x)

(* An index out of range has no meaning in the shading language. *)
Wild(b, outside) == [b EXCEPT !.wild = @ \/ (b.live /\ outside)]

Load(b, place) == Value(Select(b.mem[place.obj], place.path), FALSE)
Store(b, x, place) ==
  IF b.live THEN [b EXCEPT !.mem[place.obj] = Replace(@, place.path, x.d)] ELSE b
Alloca(b, d) == [b EXCEPT !.mem = Append(@, d)]
Newest(b) == Len(b.mem)

ExtractElement(x, k)   == Value(<<At(x.d, k.d[1])>>, x.const /\ k.const)
InsertElement(x, s, k) == Value(Put(x.d, k.d[1], s.d[1]),
                                x.const /\ s.const /\ k.const)

(* Builder::createSwizzle *)
CreateSwizzle(x, channels) ==
  Value([j \in DOMAIN channels |-> At(x.d, channels[j])], x.const)

-----------------------------------------------------------------------------
(* Builder::clearAccessChain *)
NoGep == <<-1>>
EmptyChain == [obj |-> 0, base |-> Null, isRValue |-> FALSE, indexChain |-> <<>>,
               gep |-> NoGep, swizzle |-> <<>>, swizzleTargetWidth |-> 0,
               component |-> Null, trackActive |-> FALSE]
ClearAccessChain(b) == [b EXCEPT !.chain = EmptyChain]
SetAccessChain(b, c) == [b EXCEPT !.chain = c]

(* Builder::setAccessChainLValue, setAccessChainRValue: both push the      *)
(* dereference of a pointer to the base.                                   *)
SetAccessChainLValue(b, obj) ==
  [b EXCEPT !.chain.obj = obj, !.chain.indexChain = Append(@, Constant(0))]
SetAccessChainRValue(b, x) ==
  [b EXCEPT !.chain.base = x, !.chain.isRValue = TRUE,
            !.chain.indexChain = Append(@, Constant(0))]
AccessChainTrackActive(b) == [b EXCEPT !.chain.trackActive = TRUE]

AccessChainPushLeft(b, x) == [b EXCEPT !.chain.indexChain = Append(@, x)]
AccessChainPushComponent(b, x) == [b EXCEPT !.chain.component = x]

(* Builder::simplifyAccessChainSwizzle *)
SimplifyAccessChainSwizzle(c) ==
  IF \/ c.swizzleTargetWidth > Len(c.swizzle)
     \/ \E i \in DOMAIN c.swizzle : c.swizzle[i] # i - 1
  THEN c
  ELSE [c EXCEPT !.swizzle = <<>>, !.swizzleTargetWidth = 0]

(* mutant: the new swizzle picks from below the old one *)
PushSwizzleBelow(b, swizzle, width) ==
  [b EXCEPT !.chain = SimplifyAccessChainSwizzle(
     [@ EXCEPT !.swizzle = IF @ = <<>> THEN swizzle
                           ELSE [i \in DOMAIN swizzle |-> At(swizzle, At(@, i - 1))],
               !.swizzleTargetWidth = IF @ = 0 THEN width ELSE @])]
(* Builder::accessChainPushSwizzleRight *)
AccessChainPushSwizzleRight(b, swizzle, width) ==
  LET old == b.chain.swizzle
      new == IF old = <<>> THEN swizzle
             ELSE [i \in DOMAIN swizzle |-> At(old, swizzle[i])]
  IN  [b EXCEPT !.chain = SimplifyAccessChainSwizzle(
          [@ EXCEPT !.swizzle = new,
                    !.swizzleTargetWidth = IF @ = 0 THEN width ELSE @])]

-----------------------------------------------------------------------------
(* Pipeline outputs. *)

(* Builder::createVariable, ESQOutput *)
CreateOutput(b, obj) ==
  [b EXCEPT !.copyOuts = Append(@, [value |-> obj, baseSlot |-> 0, numSlots |-> 0,
                                    active |-> <<>>])]

(* Builder::setOutputMetadata: the search starts at the last output and    *)
(* goes up, so that any other is looked for past the end.                  *)
SetOutputMetadata(b, obj, baseSlot, numSlots) ==
  IF Last(b.copyOuts).value # obj \/ Last(b.copyOuts).numSlots # 0
  THEN [b EXCEPT !.verdict = "assert"]
  ELSE [b EXCEPT !.copyOuts = Append(Front(@),
          [value |-> obj, baseSlot |-> baseSlot, numSlots |-> numSlots,
           active |-> [k \in 1..numSlots |-> FALSE]])]

(* Builder::setActiveOutputSubset, by its leaves: one is reached unless a  *)
(* constant index leads elsewhere on the way to it.                        *)
Reaches(indexChain, leaf) ==
  \A j \in DOMAIN leaf :
     (j < Len(indexChain) /\ indexChain[j + 1].const)
        => indexChain[j + 1].d[1] = leaf[j]

(* mutant: a variable index marks the first element only *)
SetActiveOutputFirst(b, obj, indexChain) ==
  [b EXCEPT !.copyOuts = [o \in DOMAIN @ |->
     IF @[o].value # obj THEN @[o]
     ELSE [@[o] EXCEPT !.active = [k \in DOMAIN @ |->
             @[k] \/ Reaches([i \in DOMAIN indexChain |->
                                Constant(IF indexChain[i].const
                                         THEN indexChain[i].d[1] ELSE 0)], Leaves[obj][k])]]]]
(* Builder::setActiveOutput *)
SetActiveOutput(b, obj, indexChain) ==
  [b EXCEPT !.copyOuts = [o \in DOMAIN @ |->
     IF @[o].value # obj THEN @[o]
     ELSE [@[o] EXCEPT !.active = [k \in DOMAIN @ |->
             @[k] \/ Reaches(indexChain, Leaves[obj][k])]]]]

(* Builder::copyOutPipeline, copyOutOnePipeline: the writes, in order. *)
CopyOutOnePipeline(b, out) ==
  [k \in DOMAIN out.active |->
     [slot |-> out.baseSlot + k - 1,
      d |-> IF out.active[k] THEN Select(b.mem[out.value], Leaves[out.value][k])
            ELSE <<>>]]
CopyOutPipeline(b) ==
  SelectSeq(FlattenSeq([o \in DOMAIN b.copyOuts |->
                          CopyOutOnePipeline(b, b.copyOuts[o])]),
            LAMBDA w : w.d # <<>>)

-----------------------------------------------------------------------------
(* Builder::collapseAccessChain; both front ends build left to right.      *)
Path(indexChain) == [j \in 1..Len(indexChain) - 1 |-> indexChain[j + 1].d[1]]
CollapseAccessChain(b) ==
  LET c == b.chain
      tracked == IF c.trackActive /\ c.gep = NoGep
                 THEN SetActiveOutput(b, c.obj, c.indexChain) ELSE b
      made == IF Len(c.indexChain) > 1 /\ c.gep = NoGep
              THEN [tracked EXCEPT !.chain.gep = Path(c.indexChain)] ELSE tracked
      place == [obj |-> c.obj, path |-> IF Len(c.indexChain) > 1
                                        THEN made.chain.gep ELSE <<>>]
  IN  [b |-> IF c.isRValue THEN [made EXCEPT !.verdict = "assert"]
             ELSE Wild(made, ~ InRange(b.mem[c.obj], place.path)),
       place |-> place]

(* Builder::accessChainStore *)
Scalar(x, i) == IF Len(x.d) > 1 THEN ExtractElement(x, Constant(i)) ELSE x
Merged(c, x, shadow) ==
  IF c.swizzle # <<>>
  THEN FoldLeft(LAMBDA t, i : InsertElement(t, Scalar(x, i - 1), Constant(c.swizzle[i])),
                shadow, [i \in DOMAIN c.swizzle |-> i])
  ELSE IF c.component # Null THEN InsertElement(shadow, x, c.component)
  ELSE x
StoreAt(at, x) ==
  LET shadow == Load(at.b, at.place)
  IN  Store(Wild(at.b, at.b.chain.component # Null
                         /\ ~ InRange(shadow.d, at.b.chain.component.d)),
            Merged(at.b.chain, x, shadow), at.place)
AccessChainStore(b, x) == StoreAt(CollapseAccessChain(b), x)

(* Builder::accessChainLoad.  An r-value that is indexed goes into memory  *)
(* first.  The outcome is the builder and the value.                       *)
Narrowed(c, x) ==
  IF c.component # Null THEN ExtractElement(x, c.component)
  ELSE IF c.swizzle # <<>> THEN CreateSwizzle(x, c.swizzle)
  ELSE x
Loaded(b, x) ==
  [b |-> Wild(b, b.chain.component # Null /\ ~ InRange(x.d, b.chain.component.d)),
   v |-> Narrowed(b.chain, x)]
LoadAt(at) == Loaded(at.b, Load(at.b, at.place))
(* mutant: what was moved into memory still counts as an r-value *)
IndexableRValue(b) ==
  [Alloca(b, b.chain.base.d) EXCEPT !.chain.obj = Newest(b) + 1]
Indexable(b) ==
  [Alloca(b, b.chain.base.d) EXCEPT !.chain.obj = Newest(b) + 1,
                                    !.chain.isRValue = FALSE]
AccessChainLoad(b) ==
  IF ~ b.chain.isRValue THEN LoadAt(CollapseAccessChain(b))
  ELSE IF Len(b.chain.indexChain) > 1 THEN LoadAt(CollapseAccessChain(Indexable(b)))
  ELSE Loaded(b, b.chain.base)

(* The builder at the start, over the memory of the shader's variables. *)
NewBuilder(mem) ==
  [mem |-> mem, live |-> TRUE, wild |-> FALSE, verdict |-> "ok",
   chain |-> EmptyChain, copyOuts |-> <<>>]
=============================================================================
