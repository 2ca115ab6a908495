------------------------- MODULE GlslangBlocks_proofs -------------------------
(***************************************************************************)
(* Proofs about the blocks the traverser leaves behind: which of them some *)
(* open construct still has to end, that no two constructs share one, that *)
(* no handler touches any other; and that at the end each is placed once,  *)
(* ends once, and jumps only inside its function.                          *)
(***************************************************************************)
EXTENDS GlslangToTop_proofs

-----------------------------------------------------------------------------
(* The blocks a construct holds: those it will end or go on in later.  An  *)
(* if holds its header and its merge block, a loop its exit, a switch the  *)
(* segments ahead of the current one and its merge block.                  *)

Ahead(o)   == (o.segments[1] + o.s)..(o.segments[1] + Len(o.segments))
InOrder(o) == \A k \in 1..Len(o.segments) : o.segments[k] = o.segments[1] + k - 1

HeldBy(loops, f, i) ==
  IF f[i].kind = "loop" THEN {loops[DepthOf(f, {"loop"}, i)].exit}
  ELSE IF f[i].kind = "switch" THEN Ahead(f[i].obj)
  ELSE {f[i].obj.header, f[i].obj.merge}

Orderly(frame) ==
  /\ frame.kind = "switch" => InOrder(frame.obj)
  /\ frame.kind \in {"then", "else"} => frame.obj.header # frame.obj.merge

(* No block is held twice, and only the blocks held, those outside the     *)
(* function and the free ones are still to be ended.                       *)
Apart(bk, loops, f, out, free) ==
  /\ \A i \in 1..Len(f) : \A x \in HeldBy(loops, f, i) :
       x \in Ids(bk) /\ Unsealed(bk, x) /\ x \notin out /\ x \notin free
  /\ \A i, j \in 1..Len(f) : i # j => \A x \in HeldBy(loops, f, i) : x \notin HeldBy(loops, f, j)
  /\ \A x \in out : x \in Ids(bk) /\ Unsealed(bk, x) /\ x \notin free
  /\ \A x \in Ids(bk) : Open(bk, x) =>
       \/ x \in free \/ x \in out
       \/ \E i \in 1..Len(f) : x \in HeldBy(loops, f, i)

BlocksOK(bk, f, out) ==
  /\ Apart(bk, bk.loops, f, out, {bk.insert})
  /\ Unsealed(bk, bk.insert)
  /\ \A i \in 1..Len(f) : Orderly(f[i])

-----------------------------------------------------------------------------
(* What a construct holds does not depend on those inside it. *)
LEMMA HeldAgree ==
  ASSUME NEW f, NEW g, NEW n \in Nat, \A j \in 1..n : g[j] = f[j],
         NEW L, NEW M, \A k \in 1..DepthOf(f, {"loop"}, n) : M[k] = L[k],
         NEW i \in 1..n
  PROVE  HeldBy(M, g, i) = HeldBy(L, f, i)
<1>1. i \in Nat \ {0} /\ i <= n /\ g[i] = f[i]
  OBVIOUS
<1>2. DepthOf(g, {"loop"}, i) = DepthOf(f, {"loop"}, i)
  BY <1>1, DepthAgree
<1>3. CASE f[i].kind = "loop"
  <2>1. f[i].kind \in {"loop"}
    BY <1>3
  <2>2. DepthOf(f, {"loop"}, i) \in Nat /\ DepthOf(f, {"loop"}, i) >= 1
    BY <1>1, <2>1, DepthPositive
  <2>3. DepthOf(f, {"loop"}, i) <= DepthOf(f, {"loop"}, n) /\ DepthOf(f, {"loop"}, n) \in 0..n
    BY <1>1, DepthMonotone, DepthType
  <2>4. DepthOf(f, {"loop"}, i) \in 1..DepthOf(f, {"loop"}, n)
    BY <2>2, <2>3
  <2>5. M[DepthOf(f, {"loop"}, i)] = L[DepthOf(f, {"loop"}, i)]
    BY <2>4
  <2> QED
    BY <1>1, <1>2, <1>3, <2>5 DEF HeldBy
<1>4. CASE f[i].kind # "loop"
  BY <1>1, <1>4 DEF HeldBy
<1> QED
  BY <1>3, <1>4

(* A handler changes only free blocks. *)
LEMMA ApartKeeps ==
  ASSUME NEW bk, NEW L, NEW f, NEW out, NEW F, Apart(bk, L, f, out, F),
         NEW ck, NEW T, NEW N, Touches(bk, ck, T, N), T \subseteq F,
         NEW G, N \subseteq G, \A x \in F : x \in T \/ x \in G,
         \A x \in G : x \in F \/ x \notin Ids(bk)
  PROVE  Apart(ck, L, f, out, G)
<1>1. \A x \in Ids(bk) : x \in Ids(ck) /\ (x \notin T => ck.blocks[x] = bk.blocks[x])
  BY TouchedOK
<1>2. ASSUME NEW x, x \in Ids(bk), Unsealed(bk, x), x \notin F
      PROVE  x \in Ids(ck) /\ Unsealed(ck, x) /\ x \notin G
  BY <1>1, <1>2 DEF Unsealed
<1>3. \A i \in 1..Len(f) : \A x \in HeldBy(L, f, i) :
        x \in Ids(ck) /\ Unsealed(ck, x) /\ x \notin out /\ x \notin G
  BY <1>2 DEF Apart
<1>4. \A x \in out : x \in Ids(ck) /\ Unsealed(ck, x) /\ x \notin G
  BY <1>2 DEF Apart
<1>5. ASSUME NEW x \in Ids(ck), Open(ck, x), x \notin G
      PROVE  x \in out \/ \E i \in 1..Len(f) : x \in HeldBy(L, f, i)
  <2>1. x \in Ids(bk) /\ x \notin T /\ Open(bk, x)
    BY <1>5, TouchedOK
  <2>2. x \notin F
    BY <1>5, <2>1
  <2> QED
    BY <2>1, <2>2 DEF Apart
<1> QED
  BY <1>3, <1>4, <1>5 DEF Apart

(* The innermost construct gives up its blocks. *)
LEMMA ApartPop ==
  ASSUME NEW bk, NEW L, NEW g, NEW out, NEW F, Apart(bk, L, g, out, F),
         NEW f, NEW n \in Nat, Len(f) = n, Len(g) = n + 1,
         \A j \in 1..n : g[j] = f[j],
         NEW M, \A k \in 1..DepthOf(f, {"loop"}, n) : L[k] = M[k]
  PROVE  Apart(bk, M, f, out, F \cup HeldBy(L, g, n + 1))
<1>1. \A i \in 1..n : HeldBy(L, g, i) = HeldBy(M, f, i)
  BY HeldAgree
<1> DEFINE S == HeldBy(L, g, n + 1)
<1>2. n + 1 \in 1..Len(g) /\ \A i \in 1..n : i \in 1..Len(g) /\ i # n + 1
  OBVIOUS
<1>3. \A i \in 1..Len(g) : i \in 1..n \/ i = n + 1
  OBVIOUS
<1>4. \A i \in 1..n : \A x \in HeldBy(M, f, i) :
        x \in Ids(bk) /\ Unsealed(bk, x) /\ x \notin out /\ x \notin F /\ x \notin S
  BY <1>1, <1>2 DEF Apart
<1>5. \A i, j \in 1..n : i # j => \A x \in HeldBy(M, f, i) : x \notin HeldBy(M, f, j)
  BY <1>1, <1>2 DEF Apart
<1>6. \A x \in out : x \in Ids(bk) /\ Unsealed(bk, x) /\ x \notin F /\ x \notin S
  BY <1>2 DEF Apart
<1>7. \A x \in Ids(bk) : Open(bk, x) =>
        \/ x \in F \/ x \in S \/ x \in out
        \/ \E i \in 1..n : x \in HeldBy(M, f, i)
  BY <1>1, <1>3 DEF Apart
<1> HIDE DEF S
<1>8. Apart(bk, M, f, out, F \cup S)
  BY <1>4, <1>5, <1>6, <1>7 DEF Apart
<1> QED
  BY <1>8 DEF S

(* A construct takes some of the free blocks. *)
LEMMA ApartPush ==
  ASSUME NEW bk, NEW L, NEW f, NEW out, NEW F, Apart(bk, L, f, out, F),
         NEW g, NEW n \in Nat, Len(f) = n, Len(g) = n + 1,
         \A j \in 1..n : g[j] = f[j],
         NEW M, \A k \in 1..DepthOf(f, {"loop"}, n) : M[k] = L[k],
         NEW G, \A x \in HeldBy(M, g, n + 1) :
                  x \in F /\ x \notin G /\ x \in Ids(bk) /\ Unsealed(bk, x),
         G \subseteq F, \A x \in F : x \in G \/ x \in HeldBy(M, g, n + 1)
  PROVE  Apart(bk, M, g, out, G)
<1>1. \A i \in 1..n : HeldBy(M, g, i) = HeldBy(L, f, i)
  BY HeldAgree
<1> DEFINE S == HeldBy(M, g, n + 1)
<1>2. n + 1 \in 1..Len(g) /\ \A i \in 1..n : i \in 1..Len(g) /\ i # n + 1
  OBVIOUS
<1>3. \A i \in 1..Len(g) : i \in 1..n \/ i = n + 1
  OBVIOUS
<1>4. \A i \in 1..n : \A x \in HeldBy(M, g, i) :
        x \in Ids(bk) /\ Unsealed(bk, x) /\ x \notin out /\ x \notin F
  BY <1>1 DEF Apart
<1>5. \A x \in S : x \in Ids(bk) /\ Unsealed(bk, x) /\ x \notin out /\ x \notin G /\ x \in F
  BY DEF Apart
<1>6. \A i, j \in 1..n : i # j => \A x \in HeldBy(M, g, i) : x \notin HeldBy(M, g, j)
  BY <1>1 DEF Apart
<1>7. \A i \in 1..n : \A x \in HeldBy(M, g, i) : x \notin S
  BY <1>4, <1>5
<1>8. \A x \in Ids(bk) : Open(bk, x) =>
        \/ x \in G \/ x \in S \/ x \in out
        \/ \E i \in 1..n : x \in HeldBy(M, g, i)
  BY <1>1 DEF Apart
<1>9. \A i \in 1..Len(g) : \A x \in HeldBy(M, g, i) :
        x \in Ids(bk) /\ Unsealed(bk, x) /\ x \notin out /\ x \notin G
  BY <1>3, <1>4, <1>5
<1>10. \A i, j \in 1..Len(g) : i # j => \A x \in HeldBy(M, g, i) : x \notin HeldBy(M, g, j)
  <2> SUFFICES ASSUME NEW i \in 1..Len(g), NEW j \in 1..Len(g), i # j,
                      NEW x \in HeldBy(M, g, i)
               PROVE  x \notin HeldBy(M, g, j)
    OBVIOUS
  <2>1. CASE i \in 1..n /\ j \in 1..n
    BY <1>6, <2>1
  <2>2. CASE i = n + 1 /\ j \in 1..n
    BY <1>7, <2>2
  <2>3. CASE j = n + 1 /\ i \in 1..n
    BY <1>7, <2>3
  <2> QED
    BY <1>3, <2>1, <2>2, <2>3
<1>11. \A x \in out : x \in Ids(bk) /\ Unsealed(bk, x) /\ x \notin G
  BY DEF Apart
<1>12. \A x \in Ids(bk) : Open(bk, x) =>
         \/ x \in G \/ x \in out
         \/ \E i \in 1..Len(g) : x \in HeldBy(M, g, i)
  BY <1>2, <1>8
<1> QED
  BY <1>9, <1>10, <1>11, <1>12 DEF Apart

-----------------------------------------------------------------------------
(* The invariant.  Outside the function being walked wait the two stage    *)
(* blocks, main's body until it is walked and its last block afterwards,   *)
(* the helper's entry, and where the next global initializer goes.         *)

StageWait  == {1, 2}
MainWait   == IF ~ Visited("main") THEN {MainBody}
              ELSE IF phase = "body" /\ inMain THEN {} ELSE {lastBodyBlock}
HelperWait == IF HelperFunctions /\ ~ Visited("helper") THEN {HelperEntry} ELSE {}
InitWait   == IF phase = "body" THEN {initPoint} ELSE {}
Outside    == StageWait \cup MainWait \cup HelperWait \cup InitWait

OutsideApart ==
  /\ \A x \in StageWait : x \notin MainWait /\ x \notin HelperWait /\ x \notin InitWait
  /\ \A x \in MainWait : x \notin HelperWait /\ x \notin InitWait
  /\ \A x \in HelperWait : x \notin InitWait

Unbuilt ==
  /\ b.stageEpilogue = 1 /\ b.stageExit = 2
  /\ BlocksOK(b, frames, Outside) /\ OutsideApart
  /\ \A x \in StageWait \cup InitWait : Open(b, x)
  /\ phase = "global" =>
       /\ Open(b, b.insert)
       /\ ~ TrailingFlow => b.insert = initPoint
  /\ phase = "body" => ~ TrailingFlow /\ (inMain => Visited("main"))

BInv == /\ phase # "body" => frames = <<>>
        /\ phase # "built" => Unbuilt

(* What a step may do to a block that has ended: nothing. *)
Seals == \A i \in Ids(b) : Unsealed(b, i) \/ b'.blocks[i] = b.blocks[i]

-----------------------------------------------------------------------------
(* Nodes other than a function and an initializer with a ?: *)
Unmarked == {"init", "endfunction", "stmt", "discard", "break", "continue", "return",
             "if", "else", "endif", "loop", "endloop", "switch", "segment", "endswitch"}
SameMarks == /\ \A fn : Visited(fn)' <=> Visited(fn)
             /\ TrailingFlow' <=> TrailingFlow

LEMMA MarksKept ==
  ASSUME Len(text) \in Nat, Len(text)' \in Nat, Len(text) <= Len(text)',
         DOMAIN text = 1..Len(text), DOMAIN text' = 1..Len(text'),
         \A i \in 1..Len(text) : text'[i] = text[i],
         \A i \in 1..Len(text') : i > Len(text) => text'[i].op \in Unmarked
  PROVE  SameMarks
<1>1. \A i \in 1..Len(text') : i > Len(text) =>
        text'[i].op # "function" /\ text'[i].op # "initFlow"
  BY DEF Unmarked
<1>2. \A i \in 1..Len(text') : i \in 1..Len(text) \/ i > Len(text)
  OBVIOUS
<1>a. \A i \in 1..Len(text) : i \in 1..Len(text')
  OBVIOUS
<1>3. ASSUME NEW fn PROVE Visited(fn)' <=> Visited(fn)
  BY <1>1, <1>2, <1>a DEF Visited
<1>4. ASSUME TrailingFlow PROVE TrailingFlow'
  <2>1. PICK i \in 1..Len(text) : /\ text[i].op = "initFlow"
                                  /\ \A j \in i..Len(text) : text[j].op # "function"
    BY <1>4 DEF TrailingFlow
  <2>2. i \in 1..Len(text') /\ text'[i].op = "initFlow"
    BY <2>1
  <2>3. ASSUME NEW j \in i..Len(text') PROVE text'[j].op # "function"
    <3>1. j \in 1..Len(text') /\ (j \in i..Len(text) \/ j > Len(text))
      BY <2>1
    <3> QED
      BY <1>1, <2>1, <3>1
  <2> QED
    BY <2>2, <2>3 DEF TrailingFlow
<1>5. ASSUME TrailingFlow' PROVE TrailingFlow
  <2>1. PICK i \in 1..Len(text') : /\ text'[i].op = "initFlow"
                                   /\ \A j \in i..Len(text') : text'[j].op # "function"
    BY <1>5 DEF TrailingFlow
  <2>2. i \in 1..Len(text) /\ text[i].op = "initFlow"
    BY <1>1, <1>2, <2>1
  <2>3. ASSUME NEW j \in i..Len(text) PROVE text[j].op # "function"
    <3>1. j \in i..Len(text') /\ j \in 1..Len(text)
      BY <2>2
    <3> QED
      BY <2>1, <3>1
  <2> QED
    BY <2>2, <2>3 DEF TrailingFlow
<1> QED
  BY <1>3, <1>4, <1>5 DEF SameMarks

LEMMA AppendedText ==
  ASSUME NEW t, \E S : t \in Seq(S), NEW x
  PROVE  LET u == Append(t, x)
         IN  /\ Len(t) \in Nat /\ Len(u) = Len(t) + 1
             /\ DOMAIN t = 1..Len(t) /\ DOMAIN u = 1..Len(u)
             /\ \A i \in 1..Len(t) : u[i] = t[i]
             /\ u[Len(t) + 1] = x
<1>1. PICK S : t \in Seq(S)
  OBVIOUS
<1>2. t \in Seq(S \cup {x}) /\ x \in S \cup {x}
  BY <1>1, SeqSubset, S \subseteq S \cup {x}
<1> QED
  BY <1>2, AppendProperties

LEMMA VisitMarks ==
  ASSUME IInv, NEW op \in Unmarked, NEW of, NEW arg, Visit(op, of, arg)
  PROVE  SameMarks
<1> DEFINE x == Token(op, of, arg)
<1>1. text' = Append(text, x) /\ x.op = op
  BY DEF Visit, Token
<1> HIDE DEF x
<1>2. /\ Len(text) \in Nat /\ Len(text') = Len(text) + 1
      /\ DOMAIN text = 1..Len(text) /\ DOMAIN text' = 1..Len(text')
      /\ \A i \in 1..Len(text) : text'[i] = text[i]
      /\ text'[Len(text) + 1] = x
  BY <1>1, Facts, AppendedText
<1>3. \A i \in 1..Len(text') : i > Len(text) => i = Len(text) + 1
  BY <1>2
<1> QED
  BY <1>1, <1>2, <1>3, MarksKept

-----------------------------------------------------------------------------
(* Any step inside a function. *)

LEMMA OutsideKept ==
  ASSUME SameMarks, UNCHANGED unit
  PROVE  /\ Outside' = Outside /\ InitWait' = InitWait
         /\ OutsideApart => OutsideApart'
<1>1. MainWait' = MainWait /\ HelperWait' = HelperWait /\ InitWait' = InitWait
  BY DEF SameMarks, unit, MainWait, HelperWait, InitWait, MainBody, HelperEntry
<1>2. StageWait' = StageWait
  BY DEF StageWait
<1>3. Outside' = Outside
  BY <1>1, <1>2 DEF Outside
<1>4. OutsideApart => OutsideApart'
  BY <1>1, <1>2 DEF OutsideApart
<1> QED
  BY <1>1, <1>3, <1>4

LEMMA SealsUntouched ==
  ASSUME NEW T, NEW N, Touches(b, b', T, N), \A x \in T : x \in Ids(b) => Unsealed(b, x)
  PROVE  Seals
BY TouchedOK DEF Seals

LEMMA Within ==
  ASSUME BInv, phase = "body", UNCHANGED unit, SameMarks,
         NEW T, NEW N, Touches(b, b', T, N),
         \A x \in T : x \notin Outside /\ (x \in Ids(b) => Unsealed(b, x)),
         BlocksOK(b', frames', Outside)
  PROVE  BInv' /\ Seals
<1>1. Unbuilt /\ phase' = "body"
  BY DEF BInv, unit
<1>2. Seals
  BY SealsUntouched
<1>3. Outside' = Outside /\ InitWait' = InitWait /\ OutsideApart'
  BY <1>1, OutsideKept DEF Unbuilt
<1>4. b'.stageEpilogue = 1 /\ b'.stageExit = 2
  BY <1>1, TouchedOK DEF Unbuilt
<1>5. \A x \in StageWait \cup InitWait : Open(b', x)
  <2> SUFFICES ASSUME NEW x \in StageWait \cup InitWait PROVE Open(b', x)
    OBVIOUS
  <2>1. x \in Outside /\ Open(b, x)
    BY <1>1 DEF Unbuilt, Outside
  <2>2. x \in Ids(b) /\ x \notin T
    BY <1>1, <2>1 DEF Unbuilt, BlocksOK, Apart
  <2>3. b'.blocks[x] = b.blocks[x]
    BY <2>2, TouchedOK
  <2> QED
    BY <2>1, <2>3 DEF Open
<1>6. ~ TrailingFlow' /\ (inMain' => Visited("main")')
  <2>1. ~ TrailingFlow /\ (inMain => Visited("main"))
    BY <1>1 DEF Unbuilt
  <2>2. inMain' = inMain
    BY DEF unit
  <2> QED
    BY <2>1, <2>2 DEF SameMarks
<1>7. Unbuilt'
  <2>1. StageWait' = StageWait
    BY DEF StageWait
  <2>2. BlocksOK(b', frames', Outside')
    BY <1>3
  <2>3. \A x \in StageWait' \cup InitWait' : Open(b', x)
    BY <1>3, <1>5, <2>1
  <2> QED
    BY <1>1, <1>3, <1>4, <1>6, <2>2, <2>3 DEF Unbuilt
<1> QED
  BY <1>1, <1>2, <1>7 DEF BInv

(* A handler that leaves the recursion alone goes on. *)
LEMMA GoesOnKeeps ==
  ASSUME NEW bk, NEW f, NEW out, BlocksOK(bk, f, out),
         NEW ck, GoesOn(bk, ck), SameStacks(bk, ck)
  PROVE  BlocksOK(ck, f, out)
<1>1. /\ Touches(bk, ck, {bk.insert}, {ck.insert})
      /\ ck.insert = bk.insert \/ ck.insert \notin Ids(bk)
  BY DEF GoesOn, Fresh
<1>2. Apart(bk, bk.loops, f, out, {bk.insert})
  BY DEF BlocksOK
<1>3. Apart(ck, bk.loops, f, out, {ck.insert})
  <2>1. \A x \in {ck.insert} : x \in {bk.insert} \/ x \notin Ids(bk)
    BY <1>1
  <2> QED
    BY <1>1, <1>2, <2>1, ApartKeeps
<1> QED
  BY <1>3 DEF BlocksOK, GoesOn, SameStacks

LEMMA InsertFree ==
  ASSUME BInv, phase = "body"
  PROVE  /\ b.insert \notin Outside /\ Unsealed(b, b.insert)
         /\ BlocksOK(b, frames, Outside) /\ Unbuilt
         /\ Apart(b, b.loops, frames, Outside, {b.insert})
         /\ \A i \in 1..Len(frames) : Orderly(frames[i])
BY DEF BInv, Unbuilt, BlocksOK, Apart

(* A statement's handler. *)
LEMMA LeafBlocks ==
  ASSUME IInv, BInv, phase = "body", UNCHANGED <<frames, unit>>, SameMarks,
         GoesOn(b, b'), SameStacks(b, b')
  PROVE  BInv' /\ Seals
<1>1. BlocksOK(b', frames, Outside)
  BY InsertFree, GoesOnKeeps
<1>2. Touches(b, b', {b.insert}, {b'.insert})
  BY DEF GoesOn
<1>3. \A x \in {b.insert} : x \notin Outside /\ (x \in Ids(b) => Unsealed(b, x))
  BY InsertFree
<1>4. BlocksOK(b', frames', Outside)
  BY <1>1
<1> QED
  BY <1>2, <1>3, <1>4, Within

-----------------------------------------------------------------------------
(* Statements. *)

LEMMA StatementBlocks ==
  ASSUME IInv, BInv, VisitStatement
  PROVE  BInv' /\ Seals
<1>1. /\ Visit("stmt", 0, 0) /\ b' = Emit(b, Event("stmt", Here)) /\ phase = "body"
      /\ UNCHANGED <<frames, stacks, unit>>
  BY DEF VisitStatement
<1>2. Event("stmt", Here) \in EventType
  BY <1>1, Facts, VisitNext, EventsType DEF EventNames
<1>3. GoesOn(b, b') /\ SameStacks(b, b')
  BY <1>1, <1>2, Facts, EmitGoesOn, EmitGrows, GrownOK
<1>4. SameMarks
  BY <1>1, VisitMarks, "stmt" \in Unmarked DEF Unmarked
<1> QED
  BY <1>1, <1>3, <1>4, LeafBlocks

LEMMA DiscardBlocks ==
  ASSUME IInv, BInv, VisitDiscard
  PROVE  BInv' /\ Seals
<1>1. /\ Visit("discard", 0, 0) /\ b' = MakeDiscard(b, inMain, Here) /\ phase = "body"
      /\ UNCHANGED <<frames, stacks, unit>>
  BY DEF VisitDiscard
<1>2. Here \in Nat /\ inMain \in BOOLEAN
  BY <1>1, Facts, VisitNext DEF IInv
<1>3. GoesOn(b, b') /\ SameStacks(b, b')
  BY <1>1, <1>2, Facts, MakeDiscardGoesOn, MakeDiscardGrows, GrownOK
<1>4. SameMarks
  BY <1>1, VisitMarks, "discard" \in Unmarked DEF Unmarked
<1> QED
  BY <1>1, <1>3, <1>4, LeafBlocks

LEMMA ReturnBlocks ==
  ASSUME IInv, BInv, VisitReturn
  PROVE  BInv' /\ Seals
<1>1. /\ Visit("return", 0, 0) /\ b' = MakeReturn(b, FALSE, inMain) /\ phase = "body"
      /\ UNCHANGED <<frames, stacks, unit>>
  BY DEF VisitReturn
<1>2. inMain \in BOOLEAN
  BY DEF IInv
<1>3. GoesOn(b, b') /\ SameStacks(b, b')
  BY <1>1, <1>2, Facts, MakeReturnGoesOn, MakeReturnGrows, GrownOK
<1>4. SameMarks
  BY <1>1, VisitMarks, "return" \in Unmarked DEF Unmarked
<1> QED
  BY <1>1, <1>3, <1>4, LeafBlocks

LEMMA BreakBlocks ==
  ASSUME IInv, BInv, VisitBreak
  PROVE  BInv' /\ Seals
<1>1. /\ Visit("break", Innermost({"loop", "switch"}), 0)
      /\ b' = IF TopOf(breakForLoop) THEN MakeLoopExit(b) ELSE AddSwitchBreak(b)
      /\ UNCHANGED <<frames, stacks, unit>> /\ Innermost(Both) # 0 /\ phase = "body"
  BY DEF VisitBreak, Both
<1>2. DepthOf(frames, Both, Len(frames)) \in Nat \ {0}
  BY <1>1, InnermostOpen
<1>3. breakForLoop # <<>>
  BY <1>2, Facts DEF StacksOK, StackLengths
<1>4. IF TopOf(breakForLoop) THEN b.loops # <<>> ELSE b.switches # <<>>
  BY <1>3, Facts, TopTells
<1>5. GoesOn(b, b')
  BY <1>1, <1>4, Facts, LoopEdgesGoOn, AddSwitchBreakGoesOn
<1>6. SameStacks(b, b')
  BY <1>1, <1>4, Facts, MakeLoopExitGrows, AddSwitchBreakGrows, GrownOK
<1>7. SameMarks
  BY <1>1, VisitMarks, "break" \in Unmarked DEF Unmarked
<1> QED
  BY <1>1, <1>5, <1>6, <1>7, LeafBlocks

LEMMA TerminalGoesOn ==
  ASSUME NEW bk, BuilderOK(bk), loopTerminal \in Seq(Nat), loopTerminal # <<>>
  PROVE  GoesOn(bk, Terminal(bk))
<1>1. TopOf(loopTerminal) \in Nat
  BY TopPopType
<1>2. Event("terminal", TopOf(loopTerminal)) \in EventType
  BY <1>1, EventsType DEF EventNames
<1> QED
  BY <1>2, EmitGoesOn, GoesOnReflexive DEF Terminal

LEMMA BackEdgeGoesOn ==
  ASSUME NEW bk, BuilderOK(bk), bk.loops # <<>>,
         loopTerminal \in Seq(Nat), loopTerminal # <<>>
  PROVE  LET back == MakeLoopBackEdge(Terminal(bk), FALSE)
         IN  GoesOn(bk, back) /\ SameStacks(bk, back)
<1> DEFINE t == Terminal(bk)
<1>1. GoesOn(bk, t) /\ Grows(bk, t)
  BY TerminalGrows, TerminalGoesOn
<1> HIDE DEF t
<1>2. BuilderOK(t) /\ t.loops # <<>>
  BY <1>1, GrownOK DEF SameStacks
<1>3. GoesOn(t, MakeLoopBackEdge(t, FALSE))
  BY <1>2, LoopEdgesGoOn
<1>4. GoesOn(bk, MakeLoopBackEdge(t, FALSE))
  BY <1>1, <1>3, GoesOnTransitive
<1>5. SameStacks(bk, MakeLoopBackEdge(t, FALSE))
  BY BackEdgeGrows, GrownOK DEF t
<1> QED
  BY <1>4, <1>5 DEF t

LEMMA ContinueBlocks ==
  ASSUME IInv, BInv, VisitContinue
  PROVE  BInv' /\ Seals
<1>1. /\ Visit("continue", Innermost({"loop"}), 0) /\ phase = "body"
      /\ b' = MakeLoopBackEdge(Terminal(b), FALSE)
      /\ UNCHANGED <<frames, stacks, unit>> /\ Innermost({"loop"}) # 0
  BY DEF VisitContinue
<1>2. DepthOf(frames, {"loop"}, Len(frames)) \in Nat \ {0}
  BY <1>1, InnermostOpen
<1>3. loopTerminal # <<>> /\ b.loops # <<>>
  BY <1>2, Facts DEF StacksOK, StackLengths
<1>4. GoesOn(b, b') /\ SameStacks(b, b')
  BY <1>1, <1>3, Facts, BackEdgeGoesOn
<1>5. SameMarks
  BY <1>1, VisitMarks, "continue" \in Unmarked DEF Unmarked
<1> QED
  BY <1>1, <1>4, <1>5, LeafBlocks

-----------------------------------------------------------------------------
(* Constructs: entered, they hold some of the blocks that were made for    *)
(* them; left, they give them up, and code goes on in one of them.         *)

LEMMA EnterBlocks ==
  ASSUME NEW bk, NEW L, NEW f, NEW out, NEW F, Apart(bk, L, f, out, F),
         NEW g, NEW n \in Nat, Len(f) = n, Len(g) = n + 1,
         \A j \in 1..n : g[j] = f[j] /\ Orderly(f[j]), Orderly(g[n + 1]),
         \A k \in 1..DepthOf(f, {"loop"}, n) : bk.loops[k] = L[k],
         NEW H, HeldBy(bk.loops, g, n + 1) = H, F = H \cup {bk.insert},
         bk.insert \notin H, \A x \in H : x \in Ids(bk) /\ Unsealed(bk, x),
         Unsealed(bk, bk.insert)
  PROVE  BlocksOK(bk, g, out)
<1>1. Apart(bk, bk.loops, g, out, {bk.insert})
  <2>1. /\ \A x \in HeldBy(bk.loops, g, n + 1) :
             x \in F /\ x \notin {bk.insert} /\ x \in Ids(bk) /\ Unsealed(bk, x)
        /\ {bk.insert} \subseteq F
        /\ \A x \in F : x \in {bk.insert} \/ x \in HeldBy(bk.loops, g, n + 1)
    OBVIOUS
  <2> QED
    BY SMTT(60), <2>1, ApartPush
<1>2. \A i \in 1..Len(g) : i \in 1..n \/ i = n + 1
  OBVIOUS
<1>3. \A i \in 1..Len(g) : Orderly(g[i])
  BY <1>2
<1> QED
  BY <1>1, <1>3 DEF BlocksOK

LEMMA LeaveBlocks ==
  ASSUME NEW S, NEW f \in Seq(S), f # <<>>, NEW bk, NEW out, BlocksOK(bk, f, out),
         NEW M, \A k \in 1..DepthOf(f, {"loop"}, Len(f) - 1) : bk.loops[k] = M[k]
  PROVE  /\ Apart(bk, M, Pop(f), out, {bk.insert} \cup HeldBy(bk.loops, f, Len(f)))
         /\ \A i \in 1..Len(Pop(f)) : Orderly(Pop(f)[i])
         /\ Orderly(TopOf(f))
         /\ \A x \in HeldBy(bk.loops, f, Len(f)) :
              x # bk.insert /\ x \notin out /\ x \in Ids(bk) /\ Unsealed(bk, x)
         /\ bk.insert \notin out /\ Unsealed(bk, bk.insert)
<1> DEFINE n == Len(f) - 1
           g == Pop(f)
<1>a. /\ Len(f) \in Nat \ {0} /\ Len(g) = n /\ TopOf(f) = f[Len(f)]
      /\ \A j \in 1..n : g[j] = f[j]
  BY PopElements
<1>1. /\ n \in Nat /\ Len(f) = n + 1 /\ Len(g) = n /\ \A j \in 1..n : f[j] = g[j]
      /\ n + 1 \in 1..Len(f) /\ \A j \in 1..n : j \in 1..Len(f)
  BY <1>a
<1> HIDE DEF n, g
<1>2. DepthOf(g, {"loop"}, n) = DepthOf(f, {"loop"}, n)
  BY <1>1, DepthAgree
<1>3. \A k \in 1..DepthOf(g, {"loop"}, n) : bk.loops[k] = M[k]
  BY <1>2 DEF n
<1>4. Apart(bk, bk.loops, f, out, {bk.insert}) /\ \A i \in 1..Len(f) : Orderly(f[i])
  BY DEF BlocksOK
<1>5. Apart(bk, M, g, out, {bk.insert} \cup HeldBy(bk.loops, f, n + 1))
  BY <1>1, <1>3, <1>4, ApartPop
<1>6. \A i \in 1..Len(g) : Orderly(g[i])
  BY <1>1, <1>4
<1>7. Orderly(TopOf(f))
  BY <1>1, <1>4, <1>a
<1>8. \A x \in HeldBy(bk.loops, f, n + 1) :
         x # bk.insert /\ x \notin out /\ x \in Ids(bk) /\ Unsealed(bk, x)
  BY <1>1, <1>4 DEF Apart
<1>9. bk.insert \notin out /\ Unsealed(bk, bk.insert)
  BY <1>4 DEF Apart, BlocksOK
<1> QED
  BY <1>1, <1>5, <1>6, <1>7, <1>8, <1>9 DEF g

(* The handler ends what the construct held but for one block and goes on  *)
(* there.                                                                  *)
LEMMA LeaveTo ==
  ASSUME NEW S, NEW f \in Seq(S), f # <<>>, NEW bk, NEW out, BlocksOK(bk, f, out),
         NEW ck, NEW T, Touches(bk, ck, T, {}),
         NEW H, HeldBy(bk.loops, f, Len(f)) = H,
         T \subseteq {bk.insert} \cup H, bk.insert \in T,
         ck.insert \in H, ck.insert \notin T, \A x \in H : x \in T \/ x = ck.insert,
         \A k \in 1..DepthOf(f, {"loop"}, Len(f) - 1) : ck.loops[k] = bk.loops[k]
  PROVE  BlocksOK(ck, Pop(f), out)
<1> DEFINE g == Pop(f)
           F == {bk.insert} \cup H
<1>1. /\ Apart(bk, ck.loops, g, out, F) /\ \A i \in 1..Len(g) : Orderly(g[i])
      /\ \A x \in H : x \in Ids(bk) /\ Unsealed(bk, x)
  BY LeaveBlocks
<1> HIDE DEF g
<1>2. /\ \A x \in F : x \in T \/ x \in {ck.insert}
      /\ \A x \in {ck.insert} : x \in F \/ x \notin Ids(bk)
      /\ {} \subseteq {ck.insert} /\ T \subseteq F
  OBVIOUS
<1> HIDE DEF F
<1>3. Apart(ck, ck.loops, g, out, {ck.insert})
  BY <1>1, <1>2, ApartKeeps
<1>4. ck.blocks[ck.insert] = bk.blocks[ck.insert] /\ Unsealed(bk, ck.insert)
  BY <1>1, TouchedOK
<1>5. Unsealed(ck, ck.insert)
  BY <1>4 DEF Unsealed
<1> QED
  BY <1>1, <1>3, <1>5 DEF BlocksOK, g

(* The innermost frame is where its kind's blocks are held. *)
LEMMA TopHolds ==
  ASSUME IInv, NEW kind, In(kind)
  PROVE  /\ frames # <<>> /\ Len(frames) \in Nat \ {0} /\ frames[Len(frames)] = Top
         /\ Top.kind = kind
         /\ kind \in {"then", "else"} =>
              HeldBy(b.loops, frames, Len(frames)) = {Top.obj.header, Top.obj.merge}
         /\ kind = "switch" => HeldBy(b.loops, frames, Len(frames)) = Ahead(Top.obj)
<1>1. frames # <<>> /\ Top.kind = kind /\ frames[Len(frames)] = Top
  BY DEF In, Top
<1>2. Len(frames) \in Nat \ {0}
  BY <1>1, Facts, SeqElements
<1> QED
  BY <1>1, <1>2 DEF HeldBy

LEMMA TopLeaves ==
  ASSUME IInv, BInv, frames # <<>>, phase = "body",
         NEW H, HeldBy(b.loops, frames, Len(frames)) = H
  PROVE  /\ Apart(b, b.loops, Pop(frames), Outside, {b.insert} \cup H)
         /\ \A i \in 1..Len(Pop(frames)) : Orderly(Pop(frames)[i])
         /\ Orderly(TopOf(frames)) /\ BlocksOK(b, frames, Outside)
         /\ \A x \in H : x # b.insert /\ x \notin Outside /\ x \in Ids(b) /\ Unsealed(b, x)
         /\ b.insert \notin Outside /\ Unsealed(b, b.insert)
<1>1. BlocksOK(b, frames, Outside)
  BY InsertFree
<1>2. frames \in Seq(FrameType(Len(b.blocks)))
  BY Facts
<1>3. /\ Apart(b, b.loops, Pop(frames), Outside,
              {b.insert} \cup HeldBy(b.loops, frames, Len(frames)))
      /\ \A i \in 1..Len(Pop(frames)) : Orderly(Pop(frames)[i])
      /\ Orderly(TopOf(frames))
      /\ \A x \in HeldBy(b.loops, frames, Len(frames)) :
           x # b.insert /\ x \notin Outside /\ x \in Ids(b) /\ Unsealed(b, x)
      /\ b.insert \notin Outside /\ Unsealed(b, b.insert)
  BY <1>1, <1>2, LeaveBlocks
<1> QED
  BY <1>1, <1>3

LEMMA OpenMeansBody ==
  ASSUME BInv, frames # <<>>
  PROVE  phase = "body"
BY DEF BInv

-----------------------------------------------------------------------------
(* An if's steps. *)

LEMMA InsertExists ==
  ASSUME IInv
  PROVE  b.insert \in Ids(b) /\ BuilderOK(b) /\ Len(b.blocks) \in Nat
BY Facts, InsertType DEF Ids

LEMMA IfBlocks ==
  ASSUME IInv, BInv, VisitIf
  PROVE  BInv' /\ Seals
<1> DEFINE e == Frame("then", Here, IfObject(b))
           n == Next1(b)
           h == b.insert
           d == Len(frames)
<1>1. /\ Visit("if", 0, 0) /\ b' = IfBegin(b) /\ frames' = Append(frames, e)
      /\ UNCHANGED <<stacks, unit>> /\ phase = "body"
  BY DEF VisitIf
<1>2. /\ e.kind = "then" /\ e.obj.header = h /\ e.obj.merge = n + 1
  BY DEF Frame, IfObject
<1>3. /\ Touches(b, b', {}, {n, n + 1}) /\ b'.insert = n
      /\ Open(b', n) /\ Open(b', n + 1) /\ Len(b'.blocks) = n + 1
      /\ n \in Nat /\ n = Len(b.blocks) + 1 /\ b'.loops = b.loops
  BY <1>1, Facts, IfBeginTouches
<1>4. /\ Len(frames') = d + 1 /\ frames'[d + 1] = e /\ d \in Nat
      /\ \A j \in 1..d : frames'[j] = frames[j]
  BY <1>1, Facts, AppendedText
<1> HIDE DEF e, n
<1>5. /\ h \in Ids(b) /\ h # n /\ h # n + 1 /\ n \notin Ids(b) /\ n + 1 \notin Ids(b)
      /\ h \in Ids(b') /\ n \in Ids(b') /\ n + 1 \in Ids(b') /\ n # n + 1
  <2>1. h \in 1..Len(b.blocks) /\ Len(b.blocks) \in Nat
    BY InsertExists DEF Ids
  <2> HIDE DEF h
  <2> QED
    BY <1>3, <2>1 DEF Ids
<1>6. b'.blocks[h] = b.blocks[h] /\ Unsealed(b, h)
  <2>1. Unsealed(b, h)
    BY <1>1, InsertFree
  <2>2. Touches(b, b', {}, {n, n + 1})
    BY <1>3
  <2>3. \A i \in Ids(b) : i \notin {} => b'.blocks[i] = b.blocks[i]
    BY <2>2, TouchedOK
  <2> HIDE DEF h
  <2>4. b'.blocks[h] = b.blocks[h]
    BY <1>5, <2>3
  <2> QED
    BY <2>1, <2>4
<1>7. Unsealed(b', h) /\ Unsealed(b', n) /\ Unsealed(b', n + 1)
  BY <1>3, <1>6 DEF Unsealed, Open
<1>8. /\ Apart(b, b.loops, frames, Outside, {h})
      /\ \A i \in 1..d : Orderly(frames[i])
  BY <1>1, InsertFree
<1> DEFINE F == {h, n + 1} \cup {b'.insert}
<1>9. Apart(b', b.loops, frames, Outside, F)
  <2>1. /\ {n, n + 1} \subseteq F /\ \A x \in {h} : x \in {} \/ x \in F
        /\ \A x \in F : x \in {h} \/ x \notin Ids(b)
    BY <1>3, <1>5
  <2> HIDE DEF F, h
  <2> QED
    BY <1>3, <1>8, <2>1, ApartKeeps
<1>10. HeldBy(b'.loops, frames', d + 1) = {h, n + 1}
  BY <1>2, <1>4 DEF HeldBy
<1>11. Orderly(frames'[d + 1])
  BY <1>2, <1>4, <1>5 DEF Orderly
<1>12. BlocksOK(b', frames', Outside)
  BY SMTT(60), <1>3, <1>4, <1>5, <1>7, <1>8, <1>9, <1>10, <1>11, EnterBlocks
<1>13. SameMarks
  BY <1>1, VisitMarks, "if" \in Unmarked DEF Unmarked
<1> QED
  BY <1>1, <1>3, <1>12, <1>13, Within

LEMMA ElseBlocks ==
  ASSUME IInv, BInv, VisitElse
  PROVE  BInv' /\ Seals
<1> DEFINE o     == Top.obj
           outer == Pop(frames)
           e     == Frame("else", Top.at, [o EXCEPT !.else = Next1(b)])
           n     == Next1(b)
           h     == b.insert
           d     == Len(outer)
           H     == {o.header, o.merge}
<1>1. /\ Visit("else", Top.at, 0) /\ b' = MakeBeginElse(b, o) /\ In("then")
      /\ frames' = Append(outer, e) /\ UNCHANGED <<stacks, unit>>
  BY DEF VisitElse
<1>2. /\ frames # <<>> /\ o \in IfType(Len(b.blocks)) /\ TopOf(frames) = Top
      /\ Top.kind = "then" /\ HeldBy(b.loops, frames, Len(frames)) = H
      /\ Len(frames) \in Nat \ {0} /\ phase = "body"
  BY <1>1, TopType, TopHolds, OpenMeansBody
<1>3. e.kind = "else" /\ e.obj.header = o.header /\ e.obj.merge = o.merge
  <2>1. e.kind = "else" /\ e.obj = [o EXCEPT !.else = Next1(b)]
    BY DEF Frame
  <2> HIDE DEF e, o
  <2> QED
    BY <1>2, <2>1 DEF IfType
<1> HIDE DEF e
<1>4. /\ Touches(b, b', {h}, {n}) /\ b'.insert = n /\ Open(b', n)
      /\ n \notin Ids(b) /\ n \in Ids(b') /\ b'.loops = b.loops
  BY <1>1, <1>2, Facts, MakeBeginElseTouches
<1>5. /\ Len(frames') = d + 1 /\ frames'[d + 1] = e /\ d \in Nat
      /\ \A j \in 1..d : frames'[j] = outer[j]
  <2>1. outer \in Seq(FrameType(Len(b.blocks)))
    BY <1>2, Facts, PopElements
  <2> QED
    BY <1>1, <2>1, AppendedText
<1>6. /\ BlocksOK(b, frames, Outside) /\ h \notin Outside /\ Unsealed(b, h)
  BY <1>2, InsertFree
<1>7. /\ Apart(b, b.loops, outer, Outside, {h} \cup H)
      /\ \A i \in 1..d : Orderly(outer[i])
      /\ Orderly(Top)
      /\ \A x \in H : x # h /\ x \notin Outside /\ x \in Ids(b) /\ Unsealed(b, x)
  BY <1>2, <1>6, Facts, LeaveBlocks
<1> HIDE DEF outer, n, H
<1> DEFINE F == H \cup {b'.insert}
<1>8. Apart(b', b.loops, outer, Outside, F)
  <2>1. /\ {n} \subseteq F /\ \A x \in {h} \cup H : x \in {h} \/ x \in F
        /\ \A x \in F : x \in {h} \cup H \/ x \notin Ids(b)
        /\ {h} \subseteq {h} \cup H
    BY <1>4
  <2> HIDE DEF F, h
  <2> QED
    BY <1>4, <1>7, <2>1, ApartKeeps
<1>9. HeldBy(b'.loops, frames', d + 1) = H
  BY <1>3, <1>5 DEF HeldBy, H
<1>10. Orderly(frames'[d + 1])
  BY <1>2, <1>3, <1>5, <1>7 DEF Orderly
<1>11. \A x \in H : x \in Ids(b') /\ b'.blocks[x] = b.blocks[x] /\ x # n
  BY <1>4, <1>7, TouchedOK
<1>12. /\ \A x \in H : x \in Ids(b') /\ Unsealed(b', x)
       /\ b'.insert \notin H /\ Unsealed(b', b'.insert)
  BY <1>4, <1>7, <1>11 DEF Unsealed, Open
<1>13. BlocksOK(b', frames', Outside)
  BY <1>4, <1>5, <1>7, <1>8, <1>9, <1>10, <1>12, EnterBlocks
<1>14. SameMarks
  BY <1>1, VisitMarks, "else" \in Unmarked DEF Unmarked
<1>15. \A x \in {h} : x \notin Outside /\ (x \in Ids(b) => Unsealed(b, x))
  BY <1>6
<1> QED
  BY <1>1, <1>2, <1>4, <1>13, <1>14, <1>15, Within

LEMMA EndIfBlocks ==
  ASSUME IInv, BInv, EndIf
  PROVE  BInv' /\ Seals
<1> DEFINE o == Top.obj
           T == {b.insert, o.header}
           H == {o.header, o.merge}
<1>1. /\ Visit("endif", Top.at, 0) /\ b' = MakeEndIf(b, o, Top.at)
      /\ frames' = Pop(frames) /\ UNCHANGED <<stacks, unit>>
  BY DEF EndIf
<1>2. PICK kind \in {"then", "else"} : In(kind)
  BY DEF EndIf
<1>3. /\ frames # <<>> /\ Top.at \in Nat /\ TopOf(frames) = Top /\ Top.kind = kind
      /\ o \in IfType(Len(b.blocks)) /\ phase = "body"
      /\ HeldBy(b.loops, frames, Len(frames)) = H
  BY <1>2, TopType, TopHolds, OpenMeansBody
<1>4. /\ Touches(b, b', T, {}) /\ b'.insert = o.merge /\ b'.loops = b.loops
  BY ZenonT(60), <1>1, <1>3, Facts, MakeEndIfTouches
<1>5. BlocksOK(b, frames, Outside)
  BY <1>3, InsertFree
<1>6. /\ Orderly(Top) /\ b.insert \notin Outside /\ Unsealed(b, b.insert)
      /\ \A x \in H : x # b.insert /\ x \notin Outside /\ x \in Ids(b) /\ Unsealed(b, x)
  BY <1>3, <1>5, Facts, LeaveBlocks
<1>7. o.header # o.merge
  BY <1>3, <1>6 DEF Orderly
<1>8. BlocksOK(b', Pop(frames), Outside)
  <2>1. /\ T \subseteq {b.insert} \cup H /\ b.insert \in T /\ b'.insert \in H
        /\ b'.insert \notin T /\ \A x \in H : x \in T \/ x = b'.insert
    BY <1>4, <1>6, <1>7
  <2> HIDE DEF T, H
  <2> QED
    BY <1>3, <1>4, <1>5, <2>1, Facts, LeaveTo
<1>9. SameMarks
  BY <1>1, VisitMarks, "endif" \in Unmarked DEF Unmarked
<1>10. \A x \in T : x \notin Outside /\ (x \in Ids(b) => Unsealed(b, x))
  BY <1>6
<1> QED
  BY <1>1, <1>3, <1>4, <1>8, <1>9, <1>10, Within

-----------------------------------------------------------------------------
(* A loop's steps. *)

LEMMA LoopTestGoesOn ==
  ASSUME NEW bk, BuilderOK(bk), bk.loops # <<>>, NEW at \in Nat
  PROVE  GoesOn(bk, LoopTest(bk, at)) /\ SameStacks(bk, LoopTest(bk, at))
BY LoopTestTouches DEF LoopTest, SameStacks

(* A loop is open: its stack entry is the frames' depth. *)
LEMMA LoopEntered ==
  ASSUME IInv, NEW form, NEW x,
         NEW e, e = Frame("loop", Here, form), NEW L, L = Append(b.loops, x)
  PROVE  /\ HeldBy(L, Append(frames, e), Len(frames) + 1) = {x.exit}
         /\ L # <<>>
         /\ \A k \in 1..DepthOf(frames, {"loop"}, Len(frames)) : L[k] = b.loops[k]
<1> DEFINE d == Len(frames)
           g == Append(frames, e)
           S == FrameType(Len(b.blocks)) \cup {e}
<1>1. e.kind = "loop"
  BY DEF Frame
<1>2. frames \in Seq(S) /\ e \in S
  BY Facts, SeqSubset, FrameType(Len(b.blocks)) \subseteq S
<1>3. /\ g[d + 1] = e /\ DepthOf(frames, {"loop"}, d) \in Nat
      /\ DepthOf(g, {"loop"}, d + 1) = DepthOf(frames, {"loop"}, d) + 1
  <2> HIDE DEF S
  <2> QED
    BY <1>1, <1>2, PushDepth
<1>4. Len(b.loops) = DepthOf(frames, {"loop"}, d)
  BY Facts DEF StacksOK, StackLengths
<1>5. /\ Len(L) = Len(b.loops) + 1 /\ L[Len(b.loops) + 1] = x
      /\ \A k \in 1..Len(b.loops) : L[k] = b.loops[k]
  BY Facts, AppendedText
<1>6. L # <<>>
  <2>1. Len(L) # 0
    BY <1>3, <1>4, <1>5
  <2> QED
    BY <2>1
<1>7. HeldBy(L, g, d + 1) = {x.exit}
  <2> HIDE DEF g, d
  <2> QED
    BY <1>1, <1>3, <1>4, <1>5 DEF HeldBy
<1> QED
  BY <1>4, <1>5, <1>6, <1>7

LEMMA LoopBlocks ==
  ASSUME IInv, BInv, NEW form \in LoopForms, VisitLoop(form)
  PROVE  BInv' /\ Seals
<1> DEFINE e    == Frame("loop", Here, form)
           made == MakeNewLoop(b)
           n    == Next1(b)
           h    == b.insert
           d    == Len(frames)
           x    == [header |-> n, exit |-> n + 1]
           F    == {n + 1} \cup {made.insert}
<1>1. /\ Visit("loop", 0, form) /\ phase = "body" /\ frames' = Append(frames, e)
      /\ b' = IF form.testFirst /\ form.test THEN LoopTest(made, Here) ELSE made
      /\ UNCHANGED unit
  BY DEF VisitLoop
<1>2. Here \in Nat
  BY <1>1, Facts, VisitNext
<1>3. /\ Touches(b, made, {h}, {n, n + 1}) /\ made.insert = n
      /\ Open(made, n) /\ Open(made, n + 1) /\ Len(made.blocks) = n + 1
      /\ n \in Nat /\ n = Len(b.blocks) + 1 /\ made.loops = Append(b.loops, x)
  BY Facts, MakeNewLoopTouches
<1> HIDE DEF made, n, x
<1>4. /\ Len(frames') = d + 1 /\ frames'[d + 1] = e /\ d \in Nat
      /\ \A j \in 1..d : frames'[j] = frames[j]
  BY <1>1, Facts, AppendedText
<1>5. /\ HeldBy(made.loops, frames', d + 1) = {n + 1} /\ made.loops # <<>>
      /\ \A k \in 1..DepthOf(frames, {"loop"}, d) : made.loops[k] = b.loops[k]
  <2>1. x.exit = n + 1
    BY DEF x
  <2> HIDE DEF e
  <2>2. e = Frame("loop", Here, form)
    BY DEF e
  <2>3. made.loops = Append(b.loops, x)
    BY <1>3
  <2>4. /\ HeldBy(made.loops, Append(frames, e), Len(frames) + 1) = {x.exit}
        /\ made.loops # <<>>
        /\ \A k \in 1..DepthOf(frames, {"loop"}, Len(frames)) : made.loops[k] = b.loops[k]
    BY <2>2, <2>3, LoopEntered
  <2> QED
    BY <1>1, <2>1, <2>4
<1>6. e.kind = "loop"
  BY DEF Frame
<1> HIDE DEF e
<1>7. /\ n \notin Ids(b) /\ n + 1 \notin Ids(b) /\ n # n + 1
      /\ n \in Ids(made) /\ n + 1 \in Ids(made) /\ Unsealed(made, n) /\ Unsealed(made, n + 1)
  BY <1>3, InsertExists DEF Ids, Unsealed, Open
<1>8. /\ Apart(b, b.loops, frames, Outside, {h}) /\ h \notin Outside /\ Unsealed(b, h)
      /\ \A i \in 1..d : Orderly(frames[i])
  BY <1>1, InsertFree
<1>9. Apart(made, b.loops, frames, Outside, F)
  <2>1. /\ {n, n + 1} \subseteq F /\ \A y \in {h} : y \in {h} \/ y \in F
        /\ \A y \in F : y \in {h} \/ y \notin Ids(b)
        /\ {h} \subseteq {h}
    BY <1>3, <1>7
  <2> HIDE DEF F, h
  <2> QED
    BY <1>3, <1>8, <2>1, ApartKeeps
<1>10. Orderly(frames'[d + 1])
  BY <1>4, <1>6 DEF Orderly
<1>11. BlocksOK(made, frames', Outside)
  <2>1. /\ made.insert \notin {n + 1} /\ Unsealed(made, made.insert)
        /\ \A y \in {n + 1} : y \in Ids(made) /\ Unsealed(made, y)
    BY <1>3, <1>7
  <2> QED
    BY <1>4, <1>5, <1>8, <1>9, <1>10, <2>1, EnterBlocks
<1>12. BuilderOK(made)
  BY <1>3, TouchedOK
<1>13. GoesOn(made, b') /\ SameStacks(made, b')
  BY <1>1, <1>2, <1>5, <1>12, LoopTestGoesOn, GoesOnReflexive DEF SameStacks
<1>14. BlocksOK(b', frames', Outside)
  BY <1>11, <1>13, GoesOnKeeps
<1>15. Touches(b, b', {h}, {n + 1, b'.insert})
  <2>1. Touches(made, b', {n}, {b'.insert})
    BY <1>3, <1>13 DEF GoesOn
  <2>2. /\ \A i \in {n} : i \in Ids(b) => i \in {h}
        /\ \A i \in {n, n + 1} : i \in {n} \/ i \in {n + 1, b'.insert}
        /\ {h} \subseteq {h} \cup {n} /\ {b'.insert} \subseteq {n + 1, b'.insert}
        /\ {h} \subseteq {h}
    BY <1>7
  <2> HIDE DEF h
  <2> QED
    BY <1>3, <2>1, <2>2, TouchesThen
<1>16. SameMarks
  BY <1>1, VisitMarks, "loop" \in Unmarked DEF Unmarked
<1>17. \A y \in {h} : y \notin Outside /\ (y \in Ids(b) => Unsealed(b, y))
  BY <1>8
<1> QED
  BY <1>1, <1>14, <1>15, <1>16, <1>17, Within

LEMMA EndLoopBlocks ==
  ASSUME IInv, BInv, EndLoop
  PROVE  BInv' /\ Seals
<1> DEFINE tested == IF ~ Top.obj.testFirst /\ Top.obj.test THEN LoopTest(b, Top.at) ELSE b
           back   == MakeLoopBackEdge(Terminal(tested), FALSE)
           h      == b.insert
           d      == Len(frames)
<1>1. /\ Visit("endloop", Top.at, 0) /\ b' = CloseLoop(back)
      /\ frames' = Pop(frames) /\ UNCHANGED unit /\ In("loop")
  BY DEF EndLoop
<1>2. /\ frames # <<>> /\ TopOf(frames) = Top /\ Top.kind = "loop" /\ Top.at \in Nat
      /\ phase = "body" /\ frames[d] = Top /\ d \in Nat \ {0}
  BY <1>1, TopType, TopHolds, OpenMeansBody
<1>3. breakForLoop # <<>> /\ loopTerminal # <<>> /\ b.loops # <<>>
  BY <1>2, Facts, PopLoop
<1>4. GoesOn(b, tested) /\ SameStacks(b, tested)
  BY <1>2, <1>3, Facts, LoopTestGoesOn, GoesOnReflexive DEF SameStacks
<1> HIDE DEF tested
<1>5. BuilderOK(tested) /\ tested.loops # <<>>
  BY <1>3, <1>4, TouchedOK DEF GoesOn, SameStacks
<1>6. GoesOn(tested, back) /\ SameStacks(tested, back)
  BY <1>3, <1>5, Facts, BackEdgeGoesOn
<1> HIDE DEF back
<1>7. GoesOn(b, back) /\ back.loops = b.loops /\ SameStacks(b, back)
  BY <1>4, <1>6, GoesOnTransitive DEF SameStacks
<1>8. BuilderOK(back) /\ Touches(b, back, {h}, {back.insert})
  BY <1>7, TouchedOK DEF GoesOn
<1>9. BlocksOK(back, frames, Outside)
  BY <1>2, <1>7, InsertFree, GoesOnKeeps
<1> DEFINE x == TopOf(b.loops).exit
<1>10. /\ Touches(back, b', {back.insert}, {}) /\ b'.insert = x
       /\ b'.loops = Pop(b.loops)
  BY <1>1, <1>3, <1>7, <1>8, CloseLoopTouches
<1>11. /\ Len(b.loops) = DepthOf(frames, {"loop"}, d)
       /\ Len(b.loops) \in Nat \ {0}
       /\ DepthOf(frames, {"loop"}, d) = DepthOf(frames, {"loop"}, d - 1) + 1
       /\ DepthOf(frames, {"loop"}, d - 1) \in Nat
       /\ \A k \in 1..(Len(b.loops) - 1) : b'.loops[k] = b.loops[k]
  <2>1. Len(b.loops) = DepthOf(frames, {"loop"}, d)
    BY Facts DEF StacksOK, StackLengths
  <2>2. /\ DepthOf(frames, {"loop"}, d) = DepthOf(frames, {"loop"}, d - 1) + 1
        /\ DepthOf(frames, {"loop"}, d - 1) \in Nat
    BY <1>2, Facts, PopDepth
  <2>3. /\ Len(b.loops) \in Nat \ {0}
        /\ \A k \in 1..(Len(b.loops) - 1) : b'.loops[k] = b.loops[k]
    BY ZenonT(60), <1>3, <1>10, Facts, PopElements
  <2> QED
    BY <2>1, <2>2, <2>3
<1>12. HeldBy(back.loops, frames, d) = {x}
  BY <1>2, <1>7, <1>11 DEF HeldBy, TopOf
<1>13. \A k \in 1..DepthOf(frames, {"loop"}, d - 1) : b'.loops[k] = back.loops[k]
  BY <1>7, <1>11
<1>14. x # back.insert
  BY <1>2, <1>9, <1>12 DEF BlocksOK, Apart
<1>15. BlocksOK(b', Pop(frames), Outside)
  <2>1. /\ {back.insert} \subseteq {back.insert} \cup {x} /\ back.insert \in {back.insert}
        /\ b'.insert \in {x} /\ b'.insert \notin {back.insert}
        /\ \A y \in {x} : y \in {back.insert} \/ y = b'.insert
    BY <1>10, <1>14
  <2> HIDE DEF x
  <2> QED
    BY <1>2, <1>9, <1>10, <1>12, <1>13, <2>1, Facts, LeaveTo
<1>16. Touches(b, b', {h}, {})
  <2>1. /\ \A i \in {back.insert} : i \in Ids(b) => i \in {h}
        /\ \A i \in {back.insert} : i \in {back.insert} \/ i \in {}
        /\ {h} \subseteq {h} \cup {back.insert} /\ {h} \subseteq {h} /\ {} \subseteq {}
    BY <1>7 DEF GoesOn, Fresh
  <2> HIDE DEF h
  <2> QED
    BY <1>8, <1>10, <2>1, TouchesThen
<1>17. SameMarks
  BY <1>1, VisitMarks, "endloop" \in Unmarked DEF Unmarked
<1>18. \A y \in {h} : y \notin Outside /\ (y \in Ids(b) => Unsealed(b, y))
  BY <1>2, InsertFree
<1> QED
  BY <1>1, <1>2, <1>15, <1>16, <1>17, <1>18, Within

-----------------------------------------------------------------------------
(* A switch's steps. *)

(* The next segment's block, and a switch break in it if its code is missing. *)
LEMMA EnterSegmentGoesOn ==
  ASSUME NEW bk, BuilderOK(bk), bk.switches # <<>>,
         NEW segments \in Seq(1..Len(bk.blocks)), NEW s \in 1..Len(segments), NEW n
  PROVE  LET next == NextSwitchSegment(bk, segments, s)
             c    == EnterSegment(bk, segments, s, n)
         IN  GoesOn(next, c) /\ SameStacks(next, c)
<1> DEFINE next == NextSwitchSegment(bk, segments, s)
           c    == EnterSegment(bk, segments, s, n)
<1>1. Grows(bk, next)
  BY NextSwitchSegmentGrows
<1>2. c = IF s <= n THEN next ELSE AddSwitchBreak(next)
  BY DEF EnterSegment
<1> HIDE DEF next, c
<1>3. BuilderOK(next) /\ next.switches # <<>>
  BY <1>1, GrownOK DEF SameStacks
<1>4. GoesOn(next, c)
  BY <1>2, <1>3, AddSwitchBreakGoesOn, GoesOnReflexive
<1>5. SameStacks(next, AddSwitchBreak(next))
  BY <1>3, AddSwitchBreakGrows, GrownOK
<1>6. SameStacks(next, c)
  BY <1>2, <1>5 DEF SameStacks
<1> QED
  BY <1>4, <1>6 DEF next, c

LEMMA TwoMoreMarks ==
  ASSUME IInv, NEW x, NEW y, text' = text \o <<x, y>>, x.op \in Unmarked, y.op \in Unmarked
  PROVE  SameMarks
<1>1. PICK S : text \in Seq(S)
  BY Facts
<1> DEFINE T == S \cup {x, y}
<1>2. text \in Seq(T) /\ <<x, y>> \in Seq(T) /\ Len(<<x, y>>) = 2
      /\ <<x, y>>[1] = x /\ <<x, y>>[2] = y
  BY <1>1, SeqSubset, S \subseteq T, x \in T, y \in T
<1> HIDE DEF T
<1> DEFINE n == Len(text)
           m == <<x, y>>
<1>3. /\ n \in Nat /\ text' \in Seq(T) /\ Len(text') = n + 2
      /\ \A i \in 1..(n + 2) : text'[i] = IF i <= n THEN text[i] ELSE m[i - n]
  BY <1>2, ConcatProperties
<1>4. DOMAIN text = 1..n /\ DOMAIN text' = 1..(n + 2)
  BY <1>2, <1>3
<1> HIDE DEF n, m
<1>5. /\ \A i \in 1..n : i \in 1..(n + 2) /\ i <= n
      /\ \A i \in 1..(n + 2) : i > n => ~ (i <= n) /\ (i - n = 1 \/ i - n = 2)
  BY <1>3
<1>6. \A i \in 1..(n + 2) : i > n => text'[i].op \in Unmarked
  BY <1>2, <1>3, <1>5 DEF m
<1>7. \A i \in 1..n : text'[i] = text[i]
  BY <1>3, <1>5
<1>8. n <= n + 2 /\ n + 2 \in Nat
  BY <1>3
<1> QED
  BY <1>3, <1>4, <1>6, <1>7, <1>8, MarksKept DEF n

LEMMA SwitchBlocks ==
  ASSUME IInv, BInv, NEW body \in SwitchBodies, VisitSwitch(body)
  PROVE  BInv' /\ Seals
<1>1. PICK n \in SegmentCounts(body) :
        LET made == MakeSwitch(b, n, ValueToSegment(body), DefaultSegment(body), Here)
            segs == SegmentBlocks(b, n)
        IN  /\ b' = EnterSegment(made, segs, 1, CodeCount(body))
            /\ frames' = Append(frames, Frame("switch", Here,
                          [segments |-> segs, s |-> 1, code |-> CodeCount(body)]))
            /\ text' = text \o <<Token("switch", 0, [values |-> ValueToSegment(body),
                                                     default |-> DefaultSegment(body)]),
                                 Token("segment", Here, 0)>>
  BY DEF VisitSwitch
<1> DEFINE made == MakeSwitch(b, n, ValueToSegment(body), DefaultSegment(body), Here)
           segs == SegmentBlocks(b, n)
           next == NextSwitchSegment(made, segs, 1)
           obj  == [segments |-> segs, s |-> 1, code |-> CodeCount(body)]
           e    == Frame("switch", Here, obj)
           l    == Len(b.blocks)
           new  == (Len(b.blocks) + 1)..(Len(b.blocks) + n + 1)
           H    == (l + 2)..(l + n + 1)
           h    == b.insert
           d    == Len(frames)
           F    == H \cup {next.insert}
<1>2. /\ b' = EnterSegment(made, segs, 1, CodeCount(body)) /\ phase = "body"
      /\ frames' = Append(frames, e) /\ UNCHANGED unit
  BY <1>1 DEF VisitSwitch
<1>3. SameMarks
  <2> DEFINE x == Token("switch", 0, [values |-> ValueToSegment(body),
                                      default |-> DefaultSegment(body)])
             y == Token("segment", Here, 0)
  <2>1. text' = text \o <<x, y>>
    BY <1>1
  <2>2. x.op \in Unmarked /\ y.op \in Unmarked
    BY DEF Unmarked, Token
  <2> HIDE DEF x, y
  <2> QED
    BY <2>1, <2>2, TwoMoreMarks
<1>4. /\ n \in Nat \ {0} /\ ValueToSegment(body) \in Seq(0..(n - 1))
      /\ DefaultSegment(body) \in -1..(n - 1) /\ l \in Nat /\ Here \in Nat
  BY SwitchSegments, Facts DEF Here
<1>5. /\ Touches(b, made, {h}, new) /\ made.insert = h
      /\ \A x \in new : Open(made, x) /\ Fresh(b, made, x)
      /\ Len(made.blocks) = l + n + 1 /\ made.loops = b.loops
      /\ made.switches = Append(b.switches, l + n + 1)
  <2> DEFINE values == ValueToSegment(body)
             default == DefaultSegment(body)
  <2>0. BuilderOK(b)
    BY Facts
  <2> HIDE DEF values, default, made, new, l
  <2>1. LET c   == MakeSwitch(b, n, values, default, Here)
            new0 == (Len(b.blocks) + 1)..(Len(b.blocks) + n + 1)
        IN  /\ Touches(b, c, {b.insert}, new0) /\ c.insert = b.insert
            /\ \A x \in new0 : Open(c, x) /\ Fresh(b, c, x)
            /\ Len(c.blocks) = Len(b.blocks) + n + 1
            /\ c.loops = b.loops
            /\ c.switches = Append(b.switches, Len(b.blocks) + n + 1)
    BY ZenonT(60), <1>4, <2>0, MakeSwitchTouches DEF values, default
  <2> QED
    BY <2>1 DEF made, new, values, default, l
<1>6. /\ segs \in Seq(1..(l + n)) /\ Len(segs) = n /\ 1 \in 1..Len(segs)
      /\ \A k \in 1..n : segs[k] = l + k
  <2>1. segs \in Seq(1..(l + n)) /\ Len(segs) = n
    BY <1>4, SegmentsMade
  <2>2. \A k \in 1..n : segs[k] = l + k
    BY DEF SegmentBlocks
  <2> HIDE DEF segs
  <2> QED
    BY <1>4, <2>1, <2>2
<1>7. obj.segments = segs /\ obj.s = 1 /\ e.kind = "switch" /\ e.obj = obj
  BY DEF Frame
<1> HIDE DEF made, segs, obj
<1>8. BuilderOK(made) /\ made.switches # <<>>
  <2>1. BuilderOK(made)
    BY <1>5, TouchedOK
  <2>2. \E S : b.switches \in Seq(S)
    BY Facts DEF StacksTyped
  <2>3. Len(made.switches) = Len(b.switches) + 1 /\ Len(b.switches) \in Nat
    BY <1>5, <2>2, TextGrows
  <2> QED
    BY <2>1, <2>3
<1>9. segs \in Seq(1..Len(made.blocks))
  <2>1. l + n \in Nat /\ l + n + 1 \in Nat /\ l + n <= l + n + 1
    BY <1>4
  <2> HIDE DEF l
  <2> QED
    BY <1>5, <1>6, <2>1, SegmentsMonotone
<1>10. /\ Touches(made, next, {}, {}) /\ next.insert = l + 1 /\ next.loops = made.loops
  <2>1. LET c == NextSwitchSegment(made, segs, 1)
        IN  /\ 1 = 1 => Touches(made, c, {}, {})
            /\ c.insert = segs[1] /\ c.loops = made.loops
    BY <1>6, <1>8, <1>9, NextSwitchSegmentTouches
  <2>2. 1 \in 1..n
    BY <1>4
  <2> QED
    BY <1>6, <2>1, <2>2
<1>11. GoesOn(next, b') /\ SameStacks(next, b')
  BY <1>2, <1>6, <1>8, <1>9, EnterSegmentGoesOn
<1> HIDE DEF next, e
<1>12. Ahead(obj) = H /\ InOrder(obj)
  <2>1. segs[1] = l + 1 /\ 1 \in 1..n
    BY <1>4, <1>6
  <2>2. Ahead(obj) = (l + 1 + 1)..(l + 1 + n)
    BY <1>6, <1>7, <2>1 DEF Ahead
  <2>3. \A k \in 1..n : segs[k] = segs[1] + k - 1
    BY <1>4, <1>6, <2>1
  <2>4. (l + 1 + 1)..(l + 1 + n) = H
    BY <1>4
  <2> QED
    BY <1>6, <1>7, <2>2, <2>3, <2>4 DEF InOrder
<1>13. /\ Len(frames') = d + 1 /\ frames'[d + 1] = e /\ d \in Nat
       /\ \A j \in 1..d : frames'[j] = frames[j]
  BY <1>2, Facts, AppendedText
<1>14. HeldBy(next.loops, frames', d + 1) = H
  BY <1>7, <1>12, <1>13 DEF HeldBy
<1>15. Orderly(frames'[d + 1])
  BY <1>7, <1>12, <1>13 DEF Orderly
<1>16. F = new /\ H \subseteq new /\ next.insert \in new /\ next.insert \notin H
  BY SMTT(60), <1>4, <1>10
<1>17. \A x \in new : /\ x \notin Ids(b) /\ x \in Ids(next) /\ Unsealed(next, x)
  <2> SUFFICES ASSUME NEW x \in new PROVE x \notin Ids(b) /\ x \in Ids(next) /\ Unsealed(next, x)
    OBVIOUS
  <2>1. Open(made, x) /\ x \notin Ids(b) /\ x \in Ids(made)
    BY <1>5 DEF Fresh
  <2>2. x \notin {}
    OBVIOUS
  <2>3. \A i \in Ids(made) : i \in Ids(next) /\ (i \notin {} => next.blocks[i] = made.blocks[i])
    BY <1>10, TouchedOK
  <2> QED
    BY <2>1, <2>2, <2>3 DEF Open, Unsealed
<1>18. /\ Apart(b, b.loops, frames, Outside, {h}) /\ h \notin Outside /\ Unsealed(b, h)
       /\ \A i \in 1..d : Orderly(frames[i])
  BY <1>2, InsertFree
<1> HIDE DEF new, F, H
<1>19. Touches(b, next, {h}, new)
  <2>1. /\ \A i \in {} : i \in Ids(b) => i \in {h}
        /\ \A i \in new : i \in {} \/ i \in new
        /\ {h} \subseteq {h} \cup {} /\ {} \subseteq new /\ {h} \subseteq {h}
    OBVIOUS
  <2> HIDE DEF h
  <2> QED
    BY <1>5, <1>10, <2>1, TouchesThen
<1>20. Apart(next, b.loops, frames, Outside, new)
  <2>1. /\ new \subseteq new /\ {h} \subseteq {h} /\ \A y \in {h} : y \in {h} \/ y \in new
        /\ \A y \in new : y \in {h} \/ y \notin Ids(b)
    BY <1>17
  <2> HIDE DEF h
  <2> QED
    BY <1>18, <1>19, <2>1, ApartKeeps
<1>21. BlocksOK(next, frames', Outside)
  <2>1. /\ \A x \in H : x \in Ids(next) /\ Unsealed(next, x)
        /\ Unsealed(next, next.insert) /\ new = H \cup {next.insert}
    BY <1>16, <1>17 DEF F
  <2>2. \A k \in 1..DepthOf(frames, {"loop"}, d) : next.loops[k] = b.loops[k]
    BY <1>5, <1>10
  <2> QED
    BY <1>13, <1>14, <1>15, <1>16, <1>18, <1>20, <2>1, <2>2, EnterBlocks
<1>22. BlocksOK(b', frames', Outside)
  BY <1>11, <1>21, GoesOnKeeps
<1> DEFINE N == new \cup {b'.insert}
<1>23. Touches(b, b', {h}, N)
  <2>1. Touches(next, b', {next.insert}, {b'.insert})
    BY <1>11 DEF GoesOn
  <2>2. /\ \A i \in {next.insert} : i \in Ids(b) => i \in {h}
        /\ \A i \in new : i \in {next.insert} \/ i \in N
        /\ {h} \subseteq {h} \cup {next.insert} /\ {b'.insert} \subseteq N
        /\ {h} \subseteq {h}
    BY <1>16, <1>17
  <2> HIDE DEF h, N
  <2> QED
    BY <1>19, <2>1, <2>2, TouchesThen
<1>24. \A y \in {h} : y \notin Outside /\ (y \in Ids(b) => Unsealed(b, y))
  BY <1>18
<1> QED
  BY <1>2, <1>3, <1>22, <1>23, <1>24, Within

(* The frame of a switch that goes on: the same but for the segment. *)
LEMMA FrameAdvances ==
  ASSUME NEW S, NEW f \in Seq(S), f # <<>>, NEW s, NEW n,
         TopOf(f).obj \in SwitchType(n), TopOf(f) \in FrameType(n), TopOf(f).kind = "switch"
  PROVE  LET g == [f EXCEPT ![Len(f)].obj.s = s]
             e == g[Len(f)]
         IN  /\ Len(g) = Len(f)
             /\ \A i \in 1..(Len(f) - 1) : g[i] = f[i]
             /\ e.kind = "switch" /\ e.obj.s = s
             /\ e.obj.segments = TopOf(f).obj.segments
<1> DEFINE d   == Len(f)
           top == TopOf(f)
           new == [top EXCEPT !.obj.s = s]
           g   == [f EXCEPT ![d] = new]
<1>1. d \in Nat \ {0} /\ top = f[d] /\ d \in 1..d /\ DOMAIN f = 1..d
  <2>1. d \in Nat \ {0} /\ top = f[d]
    BY PopElements
  <2>2. DOMAIN f = 1..d
    OBVIOUS
  <2> HIDE DEF d
  <2> QED
    BY <2>1, <2>2
<1>2. [f EXCEPT ![Len(f)].obj.s = s] = g
  BY DEF TopOf
<1>3. top \in [kind : {"switch"}, at : Nat, obj : SwitchType(n)]
  BY DEF FrameType
<1> HIDE DEF top
<1>4. new.kind = "switch" /\ new.obj.s = s /\ new.obj.segments = top.obj.segments
  <2> DEFINE o == [top.obj EXCEPT !.s = s]
  <2>1. top.obj \in SwitchType(n)
    BY <1>3
  <2>2. o.s = s /\ o.segments = top.obj.segments
    BY <2>1 DEF SwitchType
  <2>3. new = [top EXCEPT !.obj = o]
    OBVIOUS
  <2> HIDE DEF o, new
  <2>4. new.obj = o /\ new.kind = top.kind
    BY <1>3, <2>3
  <2> QED
    BY <1>3, <2>2, <2>4
<1> HIDE DEF new
<1>5. Len(g) = d /\ \A i \in 1..d : g[i] = IF i = d THEN new ELSE f[i]
  <2>1. f \in Seq(S \cup {new}) /\ new \in S \cup {new}
    BY SeqSubset, S \subseteq S \cup {new}
  <2>2. Len(g) = d
    BY <1>1, <2>1, ReplaceOne
  <2>3. \A i \in 1..d : g[i] = IF i = d THEN new ELSE f[i]
    BY <1>1
  <2> QED
    BY <2>2, <2>3
<1>6. \A i \in 1..(d - 1) : i \in 1..d /\ i # d
  <2>1. d \in Nat
    BY <1>1
  <2> HIDE DEF d
  <2> QED
    BY <2>1
<1>7. /\ Len(g) = d /\ \A i \in 1..(d - 1) : g[i] = f[i]
      /\ g[d] = new
  BY <1>1, <1>5, <1>6
<1> HIDE DEF g
<1> QED
  BY <1>2, <1>4, <1>7 DEF top

LEMMA IntervalHead ==
  ASSUME NEW i \in Nat, NEW j \in Nat, i <= j
  PROVE  i..j = ((i + 1)..j) \cup {i} /\ i \notin (i + 1)..j
OBVIOUS

LEMMA NextSegmentBlocks ==
  ASSUME IInv, BInv, NextSegment
  PROVE  BInv' /\ Seals
<1> DEFINE o    == Top.obj
           s    == o.s + 1
           segs == o.segments
           n    == Len(segs)
           g    == [frames EXCEPT ![Len(frames)].obj.s = s]
           next == NextSwitchSegment(b, segs, s)
           h    == b.insert
           d    == Len(frames) - 1
           outer == Pop(frames)
           H    == (segs[1] + s)..(segs[1] + n)
           F    == H \cup {next.insert}
<1>1. /\ b' = EnterSegment(b, segs, s, o.code) /\ frames' = g
      /\ Visit("segment", Top.at, s - 1) /\ UNCHANGED <<stacks, unit>>
      /\ In("switch") /\ o.s < n
  BY DEF NextSegment
<1>2. /\ frames # <<>> /\ TopOf(frames) = Top /\ Top.kind = "switch"
      /\ o \in SwitchType(Len(b.blocks)) /\ Top \in FrameType(Len(b.blocks))
      /\ Len(frames) \in Nat \ {0} /\ phase = "body"
      /\ HeldBy(b.loops, frames, Len(frames)) = Ahead(o)
  BY <1>1, TopType, TopHolds, OpenMeansBody
<1>3. segs \in Seq(1..Len(b.blocks)) /\ s \in 1..n /\ s > 1 /\ o.s \in 1..n /\ n \in Nat
      /\ segs[1] \in Nat /\ s = o.s + 1
  BY SMTT(60), <1>1, <1>2 DEF SwitchType
<1>4. b.switches # <<>>
  BY <1>2, Facts, PopSwitch
<1>5. /\ Len(g) = Len(frames) /\ \A i \in 1..d : g[i] = frames[i]
      /\ g[Len(frames)].kind = "switch" /\ g[Len(frames)].obj.s = s
      /\ g[Len(frames)].obj.segments = segs
  <2>1. frames \in Seq(FrameType(Len(b.blocks)))
    BY Facts
  <2> HIDE DEF s
  <2>2. LET g0 == [frames EXCEPT ![Len(frames)].obj.s = s]
            e  == g0[Len(frames)]
        IN  /\ Len(g0) = Len(frames)
            /\ \A i \in 1..(Len(frames) - 1) : g0[i] = frames[i]
            /\ e.kind = "switch" /\ e.obj.s = s
            /\ e.obj.segments = TopOf(frames).obj.segments
    BY <1>2, <2>1, FrameAdvances
  <2> QED
    BY <1>2, <2>2
<1>6. /\ BlocksOK(b, frames, Outside) /\ h \notin Outside /\ Unsealed(b, h)
  BY <1>2, InsertFree
<1>7. /\ Apart(b, b.loops, outer, Outside, {h} \cup Ahead(o))
      /\ \A i \in 1..Len(outer) : Orderly(outer[i])
      /\ Orderly(Top)
      /\ \A x \in Ahead(o) : x # h /\ x \notin Outside /\ x \in Ids(b) /\ Unsealed(b, x)
  <2> DEFINE A == Ahead(o)
  <2>1. HeldBy(b.loops, frames, Len(frames)) = A
    BY <1>2
  <2> HIDE DEF A, g
  <2>2. /\ Apart(b, b.loops, Pop(frames), Outside, {b.insert} \cup A)
        /\ \A i \in 1..Len(Pop(frames)) : Orderly(Pop(frames)[i])
        /\ Orderly(TopOf(frames))
        /\ \A x \in A : x # b.insert /\ x \notin Outside /\ x \in Ids(b) /\ Unsealed(b, x)
    BY <1>2, <2>1, TopLeaves
  <2> QED
    BY <1>2, <2>2 DEF A
<1>8. /\ Len(outer) = d /\ d \in Nat /\ Len(frames) = d + 1
      /\ \A j \in 1..d : outer[j] = frames[j]
  BY <1>2, Facts, PopElements
<1>9. InOrder(o) /\ segs[s] = segs[1] + o.s
  <2>1. InOrder(o)
    BY <1>2, <1>7 DEF Orderly
  <2>2. segs[s] = segs[1] + s - 1
    BY <1>3, <2>1 DEF InOrder
  <2> QED
    BY <1>3, <2>1, <2>2
<1>10. GoesOn(next, b') /\ SameStacks(next, b')
  BY <1>1, <1>3, <1>4, Facts, EnterSegmentGoesOn
<1>11. Touches(b, next, {h}, {}) /\ next.insert = segs[s] /\ next.loops = b.loops
  <2>1. BuilderOK(b)
    BY Facts
  <2> HIDE DEF s, segs, n
  <2>2. LET c == NextSwitchSegment(b, segs, s)
        IN  /\ s > 1 => Touches(b, c, {b.insert}, {})
            /\ c.insert = segs[s] /\ c.loops = b.loops
    BY ZenonT(60), <1>3, <2>1, NextSwitchSegmentTouches DEF n
  <2> QED
    BY <1>3, <2>2
<1> HIDE DEF next, g, outer
<1>12. /\ Ahead(o) = F /\ next.insert \notin H /\ Ahead(g[Len(frames)].obj) = H
  <2>1. Ahead(o) = (segs[1] + o.s)..(segs[1] + n)
    BY DEF Ahead
  <2>2. Ahead(g[Len(frames)].obj) = H
    BY <1>5 DEF Ahead
  <2>3. next.insert = segs[1] + o.s
    BY <1>9, <1>11
  <2>4. /\ H = (segs[1] + o.s + 1)..(segs[1] + n)
        /\ segs[1] + o.s \in Nat /\ segs[1] + n \in Nat /\ segs[1] + o.s <= segs[1] + n
    <3>1. s = o.s + 1 /\ n \in Nat /\ o.s \in 1..n /\ segs[1] \in Nat
      BY <1>3
    <3> DEFINE p == o.s
               f == segs[1]
    <3>2. H = (f + s)..(f + n) /\ s = p + 1
      BY <3>1
    <3> HIDE DEF o, segs, n, s, p, f, H
    <3>3. /\ n \in Nat /\ p \in 1..n /\ f \in Nat
      BY <3>1 DEF p, f
    <3>4. f + s = f + p + 1 /\ f + p \in Nat /\ f + n \in Nat /\ f + p <= f + n
      BY <3>2, <3>3
    <3> QED
      BY <3>2, <3>4 DEF p, f
  <2>5. /\ (segs[1] + o.s)..(segs[1] + n) = H \cup {segs[1] + o.s}
        /\ segs[1] + o.s \notin H
    <3> HIDE DEF o, segs, n, H
    <3> QED
      BY <2>4, IntervalHead
  <2> QED
    BY <2>1, <2>2, <2>3, <2>5
<1>13. HeldBy(next.loops, frames', d + 1) = H
  BY <1>1, <1>5, <1>8, <1>12 DEF HeldBy
<1>14. Orderly(frames'[d + 1])
  <2>1. InOrder(g[Len(frames)].obj)
    BY <1>5, <1>9 DEF InOrder
  <2> QED
    BY <1>1, <1>5, <1>8, <2>1 DEF Orderly
<1> HIDE DEF H, F
<1>15. Apart(next, b.loops, outer, Outside, F)
  <2>1. /\ {} \subseteq F /\ {h} \subseteq {h} \cup Ahead(o)
        /\ \A y \in {h} \cup Ahead(o) : y \in {h} \/ y \in F
        /\ \A y \in F : y \in {h} \cup Ahead(o) \/ y \notin Ids(b)
    BY <1>12
  <2> HIDE DEF h
  <2> QED
    BY <1>7, <1>11, <2>1, ApartKeeps
<1>16. \A x \in F : x \in Ids(next) /\ Unsealed(next, x)
  <2> SUFFICES ASSUME NEW x \in F PROVE x \in Ids(next) /\ Unsealed(next, x)
    OBVIOUS
  <2>1. x \notin {h} /\ x \in Ids(b) /\ Unsealed(b, x)
    BY <1>7, <1>12
  <2>2. x \in Ids(next) /\ next.blocks[x] = b.blocks[x]
    BY <1>11, <2>1, TouchedOK
  <2> QED
    BY <2>1, <2>2 DEF Unsealed
<1>17. BlocksOK(next, frames', Outside)
  <2>1. /\ F = H \cup {next.insert} /\ Unsealed(next, next.insert)
        /\ \A x \in H : x \in Ids(next) /\ Unsealed(next, x)
    BY <1>16 DEF F
  <2>2. /\ Len(frames') = d + 1
        /\ \A j \in 1..d : frames'[j] = outer[j] /\ Orderly(outer[j])
    BY <1>1, <1>5, <1>7, <1>8
  <2>3. \A k \in 1..DepthOf(outer, {"loop"}, d) : next.loops[k] = b.loops[k]
    BY <1>11
  <2>4. Len(outer) = d /\ d \in Nat /\ next.insert \notin H
    BY <1>8, <1>12
  <2> HIDE DEF d
  <2> QED
    BY <1>13, <1>14, <1>15, <2>1, <2>2, <2>3, <2>4, EnterBlocks
<1>18. BlocksOK(b', frames', Outside)
  BY <1>10, <1>17, GoesOnKeeps
<1> DEFINE T == {h, next.insert}
<1>19. Touches(b, b', T, {b'.insert})
  <2>1. Touches(next, b', {next.insert}, {b'.insert})
    BY <1>10 DEF GoesOn
  <2>2. /\ {h} \subseteq T /\ \A i \in {next.insert} : i \in Ids(b) => i \in T
        /\ \A i \in {} : i \in {next.insert} \/ i \in {b'.insert}
        /\ T \subseteq {h} \cup {next.insert} /\ {b'.insert} \subseteq {b'.insert}
    OBVIOUS
  <2> HIDE DEF h, T
  <2> QED
    BY <1>11, <2>1, <2>2, TouchesThen
<1>20. \A y \in T : y \notin Outside /\ (y \in Ids(b) => Unsealed(b, y))
  BY <1>6, <1>7, <1>12 DEF F
<1>21. SameMarks
  BY <1>1, VisitMarks, "segment" \in Unmarked DEF Unmarked
<1> QED
  BY <1>1, <1>2, <1>18, <1>19, <1>20, <1>21, Within

LEMMA EndOfSwitchBlocks ==
  ASSUME IInv, BInv, EndOfSwitch
  PROVE  BInv' /\ Seals
<1> DEFINE o == Top.obj
           n == Len(o.segments)
           d == Len(frames)
           T == {b.insert}
           H == {TopOf(b.switches)}
<1>1. /\ Visit("endswitch", Top.at, 0) /\ b' = EndSwitch(b) /\ frames' = Pop(frames)
      /\ UNCHANGED unit /\ In("switch") /\ o.s = n
  BY DEF EndOfSwitch
<1>2. /\ frames # <<>> /\ TopOf(frames) = Top /\ Top.kind = "switch" /\ frames[d] = Top
      /\ o \in SwitchType(Len(b.blocks)) /\ d \in Nat \ {0} /\ phase = "body"
      /\ HeldBy(b.loops, frames, d) = Ahead(o)
  BY <1>1, TopType, TopHolds, OpenMeansBody
<1>3. b.switches # <<>>
  BY <1>2, Facts, PopSwitch
<1>4. /\ Touches(b, b', T, {}) /\ b'.insert = TopOf(b.switches)
      /\ b'.loops = b.loops
  BY <1>1, <1>3, Facts, EndSwitchTouches, EndSwitchBuilds
<1>5. BlocksOK(b, frames, Outside)
  BY <1>2, InsertFree
<1>6. /\ Orderly(Top) /\ b.insert \notin Outside /\ Unsealed(b, b.insert)
      /\ \A x \in Ahead(o) : x # b.insert
  <2> DEFINE A == Ahead(o)
  <2>1. HeldBy(b.loops, frames, Len(frames)) = A
    BY <1>2
  <2> HIDE DEF A
  <2>2. /\ Orderly(TopOf(frames)) /\ b.insert \notin Outside /\ Unsealed(b, b.insert)
        /\ \A x \in A : x # b.insert
    BY <1>2, <2>1, TopLeaves
  <2> QED
    BY <1>2, <2>2 DEF A
<1>7. TopOf(b.switches) = o.segments[n] + 1
  <2>1. /\ InStacks(b, frames, breakForLoop, loopTerminal, d)
        /\ StackLengths(b, frames, breakForLoop, loopTerminal, d)
    BY <1>2, Facts DEF StacksOK
  <2> QED
    BY <1>2, <2>1 DEF InStacks, StackLengths, TopOf
<1>8. Ahead(o) = H
  <2>1. /\ n \in Nat \ {0} /\ o.segments[1] \in Nat
        /\ o.segments[n] = o.segments[1] + n - 1
    BY SMTT(60), <1>1, <1>2, <1>6 DEF Orderly, InOrder, SwitchType
  <2>2. Ahead(o) = (o.segments[1] + n)..(o.segments[1] + n)
    BY <1>1 DEF Ahead
  <2>3. TopOf(b.switches) = o.segments[1] + n
    BY <1>7, <2>1
  <2>4. \A m \in Nat : m..m = {m}
    OBVIOUS
  <2> QED
    BY <2>1, <2>2, <2>3, <2>4
<1>9. BlocksOK(b', Pop(frames), Outside)
  <2>1. /\ T \subseteq {b.insert} \cup H /\ b.insert \in T /\ b'.insert \in H
        /\ b'.insert \notin T /\ \A x \in H : x \in T \/ x = b'.insert
    BY <1>4, <1>6, <1>8
  <2> HIDE DEF T, H
  <2> QED
    BY <1>2, <1>4, <1>5, <1>8, <2>1, Facts, LeaveTo
<1>10. SameMarks
  BY <1>1, VisitMarks, "endswitch" \in Unmarked DEF Unmarked
<1>11. \A x \in T : x \notin Outside /\ (x \in Ids(b) => Unsealed(b, x))
  BY <1>6
<1> QED
  BY <1>1, <1>2, <1>4, <1>9, <1>10, <1>11, Within

-----------------------------------------------------------------------------
(* Steps outside functions. *)

LEMMA MarksAppend ==
  ASSUME IInv, NEW x, text' = Append(text, x)
  PROVE  /\ \A fn : Visited(fn)' <=> Visited(fn) \/ (x.op = "function" /\ x.arg = fn)
         /\ TrailingFlow' <=> x.op = "initFlow" \/ (TrailingFlow /\ x.op # "function")
<1> DEFINE n == Len(text)
<1>1. /\ n \in Nat /\ DOMAIN text = 1..n /\ DOMAIN text' = 1..(n + 1)
      /\ \A i \in 1..n : text'[i] = text[i]
      /\ text'[n + 1] = x /\ Len(text') = n + 1
  BY Facts, AppendedText
<1> HIDE DEF n
<1>2. \A i \in 1..(n + 1) : i \in 1..n \/ i = n + 1
  BY <1>1
<1>3. n + 1 \in 1..(n + 1) /\ \A i \in 1..n : i \in 1..(n + 1)
  BY <1>1
<1>4. ASSUME NEW fn
      PROVE  Visited(fn)' <=> Visited(fn) \/ (x.op = "function" /\ x.arg = fn)
  <2>1. Visited(fn) <=> \E i \in 1..n : text[i].op = "function" /\ text[i].arg = fn
    BY <1>1 DEF Visited
  <2>2. Visited(fn)' <=> \E i \in 1..(n + 1) : text'[i].op = "function" /\ text'[i].arg = fn
    BY <1>1 DEF Visited
  <2> QED
    BY <1>1, <1>2, <1>3, <2>1, <2>2
<1>5. TrailingFlow <=> \E i \in 1..n : /\ text[i].op = "initFlow"
                                       /\ \A j \in i..n : text[j].op # "function"
  BY <1>1 DEF TrailingFlow, n
<1>6. TrailingFlow' <=> \E i \in 1..(n + 1) :
                           /\ text'[i].op = "initFlow"
                           /\ \A j \in i..(n + 1) : text'[j].op # "function"
  BY <1>1 DEF TrailingFlow
<1>7. ASSUME TrailingFlow' PROVE x.op = "initFlow" \/ (TrailingFlow /\ x.op # "function")
  <2>1. PICK i \in 1..(n + 1) : /\ text'[i].op = "initFlow"
                                /\ \A j \in i..(n + 1) : text'[j].op # "function"
    BY <1>6, <1>7
  <2>2. CASE i = n + 1
    BY <1>1, <2>1, <2>2
  <2>3. CASE i \in 1..n
    <3>1. n + 1 \in i..(n + 1) /\ \A j \in i..n : j \in i..(n + 1) /\ j \in 1..n
      BY <1>1, <2>3
    <3>2. x.op # "function" /\ text[i].op = "initFlow"
      BY <1>1, <2>1, <2>3, <3>1
    <3>3. \A j \in i..n : text[j].op # "function"
      BY <1>1, <2>1, <3>1
    <3> QED
      BY <1>5, <2>3, <3>2, <3>3
  <2> QED
    BY <1>2, <2>2, <2>3
<1>8. ASSUME x.op = "initFlow" PROVE TrailingFlow'
  <2>1. \A j \in (n + 1)..(n + 1) : j = n + 1
    BY <1>1
  <2>2. \A j \in (n + 1)..(n + 1) : text'[j].op # "function"
    BY <1>1, <1>8, <2>1
  <2> QED
    BY <1>1, <1>3, <1>6, <1>8, <2>2
<1>9. ASSUME TrailingFlow, x.op # "function" PROVE TrailingFlow'
  <2>1. PICK i \in 1..n : /\ text[i].op = "initFlow"
                          /\ \A j \in i..n : text[j].op # "function"
    BY <1>5, <1>9
  <2>2. \A j \in i..(n + 1) : (j \in i..n /\ j \in 1..n) \/ j = n + 1
    BY <1>1
  <2>3. \A j \in i..(n + 1) : text'[j].op # "function"
    BY <1>1, <1>9, <2>1, <2>2
  <2> QED
    BY <1>1, <1>3, <1>6, <2>1, <2>3
<1> QED
  BY <1>4, <1>7, <1>8, <1>9

(* A global initializer. *)
LEMMA InitializerKeeps ==
  ASSUME BInv, phase = "global", UNCHANGED <<frames, unit>>,
         \A fn : Visited(fn)' <=> Visited(fn),
         GoesOn(b, b'), SameStacks(b, b'), Open(b', b'.insert),
         TrailingFlow' \/ (~ TrailingFlow /\ b'.insert = b.insert)
  PROVE  BInv' /\ Seals
<1>1. Unbuilt /\ frames = <<>> /\ phase' = "global" /\ frames' = <<>>
  BY DEF BInv, unit
<1>2. MainWait' = MainWait /\ HelperWait' = HelperWait /\ InitWait' = {} /\ InitWait = {}
  BY DEF unit, MainWait, HelperWait, InitWait, MainBody, HelperEntry
<1>3. StageWait' = StageWait
  BY DEF StageWait
<1>4. Outside' = Outside /\ OutsideApart'
  BY <1>1, <1>2, <1>3 DEF Outside, OutsideApart, Unbuilt
<1>5. BlocksOK(b, frames, Outside)
  BY <1>1 DEF Unbuilt
<1>6. BlocksOK(b', frames', Outside')
  <2>1. BlocksOK(b', frames, Outside)
    BY <1>5, GoesOnKeeps
  <2> QED
    BY <2>1, <1>4
<1>7. Touches(b, b', {b.insert}, {b'.insert})
  BY DEF GoesOn
<1>8. Unsealed(b, b.insert) /\ b.insert \notin Outside
  BY <1>5 DEF BlocksOK, Apart
<1>9. Seals
  BY <1>7, <1>8, SealsUntouched
<1>10. b'.stageEpilogue = 1 /\ b'.stageExit = 2
  BY <1>1, <1>7, TouchedOK DEF Unbuilt
<1>11. \A x \in StageWait' \cup InitWait' : Open(b', x)
  <2> SUFFICES ASSUME NEW x \in StageWait PROVE Open(b', x)
    BY <1>2, <1>3
  <2>1. x \in Outside /\ Open(b, x)
    BY <1>1 DEF Unbuilt, Outside
  <2>2. x \in Ids(b) /\ x \notin {b.insert}
    BY <1>5, <1>8, <2>1 DEF BlocksOK, Apart
  <2>3. b'.blocks[x] = b.blocks[x]
    BY <1>7, <2>2, TouchedOK
  <2> QED
    BY <2>1, <2>3 DEF Open
<1>12. ~ TrailingFlow' => b'.insert = initPoint'
  BY <1>1 DEF Unbuilt, unit
<1> QED
  BY <1>1, <1>4, <1>6, <1>9, <1>10, <1>11, <1>12 DEF BInv, Unbuilt

LEMMA InitializerBlocks ==
  ASSUME IInv, BInv, VisitInitializer
  PROVE  BInv' /\ Seals
<1>1. /\ Visit("init", 0, 0) /\ b' = Emit(b, Event("init", Here)) /\ phase = "global"
      /\ UNCHANGED <<frames, stacks, unit>>
  BY DEF VisitInitializer
<1>2. Event("init", Here) \in EventType
  BY <1>1, Facts, VisitNext, EventsType DEF EventNames
<1>3. /\ GoesOn(b, b') /\ SameStacks(b, b') /\ b'.insert = b.insert
      /\ b'.blocks[b.insert].term = b.blocks[b.insert].term
  BY <1>1, <1>2, Facts, EmitGoesOn, EmitTouches, EmitGrows, GrownOK
<1>4. SameMarks
  BY <1>1, VisitMarks, "init" \in Unmarked DEF Unmarked
<1>5. Open(b, b.insert)
  BY <1>1 DEF BInv, Unbuilt
<1>6. Open(b', b'.insert)
  BY <1>3, <1>5 DEF Open
<1>7. /\ \A fn : Visited(fn)' <=> Visited(fn)
      /\ TrailingFlow' \/ ~ TrailingFlow
  BY <1>4 DEF SameMarks
<1> QED
  BY <1>1, <1>3, <1>6, <1>7, InitializerKeeps

LEMMA InitializerFlowGoesOn ==
  ASSUME NEW bk, BuilderOK(bk), NEW at \in Nat
  PROVE  LET if   == IfObject(bk)
             then == Emit(IfBegin(bk), Event("initThen", at))
             else == Emit(MakeBeginElse(then, if), Event("initElse", at))
             end  == MakeEndIf(else, [if EXCEPT !.else = Next1(then)], at)
         IN  GoesOn(bk, end) /\ Open(end, end.insert)
<1> DEFINE n     == Next1(bk)
           h     == bk.insert
           if    == IfObject(bk)
           then0 == IfBegin(bk)
           then  == Emit(then0, Event("initThen", at))
           m     == Next1(then)
           else0 == MakeBeginElse(then, if)
           else  == Emit(else0, Event("initElse", at))
           whole == [if EXCEPT !.else = m]
           end   == MakeEndIf(else, whole, at)
<1>0. Event("initThen", at) \in EventType /\ Event("initElse", at) \in EventType
  BY EventsType DEF EventNames
<1>1. /\ Touches(bk, then0, {}, {n, n + 1}) /\ then0.insert = n
      /\ Open(then0, n) /\ Open(then0, n + 1) /\ Len(then0.blocks) = n + 1
      /\ n \in Nat /\ n = Len(bk.blocks) + 1
  BY IfBeginTouches
<1>2. if \in IfType(Len(then0.blocks)) /\ if.header = h /\ if.merge = n + 1
  BY IfBeginGrows DEF IfObject
<1>3. h \in Ids(bk) /\ h # n /\ h # n + 1
  BY <1>1, InsertType DEF Ids
<1> HIDE DEF if, then0, n, h
<1>4. /\ Touches(then0, then, {n}, {n}) /\ then.insert = n /\ Len(then.blocks) = n + 1
  <2>1. BuilderOK(then0)
    BY <1>1, TouchedOK
  <2>2. /\ Touches(then0, then, {then0.insert}, {then0.insert})
        /\ then.insert = then0.insert /\ Len(then.blocks) = Len(then0.blocks)
    BY <1>0, <2>1, EmitTouches
  <2> QED
    BY <1>1, <2>2
<1> HIDE DEF then
<1>5. BuilderOK(then) /\ if \in IfType(Len(then.blocks)) /\ m = n + 2
  BY <1>1, <1>2, <1>4, TouchedOK DEF Next1, m
<1>6. /\ Touches(then, else0, {n}, {m}) /\ else0.insert = m /\ Len(else0.blocks) = m
      /\ whole \in IfType(Len(else0.blocks))
  <2>1. LET k == Next1(then)
        IN  /\ Touches(then, else0, {then.insert}, {k}) /\ else0.insert = k
            /\ Len(else0.blocks) = k
    BY <1>5, MakeBeginElseTouches
  <2>2. whole \in IfType(Len(else0.blocks))
    BY <1>5, MakeBeginElseGrows
  <2> QED
    BY <1>4, <2>1, <2>2
<1>7. whole.header = h /\ whole.merge = n + 1
  BY <1>2 DEF IfType
<1> HIDE DEF m, else0, whole
<1>8. /\ Touches(else0, else, {m}, {m}) /\ else.insert = m /\ Len(else.blocks) = m
  BY <1>0, <1>6, TouchedOK, EmitTouches
<1> HIDE DEF else
<1>9. Touches(else, end, {m, h}, {}) /\ end.insert = n + 1 /\ Len(end.blocks) = m
  <2>1. BuilderOK(else) /\ whole \in IfType(Len(else.blocks))
    BY <1>6, <1>8, TouchedOK
  <2> QED
    BY <1>7, <1>8, <2>1, MakeEndIfTouches
<1> HIDE DEF end
<1>10. n \notin Ids(bk) /\ n + 1 \notin Ids(bk) /\ m \notin Ids(bk)
  BY <1>1, <1>5 DEF Ids
<1>11. Touches(bk, then, {}, {n, n + 1})
  <2>1. \A i \in {n} : i \in Ids(bk) => i \in {}
    BY <1>10
  <2> QED
    BY <1>1, <1>4, <2>1, TouchesThen
<1>12. Touches(bk, else0, {}, {n + 1, m})
  <2>1. /\ \A i \in {n} : i \in Ids(bk) => i \in {}
        /\ \A i \in {n, n + 1} : i \in {n} \/ i \in {n + 1, m}
        /\ {m} \subseteq {n + 1, m}
    BY <1>10
  <2> QED
    BY <1>6, <1>11, <2>1, TouchesThen
<1>13. Touches(bk, else, {}, {n + 1, m})
  <2>1. /\ \A i \in {m} : i \in Ids(bk) => i \in {}
        /\ \A i \in {n + 1, m} : i \in {m} \/ i \in {n + 1, m}
        /\ {m} \subseteq {n + 1, m}
    BY <1>10
  <2> QED
    BY <1>8, <1>12, <2>1, TouchesThen
<1>14. Touches(bk, end, {h}, {n + 1})
  <2>1. /\ \A i \in {m, h} : i \in Ids(bk) => i \in {h}
        /\ \A i \in {n + 1, m} : i \in {m, h} \/ i \in {n + 1}
        /\ {h} \subseteq {} \cup {m, h} /\ {} \subseteq {h} /\ {} \subseteq {n + 1}
    BY <1>10
  <2> QED
    BY <1>9, <1>13, <2>1, TouchesThen
<1>15. Open(end, n + 1)
  <2>1. /\ n + 1 \in Ids(then0) /\ n + 1 \in Ids(then) /\ n + 1 \in Ids(else0)
        /\ n + 1 \in Ids(else) /\ n + 1 \notin {n} /\ n + 1 \notin {m} /\ n + 1 \notin {m, h}
    BY <1>1, <1>3, <1>4, <1>5, <1>6, <1>8 DEF Ids
  <2>2. then.blocks[n + 1] = then0.blocks[n + 1]
    BY <1>4, <2>1, TouchedOK
  <2>3. else0.blocks[n + 1] = then.blocks[n + 1]
    BY <1>6, <2>1, TouchedOK
  <2>4. else.blocks[n + 1] = else0.blocks[n + 1]
    BY <1>8, <2>1, TouchedOK
  <2>5. end.blocks[n + 1] = else.blocks[n + 1]
    BY <1>9, <2>1, TouchedOK
  <2> QED
    BY <1>1, <2>2, <2>3, <2>4, <2>5 DEF Open
<1>16. n + 1 \in Ids(end)
  BY <1>1, <1>5, <1>9 DEF Ids
<1>17. GoesOn(bk, end)
  BY <1>9, <1>10, <1>14, <1>15, <1>16 DEF GoesOn, Fresh, Unsealed, Open, h
<1> QED
  BY <1>9, <1>15, <1>17 DEF end, whole, else, else0, m, then, then0, if

LEMMA FlowInitializerBlocks ==
  ASSUME IInv, BInv, VisitFlowInitializer
  PROVE  BInv' /\ Seals
<1>1. /\ Visit("initFlow", 0, 0) /\ phase = "global" /\ UNCHANGED <<frames, stacks, unit>>
      /\ b' = LET if   == IfObject(b)
                  then == Emit(IfBegin(b), Event("initThen", Here))
                  else == Emit(MakeBeginElse(then, if), Event("initElse", Here))
              IN  MakeEndIf(else, [if EXCEPT !.else = Next1(then)], Here)
  BY DEF VisitFlowInitializer
<1>2. Here \in Nat
  BY <1>1, Facts, VisitNext
<1>3. GoesOn(b, b') /\ Open(b', b'.insert) /\ SameStacks(b, b')
  BY <1>1, <1>2, Facts, InitializerFlowGoesOn, InitializerFlowGrows, GrownOK
<1> DEFINE x == Token("initFlow", 0, 0)
<1>4. text' = Append(text, x) /\ x.op = "initFlow"
  BY <1>1 DEF Visit, Token
<1> HIDE DEF x
<1>5. TrailingFlow' /\ \A fn : Visited(fn)' <=> Visited(fn)
  BY <1>4, MarksAppend
<1> QED
  BY <1>1, <1>3, <1>5, InitializerKeeps

(* With no construct open, only the blocks outside and the free ones count. *)
LEMMA ApartAlone ==
  ASSUME NEW bk, NEW L, NEW out, NEW F
  PROVE  Apart(bk, L, <<>>, out, F) <=>
           /\ \A x \in out : x \in Ids(bk) /\ Unsealed(bk, x) /\ x \notin F
           /\ \A x \in Ids(bk) : Open(bk, x) => x \in F \/ x \in out
<1>1. \A i \in 1..Len(<<>>) : FALSE
  OBVIOUS
<1> QED
  BY <1>1 DEF Apart

(* What BInv says when no function is being walked. *)
LEMMA Globally ==
  ASSUME BInv, phase = "global"
  PROVE  /\ frames = <<>> /\ b.insert \notin Outside /\ Open(b, b.insert) /\ OutsideApart
         /\ b.stageEpilogue = 1 /\ b.stageExit = 2 /\ InitWait = {}
         /\ \A x \in Outside : x \in Ids(b) /\ Unsealed(b, x)
         /\ \A x \in Ids(b) : Open(b, x) => x = b.insert \/ x \in Outside
         /\ \A x \in StageWait : x \in Outside /\ Open(b, x)
         /\ ~ TrailingFlow => b.insert = initPoint
<1>1. frames = <<>> /\ Unbuilt
  BY DEF BInv
<1>2. Apart(b, b.loops, <<>>, Outside, {b.insert})
  BY <1>1 DEF Unbuilt, BlocksOK
<1>3. /\ \A x \in Outside : x \in Ids(b) /\ Unsealed(b, x) /\ x \notin {b.insert}
      /\ \A x \in Ids(b) : Open(b, x) => x \in {b.insert} \/ x \in Outside
  BY <1>2, ApartAlone
<1> QED
  BY <1>1, <1>3 DEF Unbuilt, InitWait, Outside

(* The walk moves: it takes one block that waited, and leaves its own. *)
LEMMA Moves ==
  ASSUME NEW bk, NEW L, NEW out, NEW p, NEW q, NEW more,
         \A x \in out : x \in Ids(bk) /\ Unsealed(bk, x) /\ x # p,
         \A x \in Ids(bk) : Open(bk, x) => x = p \/ x \in out,
         p \in Ids(bk), Unsealed(bk, p), q \in out,
         \A x : x \in more <=> x = p \/ (x \in out /\ x # q)
  PROVE  Apart(bk, L, <<>>, more, {q})
<1>1. \A x \in more : x \in Ids(bk) /\ Unsealed(bk, x) /\ x \notin {q}
  OBVIOUS
<1>2. \A x \in Ids(bk) : Open(bk, x) => x \in {q} \/ x \in more
  OBVIOUS
<1> QED
  BY <1>1, <1>2, ApartAlone

LEMMA SameBlocks ==
  ASSUME NEW bk, NEW ck, ck.blocks = bk.blocks
  PROVE  /\ Ids(ck) = Ids(bk)
         /\ \A x : (Open(ck, x) <=> Open(bk, x)) /\ (Unsealed(ck, x) <=> Unsealed(bk, x))
BY DEF Ids, Open, Unsealed

LEMMA FunctionBlocks ==
  ASSUME IInv, BInv, NEW fn \in ProgramFunctions, VisitFunction(fn)
  PROVE  BInv' /\ Seals
<1> DEFINE blk == IF fn = "main" THEN MainBody ELSE HelperEntry
           x   == Token("function", 0, fn)
<1>1. /\ phase = "global" /\ ~ Visited(fn) /\ text' = Append(text, x)
      /\ initPoint' = b.insert /\ inMain' = (fn = "main") /\ phase' = "body"
      /\ b' = SetInsertPoint(b, blk)
      /\ frames' = frames /\ lastBodyBlock' = lastBodyBlock
  BY DEF VisitFunction, Visit
<1>2. x.op = "function" /\ x.arg = fn
  BY DEF Token
<1> HIDE DEF x
<1>3. /\ \A g : Visited(g)' <=> Visited(g) \/ g = fn
      /\ ~ TrailingFlow'
  BY <1>1, <1>2, MarksAppend
<1>4. /\ frames = <<>> /\ b.insert \notin Outside /\ Open(b, b.insert) /\ OutsideApart
      /\ b.stageEpilogue = 1 /\ b.stageExit = 2 /\ InitWait = {}
      /\ \A y \in Outside : y \in Ids(b) /\ Unsealed(b, y)
      /\ \A y \in Ids(b) : Open(b, y) => y = b.insert \/ y \in Outside
      /\ \A y \in StageWait : y \in Outside /\ Open(b, y)
  BY <1>1, Globally
<1>5. /\ blk \in Outside /\ StageWait' = StageWait /\ InitWait' = {b.insert}
      /\ \A y : y \in MainWait' <=> y \in MainWait /\ (fn = "main" => y # blk)
      /\ \A y : y \in HelperWait' <=> y \in HelperWait /\ (fn # "main" => y # blk)
      /\ IF fn = "main" THEN blk \in MainWait ELSE blk \in HelperWait
  <2>1. StageWait' = StageWait /\ InitWait' = {b.insert}
    BY <1>1 DEF StageWait, InitWait
  <2>2. CASE fn = "main"
    <3>1. MainWait = {blk} /\ MainWait' = {}
      BY <1>1, <1>3, <2>2 DEF MainWait
    <3>2. HelperWait' = HelperWait
      BY <1>3, <2>2 DEF HelperWait, HelperEntry
    <3> QED
      BY <2>1, <2>2, <3>1, <3>2 DEF Outside
  <2>3. CASE fn # "main"
    <3>1. fn = "helper" /\ HelperFunctions
      BY <2>3 DEF ProgramFunctions, FunctionNames
    <3>2. HelperWait = {blk} /\ HelperWait' = {}
      BY <1>1, <1>3, <2>3, <3>1 DEF HelperWait
    <3>3. MainWait' = MainWait
      BY <1>1, <1>3, <2>3 DEF MainWait, MainBody
    <3> QED
      BY <2>1, <2>3, <3>2, <3>3 DEF Outside
  <2> QED
    BY <2>2, <2>3
<1>6. BuilderOK(b) /\ b.insert \in Ids(b)
  BY Facts, InsertType DEF Ids
<1> HIDE DEF blk
<1>7. /\ Touches(b, b', {}, {}) /\ b'.insert = blk /\ b'.blocks = b.blocks
      /\ b'.loops = b.loops
  BY <1>1, <1>4, <1>5, <1>6, SetInsertTouches
<1>8. \A y : y \in Outside' <=> y = b.insert \/ (y \in Outside /\ y # blk)
  <2>1. /\ \A y \in StageWait : y # blk
        /\ fn = "main" => \A y \in HelperWait : y # blk
        /\ fn # "main" => \A y \in MainWait : y # blk
    BY <1>4, <1>5 DEF OutsideApart
  <2> QED
    BY <1>4, <1>5, <2>1 DEF Outside
<1>9. Unsealed(b, b.insert)
  BY <1>4 DEF Open, Unsealed
<1>10. Apart(b, b.loops, <<>>, Outside', {blk})
  BY <1>4, <1>5, <1>6, <1>8, <1>9, Moves
<1>11. BlocksOK(b', frames', Outside')
  <2>1. Apart(b', b'.loops, frames', Outside', {b'.insert})
    BY <1>1, <1>4, <1>7, <1>10, ApartAlone, SameBlocks
  <2>2. \A i \in 1..Len(frames') : Orderly(frames'[i])
    BY <1>1, <1>4
  <2>3. Unsealed(b', b'.insert)
    BY <1>4, <1>5, <1>7, SameBlocks
  <2> QED
    BY <2>1, <2>2, <2>3 DEF BlocksOK
<1>12. OutsideApart'
  <2>1. \A y \in Outside : y # b.insert
    BY <1>4
  <2> QED
    BY <1>4, <1>5, <2>1 DEF OutsideApart, Outside
<1>13. \A y \in StageWait' \cup InitWait' : Open(b', y)
  BY <1>4, <1>5, <1>7, SameBlocks
<1>14. b'.stageEpilogue = 1 /\ b'.stageExit = 2
  BY <1>4, <1>7, TouchedOK
<1>15. ~ TrailingFlow' /\ (inMain' => Visited("main")')
  BY <1>1, <1>3
<1>16. BInv'
  BY <1>1, <1>11, <1>12, <1>13, <1>14, <1>15 DEF BInv, Unbuilt
<1> QED
  BY <1>7, <1>16 DEF Seals

LEMMA EndFunctionBlocks ==
  ASSUME IInv, BInv, EndFunction
  PROVE  BInv' /\ Seals
<1> DEFINE left == IF inMain THEN b ELSE LeaveFunction(b, FALSE)
           p    == b.insert
           q    == initPoint
<1>1. /\ phase = "body" /\ frames = <<>> /\ Visit("endfunction", 0, 0)
      /\ phase' = "global" /\ inMain' = FALSE /\ initPoint' = q /\ frames' = frames
      /\ lastBodyBlock' = IF inMain THEN p ELSE lastBodyBlock
      /\ b' = SetInsertPoint(left, q)
  BY DEF EndFunction
<1>2. SameMarks
  BY <1>1, VisitMarks, "endfunction" \in Unmarked DEF Unmarked
<1>3. /\ p \notin Outside /\ Unsealed(b, p) /\ Unbuilt
      /\ Apart(b, b.loops, <<>>, Outside, {p})
  BY <1>1, InsertFree
<1>4. /\ \A x \in Outside : x \in Ids(b) /\ Unsealed(b, x) /\ x # p
      /\ \A x \in Ids(b) : Open(b, x) => x = p \/ x \in Outside
  BY <1>3, ApartAlone
<1>5. /\ b.stageEpilogue = 1 /\ b.stageExit = 2 /\ OutsideApart /\ ~ TrailingFlow
      /\ \A x \in StageWait \cup {q} : Open(b, x) /\ x \in Outside
      /\ q \notin StageWait /\ q \notin MainWait /\ q \notin HelperWait
      /\ inMain => Visited("main")
  BY <1>1, <1>3 DEF Unbuilt, OutsideApart, Outside, InitWait
<1>6. /\ StageWait' = StageWait /\ InitWait' = {} /\ HelperWait' = HelperWait
      /\ MainWait' = IF inMain THEN {p} ELSE MainWait
      /\ inMain => MainWait = {}
  <2>1. StageWait' = StageWait /\ InitWait' = {}
    BY <1>1 DEF StageWait, InitWait
  <2>2. HelperWait' = HelperWait
    BY <1>2 DEF HelperWait, HelperEntry, SameMarks
  <2>3. Visited("main")' <=> Visited("main")
    BY <1>2 DEF SameMarks
  <2>4. MainWait' = IF inMain THEN {p} ELSE MainWait
    BY <1>1, <1>5, <2>3 DEF MainWait, MainBody
  <2>5. inMain => MainWait = {}
    BY <1>1, <1>5 DEF MainWait
  <2> QED
    BY <2>1, <2>2, <2>4, <2>5
<1>7. \A x : x \in Outside <=> x = q \/ x \in StageWait \/ x \in MainWait \/ x \in HelperWait
  BY <1>1 DEF Outside, InitWait
<1>8. BuilderOK(b) /\ p \in Ids(b)
  BY Facts, InsertType DEF Ids
<1>9. /\ Touches(b, left, {p}, {p}) /\ left.loops = b.loops /\ Ids(left) = Ids(b)
      /\ inMain => left = b
      /\ ~ inMain => Touches(b, left, {p}, {})
  <2>1. CASE inMain
    <3>1. Touches(b, b, {p}, {p})
      BY <1>8, BuildsReflexive DEF Touches
    <3> QED
      BY <2>1, <3>1
  <2>2. CASE ~ inMain
    <3>1. left = LeaveFunction(b, FALSE)
      BY <2>2
    <3>2. Touches(b, left, {p}, {}) /\ Len(left.blocks) = Len(b.blocks)
      BY <1>8, <3>1, LeaveFunctionTouches
    <3>3. left.loops = b.loops
      BY <1>8, <3>1, LeaveFunctionGrows, GrownOK DEF SameStacks
    <3> HIDE DEF left, p
    <3>4. Touches(b, left, {p}, {p})
      BY <3>2 DEF Touches
    <3> QED
      BY <2>2, <3>2, <3>3, <3>4 DEF Ids
  <2> QED
    BY <2>1, <2>2
<1> HIDE DEF left, p
<1>10. /\ b'.insert = q /\ b'.blocks = left.blocks /\ b'.loops = b.loops
       /\ b'.stageEpilogue = 1 /\ b'.stageExit = 2
  <2>1. BuilderOK(left) /\ q \in Ids(left)
    BY <1>4, <1>5, <1>9, TouchedOK
  <2>2. /\ Touches(left, b', {}, {}) /\ b'.insert = q /\ b'.blocks = left.blocks
        /\ b'.loops = left.loops
    BY <1>1, <2>1, SetInsertTouches
  <2> QED
    BY <1>5, <1>9, <2>2, TouchedOK
<1> HIDE DEF q
<1>11. \A x \in Ids(b) : x # p => b'.blocks[x] = b.blocks[x]
  BY <1>9, <1>10, TouchedOK
<1>12. Seals
  BY <1>3, <1>11 DEF Seals
<1>13. Apart(left, b.loops, <<>>, Outside', {q})
  <2>1. CASE inMain
    <3>1. \A x : x \in Outside' <=> x = p \/ (x \in Outside /\ x # q)
      BY <1>5, <1>6, <1>7, <2>1 DEF Outside
    <3> QED
      BY <1>3, <1>4, <1>5, <1>8, <1>9, <2>1, <3>1, Moves
  <2>2. CASE ~ inMain
    <3>1. \A x : x \in Outside' <=> x \in Outside /\ x # q
      BY <1>5, <1>6, <1>7, <2>2 DEF Outside
    <3>2. Apart(left, b.loops, <<>>, Outside, {})
      <4>1. /\ {p} \subseteq {p} /\ {} \subseteq {}
            /\ \A x \in {p} : x \in {p} \/ x \in {}
            /\ \A x \in {} : x \in {p} \/ x \notin Ids(b)
        OBVIOUS
      <4> QED
        BY <1>3, <1>9, <2>2, <4>1, ApartKeeps
    <3>3. /\ \A x \in Outside : x \in Ids(left) /\ Unsealed(left, x)
          /\ \A x \in Ids(left) : Open(left, x) => x \in Outside
      BY <3>2, ApartAlone
    <3>4. /\ \A x \in Outside' : x \in Ids(left) /\ Unsealed(left, x) /\ x \notin {q}
          /\ \A x \in Ids(left) : Open(left, x) => x \in {q} \/ x \in Outside'
      BY <3>1, <3>3
    <3> QED
      BY <3>4, ApartAlone
  <2> QED
    BY <2>1, <2>2
<1>14. \A x \in StageWait \cup {q} : Open(b', x)
  <2>1. \A x \in StageWait \cup {q} : x # p /\ x \in Ids(b)
    BY <1>4, <1>5
  <2> QED
    BY <1>5, <1>11, <2>1 DEF Open
<1>15. BlocksOK(b', frames', Outside')
  <2>1. Apart(b', b'.loops, frames', Outside', {b'.insert})
    BY <1>1, <1>10, <1>13, ApartAlone, SameBlocks
  <2>2. \A i \in 1..Len(frames') : Orderly(frames'[i])
    BY <1>1
  <2>3. Unsealed(b', b'.insert)
    BY <1>10, <1>14 DEF Open, Unsealed
  <2> QED
    BY <2>1, <2>2, <2>3 DEF BlocksOK
<1>16. OutsideApart'
  <2>1. \A x \in StageWait \cup HelperWait : x # p
    BY <1>4, <1>7
  <2> QED
    BY <1>5, <1>6, <2>1 DEF OutsideApart
<1>17. BInv'
  <2>1. \A x \in StageWait' \cup InitWait' : Open(b', x)
    BY <1>6, <1>14
  <2>2. Open(b', b'.insert) /\ b'.insert = initPoint'
    BY <1>1, <1>10, <1>14
  <2> QED
    BY <1>1, <1>10, <1>15, <1>16, <2>1, <2>2 DEF BInv, Unbuilt
<1> QED
  BY <1>12, <1>17

LEMMA FinishBlocks ==
  ASSUME IInv, BInv, Finish
  PROVE  BInv' /\ (~ TrailingFlow => Seals)
<1> DEFINE first == SetInsertPoint(b, initPoint)
           entry == Terminate(first, Br(MainBody))
           last  == SetInsertPoint(entry, lastBodyBlock)
           T     == {b.insert, lastBodyBlock, 1, 2}
<1>1. /\ phase = "global" /\ \A fn \in ProgramFunctions : Visited(fn)
      /\ phase' = "built" /\ frames' = frames /\ b' = LeaveFunction(last, TRUE)
  BY DEF Finish
<1>2. /\ frames = <<>> /\ Open(b, b.insert)
      /\ b.stageEpilogue = 1 /\ b.stageExit = 2
      /\ \A x \in Outside : x \in Ids(b) /\ Unsealed(b, x)
      /\ ~ TrailingFlow => b.insert = initPoint
  BY <1>1, Globally
<1>3. BInv'
  BY <1>1, <1>2 DEF BInv
<1>4. ASSUME ~ TrailingFlow PROVE Seals
  <2>1. initPoint = b.insert
    BY <1>2, <1>4
  <2>2. lastBodyBlock \in Outside /\ 1 \in Outside /\ 2 \in Outside
    <3>1. Visited("main")
      BY <1>1 DEF ProgramFunctions, FunctionNames
    <3> QED
      BY <1>1, <3>1 DEF Outside, MainWait, StageWait
  <2>3. BuilderOK(b) /\ initPoint \in Ids(b) /\ lastBodyBlock \in Ids(b)
    BY Facts DEF IInv, Ids
  <2>4. Touches(b, first, {}, {}) /\ first.insert = initPoint /\ first.blocks = b.blocks
    BY <2>3, SetInsertTouches
  <2>5. MainBody \in 1..Len(first.blocks)
    BY <2>4, BodiesExist
  <2> HIDE DEF first
  <2>6. BuilderOK(first) /\ Br(MainBody) \in TermType(Len(first.blocks)) /\ Br(MainBody).kind # "none"
    BY <2>4, <2>5, TouchedOK, LenNat, BrType
  <2>7. Touches(first, entry, {initPoint}, {})
    BY <2>4, <2>6, TerminateTouches
  <2> HIDE DEF entry
  <2>8. Touches(b, entry, {initPoint}, {})
    BY <2>4, <2>7, TouchesThen
  <2>9. Touches(entry, last, {}, {}) /\ last.insert = lastBodyBlock
    <3>1. BuilderOK(entry) /\ lastBodyBlock \in Ids(entry)
      BY <2>3, <2>8, TouchedOK
    <3> QED
      BY <3>1, SetInsertTouches
  <2> HIDE DEF last
  <2>10. Touches(b, last, {initPoint}, {})
    BY <2>8, <2>9, TouchesThen
  <2>11. Touches(last, b', {lastBodyBlock, 1, 2}, {})
    <3>1. BuilderOK(last) /\ last.stageEpilogue = 1 /\ last.stageExit = 2
      BY <1>2, <2>10, TouchedOK
    <3> QED
      BY <1>1, <2>9, <3>1, LeaveFunctionTouches
  <2>12. Touches(b, b', T, {})
    <3>1. /\ {initPoint} \subseteq T
          /\ \A i \in {lastBodyBlock, 1, 2} : i \in Ids(b) => i \in T
          /\ T \subseteq {initPoint} \cup {lastBodyBlock, 1, 2}
          /\ \A i \in {} : i \in {lastBodyBlock, 1, 2} \/ i \in {}
          /\ {} \subseteq {}
      BY <2>1
    <3> QED
      BY <2>10, <2>11, <3>1, TouchesThen
  <2>13. \A x \in T : x \in Ids(b) => Unsealed(b, x)
    BY <1>2, <2>2 DEF Open, Unsealed
  <2> HIDE DEF T
  <2> QED
    BY <2>12, <2>13, SealsUntouched
<1> QED
  BY <1>3, <1>4

-----------------------------------------------------------------------------
(* Initially: every block of the constructor's is open. *)

LEMMA OneMore ==
  ASSUME NEW bk, BuilderOK(bk), NEW n, Next1(bk) = n,
         NEW name \in BlockNames, NEW fn \in FunctionNames
  PROVE  /\ Touches(bk, CreateIn(bk, name, fn), {}, {n})
         /\ Len(CreateIn(bk, name, fn).blocks) = n
         /\ Open(CreateIn(bk, name, fn), n)
         /\ CreateIn(bk, name, fn).insert = bk.insert
BY CreateInTouches

LEMMA InitiallyBlocks == Init => BInv
<1> SUFFICES ASSUME Init PROVE BInv
  OBVIOUS
<1> DEFINE main == CreateIn(MakeMain, "mainBody", "main")
           all  == CreateIn(main, "entry", "helper")
<1>1. /\ b = IF HelperFunctions THEN all ELSE main
      /\ frames = <<>> /\ text = <<>> /\ phase = "global" /\ initPoint = 3
  BY DEF Init
<1>2. BuilderOK(MakeMain) /\ Next1(MakeMain) = 4 /\ Ids(MakeMain) = 1..3
  BY MainBuilt DEF Next1, Ids
<1>3. /\ "mainBody" \in BlockNames /\ "entry" \in BlockNames
      /\ "main" \in FunctionNames /\ "helper" \in FunctionNames
  BY DEF BlockNames, FunctionNames
<1>4. \A i \in 1..3 : Open(MakeMain, i)
  BY DEF MakeMain, Open, NewBlock, NoTerm, Term
<1>5. MakeMain.insert = 3 /\ MakeMain.stageEpilogue = 1 /\ MakeMain.stageExit = 2
  BY DEF MakeMain
<1>6. /\ Touches(MakeMain, main, {}, {4}) /\ Len(main.blocks) = 4 /\ Open(main, 4)
      /\ main.insert = 3
  BY ZenonT(60), <1>2, <1>3, <1>5, OneMore
<1> HIDE DEF main
<1>7. /\ \A i \in 1..4 : Open(main, i)
      /\ main.stageEpilogue = 1 /\ main.stageExit = 2 /\ Ids(main) = 1..4
      /\ BuilderOK(main) /\ Next1(main) = 5
  <2>1. \A i \in 1..3 : main.blocks[i] = MakeMain.blocks[i]
    BY <1>2, <1>6, TouchedOK
  <2> QED
    BY <1>4, <1>5, <1>6, <2>1, TouchedOK DEF Open, Ids, Next1
<1>8. /\ Touches(main, all, {}, {5}) /\ Len(all.blocks) = 5 /\ Open(all, 5)
      /\ all.insert = 3
  <2>1. BuilderOK(main) /\ Next1(main) = 5 /\ main.insert = 3
    BY <1>6, <1>7
  <2> QED
    BY ZenonT(60), <1>3, <2>1, OneMore
<1> HIDE DEF all
<1>9. /\ \A i \in 1..5 : Open(all, i)
      /\ all.stageEpilogue = 1 /\ all.stageExit = 2 /\ Ids(all) = 1..5
  <2>1. \A i \in 1..4 : all.blocks[i] = main.blocks[i]
    BY <1>7, <1>8, TouchedOK
  <2> QED
    BY SMTT(60), <1>7, <1>8, <2>1, TouchedOK DEF Open, Ids
<1>10. /\ Ids(b) = IF HelperFunctions THEN 1..5 ELSE 1..4
       /\ \A i \in Ids(b) : Open(b, i)
       /\ b.insert = 3 /\ b.stageEpilogue = 1 /\ b.stageExit = 2
  BY <1>1, <1>6, <1>7, <1>8, <1>9
<1>11. (\A fn : ~ Visited(fn)) /\ ~ TrailingFlow
  BY <1>1 DEF Visited, TrailingFlow
<1>12. /\ StageWait = {1, 2} /\ MainWait = {4} /\ InitWait = {}
       /\ HelperWait = IF HelperFunctions THEN {5} ELSE {}
  BY <1>1, <1>11 DEF StageWait, MainWait, InitWait, HelperWait, MainBody, HelperEntry
<1>13. \A x : x \in Outside <=> x \in Ids(b) /\ x # 3
  BY <1>10, <1>12 DEF Outside
<1>14. OutsideApart
  BY <1>12 DEF OutsideApart
<1>15. BlocksOK(b, frames, Outside)
  <2>1. \A x \in Ids(b) : Unsealed(b, x)
    BY <1>10 DEF Open, Unsealed
  <2>2. Apart(b, b.loops, <<>>, Outside, {b.insert})
    BY <1>10, <1>13, <2>1, ApartAlone
  <2>3. \A i \in 1..Len(frames) : Orderly(frames[i])
    BY <1>1
  <2>4. b.insert \in Ids(b)
    BY <1>10
  <2> QED
    BY <1>1, <2>1, <2>2, <2>3, <2>4 DEF BlocksOK
<1>16. \A x \in StageWait \cup InitWait : Open(b, x)
  BY <1>10, <1>12
<1>17. Open(b, b.insert)
  BY <1>10
<1> QED
  BY <1>1, <1>10, <1>14, <1>15, <1>16, <1>17 DEF BInv, Unbuilt

(* Every step keeps the invariant, and adds to no block that has ended. *)
LEMMA BlocksInductive ==
  ASSUME IInv, BInv, [Next]_vars
  PROVE  BInv' /\ (~ TrailingFlow => Seals)
<1>1. CASE VisitInitializer
  BY <1>1, InitializerBlocks
<1>2. CASE VisitFlowInitializer
  BY <1>2, FlowInitializerBlocks
<1>3. CASE \E fn \in ProgramFunctions : VisitFunction(fn)
  BY <1>3, FunctionBlocks
<1>4. CASE EndFunction
  BY <1>4, EndFunctionBlocks
<1>5. CASE Finish
  BY <1>5, FinishBlocks
<1>6. CASE VisitStatement
  BY <1>6, StatementBlocks
<1>7. CASE VisitDiscard
  BY <1>7, DiscardBlocks
<1>8. CASE VisitBreak
  BY <1>8, BreakBlocks
<1>9. CASE VisitContinue
  BY <1>9, ContinueBlocks
<1>10. CASE VisitReturn
  BY <1>10, ReturnBlocks
<1>11. CASE VisitIf
  BY <1>11, IfBlocks
<1>12. CASE VisitElse
  BY <1>12, ElseBlocks
<1>13. CASE EndIf
  BY <1>13, EndIfBlocks
<1>14. CASE \E form \in LoopForms : VisitLoop(form)
  BY <1>14, LoopBlocks
<1>15. CASE EndLoop
  BY <1>15, EndLoopBlocks
<1>16. CASE \E body \in SwitchBodies : VisitSwitch(body)
  BY <1>16, SwitchBlocks
<1>17. CASE NextSegment
  BY <1>17, NextSegmentBlocks
<1>18. CASE EndOfSwitch
  BY <1>18, EndOfSwitchBlocks
<1>19. CASE UNCHANGED vars
  <2>1. Seals
    BY <1>19 DEF Seals, vars
  <2>2. BInv'
    BY <1>19 DEF vars, stacks, BInv, Unbuilt, Outside, OutsideApart, StageWait, MainWait,
                 HelperWait, InitWait, Visited, TrailingFlow
  <2> QED
    BY <2>1, <2>2
<1> QED
  BY <1>1, <1>2, <1>3, <1>4, <1>5, <1>6, <1>7, <1>8, <1>9, <1>10, <1>11, <1>12, <1>13,
     <1>14, <1>15, <1>16, <1>17, <1>18, <1>19 DEF Next

LEMMA BlocksInvariance == Spec => [](IInv /\ BInv)
<1>1. Init => IInv /\ BInv
  BY Initially, InitiallyBlocks
<1>2. IInv /\ BInv /\ [Next]_vars => (IInv /\ BInv)'
  BY Inductive, BlocksInductive
<1> QED
  BY <1>1, <1>2, PTL DEF Spec

-----------------------------------------------------------------------------
(* What the invariant says of the blocks without an end. *)

LEMMA DepthInside ==
  ASSUME NEW f, NEW kinds, NEW n \in Nat, NEW i \in 1..n, f[i].kind \in kinds
  PROVE  DepthOf(f, kinds, i) \in 1..DepthOf(f, kinds, n)
<1>1. i \in Nat \ {0} /\ i \in Nat /\ i <= n
  OBVIOUS
<1>2. DepthOf(f, kinds, i) \in Nat /\ DepthOf(f, kinds, i) >= 1
  BY <1>1, DepthPositive
<1>3. DepthOf(f, kinds, i) <= DepthOf(f, kinds, n)
  BY <1>1, DepthMonotone
<1>4. DepthOf(f, kinds, n) \in 0..n
  BY DepthType
<1> QED
  BY <1>2, <1>3, <1>4

LEMMA HeldIsPending ==
  ASSUME IInv, NEW i \in 1..Len(frames), Orderly(frames[i]),
         NEW x \in HeldBy(b.loops, frames, i)
  PROVE  x \in Pending
<1> DEFINE o == frames[i].obj
<1>1. /\ DOMAIN frames = 1..Len(frames) /\ Len(frames) \in Nat
      /\ frames[i] \in FrameType(Len(b.blocks)) /\ i \in Nat \ {0}
  BY Facts
<1>2. StacksOK(b, frames, breakForLoop, loopTerminal)
  BY Facts
<1>3. CASE frames[i].kind = "loop"
  <2> DEFINE k == DepthOf(frames, {"loop"}, i)
  <2>1. x = b.loops[k].exit
    BY <1>3 DEF HeldBy
  <2>2. frames[i].kind \in {"loop"}
    BY <1>3
  <2>4. k \in 1..DepthOf(frames, {"loop"}, Len(frames))
    BY <1>1, <2>2, DepthInside
  <2>5. Len(b.loops) = DepthOf(frames, {"loop"}, Len(frames)) /\ DOMAIN b.loops = 1..Len(b.loops)
    BY <1>2, Facts DEF StacksOK, StackLengths
  <2>6. k \in DOMAIN b.loops
    BY <2>4, <2>5
  <2> QED
    BY <2>1, <2>6 DEF Pending
<1>4. CASE frames[i].kind = "switch"
  <2> DEFINE first == o.segments[1]
             last  == Len(o.segments)
             now   == o.s
  <2>1. /\ x \in (first + now)..(first + last)
        /\ \A k \in 1..last : o.segments[k] = first + k - 1
    BY <1>4 DEF HeldBy, Ahead, Orderly, InOrder
  <2>2. last \in Nat \ {0} /\ now \in 1..last /\ first \in Nat
    <3>1. o \in SwitchType(Len(b.blocks))
      BY <1>1, <1>4 DEF FrameType
    <3>2. o.segments \in Seq(1..Len(b.blocks)) /\ now \in 1..last
      BY <3>1 DEF SwitchType
    <3>3. last \in Nat /\ 1 \in 1..last
      BY <3>2
    <3> QED
      BY <3>2, <3>3
  <2> HIDE DEF first, last, now
  <2>3. CASE x = first + last
    <3> DEFINE k == DepthOf(frames, {"switch"}, i)
    <3>1. last \in 1..last /\ (first + last - 1) + 1 = first + last
      BY <2>2
    <3>2. x = o.segments[last] + 1
      BY <2>1, <2>3, <3>1
    <3>3. b.switches[k] = x
      BY <1>2, <1>4, <3>2 DEF StacksOK, InStacks, last
    <3>4. frames[i].kind \in {"switch"}
      BY <1>4
    <3>6. k \in 1..DepthOf(frames, {"switch"}, Len(frames))
      BY <1>1, <3>4, DepthInside
    <3>7. Len(b.switches) = DepthOf(frames, {"switch"}, Len(frames))
      BY <1>2 DEF StacksOK, StackLengths
    <3>8. DOMAIN b.switches = 1..Len(b.switches)
      BY Facts DEF StacksTyped
    <3>9. k \in DOMAIN b.switches
      BY <3>6, <3>7, <3>8
    <3> QED
      BY <3>3, <3>9 DEF Pending
  <2>4. CASE x # first + last
    <3> DEFINE k == x - first + 1
    <3>1. k \in now..last /\ k \in 1..last /\ x = first + k - 1
      <4>1. x \in Int /\ first + now <= x /\ x < first + last
        <5>1. x \in (first + now)..(first + last)
          BY <2>1
        <5> QED
          BY <2>2, <2>4, <5>1
      <4>2. k \in Int /\ now <= k /\ k <= last
        BY <2>2, <4>1
      <4> QED
        BY <2>2, <4>1, <4>2
    <3> HIDE DEF k
    <3>2. x = o.segments[k]
      BY <2>1, <3>1
    <3>3. x \in {frames[i].obj.segments[s] : s \in frames[i].obj.s..Len(frames[i].obj.segments)}
      BY <3>1, <3>2 DEF now, last
    <3>4. i \in {j \in DOMAIN frames : frames[j].kind = "switch"}
      BY <1>1, <1>4
    <3> QED
      BY <3>3, <3>4 DEF Pending
  <2> QED
    BY <2>3, <2>4
<1>5. CASE frames[i].kind \notin {"loop", "switch"}
  <2>1. i \in {j \in DOMAIN frames : frames[j].kind \in {"then", "else"}}
    BY <1>1, <1>5 DEF FrameType
  <2>2. x = frames[i].obj.header \/ x = frames[i].obj.merge
    BY <1>5 DEF HeldBy
  <2> QED
    BY <2>1, <2>2 DEF Pending
<1> QED
  BY <1>3, <1>4, <1>5

LEMMA OutsideIsPending ==
  ASSUME Unbuilt, NEW x \in Outside
  PROVE  x \in Pending
<1>1. b.stageEpilogue = 1 /\ b.stageExit = 2
  BY DEF Unbuilt
<1>2. x \in {1, 2, MainBody, lastBodyBlock, HelperEntry, initPoint}
  BY DEF Outside, StageWait, MainWait, HelperWait, InitWait
<1> QED
  BY <1>1, <1>2 DEF Pending

LEMMA InvariantForgets ==
  ASSUME IInv, BInv
  PROVE  NoBlockForgotten
<1> SUFFICES ASSUME phase # "built", NEW x \in BlockIds, ~ HasTerminator(b, x)
             PROVE  x \in Pending
  BY DEF NoBlockForgotten
<1>1. Unbuilt /\ x \in Ids(b) /\ Open(b, x)
  BY DEF BInv, BlockIds, Ids, HasTerminator, Open
<1>2. \/ x = b.insert \/ x \in Outside
      \/ \E i \in 1..Len(frames) : x \in HeldBy(b.loops, frames, i)
  BY <1>1 DEF Unbuilt, BlocksOK, Apart
<1>3. CASE x = b.insert
  BY <1>3 DEF Pending
<1>4. CASE x \in Outside
  BY <1>1, <1>4, OutsideIsPending
<1>5. CASE \E i \in 1..Len(frames) : x \in HeldBy(b.loops, frames, i)
  <2>1. PICK i \in 1..Len(frames) : x \in HeldBy(b.loops, frames, i)
    BY <1>5
  <2>2. Orderly(frames[i])
    BY <1>1 DEF Unbuilt, BlocksOK
  <2> QED
    BY <2>1, <2>2, HeldIsPending
<1> QED
  BY <1>2, <1>3, <1>4, <1>5

LEMMA StepSeals ==
  ASSUME IInv, BInv, [Next]_vars
  PROVE  \A i \in BlockIds : (Sealed(i) /\ ~ TrailingFlow) => b'.blocks[i] = b.blocks[i]
<1>1. ~ TrailingFlow => Seals
  BY BlocksInductive
<1> QED
  BY <1>1 DEF Seals, Sealed, Unsealed, BlockIds, Ids

(* Every handler of the builder, in a shader of any size and nesting: a    *)
(* block without an end is where code goes now, or some construct that is  *)
(* still open, or the end of main, will end it.                            *)
THEOREM NoBlockForgottenCorrect == Spec => []NoBlockForgotten
BY BlocksInvariance, InvariantForgets, PTL

(* Every handler, in a shader of any size and nesting: nothing is added to *)
(* a block that has ended, and it is not given a second end.               *)
THEOREM SealedBlocksCorrect == Spec => SealedBlocks
<1>1. IInv /\ BInv /\ [Next]_vars =>
        [\A i \in BlockIds : (Sealed(i) /\ ~ TrailingFlow) => b'.blocks[i] = b.blocks[i]]_vars
  BY StepSeals
<1> QED
  BY <1>1, BlocksInvariance, PTL DEF Spec, SealedBlocks

-----------------------------------------------------------------------------
(* What the traverser has built.                                           *)

(* The blocks of an open construct: the one it is still to place (an if    *)
(* its merge block, a loop its exit), and all those it refers to.          *)

Awaits(loops, f, i) ==
  IF f[i].kind = "loop" THEN {loops[DepthOf(f, {"loop"}, i)].exit}
  ELSE IF f[i].kind = "switch" THEN {}
  ELSE {f[i].obj.merge}

Segments(o)  == o.segments[1]..(o.segments[1] + Len(o.segments))
IfBlocksOf(o) == {o.header, o.then, o.merge} \cup ({o.else} \ {0})
Refers(loops, f, i) ==
  IF f[i].kind = "loop"
    THEN {loops[DepthOf(f, {"loop"}, i)].header, loops[DepthOf(f, {"loop"}, i)].exit}
  ELSE IF f[i].kind = "switch" THEN Segments(f[i].obj)
  ELSE IfBlocksOf(f[i].obj)

(* In function fn, with constructs f open: what they refer to is of this   *)
(* function, and what is not placed is the stage blocks and what they are  *)
(* to place.                                                               *)
Shaped(bk, f, fn) ==
  /\ Sound(bk) /\ bk.insert \in Of(bk, fn)
  /\ \A i \in 1..Len(f) : \A x \in Refers(bk.loops, f, i) : x \in Of(bk, fn)
  /\ \A x : Unplaced(bk, x) <=>
       \/ x \in StageWait
       \/ \E i \in 1..Len(f) : x \in Awaits(bk.loops, f, i)

(* The function being walked; initializers go into main. *)
Cur == IF phase = "body" /\ ~ inMain THEN "helper" ELSE "main"

(* The blocks the traverser remembers from one function to another. *)
Homes ==
  /\ \A x \in StageWait : x \in Of(b, "main")
  /\ MainBody \in Of(b, "main")
  /\ initPoint \in Of(b, "main") /\ lastBodyBlock \in Of(b, "main")
  /\ HelperFunctions => HelperEntry \in Of(b, "helper")

WInv == /\ phase # "built" => Shaped(b, frames, Cur) /\ Homes
        /\ phase = "built" => WellBuilt

-----------------------------------------------------------------------------
(* A construct's blocks do not depend on the constructs inside it. *)
SameOuter(L, f, M, g, n) ==
  /\ \A j \in 1..n : g[j] = f[j]
  /\ \A k \in 1..DepthOf(f, {"loop"}, n) : M[k] = L[k]

LEMMA BlocksAgree ==
  ASSUME NEW f, NEW g, NEW n \in Nat, NEW L, NEW M, SameOuter(L, f, M, g, n),
         NEW i \in 1..n
  PROVE  Awaits(M, g, i) = Awaits(L, f, i) /\ Refers(M, g, i) = Refers(L, f, i)
<1>0. /\ \A j \in 1..n : g[j] = f[j]
      /\ \A k \in 1..DepthOf(f, {"loop"}, n) : M[k] = L[k]
  BY DEF SameOuter
<1>1. i \in Nat \ {0} /\ i <= n /\ g[i] = f[i]
  BY <1>0
<1>2. DepthOf(g, {"loop"}, i) = DepthOf(f, {"loop"}, i)
  BY <1>0, <1>1, DepthAgree
<1>3. CASE f[i].kind = "loop"
  <2>1. f[i].kind \in {"loop"}
    BY <1>3
  <2>2. DepthOf(f, {"loop"}, i) \in Nat /\ DepthOf(f, {"loop"}, i) >= 1
    BY <1>1, <2>1, DepthPositive
  <2>3. DepthOf(f, {"loop"}, i) <= DepthOf(f, {"loop"}, n) /\ DepthOf(f, {"loop"}, n) \in 0..n
    BY <1>1, DepthMonotone, DepthType
  <2>4. DepthOf(f, {"loop"}, i) \in 1..DepthOf(f, {"loop"}, n)
    BY <2>2, <2>3
  <2>5. M[DepthOf(f, {"loop"}, i)] = L[DepthOf(f, {"loop"}, i)]
    BY <1>0, <2>4
  <2> QED
    BY <1>1, <1>2, <1>3, <2>5 DEF Awaits, Refers
<1>4. CASE f[i].kind # "loop"
  BY <1>1, <1>4 DEF Awaits, Refers
<1> QED
  BY <1>3, <1>4

(* From constructs f to g, that differ in the innermost at most: what the  *)
(* handler leaves unplaced, the innermost construct is to place.           *)
(* H is what the construct beyond the n outermost, if there is one, is to  *)
(* place; a handler that leaves U unplaced and places P turns H into G,    *)
(* without placing for the others.                                         *)
AwaitsBeyond(loops, f, n, H) ==
  \/ Len(f) = n /\ H = {}
  \/ Len(f) = n + 1 /\ H = Awaits(loops, f, n + 1)
PlacedBy(H, U, P, G) == \A x : x \in G <=> x \in U \/ (x \in H /\ x \notin P)
NotOuter(P, loops, f, n) ==
  \A x \in P : x \notin StageWait /\ \A i \in 1..n : x \notin Awaits(loops, f, i)
RefersInside(ck, g, n, fn) ==
  Len(g) = n + 1 => \A x \in Refers(ck.loops, g, n + 1) : x \in Of(ck, fn)

LEMMA ShapedThen ==
  ASSUME NEW bk, NEW f, NEW fn, Shaped(bk, f, fn),
         NEW ck, NEW U, NEW P, LaysOut(bk, ck, fn, U, P),
         NEW g, NEW n \in Nat, SameOuter(bk.loops, f, ck.loops, g, n),
         NEW H, AwaitsBeyond(bk.loops, f, n, H), NEW G, AwaitsBeyond(ck.loops, g, n, G),
         RefersInside(ck, g, n, fn), NotOuter(P, bk.loops, f, n), PlacedBy(H, U, P, G)
  PROVE  Shaped(ck, g, fn)
<1>a. \/ Len(f) = n /\ H = {}
      \/ Len(f) = n + 1 /\ H = Awaits(bk.loops, f, n + 1)
  BY DEF AwaitsBeyond
<1>b. \/ Len(g) = n /\ G = {}
      \/ Len(g) = n + 1 /\ G = Awaits(ck.loops, g, n + 1)
  BY DEF AwaitsBeyond
<1>c. Len(g) = n + 1 => \A x \in Refers(ck.loops, g, n + 1) : x \in Of(ck, fn)
  BY DEF RefersInside
<1>1. \A i \in 1..n : /\ Awaits(ck.loops, g, i) = Awaits(bk.loops, f, i)
                      /\ Refers(ck.loops, g, i) = Refers(bk.loops, f, i)
  BY BlocksAgree
<1>2. /\ Sound(ck) /\ ck.insert \in Of(ck, fn)
      /\ \A x \in Of(bk, fn) : x \in Of(ck, fn)
      /\ \A x : Unplaced(ck, x) <=> x \in U \/ (Unplaced(bk, x) /\ x \notin P)
  BY LaidOut
<1>3. /\ \A i \in 1..Len(f) : i \in 1..n \/ (Len(f) = n + 1 /\ i = n + 1)
      /\ \A i \in 1..Len(g) : i \in 1..n \/ (Len(g) = n + 1 /\ i = n + 1)
      /\ \A i \in 1..n : i \in 1..Len(f) /\ i \in 1..Len(g)
      /\ n + 1 \notin 1..n
      /\ Len(f) = n + 1 => n + 1 \in 1..Len(f)
      /\ Len(g) = n + 1 => n + 1 \in 1..Len(g)
  BY <1>a, <1>b
<1>4. \A i \in 1..Len(g) : \A x \in Refers(ck.loops, g, i) : x \in Of(ck, fn)
  <2>1. \A i \in 1..n : \A x \in Refers(bk.loops, f, i) : x \in Of(bk, fn)
    BY <1>3 DEF Shaped
  <2> QED
    BY <1>1, <1>2, <1>3, <1>c, <2>1
<1> DEFINE Outer(x) == \E i \in 1..n : x \in Awaits(bk.loops, f, i)
<1>5. \A x : (\E i \in 1..Len(f) : x \in Awaits(bk.loops, f, i)) <=> Outer(x) \/ x \in H
  BY <1>3, <1>a
<1>6. \A x : (\E i \in 1..Len(g) : x \in Awaits(ck.loops, g, i)) <=> Outer(x) \/ x \in G
  BY <1>1, <1>3, <1>b
<1>7. \A x \in P : ~ Outer(x)
  BY DEF NotOuter
<1>8. \A x : Unplaced(bk, x) <=> x \in StageWait \/ Outer(x) \/ x \in H
  BY <1>5 DEF Shaped
<1> HIDE DEF Outer
<1>9. \A x : Unplaced(ck, x) <=> x \in StageWait \/ Outer(x) \/ x \in G
  <2>1. \A x : x \in G <=> x \in U \/ (x \in H /\ x \notin P)
    BY DEF PlacedBy
  <2>2. \A x : x \in P => x \notin StageWait
    BY DEF NotOuter
  <2> QED
    BY <1>2, <1>7, <1>8, <2>1, <2>2
<1>10. \A x : Unplaced(ck, x) <=> \/ x \in StageWait
                                  \/ \E i \in 1..Len(g) : x \in Awaits(ck.loops, g, i)
  BY <1>6, <1>9
<1> QED
  BY <1>2, <1>4, <1>10 DEF Shaped

(* A handler that leaves the recursion alone and places what it makes. *)
LEMMA ShapedKept ==
  ASSUME NEW bk, NEW f, NEW fn, Shaped(bk, f, fn),
         NEW ck, Plain(bk, ck, fn), ck.loops = bk.loops
  PROVE  Shaped(ck, f, fn)
<1>1. LaysOut(bk, ck, fn, {}, {})
  BY DEF Plain
<1>2. /\ Sound(ck) /\ ck.insert \in Of(ck, fn)
      /\ \A x \in Of(bk, fn) : x \in Of(ck, fn)
      /\ \A x : Unplaced(ck, x) <=> Unplaced(bk, x)
  BY <1>1, LaidOut
<1> QED
  BY <1>2 DEF Shaped

(* What the innermost construct is to place, no other is. *)
LEMMA AwaitedAlone ==
  ASSUME NEW bk, NEW f, NEW out, BlocksOK(bk, f, out), StageWait \subseteq out,
         NEW n \in Nat, Len(f) = n + 1,
         NEW x \in HeldBy(bk.loops, f, n + 1)
  PROVE  x \notin StageWait /\ \A i \in 1..n : x \notin Awaits(bk.loops, f, i)
<1>1. n + 1 \in 1..Len(f) /\ \A i \in 1..n : i \in 1..Len(f) /\ i # n + 1
  OBVIOUS
<1>2. x \notin out /\ \A i \in 1..n : x \notin HeldBy(bk.loops, f, i)
  BY <1>1 DEF BlocksOK, Apart
<1>3. \A i \in 1..n : \A y \in Awaits(bk.loops, f, i) : y \in HeldBy(bk.loops, f, i)
  BY DEF Awaits, HeldBy
<1> QED
  BY <1>2, <1>3

-----------------------------------------------------------------------------
(* The facts a step in a function starts from. *)
LEMMA Walking ==
  ASSUME IInv, BInv, WInv, phase = "body"
  PROVE  /\ BuilderOK(b) /\ Sound(b) /\ b.insert \in Of(b, Cur) /\ Cur \in FunctionNames
         /\ Shaped(b, frames, Cur) /\ Homes
         /\ inMain \in BOOLEAN
         /\ inMain => b.stageEpilogue \in Of(b, Cur) /\ b.stageExit \in Of(b, Cur)
<1>1. Shaped(b, frames, Cur) /\ Homes
  BY DEF WInv
<1>2. b.stageEpilogue = 1 /\ b.stageExit = 2
  BY DEF BInv, Unbuilt
<1>3. Cur \in FunctionNames /\ (inMain => Cur = "main")
  BY DEF Cur, FunctionNames
<1>4. 1 \in Of(b, "main") /\ 2 \in Of(b, "main")
  BY <1>1 DEF Homes, StageWait
<1>5. BuilderOK(b) /\ inMain \in BOOLEAN
  BY Facts DEF IInv
<1>6. Sound(b) /\ b.insert \in Of(b, Cur)
  BY <1>1 DEF Shaped
<1> QED
  BY <1>1, <1>2, <1>3, <1>4, <1>5, <1>6

(* Any step that stays where it is. *)
LEMMA WithinShaped ==
  ASSUME WInv, phase # "built", UNCHANGED unit,
         NEW U, NEW P, LaysOut(b, b', Cur, U, P), Shaped(b', frames', Cur)
  PROVE  WInv'
<1>1. Homes
  BY DEF WInv
<1>2. \A fn : \A x \in Of(b, fn) : x \in Of(b', fn)
  BY LaidOut
<1>3. initPoint' = initPoint /\ lastBodyBlock' = lastBodyBlock /\ phase' = phase /\ Cur' = Cur
  BY DEF unit, Cur
<1>4. Homes'
  BY <1>1, <1>2, <1>3 DEF Homes, StageWait, MainBody, HelperEntry
<1>5. Shaped(b', frames', Cur')
  BY <1>3
<1> QED
  BY <1>3, <1>4, <1>5 DEF WInv

(* A statement's handler. *)
LEMMA LeafShaped ==
  ASSUME IInv, BInv, WInv, phase = "body", UNCHANGED <<frames, unit>>,
         Plain(b, b', Cur), SameStacks(b, b')
  PROVE  WInv'
<1>1. Shaped(b, frames, Cur)
  BY Walking
<1>2. b'.loops = b.loops
  BY DEF SameStacks
<1>3. Shaped(b', frames', Cur)
  BY <1>1, <1>2, ShapedKept
<1>4. LaysOut(b, b', Cur, {}, {})
  BY DEF Plain
<1> QED
  BY <1>3, <1>4, WithinShaped

-----------------------------------------------------------------------------
(* The tops of the builder's stacks belong to constructs that are open. *)

LEMMA OpenLoop ==
  ASSUME IInv, NEW fn, Shaped(b, frames, fn), b.loops # <<>>
  PROVE  TopOf(b.loops).header \in Of(b, fn) /\ TopOf(b.loops).exit \in Of(b, fn)
<1> DEFINE d == Len(frames)
           p == Len(b.loops)
<1>1. d \in Nat /\ p \in Nat \ {0} /\ p = DepthOf(frames, {"loop"}, d)
  BY Facts, SeqElements DEF StacksOK, StackLengths
<1>2. PICK i \in 1..d : frames[i].kind \in {"loop"} /\ DepthOf(frames, {"loop"}, i) = p
  <2>1. p \in 1..DepthOf(frames, {"loop"}, d)
    BY <1>1
  <2> HIDE DEF p, d
  <2> QED
    BY SMTT(60), <1>1, <2>1, FrameAtDepth
<1>3. TopOf(b.loops) = b.loops[p]
  BY DEF TopOf
<1> HIDE DEF p
<1>4. Refers(b.loops, frames, i) = {b.loops[p].header, b.loops[p].exit}
  BY <1>2 DEF Refers
<1> QED
  BY <1>3, <1>4 DEF Shaped

LEMMA SegmentsFollow ==
  ASSUME NEW n \in Nat, NEW o \in SwitchType(n), InOrder(o)
  PROVE  /\ Len(o.segments) \in Nat \ {0} /\ o.segments[1] \in Nat
         /\ o.s \in 1..Len(o.segments) /\ o.segments \in Seq(1..n)
         /\ Segments(o) = o.segments[1]..(o.segments[1] + Len(o.segments))
         /\ o.segments[Len(o.segments)] = o.segments[1] + Len(o.segments) - 1
         /\ \A k \in 1..Len(o.segments) : o.segments[k] \in Segments(o)
         /\ o.segments[1] + Len(o.segments) \in Segments(o)
<1> DEFINE g == o.segments
           m == Len(g)
<1>1. g \in Seq(1..n) /\ o.s \in 1..m
  BY DEF SwitchType
<1>2. \A k \in 1..m : g[k] = g[1] + k - 1
  BY DEF InOrder
<1>3. Segments(o) = g[1]..(g[1] + m)
  BY DEF Segments
<1> HIDE DEF g
<1>4. m \in Nat /\ m \in 1..m /\ 1 \in 1..m
  BY <1>1
<1>5. g[1] \in Nat
  BY <1>1, <1>4
<1>6. \A k \in 1..m : g[k] \in Segments(o)
  BY <1>2, <1>3, <1>4, <1>5
<1>7. g[1] + m \in Segments(o)
  BY <1>3, <1>4, <1>5
<1>8. g[m] = g[1] + m - 1
  BY <1>2, <1>4
<1> QED
  BY <1>1, <1>3, <1>4, <1>5, <1>6, <1>7, <1>8 DEF g

LEMMA OpenSwitch ==
  ASSUME IInv, BInv, phase = "body", NEW fn, Shaped(b, frames, fn), b.switches # <<>>
  PROVE  TopOf(b.switches) \in Of(b, fn)
<1> DEFINE d == Len(frames)
           p == Len(b.switches)
<1>1. d \in Nat /\ p \in Nat \ {0} /\ p = DepthOf(frames, {"switch"}, d)
  <2>1. \E S : b.switches \in Seq(S)
    BY Facts DEF StacksTyped
  <2> QED
    BY <2>1, Facts, SeqElements DEF StacksOK, StackLengths
<1> DEFINE kinds == {"switch"}
<1>2. PICK i \in 1..d : frames[i].kind \in kinds /\ DepthOf(frames, kinds, i) = p
  <2>1. p \in 1..DepthOf(frames, kinds, d)
    BY <1>1
  <2> HIDE DEF p, d, kinds
  <2> QED
    BY <1>1, <2>1, FrameAtDepth
<1> DEFINE o == frames[i].obj
<1>3. TopOf(b.switches) = b.switches[p]
  BY DEF TopOf
<1>4. b.switches[p] = o.segments[Len(o.segments)] + 1
  <2>1. InStacks(b, frames, breakForLoop, loopTerminal, i)
    BY Facts DEF StacksOK
  <2> QED
    BY <1>2, <2>1 DEF InStacks
<1>5. InOrder(o)
  BY <1>2, InsertFree DEF Orderly
<1>6. o \in SwitchType(Len(b.blocks)) /\ Len(b.blocks) \in Nat
  <2>1. frames[i] \in FrameType(Len(b.blocks)) /\ Len(b.blocks) \in Nat
    BY Facts, SeqElements
  <2> QED
    BY <1>2, <2>1 DEF FrameType
<1>7. Refers(b.loops, frames, i) = Segments(o)
  BY <1>2 DEF Refers
<1> HIDE DEF o, p
<1>8. b.switches[p] \in Segments(o)
  <2> DEFINE m == Len(o.segments)
             first == o.segments[1]
  <2>1. /\ m \in Nat \ {0} /\ first \in Nat /\ o.segments[m] = first + m - 1
        /\ first + m \in Segments(o)
    BY <1>5, <1>6, SegmentsFollow
  <2>2. b.switches[p] = o.segments[m] + 1
    BY <1>4
  <2> HIDE DEF m, first
  <2>3. b.switches[p] = first + m
    BY <2>1, <2>2
  <2> QED
    BY <2>1, <2>3
<1> QED
  BY <1>3, <1>7, <1>8 DEF Shaped

-----------------------------------------------------------------------------
(* Statements. *)

LEMMA StatementShaped ==
  ASSUME IInv, BInv, WInv, VisitStatement
  PROVE  WInv'
<1>1. /\ Visit("stmt", 0, 0) /\ b' = Emit(b, Event("stmt", Here)) /\ phase = "body"
      /\ UNCHANGED <<frames, stacks, unit>>
  BY DEF VisitStatement
<1>2. Event("stmt", Here) \in EventType
  BY <1>1, Facts, VisitNext, EventsType DEF EventNames
<1>3. Plain(b, b', Cur)
  BY <1>1, <1>2, Walking, EmitLays
<1>4. SameStacks(b, b')
  BY <1>1, <1>2, Facts, EmitGrows, GrownOK
<1> QED
  BY <1>1, <1>3, <1>4, LeafShaped

LEMMA DiscardShaped ==
  ASSUME IInv, BInv, WInv, VisitDiscard
  PROVE  WInv'
<1>1. /\ Visit("discard", 0, 0) /\ b' = MakeDiscard(b, inMain, Here) /\ phase = "body"
      /\ UNCHANGED <<frames, stacks, unit>>
  BY DEF VisitDiscard
<1>2. Here \in Nat
  BY <1>1, Facts, VisitNext
<1>3. Plain(b, b', Cur)
  BY <1>1, <1>2, Walking, MakeDiscardLays
<1>4. SameStacks(b, b')
  BY <1>1, <1>2, Facts, Walking, MakeDiscardGrows, GrownOK
<1> QED
  BY <1>1, <1>3, <1>4, LeafShaped

LEMMA ReturnShaped ==
  ASSUME IInv, BInv, WInv, VisitReturn
  PROVE  WInv'
<1>1. /\ Visit("return", 0, 0) /\ b' = MakeReturn(b, FALSE, inMain) /\ phase = "body"
      /\ UNCHANGED <<frames, stacks, unit>>
  BY DEF VisitReturn
<1>2. Plain(b, b', Cur)
  BY <1>1, Walking, MakeReturnLays
<1>3. SameStacks(b, b')
  BY <1>1, Facts, Walking, MakeReturnGrows, GrownOK
<1> QED
  BY <1>1, <1>2, <1>3, LeafShaped

LEMMA BreakShaped ==
  ASSUME IInv, BInv, WInv, VisitBreak
  PROVE  WInv'
<1>1. /\ Visit("break", Innermost({"loop", "switch"}), 0)
      /\ b' = IF TopOf(breakForLoop) THEN MakeLoopExit(b) ELSE AddSwitchBreak(b)
      /\ UNCHANGED <<frames, stacks, unit>> /\ Innermost(Both) # 0 /\ phase = "body"
  BY DEF VisitBreak, Both
<1>2. DepthOf(frames, Both, Len(frames)) \in Nat \ {0}
  BY <1>1, InnermostOpen
<1>3. breakForLoop # <<>>
  BY <1>2, Facts DEF StacksOK, StackLengths
<1>4. IF TopOf(breakForLoop) THEN b.loops # <<>> ELSE b.switches # <<>>
  BY <1>3, Facts, TopTells
<1>5. /\ BuilderOK(b) /\ Sound(b) /\ b.insert \in Of(b, Cur) /\ Shaped(b, frames, Cur)
  BY <1>1, Walking
<1>6. Plain(b, b', Cur)
  <2>1. CASE TopOf(breakForLoop)
    <3>1. TopOf(b.loops).exit \in Of(b, Cur)
      BY <1>4, <1>5, <2>1, OpenLoop
    <3> QED
      BY <1>1, <1>5, <2>1, <3>1, MakeLoopExitLays
  <2>2. CASE ~ TopOf(breakForLoop)
    <3>1. TopOf(b.switches) \in Of(b, Cur)
      BY <1>1, <1>4, <1>5, <2>2, OpenSwitch
    <3> QED
      BY <1>1, <1>5, <2>2, <3>1, AddSwitchBreakLays
  <2> QED
    BY <2>1, <2>2
<1>7. SameStacks(b, b')
  BY <1>1, <1>4, Facts, MakeLoopExitGrows, AddSwitchBreakGrows, GrownOK
<1> QED
  BY <1>1, <1>6, <1>7, LeafShaped

LEMMA TerminalLays ==
  ASSUME NEW bk, BuilderOK(bk), Sound(bk), NEW fn, bk.insert \in Of(bk, fn),
         loopTerminal \in Seq(Nat), loopTerminal # <<>>
  PROVE  Plain(bk, Terminal(bk), fn) /\ Terminal(bk).loops = bk.loops
<1>1. TopOf(loopTerminal) \in Nat
  BY TopPopType
<1>2. Event("terminal", TopOf(loopTerminal)) \in EventType
  BY <1>1, EventsType DEF EventNames
<1>3. Plain(bk, Terminal(bk), fn)
  BY <1>2, EmitLays, PlainReflexive DEF Terminal
<1>4. SameStacks(bk, Terminal(bk))
  BY TerminalGrows, GrownOK
<1> QED
  BY <1>3, <1>4 DEF SameStacks

(* A continue, and a loop's end before it is closed. *)
LEMMA BackEdgeLays ==
  ASSUME NEW bk, BuilderOK(bk), Sound(bk), NEW fn, bk.insert \in Of(bk, fn),
         loopTerminal \in Seq(Nat), loopTerminal # <<>>, TopOf(bk.loops).header \in Of(bk, fn)
  PROVE  Plain(bk, MakeLoopBackEdge(Terminal(bk), FALSE), fn)
<1> DEFINE t == Terminal(bk)
<1>1. Plain(bk, t, fn) /\ t.loops = bk.loops
  BY TerminalLays
<1> HIDE DEF t
<1>2. /\ BuilderOK(t) /\ Sound(t) /\ t.insert \in Of(t, fn)
      /\ \A x \in Of(bk, fn) : x \in Of(t, fn)
  <2>1. LaysOut(bk, t, fn, {}, {})
    BY <1>1 DEF Plain
  <2> QED
    BY <2>1, LaidOut
<1>3. Plain(t, MakeLoopBackEdge(t, FALSE), fn)
  BY <1>1, <1>2, MakeLoopBackEdgeLays
<1>4. Plain(bk, MakeLoopBackEdge(t, FALSE), fn)
  BY <1>1, <1>3, PlainThen DEF Plain
<1> QED
  BY <1>4 DEF t

LEMMA ContinueShaped ==
  ASSUME IInv, BInv, WInv, VisitContinue
  PROVE  WInv'
<1>1. /\ Visit("continue", Innermost({"loop"}), 0) /\ phase = "body"
      /\ b' = MakeLoopBackEdge(Terminal(b), FALSE)
      /\ UNCHANGED <<frames, stacks, unit>> /\ Innermost({"loop"}) # 0
  BY DEF VisitContinue
<1>2. DepthOf(frames, {"loop"}, Len(frames)) \in Nat \ {0}
  BY <1>1, InnermostOpen
<1>3. loopTerminal # <<>> /\ b.loops # <<>> /\ loopTerminal \in Seq(Nat)
  BY <1>2, Facts DEF StacksOK, StackLengths
<1>4. /\ BuilderOK(b) /\ Sound(b) /\ b.insert \in Of(b, Cur) /\ Shaped(b, frames, Cur)
  BY <1>1, Walking
<1>5. TopOf(b.loops).header \in Of(b, Cur)
  BY <1>3, <1>4, OpenLoop
<1>6. Plain(b, b', Cur)
  BY <1>1, <1>3, <1>4, <1>5, BackEdgeLays
<1>7. SameStacks(b, b')
  BY <1>1, <1>3, Facts, BackEdgeGoesOn
<1> QED
  BY <1>1, <1>6, <1>7, LeafShaped

-----------------------------------------------------------------------------
(* Constructs: entered, they are to place one block of those made; left,   *)
(* they have placed it.                                                    *)

LEMMA EnterShaped ==
  ASSUME NEW bk, NEW f, NEW fn, Shaped(bk, f, fn), Len(f) \in Nat,
         NEW ck, NEW U, LaysOut(bk, ck, fn, U, {}), NEW g, Len(g) = Len(f) + 1,
         SameOuter(bk.loops, f, ck.loops, g, Len(f)),
         Awaits(ck.loops, g, Len(f) + 1) = U,
         \A x \in Refers(ck.loops, g, Len(f) + 1) : x \in Of(ck, fn)
  PROVE  Shaped(ck, g, fn)
<1> DEFINE n == Len(f)
<1>1. n \in Nat /\ AwaitsBeyond(bk.loops, f, n, {}) /\ AwaitsBeyond(ck.loops, g, n, U)
  BY DEF AwaitsBeyond
<1>2. RefersInside(ck, g, n, fn) /\ NotOuter({}, bk.loops, f, n) /\ PlacedBy({}, U, {}, U)
  BY DEF RefersInside, NotOuter, PlacedBy
<1>3. SameOuter(bk.loops, f, ck.loops, g, n)
  OBVIOUS
<1> HIDE DEF n
<1> QED
  BY <1>1, <1>2, <1>3, ShapedThen

LEMMA LeaveShaped ==
  ASSUME NEW bk, NEW f, NEW fn, Shaped(bk, f, fn), NEW n \in Nat, Len(f) = n + 1,
         NEW ck, NEW P, LaysOut(bk, ck, fn, {}, P), NEW g, Len(g) = n,
         SameOuter(bk.loops, f, ck.loops, g, n),
         Awaits(bk.loops, f, n + 1) = P,
         \A x \in P : x \notin StageWait /\ \A i \in 1..n : x \notin Awaits(bk.loops, f, i)
  PROVE  Shaped(ck, g, fn)
<1>1. AwaitsBeyond(bk.loops, f, n, P) /\ AwaitsBeyond(ck.loops, g, n, {})
  BY DEF AwaitsBeyond
<1>2. RefersInside(ck, g, n, fn) /\ NotOuter(P, bk.loops, f, n) /\ PlacedBy(P, {}, P, {})
  BY DEF RefersInside, NotOuter, PlacedBy
<1> QED
  BY <1>1, <1>2, ShapedThen

(* The innermost construct goes on to its next part. *)
LEMMA TurnShaped ==
  ASSUME NEW bk, NEW f, NEW fn, Shaped(bk, f, fn), NEW n \in Nat, Len(f) = n + 1,
         NEW ck, Plain(bk, ck, fn), NEW g, Len(g) = n + 1,
         SameOuter(bk.loops, f, ck.loops, g, n),
         Awaits(ck.loops, g, n + 1) = Awaits(bk.loops, f, n + 1),
         \A x \in Refers(ck.loops, g, n + 1) : x \in Of(ck, fn)
  PROVE  Shaped(ck, g, fn)
<1> DEFINE H == Awaits(bk.loops, f, n + 1)
<1>1. AwaitsBeyond(bk.loops, f, n, H) /\ AwaitsBeyond(ck.loops, g, n, H)
  BY DEF AwaitsBeyond
<1> HIDE DEF H
<1>2. RefersInside(ck, g, n, fn) /\ NotOuter({}, bk.loops, f, n) /\ PlacedBy(H, {}, {}, H)
  BY DEF RefersInside, NotOuter, PlacedBy
<1>3. LaysOut(bk, ck, fn, {}, {})
  BY DEF Plain
<1> QED
  BY <1>1, <1>2, <1>3, ShapedThen

(* What the innermost frame refers to and is to place. *)
LEMMA TopRefers ==
  ASSUME IInv, BInv, WInv, NEW kind, In(kind)
  PROVE  /\ phase = "body" /\ Len(frames) \in Nat \ {0} /\ frames[Len(frames)] = Top
         /\ Len(Pop(frames)) = Len(frames) - 1
         /\ \A j \in 1..(Len(frames) - 1) : Pop(frames)[j] = frames[j]
         /\ kind \in {"then", "else"} =>
              /\ \A x \in IfBlocksOf(Top.obj) : x \in Of(b, Cur)
              /\ Awaits(b.loops, frames, Len(frames)) = {Top.obj.merge}
              /\ Unplaced(b, Top.obj.merge)
         /\ kind = "switch" =>
              /\ \A x \in Segments(Top.obj) : x \in Of(b, Cur)
              /\ Awaits(b.loops, frames, Len(frames)) = {}
<1>1. frames # <<>> /\ Top.kind = kind /\ frames[Len(frames)] = Top /\ phase = "body"
  BY OpenMeansBody DEF In, Top
<1>2. /\ Len(frames) \in Nat \ {0} /\ Len(Pop(frames)) = Len(frames) - 1
      /\ \A j \in 1..(Len(frames) - 1) : Pop(frames)[j] = frames[j]
  BY <1>1, Facts, PopElements
<1>3. Shaped(b, frames, Cur) /\ Len(frames) \in 1..Len(frames)
  BY <1>1, <1>2, Walking
<1>4. /\ \A x \in Refers(b.loops, frames, Len(frames)) : x \in Of(b, Cur)
      /\ \A x \in Awaits(b.loops, frames, Len(frames)) : Unplaced(b, x)
  BY <1>3 DEF Shaped
<1>5. ASSUME kind \in {"then", "else"}
      PROVE  /\ Refers(b.loops, frames, Len(frames)) = IfBlocksOf(Top.obj)
             /\ Awaits(b.loops, frames, Len(frames)) = {Top.obj.merge}
  BY <1>1, <1>5 DEF Refers, Awaits
<1>6. ASSUME kind = "switch"
      PROVE  /\ Refers(b.loops, frames, Len(frames)) = Segments(Top.obj)
             /\ Awaits(b.loops, frames, Len(frames)) = {}
  BY <1>1, <1>6 DEF Refers, Awaits
<1>7. ASSUME kind \in {"then", "else"}
      PROVE  /\ \A x \in IfBlocksOf(Top.obj) : x \in Of(b, Cur)
             /\ Awaits(b.loops, frames, Len(frames)) = {Top.obj.merge}
             /\ Unplaced(b, Top.obj.merge)
  BY <1>4, <1>5, <1>7
<1>8. ASSUME kind = "switch"
      PROVE  /\ \A x \in Segments(Top.obj) : x \in Of(b, Cur)
             /\ Awaits(b.loops, frames, Len(frames)) = {}
  BY <1>4, <1>6, <1>8
<1> QED
  BY <1>1, <1>2, <1>7, <1>8

(* What the innermost construct holds, no other construct is to place. *)
LEMMA TopAlone ==
  ASSUME IInv, BInv, WInv, frames # <<>>,
         NEW x \in HeldBy(b.loops, frames, Len(frames))
  PROVE  x \notin StageWait /\ \A i \in 1..(Len(frames) - 1) : x \notin Awaits(b.loops, frames, i)
<1>1. BlocksOK(b, frames, Outside) /\ StageWait \subseteq Outside
  BY OpenMeansBody, InsertFree DEF Outside
<1>2. Len(frames) \in Nat \ {0}
  BY Facts, SeqElements
<1> DEFINE n == Len(frames) - 1
<1>3. n \in Nat /\ Len(frames) = n + 1 /\ x \in HeldBy(b.loops, frames, n + 1)
  BY <1>2
<1> HIDE DEF n
<1>4. x \notin StageWait /\ \A i \in 1..n : x \notin Awaits(b.loops, frames, i)
  BY <1>1, <1>3, AwaitedAlone
<1> QED
  BY <1>4 DEF n

-----------------------------------------------------------------------------
(* An if's steps. *)

LEMMA IfShaped ==
  ASSUME IInv, BInv, WInv, VisitIf
  PROVE  WInv'
<1> DEFINE o  == IfObject(b)
           e  == Frame("then", Here, o)
           n  == Next1(b)
           fn == Cur
<1>1. /\ b' = IfBegin(b) /\ frames' = Append(frames, e)
      /\ UNCHANGED <<stacks, unit>> /\ phase = "body"
  BY DEF VisitIf
<1>2. /\ BuilderOK(b) /\ Sound(b) /\ b.insert \in Of(b, fn) /\ Shaped(b, frames, fn)
  BY <1>1, Walking
<1>3. /\ e.kind = "then" /\ e.obj = o /\ o.header = b.insert /\ o.then = n /\ o.else = 0
      /\ o.merge = n + 1
  BY DEF Frame, IfObject
<1>4. /\ Len(frames') = Len(frames) + 1 /\ frames'[Len(frames) + 1] = e /\ Len(frames) \in Nat
      /\ \A j \in 1..Len(frames) : frames'[j] = frames[j]
  BY <1>1, Facts, AppendedText
<1>5. b'.loops = b.loops
  BY <1>1, <1>2, IfBeginTouches
<1> HIDE DEF e, o, n, fn
<1>6. LaysOut(b, b', fn, {n + 1}, {}) /\ n \in Of(b', fn) /\ n + 1 \in Of(b', fn)
  BY <1>1, <1>2, IfBeginLays DEF n
<1>7. b.insert \in Of(b', fn)
  BY <1>2, <1>6, LaidOut
<1>8. /\ Awaits(b'.loops, frames', Len(frames) + 1) = {n + 1}
      /\ Refers(b'.loops, frames', Len(frames) + 1) = IfBlocksOf(o)
  BY <1>3, <1>4 DEF Awaits, Refers
<1>9. \A x \in IfBlocksOf(o) : x \in Of(b', fn)
  BY <1>3, <1>6, <1>7 DEF IfBlocksOf
<1>10. SameOuter(b.loops, frames, b'.loops, frames', Len(frames))
  BY <1>4, <1>5 DEF SameOuter
<1>11. Shaped(b', frames', fn)
  BY <1>2, <1>4, <1>6, <1>8, <1>9, <1>10, EnterShaped
<1> QED
  BY <1>1, <1>6, <1>11, WithinShaped DEF fn

LEMMA ElseShaped ==
  ASSUME IInv, BInv, WInv, VisitElse
  PROVE  WInv'
<1> DEFINE o     == Top.obj
           p     == [o EXCEPT !.else = Next1(b)]
           e     == Frame("else", Top.at, p)
           outer == Pop(frames)
           n     == Len(frames) - 1
           fn    == Cur
<1>1. /\ b' = MakeBeginElse(b, o) /\ In("then") /\ frames' = Append(outer, e)
      /\ UNCHANGED <<stacks, unit>>
  BY DEF VisitElse
<1>2. o \in IfType(Len(b.blocks))
  BY <1>1, TopType
<1>3. /\ phase = "body" /\ Len(frames) \in Nat \ {0} /\ Len(outer) = n
      /\ \A j \in 1..n : outer[j] = frames[j]
      /\ \A x \in IfBlocksOf(o) : x \in Of(b, fn)
      /\ Awaits(b.loops, frames, Len(frames)) = {o.merge}
  BY <1>1, TopRefers
<1>4. /\ BuilderOK(b) /\ Sound(b) /\ b.insert \in Of(b, fn) /\ Shaped(b, frames, fn)
  BY <1>3, Walking
<1>5. /\ p.header = o.header /\ p.then = o.then /\ p.merge = o.merge /\ p.else = Next1(b)
      /\ e.kind = "else" /\ e.obj = p
  <2>1. e.kind = "else" /\ e.obj = p
    BY DEF Frame
  <2> HIDE DEF o, e
  <2> QED
    BY <1>2, <2>1 DEF IfType
<1>6. /\ Len(frames') = n + 1 /\ frames'[n + 1] = e /\ n \in Nat /\ Len(frames) = n + 1
      /\ \A j \in 1..n : frames'[j] = frames[j]
  <2>1. outer \in Seq(FrameType(Len(b.blocks)))
    BY <1>1, Facts, TopType, PopElements
  <2>2. /\ Len(frames') = Len(outer) + 1 /\ frames'[Len(outer) + 1] = e
        /\ \A j \in 1..Len(outer) : frames'[j] = outer[j]
    BY <1>1, <2>1, AppendedText
  <2> HIDE DEF outer, e
  <2> QED
    BY <1>3, <2>2
<1> HIDE DEF p, e, outer, fn
<1>7. b'.loops = b.loops
  BY <1>1, <1>2, <1>4, MakeBeginElseTouches
<1>8. o.header \in Of(b, fn) /\ o.merge \in Of(b, fn) /\ o.then \in Of(b, fn)
  BY <1>3 DEF IfBlocksOf
<1>9. Plain(b, b', fn) /\ Next1(b) \in Of(b', fn)
  BY <1>1, <1>4, <1>8, MakeBeginElseLays
<1>10. \A x \in Of(b, fn) : x \in Of(b', fn)
  BY <1>9, LaidOut DEF Plain
<1> HIDE DEF o
<1>11. \A x \in IfBlocksOf(p) : x \in Of(b', fn)
  BY <1>5, <1>8, <1>9, <1>10 DEF IfBlocksOf
<1>12. /\ Awaits(b'.loops, frames', n + 1) = {o.merge}
       /\ Refers(b'.loops, frames', n + 1) = IfBlocksOf(p)
  BY <1>5, <1>6 DEF Awaits, Refers
<1>13. SameOuter(b.loops, frames, b'.loops, frames', n)
  BY <1>6, <1>7 DEF SameOuter
<1> HIDE DEF n
<1>14. Awaits(b'.loops, frames', n + 1) = Awaits(b.loops, frames, n + 1)
  BY <1>3, <1>6, <1>12
<1>15. Shaped(b', frames', fn)
  BY <1>4, <1>6, <1>9, <1>11, <1>12, <1>13, <1>14, TurnShaped
<1>16. LaysOut(b, b', Cur, {}, {})
  BY <1>9 DEF Plain, fn
<1> QED
  BY <1>1, <1>3, <1>15, <1>16, WithinShaped DEF fn

LEMMA EndIfShaped ==
  ASSUME IInv, BInv, WInv, EndIf
  PROVE  WInv'
<1> DEFINE o  == Top.obj
           n  == Len(frames) - 1
           fn == Cur
           P  == {o.merge}
<1>1. /\ b' = MakeEndIf(b, o, Top.at) /\ frames' = Pop(frames) /\ UNCHANGED <<stacks, unit>>
  BY DEF EndIf
<1>2. PICK kind \in {"then", "else"} : In(kind)
  BY DEF EndIf
<1>3. /\ o \in IfType(Len(b.blocks)) /\ Top.at \in Nat /\ frames # <<>>
  BY <1>2, TopType
<1>4. /\ phase = "body" /\ Len(frames) \in Nat \ {0} /\ Len(frames') = n
      /\ \A j \in 1..n : frames'[j] = frames[j]
      /\ \A x \in IfBlocksOf(o) : x \in Of(b, fn)
      /\ Awaits(b.loops, frames, Len(frames)) = P /\ Unplaced(b, o.merge)
  BY <1>1, <1>2, TopRefers
<1>5. /\ BuilderOK(b) /\ Sound(b) /\ b.insert \in Of(b, fn) /\ Shaped(b, frames, fn)
  BY <1>4, Walking
<1>6. /\ o.header \in Of(b, fn) /\ o.merge \in Of(b, fn) /\ o.then \in Of(b, fn)
      /\ o.else # 0 => o.else \in Of(b, fn)
  BY <1>4 DEF IfBlocksOf
<1>7. b'.loops = b.loops
  BY <1>1, <1>3, <1>5, MakeEndIfTouches
<1> HIDE DEF fn
<1>8. LaysOut(b, b', fn, {}, P)
  <2> HIDE DEF o
  <2> QED
    BY <1>1, <1>3, <1>4, <1>5, <1>6, MakeEndIfLays
<1>9. HeldBy(b.loops, frames, Len(frames)) = {o.header, o.merge}
  BY <1>2, TopHolds
<1>10. \A x \in P : x \notin StageWait /\ \A i \in 1..n : x \notin Awaits(b.loops, frames, i)
  <2>1. \A x \in P : x \in HeldBy(b.loops, frames, Len(frames))
    BY <1>9
  <2> QED
    BY <1>3, <2>1, TopAlone
<1>11. SameOuter(b.loops, frames, b'.loops, frames', n)
  BY <1>4, <1>7 DEF SameOuter
<1>12. n \in Nat /\ Len(frames) = n + 1
  BY <1>4
<1> HIDE DEF n, P
<1>13. Shaped(b', frames', fn)
  BY <1>4, <1>5, <1>8, <1>10, <1>11, <1>12, LeaveShaped
<1> QED
  BY <1>1, <1>4, <1>8, <1>13, WithinShaped DEF fn

-----------------------------------------------------------------------------
(* A loop's steps. *)

(* A loop that is entered refers to its new stack entry. *)
LEMMA LoopEnteredRefers ==
  ASSUME IInv, NEW form, NEW x,
         NEW e, e = Frame("loop", Here, form), NEW L, L = Append(b.loops, x)
  PROVE  LET g == Append(frames, e)
             d == Len(frames)
         IN  /\ Awaits(L, g, d + 1) = {x.exit} /\ Refers(L, g, d + 1) = {x.header, x.exit}
             /\ SameOuter(b.loops, frames, L, g, d) /\ TopOf(L) = x
             /\ Len(g) = d + 1 /\ d \in Nat
<1> DEFINE d == Len(frames)
           g == Append(frames, e)
           S == FrameType(Len(b.blocks)) \cup {e}
<1>1. e.kind = "loop"
  BY DEF Frame
<1>2. frames \in Seq(S) /\ e \in S
  BY Facts, SeqSubset, FrameType(Len(b.blocks)) \subseteq S
<1>3. /\ g[d + 1] = e /\ DepthOf(frames, {"loop"}, d) \in Nat
      /\ DepthOf(g, {"loop"}, d + 1) = DepthOf(frames, {"loop"}, d) + 1
  <2> HIDE DEF S
  <2> QED
    BY <1>1, <1>2, PushDepth
<1>4. Len(b.loops) = DepthOf(frames, {"loop"}, d)
  BY Facts DEF StacksOK, StackLengths
<1>5. /\ Len(L) = Len(b.loops) + 1 /\ L[Len(b.loops) + 1] = x
      /\ \A k \in 1..Len(b.loops) : L[k] = b.loops[k]
  BY Facts, AppendedText
<1>6. Len(g) = d + 1 /\ d \in Nat /\ \A j \in 1..d : g[j] = frames[j]
  BY Facts, AppendedText
<1>7. TopOf(L) = x
  BY <1>5 DEF TopOf
<1>8. SameOuter(b.loops, frames, L, g, d)
  <2> HIDE DEF g, d
  <2> QED
    BY <1>4, <1>5, <1>6 DEF SameOuter
<1>9. L[DepthOf(g, {"loop"}, d + 1)] = x
  BY <1>3, <1>4, <1>5
<1>10. Awaits(L, g, d + 1) = {x.exit} /\ Refers(L, g, d + 1) = {x.header, x.exit}
  <2> HIDE DEF g, d
  <2> QED
    BY <1>1, <1>3, <1>9 DEF Awaits, Refers
<1> QED
  BY <1>6, <1>7, <1>8, <1>10

(* The test of a loop, in the loop it belongs to. *)
LEMMA TestLays ==
  ASSUME NEW bk, BuilderOK(bk), Sound(bk), NEW fn, bk.insert \in Of(bk, fn), bk.loops # <<>>,
         TopOf(bk.loops).exit \in Of(bk, fn), NEW at \in Nat, NEW tests \in BOOLEAN,
         NEW ck, ck = IF tests THEN LoopTest(bk, at) ELSE bk
  PROVE  Plain(bk, ck, fn) /\ ck.loops = bk.loops
<1>1. Plain(bk, LoopTest(bk, at), fn)
  BY LoopTestLays DEF LoopTest
<1>2. Plain(bk, bk, fn)
  BY PlainReflexive
<1>3. LoopTest(bk, at).loops = bk.loops
  BY LoopTestGoesOn DEF SameStacks
<1> QED
  BY <1>1, <1>2, <1>3

LEMMA LoopShaped ==
  ASSUME IInv, BInv, WInv, NEW form \in LoopForms, VisitLoop(form)
  PROVE  WInv'
<1> DEFINE e    == Frame("loop", Here, form)
           made == MakeNewLoop(b)
           n    == Next1(b)
           x    == [header |-> n, exit |-> n + 1]
           fn   == Cur
           d    == Len(frames)
           U    == {n + 1}
<1>1. /\ Visit("loop", 0, form) /\ phase = "body" /\ frames' = Append(frames, e)
      /\ b' = IF form.testFirst /\ form.test THEN LoopTest(made, Here) ELSE made
      /\ UNCHANGED unit
  BY DEF VisitLoop
<1>2. Here \in Nat
  BY <1>1, Facts, VisitNext
<1>3. /\ BuilderOK(b) /\ Sound(b) /\ b.insert \in Of(b, fn) /\ Shaped(b, frames, fn)
  BY <1>1, Walking
<1>4. made.loops = Append(b.loops, x)
  BY <1>3, MakeNewLoopTouches
<1>5. e = Frame("loop", Here, form)
  OBVIOUS
<1>6. x.header = n /\ x.exit = n + 1
  OBVIOUS
<1> HIDE DEF made, n, e, x, fn
<1>7. LaysOut(b, made, fn, U, {}) /\ n \in Of(made, fn) /\ n + 1 \in Of(made, fn)
  BY <1>3, MakeNewLoopLays DEF made, n
<1>8. /\ Awaits(made.loops, frames', d + 1) = {x.exit}
      /\ Refers(made.loops, frames', d + 1) = {x.header, x.exit}
      /\ SameOuter(b.loops, frames, made.loops, frames', d) /\ TopOf(made.loops) = x
      /\ Len(frames') = d + 1 /\ d \in Nat
  <2> DEFINE L == made.loops
  <2>1. L = Append(b.loops, x)
    BY <1>4
  <2> HIDE DEF L
  <2>2. LET g  == Append(frames, e)
            dd == Len(frames)
        IN  /\ Awaits(L, g, dd + 1) = {x.exit} /\ Refers(L, g, dd + 1) = {x.header, x.exit}
            /\ SameOuter(b.loops, frames, L, g, dd) /\ TopOf(L) = x
            /\ Len(g) = dd + 1 /\ dd \in Nat
    BY <1>5, <2>1, LoopEnteredRefers
  <2> QED
    BY <1>1, <2>2 DEF L
<1>9. Shaped(made, frames', fn)
  <2>1. Awaits(made.loops, frames', d + 1) = U
    BY <1>6, <1>8
  <2>2. \A y \in Refers(made.loops, frames', d + 1) : y \in Of(made, fn)
    BY <1>6, <1>7, <1>8
  <2> HIDE DEF U
  <2> QED
    BY <1>3, <1>7, <1>8, <2>1, <2>2, EnterShaped
<1>10. /\ BuilderOK(made) /\ Sound(made) /\ made.insert \in Of(made, fn)
  BY <1>7, LaidOut
<1>11. made.loops # <<>>
  <2>1. Len(made.loops) = Len(b.loops) + 1 /\ Len(b.loops) \in Nat
    BY <1>4, Facts, TextGrows
  <2> QED
    BY <2>1
<1> DEFINE tests == form.testFirst /\ form.test
<1>12. tests \in BOOLEAN
  BY FormAssumption DEF AllLoopForms
<1> HIDE DEF tests
<1>13. Plain(made, b', fn) /\ b'.loops = made.loops
  <2>1. b' = IF tests THEN LoopTest(made, Here) ELSE made
    BY <1>1 DEF tests
  <2>2. TopOf(made.loops).exit \in Of(made, fn)
    BY <1>6, <1>7, <1>8
  <2> QED
    BY <1>2, <1>10, <1>11, <1>12, <2>1, <2>2, TestLays
<1>14. Shaped(b', frames', fn)
  BY <1>9, <1>13, ShapedKept
<1>15. LaysOut(b, b', fn, U, {})
  BY <1>7, <1>13, PlainThen
<1> QED
  BY <1>1, <1>14, <1>15, WithinShaped DEF fn

LEMMA EndLoopShaped ==
  ASSUME IInv, BInv, WInv, EndLoop
  PROVE  WInv'
<1> DEFINE tests  == ~ Top.obj.testFirst /\ Top.obj.test
           tested == IF tests THEN LoopTest(b, Top.at) ELSE b
           back   == MakeLoopBackEdge(Terminal(tested), FALSE)
           fn     == Cur
           x      == TopOf(b.loops)
           n      == Len(frames) - 1
           P      == {x.exit}
<1>1. /\ b' = CloseLoop(back) /\ frames' = Pop(frames) /\ UNCHANGED unit /\ In("loop")
  BY DEF EndLoop
<1>2. /\ frames # <<>> /\ TopOf(frames) = Top /\ Top.kind = "loop" /\ Top.at \in Nat
      /\ tests \in BOOLEAN
  BY <1>1, TopType DEF AllLoopForms
<1>3. /\ phase = "body" /\ Len(frames) \in Nat \ {0} /\ Len(frames') = n
      /\ \A j \in 1..n : frames'[j] = frames[j]
      /\ frames[Len(frames)] = Top
  BY <1>1, TopRefers
<1>4. /\ breakForLoop # <<>> /\ loopTerminal # <<>> /\ b.loops # <<>>
      /\ loopTerminal \in Seq(Nat)
  BY <1>2, Facts, PopLoop
<1>5. /\ BuilderOK(b) /\ Sound(b) /\ b.insert \in Of(b, fn) /\ Shaped(b, frames, fn)
  BY <1>3, Walking
<1> HIDE DEF fn
<1>6. x.header \in Of(b, fn) /\ x.exit \in Of(b, fn)
  BY <1>4, <1>5, OpenLoop
<1> HIDE DEF tests
<1>7. Plain(b, tested, fn) /\ tested.loops = b.loops
  BY <1>2, <1>4, <1>5, <1>6, TestLays
<1> HIDE DEF tested
<1>8. /\ BuilderOK(tested) /\ Sound(tested) /\ tested.insert \in Of(tested, fn)
      /\ \A y \in Of(b, fn) : y \in Of(tested, fn)
  BY <1>7, LaidOut DEF Plain
<1>9. Plain(tested, back, fn) /\ back.loops = b.loops
  <2>1. TopOf(tested.loops).header \in Of(tested, fn)
    BY <1>6, <1>7, <1>8
  <2>2. Plain(tested, back, fn)
    BY <1>4, <1>8, <2>1, BackEdgeLays
  <2>3. SameStacks(tested, back)
    BY <1>4, <1>7, <1>8, BackEdgeGoesOn
  <2> QED
    BY <1>7, <2>2, <2>3 DEF SameStacks
<1> HIDE DEF back
<1>10. Plain(b, back, fn)
  BY <1>7, <1>9, PlainThen DEF Plain
<1>11. /\ BuilderOK(back) /\ Sound(back) /\ back.insert \in Of(back, fn)
       /\ \A y \in Of(b, fn) : y \in Of(back, fn)
       /\ \A y : Unplaced(back, y) <=> Unplaced(b, y)
  BY <1>10, LaidOut DEF Plain
<1>12. /\ Len(b.loops) = DepthOf(frames, {"loop"}, n + 1)
       /\ DepthOf(frames, {"loop"}, n + 1) = DepthOf(frames, {"loop"}, n) + 1
       /\ DepthOf(frames, {"loop"}, n) \in Nat /\ n \in Nat /\ Len(frames) = n + 1
       /\ frames[n + 1].kind = "loop"
  <2>1. Len(frames) = n + 1 /\ n \in Nat
    BY <1>3
  <2>2. Len(b.loops) = DepthOf(frames, {"loop"}, Len(frames))
    BY Facts DEF StacksOK, StackLengths
  <2>3. /\ DepthOf(frames, {"loop"}, Len(frames)) = DepthOf(frames, {"loop"}, n) + 1
        /\ DepthOf(frames, {"loop"}, n) \in Nat
    BY <1>2, Facts, PopDepth
  <2> QED
    BY <1>2, <1>3, <2>1, <2>2, <2>3
<1>13. Awaits(b.loops, frames, n + 1) = P
  BY <1>12 DEF Awaits, TopOf
<1>14. Unplaced(b, x.exit)
  <2>1. n + 1 \in 1..Len(frames) /\ x.exit \in Awaits(b.loops, frames, n + 1)
    BY <1>12, <1>13
  <2> QED
    BY <1>5, <2>1 DEF Shaped
<1>15. LaysOut(back, b', fn, {}, P)
  <2>1. /\ TopOf(back.loops).header \in Of(back, fn) /\ TopOf(back.loops).exit \in Of(back, fn)
        /\ Unplaced(back, TopOf(back.loops).exit) /\ back.loops # <<>>
        /\ P = {TopOf(back.loops).exit}
    BY <1>4, <1>6, <1>9, <1>11, <1>14
  <2> HIDE DEF P
  <2> QED
    BY <1>1, <1>11, <2>1, CloseLoopLays
<1>16. LaysOut(b, b', fn, {}, P)
  BY <1>10, <1>15, PlainThen
<1>17. SameOuter(b.loops, frames, b'.loops, frames', n)
  <2>1. b'.loops = Pop(b.loops)
    BY <1>1, <1>4, <1>9, <1>11, CloseLoopTouches
  <2>2. \A k \in 1..(Len(b.loops) - 1) : b'.loops[k] = b.loops[k]
    BY ZenonT(60), <1>4, <2>1, Facts, PopElements
  <2>3. DepthOf(frames, {"loop"}, n) = Len(b.loops) - 1
    BY <1>12
  <2> QED
    BY <1>3, <2>2, <2>3 DEF SameOuter
<1>18. \A y \in P : y \notin StageWait /\ \A i \in 1..n : y \notin Awaits(b.loops, frames, i)
  <2>1. HeldBy(b.loops, frames, Len(frames)) = P
    BY <1>12 DEF HeldBy, TopOf
  <2> QED
    BY <1>2, <2>1, TopAlone
<1> HIDE DEF n, P
<1>19. Shaped(b', frames', fn)
  BY <1>3, <1>5, <1>12, <1>13, <1>16, <1>17, <1>18, LeaveShaped
<1> QED
  BY <1>1, <1>3, <1>16, <1>19, WithinShaped DEF fn

-----------------------------------------------------------------------------
(* A switch's steps. *)

LEMMA EnterSegmentLays ==
  ASSUME NEW bk, BuilderOK(bk), Sound(bk), NEW fn, bk.insert \in Of(bk, fn),
         bk.switches # <<>>, TopOf(bk.switches) \in Of(bk, fn),
         NEW segments \in Seq(1..Len(bk.blocks)), NEW s \in 1..Len(segments),
         segments[s] \in Of(bk, fn), NEW n
  PROVE  /\ Plain(bk, EnterSegment(bk, segments, s, n), fn)
         /\ EnterSegment(bk, segments, s, n).loops = bk.loops
<1> DEFINE next == NextSwitchSegment(bk, segments, s)
           c    == EnterSegment(bk, segments, s, n)
<1>1. c = IF s <= n THEN next ELSE AddSwitchBreak(next)
  BY DEF EnterSegment
<1>2. SameStacks(bk, c) /\ SameStacks(bk, next)
  BY EnterSegmentGrows, NextSwitchSegmentGrows, GrownOK
<1>3. Plain(bk, next, fn)
  BY NextSwitchSegmentLays
<1> HIDE DEF next, c
<1>4. /\ BuilderOK(next) /\ Sound(next) /\ next.insert \in Of(next, fn)
      /\ TopOf(next.switches) \in Of(next, fn)
  <2>1. LaysOut(bk, next, fn, {}, {})
    BY <1>3 DEF Plain
  <2> QED
    BY <1>2, <2>1, LaidOut DEF SameStacks
<1>5. Plain(next, AddSwitchBreak(next), fn) /\ Plain(next, next, fn)
  BY <1>4, AddSwitchBreakLays, PlainReflexive
<1>6. Plain(next, c, fn)
  BY <1>1, <1>5
<1>7. Plain(bk, c, fn)
  BY <1>3, <1>6, PlainThen DEF Plain
<1> QED
  BY <1>2, <1>7 DEF SameStacks, c

LEMMA SwitchShaped ==
  ASSUME IInv, BInv, WInv, NEW body \in SwitchBodies, VisitSwitch(body)
  PROVE  WInv'
<1>1. PICK n \in SegmentCounts(body) :
        LET made == MakeSwitch(b, n, ValueToSegment(body), DefaultSegment(body), Here)
            segs == SegmentBlocks(b, n)
        IN  /\ b' = EnterSegment(made, segs, 1, CodeCount(body))
            /\ frames' = Append(frames, Frame("switch", Here,
                          [segments |-> segs, s |-> 1, code |-> CodeCount(body)]))
  BY DEF VisitSwitch
<1> DEFINE values  == ValueToSegment(body)
           default == DefaultSegment(body)
           made    == MakeSwitch(b, n, values, default, Here)
           segs    == SegmentBlocks(b, n)
           obj     == [segments |-> segs, s |-> 1, code |-> CodeCount(body)]
           e       == Frame("switch", Here, obj)
           l       == Len(b.blocks)
           d       == Len(frames)
           fn      == Cur
<1>2. /\ b' = EnterSegment(made, segs, 1, CodeCount(body)) /\ phase = "body"
      /\ frames' = Append(frames, e) /\ UNCHANGED unit
  BY <1>1 DEF VisitSwitch
<1>3. /\ n \in Nat \ {0} /\ values \in Seq(0..(n - 1))
      /\ default \in -1..(n - 1) /\ l \in Nat /\ Here \in Nat
  BY SwitchSegments, Facts DEF Here
<1>4. /\ BuilderOK(b) /\ Sound(b) /\ b.insert \in Of(b, fn) /\ Shaped(b, frames, fn)
  BY <1>2, Walking
<1>5. obj.segments = segs /\ e.kind = "switch" /\ e.obj = obj
  BY DEF Frame
<1>6. /\ segs \in Seq(1..(l + n)) /\ Len(segs) = n /\ 1 \in 1..Len(segs) /\ segs[1] = l + 1
  <2>1. segs \in Seq(1..(l + n)) /\ Len(segs) = n
    BY <1>3, SegmentsMade
  <2>2. \A k \in 1..n : segs[k] = l + k
    BY DEF SegmentBlocks
  <2> HIDE DEF segs
  <2> QED
    BY <1>3, <2>1, <2>2
<1> HIDE DEF segs, obj, e, fn, values, default
<1>7. /\ Len(made.blocks) = l + n + 1 /\ made.loops = b.loops
      /\ made.switches = Append(b.switches, l + n + 1)
  <2> HIDE DEF made, l
  <2>1. LET c   == MakeSwitch(b, n, values, default, Here)
            new == (Len(b.blocks) + 1)..(Len(b.blocks) + n + 1)
        IN  /\ Touches(b, c, {b.insert}, new) /\ c.insert = b.insert
            /\ \A x \in new : Open(c, x) /\ Fresh(b, c, x)
            /\ Len(c.blocks) = Len(b.blocks) + n + 1
            /\ c.loops = b.loops
            /\ c.switches = Append(b.switches, Len(b.blocks) + n + 1)
    BY ZenonT(60), <1>3, <1>4, MakeSwitchTouches
  <2> QED
    BY <2>1 DEF made, l
<1>8. Plain(b, made, fn) /\ \A i \in (l + 1)..(l + n + 1) : i \in Of(made, fn)
  <2> HIDE DEF made, l
  <2>1. LET c == MakeSwitch(b, n, values, default, Here)
        IN  /\ Plain(b, c, fn)
            /\ \A i \in (Len(b.blocks) + 1)..(Len(b.blocks) + n + 1) : i \in Of(c, fn)
    BY <1>3, <1>4, MakeSwitchLays
  <2> QED
    BY <2>1 DEF made, l
<1> HIDE DEF made, l
<1>9. l + 1 \in (l + 1)..(l + n + 1) /\ l + n + 1 \in (l + 1)..(l + n + 1)
  BY <1>3
<1>10. /\ BuilderOK(made) /\ Sound(made) /\ made.insert \in Of(made, fn)
  BY <1>8, LaidOut DEF Plain
<1>11. made.switches # <<>> /\ TopOf(made.switches) = l + n + 1
  <2>1. \E S : b.switches \in Seq(S)
    BY Facts DEF StacksTyped
  <2>2. /\ Len(made.switches) = Len(b.switches) + 1 /\ Len(b.switches) \in Nat
        /\ made.switches[Len(b.switches) + 1] = l + n + 1
    BY <1>7, <2>1, AppendedText
  <2> QED
    BY <2>2 DEF TopOf
<1>12. segs \in Seq(1..Len(made.blocks))
  <2>1. l + n \in Nat /\ l + n + 1 \in Nat /\ l + n <= l + n + 1
    BY <1>3
  <2> QED
    BY <1>6, <1>7, <2>1, SegmentsMonotone
<1>13. Plain(made, b', fn) /\ b'.loops = made.loops
  <2>1. segs[1] \in Of(made, fn) /\ TopOf(made.switches) \in Of(made, fn)
    BY <1>6, <1>8, <1>9, <1>11
  <2> QED
    BY <1>2, <1>6, <1>10, <1>11, <1>12, <2>1, EnterSegmentLays
<1>14. LaysOut(b, b', fn, {}, {})
  BY <1>8, <1>13, PlainThen DEF Plain
<1>15. \A x \in Of(made, fn) : x \in Of(b', fn)
  BY <1>13, LaidOut DEF Plain
<1>16. /\ Len(frames') = d + 1 /\ frames'[d + 1] = e /\ d \in Nat
       /\ \A j \in 1..d : frames'[j] = frames[j]
  BY <1>2, Facts, AppendedText
<1>17. /\ Awaits(b'.loops, frames', d + 1) = {}
       /\ Refers(b'.loops, frames', d + 1) = Segments(obj)
  BY <1>5, <1>16 DEF Awaits, Refers
<1>18. Segments(obj) = (l + 1)..(l + n + 1)
  <2>1. Segments(obj) = (l + 1)..(l + 1 + n)
    BY <1>5, <1>6 DEF Segments
  <2> QED
    BY <1>3, <2>1
<1>19. SameOuter(b.loops, frames, b'.loops, frames', d)
  BY <1>7, <1>13, <1>16 DEF SameOuter
<1>20. Shaped(b', frames', fn)
  <2>1. \A x \in Refers(b'.loops, frames', d + 1) : x \in Of(b', fn)
    BY <1>8, <1>15, <1>17, <1>18
  <2> QED
    BY <1>4, <1>14, <1>16, <1>17, <1>19, <2>1, EnterShaped
<1> QED
  BY <1>2, <1>14, <1>20, WithinShaped DEF fn

LEMMA NextSegmentShaped ==
  ASSUME IInv, BInv, WInv, NextSegment
  PROVE  WInv'
<1> DEFINE o    == Top.obj
           s    == o.s + 1
           segs == o.segments
           g    == [frames EXCEPT ![Len(frames)].obj.s = s]
           n    == Len(frames) - 1
           fn   == Cur
<1>1. /\ b' = EnterSegment(b, segs, s, o.code) /\ frames' = g
      /\ UNCHANGED <<stacks, unit>> /\ In("switch") /\ o.s < Len(segs)
  BY DEF NextSegment
<1>2. /\ frames # <<>> /\ TopOf(frames) = Top /\ Top.kind = "switch"
      /\ o \in SwitchType(Len(b.blocks)) /\ Top \in FrameType(Len(b.blocks))
  BY <1>1, TopType
<1>3. /\ phase = "body" /\ Len(frames) \in Nat \ {0}
      /\ \A x \in Segments(o) : x \in Of(b, fn)
      /\ Awaits(b.loops, frames, Len(frames)) = {}
      /\ frames[Len(frames)] = Top
  BY <1>1, TopRefers
<1>4. /\ BuilderOK(b) /\ Sound(b) /\ b.insert \in Of(b, fn) /\ Shaped(b, frames, fn)
      /\ Len(b.blocks) \in Nat
  BY <1>3, Walking, Facts
<1>5. InOrder(o)
  <2>1. Orderly(Top)
    BY <1>3, InsertFree
  <2> QED
    BY <1>2, <2>1 DEF Orderly
<1> HIDE DEF fn
<1>6. /\ segs \in Seq(1..Len(b.blocks)) /\ s \in 1..Len(segs)
      /\ \A k \in 1..Len(segs) : segs[k] \in Segments(o)
  <2> HIDE DEF o
  <2>1. /\ segs \in Seq(1..Len(b.blocks)) /\ o.s \in 1..Len(segs)
        /\ \A k \in 1..Len(segs) : segs[k] \in Segments(o)
    BY <1>2, <1>4, <1>5, SegmentsFollow
  <2>2. Len(segs) \in Nat
    BY <2>1, LenNat
  <2> QED
    BY <1>1, <2>1, <2>2
<1>7. b.switches # <<>>
  BY <1>2, Facts, PopSwitch
<1>8. TopOf(b.switches) \in Of(b, fn)
  BY <1>3, <1>4, <1>7, OpenSwitch
<1>9. /\ Len(g) = Len(frames) /\ \A i \in 1..n : g[i] = frames[i]
      /\ g[Len(frames)].kind = "switch" /\ g[Len(frames)].obj.segments = segs
  <2>1. frames \in Seq(FrameType(Len(b.blocks)))
    BY Facts
  <2> HIDE DEF s
  <2>2. LET g0 == [frames EXCEPT ![Len(frames)].obj.s = s]
            e  == g0[Len(frames)]
        IN  /\ Len(g0) = Len(frames)
            /\ \A i \in 1..(Len(frames) - 1) : g0[i] = frames[i]
            /\ e.kind = "switch" /\ e.obj.s = s
            /\ e.obj.segments = TopOf(frames).obj.segments
    BY <1>2, <2>1, FrameAdvances
  <2> QED
    BY <1>2, <2>2
<1> HIDE DEF g, s
<1>10. Plain(b, b', fn) /\ b'.loops = b.loops
  <2>1. segs[s] \in Of(b, fn)
    BY <1>3, <1>6
  <2> QED
    BY <1>1, <1>4, <1>6, <1>7, <1>8, <2>1, EnterSegmentLays
<1>11. \A x \in Of(b, fn) : x \in Of(b', fn)
  BY <1>10, LaidOut DEF Plain
<1>12. n \in Nat /\ Len(frames) = n + 1
  BY <1>3
<1> HIDE DEF n
<1>13. /\ Awaits(b'.loops, frames', n + 1) = {}
       /\ Refers(b'.loops, frames', n + 1) = Segments(o)
  BY <1>1, <1>9, <1>12 DEF Awaits, Refers, Segments
<1>14. SameOuter(b.loops, frames, b'.loops, frames', n)
  BY <1>1, <1>9, <1>10 DEF SameOuter
<1>15. Shaped(b', frames', fn)
  <2>1. Awaits(b'.loops, frames', n + 1) = Awaits(b.loops, frames, n + 1)
    BY <1>3, <1>12, <1>13
  <2>2. \A x \in Refers(b'.loops, frames', n + 1) : x \in Of(b', fn)
    BY <1>3, <1>11, <1>13
  <2>3. Len(frames') = n + 1
    BY <1>1, <1>9, <1>12
  <2> QED
    BY <1>4, <1>10, <1>12, <1>14, <2>1, <2>2, <2>3, TurnShaped
<1>16. LaysOut(b, b', fn, {}, {})
  BY <1>10 DEF Plain
<1> QED
  BY <1>1, <1>3, <1>15, <1>16, WithinShaped DEF fn

LEMMA EndOfSwitchShaped ==
  ASSUME IInv, BInv, WInv, EndOfSwitch
  PROVE  WInv'
<1> DEFINE n  == Len(frames) - 1
           fn == Cur
<1>1. /\ b' = EndSwitch(b) /\ frames' = Pop(frames) /\ UNCHANGED unit /\ In("switch")
  BY DEF EndOfSwitch
<1>2. /\ frames # <<>> /\ TopOf(frames) = Top /\ Top.kind = "switch"
  BY <1>1, TopType
<1>3. /\ phase = "body" /\ Len(frames) \in Nat \ {0} /\ Len(frames') = n
      /\ \A j \in 1..n : frames'[j] = frames[j]
      /\ Awaits(b.loops, frames, Len(frames)) = {}
  BY <1>1, TopRefers
<1>4. /\ BuilderOK(b) /\ Sound(b) /\ b.insert \in Of(b, fn) /\ Shaped(b, frames, fn)
  BY <1>3, Walking
<1> HIDE DEF fn
<1>5. b.switches # <<>>
  BY <1>2, Facts, PopSwitch
<1>6. TopOf(b.switches) \in Of(b, fn)
  BY <1>3, <1>4, <1>5, OpenSwitch
<1>7. Plain(b, b', fn)
  BY <1>1, <1>4, <1>5, <1>6, EndSwitchLays
<1>8. b'.loops = b.loops
  BY <1>1, <1>4, <1>5, EndSwitchBuilds
<1>9. SameOuter(b.loops, frames, b'.loops, frames', n)
  BY <1>3, <1>8 DEF SameOuter
<1>10. n \in Nat /\ Len(frames) = n + 1
  BY <1>3
<1> HIDE DEF n
<1>11. LaysOut(b, b', fn, {}, {})
  BY <1>7 DEF Plain
<1>12. Shaped(b', frames', fn)
  <2>1. \A x \in {} : x \notin StageWait /\ \A i \in 1..n : x \notin Awaits(b.loops, frames, i)
    OBVIOUS
  <2> QED
    BY <1>3, <1>4, <1>9, <1>10, <1>11, <2>1, LeaveShaped
<1> QED
  BY <1>1, <1>3, <1>11, <1>12, WithinShaped DEF fn

-----------------------------------------------------------------------------
(* Steps outside functions. *)

(* What holds when no function is being walked. *)
LEMMA Between ==
  ASSUME IInv, BInv, WInv, phase = "global"
  PROVE  /\ BuilderOK(b) /\ Sound(b) /\ b.insert \in Of(b, "main") /\ Cur = "main"
         /\ frames = <<>> /\ Shaped(b, <<>>, "main") /\ Homes
         /\ \A x : Unplaced(b, x) <=> x \in StageWait
<1>1. Shaped(b, frames, Cur) /\ Homes /\ Cur = "main" /\ frames = <<>>
  BY DEF WInv, Cur, BInv
<1>2. \A i \in 1..Len(<<>>) : FALSE
  OBVIOUS
<1>3. Shaped(b, <<>>, "main")
  BY <1>1
<1>4. /\ Sound(b) /\ b.insert \in Of(b, "main")
      /\ \A x : Unplaced(b, x) <=> x \in StageWait
  BY <1>2, <1>3 DEF Shaped
<1> QED
  BY <1>1, <1>3, <1>4, Facts

LEMMA InitializerShaped ==
  ASSUME IInv, BInv, WInv, VisitInitializer
  PROVE  WInv'
<1>1. /\ Visit("init", 0, 0) /\ b' = Emit(b, Event("init", Here)) /\ phase = "global"
      /\ UNCHANGED <<frames, stacks, unit>>
  BY DEF VisitInitializer
<1>2. Event("init", Here) \in EventType
  BY <1>1, Facts, VisitNext, EventsType DEF EventNames
<1>3. /\ BuilderOK(b) /\ Sound(b) /\ b.insert \in Of(b, Cur) /\ Shaped(b, frames, Cur)
  BY <1>1, Between
<1>4. Plain(b, b', Cur)
  BY <1>1, <1>2, <1>3, EmitLays
<1>5. b'.loops = b.loops
  BY <1>1, <1>2, <1>3, EmitGrows, GrownOK DEF SameStacks
<1>6. Shaped(b', frames', Cur)
  BY <1>1, <1>3, <1>4, <1>5, ShapedKept
<1>7. LaysOut(b, b', Cur, {}, {})
  BY <1>4 DEF Plain
<1> QED
  BY <1>1, <1>6, <1>7, WithinShaped

LEMMA FlowInitializerShaped ==
  ASSUME IInv, BInv, WInv, VisitFlowInitializer
  PROVE  WInv'
<1>1. /\ Visit("initFlow", 0, 0) /\ phase = "global" /\ UNCHANGED <<frames, stacks, unit>>
      /\ b' = LET if   == IfObject(b)
                  then == Emit(IfBegin(b), Event("initThen", Here))
                  else == Emit(MakeBeginElse(then, if), Event("initElse", Here))
              IN  MakeEndIf(else, [if EXCEPT !.else = Next1(then)], Here)
  BY DEF VisitFlowInitializer
<1>2. Here \in Nat
  BY <1>1, Facts, VisitNext
<1>3. Event("initThen", Here) \in EventType /\ Event("initElse", Here) \in EventType
  BY <1>2, EventsType DEF EventNames
<1>4. /\ BuilderOK(b) /\ Sound(b) /\ b.insert \in Of(b, Cur) /\ Shaped(b, frames, Cur)
  BY <1>1, Between
<1>5. Plain(b, b', Cur)
  BY <1>1, <1>2, <1>3, <1>4, FlowLays
<1>6. b'.loops = b.loops
  BY <1>1, <1>2, <1>4, InitializerFlowGrows, GrownOK DEF SameStacks
<1>7. Shaped(b', frames', Cur)
  BY <1>1, <1>4, <1>5, <1>6, ShapedKept
<1>8. LaysOut(b, b', Cur, {}, {})
  BY <1>5 DEF Plain
<1> QED
  BY <1>1, <1>7, <1>8, WithinShaped

(* The walk moves to a block of the function it enters or goes back to. *)
LEMMA MovedShaped ==
  ASSUME NEW bk, BuilderOK(bk), Sound(bk), \A x : Unplaced(bk, x) <=> x \in StageWait,
         NEW fn, NEW blk \in Of(bk, fn)
  PROVE  /\ Shaped(SetInsertPoint(bk, blk), <<>>, fn)
         /\ \A g : \A x \in Of(bk, g) : x \in Of(SetInsertPoint(bk, blk), g)
<1> DEFINE ck == SetInsertPoint(bk, blk)
<1>1. LaysOut(bk, ck, fn, {}, {})
  BY SetInsertLays DEF Plain
<1> HIDE DEF ck
<1>2. /\ Sound(ck) /\ ck.insert \in Of(ck, fn)
      /\ \A g : \A x \in Of(bk, g) : x \in Of(ck, g)
      /\ \A x : Unplaced(ck, x) <=> Unplaced(bk, x)
  BY <1>1, LaidOut
<1>3. \A i \in 1..Len(<<>>) : FALSE
  OBVIOUS
<1>4. Shaped(ck, <<>>, fn)
  BY <1>2, <1>3 DEF Shaped
<1> QED
  BY <1>2, <1>4 DEF ck

LEMMA FunctionShaped ==
  ASSUME IInv, BInv, WInv, NEW fn \in ProgramFunctions, VisitFunction(fn)
  PROVE  WInv'
<1> DEFINE blk == IF fn = "main" THEN MainBody ELSE HelperEntry
<1>1. /\ phase = "global" /\ b' = SetInsertPoint(b, blk) /\ frames' = frames
      /\ initPoint' = b.insert /\ inMain' = (fn = "main") /\ phase' = "body"
      /\ lastBodyBlock' = lastBodyBlock
  BY DEF VisitFunction
<1>2. /\ BuilderOK(b) /\ Sound(b) /\ b.insert \in Of(b, "main") /\ frames = <<>> /\ Homes
      /\ \A x : Unplaced(b, x) <=> x \in StageWait
  BY <1>1, Between
<1>3. blk \in Of(b, fn) /\ Cur' = fn
  <2>1. CASE fn = "main"
    BY <1>1, <1>2, <2>1 DEF Homes, Cur
  <2>2. CASE fn # "main"
    <3>1. fn = "helper" /\ HelperFunctions
      BY <2>2 DEF ProgramFunctions, FunctionNames
    <3> QED
      BY <1>1, <1>2, <2>2, <3>1 DEF Homes, Cur
  <2> QED
    BY <2>1, <2>2
<1> HIDE DEF blk
<1>4. Shaped(b', <<>>, fn) /\ \A g : \A x \in Of(b, g) : x \in Of(b', g)
  BY <1>1, <1>2, <1>3, MovedShaped
<1>5. Homes'
  BY <1>1, <1>2, <1>4 DEF Homes, StageWait, MainBody, HelperEntry
<1>6. Shaped(b', frames', Cur')
  BY <1>1, <1>2, <1>3, <1>4
<1> QED
  BY <1>1, <1>5, <1>6 DEF WInv

LEMMA EndFunctionShaped ==
  ASSUME IInv, BInv, WInv, EndFunction
  PROVE  WInv'
<1> DEFINE left == IF inMain THEN b ELSE LeaveFunction(b, FALSE)
           fn   == Cur
<1>1. /\ phase = "body" /\ frames = <<>> /\ phase' = "global" /\ inMain' = FALSE
      /\ initPoint' = initPoint /\ frames' = frames
      /\ lastBodyBlock' = IF inMain THEN b.insert ELSE lastBodyBlock
      /\ b' = SetInsertPoint(left, initPoint)
  BY DEF EndFunction
<1>2. /\ BuilderOK(b) /\ Sound(b) /\ b.insert \in Of(b, fn) /\ Shaped(b, <<>>, fn)
      /\ Homes /\ inMain \in BOOLEAN
  BY <1>1, Walking
<1>3. \A x : Unplaced(b, x) <=> x \in StageWait
  <2>1. \A i \in 1..Len(<<>>) : FALSE
    OBVIOUS
  <2> QED
    BY <1>2, <2>1 DEF Shaped
<1>4. inMain => fn = "main"
  BY DEF Cur
<1> HIDE DEF fn
<1>5. Plain(b, left, fn)
  BY <1>2, LeaveFunctionLays, PlainReflexive
<1> HIDE DEF left
<1>6. /\ BuilderOK(left) /\ Sound(left) /\ \A g : \A x \in Of(b, g) : x \in Of(left, g)
      /\ \A x : Unplaced(left, x) <=> x \in StageWait
  <2>1. LaysOut(b, left, fn, {}, {})
    BY <1>5 DEF Plain
  <2> QED
    BY <1>3, <2>1, LaidOut
<1>7. initPoint \in Of(left, "main")
  BY <1>2, <1>6 DEF Homes
<1>8. /\ Shaped(b', <<>>, "main") /\ \A g : \A x \in Of(left, g) : x \in Of(b', g)
  BY <1>1, <1>6, <1>7, MovedShaped
<1>9. \A g : \A x \in Of(b, g) : x \in Of(b', g)
  BY <1>6, <1>8
<1>10. lastBodyBlock' \in Of(b', "main")
  BY <1>1, <1>2, <1>4, <1>9 DEF Homes
<1>11. Homes'
  BY <1>1, <1>2, <1>9, <1>10 DEF Homes, StageWait, MainBody, HelperEntry
<1>12. Cur' = "main" /\ Shaped(b', frames', Cur')
  BY <1>1, <1>8 DEF Cur
<1> QED
  BY <1>1, <1>11, <1>12 DEF WInv

-----------------------------------------------------------------------------
(* The finished unit. *)

(* With no block unplaced or open, a sound builder's blocks are well built. *)
LEMMA AllPlaced ==
  ASSUME NEW bk, BuilderOK(bk), Sound(bk), \A x : ~ Unplaced(bk, x),
         \A x \in Ids(bk) : ~ Open(bk, x), NEW i \in Ids(bk)
  PROVE  /\ Cardinality({k \in DOMAIN bk.layout : bk.layout[k] = i}) = 1
         /\ bk.blocks[i].term.kind \notin {"none", "double"}
         /\ \A k \in DOMAIN bk.blocks[i].term.to :
              bk.blocks[bk.blocks[i].term.to[k]].fn = bk.blocks[i].fn
<1>1. DOMAIN bk.layout = 1..Len(bk.layout)
  BY DEF BuilderOK, BuilderType
<1>2. PICK j \in 1..Len(bk.layout) : bk.layout[j] = i
  BY DEF Unplaced
<1>3. \A k \in 1..Len(bk.layout) : bk.layout[k] = i => k = j
  BY <1>2 DEF Sound
<1>4. {k \in DOMAIN bk.layout : bk.layout[k] = i} = {j}
  BY <1>1, <1>2, <1>3
<1>5. Cardinality({j}) = 1
  BY FS_Singleton
<1>6. bk.blocks[i].term.kind \notin {"none", "double"}
  BY DEF Sound, Open
<1>7. \A k \in DOMAIN bk.blocks[i].term.to :
        bk.blocks[bk.blocks[i].term.to[k]].fn = bk.blocks[i].fn
  BY DEF Sound, JumpsIn, Of
<1> QED
  BY <1>4, <1>5, <1>6, <1>7

LEMMA FinishShaped ==
  ASSUME IInv, BInv, WInv, Finish
  PROVE  WInv'
<1> DEFINE first == SetInsertPoint(b, initPoint)
           entry == Terminate(first, Br(MainBody))
           last  == SetInsertPoint(entry, lastBodyBlock)
           T     == {b.insert, lastBodyBlock, 1, 2}
<1>1. /\ phase = "global" /\ \A fn \in ProgramFunctions : Visited(fn)
      /\ phase' = "built" /\ text' = text /\ b' = LeaveFunction(last, TRUE)
  BY DEF Finish
<1>2. TrailingFlow' <=> TrailingFlow
  BY <1>1 DEF TrailingFlow
<1> SUFFICES ASSUME ~ TrailingFlow
             PROVE  /\ BuilderOK(b') /\ Sound(b') /\ \A x : ~ Unplaced(b', x)
                    /\ \A x \in Ids(b') : ~ Open(b', x)
  <2> SUFFICES WellBuilt'
    BY <1>1 DEF WInv
  <2> SUFFICES ASSUME ~ TrailingFlow, NEW i \in Ids(b')
      PROVE  /\ Cardinality({k \in DOMAIN b'.layout : b'.layout[k] = i}) = 1
             /\ b'.blocks[i].term.kind \notin {"none", "double"}
             /\ \A k \in DOMAIN b'.blocks[i].term.to :
                  b'.blocks[b'.blocks[i].term.to[k]].fn = b'.blocks[i].fn
    BY <1>2 DEF WellBuilt, BlockIds, Ids
  <2> QED
    BY AllPlaced
<1>3. /\ initPoint = b.insert /\ Open(b, b.insert) /\ b.stageEpilogue = 1 /\ b.stageExit = 2
      /\ \A x \in Ids(b) : Open(b, x) => x = b.insert \/ x \in Outside
      /\ \A x \in Outside : x \in Ids(b) /\ x # b.insert
      /\ Open(b, 1) /\ Open(b, 2) /\ OutsideApart
  BY <1>1, Globally DEF StageWait
<1>4. /\ StageWait = {1, 2} /\ MainWait = {lastBodyBlock} /\ HelperWait = {} /\ InitWait = {}
  <2>1. Visited("main") /\ (HelperFunctions => Visited("helper"))
    BY <1>1 DEF ProgramFunctions, FunctionNames
  <2> QED
    BY <1>1, <2>1 DEF StageWait, MainWait, HelperWait, InitWait
<1>5. /\ \A x : x \in Outside <=> x \in {1, 2, lastBodyBlock}
      /\ lastBodyBlock \notin {1, 2}
  BY <1>3, <1>4 DEF Outside, OutsideApart
<1>6. /\ BuilderOK(b) /\ Sound(b) /\ b.insert \in Of(b, "main") /\ Homes
      /\ \A x : Unplaced(b, x) <=> x \in {1, 2}
  BY <1>1, <1>4, Between
<1>7. initPoint \in Of(b, "main")
  BY <1>6 DEF Homes
<1>8. /\ Plain(b, first, "main") /\ Touches(b, first, {}, {}) /\ first.insert = initPoint
      /\ first.blocks = b.blocks
  <2>1. initPoint \in Ids(b)
    BY <1>7 DEF Of
  <2> QED
    BY <1>6, <1>7, <2>1, SetInsertLays, SetInsertTouches
<1> HIDE DEF first
<1>9. /\ BuilderOK(first) /\ Sound(first) /\ first.insert \in Of(first, "main")
      /\ MainBody \in Of(first, "main") /\ Open(first, first.insert)
  <2>1. LaysOut(b, first, "main", {}, {})
    BY <1>8 DEF Plain
  <2>2. MainBody \in Of(b, "main")
    BY <1>6 DEF Homes
  <2> QED
    BY <1>3, <1>8, <2>1, <2>2, LaidOut DEF Open
<1>10. /\ Br(MainBody) \in TermType(Len(first.blocks))
       /\ Br(MainBody).kind \notin {"none", "double"} /\ JumpsIn(first, Br(MainBody), "main")
  BY <1>9, BrJumps
<1>11. Plain(first, entry, "main") /\ Touches(first, entry, {initPoint}, {})
  <2>1. Br(MainBody).kind # "none"
    BY <1>10
  <2> QED
    BY <1>8, <1>9, <1>10, <2>1, TerminateLays, TerminateTouches
<1> HIDE DEF entry
<1>12. Plain(b, entry, "main") /\ Touches(b, entry, {initPoint}, {})
  <2>1. Plain(b, entry, "main")
    BY <1>8, <1>11, PlainThen DEF Plain
  <2>2. Touches(b, entry, {initPoint}, {})
    BY <1>8, <1>11, TouchesThen
  <2> QED
    BY <2>1, <2>2
<1>13. BuilderOK(entry) /\ Sound(entry) /\ lastBodyBlock \in Of(entry, "main")
  <2>1. LaysOut(b, entry, "main", {}, {})
    BY <1>12 DEF Plain
  <2>2. lastBodyBlock \in Of(b, "main")
    BY <1>6 DEF Homes
  <2> QED
    BY <2>1, <2>2, LaidOut
<1>14. Plain(entry, last, "main") /\ Touches(entry, last, {}, {}) /\ last.insert = lastBodyBlock
  <2>1. lastBodyBlock \in Ids(entry)
    BY <1>13 DEF Of
  <2> QED
    BY <1>13, <2>1, SetInsertLays, SetInsertTouches
<1> HIDE DEF last
<1>15. Plain(b, last, "main") /\ Touches(b, last, {initPoint}, {})
  <2>1. Plain(b, last, "main")
    BY <1>12, <1>14, PlainThen DEF Plain
  <2>2. Touches(b, last, {initPoint}, {})
    BY <1>12, <1>14, TouchesThen
  <2> QED
    BY <2>1, <2>2
<1>16. /\ BuilderOK(last) /\ Sound(last) /\ last.insert \in Of(last, "main")
       /\ 1 \in Of(last, "main") /\ 2 \in Of(last, "main")
       /\ Unplaced(last, 1) /\ Unplaced(last, 2)
  <2>1. LaysOut(b, last, "main", {}, {})
    BY <1>15 DEF Plain
  <2>2. 1 \in Of(b, "main") /\ 2 \in Of(b, "main") /\ Unplaced(b, 1) /\ Unplaced(b, 2)
    BY <1>4, <1>6 DEF Homes
  <2> QED
    BY <2>1, <2>2, LaidOut
<1>17. /\ last.stageEpilogue = 1 /\ last.stageExit = 2 /\ Open(last, 1) /\ Open(last, 2)
  <2>1. /\ 1 \in Ids(b) /\ 2 \in Ids(b) /\ 1 \notin {initPoint} /\ 2 \notin {initPoint}
    BY <1>3, <1>5
  <2>2. last.blocks[1] = b.blocks[1] /\ last.blocks[2] = b.blocks[2]
    BY <1>15, <2>1, TouchedOK
  <2> QED
    BY <1>3, <1>15, <2>2, TouchedOK DEF Open
<1>18. LaysOut(last, b', "main", {}, {1, 2})
  <2>1. last.insert \notin {last.stageEpilogue, last.stageExit}
    BY <1>5, <1>14, <1>17
  <2>2. last.stageEpilogue # last.stageExit
    BY <1>17
  <2>3. LaysOut(last, LeaveFunction(last, TRUE), "main", {},
                {last.stageEpilogue, last.stageExit})
    BY <1>16, <1>17, <2>1, <2>2, LeaveFunctionLays
  <2> QED
    BY <1>1, <1>17, <2>3
<1>19. LaysOut(b, b', "main", {}, {1, 2})
  BY <1>15, <1>18, PlainThen
<1>20. /\ BuilderOK(b') /\ Sound(b') /\ \A x : ~ Unplaced(b', x)
  BY <1>6, <1>19, LaidOut
<1>21. Touches(last, b', {lastBodyBlock, 1, 2}, {})
  BY <1>1, <1>14, <1>16, <1>17, LeaveFunctionTouches
<1>22. Touches(b, b', T, {})
  <2>1. /\ {initPoint} \subseteq T
        /\ \A i \in {lastBodyBlock, 1, 2} : i \in Ids(b) => i \in T
        /\ T \subseteq {initPoint} \cup {lastBodyBlock, 1, 2}
        /\ \A i \in {} : i \in {lastBodyBlock, 1, 2} \/ i \in {}
        /\ {} \subseteq {}
    BY <1>3
  <2> QED
    BY <1>15, <1>21, <2>1, TouchesThen
<1>23. \A x \in Ids(b) : Open(b, x) => x \in T
  BY <1>3, <1>5
<1> HIDE DEF T
<1>24. \A x \in Ids(b') : ~ Open(b', x)
  BY <1>22, <1>23, TouchedOK
<1> QED
  BY <1>20, <1>24

-----------------------------------------------------------------------------
(* The constructor. *)

(* A function's first block, made from outside the function. *)
LEMMA CreateInSound ==
  ASSUME NEW bk, BuilderOK(bk), Sound(bk), NEW fn \in FunctionNames, NEW name \in BlockNames
  PROVE  LET c == CreateIn(bk, name, fn)
         IN  /\ BuilderOK(c) /\ Sound(c) /\ Next1(bk) \in Of(c, fn)
             /\ \A g : \A i \in Of(bk, g) : i \in Of(c, g)
             /\ \A i : Unplaced(c, i) <=> Unplaced(bk, i)
<1> DEFINE c == CreateIn(bk, name, fn)
           n == Next1(bk)
           k == Len(bk.blocks)
<1>1. /\ Touches(bk, c, {}, {n}) /\ c.layout = Append(bk.layout, n)
      /\ Len(c.blocks) = n /\ c.blocks[n] = NewBlock(name, fn) /\ n \in Ids(c)
  BY CreateInTouches
<1>2. n = k + 1 /\ k \in Nat
  BY LenNat DEF Next1
<1> HIDE DEF c, n
<1>3. BuilderOK(c) /\ \A i \in Ids(bk) : i \in Ids(c) /\ c.blocks[i] = bk.blocks[i]
  BY <1>1, TouchedOK
<1>4. \A i \in Ids(c) : i \in Ids(bk) \/ i = n
  BY <1>1, <1>2 DEF Ids
<1>5. n \in Of(c, fn) /\ \A g : \A i \in Of(bk, g) : i \in Of(c, g)
  BY <1>1, <1>3 DEF Of, NewBlock
<1>6. bk.layout \in Seq(1..k)
  BY DEF BuilderOK, BuilderType
<1>7. Behind(k, 1, bk.layout, c.layout)
  BY <1>1, <1>2, <1>6 DEF Behind
<1>8. /\ NoneTwice(bk.layout) => NoneTwice(c.layout)
      /\ \A i : Missing(c.layout, i) <=> i \notin (k + 1)..(k + 1) /\ Missing(bk.layout, i)
  BY <1>2, <1>7, LaidBehind
<1>9. \A i : Unplaced(c, i) <=> Unplaced(bk, i)
  <2>1. \A i : i \in Ids(bk) <=> i \in Ids(c) /\ i \notin (k + 1)..(k + 1)
    BY <1>1, <1>2 DEF Ids
  <2>2. \A i : Unplaced(c, i) <=> i \in Ids(c) /\ Missing(c.layout, i)
    BY DEF Unplaced, Missing
  <2>3. \A i : Unplaced(bk, i) <=> i \in Ids(bk) /\ Missing(bk.layout, i)
    BY DEF Unplaced, Missing
  <2> QED
    BY <1>8, <2>1, <2>2, <2>3
<1>10. /\ c.blocks[n].term.kind # "double" /\ JumpsIn(c, c.blocks[n].term, c.blocks[n].fn)
  BY <1>1 DEF NewBlock, NoTerm, Term, JumpsIn
<1>11. \A i \in Ids(bk) : /\ c.blocks[i].term.kind # "double"
                          /\ JumpsIn(c, c.blocks[i].term, c.blocks[i].fn)
  BY <1>3, <1>5 DEF Sound, JumpsIn
<1>12. NoneTwice(c.layout)
  BY <1>8 DEF Sound, NoneTwice
<1>13. Sound(c)
  BY <1>4, <1>10, <1>11, <1>12 DEF Sound, NoneTwice
<1> QED
  BY <1>3, <1>5, <1>9, <1>13 DEF c, n

LEMMA MainSound ==
  /\ Sound(MakeMain) /\ \A x : Unplaced(MakeMain, x) <=> x \in {1, 2}
  /\ \A x \in 1..3 : x \in Of(MakeMain, "main")
<1> DEFINE m == MakeMain
<1>1. /\ Len(m.blocks) = 3 /\ m.layout = <<3>>
      /\ \A i \in 1..3 : m.blocks[i].term = NoTerm /\ m.blocks[i].fn = "main"
  BY DEF MakeMain, NewBlock
<1>2. Ids(m) = 1..3
  BY <1>1 DEF Ids
<1>3. Len(m.layout) = 1 /\ m.layout[1] = 3 /\ 1..1 = {1}
  BY <1>1
<1> HIDE DEF m
<1>4. \A x \in 1..3 : x \in Of(m, "main")
  BY <1>1, <1>2 DEF Of
<1>5. \A i \in Ids(m) : /\ m.blocks[i].term.kind # "double"
                        /\ JumpsIn(m, m.blocks[i].term, m.blocks[i].fn)
  BY <1>1, <1>2 DEF NoTerm, Term, JumpsIn
<1>6. Sound(m)
  BY <1>3, <1>5 DEF Sound
<1>7. \A x : Unplaced(m, x) <=> x \in {1, 2}
  <2>1. \A x : Unplaced(m, x) <=> x \in Ids(m) /\ 3 # x
    BY <1>3 DEF Unplaced
  <2> QED
    BY <1>2, <2>1
<1> QED
  BY <1>4, <1>6, <1>7 DEF m

LEMMA InitiallyShaped == Init => WInv
<1> SUFFICES ASSUME Init PROVE WInv
  OBVIOUS
<1> DEFINE main == CreateIn(MakeMain, "mainBody", "main")
           all  == CreateIn(main, "entry", "helper")
<1>1. /\ b = IF HelperFunctions THEN all ELSE main
      /\ frames = <<>> /\ phase = "global" /\ initPoint = 3 /\ lastBodyBlock = 3
  BY DEF Init
<1>2. BuilderOK(MakeMain) /\ Next1(MakeMain) = 4 /\ MakeMain.insert = 3
  BY MainBuilt DEF Next1, MakeMain
<1>3. /\ "mainBody" \in BlockNames /\ "entry" \in BlockNames
      /\ "main" \in FunctionNames /\ "helper" \in FunctionNames
  BY DEF BlockNames, FunctionNames
<1>4. /\ BuilderOK(main) /\ Sound(main) /\ 4 \in Of(main, "main")
      /\ \A x \in Of(MakeMain, "main") : x \in Of(main, "main")
      /\ \A x : Unplaced(main, x) <=> Unplaced(MakeMain, x)
  BY <1>2, <1>3, MainSound, CreateInSound
<1>5. main.insert = 3 /\ Len(main.blocks) = 4
  BY ZenonT(60), <1>2, <1>3, OneMore
<1> HIDE DEF main
<1>6. Next1(main) = 5
  BY <1>5 DEF Next1
<1>7. /\ \A x \in 1..4 : x \in Of(main, "main")
      /\ \A x : Unplaced(main, x) <=> x \in {1, 2}
  <2>1. \A x \in 1..4 : x \in 1..3 \/ x = 4
    OBVIOUS
  <2> QED
    BY <1>4, <2>1, MainSound
<1>8. /\ BuilderOK(all) /\ Sound(all) /\ 5 \in Of(all, "helper")
      /\ \A x \in Of(main, "main") : x \in Of(all, "main")
      /\ \A x : Unplaced(all, x) <=> Unplaced(main, x)
  BY <1>3, <1>4, <1>6, CreateInSound
<1>9. all.insert = 3
  BY <1>3, <1>4, <1>5, CreateInTouches
<1> HIDE DEF all
<1>10. /\ Sound(b) /\ b.insert = 3 /\ \A x \in 1..4 : x \in Of(b, "main")
       /\ \A x : Unplaced(b, x) <=> x \in StageWait
       /\ HelperFunctions => 5 \in Of(b, "helper")
  BY <1>1, <1>4, <1>5, <1>7, <1>8, <1>9 DEF StageWait
<1>11. 1 \in 1..4 /\ 2 \in 1..4 /\ 3 \in 1..4 /\ 4 \in 1..4
  OBVIOUS
<1>12. Homes
  BY <1>1, <1>10, <1>11 DEF Homes, StageWait, MainBody, HelperEntry
<1>13. \A i \in 1..Len(<<>>) : FALSE
  OBVIOUS
<1>14. Cur = "main"
  BY <1>1 DEF Cur
<1>15. Shaped(b, <<>>, "main")
  BY <1>10, <1>11, <1>13 DEF Shaped
<1> QED
  BY <1>1, <1>12, <1>14, <1>15 DEF WInv

-----------------------------------------------------------------------------
(* Every step keeps the invariant. *)
LEMMA FinishedStays ==
  ASSUME IInv, BInv, WInv, UNCHANGED vars
  PROVE  WInv'
<1>1. /\ b' = b /\ frames' = frames /\ phase' = phase /\ inMain' = inMain
      /\ initPoint' = initPoint /\ lastBodyBlock' = lastBodyBlock /\ text' = text
  BY DEF vars, stacks, unit
<1>2. Cur' = Cur /\ (Homes' <=> Homes)
  BY <1>1 DEF Cur, Homes, StageWait, MainBody, HelperEntry
<1>3. WellBuilt' <=> WellBuilt
  BY <1>1 DEF WellBuilt, BlockIds, TrailingFlow
<1> QED
  BY <1>1, <1>2, <1>3 DEF WInv

LEMMA BuiltInductive ==
  ASSUME IInv, BInv, WInv, [Next]_vars
  PROVE  WInv'
<1>1. CASE VisitInitializer
  BY <1>1, InitializerShaped
<1>2. CASE VisitFlowInitializer
  BY <1>2, FlowInitializerShaped
<1>3. CASE \E fn \in ProgramFunctions : VisitFunction(fn)
  BY <1>3, FunctionShaped
<1>4. CASE EndFunction
  BY <1>4, EndFunctionShaped
<1>5. CASE Finish
  BY <1>5, FinishShaped
<1>6. CASE VisitStatement
  BY <1>6, StatementShaped
<1>7. CASE VisitDiscard
  BY <1>7, DiscardShaped
<1>8. CASE VisitBreak
  BY <1>8, BreakShaped
<1>9. CASE VisitContinue
  BY <1>9, ContinueShaped
<1>10. CASE VisitReturn
  BY <1>10, ReturnShaped
<1>11. CASE VisitIf
  BY <1>11, IfShaped
<1>12. CASE VisitElse
  BY <1>12, ElseShaped
<1>13. CASE EndIf
  BY <1>13, EndIfShaped
<1>14. CASE \E form \in LoopForms : VisitLoop(form)
  BY <1>14, LoopShaped
<1>15. CASE EndLoop
  BY <1>15, EndLoopShaped
<1>16. CASE \E body \in SwitchBodies : VisitSwitch(body)
  BY <1>16, SwitchShaped
<1>17. CASE NextSegment
  BY <1>17, NextSegmentShaped
<1>18. CASE EndOfSwitch
  BY <1>18, EndOfSwitchShaped
<1>19. CASE UNCHANGED vars
  BY <1>19, FinishedStays
<1> QED
  BY <1>1, <1>2, <1>3, <1>4, <1>5, <1>6, <1>7, <1>8, <1>9, <1>10, <1>11, <1>12, <1>13,
     <1>14, <1>15, <1>16, <1>17, <1>18, <1>19 DEF Next

(* leaveFunction, closeMain, the destructor: whatever the tree, in the     *)
(* finished unit every block made is placed exactly once, ends exactly     *)
(* once, and branches only inside its function.                            *)
THEOREM WellBuiltCorrect == Spec => []WellBuilt
<1>1. Init => WInv
  BY InitiallyShaped
<1>2. IInv /\ BInv /\ WInv /\ [Next]_vars => WInv'
  BY BuiltInductive
<1>3. WInv => WellBuilt
  BY DEF WInv, WellBuilt
<1>4. Spec => [](IInv /\ BInv)
  BY BlocksInvariance
<1> QED
  BY <1>1, <1>2, <1>3, <1>4, PTL DEF Spec
=============================================================================
