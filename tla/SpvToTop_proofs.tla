--------------------------- MODULE SpvToTop_proofs ---------------------------
(***************************************************************************)
(* Proofs about the SPIR-V front end, for every valid module: what an <id> *)
(* stands for is made once, whichever of its uses and its definition comes *)
(* first, and no block is touched after its end.                           *)
(***************************************************************************)
EXTENDS SpvToTop, FiniteSetTheorems, SequenceTheorems, TLAPS

-----------------------------------------------------------------------------
(* The builder's types; its stacks are not used here. *)
EventType == [what : {"stmt", "call", "discard", "copyOut"}, at : Nat]
TermType  == [kind : TermKinds, to : Seq(Nat), at : Nat]
BlockType == [name : BlockNames \union {"L"}, fn : Ids \union {NoFunction}, term : TermType,
              code : Seq(EventType)]
BuilderType ==
  [blocks : Seq(BlockType), layout : Seq(Nat), insert : Nat, loops : {<<>>},
   switches : {<<>>}, stageEpilogue : Nat, stageExit : Nat]

Made(c)    == 1..Len(c.blocks)
Open(c, i) == i \in Made(c) /\ c.blocks[i].term.kind = "none"

(* From c to d only open blocks of T change, and those made are open. *)
Changes(c, d, T) ==
  /\ c \in BuilderType /\ d \in BuilderType /\ Len(c.blocks) <= Len(d.blocks)
  /\ \A i \in Made(c) : i \notin T \/ ~ Open(c, i) => d.blocks[i] = c.blocks[i]
  /\ \A i \in Made(d) : i \notin Made(c) => Open(d, i)

SameStage(c, d) == d.stageEpilogue = c.stageEpilogue /\ d.stageExit = c.stageExit

LEMMA BuilderFields ==
  ASSUME NEW c \in BuilderType
  PROVE  /\ c.blocks \in Seq(BlockType) /\ Len(c.blocks) \in Nat
         /\ DOMAIN c.blocks = 1..Len(c.blocks) /\ c.layout \in Seq(Nat)
         /\ c.insert \in Nat /\ c.stageEpilogue \in Nat /\ c.stageExit \in Nat
         /\ \A i \in Made(c) : c.blocks[i] \in BlockType
BY DEF BuilderType, Made

LEMMA ChangesFacts ==
  ASSUME NEW c, NEW d, NEW T, Changes(c, d, T)
  PROVE  /\ c \in BuilderType /\ d \in BuilderType
         /\ Len(c.blocks) \in Nat /\ Len(d.blocks) \in Nat
         /\ Len(c.blocks) <= Len(d.blocks)
         /\ \A i \in Made(c) : i \in Made(d)
         /\ \A i \in Made(c) : i \notin T \/ ~ Open(c, i) => d.blocks[i] = c.blocks[i]
         /\ \A i : Open(c, i) /\ i \notin T => Open(d, i)
<1>1. /\ c \in BuilderType /\ d \in BuilderType
      /\ Len(c.blocks) \in Nat /\ Len(d.blocks) \in Nat
      /\ Len(c.blocks) <= Len(d.blocks)
  BY BuilderFields DEF Changes
<1>2. \A i \in Made(c) : i \in Made(d)
  BY <1>1 DEF Made
<1> QED
  BY <1>1, <1>2 DEF Changes, Open

LEMMA ChangesNothing ==
  ASSUME NEW c \in BuilderType, NEW T
  PROVE  Changes(c, c, T)
BY BuilderFields DEF Changes

LEMMA ChangesThen ==
  ASSUME NEW c, NEW d, NEW e, NEW T, NEW U, NEW V, Changes(c, d, T), Changes(d, e, U),
         \A i \in T : i \in V, \A i \in U : i \in V /\ i \in Made(c)
  PROVE  Changes(c, e, V)
<1>1. /\ c \in BuilderType /\ e \in BuilderType
      /\ Len(c.blocks) \in Nat /\ Len(d.blocks) \in Nat /\ Len(e.blocks) \in Nat
      /\ Len(c.blocks) <= Len(d.blocks) /\ Len(d.blocks) <= Len(e.blocks)
      /\ \A i \in Made(c) : i \in Made(d)
      /\ \A i \in Made(d) : i \in Made(e)
  BY ChangesFacts
<1>2. Len(c.blocks) <= Len(e.blocks)
  BY <1>1
<1>3. ASSUME NEW i \in Made(c), i \notin V \/ ~ Open(c, i)
      PROVE  e.blocks[i] = c.blocks[i]
  <2>1. i \in Made(d) /\ d.blocks[i] = c.blocks[i]
    BY <1>1, <1>3 DEF Changes
  <2>2. i \notin U \/ ~ Open(d, i)
    BY <1>3, <2>1 DEF Open
  <2> QED
    BY <2>1, <2>2 DEF Changes
<1>4. ASSUME NEW i \in Made(e), i \notin Made(c) PROVE Open(e, i)
  <2>1. CASE i \in Made(d)
    <3>1. Open(d, i) /\ i \notin U
      BY <1>4, <2>1 DEF Changes
    <3> QED
      BY <3>1, ChangesFacts
  <2>2. CASE i \notin Made(d)
    BY <1>4, <2>2 DEF Changes
  <2> QED
    BY <2>1, <2>2
<1> QED
  BY <1>1, <1>2, <1>3, <1>4 DEF Changes

-----------------------------------------------------------------------------
(* The primitives. *)

LEMMA NewBlockType ==
  ASSUME NEW name \in BlockNames \union {"L"}, NEW fn \in Ids \union {NoFunction}
  PROVE  NewBlock(name, fn) \in BlockType /\ NewBlock(name, fn).term.kind = "none"
<1>1. NoTerm \in TermType /\ NoTerm.kind = "none"
  BY DEF NoTerm, Term, TermType, TermKinds
<1>2. <<>> \in Seq(EventType)
  OBVIOUS
<1> QED
  BY <1>1, <1>2 DEF NewBlock, BlockType

LEMMA CreateChanges ==
  ASSUME NEW c \in BuilderType, NEW name \in BlockNames \union {"L"}, NEW fn \in Ids \union {NoFunction}
  PROVE  LET d == Create(c, name, fn)
         IN  /\ Changes(c, d, {}) /\ SameStage(c, d) /\ d.insert = c.insert
             /\ Len(d.blocks) = Len(c.blocks) + 1
             /\ d.layout = c.layout
<1> DEFINE d == Create(c, name, fn)
           B == NewBlock(name, fn)
           n == Len(c.blocks)
<1>1. B \in BlockType /\ B.term.kind = "none"
  BY NewBlockType
<1>2. n \in Nat /\ c.blocks \in Seq(BlockType)
  BY BuilderFields
<1> HIDE DEF B
<1>3. d = [c EXCEPT !.blocks = Append(c.blocks, B)]
  BY DEF Create, B
<1>a. Append(c.blocks, B) \in Seq(BlockType)
  BY <1>1, <1>2
<1>4. /\ d.blocks = Append(c.blocks, B) /\ d.layout = c.layout /\ d.insert = c.insert
      /\ SameStage(c, d) /\ d \in BuilderType
  <2> HIDE DEF BlockType, d
  <2> QED
    BY <1>a, <1>3 DEF BuilderType, SameStage
<1> HIDE DEF d
<1>5. /\ Len(d.blocks) = n + 1 /\ d.blocks[n + 1] = B
      /\ \A i \in 1..n : d.blocks[i] = c.blocks[i]
  BY <1>1, <1>2, <1>4
<1> HIDE DEF n
<1>6. \A i \in 1..(n + 1) : i \notin 1..n => i = n + 1
  BY <1>2
<1>7. n <= n + 1
  BY <1>2
<1>8. Changes(c, d, {})
  BY <1>1, <1>4, <1>5, <1>6, <1>7 DEF Changes, Made, Open, n
<1> QED
  BY <1>4, <1>5, <1>8 DEF d, n

LEMMA PushBackChanges ==
  ASSUME NEW c \in BuilderType, NEW blk \in Nat
  PROVE  LET d == PushBack(c, blk)
         IN  /\ Changes(c, d, {}) /\ SameStage(c, d) /\ d.insert = c.insert
             /\ d.blocks = c.blocks /\ d.layout = Append(c.layout, blk)
<1> DEFINE d == PushBack(c, blk)
<1>1. c.layout \in Seq(Nat) /\ Len(c.blocks) \in Nat
  BY BuilderFields
<1>2. d = [c EXCEPT !.layout = Append(c.layout, blk)]
  BY DEF PushBack
<1>a. Append(c.layout, blk) \in Seq(Nat)
  BY <1>1
<1>3. /\ d.blocks = c.blocks /\ d.layout = Append(c.layout, blk) /\ d.insert = c.insert
      /\ SameStage(c, d) /\ d \in BuilderType
  <2> HIDE DEF d
  <2> QED
    BY <1>a, <1>2 DEF BuilderType, SameStage
<1> HIDE DEF d
<1>4. Changes(c, d, {})
  BY <1>1, <1>3 DEF Changes, Made
<1> QED
  BY <1>3, <1>4 DEF d

LEMMA CreateInChanges ==
  ASSUME NEW c \in BuilderType, NEW name \in BlockNames \union {"L"}, NEW fn \in Ids \union {NoFunction}
  PROVE  LET d == CreateIn(c, name, fn)
         IN  /\ Changes(c, d, {}) /\ SameStage(c, d) /\ d.insert = c.insert
             /\ Len(d.blocks) = Len(c.blocks) + 1 /\ Next1(c) = Len(c.blocks) + 1
             /\ d.layout = Append(c.layout, Next1(c))
<1> DEFINE m == Create(c, name, fn)
           d == CreateIn(c, name, fn)
<1>1. /\ Changes(c, m, {}) /\ SameStage(c, m) /\ m.insert = c.insert
      /\ Len(m.blocks) = Len(c.blocks) + 1 /\ m.layout = c.layout
  BY CreateChanges
<1>2. d = PushBack(m, Next1(c)) /\ Next1(c) = Len(c.blocks) + 1
  BY DEF CreateIn, Next1
<1> HIDE DEF m, d
<1>3. Next1(c) \in Nat /\ m \in BuilderType
  BY <1>1, <1>2, BuilderFields DEF Changes
<1>4. /\ Changes(m, d, {}) /\ SameStage(m, d) /\ d.insert = m.insert
      /\ d.blocks = m.blocks /\ d.layout = Append(m.layout, Next1(c))
  BY <1>2, <1>3, PushBackChanges
<1>5. Changes(c, d, {})
  BY <1>1, <1>4, ChangesThen
<1> QED
  BY <1>1, <1>2, <1>4, <1>5 DEF SameStage, d

LEMMA SetInsertChanges ==
  ASSUME NEW c \in BuilderType, NEW blk \in Nat
  PROVE  LET d == SetInsertPoint(c, blk)
         IN  /\ Changes(c, d, {}) /\ SameStage(c, d) /\ d.insert = blk
             /\ d.blocks = c.blocks /\ d.layout = c.layout
<1> DEFINE d == SetInsertPoint(c, blk)
<1>1. d = [c EXCEPT !.insert = blk]
  BY DEF SetInsertPoint
<1>2. /\ d.blocks = c.blocks /\ d.layout = c.layout /\ d.insert = blk
      /\ SameStage(c, d) /\ d \in BuilderType
  BY <1>1 DEF BuilderType, SameStage
<1>3. Len(c.blocks) \in Nat
  BY BuilderFields
<1> HIDE DEF d
<1>4. Changes(c, d, {})
  BY <1>2, <1>3 DEF Changes, Made
<1> QED
  BY <1>2, <1>4 DEF d

(* An operation on the insert block. *)
LEMMA InsertChanged ==
  ASSUME NEW c \in BuilderType, Open(c, c.insert), NEW B \in BlockType
  PROVE  LET d == [c EXCEPT !.blocks[c.insert] = B]
         IN  /\ Changes(c, d, {c.insert}) /\ SameStage(c, d) /\ d.insert = c.insert
             /\ Len(d.blocks) = Len(c.blocks) /\ d.layout = c.layout
             /\ d.blocks[c.insert] = B
<1> DEFINE d == [c EXCEPT !.blocks[c.insert] = B]
           S == [c.blocks EXCEPT ![c.insert] = B]
<1>1. c.blocks \in Seq(BlockType) /\ Len(c.blocks) \in Nat /\ c.insert \in 1..Len(c.blocks)
  BY BuilderFields DEF Made, Open
<1>2. /\ S \in Seq(BlockType) /\ Len(S) = Len(c.blocks) /\ S[c.insert] = B
      /\ \A i \in 1..Len(c.blocks) : i # c.insert => S[i] = c.blocks[i]
  BY <1>1
<1>3. d = [c EXCEPT !.blocks = S]
  BY DEF BuilderType
<1> HIDE DEF S
<1>4. /\ d.blocks = S /\ d.layout = c.layout /\ d.insert = c.insert
      /\ SameStage(c, d) /\ d \in BuilderType
  BY <1>2, <1>3 DEF BuilderType, SameStage
<1> HIDE DEF d
<1>5. Changes(c, d, {c.insert})
  BY <1>1, <1>2, <1>4 DEF Changes, Made
<1> QED
  BY <1>2, <1>4, <1>5 DEF d

-----------------------------------------------------------------------------
(* Calls that work on the insert block. *)

Works(c, d) ==
  /\ Changes(c, d, {c.insert}) /\ SameStage(c, d)
  /\ d.insert = c.insert /\ Len(d.blocks) = Len(c.blocks)

LEMMA WorksNothing ==
  ASSUME NEW c \in BuilderType
  PROVE  Works(c, c)
BY ChangesNothing DEF Works, SameStage

LEMMA WorksThen ==
  ASSUME NEW c, NEW d, NEW e, Works(c, d), Works(d, e), c.insert \in Made(c)
  PROVE  Works(c, e)
<1>1. Changes(c, e, {c.insert})
  BY ChangesThen DEF Works
<1> QED
  BY <1>1 DEF Works, SameStage

LEMMA EmitWorks ==
  ASSUME NEW c \in BuilderType, Open(c, c.insert), NEW e \in EventType
  PROVE  Works(c, Emit(c, e)) /\ Open(Emit(c, e), c.insert)
<1> DEFINE d == Emit(c, e)
           B == [c.blocks[c.insert] EXCEPT !.code = Append(@, e)]
<1>1. c.blocks[c.insert] \in BlockType
  BY BuilderFields DEF Open
<1>2. Append(c.blocks[c.insert].code, e) \in Seq(EventType)
  BY <1>1 DEF BlockType
<1>3. B \in BlockType /\ B.term = c.blocks[c.insert].term
  BY <1>1, <1>2 DEF BlockType
<1>4. d = [c EXCEPT !.blocks[c.insert] = B]
  BY DEF Emit
<1> HIDE DEF B, d
<1>5. /\ Works(c, d) /\ d.blocks[c.insert] = B /\ c.insert \in Made(d)
  BY <1>3, <1>4, InsertChanged DEF Works, Made, Open
<1> QED
  BY <1>3, <1>5 DEF Open, d

LEMMA TerminateWorks ==
  ASSUME NEW c \in BuilderType, Open(c, c.insert), NEW t \in TermType
  PROVE  Works(c, Terminate(c, t)) /\ Terminate(c, t).blocks[c.insert].term = t
<1> DEFINE d == Terminate(c, t)
           B == [c.blocks[c.insert] EXCEPT !.term = t]
<1>1. c.blocks[c.insert] \in BlockType
  BY BuilderFields DEF Open
<1>3. B \in BlockType /\ B.term = t
  BY <1>1 DEF BlockType
<1>4. d = [c EXCEPT !.blocks[c.insert] = B]
  BY DEF Terminate, Terminated, HasTerminator, Open
<1> HIDE DEF B, d
<1>5. Works(c, d) /\ d.blocks[c.insert] = B
  BY <1>3, <1>4, InsertChanged DEF Works
<1> QED
  BY <1>3, <1>5 DEF d

LEMMA TermsType ==
  ASSUME NEW i \in Nat
  PROVE  Br(i) \in TermType /\ Ret \in TermType /\ Unreachable \in TermType
BY DEF Br, Ret, Unreachable, Term, TermType, TermKinds

LEMMA EventsType ==
  ASSUME NEW at \in Nat
  PROVE  /\ Event("stmt", at) \in EventType /\ Event("call", at) \in EventType
         /\ Event("discard", at) \in EventType /\ CopyOut \in EventType
BY DEF Event, EventType, CopyOut

LEMMA DiscardWorks ==
  ASSUME NEW c \in BuilderType, Open(c, c.insert), NEW main \in BOOLEAN
  PROVE  Works(c, Discard(c, main))
<1> DEFINE e == Emit(c, Event("discard", 0))
<1>1. Works(c, e) /\ Open(e, c.insert)
  <2>1. Event("discard", 0) \in EventType
    BY EventsType
  <2> QED
    BY <2>1, EmitWorks
<1>2. /\ ~ Terminated(c) /\ c.insert \in Made(c)
      /\ c.stageExit \in Nat
  BY BuilderFields DEF Terminated, HasTerminator, Open
<1>3. Discard(c, main) = IF main THEN Terminate(e, Br(c.stageExit)) ELSE e
  BY <1>2 DEF Discard
<1> HIDE DEF e
<1>4. e \in BuilderType /\ Open(e, e.insert) /\ Br(c.stageExit) \in TermType
  BY <1>1, <1>2, TermsType DEF Works, Changes
<1>5. Works(e, Terminate(e, Br(c.stageExit)))
  BY <1>4, TerminateWorks
<1> QED
  BY <1>1, <1>2, <1>3, <1>5, WorksThen

LEMMA MakeReturnWorks ==
  ASSUME NEW c \in BuilderType, c.insert \in Made(c), NEW main \in BOOLEAN
  PROVE  Works(c, MakeReturn(c, TRUE, main))
<1>1. CASE Terminated(c)
  BY <1>1, WorksNothing DEF MakeReturn
<1>2. CASE ~ Terminated(c)
  <2>1. Open(c, c.insert)
    BY <1>2 DEF Terminated, HasTerminator, Open
  <2> DEFINE t == IF main THEN Br(c.stageEpilogue) ELSE Ret
  <2>2. t \in TermType
    BY BuilderFields, TermsType
  <2>3. MakeReturn(c, TRUE, main) = Terminate(c, t)
    BY <1>2 DEF MakeReturn
  <2> HIDE DEF t
  <2> QED
    BY <2>1, <2>2, <2>3, TerminateWorks
<1> QED
  BY <1>1, <1>2

(* What leaveFunction does before closeMain. *)
Leave(c, main) ==
  IF Terminated(c) THEN c
  ELSE IF main /\ ~ InUnreachable(c) THEN MakeReturn(c, TRUE, TRUE)
  ELSE IF InUnreachable(c) THEN Terminate(c, Unreachable)
  ELSE MakeReturn(c, TRUE, FALSE)

LEMMA LeaveWorks ==
  ASSUME NEW c \in BuilderType, c.insert \in Made(c), NEW main \in BOOLEAN
  PROVE  Works(c, Leave(c, main))
<1>1. CASE Terminated(c)
  BY <1>1, WorksNothing DEF Leave
<1>2. CASE ~ Terminated(c)
  <2>1. Open(c, c.insert) /\ Unreachable \in TermType
    BY <1>2, TermsType DEF Terminated, HasTerminator, Open
  <2>2. Works(c, Terminate(c, Unreachable))
    BY <2>1, TerminateWorks
  <2>3. Works(c, MakeReturn(c, TRUE, TRUE)) /\ Works(c, MakeReturn(c, TRUE, FALSE))
    BY MakeReturnWorks
  <2> QED
    BY <1>2, <2>2, <2>3 DEF Leave
<1> QED
  BY <1>1, <1>2

(* Both stage blocks get their end; the insert point is left there. *)
LEMMA CloseMainChanges ==
  ASSUME NEW c \in BuilderType, Open(c, c.stageEpilogue), Open(c, c.stageExit),
         c.stageEpilogue # c.stageExit
  PROVE  LET d == CloseMain(c)
         IN  /\ Changes(c, d, {c.stageEpilogue, c.stageExit})
             /\ SameStage(c, d) /\ d.insert = c.stageExit
             /\ Len(d.blocks) = Len(c.blocks)
<1> DEFINE E == c.stageEpilogue
           X == c.stageExit
           V == {E, X}
           c1 == SetInsertPoint(c, E)
           c2 == Emit(c1, CopyOut)
           c3 == Terminate(c2, Br(X))
           c4 == SetInsertPoint(c3, X)
           c5 == Terminate(c4, Ret)
           c6 == PushBack(c5, E)
           d  == PushBack(c6, X)
<1>0. CloseMain(c) = d
  BY DEF CloseMain
<1>1. E \in Made(c) /\ X \in Made(c) /\ E \in Nat /\ X \in Nat /\ E # X
  BY BuilderFields DEF Open
<1>2. /\ CopyOut \in EventType /\ Br(X) \in TermType /\ Ret \in TermType
  BY <1>1, TermsType, EventsType
<1>3. /\ Changes(c, c1, {}) /\ SameStage(c, c1) /\ c1.insert = E /\ c1.blocks = c.blocks
  BY <1>1, SetInsertChanges
<1> HIDE DEF c1, c2, c3, c4, c5, c6, d, E, X
<1>4. Open(c1, c1.insert) /\ c1 \in BuilderType
  BY <1>3 DEF Open, Made, Changes, E
<1>5. Works(c1, c2) /\ Open(c2, c2.insert) /\ c2 \in BuilderType
  BY <1>2, <1>4, EmitWorks DEF c2, Works, Changes
<1>6. Works(c2, c3)
  BY <1>2, <1>5, TerminateWorks DEF c3
<1>7. Works(c1, c3)
  BY <1>4, <1>5, <1>6, WorksThen DEF Open
<1>8. Changes(c, c3, {E}) /\ Len(c3.blocks) = Len(c.blocks) /\ SameStage(c, c3)
  BY <1>1, <1>3, <1>7, ChangesThen DEF Works, SameStage
<1>9. Open(c3, X) /\ c3 \in BuilderType
  BY <1>1, <1>8, ChangesFacts DEF X
<1>10. /\ Changes(c3, c4, {}) /\ SameStage(c3, c4) /\ c4.insert = X
       /\ c4.blocks = c3.blocks
  BY <1>1, <1>9, SetInsertChanges DEF c4
<1>11. Open(c4, c4.insert) /\ c4 \in BuilderType
  BY <1>9, <1>10 DEF Open, Made, Changes
<1>12. Works(c4, c5) /\ c5 \in BuilderType
  BY <1>2, <1>11, TerminateWorks DEF c5, Works, Changes
<1>13. /\ Changes(c5, c6, {}) /\ SameStage(c5, c6) /\ c6.insert = c5.insert
       /\ c6.blocks = c5.blocks
  BY <1>1, <1>12, PushBackChanges DEF c6
<1>14. /\ Changes(c6, d, {}) /\ SameStage(c6, d) /\ d.insert = c6.insert
       /\ d.blocks = c6.blocks
  <2>1. c6 \in BuilderType
    BY <1>13 DEF Changes
  <2> QED
    BY <1>1, <2>1, PushBackChanges DEF d
<1>15. Changes(c5, d, {})
  BY <1>13, <1>14, ChangesThen
<1>16. /\ Len(c3.blocks) = Len(c.blocks) /\ Len(c4.blocks) = Len(c.blocks)
       /\ Len(c5.blocks) = Len(c.blocks) /\ Len(d.blocks) = Len(c.blocks)
  BY <1>8, <1>10, <1>12, <1>13, <1>14 DEF Works
<1>17. X \in Made(c) /\ X \in Made(c3) /\ X \in Made(c4)
  BY <1>1, <1>16 DEF Made
<1>18. Changes(c4, d, {X})
  BY <1>10, <1>12, <1>15, <1>17, ChangesThen DEF Works
<1>19. Changes(c3, d, {X})
  BY <1>10, <1>17, <1>18, ChangesThen
<1>20. Changes(c, d, V)
  BY <1>8, <1>17, <1>19, ChangesThen
<1>21. SameStage(c, d) /\ d.insert = X
  BY <1>8, <1>10, <1>12, <1>13, <1>14 DEF SameStage, Works
<1> QED
  BY <1>0, <1>16, <1>20, <1>21 DEF E, X

LEMMA LeaveFunctionChanges ==
  ASSUME NEW c \in BuilderType, c.insert \in Made(c), NEW main \in BOOLEAN,
         main => /\ Open(c, c.stageEpilogue) /\ Open(c, c.stageExit)
                 /\ c.stageEpilogue # c.stageExit
                 /\ c.insert \notin {c.stageEpilogue, c.stageExit}
  PROVE  LET d == LeaveFunction(c, main)
         IN  /\ Changes(c, d, {c.insert} \union
                                 (IF main THEN {c.stageEpilogue, c.stageExit} ELSE {}))
             /\ SameStage(c, d) /\ d.insert \in Made(d)
             /\ d.insert = IF main THEN c.stageExit ELSE c.insert
<1> DEFINE l == Leave(c, main)
           V == {c.insert} \union (IF main THEN {c.stageEpilogue, c.stageExit} ELSE {})
           d == LeaveFunction(c, main)
<1>1. Works(c, l) /\ l \in BuilderType
  BY LeaveWorks DEF Works, Changes
<1>2. d = IF main THEN CloseMain(l) ELSE l
  BY DEF LeaveFunction, Leave
<1> HIDE DEF l, d
<1>3. CASE ~ main
  <2>1. d = l /\ V = {c.insert}
    BY <1>2, <1>3
  <2>2. l.insert \in Made(l) /\ l.insert = c.insert
    BY <1>1 DEF Works, Made
  <2> HIDE DEF V
  <2> QED
    BY <1>1, <1>3, <2>1, <2>2 DEF Works, d, V
<1>4. CASE main
  <2>1. Open(l, c.stageEpilogue) /\ Open(l, c.stageExit)
    BY <1>1, <1>4, ChangesFacts DEF Works
  <2>2. l.stageEpilogue = c.stageEpilogue /\ l.stageExit = c.stageExit
    BY <1>1 DEF Works, SameStage
  <2>3. /\ Changes(l, d, {l.stageEpilogue, l.stageExit})
        /\ SameStage(l, d) /\ d.insert = l.stageExit /\ Len(d.blocks) = Len(l.blocks)
    BY <1>1, <1>2, <1>4, <2>1, <2>2, CloseMainChanges
  <2>4. c.stageEpilogue \in Made(c) /\ c.stageExit \in Made(c)
    BY <1>4 DEF Open
  <2>5. Changes(c, d, V)
    <3>1. /\ \A i \in {c.insert} : i \in V
          /\ \A i \in {l.stageEpilogue, l.stageExit} : i \in V /\ i \in Made(c)
      BY <1>4, <2>2, <2>4
    <3> HIDE DEF V
    <3> QED
      BY <1>1, <2>3, <3>1, ChangesThen DEF Works
  <2>6. d.insert \in Made(d) /\ SameStage(c, d) /\ d.insert = c.stageExit
    BY <1>1, <2>2, <2>3, <2>4 DEF Works, SameStage, Made
  <2> HIDE DEF V
  <2> QED
    BY <1>4, <2>5, <2>6 DEF V, d
<1> QED
  BY <1>3, <1>4

LEMMA MakeMainChanges ==
  ASSUME NEW c \in BuilderType, NEW fn \in Ids
  PROVE  LET d == MakeMainOf(c, fn)
             n == Len(c.blocks)
         IN  /\ Changes(c, d, {}) /\ d.insert = c.insert /\ Len(d.blocks) = n + 3
             /\ d.stageEpilogue = n + 1 /\ d.stageExit = n + 2
<1> DEFINE n  == Len(c.blocks)
           c1 == Create(c, "stage-epilogue", fn)
           c2 == Create(c1, "stage-exit", fn)
           c3 == [c2 EXCEPT !.stageEpilogue = n + 1, !.stageExit = n + 2]
           d  == CreateIn(c3, "entry", fn)
<1>1. n \in Nat /\ fn \in Ids \union {NoFunction}
  BY BuilderFields
<1>2. MakeMainOf(c, fn) = d
  BY <1>1 DEF MakeMainOf, MakeFunctionEntry, Next1
<1>3. {"stage-epilogue", "stage-exit", "entry"} \subseteq BlockNames \union {"L"}
  BY DEF BlockNames
<1>4. Changes(c, c1, {}) /\ c1.insert = c.insert /\ Len(c1.blocks) = n + 1
  BY <1>1, <1>3, CreateChanges
<1>5. c1 \in BuilderType
  BY <1>4 DEF Changes
<1> HIDE DEF c1
<1>6. Changes(c1, c2, {}) /\ c2.insert = c1.insert /\ Len(c2.blocks) = Len(c1.blocks) + 1
  BY <1>1, <1>3, <1>5, CreateChanges
<1>7. c2 \in BuilderType
  BY <1>6 DEF Changes
<1> HIDE DEF c2, n
<1>8. /\ c3.blocks = c2.blocks /\ c3.insert = c2.insert /\ c3 \in BuilderType
      /\ c3.stageEpilogue = n + 1 /\ c3.stageExit = n + 2
  <2>1. n + 1 \in Nat /\ n + 2 \in Nat
    BY <1>1
  <2> QED
    BY <1>7, <2>1 DEF BuilderType
<1> HIDE DEF c3
<1>9. Changes(c2, c3, {})
  BY <1>7, <1>8, BuilderFields DEF Changes, Made
<1>10. /\ Changes(c3, d, {}) /\ SameStage(c3, d) /\ d.insert = c3.insert
       /\ Len(d.blocks) = Len(c3.blocks) + 1
  BY <1>1, <1>3, <1>8, CreateInChanges
<1> HIDE DEF d
<1>11. Changes(c, c2, {})
  BY <1>4, <1>6, ChangesThen
<1>12. Changes(c, c3, {})
  BY <1>9, <1>11, ChangesThen
<1>13. Changes(c, d, {})
  BY <1>10, <1>12, ChangesThen
<1>14. Len(d.blocks) = n + 3
  BY <1>1, <1>4, <1>6, <1>8, <1>10
<1>15. /\ d.insert = c.insert /\ d.stageEpilogue = n + 1 /\ d.stageExit = n + 2
  BY <1>4, <1>6, <1>8, <1>10 DEF SameStage
<1> QED
  BY <1>2, <1>13, <1>14, <1>15 DEF n

-----------------------------------------------------------------------------
(* Labels. *)

LEMMA RankInjective ==
  ASSUME NEW n \in Nat, NEW seen \in SUBSET (1..n)
  PROVE  /\ Cardinality(seen) \in Nat
         /\ \A i \in seen : Rank(seen, i) \in 1..Cardinality(seen)
         /\ \A i, j \in seen : Rank(seen, i) = Rank(seen, j) => i = j
<1> DEFINE Upto(i) == {j \in seen : j <= i}
<1>1. IsFiniteSet(seen) /\ Cardinality(seen) \in Nat
  BY FS_Interval, FS_Subset, FS_CardinalityType, IsFiniteSet(1..n)
<1>2. ASSUME NEW i \in seen
      PROVE  /\ IsFiniteSet(Upto(i)) /\ Cardinality(Upto(i)) \in 1..Cardinality(seen)
             /\ i \in Upto(i) /\ Rank(seen, i) = Cardinality(Upto(i))
  <2>1. Upto(i) \subseteq seen /\ i \in Upto(i)
    BY <1>2
  <2>2. /\ IsFiniteSet(Upto(i)) /\ Cardinality(Upto(i)) <= Cardinality(seen)
    BY <1>1, <2>1, FS_Subset
  <2>3. Cardinality(Upto(i)) \in Nat /\ Cardinality(Upto(i)) # 0
    BY <2>1, <2>2, FS_CardinalityType, FS_EmptySet
  <2> HIDE DEF Upto
  <2>4. Cardinality(Upto(i)) \in 1..Cardinality(seen)
    BY <1>1, <2>2, <2>3
  <2> QED
    BY <2>1, <2>2, <2>4 DEF Rank, Upto
<1>3. ASSUME NEW i \in seen, NEW j \in seen, i < j
      PROVE  Rank(seen, i) # Rank(seen, j)
  <2>0. (\A k \in seen : k <= i => k <= j) /\ ~ (j <= i)
    BY <1>3
  <2>1. Upto(i) \subseteq Upto(j) /\ j \notin Upto(i)
    BY <2>0
  <2>2. Upto(i) # Upto(j)
    BY <1>2, <2>1
  <2> HIDE DEF Upto
  <2>3. Cardinality(Upto(i)) # Cardinality(Upto(j))
    BY <1>2, <2>1, <2>2, FS_Subset
  <2> QED
    BY <1>2, <2>3
<1>4. \A i, j \in seen : i = j \/ i < j \/ j < i
  OBVIOUS
<1> QED
  BY <1>1, <1>2, <1>3, <1>4

(* What an <id> stands for stays; what is new stands for blocks of its own. *)
NewIds(map, new) == {id \in Ids : map[id] = Nothing /\ new[id] # Nothing}
Extends(map, new, c, d) ==
  /\ new \in [Ids -> 0..Len(d.blocks)]
  /\ \A id \in Ids : map[id] # Nothing => new[id] = map[id]
  /\ \A id \in NewIds(map, new) : new[id] \in Made(d) /\ new[id] \notin Made(c)
  /\ \A i, j \in NewIds(map, new) : new[i] = new[j] => i = j

LEMMA LabelMapExtends ==
  ASSUME NEW c \in BuilderType, commonMap \in [Ids -> 0..Len(c.blocks)],
         NEW labels \in Seq(Ids), NEW d,
         Len(d.blocks) = Len(c.blocks) + Cardinality(FirstSeen(labels))
  PROVE  /\ Extends(commonMap, LabelMap(c, labels), c, d)
         /\ \A id \in NewIds(commonMap, LabelMap(c, labels)) :
              \E i \in DOMAIN labels : labels[i] = id
<1> DEFINE seen == FirstSeen(labels)
           at(id) == CHOOSE i \in seen : labels[i] = id
           n == Len(c.blocks)
           k == Cardinality(seen)
           new == LabelMap(c, labels)
           N == {id \in Ids : \E i \in seen : labels[i] = id}
<1>1. /\ n \in Nat /\ Len(labels) \in Nat /\ DOMAIN labels = 1..Len(labels)
      /\ seen \in SUBSET (1..Len(labels))
  BY BuilderFields DEF FirstSeen
<1>2. /\ k \in Nat /\ \A i \in seen : Rank(seen, i) \in 1..k
      /\ \A i, j \in seen : Rank(seen, i) = Rank(seen, j) => i = j
  BY <1>1, RankInjective
<1>3. \A i \in seen : commonMap[labels[i]] = Nothing /\ i \in DOMAIN labels
  BY DEF FirstSeen
<1>4. new = [id \in Ids |-> IF id \in N THEN n + Rank(seen, at(id)) ELSE commonMap[id]]
  BY DEF LabelMap
<1>5. \A id \in N : at(id) \in seen /\ labels[at(id)] = id
  OBVIOUS
<1> HIDE DEF seen, new, at
<1>6. \A id \in N : /\ id \in Ids /\ commonMap[id] = Nothing
                     /\ \E i \in DOMAIN labels : labels[i] = id
  BY <1>3
<1> HIDE DEF n, k, N
<1>7. \A id \in N : n + Rank(seen, at(id)) \in (n + 1)..(n + k)
  <2> SUFFICES ASSUME NEW id \in N PROVE n + Rank(seen, at(id)) \in (n + 1)..(n + k)
    OBVIOUS
  <2>1. Rank(seen, at(id)) \in 1..k
    BY <1>2, <1>5
  <2> QED
    BY <1>1, <1>2, <2>1
<1>8. Len(d.blocks) = n + k
  BY DEF n, k, seen
<1>9. new \in [Ids -> 0..Len(d.blocks)]
  <2> SUFFICES ASSUME NEW id \in Ids
               PROVE  (IF id \in N THEN n + Rank(seen, at(id)) ELSE commonMap[id])
                        \in 0..(n + k)
    BY <1>4, <1>8
  <2>1. \A x \in (n + 1)..(n + k) : x \in 0..(n + k)
    BY <1>1, <1>2
  <2>2. \A x \in 0..n : x \in 0..(n + k)
    BY <1>1, <1>2
  <2>3. commonMap[id] \in 0..n
    BY DEF n
  <2> QED
    BY <1>7, <2>1, <2>2, <2>3
<1>10. \A id \in Ids : id \notin N => new[id] = commonMap[id]
  BY <1>4
<1>11. \A id \in N : new[id] = n + Rank(seen, at(id)) /\ new[id] \in (n + 1)..(n + k)
  BY <1>4, <1>6, <1>7
<1>12. \A id \in NewIds(commonMap, new) : id \in N
  BY <1>10 DEF NewIds
<1>13. \A x \in (n + 1)..(n + k) : x \in Made(d) /\ x \notin Made(c)
  BY <1>1, <1>2, <1>8 DEF Made, n
<1>14. ASSUME NEW i \in N, NEW j \in N, new[i] = new[j] PROVE i = j
  <2>1. Rank(seen, at(i)) = Rank(seen, at(j))
    <3>1. /\ n + Rank(seen, at(i)) = n + Rank(seen, at(j))
          /\ Rank(seen, at(i)) \in 1..k /\ Rank(seen, at(j)) \in 1..k
      BY <1>2, <1>5, <1>11, <1>14
    <3> QED
      BY <1>1, <1>2, <3>1
  <2>2. at(i) = at(j)
    BY <1>2, <1>5, <2>1
  <2> QED
    BY <1>5, <2>2
<1>15. Extends(commonMap, new, c, d)
  BY <1>6, <1>9, <1>10, <1>11, <1>12, <1>13, <1>14 DEF Extends
<1> QED
  BY <1>6, <1>12, <1>15 DEF new

LEMMA Appended ==
  ASSUME NEW S, NEW s \in Seq(S), NEW t \in Seq(S)
  PROVE  /\ Len(s \o t) = Len(s) + Len(t)
         /\ \A i \in 1..Len(s) : (s \o t)[i] = s[i]
         /\ \A j \in 1..Len(t) : (s \o t)[Len(s) + j] = t[j]
<1>1. Len(s \o t) = Len(s) + Len(t)
  OBVIOUS
<1>2. \A i \in 1..Len(s) : (s \o t)[i] = s[i]
  OBVIOUS
<1>3. \A j \in 1..Len(t) : (s \o t)[Len(s) + j] = t[j]
  OBVIOUS
<1> QED
  BY <1>1, <1>2, <1>3

LEMMA MakeLabelBlocksChanges ==
  ASSUME NEW c \in BuilderType, commonMap \in [Ids -> 0..Len(c.blocks)],
         currentFunction \in Ids \union {NoFunction}, NEW labels \in Seq(Ids)
  PROVE  LET t == MakeLabelBlocks(c, labels)
         IN  /\ Changes(c, t.b, {}) /\ SameStage(c, t.b) /\ t.b.insert = c.insert
             /\ Extends(commonMap, t.map, c, t.b)
             /\ \A id \in NewIds(commonMap, t.map) : \E i \in DOMAIN labels : labels[i] = id
<1> DEFINE n == Len(c.blocks)
           k == Cardinality(FirstSeen(labels))
           B == NewBlock("L", currentFunction)
           more == [j \in 1..k |-> B]
           more2 == [j \in 1..k |-> n + j]
           d == MakeLabelBlocks(c, labels).b
<1>1. /\ n \in Nat /\ Len(labels) \in Nat
      /\ FirstSeen(labels) \in SUBSET (1..Len(labels))
      /\ c.blocks \in Seq(BlockType) /\ c.layout \in Seq(Nat)
  BY BuilderFields DEF FirstSeen
<1>2. k \in Nat
  BY <1>1, RankInjective
<1>3. B \in BlockType /\ B.term.kind = "none"
  BY NewBlockType
<1> HIDE DEF k, B
<1>4. more \in Seq(BlockType) /\ Len(more) = k /\ \A j \in 1..k : more[j] = B
  BY <1>2, <1>3
<1>5. more2 \in Seq(Nat)
  BY <1>1, <1>2 DEF n
<1>6. d = [c EXCEPT !.blocks = @ \o more, !.layout = @ \o more2]
  BY DEF MakeLabelBlocks, k, B
<1> HIDE DEF more, more2
<1>7. c.blocks \o more \in Seq(BlockType) /\ c.layout \o more2 \in Seq(Nat)
  BY <1>1, <1>4, <1>5
<1> HIDE DEF d
<1>8. /\ d.blocks = c.blocks \o more /\ SameStage(c, d) /\ d.insert = c.insert
      /\ d \in BuilderType
  <2> HIDE DEF BlockType
  <2> QED
    BY <1>6, <1>7 DEF BuilderType, SameStage
<1>9. /\ Len(d.blocks) = n + k
      /\ \A i \in 1..n : d.blocks[i] = c.blocks[i]
      /\ \A j \in 1..k : d.blocks[n + j] = B
  <2> DEFINE old == c.blocks
             r == old \o more
             S == BlockType
  <2>1. old \in Seq(S) /\ more \in Seq(S)
    BY <1>1, <1>4
  <2>2. n = Len(old) /\ d.blocks = r /\ c.blocks = old
    BY <1>8
  <2> HIDE DEF S, old, n
  <2>3. /\ Len(r) = Len(old) + Len(more)
        /\ \A i \in 1..Len(old) : r[i] = old[i]
        /\ \A j \in 1..Len(more) : r[Len(old) + j] = more[j]
    BY <2>1, Appended
  <2> HIDE DEF r
  <2> QED
    BY <1>4, <2>2, <2>3
<1>10. \A i \in Made(d) : i \notin Made(c) => i - n \in 1..k /\ i = n + (i - n)
  BY <1>1, <1>2, <1>9 DEF Made
<1>11. \A i \in Made(d) : i \notin Made(c) => d.blocks[i] = B
  BY <1>9, <1>10
<1>12. Changes(c, d, {})
  <2>1. Len(c.blocks) <= Len(d.blocks)
    BY <1>1, <1>2, <1>9
  <2> HIDE DEF n
  <2> QED
    BY <1>3, <1>8, <1>9, <1>11, <2>1 DEF Changes, Made, Open, n
<1>13. Len(d.blocks) = Len(c.blocks) + Cardinality(FirstSeen(labels))
  BY <1>9 DEF k
<1>14. MakeLabelBlocks(c, labels).map = LabelMap(c, labels)
  BY DEF MakeLabelBlocks
<1>15. /\ Extends(commonMap, LabelMap(c, labels), c, d)
       /\ \A id \in NewIds(commonMap, LabelMap(c, labels)) :
              \E i \in DOMAIN labels : labels[i] = id
  <2> HIDE DEF n
  <2> QED
    BY <1>13, LabelMapExtends
<1> QED
  BY <1>8, <1>12, <1>14, <1>15 DEF d

-----------------------------------------------------------------------------
(* Definitions that are still to be read, of <id>s that stand for a block   *)
(* already: their blocks wait, open, each for its own definition.          *)

EntryIds(m) == {m[w].id : w \in {v \in DOMAIN m : m[v].op = "entryPoint"}}
At(m, map, w) == map[m[w].id]
Pending(m, map, w) ==
  {v \in w..Len(m) : m[v].op \in Definitions /\ At(m, map, v) # Nothing}

PendingOK(m, map, w, c) ==
  /\ \A v \in Pending(m, map, w) : Open(c, At(m, map, v))
  /\ \A u, v \in Pending(m, map, w) : At(m, map, u) = At(m, map, v) => u = v
  /\ \A v \in Pending(m, map, w) : m[v].op = "label" /\ m[v - 1].op = "function" => v = w
  /\ \A v \in Pending(m, map, w) : m[v].op = "function" => m[v].id \notin EntryIds(m)

(* The block instructions go to. *)
InsertOK(m, map, w, c, fn) ==
  /\ \A v \in Pending(m, map, w) :
       At(m, map, v) = c.insert => v = w /\ m[v].op = "label"
  /\ w \in DOMAIN m =>
       /\ m[w].op \in {"function", "entryPoint"} => fn = NoFunction
       /\ m[w].op \notin {"function", "entryPoint"} => c.insert \in Made(c)
       /\ m[w].op \in InBlock => Open(c, c.insert)

(* Main's stage blocks wait for the end of main. *)
StageOK(m, map, w, c) ==
  /\ c.stageEpilogue # c.stageExit
  /\ \A i \in {c.stageEpilogue, c.stageExit} :
       /\ Open(c, i) /\ i # c.insert
       /\ \A v \in Pending(m, map, w) : At(m, map, v) # i

STypes ==
  /\ spirv \in Modules /\ word \in 1..(Len(spirv) + 1)
  /\ commonMap \in [Ids -> 0..Len(b.blocks)]
  /\ entryPoint \subseteq Ids /\ entryPoint \subseteq EntryIds(spirv)
  /\ currentFunction \in Ids \union {NoFunction}
  /\ b \in BuilderType /\ b.insert \in 0..Len(b.blocks)
  /\ phase \in {"translating", "translated", "unsupported"}
Running ==
  /\ PendingOK(spirv, commonMap, word, b)
  /\ InsertOK(spirv, commonMap, word, b, currentFunction)
  /\ currentFunction \in entryPoint => StageOK(spirv, commonMap, word, b)
SInv == STypes /\ (phase = "translating" => Running)

(* The body of Settled. *)
Keeps ==
  /\ \A blk \in DOMAIN b.blocks : HasTerminator(b, blk) => b'.blocks[blk] = b.blocks[blk]
  /\ \A id \in Ids : commonMap[id] # Nothing => commonMap'[id] = commonMap[id]

-----------------------------------------------------------------------------
(* What the module's grammar gives. *)

LEMMA ModuleValid ==
  ASSUME STypes
  PROVE  /\ Valid(spirv) /\ DOMAIN spirv = 1..Len(spirv) /\ Len(spirv) \in Nat
         /\ word \in Nat /\ word >= 1
         /\ word <= Len(spirv) => word \in DOMAIN spirv
<1>1. Valid(spirv)
  BY ModulesAssumption DEF STypes
<1>2. DOMAIN spirv = 1..Len(spirv) /\ Len(spirv) \in Nat
  BY <1>1 DEF Valid
<1> QED
  BY <1>1, <1>2 DEF STypes

LEMMA Fields ==
  ASSUME NEW m, Valid(m), NEW w \in DOMAIN m
  PROVE  /\ m[w].op \in Opcodes /\ m[w].labels \in Seq(Ids)
         /\ m[w].op \in Definitions \union {"entryPoint", "call"} => m[w].id \in Ids
<1>1. m[w] \in [op : Opcodes, id : Ids \union {0}, labels : Seq(Ids)]
  <2> DEFINE R == [op : Opcodes, id : Ids \union {0}, labels : Seq(Ids)]
  <2>1. m \in Seq(R)
    BY DEF Valid
  <2> HIDE DEF R
  <2>2. m[w] \in R
    BY <2>1
  <2> QED
    BY <2>2 DEF R
<1>2. m[w].op \in Definitions \union {"entryPoint", "call"} => m[w].id \in Ids
  BY DEF Valid
<1> QED
  BY <1>1, <1>2

LEMMA NextWord ==
  ASSUME NEW m, Valid(m), NEW w \in DOMAIN m
  PROVE  /\ w \in Nat /\ w >= 1 /\ w + 1 \in 1..(Len(m) + 1)
         /\ m[w].op \notin {"entryPoint", "functionEnd"} => w + 1 \in DOMAIN m
         /\ w + 1 \in DOMAIN m => m[w + 1].op \in Follows(m[w].op)
<1>1. DOMAIN m = 1..Len(m) /\ Len(m) \in Nat
  BY DEF Valid
<1>2. /\ w = Len(m) => m[w].op \in {"entryPoint", "functionEnd"}
      /\ w < Len(m) => m[w + 1].op \in Follows(m[w].op)
  BY DEF Valid
<1> HIDE DEF Follows
<1> QED
  BY <1>1, <1>2

LEMMA Following ==
  /\ Follows("entryPoint") = {"entryPoint", "function"}
  /\ Follows("functionEnd") = {"function"} /\ Follows("function") = {"label"}
  /\ \A op \in Terminators : Follows(op) = {"label", "functionEnd"}
  /\ \A op \in {"label", "stmt", "call", "phi"} : Follows(op) = InBlock
BY DEF Follows, Terminators, Branches

LEMMA Unique ==
  ASSUME NEW m, Valid(m), NEW v \in DOMAIN m, NEW w \in DOMAIN m, m[v].id = m[w].id,
         m[v].op \in Definitions
  PROVE  /\ m[w].op \in Definitions => v = w
         /\ m[w].op = "call" => m[v].op = "function" /\ m[v].id \notin EntryIds(m)
<1>1. m[w].op \in Definitions => v = w
  BY DEF Valid
<1>2. ASSUME m[w].op = "call" PROVE m[v].op = "function" /\ m[v].id \notin EntryIds(m)
  <2>1. m[v].op # "label"
    BY <1>2 DEF Valid
  <2>2. \A u \in DOMAIN m : m[u].op = "entryPoint" => m[u].id # m[w].id
    BY <1>2 DEF Valid
  <2> QED
    BY <2>1, <2>2 DEF EntryIds, Definitions
<1> QED
  BY <1>1, <1>2

LEMMA BranchTarget ==
  ASSUME NEW m, Valid(m), NEW w \in DOMAIN m, m[w].op \in Branches,
         NEW i \in DOMAIN m[w].labels, NEW v \in DOMAIN m,
         m[v].op \in Definitions, m[v].id = m[w].labels[i]
  PROVE  m[v].op = "label" /\ m[v - 1].op # "function"
<1>1. PICK u \in DOMAIN m : /\ m[u].op = "label" /\ m[u].id = m[w].labels[i]
                            /\ m[u - 1].op # "function"
  BY DEF Valid
<1>2. u = v
  BY <1>1, Unique DEF Definitions
<1> QED
  BY <1>1, <1>2

-----------------------------------------------------------------------------
(* Definitions wait on while a word is read. *)

FitsNew(m, map, new, w) ==
  \A v \in (w + 1)..Len(m) :
    m[v].op \in Definitions /\ m[v].id \in NewIds(map, new) =>
      /\ m[v].op = "label" /\ m[v - 1].op = "function" => v = w + 1
      /\ m[v].op = "function" => m[v].id \notin EntryIds(m)

LEMMA PendingIds ==
  ASSUME NEW m, Valid(m), NEW map, NEW w \in Nat, w >= 1, NEW v \in Pending(m, map, w)
  PROVE  /\ v \in DOMAIN m /\ m[v].id \in Ids /\ v \in w..Len(m)
         /\ m[v].op \in Definitions /\ map[m[v].id] # Nothing
<1>1. DOMAIN m = 1..Len(m) /\ Len(m) \in Nat
  BY DEF Valid
<1>2. v \in w..Len(m) /\ m[v].op \in Definitions /\ map[m[v].id] # Nothing
  BY DEF Pending, At
<1>3. v \in DOMAIN m
  BY <1>1, <1>2
<1> QED
  BY <1>2, <1>3, Fields

LEMMA PendingGoesOn ==
  ASSUME NEW m, Valid(m), NEW w \in DOMAIN m, NEW map, NEW new, NEW c, NEW d, NEW T,
         PendingOK(m, map, w, c), Extends(map, new, c, d), Changes(c, d, T),
         FitsNew(m, map, new, w),
         \A v \in Pending(m, map, w + 1) : At(m, map, v) \notin T
  PROVE  /\ PendingOK(m, new, w + 1, d)
         /\ \A v \in Pending(m, new, w + 1) :
              \/ /\ v \in Pending(m, map, w) /\ v # w /\ At(m, new, v) = At(m, map, v)
                 /\ At(m, map, v) \in Made(c)
              \/ At(m, new, v) \notin Made(c)
<1>0. w \in Nat /\ w >= 1 /\ w + 1 \in Nat /\ w + 1 >= 1 /\ Len(m) \in Nat
  BY NextWord DEF Valid
<1>1. ASSUME NEW v \in Pending(m, new, w + 1)
      PROVE  /\ v \in DOMAIN m /\ m[v].id \in Ids /\ v \in (w + 1)..Len(m) /\ v \in w..Len(m)
             /\ v # w /\ m[v].op \in Definitions /\ new[m[v].id] # Nothing
  <2>1. /\ v \in DOMAIN m /\ m[v].id \in Ids /\ v \in (w + 1)..Len(m)
        /\ m[v].op \in Definitions /\ new[m[v].id] # Nothing
    BY <1>0, <1>1, PendingIds
  <2> QED
    BY <1>0, <2>1
<1> DEFINE Old(v) == /\ v \in Pending(m, map, w) /\ v \in Pending(m, map, w + 1)
                     /\ At(m, new, v) = At(m, map, v) /\ Open(c, At(m, map, v))
           New(v) == /\ m[v].id \in NewIds(map, new) /\ Open(d, At(m, new, v))
                     /\ At(m, new, v) \notin Made(c)
<1>2. ASSUME NEW v \in Pending(m, new, w + 1) PROVE Old(v) \/ New(v)
  <2>1. CASE map[m[v].id] = Nothing
    <3>1. m[v].id \in NewIds(map, new)
      BY <1>1, <2>1 DEF NewIds
    <3>2. new[m[v].id] \in Made(d) /\ new[m[v].id] \notin Made(c)
      BY <3>1 DEF Extends
    <3> QED
      BY <3>1, <3>2 DEF Changes, At
  <2>2. CASE map[m[v].id] # Nothing
    <3>1. v \in Pending(m, map, w) /\ v \in Pending(m, map, w + 1)
      BY <1>1, <2>2 DEF Pending, At
    <3>2. new[m[v].id] = map[m[v].id]
      BY <1>1, <2>2 DEF Extends
    <3> QED
      BY <3>1, <3>2 DEF At, PendingOK
  <2> QED
    BY <2>1, <2>2
<1>3. \A v \in Pending(m, new, w + 1) : Open(d, At(m, new, v))
  <2> SUFFICES ASSUME NEW v \in Pending(m, new, w + 1) PROVE Open(d, At(m, new, v))
    OBVIOUS
  <2>1. CASE Old(v)
    BY <2>1, ChangesFacts
  <2> QED
    BY <1>2, <2>1
<1>4. ASSUME NEW u \in Pending(m, new, w + 1), NEW v \in Pending(m, new, w + 1),
             At(m, new, u) = At(m, new, v)
      PROVE  u = v
  <2>1. CASE Old(u) /\ Old(v)
    BY <1>4, <2>1 DEF PendingOK
  <2>2. CASE New(u) /\ New(v)
    <3>1. m[u].id = m[v].id
      BY <1>4, <2>2 DEF Extends, At
    <3> QED
      BY <1>1, <3>1, Unique
  <2>3. ~ (Old(u) /\ New(v)) /\ ~ (New(u) /\ Old(v))
    BY <1>4 DEF Open
  <2> QED
    BY <1>2, <2>1, <2>2, <2>3
<1>5. ASSUME NEW v \in Pending(m, new, w + 1)
      PROVE  /\ m[v].op = "label" /\ m[v - 1].op = "function" => v = w + 1
             /\ m[v].op = "function" => m[v].id \notin EntryIds(m)
  <2>1. CASE Old(v)
    BY <1>1, <2>1 DEF PendingOK
  <2>2. CASE New(v)
    BY <1>1, <2>2 DEF FitsNew
  <2> QED
    BY <1>2, <2>1, <2>2
<1>6. PendingOK(m, new, w + 1, d)
  <2> HIDE DEF Old, New
  <2> QED
    BY <1>3, <1>4, <1>5 DEF PendingOK
<1>7. \A v \in Pending(m, new, w + 1) :
              \/ /\ v \in Pending(m, map, w) /\ v # w /\ At(m, new, v) = At(m, map, v)
                 /\ At(m, map, v) \in Made(c)
              \/ At(m, new, v) \notin Made(c)
  BY <1>1, <1>2 DEF Open
<1> QED
  BY <1>6, <1>7

-----------------------------------------------------------------------------
(* A word that goes on in the current block or ends it. *)

LEMMA ChangesKeeps ==
  ASSUME NEW T, Changes(b, b', T),
         \A id \in Ids : commonMap[id] # Nothing => commonMap'[id] = commonMap[id]
  PROVE  Keeps
<1>1. \A i \in DOMAIN b.blocks : HasTerminator(b, i) => i \in Made(b) /\ ~ Open(b, i)
  <2>1. DOMAIN b.blocks = Made(b)
    BY BuilderFields DEF Changes, Made
  <2> QED
    BY <2>1 DEF HasTerminator, Open
<1> QED
  BY <1>1 DEF Keeps, Changes

LEMMA InsertGoesOn ==
  ASSUME NEW m, NEW w, NEW map, NEW new, NEW c, NEW d,
         c.insert \in Made(c), d.insert = c.insert,
         \A v \in Pending(m, map, w) : At(m, map, v) = c.insert => v = w,
         \A v \in Pending(m, new, w + 1) :
              \/ /\ v \in Pending(m, map, w) /\ v # w /\ At(m, new, v) = At(m, map, v)
                 /\ At(m, map, v) \in Made(c)
              \/ At(m, new, v) \notin Made(c)
  PROVE  \A v \in Pending(m, new, w + 1) : At(m, new, v) # d.insert
OBVIOUS

LEMMA StageGoesOn ==
  ASSUME NEW m, NEW w, NEW map, NEW new, NEW c, NEW d, NEW T,
         StageOK(m, map, w, c), Changes(c, d, T), SameStage(c, d),
         c.stageEpilogue \notin T, c.stageExit \notin T,
         d.insert \notin {c.stageEpilogue, c.stageExit},
         \A v \in Pending(m, new, w + 1) :
              \/ /\ v \in Pending(m, map, w) /\ v # w /\ At(m, new, v) = At(m, map, v)
                 /\ At(m, map, v) \in Made(c)
              \/ At(m, new, v) \notin Made(c)
  PROVE  StageOK(m, new, w + 1, d)
<1>1. \A i \in {c.stageEpilogue, c.stageExit} : Open(c, i) /\ i \in Made(c) /\ i \notin T
  BY DEF StageOK, Open
<1>2. \A i \in {c.stageEpilogue, c.stageExit} : Open(d, i)
  BY <1>1, ChangesFacts
<1>3. \A i \in {c.stageEpilogue, c.stageExit} : \A v \in Pending(m, new, w + 1) : At(m, new, v) # i
  BY <1>1 DEF StageOK
<1> QED
  BY <1>2, <1>3 DEF StageOK, SameStage

LEMMA InBlockStep ==
  ASSUME SInv, phase = "translating", word <= Len(spirv), spirv[word].op \in InBlock,
         Extends(commonMap, commonMap', b, b'), Changes(b, b', {b.insert}),
         SameStage(b, b'), b'.insert = b.insert,
         FitsNew(spirv, commonMap, commonMap', word),
         spirv[word].op \notin Terminators => Open(b', b.insert),
         word' = word + 1,
         UNCHANGED <<spirv, entryPoint, currentFunction, phase>>
  PROVE  SInv' /\ Keeps
<1> DEFINE w == word
           P == Pending(spirv, commonMap', w + 1)
<1>1. /\ Valid(spirv) /\ w \in DOMAIN spirv /\ w \in Nat /\ STypes /\ Running
  BY ModuleValid DEF SInv
<1>2. /\ w + 1 \in DOMAIN spirv /\ w + 1 \in 1..(Len(spirv) + 1)
      /\ spirv[w + 1].op \in Follows(spirv[w].op)
  BY <1>1, NextWord DEF InBlock, Terminators, Branches
<1>3. /\ PendingOK(spirv, commonMap, w, b)
      /\ InsertOK(spirv, commonMap, w, b, currentFunction)
      /\ currentFunction \in entryPoint => StageOK(spirv, commonMap, w, b)
  BY <1>1 DEF Running
<1>4. Open(b, b.insert) /\ b.insert \in Made(b)
  BY <1>1, <1>3 DEF InsertOK, Open
<1>5. \A v \in Pending(spirv, commonMap, w) : At(spirv, commonMap, v) # b.insert
  BY <1>3 DEF InsertOK, InBlock, Terminators, Branches
<1>6. \A v \in Pending(spirv, commonMap, w + 1) : v \in Pending(spirv, commonMap, w)
  BY <1>1 DEF Pending
<1>7. /\ PendingOK(spirv, commonMap', w + 1, b')
      /\ \A v \in P :
           \/ /\ v \in Pending(spirv, commonMap, w) /\ v # w
              /\ At(spirv, commonMap', v) = At(spirv, commonMap, v)
              /\ At(spirv, commonMap, v) \in Made(b)
           \/ At(spirv, commonMap', v) \notin Made(b)
  <2>1. \A v \in Pending(spirv, commonMap, w + 1) : At(spirv, commonMap, v) \notin {b.insert}
    BY <1>5, <1>6
  <2> QED
    BY <1>1, <1>3, <2>1, PendingGoesOn
<1> HIDE DEF w, P
<1>8. \A v \in P : At(spirv, commonMap', v) # b'.insert
  BY <1>4, <1>5, <1>7
<1>9. b'.insert \in Made(b') /\ b'.insert \in 0..Len(b'.blocks)
  <2>1. b'.insert \in Made(b')
    BY <1>4, ChangesFacts
  <2> QED
    BY <2>1, ChangesFacts DEF Made
<1>10. spirv[w + 1].op \notin {"function", "entryPoint"}
  BY <1>2, Following DEF InBlock, Terminators, Branches, w
<1>11. spirv[w + 1].op \in InBlock => spirv[w].op \notin Terminators
  BY <1>2, Following DEF InBlock, Terminators, Branches, w
<1>12. InsertOK(spirv, commonMap', w + 1, b', currentFunction)
  BY <1>8, <1>9, <1>10, <1>11 DEF InsertOK, P, w
<1>13. currentFunction \in entryPoint => StageOK(spirv, commonMap', w + 1, b')
  <2> SUFFICES ASSUME currentFunction \in entryPoint
               PROVE  StageOK(spirv, commonMap', w + 1, b')
    OBVIOUS
  <2>1. StageOK(spirv, commonMap, w, b)
    BY <1>3
  <2>2. b.stageEpilogue # b.insert /\ b.stageExit # b.insert
    BY <2>1 DEF StageOK
  <2> QED
    BY <1>7, <2>1, <2>2, StageGoesOn DEF P
<1>14. Running'
  BY <1>7, <1>12, <1>13 DEF Running, w
<1>15. STypes'
  BY <1>1, <1>2, <1>9 DEF STypes, Extends, Changes, w
<1>16. Keeps
  BY ChangesKeeps DEF Extends
<1> QED
  BY <1>14, <1>15, <1>16 DEF SInv

LEMMA SameMap ==
  ASSUME NEW d, NEW T, Changes(b, d, T), commonMap \in [Ids -> 0..Len(b.blocks)],
         NEW m, NEW w
  PROVE  Extends(commonMap, commonMap, b, d) /\ FitsNew(m, commonMap, commonMap, w)
<1>1. \A x \in 0..Len(b.blocks) : x \in 0..Len(d.blocks)
  BY ChangesFacts
<1>2. NewIds(commonMap, commonMap) = {}
  BY DEF NewIds
<1>3. commonMap \in [Ids -> 0..Len(d.blocks)]
  BY <1>1
<1> QED
  BY <1>2, <1>3 DEF Extends, FitsNew

LEMMA SameLengths ==
  ASSUME NEW map, NEW new, NEW c, NEW d, NEW c2, NEW d2, Extends(map, new, c, d),
         Len(c2.blocks) = Len(c.blocks), Len(d2.blocks) = Len(d.blocks)
  PROVE  Extends(map, new, c2, d2)
BY DEF Extends, Made

(* What a word in a block finds. *)
LEMMA ReadingBlock ==
  ASSUME SInv, phase = "translating", word <= Len(spirv), spirv[word].op \in InBlock
  PROVE  /\ Valid(spirv) /\ word \in DOMAIN spirv /\ word \in Nat
         /\ b \in BuilderType /\ Open(b, b.insert) /\ b.insert \in Made(b)
         /\ commonMap \in [Ids -> 0..Len(b.blocks)]
         /\ currentFunction \in Ids \union {NoFunction}
         /\ spirv[word].labels \in Seq(Ids)
<1>1. STypes /\ Running
  BY DEF SInv
<1>2. Valid(spirv) /\ word \in DOMAIN spirv /\ word \in Nat
  BY <1>1, ModuleValid
<1>3. Open(b, b.insert) /\ b.insert \in Made(b)
  BY <1>1, <1>2 DEF Running, InsertOK, Open
<1> QED
  BY <1>1, <1>2, <1>3, Fields DEF STypes

LEMMA StmtStep ==
  ASSUME SInv, OpInBlock
  PROVE  SInv' /\ Keeps
<1>1. /\ phase = "translating" /\ word <= Len(spirv) /\ spirv[word].op = "stmt"
      /\ word' = word + 1 /\ b' = Emit(b, Event("stmt", word)) /\ commonMap' = commonMap
      /\ UNCHANGED <<spirv, entryPoint, currentFunction, phase>>
  BY DEF OpInBlock, Reading, Instruction, GoOn
<1>2. spirv[word].op \in InBlock /\ spirv[word].op \notin Terminators
  BY <1>1 DEF InBlock, Terminators, Branches
<1>3. /\ b \in BuilderType /\ Open(b, b.insert) /\ word \in Nat
      /\ commonMap \in [Ids -> 0..Len(b.blocks)]
  BY <1>1, <1>2, ReadingBlock
<1>4. Works(b, b') /\ Open(b', b.insert)
  <2>1. Event("stmt", word) \in EventType
    BY <1>3, EventsType
  <2> QED
    BY <1>1, <1>3, <2>1, EmitWorks
<1>5. /\ Changes(b, b', {b.insert}) /\ SameStage(b, b') /\ b'.insert = b.insert
  BY <1>4 DEF Works
<1>6. /\ Extends(commonMap, commonMap', b, b')
      /\ FitsNew(spirv, commonMap, commonMap', word)
  BY <1>1, <1>3, <1>5, SameMap
<1> QED
  BY <1>1, <1>2, <1>4, <1>5, <1>6, InBlockStep

LEMMA CallStep ==
  ASSUME SInv, OpFunctionCall
  PROVE  SInv' /\ Keeps
<1> DEFINE fn == spirv[word].id
           e == MakeFunctionEntry(b, fn)
<1>1. /\ phase = "translating" /\ word <= Len(spirv) /\ spirv[word].op = "call"
      /\ word' = word + 1
      /\ UNCHANGED <<spirv, entryPoint, currentFunction, phase>>
  BY DEF OpFunctionCall, Reading, Instruction, GoOn
<1>2. spirv[word].op \in InBlock /\ spirv[word].op \notin Terminators
  BY <1>1 DEF InBlock, Terminators, Branches
<1>3. /\ b \in BuilderType /\ Open(b, b.insert) /\ word \in Nat
      /\ commonMap \in [Ids -> 0..Len(b.blocks)]
      /\ Valid(spirv) /\ word \in DOMAIN spirv
  BY <1>1, <1>2, ReadingBlock
<1>4. fn \in Ids
  BY <1>1, <1>3, Fields
<1>5. \/ /\ commonMap[fn] # Nothing
         /\ b' = Emit(b, Event("call", commonMap[fn])) /\ commonMap' = commonMap
      \/ /\ commonMap[fn] = Nothing
         /\ commonMap' = [commonMap EXCEPT ![fn] = Next1(b)]
         /\ b' = Emit(e, Event("call", Next1(b)))
  BY DEF OpFunctionCall, Instruction
<1> HIDE DEF fn, e
<1>6. CASE /\ commonMap[fn] # Nothing
           /\ b' = Emit(b, Event("call", commonMap[fn])) /\ commonMap' = commonMap
  <2>1. Event("call", commonMap[fn]) \in EventType
    <3>1. commonMap[fn] \in Nat
      BY <1>3, <1>4, BuilderFields
    <3> QED
      BY <3>1, EventsType
  <2>2. Works(b, b') /\ Open(b', b.insert)
    BY <1>3, <1>6, <2>1, EmitWorks
  <2>3. /\ Changes(b, b', {b.insert}) /\ SameStage(b, b') /\ b'.insert = b.insert
    BY <2>2 DEF Works
  <2>4. /\ Extends(commonMap, commonMap', b, b')
        /\ FitsNew(spirv, commonMap, commonMap', word)
    BY <1>3, <1>6, <2>3, SameMap
  <2> QED
    BY <1>1, <1>2, <2>2, <2>3, <2>4, InBlockStep
<1>7. CASE /\ commonMap[fn] = Nothing
           /\ commonMap' = [commonMap EXCEPT ![fn] = Next1(b)]
           /\ b' = Emit(e, Event("call", Next1(b)))
  <2>1. /\ Changes(b, e, {}) /\ SameStage(b, e) /\ e.insert = b.insert
        /\ Len(e.blocks) = Len(b.blocks) + 1 /\ Next1(b) = Len(b.blocks) + 1
    <3>1. fn \in Ids \union {NoFunction} /\ "entry" \in BlockNames \union {"L"}
      BY <1>4 DEF BlockNames
    <3> QED
      BY <1>3, <3>1, CreateInChanges DEF e, MakeFunctionEntry
  <2>2. Open(e, e.insert) /\ e \in BuilderType /\ Len(b.blocks) \in Nat
    BY <1>3, <2>1, ChangesFacts
  <2>3. Works(e, b') /\ Open(b', b.insert)
    <3>1. Event("call", Next1(b)) \in EventType
      <4>1. Next1(b) \in Nat
        BY <2>1, <2>2
      <4> QED
        BY <4>1, EventsType
    <3> QED
      BY <1>7, <2>1, <2>2, <3>1, EmitWorks
  <2>4. /\ Changes(b, b', {b.insert}) /\ SameStage(b, b') /\ b'.insert = b.insert
        /\ Len(b'.blocks) = Len(b.blocks) + 1
    <3>1. b.insert \in Made(b)
      BY <1>3 DEF Open
    <3>2. Changes(b, b', {b.insert})
      BY <2>1, <2>3, <3>1, ChangesThen DEF Works
    <3> QED
      BY <2>1, <2>3, <3>2 DEF Works, SameStage
  <2>5. NewIds(commonMap, commonMap') \subseteq {fn} /\ commonMap'[fn] = Next1(b)
    BY <1>3, <1>4, <1>7 DEF NewIds
  <2>6. Extends(commonMap, commonMap', b, b')
    <3>1. Next1(b) \in Made(b') /\ Next1(b) \notin Made(b) /\ Next1(b) \in 0..Len(b'.blocks)
      BY <2>1, <2>2, <2>4 DEF Made
    <3>2. \A x \in 0..Len(b.blocks) : x \in 0..Len(b'.blocks)
      BY <2>2, <2>4
    <3>3. commonMap' \in [Ids -> 0..Len(b'.blocks)]
      BY <1>3, <1>7, <3>1, <3>2
    <3>4. \A id \in Ids : commonMap[id] # Nothing => commonMap'[id] = commonMap[id]
      BY <1>3, <1>7
    <3> QED
      BY <2>5, <3>1, <3>3, <3>4 DEF Extends
  <2>7. FitsNew(spirv, commonMap, commonMap', word)
    <3> SUFFICES ASSUME NEW v \in (word + 1)..Len(spirv), spirv[v].op \in Definitions,
                        spirv[v].id = fn
                 PROVE  spirv[v].op = "function" /\ spirv[v].id \notin EntryIds(spirv)
      BY <2>5 DEF FitsNew
    <3>1. v \in DOMAIN spirv
      <4>1. DOMAIN spirv = 1..Len(spirv) /\ Len(spirv) \in Nat
        BY <1>3 DEF Valid
      <4> QED
        BY <1>3, <4>1
    <3> QED
      BY <1>1, <1>3, <3>1, Unique DEF fn
  <2> QED
    BY <1>1, <1>2, <2>3, <2>4, <2>6, <2>7, InBlockStep
<1> QED
  BY <1>5, <1>6, <1>7

LEMMA TargetsType ==
  ASSUME NEW s \in Seq(Nat), s # <<>>, NEW op
  PROVE  Targets(s, op) \in Seq(Nat)
<1>1. Head(s) \in Nat /\ Tail(s) \in Seq(Nat)
  OBVIOUS
<1>2. Append(Tail(s), Head(s)) \in Seq(Nat)
  BY <1>1
<1> QED
  BY <1>2 DEF Targets

LEMMA BranchStep ==
  ASSUME SInv, OpBranch
  PROVE  SInv' /\ Keeps
<1> DEFINE labels == spirv[word].labels
           t == MakeLabelBlocks(b, labels)
           blocks == [i \in DOMAIN labels |-> t.map[labels[i]]]
           to == Targets(blocks, spirv[word].op)
           term == Term(TermKind(spirv[word].op), to, 0)
<1>1. /\ phase = "translating" /\ word <= Len(spirv) /\ spirv[word].op \in Branches
      /\ word' = word + 1 /\ commonMap' = t.map /\ b' = Terminate(t.b, term)
      /\ UNCHANGED <<spirv, entryPoint, currentFunction, phase>>
  BY DEF OpBranch, Reading, Instruction, GoOn, Branches
<1>2. spirv[word].op \in InBlock /\ spirv[word].op \in Terminators
  BY <1>1 DEF InBlock, Terminators
<1>3. /\ b \in BuilderType /\ Open(b, b.insert) /\ word \in Nat
      /\ commonMap \in [Ids -> 0..Len(b.blocks)]
      /\ Valid(spirv) /\ word \in DOMAIN spirv /\ labels \in Seq(Ids)
      /\ currentFunction \in Ids \union {NoFunction} /\ b.insert \in Made(b)
  BY <1>1, <1>2, ReadingBlock
<1>4. /\ Changes(b, t.b, {}) /\ SameStage(b, t.b) /\ t.b.insert = b.insert
      /\ Extends(commonMap, t.map, b, t.b)
      /\ \A id \in NewIds(commonMap, t.map) : \E i \in DOMAIN labels : labels[i] = id
  <2> HIDE DEF labels
  <2> QED
    BY <1>3, MakeLabelBlocksChanges
<1>5. labels # <<>>
  BY <1>1, <1>3 DEF Valid
<1> HIDE DEF labels, t, blocks, to, term
<1>6. Open(t.b, t.b.insert) /\ t.b \in BuilderType
  BY <1>3, <1>4, ChangesFacts
<1>7. term \in TermType
  <2>1. t.map \in [Ids -> Nat]
    <3>1. \A x \in 0..Len(t.b.blocks) : x \in Nat
      BY <1>6, BuilderFields
    <3> QED
      BY <1>4, <3>1 DEF Extends
  <2>2. blocks \in Seq(Nat) /\ blocks # <<>>
    BY <1>3, <1>5, <2>1 DEF blocks
  <2>3. to \in Seq(Nat)
    BY <2>2, TargetsType DEF to
  <2>4. TermKind(spirv[word].op) \in TermKinds
    BY <1>1 DEF TermKind, TermKinds, Branches
  <2> QED
    BY <2>3, <2>4 DEF term, Term, TermType
<1>8. Works(t.b, b')
  BY <1>1, <1>6, <1>7, TerminateWorks
<1>9. Changes(b, b', {b.insert})
  BY <1>3, <1>4, <1>8, ChangesThen DEF Works
<1>10. SameStage(b, b') /\ b'.insert = b.insert /\ Len(b'.blocks) = Len(t.b.blocks)
  BY <1>4, <1>8 DEF Works, SameStage
<1>11. Extends(commonMap, commonMap', b, b')
  BY <1>1, <1>4, <1>10, SameLengths
<1>12. FitsNew(spirv, commonMap, commonMap', word)
  <2> SUFFICES ASSUME NEW v \in (word + 1)..Len(spirv), spirv[v].op \in Definitions,
                      NEW i \in DOMAIN labels, spirv[v].id = labels[i]
               PROVE  spirv[v].op = "label" /\ spirv[v - 1].op # "function"
    BY <1>1, <1>4 DEF FitsNew
  <2>1. v \in DOMAIN spirv
    <3>1. DOMAIN spirv = 1..Len(spirv) /\ Len(spirv) \in Nat
      BY <1>3 DEF Valid
    <3> QED
      BY <1>3, <3>1
  <2> QED
    BY <1>1, <1>3, <2>1, BranchTarget DEF labels
<1> QED
  BY <1>1, <1>2, <1>9, <1>10, <1>11, <1>12, InBlockStep

LEMMA ReturnStep ==
  ASSUME SInv, OpReturn
  PROVE  SInv' /\ Keeps
<1>1. /\ phase = "translating" /\ word <= Len(spirv) /\ spirv[word].op = "return"
      /\ word' = word + 1 /\ b' = MakeReturn(b, TRUE, InEntryPoint) /\ commonMap' = commonMap
      /\ UNCHANGED <<spirv, entryPoint, currentFunction, phase>>
  BY DEF OpReturn, Reading, Instruction, GoOn
<1>2. spirv[word].op \in InBlock /\ spirv[word].op \in Terminators
  BY <1>1 DEF InBlock, Terminators
<1>3. /\ b \in BuilderType /\ b.insert \in Made(b)
      /\ commonMap \in [Ids -> 0..Len(b.blocks)]
  BY <1>1, <1>2, ReadingBlock
<1>4. InEntryPoint \in BOOLEAN
  BY DEF InEntryPoint
<1>5. Works(b, b')
  <2> HIDE DEF InEntryPoint
  <2> QED
    BY <1>1, <1>3, <1>4, MakeReturnWorks
<1>6. /\ Changes(b, b', {b.insert}) /\ SameStage(b, b') /\ b'.insert = b.insert
  BY <1>5 DEF Works
<1>7. /\ Extends(commonMap, commonMap', b, b')
      /\ FitsNew(spirv, commonMap, commonMap', word)
  BY <1>1, <1>3, <1>6, SameMap
<1> QED
  BY <1>1, <1>2, <1>6, <1>7, InBlockStep

LEMMA KillStep ==
  ASSUME SInv, OpKill
  PROVE  SInv' /\ Keeps
<1> DEFINE d == Discard(b, InEntryPoint)
           id == spirv[word + 1].id
           t == MakeLabelBlocks(d, <<id>>)
<1>1. /\ phase = "translating" /\ word <= Len(spirv) /\ spirv[word].op = "kill"
      /\ word' = word + 1
      /\ UNCHANGED <<spirv, entryPoint, currentFunction, phase>>
      /\ \/ b' = d /\ commonMap' = commonMap
         \/ /\ ~ Terminated(d) /\ spirv[word + 1].op = "label"
            /\ commonMap' = t.map /\ b' = Terminate(t.b, Br(t.map[id]))
  BY DEF OpKill, Reading, Instruction, GoOn
<1>2. spirv[word].op \in InBlock /\ spirv[word].op \in Terminators
  BY <1>1 DEF InBlock, Terminators
<1>3. /\ b \in BuilderType /\ Open(b, b.insert) /\ b.insert \in Made(b) /\ word \in Nat
      /\ commonMap \in [Ids -> 0..Len(b.blocks)]
      /\ Valid(spirv) /\ word \in DOMAIN spirv
      /\ currentFunction \in Ids \union {NoFunction}
  BY <1>1, <1>2, ReadingBlock
<1>4. Works(b, d) /\ d \in BuilderType
  <2>1. InEntryPoint \in BOOLEAN
    BY DEF InEntryPoint
  <2> HIDE DEF InEntryPoint
  <2> QED
    BY <1>3, <2>1, DiscardWorks DEF Works, Changes
<1> HIDE DEF d
<1>5. CASE b' = d /\ commonMap' = commonMap
  <2>1. /\ Changes(b, b', {b.insert}) /\ SameStage(b, b') /\ b'.insert = b.insert
    BY <1>4, <1>5 DEF Works
  <2>2. /\ Extends(commonMap, commonMap', b, b')
        /\ FitsNew(spirv, commonMap, commonMap', word)
    BY <1>3, <1>5, <2>1, SameMap
  <2> QED
    BY <1>1, <1>2, <2>1, <2>2, InBlockStep
<1>6. CASE /\ ~ Terminated(d) /\ spirv[word + 1].op = "label"
           /\ commonMap' = t.map /\ b' = Terminate(t.b, Br(t.map[id]))
  <2>1. /\ word + 1 \in DOMAIN spirv /\ id \in Ids
    <3>1. word + 1 \in DOMAIN spirv
      BY <1>1, <1>3, NextWord
    <3> QED
      BY <1>6, <3>1, <1>3, Fields DEF Definitions
  <2>2. Open(d, d.insert) /\ commonMap \in [Ids -> 0..Len(d.blocks)]
    BY <1>3, <1>4, <1>6 DEF Works, Made, Open, Terminated, HasTerminator
  <2>3. <<id>> \in Seq(Ids) /\ DOMAIN <<id>> = {1} /\ <<id>>[1] = id
    BY <2>1
  <2> HIDE DEF id
  <2>4. /\ Changes(d, t.b, {}) /\ SameStage(d, t.b) /\ t.b.insert = d.insert
        /\ Extends(commonMap, t.map, d, t.b)
        /\ \A x \in NewIds(commonMap, t.map) : \E i \in DOMAIN <<id>> : <<id>>[i] = x
    BY <1>3, <1>4, <2>2, <2>3, MakeLabelBlocksChanges
  <2> HIDE DEF t
  <2>5. Open(t.b, t.b.insert) /\ t.b \in BuilderType
    BY <2>2, <2>4, ChangesFacts
  <2>6. Br(t.map[id]) \in TermType
    <3>1. t.map[id] \in Nat
      BY <2>1, <2>4, <2>5, BuilderFields DEF Extends
    <3> QED
      BY <3>1, TermsType
  <2>7. Works(t.b, b')
    BY <1>6, <2>5, <2>6, TerminateWorks
  <2>8. Changes(b, t.b, {b.insert})
    BY <1>4, <2>4, ChangesThen DEF Works
  <2>9. t.b.insert = b.insert
    BY <1>4, <2>4 DEF Works
  <2>10. Changes(b, b', {b.insert})
    BY <1>3, <2>7, <2>8, <2>9, ChangesThen DEF Works
  <2>11. SameStage(b, b') /\ b'.insert = b.insert /\ Len(b'.blocks) = Len(t.b.blocks)
    BY <1>4, <2>4, <2>7 DEF Works, SameStage
  <2>12. Extends(commonMap, commonMap', b, b')
    BY <1>4, <1>6, <2>4, <2>11, SameLengths DEF Works
  <2>13. FitsNew(spirv, commonMap, commonMap', word)
    <3>1. \A x \in NewIds(commonMap, commonMap') : x = id
      BY <1>6, <2>3, <2>4
    <3> SUFFICES ASSUME NEW v \in (word + 1)..Len(spirv), spirv[v].op \in Definitions,
                        spirv[v].id = id
                 PROVE  spirv[v].op = "label" /\ v = word + 1
      BY <3>1 DEF FitsNew
    <3>2. v \in DOMAIN spirv
      <4>1. DOMAIN spirv = 1..Len(spirv) /\ Len(spirv) \in Nat
        BY <1>3 DEF Valid
      <4> QED
        BY <1>3, <4>1
    <3> QED
      BY <1>3, <1>6, <2>1, <3>2, Unique DEF id, Definitions
  <2> QED
    BY <1>1, <1>2, <2>10, <2>11, <2>12, <2>13, InBlockStep
<1> QED
  BY <1>1, <1>5, <1>6

-----------------------------------------------------------------------------
(* The other words. *)

LEMMA EntryPointStep ==
  ASSUME SInv, OpEntryPoint
  PROVE  SInv' /\ Keeps
<1> DEFINE w == word
           id == spirv[word].id
<1>1. /\ phase = "translating" /\ word <= Len(spirv) /\ spirv[word].op = "entryPoint"
      /\ word' = word + 1 /\ commonMap' = commonMap /\ b' = b
      /\ entryPoint' = entryPoint \union {id} /\ phase' \in {"translating", "unsupported"}
      /\ UNCHANGED <<spirv, currentFunction>>
  BY DEF OpEntryPoint, Reading, Instruction, GoOn, UnsupportedFunctionality
<1>2. STypes /\ Running /\ Valid(spirv) /\ w \in DOMAIN spirv /\ w \in Nat
  BY <1>1, ModuleValid DEF SInv
<1>3. id \in Ids /\ id \in EntryIds(spirv)
  BY <1>1, <1>2, Fields DEF EntryIds
<1>4. /\ b \in BuilderType /\ commonMap \in [Ids -> 0..Len(b.blocks)]
      /\ PendingOK(spirv, commonMap, w, b) /\ Changes(b, b, {})
      /\ InsertOK(spirv, commonMap, w, b, currentFunction)
  BY <1>2, ChangesNothing DEF STypes, Running
<1>5. /\ w + 1 \in 1..(Len(spirv) + 1)
      /\ w + 1 \in DOMAIN spirv => spirv[w + 1].op \in {"entryPoint", "function"}
  BY <1>1, <1>2, NextWord, Following
<1>6. Extends(commonMap, commonMap, b, b) /\ FitsNew(spirv, commonMap, commonMap, w)
  BY <1>4, SameMap
<1> HIDE DEF w
<1>7. /\ PendingOK(spirv, commonMap, w + 1, b)
      /\ \A v \in Pending(spirv, commonMap, w + 1) : v \in Pending(spirv, commonMap, w) /\ v # w
  <2>1. /\ PendingOK(spirv, commonMap, w + 1, b)
        /\ \A v \in Pending(spirv, commonMap, w + 1) :
             \/ /\ v \in Pending(spirv, commonMap, w) /\ v # w
                /\ At(spirv, commonMap, v) = At(spirv, commonMap, v)
                /\ At(spirv, commonMap, v) \in Made(b)
             \/ At(spirv, commonMap, v) \notin Made(b)
    BY <1>2, <1>4, <1>6, PendingGoesOn
  <2>2. \A v \in Pending(spirv, commonMap, w + 1) : v \in Pending(spirv, commonMap, w) /\ v # w
    BY <1>2 DEF Pending
  <2> QED
    BY <2>1, <2>2
<1>8. currentFunction = NoFunction /\ NoFunction \notin entryPoint'
  BY <1>1, <1>2, <1>3, <1>4, IdsAssumption DEF InsertOK, NoFunction, STypes, w
<1>9. InsertOK(spirv, commonMap, w + 1, b, NoFunction)
  BY <1>4, <1>5, <1>7 DEF InsertOK, InBlock, Terminators, Branches
<1>10. Running'
  BY <1>1, <1>7, <1>8, <1>9 DEF Running, w
<1>11. STypes'
  BY <1>1, <1>2, <1>3, <1>5 DEF STypes, w
<1>12. Keeps
  BY <1>1 DEF Keeps
<1> QED
  BY <1>10, <1>11, <1>12 DEF SInv

LEMMA UnsupportedStep ==
  ASSUME SInv, OpUnsupported \/ EndOfModule
  PROVE  SInv' /\ Keeps
<1>1. /\ word' = word \/ (word <= Len(spirv) /\ word' = word + 1)
      /\ commonMap' = commonMap /\ b' = b /\ phase' \in {"unsupported", "translated"}
      /\ UNCHANGED <<spirv, entryPoint, currentFunction>>
  BY DEF OpUnsupported, EndOfModule, Reading, GoOn, UnsupportedFunctionality
<1>2. STypes /\ word' \in 1..(Len(spirv) + 1)
  BY <1>1, ModuleValid DEF SInv, STypes
<1>3. STypes'
  BY <1>1, <1>2 DEF STypes
<1>4. Keeps
  BY <1>1 DEF Keeps
<1> QED
  BY <1>1, <1>3, <1>4 DEF SInv

LEMMA FunctionEndStep ==
  ASSUME SInv, OpFunctionEnd
  PROVE  SInv' /\ Keeps
<1> DEFINE w == word
           main == InEntryPoint
           T == {b.insert} \union (IF main THEN {b.stageEpilogue, b.stageExit} ELSE {})
<1>1. /\ phase = "translating" /\ word <= Len(spirv) /\ spirv[word].op = "functionEnd"
      /\ word' = word + 1 /\ commonMap' = commonMap /\ b' = LeaveFunction(b, main)
      /\ currentFunction' = NoFunction
      /\ UNCHANGED <<spirv, entryPoint, phase>>
  BY DEF OpFunctionEnd, Reading, Instruction, GoOn
<1>2. STypes /\ Running /\ Valid(spirv) /\ w \in DOMAIN spirv /\ w \in Nat
  BY <1>1, ModuleValid DEF SInv
<1>3. /\ b \in BuilderType /\ commonMap \in [Ids -> 0..Len(b.blocks)]
      /\ PendingOK(spirv, commonMap, w, b)
      /\ InsertOK(spirv, commonMap, w, b, currentFunction)
      /\ main => StageOK(spirv, commonMap, w, b)
      /\ main \in BOOLEAN
  BY <1>2 DEF STypes, Running, InEntryPoint
<1>4. b.insert \in Made(b)
  BY <1>1, <1>2, <1>3 DEF InsertOK
<1>5. main => /\ Open(b, b.stageEpilogue) /\ Open(b, b.stageExit)
              /\ b.stageEpilogue # b.stageExit
              /\ b.insert \notin {b.stageEpilogue, b.stageExit}
  BY <1>3 DEF StageOK
<1> HIDE DEF main
<1>6. /\ Changes(b, b', T) /\ SameStage(b, b') /\ b'.insert \in Made(b')
      /\ b'.insert \in T
  <2>1. /\ Changes(b, b', T) /\ SameStage(b, b') /\ b'.insert \in Made(b')
        /\ b'.insert = IF main THEN b.stageExit ELSE b.insert
    BY <1>1, <1>3, <1>4, <1>5, LeaveFunctionChanges
  <2> QED
    BY <2>1
<1>7. \A v \in Pending(spirv, commonMap, w) : v # w => At(spirv, commonMap, v) \notin T
  BY <1>3 DEF InsertOK, StageOK
<1> HIDE DEF w, T
<1>8. \A v \in Pending(spirv, commonMap, w + 1) : v \in Pending(spirv, commonMap, w) /\ v # w
  BY <1>2 DEF Pending
<1>9. Extends(commonMap, commonMap, b, b') /\ FitsNew(spirv, commonMap, commonMap, w)
  BY <1>3, <1>6, SameMap
<1>10. PendingOK(spirv, commonMap, w + 1, b')
  <2>1. \A v \in Pending(spirv, commonMap, w + 1) : At(spirv, commonMap, v) \notin T
    BY <1>7, <1>8
  <2> QED
    BY <1>2, <1>3, <1>6, <1>9, <2>1, PendingGoesOn
<1>11. /\ w + 1 \in 1..(Len(spirv) + 1)
       /\ w + 1 \in DOMAIN spirv => spirv[w + 1].op \in {"function"}
  BY <1>1, <1>2, NextWord, Following DEF w
<1>12. InsertOK(spirv, commonMap, w + 1, b', NoFunction)
  BY <1>6, <1>7, <1>8, <1>11 DEF InsertOK, InBlock, Terminators, Branches
<1>13. NoFunction \notin entryPoint
  BY <1>2, IdsAssumption DEF STypes, NoFunction
<1>14. Running'
  BY <1>1, <1>10, <1>12, <1>13 DEF Running, w
<1>15. STypes'
  <2>1. b'.insert \in 0..Len(b'.blocks) /\ b' \in BuilderType
    BY <1>6, ChangesFacts DEF Made
  <2> QED
    BY <1>1, <1>2, <1>9, <1>11, <2>1 DEF STypes, Extends, w
<1>16. Keeps
  BY <1>1, <1>6, ChangesKeeps
<1> QED
  BY <1>14, <1>15, <1>16 DEF SInv

(* A label's block is there after its makeLabelBlock. *)
LEMMA OneLabel ==
  ASSUME NEW c, NEW id \in Ids, commonMap \in [Ids -> 0..Len(c.blocks)], c \in BuilderType
  PROVE  MakeLabelBlocks(c, <<id>>).map[id] # Nothing
<1> DEFINE labels == <<id>>
<1>1. DOMAIN labels = {1} /\ labels[1] = id /\ Len(labels) = 1
  OBVIOUS
<1>2. CASE commonMap[id] # Nothing
  <2>1. ~ \E i \in FirstSeen(labels) : labels[i] = id
    BY <1>2 DEF FirstSeen
  <2> QED
    BY <1>2, <2>1 DEF MakeLabelBlocks, LabelMap
<1>3. CASE commonMap[id] = Nothing
  <2> DEFINE seen == FirstSeen(labels)
             i == CHOOSE j \in seen : labels[j] = id
  <2>1. 1 \in seen /\ seen \in SUBSET (1..1)
    <3>1. \A j \in 1..(1 - 1) : FALSE
      OBVIOUS
    <3>2. seen = {1}
      BY <1>1, <1>3, <3>1 DEF FirstSeen
    <3> QED
      BY <3>2
  <2>2. i \in seen
    BY <1>1, <2>1
  <2>3. LabelMap(c, labels)[id] = Len(c.blocks) + Rank(seen, i)
    BY <1>1, <2>1 DEF LabelMap
  <2> HIDE DEF seen, i, labels
  <2>4. Cardinality(seen) \in Nat /\ Rank(seen, i) \in 1..Cardinality(seen)
    BY <2>1, <2>2, RankInjective
  <2>5. Len(c.blocks) + Rank(seen, i) # 0 /\ Len(c.blocks) \in Nat
    BY <2>4, BuilderFields
  <2> QED
    BY <2>3, <2>5 DEF MakeLabelBlocks, Nothing, labels
<1> QED
  BY <1>2, <1>3

LEMMA LabelStep ==
  ASSUME SInv, OpLabel
  PROVE  SInv' /\ Keeps
<1> DEFINE w == word
           id == spirv[word].id
           t == MakeLabelBlocks(b, <<id>>)
           k == t.map[id]
<1>1. /\ phase = "translating" /\ word <= Len(spirv) /\ spirv[word].op = "label"
      /\ word' = word + 1 /\ commonMap' = t.map /\ b' = SetInsertPoint(t.b, k)
      /\ UNCHANGED <<spirv, entryPoint, currentFunction, phase>>
  BY DEF OpLabel, Reading, Instruction, GoOn
<1>2. STypes /\ Running /\ Valid(spirv) /\ w \in DOMAIN spirv /\ w \in Nat
  BY <1>1, ModuleValid DEF SInv
<1>3. /\ b \in BuilderType /\ commonMap \in [Ids -> 0..Len(b.blocks)]
      /\ PendingOK(spirv, commonMap, w, b)
      /\ currentFunction \in entryPoint => StageOK(spirv, commonMap, w, b)
      /\ currentFunction \in Ids \union {NoFunction}
  BY <1>2 DEF STypes, Running
<1>4. id \in Ids
  BY <1>1, <1>2, Fields DEF Definitions
<1>5. /\ Changes(b, t.b, {}) /\ SameStage(b, t.b)
      /\ Extends(commonMap, t.map, b, t.b)
      /\ \A x \in NewIds(commonMap, t.map) : x = id
  <2>1. <<id>> \in Seq(Ids) /\ DOMAIN <<id>> = {1} /\ <<id>>[1] = id
    BY <1>4
  <2> HIDE DEF id
  <2>2. /\ Changes(b, t.b, {}) /\ SameStage(b, t.b) /\ t.b.insert = b.insert
        /\ Extends(commonMap, t.map, b, t.b)
        /\ \A x \in NewIds(commonMap, t.map) : \E i \in DOMAIN <<id>> : <<id>>[i] = x
    BY <1>3, <2>1, MakeLabelBlocksChanges
  <2> QED
    BY <2>1, <2>2
<1>6. k # Nothing
  BY <1>3, <1>4, OneLabel
<1> HIDE DEF t, k, id
<1>7. k \in Nat /\ t.b \in BuilderType /\ k \in 0..Len(t.b.blocks)
  <2>1. t.b \in BuilderType /\ k \in 0..Len(t.b.blocks)
    BY <1>4, <1>5 DEF Extends, Changes, k
  <2> QED
    BY <2>1, BuilderFields
<1>8. /\ Changes(t.b, b', {}) /\ SameStage(t.b, b') /\ b'.insert = k /\ b'.blocks = t.b.blocks
  BY <1>1, <1>7, SetInsertChanges
<1>9. Changes(b, b', {}) /\ SameStage(b, b')
  BY <1>5, <1>8, ChangesThen DEF SameStage
<1>10. Extends(commonMap, commonMap', b, b')
  BY <1>1, <1>5, <1>8, SameLengths
<1>11. FitsNew(spirv, commonMap, commonMap', w)
  <2> SUFFICES ASSUME NEW v \in (w + 1)..Len(spirv), spirv[v].op \in Definitions,
                      spirv[v].id = id
               PROVE  FALSE
    BY <1>1, <1>5 DEF FitsNew
  <2>1. v \in DOMAIN spirv /\ v # w
    <3>1. DOMAIN spirv = 1..Len(spirv) /\ Len(spirv) \in Nat
      BY <1>2 DEF Valid
    <3> QED
      BY <1>2, <3>1
  <2> QED
    BY <1>1, <1>2, <2>1, Unique DEF id, Definitions
<1> DEFINE P == Pending(spirv, commonMap', w + 1)
<1> HIDE DEF w
<1>12. /\ PendingOK(spirv, commonMap', w + 1, b')
       /\ \A v \in P :
           \/ /\ v \in Pending(spirv, commonMap, w) /\ v # w
              /\ At(spirv, commonMap', v) = At(spirv, commonMap, v)
              /\ At(spirv, commonMap, v) \in Made(b)
           \/ At(spirv, commonMap', v) \notin Made(b)
  BY <1>2, <1>3, <1>9, <1>10, <1>11, PendingGoesOn
<1>13. \/ /\ w \in Pending(spirv, commonMap, w) /\ At(spirv, commonMap, w) = k
          /\ Open(b, k) /\ k \in Made(b)
       \/ id \in NewIds(commonMap, commonMap') /\ k \in Made(b') /\ k \notin Made(b)
  <2>1. CASE commonMap[id] = Nothing
    <3>1. id \in NewIds(commonMap, commonMap')
      BY <1>1, <1>4, <1>6, <2>1 DEF NewIds, k
    <3> QED
      BY <1>1, <1>10, <3>1 DEF Extends, k
  <2>2. CASE commonMap[id] # Nothing
    <3>1. w \in w..Len(spirv)
      <4>1. DOMAIN spirv = 1..Len(spirv) /\ Len(spirv) \in Nat
        BY <1>2 DEF Valid
      <4> QED
        BY <1>2, <4>1
    <3>2. w \in Pending(spirv, commonMap, w) /\ At(spirv, commonMap, w) = commonMap[id]
      BY <1>1, <2>2, <3>1 DEF Pending, At, Definitions, id, w
    <3>3. commonMap[id] = k
      BY <1>1, <1>4, <1>10, <2>2 DEF Extends, k
    <3> QED
      BY <1>3, <3>2, <3>3 DEF PendingOK, Open
  <2> QED
    BY <2>1, <2>2
<1>14. Open(b', k)
  <2>1. CASE Open(b, k)
    BY <1>9, <2>1, ChangesFacts
  <2>2. CASE k \in Made(b') /\ k \notin Made(b)
    BY <1>9, <2>2 DEF Changes
  <2> QED
    BY <1>13, <2>1, <2>2
<1>15. \A v \in P : At(spirv, commonMap', v) # k
  <2> SUFFICES ASSUME NEW v \in P, At(spirv, commonMap', v) = k PROVE FALSE
    OBVIOUS
  <2>1. CASE /\ w \in Pending(spirv, commonMap, w) /\ At(spirv, commonMap, w) = k
             /\ k \in Made(b)
    BY <1>3, <1>12, <2>1 DEF PendingOK
  <2>2. CASE id \in NewIds(commonMap, commonMap') /\ k \notin Made(b)
    <3>1. /\ v \in DOMAIN spirv /\ spirv[v].id \in Ids /\ v \in (w + 1)..Len(spirv)
          /\ spirv[v].op \in Definitions /\ commonMap'[spirv[v].id] # Nothing
      <4>1. w + 1 \in Nat /\ w + 1 >= 1
        BY <1>2, NextWord
      <4> QED
        BY <1>2, <4>1, PendingIds
    <3>2. spirv[v].id \in NewIds(commonMap, commonMap')
      <4>1. CASE commonMap[spirv[v].id] = Nothing
        BY <3>1, <4>1 DEF NewIds
      <4>2. CASE commonMap[spirv[v].id] # Nothing
        <5>1. v \in Pending(spirv, commonMap, w)
          BY <1>2, <3>1, <4>2 DEF Pending, At
        <5>2. Open(b, At(spirv, commonMap, v))
          BY <1>3, <5>1 DEF PendingOK
        <5>3. At(spirv, commonMap, v) = k
          BY <1>10, <3>1, <4>2 DEF Extends, At
        <5> QED
          BY <2>2, <5>2, <5>3 DEF Open
      <4> QED
        BY <4>1, <4>2
    <3>3. spirv[v].id = id
      BY <1>1, <1>5, <3>2
    <3>4. v # w
      BY <1>2, <3>1
    <3> QED
      BY <1>1, <1>2, <3>1, <3>3, <3>4, Unique DEF id, w, Definitions
  <2> QED
    BY <1>13, <2>1, <2>2
<1>16. /\ w + 1 \in 1..(Len(spirv) + 1)
       /\ w + 1 \in DOMAIN spirv => spirv[w + 1].op \in InBlock
  BY <1>1, <1>2, NextWord, Following DEF w
<1>17. InsertOK(spirv, commonMap', w + 1, b', currentFunction)
  <2>1. k \in Made(b')
    BY <1>14 DEF Open
  <2> QED
    BY <1>8, <1>14, <1>15, <1>16, <2>1 DEF InsertOK, InBlock, Terminators, Branches
<1>18. currentFunction \in entryPoint => StageOK(spirv, commonMap', w + 1, b')
  <2> SUFFICES ASSUME currentFunction \in entryPoint
               PROVE  StageOK(spirv, commonMap', w + 1, b')
    OBVIOUS
  <2>1. StageOK(spirv, commonMap, w, b)
    BY <1>3
  <2>2. k \notin {b.stageEpilogue, b.stageExit}
    BY <1>13, <2>1 DEF StageOK, Open
  <2> QED
    BY <1>8, <1>9, <1>12, <2>1, <2>2, StageGoesOn
<1>19. Running'
  BY <1>1, <1>12, <1>17, <1>18 DEF Running, w
<1>20. STypes'
  <2>1. b'.insert \in 0..Len(b'.blocks) /\ b' \in BuilderType
    BY <1>7, <1>8 DEF Changes
  <2> QED
    BY <1>1, <1>2, <1>10, <1>16, <2>1 DEF STypes, Extends, w
<1>21. Keeps
  BY <1>9, <1>10, ChangesKeeps DEF Extends
<1> QED
  BY <1>19, <1>20, <1>21 DEF SInv

-----------------------------------------------------------------------------
(* A function's entry block is its first label's. *)

LEMMA NextLabelFollows ==
  ASSUME Valid(spirv), word \in DOMAIN spirv, spirv[word].op = "function"
  PROVE  /\ word + 1 \in DOMAIN spirv /\ spirv[word + 1].op = "label"
         /\ GetNextLabelId = spirv[word + 1].id
<1> DEFINE P(w) == /\ w > word /\ spirv[w].op = "label"
                   /\ \A v \in word..(w - 1) : spirv[v].op # "label"
           x == CHOOSE w \in DOMAIN spirv : P(w)
<1>1. word + 1 \in DOMAIN spirv /\ spirv[word + 1].op = "label" /\ word \in Nat
  BY NextWord, Following
<1>2. P(word + 1)
  <2>1. \A v \in word..(word + 1 - 1) : v = word
    BY <1>1
  <2> QED
    BY <1>1, <2>1
<1>3. x \in DOMAIN spirv /\ P(x)
  <2> HIDE DEF P
  <2> QED
    BY <1>1, <1>2
<1>4. x = word + 1
  <2>1. x \in Nat /\ x > word
    <3>1. DOMAIN spirv = 1..Len(spirv) /\ Len(spirv) \in Nat
      BY DEF Valid
    <3> HIDE DEF x
    <3> QED
      BY <1>3, <3>1
  <2> HIDE DEF x
  <2>2. word + 1 \in word..(x - 1) => FALSE
    BY <1>1, <1>3
  <2> QED
    BY <1>1, <2>1, <2>2
<1>5. GetNextLabelId = spirv[x].id
  BY DEF GetNextLabelId
<1> QED
  BY <1>1, <1>4, <1>5

LEMMA EnterStep ==
  ASSUME SInv, phase = "translating", word <= Len(spirv), spirv[word].op = "function",
         NEW k, Open(b', k), b'.insert = k, Changes(b, b', {}),
         commonMap' \in [Ids -> 0..Len(b'.blocks)],
         commonMap'[spirv[word + 1].id] = k,
         \A id \in Ids : id \notin {spirv[word].id, spirv[word + 1].id} =>
                            commonMap'[id] = commonMap[id],
         commonMap[spirv[word].id] # Nothing =>
           commonMap'[spirv[word].id] = commonMap[spirv[word].id],
         \A v \in Pending(spirv, commonMap, word) : v # word => At(spirv, commonMap, v) # k,
         spirv[word].id \in entryPoint =>
           /\ b'.stageEpilogue # b'.stageExit
           /\ \A i \in {b'.stageEpilogue, b'.stageExit} :
                Open(b', i) /\ i # k /\ i \notin Made(b),
         currentFunction' = spirv[word].id, word' = word + 1,
         UNCHANGED <<spirv, entryPoint, phase>>
  PROVE  SInv' /\ Keeps
<1> DEFINE w == word
           fn == spirv[word].id
           label == spirv[word + 1].id
           P == Pending(spirv, commonMap', w + 1)
<1>1. STypes /\ Running /\ Valid(spirv) /\ w \in DOMAIN spirv /\ w \in Nat
  BY ModuleValid DEF SInv
<1>2. /\ w + 1 \in DOMAIN spirv /\ spirv[w + 1].op = "label"
      /\ w + 1 \in 1..(Len(spirv) + 1) /\ w + 1 \in Nat /\ w + 1 >= 1
      /\ DOMAIN spirv = 1..Len(spirv) /\ Len(spirv) \in Nat
  BY <1>1, NextLabelFollows, ModuleValid, NextWord
<1>3. PendingOK(spirv, commonMap, w, b)
  BY <1>1 DEF Running
<1>4. fn \in Ids /\ label \in Ids
  BY <1>1, <1>2, Fields DEF Definitions
<1>5. commonMap[label] = Nothing
  <2> DEFINE n == w + 1
  <2>1. n \in w..Len(spirv) /\ n # w /\ n - 1 = w
    BY <1>1, <1>2
  <2>2. spirv[n].op = "label" /\ spirv[n - 1].op = "function"
    BY <1>2, <2>1
  <2> HIDE DEF n
  <2>3. n \notin Pending(spirv, commonMap, w)
    BY <1>3, <2>1, <2>2 DEF PendingOK
  <2>4. commonMap[spirv[n].id] = Nothing
    BY <2>1, <2>2, <2>3 DEF Pending, At, Definitions
  <2> QED
    BY <2>4 DEF n
<1> DEFINE Old(v) == /\ v \in Pending(spirv, commonMap, w) /\ v # w
                     /\ At(spirv, commonMap', v) = At(spirv, commonMap, v)
                     /\ Open(b, At(spirv, commonMap, v))
                     /\ At(spirv, commonMap, v) # k
                     /\ spirv[v].op = "function" => spirv[v].id \notin EntryIds(spirv)
                     /\ ~ (spirv[v].op = "label" /\ spirv[v - 1].op = "function")
<1>6. ASSUME NEW v \in P
      PROVE  (v = w + 1 /\ At(spirv, commonMap', v) = k) \/ Old(v)
  <2>1. /\ v \in DOMAIN spirv /\ spirv[v].id \in Ids /\ v \in (w + 1)..Len(spirv)
        /\ spirv[v].op \in Definitions /\ commonMap'[spirv[v].id] # Nothing
    BY <1>1, <1>2, <1>6, PendingIds
  <2>2. v \in w..Len(spirv) /\ v # w
    BY <1>1, <2>1
  <2>3. CASE v = w + 1
    BY <2>3 DEF At
  <2>4. CASE v # w + 1
    <3>1. spirv[v].id # fn /\ spirv[v].id # label
      BY <1>1, <1>2, <2>1, <2>2, <2>4, Unique DEF Definitions
    <3>2. commonMap'[spirv[v].id] = commonMap[spirv[v].id]
      BY <2>1, <3>1
    <3>3. v \in Pending(spirv, commonMap, w)
      BY <2>1, <2>2, <3>2 DEF Pending, At
    <3>4. /\ Open(b, At(spirv, commonMap, v)) /\ At(spirv, commonMap, v) # k
          /\ spirv[v].op = "function" => spirv[v].id \notin EntryIds(spirv)
          /\ ~ (spirv[v].op = "label" /\ spirv[v - 1].op = "function")
      BY <1>3, <2>2, <3>3 DEF PendingOK
    <3> QED
      BY <2>2, <3>2, <3>3, <3>4 DEF At
  <2> QED
    BY <2>3, <2>4
<1> HIDE DEF w, fn, label
<1>7. \A v \in P : Open(b', At(spirv, commonMap', v))
  BY <1>6, ChangesFacts
<1>8. \A u, v \in P : At(spirv, commonMap', u) = At(spirv, commonMap', v) => u = v
  BY <1>3, <1>6 DEF PendingOK
<1>9. PendingOK(spirv, commonMap', w + 1, b')
  <2>1. \A v \in P : /\ spirv[v].op = "label" /\ spirv[v - 1].op = "function" => v = w + 1
                     /\ spirv[v].op = "function" => spirv[v].id \notin EntryIds(spirv)
    BY <1>2, <1>6
  <2> QED
    BY <1>7, <1>8, <2>1 DEF PendingOK
<1>10. InsertOK(spirv, commonMap', w + 1, b', fn)
  <2>1. \A v \in P : At(spirv, commonMap', v) = k => v = w + 1 /\ spirv[v].op = "label"
    BY <1>2, <1>6
  <2>2. k \in Made(b')
    BY DEF Open
  <2> QED
    BY <1>2, <2>1, <2>2 DEF InsertOK, InBlock, Terminators, Branches
<1>11. fn \in entryPoint => StageOK(spirv, commonMap', w + 1, b')
  <2> SUFFICES ASSUME fn \in entryPoint PROVE StageOK(spirv, commonMap', w + 1, b')
    OBVIOUS
  <2>1. /\ b'.stageEpilogue # b'.stageExit
        /\ \A i \in {b'.stageEpilogue, b'.stageExit} :
                Open(b', i) /\ i # k /\ i \notin Made(b)
    BY DEF fn
  <2>2. \A v \in P : At(spirv, commonMap', v) = k \/ At(spirv, commonMap', v) \in Made(b)
    BY <1>6 DEF Open
  <2> QED
    BY <2>1, <2>2 DEF StageOK
<1>12. Running'
  BY <1>9, <1>10, <1>11 DEF Running, w, fn
<1>13. STypes'
  <2>1. b'.insert \in 0..Len(b'.blocks) /\ b' \in BuilderType
    <3>1. k \in Made(b') /\ b' \in BuilderType
      BY DEF Open, Changes
    <3> QED
      BY <3>1, BuilderFields DEF Made
  <2> QED
    BY <1>1, <1>2, <1>4, <2>1 DEF STypes, w, fn
<1>14. Keeps
  <2>1. \A id \in Ids : commonMap[id] # Nothing => commonMap'[id] = commonMap[id]
    BY <1>5 DEF label
  <2> QED
    BY <2>1, ChangesKeeps
<1> QED
  BY <1>12, <1>13, <1>14 DEF SInv

(* OpFunction for main, for a function a call has made, for another. *)
LEMMA FunctionCases ==
  ASSUME SInv, OpFunction
  PROVE  LET fn == spirv[word].id
             label == spirv[word + 1].id
             m == MakeMainOf(b, fn)
             e == MakeFunctionEntry(b, fn)
         IN  /\ phase = "translating" /\ word <= Len(spirv) /\ spirv[word].op = "function"
             /\ currentFunction' = fn /\ word' = word + 1
             /\ UNCHANGED <<spirv, entryPoint, currentModel, phase>>
             /\ STypes /\ Running /\ Valid(spirv) /\ word \in DOMAIN spirv /\ word \in Nat
             /\ fn \in Ids /\ label \in Ids /\ fn # label
             /\ commonMap[fn] # Nothing =>
                  /\ word \in Pending(spirv, commonMap, word)
                  /\ At(spirv, commonMap, word) = commonMap[fn]
             /\ \/ /\ fn \in entryPoint /\ commonMap[fn] = Nothing
                   /\ commonMap' = [commonMap EXCEPT ![fn] = Len(m.blocks), ![label] = Len(m.blocks)]
                   /\ b' = SetInsertPoint(m, Len(m.blocks))
                \/ /\ fn \notin entryPoint /\ commonMap[fn] # Nothing
                   /\ commonMap' = [commonMap EXCEPT ![label] = commonMap[fn]]
                   /\ b' = SetInsertPoint(b, commonMap[fn])
                \/ /\ fn \notin entryPoint /\ commonMap[fn] = Nothing
                   /\ commonMap' = [commonMap EXCEPT ![fn] = Next1(b), ![label] = Next1(b)]
                   /\ b' = SetInsertPoint(e, Next1(b))
<1> DEFINE fn == spirv[word].id
           label == spirv[word + 1].id
           m == MakeMainOf(b, fn)
           e == MakeFunctionEntry(b, fn)
<1>1. /\ phase = "translating" /\ word <= Len(spirv) /\ spirv[word].op = "function"
      /\ currentFunction' = fn /\ word' = word + 1
      /\ UNCHANGED <<spirv, entryPoint, currentModel, phase>>
  BY DEF OpFunction, Reading, Instruction, GoOn
<1>2. STypes /\ Running /\ Valid(spirv) /\ word \in DOMAIN spirv /\ word \in Nat
  BY <1>1, ModuleValid DEF SInv
<1>3. /\ word + 1 \in DOMAIN spirv /\ spirv[word + 1].op = "label"
      /\ GetNextLabelId = label
  BY <1>1, <1>2, NextLabelFollows
<1>4. fn \in Ids /\ label \in Ids /\ fn # label
  <2>1. word # word + 1
    BY <1>2
  <2>2. fn \in Ids /\ label \in Ids
    BY <1>1, <1>2, <1>3, Fields DEF Definitions
  <2> QED
    BY <1>1, <1>2, <1>3, <2>1, <2>2, Unique DEF Definitions
<1>5. /\ b \in BuilderType /\ commonMap \in [Ids -> 0..Len(b.blocks)]
      /\ PendingOK(spirv, commonMap, word, b)
      /\ entryPoint \subseteq EntryIds(spirv)
  BY <1>2, BuilderFields DEF STypes, Running
<1>7. \/ /\ fn \in entryPoint
         /\ commonMap' = [commonMap EXCEPT ![fn] = Len(m.blocks), ![label] = Len(m.blocks)]
         /\ b' = SetInsertPoint(m, Len(m.blocks))
      \/ /\ fn \notin entryPoint /\ commonMap[fn] # Nothing
         /\ commonMap' = [commonMap EXCEPT ![label] = commonMap[fn]]
         /\ b' = SetInsertPoint(b, commonMap[fn])
      \/ /\ fn \notin entryPoint /\ commonMap[fn] = Nothing
         /\ commonMap' = [commonMap EXCEPT ![fn] = Next1(b), ![label] = Next1(b)]
         /\ b' = SetInsertPoint(e, Next1(b))
  <2> DEFINE t == IF fn \in entryPoint THEN EnterMain(fn, label, m) ELSE EnterFunction(fn, label, b)
  <2>1. commonMap' = t.map /\ b' = t.b
    <3> HIDE DEF m, label
    <3> QED
      BY <1>3 DEF OpFunction, Instruction, m
  <2> HIDE DEF fn, label, m
  <2>2. CASE fn \in entryPoint
    <3>1. t = EnterMain(fn, label, m)
      BY <2>2
    <3> HIDE DEF t
    <3> QED
      BY <2>1, <2>2, <3>1 DEF EnterMain
  <2>3. CASE fn \notin entryPoint /\ commonMap[fn] # Nothing
    <3>1. t = EnterFunction(fn, label, b)
      BY <2>3
    <3> HIDE DEF t
    <3> QED
      BY <2>1, <2>3, <3>1 DEF EnterFunction
  <2>4. CASE fn \notin entryPoint /\ commonMap[fn] = Nothing
    <3>1. t = EnterFunction(fn, label, b)
      BY <2>4
    <3> HIDE DEF t
    <3> QED
      BY <2>1, <2>4, <3>1 DEF EnterFunction, e
  <2> QED
    BY <2>2, <2>3, <2>4
<1>8. commonMap[fn] # Nothing =>
        word \in Pending(spirv, commonMap, word) /\ At(spirv, commonMap, word) = commonMap[fn]
  <2>1. word \in word..Len(spirv)
    BY <1>1, <1>2, ModuleValid
  <2> QED
    BY <1>1, <2>1 DEF Pending, At, Definitions
<1>9. fn \in entryPoint => commonMap[fn] = Nothing
  <2> SUFFICES ASSUME fn \in entryPoint PROVE commonMap[fn] = Nothing
    OBVIOUS
  <2>1. fn \in EntryIds(spirv)
    BY <1>5
  <2>2. word \notin Pending(spirv, commonMap, word)
    BY <1>1, <1>5, <2>1 DEF PendingOK
  <2> QED
    BY <1>8, <2>2
<1> HIDE DEF fn, label, m, e
<1> QED
  BY <1>1, <1>2, <1>4, <1>7, <1>8, <1>9 DEF fn, label, m, e

LEMMA FunctionStep ==
  ASSUME SInv, OpFunction
  PROVE  SInv' /\ Keeps
<1> DEFINE fn == spirv[word].id
           label == spirv[word + 1].id
           m == MakeMainOf(b, fn)
           e == MakeFunctionEntry(b, fn)
           n == Len(b.blocks)
<1>1. /\ phase = "translating" /\ word <= Len(spirv) /\ spirv[word].op = "function"
      /\ currentFunction' = fn /\ word' = word + 1
      /\ UNCHANGED <<spirv, entryPoint, phase>>
  BY FunctionCases
<1>2. STypes /\ Running /\ Valid(spirv) /\ word \in DOMAIN spirv /\ word \in Nat
  BY FunctionCases
<1>4. fn \in Ids /\ label \in Ids /\ fn # label
  BY FunctionCases
<1>5. /\ b \in BuilderType /\ commonMap \in [Ids -> 0..Len(b.blocks)]
      /\ PendingOK(spirv, commonMap, word, b) /\ n \in Nat
  BY <1>2, BuilderFields DEF STypes, Running
<1>6. \A v \in Pending(spirv, commonMap, word) : At(spirv, commonMap, v) \in Made(b)
  BY <1>5 DEF PendingOK, Open
<1>7. \/ /\ fn \in entryPoint /\ commonMap[fn] = Nothing
         /\ commonMap' = [commonMap EXCEPT ![fn] = Len(m.blocks), ![label] = Len(m.blocks)]
         /\ b' = SetInsertPoint(m, Len(m.blocks))
      \/ /\ fn \notin entryPoint /\ commonMap[fn] # Nothing
         /\ commonMap' = [commonMap EXCEPT ![label] = commonMap[fn]]
         /\ b' = SetInsertPoint(b, commonMap[fn])
      \/ /\ fn \notin entryPoint /\ commonMap[fn] = Nothing
         /\ commonMap' = [commonMap EXCEPT ![fn] = Next1(b), ![label] = Next1(b)]
         /\ b' = SetInsertPoint(e, Next1(b))
  BY FunctionCases
<1>8. commonMap[fn] # Nothing =>
        word \in Pending(spirv, commonMap, word) /\ At(spirv, commonMap, word) = commonMap[fn]
  BY FunctionCases
<1> HIDE DEF fn, label, m, e
<1>9. CASE /\ fn \in entryPoint /\ commonMap[fn] = Nothing
           /\ commonMap' = [commonMap EXCEPT ![fn] = Len(m.blocks), ![label] = Len(m.blocks)]
           /\ b' = SetInsertPoint(m, Len(m.blocks))
  <2> DEFINE k == Len(m.blocks)
  <2>1. /\ Changes(b, m, {}) /\ k = n + 3
        /\ m.stageEpilogue = n + 1 /\ m.stageExit = n + 2
    BY <1>4, <1>5, MakeMainChanges DEF m
  <2>2. m \in BuilderType /\ k \in Nat
    BY <1>5, <2>1 DEF Changes
  <2> HIDE DEF k
  <2>3. /\ Changes(m, b', {}) /\ SameStage(m, b') /\ b'.insert = k /\ b'.blocks = m.blocks
    BY <1>9, <2>2, SetInsertChanges DEF k
  <2>4. Changes(b, b', {})
    BY <2>1, <2>3, ChangesThen
  <2>5. Len(b'.blocks) = n + 3
    BY <2>1, <2>3 DEF k
  <2>6. \A i \in {n + 1, n + 2, n + 3} : i \in Made(b') /\ i \notin Made(b)
    BY <1>5, <2>5 DEF Made
  <2> HIDE DEF n
  <2>7. \A i \in {n + 1, n + 2, n + 3} : Open(b', i) /\ i \notin Made(b)
    BY <2>4, <2>6 DEF Changes
  <2>8. commonMap[fn] = Nothing
    BY <1>9
  <2>9. /\ commonMap' \in [Ids -> 0..Len(b'.blocks)] /\ commonMap'[label] = k
        /\ \A id \in Ids : id \notin {fn, label} => commonMap'[id] = commonMap[id]
    <3>1. /\ k \in 0..Len(b'.blocks)
          /\ \A x \in 0..Len(b.blocks) : x \in 0..Len(b'.blocks)
      BY <1>5, <2>1, <2>5 DEF n
    <3>2. commonMap' = [commonMap EXCEPT ![fn] = k, ![label] = k]
      BY <1>9 DEF k
    <3> QED
      BY <1>4, <1>5, <3>1, <3>2
  <2>10. k \notin Made(b) /\ Open(b', k)
    BY <2>1, <2>7
  <2>11. \A v \in Pending(spirv, commonMap, word) : v # word => At(spirv, commonMap, v) # k
    BY <1>6, <2>10
  <2>12. /\ b'.stageEpilogue # b'.stageExit
         /\ \A i \in {b'.stageEpilogue, b'.stageExit} :
                Open(b', i) /\ i # k /\ i \notin Made(b)
    <3>1. b'.stageEpilogue = n + 1 /\ b'.stageExit = n + 2
      BY <2>1, <2>3 DEF SameStage
    <3>2. n + 1 # n + 2 /\ n + 1 # k /\ n + 2 # k
      BY <1>5, <2>1
    <3> QED
      BY <2>7, <3>1, <3>2
  <2> QED
    BY <1>1, <2>3, <2>4, <2>8, <2>9, <2>10, <2>11, <2>12, EnterStep DEF fn, label
<1>10. CASE /\ fn \notin entryPoint /\ commonMap[fn] # Nothing
            /\ commonMap' = [commonMap EXCEPT ![label] = commonMap[fn]]
            /\ b' = SetInsertPoint(b, commonMap[fn])
  <2> DEFINE k == commonMap[fn]
  <2>1. k \in Nat /\ k \in 0..Len(b.blocks)
    BY <1>4, <1>5
  <2>2. /\ Changes(b, b', {}) /\ b'.insert = k /\ b'.blocks = b.blocks
    BY <1>5, <1>10, <2>1, SetInsertChanges
  <2>3. Open(b, k)
    BY <1>5, <1>8, <1>10 DEF PendingOK
  <2>4. Open(b', k)
    BY <2>2, <2>3 DEF Open, Made
  <2>5. \A v \in Pending(spirv, commonMap, word) : v # word => At(spirv, commonMap, v) # k
    BY <1>5, <1>8, <1>10 DEF PendingOK
  <2>6. /\ commonMap' \in [Ids -> 0..Len(b'.blocks)] /\ commonMap'[label] = k
        /\ \A id \in Ids : id \notin {fn, label} => commonMap'[id] = commonMap[id]
        /\ commonMap'[fn] = commonMap[fn]
    BY <1>4, <1>5, <1>10, <2>1, <2>2
  <2> HIDE DEF k
  <2> QED
    BY <1>1, <1>10, <2>2, <2>4, <2>5, <2>6, EnterStep DEF fn, label
<1>11. CASE /\ fn \notin entryPoint /\ commonMap[fn] = Nothing
            /\ commonMap' = [commonMap EXCEPT ![fn] = Next1(b), ![label] = Next1(b)]
            /\ b' = SetInsertPoint(e, Next1(b))
  <2> DEFINE k == Next1(b)
  <2>1. Changes(b, e, {}) /\ Len(e.blocks) = n + 1 /\ k = n + 1
    <3>1. fn \in Ids \union {NoFunction} /\ "entry" \in BlockNames \union {"L"}
      BY <1>4 DEF BlockNames
    <3> QED
      BY <1>5, <3>1, CreateInChanges DEF e, MakeFunctionEntry
  <2>2. e \in BuilderType /\ k \in Nat
    BY <1>5, <2>1 DEF Changes
  <2> HIDE DEF k
  <2>3. /\ Changes(e, b', {}) /\ b'.insert = k /\ b'.blocks = e.blocks
    BY <1>11, <2>2, SetInsertChanges DEF k
  <2>4. Changes(b, b', {}) /\ Len(b'.blocks) = n + 1
    BY <2>1, <2>3, ChangesThen
  <2>5. k \in Made(b') /\ k \notin Made(b)
    BY <1>5, <2>1, <2>4 DEF Made
  <2>6. Open(b', k)
    BY <2>4, <2>5 DEF Changes
  <2>7. \A v \in Pending(spirv, commonMap, word) : v # word => At(spirv, commonMap, v) # k
    BY <1>6, <2>5
  <2>8. /\ commonMap' \in [Ids -> 0..Len(b'.blocks)] /\ commonMap'[label] = k
        /\ \A id \in Ids : id \notin {fn, label} => commonMap'[id] = commonMap[id]
    <3>1. /\ k \in 0..Len(b'.blocks)
          /\ \A x \in 0..Len(b.blocks) : x \in 0..Len(b'.blocks)
      BY <1>5, <2>1, <2>4
    <3>2. commonMap' = [commonMap EXCEPT ![fn] = k, ![label] = k]
      BY <1>11 DEF k
    <3> QED
      BY <1>4, <1>5, <3>1, <3>2
  <2> QED
    BY <1>1, <1>11, <2>3, <2>4, <2>6, <2>7, <2>8, EnterStep DEF fn, label
<1> QED
  BY <1>7, <1>9, <1>10, <1>11

-----------------------------------------------------------------------------
(* The invariant, and the two properties. *)

LEMMA StartsWell == Init => SInv
<1> SUFFICES ASSUME Init PROVE SInv
  OBVIOUS
<1>1. spirv \in Modules /\ Valid(spirv) /\ word = 1 /\ entryPoint = {}
  BY ModulesAssumption DEF Init
<1>2. DOMAIN spirv = 1..Len(spirv) /\ Len(spirv) \in Nat
  BY <1>1 DEF Valid
<1>3. /\ b.blocks = <<>> /\ b.insert = 0 /\ b \in BuilderType
  <2>1. <<>> \in Seq(BlockType) /\ <<>> \in Seq(Nat)
    OBVIOUS
  <2> QED
    BY <2>1 DEF Init, EmptyBuilder, BuilderType
<1>4. Pending(spirv, commonMap, word) = {}
  <2>1. ASSUME NEW v \in Pending(spirv, commonMap, word) PROVE FALSE
    <3>1. spirv[v].id \in Ids /\ commonMap[spirv[v].id] # Nothing
      BY <1>1, PendingIds
    <3> QED
      BY <3>1 DEF Init
  <2> QED
    BY <2>1
<1>5. PendingOK(spirv, commonMap, word, b)
  BY <1>4 DEF PendingOK
<1>6. word \in DOMAIN spirv => spirv[word].op \in {"entryPoint", "function"}
  BY <1>1 DEF Valid
<1>7. InsertOK(spirv, commonMap, word, b, currentFunction)
  BY <1>4, <1>6 DEF InsertOK, Init, InBlock, Terminators, Branches
<1>8. commonMap \in [Ids -> 0..Len(b.blocks)]
  BY <1>3 DEF Init, Nothing
<1>9. STypes
  BY <1>1, <1>2, <1>3, <1>8 DEF STypes, Init
<1> QED
  BY <1>1, <1>5, <1>7, <1>9 DEF SInv, Running

LEMMA NextStep ==
  ASSUME SInv, Next
  PROVE  SInv' /\ Keeps
<1>1. CASE OpEntryPoint
  BY <1>1, EntryPointStep
<1>2. CASE OpFunction
  BY <1>2, FunctionStep
<1>3. CASE OpFunctionEnd
  BY <1>3, FunctionEndStep
<1>4. CASE OpLabel
  BY <1>4, LabelStep
<1>5. CASE OpInBlock
  BY <1>5, StmtStep
<1>6. CASE OpFunctionCall
  BY <1>6, CallStep
<1>7. CASE OpBranch
  BY <1>7, BranchStep
<1>8. CASE OpKill
  BY <1>8, KillStep
<1>9. CASE OpReturn
  BY <1>9, ReturnStep
<1>10. CASE OpUnsupported \/ EndOfModule
  BY <1>10, UnsupportedStep
<1> QED
  BY <1>1, <1>2, <1>3, <1>4, <1>5, <1>6, <1>7, <1>8, <1>9, <1>10 DEF Next

LEMMA SInvAlways == Spec => []SInv
<1>1. Init => SInv
  BY StartsWell
<1>2. SInv /\ [Next]_vars => SInv'
  <2> SUFFICES ASSUME SInv, [Next]_vars PROVE SInv'
    OBVIOUS
  <2>1. CASE Next
    BY <2>1, NextStep
  <2>2. CASE UNCHANGED vars
    BY <2>2 DEF vars, SInv, STypes, Running
  <2> QED
    BY <2>1, <2>2
<1> QED
  BY <1>1, <1>2, PTL DEF Spec

(* TypeOK, for every valid module: in particular commonMap and the insert   *)
(* point only ever name blocks that have been made.                       *)
THEOREM TypeCorrect == Spec => []TypeOK
<1>1. SInv => TypeOK
  BY DEF SInv, STypes, TypeOK
<1> QED
  BY <1>1, SInvAlways, PTL

(* Settled, for every valid module: a block is not touched after its end,  *)
(* and an <id> never comes to stand for something else.                    *)
THEOREM SettledCorrect == Spec => Settled
<1>1. SInv /\ [Next]_vars => [Keeps]_vars
  BY NextStep
<1>2. [Keeps]_vars =>
        [/\ \A blk \in DOMAIN b.blocks :
               HasTerminator(b, blk) => b'.blocks[blk] = b.blocks[blk]
         /\ \A id \in Ids : commonMap[id] # Nothing => commonMap'[id] = commonMap[id]]_vars
  BY DEF Keeps
<1> QED
  BY <1>1, <1>2, SInvAlways, PTL DEF Spec, Settled
=============================================================================
