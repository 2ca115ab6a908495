----------------------------- MODULE TopBuilder -----------------------------
(***************************************************************************)
(* The control-flow half of gla::Builder (Core/TopBuilder.cpp): the        *)
(* operations a front end calls to lay out basic blocks.  The builder's    *)
(* state is a record; an operation maps a builder to a builder, so that a  *)
(* front end's handler is the composition of the calls it makes.           *)
(*                                                                         *)
(* Instructions are abstracted to events (what the block does, in order);  *)
(* conditions are named by the place in the source they come from.         *)
(***************************************************************************)
EXTENDS Integers, Sequences

(* The functions of a translation unit. *)
FunctionNames == {"main", "helper"}

(* Names of the blocks the builder asks LLVM to create. *)
BlockNames ==
  {"entry", "mainBody", "stage-epilogue", "stage-exit", "post-return",
   "post-discard", "then", "else", "ifmerge", "switch-segment", "switch-merge",
   "post-switch-break", "loop-header", "loop-merge", "post-loop-continue",
   "post-loop-break"}

(* A terminator: its kind, its targets in order, the condition it tests.   *)
(* "double" stands for the malformed block LLVM's verifier would reject:   *)
(* a terminator inserted into a block that already has one.                *)
TermKinds == {"none", "br", "cond", "switch", "ret", "unreachable", "double"}
Term(kind, to, at) == [kind |-> kind, to |-> to, at |-> at]
NoTerm      == Term("none", <<>>, 0)
Br(blk)     == Term("br", <<blk>>, 0)
Ret         == Term("ret", <<>>, 0)
Unreachable == Term("unreachable", <<>>, 0)
Double      == Term("double", <<>>, 0)

(* An event: an abstract instruction and the source position it is for. *)
Event(what, at) == [what |-> what, at |-> at]
CopyOut == Event("copyOut", 0)

-----------------------------------------------------------------------------
(* LLVM's IRBuilder and BasicBlock, as the builder uses them. *)

NewBlock(name, fn) == [name |-> name, fn |-> fn, term |-> NoTerm, code |-> <<>>]

(* The identity the next created block gets. *)
Next1(b) == Len(b.blocks) + 1

(* BasicBlock::Create(context, name): a block of no function list yet. *)
Create(b, name, fn) == [b EXCEPT !.blocks = Append(@, NewBlock(name, fn))]

(* function->getBasicBlockList().push_back(block) *)
PushBack(b, blk) == [b EXCEPT !.layout = Append(@, blk)]

(* BasicBlock::Create(context, name, function) *)
CreateIn(b, name, fn) == PushBack(Create(b, name, fn), Next1(b))

SetInsertPoint(b, blk) == [b EXCEPT !.insert = blk]

(* builder.GetInsertBlock()->getParent() *)
Parent(b) == b.blocks[b.insert].fn

HasTerminator(b, blk) == b.blocks[blk].term.kind # "none"
Terminated(b) == HasTerminator(b, b.insert)

(* CreateBr, CreateCondBr, CreateSwitch, CreateRet, CreateUnreachable. *)
Terminate(b, t) ==
  [b EXCEPT !.blocks[b.insert].term = IF Terminated(b) THEN Double ELSE t]

(* Any other instruction; after createAndSetNoPredecessorBlock the insert  *)
(* point is in front of the terminator, so the event precedes it.          *)
Emit(b, e) == [b EXCEPT !.blocks[b.insert].code = Append(@, e)]

(* pred_begin(BB) != pred_end(BB) *)
HasPredecessor(b, blk) ==
  \E p \in DOMAIN b.blocks : \E i \in DOMAIN b.blocks[p].term.to :
     b.blocks[p].term.to[i] = blk

-----------------------------------------------------------------------------
(* Builder::createAndSetNoPredecessorBlock *)
CreateAndSetNoPredecessorBlock(b, name) ==
  Terminate(SetInsertPoint(CreateIn(b, name, Parent(b)), Next1(b)), Unreachable)

(* mutant: code after a return goes on in the block that returned *)
MakeReturnStays(b, implicit, isMain) ==
  IF Terminated(b) THEN b
  ELSE Terminate(b, IF isMain THEN Br(b.stageEpilogue) ELSE Ret)
(* Builder::makeReturn *)
MakeReturn(b, implicit, isMain) ==
  IF Terminated(b) THEN b
  ELSE LET r == Terminate(b, IF isMain THEN Br(b.stageEpilogue) ELSE Ret)
       IN  IF implicit THEN r
           ELSE CreateAndSetNoPredecessorBlock(r, "post-return")

(* Builder::makeDiscard; a function's discard does not end its block. *)
MakeDiscard(b, isMain, at) ==
  IF Terminated(b) THEN b
  ELSE LET d == Emit(b, Event("discard", at))
       IN  IF isMain
           THEN CreateAndSetNoPredecessorBlock(Terminate(d, Br(b.stageExit)),
                                               "post-discard")
           ELSE d

(* Builder::closeMain *)
CloseMain(b) ==
  LET epilogue == Terminate(Emit(SetInsertPoint(b, b.stageEpilogue), CopyOut),
                            Br(b.stageExit))
      exit     == Terminate(SetInsertPoint(epilogue, b.stageExit), Ret)
  IN  PushBack(PushBack(exit, b.stageEpilogue), b.stageExit)

(* Whether the insert block is an unreachable block other than the entry. *)
InUnreachable(b) == /\ b.blocks[b.insert].name # "entry"
                    /\ ~ HasPredecessor(b, b.insert)

(* Builder::leaveFunction; the dummy value a non-void function returns is  *)
(* not told apart from a void return.                                      *)
LeaveFunction(b, main) ==
  LET left == IF Terminated(b) THEN b
              ELSE IF main /\ ~ InUnreachable(b) THEN MakeReturn(b, TRUE, TRUE)
              ELSE IF InUnreachable(b) THEN Terminate(b, Unreachable)
              ELSE MakeReturn(b, TRUE, FALSE)
  IN  IF main THEN CloseMain(left) ELSE left

-----------------------------------------------------------------------------
(* Builder::If.  IfBegin is the constructor; the object is a record.       *)

IfObject(b) == [header |-> b.insert, then |-> Next1(b), else |-> 0,
                merge |-> Next1(b) + 1]
(* mutant: the merge block is not made *)
IfBeginNoMerge(b) == SetInsertPoint(CreateIn(b, "then", Parent(b)), Next1(b))
IfBegin(b) ==
  LET fn == Parent(b)
      t  == CreateIn(b, "then", fn)
  IN  SetInsertPoint(Create(t, "ifmerge", fn), Next1(b))

(* "Close out" a block by jumping on, unless it ends already. *)
CloseTo(b, blk) == IF Terminated(b) THEN b ELSE Terminate(b, Br(blk))

(* If::makeBeginElse *)
MakeBeginElse(b, if) ==
  SetInsertPoint(CreateIn(CloseTo(b, if.merge), "else", b.blocks[if.header].fn),
                 Next1(b))

(* mutant: the header is only split when the last branch did not return *)
MakeEndIfWhenOpen(b, if, at) ==
  LET target == IF if.else # 0 THEN if.else ELSE if.merge
      split  == IF Terminated(b) \/ HasTerminator(b, if.header) THEN b
                ELSE Terminate(SetInsertPoint(CloseTo(b, if.merge), if.header),
                               Term("cond", <<if.then, target>>, at))
  IN  SetInsertPoint(PushBack(split, if.merge), if.merge)
(* If::makeEndIf *)
MakeEndIf(b, if, at) ==
  LET closed == CloseTo(b, if.merge)
      target == IF if.else # 0 THEN if.else ELSE if.merge
      split  == IF HasTerminator(closed, if.header) THEN closed
                ELSE Terminate(SetInsertPoint(closed, if.header),
                               Term("cond", <<if.then, target>>, at))
  IN  SetInsertPoint(PushBack(split, if.merge), if.merge)

-----------------------------------------------------------------------------
(* Switches.  The targets of the terminator are the cases', in order, and  *)
(* then the default's.                                                     *)

(* The segment blocks makeSwitch is about to create. *)
SegmentBlocks(b, n) == [s \in 1..n |-> Len(b.blocks) + s]

(* Builder::makeSwitch *)
MakeSwitch(b, n, valueToSegment, defaultSegment, at) ==
  LET fn    == Parent(b)
      seg   == SegmentBlocks(b, n)
      merge == Len(b.blocks) + n + 1
      made  == [b EXCEPT
                 !.blocks = @ \o [s \in 1..n |-> NewBlock("switch-segment", fn)]
                              \o <<NewBlock("switch-merge", fn)>>,
                 !.layout = @ \o seg \o <<merge>>]
      cases == [i \in DOMAIN valueToSegment |-> seg[valueToSegment[i] + 1]]
      dflt  == IF defaultSegment >= 0 THEN seg[defaultSegment + 1] ELSE merge
      split == IF Terminated(made) THEN made
               ELSE Terminate(made, Term("switch", Append(cases, dflt), at))
  IN  [split EXCEPT !.switches = Append(@, merge)]

TopOf(stack) == stack[Len(stack)]
Pop(stack)   == SubSeq(stack, 1, Len(stack) - 1)

(* Builder::addSwitchBreak; the dead block is made even after a return. *)
AddSwitchBreak(b) ==
  CreateAndSetNoPredecessorBlock(CloseTo(b, TopOf(b.switches)), "post-switch-break")

(* Builder::nextSwitchSegment, with nextSegment counted from 1 *)
NextSwitchSegment(b, segments, s) ==
  SetInsertPoint(IF s > 1 THEN CloseTo(b, segments[s]) ELSE b, segments[s])

(* mutant: the merge block stays on the stack *)
EndSwitchNoPop(b) ==
  SetInsertPoint(IF Terminated(b) THEN b ELSE AddSwitchBreak(b), TopOf(b.switches))
(* Builder::endSwitch *)
EndSwitch(b) ==
  LET closed == IF Terminated(b) THEN b ELSE AddSwitchBreak(b)
  IN  [SetInsertPoint(closed, TopOf(b.switches)) EXCEPT !.switches = Pop(@)]

-----------------------------------------------------------------------------
(* Loops that are not inductive, the kind front ends make. *)

(* Builder::makeNewLoop *)
MakeNewLoop(b) ==
  LET fn     == Parent(b)
      header == Next1(b)
      made   == Create(CreateIn(b, "loop-header", fn), "loop-merge", fn)
      pushed == [made EXCEPT !.loops =
                   Append(@, [header |-> header, exit |-> header + 1])]
  IN  SetInsertPoint(CloseTo(pushed, header), header)

(* Builder::makeLoopBackEdge *)
MakeLoopBackEdge(b, implicit) ==
  IF Terminated(b) THEN b
  ELSE LET back == Terminate(b, Br(TopOf(b.loops).header))
       IN  IF implicit THEN back
           ELSE CreateAndSetNoPredecessorBlock(back, "post-loop-continue")

(* mutant: a break goes round the loop again *)
MakeLoopExitToHeader(b) ==
  IF Terminated(b) THEN b
  ELSE CreateAndSetNoPredecessorBlock(Terminate(b, Br(TopOf(b.loops).header)),
                                      "post-loop-break")
(* Builder::makeLoopExit *)
MakeLoopExit(b) ==
  IF Terminated(b) THEN b
  ELSE CreateAndSetNoPredecessorBlock(Terminate(b, Br(TopOf(b.loops).exit)),
                                      "post-loop-break")

(* mutant: the exit block is never put into the function *)
CloseLoopNoPush(b) ==
  LET closed == IF Terminated(b) THEN b ELSE MakeLoopBackEdge(b, TRUE)
  IN  [SetInsertPoint(closed, TopOf(b.loops).exit) EXCEPT !.loops = Pop(@)]
(* Builder::closeLoop *)
CloseLoop(b) ==
  LET closed == IF Terminated(b) THEN b ELSE MakeLoopBackEdge(b, TRUE)
      exit   == TopOf(b.loops).exit
  IN  [SetInsertPoint(PushBack(closed, exit), exit) EXCEPT !.loops = Pop(@)]

-----------------------------------------------------------------------------
(* Builder::makeMain: the entry block is block 3, placed; the two stage    *)
(* blocks wait for closeMain.                                              *)
MakeMain ==
  [blocks |-> <<NewBlock("stage-epilogue", "main"), NewBlock("stage-exit", "main"),
                NewBlock("entry", "main")>>,
   layout |-> <<3>>, insert |-> 3, loops |-> <<>>, switches |-> <<>>,
   stageEpilogue |-> 1, stageExit |-> 2]
=============================================================================
