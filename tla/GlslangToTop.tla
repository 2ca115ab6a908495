---------------------------- MODULE GlslangToTop ----------------------------
(***************************************************************************)
(* The control-flow half of the glslang front end                          *)
(* (Frontends/glslang/GlslangToTopVisitor.cpp): TGlslangToTopTraverser     *)
(* walks a shader's abstract syntax tree and drives the builder.           *)
(*                                                                         *)
(* The tree is not given beforehand: each step chooses the next node the   *)
(* traverser meets, and "text" remembers the nodes met, in source order,   *)
(* together with the construct they belong to in the tree.  "frames" is    *)
(* the traverser's own recursion, one frame per visitSelection, visitLoop  *)
(* or visitSwitch that is waiting for a child's traversal to return.       *)
(***************************************************************************)
EXTENDS TopBuilder, FiniteSets

CONSTANTS
  MaxText,          \* bound: nodes a program has, not counting functions and closing tokens
  Statements,       \* the kinds of leaf statement programs are made of
  LoopForms,        \* the forms of loop, records [testFirst, test, terminal]
  SwitchBodies,     \* the shapes of switch body, sequences of SwitchChildren
  FlowInitializers, \* whether a global initializer may hold a ?:
  HelperFunctions   \* whether programs define a function besides main

SwitchChildren == {"case", "default", "code"}
LeafKinds == {"stmt", "discard", "break", "continue", "return"}
AllLoopForms == [testFirst : BOOLEAN, test : BOOLEAN, terminal : BOOLEAN]

CodeCount(body) == Cardinality({i \in DOMAIN body : body[i] = "code"})

(* The number of code segments in front of child i of a switch's body. *)
SegmentsBefore(body, i) == Cardinality({j \in 1..i : body[j] = "code"})

(* What glslang accepts: no code in front of the first label, code between *)
(* two labels is one segment, and at most one default.                     *)
AcceptedSwitch(body) ==
  /\ body # <<>> /\ body[1] # "code"
  /\ \A i \in 2..Len(body) : body[i] = "code" => body[i-1] # "code"
  /\ \A i, j \in DOMAIN body : body[i] = "default" /\ body[j] = "default" => i = j

(* Code follows the default, or a case that no code follows, for which the *)
(* traverser adds a segment.  Otherwise the default's segment block does   *)
(* not exist and makeSwitch reads past segmentBB: these bodies, which      *)
(* glslang accepts as well, are left out.                                  *)
DefaultHasSegment(body) ==
  \A i \in DOMAIN body : body[i] = "default" =>
    \/ \E j \in (i+1)..Len(body) : body[j] = "code"
    \/ \E j \in DOMAIN body : body[j] = "case" /\ \A k \in j..Len(body) : body[k] # "code"

ASSUME BoundAssumption == MaxText \in Nat
ASSUME FormAssumption ==
  /\ Statements \subseteq LeafKinds /\ LoopForms \subseteq AllLoopForms
  /\ FlowInitializers \in BOOLEAN /\ HelperFunctions \in BOOLEAN
ASSUME SwitchAssumption == \A body \in SwitchBodies :
  body \in Seq(SwitchChildren) /\ AcceptedSwitch(body) /\ DefaultHasSegment(body)

VARIABLES
  b,             \* the builder
  frames,        \* the traverser's recursion, innermost last
  breakForLoop,  \* traverser's stack: does a break leave a loop (or a switch)
  loopTerminal,  \* traverser's stack: the loops' terminals, 0 for none
  text,          \* the nodes visited
  inMain,        \* traverser's inMain
  initPoint,     \* traverser's globalInitializerInsertPoint
  lastBodyBlock, \* traverser's lastBodyBlock
  phase          \* "global", "body" of a function, or "built"

vars == <<b, frames, breakForLoop, loopTerminal, text, inMain, initPoint,
          lastBodyBlock, phase>>
stacks == <<breakForLoop, loopTerminal>>
unit   == <<inMain, initPoint, lastBodyBlock, phase>>

(* A node of the tree: what it is, the open construct it belongs to.  *)
Token(op, of, arg) == [op |-> op, of |-> of, arg |-> arg]
Here == Len(text) + 1
Visit(op, of, arg) == text' = Append(text, Token(op, of, arg))

Frame(kind, at, obj) == [kind |-> kind, at |-> at, obj |-> obj]
Top == frames[Len(frames)]
In(kind) == frames # <<>> /\ Top.kind = kind

(* The next node to visit is one more: within the bound, and not in the     *)
(* code segment that is missing from a switch.                              *)
Room == /\ Len(text) < MaxText
        /\ In("switch") => Top.obj.s <= Top.obj.code

(* The innermost open construct of these kinds, by the tree; 0 if none. *)
Innermost(kinds) ==
  LET at == {frames[i].at : i \in {j \in DOMAIN frames : frames[j].kind \in kinds}}
  IN  IF at = {} THEN 0 ELSE CHOOSE p \in at : \A q \in at : q <= p

-----------------------------------------------------------------------------
(* The constructor: main with its entry, the body block, and (makeFunctions *)
(* runs before any other node) the helper's entry.                          *)
MainBody    == 4
HelperEntry == 5

Init ==
  /\ b = LET main == CreateIn(MakeMain, "mainBody", "main")
         IN  IF HelperFunctions THEN CreateIn(main, "entry", "helper") ELSE main
  /\ initPoint = 3 /\ lastBodyBlock = 3
  /\ frames = <<>> /\ breakForLoop = <<>> /\ loopTerminal = <<>>
  /\ text = <<>> /\ inMain = FALSE /\ phase = "global"

(* A global variable's initializer, without control flow; two in a row say *)
(* no more than one.                                                       *)
VisitInitializer ==
  /\ phase = "global" /\ Room
  /\ text # <<>> => TopOf(text).op # "init"
  /\ Visit("init", 0, 0)
  /\ b' = Emit(b, Event("init", Here))
  /\ UNCHANGED <<frames, stacks, unit>>

(* A global variable's initializer that holds a ?: *)
VisitFlowInitializer ==
  /\ phase = "global" /\ Room /\ FlowInitializers
  /\ Visit("initFlow", 0, 0)
  /\ b' = LET if   == IfObject(b)
              then == Emit(IfBegin(b), Event("initThen", Here))
              else == Emit(MakeBeginElse(then, if), Event("initElse", Here))
          IN  MakeEndIf(else, [if EXCEPT !.else = Next1(then)], Here)
  /\ UNCHANGED <<frames, stacks, unit>>

ProgramFunctions == IF HelperFunctions THEN FunctionNames ELSE {"main"}
Visited(fn) == \E i \in DOMAIN text : text[i].op = "function" /\ text[i].arg = fn

(* visitAggregate, EOpFunction, pre-visit *)
VisitFunction(fn) ==
  /\ phase = "global"
  /\ ~ Visited(fn)
  /\ Visit("function", 0, fn)
  /\ initPoint' = b.insert
  /\ inMain' = (fn = "main")
  /\ b' = SetInsertPoint(b, IF fn = "main" THEN MainBody ELSE HelperEntry)
  /\ phase' = "body"
  /\ UNCHANGED <<frames, stacks, lastBodyBlock>>

(* visitAggregate, EOpFunction, post-visit *)
EndFunction ==
  /\ phase = "body" /\ frames = <<>>
  /\ Visit("endfunction", 0, 0)
  /\ phase' = "global"
  /\ inMain' = FALSE
  /\ lastBodyBlock' = IF inMain THEN b.insert ELSE lastBodyBlock
  /\ b' = SetInsertPoint(IF inMain THEN b ELSE LeaveFunction(b, FALSE), initPoint)
  /\ UNCHANGED <<frames, stacks, initPoint>>

(* The destructor. *)
Finish ==
  /\ phase = "global"
  /\ \A fn \in ProgramFunctions : Visited(fn)
  /\ phase' = "built"
  /\ b' = LET entry == Terminate(SetInsertPoint(b, initPoint), Br(MainBody))
          IN  LeaveFunction(SetInsertPoint(entry, lastBodyBlock), TRUE)
  /\ UNCHANGED <<frames, stacks, text, inMain, initPoint, lastBodyBlock>>

-----------------------------------------------------------------------------
(* Statements.  Two plain statements in a row say no more than one. *)

VisitStatement ==
  /\ phase = "body" /\ Room /\ "stmt" \in Statements
  /\ TopOf(text).op # "stmt"
  /\ Visit("stmt", 0, 0)
  /\ b' = Emit(b, Event("stmt", Here))
  /\ UNCHANGED <<frames, stacks, unit>>

(* visitBranch, EOpKill *)
VisitDiscard ==
  /\ phase = "body" /\ Room /\ "discard" \in Statements
  /\ Visit("discard", 0, 0)
  /\ b' = MakeDiscard(b, inMain, Here)
  /\ UNCHANGED <<frames, stacks, unit>>

(* visitBranch, EOpBreak; glslang accepts it only in a loop or a switch *)
VisitBreak ==
  /\ phase = "body" /\ Room /\ "break" \in Statements
  /\ Innermost({"loop", "switch"}) # 0
  /\ Visit("break", Innermost({"loop", "switch"}), 0)
  /\ b' = IF TopOf(breakForLoop) THEN MakeLoopExit(b) ELSE AddSwitchBreak(b)
  /\ UNCHANGED <<frames, stacks, unit>>

(* The traversal of the innermost loop's terminal expression, if it has one *)
Terminal(bb) == IF TopOf(loopTerminal) # 0
                THEN Emit(bb, Event("terminal", TopOf(loopTerminal))) ELSE bb

(* mutant: a continue skips the loop's terminal *)
VisitContinueNoTerminal ==
  /\ phase = "body" /\ Room /\ "continue" \in Statements
  /\ Innermost({"loop"}) # 0
  /\ Visit("continue", Innermost({"loop"}), 0)
  /\ b' = MakeLoopBackEdge(b, FALSE)
  /\ UNCHANGED <<frames, stacks, unit>>

(* visitBranch, EOpContinue; glslang accepts it only in a loop *)
VisitContinue ==
  /\ phase = "body" /\ Room /\ "continue" \in Statements
  /\ Innermost({"loop"}) # 0
  /\ Visit("continue", Innermost({"loop"}), 0)
  /\ b' = MakeLoopBackEdge(Terminal(b), FALSE)
  /\ UNCHANGED <<frames, stacks, unit>>

(* visitBranch, EOpReturn *)
VisitReturn ==
  /\ phase = "body" /\ Room /\ "return" \in Statements
  /\ Visit("return", 0, 0)
  /\ b' = MakeReturn(b, FALSE, inMain)
  /\ UNCHANGED <<frames, stacks, unit>>

-----------------------------------------------------------------------------
(* visitSelection: up to the traversal of the true block, up to that of the *)
(* false block, and what follows the last of them.                          *)

VisitIf ==
  /\ phase = "body" /\ Room
  /\ Visit("if", 0, 0)
  /\ b' = IfBegin(b)
  /\ frames' = Append(frames, Frame("then", Here, IfObject(b)))
  /\ UNCHANGED <<stacks, unit>>

VisitElse ==
  /\ In("then") /\ Room
  /\ Visit("else", Top.at, 0)
  /\ b' = MakeBeginElse(b, Top.obj)
  /\ frames' = Append(Pop(frames),
                      Frame("else", Top.at, [Top.obj EXCEPT !.else = Next1(b)]))
  /\ UNCHANGED <<stacks, unit>>

EndIf ==
  /\ In("then") \/ In("else")
  /\ Visit("endif", Top.at, 0)
  /\ b' = MakeEndIf(b, Top.obj, Top.at)
  /\ frames' = Pop(frames)
  /\ UNCHANGED <<stacks, unit>>

-----------------------------------------------------------------------------
(* visitLoop: up to the traversal of the body, and what follows it. *)

(* if (! condition) break; *)
LoopTest(bb, at) ==
  MakeEndIf(MakeLoopExit(IfBegin(bb)), IfObject(bb), at)

VisitLoop(form) ==
  /\ phase = "body" /\ Room
  /\ Visit("loop", 0, form)
  /\ loopTerminal' = Append(loopTerminal, IF form.terminal THEN Here ELSE 0)
  /\ breakForLoop' = Append(breakForLoop, TRUE)
  /\ b' = IF form.testFirst /\ form.test THEN LoopTest(MakeNewLoop(b), Here)
          ELSE MakeNewLoop(b)
  /\ frames' = Append(frames, Frame("loop", Here, form))
  /\ UNCHANGED unit

(* mutant: the test at the end of a do-while is forgotten *)
EndLoopNoTest ==
  /\ In("loop")
  /\ Visit("endloop", Top.at, 0)
  /\ breakForLoop' = Pop(breakForLoop)
  /\ b' = CloseLoop(MakeLoopBackEdge(Terminal(b), FALSE))
  /\ loopTerminal' = Pop(loopTerminal)
  /\ frames' = Pop(frames)
  /\ UNCHANGED unit

EndLoop ==
  /\ In("loop")
  /\ Visit("endloop", Top.at, 0)
  /\ breakForLoop' = Pop(breakForLoop)
  /\ b' = LET tested == IF ~ Top.obj.testFirst /\ Top.obj.test
                        THEN LoopTest(b, Top.at) ELSE b
          IN  CloseLoop(MakeLoopBackEdge(Terminal(tested), FALSE))
  /\ loopTerminal' = Pop(loopTerminal)
  /\ frames' = Pop(frames)
  /\ UNCHANGED unit

-----------------------------------------------------------------------------
(* visitSwitch: up to the traversal of the first code segment, from one    *)
(* segment to the next, and what follows the last.                         *)

(* The segment each case label leads to, in the order of the labels, and   *)
(* the default's, -1 if there is none.                                     *)
CaseChildren(body) == {i \in DOMAIN body : body[i] = "case"}
ValueToSegment(body) ==
  [k \in 1..Cardinality(CaseChildren(body)) |->
     SegmentsBefore(body, CHOOSE i \in CaseChildren(body) :
                       Cardinality({j \in CaseChildren(body) : j <= i}) = k)]
DefaultSegment(body) ==
  LET at == {i \in DOMAIN body : body[i] = "default"}
  IN  IF at = {} THEN -1 ELSE SegmentsBefore(body, CHOOSE i \in at : TRUE)

(* The number of segments once "the last code segment is missing" is dealt *)
(* with.  With no case label the code reads valueToSegment[-1], which may  *)
(* hold any value.                                                         *)
SegmentCounts(body) ==
  LET n      == CodeCount(body)
      values == ValueToSegment(body)
  IN  IF values = <<>> THEN {n, n + 1}
      ELSE IF values[Len(values)] = n THEN {n + 1} ELSE {n}

(* Segment s begins; one that is missing is only a switch break. *)
EnterSegment(bb, segments, s, codeSegments) ==
  LET next == NextSwitchSegment(bb, segments, s)
  IN  IF s <= codeSegments THEN next ELSE AddSwitchBreak(next)

VisitSwitch(body) ==
  /\ phase = "body" /\ Room
  /\ breakForLoop' = Append(breakForLoop, FALSE)
  /\ \E n \in SegmentCounts(body) :
       LET made == MakeSwitch(b, n, ValueToSegment(body), DefaultSegment(body), Here)
           segs == SegmentBlocks(b, n)
       IN  /\ b' = EnterSegment(made, segs, 1, CodeCount(body))
           /\ frames' = Append(frames, Frame("switch", Here,
                                [segments |-> segs, s |-> 1, code |-> CodeCount(body)]))
           /\ text' = text \o <<Token("switch", 0, [values |-> ValueToSegment(body),
                                                    default |-> DefaultSegment(body)]),
                                Token("segment", Here, 0)>>
  /\ UNCHANGED <<loopTerminal, unit>>

NextSegment ==
  /\ In("switch") /\ Top.obj.s < Len(Top.obj.segments)
  /\ LET s == Top.obj.s + 1
     IN  /\ b' = EnterSegment(b, Top.obj.segments, s, Top.obj.code)
         /\ frames' = [frames EXCEPT ![Len(frames)].obj.s = s]
         /\ Visit("segment", Top.at, s - 1)
  /\ UNCHANGED <<stacks, unit>>

EndOfSwitch ==
  /\ In("switch") /\ Top.obj.s = Len(Top.obj.segments)
  /\ Visit("endswitch", Top.at, 0)
  /\ breakForLoop' = Pop(breakForLoop)
  /\ b' = EndSwitch(b)
  /\ frames' = Pop(frames)
  /\ UNCHANGED <<loopTerminal, unit>>

-----------------------------------------------------------------------------
Next ==
  \/ VisitInitializer \/ VisitFlowInitializer
  \/ \E fn \in ProgramFunctions : VisitFunction(fn)
  \/ EndFunction \/ Finish
  \/ VisitStatement \/ VisitDiscard \/ VisitBreak \/ VisitContinue \/ VisitReturn
  \/ VisitIf \/ VisitElse \/ EndIf
  \/ \E form \in LoopForms : VisitLoop(form)
  \/ EndLoop
  \/ \E body \in SwitchBodies : VisitSwitch(body)
  \/ NextSegment \/ EndOfSwitch

Spec == Init /\ [][Next]_vars
-----------------------------------------------------------------------------
(* The state's types. *)
BlockIds == 1..Len(b.blocks)
TypeOK ==
  /\ \A i \in BlockIds :
       /\ b.blocks[i].name \in BlockNames /\ b.blocks[i].fn \in FunctionNames
       /\ b.blocks[i].term.kind \in TermKinds
       /\ \A k \in DOMAIN b.blocks[i].term.to : b.blocks[i].term.to[k] \in BlockIds
  /\ {b.layout[k] : k \in DOMAIN b.layout} \subseteq BlockIds
  /\ {b.insert, initPoint, lastBodyBlock} \subseteq BlockIds
  /\ breakForLoop \in Seq(BOOLEAN) /\ loopTerminal \in Seq(0..Len(text))
  /\ inMain \in BOOLEAN /\ phase \in {"global", "body", "built"}

(* How many of the i outermost frames are of these kinds. *)
Depth(kinds, i) == Cardinality({j \in 1..i : frames[j].kind \in kinds})

(* visitLoop, visitSwitch, makeNewLoop, makeSwitch: four stacks are kept   *)
(* apart from the recursion (two by the traverser, two by the builder);    *)
(* whatever the nesting, each holds the open constructs of its kinds in    *)
(* order, so that a break, a continue or a terminal that consults a top    *)
(* finds the innermost construct of the tree.                              *)
StacksFollowTree ==
  LET both == {"loop", "switch"}
  IN  /\ Len(breakForLoop) = Depth(both, Len(frames))
      /\ Len(loopTerminal) = Depth({"loop"}, Len(frames))
      /\ Len(b.loops)      = Depth({"loop"}, Len(frames))
      /\ Len(b.switches)   = Depth({"switch"}, Len(frames))
      /\ \A i \in DOMAIN frames :
           LET f == frames[i]
           IN  /\ f.kind = "loop" =>
                    /\ breakForLoop[Depth(both, i)]
                    /\ loopTerminal[Depth({"loop"}, i)]
                         = IF f.obj.terminal THEN f.at ELSE 0
               /\ f.kind = "switch" =>
                    /\ ~ breakForLoop[Depth(both, i)]
                    /\ b.switches[Depth({"switch"}, i)]
                         = f.obj.segments[Len(f.obj.segments)] + 1

(* A ?: in an initializer that no function follows. *)
TrailingFlow ==
  \E i \in DOMAIN text : /\ text[i].op = "initFlow"
                         /\ \A j \in i..Len(text) : text[j].op # "function"

(* The blocks that some open construct, or the end of main, is to end.     *)
Pending ==
  {b.insert, b.stageEpilogue, b.stageExit, initPoint, lastBodyBlock, MainBody,
   HelperEntry}
  \cup {frames[i].obj.header : i \in {j \in DOMAIN frames :
                                      frames[j].kind \in {"then", "else"}}}
  \cup {frames[i].obj.merge : i \in {j \in DOMAIN frames :
                                      frames[j].kind \in {"then", "else"}}}
  \cup {b.loops[i].exit : i \in DOMAIN b.loops}
  \cup {b.switches[i] : i \in DOMAIN b.switches}
  \cup UNION {{frames[i].obj.segments[s] :
                 s \in frames[i].obj.s..Len(frames[i].obj.segments)} :
               i \in {j \in DOMAIN frames : frames[j].kind = "switch"}}

(* Every handler of the builder: a block is never left behind without an   *)
(* end; what has none yet is where code goes now, or a construct that is   *)
(* still open (or main's end) will give it one.                            *)
NoBlockForgotten ==
  phase # "built" =>
    \A i \in BlockIds : HasTerminator(b, i) \/ i \in Pending

(* leaveFunction, closeMain, the destructor: of the finished unit every    *)
(* block made is in its function's list, exactly once, ends exactly once,  *)
(* and branches only to blocks of its own function.                        *)
WellBuilt ==
  (phase = "built" /\ ~ TrailingFlow) =>
    \A i \in BlockIds :
      /\ Cardinality({k \in DOMAIN b.layout : b.layout[k] = i}) = 1
      /\ b.blocks[i].term.kind \notin {"none", "double"}
      /\ \A k \in DOMAIN b.blocks[i].term.to :
            b.blocks[b.blocks[i].term.to[k]].fn = b.blocks[i].fn

(* Every handler: once a block has ended, other than as unreachable, it is *)
(* sealed: no handler adds code to it or a second end.                     *)
Sealed(i) == b.blocks[i].term.kind \notin {"none", "unreachable"}
SealedBlocks ==
  [][\A i \in BlockIds : (Sealed(i) /\ ~ TrailingFlow) => b'.blocks[i] = b.blocks[i]]_vars
=============================================================================
