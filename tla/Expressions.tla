----------------------------- MODULE Expressions -----------------------------
(***************************************************************************)
(* TGlslangToTopTraverser's visits of expressions (Frontends/glslang/      *)
(* GlslangToTopVisitor.cpp) over the one access chain of gla::Builder.     *)
(*                                                                         *)
(* A visit that traverses its children itself is cut where it does so: a   *)
(* frame of the stack is such a visit with its local variables, and "at"   *)
(* counts the children it has traversed.  An action is the code of one     *)
(* visit between two traversals.                                           *)
(***************************************************************************)
EXTENDS AccessChain

CONSTANTS
  Shaders,   \* bodies of main to translate: each a sequence of statements
  Symbols,   \* the symbol with each number: its storage, location and data
  Counter    \* the global variable that the user's function counts in

(* gla::MaxUserLayoutLocation: where the slots begin that nobody asked for *)
FirstFreeSlot == 16
NoLocation == -1

VARIABLES
  shader,        \* what is translated
  stack,         \* the visits that are under way, innermost first
  builder,       \* gla::Builder
  symbolValues,  \* the symbols that have storage
  slotMap, nextSlot,
  linkageOnly,
  written        \* the writes to the pipeline at the end of main

vars == <<shader, stack, builder, symbolValues, slotMap, nextSlot, linkageOnly,
          written>>
numbering == <<symbolValues, slotMap, nextSlot>>
others == <<shader, linkageOnly, written, numbering>>

(* A node of glslang's tree.  "k" holds constants: the value, the index or *)
(* the channels; "width" is the number of components of its type.          *)
Frame(node) == [node |-> node, at |-> 0, lValues |-> <<>>, values |-> <<>>,
                obj |-> 0, live |-> TRUE]
Zero(width) == [j \in 1..width |-> 0]

Init ==
  /\ shader \in Shaders
  /\ stack = <<Frame(shader)>>
  /\ builder = NewBuilder([s \in DOMAIN Symbols |->
                             IF Symbols[s].storage = "local" THEN Symbols[s].data
                             ELSE Symbols[s].null])
  /\ symbolValues = {}
  /\ slotMap = [s \in {} |-> 0]
  /\ nextSlot = FirstFreeSlot
  /\ linkageOnly = FALSE
  /\ written = <<>>

-----------------------------------------------------------------------------
Top == Head(stack)
Visiting(ops, at) == /\ builder.verdict = "ok"
                     /\ stack # <<>>
                     /\ Top.node.op \in ops
                     /\ Top.at = at

(* node->getLeft()->traverse(this), and so on *)
Traverse(f, b) ==
  /\ stack' = <<Frame(f.node.kids[f.at + 1]), [f EXCEPT !.at = @ + 1]>> \o Tail(stack)
  /\ builder' = b
Return(b) ==
  /\ stack' = Tail(stack)
  /\ builder' = b

Fresh == ClearAccessChain(builder)
RValue(b, x) == SetAccessChainRValue(ClearAccessChain(b), x)

(* createBinaryOperation.  LLVM folds what is constant. *)
Operate(op, x, y) ==
  Value([j \in DOMAIN x.d |->
           CASE op \in {"add", "addAssign"} -> x.d[j] + y.d[j]
             [] op = "less" -> IF x.d[j] < y.d[j] THEN 1 ELSE 0
             [] op = "and"  -> IF x.d[j] # 0 /\ y.d[j] # 0 THEN 1 ELSE 0],
        x.const /\ y.const)

-----------------------------------------------------------------------------
(* visitSymbol *)
HasLocation(s) == Symbols[s].location # NoLocation
NumSlots(s) == Len(Leaves[s])
Assigning(s) == [x \in DOMAIN slotMap \union {s} |->
                  IF x = s THEN nextSlot ELSE slotMap[x]]
(* mutant: the next symbol is given the slot after the first of this one *)
AssignOneSlot(s) ==
  IF HasLocation(s) \/ s \in DOMAIN slotMap THEN UNCHANGED <<slotMap, nextSlot>>
  ELSE /\ slotMap' = Assigning(s)
       /\ nextSlot' = nextSlot + 1
AssignSlot(s) ==
  IF HasLocation(s) \/ s \in DOMAIN slotMap THEN UNCHANGED <<slotMap, nextSlot>>
  ELSE /\ slotMap' = Assigning(s)
       /\ nextSlot' = nextSlot + NumSlots(s)
SlotOf(s) == IF HasLocation(s) THEN Symbols[s].location
             ELSE IF s \in DOMAIN slotMap THEN slotMap[s] ELSE nextSlot

Declared(b, s) ==
  IF Symbols[s].storage = "out" /\ s \notin symbolValues
  THEN SetOutputMetadata(CreateOutput(b, s), s, SlotOf(s), NumSlots(s)) ELSE b
Accessed(b, s) ==
  IF linkageOnly THEN b
  ELSE IF Symbols[s].storage = "out"
  THEN AccessChainTrackActive(SetAccessChainLValue(ClearAccessChain(b), s))
  ELSE SetAccessChainLValue(ClearAccessChain(b), s)
(* createPipelineRead: a fresh read of the whole input at each mention *)
PipelineRead(b, s) ==
  IF Symbols[s].storage = "in" /\ ~ linkageOnly
  THEN Store(b, Value(Symbols[s].data, FALSE), [obj |-> s, path |-> <<>>]) ELSE b

VisitSymbol ==
  /\ Visiting({"symbol"}, 0)
  /\ \E s \in {Top.node.k[1]} :
       /\ Return(PipelineRead(Accessed(Declared(builder, s), s), s))
       /\ symbolValues' = symbolValues \union {s}
       /\ IF \/ Symbols[s].storage = "in"
             \/ Symbols[s].storage = "out" /\ s \notin symbolValues
          THEN AssignSlot(s) ELSE UNCHANGED <<slotMap, nextSlot>>
  /\ UNCHANGED <<shader, linkageOnly, written>>

(* visitConstantUnion, for what is not an aggregate *)
VisitConstantUnion ==
  /\ Visiting({"constant"}, 0)
  /\ Return(RValue(builder, Value(Top.node.k, TRUE)))
  /\ UNCHANGED others

-----------------------------------------------------------------------------
(* visitBinary: assignments *)
Assignments == {"assign", "addAssign"}
BeginAssignment ==
  /\ Visiting(Assignments, 0)
  /\ Traverse(Top, Fresh)
  /\ UNCHANGED others

SaveLValue ==
  /\ Visiting(Assignments, 1)
  /\ Traverse([Top EXCEPT !.lValues = <<builder.chain>>], Fresh)
  /\ UNCHANGED others

(* the left is also an r-value *)
Operated(right, lValue) ==
  LET left == AccessChainLoad(SetAccessChain(right.b, lValue))
  IN  [b |-> left.b, v |-> Operate("addAssign", left.v, right.v)]
Assigned(r, lValue) ==
  RValue(AccessChainStore(SetAccessChain(r.b, lValue), r.v), r.v)
EndAssignment ==
  /\ Visiting(Assignments, 2)
  /\ \E right \in {AccessChainLoad(builder)}, l \in {Top.lValues[1]} :
       Return(Assigned(IF Top.node.op = "assign" THEN right ELSE Operated(right, l), l))
  /\ UNCHANGED others

(* visitBinary: indices and swizzles extend the chain of their left side. *)
TraverseLeft ==
  /\ Visiting({"index", "component", "swizzle", "indirect"}, 0)
  /\ Traverse(Top, builder)
  /\ UNCHANGED others

PushIndex ==
  /\ Visiting({"index"}, 1)
  /\ Return(AccessChainPushLeft(builder, Constant(Top.node.k[1])))
  /\ UNCHANGED others

(* a constant index into a vector is a swizzle of size one *)
PushSwizzle ==
  /\ Visiting({"component", "swizzle"}, 1)
  /\ Return(AccessChainPushSwizzleRight(builder, Top.node.k, Top.node.kids[1].width))
  /\ UNCHANGED others

(* the chain so far is saved so that the index does not trash it *)
SavePartial ==
  /\ Visiting({"indirect"}, 1)
  /\ Traverse([Top EXCEPT !.lValues = <<builder.chain>>], Fresh)
  /\ UNCHANGED others

Indexed(index, partial, isVector) ==
  IF isVector THEN AccessChainPushComponent(SetAccessChain(index.b, partial), index.v)
  ELSE AccessChainPushLeft(SetAccessChain(index.b, partial), index.v)
PushIndirect ==
  /\ Visiting({"indirect"}, 2)
  /\ Return(Indexed(AccessChainLoad(builder), Top.lValues[1],
                    Top.node.kids[1].width > 0))
  /\ UNCHANGED others

(* visitBinary: all others.  && is one of them: both sides are evaluated. *)
Generic == {"add", "less", "and"}
BeginBinary ==
  /\ Visiting(Generic, 0)
  /\ Traverse(Top, Fresh)
  /\ UNCHANGED others

LoadLeft ==
  /\ Visiting(Generic, 1)
  /\ \E left \in {AccessChainLoad(builder)} :
       Traverse([Top EXCEPT !.values = <<left.v>>], ClearAccessChain(left.b))
  /\ UNCHANGED others

EndBinary ==
  /\ Visiting(Generic, 2)
  /\ \E right \in {AccessChainLoad(builder)} :
       Return(RValue(right.b, Operate(Top.node.op, Top.values[1], right.v)))
  /\ UNCHANGED others

-----------------------------------------------------------------------------
(* visitUnary: increments *)
Increments == {"preIncrement", "postIncrement"}
BeginUnary ==
  /\ Visiting(Increments, 0)
  /\ Traverse(Top, Fresh)
  /\ UNCHANGED others

One(width) == Value([j \in 1..width |-> 1], TRUE)
Increased(operand, result, op) ==
  RValue(AccessChainStore(operand.b, result),
         IF op = "preIncrement" THEN result ELSE operand.v)
EndUnary ==
  /\ Visiting(Increments, 1)
  /\ \E operand \in {AccessChainLoad(builder)} :
       Return(Increased(operand, Operate("add", operand.v, One(Len(operand.v.d))),
                        Top.node.op))
  /\ UNCHANGED others

-----------------------------------------------------------------------------
(* visitSelection of a ?: *)
BeginSelection ==
  /\ Visiting({"select"}, 0)
  /\ Traverse([Top EXCEPT !.obj = Newest(builder) + 1],
              Alloca(builder, Zero(Top.node.width)))
  /\ UNCHANGED others

Live(b, live) == [b EXCEPT !.live = live]
Kept(x, f) == Store(x.b, x.v, [obj |-> f.obj, path |-> <<>>])

(* Builder::If's constructor *)
BeginThen ==
  /\ Visiting({"select"}, 1)
  /\ \E condition \in {AccessChainLoad(builder)} :
       Traverse([Top EXCEPT !.values = <<condition.v>>, !.live = builder.live],
                Live(condition.b, builder.live /\ condition.v.d # <<0>>))
  /\ UNCHANGED others

BeginElse ==
  /\ Visiting({"select"}, 2)
  /\ Traverse(Top, Live(Kept(AccessChainLoad(builder), Top),
                        Top.live /\ Top.values[1].d = <<0>>))
  /\ UNCHANGED others

EndSelection ==
  /\ Visiting({"select"}, 3)
  /\ Return(SetAccessChainLValue(
       ClearAccessChain(Live(Kept(AccessChainLoad(builder), Top), Top.live)), Top.obj))
  /\ UNCHANGED others

-----------------------------------------------------------------------------
(* handleUserFunctionCall of bump(inout p, in q), which counts its calls   *)
(* in a global variable, adds q to p and returns what p was.  The space    *)
(* for the arguments is allocated first.                                   *)
Qualifiers == <<"inout", "in">>
Space(f, i) == [obj |-> f.obj + i - 1, path |-> <<>>]

BeginCall ==
  /\ Visiting({"call"}, 0)
  /\ Traverse([Top EXCEPT !.obj = Newest(builder) + 1],
              ClearAccessChain(Alloca(Alloca(builder, Zero(Top.node.kids[1].width)),
                                      Zero(Top.node.kids[2].width))))
  /\ UNCHANGED others

CopyIn(b, f) ==
  \E x \in {AccessChainLoad(b)} :
    Traverse([f EXCEPT !.lValues = IF Qualifiers[f.at] = "inout"
                                   THEN Append(@, b.chain) ELSE @],
             ClearAccessChain(Store(x.b, x.v, Space(f, f.at))))
NextArgument ==
  /\ Visiting({"call"}, 1)
  /\ CopyIn(builder, Top)
  /\ UNCHANGED others

(* llvm::CallInst *)
Bump(b, p, q) ==
  [b |-> Store(Store(b, Operate("add", Load(b, p), Load(b, q)), p),
               Operate("add", Load(b, [obj |-> Counter, path |-> <<>>]), Constant(1)),
               [obj |-> Counter, path |-> <<>>]),
   v |-> Load(b, p)]
CopyOut(call, f) ==
  RValue(AccessChainStore(SetAccessChain(call.b, f.lValues[1]),
                          Load(call.b, Space(f, 1))), call.v)
LastArgument(x, f) == Store(x.b, x.v, Space(f, 2))
Call ==
  /\ Visiting({"call"}, 2)
  /\ Return(CopyOut(Bump(LastArgument(AccessChainLoad(builder), Top),
                         Space(Top, 1), Space(Top, 2)), Top))
  /\ UNCHANGED others

-----------------------------------------------------------------------------
(* visitAggregate: EOpComma, EOpSequence and EOpLinkerObjects traverse     *)
(* their children in turn.                                                 *)
VisitNext ==
  /\ stack # <<>>
  /\ Visiting({"comma", "sequence", "linkerObjects"}, Top.at)
  /\ IF Top.at < Len(Top.node.kids) THEN Traverse(Top, builder) ELSE Return(builder)
  /\ linkageOnly' = IF Top.node.op = "linkerObjects"
                    THEN Top.at < Len(Top.node.kids) ELSE linkageOnly
  /\ UNCHANGED <<shader, written>> /\ UNCHANGED numbering

(* leaveFunction(true): the outputs are written, once. *)
Finish ==
  /\ stack = <<>>
  /\ builder.verdict = "ok"
  /\ written' = CopyOutPipeline(builder)
  /\ builder' = [builder EXCEPT !.verdict = "done"]
  /\ UNCHANGED <<shader, stack, linkageOnly>> /\ UNCHANGED numbering

Next ==
  \/ VisitSymbol \/ VisitConstantUnion
  \/ BeginAssignment \/ SaveLValue \/ EndAssignment
  \/ TraverseLeft \/ PushIndex \/ PushSwizzle \/ SavePartial \/ PushIndirect
  \/ BeginBinary \/ LoadLeft \/ EndBinary
  \/ BeginUnary \/ EndUnary
  \/ BeginSelection \/ BeginThen \/ BeginElse \/ EndSelection
  \/ BeginCall \/ NextArgument \/ Call
  \/ VisitNext \/ Finish

Spec == Init /\ [][Next]_vars
=============================================================================
