------------------------------ MODULE SpvToTop -------------------------------
(***************************************************************************)
(* SpvToTopTranslator (Frontends/SPIRV/SpvToTop.cpp): one pass over the    *)
(* instructions of a SPIR-V module.  Functions and labels are used before  *)
(* they are defined; what an <id> stands for is made at its first use and  *)
(* found in commonMap afterwards.                                          *)
(*                                                                         *)
(* Here are functions, labels, and what ends a block.  A "stmt" stands for *)
(* every instruction that appends to the current block and nothing else.   *)
(***************************************************************************)
EXTENDS TopBuilder, FiniteSets

CONSTANTS
  Modules,  \* the SPIR-V modules to translate: sequences of instructions
  Ids       \* the <id>s they use

(* What SPIR-V asks of a module, as far as the translator relies on it:    *)
(* the instructions follow each other as in the grammar, an <id> is        *)
(* defined once, calls are of functions of the module, but not of entry    *)
(* points, and branches, an OpBranch with one target, lead to labels of    *)
(* their function other than its first.                                    *)
Branches    == {"branch", "branchConditional", "switch"}
Terminators == Branches \union {"kill", "return"}
InBlock     == Terminators \union {"stmt", "call", "phi"}
Definitions == {"function", "label"}
Opcodes     == InBlock \union Definitions \union {"entryPoint", "functionEnd"}
Follows(op) ==
  CASE op = "entryPoint"  -> {"entryPoint", "function"}
    [] op = "functionEnd" -> {"function"}
    [] op = "function"    -> {"label"}
    [] op \in Terminators -> {"label", "functionEnd"}
    [] OTHER              -> InBlock
InOneFunction(m, v, w) == \A u \in v..w \union w..v : m[u].op # "functionEnd"
Valid(m) ==
  /\ m \in Seq([op : Opcodes, id : Ids \union {0}, labels : Seq(Ids)])
  /\ \A w \in DOMAIN m :
       /\ w = 1 => m[w].op \in {"entryPoint", "function"}
       /\ w = Len(m) => m[w].op \in {"entryPoint", "functionEnd"}
       /\ w < Len(m) => m[w + 1].op \in Follows(m[w].op)
       /\ m[w].op \in Definitions \union {"entryPoint", "call"} => m[w].id \in Ids
  /\ \A v, w \in DOMAIN m :
       /\ {m[v].op, m[w].op} \subseteq Definitions /\ m[v].id = m[w].id => v = w
       /\ m[v].op = "entryPoint" /\ m[w].op \in {"call", "label"} => m[v].id # m[w].id
       /\ m[v].op = "call" /\ m[w].op = "label" => m[v].id # m[w].id
  /\ \A w \in DOMAIN m : m[w].op = "call" =>
       \E v \in DOMAIN m : m[v].op = "function" /\ m[v].id = m[w].id
  /\ \A w \in DOMAIN m : m[w].op \in Branches =>
       /\ m[w].labels # <<>> /\ (m[w].op = "branch" => Len(m[w].labels) = 1)
       /\ \A i \in DOMAIN m[w].labels : \E v \in DOMAIN m :
            /\ m[v].op = "label" /\ m[v].id = m[w].labels[i]
            /\ InOneFunction(m, v, w)
            /\ m[v - 1].op # "function"

ASSUME ModulesAssumption == \A m \in Modules : Valid(m)
ASSUME IdsAssumption == 0 \notin Ids

VARIABLES
  spirv,           \* the module
  word,            \* the instruction to read next
  commonMap,       \* of each <id>: a label's block, a function's entry block
  entryPoint,      \* the functions an OpEntryPoint names
  currentModel,    \* whether the execution model is set
  currentFunction,
  b,               \* gla::Builder
  phase            \* "translating", "translated", or "unsupported": exit(1)

vars == <<spirv, word, commonMap, entryPoint, currentModel, currentFunction, b, phase>>

Nothing == 0
NoFunction == 0
EmptyBuilder ==
  [blocks |-> <<>>, layout |-> <<>>, insert |-> 0, loops |-> <<>>, switches |-> <<>>,
   stageEpilogue |-> 0, stageExit |-> 0]

Init ==
  /\ spirv \in Modules
  /\ word = 1
  /\ commonMap = [id \in Ids |-> Nothing]
  /\ entryPoint = {}
  /\ currentModel = FALSE
  /\ currentFunction = NoFunction
  /\ b = EmptyBuilder
  /\ phase = "translating"

-----------------------------------------------------------------------------
(* glaBuilder->makeFunctionEntry, makeMain.  The insert point stays.       *)
MakeFunctionEntry(c, fn) == CreateIn(c, "entry", fn)
MakeMainOf(c, fn) ==
  LET stages == Create(Create(c, "stage-epilogue", fn), "stage-exit", fn)
  IN  MakeFunctionEntry([stages EXCEPT !.stageEpilogue = Next1(c),
                                       !.stageExit = Next1(c) + 1], fn)

(* makeLabelBlock, for each label in turn: a label that is seen for the    *)
(* first time gets the next block.                                         *)
FirstSeen(labels) ==
  {i \in DOMAIN labels : /\ commonMap[labels[i]] = Nothing
                         /\ \A j \in 1..i - 1 : labels[j] # labels[i]}
Rank(seen, i) == Cardinality({j \in seen : j <= i})
LabelMap(c, labels) ==
  LET seen == FirstSeen(labels)
  IN  [id \in Ids |->
         IF \E i \in seen : labels[i] = id
         THEN Len(c.blocks) + Rank(seen, CHOOSE i \in seen : labels[i] = id)
         ELSE commonMap[id]]
(* mutant: a label seen before its OpLabel is only remembered *)
MakeLabelBlocksLater(c, labels) == [map |-> LabelMap(c, labels), b |-> c]
MakeLabelBlocks(c, labels) ==
  LET n == Cardinality(FirstSeen(labels))
  IN  [map |-> LabelMap(c, labels),
       b   |-> [c EXCEPT !.blocks = @ \o [k \in 1..n |-> NewBlock("L", currentFunction)],
                         !.layout = @ \o [k \in 1..n |-> Len(c.blocks) + k]]]

(* mutant: the search starts at the module's first word *)
GetNextLabelIdFromTop == spirv[CHOOSE w \in DOMAIN spirv : spirv[w].op = "label"].id
(* getNextLabelId: peek ahead *)
GetNextLabelId ==
  spirv[CHOOSE w \in DOMAIN spirv :
          /\ w > word /\ spirv[w].op = "label"
          /\ \A v \in word..w - 1 : spirv[v].op # "label"].id

InEntryPoint == currentFunction \in entryPoint

Instruction == spirv[word]
Reading(ops) == /\ phase = "translating"
                /\ word <= Len(spirv)
                /\ Instruction.op \in ops
GoOn == /\ word' = word + 1
        /\ UNCHANGED spirv
UnsupportedFunctionality == phase' = "unsupported"

-----------------------------------------------------------------------------
(* makeTop's loop and translateInstruction: an action per opcode. *)

(* setEntryPoint: only one is supported. *)
OpEntryPoint ==
  /\ Reading({"entryPoint"})
  /\ entryPoint' = entryPoint \union {Instruction.id}
  /\ IF currentModel
     THEN UnsupportedFunctionality /\ UNCHANGED currentModel
     ELSE currentModel' = TRUE /\ UNCHANGED phase
  /\ GoOn /\ UNCHANGED <<commonMap, currentFunction, b>>

(* mutant: a function is made again though a call has made it *)
EnterFunctionAnew(fn, label, c) ==
  [map |-> [commonMap EXCEPT ![fn] = Next1(c), ![label] = Next1(c)],
   b   |-> SetInsertPoint(MakeFunctionEntry(c, fn), Next1(c))]
(* handleOpFunction: a forward call may have made the function. *)
EnterMain(fn, label, c) ==
  [map |-> [commonMap EXCEPT ![fn] = Len(c.blocks), ![label] = Len(c.blocks)],
   b   |-> SetInsertPoint(c, Len(c.blocks))]
EnterFunction(fn, label, c) ==
  IF commonMap[fn] # Nothing
  THEN [map |-> [commonMap EXCEPT ![label] = commonMap[fn]],
        b   |-> SetInsertPoint(c, commonMap[fn])]
  ELSE [map |-> [commonMap EXCEPT ![fn] = Next1(c), ![label] = Next1(c)],
        b   |-> SetInsertPoint(MakeFunctionEntry(c, fn), Next1(c))]
OpFunction ==
  /\ Reading({"function"})
  /\ currentFunction' = Instruction.id
  /\ \E fn \in {Instruction.id} :
     \E t \in {IF fn \in entryPoint
               THEN EnterMain(fn, GetNextLabelId, MakeMainOf(b, fn))
               ELSE EnterFunction(fn, GetNextLabelId, b)} :
        commonMap' = t.map /\ b' = t.b
  /\ GoOn /\ UNCHANGED <<entryPoint, currentModel, phase>>

OpFunctionEnd ==
  /\ Reading({"functionEnd"})
  /\ b' = LeaveFunction(b, InEntryPoint)
  /\ currentFunction' = NoFunction
  /\ GoOn /\ UNCHANGED <<commonMap, entryPoint, currentModel, phase>>

OpLabel ==
  /\ Reading({"label"})
  /\ \E t \in {MakeLabelBlocks(b, <<Instruction.id>>)} :
        /\ commonMap' = t.map
        /\ b' = SetInsertPoint(t.b, t.map[Instruction.id])
  /\ GoOn /\ UNCHANGED <<entryPoint, currentModel, currentFunction, phase>>

(* OpStore, OpLoad, OpFAdd and the rest *)
OpInBlock ==
  /\ Reading({"stmt"})
  /\ b' = Emit(b, Event("stmt", word))
  /\ GoOn /\ UNCHANGED <<commonMap, entryPoint, currentModel, currentFunction, phase>>

(* createFunctionCall: a function not seen yet is made from the call. *)
OpFunctionCall ==
  /\ Reading({"call"})
  /\ \E fn \in {Instruction.id} :
       IF commonMap[fn] # Nothing
       THEN b' = Emit(b, Event("call", commonMap[fn])) /\ UNCHANGED commonMap
       ELSE /\ commonMap' = [commonMap EXCEPT ![fn] = Next1(b)]
            /\ b' = Emit(MakeFunctionEntry(b, fn), Event("call", Next1(b)))
  /\ GoOn /\ UNCHANGED <<entryPoint, currentModel, currentFunction, phase>>

(* OpBranch, OpBranchConditional and createSwitch; of a switch, the        *)
(* default's label is made first and is the terminator's last target.      *)
Targets(blocks, op) == IF op = "switch" THEN Append(Tail(blocks), Head(blocks)) ELSE blocks
TermKind(op) == CASE op = "branch" -> "br"
                  [] op = "branchConditional" -> "cond"
                  [] op = "switch" -> "switch"
OpBranch ==
  /\ Reading({"branch", "branchConditional", "switch"})
  /\ \E t \in {MakeLabelBlocks(b, Instruction.labels)} :
        /\ commonMap' = t.map
        /\ b' = Terminate(t.b, Term(TermKind(Instruction.op),
                  Targets([i \in DOMAIN Instruction.labels |->
                             t.map[Instruction.labels[i]]], Instruction.op), 0))
  /\ GoOn /\ UNCHANGED <<entryPoint, currentModel, currentFunction, phase>>

(* The builder makes no blocks behind a return or discard here:            *)
(* setNoPredecessorBlocks(false).                                          *)
Discard(c, main) ==
  IF Terminated(c) THEN c
  ELSE IF main THEN Terminate(Emit(c, Event("discard", 0)), Br(c.stageExit))
  ELSE Emit(c, Event("discard", 0))

(* mutant: only main's discard is looked at *)
OpKillStays ==
  /\ Reading({"kill"})
  /\ b' = Discard(b, InEntryPoint)
  /\ GoOn /\ UNCHANGED <<commonMap, entryPoint, currentModel, currentFunction, phase>>
(* A function's discard leaves its block open; it goes on to the next one. *)
OpKill ==
  /\ Reading({"kill"})
  /\ \E d \in {Discard(b, InEntryPoint)} :
       IF Terminated(d) \/ spirv[word + 1].op # "label"
       THEN b' = d /\ UNCHANGED commonMap
       ELSE \E t \in {MakeLabelBlocks(d, <<spirv[word + 1].id>>)} :
              /\ commonMap' = t.map
              /\ b' = Terminate(t.b, Br(t.map[spirv[word + 1].id]))
  /\ GoOn /\ UNCHANGED <<entryPoint, currentModel, currentFunction, phase>>

OpReturn ==
  /\ Reading({"return"})
  /\ b' = MakeReturn(b, TRUE, InEntryPoint)
  /\ GoOn /\ UNCHANGED <<commonMap, entryPoint, currentModel, currentFunction, phase>>

(* OpPhi, OpUndef, OpUnreachable and others *)
OpUnsupported ==
  /\ Reading({"phi"})
  /\ UnsupportedFunctionality
  /\ GoOn /\ UNCHANGED <<commonMap, entryPoint, currentModel, currentFunction, b>>

EndOfModule ==
  /\ phase = "translating"
  /\ word > Len(spirv)
  /\ phase' = "translated"
  /\ UNCHANGED <<spirv, word, commonMap, entryPoint, currentModel, currentFunction, b>>

Next ==
  \/ OpEntryPoint \/ OpFunction \/ OpFunctionEnd \/ OpLabel \/ OpInBlock
  \/ OpFunctionCall \/ OpBranch \/ OpKill \/ OpReturn \/ OpUnsupported
  \/ EndOfModule

Spec == Init /\ [][Next]_vars

-----------------------------------------------------------------------------
(* The module as SPIR-V reads it. *)
WordsOf(op) == {w \in DOMAIN spirv : spirv[w].op = op}
Labels == {spirv[w].id : w \in WordsOf("label")}
Functions == {spirv[w].id : w \in WordsOf("function")}
Latest(op, w) == CHOOSE v \in WordsOf(op) : v <= w /\ \A u \in WordsOf(op) : u <= w => u <= v
FunctionAt(w) == spirv[Latest("function", w)].id
FirstLabel(w) == CHOOSE v \in WordsOf("label") :
                   v > w /\ \A u \in WordsOf("label") : u > w => u >= v
WordOf(label) == CHOOSE w \in WordsOf("label") : spirv[w].id = label

(* The words of a label's block, without its last, which ends it. *)
LastWord(label) == CHOOSE w \in DOMAIN spirv :
                     /\ w > WordOf(label) /\ spirv[w].op \in Terminators
                     /\ \A v \in WordOf(label)..w - 1 : spirv[v].op \notin Terminators
Body(label) == SubSeq(spirv, WordOf(label) + 1, LastWord(label) - 1)
EndOf(label) == spirv[LastWord(label)]

(* What each becomes. *)
CodeFor(label) ==
  [i \in DOMAIN Body(label) |->
     IF Body(label)[i].op = "call" THEN Event("call", commonMap[Body(label)[i].id])
     ELSE Event("stmt", WordOf(label) + i)]
    \o (IF EndOf(label).op = "kill" THEN <<Event("discard", 0)>> ELSE <<>>)
Blocks(labels) == [i \in DOMAIN labels |-> commonMap[labels[i]]]
IsMain(fn) == fn \in entryPoint
EndsFor(label) ==
  LET e == EndOf(label)  main == IsMain(FunctionAt(WordOf(label)))
  IN  CASE e.op = "branch" -> {Br(commonMap[e.labels[1]])}
        [] e.op = "branchConditional" -> {Term("cond", Blocks(e.labels), 0)}
        [] e.op = "switch" -> {Term("switch", Blocks(Append(Tail(e.labels), e.labels[1])), 0)}
        [] e.op = "kill" /\ main -> {Br(b.stageExit)}
        \* the discard has ended the invocation, wherever its block leads
        [] e.op = "kill" /\ ~ main -> {b.blocks[commonMap[label]].term} \ {NoTerm, Double}
        [] e.op = "return" -> {IF main THEN Br(b.stageEpilogue) ELSE Ret}

Done == phase = "translated"
StageBlocks == {b.stageEpilogue, b.stageExit} \ {Nothing}  \* if there is a main

TypeOK ==
  /\ word \in 1..Len(spirv) + 1
  /\ commonMap \in [Ids -> 0..Len(b.blocks)]
  /\ entryPoint \subseteq Ids
  /\ currentFunction \in Ids \union {NoFunction}
  /\ b.insert \in 0..Len(b.blocks)
  /\ phase \in {"translating", "translated", "unsupported"}

(* commonMap, makeLabelBlock, handleOpFunction and createFunctionCall: in  *)
(* whatever order labels and functions are used and defined, the blocks    *)
(* are the module's control-flow graph.  Each label has a block of its     *)
(* own, in the function it is in, with its instructions and its ending;    *)
(* each call leads to the function with the called body.                   *)
SameGraph ==
  Done =>
    /\ \A l, m \in Labels : commonMap[l] = commonMap[m] => l = m
    /\ \A l \in Labels :
         /\ b.blocks[commonMap[l]].fn = FunctionAt(WordOf(l))
         /\ b.blocks[commonMap[l]].code = CodeFor(l)
         /\ b.blocks[commonMap[l]].term \in EndsFor(l)
    /\ \A w \in WordsOf("function") :
         commonMap[spirv[w].id] = commonMap[spirv[FirstLabel(w)].id]

(* LLVM's rules for the function lists: every block that is placed ends,   *)
(* is placed once and only jumps to placed blocks of its function; a       *)
(* function begins with its entry, which nothing jumps to; and there are   *)
(* no blocks but the labels' and main's two stage blocks.                  *)
InPlace(fn) == {i \in DOMAIN b.layout : b.blocks[b.layout[i]].fn = fn}
First(fn) == b.layout[CHOOSE i \in InPlace(fn) : \A j \in InPlace(fn) : i <= j]
Placed == {b.layout[i] : i \in DOMAIN b.layout}
WellFormed ==
  Done =>
    /\ Len(b.layout) = Cardinality(Placed)
    /\ Placed = {commonMap[l] : l \in Labels} \union StageBlocks
    /\ \A blk \in Placed :
         /\ b.blocks[blk].term.kind \notin {"none", "double"}
         /\ \A i \in DOMAIN b.blocks[blk].term.to :
              /\ b.blocks[blk].term.to[i] \in Placed
              /\ b.blocks[b.blocks[blk].term.to[i]].fn = b.blocks[blk].fn
    /\ \A fn \in Functions : /\ First(fn) = commonMap[fn]
                             /\ ~ HasPredecessor(b, commonMap[fn])

(* A block that has ended is left alone, also when a forward call or label *)
(* makes others while it is not the current one; an <id> keeps its meaning.*)
Settled ==
  [][/\ \A blk \in DOMAIN b.blocks :
          HasTerminator(b, blk) => b'.blocks[blk] = b.blocks[blk]
     /\ \A id \in Ids : commonMap[id] # Nothing => commonMap'[id] = commonMap[id]]_vars
=============================================================================
