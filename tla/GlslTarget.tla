----------------------------- MODULE GlslTarget -----------------------------
(***************************************************************************)
(* The GLSL back end (BottomToGLSL.cpp): the Bottom translator calls it    *)
(* for each instruction, phi copy and piece of control flow, in the order  *)
(* of the text it is to write.  It keeps the text each value is written    *)
(* with, invents names, and declares them in the scope that is open or     *)
(* globally.  A text is a variable's name and what is applied to it; a     *)
(* name is a root and the digits that follow it.                           *)
(***************************************************************************)
EXTENDS Integers, Sequences, FiniteSets, SequencesExt

CONSTANTS
  Shapes,   \* the orders of calls: for each [call, of, kinds, names, live, always]
  Input,    \* the name of the shader's one input
  LeftOut   \* of what the code gets wrong, what the shaders leave out

NoName == <<>>
Radix == 36
Figures == 10  \* the digits from here on are letters
Mapped == {"read", "extract", "negate"}  \* never assigned, always substituted
Kinds == Mapped \cup {"compute", "insert"}
Declares(call) == call \in {"declarePhiCopy", "declarePhiAlias"}

(* The phis of a function are declared before its first block; a phi is    *)
(* live where control arrives only if it has been copied on the way.       *)
Ordered(s) ==
  /\ s \in Seq(ToSet(s))
  /\ \A i \in DOMAIN s :
       /\ Declares(s[i].call) => \A j \in 1..i : Declares(s[j].call)
       /\ s[i].call = "addPhiCopy" =>
            s[i].of \in {j \in DOMAIN s : s[j].call = "declarePhiCopy"}
       /\ s[i].call = "addPhiAlias" =>
            s[i].of \in {j \in DOMAIN s : s[j].call = "declarePhiAlias"}
       /\ s[i].kinds \subseteq Kinds
       /\ s[i].live \subseteq
            {s[j].of : j \in {j \in 1..(i - 1) : s[j].call \in {"addPhiCopy", "addPhiAlias"}}}
ASSUME ShapesAssumption == \A s \in Shapes : Ordered(s)

VARIABLES
  shape,   \* the order of calls
  calls,   \* the calls so far: [call, of, kind, args, name, outer]
  usable,  \* the values that dominate the next call
  within,  \* for each open construct: [usable, exits, loop]
  target,  \* of the back end
  shader   \* for each call, the statements it wrote

glslVars == <<shape, calls, usable, within, target, shader>>

-----------------------------------------------------------------------------
(* Names.                                                                  *)

Bind(f, x, y) == [z \in DOMAIN f \cup {x} |-> IF z = x THEN y ELSE f[z]]

IntToString(n) ==
  CASE n = 0 -> <<>> [] n \in 1..(Radix - 1) -> <<n>>
    [] OTHER -> <<n % Radix, n \div Radix>>

(* What canonicalizeName leaves of a name: its end counting is dropped.    *)
Root(name) ==
  SubSeq(name, 1, CHOOSE k \in DOMAIN name :
    /\ k = 1 \/ name[k] >= Figures
    /\ \A j \in (k + 1)..Len(name) : name[j] < Figures)

(* Mutant: a repetition keeps the name.                                    *)
CanonicalUncounted(t, name) == [name |-> Root(name), target |-> t]
Canonical(t, name) ==
  LET root == Root(name)
      count == IF root \in DOMAIN t.canonMap THEN t.canonMap[root] + 1 ELSE 0
  IN  [name |-> root \o IntToString(count),
       target |-> [t EXCEPT !.canonMap = Bind(@, root, count)]]

(* The hashes of any two texts may be the same: an r more tells them apart. *)
Hashed(t) ==
  LET name == <<"H">> \o [i \in 1..Cardinality(t.hashedNames) |-> Radix]
  IN  [name |-> name, target |-> [t EXCEPT !.hashedNames = @ \cup {name}]]

Numbered(t) ==
  [name |-> <<"Lg">> \o IntToString(t.lastVariable + 1),
   target |-> [t EXCEPT !.lastVariable = @ + 1]]

MakeNewVariableName(t, name, rhs) ==
  IF name # NoName THEN Canonical(t, name)
  ELSE IF rhs THEN Hashed(t) ELSE Numbered(t)

-----------------------------------------------------------------------------
(* Declarations, and the text of a value.                                  *)

Start ==
  [valueMap |-> <<>>, canonMap |-> [n \in {Input} |-> 0], hashedNames |-> {}, lastVariable |-> 0,
   globals |-> <<Input>>, scopes |-> << <<>> >>]

Inner(t) == Len(t.scopes)

EmitVariableDeclaration(t, name, global) ==
  LET known == IF name \in DOMAIN t.canonMap THEN t
               ELSE [t EXCEPT !.canonMap = Bind(@, name, 0)]
  IN  IF ~ global THEN [known EXCEPT !.scopes[Inner(t)] = Append(@, name)]
      ELSE IF name \in ToSet(t.globals) THEN known
      ELSE [known EXCEPT !.globals = Append(@, name)]

MapExpressionString(t, v, text) == [t EXCEPT !.valueMap = Bind(@, v, text)]

EmitGlaValueDeclaration(t, v, irName, rhs, forceGlobal) ==
  IF v \in DOMAIN t.valueMap THEN t
  ELSE LET new == MakeNewVariableName(t, irName, rhs)
       IN  EmitVariableDeclaration(
             MapExpressionString(new.target, v, [var |-> new.name, ops |-> <<>>]),
             new.name, forceGlobal)

NewScope(t) == [t EXCEPT !.scopes = Append(@, <<>>)]
LeaveScope(t) == [t EXCEPT !.scopes = Front(@)]

Apply(text, op) == [text EXCEPT !.ops = Append(@, op)]

(* A statement: what it does, to which name, whether that is declared      *)
(* right there, with which text, which the instruction by may compute on.  *)
Statement(do, name, fresh, text, by) ==
  [do |-> do, name |-> name, fresh |-> fresh, text |-> text, by |-> by]
NoText == [var |-> NoName, ops |-> <<>>]
Control(do, text) == <<Statement(do, NoName, FALSE, text, 0)>>

(* Assignment::emit, for an expression that computes on text.              *)
Emit(t, v, irName, text, by) ==
  LET declared == EmitGlaValueDeclaration(t, v, irName, TRUE, FALSE)
  IN  [target |-> declared,
       text |-> <<Statement("assign", declared.valueMap[v].var,
                            v \notin DOMAIN t.valueMap, text, by)>>]

Silent(t) == [target |-> t, text |-> <<>>]
-----------------------------------------------------------------------------
(* The back end's operations, of the call c, which is the i-th.            *)

DeclarePhiCopy(t, c, i) ==
  LET declared == EmitGlaValueDeclaration(t, i, c.name, FALSE, FALSE)
  IN  [target |-> declared,
       text |-> <<Statement("declare", declared.valueMap[i].var, TRUE, NoText, 0)>>]

AddPhiCopy(t, c) == Emit(t, c.of, NoName, t.valueMap[c.args[1]], 0)
AddPhiAlias(t, c) == Silent(MapExpressionString(t, c.of, t.valueMap[c.args[1]]))

(* Mutant: the vector's own variable is overwritten.                       *)
InsertElementInPlace(t, c, i) ==
  LET vector == t.valueMap[c.args[1]]
  IN  [target |-> MapExpressionString(t, i, vector),
       text |-> <<Statement("member", vector.var, FALSE, t.valueMap[c.args[2]], 0)>>]
(* The code copies the vector first: its other uses see it as it was.      *)
InsertElement(t, c, i) ==
  LET copy == Emit(t, i, c.name, t.valueMap[c.args[1]], 0)
  IN  [copy EXCEPT !.text = Append(@, Statement("member", copy.target.valueMap[i].var,
                                               FALSE, t.valueMap[c.args[2]], 0))]

Substitute(t, c, i) ==
  Silent(MapExpressionString(t, i,
    IF c.kind = "read" THEN [var |-> Input, ops |-> <<>>]
    ELSE Apply(t.valueMap[c.args[1]], c.kind)))

(* Mutant: no global declaration for what is referenced outside.           *)
AddInstructionLocal(t, c, i) ==
  CASE c.kind \in Mapped -> Substitute(t, c, i)
    [] c.kind = "insert" -> InsertElement(t, c, i)
    [] c.kind = "compute" -> Emit(t, i, c.name, t.valueMap[c.args[1]], i)
AddInstruction(t, c, i) ==
  LET known == IF c.outer THEN EmitGlaValueDeclaration(t, i, c.name, FALSE, TRUE) ELSE t
  IN  CASE c.kind \in Mapped -> Substitute(known, c, i)
        [] c.kind = "insert" -> InsertElement(known, c, i)
        [] c.kind = "compute" -> Emit(known, i, c.name, known.valueMap[c.args[1]], i)

AddIf(t, c) == [target |-> NewScope(t), text |-> Control("if", t.valueMap[c.args[1]])]
(* Mutant: the else part is opened within the then part.                   *)
AddElseWithin(t) == [target |-> NewScope(t), text |-> Control("else", NoText)]
AddElse(t) == [target |-> NewScope(LeaveScope(t)), text |-> Control("else", NoText)]
AddEndif(t) == [target |-> LeaveScope(t), text |-> Control("endif", NoText)]
BeginLoop(t) == [target |-> NewScope(t), text |-> Control("loop", NoText)]
EndLoop(t) == [target |-> LeaveScope(t), text |-> Control("endloop", NoText)]
AddLoopExit(t, c) ==
  [target |-> t,
   text |-> Control("break", IF c.args = <<>> THEN NoText ELSE t.valueMap[c.args[1]])]
EmitMapGlaIOIntrinsic(t, c) ==
  [target |-> t, text |-> Control("write", t.valueMap[c.args[1]])]

Called(t, c, i) ==
  CASE c.call = "declarePhiCopy" -> DeclarePhiCopy(t, c, i)
    [] c.call = "declarePhiAlias" -> Silent(t)
    [] c.call = "addPhiCopy" -> AddPhiCopy(t, c)
    [] c.call = "addPhiAlias" -> AddPhiAlias(t, c)
    [] c.call = "addInstruction" -> AddInstruction(t, c, i)
    [] c.call = "addIf" -> AddIf(t, c)
    [] c.call = "addElse" -> AddElse(t)
    [] c.call = "addEndif" -> AddEndif(t)
    [] c.call = "beginLoop" -> BeginLoop(t)
    [] c.call = "addLoopExit" -> AddLoopExit(t, c)
    [] c.call = "endLoop" -> EndLoop(t)
    [] c.call = "write" -> EmitMapGlaIOIntrinsic(t, c)

-----------------------------------------------------------------------------
(* The Bottom translator's calls for a function's IR.  A construct of that *)
(* function decides which values dominate what follows; a value computed   *)
(* in a loop is used after it only if it is known to be.                   *)

Now == shape[Len(calls) + 1]
Running == Len(calls) < Len(shape)
IsPhi(v) == Declares(calls[v].call)
Vector(v) == calls[v].kind # "extract"

Loops == {k \in DOMAIN within : within[k].loop}
Loop == CHOOSE k \in Loops : \A j \in Loops : j <= k

Call(args, kind, name, outer) ==
  LET c == [call |-> Now.call, of |-> Now.of, kind |-> kind, args |-> args,
            name |-> name, outer |-> outer]
      done == Called(target, c, Len(calls) + 1)
  IN  /\ calls' = Append(calls, c)
      /\ target' = done.target
      /\ shader' = Append(shader, done.text)
      /\ UNCHANGED shape
Plain(args) == Call(args, "none", NoName, FALSE)

Init ==
  /\ shape \in Shapes
  /\ calls = <<>> /\ usable = {} /\ within = <<>> /\ target = Start /\ shader = <<>>

DeclarePhi ==
  /\ Running /\ Declares(Now.call)
  /\ \E name \in Now.names : Call(<<>>, "none", name, FALSE)
  /\ UNCHANGED <<usable, within>>

Operands(kind) ==
  CASE kind = "read" -> {<<>>}
    [] kind = "insert" -> {a \in usable \X usable : Vector(a[1])}
    [] kind = "extract" -> {<<a>> : a \in {v \in usable : Vector(v)}}
    [] OTHER -> {<<a>> : a \in usable}

Instruction ==
  /\ Running /\ Now.call = "addInstruction"
  /\ \E kind \in Now.kinds, outer \in BOOLEAN :
     \E args \in Operands(kind),
        name \in (IF kind \in Mapped THEN {NoName} ELSE Now.names) :
       /\ outer => Loops # {}
       /\ Call(args, kind, name, outer)
  /\ usable' = usable \cup {Len(calls) + 1}
  /\ UNCHANGED within

(* The phis of one edge change together; the copies are made in order.     *)
Copied ==
  {calls[i].of : i \in {i \in DOMAIN calls :
                          \A j \in i..Len(calls) : calls[j].call = "addPhiCopy"}}
PhiCopy ==
  /\ Running /\ Now.call \in {"addPhiCopy", "addPhiAlias"}
  /\ \E v \in usable :
       /\ Now.call = "addPhiAlias" => calls[v].kind = "read"
       /\ "swapped phis" \in LeftOut =>
            \A p \in Copied : target.valueMap[p].var # target.valueMap[v].var
       /\ Plain(<<v>>)
  /\ UNCHANGED <<usable, within>>

Open(loop) == within' = Append(within, [usable |-> usable, exits |-> {}, loop |-> loop])
Inside == within[Len(within)]

If ==
  /\ Running /\ Now.call = "addIf"
  /\ \E v \in usable : Plain(<<v>>)
  /\ Open(FALSE) /\ UNCHANGED usable
Else ==
  /\ Running /\ Now.call = "addElse" /\ within # <<>>
  /\ Plain(<<>>)
  /\ usable' = Inside.usable /\ UNCHANGED within
Endif ==
  /\ Running /\ Now.call = "addEndif" /\ within # <<>>
  /\ Plain(<<>>)
  /\ usable' = Inside.usable \cup Now.live /\ within' = Front(within)
Begin ==
  /\ Running /\ Now.call = "beginLoop"
  /\ Plain(<<>>)
  /\ Open(TRUE) /\ usable' = usable \cup Now.live
Exit ==
  /\ Running /\ Now.call = "addLoopExit" /\ Loops # {}
  /\ \E args \in (IF Now.always THEN {<<>>} ELSE {<<v>> : v \in usable}) : Plain(args)
  /\ within' = [within EXCEPT ![Loop].exits = @ \cup {usable}]
  /\ UNCHANGED usable

(* What is used behind the loop must be known to be: its declaration is    *)
(* global.  The text of one that is substituted may still name what is     *)
(* declared in the loop.                                                   *)
SeenOutside(v) ==
  LET var == target.valueMap[v].var
  IN  \/ var \in ToSet(target.globals)
      \/ \E k \in 1..Len(within) : var \in ToSet(target.scopes[k])
UsedBehind(v) ==
  \/ v \in Inside.usable
  \/ IsPhi(v)
  \/ /\ calls[v].outer
     /\ ("scoped text" \in LeftOut /\ calls[v].kind \in {"extract", "negate"}) => SeenOutside(v)
End ==
  /\ Running /\ Now.call = "endLoop" /\ within # <<>>
  /\ Plain(<<>>)
  /\ usable' = Now.live \cup
       {v \in UNION Inside.exits : (\A e \in Inside.exits : v \in e) /\ UsedBehind(v)}
  /\ within' = Front(within)
Write ==
  /\ Running /\ Now.call = "write"
  /\ \E v \in usable : Plain(<<v>>)
  /\ UNCHANGED <<usable, within>>

Next ==
  DeclarePhi \/ Instruction \/ PhiCopy \/ If \/ Else \/ Endif \/ Begin \/ Exit \/ End \/ Write

Spec == Init /\ [][Next]_glslVars
-----------------------------------------------------------------------------
(* Every value has the text and the name it may be used with, and a scope  *)
(* of the text is open for each construct of the IR.                       *)
TypeOK ==
  /\ usable \subseteq DOMAIN target.valueMap
  /\ Len(target.scopes) = Len(within) + 1
  /\ Len(shader) = Len(calls)
  /\ DOMAIN target.valueMap \subseteq DOMAIN calls

(* GLSL's rule for the names used: each one in a statement is declared, in *)
(* an open scope or globally, whatever was substituted into it.            *)
NamesOf(s) == {s.name, s.text.var} \ {NoName}
Scoped ==
  shader # <<>> => \A i \in DOMAIN Last(shader) :
    NamesOf(Last(shader)[i]) \subseteq
      ToSet(target.globals) \cup UNION {ToSet(target.scopes[k]) : k \in DOMAIN target.scopes}

(* GLSL's rule for the names declared: no scope declares one twice.        *)
Distinct ==
  /\ IsInjective(target.globals)
  /\ \A k \in DOMAIN target.scopes : IsInjective(target.scopes[k])
=============================================================================
