------------------------------ MODULE MiddleEnd ------------------------------
(***************************************************************************)
(* From a shader's text to structured code: the front end builds main's    *)
(* blocks, the passes of PrivateManager::runLLVMOptimizations1 run over    *)
(* them in order, and the Bottom translator walks what they leave.         *)
(* Functions have been inlined by then: there is only main.                *)
(***************************************************************************)
EXTENDS GlslangToTop, BottomTranslator

CONSTANTS
  MaxLoops,   \* bound: loops in a program that is translated
  Unroll,     \* whether loops may be unrolled: the option that has them rotated
  PlainTests, \* whether the shader's conditions may be, may not be plain comparisons
  PlainBreaks \* whether a shader with plain comparisons may break

ASSUME OptionAssumption ==
  MaxLoops \in Nat /\ Unroll \in BOOLEAN /\ PlainTests \subseteq BOOLEAN /\ PlainBreaks \in BOOLEAN
  /\ ~ HelperFunctions /\ SwitchBodies = {}

VARIABLES
  built,    \* the graph the front end built, without dead blocks
  pass      \* the position in the schedule, 0 before the passes

midVars == <<built, pass, graph, verdict, translation>>

Passes == Schedule(Unroll)

(* Main's blocks as a graph.  Dead blocks went with IPSCCP. *)
MainBlocks == {i \in BlockIds : b.blocks[i].fn = "main"}
Tests == {b.blocks[i].term.at : i \in {j \in BlockIds : b.blocks[j].term.kind = "cond"}}
Lowered(plain) ==
  DropUnreachable(
    [blocks |-> MainBlocks,
     succ |-> [i \in MainBlocks |-> b.blocks[i].term.to],
     code |-> [i \in MainBlocks |-> b.blocks[i].code],
     test |-> [i \in MainBlocks |-> b.blocks[i].term.at],
     plain |-> IF plain THEN Tests ELSE {}])

NoGraph == [blocks |-> {}, succ |-> <<>>, code |-> <<>>, test |-> <<>>, plain |-> {}]

MidInit ==
  /\ Init
  /\ built = NoGraph /\ graph = NoGraph /\ pass = 0 /\ verdict = "ok" /\ TranslatorInit

(* Programs with a loop that nothing leaves are left out: they cannot be    *)
(* written as a stage that returns, and an assertion ends the translation.  *)
CanEnd ==
  LET g == Lowered(FALSE)
  IN  g.blocks \subseteq Walk(Backwards(g), {Exit} \cap g.blocks, {})
Ops == {text[i].op : i \in DOMAIN text}

Translatable ==
  CanEnd /\ Cardinality({i \in DOMAIN text : text[i].op = "loop"}) <= MaxLoops

Lower ==
  /\ phase = "built" /\ pass = 0 /\ Translatable
  /\ \E plain \in PlainTests :
       /\ plain /\ "break" \in Ops => PlainBreaks
       /\ built' = Lowered(plain) /\ graph' = built'
  /\ pass' = 1
  /\ UNCHANGED <<vars, verdict, translation>>

RunPass ==
  /\ pass \in DOMAIN Passes /\ verdict = "ok"
  /\ \E o \in Run(Passes[pass], graph, HasControlFlow(built)) :
       graph' = o.g /\ verdict' = o.verdict
  /\ pass' = pass + 1
  /\ UNCHANGED <<vars, built, translation>>

(* PrivateManager::translateBottomToTarget *)
TranslateBottomToTarget ==
  /\ pass = Len(Passes) + 1 /\ verdict = "ok"
  /\ StartFunctionBody
  /\ pass' = pass + 1
  /\ UNCHANGED <<vars, built>>

MidNext ==
  \/ Next /\ UNCHANGED midVars
  \/ Lower \/ RunPass \/ TranslateBottomToTarget
  \/ Translate /\ UNCHANGED <<vars, built, pass>>
=============================================================================
