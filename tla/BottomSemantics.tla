--------------------------- MODULE BottomSemantics ---------------------------
(***************************************************************************)
(* What the Bottom translator promises of the structured code it writes:   *)
(* running it does what the graph it was given does.  The code runs, and   *)
(* the graph with it: each time the code reaches a block's instructions,   *)
(* the graph must be at that block, and the copies made before must have   *)
(* given its phis the values of the way the graph came.  A test's outcome  *)
(* is chosen when the block that computes it runs, for both.               *)
(***************************************************************************)
EXTENDS MiddleEnd
LOCAL INSTANCE SequencesExt

VARIABLES
  at,    \* where the code is, 0 before it runs
  next,  \* the block the graph is at, None at its end
  from,  \* the block the graph came from
  test,  \* the successor each block's test chose, when it ran last
  phi,   \* the way in each block's phis hold the values of
  first  \* where the graph the front end built may be, "lost" if it is nowhere

runVars == <<at, next, from, test, phi, first>>

RunInit ==
  /\ MidInit
  /\ at = 0 /\ next = None /\ from = None /\ test = <<>> /\ phi = <<>> /\ first = {}

-----------------------------------------------------------------------------
(* The graph the front end built runs too, through what can be seen: the   *)
(* events, and the outcomes of the tests that are still there.  A test the *)
(* passes have removed may come out either way without a difference.       *)
Place(bb, i) == [block |-> bb, done |-> i]
Lost == Place(None, 0)
Remaining == {graph.test[x] : x \in Entries(graph)}

(* The places from which something is seen next, from event i of block bb. *)
RECURSIVE Seen(_, _)
Seen(bb, i) ==
  IF \/ i < Len(built.code[bb]) \/ built.succ[bb] = <<>>
     \/ IsConditional(built, bb) /\ built.test[bb] \in Remaining
  THEN {Place(bb, i)}
  ELSE UNION {Seen(d, 0) : d \in Succs(built, bb)}

SeeEvent(places, event) ==
  UNION {IF p # Lost /\ p.done < Len(built.code[p.block]) /\ built.code[p.block][p.done + 1] = event
         THEN Seen(p.block, p.done + 1) ELSE {Lost} : p \in places}
SeeTest(places, t, d) ==
  UNION {IF p # Lost /\ p.done = Len(built.code[p.block]) /\ built.test[p.block] = t
         THEN Seen(built.succ[p.block][d], 0) ELSE {Lost} : p \in places}
(* Block x of the graph runs, and goes on to its successor d. *)
Follow(places, x, d) ==
  LET after == FoldLeft(SeeEvent, places, graph.code[x])
  IN  IF IsConditional(graph, x) THEN SeeTest(after, graph.test[x], d) ELSE after

Start ==
  /\ verdict = "translated" /\ at = 0
  /\ at' = 1 /\ next' = Entry /\ from' = None
  /\ test' = [x \in graph.blocks |-> 0] /\ phi' = [x \in graph.blocks |-> None]
  /\ first' = Seen(Entry, 0)
  /\ UNCHANGED <<vars, midVars>>

-----------------------------------------------------------------------------
(* The back end's language: blocks in braces. *)
(* From k on, where the last of so many open braces is closed; up to k,    *)
(* where a loop opens that is not closed either.                           *)
Opens(k) == calls[k].op \in {"if", "loop", "while"}
Closes(k) == calls[k].op \in {"endif", "endloop"}
RECURSIVE Forth(_, _), Back(_, _)
Forth(k, open) ==
  CASE Opens(k) -> Forth(k + 1, open + 1)
    [] Closes(k) -> IF open = 1 THEN k ELSE Forth(k + 1, open - 1)
    [] OTHER -> Forth(k + 1, open)
Back(k, closed) ==
  CASE Closes(k) -> Back(k - 1, closed + 1)
    [] Opens(k) /\ closed > 0 -> Back(k - 1, closed - 1)
    [] OTHER -> IF calls[k].op \in {"loop", "while"} THEN k ELSE Back(k - 1, closed)
CloseOf(i) == Forth(i + 1, 1)
LoopOf(i) == Back(i - 1, 0)
ElseOf(i) == {k \in (i+1)..CloseOf(i) : calls[k].op = "else" /\ CloseOf(k) = CloseOf(i)}
SkipIf(i) == IF ElseOf(i) = {} THEN CloseOf(i) ELSE CHOOSE k \in ElseOf(i) : TRUE

Running == at \in DOMAIN calls
Does(op) == Running /\ calls[at].op = op
ThisCall == calls[at]
Finished == Len(calls) + 1
Chosen == test[ThisCall.at] = ThisCall.when

(* The block whose instructions come now is where the graph is, and its    *)
(* phis are those of the way it came.                                      *)
OnTime == ThisCall.at = next /\ (Joins(graph, next) /\ next # Exit => phi[next] = from)

(* The graph runs block x: it discards, returns, or goes on to successor d. *)
Pass(x, d) ==
  /\ from' = x
  /\ next' = IF HasDiscard(graph, x) \/ d = 0 THEN None ELSE graph.succ[x][d]
  /\ test' = [test EXCEPT ![x] = d]
  /\ first' = Follow(first, x, d)

Outcomes(x) == IF graph.succ[x] = <<>> THEN {0} ELSE DOMAIN graph.succ[x]

DoInst ==
  /\ Does("inst") /\ OnTime
  /\ \E d \in Outcomes(next) : Pass(next, d)
  /\ at' = IF HasDiscard(graph, next) THEN Finished ELSE at + 1
  /\ UNCHANGED phi
DoWhile ==
  /\ Does("while") /\ OnTime
  /\ \E d \in Outcomes(next) :
       Pass(next, d) /\ at' = IF d = ThisCall.when THEN at + 1 ELSE CloseOf(at) + 1
  /\ UNCHANGED phi
DoCopy ==
  /\ Does("copy") /\ phi' = [phi EXCEPT ![ThisCall.to] = ThisCall.at]
  /\ at' = at + 1 /\ UNCHANGED <<next, from, test, first>>
DoFlow ==
  /\ \/ Does("if") /\ at' = IF Chosen THEN at + 1 ELSE SkipIf(at) + 1
     \/ Does("else") /\ at' = CloseOf(at) + 1
     \/ (Does("endif") \/ Does("loop")) /\ at' = at + 1
     \/ (Does("endloop") \/ Does("continue")) /\ at' = LoopOf(at)
     \/ Does("break") /\ at' = CloseOf(LoopOf(at)) + 1
     \/ Does("breakIf") /\ at' = IF Chosen THEN CloseOf(LoopOf(at)) + 1 ELSE at + 1
     \/ Does("return") /\ at' = Finished
  /\ UNCHANGED <<next, from, test, phi, first>>

Advance == (DoInst \/ DoWhile \/ DoCopy \/ DoFlow) /\ UNCHANGED <<vars, midVars>>

(* The shader has run, or was given up. *)
Rest == /\ \/ at = Finished
           \/ verdict \in {"unsupported", "assert"}
           \/ phase = "built" /\ pass = 0 /\ ~ Translatable
        /\ UNCHANGED <<vars, midVars, runVars>>

RunNext == (MidNext /\ UNCHANGED runVars) \/ Start \/ Advance \/ Rest
RunSpec == RunInit /\ [][RunNext]_<<vars, midVars, runVars>>
-----------------------------------------------------------------------------
(* The structured code runs the blocks the graph would run, in that order,  *)
(* with phis that hold the values of the way the graph came; it ends where  *)
(* the graph ends.  (BottomTranslator.cpp: breaks, continues, returns, the  *)
(* inversion of tests and every addPhiCopies.)                              *)
RunsAsGraph ==
  /\ (Does("inst") \/ Does("while")) => OnTime
  /\ (at > 0 /\ at = Finished) => next = None

(* What is seen of the code, statements and tests, is what would be seen of *)
(* the graph the front end built: the passes neither lose, repeat nor       *)
(* reorder anything (CanonicalizeCFG, FlattenConditionalAssignments).       *)
KeepsBehaviour ==
  /\ Lost \notin first
  /\ (at > 0 /\ at = Finished) => first = {Place(Exit, 0)}

(* The passes leave what the translator asserts: one latch to a loop, one   *)
(* exit merge, no shared merges, every block of a loop and of main handled. *)
(* (Discards on every way leave no block for the end of the stage.)         *)
NeverAsserts ==
  verdict = "assert" => \E i \in DOMAIN text : text[i].op = "discard"

(* Without continues every shader is translated: no cross edge is too hard  *)
(* to remove, no exit block is shared, no block leaves a loop twice.        *)
Supported ==
  verdict = "unsupported" => \E i \in DOMAIN text : text[i].op = "continue"

(* A loop of a shader that can end has something in it that leaves it: a    *)
(* break is only left out behind a return or a discard                      *)
(* (BottomTranslator.cpp, setUpLoopExit).                                   *)
LoopsCanBeLeft ==
  verdict = "translated" => \A i \in DOMAIN calls : calls[i].op = "loop" =>
    \E k \in i..CloseOf(i) :
      \/ calls[k].op \in {"break", "breakIf"} /\ LoopOf(k) = i
      \/ calls[k].op = "return"
      \/ calls[k].op = "inst" /\ HasDiscard(graph, calls[k].at)
=============================================================================
