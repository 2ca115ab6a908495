---------------------------- MODULE TopSemantics ----------------------------
(***************************************************************************)
(* What the front end promises of the blocks it builds: running them does  *)
(* what the shader's source says.  Once the translation unit is built, the *)
(* blocks and the source text run side by side.  Whenever one of them      *)
(* reaches something that can be told from outside (a statement, a test, a *)
(* discard, the copy out of the pipeline outputs, the end) it waits for    *)
(* the other, and the two must have reached the same thing; a test's       *)
(* outcome is then chosen once for both.                                   *)
(***************************************************************************)
EXTENDS GlslangToTop

VARIABLES
  runs,  \* the function being run, "none" before the run
  pc,    \* where the blocks are: block and index of the next event
  pos    \* where the text is: a token and which part of its construct

runVars == <<runs, pc, pos>>

-----------------------------------------------------------------------------
(* The text, by GLSL's rules. *)

At(p) == [at |-> p, part |-> "at"]
TestOf(p) == [at |-> p, part |-> "test"]
TerminalOf(p) == [at |-> p, part |-> "terminal"]
CopyingOut == [at |-> 0, part |-> "copyOut"]
Ended == [at |-> 0, part |-> "end"]

Closers == {"endif", "endloop", "endswitch"}
End(p) == CHOOSE q \in DOMAIN text : text[q].of = p /\ text[q].op \in Closers
After(p) == At(End(p) + 1)
Segment(p, s) == At(1 + CHOOSE q \in DOMAIN text :
                             text[q].op = "segment" /\ text[q].of = p /\ text[q].arg = s)
Body(fn) == At(1 + CHOOSE q \in DOMAIN text :
                        text[q].op = "function" /\ text[q].arg = fn)

(* A shader runs all its global initializers, in order, before main. *)
Initializers == {q \in DOMAIN text : text[q].op \in {"init", "initFlow"}}
InitializersFrom(p) ==
  LET left == {q \in Initializers : q >= p}
  IN  IF left = {} THEN Body("main")
      ELSE At(CHOOSE q \in left : \A r \in left : q <= r)

(* Leaving a function: main's outputs are copied out, a discard's are not. *)
Returned == IF runs = "main" THEN CopyingOut ELSE Ended

(* An iteration of loop p is over: its terminal, then its test. *)
AfterTerminal(p) == IF text[p].arg.test THEN TestOf(p) ELSE At(p + 1)
Continued(p) == IF text[p].arg.terminal THEN TerminalOf(p) ELSE AfterTerminal(p)

TextSilent ==
  /\ pos.part = "at"
  /\ text[pos.at].op \notin {"stmt", "discard", "if", "switch", "init", "initFlow"}

TextShows ==
  CASE pos.part \in {"copyOut", "end"} -> Event(pos.part, 0)
    [] pos.part = "terminal" -> Event("terminal", pos.at)
    [] pos.part = "then"     -> Event("initThen", pos.at)
    [] pos.part = "else"     -> Event("initElse", pos.at)
    [] OTHER                 -> Event(text[pos.at].op, pos.at)

(* Where a silent token leads. *)
TextGoes ==
  LET p == pos.at  t == text[p]
  IN  CASE t.op \in {"endif", "endswitch", "segment"} -> At(p + 1)
        [] t.op = "else"        -> After(t.of)
        [] t.op = "loop"        -> IF t.arg.testFirst /\ t.arg.test THEN TestOf(p)
                                   ELSE At(p + 1)
        [] t.op = "endloop"     -> Continued(t.of)
        [] t.op = "continue"    -> Continued(t.of)
        [] t.op = "break"       -> After(t.of)
        [] t.op = "return"      -> Returned
        [] t.op = "endfunction" -> Returned

(* The outcomes of what the text shows: a test's truth, a switch's label. *)
Outcomes ==
  IF pos.part = "test" THEN BOOLEAN
  ELSE IF pos.part # "at" THEN {TRUE}
  ELSE IF text[pos.at].op = "switch" THEN 1..(Len(text[pos.at].arg.values) + 1)
  ELSE IF text[pos.at].op \in {"if", "initFlow"} THEN BOOLEAN
  ELSE {TRUE}

Else(p) == {q \in DOMAIN text : text[q].op = "else" /\ text[q].of = p}
IfGoes(p, d) == IF d THEN At(p + 1)
                ELSE IF Else(p) = {} THEN After(p)
                ELSE At(1 + CHOOSE q \in Else(p) : TRUE)
SwitchGoes(p, d) ==
  LET values == text[p].arg.values
      to     == IF d <= Len(values) THEN values[d] ELSE text[p].arg.default
  IN  IF to = -1 THEN After(p) ELSE Segment(p, to)

TextAfter(d) ==
  LET p == pos.at
  IN  CASE pos.part = "copyOut"  -> Ended
        [] pos.part = "terminal" -> AfterTerminal(p)
        [] pos.part = "test"     -> IF d THEN At(p + 1) ELSE After(p)
        [] pos.part \in {"then", "else"} -> InitializersFrom(p + 1)
        [] pos.part = "at" /\ text[p].op = "stmt" -> At(p + 1)
        [] pos.part = "at" /\ text[p].op = "init" -> InitializersFrom(p + 1)
        [] pos.part = "at" /\ text[p].op = "initFlow" ->
             [at |-> p, part |-> IF d THEN "then" ELSE "else"]
        [] pos.part = "at" /\ text[p].op = "if" -> IfGoes(p, d)
        [] pos.part = "at" /\ text[p].op = "switch" -> SwitchGoes(p, d)
        \* a function's discard lets the function go on; main's ends the shader
        [] pos.part = "at" /\ text[p].op = "discard" ->
             IF runs = "main" THEN Ended ELSE At(p + 1)

-----------------------------------------------------------------------------
(* The blocks. *)

Block == b.blocks[pc.block]
InCode == pc.index <= Len(Block.code)
BlocksSilent == ~ InCode /\ Block.term.kind = "br"

BlocksShow ==
  IF InCode THEN Block.code[pc.index]
  ELSE CASE Block.term.kind \in {"cond", "switch"} ->
              Event(text[Block.term.at].op, Block.term.at)
         [] Block.term.kind = "ret" -> Event("end", 0)
         [] OTHER -> Event(Block.term.kind, 0)   \* nowhere to go

To(blk) == [block |-> blk, index |-> 1]

(* A loop's condition is negated: its first target leaves the loop. *)
BlocksAfter(d) ==
  IF InCode THEN [pc EXCEPT !.index = @ + 1]
  ELSE CASE Block.term.kind = "switch" -> To(Block.term.to[d])
         [] Block.term.kind = "cond" ->
              To(Block.term.to[IF d = (text[Block.term.at].op # "loop") THEN 1 ELSE 2])
         [] OTHER -> pc

-----------------------------------------------------------------------------
RunInit == Init /\ runs = "none" /\ pc = To(1) /\ pos = Ended

(* A unit the destructor could not finish is not run: LLVM's verifier       *)
(* rejects it.                                                             *)
Start(fn) ==
  /\ phase = "built" /\ runs = "none" /\ ~ TrailingFlow
  /\ runs' = fn
  /\ pc' = To(IF fn = "main" THEN 3 ELSE HelperEntry)
  /\ pos' = IF fn = "main" THEN InitializersFrom(1) ELSE Body(fn)
  /\ UNCHANGED vars

Same == BlocksShow = TextShows

Advance ==
  /\ runs # "none"
  /\ IF BlocksSilent \/ TextSilent
     THEN /\ pc'  = IF BlocksSilent THEN To(Block.term.to[1]) ELSE pc
          /\ pos' = IF TextSilent THEN TextGoes ELSE pos
     ELSE /\ Same /\ pos # Ended
          /\ \E d \in Outcomes : pc' = BlocksAfter(d) /\ pos' = TextAfter(d)
  /\ UNCHANGED <<vars, runs>>

(* The run is over, or would go on differently; or there is nothing to run. *)
Rest == /\ phase = "built"
        /\ \/ TrailingFlow
           \/ runs # "none" /\ ~ BlocksSilent /\ ~ TextSilent /\ (Same => pos = Ended)
        /\ UNCHANGED <<vars, runVars>>

RunNext ==
  \/ Next /\ UNCHANGED runVars
  \/ \E fn \in ProgramFunctions : Start(fn)
  \/ Advance
  \/ Rest

RunSpec == RunInit /\ [][RunNext]_<<vars, runVars>>
LiveSpec == RunSpec /\ WF_<<vars, runVars>>(Advance)
-----------------------------------------------------------------------------
(* visitLoop, visitSelection, visitSwitch, visitBranch and the destructor: *)
(* whatever nesting, early exits and dead code the source has, the blocks  *)
(* built run exactly as the source does, in main and in functions: the     *)
(* same statements, tests, terminals and discards in the same order, the   *)
(* outputs copied out once, on every way out of main but a discard, and    *)
(* never a block without an end.  Not claimed for a ?: in an initializer   *)
(* no function follows, which the destructor's comment says is not handled.*)
FaithfulRun ==
  (runs # "none" /\ ~ BlocksSilent /\ ~ TextSilent) => Same

(* Neither side runs on silently for ever while the other has something to *)
(* show: a wrong branch that closes a cycle of empty blocks is no excuse.  *)
KeepsUp ==
  /\ (runs # "none" /\ ~ TextSilent) ~> (~ BlocksSilent /\ ~ TextSilent)
  /\ (runs # "none" /\ ~ BlocksSilent) ~> (~ BlocksSilent /\ ~ TextSilent)
=============================================================================
