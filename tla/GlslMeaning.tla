---------------------------- MODULE GlslMeaning -----------------------------
(***************************************************************************)
(* The text the GLSL back end has written runs beside the IR it was        *)
(* written for, one call's statements at a time.  Values are terms, so two *)
(* of them are equal only if they were computed alike; the outcome of a    *)
(* test is chosen for both.  A loop runs MaxRounds times at most.          *)
(***************************************************************************)
EXTENDS GlslTarget

CONSTANT MaxRounds

VARIABLES
  at,        \* the call that runs next, 0 before the run
  value,     \* of each value of the IR, once computed
  arriving,  \* what the phis become when the edge has been taken
  store,     \* of the variables of each scope, the globals first
  seen,      \* what the last test or write showed, in the IR and in the text
  rounds     \* the loop iterations so far

runVars == <<at, value, arriving, store, seen, rounds>>

Junk == <<"junk">>
Same == [ir |-> Junk, text |-> Junk]

RunInit ==
  /\ Init
  /\ at = 0 /\ value = <<>> /\ arriving = <<>> /\ store = <<>> /\ seen = Same /\ rounds = 0

Translate == at = 0 /\ Next /\ UNCHANGED runVars

StartRun ==
  /\ at = 0 /\ ~ Running
  /\ at' = 1
  /\ store' = <<[n \in ToSet(target.globals) |-> IF n = Input THEN <<"input">> ELSE Junk],
                <<>>>>
  /\ UNCHANGED <<glslVars, value, arriving, seen, rounds>>

-----------------------------------------------------------------------------
(* The meaning of the IR.                                                  *)

Runs == at \in DOMAIN calls
C == calls[at]
Val(v) == value[v]

Computed ==
  CASE C.kind = "read" -> <<"input">>
    [] C.kind = "compute" -> <<"compute", at, Val(C.args[1])>>
    [] C.kind = "insert" -> <<"insert", Val(C.args[1]), Val(C.args[2])>>
    [] OTHER -> <<C.kind, Val(C.args[1])>>

-----------------------------------------------------------------------------
(* The meaning of the text.                                                *)

Holder(st, n) ==
  LET K == {k \in DOMAIN st : n \in DOMAIN st[k]}
  IN  IF K = {} THEN 0 ELSE CHOOSE k \in K : \A j \in K : j <= k
Variable(st, n) == IF Holder(st, n) = 0 THEN Junk ELSE st[Holder(st, n)][n]
Text(st, text) == FoldLeft(LAMBDA t, op : <<op, t>>, Variable(st, text.var), text.ops)

Put(st, s, term) ==
  LET k == IF s.fresh THEN Len(st) ELSE Holder(st, s.name)
  IN  IF k = 0 THEN st ELSE [st EXCEPT ![k] = (s.name :> term) @@ @]

Do(st, s) ==
  CASE s.do = "declare" -> Put(st, s, Junk)
    [] s.do = "member" -> Put(st, s, <<"insert", Variable(st, s.name), Text(st, s.text)>>)
    [] s.do = "assign" -> Put(st, s, IF s.by = 0 THEN Text(st, s.text)
                                     ELSE <<"compute", s.by, Text(st, s.text)>>)

Straight == store' = FoldLeft(Do, store, shader[at])
Show == seen' = [ir |-> Val(C.args[1]), text |-> Text(store, shader[at][1].text)]
Hide == UNCHANGED seen
Enter(st) == Append(st, <<>>)

-----------------------------------------------------------------------------
Arrive == value' = arriving @@ value /\ arriving' = <<>>
Forward == at' = at + 1 /\ UNCHANGED rounds

RunPhi ==
  /\ Runs /\ C.call \in {"declarePhiCopy", "declarePhiAlias", "addPhiCopy", "addPhiAlias"}
  /\ arriving' = IF C.args = <<>> THEN arriving ELSE (C.of :> Val(C.args[1])) @@ arriving
  /\ Straight /\ Forward /\ Hide
  /\ UNCHANGED <<glslVars, value>>

RunInstruction ==
  /\ Runs /\ C.call = "addInstruction"
  /\ value' = (at :> Computed) @@ value
  /\ Straight /\ Forward /\ Hide
  /\ UNCHANGED <<glslVars, arriving>>

RunWrite ==
  /\ Runs /\ C.call = "write"
  /\ Show /\ Forward
  /\ UNCHANGED <<glslVars, value, arriving, store>>

(* Where the construct that is opened at i ends, or has its else.          *)
Deeper(i) == calls[i].call \in {"addIf", "beginLoop"}
Shallower(i) == calls[i].call \in {"addEndif", "endLoop"}
Depth(i, j) == Cardinality({k \in i..j : Deeper(k)}) - Cardinality({k \in i..j : Shallower(k)})
Closing(i) == CHOOSE j \in (i + 1)..Len(calls) :
                /\ Depth(i, j) = 0 /\ Shallower(j)
                /\ \A k \in i..(j - 1) : Depth(i, k) > 0
Elses(i) == {j \in i..Closing(i) : calls[j].call = "addElse" /\ Depth(i, j) = 1}
Enclosing ==
  LET L == {i \in 1..at : calls[i].call = "beginLoop" /\ Closing(i) > at}
  IN  CHOOSE i \in L : \A j \in L : j <= i

RunIf ==
  /\ Runs /\ C.call = "addIf"
  /\ Show
  /\ \/ at' = at + 1 /\ store' = Enter(store)
     \/ IF Elses(at) = {}
        THEN at' = Closing(at) + 1 /\ UNCHANGED store
        ELSE \E e \in Elses(at) : at' = e + 1 /\ store' = Enter(store)
  /\ UNCHANGED <<glslVars, value, arriving, rounds>>

(* The then part is done.                                                  *)
RunElse ==
  /\ Runs /\ C.call = "addElse"
  /\ at' = (CHOOSE j \in (at + 1)..Len(calls) :
              calls[j].call = "addEndif" /\ Depth(at, j) = -1)
  /\ UNCHANGED <<glslVars, value, arriving, store, seen, rounds>>

RunEndif ==
  /\ Runs /\ C.call = "addEndif"
  /\ Arrive /\ Forward /\ Hide
  /\ store' = Front(store)
  /\ UNCHANGED glslVars

RunLoop ==
  /\ Runs /\ C.call = "beginLoop"
  /\ Arrive /\ Forward /\ Hide
  /\ store' = Enter(store)
  /\ UNCHANGED glslVars

Opened(i) == Cardinality({k \in 1..(i - 1) : Deeper(k)}) - Cardinality({k \in 1..(i - 1) : Shallower(k)})
Leave ==
  /\ at' = Closing(Enclosing) + 1
  /\ store' = SubSeq(store, 1, 2 + Opened(Enclosing))
RunExit ==
  /\ Runs /\ C.call = "addLoopExit"
  /\ IF C.args = <<>>
     THEN Arrive /\ Hide /\ Leave
     ELSE /\ Show
          /\ \/ Leave
             \/ at' = at + 1 /\ UNCHANGED store
          /\ UNCHANGED <<value, arriving>>
  /\ UNCHANGED <<glslVars, rounds>>

RunEndLoop ==
  /\ Runs /\ C.call = "endLoop" /\ rounds < MaxRounds
  /\ Arrive /\ Hide
  /\ rounds' = rounds + 1
  /\ at' = (CHOOSE i \in 1..at : calls[i].call = "beginLoop" /\ Closing(i) = at) + 1
  /\ store' = Enter(Front(store))
  /\ UNCHANGED glslVars

Run ==
  \/ StartRun \/ RunPhi \/ RunInstruction \/ RunWrite \/ RunIf \/ RunElse \/ RunEndif
  \/ RunLoop \/ RunExit \/ RunEndLoop

RunSpec == RunInit /\ [][Translate \/ Run]_<<glslVars, runVars>>

-----------------------------------------------------------------------------
(* BottomToGLSL.cpp: whatever was substituted, copied, declared and named, *)
(* the shader tests and writes the values the IR tests and writes.         *)
Faithful == seen.ir = seen.text
=============================================================================
