------------------------------ MODULE MCBottom ------------------------------
(* The programs the middle end and the Bottom translator are checked with. *)
EXTENDS BottomSemantics

While    == [testFirst |-> TRUE,  test |-> TRUE,  terminal |-> FALSE]
Counted  == [testFirst |-> TRUE,  test |-> TRUE,  terminal |-> TRUE]
Endless  == [testFirst |-> TRUE,  test |-> FALSE, terminal |-> FALSE]
DoWhileL == [testFirst |-> FALSE, test |-> TRUE,  terminal |-> FALSE]

LoopKinds    == {Counted, Endless, DoWhileL}
WhileLoops   == {While}
NoLoops      == {}
NoBodies     == {}

(* A program has loops or early exits of the stage, not both. *)
HasLoop == \E i \in DOMAIN text : text[i].op = "loop"
EndsEarly == \E i \in DOMAIN text : text[i].op \in {"return", "discard"}
ApartSpec == RunInit /\ [][RunNext /\ ~ (HasLoop /\ EndsEarly)']_<<vars, midVars, runVars>>
=============================================================================
