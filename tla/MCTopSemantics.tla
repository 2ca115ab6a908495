--------------------------- MODULE MCTopSemantics ---------------------------
EXTENDS TopSemantics

(* for (;test;terminal), for (;;) *)
ForLoops == {[testFirst |-> TRUE,  test |-> TRUE,  terminal |-> TRUE],
             [testFirst |-> TRUE,  test |-> FALSE, terminal |-> FALSE]}
(* while (test) *)
WhileLoops == {[testFirst |-> TRUE, test |-> TRUE, terminal |-> FALSE]}
(* do while (test) *)
DoWhileLoops == {[testFirst |-> FALSE, test |-> TRUE, terminal |-> FALSE]}
DoAndForLoops == DoWhileLoops \cup ForLoops
EveryLoop == DoAndForLoops \cup WhileLoops
TestFirst == ForLoops \cup WhileLoops
NoBodies == {}
(* two labelled segments; only a default; a last case with no code *)
MCBodies == {<<"case", "code", "default", "code">>, <<"default", "code">>,
             <<"case", "case", "code", "case">>}
OneBody == {<<"default", "code", "case", "code">>}
EveryBody == MCBodies \cup OneBody
=============================================================================
