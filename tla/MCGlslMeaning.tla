--------------------------- MODULE MCGlslMeaning ----------------------------
(* The orders of calls the GLSL back end is checked with.                  *)
EXTENDS GlslMeaning

Color == <<"color">>
Names == {NoName, Color}
A(call) == [call |-> call, of |-> 0, kinds |-> {}, names |-> {NoName}, live |-> {}, always |-> FALSE]
D == A("declarePhiCopy")
DA == A("declarePhiAlias")
I(kinds) == [A("addInstruction") EXCEPT !.kinds = kinds]
Named(token, names) == [token EXCEPT !.names = names]
P(phi) == [A("addPhiCopy") EXCEPT !.of = phi]
PA(phi) == [A("addPhiAlias") EXCEPT !.of = phi]
F == A("addIf")
E == A("addElse")
FE(live) == [A("addEndif") EXCEPT !.live = live]
L(live) == [A("beginLoop") EXCEPT !.live = live]
X == A("addLoopExit")
B == [X EXCEPT !.always = TRUE]
LE(live) == [A("endLoop") EXCEPT !.live = live]
W == A("write")
Read == I({"read"})
N(kinds) == Named(I(kinds), Names)
ND == Named(D, Names)

Straight1 == <<Read, N({"compute", "negate"}), N(Kinds), N({"insert", "extract"}), W>>
Diamond == <<ND, Read, F, N({"compute", "insert"}), P(1), E, I({"compute", "extract"}), P(1),
             FE({1}), N({"insert", "extract"}), W>>
Alias == <<DA, Read, F, N({"read", "compute"}), PA(1), E, Read, PA(1), FE({1}), N({"compute"}), W>>
Counted == <<ND, Read, P(1), L({1}), N({"compute", "extract"}), X,
             I({"compute", "insert"}), P(1), LE({}), W>>
ExitPhi == <<D, ND, Read, P(1), L({1}), N({"compute", "extract"}), F, P(2), B, FE({}),
             I({"compute"}), P(1), LE({2}), W>>
TwoPhis == <<ND, D, Read, P(1), P(2), L({1, 2}), N({"compute"}), X, P(1), P(2), LE({}), W>>
Diamonds == <<D, D, Read, P(1), L({1}), F, N({"compute"}), P(2), E, P(2), FE({2}),
              X, P(1), LE({}), W>>

InnerUse == <<D, Read, P(1), L({1}), I({"compute"}), I({"extract", "negate"}), X, P(1), LE({}), W>>

Nested == <<D, Read, P(1), L({1}), I({"compute"}), L({}), I({"compute", "negate"}), X, LE({}),
            X, P(1), LE({}), W>>

AllShapes == {Nested, InnerUse, Straight1, Diamond, Alias, Counted, ExitPhi, TwoPhis, Diamonds}
(* Twelve variables of one name, and one with the name the eleventh gets.  *)
ColorA == <<"color", 10>>
Renamed == {<<Named(D, {ColorA})>> \o [i \in 1..12 |-> Named(D, {Color})]}
Uniform == <<"input">>
AllLeftOut == {"scoped text", "swapped phis"}
=============================================================================
