---------------------------- MODULE MCExpressions ----------------------------
(* Small shaders: two statements over an int, a vector, a structure, two    *)
(* outputs and an input.  The vectors have three components.                *)
EXTENDS ExpressionMeaning

MCLeaves == << <<>>, <<>>, << <<0>>, <<1, 0>>, <<1, 1>> >>, << <<>> >>, << <<>> >>, <<>> >>
Z == <<0, 0, 0>>
Block(x, y, z) == <<x, <<y, z>>>>
Symbol(storage, location, data, null) ==
  [storage |-> storage, location |-> location, data |-> data, null |-> null]
MCSymbols ==
  << Symbol("local", -1, <<1>>, <<0>>),
     Symbol("local", -1, <<0, 1, 2>>, Z),
     Symbol("out", -1, Block(Z, Z, Z), Block(Z, Z, Z)),
     Symbol("out", 3, Z, Z),
     Symbol("in", -1, <<5, 6, 7>>, Z),
     Symbol("local", -1, Block(<<1, 2, 3>>, <<2, 4, 6>>, <<3, 5, 7>>), Block(Z, Z, Z)) >>

Node(op, kids, k, width) == [op |-> op, kids |-> kids, k |-> k, width |-> width]
Name(s, width) == Node("symbol", <<>>, <<s>>, width)
i == Name(1, 1)
v == Name(2, 3)
o == Name(3, 0)
p == Name(4, 3)
q == Name(5, 3)
t == Name(6, 0)
K(n) == Node("constant", <<>>, <<n>>, 1)
Vec(n) == Node("constant", <<>>, <<n, n + 1, n + 2>>, 3)
Field(x, n, width) == Node("index", <<x>>, <<n>>, width)
Comp(x, n) == Node("component", <<x>>, <<n>>, 1)
Mask(x, ks) == Node("swizzle", <<x>>, ks, Len(ks))
Element(x, k, width) == Node("indirect", <<x, k>>, <<>>, width)
Binary(op, x, y) == Node(op, <<x, y>>, <<>>, x.width)
Unary(op, x) == Node(op, <<x>>, <<>>, x.width)
Choice(c, x, y) == Node("select", <<c, x, y>>, <<>>, x.width)
Do(op, kids) == Node(op, kids, <<>>, 0)

(* Operands with and without side effects. *)
IncI == Unary("postIncrement", i)
Ints == {i, K(0), IncI, Binary("assign", i, K(0)), Binary("add", i, K(-1))}
ScalarPlaces(ks) ==
  {i, Comp(v, 1), Comp(Mask(v, <<2, 0>>), 1), Comp(p, 2)}
    \union {Element(v, k, 1) : k \in ks}
    \union {Comp(Element(Field(o, 1, 0), k, 3), 1) : k \in ks}
    \union {Element(Element(Field(o, 1, 0), k, 3), i, 1) : k \in ks}
VectorPlaces(ks) ==
  {v, p, Mask(v, <<2, 1, 0>>), Mask(Mask(v, <<1, 2, 0>>), <<1, 0, 2>>), Field(o, 0, 3),
   Mask(Field(t, 0, 3), <<0, 2, 1>>)}
    \union {Element(Field(o, 1, 0), k, 3) : k \in ks}
Scalars ==
  Ints
    \union {Comp(q, 2), Element(q, i, 1), Element(Binary("add", v, Vec(1)), i, 1),
            Element(Element(Field(Binary("assign", o, t), 1, 0), i, 3), K(2), 1),
            Comp(Mask(Mask(v, <<2, 0>>), <<1, 0>>), 0), Node("call", <<i, i>>, <<>>, 1),
            Node("call", <<Comp(v, 2), IncI>>, <<>>, 1), Node("call", <<Element(v, i, 1), i>>, <<>>, 1),
            Binary("add", i, IncI), Binary("add", IncI, i), Do("comma", <<IncI, i>>),
            Binary("and", Binary("less", K(0), i), Comp(v, 1))}
    \union {Choice(Binary("less", i, K(n)), IncI, Comp(v, 1)) : n \in {1, 2}}
Vectors ==
  {v, q, Vec(4), Mask(q, <<2, 2, 0>>), Binary("add", v, q), Field(t, 0, 3),
   Unary("preIncrement", v), Element(Field(t, 1, 0), IncI, 3),
   Element(Field(Binary("assign", o, t), 1, 0), i, 3), Binary("assign", p, v),
   Node("call", <<v, q>>, <<>>, 3), Node("call", <<p, v>>, <<>>, 3)}
    \union {Choice(Binary("less", i, K(n)), Binary("assign", p, v), q) : n \in {1, 2}}

Pure == {i, K(2), Comp(q, 2), Element(v, i, 1)}
Assign(places, xs) == {Binary("assign", x, y) : x \in places, y \in xs}
Statements ==
  Assign(ScalarPlaces(Ints), Scalars) \union Assign(VectorPlaces(Ints), Vectors)
    \union {Binary("addAssign", x, y) : x \in ScalarPlaces(Ints), y \in Pure}
    \union {Unary(op, x) : op \in {"preIncrement", "postIncrement"}, x \in ScalarPlaces({IncI})}
    \union {Choice(Binary("less", i, K(n)), Binary("assign", Element(Field(o, 1, 0), i, 3), v), v) : n \in {1, 2}}

Link == Do("linkerObjects", <<o, p, q>>)
Main(first, second) == Do("sequence", <<first, second, Link>>)
Later == {Binary("assign", Comp(Element(Field(o, 1, 0), K(1), 3), 0), Comp(p, 0)),
          Binary("addAssign", Element(Field(o, 1, 0), i, 3), Mask(v, <<2, 2, 1>>)),
          Binary("assign", Element(v, i, 1), Node("call", <<Comp(p, 2), i>>, <<>>, 1))}
MCShaders == {Main(x, y) : x \in Statements, y \in Later}
Compound ==
  {Main(Binary("addAssign", x, y), IncI) : x \in ScalarPlaces({i}), y \in {IncI}}
=============================================================================
