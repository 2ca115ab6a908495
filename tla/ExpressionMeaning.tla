-------------------------- MODULE ExpressionMeaning --------------------------
(***************************************************************************)
(* What the shading language says of the expressions of Expressions, and   *)
(* what their translation has to do with it.                               *)
(*                                                                         *)
(* Operands are evaluated from left to right and a place is read when it   *)
(* is used; "a op= b" is "a = a op b" with a evaluated before b, as        *)
(* visitBinary says; && leaves its right side alone when the left decides. *)
(***************************************************************************)
EXTENDS Expressions
LOCAL INSTANCE SequencesExt

(* A place: an object, the way to a part of it, and the components of that *)
(* part, if not all.                                                       *)
Whole(obj) == [obj |-> obj, path |-> <<>>, channels |-> <<>>]
Within(w, channels) == \A j \in DOMAIN channels : channels[j] \in 0..Len(w) - 1

(* A state of the meaning: the memory, and whether an index was outside.   *)
Part(s, place) == Select(s.mem[place.obj], place.path)
Outside(s, place) == \/ ~ InRange(s.mem[place.obj], place.path)
                     \/ ~ Within(Part(s, place), place.channels)
Read(s, place) ==
  IF place.channels = <<>> THEN Part(s, place)
  ELSE [j \in DOMAIN place.channels |-> At(Part(s, place), place.channels[j])]
Written(w, channels, x) ==
  IF channels = <<>> THEN x
  ELSE [c \in DOMAIN w |->
          IF \E j \in DOMAIN channels : channels[j] = c - 1
          THEN x[CHOOSE j \in DOMAIN channels : channels[j] = c - 1] ELSE w[c]]
Write(s, place, x) ==
  [s EXCEPT !.wild = @ \/ Outside(s, place),
            !.mem[place.obj] = Replace(@, place.path,
                                       Written(Part(s, place), place.channels, x))]

(* The outcome of a node: the state after it, and a place or a value.      *)
Is(s, place) == [s |-> s, isPlace |-> TRUE, place |-> place, d |-> <<>>]
Gives(s, d) == [s |-> s, isPlace |-> FALSE, place |-> Whole(0), d |-> d]
Used(r) == IF r.isPlace THEN Gives([r.s EXCEPT !.wild = @ \/ Outside(r.s, r.place)],
                                   Read(r.s, r.place))
           ELSE r

(* The part of r that a constant or an index selects. *)
Member(r, k) == IF r.isPlace THEN Is(r.s, [r.place EXCEPT !.path = Append(@, k)])
                ELSE Gives(r.s, At(r.d, k))
Components(r, ks) ==
  IF ~ r.isPlace
  THEN Gives([r.s EXCEPT !.wild = @ \/ ~ Within(r.d, ks)],
             [j \in DOMAIN ks |-> At(r.d, ks[j])])
  ELSE IF r.place.channels = <<>> THEN Is(r.s, [r.place EXCEPT !.channels = ks])
  ELSE Is(r.s, [r.place EXCEPT !.channels = [j \in DOMAIN ks |-> At(@, ks[j])]])
Indexes(r, k, isVector) == IF isVector THEN Components(r, <<k>>) ELSE Member(r, k)
In(r, s) == [r EXCEPT !.s = s]

Sum(x, y) == [j \in DOMAIN x |-> x[j] + y[j]]
Bumped(s, p, p0, q) ==
  Gives(Write(Write(s, Whole(Counter), Sum(s.mem[Counter], <<1>>)), p, Sum(p0, q)), p0)

RECURSIVE Denote(_, _)
Denote(node, s) ==
  LET First == Denote(node.kids[1], s)
      Second(t) == Denote(node.kids[2], t)
  IN
  CASE node.op = "symbol" -> Is(s, Whole(node.k[1]))
    [] node.op = "constant" -> Gives(s, node.k)
    [] node.op = "index" -> Member(First, node.k[1])
    [] node.op \in {"component", "swizzle"} -> Components(First, node.k)
    [] node.op = "indirect" ->
         LET left == First  k == Used(Second(left.s))
         IN  Indexes(In(left, k.s), k.d[1], node.kids[1].width > 0)
    [] node.op = "assign" ->
         LET left == First  x == Used(Second(left.s))
         IN  Gives(Write(x.s, left.place, x.d), x.d)
    [] node.op = "addAssign" ->
         LET left == First  a == Used(left)  x == Used(Second(a.s))
         IN  Gives(Write(x.s, left.place, Sum(a.d, x.d)), Sum(a.d, x.d))
    [] node.op \in Increments ->
         LET left == First  a == Used(left)  up == [j \in DOMAIN a.d |-> a.d[j] + 1]
         IN  Gives(Write(a.s, left.place, up),
                   IF node.op = "preIncrement" THEN up ELSE a.d)
    [] node.op = "add" ->
         LET a == Used(First)  x == Used(Second(a.s)) IN Gives(x.s, Sum(a.d, x.d))
    [] node.op = "less" ->
         LET a == Used(First)  x == Used(Second(a.s))
         IN  Gives(x.s, IF a.d[1] < x.d[1] THEN <<1>> ELSE <<0>>)
    [] node.op = "and" ->
         LET a == Used(First) IN IF a.d = <<0>> THEN a ELSE Used(Second(a.s))
    [] node.op = "select" ->
         LET c == Used(First)
         IN  Used(Denote(node.kids[IF c.d # <<0>> THEN 2 ELSE 3], c.s))
    [] node.op = "call" ->
         LET p == First  p0 == Used(p)  q == Used(Second(p0.s))
         IN  Bumped(q.s, p.place, p0.d, q.d)
    [] node.op = "comma" -> Used(Second(Used(First).s))
    [] node.op = "sequence" ->
         FoldLeft(LAMBDA r, kid : Denote(kid, r.s), Gives(s, <<>>), node.kids)
    [] node.op = "linkerObjects" -> Gives(s, <<>>)

(* Main begins with the inputs in place. *)
Entry == [mem |-> [s \in DOMAIN Symbols |->
                     IF Symbols[s].storage = "out" THEN Symbols[s].null
                     ELSE Symbols[s].data],
          wild |-> FALSE]
Meant == Denote(shader, Entry).s

-----------------------------------------------------------------------------
Done == builder.verdict = "done"

TypeOK ==
  /\ builder.verdict \in {"ok", "done", "assert"}
  /\ symbolValues \subseteq DOMAIN Symbols
  /\ DOMAIN slotMap \subseteq symbolValues
  /\ \A s \in DOMAIN slotMap : /\ slotMap[s] >= FirstFreeSlot
                               /\ slotMap[s] + NumSlots(s) <= nextSlot
  /\ \A f \in {stack[j] : j \in DOMAIN stack} : f.at \in 0..Len(f.node.kids)

(* The instructions made for a shader leave every variable with the value  *)
(* the language gives it: one access chain, cleared, saved and restored    *)
(* around the operands, serves all of them.  A shader that indexes out of  *)
(* range has no meaning to keep.                                           *)
Faithful ==
  Done => \E m \in {Meant} :
            \/ m.wild
            \/ \A s \in DOMAIN Symbols :
                  \/ builder.mem[s] = m.mem[s]
                  \/ Symbols[s].storage = "in" /\ builder.mem[s] = Symbols[s].null

(* Every part of an output that the shader gave a value is written to the  *)
(* pipeline, once, with its last value and in the slot the link objects    *)
(* announce; no slot is shared.  copyOutPipeline leaves out what           *)
(* setActiveOutput did not mark on the way.                                *)
OutputsWritten ==
  Done /\ ~ builder.wild =>
    /\ \A j, k \in DOMAIN written : written[j].slot = written[k].slot => j = k
    /\ \A s \in DOMAIN Symbols : Symbols[s].storage = "out" =>
         \A n \in DOMAIN Leaves[s] :
           Select(builder.mem[s], Leaves[s][n]) # Select(Symbols[s].null, Leaves[s][n])
             => \E j \in DOMAIN written :
                  /\ written[j].slot = SlotOf(s) + n - 1
                  /\ written[j].d = Select(builder.mem[s], Leaves[s][n])

(* No assertion of the builder fails: no chain without an l-value is       *)
(* stored to, and every output is found when its metadata is set.          *)
NeverAsserts == builder.verdict # "assert"
=============================================================================
