------------------------- MODULE GlslTarget_proofs -------------------------
(***************************************************************************)
(* Proofs about the GLSL back end, for every order of calls: every value   *)
(* the translator passes has a text, and every name in a statement is      *)
(* declared where the statement stands.                                    *)
(***************************************************************************)
EXTENDS GlslTarget, SequenceTheorems, TLAPS

-----------------------------------------------------------------------------
(* The invariant that every value used has a text.                         *)

IsList(s) == s \in Seq(ToSet(s))
IsText(x) == x = [var |-> x.var, ops |-> x.ops]

IsTarget(t) ==
  t = [valueMap |-> t.valueMap, canonMap |-> t.canonMap, hashedNames |-> t.hashedNames,
       lastVariable |-> t.lastVariable, globals |-> t.globals, scopes |-> t.scopes]
TargetOK(t) ==
  /\ IsTarget(t)
  /\ \A v \in DOMAIN t.valueMap : IsText(t.valueMap[v])
  /\ IsList(t.globals) /\ Input \in ToSet(t.globals)
  /\ IsList(t.scopes) /\ t.scopes # <<>>
  /\ \A k \in DOMAIN t.scopes : IsList(t.scopes[k])

(* The calls made are the first ones of the shape. *)
Follows ==
  /\ shape \in Shapes
  /\ IsList(calls) /\ Len(calls) <= Len(shape)
  /\ \A i \in DOMAIN calls : calls[i].call = shape[i].call /\ calls[i].of = shape[i].of

(* A phi copy has its variable once it is declared; any phi has a text     *)
(* once it has been copied.                                                *)
PhisMapped ==
  \A i \in DOMAIN calls :
    /\ calls[i].call = "declarePhiCopy" => i \in DOMAIN target.valueMap
    /\ calls[i].call \in {"addPhiCopy", "addPhiAlias"} => calls[i].of \in DOMAIN target.valueMap

Constructs ==
  /\ IsList(within) /\ IsList(shader)
  /\ \A k \in DOMAIN within :
       /\ within[k] = [usable |-> within[k].usable, exits |-> within[k].exits,
                       loop |-> within[k].loop]
       /\ within[k].usable \subseteq DOMAIN target.valueMap
       /\ \A e \in within[k].exits : e \subseteq DOMAIN target.valueMap

TInv == Follows /\ TargetOK(target) /\ PhisMapped /\ Constructs /\ TypeOK

-----------------------------------------------------------------------------
(* The invariant that what a text names is declared.                       *)

(* n is declared in one of the k outermost scopes of t, or globally. *)
Seen(t, n, k) ==
  \/ n \in ToSet(t.globals)
  \/ \E j \in 1..k : n \in ToSet(t.scopes[j])
SeenValue(t, v, k) == Seen(t, t.valueMap[v].var, k)

(* The values whose names outlive every construct. *)
Lasts(v) ==
  \/ IsPhi(v)
  \/ calls[v].kind = "read"
  \/ calls[v].outer /\ calls[v].kind \in {"compute", "insert"}

LastingSeen ==
  \A v \in DOMAIN target.valueMap : Lasts(v) => SeenValue(target, v, 1)
OuterKinds == \A i \in DOMAIN calls : calls[i].outer => calls[i].kind \in Kinds
UsableSeen == \A v \in usable : SeenValue(target, v, Len(target.scopes))
WithinSeen ==
  \A k \in DOMAIN within : \A v \in within[k].usable : SeenValue(target, v, k)
PhisOutside == (\A i \in DOMAIN calls : IsPhi(i)) => within = <<>>

VInv == LastingSeen /\ OuterKinds /\ UsableSeen /\ WithinSeen /\ PhisOutside /\ Scoped

-----------------------------------------------------------------------------
(* Lists.                                                                  *)

LEMMA InList ==
  ASSUME NEW s, NEW x
  PROVE  x \in ToSet(s) <=> \E i \in DOMAIN s : x = s[i]
BY DEF ToSet

LEMMA EmptyList == IsList(<<>>) /\ Len(<<>>) = 0 /\ ToSet(<<>>) = {}
BY DEF IsList, ToSet

LEMMA AppendList ==
  ASSUME NEW s, IsList(s), NEW x
  PROVE  /\ IsList(Append(s, x)) /\ ToSet(Append(s, x)) = ToSet(s) \cup {x}
         /\ Len(Append(s, x)) = Len(s) + 1 /\ Append(s, x)[Len(s) + 1] = x
         /\ \A i \in 1..Len(s) : Append(s, x)[i] = s[i]
         /\ Append(s, x) # <<>> /\ Last(Append(s, x)) = x
<1> DEFINE T == ToSet(s) \cup {x}
<1>1. s \in Seq(T)
  BY DEF IsList
<1>2. ToSet(Append(s, x)) = T
  <2>1. \A i \in DOMAIN Append(s, x) : Append(s, x)[i] \in T
    BY <1>1
  <2>2. \A i \in DOMAIN s : s[i] = Append(s, x)[i] /\ i \in DOMAIN Append(s, x)
    BY <1>1
  <2>3. x = Append(s, x)[Len(s) + 1] /\ Len(s) + 1 \in DOMAIN Append(s, x)
    BY <1>1
  <2>4. ASSUME NEW y \in ToSet(Append(s, x)) PROVE y \in T
    <3>1. PICK i \in DOMAIN Append(s, x) : y = Append(s, x)[i]
      BY InList
    <3> HIDE DEF T
    <3> QED BY <2>1, <3>1, Zenon
  <2>5. ASSUME NEW y \in T PROVE y \in ToSet(Append(s, x))
    <3>1. CASE y = x
      BY <3>1, <2>3, InList
    <3>2. CASE y \in ToSet(s)
      <4>1. PICK i \in DOMAIN s : y = s[i]
        BY <3>2, InList
      <4> QED BY <4>1, <2>2, InList
    <3> QED BY <3>1, <3>2
  <2> HIDE DEF T
  <2> QED BY <2>4, <2>5
<1>3. Append(s, x) \in Seq(T) /\ Len(Append(s, x)) = Len(s) + 1 /\ Append(s, x)[Len(s) + 1] = x
  BY <1>1
<1>4. \A i \in 1..Len(s) : Append(s, x)[i] = s[i]
  BY <1>1
<1>5. Append(s, x) # <<>>
  <2>1. Len(s) \in Nat
    BY <1>1
  <2> QED BY <1>3, <2>1, EmptyList
<1> QED BY <1>1, <1>2, <1>3, <1>4, <1>5 DEF IsList, Last

(* a is s with x at its end. *)
Extended(a, s, x) ==
  /\ IsList(a) /\ Len(a) = Len(s) + 1 /\ a[Len(s) + 1] = x
  /\ \A i \in 1..Len(s) : a[i] = s[i]
  /\ a # <<>> /\ Last(a) = x

LEMMA Appended ==
  ASSUME NEW s, IsList(s), NEW x, NEW a, a = Append(s, x)
  PROVE  Extended(a, s, x)
BY AppendList DEF Extended

LEMMA FrontList ==
  ASSUME NEW s, IsList(s), s # <<>>
  PROVE  /\ IsList(Front(s)) /\ Len(Front(s)) = Len(s) - 1 /\ Len(s) \in Nat \ {0}
         /\ \A i \in 1..(Len(s) - 1) : Front(s)[i] = s[i]
<1>1. Front(s) = [i \in 1..(Len(s) - 1) |-> s[i]] /\ Len(s) \in Nat \ {0}
  BY DEF IsList, Front
<1>2. Front(s) \in Seq(ToSet(Front(s))) /\ Len(Front(s)) = Len(s) - 1
  <2>1. \A i \in 1..(Len(s) - 1) : Front(s)[i] \in ToSet(Front(s))
    BY <1>1, InList
  <2> QED BY <1>1, <2>1
<1> QED BY <1>1, <1>2 DEF IsList

LEMMA ReplaceList ==
  ASSUME NEW s, IsList(s), NEW k, NEW x
  PROVE  /\ IsList([s EXCEPT ![k] = x]) /\ Len([s EXCEPT ![k] = x]) = Len(s)
         /\ DOMAIN [s EXCEPT ![k] = x] = DOMAIN s
         /\ \A i \in DOMAIN s : [s EXCEPT ![k] = x][i] = IF i = k THEN x ELSE s[i]
<1> DEFINE r == [s EXCEPT ![k] = x]
<1>1. DOMAIN r = 1..Len(s) /\ Len(s) \in Nat /\ r = [i \in 1..Len(s) |-> r[i]]
  BY DEF IsList
<1>2. \A i \in 1..Len(s) : r[i] \in ToSet(r)
  BY <1>1, InList
<1>3. r \in Seq(ToSet(r)) /\ Len(r) = Len(s)
  <2> HIDE DEF r
  <2> QED BY <1>1, <1>2
<1> QED BY <1>1, <1>3 DEF IsList

LEMMA ListFacts ==
  ASSUME NEW s, IsList(s)
  PROVE  Len(s) \in Nat /\ DOMAIN s = 1..Len(s) /\ (s = <<>> <=> Len(s) = 0)
BY DEF IsList

-----------------------------------------------------------------------------
(* Names and declarations.                                                 *)

(* In d, what was declared in t still is. *)
Keeps(t, d) ==
  /\ Len(d.scopes) = Len(t.scopes)
  /\ \A n : \A k \in 1..Len(t.scopes) : Seen(t, n, k) => Seen(d, n, k)

(* d gives v a text, and no other value a new one. *)
Maps(t, d, v) ==
  /\ DOMAIN d.valueMap = DOMAIN t.valueMap \cup {v}
  /\ \A u \in DOMAIN t.valueMap \ {v} : d.valueMap[u] = t.valueMap[u]

Alike(t, d) == d.valueMap = t.valueMap /\ d.globals = t.globals /\ d.scopes = t.scopes

LEMMA KeepsAlike ==
  ASSUME NEW t, NEW d, Alike(t, d)
  PROVE  Keeps(t, d)
BY DEF Alike, Keeps, Seen

LEMMA KeepsTwice ==
  ASSUME NEW t, NEW d, NEW e, Keeps(t, d), Keeps(d, e)
  PROVE  Keeps(t, e)
BY DEF Keeps

LEMMA Fields ==
  ASSUME NEW t, IsTarget(t), NEW x
  PROVE  /\ [t EXCEPT !.valueMap = x] =
              [valueMap |-> x, canonMap |-> t.canonMap, hashedNames |-> t.hashedNames,
               lastVariable |-> t.lastVariable, globals |-> t.globals, scopes |-> t.scopes]
         /\ [t EXCEPT !.canonMap = x] =
              [valueMap |-> t.valueMap, canonMap |-> x, hashedNames |-> t.hashedNames,
               lastVariable |-> t.lastVariable, globals |-> t.globals, scopes |-> t.scopes]
         /\ [t EXCEPT !.hashedNames = x] =
              [valueMap |-> t.valueMap, canonMap |-> t.canonMap, hashedNames |-> x,
               lastVariable |-> t.lastVariable, globals |-> t.globals, scopes |-> t.scopes]
         /\ [t EXCEPT !.lastVariable = x] =
              [valueMap |-> t.valueMap, canonMap |-> t.canonMap, hashedNames |-> t.hashedNames,
               lastVariable |-> x, globals |-> t.globals, scopes |-> t.scopes]
         /\ [t EXCEPT !.globals = x] =
              [valueMap |-> t.valueMap, canonMap |-> t.canonMap, hashedNames |-> t.hashedNames,
               lastVariable |-> t.lastVariable, globals |-> x, scopes |-> t.scopes]
         /\ [t EXCEPT !.scopes = x] =
              [valueMap |-> t.valueMap, canonMap |-> t.canonMap, hashedNames |-> t.hashedNames,
               lastVariable |-> t.lastVariable, globals |-> t.globals, scopes |-> x]
BY DEF IsTarget

LEMMA NamesAlike ==
  ASSUME NEW t, TargetOK(t), NEW name, NEW rhs
  PROVE  LET d == MakeNewVariableName(t, name, rhs).target IN TargetOK(d) /\ Alike(t, d)
<1>1. ASSUME NEW m
      PROVE  LET d == [t EXCEPT !.canonMap = m] IN TargetOK(d) /\ Alike(t, d)
  BY Fields DEF TargetOK, IsTarget, Alike
<1>2. ASSUME NEW m
      PROVE  LET d == [t EXCEPT !.hashedNames = m] IN TargetOK(d) /\ Alike(t, d)
  BY Fields DEF TargetOK, IsTarget, Alike
<1>3. ASSUME NEW m
      PROVE  LET d == [t EXCEPT !.lastVariable = m] IN TargetOK(d) /\ Alike(t, d)
  BY Fields DEF TargetOK, IsTarget, Alike
<1> QED BY <1>1, <1>2, <1>3, Zenon DEF MakeNewVariableName, Canonical, Hashed, Numbered

LEMMA VariableDeclared ==
  ASSUME NEW t, TargetOK(t), NEW name, NEW global \in BOOLEAN
  PROVE  LET d == EmitVariableDeclaration(t, name, global)
         IN  /\ TargetOK(d) /\ Keeps(t, d) /\ d.valueMap = t.valueMap
             /\ Seen(d, name, Len(d.scopes))
             /\ global => name \in ToSet(d.globals)
<1> DEFINE known == IF name \in DOMAIN t.canonMap THEN t
                    ELSE [t EXCEPT !.canonMap = Bind(@, name, 0)]
<1>1. TargetOK(known) /\ Alike(t, known)
  BY Fields DEF TargetOK, IsTarget, Alike
<1> HIDE DEF known
<1>2. CASE ~ global
  <2> DEFINE n == Len(known.scopes)
             inner == Append(known.scopes[n], name)
             d == [known EXCEPT !.scopes = [@ EXCEPT ![n] = inner]]
  <2>1. EmitVariableDeclaration(t, name, global) = d
    BY <1>2, <1>1 DEF EmitVariableDeclaration, known, Inner, Alike
  <2>2. IsList(known.scopes) /\ n \in DOMAIN known.scopes /\ n \in Nat /\ IsList(known.scopes[n])
    BY <1>1, ListFacts DEF TargetOK
  <2>3. IsList(inner) /\ ToSet(inner) = ToSet(known.scopes[n]) \cup {name}
    BY <2>2, AppendList
  <2>4. /\ d = [valueMap |-> known.valueMap, canonMap |-> known.canonMap,
                hashedNames |-> known.hashedNames, lastVariable |-> known.lastVariable,
                globals |-> known.globals, scopes |-> [known.scopes EXCEPT ![n] = inner]]
    <3> HIDE DEF inner, n
    <3> QED BY <1>1, Fields DEF TargetOK
  <2> HIDE DEF d, n, inner
  <2>5. /\ IsList(d.scopes) /\ Len(d.scopes) = n /\ DOMAIN d.scopes = DOMAIN known.scopes
        /\ \A k \in DOMAIN known.scopes : d.scopes[k] = IF k = n THEN inner ELSE known.scopes[k]
    BY <2>2, <2>4, ReplaceList DEF n
  <2>6. TargetOK(d)
    <3>1. d.scopes # <<>>
      BY <2>2, <2>5, EmptyList, ListFacts
    <3>2. \A k \in DOMAIN d.scopes : IsList(d.scopes[k])
      BY <1>1, <2>3, <2>5 DEF TargetOK
    <3> QED BY <1>1, <2>4, <2>5, <3>1, <3>2 DEF TargetOK, IsTarget
  <2>7. Keeps(known, d)
    BY <2>2, <2>3, <2>4, <2>5, ListFacts DEF Keeps, Seen, n
  <2>8. Seen(d, name, Len(d.scopes))
    BY <2>2, <2>3, <2>5, ListFacts DEF Seen
  <2>9. d.valueMap = t.valueMap
    BY <2>4, <1>1 DEF Alike
  <2> QED BY <1>1, <1>2, <2>1, <2>6, <2>7, <2>8, <2>9, KeepsAlike, KeepsTwice
<1>3. CASE global /\ name \in ToSet(t.globals)
  <2>1. EmitVariableDeclaration(t, name, global) = known
    BY <1>3 DEF EmitVariableDeclaration, known
  <2> QED BY <1>1, <1>3, <2>1, KeepsAlike DEF Alike, Seen
<1>4. CASE global /\ name \notin ToSet(t.globals)
  <2> DEFINE d == [known EXCEPT !.globals = Append(@, name)]
  <2>1. EmitVariableDeclaration(t, name, global) = d
    BY <1>4 DEF EmitVariableDeclaration, known
  <2>2. /\ IsList(Append(known.globals, name))
        /\ ToSet(Append(known.globals, name)) = ToSet(known.globals) \cup {name}
    BY <1>1, AppendList DEF TargetOK
  <2>3. d = [valueMap |-> known.valueMap, canonMap |-> known.canonMap,
             hashedNames |-> known.hashedNames, lastVariable |-> known.lastVariable,
             globals |-> Append(known.globals, name), scopes |-> known.scopes]
    BY <1>1, Fields, Zenon DEF TargetOK
  <2> HIDE DEF d
  <2>4. TargetOK(d)
    BY <1>1, <2>2, <2>3 DEF TargetOK, IsTarget
  <2>5. Keeps(known, d) /\ name \in ToSet(d.globals)
    BY <2>2, <2>3 DEF Keeps, Seen
  <2> QED BY <1>1, <2>1, <2>3, <2>4, <2>5, KeepsAlike, KeepsTwice DEF Alike, Seen
<1> QED BY <1>2, <1>3, <1>4

LEMMA TextMapped ==
  ASSUME NEW t, TargetOK(t), NEW v, NEW text, IsText(text)
  PROVE  LET d == MapExpressionString(t, v, text)
         IN  /\ TargetOK(d) /\ Keeps(t, d) /\ Maps(t, d, v) /\ d.valueMap[v] = text
             /\ d.globals = t.globals
<1> DEFINE d == MapExpressionString(t, v, text)
<1>1. /\ d = [valueMap |-> Bind(t.valueMap, v, text), canonMap |-> t.canonMap,
              hashedNames |-> t.hashedNames, lastVariable |-> t.lastVariable,
              globals |-> t.globals, scopes |-> t.scopes]
  BY Fields DEF MapExpressionString, TargetOK
<1> HIDE DEF d
<1>2. Maps(t, d, v) /\ d.valueMap[v] = text
  BY <1>1 DEF Maps, Bind
<1>3. \A u \in DOMAIN d.valueMap : IsText(d.valueMap[u])
  BY <1>2 DEF Maps, TargetOK
<1> QED BY <1>1, <1>2, <1>3 DEF TargetOK, IsTarget, Keeps, Seen, d

(* A value gets a declared variable, unless it has a text.                 *)
LEMMA ValueDeclared ==
  ASSUME NEW t, TargetOK(t), NEW v, NEW irName, NEW rhs, NEW forceGlobal \in BOOLEAN
  PROVE  LET d == EmitGlaValueDeclaration(t, v, irName, rhs, forceGlobal)
         IN  /\ TargetOK(d) /\ Keeps(t, d) /\ v \in DOMAIN d.valueMap
             /\ v \in DOMAIN t.valueMap => d = t
             /\ v \notin DOMAIN t.valueMap =>
                  /\ Maps(t, d, v)
                  /\ SeenValue(d, v, IF forceGlobal THEN 1 ELSE Len(d.scopes))
<1>1. CASE v \in DOMAIN t.valueMap
  BY <1>1 DEF EmitGlaValueDeclaration, Keeps
<1>2. CASE v \notin DOMAIN t.valueMap
  <2> DEFINE new == MakeNewVariableName(t, irName, rhs)
             text == [var |-> new.name, ops |-> <<>>]
             m == MapExpressionString(new.target, v, text)
             d == EmitVariableDeclaration(m, new.name, forceGlobal)
  <2>1. EmitGlaValueDeclaration(t, v, irName, rhs, forceGlobal) = d
    BY <1>2 DEF EmitGlaValueDeclaration
  <2>2. TargetOK(new.target) /\ Alike(t, new.target) /\ Keeps(t, new.target)
    BY NamesAlike, KeepsAlike, Zenon
  <2>3. IsText(text) /\ text.var = new.name
    BY DEF IsText
  <2> HIDE DEF new, text
  <2>4. /\ TargetOK(m) /\ Keeps(new.target, m) /\ Maps(new.target, m, v)
        /\ m.valueMap[v] = text
    BY <2>2, <2>3, TextMapped
  <2> HIDE DEF m
  <2>5. /\ TargetOK(d) /\ Keeps(m, d) /\ d.valueMap = m.valueMap
        /\ Seen(d, new.name, Len(d.scopes))
        /\ forceGlobal => new.name \in ToSet(d.globals)
    BY <2>4, VariableDeclared, Zenon
  <2> HIDE DEF d
  <2>6. Keeps(t, d)
    BY <2>2, <2>4, <2>5, KeepsTwice
  <2>7. Maps(t, d, v) /\ v \in DOMAIN d.valueMap
    BY <2>2, <2>4, <2>5 DEF Maps, Alike
  <2>8. SeenValue(d, v, IF forceGlobal THEN 1 ELSE Len(d.scopes))
    BY <2>3, <2>4, <2>5 DEF SeenValue, Seen
  <2> QED BY <1>2, <2>1, <2>5, <2>6, <2>7, <2>8
<1> QED BY <1>1, <1>2

-----------------------------------------------------------------------------
(* The back end's operations.                                              *)

(* d gives at most v a text, and no other value a new one. *)
Adds(t, d, v) ==
  /\ DOMAIN t.valueMap \subseteq DOMAIN d.valueMap
  /\ DOMAIN d.valueMap \subseteq DOMAIN t.valueMap \cup {v}
  /\ \A u \in DOMAIN t.valueMap \ {v} : d.valueMap[u] = t.valueMap[u]

(* What every operation on values does. *)
Goes(t, d, v) == TargetOK(d.target) /\ Keeps(t, d.target) /\ Adds(t, d.target, v)

(* The names in the statements written are declared. *)
Says(d) ==
  \A j \in DOMAIN d.text : \A n \in NamesOf(d.text[j]) :
    Seen(d.target, n, Len(d.target.scopes))

SeenHere(t, v) == SeenValue(t, v, Len(t.scopes))

LEMMA GoesTwice ==
  ASSUME NEW t, NEW d, NEW e, NEW v, Goes(t, d, v), Goes(d.target, e, v)
  PROVE  Goes(t, e, v)
BY KeepsTwice DEF Goes, Adds

LEMMA StillSeen ==
  ASSUME NEW t, NEW d, NEW v, NEW u \in DOMAIN t.valueMap, u # v, Goes(t, d, v)
  PROVE  /\ u \in DOMAIN d.target.valueMap /\ d.target.valueMap[u] = t.valueMap[u]
         /\ \A k \in 1..Len(t.scopes) : SeenValue(t, u, k) => SeenValue(d.target, u, k)
         /\ TargetOK(t) /\ SeenHere(t, u) => SeenHere(d.target, u)
<1>1. /\ u \in DOMAIN d.target.valueMap /\ d.target.valueMap[u] = t.valueMap[u]
      /\ \A k \in 1..Len(t.scopes) : SeenValue(t, u, k) => SeenValue(d.target, u, k)
      /\ Len(d.target.scopes) = Len(t.scopes)
  BY DEF Goes, Keeps, Adds, SeenValue
<1>2. TargetOK(t) => Len(t.scopes) \in 1..Len(t.scopes)
  BY ListFacts DEF TargetOK
<1> QED BY <1>1, <1>2 DEF SeenHere

LEMMA EmitGoes ==
  ASSUME NEW t, TargetOK(t), NEW v, NEW irName, NEW text, NEW by
  PROVE  LET d == Emit(t, v, irName, text, by)
         IN  /\ Goes(t, d, v) /\ v \in DOMAIN d.target.valueMap
             /\ v \in DOMAIN t.valueMap => d.target = t
             /\ v \notin DOMAIN t.valueMap => SeenHere(d.target, v)
             /\ /\ Seen(t, text.var, Len(t.scopes))
                /\ v \in DOMAIN t.valueMap => SeenHere(t, v)
                => Says(d) /\ SeenHere(d.target, v)
<1> DEFINE e == EmitGlaValueDeclaration(t, v, irName, TRUE, FALSE)
           w == <<Statement("assign", e.valueMap[v].var, v \notin DOMAIN t.valueMap, text, by)>>
           d == Emit(t, v, irName, text, by)
<1>1. d = [target |-> e, text |-> w]
  BY DEF Emit
<1>2. /\ TargetOK(e) /\ Keeps(t, e) /\ v \in DOMAIN e.valueMap
      /\ v \in DOMAIN t.valueMap => e = t
      /\ v \notin DOMAIN t.valueMap => Maps(t, e, v) /\ SeenHere(e, v)
  BY ValueDeclared DEF SeenHere
<1>3. DOMAIN w = {1} /\ NamesOf(w[1]) = {e.valueMap[v].var, text.var} \ {NoName}
  <2> HIDE DEF e
  <2> QED BY DEF Statement, NamesOf
<1> HIDE DEF e, w, d
<1>4. d.target = e /\ d.text = w
  BY <1>1
<1>5. Adds(t, e, v)
  BY <1>2 DEF Adds, Maps
<1>6. Len(t.scopes) \in 1..Len(t.scopes)
  BY ListFacts DEF TargetOK
<1>7. ASSUME Seen(t, text.var, Len(t.scopes)), v \in DOMAIN t.valueMap => SeenHere(t, v)
      PROVE  Says(d) /\ SeenHere(e, v)
  <2>1. SeenHere(e, v)
    BY <1>2, <1>7
  <2>2. Seen(e, text.var, Len(e.scopes))
    BY <1>2, <1>6, <1>7 DEF Keeps
  <2> QED BY <1>3, <1>4, <2>1, <2>2 DEF Says, SeenHere, SeenValue
<1> QED BY <1>2, <1>4, <1>5, <1>7 DEF Goes, d

LEMMA DeclarePhiCopyGoes ==
  ASSUME NEW t, TargetOK(t), NEW c, NEW i, i \notin DOMAIN t.valueMap
  PROVE  LET d == DeclarePhiCopy(t, c, i)
         IN  /\ Goes(t, d, i) /\ i \in DOMAIN d.target.valueMap
             /\ SeenHere(d.target, i) /\ Says(d)
<1> DEFINE e == EmitGlaValueDeclaration(t, i, c.name, FALSE, FALSE)
           w == <<Statement("declare", e.valueMap[i].var, TRUE, NoText, 0)>>
           d == DeclarePhiCopy(t, c, i)
<1>1. d = [target |-> e, text |-> w]
  BY DEF DeclarePhiCopy
<1>2. /\ TargetOK(e) /\ Keeps(t, e) /\ i \in DOMAIN e.valueMap
      /\ Maps(t, e, i) /\ SeenHere(e, i)
  BY ValueDeclared DEF SeenHere
<1>3. DOMAIN w = {1} /\ NamesOf(w[1]) = {e.valueMap[i].var, NoText.var} \ {NoName}
  <2> HIDE DEF e
  <2> QED BY DEF Statement, NamesOf
<1> HIDE DEF e, w, d
<1>4. d.target = e /\ d.text = w
  BY <1>1
<1>5. Adds(t, e, i)
  BY <1>2 DEF Adds, Maps
<1>6. Says(d)
  BY <1>2, <1>3, <1>4 DEF Says, SeenHere, SeenValue, NoText
<1> QED BY <1>2, <1>4, <1>5, <1>6 DEF Goes, d

LEMMA SilentGoes ==
  ASSUME NEW t, TargetOK(t), NEW v, NEW text, IsText(text)
  PROVE  LET d == Silent(MapExpressionString(t, v, text))
         IN  /\ Goes(t, d, v) /\ v \in DOMAIN d.target.valueMap
             /\ d.target.valueMap[v] = text /\ Says(d)
             /\ \A k \in 1..Len(t.scopes) : Seen(t, text.var, k) => SeenValue(d.target, v, k)
<1> DEFINE m == MapExpressionString(t, v, text)
           d == Silent(m)
<1>1. /\ TargetOK(m) /\ Keeps(t, m) /\ Maps(t, m, v) /\ m.valueMap[v] = text
  BY TextMapped
<1>2. d.target = m /\ d.text = <<>>
  BY DEF Silent
<1> HIDE DEF m, d
<1>3. Says(d)
  BY <1>2 DEF Says
<1>4. Adds(t, m, v) /\ v \in DOMAIN m.valueMap
  BY <1>1 DEF Maps, Adds
<1>5. \A k \in 1..Len(t.scopes) : Seen(t, text.var, k) => SeenValue(m, v, k)
  BY <1>1 DEF Keeps, SeenValue
<1> QED BY <1>1, <1>2, <1>3, <1>4, <1>5 DEF Goes, d, m

(* The values an instruction uses. *)
Uses(c) ==
  CASE c.kind = "read" -> {}
    [] c.kind = "insert" -> {c.args[1], c.args[2]}
    [] OTHER -> {c.args[1]}

LEMMA ApplyText ==
  ASSUME NEW x, IsText(x), NEW y
  PROVE  IsText([x EXCEPT !.ops = y]) /\ [x EXCEPT !.ops = y].var = x.var
BY DEF IsText

LEMMA SubstituteGoes ==
  ASSUME NEW t, TargetOK(t), NEW c, NEW i, c.kind \in Mapped, Uses(c) \subseteq DOMAIN t.valueMap
  PROVE  LET d == Substitute(t, c, i)
         IN  /\ Goes(t, d, i) /\ i \in DOMAIN d.target.valueMap /\ Says(d)
             /\ c.kind = "read" => SeenValue(d.target, i, 1)
             /\ \A u \in Uses(c) : SeenHere(t, u) => SeenHere(d.target, i)
<1>0. Len(t.scopes) \in 1..Len(t.scopes) /\ 1 \in 1..Len(t.scopes)
  BY ListFacts DEF TargetOK
<1>1. CASE c.kind = "read"
  <2> DEFINE text == [var |-> Input, ops |-> <<>>]
  <2>1. IsText(text) /\ text.var = Input
    BY DEF IsText
  <2>2. Substitute(t, c, i) = Silent(MapExpressionString(t, i, text))
    BY <1>1 DEF Substitute
  <2>3. Seen(t, text.var, 1)
    BY <2>1 DEF Seen, TargetOK
  <2>4. Uses(c) = {}
    BY <1>1 DEF Uses
  <2> HIDE DEF text
  <2> QED BY <1>0, <1>1, <2>1, <2>2, <2>3, <2>4, SilentGoes
<1>2. CASE c.kind # "read"
  <2> DEFINE u == c.args[1]
             text == Apply(t.valueMap[u], c.kind)
  <2>1. Uses(c) = {u}
    BY <1>2 DEF Uses, Mapped
  <2>2. IsText(t.valueMap[u])
    BY <2>1 DEF TargetOK
  <2>3. IsText(text) /\ text.var = t.valueMap[u].var
    BY <2>2, ApplyText, Zenon DEF Apply
  <2>4. Substitute(t, c, i) = Silent(MapExpressionString(t, i, text))
    BY <1>2 DEF Substitute
  <2> HIDE DEF text
  <2>5. LET d == Silent(MapExpressionString(t, i, text))
        IN  /\ Goes(t, d, i) /\ i \in DOMAIN d.target.valueMap /\ Says(d)
            /\ \A k \in 1..Len(t.scopes) : Seen(t, text.var, k) => SeenValue(d.target, i, k)
            /\ Len(d.target.scopes) = Len(t.scopes)
    BY <2>3, SilentGoes DEF Goes, Keeps
  <2> QED BY <1>0, <1>2, <2>1, <2>3, <2>4, <2>5 DEF SeenHere, SeenValue
<1> QED BY <1>1, <1>2

LEMMA RecordText ==
  ASSUME NEW x, NEW y, NEW z
  PROVE  /\ [[target |-> x, text |-> y] EXCEPT !.text = z].target = x
         /\ [[target |-> x, text |-> y] EXCEPT !.text = z].text = z
         /\ [target |-> x, text |-> y].target = x /\ [target |-> x, text |-> y].text = y
OBVIOUS

LEMMA SecondStatement ==
  ASSUME NEW y, NEW z
  PROVE  /\ DOMAIN Append(<<y>>, z) = {1, 2} /\ DOMAIN <<y>> = {1} /\ <<y>>[1] = y
         /\ Append(<<y>>, z)[1] = y /\ Append(<<y>>, z)[2] = z
<1>1. ASSUME NEW q, IsList(q), Len(q) = 1, q[1] = y
      PROVE  /\ DOMAIN Append(q, z) = 1..2
             /\ Append(q, z)[1] = y /\ Append(q, z)[2] = z
  <2> DEFINE a == Append(q, z)
  <2>1. /\ IsList(a) /\ Len(a) = Len(q) + 1 /\ a[Len(q) + 1] = z
        /\ \A i \in 1..Len(q) : a[i] = q[i]
    <3>1. a = Append(q, z)
      OBVIOUS
    <3> HIDE DEF a
    <3>2. Extended(a, q, z)
      BY <1>1, <3>1, Appended, Zenon
    <3> QED BY <3>2 DEF Extended
  <2> HIDE DEF a
  <2>2. DOMAIN a = 1..2 /\ a[1] = y /\ a[2] = z
    BY <1>1, <2>1, ListFacts
  <2> QED BY <2>2 DEF a
<1>2. IsList(<<y>>) /\ Len(<<y>>) = 1 /\ <<y>>[1] = y /\ DOMAIN <<y>> = {1}
  BY DEF IsList, ToSet
<1> QED BY <1>1, <1>2

LEMMA InsertGoes ==
  ASSUME NEW t, TargetOK(t), NEW c, NEW i, c.kind = "insert",
         Uses(c) \subseteq DOMAIN t.valueMap, i \notin Uses(c)
  PROVE  LET d == InsertElement(t, c, i)
         IN  /\ Goes(t, d, i) /\ i \in DOMAIN d.target.valueMap
             /\ i \in DOMAIN t.valueMap => d.target = t
             /\ /\ \A u \in Uses(c) : SeenHere(t, u)
                /\ i \in DOMAIN t.valueMap => SeenHere(t, i)
                => Says(d) /\ SeenHere(d.target, i)
<1> DEFINE text == t.valueMap[c.args[1]]
           value == t.valueMap[c.args[2]]
           copy == Emit(t, i, c.name, text, 0)
           s == Statement("member", copy.target.valueMap[i].var, FALSE, value, 0)
           d == InsertElement(t, c, i)
<1>1. Uses(c) = {c.args[1], c.args[2]}
  BY DEF Uses
<1>2. d = [copy EXCEPT !.text = Append(@, s)]
  BY DEF InsertElement
<1>3. \E x, y : copy = [target |-> x, text |-> <<y>>]
  BY DEF Emit
<1>4. /\ Goes(t, copy, i) /\ i \in DOMAIN copy.target.valueMap
      /\ i \in DOMAIN t.valueMap => copy.target = t
      /\ /\ Seen(t, text.var, Len(t.scopes))
         /\ i \in DOMAIN t.valueMap => SeenHere(t, i)
         => Says(copy) /\ SeenHere(copy.target, i)
  BY EmitGoes
<1>5. NamesOf(s) = {copy.target.valueMap[i].var, value.var} \ {NoName}
  BY DEF Statement, NamesOf
<1> HIDE DEF copy, s, d
<1>6. /\ d.target = copy.target
      /\ DOMAIN d.text = {1, 2} /\ 1 \in DOMAIN copy.text
      /\ d.text[1] = copy.text[1] /\ d.text[2] = s
  <2>1. PICK x, y : copy = [target |-> x, text |-> <<y>>]
    BY <1>3
  <2>2. d.target = x /\ d.text = Append(<<y>>, s) /\ copy.text = <<y>> /\ copy.target = x
    BY <1>2, <2>1, RecordText
  <2> QED BY <2>2, SecondStatement
<1>7. ASSUME \A u \in Uses(c) : SeenHere(t, u), i \in DOMAIN t.valueMap => SeenHere(t, i)
      PROVE  Says(d) /\ SeenHere(d.target, i)
  <2>1. Seen(t, text.var, Len(t.scopes)) /\ SeenHere(t, c.args[2])
    BY <1>1, <1>7 DEF SeenHere, SeenValue
  <2>2. Says(copy) /\ SeenHere(copy.target, i)
    BY <1>4, <1>7, <2>1
  <2>3. Seen(copy.target, value.var, Len(copy.target.scopes))
    <3>1. c.args[2] \in DOMAIN t.valueMap /\ c.args[2] # i
      BY <1>1
    <3>2. SeenHere(copy.target, c.args[2]) /\ copy.target.valueMap[c.args[2]] = value
      BY <1>4, <2>1, <3>1, StillSeen
    <3> QED BY <3>2 DEF SeenHere, SeenValue
  <2> HIDE DEF value
  <2>4. ASSUME NEW n \in NamesOf(d.text[1])
        PROVE  Seen(d.target, n, Len(d.target.scopes))
    BY <1>6, <2>2 DEF Says
  <2>5. ASSUME NEW n \in NamesOf(d.text[2])
        PROVE  Seen(d.target, n, Len(d.target.scopes))
    BY <1>5, <1>6, <2>2, <2>3 DEF SeenHere, SeenValue
  <2> QED BY <1>6, <2>2, <2>4, <2>5 DEF Says
<1> QED BY <1>4, <1>6, <1>7 DEF Goes, d

LEMMA AddInstructionGoes ==
  ASSUME NEW t, TargetOK(t), NEW c, NEW i, i \notin DOMAIN t.valueMap,
         c.kind \in Kinds, c.outer \in BOOLEAN, Uses(c) \subseteq DOMAIN t.valueMap
  PROVE  LET d == AddInstruction(t, c, i)
         IN  /\ Goes(t, d, i) /\ i \in DOMAIN d.target.valueMap
             /\ c.kind = "read" \/ (c.outer /\ c.kind \in {"compute", "insert"})
                  => SeenValue(d.target, i, 1)
             /\ (\A u \in Uses(c) : SeenHere(t, u)) => Says(d) /\ SeenHere(d.target, i)
<1> DEFINE known == IF c.outer THEN EmitGlaValueDeclaration(t, i, c.name, FALSE, TRUE) ELSE t
           k == Silent(known)
           text == known.valueMap[c.args[1]]
           d == AddInstruction(t, c, i)
<1>1. /\ Goes(t, k, i) /\ k.target = known
      /\ c.outer => i \in DOMAIN known.valueMap /\ SeenValue(known, i, 1)
      /\ ~ c.outer => known = t
  <2>1. k.target = known
    BY DEF Silent
  <2>2. CASE c.outer
    <3>1. known = EmitGlaValueDeclaration(t, i, c.name, FALSE, TRUE)
      BY <2>2
    <3> HIDE DEF known, k
    <3>2. /\ TargetOK(known) /\ Keeps(t, known) /\ i \in DOMAIN known.valueMap
          /\ Maps(t, known, i) /\ SeenValue(known, i, 1)
      BY <3>1, ValueDeclared
    <3> QED BY <2>1, <2>2, <3>2 DEF Goes, Adds, Maps
  <2>3. CASE ~ c.outer
    <3>1. known = t
      BY <2>3
    <3> HIDE DEF known, k
    <3> QED BY <2>1, <2>3, <3>1 DEF Goes, Adds, Keeps
  <2> QED BY <2>1, <2>2, <2>3
<1>2. d = CASE c.kind \in Mapped -> Substitute(known, c, i)
            [] c.kind = "insert" -> InsertElement(known, c, i)
            [] c.kind = "compute" -> Emit(known, i, c.name, text, i)
  BY DEF AddInstruction
<1> HIDE DEF known, k, d
<1>3. i \notin Uses(c) /\ Uses(c) \subseteq DOMAIN known.valueMap
  BY <1>1 DEF Goes, Adds
<1>4. (\A u \in Uses(c) : SeenHere(t, u)) => \A u \in Uses(c) : SeenHere(known, u)
  BY <1>1, <1>3, StillSeen
<1>5. TargetOK(known)
  BY <1>1 DEF Goes
<1>6. 1 \in 1..Len(known.scopes) /\ Len(known.scopes) \in Nat
  BY <1>5, ListFacts DEF TargetOK
<1>7. i \in DOMAIN known.valueMap => c.outer /\ SeenHere(known, i)
  BY <1>1, <1>6 DEF SeenHere, SeenValue, Seen
<1>8. CASE c.kind \in Mapped
  <2>1. d = Substitute(known, c, i)
    BY <1>2, <1>8 DEF Mapped
  <2>2. /\ Goes(known, d, i) /\ i \in DOMAIN d.target.valueMap /\ Says(d)
        /\ c.kind = "read" => SeenValue(d.target, i, 1)
        /\ \A u \in Uses(c) : SeenHere(known, u) => SeenHere(d.target, i)
    BY <1>3, <1>5, <1>8, <2>1, SubstituteGoes
  <2>3. c.kind = "read" => SeenHere(d.target, i)
    <3>1. Len(d.target.scopes) = Len(known.scopes)
      BY <2>2 DEF Goes, Keeps
    <3> QED BY <1>6, <2>2, <3>1 DEF SeenHere, SeenValue, Seen
  <2>4. c.kind # "read" => \E u \in Uses(c) : TRUE
    BY <1>8 DEF Uses, Mapped
  <2>5. Goes(t, d, i)
    BY <1>1, <2>2, GoesTwice
  <2>6. c.kind \notin {"compute", "insert"}
    BY <1>8 DEF Mapped
  <2> QED BY <1>4, <2>2, <2>3, <2>4, <2>5, <2>6 DEF d
<1>9. CASE c.kind = "insert"
  <2>1. d = InsertElement(known, c, i)
    BY <1>2, <1>9 DEF Mapped
  <2>2. /\ Goes(known, d, i) /\ i \in DOMAIN d.target.valueMap
        /\ i \in DOMAIN known.valueMap => d.target = known
        /\ /\ \A u \in Uses(c) : SeenHere(known, u)
           /\ i \in DOMAIN known.valueMap => SeenHere(known, i)
           => Says(d) /\ SeenHere(d.target, i)
    BY <1>3, <1>5, <1>9, <2>1, InsertGoes
  <2>3. Goes(t, d, i)
    BY <1>1, <2>2, GoesTwice
  <2> QED BY <1>1, <1>4, <1>7, <1>9, <2>2, <2>3 DEF d
<1>10. CASE c.kind = "compute"
  <2>1. d = Emit(known, i, c.name, text, i)
    BY <1>2, <1>10 DEF Mapped
  <2>2. /\ Goes(known, d, i) /\ i \in DOMAIN d.target.valueMap
        /\ i \in DOMAIN known.valueMap => d.target = known
        /\ /\ Seen(known, text.var, Len(known.scopes))
           /\ i \in DOMAIN known.valueMap => SeenHere(known, i)
           => Says(d) /\ SeenHere(d.target, i)
    BY <1>5, <2>1, EmitGoes
  <2>3. (\A u \in Uses(c) : SeenHere(known, u)) => Seen(known, text.var, Len(known.scopes))
    BY <1>10 DEF Uses, SeenHere, SeenValue
  <2>4. Goes(t, d, i)
    BY <1>1, <2>2, GoesTwice
  <2> HIDE DEF text
  <2> QED BY <1>1, <1>4, <1>7, <1>10, <2>2, <2>3, <2>4 DEF d
<1> QED BY <1>8, <1>9, <1>10 DEF Kinds

(* An inner scope hides nothing; one that is left takes only its own.      *)
LEMMA ScopeOpened ==
  ASSUME NEW t, TargetOK(t)
  PROVE  LET d == NewScope(t)
         IN  /\ TargetOK(d) /\ d.valueMap = t.valueMap /\ Len(d.scopes) = Len(t.scopes) + 1
             /\ \A n : \A k \in 1..Len(t.scopes) : Seen(t, n, k) => Seen(d, n, k)
             /\ \A n : Seen(t, n, Len(t.scopes)) => Seen(d, n, Len(d.scopes))
<1> DEFINE scopes == Append(t.scopes, <<>>)
           d == NewScope(t)
<1>1. /\ d = [valueMap |-> t.valueMap, canonMap |-> t.canonMap, hashedNames |-> t.hashedNames,
              lastVariable |-> t.lastVariable, globals |-> t.globals, scopes |-> scopes]
  <2> HIDE DEF scopes
  <2> QED BY Fields DEF TargetOK, NewScope, scopes
<1>2. /\ IsList(scopes) /\ Len(scopes) = Len(t.scopes) + 1 /\ scopes # <<>>
      /\ scopes[Len(t.scopes) + 1] = <<>>
      /\ \A i \in 1..Len(t.scopes) : scopes[i] = t.scopes[i]
  BY AppendList, Zenon DEF TargetOK
<1> HIDE DEF scopes, d
<1>3. Len(t.scopes) \in Nat /\ DOMAIN scopes = 1..(Len(t.scopes) + 1)
      /\ DOMAIN t.scopes = 1..Len(t.scopes)
  BY <1>2, ListFacts DEF TargetOK
<1>4. \A k \in DOMAIN scopes : IsList(scopes[k])
  BY <1>2, <1>3, EmptyList DEF TargetOK
<1>5. TargetOK(d)
  BY <1>1, <1>2, <1>4 DEF TargetOK, IsTarget
<1>6. ASSUME NEW n, NEW k \in 1..Len(t.scopes), Seen(t, n, k)
      PROVE  Seen(d, n, k) /\ Seen(d, n, Len(t.scopes) + 1)
  BY <1>1, <1>2, <1>3, <1>6 DEF Seen
<1>7. Len(t.scopes) \in 1..Len(t.scopes)
  BY ListFacts DEF TargetOK
<1> QED BY <1>1, <1>2, <1>5, <1>6, <1>7 DEF d

LEMMA ScopeLeft ==
  ASSUME NEW t, TargetOK(t), Len(t.scopes) > 1
  PROVE  LET d == LeaveScope(t)
         IN  /\ TargetOK(d) /\ d.valueMap = t.valueMap /\ Len(d.scopes) = Len(t.scopes) - 1
             /\ d.globals = t.globals
             /\ \A n : \A k \in 1..(Len(t.scopes) - 1) : Seen(t, n, k) => Seen(d, n, k)
<1> DEFINE scopes == Front(t.scopes)
           d == LeaveScope(t)
<1>1. /\ d = [valueMap |-> t.valueMap, canonMap |-> t.canonMap, hashedNames |-> t.hashedNames,
              lastVariable |-> t.lastVariable, globals |-> t.globals, scopes |-> scopes]
  <2> HIDE DEF scopes
  <2> QED BY Fields DEF TargetOK, LeaveScope, scopes
<1>2. /\ IsList(scopes) /\ Len(scopes) = Len(t.scopes) - 1 /\ Len(t.scopes) \in Nat \ {0}
      /\ \A i \in 1..(Len(t.scopes) - 1) : scopes[i] = t.scopes[i]
  BY FrontList, Zenon DEF TargetOK
<1> HIDE DEF scopes, d
<1>3. /\ DOMAIN scopes = 1..(Len(t.scopes) - 1) /\ scopes # <<>>
      /\ DOMAIN t.scopes = 1..Len(t.scopes)
  BY <1>2, ListFacts DEF TargetOK
<1>4. \A k \in DOMAIN scopes : IsList(scopes[k])
  BY <1>2, <1>3 DEF TargetOK
<1>5. TargetOK(d)
  BY <1>1, <1>2, <1>3, <1>4 DEF TargetOK, IsTarget
<1>6. ASSUME NEW n, NEW k \in 1..(Len(t.scopes) - 1), Seen(t, n, k)
      PROVE  Seen(d, n, k)
  BY <1>1, <1>2, <1>3, <1>6 DEF Seen
<1> QED BY <1>1, <1>2, <1>5, <1>6 DEF d

LEMMA ControlSays ==
  ASSUME NEW t, NEW do, NEW text, text.var = NoName \/ Seen(t, text.var, Len(t.scopes))
  PROVE  Says([target |-> t, text |-> Control(do, text)])
<1> DEFINE w == Control(do, text)
           d == [target |-> t, text |-> w]
<1>1. DOMAIN w = {1} /\ NamesOf(w[1]) = {NoName, text.var} \ {NoName}
  BY DEF Control, Statement, NamesOf
<1> HIDE DEF w
<1>2. d.target = t /\ d.text = w
  OBVIOUS
<1> HIDE DEF d
<1>3. Says(d)
  BY <1>1, <1>2 DEF Says
<1> QED BY <1>3 DEF d, w

LEMMA NoTextSays ==
  ASSUME NEW t, NEW do
  PROVE  Says([target |-> t, text |-> Control(do, NoText)])
BY ControlSays DEF NoText

-----------------------------------------------------------------------------
(* A call.                                                                 *)

At == Len(calls) + 1
Made(args, kind, name, outer) ==
  [call |-> shape[At].call, of |-> shape[At].of, kind |-> kind, args |-> args,
   name |-> name, outer |-> outer]

(* The call c is the next one, and d is what the back end makes of it. *)
Calls(c, d) ==
  /\ Follows' /\ At \in DOMAIN shape /\ Len(calls') = At /\ DOMAIN calls' = 1..At
  /\ c.call = shape[At].call /\ c.of = shape[At].of
  /\ calls'[At] = c /\ \A i \in 1..Len(calls) : calls'[i] = calls[i]
  /\ target' = d.target /\ d = Called(target, c, At)
  /\ IsList(shader') /\ Len(shader') = At /\ Last(shader') = d.text
  /\ shape' = shape

LEMMA CallMade ==
  ASSUME TInv, Running, NEW args, NEW kind, NEW name, NEW outer,
         Call(args, kind, name, outer)
  PROVE  LET c == Made(args, kind, name, outer) IN Calls(c, Called(target, c, At))
<1> DEFINE c == Made(args, kind, name, outer)
           d == Called(target, c, At)
<1>1. calls' = Append(calls, c) /\ target' = d.target /\ shader' = Append(shader, d.text)
      /\ shape' = shape
  BY DEF Call, Made, At, Now
<1>2. shape \in Seq(ToSet(shape)) /\ shape \in Shapes
  BY ShapesAssumption DEF TInv, Follows, Ordered
<1>3. /\ c.call = shape[At].call /\ c.of = shape[At].of
  BY DEF Made
<1> HIDE DEF c, d
<1>4. /\ IsList(calls') /\ Len(calls') = At /\ calls'[At] = c
      /\ \A i \in 1..Len(calls) : calls'[i] = calls[i]
  <2>1. IsList(calls)
    BY DEF TInv, Follows
  <2>2. calls' = Append(calls, c)
    BY <1>1
  <2>3. Extended(calls', calls, c)
    BY <2>1, <2>2, Appended, Zenon
  <2> QED BY <2>3 DEF Extended, At
<1>5. IsList(shader') /\ Len(shader') = Len(shader) + 1 /\ Last(shader') = d.text
  <2>1. IsList(shader)
    BY DEF TInv, Constructs
  <2>2. shader' = Append(shader, d.text)
    BY <1>1
  <2>3. Extended(shader', shader, d.text)
    BY <2>1, <2>2, Appended, Zenon
  <2> QED BY <2>3 DEF Extended
<1>6. Len(shader) = Len(calls)
  BY DEF TInv, TypeOK
<1>7. Len(calls) \in Nat /\ DOMAIN calls = 1..Len(calls) /\ DOMAIN calls' = 1..At
  BY <1>4, ListFacts DEF TInv, Follows
<1>8. Len(shape) \in Nat /\ DOMAIN shape = 1..Len(shape)
  BY <1>2
<1>9. At \in DOMAIN shape /\ Len(calls') <= Len(shape)
  BY <1>4, <1>7, <1>8 DEF Running, At
<1>10. \A i \in DOMAIN calls' : calls'[i].call = shape[i].call /\ calls'[i].of = shape[i].of
  BY <1>3, <1>4, <1>7 DEF At, TInv, Follows
<1>11. Follows'
  BY <1>1, <1>2, <1>4, <1>9, <1>10, Zenon DEF Follows
<1> QED BY <1>1, <1>3, <1>4, <1>5, <1>6, <1>7, <1>9, <1>11, Zenon DEF Calls, At, c, d

LEMMA TypeFacts ==
  ASSUME TInv
  PROVE  /\ Len(calls) \in Nat /\ DOMAIN calls = 1..Len(calls)
         /\ At \in Nat \ {0} /\ At \notin DOMAIN target.valueMap
         /\ TargetOK(target) /\ Len(target.scopes) \in Nat \ {0}
         /\ Len(target.scopes) = Len(within) + 1
         /\ Len(within) \in Nat /\ DOMAIN within = 1..Len(within)
         /\ usable \subseteq DOMAIN target.valueMap
         /\ DOMAIN target.valueMap \subseteq DOMAIN calls
<1>1. Len(calls) \in Nat /\ DOMAIN calls = 1..Len(calls)
  BY ListFacts DEF TInv, Follows
<1>2. Len(within) \in Nat /\ DOMAIN within = 1..Len(within)
  BY ListFacts DEF TInv, Constructs
<1>3. TargetOK(target) /\ TypeOK
  BY DEF TInv
<1> QED BY <1>1, <1>2, <1>3 DEF TypeOK, At

LEMMA LiveMapped ==
  ASSUME TInv, At \in DOMAIN shape
  PROVE  \A p \in shape[At].live :
           p \in DOMAIN target.valueMap /\ p \in DOMAIN calls /\ IsPhi(p)
<1> TAKE p \in shape[At].live
<1>1. shape \in Shapes /\ PhisMapped
  BY DEF TInv, Follows
<1>2. PICK j \in 1..(At - 1) : /\ shape[j].call \in {"addPhiCopy", "addPhiAlias"}
                               /\ p = shape[j].of
  BY ShapesAssumption, <1>1 DEF Ordered
<1>3. j \in DOMAIN calls /\ calls[j].call = shape[j].call /\ calls[j].of = p
  BY <1>2, TypeFacts DEF At, TInv, Follows
<1>4. p \in DOMAIN target.valueMap /\ p \in DOMAIN calls
  BY <1>1, <1>2, <1>3, TypeFacts DEF PhisMapped
<1>5. j \in DOMAIN shape
  <2>1. Len(calls) <= Len(shape) /\ shape \in Seq(ToSet(shape))
    BY ShapesAssumption, <1>1 DEF TInv, Follows, Ordered
  <2> QED BY <1>2, <2>1, TypeFacts DEF At
<1>6. Declares(shape[p].call)
  BY ShapesAssumption, <1>1, <1>2, <1>5, Zenon DEF Ordered, Declares
<1>7. calls[p].call = shape[p].call
  BY <1>4 DEF TInv, Follows
<1> QED BY <1>4, <1>6, <1>7 DEF IsPhi

(* A call that gives v a text keeps what does not depend on the constructs. *)
LEMMA MapsKept ==
  ASSUME TInv, NEW c, NEW d, Calls(c, d), NEW v \in 1..At,
         TargetOK(d.target), Adds(target, d.target, v),
         c.call = "declarePhiCopy" => At \in DOMAIN d.target.valueMap,
         c.call \in {"addPhiCopy", "addPhiAlias"} => c.of \in DOMAIN d.target.valueMap
  PROVE  /\ Follows' /\ TargetOK(target)' /\ PhisMapped'
         /\ IsList(shader)' /\ Len(shader') = Len(calls')
         /\ DOMAIN target.valueMap \subseteq DOMAIN target'.valueMap
         /\ DOMAIN target'.valueMap \subseteq DOMAIN calls'
<1>1. /\ Follows' /\ target' = d.target /\ IsList(shader') /\ Len(shader') = Len(calls')
      /\ DOMAIN calls' = 1..At /\ calls'[At] = c
      /\ \A i \in 1..Len(calls) : calls'[i] = calls[i]
  BY DEF Calls
<1>2. /\ DOMAIN target.valueMap \subseteq DOMAIN target'.valueMap
      /\ DOMAIN target'.valueMap \subseteq DOMAIN target.valueMap \cup {v}
  BY <1>1 DEF Adds
<1>3. DOMAIN target'.valueMap \subseteq DOMAIN calls'
  BY <1>1, <1>2, TypeFacts DEF At
<1>4. PhisMapped'
  <2> SUFFICES ASSUME NEW i \in DOMAIN calls'
               PROVE  /\ calls'[i].call = "declarePhiCopy" => i \in DOMAIN target'.valueMap
                      /\ calls'[i].call \in {"addPhiCopy", "addPhiAlias"}
                           => calls'[i].of \in DOMAIN target'.valueMap
    BY DEF PhisMapped
  <2>1. CASE i = At
    BY <1>1, <2>1
  <2>2. CASE i # At
    <3>1. i \in DOMAIN calls /\ i \in 1..Len(calls)
      BY <1>1, <2>2, TypeFacts DEF At
    <3> QED BY <1>1, <1>2, <3>1 DEF TInv, PhisMapped
  <2> QED BY <2>1, <2>2
<1> QED BY <1>1, <1>2, <1>3, <1>4

LEMMA WithinKept ==
  ASSUME TInv, within' = within, IsList(shader)',
         DOMAIN target.valueMap \subseteq DOMAIN target'.valueMap
  PROVE  Constructs'
<1>1. Constructs
  BY DEF TInv
<1>2. \A k \in DOMAIN within' :
       /\ within'[k] = [usable |-> within'[k].usable, exits |-> within'[k].exits,
                        loop |-> within'[k].loop]
       /\ within'[k].usable \subseteq DOMAIN target'.valueMap
       /\ \A e \in within'[k].exits : e \subseteq DOMAIN target'.valueMap
  BY <1>1, Zenon DEF Constructs
<1> QED BY <1>1, <1>2, Zenon DEF Constructs

(* What is said of the values made, and the statements. *)
LEMMA SeenKept ==
  ASSUME TInv, VInv, NEW c, NEW d, Calls(c, d), NEW K \in Nat \ {0}, TargetOK(d.target),
         \A u \in DOMAIN target.valueMap : \A k \in 1..K :
           SeenValue(target, u, k) => SeenValue(d.target, u, k),
         \A u \in DOMAIN d.target.valueMap \ DOMAIN target.valueMap :
           u = At \/ SeenValue(d.target, u, 1),
         \A u \in DOMAIN d.target.valueMap : u \in 1..At,
         (/\ At \in DOMAIN d.target.valueMap
          /\ \/ Declares(c.call) \/ c.kind = "read"
             \/ c.outer /\ c.kind \in {"compute", "insert"}) => SeenValue(d.target, At, 1),
         c.outer => c.kind \in Kinds,
         Says(d)
  PROVE  (LastingSeen /\ OuterKinds /\ Scoped)'
<1>1. /\ target' = d.target /\ Last(shader') = d.text
      /\ DOMAIN calls' = 1..At /\ calls'[At] = c
      /\ \A i \in 1..Len(calls) : calls'[i] = calls[i]
  BY DEF Calls
<1>2. \A i \in 1..At : i = At \/ i \in 1..Len(calls)
  BY TypeFacts DEF At
<1>3. LastingSeen'
  <2> SUFFICES ASSUME NEW v \in DOMAIN d.target.valueMap, Lasts(v)'
               PROVE  SeenValue(d.target, v, 1)
    BY <1>1 DEF LastingSeen
  <2>1. CASE v = At
    <3>1. Declares(c.call) \/ c.kind = "read" \/ (c.outer /\ c.kind \in {"compute", "insert"})
      BY <1>1, <2>1 DEF Lasts, IsPhi
    <3> QED BY <2>1, <3>1
  <2>2. CASE v # At
    <3>1. v \in 1..Len(calls) /\ calls'[v] = calls[v]
      BY <1>1, <1>2, <2>2
    <3>2. Lasts(v)
      BY <3>1 DEF Lasts, IsPhi
    <3>3. CASE v \in DOMAIN target.valueMap
      <4>1. SeenValue(target, v, 1)
        BY <3>2, <3>3 DEF VInv, LastingSeen
      <4> QED BY <3>3, <4>1
    <3>4. CASE v \notin DOMAIN target.valueMap
      BY <2>2, <3>4
    <3> QED BY <3>3, <3>4
  <2> QED BY <2>1, <2>2
<1>4. OuterKinds'
  <2>1. \A i \in 1..Len(calls) : calls[i].outer => calls[i].kind \in Kinds
    BY TypeFacts DEF VInv, OuterKinds
  <2> QED BY <1>1, <1>2, <2>1, Zenon DEF OuterKinds
<1>5. Scoped'
  <2> SUFFICES ASSUME NEW i \in DOMAIN d.text, NEW n \in NamesOf(d.text[i])
               PROVE  \/ n \in ToSet(d.target.globals)
                      \/ \E k \in DOMAIN d.target.scopes : n \in ToSet(d.target.scopes[k])
    BY <1>1 DEF Scoped
  <2>1. Seen(d.target, n, Len(d.target.scopes))
    BY DEF Says
  <2>2. DOMAIN d.target.scopes = 1..Len(d.target.scopes)
    BY ListFacts DEF TargetOK
  <2> QED BY <2>1, <2>2 DEF Seen
<1> QED BY <1>3, <1>4, <1>5

LEMMA SeenDeeper ==
  ASSUME NEW t, NEW n, NEW k \in Nat, NEW l \in Nat, k <= l, Seen(t, n, k)
  PROVE  Seen(t, n, l)
BY DEF Seen

LEMMA WithinSeenKept ==
  ASSUME TInv, VInv, NEW c, NEW d, Calls(c, d), within' = within,
         \A u \in DOMAIN target.valueMap : \A k \in 1..Len(within) :
           SeenValue(target, u, k) => SeenValue(d.target, u, k)
  PROVE  WithinSeen' /\ PhisOutside'
<1>1. target' = d.target /\ DOMAIN calls' = 1..At /\ \A i \in 1..Len(calls) : calls'[i] = calls[i]
  BY DEF Calls
<1>2. WithinSeen'
  <2> SUFFICES ASSUME NEW k \in DOMAIN within, NEW v \in within[k].usable
               PROVE  SeenValue(d.target, v, k)
    BY <1>1 DEF WithinSeen
  <2>1. v \in DOMAIN target.valueMap /\ k \in 1..Len(within)
    BY TypeFacts DEF TInv, Constructs
  <2> QED BY <2>1 DEF VInv, WithinSeen
<1>3. PhisOutside'
  <2> SUFFICES ASSUME \A i \in DOMAIN calls' : IsPhi(i)'
               PROVE  within = <<>>
    BY DEF PhisOutside
  <2>1. ASSUME NEW i \in DOMAIN calls PROVE IsPhi(i)
    <3>1. i \in DOMAIN calls' /\ calls'[i] = calls[i]
      BY <1>1, TypeFacts DEF At
    <3>2. IsPhi(i)'
      BY <3>1
    <3> QED BY <3>1, <3>2 DEF IsPhi
  <2> QED BY <2>1 DEF VInv, PhisOutside
<1> QED BY <1>2, <1>3

-----------------------------------------------------------------------------
(* Each action keeps both.                                                 *)

LEMMA TypeKept ==
  ASSUME Follows', TargetOK(target)', PhisMapped', Constructs', Len(shader') = Len(calls'),
         usable' \subseteq DOMAIN target'.valueMap, Len(target'.scopes) = Len(within') + 1,
         DOMAIN target'.valueMap \subseteq DOMAIN calls'
  PROVE  TInv'
BY DEF TInv, TypeOK

LEMMA DeclarePhiStep ==
  ASSUME TInv, DeclarePhi
  PROVE  TInv' /\ (VInv => VInv')
<1>1. PICK name : Call(<<>>, "none", name, FALSE)
  BY DEF DeclarePhi
<1>2. Running /\ Declares(shape[At].call) /\ usable' = usable /\ within' = within
  BY DEF DeclarePhi, Now, At
<1> DEFINE c == Made(<<>>, "none", name, FALSE)
           d == Called(target, c, At)
<1>3. Calls(c, d)
  BY <1>1, <1>2, CallMade
<1>4. c.call = shape[At].call /\ c.kind = "none" /\ c.outer = FALSE
  BY DEF Made
<1> HIDE DEF c
<1>5. c.call = "declarePhiCopy" => d = DeclarePhiCopy(target, c, At)
  BY DEF Called
<1>6. c.call = "declarePhiAlias" => d = Silent(target)
  BY DEF Called
<1>7. c.call \in {"declarePhiCopy", "declarePhiAlias"}
  BY <1>2, <1>4 DEF Declares
<1> HIDE DEF d
<1>8. /\ Goes(target, d, At) /\ Says(d)
      /\ At \in DOMAIN d.target.valueMap => SeenHere(d.target, At)
      /\ c.call = "declarePhiCopy" => At \in DOMAIN d.target.valueMap
  <2>1. TargetOK(target) /\ At \notin DOMAIN target.valueMap
    BY TypeFacts
  <2>2. CASE c.call = "declarePhiCopy"
    BY <1>5, <2>1, <2>2, DeclarePhiCopyGoes
  <2>3. CASE c.call = "declarePhiAlias"
    <3>1. d.target = target /\ d.text = <<>>
      BY <1>6, <2>3 DEF Silent
    <3> QED BY <2>1, <2>3, <3>1 DEF Goes, Keeps, Adds, Says
  <2> QED BY <1>7, <2>2, <2>3
<1>9. /\ TargetOK(d.target) /\ Adds(target, d.target, At) /\ target' = d.target
      /\ Len(d.target.scopes) = Len(target.scopes)
  BY <1>3, <1>8 DEF Goes, Keeps, Calls
<1>10. At \in 1..At
  BY TypeFacts
<1>11. /\ Follows' /\ TargetOK(target)' /\ PhisMapped'
       /\ IsList(shader)' /\ Len(shader') = Len(calls')
       /\ DOMAIN target.valueMap \subseteq DOMAIN target'.valueMap
       /\ DOMAIN target'.valueMap \subseteq DOMAIN calls'
  BY <1>3, <1>7, <1>8, <1>9, <1>10, MapsKept
<1>12. Constructs'
  BY <1>2, <1>11, WithinKept
<1>13. TInv'
  BY <1>2, <1>9, <1>11, <1>12, TypeFacts, TypeKept
<1>14. ASSUME VInv PROVE VInv'
  <2>1. within = <<>>
    <3>1. \A i \in 1..At : Declares(shape[i].call)
      <4>1. At \in DOMAIN shape /\ shape \in Shapes
        BY <1>3 DEF Calls, TInv, Follows
      <4> QED BY ShapesAssumption, <1>2, <4>1, Zenon DEF Ordered
    <3>2. \A i \in DOMAIN calls : IsPhi(i)
      BY <3>1, TypeFacts DEF At, IsPhi, TInv, Follows
    <3> QED BY <1>14, <3>2 DEF VInv, PhisOutside
  <2>2. Len(target.scopes) = 1
    BY <2>1, TypeFacts, EmptyList
  <2>3. \A u \in DOMAIN target.valueMap : \A k \in 1..1 :
          SeenValue(target, u, k) => SeenValue(d.target, u, k)
    BY <1>8, <2>2, TypeFacts, StillSeen
  <2>4. At \in DOMAIN d.target.valueMap => SeenValue(d.target, At, 1)
    BY <1>8, <1>9, <2>2 DEF SeenHere
  <2>5. \A u \in DOMAIN d.target.valueMap \ DOMAIN target.valueMap : u = At
    BY <1>9 DEF Adds
  <2>6. \A u \in DOMAIN d.target.valueMap : u \in 1..At
    BY <1>3, <1>9, <1>11 DEF Calls
  <2>7. (LastingSeen /\ OuterKinds /\ Scoped)'
    BY <1>3, <1>4, <1>8, <1>9, <1>14, <2>3, <2>4, <2>5, <2>6, SeenKept
  <2>8. WithinSeen' /\ PhisOutside'
    BY <1>2, <2>1 DEF WithinSeen, PhisOutside
  <2>9. UsableSeen'
    <3> SUFFICES ASSUME NEW v \in usable
                 PROVE  SeenValue(d.target, v, 1)
      BY <1>2, <1>9, <2>2 DEF UsableSeen
    <3>1. v \in DOMAIN target.valueMap /\ SeenValue(target, v, 1)
      BY <1>14, <2>2, TypeFacts DEF VInv, UsableSeen
    <3> QED BY <2>3, <3>1
  <2> QED BY <2>7, <2>8, <2>9 DEF VInv
<1> QED BY <1>13, <1>14

(* A call that opens and closes nothing. *)
LEMMA SameScopes ==
  ASSUME TInv, VInv, NEW c, NEW d, Calls(c, d), NEW v \in 1..At,
         Goes(target, d, v),
         \A k \in 1..Len(target.scopes) :
           v \in DOMAIN target.valueMap /\ SeenValue(target, v, k) => SeenValue(d.target, v, k)
  PROVE  /\ \A u \in DOMAIN target.valueMap : \A k \in 1..Len(target.scopes) :
              SeenValue(target, u, k) => SeenValue(d.target, u, k)
         /\ within' = within => WithinSeen' /\ PhisOutside'
         /\ \A u \in usable : SeenHere(d.target, u)
         /\ DOMAIN d.target.valueMap \subseteq 1..At
<1>1. \A u \in DOMAIN target.valueMap : \A k \in 1..Len(target.scopes) :
        SeenValue(target, u, k) => SeenValue(d.target, u, k)
  <2> SUFFICES ASSUME NEW u \in DOMAIN target.valueMap, NEW k \in 1..Len(target.scopes),
                      SeenValue(target, u, k)
               PROVE  SeenValue(d.target, u, k)
    OBVIOUS
  <2>1. CASE u = v
    BY <2>1
  <2>2. CASE u # v
    BY <2>2, StillSeen
  <2> QED BY <2>1, <2>2
<1>2. Len(within) \in Nat /\ Len(target.scopes) = Len(within) + 1
      /\ usable \subseteq DOMAIN target.valueMap /\ Len(d.target.scopes) = Len(target.scopes)
  BY TypeFacts DEF Goes, Keeps
<1>3. within' = within => WithinSeen' /\ PhisOutside'
  <2>1. \A k \in 1..Len(within) : k \in 1..Len(target.scopes)
    BY <1>2
  <2> QED BY <1>1, <2>1, WithinSeenKept
<1>4. \A u \in usable : SeenHere(d.target, u)
  <2>1. Len(target.scopes) \in 1..Len(target.scopes)
    BY <1>2
  <2>2. \A u \in usable : SeenValue(target, u, Len(target.scopes))
    BY DEF VInv, UsableSeen
  <2> QED BY <1>1, <1>2, <2>1, <2>2 DEF SeenHere
<1>5. DOMAIN d.target.valueMap \subseteq 1..At
  <2>1. DOMAIN target.valueMap \subseteq 1..At
    BY TypeFacts DEF At
  <2> QED BY <2>1 DEF Goes, Adds
<1> QED BY <1>1, <1>3, <1>4, <1>5

LEMMA InstructionStep ==
  ASSUME TInv, Instruction
  PROVE  TInv' /\ (VInv => VInv')
<1>1. /\ Running /\ shape[At].call = "addInstruction"
      /\ usable' = usable \cup {At} /\ within' = within
  BY DEF Instruction, Now, At
<1>2. PICK kind \in shape[At].kinds, outer \in BOOLEAN :
        \E args \in Operands(kind) : \E name : Call(args, kind, name, outer)
  BY Zenon DEF Instruction, Now, At
<1>3. PICK args \in Operands(kind) : \E name : Call(args, kind, name, outer)
  BY <1>2
<1> PICK name : Call(args, kind, name, outer)
  BY <1>3
<1> DEFINE c == Made(args, kind, name, outer)
           d == Called(target, c, At)
<1>4. Calls(c, d)
  BY <1>1, <1>3, CallMade
<1>5. /\ c.call = "addInstruction" /\ c.kind = kind /\ c.outer = outer /\ c.outer \in BOOLEAN
      /\ c.args = args
  BY <1>1 DEF Made
<1> HIDE DEF c
<1>6. d = AddInstruction(target, c, At)
  BY <1>5 DEF Called
<1> HIDE DEF d
<1>7. c.kind \in Kinds
  <2>1. At \in DOMAIN shape /\ shape \in Shapes
    BY <1>4 DEF Calls, TInv, Follows
  <2> QED BY ShapesAssumption, <1>5, <2>1 DEF Ordered
<1>8. Uses(c) \subseteq usable
  <2>1. CASE kind = "read"
    BY <1>5, <2>1 DEF Uses
  <2>2. CASE kind = "insert"
    <3>1. args[1] \in usable /\ args[2] \in usable
      BY <2>2 DEF Operands
    <3> QED BY <1>5, <2>2, <3>1 DEF Uses
  <2>3. CASE kind \notin {"read", "insert"}
    <3>1. args[1] \in usable
      <4>1. CASE kind = "extract"
        BY <4>1 DEF Operands
      <4>2. CASE kind # "extract"
        BY <2>3, <4>2 DEF Operands
      <4> QED BY <4>1, <4>2
    <3> QED BY <1>5, <2>3, <3>1 DEF Uses
  <2> QED BY <2>1, <2>2, <2>3
<1>9. /\ Goes(target, d, At) /\ At \in DOMAIN d.target.valueMap
      /\ c.kind = "read" \/ (c.outer /\ c.kind \in {"compute", "insert"})
           => SeenValue(d.target, At, 1)
      /\ (\A u \in Uses(c) : SeenHere(target, u)) => Says(d) /\ SeenHere(d.target, At)
  <2>1. Uses(c) \subseteq DOMAIN target.valueMap
    BY <1>8, TypeFacts
  <2> QED BY <1>5, <1>6, <1>7, <2>1, TypeFacts, AddInstructionGoes
<1>10. /\ TargetOK(d.target) /\ Adds(target, d.target, At) /\ target' = d.target
       /\ Len(d.target.scopes) = Len(target.scopes) /\ At \in 1..At
       /\ At \notin DOMAIN target.valueMap
  BY <1>4, <1>9, TypeFacts DEF Goes, Keeps, Calls
<1>11. /\ Follows' /\ TargetOK(target)' /\ PhisMapped'
       /\ IsList(shader)' /\ Len(shader') = Len(calls')
       /\ DOMAIN target.valueMap \subseteq DOMAIN target'.valueMap
       /\ DOMAIN target'.valueMap \subseteq DOMAIN calls'
  BY <1>4, <1>5, <1>10, MapsKept
<1>12. Constructs'
  BY <1>1, <1>11, WithinKept
<1>13. TInv'
  BY <1>1, <1>9, <1>10, <1>11, <1>12, TypeFacts, TypeKept
<1>14. ASSUME VInv PROVE VInv'
  <2>1. Says(d) /\ SeenHere(d.target, At)
    <3>1. \A u \in Uses(c) : SeenHere(target, u)
      BY <1>8, <1>14 DEF VInv, UsableSeen, SeenHere
    <3> QED BY <1>9, <3>1
  <2>2. /\ \A u \in DOMAIN target.valueMap : \A k \in 1..Len(target.scopes) :
             SeenValue(target, u, k) => SeenValue(d.target, u, k)
        /\ WithinSeen' /\ PhisOutside'
        /\ \A u \in usable : SeenHere(d.target, u)
        /\ DOMAIN d.target.valueMap \subseteq 1..At
    BY <1>1, <1>4, <1>9, <1>10, <1>14, SameScopes
  <2>3. (LastingSeen /\ OuterKinds /\ Scoped)'
    <3>1. \A u \in DOMAIN d.target.valueMap \ DOMAIN target.valueMap : u = At
      BY <1>10 DEF Adds
    <3>2. ~ Declares(c.call)
      BY <1>5 DEF Declares
    <3> QED BY <1>4, <1>7, <1>9, <1>10, <1>14, <2>1, <2>2, <3>1, <3>2, TypeFacts, SeenKept
  <2>4. UsableSeen'
    BY <1>1, <1>10, <2>1, <2>2 DEF UsableSeen, SeenHere
  <2> QED BY <2>2, <2>3, <2>4 DEF VInv
<1> QED BY <1>13, <1>14

LEMMA PhiCopyStep ==
  ASSUME TInv, PhiCopy
  PROVE  TInv' /\ (VInv => VInv')
<1>1. /\ Running /\ shape[At].call \in {"addPhiCopy", "addPhiAlias"}
      /\ usable' = usable /\ within' = within
  BY DEF PhiCopy, Now, At
<1>2. PICK v \in usable : /\ shape[At].call = "addPhiAlias" => calls[v].kind = "read"
                          /\ Call(<<v>>, "none", NoName, FALSE)
  BY DEF PhiCopy, Plain, Now, At
<1> DEFINE c == Made(<<v>>, "none", NoName, FALSE)
           d == Called(target, c, At)
           text == target.valueMap[v]
           phi == c.of
<1>3. Calls(c, d)
  BY <1>1, <1>2, CallMade
<1>4. /\ c.call = shape[At].call /\ c.of = shape[At].of /\ c.kind = "none"
      /\ c.outer = FALSE /\ c.args = <<v>> /\ c.args[1] = v
  BY DEF Made
<1> HIDE DEF c
<1>5. /\ c.call = "addPhiCopy" => d = Emit(target, phi, NoName, text, 0)
      /\ c.call = "addPhiAlias" => d = Silent(MapExpressionString(target, phi, text))
  BY <1>4 DEF Called, AddPhiCopy, AddPhiAlias
<1> HIDE DEF d
<1>6. v \in DOMAIN target.valueMap /\ IsText(text) /\ TargetOK(target)
  BY <1>2, TypeFacts DEF TargetOK
<1>7. /\ phi \in DOMAIN calls /\ phi \in 1..At /\ phi # At /\ IsPhi(phi)
      /\ c.call = "addPhiCopy" => phi \in DOMAIN target.valueMap
  <2>1. At \in DOMAIN shape /\ shape \in Shapes
    BY <1>3 DEF Calls, TInv, Follows
  <2>2. /\ phi \in DOMAIN shape /\ Declares(shape[phi].call)
        /\ c.call = "addPhiCopy" => shape[phi].call = "declarePhiCopy"
    BY ShapesAssumption, <1>1, <1>4, <2>1 DEF Ordered, Declares
  <2>3. \A j \in 1..phi : Declares(shape[j].call)
    BY ShapesAssumption, <2>1, <2>2, Zenon DEF Ordered
  <2>4. ~ Declares(shape[At].call)
    BY <1>1 DEF Declares
  <2>5. DOMAIN shape \subseteq Nat \ {0}
    BY ShapesAssumption, <2>1 DEF Ordered
  <2>6. phi \in 1..Len(calls)
    BY <2>2, <2>3, <2>4, <2>5, TypeFacts DEF At
  <2>7. phi \in DOMAIN calls /\ calls[phi].call = shape[phi].call
    BY <2>6, TypeFacts DEF TInv, Follows
  <2>8. c.call = "addPhiCopy" => phi \in DOMAIN target.valueMap
    BY <2>2, <2>7 DEF TInv, PhisMapped
  <2>9. phi \in 1..At /\ phi # At
    BY <2>6, TypeFacts DEF At
  <2> QED BY <2>2, <2>7, <2>8, <2>9 DEF IsPhi
<1>8. /\ Goes(target, d, phi) /\ phi \in DOMAIN d.target.valueMap
      /\ c.call = "addPhiCopy" => d.target = target
      /\ c.call = "addPhiCopy" /\ SeenHere(target, v) /\ SeenHere(target, phi) => Says(d)
      /\ c.call = "addPhiAlias" =>
           /\ Says(d)
           /\ \A k \in 1..Len(target.scopes) :
                SeenValue(target, v, k) => SeenValue(d.target, phi, k)
  <2>1. CASE c.call = "addPhiCopy"
    <3> HIDE DEF phi
    <3>1. d = Emit(target, phi, NoName, text, 0)
      BY <1>5, <2>1
    <3>2. SeenHere(target, v) => Seen(target, text.var, Len(target.scopes))
      BY DEF SeenHere, SeenValue
    <3> HIDE DEF text
    <3>3. /\ Goes(target, d, phi) /\ phi \in DOMAIN d.target.valueMap
          /\ phi \in DOMAIN target.valueMap => d.target = target
          /\ /\ Seen(target, text.var, Len(target.scopes))
             /\ phi \in DOMAIN target.valueMap => SeenHere(target, phi)
             => Says(d)
      BY <1>6, <3>1, EmitGoes
    <3> QED BY <1>7, <2>1, <3>2, <3>3
  <2>2. CASE c.call = "addPhiAlias"
    <3>1. d = Silent(MapExpressionString(target, phi, text))
      BY <1>5, <2>2
    <3>2. \A k \in 1..Len(target.scopes) : SeenValue(target, v, k) => Seen(target, text.var, k)
      BY DEF SeenValue
    <3> HIDE DEF text
    <3>3. /\ Goes(target, d, phi) /\ phi \in DOMAIN d.target.valueMap /\ Says(d)
          /\ \A k \in 1..Len(target.scopes) :
               Seen(target, text.var, k) => SeenValue(d.target, phi, k)
      BY <1>6, <3>1, SilentGoes
    <3> QED BY <2>2, <3>2, <3>3
  <2> QED BY <1>1, <1>4, <2>1, <2>2
<1> HIDE DEF text
<1>9. /\ TargetOK(d.target) /\ Adds(target, d.target, phi) /\ target' = d.target
      /\ Len(d.target.scopes) = Len(target.scopes)
  BY <1>3, <1>8 DEF Goes, Keeps, Calls
<1>10. /\ Follows' /\ TargetOK(target)' /\ PhisMapped'
       /\ IsList(shader)' /\ Len(shader') = Len(calls')
       /\ DOMAIN target.valueMap \subseteq DOMAIN target'.valueMap
       /\ DOMAIN target'.valueMap \subseteq DOMAIN calls'
  BY <1>1, <1>3, <1>4, <1>7, <1>8, <1>9, MapsKept
<1>11. Constructs'
  BY <1>1, <1>10, WithinKept
<1>12. TInv'
  BY <1>1, <1>9, <1>10, <1>11, TypeFacts, TypeKept
<1>13. ASSUME VInv PROVE VInv'
  <2>1. Len(target.scopes) \in Nat \ {0} /\ 1 \in 1..Len(target.scopes)
        /\ Len(target.scopes) \in 1..Len(target.scopes)
    BY TypeFacts
  <2>2. SeenHere(target, v)
    BY <1>2, <1>13 DEF VInv, UsableSeen, SeenHere
  <2>3. phi \in DOMAIN target.valueMap => SeenHere(target, phi)
    <3>1. phi \in DOMAIN target.valueMap => SeenValue(target, phi, 1)
      BY <1>7, <1>13 DEF VInv, LastingSeen, Lasts
    <3> QED BY <2>1, <3>1, SeenDeeper DEF SeenHere, SeenValue
  <2>4. Says(d)
    BY <1>1, <1>4, <1>7, <1>8, <2>2, <2>3
  <2>5. c.call = "addPhiAlias" => \A k \in 1..Len(target.scopes) : SeenValue(d.target, phi, k)
    <3>1. c.call = "addPhiAlias" => SeenValue(target, v, 1)
      BY <1>2, <1>4, <1>6, <1>13 DEF VInv, LastingSeen, Lasts
    <3>2. c.call = "addPhiAlias" => \A k \in 1..Len(target.scopes) : SeenValue(target, v, k)
      BY <2>1, <3>1, SeenDeeper DEF SeenValue
    <3> QED BY <1>8, <3>2
  <2>6. \A k \in 1..Len(target.scopes) :
          phi \in DOMAIN target.valueMap /\ SeenValue(target, phi, k) => SeenValue(d.target, phi, k)
    BY <1>1, <1>4, <1>8, <2>5
  <2>7. /\ \A u \in DOMAIN target.valueMap : \A k \in 1..Len(target.scopes) :
             SeenValue(target, u, k) => SeenValue(d.target, u, k)
        /\ WithinSeen' /\ PhisOutside'
        /\ \A u \in usable : SeenHere(d.target, u)
        /\ DOMAIN d.target.valueMap \subseteq 1..At
    BY <1>1, <1>3, <1>7, <1>8, <1>13, <2>6, SameScopes
  <2>8. \A u \in DOMAIN d.target.valueMap \ DOMAIN target.valueMap : SeenValue(d.target, u, 1)
    <3>1. \A u \in DOMAIN d.target.valueMap \ DOMAIN target.valueMap : u = phi
      BY <1>9 DEF Adds
    <3>2. c.call = "addPhiCopy" => DOMAIN d.target.valueMap = DOMAIN target.valueMap
      BY <1>8
    <3> QED BY <1>1, <1>4, <2>1, <2>5, <3>1, <3>2
  <2>9. At \notin DOMAIN d.target.valueMap
    BY <1>7, <1>9, TypeFacts DEF Adds
  <2>10. (LastingSeen /\ OuterKinds /\ Scoped)'
    BY <1>3, <1>4, <1>9, <1>13, <2>1, <2>4, <2>7, <2>8, <2>9, SeenKept
  <2>11. UsableSeen'
    BY <1>1, <1>9, <2>7 DEF UsableSeen, SeenHere
  <2> QED BY <2>7, <2>10, <2>11 DEF VInv
<1> QED BY <1>12, <1>13

(* The calls that make no value, and what is left to show of them. *)
Turns(d) == TargetOK(d.target) /\ d.target.valueMap = target.valueMap
ControlCall(c, d) ==
  /\ At \in DOMAIN shape /\ target' = d.target
  /\ Turns(d) =>
       /\ Follows' /\ TargetOK(target)' /\ PhisMapped'
       /\ IsList(shader)' /\ Len(shader') = Len(calls')
       /\ DOMAIN target'.valueMap = DOMAIN target.valueMap
       /\ DOMAIN target'.valueMap \subseteq DOMAIN calls'
  /\ \A K \in Nat \ {0} :
       /\ VInv /\ Turns(d) /\ Says(d)
       /\ \A n : \A k \in 1..K : Seen(target, n, k) => Seen(d.target, n, k)
       => LastingSeen' /\ OuterKinds' /\ PhisOutside' /\ Scoped'

LEMMA ControlMade ==
  ASSUME TInv, Running, NEW args, Plain(args),
         ~ Declares(shape[At].call), shape[At].call \notin {"addPhiCopy", "addPhiAlias"}
  PROVE  LET c == Made(args, "none", NoName, FALSE)
         IN  ControlCall(c, Called(target, c, At)) /\ c.args = args /\ c.call = shape[At].call
<1> DEFINE c == Made(args, "none", NoName, FALSE)
           d == Called(target, c, At)
<1>1. Calls(c, d)
  BY CallMade DEF Plain
<1>2. /\ c.call = shape[At].call /\ c.kind = "none" /\ c.outer = FALSE /\ c.args = args
  BY DEF Made
<1> HIDE DEF c, d
<1>3. /\ target' = d.target /\ DOMAIN calls' = 1..At /\ calls'[At] = c /\ At \in 1..At
      /\ At \in DOMAIN shape
  BY <1>1, TypeFacts DEF Calls
<1>4. ASSUME Turns(d)
      PROVE  /\ Follows' /\ TargetOK(target)' /\ PhisMapped'
             /\ IsList(shader)' /\ Len(shader') = Len(calls')
             /\ DOMAIN target'.valueMap = DOMAIN target.valueMap
             /\ DOMAIN target'.valueMap \subseteq DOMAIN calls'
  <2>1. Adds(target, d.target, At)
    BY <1>4 DEF Adds, Turns
  <2>2. c.call # "declarePhiCopy" /\ c.call \notin {"addPhiCopy", "addPhiAlias"}
    BY <1>2 DEF Declares
  <2> QED BY <1>1, <1>3, <1>4, <2>1, <2>2, MapsKept DEF Turns
<1>5. ASSUME NEW K \in Nat \ {0}, VInv, Turns(d), Says(d),
             \A n : \A k \in 1..K : Seen(target, n, k) => Seen(d.target, n, k)
      PROVE  LastingSeen' /\ OuterKinds' /\ PhisOutside' /\ Scoped'
  <2>1. \A u \in DOMAIN target.valueMap : \A k \in 1..K :
          SeenValue(target, u, k) => SeenValue(d.target, u, k)
    BY <1>5 DEF SeenValue, Turns
  <2>2. /\ \A u \in DOMAIN d.target.valueMap : u \in 1..At
        /\ At \notin DOMAIN d.target.valueMap
    BY <1>5, TypeFacts DEF At, Turns
  <2>3. LastingSeen' /\ OuterKinds' /\ Scoped'
    BY <1>1, <1>2, <1>5, <2>1, <2>2, SeenKept DEF Turns
  <2>4. PhisOutside'
    BY <1>2, <1>3 DEF PhisOutside, IsPhi
  <2> QED BY <2>3, <2>4
<1>6. ControlCall(c, d)
  BY <1>3, <1>4, <1>5, Zenon DEF ControlCall
<1> QED BY <1>2, <1>6 DEF c, d

LEMMA WriteStep ==
  ASSUME TInv, Write
  PROVE  TInv' /\ (VInv => VInv')
<1>1. /\ Running /\ shape[At].call = "write" /\ usable' = usable /\ within' = within
  BY DEF Write, Now, At
<1>2. PICK v \in usable : Plain(<<v>>)
  BY DEF Write
<1> DEFINE c == Made(<<v>>, "none", NoName, FALSE)
           d == Called(target, c, At)
           text == target.valueMap[v]
<1>3. ControlCall(c, d) /\ c.args[1] = v /\ c.call = "write"
  <2>1. ControlCall(c, d) /\ c.args = <<v>> /\ c.call = "write"
    BY <1>1, <1>2, ControlMade DEF Declares
  <2> HIDE DEF c, d
  <2> QED BY <2>1
<1> HIDE DEF c
<1>4. d = [target |-> target, text |-> Control("write", text)]
  BY <1>3 DEF Called, EmitMapGlaIOIntrinsic
<1> HIDE DEF d, text
<1>5. d.target = target /\ Turns(d)
  BY <1>4, TypeFacts DEF Turns
<1>6. TInv'
  <2>1. Constructs'
    BY <1>1, <1>3, <1>5, WithinKept DEF ControlCall
  <2> QED BY <1>1, <1>3, <1>5, <2>1, TypeFacts, TypeKept DEF ControlCall
<1>7. ASSUME VInv PROVE VInv'
  <2>1. Says(d)
    <3>1. Seen(target, text.var, Len(target.scopes))
      BY <1>2, <1>7 DEF VInv, UsableSeen, SeenValue, text
    <3> QED BY <1>4, <3>1, ControlSays
  <2>2. LastingSeen' /\ OuterKinds' /\ PhisOutside' /\ Scoped'
    <3>1. \A n : \A k \in 1..1 : Seen(target, n, k) => Seen(d.target, n, k)
      BY <1>5
    <3> QED BY <1>3, <1>5, <1>7, <2>1, <3>1 DEF ControlCall
  <2>3. UsableSeen' /\ WithinSeen'
    BY <1>1, <1>3, <1>5, <1>7, Zenon DEF VInv, UsableSeen, WithinSeen, ControlCall
  <2> QED BY <2>2, <2>3 DEF VInv
<1> QED BY <1>6, <1>7

LEMMA ExitStep ==
  ASSUME TInv, Exit
  PROVE  TInv' /\ (VInv => VInv')
<1> DEFINE L == Loop
<1>1. /\ Running /\ shape[At].call = "addLoopExit" /\ usable' = usable
      /\ within' = [within EXCEPT ![L].exits = @ \cup {usable}]
  BY DEF Exit, Now, At
<1>2. PICK args : Plain(args) /\ (args = <<>> \/ \E v \in usable : args = <<v>>)
  BY DEF Exit
<1> DEFINE c == Made(args, "none", NoName, FALSE)
           d == Called(target, c, At)
           text == IF args = <<>> THEN NoText ELSE target.valueMap[args[1]]
<1>3. ControlCall(c, d) /\ c.args = args /\ c.call = "addLoopExit"
  BY <1>1, <1>2, ControlMade DEF Declares
<1> HIDE DEF c
<1>4. d = [target |-> target, text |-> Control("break", text)]
  BY <1>3 DEF Called, AddLoopExit
<1> HIDE DEF d, L
<1>5. d.target = target /\ Turns(d)
  BY <1>4, TypeFacts DEF Turns
<1>6. /\ IsList(within') /\ Len(within') = Len(within) /\ DOMAIN within' = DOMAIN within
      /\ \A k \in DOMAIN within :
           within'[k] = IF k = L THEN [within[k] EXCEPT !.exits = @ \cup {usable}] ELSE within[k]
  <2> DEFINE x == [within[L] EXCEPT !.exits = @ \cup {usable}]
             r == [within EXCEPT ![L] = x]
  <2>1. within' = r
    BY <1>1
  <2> HIDE DEF x
  <2>2. /\ IsList(r) /\ Len(r) = Len(within) /\ DOMAIN r = DOMAIN within
        /\ \A k \in DOMAIN within : r[k] = IF k = L THEN x ELSE within[k]
    BY ReplaceList DEF TInv, Constructs
  <2> QED BY <2>1, <2>2 DEF x
<1>7. \A k \in DOMAIN within :
        /\ within'[k].usable = within[k].usable
        /\ within'[k] = [usable |-> within'[k].usable, exits |-> within'[k].exits,
                         loop |-> within'[k].loop]
        /\ \A e \in within'[k].exits : e \subseteq DOMAIN target.valueMap
  <2> SUFFICES ASSUME NEW k \in DOMAIN within
               PROVE  /\ within'[k].usable = within[k].usable
                      /\ within'[k] = [usable |-> within'[k].usable, exits |-> within'[k].exits,
                                       loop |-> within'[k].loop]
                      /\ \A e \in within'[k].exits : e \subseteq DOMAIN target.valueMap
    OBVIOUS
  <2>1. /\ within[k] = [usable |-> within[k].usable, exits |-> within[k].exits,
                        loop |-> within[k].loop]
        /\ \A e \in within[k].exits : e \subseteq DOMAIN target.valueMap
    BY DEF TInv, Constructs
  <2>2. usable \subseteq DOMAIN target.valueMap
    BY TypeFacts
  <2>3. CASE k = L
    <3>1. within'[k] = [usable |-> within[k].usable, exits |-> within[k].exits \cup {usable},
                        loop |-> within[k].loop]
      BY <1>6, <2>1, <2>3
    <3> QED BY <2>1, <2>2, <3>1
  <2>4. CASE k # L
    BY <1>6, <2>1, <2>4
  <2> QED BY <2>3, <2>4
<1>8. TInv'
  <2>1. target' = target /\ IsList(shader)'
    BY <1>3, <1>5 DEF ControlCall
  <2>2. Constructs'
    <3>1. \A k \in DOMAIN within : within[k].usable \subseteq DOMAIN target.valueMap
      BY DEF TInv, Constructs
    <3> QED BY <1>6, <1>7, <2>1, <3>1 DEF Constructs
  <2> QED BY <1>1, <1>3, <1>5, <1>6, <2>2, TypeFacts, TypeKept DEF ControlCall
<1>9. ASSUME VInv PROVE VInv'
  <2>1. Says(d)
    <3>1. text.var = NoName \/ Seen(target, text.var, Len(target.scopes))
      <4>1. CASE args = <<>>
        BY <4>1 DEF NoText
      <4>2. CASE args # <<>>
        <5>1. PICK v \in usable : args = <<v>>
          BY <1>2, <4>2
        <5>2. text = target.valueMap[v]
          BY <4>2, <5>1
        <5> HIDE DEF text
        <5> QED BY <1>9, <5>2 DEF VInv, UsableSeen, SeenValue
      <4> QED BY <4>1, <4>2
    <3> HIDE DEF text
    <3> QED BY <1>4, <3>1, ControlSays
  <2>2. LastingSeen' /\ OuterKinds' /\ PhisOutside' /\ Scoped'
    <3>1. \A n : \A k \in 1..1 : Seen(target, n, k) => Seen(d.target, n, k)
      BY <1>5
    <3> QED BY <1>3, <1>5, <1>9, <2>1, <3>1 DEF ControlCall
  <2>3. target' = target
    BY <1>3, <1>5 DEF ControlCall
  <2>4. UsableSeen'
    BY <1>1, <1>9, <2>3, Zenon DEF VInv, UsableSeen
  <2>5. WithinSeen'
    BY <1>6, <1>7, <1>9, <2>3, Zenon DEF VInv, WithinSeen
  <2> QED BY <2>2, <2>4, <2>5 DEF VInv
<1> QED BY <1>8, <1>9

LEMMA OpenScope ==
  ASSUME TInv, NEW loop, Open(loop), target' = NewScope(target), IsList(shader')
  PROVE  /\ Constructs' /\ Len(target'.scopes) = Len(within') + 1
         /\ \A v : SeenValue(target, v, 1) => SeenValue(target', v, Len(target'.scopes))
         /\ VInv => WithinSeen' /\ \A v \in usable : SeenValue(target', v, Len(target'.scopes))
<1> DEFINE x == [usable |-> usable, exits |-> {}, loop |-> loop]
<1>1. /\ target'.valueMap = target.valueMap /\ Len(target'.scopes) = Len(target.scopes) + 1
      /\ \A n : \A k \in 1..Len(target.scopes) : Seen(target, n, k) => Seen(target', n, k)
      /\ \A n : Seen(target, n, Len(target.scopes)) => Seen(target', n, Len(target'.scopes))
  BY ScopeOpened, TypeFacts
<1>2. x.usable = usable /\ x = [usable |-> x.usable, exits |-> x.exits, loop |-> x.loop]
      /\ x.exits = {}
  OBVIOUS
<1>3. /\ IsList(within') /\ Len(within') = Len(within) + 1 /\ within'[Len(within) + 1] = x
      /\ \A k \in 1..Len(within) : within'[k] = within[k]
  <2>1. IsList(within)
    BY DEF TInv, Constructs
  <2>2. within' = Append(within, x)
    BY DEF Open
  <2> HIDE DEF x
  <2>3. Extended(within', within, x)
    BY <2>1, <2>2, Appended, Zenon
  <2> QED BY <2>3 DEF Extended
<1> HIDE DEF x
<1>4. /\ Len(within) \in Nat /\ DOMAIN within = 1..Len(within)
      /\ DOMAIN within' = 1..(Len(within) + 1)
      /\ \A k \in 1..(Len(within) + 1) : k = Len(within) + 1 \/ k \in 1..Len(within)
  BY <1>3, TypeFacts, ListFacts
<1>5. Constructs'
  <2>1. \A k \in DOMAIN within' :
          /\ within'[k] = [usable |-> within'[k].usable, exits |-> within'[k].exits,
                           loop |-> within'[k].loop]
          /\ within'[k].usable \subseteq DOMAIN target.valueMap
          /\ \A e \in within'[k].exits : e \subseteq DOMAIN target.valueMap
    <3> TAKE k \in DOMAIN within'
    <3>1. CASE k = Len(within) + 1
      BY <1>2, <1>3, <3>1, TypeFacts
    <3>2. CASE k \in 1..Len(within)
      BY <1>3, <1>4, <3>2 DEF TInv, Constructs
    <3> QED BY <1>4, <3>1, <3>2
  <2> QED BY <1>1, <1>3, <2>1 DEF Constructs
<1>6. Len(target'.scopes) = Len(within') + 1
  BY <1>1, <1>3, TypeFacts
<1>7. ASSUME NEW v, SeenValue(target, v, 1)
      PROVE  SeenValue(target', v, Len(target'.scopes))
  <2>1. Seen(target, target.valueMap[v].var, Len(target.scopes))
    BY <1>7, TypeFacts, SeenDeeper DEF SeenValue
  <2> QED BY <1>1, <2>1 DEF SeenValue
<1>8. ASSUME VInv
      PROVE  WithinSeen' /\ \A v \in usable : SeenValue(target', v, Len(target'.scopes))
  <2>1. \A v \in usable : SeenValue(target', v, Len(target'.scopes))
    BY <1>1, <1>8 DEF VInv, UsableSeen, SeenValue
  <2>2. ASSUME NEW k \in DOMAIN within', NEW v \in within'[k].usable
        PROVE  SeenValue(target', v, k)
    <3>1. CASE k = Len(within) + 1
      <4>1. v \in usable /\ k = Len(target.scopes) /\ k \in 1..Len(target.scopes)
        BY <1>2, <1>3, <3>1, <2>2, TypeFacts
      <4> QED BY <1>1, <1>8, <4>1 DEF VInv, UsableSeen, SeenValue
    <3>2. CASE k \in 1..Len(within)
      <4>1. SeenValue(target, v, k)
        BY <1>3, <1>4, <1>8, <2>2, <3>2 DEF VInv, WithinSeen
      <4>2. k \in 1..Len(target.scopes)
        BY <3>2, TypeFacts
      <4> QED BY <1>1, <4>1, <4>2 DEF SeenValue
    <3> QED BY <1>4, <3>1, <3>2
  <2> QED BY <2>1, <2>2 DEF WithinSeen
<1> QED BY <1>5, <1>6, <1>7, <1>8

LEMMA InsideFacts ==
  ASSUME TInv, within # <<>>
  PROVE  /\ Len(within) \in DOMAIN within /\ Len(target.scopes) > 1
         /\ Inside = within[Len(within)]
         /\ Inside.usable \subseteq DOMAIN target.valueMap
         /\ \A e \in Inside.exits : e \subseteq DOMAIN target.valueMap
<1>1. Len(within) \in Nat \ {0}
  BY ListFacts DEF TInv, Constructs
<1>2. Len(within) \in DOMAIN within /\ Len(target.scopes) > 1
  BY <1>1, TypeFacts
<1> QED BY <1>2 DEF Inside, TInv, Constructs

LEMMA CloseScope ==
  ASSUME TInv, within # <<>>, within' = Front(within), target' = LeaveScope(target),
         IsList(shader')
  PROVE  /\ Constructs' /\ Len(target'.scopes) = Len(within') + 1
         /\ \A v : \A k \in 1..Len(within) :
              SeenValue(target, v, k) => SeenValue(target', v, Len(target'.scopes))
         /\ VInv => WithinSeen'
<1>1. /\ target'.valueMap = target.valueMap /\ Len(target'.scopes) = Len(target.scopes) - 1
      /\ \A n : \A k \in 1..(Len(target.scopes) - 1) : Seen(target, n, k) => Seen(target', n, k)
  BY ScopeLeft, TypeFacts, InsideFacts
<1>2. /\ IsList(within') /\ Len(within') = Len(within) - 1 /\ Len(within) \in Nat \ {0}
      /\ \A k \in 1..(Len(within) - 1) : within'[k] = within[k]
  <2> DEFINE f == Front(within)
  <2>1. IsList(within) /\ within' = f
    BY DEF TInv, Constructs
  <2>2. /\ IsList(f) /\ Len(f) = Len(within) - 1 /\ Len(within) \in Nat \ {0}
        /\ \A k \in 1..(Len(within) - 1) : f[k] = within[k]
    BY <2>1, FrontList, Zenon
  <2> HIDE DEF f
  <2> QED BY <2>1, <2>2
<1>3. /\ DOMAIN within = 1..Len(within) /\ DOMAIN within' = 1..(Len(within) - 1)
      /\ Len(target.scopes) - 1 = Len(within) /\ Len(target'.scopes) = Len(within)
      /\ \A k \in 1..(Len(within) - 1) : k \in 1..Len(within)
  BY <1>1, <1>2, TypeFacts, ListFacts
<1>4. Constructs'
  <2>1. \A k \in DOMAIN within' :
          /\ within'[k] = [usable |-> within'[k].usable, exits |-> within'[k].exits,
                           loop |-> within'[k].loop]
          /\ within'[k].usable \subseteq DOMAIN target.valueMap
          /\ \A e \in within'[k].exits : e \subseteq DOMAIN target.valueMap
    BY <1>2, <1>3, Zenon DEF TInv, Constructs
  <2> QED BY <1>1, <1>2, <2>1 DEF Constructs
<1>5. Len(target'.scopes) = Len(within') + 1
  BY <1>2, <1>3
<1>6. ASSUME NEW v, NEW k \in 1..Len(within), SeenValue(target, v, k)
      PROVE  SeenValue(target', v, Len(target'.scopes))
  <2>1. Seen(target, target.valueMap[v].var, Len(within))
    BY <1>2, <1>6, SeenDeeper DEF SeenValue
  <2>2. Len(within) \in 1..(Len(target.scopes) - 1)
    BY <1>2, <1>3
  <2> QED BY <1>1, <1>3, <2>1, <2>2 DEF SeenValue
<1>7. ASSUME VInv PROVE WithinSeen'
  <2> SUFFICES ASSUME NEW k \in DOMAIN within', NEW v \in within'[k].usable
               PROVE  SeenValue(target', v, k)
    BY DEF WithinSeen
  <2>1. SeenValue(target, v, k) /\ k \in 1..(Len(target.scopes) - 1)
    BY <1>2, <1>3, <1>7 DEF VInv, WithinSeen
  <2> QED BY <1>1, <2>1 DEF SeenValue
<1> QED BY <1>4, <1>5, <1>6, <1>7

LEMMA IfStep ==
  ASSUME TInv, If
  PROVE  TInv' /\ (VInv => VInv')
<1>1. Running /\ shape[At].call = "addIf" /\ usable' = usable /\ Open(FALSE)
  BY DEF If, Now, At
<1>2. PICK v \in usable : Plain(<<v>>)
  BY DEF If
<1> DEFINE c == Made(<<v>>, "none", NoName, FALSE)
           d == Called(target, c, At)
           text == target.valueMap[v]
<1>3. ControlCall(c, d) /\ c.args[1] = v /\ c.call = "addIf"
  <2>1. ControlCall(c, d) /\ c.args = <<v>> /\ c.call = "addIf"
    BY <1>1, <1>2, ControlMade DEF Declares
  <2> HIDE DEF c, d
  <2> QED BY <2>1
<1> HIDE DEF c
<1>4. d = [target |-> NewScope(target), text |-> Control("if", text)]
  BY <1>3 DEF Called, AddIf
<1> HIDE DEF d, text
<1>5. /\ d.target = NewScope(target) /\ Turns(d)
      /\ \A n : \A k \in 1..Len(target.scopes) : Seen(target, n, k) => Seen(d.target, n, k)
      /\ \A n : Seen(target, n, Len(target.scopes)) => Seen(d.target, n, Len(d.target.scopes))
  BY <1>4, ScopeOpened, TypeFacts DEF Turns
<1>6. /\ Follows' /\ TargetOK(target)' /\ PhisMapped' /\ IsList(shader)' /\ Len(shader') = Len(calls')
      /\ DOMAIN target'.valueMap = DOMAIN target.valueMap /\ target' = NewScope(target)
      /\ DOMAIN target'.valueMap \subseteq DOMAIN calls'
  BY <1>3, <1>5 DEF ControlCall
<1>7. /\ Constructs' /\ Len(target'.scopes) = Len(within') + 1
      /\ VInv => WithinSeen' /\ \A u \in usable : SeenValue(target', u, Len(target'.scopes))
  BY <1>1, <1>6, OpenScope
<1>8. TInv'
  BY <1>1, <1>6, <1>7, TypeFacts, TypeKept
<1>9. ASSUME VInv PROVE VInv'
  <2>1. Says(d)
    <3>1. Seen(d.target, text.var, Len(d.target.scopes))
      BY <1>2, <1>5, <1>9 DEF VInv, UsableSeen, SeenValue, text
    <3>2. Says([target |-> d.target, text |-> Control("if", text)])
      BY <3>1, ControlSays
    <3> QED BY <1>4, <1>5, <3>2
  <2>2. LastingSeen' /\ OuterKinds' /\ PhisOutside' /\ Scoped'
    BY <1>3, <1>5, <1>9, <2>1, TypeFacts DEF ControlCall
  <2>3. UsableSeen' /\ WithinSeen'
    BY <1>1, <1>7, <1>9 DEF UsableSeen
  <2> QED BY <2>2, <2>3 DEF VInv
<1> QED BY <1>8, <1>9

LEMMA BeginStep ==
  ASSUME TInv, Begin
  PROVE  TInv' /\ (VInv => VInv')
<1>1. /\ Running /\ shape[At].call = "beginLoop" /\ usable' = usable \cup shape[At].live
      /\ Open(TRUE) /\ Plain(<<>>)
  BY DEF Begin, Now, At
<1> DEFINE c == Made(<<>>, "none", NoName, FALSE)
           d == Called(target, c, At)
<1>2. ControlCall(c, d) /\ c.call = "beginLoop"
  BY <1>1, ControlMade DEF Declares
<1> HIDE DEF c
<1>3. d = [target |-> NewScope(target), text |-> Control("loop", NoText)]
  BY <1>2 DEF Called, BeginLoop
<1> HIDE DEF d
<1>4. /\ d.target = NewScope(target) /\ Turns(d)
      /\ \A n : \A k \in 1..Len(target.scopes) : Seen(target, n, k) => Seen(d.target, n, k)
  BY <1>3, ScopeOpened, TypeFacts DEF Turns
<1>5. /\ Follows' /\ TargetOK(target)' /\ PhisMapped' /\ IsList(shader)' /\ Len(shader') = Len(calls')
      /\ DOMAIN target'.valueMap = DOMAIN target.valueMap /\ target' = NewScope(target)
      /\ DOMAIN target'.valueMap \subseteq DOMAIN calls' /\ At \in DOMAIN shape
  BY <1>2, <1>4 DEF ControlCall
<1>6. \A p \in shape[At].live : p \in DOMAIN target.valueMap /\ p \in DOMAIN calls /\ IsPhi(p)
  BY <1>5, LiveMapped
<1>7. /\ Constructs' /\ Len(target'.scopes) = Len(within') + 1
      /\ \A v : SeenValue(target, v, 1) => SeenValue(target', v, Len(target'.scopes))
      /\ VInv => WithinSeen' /\ \A u \in usable : SeenValue(target', u, Len(target'.scopes))
  BY <1>1, <1>5, OpenScope
<1>8. TInv'
  <2>1. usable' \subseteq DOMAIN target'.valueMap
    BY <1>1, <1>5, <1>6, TypeFacts
  <2> QED BY <1>5, <1>7, <2>1, TypeKept
<1>9. ASSUME VInv PROVE VInv'
  <2>1. Says(d)
    BY <1>3, NoTextSays
  <2>2. LastingSeen' /\ OuterKinds' /\ PhisOutside' /\ Scoped'
    BY <1>2, <1>4, <1>9, <2>1, TypeFacts DEF ControlCall
  <2>3. \A p \in shape[At].live : SeenValue(target, p, 1)
    BY <1>6, <1>9 DEF VInv, LastingSeen, Lasts
  <2>4. UsableSeen' /\ WithinSeen'
    BY <1>1, <1>7, <1>9, <2>3 DEF UsableSeen
  <2> QED BY <2>2, <2>4 DEF VInv
<1> QED BY <1>8, <1>9

LEMMA ElseStep ==
  ASSUME TInv, Else
  PROVE  TInv' /\ (VInv => VInv')
<1>1. /\ Running /\ shape[At].call = "addElse" /\ usable' = Inside.usable
      /\ within' = within /\ within # <<>> /\ Plain(<<>>)
  BY DEF Else, Now, At
<1> DEFINE c == Made(<<>>, "none", NoName, FALSE)
           d == Called(target, c, At)
           t == LeaveScope(target)
<1>2. ControlCall(c, d) /\ c.call = "addElse"
  BY <1>1, ControlMade DEF Declares
<1> HIDE DEF c
<1>3. d = [target |-> NewScope(t), text |-> Control("else", NoText)]
  BY <1>2 DEF Called, AddElse
<1>4. /\ TargetOK(t) /\ t.valueMap = target.valueMap /\ Len(t.scopes) = Len(target.scopes) - 1
      /\ \A n : \A k \in 1..(Len(target.scopes) - 1) : Seen(target, n, k) => Seen(t, n, k)
  BY <1>1, ScopeLeft, TypeFacts, InsideFacts
<1> HIDE DEF d, t
<1>5. /\ d.target = NewScope(t) /\ Turns(d) /\ Len(d.target.scopes) = Len(t.scopes) + 1
      /\ \A n : \A k \in 1..Len(t.scopes) : Seen(t, n, k) => Seen(d.target, n, k)
      /\ \A n : Seen(t, n, Len(t.scopes)) => Seen(d.target, n, Len(d.target.scopes))
  BY <1>3, <1>4, ScopeOpened DEF Turns
<1>6. /\ Len(target.scopes) = Len(within) + 1 /\ Len(within) \in Nat \ {0}
      /\ Len(t.scopes) = Len(within) /\ Len(within) \in 1..Len(within)
      /\ Len(within) \in DOMAIN within /\ Inside = within[Len(within)]
  BY <1>1, <1>4, TypeFacts, InsideFacts
<1>7. \A n : \A k \in 1..Len(within) : Seen(target, n, k) => Seen(d.target, n, k)
  BY <1>4, <1>5, <1>6
<1>8. /\ Follows' /\ TargetOK(target)' /\ PhisMapped' /\ IsList(shader)' /\ Len(shader') = Len(calls')
      /\ DOMAIN target'.valueMap = DOMAIN target.valueMap /\ target' = d.target
      /\ DOMAIN target'.valueMap \subseteq DOMAIN calls'
  BY <1>2, <1>5 DEF ControlCall
<1>9. TInv'
  <2>1. Constructs'
    BY <1>1, <1>8, WithinKept
  <2>2. Len(target'.scopes) = Len(within') + 1 /\ usable' \subseteq DOMAIN target'.valueMap
    BY <1>1, <1>5, <1>6, <1>8, InsideFacts
  <2> QED BY <1>8, <2>1, <2>2, TypeKept
<1>10. ASSUME VInv PROVE VInv'
  <2>1. Says(d)
    BY <1>3, NoTextSays DEF d
  <2>2. LastingSeen' /\ OuterKinds' /\ PhisOutside' /\ Scoped'
    BY <1>2, <1>5, <1>6, <1>7, <1>10, <2>1 DEF ControlCall
  <2>3. WithinSeen'
    <3> SUFFICES ASSUME NEW k \in DOMAIN within, NEW v \in within[k].usable
                 PROVE  SeenValue(d.target, v, k)
      BY <1>1, <1>8 DEF WithinSeen
    <3>1. SeenValue(target, v, k) /\ k \in 1..Len(within)
      BY <1>10, TypeFacts DEF VInv, WithinSeen
    <3> QED BY <1>5, <1>7, <3>1 DEF SeenValue, Turns
  <2>4. UsableSeen'
    <3> SUFFICES ASSUME NEW v \in Inside.usable
                 PROVE  SeenValue(d.target, v, Len(d.target.scopes))
      BY <1>1, <1>8 DEF UsableSeen
    <3>1. SeenValue(target, v, Len(within))
      BY <1>6, <1>10 DEF VInv, WithinSeen
    <3>2. Seen(t, target.valueMap[v].var, Len(t.scopes))
      BY <1>4, <1>6, <3>1 DEF SeenValue
    <3> QED BY <1>5, <3>2 DEF SeenValue, Turns
  <2> QED BY <2>2, <2>3, <2>4 DEF VInv
<1> QED BY <1>9, <1>10

(* What is usable behind a construct. *)
LEMMA CloseStep ==
  ASSUME TInv, within # <<>>, within' = Front(within), NEW c, NEW d, ControlCall(c, d),
         d.target = LeaveScope(target), Says(d),
         usable' \subseteq DOMAIN target.valueMap
  PROVE  /\ TInv'
         /\ VInv /\ (\A v \in usable' : \E k \in 1..Len(within) : SeenValue(target, v, k))
              => VInv'
<1>1. /\ TargetOK(d.target) /\ Turns(d) /\ Len(target.scopes) > 1
      /\ \A n : \A k \in 1..(Len(target.scopes) - 1) : Seen(target, n, k) => Seen(d.target, n, k)
  BY ScopeLeft, TypeFacts, InsideFacts DEF Turns
<1>2. /\ Follows' /\ TargetOK(target)' /\ PhisMapped' /\ IsList(shader)' /\ Len(shader') = Len(calls')
      /\ DOMAIN target'.valueMap = DOMAIN target.valueMap /\ target' = LeaveScope(target)
      /\ DOMAIN target'.valueMap \subseteq DOMAIN calls'
  BY <1>1 DEF ControlCall
<1>3. /\ Constructs' /\ Len(target'.scopes) = Len(within') + 1
      /\ \A v : \A k \in 1..Len(within) :
           SeenValue(target, v, k) => SeenValue(target', v, Len(target'.scopes))
      /\ VInv => WithinSeen'
  BY <1>2, CloseScope
<1>4. TInv'
  BY <1>2, <1>3, TypeKept
<1>5. ASSUME VInv, \A v \in usable' : \E k \in 1..Len(within) : SeenValue(target, v, k)
      PROVE  VInv'
  <2>1. LastingSeen' /\ OuterKinds' /\ PhisOutside' /\ Scoped'
    <3>1. Len(target.scopes) - 1 \in Nat \ {0}
      <4> DEFINE n == Len(target.scopes)
      <4>1. n \in Nat /\ n > 1
        BY <1>1, TypeFacts
      <4> HIDE DEF n
      <4>2. n - 1 \in Nat \ {0}
        BY <4>1
      <4> QED BY <4>2 DEF n
    <3> QED BY <1>1, <1>5, <3>1 DEF ControlCall
  <2>2. UsableSeen'
    BY <1>3, <1>5 DEF UsableSeen
  <2> QED BY <1>3, <1>5, <2>1, <2>2 DEF VInv
<1> QED BY <1>4, <1>5

LEMMA EndifStep ==
  ASSUME TInv, Endif
  PROVE  TInv' /\ (VInv => VInv')
<1>1. /\ Running /\ shape[At].call = "addEndif" /\ usable' = Inside.usable \cup shape[At].live
      /\ within' = Front(within) /\ within # <<>> /\ Plain(<<>>)
  BY DEF Endif, Now, At
<1> DEFINE c == Made(<<>>, "none", NoName, FALSE)
           d == Called(target, c, At)
<1>2. ControlCall(c, d) /\ c.call = "addEndif"
  BY <1>1, ControlMade DEF Declares
<1> HIDE DEF c
<1>3. d = [target |-> LeaveScope(target), text |-> Control("endif", NoText)]
  BY <1>2 DEF Called, AddEndif
<1> HIDE DEF d
<1>4. d.target = LeaveScope(target) /\ Says(d)
  BY <1>3, NoTextSays
<1>5. \A p \in shape[At].live : p \in DOMAIN target.valueMap /\ p \in DOMAIN calls /\ IsPhi(p)
  BY <1>2, LiveMapped DEF ControlCall
<1>6. usable' \subseteq DOMAIN target.valueMap
  BY <1>1, <1>5, InsideFacts
<1>7. ASSUME VInv, NEW v \in usable'
      PROVE  \E k \in 1..Len(within) : SeenValue(target, v, k)
  <2>1. /\ Len(within) \in DOMAIN within /\ Len(within) \in 1..Len(within)
        /\ 1 \in 1..Len(within) /\ Inside = within[Len(within)]
    BY <1>1, TypeFacts, InsideFacts
  <2>2. CASE v \in Inside.usable
    BY <1>7, <2>1, <2>2 DEF VInv, WithinSeen
  <2>3. CASE v \in shape[At].live
    BY <1>5, <1>7, <2>1, <2>3 DEF VInv, LastingSeen, Lasts
  <2> QED BY <1>1, <2>2, <2>3
<1> QED BY <1>1, <1>2, <1>4, <1>6, <1>7, CloseStep

(* The only action whose values may name what is no longer declared. *)
LEMMA EndStep ==
  ASSUME TInv, End
  PROVE  TInv' /\ (VInv /\ "scoped text" \in LeftOut => VInv')
<1>1. /\ Running /\ shape[At].call = "endLoop"
      /\ within' = Front(within) /\ within # <<>> /\ Plain(<<>>)
      /\ usable' = shape[At].live \cup
           {v \in UNION Inside.exits : (\A e \in Inside.exits : v \in e) /\ UsedBehind(v)}
  BY DEF End, Now, At
<1> DEFINE c == Made(<<>>, "none", NoName, FALSE)
           d == Called(target, c, At)
<1>2. ControlCall(c, d) /\ c.call = "endLoop"
  BY <1>1, ControlMade DEF Declares
<1> HIDE DEF c
<1>3. d = [target |-> LeaveScope(target), text |-> Control("endloop", NoText)]
  BY <1>2 DEF Called, EndLoop
<1> HIDE DEF d
<1>4. d.target = LeaveScope(target) /\ Says(d)
  BY <1>3, NoTextSays
<1>5. \A p \in shape[At].live : p \in DOMAIN target.valueMap /\ p \in DOMAIN calls /\ IsPhi(p)
  BY <1>2, LiveMapped DEF ControlCall
<1>6. usable' \subseteq DOMAIN target.valueMap
  BY <1>1, <1>5, InsideFacts
<1>7. ASSUME VInv, "scoped text" \in LeftOut, NEW v \in usable'
      PROVE  \E k \in 1..Len(within) : SeenValue(target, v, k)
  <2>1. /\ Len(within) \in DOMAIN within /\ Len(within) \in 1..Len(within)
        /\ 1 \in 1..Len(within) /\ Inside = within[Len(within)]
    BY <1>1, TypeFacts, InsideFacts
  <2>2. v \in DOMAIN target.valueMap /\ v \in DOMAIN calls
    BY <1>6, TypeFacts
  <2>3. Lasts(v) => SeenValue(target, v, 1)
    BY <1>7, <2>2 DEF VInv, LastingSeen
  <2>4. CASE v \in Inside.usable
    BY <1>7, <2>1, <2>4 DEF VInv, WithinSeen
  <2>5. CASE IsPhi(v)
    BY <2>1, <2>3, <2>5 DEF Lasts
  <2>6. CASE calls[v].outer /\ (calls[v].kind \in {"extract", "negate"} => SeenOutside(v))
    <3>1. calls[v].kind \in Kinds
      BY <1>7, <2>2, <2>6 DEF VInv, OuterKinds
    <3>2. CASE calls[v].kind \in {"extract", "negate"}
      BY <2>1, <2>6, <3>2 DEF SeenOutside, SeenValue, Seen
    <3>3. CASE calls[v].kind \notin {"extract", "negate"}
      BY <2>1, <2>3, <2>6, <3>1, <3>3 DEF Lasts, Kinds, Mapped
    <3> QED BY <3>2, <3>3
  <2>7. v \in shape[At].live \/ UsedBehind(v)
    BY <1>1
  <2> QED BY <1>5, <1>7, <2>4, <2>5, <2>6, <2>7 DEF UsedBehind
<1> QED BY <1>1, <1>2, <1>4, <1>6, <1>7, CloseStep

-----------------------------------------------------------------------------
(* The theorems.                                                           *)

LEMMA InitTypes ==
  ASSUME Init
  PROVE  TInv /\ VInv
<1>1. /\ shape \in Shapes /\ calls = <<>> /\ usable = {} /\ within = <<>> /\ shader = <<>>
      /\ target = Start
  BY DEF Init
<1>2. /\ target.valueMap = <<>> /\ target.globals = <<Input>> /\ target.scopes = << <<>> >>
      /\ IsTarget(target)
  BY <1>1 DEF Start, IsTarget
<1>3. /\ IsList(<<Input>>) /\ Input \in ToSet(<<Input>>)
      /\ IsList(<< <<>> >>) /\ Len(<< <<>> >>) = 1 /\ << <<>> >> # <<>>
      /\ DOMAIN << <<>> >> = {1} /\ << <<>> >>[1] = <<>>
  BY DEF IsList, ToSet
<1>4. DOMAIN <<>> = {} /\ Len(<<>>) = 0 /\ IsList(<<>>)
  BY EmptyList, ListFacts
<1>5. TargetOK(target)
  BY <1>2, <1>3, <1>4, Zenon DEF TargetOK
<1>6. Len(shape) \in Nat
  BY ShapesAssumption, <1>1 DEF Ordered
<1>7. Follows
  BY <1>1, <1>4, <1>6 DEF Follows
<1>8. PhisMapped /\ Constructs
  BY <1>1, <1>4 DEF PhisMapped, Constructs
<1>9. TypeOK
  <2>1. Len(target.scopes) = 1
    BY <1>2, <1>3
  <2>2. Len(within) = 0 /\ Len(shader) = Len(calls)
    BY <1>1, <1>4
  <2>3. DOMAIN target.valueMap = {}
    BY <1>2, <1>4
  <2> QED BY <1>1, <2>1, <2>2, <2>3 DEF TypeOK
<1>10. VInv
  BY <1>1, <1>2, <1>4
     DEF VInv, LastingSeen, OuterKinds, UsableSeen, WithinSeen, PhisOutside, Scoped
<1> QED BY <1>5, <1>7, <1>8, <1>9, <1>10 DEF TInv

LEMMA NextKeeps ==
  ASSUME TInv, [Next]_glslVars
  PROVE  TInv' /\ (VInv /\ "scoped text" \in LeftOut => VInv')
<1>1. CASE Next
  BY <1>1, DeclarePhiStep, InstructionStep, PhiCopyStep, IfStep, ElseStep, EndifStep,
     BeginStep, ExitStep, EndStep, WriteStep DEF Next
<1>2. CASE UNCHANGED glslVars
  <2>1. TInv'
    BY <1>2 DEF glslVars, TInv, Follows, PhisMapped, Constructs, TypeOK
  <2>2. VInv => VInv'
    BY <1>2 DEF glslVars, VInv, LastingSeen, OuterKinds, UsableSeen, WithinSeen, PhisOutside,
                Scoped, Lasts, IsPhi
  <2> QED BY <2>1, <2>2
<1> QED BY <1>1, <1>2

(* BottomToGLSL.cpp, newScope and leaveScope around addIf, addElse, addEndif,
   beginLoop and endLoop, and mapExpressionString: every value the translator
   may pass has a text, and a scope is open for each construct of the IR.  *)
THEOREM TypeCorrect == Spec => []TypeOK
<1>1. Init => TInv
  BY InitTypes
<1>2. TInv /\ [Next]_glslVars => TInv'
  BY NextKeeps
<1>3. TInv => TypeOK
  BY DEF TInv
<1> QED BY <1>1, <1>2, <1>3, PTL DEF Spec

(* BottomToGLSL.cpp, addInstruction and emitGlaValueDeclaration: but for
   texts that are substituted behind the loop their names are declared in,
   every name in a statement is declared, in an open scope or globally.    *)
THEOREM ScopedCorrect ==
  ASSUME "scoped text" \in LeftOut
  PROVE  Spec => []Scoped
<1>1. Init => TInv /\ VInv
  BY InitTypes
<1>2. (TInv /\ VInv) /\ [Next]_glslVars => (TInv /\ VInv)'
  BY NextKeeps
<1>3. VInv => Scoped
  BY DEF VInv
<1> QED BY <1>1, <1>2, <1>3, PTL DEF Spec
=============================================================================
