-------------------------- MODULE SpvBuilt_proofs ---------------------------
(***************************************************************************)
(* The rest of the proofs about the SPIR-V front end: where functions begin *)
(* and end, and what has been made when the module has been read.          *)
(***************************************************************************)
EXTENDS SpvGraph_proofs

-----------------------------------------------------------------------------
(* A function begins: its entry, made now or at a call, becomes the        *)
(* current block and its first label's.                                    *)
Enters(m, map, new, w, c, d) ==
  /\ c \in BuilderType /\ d \in BuilderType /\ Len(c.blocks) <= Len(d.blocks)
  /\ \A i \in Made(c) : d.blocks[i] = c.blocks[i]
  /\ \A i \in Made(d) : i \notin Made(c) =>
       d.blocks[i].term = NoTerm /\ d.blocks[i].code = <<>> /\ d.blocks[i].fn = m[w].id
  /\ d.insert \in Made(d) /\ At(m, new, w) = d.insert /\ At(m, new, w + 1) = d.insert
  /\ d.blocks[d.insert].fn = m[w].id /\ d.blocks[d.insert].code = <<>>
  /\ Keeping(map, new)
  /\ \A v \in Begun(m, new) : v \in Begun(m, map) \/ v = w \/ v = w + 1
  /\ w \notin Begun(m, map) => d.insert \notin Made(c)

LEMMA EnterFacts ==
  ASSUME NEW m, NEW map, NEW new, NEW w, NEW c, NEW d, NEW fn, Valid(m), w \in DOMAIN m,
         m[w].op = "function", Enters(m, map, new, w, c, d), OwnersOK(m, map, w, c, fn)
  PROVE  /\ w \in Nat /\ w >= 1 /\ w + 1 \in DOMAIN m /\ m[w + 1].op = "label"
         /\ w \in Begun(m, new) /\ w + 1 \in Begun(m, new) /\ w + 1 \notin Begun(m, map)
         /\ \A v \in Begun(m, map) : v \in Begun(m, new) /\ At(m, new, v) = At(m, map, v)
         /\ \A i \in Made(c) : i \in Made(d) /\ d.blocks[i] = c.blocks[i]
         /\ \A v \in Begun(m, map) : m[v].op = "label" => v # w /\ v # w + 1
<1>1. /\ w \in Nat /\ w >= 1 /\ w + 1 \in DOMAIN m /\ m[w + 1].op = "label"
  BY NextWord, Following
<1>2. m[w].id \in Ids /\ m[w + 1].id \in Ids
  BY <1>1, Fields DEF Definitions
<1>3. d.insert # Nothing
  <2>1. d.insert \in 1..Len(d.blocks)
    BY DEF Enters, Made
  <2> QED
    BY <2>1 DEF Nothing
<1>4. w \in Begun(m, new) /\ w + 1 \in Begun(m, new)
  BY <1>1, <1>3 DEF Begun, Definitions, Enters
<1>5. w + 1 \notin Begun(m, map)
  <2>1. Outside(m, w)
    BY DEF Outside
  <2>2. \A u \in (w + 1)..(w - 1) : m[u].op # "functionEnd"
    BY <1>1
  <2> QED
    BY <1>1, <2>1, <2>2 DEF OwnersOK
<1>6. \A v \in Begun(m, map) : v \in Begun(m, new) /\ At(m, new, v) = At(m, map, v)
  <2> TAKE v \in Begun(m, map)
  <2>1. v \in DOMAIN m /\ m[v].id \in Ids /\ m[v].op \in Definitions /\ At(m, map, v) # Nothing
    BY BegunFacts
  <2>2. new[m[v].id] = map[m[v].id]
    BY <2>1 DEF Enters, Keeping, At
  <2> QED
    BY <2>1, <2>2 DEF Begun, At
<1>7. \A i \in Made(c) : i \in Made(d) /\ d.blocks[i] = c.blocks[i]
  <2>1. Len(c.blocks) \in Nat /\ Len(d.blocks) \in Nat /\ Len(c.blocks) <= Len(d.blocks)
    BY BuilderFields DEF Enters
  <2> QED
    BY <2>1 DEF Enters, Made
<1> QED
  BY <1>1, <1>4, <1>5, <1>6, <1>7

LEMMA EnterWords ==
  ASSUME NEW m, NEW map, NEW new, NEW w, NEW c, NEW d, Valid(m), w \in DOMAIN m,
         m[w].op = "function", Enters(m, map, new, w, c, d)
  PROVE  WordsOK(m, new, w + 1, d, m[w].id)
<1>1. /\ w \in Nat /\ w >= 1 /\ w + 1 \in DOMAIN m /\ m[w + 1].op = "label"
  BY NextWord, Following
<1>2. ~ Outside(m, w + 1)
  BY <1>1 DEF Outside
<1>3. w \in 1..((w + 1) - 1) /\ \A u \in (w + 1)..((w + 1) - 1) : m[u].op # "function"
  BY <1>1
<1> QED
  BY <1>1, <1>2, <1>3 DEF WordsOK, Enters

LEMMA EnterOwners ==
  ASSUME NEW m, NEW map, NEW new, NEW w, NEW c, NEW d, NEW fn, Valid(m), w \in DOMAIN m,
         m[w].op = "function", Enters(m, map, new, w, c, d), OwnersOK(m, map, w, c, fn),
         \A v \in Begun(m, map) : At(m, map, v) \in Made(c)
  PROVE  OwnersOK(m, new, w + 1, d, m[w].id)
<1>0. /\ w \in Nat /\ w >= 1 /\ w + 1 \in DOMAIN m /\ m[w + 1].op = "label"
      /\ w \in Begun(m, new) /\ w + 1 \in Begun(m, new) /\ w + 1 \notin Begun(m, map)
      /\ \A v \in Begun(m, map) : v \in Begun(m, new) /\ At(m, new, v) = At(m, map, v)
      /\ \A i \in Made(c) : i \in Made(d) /\ d.blocks[i] = c.blocks[i]
      /\ \A v \in Begun(m, map) : m[v].op = "label" => v # w /\ v # w + 1
  BY EnterFacts
<1>1. /\ w \in Nat /\ w >= 1 /\ w + 1 \in DOMAIN m /\ m[w + 1].op = "label"
      /\ ~ Outside(m, w + 1) /\ Outside(m, w)
  BY <1>0 DEF Outside
<1> SUFFICES ASSUME NEW v \in Begun(m, new)
             PROVE  /\ m[v].op = "function" => d.blocks[At(m, new, v)].fn = m[v].id
                    /\ m[v].op = "label" /\ v < w + 1 =>
                         \E f \in DOMAIN m : Behind(m, f, v) /\ d.blocks[At(m, new, v)].fn = m[f].id
                    /\ m[v].op = "label" /\ (\A u \in v..((w + 1) - 1) : m[u].op # "functionEnd") =>
                         ~ Outside(m, w + 1) /\ d.blocks[At(m, new, v)].fn = m[w].id
                    /\ m[v].op = "label" => \A u \in (w + 1)..v : m[u].op # "functionEnd"
  BY DEF OwnersOK
<1>2. v \in Nat /\ v >= 1
  BY BegunFacts
<1>3. CASE v \in Begun(m, map)
  <2>1. At(m, new, v) = At(m, map, v) /\ d.blocks[At(m, map, v)] = c.blocks[At(m, map, v)]
    BY <1>0, <1>3
  <2>2. m[v].op = "label" => v # w /\ v # w + 1
    BY <1>0, <1>3
  <2>3. (\A u \in v..((w + 1) - 1) : m[u].op # "functionEnd") =>
           \A u \in v..(w - 1) : m[u].op # "functionEnd"
    BY <1>1, <1>2
  <2>4. m[v].op = "label" => \A u \in (w + 1)..v : m[u].op # "functionEnd"
    <3>1. m[v].op = "label" => \A u \in w..v : m[u].op # "functionEnd"
      BY <1>3 DEF OwnersOK
    <3> QED
      BY <1>1, <1>2, <3>1
  <2>5. m[v].op = "label" /\ v < w + 1 => v < w
    BY <1>1, <1>2, <2>2
  <2> QED
    BY <1>1, <1>3, <2>1, <2>3, <2>4, <2>5 DEF OwnersOK
<1>4. CASE v = w
  BY <1>1, <1>4 DEF Enters
<1>5. CASE v = w + 1
  <2>1. \A u \in (w + 1)..v : u = w + 1
    BY <1>1, <1>5
  <2> QED
    BY <1>1, <1>5, <2>1 DEF Enters
<1> QED
  BY <1>3, <1>4, <1>5 DEF Enters

LEMMA EnterDistinct ==
  ASSUME NEW m, NEW map, NEW new, NEW w, NEW c, NEW d, NEW fn, Valid(m), w \in DOMAIN m,
         m[w].op = "function", Enters(m, map, new, w, c, d), OwnersOK(m, map, w, c, fn),
         DistinctOK(m, map, w), \A v \in Begun(m, map) : At(m, map, v) \in Made(c)
  PROVE  DistinctOK(m, new, w + 1)
<1>0. /\ w \in Nat /\ w >= 1 /\ w + 1 \in DOMAIN m /\ m[w + 1].op = "label"
      /\ w \in Begun(m, new) /\ w + 1 \in Begun(m, new) /\ w + 1 \notin Begun(m, map)
      /\ \A v \in Begun(m, map) : v \in Begun(m, new) /\ At(m, new, v) = At(m, map, v)
      /\ \A i \in Made(c) : i \in Made(d) /\ d.blocks[i] = c.blocks[i]
      /\ \A v \in Begun(m, map) : m[v].op = "label" => v # w /\ v # w + 1
  BY EnterFacts
<1>1. /\ w \in Nat /\ w >= 1 /\ w + 1 \in DOMAIN m /\ m[w + 1].op = "label"
  BY <1>0
<1>3. ASSUME NEW u \in Begun(m, map), u # w PROVE At(m, map, u) # d.insert
  <2>1. u \in Nat /\ u >= 1 /\ u # w + 1
    BY <1>0, BegunFacts
  <2>2. ASSUME At(m, map, u) = d.insert PROVE FALSE
    <3>1. w \in Begun(m, map) /\ At(m, map, w) = d.insert
      BY <1>0, <2>2 DEF Enters
    <3>2. ~ (u < w)
      <4>1. m[u].op = "function" => m[u + 1].op = "label"
        BY NextWord, Following, BegunFacts
      <4>2. u < w => m[u].op = "function" /\ w = u + 1
        BY <2>2, <3>1 DEF DistinctOK
      <4> QED
        BY <1>1, <2>1, <4>1, <4>2
    <3>3. ~ (u > w)
      BY <1>1, <2>1, <2>2, <3>1 DEF DistinctOK
    <3> QED
      BY <1>1, <1>3, <2>1, <3>2, <3>3
  <2> QED
    BY <2>2
<1>4. ASSUME NEW u \in Begun(m, new), NEW v \in Begun(m, new), At(m, new, u) = At(m, new, v), u < v
      PROVE  m[u].op = "function" /\ v = u + 1
  <2>1. u \in Nat /\ v \in Nat
    BY BegunFacts
  <2>2. /\ u = w \/ u = w + 1 \/ (u \in Begun(m, map) /\ u # w)
        /\ v = w \/ v = w + 1 \/ (v \in Begun(m, map) /\ v # w)
    BY DEF Enters
  <2>3. CASE u \in Begun(m, map) /\ u # w /\ v \in Begun(m, map) /\ v # w
    BY <1>0, <1>4, <2>3 DEF DistinctOK
  <2>4. CASE u \in Begun(m, map) /\ u # w /\ (v = w \/ v = w + 1)
    BY <1>0, <1>3, <1>4, <2>4 DEF Enters
  <2>5. CASE v \in Begun(m, map) /\ v # w /\ (u = w \/ u = w + 1)
    BY <1>0, <1>3, <1>4, <2>5 DEF Enters
  <2>6. CASE (u = w \/ u = w + 1) /\ (v = w \/ v = w + 1)
    BY <1>1, <1>4, <2>6
  <2> QED
    BY <2>2, <2>3, <2>4, <2>5, <2>6
<1>5. ASSUME NEW v \in 1..((w + 1) - 1)
      PROVE  /\ m[v].op \in Definitions => v \in Begun(m, new)
             /\ m[v].op = "call" => new[m[v].id] # Nothing
             /\ m[v].op \in Branches =>
                  \A i \in DOMAIN m[v].labels : new[m[v].labels[i]] # Nothing
             /\ m[v].op = "function" => v + 1 \in Begun(m, new) /\ At(m, new, v + 1) = At(m, new, v)
  <2>1. CASE v = w
    <3>1. m[v].op \notin Branches
      BY <2>1 DEF Branches
    <3>2. m[v].op = "function" /\ v + 1 = w + 1
      BY <2>1
    <3>3. At(m, new, v + 1) = At(m, new, v)
      BY <2>1 DEF Enters
    <3> QED
      BY <1>0, <2>1, <3>1, <3>2, <3>3
  <2>2. CASE v # w
    <3>1. v \in 1..(w - 1) /\ v \in DOMAIN m
      <4>1. DOMAIN m = 1..Len(m)
        BY DEF Valid
      <4> QED
        BY <1>1, <2>2, <4>1
    <3>2. m[v].op = "call" => m[v].id \in Ids
      BY <3>1, Fields
    <3>3. \A i \in DOMAIN m[v].labels : m[v].labels[i] \in Ids
      BY <3>1, Fields
    <3>4. \A id \in Ids : map[id] # Nothing => new[id] # Nothing
      BY DEF Enters, Keeping
    <3>5. m[v].op = "call" => new[m[v].id] # Nothing
      BY <3>1, <3>2, <3>4 DEF DistinctOK
    <3>6. m[v].op \in Branches => \A i \in DOMAIN m[v].labels : new[m[v].labels[i]] # Nothing
      BY <3>1, <3>3, <3>4 DEF DistinctOK
    <3> QED
      <4>1. /\ m[v].op \in Definitions => v \in Begun(m, map)
            /\ m[v].op = "function" => v + 1 \in Begun(m, map) /\ At(m, map, v + 1) = At(m, map, v)
        BY <3>1 DEF DistinctOK
      <4>2. m[v].op = "function" => m[v].op \in Definitions
        BY DEF Definitions
      <4> QED
        BY <1>0, <3>5, <3>6, <4>1, <4>2
  <2> QED
    BY <2>1, <2>2
<1> QED
  BY <1>4, <1>5 DEF DistinctOK

LEMMA EnterTargets ==
  ASSUME NEW m, NEW map, NEW new, NEW w, NEW c, NEW d, NEW fn, Valid(m), w \in DOMAIN m,
         m[w].op = "function", Enters(m, map, new, w, c, d), OwnersOK(m, map, w, c, fn),
         TargetsOK(m, map, c)
  PROVE  TargetsOK(m, new, d)
<1>0. /\ w + 1 \in DOMAIN m /\ m[w + 1].op = "label"
      /\ \A v \in Begun(m, map) : v \in Begun(m, new) /\ At(m, new, v) = At(m, map, v)
      /\ \A i \in Made(c) : i \in Made(d) /\ d.blocks[i] = c.blocks[i]
  BY EnterFacts
<1> SUFFICES ASSUME NEW i \in Made(d)
             PROVE  /\ d.blocks[i].term.kind # "double"
                    /\ \A k \in DOMAIN d.blocks[i].term.to :
                         /\ d.blocks[i].term.to[k] \in Made(d)
                         /\ d.blocks[d.blocks[i].term.to[k]].fn = d.blocks[i].fn
                         /\ \A g \in Begun(m, new) :
                              m[g].op = "function" => At(m, new, g) # d.blocks[i].term.to[k]
  BY DEF TargetsOK
<1>1. CASE i \notin Made(c)
  <2>1. d.blocks[i].term = NoTerm
    BY <1>1 DEF Enters
  <2>2. NoTerm.kind = "none" /\ NoTerm.to = <<>>
    BY DEF NoTerm, Term
  <2> QED
    BY <2>1, <2>2
<1>2. CASE i \in Made(c)
  <2>1. d.blocks[i] = c.blocks[i] /\ c.blocks[i].term.kind # "double"
    BY <1>0, <1>2 DEF TargetsOK
  <2>2. ASSUME NEW k \in DOMAIN c.blocks[i].term.to
        PROVE  /\ c.blocks[i].term.to[k] \in Made(d)
               /\ d.blocks[c.blocks[i].term.to[k]].fn = c.blocks[i].fn
               /\ \A g \in Begun(m, new) :
                    m[g].op = "function" => At(m, new, g) # c.blocks[i].term.to[k]
    <3> DEFINE x == c.blocks[i].term.to[k]
    <3>1. /\ x \in Made(c) /\ c.blocks[x].fn = c.blocks[i].fn
          /\ \A g \in Begun(m, map) : m[g].op = "function" => At(m, map, g) # x
      BY <1>2, <2>2 DEF TargetsOK
    <3> HIDE DEF x
    <3>2. x \in Made(d) /\ d.blocks[x].fn = c.blocks[i].fn
      BY <1>0, <3>1
    <3>3. ASSUME NEW g \in Begun(m, new), m[g].op = "function" PROVE At(m, new, g) # x
      <4>1. CASE g \in Begun(m, map)
        BY <1>0, <3>1, <3>3, <4>1
      <4>2. CASE g \notin Begun(m, map)
        <5>1. g = w
          BY <1>0, <3>3, <4>2 DEF Enters
        <5> QED
          BY <3>1, <4>2, <5>1 DEF Enters
      <4> QED
        BY <4>1, <4>2
    <3> QED
      BY <3>2, <3>3 DEF x
  <2> QED
    BY <2>1, <2>2
<1> QED
  BY <1>1, <1>2

LEMMA EnterOpen ==
  ASSUME NEW m, NEW map, NEW new, NEW w, NEW c, NEW d, NEW fn, NEW out, Valid(m), w \in DOMAIN m,
         m[w].op = "function", Enters(m, map, new, w, c, d), OwnersOK(m, map, w, c, fn),
         OpenOK(m, map, w, c, {}), \A i \in Made(d) : i \notin Made(c) => i = d.insert \/ i \in out
  PROVE  OpenOK(m, new, w + 1, d, out)
<1>0. /\ w \in Nat /\ w >= 1 /\ w + 1 \in DOMAIN m /\ w + 1 \in Begun(m, new)
      /\ \A v \in Begun(m, map) : v \in Begun(m, new) /\ At(m, new, v) = At(m, map, v)
      /\ \A i \in Made(c) : i \in Made(d) /\ d.blocks[i] = c.blocks[i]
  BY EnterFacts
<1>1. w + 1 \in Pending(m, new, w + 1) /\ At(m, new, w + 1) = d.insert
  BY <1>0, PendingBegun DEF Enters
<1> SUFFICES ASSUME NEW i \in Made(d), Open(d, i)
             PROVE  i \in out \/ \E v \in Pending(m, new, w + 1) : At(m, new, v) = i
  BY DEF OpenOK
<1>2. CASE i \notin Made(c)
  BY <1>1, <1>2
<1>3. CASE i \in Made(c)
  <2>1. Open(c, i)
    BY <1>0, <1>3 DEF Open
  <2>2. m[w].op \notin InBlock \union {"functionEnd"}
    BY DEF InBlock, Terminators, Branches
  <2>3. PICK v \in Pending(m, map, w) : At(m, map, v) = i
    BY <1>3, <2>1, <2>2 DEF OpenOK
  <2>4. v \in Begun(m, map) /\ v >= w /\ v \in Nat
    BY <1>0, PendingBegun, BegunFacts
  <2>5. CASE v = w
    BY <1>0, <1>1, <2>3, <2>4, <2>5 DEF Enters
  <2>6. CASE v # w
    <3>1. v >= w + 1 /\ w + 1 \in Nat /\ w + 1 >= 1
      BY <1>0, <2>4, <2>6
    <3>2. v \in Pending(m, new, w + 1)
      BY <1>0, <2>4, <3>1, PendingBegun
    <3> QED
      BY <1>0, <2>3, <2>4, <3>2
  <2> QED
    BY <2>5, <2>6
<1> QED
  BY <1>2, <1>3

LEMMA EnterCode ==
  ASSUME NEW m, NEW map, NEW new, NEW w, NEW c, NEW d, NEW fn, NEW ep, Valid(m), w \in DOMAIN m,
         m[w].op = "function", Enters(m, map, new, w, c, d), OwnersOK(m, map, w, c, fn),
         DistinctOK(m, map, w), \A v \in Begun(m, map) : At(m, map, v) \in Made(c),
         CodeOK(m, map, w, c, ep), SameStage(c, d) \/ ~ MainRead(m, w, ep)
  PROVE  CodeOK(m, new, w + 1, d, ep)
<1>0. /\ w \in Nat /\ w >= 1 /\ w + 1 \in DOMAIN m /\ w + 1 \in Begun(m, new)
      /\ w <= Len(m) + 1 /\ m[w + 1].op = "label"
      /\ \A v \in Begun(m, map) : v \in Begun(m, new) /\ At(m, new, v) = At(m, map, v)
      /\ \A i \in Made(c) : i \in Made(d) /\ d.blocks[i] = c.blocks[i]
  <2>1. DOMAIN m = 1..Len(m) /\ Len(m) \in Nat
    BY DEF Valid
  <2> QED
    BY <2>1, EnterFacts
<1>1. ~ InABlock(m, w) /\ ~ InABlock(m, w + 1)
  BY <1>0 DEF InABlock, InBlock, Terminators, Branches
<1>2. ASSUME NEW v \in Pending(m, new, w + 1) PROVE d.blocks[At(m, new, v)].code = <<>>
  <2>0. w + 1 \in Nat /\ w + 1 >= 1
    BY <1>0
  <2>1. v \in Begun(m, new) /\ v >= w + 1 /\ v \in Nat
    BY <1>2, <2>0, PendingBegun, BegunFacts
  <2>2. CASE v \in Begun(m, map)
    <3>1. v \in Pending(m, map, w)
      BY <1>0, <2>1, <2>2, PendingBegun
    <3>2. c.blocks[At(m, map, v)].code = <<>>
      BY <3>1 DEF CodeOK
    <3> QED
      BY <1>0, <2>2, <3>2
  <2>3. CASE v \notin Begun(m, map)
    <3>1. v = w + 1
      BY <1>0, <2>1, <2>3 DEF Enters
    <3> QED
      BY <3>1 DEF Enters
  <2> QED
    BY <2>2, <2>3
<1>3. ASSUME NEW v \in 1..((w + 1) - 1), m[v].op = "label"
      PROVE  \E e \in (v + 1)..((w + 1) - 1) : EndedAt(m, new, d, ep, v, e)
  <2>1. v \in 1..(w - 1)
    BY <1>0, <1>3
  <2>2. PICK e \in (v + 1)..(w - 1) : EndedAt(m, map, c, ep, v, e)
    BY <1>1, <1>3, <2>1 DEF CodeOK
  <2>3. v \in Begun(m, map)
    BY <1>3, <2>1 DEF DistinctOK, Definitions
  <2>4. /\ At(m, new, v) = At(m, map, v) /\ At(m, map, v) \in Made(c)
        /\ d.blocks[At(m, map, v)] = c.blocks[At(m, map, v)]
    BY <1>0, <2>3
  <2>5. SameStage(c, d) \/ c.blocks[At(m, map, v)].fn \notin ep
    <3>1. v < w
      BY <1>0, <2>1
    <3>2. PICK f \in DOMAIN m : Behind(m, f, v) /\ c.blocks[At(m, map, v)].fn = m[f].id
      BY <1>3, <2>3, <3>1 DEF OwnersOK
    <3>3. f \in 1..(w - 1) /\ m[f].op = "function"
      BY <1>0, <2>1, <3>2 DEF Behind
    <3> QED
      BY <3>2, <3>3 DEF MainRead
  <2>6. Keeping(map, new)
    BY DEF Enters
  <2>7. EndedAt(m, new, d, ep, v, e)
    BY <1>0, <2>1, <2>2, <2>4, <2>5, <2>6, EndStays
  <2> QED
    BY <1>0, <2>1, <2>7
<1> QED
  BY <1>1, <1>2, <1>3 DEF CodeOK

LEMMA EnterCover ==
  ASSUME NEW m, NEW map, NEW new, NEW w, NEW c, NEW d, NEW fn, NEW ep, Valid(m), w \in DOMAIN m,
         m[w].op = "function", Enters(m, map, new, w, c, d), OwnersOK(m, map, w, c, fn),
         CoverOK(m, map, w, c, ep),
         \/ m[w].id \notin ep /\ SameStage(c, d)
            /\ \A i \in Made(d) : i \notin Made(c) => i = d.insert
         \/ /\ m[w].id \in ep /\ ~ MainRead(m, w, ep) /\ w \notin Begun(m, map)
            /\ \A i \in Made(d) : i \notin Made(c) => i = d.insert \/ i \in Stages(d)
            /\ d.stageEpilogue # d.stageExit
            /\ \A i \in Stages(d) : i \in Made(d) /\ i \notin Made(c) /\ i # d.insert
  PROVE  CoverOK(m, new, w + 1, d, ep)
<1>0. /\ w \in Nat /\ w >= 1 /\ w \in Begun(m, new)
      /\ \A v \in Begun(m, map) : v \in Begun(m, new) /\ At(m, new, v) = At(m, map, v)
      /\ \A i \in Made(c) : i \in Made(d) /\ d.blocks[i] = c.blocks[i]
      /\ At(m, new, w) = d.insert /\ At(m, new, w + 1) = d.insert /\ d.insert \in Made(d)
  <2>1. At(m, new, w) = d.insert /\ At(m, new, w + 1) = d.insert /\ d.insert \in Made(d)
    BY DEF Enters
  <2> QED
    BY <2>1, EnterFacts
<1>1. /\ \A i \in Made(c) : i \in Stages(c) \/ \E v \in Begun(m, map) : At(m, map, v) = i
      /\ \A v \in Begun(m, map) : At(m, map, v) \in Made(c) /\ At(m, map, v) \notin Stages(c)
  BY DEF CoverOK
<1>2. \A i \in Made(c) : i # Nothing
  BY DEF Made, Nothing
<1>3. CASE /\ m[w].id \notin ep /\ SameStage(c, d)
           /\ \A i \in Made(d) : i \notin Made(c) => i = d.insert
  <2>1. Stages(c) = Stages(d) /\ d.stageEpilogue = c.stageEpilogue /\ d.stageExit = c.stageExit
    BY <1>3 DEF Stages, SameStage
  <2>2. MainRead(m, w + 1, ep) <=> MainRead(m, w, ep)
    BY <1>0, <1>3, WordMain
  <2>3. d.insert \notin Stages(c)
    <3>1. CASE w \in Begun(m, map)
      BY <1>0, <1>1, <3>1
    <3>2. CASE w \notin Begun(m, map)
      <4>1. d.insert \notin Made(c) /\ d.insert # Nothing
        <5>1. d.insert \in 1..Len(d.blocks)
          BY <1>0 DEF Made
        <5> QED
          BY <3>2, <5>1 DEF Enters, Nothing
      <4>2. \A i \in Stages(c) : i = Nothing \/ i \in Made(c)
        BY DEF CoverOK, Stages
      <4> QED
        BY <4>1, <4>2
    <3> QED
      BY <3>1, <3>2
  <2>4. \A i \in Made(d) : i \in Stages(d) \/ \E v \in Begun(m, new) : At(m, new, v) = i
    BY <1>0, <1>1, <1>3, <2>1
  <2>5. \A v \in Begun(m, new) : At(m, new, v) \in Made(d) /\ At(m, new, v) \notin Stages(d)
    BY <1>0, <1>1, <2>1, <2>3 DEF Enters
  <2>6. MainRead(m, w, ep) =>
          \A i \in Stages(d) : i \in Made(d) /\ d.blocks[i].fn \in ep
    BY <1>0, <2>1 DEF CoverOK
  <2> QED
    BY <2>1, <2>2, <2>4, <2>5, <2>6 DEF CoverOK
<1>4. CASE /\ m[w].id \in ep /\ ~ MainRead(m, w, ep) /\ w \notin Begun(m, map)
           /\ \A i \in Made(d) : i \notin Made(c) => i = d.insert \/ i \in Stages(d)
           /\ d.stageEpilogue # d.stageExit
           /\ \A i \in Stages(d) : i \in Made(d) /\ i \notin Made(c) /\ i # d.insert
  <2>1. \A i \in Stages(c) : i = Nothing
    BY <1>4 DEF CoverOK, Stages
  <2>2. MainRead(m, w + 1, ep)
    BY <1>0, <1>4 DEF MainRead
  <2>3. \A i \in Made(d) : i \in Stages(d) \/ \E v \in Begun(m, new) : At(m, new, v) = i
    BY <1>0, <1>1, <1>2, <1>4, <2>1
  <2>4. \A v \in Begun(m, new) : At(m, new, v) \in Made(d) /\ At(m, new, v) \notin Stages(d)
    BY <1>0, <1>1, <1>4 DEF Enters
  <2>5. \A i \in Stages(d) : i \in Made(d) /\ d.blocks[i].fn \in ep
    BY <1>4 DEF Enters
  <2> QED
    BY <1>4, <2>2, <2>3, <2>4, <2>5 DEF CoverOK
<1> QED
  BY <1>3, <1>4

LEMMA EnterLayout ==
  ASSUME NEW m, NEW map, NEW new, NEW w, NEW c, NEW d, NEW fn, NEW out, Valid(m), w \in DOMAIN m,
         m[w].op = "function", Enters(m, map, new, w, c, d), OwnersOK(m, map, w, c, fn),
         LayoutOK(m, map, c, {}),
         \/ d.layout = c.layout /\ Made(d) = Made(c) /\ out = {}
         \/ /\ d.layout = Append(c.layout, d.insert) /\ d.insert \notin Made(c)
            /\ \A i \in Made(d) : i \notin Made(c) => i = d.insert \/ i \in out
            /\ \A i \in out : i \notin Made(c) /\ i # d.insert
  PROVE  LayoutOK(m, new, d, out)
<1>0. /\ w \in Nat /\ w >= 1 /\ w \in Begun(m, new)
      /\ \A v \in Begun(m, map) : v \in Begun(m, new) /\ At(m, new, v) = At(m, map, v)
      /\ \A i \in Made(c) : i \in Made(d) /\ d.blocks[i] = c.blocks[i]
      /\ At(m, new, w) = d.insert /\ d.insert \in Made(d) /\ d.blocks[d.insert].fn = m[w].id
  <2>1. At(m, new, w) = d.insert /\ d.insert \in Made(d) /\ d.blocks[d.insert].fn = m[w].id
    BY DEF Enters
  <2> QED
    BY <2>1, EnterFacts
<1> DEFINE L == c.layout
           K == d.layout
           n == Len(L)
<1>1. L \in Seq(Nat) /\ K \in Seq(Nat) /\ d.insert \in Nat
  BY BuilderFields DEF Enters
<1>2. n \in Nat /\ DOMAIN L = 1..n
  BY <1>1
<1>3. /\ \A i, j \in DOMAIN L : L[i] = L[j] => i = j
      /\ \A i \in DOMAIN L : L[i] \in Made(c)
      /\ \A k \in Made(c) : \E i \in DOMAIN L : L[i] = k
  BY DEF LayoutOK
<1>4. \A i \in DOMAIN L : \E j \in 1..i, g \in Begun(m, new) :
         m[g].op = "function" /\ d.blocks[L[i]].fn = m[g].id /\ L[j] = At(m, new, g)
  <2> TAKE i \in DOMAIN L
  <2>1. PICK j \in 1..i, g \in Begun(m, map) :
          m[g].op = "function" /\ c.blocks[L[i]].fn = m[g].id /\ L[j] = At(m, map, g)
    BY DEF LayoutOK
  <2>2. d.blocks[L[i]] = c.blocks[L[i]]
    BY <1>0, <1>3
  <2> QED
    BY <1>0, <2>1, <2>2
<1>5. CASE K = L /\ Made(d) = Made(c) /\ out = {}
  <2>1. /\ \A i, j \in DOMAIN K : K[i] = K[j] => i = j
        /\ \A i \in DOMAIN K : K[i] \in Made(d) /\ K[i] \notin out
        /\ \A k \in Made(d) : k \notin out => \E i \in DOMAIN K : K[i] = k
        /\ \A i \in DOMAIN K : \E j \in 1..i, g \in Begun(m, new) :
             m[g].op = "function" /\ d.blocks[K[i]].fn = m[g].id /\ K[j] = At(m, new, g)
    <3> HIDE DEF L, K
    <3> QED
      BY <1>3, <1>4, <1>5
  <2> QED
    BY <2>1 DEF LayoutOK
<1>6. CASE /\ K = Append(L, d.insert) /\ d.insert \notin Made(c)
           /\ \A i \in Made(d) : i \notin Made(c) => i = d.insert \/ i \in out
           /\ \A i \in out : i \notin Made(c) /\ i # d.insert
  <2> DEFINE x == d.insert
  <2>1. /\ DOMAIN K = 1..(n + 1) /\ K[n + 1] = x
        /\ \A i \in 1..n : K[i] = L[i]
    <3> HIDE DEF L, K, x
    <3>1. K = Append(L, x) /\ L \in Seq(Nat) /\ x \in Nat
      BY <1>1, <1>6 DEF x
    <3> QED
      BY <3>1 DEF n
  <2>2. \A i \in 1..n : K[i] \in Made(c)
    BY <1>2, <1>3, <2>1
  <2> HIDE DEF L, K, n, x
  <2>3. \A i \in 1..(n + 1) : i = n + 1 \/ i \in 1..n
    BY <1>2
  <2>4. \A i, j \in DOMAIN K : K[i] = K[j] => i = j
    BY <1>2, <1>3, <1>6, <2>1, <2>2, <2>3 DEF x
  <2>5. \A i \in DOMAIN K : K[i] \in Made(d) /\ K[i] \notin out
    BY <1>0, <1>6, <2>1, <2>2, <2>3 DEF x
  <2>6. \A k \in Made(d) : k \notin out => \E i \in DOMAIN K : K[i] = k
    <3> TAKE k \in Made(d)
    <3>1. CASE k \in Made(c)
      <4>1. PICK i \in DOMAIN L : L[i] = k
        BY <1>3, <3>1
      <4>2. i \in DOMAIN K /\ K[i] = k
        BY <1>2, <2>1, <4>1
      <4> QED
        BY <4>2
    <3>2. CASE k \notin Made(c)
      <4>1. n + 1 \in DOMAIN K
        BY <1>2, <2>1
      <4> QED
        BY <1>6, <2>1, <3>2, <4>1 DEF x
    <3> QED
      BY <3>1, <3>2
  <2>7. \A i \in DOMAIN K : \E j \in 1..i, g \in Begun(m, new) :
             m[g].op = "function" /\ d.blocks[K[i]].fn = m[g].id /\ K[j] = At(m, new, g)
    <3> TAKE i \in DOMAIN K
    <3>1. CASE i = n + 1
      <4>1. i \in 1..i
        BY <1>2, <3>1
      <4> QED
        BY <1>0, <2>1, <3>1, <4>1 DEF x
    <3>2. CASE i \in 1..n
      <4>1. PICK j \in 1..i, g \in Begun(m, new) :
              m[g].op = "function" /\ d.blocks[L[i]].fn = m[g].id /\ L[j] = At(m, new, g)
        BY <1>2, <1>4, <3>2
      <4>2. j \in 1..n
        BY <1>2, <3>2, <4>1
      <4>3. K[i] = L[i] /\ K[j] = L[j]
        BY <2>1, <3>2, <4>2
      <4> QED
        BY <4>1, <4>3
    <3> QED
      BY <2>1, <2>3, <3>1, <3>2
  <2> QED
    BY <2>4, <2>5, <2>6, <2>7 DEF LayoutOK, K
<1> QED
  BY <1>5, <1>6

LEMMA EnterGraph ==
  ASSUME NEW m, NEW map, NEW new, NEW w, NEW c, NEW d, NEW fn, NEW ep, Valid(m), w \in DOMAIN m,
         m[w].op = "function", Enters(m, map, new, w, c, d), NoFunction \notin ep,
         GraphOK(m, map, w, c, fn, ep),
         \/ /\ m[w].id \notin ep /\ SameStage(c, d)
            /\ \/ d.layout = c.layout /\ Made(d) = Made(c)
               \/ /\ d.layout = Append(c.layout, d.insert) /\ d.insert \notin Made(c)
                  /\ \A i \in Made(d) : i \notin Made(c) => i = d.insert
         \/ /\ m[w].id \in ep /\ ~ MainRead(m, w, ep) /\ w \notin Begun(m, map)
            /\ d.layout = Append(c.layout, d.insert)
            /\ \A i \in Made(d) : i \notin Made(c) => i = d.insert \/ i \in Stages(d)
            /\ d.stageEpilogue # d.stageExit
            /\ \A i \in Stages(d) : i \in Made(d) /\ i \notin Made(c) /\ i # d.insert
  PROVE  GraphOK(m, new, w + 1, d, m[w].id, ep)
<1>1. /\ WordsOK(m, map, w, c, fn) /\ OwnersOK(m, map, w, c, fn) /\ DistinctOK(m, map, w)
      /\ CoverOK(m, map, w, c, ep) /\ LayoutOK(m, map, c, Unplaced(c, fn, ep))
      /\ TargetsOK(m, map, c) /\ OpenOK(m, map, w, c, Unplaced(c, fn, ep))
      /\ CodeOK(m, map, w, c, ep)
  BY DEF GraphOK
<1>2. Unplaced(c, fn, ep) = {}
  <2>1. Outside(m, w)
    BY DEF Outside
  <2> QED
    BY <1>1, <2>1 DEF WordsOK, Unplaced
<1>3. \A v \in Begun(m, map) : At(m, map, v) \in Made(c)
  BY <1>1 DEF CoverOK
<1>4. WordsOK(m, new, w + 1, d, m[w].id)
  BY EnterWords
<1>5. OwnersOK(m, new, w + 1, d, m[w].id)
  BY <1>1, <1>3, EnterOwners
<1>6. DistinctOK(m, new, w + 1)
  BY <1>1, <1>3, EnterDistinct
<1>7. TargetsOK(m, new, d)
  BY <1>1, EnterTargets
<1>8. CodeOK(m, new, w + 1, d, ep)
  <2>1. SameStage(c, d) \/ ~ MainRead(m, w, ep)
    OBVIOUS
  <2> QED
    BY <1>1, <1>3, <2>1, EnterCode
<1>9. CASE /\ m[w].id \notin ep /\ SameStage(c, d)
           /\ \/ d.layout = c.layout /\ Made(d) = Made(c)
              \/ /\ d.layout = Append(c.layout, d.insert) /\ d.insert \notin Made(c)
                 /\ \A i \in Made(d) : i \notin Made(c) => i = d.insert
  <2>1. Unplaced(d, m[w].id, ep) = {}
    BY <1>9 DEF Unplaced
  <2>2. \A i \in Made(d) : i \notin Made(c) => i = d.insert
    BY <1>9
  <2>3. CoverOK(m, new, w + 1, d, ep)
    BY <1>1, <1>9, <2>2, EnterCover
  <2>4. OpenOK(m, new, w + 1, d, {})
    BY <1>1, <1>2, <2>2, EnterOpen
  <2>5. LayoutOK(m, new, d, {})
    BY <1>1, <1>2, <1>9, EnterLayout
  <2> QED
    BY <1>4, <1>5, <1>6, <1>7, <1>8, <2>1, <2>3, <2>4, <2>5 DEF GraphOK
<1>10. CASE /\ m[w].id \in ep /\ ~ MainRead(m, w, ep) /\ w \notin Begun(m, map)
            /\ d.layout = Append(c.layout, d.insert)
            /\ \A i \in Made(d) : i \notin Made(c) => i = d.insert \/ i \in Stages(d)
            /\ d.stageEpilogue # d.stageExit
            /\ \A i \in Stages(d) : i \in Made(d) /\ i \notin Made(c) /\ i # d.insert
  <2>1. Unplaced(d, m[w].id, ep) = Stages(d)
    BY <1>10 DEF Unplaced
  <2>2. d.insert \notin Made(c)
    BY <1>10 DEF Enters
  <2>3. CoverOK(m, new, w + 1, d, ep)
    BY <1>1, <1>10, EnterCover
  <2>4. OpenOK(m, new, w + 1, d, Stages(d))
    BY <1>1, <1>2, <1>10, EnterOpen
  <2>5. LayoutOK(m, new, d, Stages(d))
    BY <1>1, <1>2, <1>10, <2>2, EnterLayout
  <2> QED
    BY <1>4, <1>5, <1>6, <1>7, <1>8, <2>1, <2>3, <2>4, <2>5 DEF GraphOK
<1> QED
  BY <1>9, <1>10

(* makeMain: the stage blocks, and the entry, which is placed. *)
LEMMA MainMade ==
  ASSUME NEW c \in BuilderType, NEW fn \in Ids
  PROVE  LET d == MakeMainOf(c, fn)
             n == Len(c.blocks)
         IN  /\ d.layout = Append(c.layout, n + 3)
             /\ \A i \in {n + 1, n + 2, n + 3} :
                  d.blocks[i].term = NoTerm /\ d.blocks[i].code = <<>> /\ d.blocks[i].fn = fn
<1> DEFINE d == MakeMainOf(c, fn)
           n == Len(c.blocks)
           B1 == NewBlock("stage-epilogue", fn)
           B2 == NewBlock("stage-exit", fn)
           B3 == NewBlock("entry", fn)
           s0 == c.blocks
           s1 == Append(s0, B1)
           s2 == Append(s1, B2)
           s3 == Append(s2, B3)
<1>1. /\ B1 \in BlockType /\ B2 \in BlockType /\ B3 \in BlockType
      /\ \A B \in {B1, B2, B3} : B.term = NoTerm /\ B.code = <<>> /\ B.fn = fn
  <2>1. {"stage-epilogue", "stage-exit", "entry"} \subseteq BlockNames \union {"L"}
    BY DEF BlockNames
  <2> QED
    BY <2>1, NewBlockType DEF NewBlock
<1>2. n \in Nat /\ s0 \in Seq(BlockType) /\ Len(s0) = n
  BY BuilderFields
<1>3. d.blocks = s3 /\ d.layout = Append(c.layout, Len(s2) + 1)
  BY DEF MakeMainOf, MakeFunctionEntry, CreateIn, Create, PushBack, Next1, BuilderType
<1> HIDE DEF d, n, B1, B2, B3, s0, s1, s2, s3
<1>4. /\ s1 \in Seq(BlockType) /\ Len(s1) = n + 1 /\ s1[n + 1] = B1
  BY <1>1, <1>2, AppendProperties DEF s1
<1>5. /\ s2 \in Seq(BlockType) /\ Len(s2) = n + 2 /\ s2[n + 2] = B2
      /\ \A i \in 1..(n + 1) : s2[i] = s1[i]
  <2>1. (n + 1) + 1 = n + 2
    BY <1>2
  <2> QED
    BY <1>1, <1>4, <2>1, AppendProperties DEF s2
<1>6. /\ Len(s3) = n + 3 /\ s3[n + 3] = B3
      /\ \A i \in 1..(n + 2) : s3[i] = s2[i]
  <2>1. (n + 2) + 1 = n + 3
    BY <1>2
  <2> QED
    BY <1>1, <1>5, <2>1, AppendProperties DEF s3
<1>7. n + 1 \in 1..(n + 1) /\ n + 1 \in 1..(n + 2) /\ n + 2 \in 1..(n + 2) /\ (n + 2) + 1 = n + 3
  BY <1>2
<1>8. s3[n + 1] = B1 /\ s3[n + 2] = B2 /\ s3[n + 3] = B3
  BY <1>4, <1>5, <1>6, <1>7
<1>9. d.layout = Append(c.layout, n + 3)
  BY <1>3, <1>5, <1>7
<1> QED
  BY <1>1, <1>3, <1>8, <1>9 DEF d, n

(* What the new map makes of the definitions. *)
Entered(m, map, new, w, k) ==
  /\ new[m[w].id] = k /\ new[m[w + 1].id] = k
  /\ \A id \in Ids : id # m[w].id /\ id # m[w + 1].id => new[id] = map[id]
  /\ map[m[w].id] # Nothing => map[m[w].id] = k
  /\ w + 1 \notin Begun(m, map)

LEMMA EnteredMap ==
  ASSUME NEW m, Valid(m), NEW w \in DOMAIN m, m[w].op = "function", NEW map, NEW new, NEW k,
         Entered(m, map, new, w, k)
  PROVE  /\ At(m, new, w) = k /\ At(m, new, w + 1) = k /\ Keeping(map, new)
         /\ \A v \in Begun(m, new) : v \in Begun(m, map) \/ v = w \/ v = w + 1
<1>1. /\ w + 1 \in DOMAIN m /\ m[w + 1].op = "label"
  BY NextWord, Following
<1>2. map[m[w + 1].id] = Nothing
  BY <1>1 DEF Begun, Definitions, At, Entered
<1>3. Keeping(map, new)
  BY <1>2 DEF Keeping, Entered
<1>4. ASSUME NEW v \in Begun(m, new) PROVE v \in Begun(m, map) \/ v = w \/ v = w + 1
  <2>1. v \in DOMAIN m /\ m[v].op \in Definitions /\ m[v].id \in Ids
    BY BegunFacts
  <2>2. m[v].id = m[w].id => v = w
    BY <2>1, Unique DEF Definitions
  <2>3. m[v].id = m[w + 1].id => v = w + 1
    BY <1>1, <2>1, Unique DEF Definitions
  <2>4. m[v].id # m[w].id /\ m[v].id # m[w + 1].id => v \in Begun(m, map)
    BY <2>1 DEF Begun, At, Entered
  <2> QED
    BY <2>2, <2>3, <2>4
<1> QED
  BY <1>3, <1>4 DEF At, Entered

LEMMA FunctionGraph ==
  ASSUME SInv, GInv, OpFunction
  PROVE  GInv'
<1> DEFINE fn == spirv[word].id
           label == spirv[word + 1].id
           m == MakeMainOf(b, fn)
           e == MakeFunctionEntry(b, fn)
           n == Len(b.blocks)
<1>1. /\ phase = "translating" /\ word <= Len(spirv) /\ spirv[word].op = "function"
      /\ currentFunction' = fn /\ word' = word + 1
      /\ UNCHANGED <<spirv, entryPoint, currentModel, phase>>
      /\ STypes /\ Running /\ Valid(spirv) /\ word \in DOMAIN spirv /\ word \in Nat
      /\ fn \in Ids /\ label \in Ids /\ fn # label
      /\ commonMap[fn] # Nothing =>
           word \in Pending(spirv, commonMap, word) /\ At(spirv, commonMap, word) = commonMap[fn]
  BY FunctionCases
<1>2. \/ /\ fn \in entryPoint /\ commonMap[fn] = Nothing
         /\ commonMap' = [commonMap EXCEPT ![fn] = Len(m.blocks), ![label] = Len(m.blocks)]
         /\ b' = SetInsertPoint(m, Len(m.blocks))
      \/ /\ fn \notin entryPoint /\ commonMap[fn] # Nothing
         /\ commonMap' = [commonMap EXCEPT ![label] = commonMap[fn]]
         /\ b' = SetInsertPoint(b, commonMap[fn])
      \/ /\ fn \notin entryPoint /\ commonMap[fn] = Nothing
         /\ commonMap' = [commonMap EXCEPT ![fn] = Next1(b), ![label] = Next1(b)]
         /\ b' = SetInsertPoint(e, Next1(b))
  BY FunctionCases
<1>3. /\ ModelOK(entryPoint, currentModel)
      /\ GraphOK(spirv, commonMap, word, b, currentFunction, entryPoint)
  BY <1>1, GraphNow
<1>4. /\ b \in BuilderType /\ commonMap \in [Ids -> 0..Len(b.blocks)] /\ n \in Nat
      /\ PendingOK(spirv, commonMap, word, b) /\ NoFunction \notin entryPoint
  BY <1>1, BuilderFields, IdsAssumption DEF STypes, Running, NoFunction
<1>5. word + 1 \notin Begun(spirv, commonMap)
  <2>1. Outside(spirv, word)
    BY <1>1 DEF Outside
  <2>2. \A u \in (word + 1)..(word - 1) : spirv[u].op # "functionEnd"
    BY <1>1
  <2>3. spirv[word + 1].op = "label"
    BY <1>1, NextWord, Following
  <2> QED
    BY <1>3, <2>1, <2>2, <2>3 DEF OwnersOK, GraphOK
<1>6. commonMap[fn] = Nothing => word \notin Begun(spirv, commonMap)
  BY DEF Begun, At
<1> HIDE DEF label, m, e
<1>7. CASE /\ fn \in entryPoint /\ commonMap[fn] = Nothing
           /\ commonMap' = [commonMap EXCEPT ![fn] = Len(m.blocks), ![label] = Len(m.blocks)]
           /\ b' = SetInsertPoint(m, Len(m.blocks))
  <2> DEFINE k == Len(m.blocks)
  <2>1. /\ Changes(b, m, {}) /\ k = n + 3 /\ m.stageEpilogue = n + 1 /\ m.stageExit = n + 2
    BY <1>1, <1>4, MakeMainChanges DEF m
  <2>2. /\ m.layout = Append(b.layout, n + 3)
        /\ \A i \in {n + 1, n + 2, n + 3} :
             m.blocks[i].term = NoTerm /\ m.blocks[i].code = <<>> /\ m.blocks[i].fn = fn
    BY <1>1, <1>4, MainMade DEF m
  <2>3. m \in BuilderType /\ k \in Nat
    BY <1>4, <2>1 DEF Changes
  <2> HIDE DEF k
  <2>4. /\ Changes(m, b', {}) /\ SameStage(m, b') /\ b'.insert = k /\ b'.blocks = m.blocks
        /\ b'.layout = m.layout
    BY <1>7, <2>3, SetInsertChanges DEF k
  <2>5. Changes(b, b', {}) /\ Len(b'.blocks) = n + 3
    BY <2>1, <2>4, ChangesThen DEF k
  <2>6. /\ \A i \in Made(b') : i \notin Made(b) => i \in {n + 1, n + 2, n + 3}
        /\ \A i \in {n + 1, n + 2, n + 3} : i \in Made(b') /\ i \notin Made(b)
    <3>1. Len(b'.blocks) = n + 3 /\ n \in Nat
      BY <1>4, <2>5
    <3>2. Made(b') = 1..(n + 3) /\ Made(b) = 1..n
      BY <3>1 DEF Made
    <3> HIDE DEF n
    <3> QED
      BY <3>1, <3>2
  <2>7. n + 1 # n + 2 /\ n + 1 # n + 3 /\ n + 2 # n + 3
    BY <1>4
  <2> HIDE DEF n
  <2>8. /\ commonMap'[fn] = k /\ commonMap'[label] = k
        /\ \A id \in Ids : id # fn /\ id # label => commonMap'[id] = commonMap[id]
    BY <1>1, <1>4, <1>7 DEF k
  <2>9. /\ At(spirv, commonMap', word) = k /\ At(spirv, commonMap', word + 1) = k
        /\ Keeping(commonMap, commonMap')
        /\ \A v \in Begun(spirv, commonMap') :
             v \in Begun(spirv, commonMap) \/ v = word \/ v = word + 1
    <3>1. Entered(spirv, commonMap, commonMap', word, k)
      BY <1>1, <1>5, <1>7, <2>8 DEF Entered, label
    <3> QED
      BY <1>1, <3>1, EnteredMap
  <2>10. /\ b \in BuilderType /\ b' \in BuilderType /\ Len(b.blocks) <= Len(b'.blocks)
         /\ \A i \in Made(b) : b'.blocks[i] = b.blocks[i]
    BY <2>5 DEF Changes
  <2>11. k \in Made(b') /\ k \notin Made(b) /\ k = n + 3
    BY <2>1, <2>6
  <2>12. \A i \in {n + 1, n + 2, n + 3} : b'.blocks[i] = m.blocks[i]
    BY <2>4
  <2>13. Enters(spirv, commonMap, commonMap', word, b, b')
    BY <2>2, <2>4, <2>6, <2>9, <2>10, <2>11, <2>12 DEF Enters
  <2>14. Stages(b') = {n + 1, n + 2} /\ b'.stageEpilogue # b'.stageExit
    BY <2>1, <2>4, <2>7 DEF Stages, SameStage
  <2>15. ~ MainRead(spirv, word, entryPoint)
    <3> SUFFICES ASSUME NEW f \in 1..(word - 1), spirv[f].op = "function", spirv[f].id \in entryPoint
                 PROVE  FALSE
      BY DEF MainRead
    <3>1. spirv[f].id = spirv[word].id
      BY <1>3, <1>7 DEF ModelOK
    <3>2. f \in DOMAIN spirv /\ f # word
      BY <1>1 DEF Valid
    <3> QED
      BY <1>1, <3>1, <3>2, Unique DEF Definitions
  <2>16. /\ b'.layout = Append(b.layout, b'.insert)
         /\ \A i \in Made(b') : i \notin Made(b) => i = b'.insert \/ i \in Stages(b')
         /\ \A i \in Stages(b') : i \in Made(b') /\ i \notin Made(b) /\ i # b'.insert
    BY <2>2, <2>4, <2>6, <2>7, <2>11, <2>14
  <2>17. GraphOK(spirv, commonMap', word + 1, b', fn, entryPoint)
    BY <1>1, <1>3, <1>4, <1>6, <1>7, <2>13, <2>14, <2>15, <2>16, EnterGraph
  <2> QED
    BY <1>1, <1>3, <2>17, GraphNext
<1>8. CASE /\ fn \notin entryPoint /\ commonMap[fn] # Nothing
           /\ commonMap' = [commonMap EXCEPT ![label] = commonMap[fn]]
           /\ b' = SetInsertPoint(b, commonMap[fn])
  <2> DEFINE k == commonMap[fn]
  <2>1. k \in Nat
    BY <1>1, <1>4
  <2>2. /\ Changes(b, b', {}) /\ SameStage(b, b') /\ b'.insert = k /\ b'.blocks = b.blocks
        /\ b'.layout = b.layout
    BY <1>4, <1>8, <2>1, SetInsertChanges
  <2>3. word \in Begun(spirv, commonMap) /\ At(spirv, commonMap, word) = k
    BY <1>1, <1>8 DEF Begun, Definitions
  <2>4. k \in Made(b) /\ b.blocks[k].fn = fn /\ b.blocks[k].code = <<>>
    <3>1. k \in Made(b) /\ b.blocks[k].fn = fn
      BY <1>1, <1>3, <2>3 DEF GraphOK, OwnersOK, CoverOK
    <3>2. b.blocks[k].code = <<>>
      BY <1>1, <1>3, <1>8, <2>3 DEF GraphOK, CodeOK
    <3> QED
      BY <3>1, <3>2
  <2> HIDE DEF n
  <2>5. /\ commonMap'[fn] = k /\ commonMap'[label] = k
        /\ \A id \in Ids : id # fn /\ id # label => commonMap'[id] = commonMap[id]
    BY <1>1, <1>4, <1>8
  <2> HIDE DEF k
  <2>6. /\ At(spirv, commonMap', word) = k /\ At(spirv, commonMap', word + 1) = k
        /\ Keeping(commonMap, commonMap')
        /\ \A v \in Begun(spirv, commonMap') :
             v \in Begun(spirv, commonMap) \/ v = word \/ v = word + 1
    <3>1. Entered(spirv, commonMap, commonMap', word, k)
      BY <1>1, <1>5, <2>5 DEF Entered, label, k
    <3> QED
      BY <1>1, <3>1, EnteredMap
  <2>7. /\ b \in BuilderType /\ b' \in BuilderType /\ Len(b.blocks) <= Len(b'.blocks)
        /\ \A i \in Made(b) : b'.blocks[i] = b.blocks[i]
    BY <2>2 DEF Changes
  <2>8. Made(b') = Made(b)
    BY <2>2 DEF Made
  <2>9. Enters(spirv, commonMap, commonMap', word, b, b')
    BY <2>2, <2>3, <2>4, <2>6, <2>7, <2>8 DEF Enters
  <2>10. GraphOK(spirv, commonMap', word + 1, b', fn, entryPoint)
    BY <1>1, <1>3, <1>4, <1>8, <2>2, <2>8, <2>9, EnterGraph
  <2> QED
    BY <1>1, <1>3, <2>10, GraphNext
<1>9. CASE /\ fn \notin entryPoint /\ commonMap[fn] = Nothing
           /\ commonMap' = [commonMap EXCEPT ![fn] = Next1(b), ![label] = Next1(b)]
           /\ b' = SetInsertPoint(e, Next1(b))
  <2> DEFINE k == Next1(b)
  <2>1. Changes(b, e, {}) /\ SameStage(b, e) /\ Len(e.blocks) = n + 1 /\ k = n + 1
        /\ e.layout = Append(b.layout, k)
    <3>1. fn \in Ids \union {NoFunction} /\ "entry" \in BlockNames \union {"L"}
      BY <1>1 DEF BlockNames
    <3> QED
      BY <1>4, <3>1, CreateInChanges DEF e, MakeFunctionEntry
  <2>2. e \in BuilderType /\ k \in Nat
    BY <1>4, <2>1 DEF Changes
  <2>3. e.blocks[k] = NewBlock("entry", fn)
    <3>1. e.blocks = Append(b.blocks, NewBlock("entry", fn))
      BY <1>4 DEF e, MakeFunctionEntry, CreateIn, Create, PushBack, BuilderType
    <3>2. NewBlock("entry", fn) \in BlockType
      BY <1>1, NewBlockType DEF BlockNames
    <3>3. b.blocks \in Seq(BlockType)
      BY <1>4, BuilderFields
    <3> QED
      BY <2>1, <3>1, <3>2, <3>3, AppendProperties
  <2> HIDE DEF k
  <2>4. /\ Changes(e, b', {}) /\ SameStage(e, b') /\ b'.insert = k /\ b'.blocks = e.blocks
        /\ b'.layout = e.layout
    BY <1>9, <2>2, SetInsertChanges DEF k
  <2>5. Changes(b, b', {}) /\ Len(b'.blocks) = n + 1
    BY <2>1, <2>4, ChangesThen
  <2>6. /\ k \in Made(b') /\ k \notin Made(b)
        /\ \A i \in Made(b') : i \notin Made(b) => i = k
    <3>1. Made(b') = 1..(n + 1) /\ Made(b) = 1..n /\ k = n + 1
      BY <2>1, <2>5 DEF Made
    <3> HIDE DEF n
    <3> QED
      BY <1>4, <3>1
  <2> HIDE DEF n
  <2>7. /\ commonMap'[fn] = k /\ commonMap'[label] = k
        /\ \A id \in Ids : id # fn /\ id # label => commonMap'[id] = commonMap[id]
    BY <1>1, <1>4, <1>9 DEF k
  <2>8. /\ At(spirv, commonMap', word) = k /\ At(spirv, commonMap', word + 1) = k
        /\ Keeping(commonMap, commonMap')
        /\ \A v \in Begun(spirv, commonMap') :
             v \in Begun(spirv, commonMap) \/ v = word \/ v = word + 1
    <3>1. Entered(spirv, commonMap, commonMap', word, k)
      BY <1>1, <1>5, <1>9, <2>7 DEF Entered, label
    <3> QED
      BY <1>1, <3>1, EnteredMap
  <2>9. /\ b \in BuilderType /\ b' \in BuilderType /\ Len(b.blocks) <= Len(b'.blocks)
        /\ \A i \in Made(b) : b'.blocks[i] = b.blocks[i]
    BY <2>5 DEF Changes
  <2>10. b'.blocks[k].term = NoTerm /\ b'.blocks[k].code = <<>> /\ b'.blocks[k].fn = fn
    BY <2>3, <2>4 DEF NewBlock
  <2>11. Enters(spirv, commonMap, commonMap', word, b, b')
    BY <2>4, <2>6, <2>8, <2>9, <2>10 DEF Enters
  <2>12. SameStage(b, b') /\ b'.layout = Append(b.layout, b'.insert)
    BY <2>1, <2>4 DEF SameStage
  <2>13. GraphOK(spirv, commonMap', word + 1, b', fn, entryPoint)
    BY <1>1, <1>3, <1>4, <1>9, <2>4, <2>6, <2>11, <2>12, EnterGraph
  <2> QED
    BY <1>1, <1>3, <2>13, GraphNext
<1> QED
  BY <1>2, <1>7, <1>8, <1>9

-----------------------------------------------------------------------------
(* A function ends: T are the blocks that get their end with it. *)
Leaves(m, map, w, c, d, T) ==
  /\ c \in BuilderType /\ d \in BuilderType /\ Len(d.blocks) = Len(c.blocks) /\ SameStage(c, d)
  /\ \A i \in Made(c) : /\ d.blocks[i].fn = c.blocks[i].fn
                        /\ i \notin T => d.blocks[i] = c.blocks[i]
  /\ \A i \in T :
       /\ Open(c, i) /\ d.blocks[i].term.kind \notin {"none", "double"}
       /\ \A k \in DOMAIN d.blocks[i].term.to :
            /\ d.blocks[i].term.to[k] \in Made(c)
            /\ c.blocks[d.blocks[i].term.to[k]].fn = c.blocks[i].fn
            /\ \A g \in Begun(m, map) :
                 m[g].op = "function" => At(m, map, g) # d.blocks[i].term.to[k]
  /\ \A v \in Begun(m, map) : At(m, map, v) \in T =>
       v < w /\ d.blocks[At(m, map, v)].code = c.blocks[At(m, map, v)].code

LEMMA LeaveFacts ==
  ASSUME NEW m, Valid(m), NEW w \in DOMAIN m, m[w].op = "functionEnd"
  PROVE  /\ w \in Nat /\ w >= 1 /\ w <= Len(m) + 1 /\ ~ Outside(m, w) /\ ~ InABlock(m, w)
         /\ Outside(m, w + 1) /\ ~ InABlock(m, w + 1)
         /\ w + 1 \in DOMAIN m => m[w + 1].op = "function"
<1>1. w \in Nat /\ w >= 1 /\ w <= Len(m) + 1
  BY DEF Valid
<1>2. w + 1 \in DOMAIN m => m[w + 1].op = "function"
  BY NextWord, Following
<1> QED
  BY <1>1, <1>2 DEF Outside, InABlock, InBlock, Terminators, Branches

LEMMA LeaveWords ==
  ASSUME NEW m, NEW map, NEW w \in DOMAIN m, NEW d, Valid(m), m[w].op = "functionEnd"
  PROVE  WordsOK(m, map, w + 1, d, NoFunction)
<1>1. Outside(m, w + 1) /\ (w + 1 \in DOMAIN m => m[w + 1].op = "function")
  BY LeaveFacts
<1> QED
  BY <1>1 DEF WordsOK

LEMMA LeaveOwners ==
  ASSUME NEW m, NEW map, NEW w \in DOMAIN m, NEW c, NEW d, NEW fn, NEW T, Valid(m),
         m[w].op = "functionEnd", Leaves(m, map, w, c, d, T), OwnersOK(m, map, w, c, fn),
         \A v \in Begun(m, map) : At(m, map, v) \in Made(c)
  PROVE  OwnersOK(m, map, w + 1, d, NoFunction)
<1>1. w \in Nat /\ w >= 1
  BY LeaveFacts
<1>2. \A v \in Begun(m, map) : d.blocks[At(m, map, v)].fn = c.blocks[At(m, map, v)].fn
  BY DEF Leaves
<1>3. ASSUME NEW v \in Begun(m, map), m[v].op = "label" PROVE v < w /\ v \in Nat
  <2>1. v \in Nat
    BY BegunFacts
  <2>2. \A u \in w..v : m[u].op # "functionEnd"
    BY <1>3 DEF OwnersOK
  <2>3. w \notin w..v
    BY <2>2
  <2> QED
    BY <1>1, <2>1, <2>3
<1> SUFFICES ASSUME NEW v \in Begun(m, map)
             PROVE  /\ m[v].op = "function" => d.blocks[At(m, map, v)].fn = m[v].id
                    /\ m[v].op = "label" /\ v < w + 1 =>
                         \E f \in DOMAIN m : Behind(m, f, v) /\ d.blocks[At(m, map, v)].fn = m[f].id
                    /\ m[v].op = "label" /\ (\A u \in v..((w + 1) - 1) : m[u].op # "functionEnd") =>
                         ~ Outside(m, w + 1) /\ d.blocks[At(m, map, v)].fn = NoFunction
                    /\ m[v].op = "label" => \A u \in (w + 1)..v : m[u].op # "functionEnd"
  BY DEF OwnersOK
<1>4. m[v].op = "function" => d.blocks[At(m, map, v)].fn = m[v].id
  BY <1>2 DEF OwnersOK
<1>5. ASSUME m[v].op = "label"
      PROVE  \E f \in DOMAIN m : Behind(m, f, v) /\ d.blocks[At(m, map, v)].fn = m[f].id
  BY <1>2, <1>3, <1>5 DEF OwnersOK
<1>6. m[v].op = "label" => w \in v..((w + 1) - 1)
  BY <1>1, <1>3
<1>7. m[v].op = "label" => \A u \in (w + 1)..v : FALSE
  BY <1>1, <1>3
<1> QED
  BY <1>4, <1>5, <1>6, <1>7

LEMMA LeaveCover ==
  ASSUME NEW m, NEW map, NEW w \in DOMAIN m, NEW c, NEW d, NEW ep, NEW T, Valid(m),
         m[w].op = "functionEnd", Leaves(m, map, w, c, d, T), CoverOK(m, map, w, c, ep)
  PROVE  CoverOK(m, map, w + 1, d, ep)
<1>1. w \in Nat /\ w >= 1
  BY LeaveFacts
<1>2. MainRead(m, w + 1, ep) <=> MainRead(m, w, ep)
  BY <1>1, WordMain
<1>3. /\ Made(d) = Made(c) /\ Stages(d) = Stages(c)
      /\ d.stageEpilogue = c.stageEpilogue /\ d.stageExit = c.stageExit
      /\ \A i \in Made(c) : d.blocks[i].fn = c.blocks[i].fn
  BY DEF Leaves, Made, Stages, SameStage
<1> QED
  BY <1>2, <1>3 DEF CoverOK

LEMMA LeaveTargets ==
  ASSUME NEW m, NEW map, NEW w, NEW c, NEW d, NEW T, Leaves(m, map, w, c, d, T),
         TargetsOK(m, map, c)
  PROVE  TargetsOK(m, map, d)
<1>1. Made(d) = Made(c)
  BY DEF Leaves, Made
<1> SUFFICES ASSUME NEW i \in Made(c)
             PROVE  /\ d.blocks[i].term.kind # "double"
                    /\ \A k \in DOMAIN d.blocks[i].term.to :
                         /\ d.blocks[i].term.to[k] \in Made(c)
                         /\ d.blocks[d.blocks[i].term.to[k]].fn = d.blocks[i].fn
                         /\ \A g \in Begun(m, map) :
                              m[g].op = "function" => At(m, map, g) # d.blocks[i].term.to[k]
  BY <1>1 DEF TargetsOK
<1>2. \A x \in Made(c) : d.blocks[x].fn = c.blocks[x].fn
  BY DEF Leaves
<1>3. CASE i \in T
  <2>1. /\ d.blocks[i].term.kind # "double"
        /\ \A k \in DOMAIN d.blocks[i].term.to :
             /\ d.blocks[i].term.to[k] \in Made(c)
             /\ c.blocks[d.blocks[i].term.to[k]].fn = c.blocks[i].fn
             /\ \A g \in Begun(m, map) :
                  m[g].op = "function" => At(m, map, g) # d.blocks[i].term.to[k]
    BY <1>3 DEF Leaves
  <2> QED
    BY <1>2, <2>1
<1>4. CASE i \notin T
  <2>1. d.blocks[i] = c.blocks[i]
    BY <1>4 DEF Leaves
  <2> QED
    BY <1>2, <2>1 DEF TargetsOK
<1> QED
  BY <1>3, <1>4

LEMMA LeaveOpen ==
  ASSUME NEW m, NEW map, NEW w \in DOMAIN m, NEW c, NEW d, NEW T, NEW out, Valid(m),
         m[w].op = "functionEnd", Leaves(m, map, w, c, d, T), OpenOK(m, map, w, c, out),
         \A i \in out : i \in T, Open(c, c.insert) => c.insert \in T
  PROVE  OpenOK(m, map, w + 1, d, {})
<1>1. w \in Nat /\ w >= 1 /\ Made(d) = Made(c)
  BY LeaveFacts DEF Leaves, Made
<1> SUFFICES ASSUME NEW i \in Made(c), Open(d, i)
             PROVE  \E v \in Pending(m, map, w + 1) : At(m, map, v) = i
  BY <1>1 DEF OpenOK
<1>2. i \notin T
  BY DEF Leaves, Open
<1>3. Open(c, i)
  BY <1>2 DEF Leaves, Open
<1>4. PICK v \in Pending(m, map, w) : At(m, map, v) = i
  BY <1>2, <1>3 DEF OpenOK
<1>5. v \in Begun(m, map) /\ v >= w /\ v # w /\ v \in Nat
  BY <1>1, PendingBegun, BegunFacts
<1>6. v >= w + 1 /\ w + 1 \in Nat /\ w + 1 >= 1
  BY <1>1, <1>5
<1>7. v \in Pending(m, map, w + 1)
  BY <1>5, <1>6, PendingBegun
<1> QED
  BY <1>4, <1>7

(* Of what has ended, only a function's kill leaves its block open. *)
LEMMA OnlyKill ==
  ASSUME NEW m, NEW map, NEW w \in DOMAIN m, NEW c, NEW ep, Valid(m), ~ InABlock(m, w),
         CodeOK(m, map, w, c, ep), NEW v \in 1..(w - 1), m[v].op = "label",
         Open(c, At(m, map, v))
  PROVE  \E e \in (v + 1)..(w - 1) :
           /\ EndedAt(m, map, c, ep, v, e) /\ m[e].op = "kill"
           /\ c.blocks[At(m, map, v)].fn \notin ep
<1>1. PICK e \in (v + 1)..(w - 1) : EndedAt(m, map, c, ep, v, e)
  BY DEF CodeOK
<1> DEFINE blk == c.blocks[At(m, map, v)]
<1>2. TermFor(m, map, c, ep, blk, e) /\ m[e].op \in Terminators
  BY <1>1 DEF EndedAt
<1>3. blk.term.kind = "none"
  BY DEF Open
<1> HIDE DEF blk
<1>4. m[e].op \notin Branches
  <2> SUFFICES ASSUME m[e].op \in Branches PROVE FALSE
    OBVIOUS
  <2>1. blk.term.kind = TermKind(m[e].op)
    BY <1>2 DEF TermFor, Term
  <2>2. TermKind("branch") # "none" /\ TermKind("branchConditional") # "none"
        /\ TermKind("switch") # "none"
    BY DEF TermKind
  <2> QED
    BY <1>3, <2>1, <2>2 DEF Branches
<1>5. \A x : Br(x).kind = "br" /\ Ret.kind = "ret"
  BY DEF Br, Ret, Term
<1>6. m[e].op # "return"
  BY <1>2, <1>3, <1>5 DEF TermFor
<1>7. m[e].op = "kill" /\ blk.fn \notin ep
  BY <1>2, <1>3, <1>4, <1>5, <1>6 DEF TermFor, Terminators
<1> QED
  BY <1>1, <1>7 DEF blk

LEMMA LeaveCode ==
  ASSUME NEW m, NEW map, NEW w \in DOMAIN m, NEW c, NEW d, NEW ep, NEW T, Valid(m),
         m[w].op = "functionEnd", Leaves(m, map, w, c, d, T), CodeOK(m, map, w, c, ep),
         DistinctOK(m, map, w), \A v \in Begun(m, map) : At(m, map, v) \in Made(c)
  PROVE  CodeOK(m, map, w + 1, d, ep)
<1>1. /\ w \in Nat /\ w >= 1 /\ w <= Len(m) + 1 /\ ~ InABlock(m, w) /\ ~ InABlock(m, w + 1)
      /\ SameStage(c, d) /\ Keeping(map, map)
  BY LeaveFacts DEF Leaves, Keeping
<1>2. ASSUME NEW v \in Pending(m, map, w + 1) PROVE d.blocks[At(m, map, v)].code = <<>>
  <2>0. w + 1 \in Nat /\ w + 1 >= 1
    BY <1>1
  <2>1. v \in Begun(m, map) /\ v >= w + 1 /\ v \in Nat
    BY <1>2, <2>0, PendingBegun, BegunFacts
  <2>2. v >= w /\ ~ (v < w)
    BY <1>1, <2>1
  <2>3. v \in Pending(m, map, w)
    BY <1>1, <2>1, <2>2, PendingBegun
  <2>4. At(m, map, v) \notin T
    BY <2>1, <2>2 DEF Leaves
  <2>5. d.blocks[At(m, map, v)] = c.blocks[At(m, map, v)]
    BY <2>1, <2>4 DEF Leaves
  <2> QED
    BY <2>3, <2>5 DEF CodeOK
<1>3. ASSUME NEW v \in 1..((w + 1) - 1), m[v].op = "label"
      PROVE  \E e \in (v + 1)..((w + 1) - 1) : EndedAt(m, map, d, ep, v, e)
  <2>1. v \in 1..(w - 1)
    BY <1>1, <1>3
  <2>2. v \in Begun(m, map)
    BY <1>3, <2>1 DEF DistinctOK, Definitions
  <2>3. \A e \in (v + 1)..(w - 1) : e \in (v + 1)..((w + 1) - 1)
    BY <1>1
  <2>4. CASE At(m, map, v) \notin T
    <3>1. PICK e \in (v + 1)..(w - 1) : EndedAt(m, map, c, ep, v, e)
      BY <1>1, <1>3, <2>1 DEF CodeOK
    <3>2. d.blocks[At(m, map, v)] = c.blocks[At(m, map, v)]
      BY <2>2, <2>4 DEF Leaves
    <3>3. EndedAt(m, map, d, ep, v, e)
      BY <1>1, <2>1, <3>1, <3>2, EndStays
    <3> QED
      BY <2>3, <3>3
  <2>5. CASE At(m, map, v) \in T
    <3>1. Open(c, At(m, map, v))
      BY <2>5 DEF Leaves
    <3>2. PICK e \in (v + 1)..(w - 1) :
            /\ EndedAt(m, map, c, ep, v, e) /\ m[e].op = "kill"
            /\ c.blocks[At(m, map, v)].fn \notin ep
      BY <1>1, <1>3, <2>1, <3>1, OnlyKill
    <3>3. /\ d.blocks[At(m, map, v)].code = c.blocks[At(m, map, v)].code
          /\ d.blocks[At(m, map, v)].fn = c.blocks[At(m, map, v)].fn
      BY <2>2, <2>5 DEF Leaves
    <3>4. TermFor(m, map, d, ep, d.blocks[At(m, map, v)], e)
      BY <3>2, <3>3 DEF TermFor, Branches
    <3>5. EndedAt(m, map, d, ep, v, e)
      BY <3>2, <3>3, <3>4 DEF EndedAt
    <3> QED
      BY <2>3, <3>5
  <2> QED
    BY <2>4, <2>5
<1> QED
  BY <1>1, <1>2, <1>3 DEF CodeOK

LEMMA TwoAppended ==
  ASSUME NEW L \in Seq(Nat), NEW E \in Nat, NEW X \in Nat
  PROVE  LET K == Append(Append(L, E), X)
             n == Len(L)
         IN  /\ n \in Nat /\ DOMAIN L = 1..n /\ DOMAIN K = 1..(n + 2)
             /\ \A i \in 1..n : K[i] = L[i]
             /\ K[n + 1] = E /\ K[n + 2] = X
<1> DEFINE M == Append(L, E)
           K == Append(M, X)
           n == Len(L)
<1>1. n \in Nat /\ DOMAIN L = 1..n
  OBVIOUS
<1>2. M \in Seq(Nat) /\ Len(M) = n + 1 /\ M[n + 1] = E /\ \A i \in 1..n : M[i] = L[i]
  BY AppendProperties
<1> HIDE DEF M, n
<1>3. /\ K \in Seq(Nat) /\ Len(K) = n + 2 /\ K[n + 2] = X /\ \A i \in 1..(n + 1) : K[i] = M[i]
  <2>1. (n + 1) + 1 = n + 2
    BY <1>1
  <2> QED
    BY <1>2, <2>1, AppendProperties
<1>4. DOMAIN K = 1..(n + 2)
  BY <1>3
<1> HIDE DEF K
<1>5. \A i \in 1..n : i \in 1..(n + 1)
  BY <1>1
<1>6. n + 1 \in 1..(n + 1)
  BY <1>1
<1> QED
  BY <1>1, <1>2, <1>3, <1>4, <1>5, <1>6 DEF K, M, n

(* K is L with E and X at its end. *)
EndsIn(K, L, E, X) ==
  /\ Len(L) \in Nat /\ DOMAIN L = 1..Len(L) /\ DOMAIN K = 1..(Len(L) + 2)
  /\ \A i \in 1..Len(L) : K[i] = L[i]
  /\ K[Len(L) + 1] = E /\ K[Len(L) + 2] = X

LEMMA BothAppended ==
  ASSUME NEW L \in Seq(Nat), NEW E \in Nat, NEW X \in Nat, NEW K, K = Append(Append(L, E), X)
  PROVE  EndsIn(K, L, E, X)
BY TwoAppended DEF EndsIn

(* The stage blocks are placed behind the other blocks of main. *)
LEMMA CloseLayout ==
  ASSUME NEW m, NEW map, NEW c, NEW d, NEW E, NEW X,
         LayoutOK(m, map, c, {E, X}), E # X, E \in Made(c), X \in Made(c), Made(d) = Made(c),
         NEW n \in Nat, DOMAIN c.layout = 1..n, DOMAIN d.layout = 1..(n + 2),
         \A i \in 1..n : d.layout[i] = c.layout[i],
         d.layout[n + 1] = E, d.layout[n + 2] = X,
         \A i \in Made(c) : d.blocks[i].fn = c.blocks[i].fn,
         NEW g \in Begun(m, map), NEW j \in DOMAIN c.layout, m[g].op = "function",
         c.layout[j] = At(m, map, g), c.blocks[E].fn = m[g].id, c.blocks[X].fn = m[g].id
  PROVE  LayoutOK(m, map, d, {})
<1> DEFINE L == c.layout
           K == d.layout
<1>1. \A i, k \in 1..n : L[i] = L[k] => i = k
  BY DEF LayoutOK
<1>2. \A i \in 1..n : L[i] \in Made(c) /\ L[i] # E /\ L[i] # X
  BY DEF LayoutOK
<1>3. \A k \in Made(c) : k # E /\ k # X => \E i \in 1..n : L[i] = k
  BY DEF LayoutOK
<1>4. \A i \in 1..n : \E k \in 1..i, f \in Begun(m, map) :
         m[f].op = "function" /\ c.blocks[L[i]].fn = m[f].id /\ L[k] = At(m, map, f)
  <2>1. \A i \in DOMAIN c.layout : \E k \in 1..i, f \in Begun(m, map) :
           /\ m[f].op = "function" /\ c.blocks[c.layout[i]].fn = m[f].id
           /\ c.layout[k] = At(m, map, f)
    BY DEF LayoutOK
  <2> QED
    BY SMTT(60), <2>1
<1>5. L[j] = At(m, map, g) /\ j \in 1..n
  OBVIOUS
<1>6. DOMAIN K = 1..(n + 2)
  OBVIOUS
<1>7. \A i \in 1..(n + 2) : i \in 1..n \/ i = n + 1 \/ i = n + 2
  OBVIOUS
<1>8. /\ n + 1 \in 1..(n + 2) /\ n + 2 \in 1..(n + 2) /\ n + 1 # n + 2
      /\ n + 1 \notin 1..n /\ n + 2 \notin 1..n
      /\ \A i \in 1..n : i \in 1..(n + 2)
  OBVIOUS
<1>9. /\ \A i \in 1..n : K[i] = L[i]
      /\ K[n + 1] = E /\ K[n + 2] = X
  OBVIOUS
<1> HIDE DEF L, K
<1>10. \A i, k \in DOMAIN K : K[i] = K[k] => i = k
  <2>1. \A i, k \in 1..(n + 2) : K[i] = K[k] => i = k
    <3> SUFFICES ASSUME NEW i \in 1..(n + 2), NEW k \in 1..(n + 2), K[i] = K[k] PROVE i = k
      OBVIOUS
    <3>1. CASE i \in 1..n /\ k \in 1..n
      BY <1>1, <1>9, <3>1
    <3>2. CASE i \in 1..n /\ k \notin 1..n
      BY <1>2, <1>7, <1>9, <3>2
    <3>3. CASE i \notin 1..n /\ k \in 1..n
      BY <1>2, <1>7, <1>9, <3>3
    <3>4. CASE i \notin 1..n /\ k \notin 1..n
      BY <1>7, <1>9, <3>4
    <3> QED
      BY <3>1, <3>2, <3>3, <3>4
  <2> QED
    BY <1>6, <2>1
<1>11. \A i \in DOMAIN K : K[i] \in Made(d)
  BY <1>2, <1>6, <1>7, <1>9
<1>12. \A k \in Made(d) : \E i \in DOMAIN K : K[i] = k
  <2> TAKE k \in Made(d)
  <2>1. CASE k # E /\ k # X
    <3>1. PICK i \in 1..n : L[i] = k
      BY <1>3, <2>1
    <3>2. i \in 1..(n + 2) /\ K[i] = k
      BY <1>8, <1>9, <3>1
    <3> QED
      BY <1>6, <3>2
  <2>2. CASE k = E
    BY <1>6, <1>8, <1>9, <2>2
  <2>3. CASE k = X
    BY <1>6, <1>8, <1>9, <2>3
  <2> QED
    BY <2>1, <2>2, <2>3
<1>13. \A i \in DOMAIN K : \E k \in 1..i, f \in Begun(m, map) :
           m[f].op = "function" /\ d.blocks[K[i]].fn = m[f].id /\ K[k] = At(m, map, f)
  <2> TAKE i \in DOMAIN K
  <2>1. CASE i \in 1..n
    <3>1. PICK k \in 1..i, f \in Begun(m, map) :
            m[f].op = "function" /\ c.blocks[L[i]].fn = m[f].id /\ L[k] = At(m, map, f)
      BY <1>4, <2>1
    <3>2. k \in 1..n
      BY <2>1, <3>1
    <3>3. K[i] = L[i] /\ K[k] = L[k] /\ d.blocks[L[i]].fn = c.blocks[L[i]].fn
      BY <1>2, <1>9, <2>1, <3>2
    <3> QED
      BY <3>1, <3>3
  <2>2. CASE i = n + 1 \/ i = n + 2
    <3>1. j \in 1..i
      BY <1>5, <2>2
    <3>2. K[j] = At(m, map, g) /\ d.blocks[K[i]].fn = m[g].id
      BY <1>5, <1>9, <2>2
    <3> QED
      BY <3>1, <3>2
  <2> QED
    BY <1>6, <1>7, <2>1, <2>2
<1> QED
  BY <1>10, <1>11, <1>12, <1>13 DEF LayoutOK, K

LEMMA LeaveGraph ==
  ASSUME NEW m, NEW map, NEW w \in DOMAIN m, NEW c, NEW d, NEW fn, NEW ep, NEW model, NEW T,
         Here(m, map, w, c), m[w].op = "functionEnd", NoFunction \notin ep,
         GraphOK(m, map, w, c, fn, ep), ModelOK(ep, model), Leaves(m, map, w, c, d, T),
         Open(c, c.insert) => c.insert \in T,
         \/ fn \notin ep /\ d.layout = c.layout
         \/ /\ fn \in ep /\ d.layout = Append(Append(c.layout, c.stageEpilogue), c.stageExit)
            /\ \A i \in Stages(c) : i \in T
  PROVE  GraphOK(m, map, w + 1, d, NoFunction, ep)
<1>1. /\ WordsOK(m, map, w, c, fn) /\ OwnersOK(m, map, w, c, fn) /\ DistinctOK(m, map, w)
      /\ CoverOK(m, map, w, c, ep) /\ LayoutOK(m, map, c, Unplaced(c, fn, ep))
      /\ TargetsOK(m, map, c) /\ OpenOK(m, map, w, c, Unplaced(c, fn, ep))
      /\ CodeOK(m, map, w, c, ep) /\ Valid(m)
  BY DEF GraphOK, Here
<1>2. \A v \in Begun(m, map) : At(m, map, v) \in Made(c)
  BY <1>1 DEF CoverOK
<1>3. Unplaced(d, NoFunction, ep) = {}
  BY DEF Unplaced
<1>4. /\ WordsOK(m, map, w + 1, d, NoFunction) /\ OwnersOK(m, map, w + 1, d, NoFunction)
      /\ CoverOK(m, map, w + 1, d, ep) /\ TargetsOK(m, map, d) /\ CodeOK(m, map, w + 1, d, ep)
  BY <1>1, <1>2, LeaveWords, LeaveOwners, LeaveCover, LeaveTargets, LeaveCode
<1>5. DistinctOK(m, map, w + 1)
  BY <1>1, WordDistinct DEF Outside, Branches
<1>6. OpenOK(m, map, w + 1, d, {})
  <2>1. \A i \in Unplaced(c, fn, ep) : i \in T
    BY DEF Unplaced
  <2> QED
    BY <1>1, <2>1, LeaveOpen
<1>7. LayoutOK(m, map, d, {})
  <2>0. Made(d) = Made(c) /\ \A i \in Made(c) : d.blocks[i].fn = c.blocks[i].fn
    BY DEF Leaves, Made
  <2>1. CASE fn \notin ep /\ d.layout = c.layout
    <3>1. Unplaced(c, fn, ep) = {}
      BY <2>1 DEF Unplaced
    <3>2. Stays(c, d)
      BY <2>1 DEF Leaves, Stays
    <3> QED
      BY <1>1, <3>1, <3>2, WordLayout
  <2>2. CASE /\ fn \in ep
             /\ d.layout = Append(Append(c.layout, c.stageEpilogue), c.stageExit)
    <3>1. Unplaced(c, fn, ep) = {c.stageEpilogue, c.stageExit}
      BY <2>2 DEF Unplaced, Stages
    <3>2. ~ Outside(m, w)
      BY <1>1, LeaveFacts
    <3>3. PICK g \in Begun(m, map), j \in DOMAIN c.layout :
            m[g].op = "function" /\ m[g].id = fn /\ c.layout[j] = At(m, map, g)
      BY <1>1, <3>2, EntryPlaced
    <3>4. MainRead(m, w, ep)
      BY <1>1, <2>2, <3>2 DEF WordsOK, MainRead
    <3>5. /\ c.stageEpilogue # c.stageExit /\ c.stageEpilogue \in Made(c) /\ c.stageExit \in Made(c)
          /\ c.blocks[c.stageEpilogue].fn = fn /\ c.blocks[c.stageExit].fn = fn
      BY <1>1, <2>2, <3>4 DEF CoverOK, Stages, ModelOK
    <3>6. c.stageEpilogue \in Nat /\ c.stageExit \in Nat /\ c.layout \in Seq(Nat)
      BY BuilderFields DEF Here
    <3> DEFINE n == Len(c.layout)
    <3>7. /\ n \in Nat /\ DOMAIN c.layout = 1..n /\ DOMAIN d.layout = 1..(n + 2)
          /\ \A i \in 1..n : d.layout[i] = c.layout[i]
          /\ d.layout[n + 1] = c.stageEpilogue /\ d.layout[n + 2] = c.stageExit
      <4>1. EndsIn(d.layout, c.layout, c.stageEpilogue, c.stageExit)
        BY <2>2, <3>6, BothAppended, Zenon
      <4> QED BY <4>1 DEF EndsIn
    <3>8. LayoutOK(m, map, c, {c.stageEpilogue, c.stageExit})
      BY <1>1, <3>1
    <3> HIDE DEF n
    <3> QED
      BY <2>0, <3>3, <3>5, <3>7, <3>8, CloseLayout
  <2> QED
    BY <2>1, <2>2
<1> QED
  BY <1>3, <1>4, <1>5, <1>6, <1>7 DEF GraphOK

(* leaveFunction, of a function. *)
LEMMA LeaveFills ==
  ASSUME NEW c \in BuilderType, c.insert \in Made(c)
  PROVE  LET d == LeaveFunction(c, FALSE)
         IN  /\ Open(c, c.insert) => /\ Fills(c, d)
                                     /\ d.blocks[c.insert].code = c.blocks[c.insert].code
                                     /\ d.blocks[c.insert].term \in {Ret, Unreachable}
             /\ ~ Open(c, c.insert) => d = c
<1>1. Terminated(c) <=> ~ Open(c, c.insert)
  BY DEF Terminated, HasTerminator, Open
<1>2. CASE ~ Open(c, c.insert)
  BY <1>1, <1>2 DEF LeaveFunction
<1>3. CASE Open(c, c.insert)
  <2>1. PICK t \in {Ret, Unreachable} : LeaveFunction(c, FALSE) = Terminate(c, t)
    BY <1>1, <1>3 DEF LeaveFunction, MakeReturn
  <2>2. t \in TermType
    BY TermsType
  <2> DEFINE d == Terminate(c, t)
  <2>3. Fills(c, d) /\ d.blocks[c.insert] = [c.blocks[c.insert] EXCEPT !.term = t]
    BY <1>3, <2>2, TerminateFills
  <2>4. c.blocks[c.insert] \in BlockType
    BY BuilderFields
  <2> HIDE DEF d
  <2>5. d.blocks[c.insert].code = c.blocks[c.insert].code /\ d.blocks[c.insert].term = t
    BY <2>3, <2>4 DEF BlockType
  <2> QED
    BY <1>3, <2>1, <2>3, <2>5 DEF d
<1> QED
  BY <1>2, <1>3

(* closeMain *)
LEMMA CloseMade ==
  ASSUME NEW c \in BuilderType, Open(c, c.stageEpilogue), Open(c, c.stageExit),
         c.stageEpilogue # c.stageExit
  PROVE  LET d == CloseMain(c)
         IN  /\ d \in BuilderType /\ Len(d.blocks) = Len(c.blocks) /\ SameStage(c, d)
             /\ d.layout = Append(Append(c.layout, c.stageEpilogue), c.stageExit)
             /\ \A i \in Made(c) : /\ d.blocks[i].fn = c.blocks[i].fn
                                   /\ i \notin Stages(c) => d.blocks[i] = c.blocks[i]
             /\ d.blocks[c.stageEpilogue].term = Br(c.stageExit)
             /\ d.blocks[c.stageExit].term = Ret
<1> DEFINE E == c.stageEpilogue
           X == c.stageExit
           c1 == SetInsertPoint(c, E)
           c2 == Emit(c1, CopyOut)
           c3 == Terminate(c2, Br(X))
           c4 == SetInsertPoint(c3, X)
           c5 == Terminate(c4, Ret)
           d  == PushBack(PushBack(c5, E), X)
<1>0. CloseMain(c) = d
  BY DEF CloseMain
<1>1. E \in Made(c) /\ X \in Made(c) /\ E \in Nat /\ X \in Nat /\ E # X
  BY BuilderFields DEF Open
<1>2. CopyOut \in EventType /\ Br(X) \in TermType /\ Ret \in TermType
  BY <1>1, TermsType, EventsType
<1>3. /\ d \in BuilderType /\ SameStage(c, d) /\ Len(d.blocks) = Len(c.blocks)
  <2>1. Changes(c, CloseMain(c), {E, X})
    BY CloseMainChanges
  <2>2. SameStage(c, CloseMain(c)) /\ Len(CloseMain(c).blocks) = Len(c.blocks)
    BY CloseMainChanges
  <2> HIDE DEF d
  <2> QED
    BY <1>0, <2>1, <2>2 DEF Changes
<1>4. /\ Changes(c, c1, {}) /\ c1.insert = E /\ c1.blocks = c.blocks /\ c1.layout = c.layout
  BY <1>1, SetInsertChanges
<1> HIDE DEF E, X, c1, c2, c3, c4, c5
<1>5. Open(c1, c1.insert) /\ c1 \in BuilderType
  BY <1>4 DEF Open, Made, Changes, E
<1>6. Fills(c1, c2) /\ Open(c2, c2.insert) /\ c2 \in BuilderType
  BY <1>2, <1>5, EmitFills DEF c2, Fills, Stays
<1>7. /\ Fills(c2, c3) /\ c3 \in BuilderType
      /\ c3.blocks[c2.insert] = [c2.blocks[c2.insert] EXCEPT !.term = Br(X)]
  BY <1>2, <1>6, TerminateFills DEF c3, Fills, Stays
<1>8. Fills(c1, c3) /\ c2.insert = E
  BY <1>4, <1>6, <1>7, FillsThen DEF Fills
<1>9. c3.blocks[E].term = Br(X)
  <2>1. c2.blocks[E] \in BlockType
    <3>1. E \in Made(c2)
      BY <1>6, <1>8 DEF Open
    <3> QED
      BY <1>6, <3>1, BuilderFields
  <2>2. c3.blocks[E] = [c2.blocks[E] EXCEPT !.term = Br(X)]
    BY <1>7, <1>8
  <2> QED
    BY <2>1, <2>2 DEF BlockType
<1>10. /\ Made(c1) = Made(c) /\ Made(c3) = Made(c) /\ c3.layout = c.layout
  BY <1>4, <1>8 DEF Fills, Stays, Made
<1>11. \A i \in Made(c) : /\ c3.blocks[i].fn = c.blocks[i].fn
                          /\ i # E => c3.blocks[i] = c.blocks[i]
  BY <1>4, <1>8, <1>10 DEF Fills, Stays
<1>12. Changes(c3, c4, {}) /\ c4.insert = X /\ c4.blocks = c3.blocks /\ c4.layout = c3.layout
  BY <1>1, <1>7, SetInsertChanges DEF c4
<1>13. Open(c4, c4.insert) /\ c4 \in BuilderType /\ Made(c4) = Made(c)
  BY <1>1, <1>10, <1>11, <1>12 DEF Open, Made, Changes, X
<1>14. /\ Fills(c4, c5) /\ c5.blocks[X] = [c4.blocks[X] EXCEPT !.term = Ret]
  BY <1>2, <1>12, <1>13, TerminateFills DEF c5
<1>15. c5.blocks[X].term = Ret
  <2>1. c4.blocks[X] \in BlockType
    BY <1>1, <1>13, BuilderFields
  <2> QED
    BY <1>14, <2>1 DEF BlockType
<1>16. /\ c5 \in BuilderType /\ c5.layout = c.layout
       /\ \A i \in Made(c) : /\ c5.blocks[i].fn = c3.blocks[i].fn
                             /\ i # X => c5.blocks[i] = c3.blocks[i]
  BY <1>10, <1>12, <1>13, <1>14 DEF Fills, Stays
<1>17. d.blocks = c5.blocks /\ d.layout = Append(Append(c.layout, E), X)
  BY <1>16 DEF PushBack, BuilderType
<1> HIDE DEF d
<1>18. d.blocks[E].term = Br(X) /\ d.blocks[X].term = Ret
  BY <1>1, <1>9, <1>15, <1>16, <1>17
<1>19. \A i \in Made(c) : /\ d.blocks[i].fn = c.blocks[i].fn
                          /\ i # E /\ i # X => d.blocks[i] = c.blocks[i]
  BY <1>11, <1>16, <1>17
<1> QED
  BY <1>0, <1>3, <1>17, <1>18, <1>19 DEF Stages, E, X

(* At the end of main its last block has ended. *)
LEMMA LastBlock ==
  ASSUME NEW m, NEW map, NEW w \in DOMAIN m, NEW c, NEW fn, NEW ep, Here(m, map, w, c),
         m[w].op = "functionEnd", GraphOK(m, map, w, c, fn, ep),
         InsertOK(m, map, w, c, fn), c.insert \notin Stages(c), Open(c, c.insert)
  PROVE  fn \notin ep
<1>1. /\ w \in Nat /\ w >= 1 /\ w <= Len(m) + 1 /\ ~ Outside(m, w) /\ ~ InABlock(m, w)
  BY LeaveFacts DEF Here
<1>2. c.insert \in Made(c) /\ Valid(m) /\ c.blocks[c.insert].fn = fn
  BY <1>1 DEF Here, GraphOK, WordsOK
<1>3. PICK v \in Begun(m, map) : At(m, map, v) = c.insert
  BY <1>2 DEF GraphOK, CoverOK
<1>4. v \in Nat /\ v >= 1 /\ m[v].op \in {"function", "label"}
  BY <1>2, BegunFacts
<1>5. v < w
  <2>1. v \notin Pending(m, map, w)
    BY <1>3 DEF InsertOK
  <2> QED
    BY <1>1, <1>2, <1>4, <2>1, PendingBegun
<1>6. PICK u \in 1..(w - 1) : m[u].op = "label" /\ At(m, map, u) = c.insert
  <2>1. CASE m[v].op = "label"
    BY <1>1, <1>3, <1>4, <1>5, <2>1
  <2>2. CASE m[v].op = "function"
    <3>1. v \in 1..(w - 1) /\ v \in DOMAIN m
      BY <1>1, <1>2, <1>4, <1>5, BegunFacts
    <3>2. v + 1 \in Begun(m, map) /\ At(m, map, v + 1) = c.insert
      BY <1>3, <2>2, <3>1 DEF GraphOK, DistinctOK
    <3>3. m[v + 1].op = "label"
      BY <1>2, <2>2, <3>1, NextWord, Following
    <3>4. v + 1 # w
      BY <3>3
    <3> QED
      BY <1>1, <1>4, <1>5, <3>2, <3>3, <3>4
  <2> QED
    BY <1>4, <2>1, <2>2
<1>7. c.blocks[At(m, map, u)].fn \notin ep
  <2>1. CodeOK(m, map, w, c, ep)
    BY DEF GraphOK
  <2>2. Open(c, At(m, map, u))
    BY <1>6
  <2> QED
    BY <1>1, <1>2, <1>6, <2>1, <2>2, OnlyKill
<1> QED
  BY <1>2, <1>6, <1>7

LEMMA FunctionEndGraph ==
  ASSUME SInv, GInv, OpFunctionEnd
  PROVE  GInv'
<1>1. /\ phase = "translating" /\ word <= Len(spirv) /\ spirv[word].op = "functionEnd"
      /\ word' = word + 1 /\ commonMap' = commonMap /\ b' = LeaveFunction(b, InEntryPoint)
      /\ currentFunction' = NoFunction
      /\ UNCHANGED <<spirv, entryPoint, currentModel, phase>>
  BY DEF OpFunctionEnd, Reading, Instruction, GoOn
<1>2. /\ Here(spirv, commonMap, word, b) /\ ModelOK(entryPoint, currentModel)
      /\ GraphOK(spirv, commonMap, word, b, currentFunction, entryPoint)
      /\ InsertOK(spirv, commonMap, word, b, currentFunction)
      /\ word \in DOMAIN spirv /\ Valid(spirv) /\ b \in BuilderType
  BY <1>1, GraphNow DEF Here
<1>3. STypes /\ Running /\ NoFunction \notin entryPoint
  BY <1>1, IdsAssumption DEF SInv, STypes, NoFunction
<1>4. b.insert \in Made(b) /\ ~ Outside(spirv, word)
  BY <1>1, <1>2, LeaveFacts DEF Here
<1>5. ASSUME NEW v \in Begun(spirv, commonMap), At(spirv, commonMap, v) = b.insert PROVE v < word
  <2>1. v \in Nat /\ word \in Nat /\ word >= 1
    BY <1>1, <1>2, LeaveFacts, BegunFacts
  <2>2. v \notin Pending(spirv, commonMap, word)
    BY <1>1, <1>2, <1>5 DEF InsertOK
  <2> QED
    BY <1>2, <2>1, <2>2, PendingBegun
<1>6. CASE currentFunction \notin entryPoint
  <2>1. b' = LeaveFunction(b, FALSE)
    <3>1. InEntryPoint = FALSE
      BY <1>6 DEF InEntryPoint
    <3> HIDE DEF InEntryPoint
    <3> QED
      BY <1>1, <3>1
  <2> DEFINE T == IF Open(b, b.insert) THEN {b.insert} ELSE {}
  <2>2. /\ Open(b, b.insert) => /\ Fills(b, b')
                                /\ b'.blocks[b.insert].code = b.blocks[b.insert].code
                                /\ b'.blocks[b.insert].term \in {Ret, Unreachable}
        /\ ~ Open(b, b.insert) => b' = b
    BY <1>2, <1>4, <2>1, LeaveFills
  <2>3. Stays(b, b')
    BY <1>2, <2>2 DEF Stays, Fills, SameStage
  <2>4. \A t \in {Ret, Unreachable} : t.kind \notin {"none", "double"} /\ t.to = <<>>
    BY DEF Ret, Unreachable, Term
  <2>5. \A i \in Made(b) : i \notin T => b'.blocks[i] = b.blocks[i]
    BY <2>2 DEF Fills
  <2>6. \A i \in T : Open(b, i) /\ i = b.insert
    OBVIOUS
  <2>7. Open(b, b.insert) => b.insert \in T
    OBVIOUS
  <2> HIDE DEF T
  <2>8. \A i \in T : b'.blocks[i].term.kind \notin {"none", "double"} /\ b'.blocks[i].term.to = <<>>
    BY <2>2, <2>4, <2>6
  <2>9. \A v \in Begun(spirv, commonMap) : At(spirv, commonMap, v) \in T =>
          /\ v < word
          /\ b'.blocks[At(spirv, commonMap, v)].code = b.blocks[At(spirv, commonMap, v)].code
    BY <1>5, <2>2, <2>6
  <2>10. Leaves(spirv, commonMap, word, b, b', T)
    BY <2>3, <2>5, <2>6, <2>8, <2>9 DEF Leaves, Stays
  <2>11. b'.layout = b.layout
    BY <2>3 DEF Stays
  <2>12. GraphOK(spirv, commonMap, word + 1, b', NoFunction, entryPoint)
    BY <1>1, <1>2, <1>3, <1>6, <2>7, <2>10, <2>11, LeaveGraph
  <2> QED
    BY <1>1, <1>2, <2>12, GraphNext
<1>7. CASE currentFunction \in entryPoint
  <2>1. StageOK(spirv, commonMap, word, b)
    BY <1>3, <1>7 DEF Running
  <2>2. /\ Open(b, b.stageEpilogue) /\ Open(b, b.stageExit) /\ b.stageEpilogue # b.stageExit
        /\ b.insert \notin Stages(b)
    BY <2>1 DEF StageOK, Stages
  <2>3. ~ Open(b, b.insert)
    BY <1>1, <1>2, <1>7, <2>2, LastBlock
  <2>4. b' = CloseMain(b)
    BY <1>1, <1>4, <1>7, <2>3 DEF LeaveFunction, InEntryPoint, Terminated, HasTerminator, Open
  <2> DEFINE T == Stages(b)
  <2>5. /\ b' \in BuilderType /\ Len(b'.blocks) = Len(b.blocks) /\ SameStage(b, b')
        /\ b'.layout = Append(Append(b.layout, b.stageEpilogue), b.stageExit)
        /\ \A i \in Made(b) : /\ b'.blocks[i].fn = b.blocks[i].fn
                              /\ i \notin T => b'.blocks[i] = b.blocks[i]
        /\ b'.blocks[b.stageEpilogue].term = Br(b.stageExit)
        /\ b'.blocks[b.stageExit].term = Ret
    BY <1>2, <2>2, <2>4, CloseMade
  <2>6. \A i \in Stages(b) : /\ i \in Made(b) /\ b.blocks[i].fn = b.blocks[b.insert].fn
                             /\ \A g \in Begun(spirv, commonMap) : At(spirv, commonMap, g) # i
    BY <1>2, <1>4, <1>7, StageTarget
  <2>7. /\ \A k \in DOMAIN Br(b.stageExit).to : Br(b.stageExit).to[k] = b.stageExit
        /\ Ret.to = <<>> /\ Br(b.stageExit).kind = "br" /\ Ret.kind = "ret"
    BY DEF Br, Ret, Term
  <2>8. b.stageExit \in Stages(b) /\ b.stageEpilogue \in Stages(b)
    BY DEF Stages
  <2>9. ASSUME NEW i \in T
        PROVE  /\ Open(b, i) /\ b'.blocks[i].term.kind \notin {"none", "double"}
               /\ \A k \in DOMAIN b'.blocks[i].term.to :
                    /\ b'.blocks[i].term.to[k] \in Made(b)
                    /\ b.blocks[b'.blocks[i].term.to[k]].fn = b.blocks[i].fn
                    /\ \A g \in Begun(spirv, commonMap) : spirv[g].op = "function" =>
                         At(spirv, commonMap, g) # b'.blocks[i].term.to[k]
    <3>0. Open(b, i) /\ b.stageExit \in Made(b) /\ b.blocks[b.stageExit].fn = b.blocks[i].fn
          /\ \A g \in Begun(spirv, commonMap) : At(spirv, commonMap, g) # b.stageExit
      <4>1. Open(b, i)
        BY <2>2 DEF Stages
      <4>2. i \in Stages(b)
        OBVIOUS
      <4> QED
        BY <2>6, <2>8, <4>1, <4>2
    <3>1. CASE i = b.stageEpilogue
      <4>1. b'.blocks[i].term = Br(b.stageExit)
        BY <2>5, <3>1
      <4>2. \A k \in DOMAIN b'.blocks[i].term.to : b'.blocks[i].term.to[k] = b.stageExit
        BY <2>7, <4>1
      <4>3. b'.blocks[i].term.kind = "br"
        BY <2>7, <4>1
      <4> QED
        BY <3>0, <4>2, <4>3
    <3>2. CASE i = b.stageExit
      <4>1. b'.blocks[i].term = Ret
        BY <2>5, <3>2
      <4>2. b'.blocks[i].term.to = <<>> /\ b'.blocks[i].term.kind = "ret"
        BY <2>7, <4>1
      <4> QED
        BY <3>0, <4>2
    <3> QED
      BY <3>1, <3>2 DEF Stages
  <2>10. Leaves(spirv, commonMap, word, b, b', T)
    BY <1>2, <2>5, <2>6, <2>9 DEF Leaves
  <2>11. GraphOK(spirv, commonMap, word + 1, b', NoFunction, entryPoint)
    BY <1>1, <1>2, <1>3, <1>7, <2>3, <2>5, <2>10, LeaveGraph
  <2> QED
    BY <1>1, <1>2, <2>11, GraphNext
<1> QED
  BY <1>6, <1>7

-----------------------------------------------------------------------------
(* The other words. *)

(* In front of all functions nothing has been made. *)
LEMMA FreshGraph ==
  ASSUME NEW m, NEW map, NEW w \in Nat, NEW ep, Valid(m), w >= 1,
         \A id \in Ids : map[id] = Nothing, \A u \in 1..(w - 1) : m[u].op = "entryPoint",
         Outside(m, w)
  PROVE  GraphOK(m, map, w, EmptyBuilder, NoFunction, ep)
<1> DEFINE c == EmptyBuilder
<1>1. Begun(m, map) = {}
  <2>1. ASSUME NEW v \in Begun(m, map) PROVE FALSE
    BY BegunFacts DEF At
  <2> QED
    BY <2>1
<1>2. /\ Made(c) = {} /\ DOMAIN c.layout = {} /\ c.stageEpilogue = 0 /\ c.stageExit = 0
      /\ c.blocks = <<>>
  <2>1. c.blocks = <<>> /\ c.layout = <<>> /\ c.stageEpilogue = 0 /\ c.stageExit = 0
    BY DEF EmptyBuilder
  <2>2. Len(<<>>) = 0 /\ 1..0 = {} /\ DOMAIN <<>> = {}
    OBVIOUS
  <2> QED
    BY <2>1, <2>2 DEF Made
<1> HIDE DEF c
<1>3. Pending(m, map, w) = {}
  BY <1>1, PendingBegun
<1>4. ~ InABlock(m, w)
  BY DEF Outside, InABlock, InBlock, Terminators, Branches
<1>5. \A v \in 1..(w - 1) : /\ m[v].op \notin Definitions \union Branches
                           /\ m[v].op # "call" /\ m[v].op # "function" /\ m[v].op # "label"
  BY DEF Definitions, Branches
<1>6. WordsOK(m, map, w, c, NoFunction)
  BY DEF WordsOK, c
<1>7. OwnersOK(m, map, w, c, NoFunction)
  BY <1>1 DEF OwnersOK
<1>8. DistinctOK(m, map, w)
  BY <1>1, <1>5 DEF DistinctOK
<1>9. CoverOK(m, map, w, c, ep)
  BY <1>1, <1>2, <1>5 DEF CoverOK, MainRead, Nothing
<1>10. LayoutOK(m, map, c, Unplaced(c, NoFunction, ep))
  BY <1>2 DEF LayoutOK
<1>11. TargetsOK(m, map, c) /\ OpenOK(m, map, w, c, Unplaced(c, NoFunction, ep))
  BY <1>2 DEF TargetsOK, OpenOK
<1>12. CodeOK(m, map, w, c, ep)
  BY <1>3, <1>4, <1>5 DEF CodeOK
<1> QED
  BY <1>6, <1>7, <1>8, <1>9, <1>10, <1>11, <1>12 DEF GraphOK, c

LEMMA EntryPointGraph ==
  ASSUME SInv, GInv, OpEntryPoint
  PROVE  GInv'
<1>1. /\ phase = "translating" /\ word <= Len(spirv) /\ spirv[word].op = "entryPoint"
      /\ word' = word + 1 /\ entryPoint' = entryPoint \union {spirv[word].id}
      /\ UNCHANGED <<spirv, commonMap, currentFunction, b>>
      /\ \/ currentModel /\ phase' = "unsupported"
         \/ ~ currentModel /\ currentModel' = TRUE /\ phase' = phase
  BY DEF OpEntryPoint, Reading, Instruction, GoOn, UnsupportedFunctionality
<1>2. /\ Here(spirv, commonMap, word, b) /\ ModelOK(entryPoint, currentModel)
      /\ GraphOK(spirv, commonMap, word, b, currentFunction, entryPoint)
      /\ word \in DOMAIN spirv /\ Valid(spirv) /\ word \in Nat /\ word >= 1
  BY <1>1, GraphNow DEF Here
<1>3. CASE phase' = "unsupported"
  BY <1>3 DEF GInv
<1>4. CASE ~ currentModel /\ currentModel' = TRUE /\ phase' = phase
  <2>1. ModelOK(entryPoint, currentModel)'
    BY <1>1, <1>2, <1>4 DEF ModelOK
  <2>2. /\ b = EmptyBuilder /\ \A id \in Ids : commonMap[id] = Nothing
        /\ \A u \in 1..(word - 1) : spirv[u].op = "entryPoint"
    BY <1>1, <1>2 DEF GraphOK, WordsOK
  <2>3. currentFunction = NoFunction
    BY <1>1, <1>2 DEF GraphOK, WordsOK, Outside
  <2>4. \A u \in 1..((word + 1) - 1) : spirv[u].op = "entryPoint"
    <3>1. \A u \in 1..((word + 1) - 1) : u \in 1..(word - 1) \/ u = word
      BY <1>2
    <3> QED
      BY <1>1, <2>2, <3>1
  <2>5. Outside(spirv, word + 1)
    BY <1>1, <1>2, NextWord, Following DEF Outside
  <2>6. word + 1 \in Nat /\ word + 1 >= 1
    BY <1>2
  <2>7. GraphOK(spirv, commonMap, word + 1, b, currentFunction, entryPoint')
    BY <1>2, <2>2, <2>3, <2>4, <2>5, <2>6, FreshGraph
  <2> QED
    BY <1>1, <1>4, <2>1, <2>7 DEF GInv
<1> QED
  BY <1>1, <1>3, <1>4

LEMMA StartsGraph == Init => GInv
<1> SUFFICES ASSUME Init PROVE GInv
  OBVIOUS
<1>1. /\ Valid(spirv) /\ word = 1 /\ entryPoint = {} /\ b = EmptyBuilder
      /\ currentFunction = NoFunction /\ phase = "translating"
      /\ \A id \in Ids : commonMap[id] = Nothing
  BY ModulesAssumption DEF Init
<1>2. Outside(spirv, word)
  BY <1>1 DEF Outside, Valid
<1>3. \A u \in 1..(word - 1) : FALSE
  BY <1>1
<1>4. GraphOK(spirv, commonMap, word, b, currentFunction, entryPoint)
  BY <1>1, <1>2, <1>3, FreshGraph
<1> QED
  BY <1>1, <1>4 DEF GInv, ModelOK

LEMMA NextGraph ==
  ASSUME SInv, GInv, Next
  PROVE  GInv'
<1>1. CASE OpUnsupported
  BY <1>1 DEF OpUnsupported, UnsupportedFunctionality, GInv
<1>2. CASE EndOfModule
  <2>1. /\ phase = "translating" /\ phase' = "translated" /\ word > Len(spirv)
        /\ UNCHANGED <<spirv, word, commonMap, entryPoint, currentModel, currentFunction, b>>
    BY <1>2 DEF EndOfModule
  <2>2. word = Len(spirv) + 1
    BY <2>1, ModuleValid DEF SInv, STypes
  <2> QED
    BY <2>1, <2>2 DEF GInv
<1> QED
  BY <1>1, <1>2, EntryPointGraph, FunctionGraph, FunctionEndGraph, LabelStepGraph, StmtGraph,
     CallGraph, BranchGraph, KillGraph, ReturnGraph DEF Next

LEMMA GInvAlways == Spec => []GInv
<1>1. GInv /\ UNCHANGED vars => GInv'
  BY DEF GInv, vars
<1>2. SInv /\ GInv /\ [Next]_vars => GInv'
  BY <1>1, NextGraph
<1> QED
  BY <1>2, StartsGraph, SInvAlways, PTL DEF Spec

-----------------------------------------------------------------------------
(* At the end of the module. *)

LEMMA AtEnd ==
  ASSUME SInv, GInv, Done
  PROVE  /\ Valid(spirv) /\ word \in Nat /\ Len(spirv) \in Nat /\ word = Len(spirv) + 1
         /\ DOMAIN spirv = 1..Len(spirv) /\ DOMAIN spirv = 1..(word - 1)
         /\ b \in BuilderType /\ commonMap \in [Ids -> 0..Len(b.blocks)]
         /\ ~ InABlock(spirv, word) /\ Pending(spirv, commonMap, word) = {}
         /\ GraphOK(spirv, commonMap, word, b, currentFunction, entryPoint)
         /\ ModelOK(entryPoint, currentModel)
         /\ Unplaced(b, currentFunction, entryPoint) = {}
         /\ \A v \in DOMAIN spirv : spirv[v].op \in Definitions => v \in Begun(spirv, commonMap)
<1>1. /\ Valid(spirv) /\ word \in Nat /\ Len(spirv) \in Nat /\ word = Len(spirv) + 1
      /\ DOMAIN spirv = 1..Len(spirv)
      /\ b \in BuilderType /\ commonMap \in [Ids -> 0..Len(b.blocks)]
      /\ GraphOK(spirv, commonMap, word, b, currentFunction, entryPoint)
      /\ ModelOK(entryPoint, currentModel)
      /\ NoFunction \notin entryPoint
  BY ModuleValid, IdsAssumption DEF SInv, STypes, GInv, Done, NoFunction
<1>2. word \notin DOMAIN spirv /\ DOMAIN spirv = 1..(word - 1) /\ word..Len(spirv) = {}
  BY <1>1
<1>3. Unplaced(b, currentFunction, entryPoint) = {}
  BY <1>1, <1>2 DEF GraphOK, WordsOK, Outside, Unplaced
<1>4. Pending(spirv, commonMap, word) = {} /\ ~ InABlock(spirv, word)
  BY <1>2 DEF Pending, InABlock
<1>5. \A v \in DOMAIN spirv : spirv[v].op \in Definitions => v \in Begun(spirv, commonMap)
  BY <1>1, <1>2 DEF GraphOK, DistinctOK
<1> QED
  BY <1>1, <1>2, <1>3, <1>4, <1>5

(* Every block has ended. *)
LEMMA AllEnded ==
  ASSUME SInv, GInv, Done, NEW i \in Made(b)
  PROVE  b.blocks[i].term.kind \notin {"none", "double"}
<1>1. /\ Pending(spirv, commonMap, word) = {} /\ word \notin DOMAIN spirv
      /\ GraphOK(spirv, commonMap, word, b, currentFunction, entryPoint)
      /\ Unplaced(b, currentFunction, entryPoint) = {}
  <2>1. /\ Pending(spirv, commonMap, word) = {}
        /\ GraphOK(spirv, commonMap, word, b, currentFunction, entryPoint)
        /\ Unplaced(b, currentFunction, entryPoint) = {}
    BY AtEnd
  <2>2. word \in Nat /\ Len(spirv) \in Nat /\ word = Len(spirv) + 1
        /\ DOMAIN spirv = 1..Len(spirv)
    BY AtEnd
  <2> QED
    BY <2>1, <2>2
<1>2. OpenOK(spirv, commonMap, word, b, {}) /\ TargetsOK(spirv, commonMap, b)
  BY <1>1 DEF GraphOK
<1>3. ~ Open(b, i)
  BY <1>1, <1>2 DEF OpenOK
<1> QED
  BY <1>2, <1>3 DEF Open, TargetsOK

(* The words the module's own definitions choose. *)
LEMMA WordOfLabel ==
  ASSUME NEW l \in Labels
  PROVE  WordOf(l) \in WordsOf("label") /\ spirv[WordOf(l)].id = l
<1>1. \E w \in WordsOf("label") : spirv[w].id = l
  BY DEF Labels
<1> QED
  BY <1>1 DEF WordOf

LEMMA FunctionIs ==
  ASSUME Valid(spirv), NEW v \in DOMAIN spirv, NEW f \in DOMAIN spirv, Behind(spirv, f, v)
  PROVE  FunctionAt(v) = spirv[f].id
<1>1. v \in Nat /\ f \in Nat /\ f <= v /\ f \in WordsOf("function")
  BY DEF Behind, WordsOf, Valid
<1>2. \A u \in WordsOf("function") : u \in Nat
  BY DEF WordsOf, Valid
<1>3. ASSUME NEW u \in WordsOf("function"), u <= v PROVE u <= f
  <2>1. spirv[u].op = "function" /\ u \in Nat
    BY <1>2 DEF WordsOf
  <2>2. u \notin (f + 1)..v
    BY <2>1 DEF Behind
  <2> QED
    BY <1>1, <1>3, <2>1, <2>2
<1> DEFINE x == Latest("function", v)
<1>4. x \in WordsOf("function") /\ x <= v /\ \A u \in WordsOf("function") : u <= v => u <= x
  BY <1>1, <1>3 DEF Latest
<1> HIDE DEF x
<1>5. x <= f /\ f <= x /\ x \in Nat
  BY <1>1, <1>2, <1>3, <1>4
<1>6. x = f
  BY <1>1, <1>5
<1> QED
  BY <1>6 DEF FunctionAt, x

LEMMA LastIs ==
  ASSUME Valid(spirv), NEW l \in Labels, NEW e \in DOMAIN spirv, e > WordOf(l),
         spirv[e].op \in Terminators, NoEnd(spirv, WordOf(l), e)
  PROVE  LastWord(l) = e
<1> DEFINE v == WordOf(l)
           x == LastWord(l)
<1>1. v \in DOMAIN spirv /\ spirv[v].op = "label" /\ v \in Nat /\ e \in Nat
  BY WordOfLabel DEF WordsOf, Valid
<1>2. \A u \in v..(e - 1) : spirv[u].op \notin Terminators
  <2>1. spirv[v].op \notin Terminators
    BY <1>1 DEF Terminators, Branches
  <2>2. \A u \in v..(e - 1) : u = v \/ u \in (v + 1)..(e - 1)
    BY <1>1
  <2> QED
    BY <2>1, <2>2 DEF NoEnd
<1>3. /\ x \in DOMAIN spirv /\ x > v /\ spirv[x].op \in Terminators
      /\ \A u \in v..(x - 1) : spirv[u].op \notin Terminators
  BY <1>2 DEF LastWord
<1> HIDE DEF v, x
<1>4. x \in Nat
  BY <1>3 DEF Valid
<1>5. ~ (x < e)
  BY <1>1, <1>2, <1>3, <1>4
<1>6. e > v
  BY DEF v
<1>7. ~ (x > e)
  BY <1>1, <1>3, <1>4, <1>6
<1>8. x = e
  BY <1>1, <1>4, <1>5, <1>7
<1> QED
  BY <1>8 DEF x

LEMMA FirstLabelIs ==
  ASSUME Valid(spirv), NEW w \in WordsOf("function")
  PROVE  FirstLabel(w) = w + 1
<1>1. w \in DOMAIN spirv /\ spirv[w].op = "function" /\ w \in Nat
  BY DEF WordsOf, Valid
<1>2. w + 1 \in WordsOf("label")
  BY <1>1, NextWord, Following DEF WordsOf
<1>3. \A u \in WordsOf("label") : u \in Nat
  BY DEF WordsOf, Valid
<1>4. \A u \in WordsOf("label") : u > w => u >= w + 1
  BY <1>1, <1>3
<1> DEFINE x == FirstLabel(w)
<1>5. w + 1 > w
  BY <1>1
<1>6. x \in WordsOf("label") /\ x > w /\ \A u \in WordsOf("label") : u > w => u >= x
  BY <1>2, <1>4, <1>5 DEF FirstLabel
<1> HIDE DEF x
<1>7. x >= w + 1 /\ w + 1 >= x /\ x \in Nat
  BY <1>2, <1>3, <1>4, <1>5, <1>6
<1>8. x = w + 1
  BY <1>1, <1>7
<1> QED
  BY <1>8 DEF x

(* The block of a label. *)
LEMMA LabelBlock ==
  ASSUME SInv, GInv, Done, NEW l \in Labels
  PROVE  /\ WordOf(l) \in 1..(word - 1) /\ spirv[WordOf(l)].op = "label"
         /\ spirv[WordOf(l)].id = l /\ l \in Ids
         /\ WordOf(l) \in Begun(spirv, commonMap)
         /\ At(spirv, commonMap, WordOf(l)) = commonMap[l]
         /\ commonMap[l] \in Made(b) /\ commonMap[l] \notin Stages(b)
<1> DEFINE v == WordOf(l)
<1>1. v \in DOMAIN spirv /\ spirv[v].op = "label" /\ spirv[v].id = l
  BY WordOfLabel DEF WordsOf
<1> HIDE DEF v
<1>2. v \in 1..(word - 1) /\ v \in Begun(spirv, commonMap)
  <2>1. DOMAIN spirv = 1..(word - 1)
        /\ \A u \in DOMAIN spirv : spirv[u].op \in Definitions => u \in Begun(spirv, commonMap)
    BY AtEnd
  <2> QED
    BY <1>1, <2>1 DEF Definitions
<1>3. CoverOK(spirv, commonMap, word, b, entryPoint) /\ Valid(spirv)
  <2>1. GraphOK(spirv, commonMap, word, b, currentFunction, entryPoint) /\ Valid(spirv)
    BY AtEnd
  <2> QED
    BY <2>1 DEF GraphOK
<1>4. At(spirv, commonMap, v) \in Made(b) /\ At(spirv, commonMap, v) \notin Stages(b)
  BY <1>2, <1>3 DEF CoverOK
<1>5. l \in Ids
  BY <1>1, <1>2, <1>3, BegunFacts
<1> QED
  BY <1>1, <1>2, <1>4, <1>5 DEF v, At

LEMMA LabelsDiffer ==
  ASSUME SInv, GInv, Done, NEW l \in Labels, NEW m \in Labels, commonMap[l] = commonMap[m]
  PROVE  l = m
<1> DEFINE u == WordOf(l)
           v == WordOf(m)
<1>1. /\ u \in 1..(word - 1) /\ v \in 1..(word - 1)
      /\ u \in Begun(spirv, commonMap) /\ v \in Begun(spirv, commonMap)
      /\ spirv[u].op = "label" /\ spirv[u].id = l /\ spirv[v].op = "label" /\ spirv[v].id = m
      /\ At(spirv, commonMap, u) = At(spirv, commonMap, v)
  BY LabelBlock
<1> HIDE DEF u, v
<1>2. DistinctOK(spirv, commonMap, word)
  <2>1. GraphOK(spirv, commonMap, word, b, currentFunction, entryPoint)
    BY AtEnd
  <2> QED
    BY <2>1 DEF GraphOK
<1>3. ~ (u < v) /\ ~ (v < u)
  BY <1>1, <1>2 DEF DistinctOK
<1>4. word \in Nat
  BY AtEnd
<1> QED
  BY <1>1, <1>3, <1>4

LEMMA LabelOwner ==
  ASSUME SInv, GInv, Done, NEW l \in Labels
  PROVE  b.blocks[commonMap[l]].fn = FunctionAt(WordOf(l))
<1> DEFINE v == WordOf(l)
<1>1. /\ v \in 1..(word - 1) /\ v \in Begun(spirv, commonMap)
      /\ spirv[v].op = "label" /\ At(spirv, commonMap, v) = commonMap[l]
  BY LabelBlock
<1> HIDE DEF v
<1>2. Valid(spirv) /\ word \in Nat /\ DOMAIN spirv = 1..(word - 1)
      /\ OwnersOK(spirv, commonMap, word, b, currentFunction)
  <2>1. /\ GraphOK(spirv, commonMap, word, b, currentFunction, entryPoint)
        /\ Valid(spirv) /\ word \in Nat /\ DOMAIN spirv = 1..(word - 1)
    BY AtEnd
  <2> QED
    BY <2>1 DEF GraphOK
<1>3. PICK f \in DOMAIN spirv :
        Behind(spirv, f, v) /\ b.blocks[commonMap[l]].fn = spirv[f].id
  BY <1>1, <1>2 DEF OwnersOK
<1>4. FunctionAt(v) = spirv[f].id
  BY <1>1, <1>2, <1>3, FunctionIs
<1> QED
  BY <1>3, <1>4 DEF v

LEMMA LabelEnd ==
  ASSUME SInv, GInv, Done, NEW l \in Labels
  PROVE  /\ LastWord(l) \in DOMAIN spirv /\ LastWord(l) > WordOf(l)
         /\ EndedAt(spirv, commonMap, b, entryPoint, WordOf(l), LastWord(l))
<1> DEFINE v == WordOf(l)
<1>1. v \in 1..(word - 1) /\ spirv[v].op = "label"
  BY LabelBlock
<1> HIDE DEF v
<1>2. /\ Valid(spirv) /\ word \in Nat /\ DOMAIN spirv = 1..(word - 1)
      /\ CodeOK(spirv, commonMap, word, b, entryPoint) /\ ~ InABlock(spirv, word)
  <2>1. /\ GraphOK(spirv, commonMap, word, b, currentFunction, entryPoint)
        /\ Valid(spirv) /\ word \in Nat /\ DOMAIN spirv = 1..(word - 1)
        /\ ~ InABlock(spirv, word)
    BY AtEnd
  <2> QED
    BY <2>1 DEF GraphOK
<1>3. PICK e \in (v + 1)..(word - 1) : EndedAt(spirv, commonMap, b, entryPoint, v, e)
  BY <1>1, <1>2 DEF CodeOK
<1>4. e \in DOMAIN spirv /\ e > v
  BY <1>1, <1>2, <1>3
<1>5. spirv[e].op \in Terminators /\ NoEnd(spirv, v, e)
  BY <1>3 DEF EndedAt
<1>6. LastWord(l) = e
  BY <1>2, <1>4, <1>5, LastIs DEF v
<1> QED
  BY <1>3, <1>4, <1>6 DEF v

(* The words from v to e. *)
LEMMA WordsBetween ==
  ASSUME NEW m, Valid(m), NEW v \in Nat, NEW e \in Nat, e > v, e <= Len(m)
  PROVE  /\ DOMAIN SubSeq(m, v + 1, e - 1) = 1..(e - v - 1)
         /\ \A i \in 1..(e - v - 1) : SubSeq(m, v + 1, e - 1)[i] = m[v + i]
<1> DEFINE S == [op : Opcodes, id : Ids \union {0}, labels : Seq(Ids)]
           s == SubSeq(m, v + 1, e - 1)
<1>1. m \in Seq(S)
  BY DEF Valid
<1> HIDE DEF S
<1>2. \A i \in (v + 1)..(e - 1) : m[i] \in S
  <2>1. \A i \in 1..Len(m) : m[i] \in S
    BY <1>1, LenProperties
  <2>2. \A i \in (v + 1)..(e - 1) : i \in 1..Len(m)
    BY <1>1, LenProperties
  <2> QED
    BY <2>1, <2>2
<1>3. /\ s \in Seq(S)
      /\ Len(s) = IF v + 1 <= e - 1 THEN (e - 1) - (v + 1) + 1 ELSE 0
      /\ \A i \in 1..((e - 1) - (v + 1) + 1) : s[i] = m[(v + 1) + i - 1]
  BY <1>2, SubSeqProperties
<1> HIDE DEF s
<1>4. Len(s) = e - v - 1 /\ (e - 1) - (v + 1) + 1 = e - v - 1
  BY <1>3
<1>5. \A i \in 1..(e - v - 1) : (v + 1) + i - 1 = v + i
  OBVIOUS
<1>6. DOMAIN s = 1..Len(s)
  BY <1>3, LenProperties
<1>7. DOMAIN s = 1..(e - v - 1) /\ \A i \in 1..(e - v - 1) : s[i] = m[v + i]
  BY <1>3, <1>4, <1>5, <1>6
<1> QED
  BY <1>7 DEF s

LEMMA CodeForIs ==
  ASSUME Valid(spirv), NEW l \in Labels, WordOf(l) \in Nat, LastWord(l) \in Nat,
         LastWord(l) > WordOf(l), LastWord(l) <= Len(spirv)
  PROVE  CodeFor(l) = CodeOf(spirv, commonMap, WordOf(l), LastWord(l))
                        \o Killed(spirv[LastWord(l)].op)
<1>1. /\ DOMAIN Body(l) = 1..(LastWord(l) - WordOf(l) - 1)
      /\ \A i \in 1..(LastWord(l) - WordOf(l) - 1) : Body(l)[i] = spirv[WordOf(l) + i]
  BY WordsBetween DEF Body
<1>2. [i \in DOMAIN Body(l) |->
         IF Body(l)[i].op = "call" THEN Event("call", commonMap[Body(l)[i].id])
         ELSE Event("stmt", WordOf(l) + i)]
      = CodeOf(spirv, commonMap, WordOf(l), LastWord(l))
  BY <1>1 DEF CodeOf
<1> QED
  BY <1>2 DEF CodeFor, EndOf, Killed

LEMMA LabelHasCode ==
  ASSUME SInv, GInv, Done, NEW l \in Labels
  PROVE  b.blocks[commonMap[l]].code = CodeFor(l)
<1>1. WordOf(l) \in 1..(word - 1) /\ At(spirv, commonMap, WordOf(l)) = commonMap[l]
  BY LabelBlock
<1>2. /\ LastWord(l) \in DOMAIN spirv /\ LastWord(l) > WordOf(l)
      /\ EndedAt(spirv, commonMap, b, entryPoint, WordOf(l), LastWord(l))
  BY LabelEnd
<1>3. Valid(spirv) /\ DOMAIN spirv = 1..Len(spirv) /\ Len(spirv) \in Nat /\ word \in Nat
  BY AtEnd
<1>4. WordOf(l) \in Nat /\ LastWord(l) \in Nat /\ LastWord(l) <= Len(spirv)
  BY <1>1, <1>2, <1>3
<1>5. CodeFor(l) = CodeOf(spirv, commonMap, WordOf(l), LastWord(l))
                     \o Killed(spirv[LastWord(l)].op)
  BY <1>2, <1>3, <1>4, CodeForIs
<1> QED
  BY <1>1, <1>2, <1>5 DEF EndedAt

(* What ends the block of a label. *)
LEMMA SwitchTargets ==
  ASSUME NEW labels \in Seq(Ids), labels # <<>>, NEW n \in Nat, commonMap \in [Ids -> 0..n]
  PROVE  Append(Tail(Blocks(labels)), Head(Blocks(labels)))
           = Blocks(Append(Tail(labels), labels[1]))
<1> DEFINE to == Blocks(labels)
           last == Append(Tail(labels), labels[1])
           k == Len(labels)
<1>1. /\ k \in Nat /\ k >= 1 /\ DOMAIN labels = 1..k /\ \A i \in 1..k : labels[i] \in Ids
      /\ labels[1] \in Ids
  <2>1. k \in Nat /\ DOMAIN labels = 1..k /\ \A i \in 1..k : labels[i] \in Ids
    BY LenProperties
  <2>2. k # 0
    BY EmptySeq
  <2> HIDE DEF k
  <2> QED
    BY <2>1, <2>2
<1>2. /\ Tail(labels) \in Seq(Ids) /\ Len(Tail(labels)) = k - 1
      /\ \A i \in 1..(k - 1) : Tail(labels)[i] = labels[i + 1]
  BY HeadTailProperties
<1>3. /\ last \in Seq(Ids) /\ Len(last) = k /\ last[k] = labels[1]
      /\ \A i \in 1..(k - 1) : last[i] = labels[i + 1]
  <2>1. /\ last \in Seq(Ids) /\ Len(last) = (k - 1) + 1 /\ last[(k - 1) + 1] = labels[1]
        /\ \A i \in 1..(k - 1) : last[i] = Tail(labels)[i]
    BY <1>1, <1>2, AppendProperties
  <2>2. (k - 1) + 1 = k
    BY <1>1
  <2> HIDE DEF k, last
  <2> QED
    BY <1>2, <2>1, <2>2
<1>4. DOMAIN last = 1..k
  BY <1>3, LenProperties
<1> HIDE DEF k, last
<1>5. to = [i \in 1..k |-> commonMap[labels[i]]]
  BY <1>1 DEF Blocks
<1>6. to \in Seq(0..n) /\ Len(to) = k /\ to # <<>>
  <2>1. to \in [1..k -> 0..n]
    BY <1>1, <1>5
  <2>2. to \in Seq(0..n) /\ DOMAIN to = 1..k
    BY <1>1, <2>1, SeqDef
  <2>3. Len(to) = k
    BY <1>1, <2>2, LenProperties
  <2> QED
    BY <1>1, <2>2, <2>3
<1>7. \A i \in 1..k : to[i] = commonMap[labels[i]]
  BY <1>5
<1> HIDE DEF to
<1> DEFINE x == Append(Tail(to), Head(to))
           y == Blocks(last)
<1>8. Head(to) = to[1]
  OBVIOUS
<1>9. /\ Tail(to) \in Seq(0..n) /\ Len(Tail(to)) = k - 1 /\ Head(to) \in 0..n
      /\ \A i \in 1..(k - 1) : Tail(to)[i] = to[i + 1]
  BY <1>6, HeadTailProperties
<1>10. /\ x \in Seq(0..n) /\ Len(x) = k /\ x[k] = to[1]
       /\ \A i \in 1..(k - 1) : x[i] = to[i + 1]
  <2>1. /\ x \in Seq(0..n) /\ Len(x) = (k - 1) + 1 /\ x[(k - 1) + 1] = Head(to)
        /\ \A i \in 1..(k - 1) : x[i] = Tail(to)[i]
    BY <1>1, <1>9, AppendProperties
  <2>2. (k - 1) + 1 = k
    BY <1>1
  <2> HIDE DEF x
  <2> QED
    BY <1>8, <1>9, <2>1, <2>2
<1>11. DOMAIN x = 1..k
  BY <1>10, LenProperties
<1> HIDE DEF x
<1>12. y = [i \in 1..k |-> commonMap[last[i]]]
  BY <1>4 DEF Blocks
<1>13. \A i \in 1..k : x[i] = y[i]
  <2> SUFFICES ASSUME NEW i \in 1..k PROVE x[i] = y[i]
    OBVIOUS
  <2>1. CASE i = k
    BY <1>1, <1>3, <1>7, <1>10, <1>12, <2>1
  <2>2. CASE i # k
    <3>1. i \in 1..(k - 1) /\ i + 1 \in 1..k
      BY <1>1, <2>2
    <3>2. last[i] = labels[i + 1]
      BY <1>3, <3>1
    <3>3. x[i] = to[i + 1]
      BY <1>10, <3>1
    <3>4. to[i + 1] = commonMap[labels[i + 1]]
      BY <1>7, <3>1
    <3>5. y[i] = commonMap[last[i]]
      BY <1>12
    <3> QED
      BY <3>2, <3>3, <3>4, <3>5
  <2> QED
    BY <2>1, <2>2
<1>14. y = [i \in 1..k |-> x[i]]
  BY <1>12, <1>13
<1>15. x = [i \in 1..k |-> x[i]]
  <2>1. x \in [1..k -> 0..n]
    BY <1>10, LenProperties
  <2> QED
    BY <2>1
<1> QED
  BY <1>14, <1>15 DEF x, y, to, last

LEMMA LabelEnds ==
  ASSUME SInv, GInv, Done, NEW l \in Labels
  PROVE  b.blocks[commonMap[l]].term \in EndsFor(l)
<1> DEFINE v == WordOf(l)
           e == LastWord(l)
           blk == b.blocks[commonMap[l]]
           main == IsMain(FunctionAt(v))
           to == Blocks(spirv[e].labels)
<1>1. /\ e \in DOMAIN spirv /\ EndedAt(spirv, commonMap, b, entryPoint, v, e)
  BY LabelEnd
<1>2. At(spirv, commonMap, v) = commonMap[l] /\ commonMap[l] \in Made(b)
  BY LabelBlock
<1>3. blk.term.kind \notin {"none", "double"}
  BY <1>2, AllEnded
<1>4. blk.fn = FunctionAt(v)
  BY LabelOwner
<1>5. main = (blk.fn \in entryPoint)
  BY <1>4 DEF IsMain
<1>6. spirv[e].op \in Terminators /\ TermFor(spirv, commonMap, b, entryPoint, blk, e)
  BY <1>1, <1>2 DEF EndedAt
<1>7. /\ spirv[e].op \in Branches =>
           blk.term = Term(TermKind(spirv[e].op), Targets(to, spirv[e].op), 0)
      /\ spirv[e].op = "kill" /\ main => blk.term = Br(b.stageExit)
      /\ spirv[e].op = "return" => blk.term = IF main THEN Br(b.stageEpilogue) ELSE Ret
  BY <1>5, <1>6 DEF TermFor, Blocks
<1>8. Valid(spirv) /\ b \in BuilderType /\ commonMap \in [Ids -> 0..Len(b.blocks)]
  BY AtEnd
<1>9. /\ spirv[e].labels \in Seq(Ids)
      /\ spirv[e].op \in Branches => spirv[e].labels # <<>>
      /\ spirv[e].op = "branch" => Len(spirv[e].labels) = 1
  <2>1. spirv[e].labels \in Seq(Ids)
    BY <1>1, <1>8, Fields
  <2>2. spirv[e].op \in Branches => /\ spirv[e].labels # <<>>
                                    /\ spirv[e].op = "branch" => Len(spirv[e].labels) = 1
    BY <1>1, <1>8 DEF Valid
  <2> QED
    BY <2>1, <2>2 DEF Branches
<1>10. EndOf(l) = spirv[e]
  BY DEF EndOf
<1> HIDE DEF e, v, blk, main, to
<1>11. CASE spirv[e].op = "branch"
  <2>1. blk.term = Term("br", to, 0)
    BY <1>7, <1>11 DEF Branches, TermKind, Targets
  <2>2. to = <<commonMap[spirv[e].labels[1]]>>
    <3>1. DOMAIN spirv[e].labels = 1..1
      BY <1>9, <1>11, LenProperties
    <3>2. to = [i \in 1..1 |-> commonMap[spirv[e].labels[i]]]
      BY <3>1 DEF to, Blocks
    <3> QED
      BY <3>2
  <2>3. blk.term = Br(commonMap[EndOf(l).labels[1]])
    BY <1>10, <2>1, <2>2 DEF Br
  <2>4. EndsFor(l) = {Br(commonMap[EndOf(l).labels[1]])}
    BY <1>10, <1>11 DEF EndsFor
  <2> QED
    BY <2>3, <2>4 DEF blk
<1>12. CASE spirv[e].op = "branchConditional"
  <2>1. blk.term = Term("cond", to, 0)
    BY <1>7, <1>12 DEF Branches, TermKind, Targets
  <2>2. EndsFor(l) = {Term("cond", Blocks(EndOf(l).labels), 0)}
    BY <1>10, <1>12 DEF EndsFor
  <2> QED
    BY <1>10, <2>1, <2>2 DEF blk, to
<1>13. CASE spirv[e].op = "switch"
  <2>1. blk.term = Term("switch", Append(Tail(to), Head(to)), 0)
    BY <1>7, <1>13 DEF Branches, TermKind, Targets
  <2>2. Len(b.blocks) \in Nat
    BY <1>8 DEF BuilderType
  <2>3. Append(Tail(to), Head(to)) = Blocks(Append(Tail(spirv[e].labels), spirv[e].labels[1]))
    BY <1>8, <1>9, <1>13, <2>2, SwitchTargets DEF to, Branches
  <2>4. EndsFor(l) = {Term("switch",
                           Blocks(Append(Tail(EndOf(l).labels), EndOf(l).labels[1])), 0)}
    BY <1>10, <1>13 DEF EndsFor
  <2> QED
    BY <1>10, <2>1, <2>3, <2>4 DEF blk
<1>14. CASE spirv[e].op = "kill" /\ main
  <2>1. EndsFor(l) = {Br(b.stageExit)}
    BY <1>10, <1>14 DEF EndsFor, v, main
  <2> QED
    BY <1>7, <1>14, <2>1 DEF blk
<1>15. CASE spirv[e].op = "kill" /\ ~ main
  <2>1. EndsFor(l) = {blk.term} \ {NoTerm, Double}
    BY <1>10, <1>15 DEF EndsFor, v, main, blk
  <2>2. blk.term \notin {NoTerm, Double}
    BY <1>3 DEF NoTerm, Double, Term
  <2> QED
    BY <2>1, <2>2 DEF blk
<1>16. CASE spirv[e].op = "return"
  <2>1. EndsFor(l) = {IF main THEN Br(b.stageEpilogue) ELSE Ret}
    BY <1>10, <1>16 DEF EndsFor, v, main
  <2> QED
    BY <1>7, <1>16, <2>1 DEF blk
<1> QED
  BY <1>6, <1>11, <1>12, <1>13, <1>14, <1>15, <1>16 DEF Terminators, Branches

(* A function's entry is its first label's block. *)
LEMMA FunctionBody ==
  ASSUME SInv, GInv, Done, NEW w \in WordsOf("function")
  PROVE  commonMap[spirv[w].id] = commonMap[spirv[FirstLabel(w)].id]
<1>1. /\ Valid(spirv) /\ DOMAIN spirv = 1..(word - 1)
      /\ DistinctOK(spirv, commonMap, word)
  <2>1. /\ GraphOK(spirv, commonMap, word, b, currentFunction, entryPoint)
        /\ Valid(spirv) /\ DOMAIN spirv = 1..(word - 1)
    BY AtEnd
  <2> QED
    BY <2>1 DEF GraphOK
<1>2. w \in 1..(word - 1) /\ spirv[w].op = "function"
  BY <1>1 DEF WordsOf
<1>3. At(spirv, commonMap, w + 1) = At(spirv, commonMap, w)
  BY <1>1, <1>2 DEF DistinctOK
<1>4. FirstLabel(w) = w + 1
  BY <1>1, FirstLabelIs
<1> QED
  BY <1>3, <1>4 DEF At

LEMMA DoneSame == SInv /\ GInv => SameGraph
<1> SUFFICES ASSUME SInv, GInv, Done PROVE SameGraph
  BY DEF SameGraph
<1>1. \A l, m \in Labels : commonMap[l] = commonMap[m] => l = m
  BY LabelsDiffer
<1>2. \A l \in Labels : /\ b.blocks[commonMap[l]].fn = FunctionAt(WordOf(l))
                        /\ b.blocks[commonMap[l]].code = CodeFor(l)
                        /\ b.blocks[commonMap[l]].term \in EndsFor(l)
  BY LabelOwner, LabelHasCode, LabelEnds
<1>3. \A w \in WordsOf("function") :
        commonMap[spirv[w].id] = commonMap[spirv[FirstLabel(w)].id]
  BY FunctionBody
<1> QED
  BY <1>1, <1>2, <1>3 DEF SameGraph

-----------------------------------------------------------------------------
(* The function lists. *)

LEMMA InjectiveLength ==
  ASSUME NEW L, NEW n \in Nat, DOMAIN L = 1..n, \A i, j \in 1..n : L[i] = L[j] => i = j
  PROVE  Cardinality({L[i] : i \in 1..n}) = n
<1> DEFINE T == {L[i] : i \in 1..n}
           f == [i \in 1..n |-> L[i]]
<1>1. f \in Injection(1..n, T)
  <2>1. f \in [1..n -> T]
    OBVIOUS
  <2>2. IsInjective(f)
    BY DEF IsInjective
  <2> QED
    BY <2>1, <2>2 DEF Injection
<1>2. f \in Surjection(1..n, T)
  BY DEF Surjection
<1>3. ExistsBijection(1..n, T)
  BY <1>1, <1>2 DEF Bijection, ExistsBijection
<1> HIDE DEF T
<1>4. Cardinality(T) = n
  BY <1>3, FS_CountingElements
<1> QED
  BY <1>4 DEF T

(* What is placed is what has been made. *)
LEMMA AllPlaced ==
  ASSUME SInv, GInv, Done
  PROVE  /\ Placed = Made(b)
         /\ Len(b.layout) \in Nat /\ DOMAIN b.layout = 1..Len(b.layout)
         /\ Len(b.layout) = Cardinality(Placed)
<1>1. LayoutOK(spirv, commonMap, b, {}) /\ b \in BuilderType
  <2>1. /\ GraphOK(spirv, commonMap, word, b, currentFunction, entryPoint)
        /\ Unplaced(b, currentFunction, entryPoint) = {} /\ b \in BuilderType
    BY AtEnd
  <2> QED
    BY <2>1 DEF GraphOK
<1>2. Len(b.layout) \in Nat /\ DOMAIN b.layout = 1..Len(b.layout)
  BY <1>1, BuilderFields
<1>3. Placed = Made(b)
  <2>1. ASSUME NEW i \in Placed PROVE i \in Made(b)
    BY <1>1, <2>1 DEF Placed, LayoutOK
  <2>2. ASSUME NEW i \in Made(b) PROVE i \in Placed
    BY <1>1, <2>2 DEF Placed, LayoutOK
  <2> QED
    BY <2>1, <2>2
<1>4. \A i, j \in 1..Len(b.layout) : b.layout[i] = b.layout[j] => i = j
  BY <1>1, <1>2 DEF LayoutOK
<1>5. Placed = {b.layout[i] : i \in 1..Len(b.layout)}
  BY <1>2 DEF Placed
<1>6. Len(b.layout) = Cardinality(Placed)
  BY <1>2, <1>4, <1>5, InjectiveLength
<1> QED
  BY <1>2, <1>3, <1>6

(* What has been made is the labels' blocks and main's stage blocks. *)
LEMMA MadeForLabels ==
  ASSUME SInv, GInv, Done
  PROVE  Made(b) = {commonMap[l] : l \in Labels} \union StageBlocks
<1>1. /\ Valid(spirv) /\ DOMAIN spirv = 1..(word - 1) /\ b \in BuilderType
      /\ DistinctOK(spirv, commonMap, word) /\ CoverOK(spirv, commonMap, word, b, entryPoint)
  <2>1. /\ GraphOK(spirv, commonMap, word, b, currentFunction, entryPoint)
        /\ Valid(spirv) /\ DOMAIN spirv = 1..(word - 1) /\ b \in BuilderType
    BY AtEnd
  <2> QED
    BY <2>1 DEF GraphOK
<1>2. ASSUME NEW l \in Labels PROVE commonMap[l] \in Made(b)
  BY LabelBlock
<1>3. ASSUME NEW i \in StageBlocks PROVE i \in Made(b)
  <2>1. i \in Stages(b) /\ i # Nothing
    BY DEF StageBlocks, Stages
  <2> QED
    BY <1>1, <2>1 DEF CoverOK, Stages
<1>4. ASSUME NEW i \in Made(b)
      PROVE  i \in StageBlocks \/ \E l \in Labels : i = commonMap[l]
  <2>1. CASE i \in Stages(b)
    <3>1. i # Nothing
      BY DEF Made, Nothing
    <3> QED
      BY <2>1, <3>1 DEF StageBlocks, Stages
  <2>2. CASE i \notin Stages(b)
    <3>1. PICK v \in Begun(spirv, commonMap) : At(spirv, commonMap, v) = i
      BY <1>1, <2>2 DEF CoverOK
    <3>2. v \in DOMAIN spirv /\ spirv[v].op \in {"function", "label"}
      BY <1>1, BegunFacts
    <3>3. CASE spirv[v].op = "label"
      <4>1. spirv[v].id \in Labels
        BY <3>2, <3>3 DEF Labels, WordsOf
      <4> QED
        BY <3>1, <4>1 DEF At
    <3>4. CASE spirv[v].op = "function"
      <4>1. v + 1 \in Begun(spirv, commonMap)
            /\ At(spirv, commonMap, v + 1) = At(spirv, commonMap, v)
        BY <1>1, <3>2, <3>4 DEF DistinctOK
      <4>2. v + 1 \in DOMAIN spirv /\ spirv[v + 1].op \in Follows(spirv[v].op)
        BY <1>1, <3>2, <3>4, NextWord
      <4>3. spirv[v + 1].op = "label"
        BY <1>1, <3>2, <3>4, <4>2, Following
      <4>4. spirv[v + 1].id \in Labels
        BY <4>2, <4>3 DEF Labels, WordsOf
      <4> QED
        BY <3>1, <4>1, <4>4 DEF At
    <3> QED
      BY <3>2, <3>3, <3>4
  <2> QED
    BY <2>1, <2>2
<1> QED
  BY <1>2, <1>3, <1>4

LEMMA PlacedEnds ==
  ASSUME SInv, GInv, Done, NEW blk \in Placed
  PROVE  /\ b.blocks[blk].term.kind \notin {"none", "double"}
         /\ \A i \in DOMAIN b.blocks[blk].term.to :
              /\ b.blocks[blk].term.to[i] \in Placed
              /\ b.blocks[b.blocks[blk].term.to[i]].fn = b.blocks[blk].fn
<1>1. Placed = Made(b)
  BY AllPlaced
<1>2. TargetsOK(spirv, commonMap, b)
  <2>1. GraphOK(spirv, commonMap, word, b, currentFunction, entryPoint)
    BY AtEnd
  <2> QED
    BY <2>1 DEF GraphOK
<1>3. b.blocks[blk].term.kind \notin {"none", "double"}
  BY <1>1, AllEnded
<1> QED
  BY <1>1, <1>2, <1>3 DEF TargetsOK

(* A set of naturals has one least member. *)
LEMMA LeastIs ==
  ASSUME NEW S \in SUBSET Nat, NEW i \in S, \A j \in S : i <= j
  PROVE  (CHOOSE k \in S : \A j \in S : k <= j) = i
<1> DEFINE k == CHOOSE x \in S : \A j \in S : x <= j
<1>1. k \in S /\ \A j \in S : k <= j
  OBVIOUS
<1> HIDE DEF k
<1>2. k <= i /\ i <= k /\ i \in Nat /\ k \in Nat
  BY <1>1
<1>3. k = i
  BY <1>2
<1> QED
  BY <1>3 DEF k

LEMMA FunctionFirst ==
  ASSUME SInv, GInv, Done, NEW fn \in Functions
  PROVE  First(fn) = commonMap[fn] /\ ~ HasPredecessor(b, commonMap[fn])
<1>1. /\ Valid(spirv) /\ b \in BuilderType /\ word \in Nat /\ DOMAIN spirv = 1..(word - 1)
      /\ OwnersOK(spirv, commonMap, word, b, currentFunction)
      /\ CoverOK(spirv, commonMap, word, b, entryPoint)
      /\ LayoutOK(spirv, commonMap, b, {}) /\ TargetsOK(spirv, commonMap, b)
      /\ \A v \in DOMAIN spirv : spirv[v].op \in Definitions => v \in Begun(spirv, commonMap)
  <2>1. /\ GraphOK(spirv, commonMap, word, b, currentFunction, entryPoint)
        /\ Valid(spirv) /\ b \in BuilderType /\ word \in Nat /\ DOMAIN spirv = 1..(word - 1)
        /\ Unplaced(b, currentFunction, entryPoint) = {}
        /\ \A v \in DOMAIN spirv : spirv[v].op \in Definitions => v \in Begun(spirv, commonMap)
    BY AtEnd
  <2> QED
    BY <2>1 DEF GraphOK
<1>2. PICK g \in DOMAIN spirv : spirv[g].op = "function" /\ spirv[g].id = fn
  BY DEF Functions, WordsOf
<1>3. g \in Begun(spirv, commonMap) /\ At(spirv, commonMap, g) = commonMap[fn]
  BY <1>1, <1>2 DEF Definitions, At
<1>4. commonMap[fn] \in Made(b) /\ b.blocks[commonMap[fn]].fn = fn
  BY <1>1, <1>2, <1>3 DEF CoverOK, OwnersOK
<1>5. Len(b.layout) \in Nat /\ DOMAIN b.layout = 1..Len(b.layout)
  BY AllPlaced
<1>6. PICK i0 \in DOMAIN b.layout : b.layout[i0] = commonMap[fn]
  BY <1>1, <1>4 DEF LayoutOK
<1>7. i0 \in InPlace(fn)
  BY <1>4, <1>6 DEF InPlace
<1>8. ASSUME NEW j \in InPlace(fn) PROVE i0 <= j
  <2>1. j \in DOMAIN b.layout /\ b.blocks[b.layout[j]].fn = fn
    BY DEF InPlace
  <2>2. PICK k \in 1..j, f \in Begun(spirv, commonMap) :
          /\ spirv[f].op = "function" /\ b.blocks[b.layout[j]].fn = spirv[f].id
          /\ b.layout[k] = At(spirv, commonMap, f)
    BY <1>1, <2>1 DEF LayoutOK
  <2>3. spirv[f].id = fn
    BY <2>1, <2>2
  <2>4. b.layout[k] = commonMap[fn]
    BY <2>2, <2>3 DEF At
  <2>5. k \in DOMAIN b.layout
    BY <1>5, <2>1
  <2>6. k = i0
    BY <1>1, <1>6, <2>4, <2>5 DEF LayoutOK
  <2> QED
    BY <1>5, <2>1, <2>6
<1>9. InPlace(fn) \in SUBSET Nat
  BY <1>5 DEF InPlace
<1>10. First(fn) = commonMap[fn]
  <2>1. (CHOOSE i \in InPlace(fn) : \A j \in InPlace(fn) : i <= j) = i0
    BY <1>7, <1>8, <1>9, LeastIs
  <2> QED
    BY <1>6, <2>1 DEF First
<1>11. ~ HasPredecessor(b, commonMap[fn])
  <2>1. DOMAIN b.blocks = Made(b)
    BY <1>1, BuilderFields DEF Made
  <2> QED
    BY <1>1, <1>2, <1>3, <2>1 DEF HasPredecessor, TargetsOK
<1> QED
  BY <1>10, <1>11

LEMMA DoneWell == SInv /\ GInv => WellFormed
<1> SUFFICES ASSUME SInv, GInv, Done PROVE WellFormed
  BY DEF WellFormed
<1>1. /\ Len(b.layout) = Cardinality(Placed)
      /\ Placed = {commonMap[l] : l \in Labels} \union StageBlocks
  BY AllPlaced, MadeForLabels
<1>2. \A fn \in Functions : /\ First(fn) = commonMap[fn]
                            /\ ~ HasPredecessor(b, commonMap[fn])
  BY FunctionFirst
<1> QED
  BY <1>1, <1>2, PlacedEnds DEF WellFormed

(* Functions and labels may be used before or after they are defined: when *)
(* the module has been read, the blocks are its control-flow graph         *)
(* (makeLabelBlock, handleOpFunction, createFunctionCall).                 *)
THEOREM SameGraphCorrect == Spec => []SameGraph
<1> QED
  BY SInvAlways, GInvAlways, DoneSame, PTL

(* And the function lists are well formed: a block is placed once, ends,   *)
(* and jumps within its function, which begins with its entry.             *)
THEOREM WellFormedCorrect == Spec => []WellFormed
<1> QED
  BY SInvAlways, GInvAlways, DoneWell, PTL
=============================================================================
