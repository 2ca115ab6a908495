-------------------------- MODULE SpvGraph_proofs ---------------------------
(***************************************************************************)
(* Proofs about the control-flow graph the SPIR-V front end builds, for every *)
(* valid module: an invariant of each instruction read, and that adding blocks *)
(* and reading the instructions of a block keep it.                        *)
(***************************************************************************)
EXTENDS SpvToTop_proofs

-----------------------------------------------------------------------------
(* The invariant.  In front of word w of module m, with map for commonMap, *)
(* c for the builder, fn for the current function, ep for the entry point. *)

(* The definitions, read or not, whose <id> stands for a block. *)
Begun(m, map) == {v \in DOMAIN m : m[v].op \in Definitions /\ At(m, map, v) # Nothing}

Outside(m, w) == w \in DOMAIN m => m[w].op \in {"function", "entryPoint"}
InABlock(m, w) == w \in DOMAIN m /\ m[w].op \in InBlock

(* f is the function word that v is behind. *)
Behind(m, f, v) ==
  f \in 1..(v - 1) /\ m[f].op = "function" /\ \A u \in (f + 1)..v : m[u].op # "function"

WordsOK(m, map, w, c, fn) ==
  /\ Outside(m, w) => fn = NoFunction
  /\ ~ Outside(m, w) =>
       /\ \E f \in 1..(w - 1) : /\ m[f].op = "function" /\ m[f].id = fn
                                /\ \A u \in (f + 1)..(w - 1) : m[u].op # "function"
       /\ c.blocks[c.insert].fn = fn
  /\ w \in DOMAIN m /\ m[w].op = "entryPoint" =>
       /\ c = EmptyBuilder /\ \A id \in Ids : map[id] = Nothing
       /\ \A u \in 1..(w - 1) : m[u].op = "entryPoint"

(* Blocks are in the function their definition is in: the current one, if  *)
(* it has begun and not ended, or if the label was seen ahead.             *)
OwnersOK(m, map, w, c, fn) ==
  \A v \in Begun(m, map) :
    /\ m[v].op = "function" => c.blocks[At(m, map, v)].fn = m[v].id
    /\ m[v].op = "label" /\ v < w =>
         \E f \in DOMAIN m : Behind(m, f, v) /\ c.blocks[At(m, map, v)].fn = m[f].id
    /\ m[v].op = "label" /\ (\A u \in v..(w - 1) : m[u].op # "functionEnd") =>
         ~ Outside(m, w) /\ c.blocks[At(m, map, v)].fn = fn
    /\ m[v].op = "label" => \A u \in w..v : m[u].op # "functionEnd"

(* Two definitions share a block only as a function and its first label,   *)
(* and all that have been read stand for one.                              *)
DistinctOK(m, map, w) ==
  /\ \A u, v \in Begun(m, map) :
       At(m, map, u) = At(m, map, v) /\ u < v => m[u].op = "function" /\ v = u + 1
  /\ \A v \in 1..(w - 1) :
       /\ m[v].op \in Definitions => v \in Begun(m, map)
       /\ m[v].op = "call" => map[m[v].id] # Nothing
       /\ m[v].op \in Branches =>
            \A i \in DOMAIN m[v].labels : map[m[v].labels[i]] # Nothing
       /\ m[v].op = "function" => v + 1 \in Begun(m, map) /\ At(m, map, v + 1) = At(m, map, v)

(* There are no blocks but those of definitions and main's stage blocks.   *)
Stages(c) == {c.stageEpilogue, c.stageExit}
MainRead(m, w, ep) == \E f \in 1..(w - 1) : m[f].op = "function" /\ m[f].id \in ep
CoverOK(m, map, w, c, ep) ==
  /\ \A i \in Made(c) : i \in Stages(c) \/ \E v \in Begun(m, map) : At(m, map, v) = i
  /\ \A v \in Begun(m, map) : At(m, map, v) \in Made(c) /\ At(m, map, v) \notin Stages(c)
  /\ ~ MainRead(m, w, ep) => c.stageEpilogue = Nothing /\ c.stageExit = Nothing
  /\ MainRead(m, w, ep) =>
       /\ c.stageEpilogue # c.stageExit
       /\ \A i \in Stages(c) : i \in Made(c) /\ c.blocks[i].fn \in ep

(* Every block is placed once, behind its function's entry; the stage      *)
(* blocks at the end of main.                                              *)
Unplaced(c, fn, ep) == IF fn \in ep THEN Stages(c) ELSE {}
LayoutOK(m, map, c, out) ==
  /\ \A i, j \in DOMAIN c.layout : c.layout[i] = c.layout[j] => i = j
  /\ \A i \in DOMAIN c.layout : c.layout[i] \in Made(c) /\ c.layout[i] \notin out
  /\ \A k \in Made(c) : k \notin out => \E i \in DOMAIN c.layout : c.layout[i] = k
  /\ \A i \in DOMAIN c.layout : \E j \in 1..i, g \in Begun(m, map) :
       /\ m[g].op = "function" /\ c.blocks[c.layout[i]].fn = m[g].id
       /\ c.layout[j] = At(m, map, g)

(* Jumps stay in their function and do not lead to its entry. *)
TargetsOK(m, map, c) ==
  \A i \in Made(c) :
    /\ c.blocks[i].term.kind # "double"
    /\ \A k \in DOMAIN c.blocks[i].term.to :
         /\ c.blocks[i].term.to[k] \in Made(c)
         /\ c.blocks[c.blocks[i].term.to[k]].fn = c.blocks[i].fn
         /\ \A g \in Begun(m, map) :
              m[g].op = "function" => At(m, map, g) # c.blocks[i].term.to[k]

(* A block has its end, or waits for its definition, for the end of main,  *)
(* or is being filled; a function's kill at its end leaves that to the     *)
(* function's end.                                                         *)
OpenOK(m, map, w, c, out) ==
  \A i \in Made(c) : Open(c, i) =>
    \/ i \in out
    \/ \E v \in Pending(m, map, w) : At(m, map, v) = i
    \/ i = c.insert /\ w \in DOMAIN m /\ m[w].op \in InBlock \union {"functionEnd"}

(* What the words from v to e make of the block of label v. *)
CodeOf(m, map, v, e) ==
  [i \in 1..(e - v - 1) |-> IF m[v + i].op = "call" THEN Event("call", map[m[v + i].id])
                            ELSE Event("stmt", v + i)]
Killed(op) == IF op = "kill" THEN <<Event("discard", 0)>> ELSE <<>>
NoEnd(m, v, e) == \A u \in (v + 1)..(e - 1) : m[u].op \notin Terminators
TermFor(m, map, c, ep, blk, e) ==
  LET to == [i \in DOMAIN m[e].labels |-> map[m[e].labels[i]]]
      main == blk.fn \in ep
  IN  /\ m[e].op \in Branches =>
           blk.term = Term(TermKind(m[e].op), Targets(to, m[e].op), 0)
      /\ m[e].op = "kill" /\ main => blk.term = Br(c.stageExit)
      /\ m[e].op = "return" => blk.term = IF main THEN Br(c.stageEpilogue) ELSE Ret
EndedAt(m, map, c, ep, v, e) ==
  /\ m[e].op \in Terminators /\ NoEnd(m, v, e)
  /\ c.blocks[At(m, map, v)].code = CodeOf(m, map, v, e) \o Killed(m[e].op)
  /\ TermFor(m, map, c, ep, c.blocks[At(m, map, v)], e)
Current(m, map, w, c, v) ==
  /\ At(m, map, v) = c.insert /\ NoEnd(m, v, w)
  /\ c.blocks[c.insert].code = CodeOf(m, map, v, w)
CodeOK(m, map, w, c, ep) ==
  /\ \A v \in Pending(m, map, w) : c.blocks[At(m, map, v)].code = <<>>
  /\ \A v \in 1..(w - 1) : m[v].op = "label" =>
       \/ \E e \in (v + 1)..(w - 1) : EndedAt(m, map, c, ep, v, e)
       \/ InABlock(m, w) /\ Current(m, map, w, c, v)
  /\ InABlock(m, w) =>
       \E v \in 1..(w - 1) : m[v].op = "label" /\ Current(m, map, w, c, v)

ModelOK(ep, model) == (\A x, y \in ep : x = y) /\ (~ model => ep = {})

GraphOK(m, map, w, c, fn, ep) ==
  /\ WordsOK(m, map, w, c, fn) /\ OwnersOK(m, map, w, c, fn) /\ DistinctOK(m, map, w)
  /\ CoverOK(m, map, w, c, ep) /\ LayoutOK(m, map, c, Unplaced(c, fn, ep))
  /\ TargetsOK(m, map, c) /\ OpenOK(m, map, w, c, Unplaced(c, fn, ep))
  /\ CodeOK(m, map, w, c, ep)
GInv ==
  /\ phase = "translated" => word = Len(spirv) + 1
  /\ phase # "unsupported" => /\ ModelOK(entryPoint, currentModel)
                              /\ GraphOK(spirv, commonMap, word, b, currentFunction, entryPoint)

-----------------------------------------------------------------------------
(* Blocks are added for definitions that have not been read.               *)

(* What the proofs need of the other invariant. *)
Here(m, map, w, c) ==
  /\ Valid(m) /\ w \in Nat /\ w >= 1 /\ w <= Len(m) + 1 /\ c \in BuilderType
  /\ map \in [Ids -> 0..Len(c.blocks)]
  /\ ~ Outside(m, w) => c.insert \in Made(c)

Keeping(map, new) == \A id \in Ids : map[id] # Nothing => new[id] = map[id]

Grows(m, map, new, w, c, d, fn) ==
  /\ c \in BuilderType /\ d \in BuilderType /\ Len(c.blocks) <= Len(d.blocks)
  /\ \A i \in Made(c) : d.blocks[i] = c.blocks[i]
  /\ SameStage(c, d) /\ d.insert = c.insert
  /\ Len(d.layout) = Len(c.layout) + (Len(d.blocks) - Len(c.blocks))
  /\ \A i \in 1..Len(c.layout) : d.layout[i] = c.layout[i]
  /\ \A i \in 1..Len(d.layout) : i > Len(c.layout) =>
       d.layout[i] = Len(c.blocks) + (i - Len(c.layout))
  /\ Extends(map, new, c, d)
  /\ \A i \in Made(d) : i \notin Made(c) =>
       /\ d.blocks[i].term = NoTerm /\ d.blocks[i].code = <<>>
       /\ \E v \in Begun(m, new) : v \notin Begun(m, map) /\ At(m, new, v) = i
  /\ \A v \in Begun(m, new) : v \notin Begun(m, map) =>
       /\ v >= w
       /\ m[v].op = "function" => d.blocks[At(m, new, v)].fn = m[v].id
       /\ m[v].op = "label" =>
            /\ m[v - 1].op # "function" /\ ~ Outside(m, w)
            /\ d.blocks[At(m, new, v)].fn = fn
            /\ \A u \in w..v : m[u].op # "functionEnd"

LEMMA BegunFacts ==
  ASSUME NEW m, Valid(m), NEW map, NEW v \in Begun(m, map)
  PROVE  /\ v \in DOMAIN m /\ v \in Nat /\ v >= 1 /\ v <= Len(m) /\ m[v].id \in Ids
         /\ m[v].op \in Definitions /\ At(m, map, v) # Nothing
         /\ m[v].op \in {"function", "label"}
<1>1. v \in DOMAIN m /\ m[v].op \in Definitions /\ At(m, map, v) # Nothing
  BY DEF Begun
<1>2. m[v].id \in Ids
  BY <1>1, Fields
<1>3. v \in Nat /\ v >= 1 /\ v <= Len(m)
  BY <1>1 DEF Valid
<1> QED
  BY <1>1, <1>2, <1>3 DEF Definitions

LEMMA GrowthKeeps ==
  ASSUME NEW m, NEW map, NEW new, NEW w, NEW c, NEW d, NEW fn,
         Here(m, map, w, c), Grows(m, map, new, w, c, d, fn)
  PROVE  /\ Keeping(map, new)
         /\ \A v \in Begun(m, map) : v \in Begun(m, new) /\ At(m, new, v) = At(m, map, v)
         /\ \A i \in Made(c) : i \in Made(d) /\ d.blocks[i] = c.blocks[i]
         /\ Len(c.blocks) \in Nat /\ Len(d.blocks) \in Nat
         /\ Len(c.layout) \in Nat /\ Len(d.layout) \in Nat
         /\ DOMAIN c.layout = 1..Len(c.layout) /\ DOMAIN d.layout = 1..Len(d.layout)
         /\ Stages(d) = Stages(c) /\ d.insert = c.insert
         /\ \A v \in Begun(m, new) : v \notin Begun(m, map) =>
              At(m, new, v) \in Made(d) /\ At(m, new, v) \notin Made(c)
<1>1. Keeping(map, new)
  BY DEF Grows, Extends, Keeping
<1>2. \A v \in Begun(m, map) : v \in Begun(m, new) /\ At(m, new, v) = At(m, map, v)
  BY <1>1, BegunFacts DEF Begun, At, Here, Keeping
<1>3. /\ Len(c.blocks) \in Nat /\ Len(d.blocks) \in Nat
      /\ c.layout \in Seq(Nat) /\ d.layout \in Seq(Nat)
  BY BuilderFields DEF Grows
<1>4. \A i \in Made(c) : i \in Made(d) /\ d.blocks[i] = c.blocks[i]
  BY <1>3 DEF Grows, Made
<1>5. Stages(d) = Stages(c) /\ d.insert = c.insert
  BY DEF Grows, SameStage, Stages
<1>6. ASSUME NEW v \in Begun(m, new), v \notin Begun(m, map)
      PROVE  At(m, new, v) \in Made(d) /\ At(m, new, v) \notin Made(c)
  <2>1. m[v].id \in Ids /\ v \in DOMAIN m /\ m[v].op \in Definitions /\ At(m, new, v) # Nothing
    BY BegunFacts DEF Here
  <2>2. map[m[v].id] = Nothing
    BY <1>6, <2>1 DEF Begun, At
  <2>3. m[v].id \in NewIds(map, new)
    BY <2>1, <2>2 DEF NewIds, At
  <2> QED
    BY <2>3 DEF Grows, Extends, At
<1> QED
  BY <1>1, <1>2, <1>3, <1>4, <1>5, <1>6

LEMMA GrowWords ==
  ASSUME NEW m, NEW map, NEW new, NEW w, NEW c, NEW d, NEW fn,
         Here(m, map, w, c), Grows(m, map, new, w, c, d, fn),
         w \in DOMAIN m, m[w].op # "entryPoint", WordsOK(m, map, w, c, fn)
  PROVE  WordsOK(m, new, w, d, fn)
<1>1. d.insert = c.insert /\ \A i \in Made(c) : d.blocks[i] = c.blocks[i]
  BY GrowthKeeps
<1>2. ~ Outside(m, w) => d.blocks[d.insert].fn = c.blocks[c.insert].fn
  BY <1>1 DEF Here
<1> QED
  BY <1>2 DEF WordsOK

LEMMA GrowOwners ==
  ASSUME NEW m, NEW map, NEW new, NEW w, NEW c, NEW d, NEW fn,
         Here(m, map, w, c), Grows(m, map, new, w, c, d, fn),
         OwnersOK(m, map, w, c, fn), \A v \in Begun(m, map) : At(m, map, v) \in Made(c)
  PROVE  OwnersOK(m, new, w, d, fn)
<1> SUFFICES ASSUME NEW v \in Begun(m, new)
    PROVE /\ m[v].op = "function" => d.blocks[At(m, new, v)].fn = m[v].id
          /\ m[v].op = "label" /\ v < w =>
               \E f \in DOMAIN m : Behind(m, f, v) /\ d.blocks[At(m, new, v)].fn = m[f].id
          /\ m[v].op = "label" /\ (\A u \in v..(w - 1) : m[u].op # "functionEnd") =>
               ~ Outside(m, w) /\ d.blocks[At(m, new, v)].fn = fn
          /\ m[v].op = "label" => \A u \in w..v : m[u].op # "functionEnd"
  BY DEF OwnersOK
<1>1. CASE v \in Begun(m, map)
  <2>1. At(m, new, v) = At(m, map, v) /\ d.blocks[At(m, map, v)] = c.blocks[At(m, map, v)]
    BY <1>1, GrowthKeeps
  <2> QED
    BY <1>1, <2>1 DEF OwnersOK
<1>2. CASE v \notin Begun(m, map)
  <2>1. v >= w /\ v \in Nat /\ w \in Nat
    BY <1>2, BegunFacts DEF Grows, Here
  <2> QED
    BY <1>2, <2>1 DEF Grows
<1> QED
  BY <1>1, <1>2

LEMMA GrowDistinct ==
  ASSUME NEW m, NEW map, NEW new, NEW w, NEW c, NEW d, NEW fn,
         Here(m, map, w, c), Grows(m, map, new, w, c, d, fn),
         DistinctOK(m, map, w), \A v \in Begun(m, map) : At(m, map, v) \in Made(c)
  PROVE  DistinctOK(m, new, w)
<1>1. ASSUME NEW u \in Begun(m, new), NEW v \in Begun(m, new),
             At(m, new, u) = At(m, new, v), u < v
      PROVE  m[u].op = "function" /\ v = u + 1
  <2>1. CASE u \in Begun(m, map) /\ v \in Begun(m, map)
    BY <1>1, <2>1, GrowthKeeps DEF DistinctOK
  <2>2. CASE u \notin Begun(m, map) /\ v \notin Begun(m, map)
    <3>1. /\ u \in DOMAIN m /\ v \in DOMAIN m /\ m[u].op \in Definitions
          /\ m[v].op \in Definitions /\ m[u].id \in Ids /\ m[v].id \in Ids /\ u \in Nat
          /\ Valid(m) /\ v \in Nat
      BY BegunFacts DEF Here
    <3>2. m[u].id \in NewIds(map, new) /\ m[v].id \in NewIds(map, new)
      BY <2>2, <3>1 DEF NewIds, Begun, At
    <3>3. m[u].id = m[v].id
      BY <1>1, <3>2 DEF Grows, Extends, At
    <3> QED
      BY <1>1, <3>1, <3>3, Unique
  <2>3. CASE ~ (u \in Begun(m, map) <=> v \in Begun(m, map))
    BY <1>1, <2>3, GrowthKeeps
  <2> QED
    BY <2>1, <2>2, <2>3
<1>2. ASSUME NEW v \in 1..(w - 1)
      PROVE  /\ m[v].op \in Definitions => v \in Begun(m, new)
             /\ m[v].op = "call" => new[m[v].id] # Nothing
             /\ m[v].op \in Branches =>
                  \A i \in DOMAIN m[v].labels : new[m[v].labels[i]] # Nothing
             /\ m[v].op = "function" => v + 1 \in Begun(m, new) /\ At(m, new, v + 1) = At(m, new, v)
  <2>1. v \in DOMAIN m /\ Valid(m)
    BY DEF Here, Valid
  <2>2. m[v].labels \in Seq(Ids) /\ m[v].op \in Opcodes
        /\ (m[v].op \in Definitions \union {"entryPoint", "call"} => m[v].id \in Ids)
    BY <2>1, Fields
  <2>3. \A i \in DOMAIN m[v].labels : m[v].labels[i] \in Ids
    BY <2>2
  <2>4. \A id \in Ids : map[id] # Nothing => new[id] # Nothing
    BY GrowthKeeps DEF Keeping
  <2>5. m[v].op \in Definitions => v \in Begun(m, new)
    BY GrowthKeeps DEF DistinctOK
  <2>6. m[v].op = "function" => v + 1 \in Begun(m, new) /\ At(m, new, v + 1) = At(m, new, v)
    BY GrowthKeeps DEF DistinctOK, Definitions
  <2>7. m[v].op = "call" => new[m[v].id] # Nothing
    BY <2>2, <2>4 DEF DistinctOK
  <2>8. m[v].op \in Branches =>
                  \A i \in DOMAIN m[v].labels : new[m[v].labels[i]] # Nothing
    BY <2>3, <2>4 DEF DistinctOK
  <2> QED
    BY <2>5, <2>6, <2>7, <2>8
<1> QED
  BY <1>1, <1>2 DEF DistinctOK

LEMMA GrowCover ==
  ASSUME NEW m, NEW map, NEW new, NEW w, NEW c, NEW d, NEW fn, NEW ep,
         Here(m, map, w, c), Grows(m, map, new, w, c, d, fn), CoverOK(m, map, w, c, ep)
  PROVE  CoverOK(m, new, w, d, ep)
<1>0. Stages(c) \subseteq Made(c) \union {Nothing}
  BY DEF CoverOK, Stages
<1>1. ASSUME NEW i \in Made(d), i \notin Stages(d)
      PROVE  \E v \in Begun(m, new) : At(m, new, v) = i
  <2>1. CASE i \in Made(c)
    BY <1>1, <2>1, GrowthKeeps DEF CoverOK
  <2>2. CASE i \notin Made(c)
    BY <2>2 DEF Grows
  <2> QED
    BY <2>1, <2>2
<1>2. ASSUME NEW v \in Begun(m, new)
      PROVE  At(m, new, v) \in Made(d) /\ At(m, new, v) \notin Stages(d)
  <2>1. At(m, new, v) # Nothing
    BY BegunFacts DEF Here
  <2> QED
    BY <1>0, <2>1, GrowthKeeps DEF CoverOK
<1>3. MainRead(m, w, ep) => \A i \in Stages(d) : i \in Made(d) /\ d.blocks[i].fn \in ep
  BY GrowthKeeps DEF CoverOK
<1>4. d.stageEpilogue = c.stageEpilogue /\ d.stageExit = c.stageExit
  BY DEF Grows, SameStage
<1> QED
  BY <1>1, <1>2, <1>3, <1>4 DEF CoverOK

(* A current function's entry is placed. *)
LEMMA EntryPlaced ==
  ASSUME NEW m, NEW map, NEW w, NEW c, NEW fn, NEW ep, Here(m, map, w, c), ~ Outside(m, w),
         WordsOK(m, map, w, c, fn), DistinctOK(m, map, w), CoverOK(m, map, w, c, ep),
         LayoutOK(m, map, c, Unplaced(c, fn, ep))
  PROVE  \E g \in Begun(m, map), j \in DOMAIN c.layout :
           m[g].op = "function" /\ m[g].id = fn /\ c.layout[j] = At(m, map, g)
<1>1. PICK g \in 1..(w - 1) : m[g].op = "function" /\ m[g].id = fn
  BY DEF WordsOK
<1>2. g \in Begun(m, map)
  BY <1>1 DEF DistinctOK, Definitions
<1>3. At(m, map, g) \in Made(c) /\ At(m, map, g) \notin Unplaced(c, fn, ep)
  BY <1>2 DEF CoverOK, Unplaced
<1> QED
  BY <1>1, <1>2, <1>3 DEF LayoutOK

(* A layout to which the blocks made are appended. *)
Appends(L, K, n, size, old, top, out) ==
  /\ n \in Nat /\ size \in Nat /\ old \in Nat /\ top \in Nat
  /\ DOMAIN L = 1..n /\ DOMAIN K = 1..size /\ old <= top /\ size = n + (top - old)
  /\ \A i \in 1..n : K[i] = L[i] /\ L[i] \in 1..old /\ L[i] \notin out
  /\ \A i \in 1..size : i > n => K[i] = old + (i - n)
  /\ \A i, j \in 1..n : L[i] = L[j] => i = j
  /\ \A k \in 1..old : k \notin out => \E i \in 1..n : L[i] = k
  /\ \A k \in (old + 1)..top : k \notin out

LEMMA Appending ==
  ASSUME NEW L, NEW K, NEW n, NEW size, NEW old, NEW top, NEW out,
         Appends(L, K, n, size, old, top, out)
  PROVE  /\ \A i, j \in DOMAIN K : K[i] = K[j] => i = j
         /\ \A i \in DOMAIN K : K[i] \in 1..top /\ K[i] \notin out
         /\ \A k \in 1..top : k \notin out => \E i \in DOMAIN K : K[i] = k
<1> USE DEF Appends
<1>1. n <= size /\ \A i \in 1..size : i \in 1..n \/ i > n
  OBVIOUS
<1>2. \A i \in 1..n : i \in 1..size
  BY <1>1
<1>3. \A i \in 1..size : i > n => K[i] \in (old + 1)..top
  OBVIOUS
<1>4. \A i, j \in 1..size : K[i] = K[j] => i = j
  <2> SUFFICES ASSUME NEW i \in 1..size, NEW j \in 1..size, K[i] = K[j] PROVE i = j
    OBVIOUS
  <2>1. CASE i > n /\ j > n
    BY <2>1
  <2>2. CASE i \in 1..n /\ j \in 1..n
    BY <2>2
  <2>3. CASE i \in 1..n /\ j > n
    BY <1>3, <2>3
  <2>4. CASE i > n /\ j \in 1..n
    BY <1>3, <2>4
  <2> QED
    BY <1>1, <2>1, <2>2, <2>3, <2>4
<1>5. \A i \in 1..size : K[i] \in 1..top /\ K[i] \notin out
  <2> SUFFICES ASSUME NEW i \in 1..size PROVE K[i] \in 1..top /\ K[i] \notin out
    OBVIOUS
  <2>1. CASE i > n
    BY <1>3, <2>1
  <2>2. CASE i \in 1..n
    BY <1>1, <2>2
  <2> QED
    BY <1>1, <2>1, <2>2
<1>6. ASSUME NEW k \in 1..top, k \notin out PROVE \E i \in 1..size : K[i] = k
  <2>1. CASE k <= old
    <3>1. PICK i \in 1..n : L[i] = k
      BY <1>6, <2>1
    <3> QED
      BY <1>2, <3>1
  <2>2. CASE k > old
    <3>1. PICK i \in 1..size : i = n + (k - old) /\ i > n
      BY <1>1, <2>2
    <3>2. K[i] = k
      BY <3>1
    <3> QED
      BY <3>2
  <2> QED
    BY <2>1, <2>2
<1> QED
  BY <1>4, <1>5, <1>6

LEMMA GrowLayout ==
  ASSUME NEW m, NEW map, NEW new, NEW w, NEW c, NEW d, NEW fn, NEW ep,
         Here(m, map, w, c), Grows(m, map, new, w, c, d, fn), WordsOK(m, map, w, c, fn),
         DistinctOK(m, map, w), CoverOK(m, map, w, c, ep),
         LayoutOK(m, map, c, Unplaced(c, fn, ep))
  PROVE  LayoutOK(m, new, d, Unplaced(d, fn, ep))
<1>0. Unplaced(d, fn, ep) = Unplaced(c, fn, ep)
  BY GrowthKeeps DEF Unplaced
<1>0a. /\ DOMAIN c.layout = 1..Len(c.layout) /\ DOMAIN d.layout = 1..Len(d.layout)
       /\ Len(c.layout) \in Nat /\ Len(d.layout) \in Nat
  BY GrowthKeeps
<1>1. /\ c.layout \in Seq(Nat) /\ d.layout \in Seq(Nat) /\ Len(c.blocks) \in Nat
      /\ Len(d.blocks) \in Nat /\ Len(c.blocks) <= Len(d.blocks)
      /\ Len(d.layout) = Len(c.layout) + (Len(d.blocks) - Len(c.blocks))
  BY BuilderFields DEF Grows
<1>2. \A i \in 1..Len(c.layout) : d.layout[i] = c.layout[i] /\ c.layout[i] \in 1..Len(c.blocks)
  BY <1>1 DEF Grows, LayoutOK, Made
<1>3. \A k \in (Len(c.blocks) + 1)..Len(d.blocks) : k \notin Unplaced(c, fn, ep)
  <2>1. \A i \in Unplaced(c, fn, ep) : i \in Made(c) \union {0}
    BY DEF CoverOK, Unplaced, Stages, Nothing
  <2> QED
    BY <1>1, <2>1 DEF Made
<1>4. /\ \A i, j \in DOMAIN d.layout : d.layout[i] = d.layout[j] => i = j
      /\ \A i \in DOMAIN d.layout : d.layout[i] \in Made(d) /\ d.layout[i] \notin Unplaced(c, fn, ep)
      /\ \A k \in Made(d) : k \notin Unplaced(c, fn, ep) => \E i \in DOMAIN d.layout : d.layout[i] = k
  <2>1. \A i \in 1..Len(d.layout) : i > Len(c.layout) =>
          d.layout[i] = Len(c.blocks) + (i - Len(c.layout))
    BY DEF Grows
  <2>2. /\ \A i, j \in DOMAIN c.layout : c.layout[i] = c.layout[j] => i = j
        /\ \A i \in DOMAIN c.layout : c.layout[i] \notin Unplaced(c, fn, ep)
        /\ \A k \in 1..Len(c.blocks) : k \notin Unplaced(c, fn, ep) =>
             \E i \in DOMAIN c.layout : c.layout[i] = k
    BY DEF LayoutOK, Made
  <2>3. DOMAIN c.layout = 1..Len(c.layout) /\ DOMAIN d.layout = 1..Len(d.layout)
        /\ Len(c.layout) \in Nat /\ Len(d.layout) \in Nat
    BY <1>0a
  <2> DEFINE L == c.layout
             K == d.layout
             n == Len(c.layout)
             size == Len(d.layout)
             old == Len(c.blocks)
             top == Len(d.blocks)
             out == Unplaced(c, fn, ep)
  <2>5. Appends(L, K, n, size, old, top, out)
    <3>1. /\ DOMAIN L = 1..n /\ DOMAIN K = 1..size
      BY <2>3
    <3>2. old <= top /\ size = n + (top - old)
      BY <1>1
    <3>3. \A i \in 1..n : K[i] = L[i] /\ L[i] \in 1..old /\ L[i] \notin out
      BY <1>2, <2>2, <2>3
    <3>4. /\ \A i, j \in 1..n : L[i] = L[j] => i = j
          /\ \A k \in 1..old : k \notin out => \E i \in 1..n : L[i] = k
      BY <2>2, <2>3
    <3>5. n \in Nat /\ size \in Nat /\ old \in Nat /\ top \in Nat
      BY <1>1, <2>3
    <3> QED
      BY <1>3, <2>1, <3>1, <3>2, <3>3, <3>4, <3>5 DEF Appends
  <2> HIDE DEF L, K, n, size, old, top, out
  <2>6. /\ \A i, j \in DOMAIN K : K[i] = K[j] => i = j
        /\ \A i \in DOMAIN K : K[i] \in 1..top /\ K[i] \notin out
        /\ \A k \in 1..top : k \notin out => \E i \in DOMAIN K : K[i] = k
    BY <2>5, Appending
  <2> QED
    BY <2>6 DEF Made, K, top, out
<1>5. ASSUME NEW i \in DOMAIN d.layout
      PROVE  \E j \in 1..i, g \in Begun(m, new) :
               /\ m[g].op = "function" /\ d.blocks[d.layout[i]].fn = m[g].id
               /\ d.layout[j] = At(m, new, g)
  <2>0. /\ DOMAIN d.layout = 1..Len(d.layout) /\ DOMAIN c.layout = 1..Len(c.layout)
        /\ Len(c.layout) \in Nat /\ Len(d.layout) \in Nat
    BY <1>0a
  <2>1. CASE i \in 1..Len(c.layout)
    <3>1. PICK j \in 1..i, g \in Begun(m, map) :
            /\ m[g].op = "function" /\ c.blocks[c.layout[i]].fn = m[g].id
            /\ c.layout[j] = At(m, map, g)
      BY <2>0, <2>1 DEF LayoutOK
    <3>2. j \in 1..Len(c.layout)
      BY <2>0, <2>1
    <3>3. d.blocks[d.layout[i]] = c.blocks[c.layout[i]]
      <4>1. c.layout[i] \in Made(c) /\ d.layout[i] = c.layout[i]
        BY <1>2, <2>1 DEF Made
      <4> QED
        BY <4>1, GrowthKeeps
    <3>4. d.layout[j] = At(m, new, g) /\ g \in Begun(m, new)
      BY <1>2, <3>1, <3>2, GrowthKeeps
    <3> QED
      BY <3>1, <3>3, <3>4
  <2>2. CASE i \notin 1..Len(c.layout)
    <3>1. i > Len(c.layout) /\ i \in Nat
      BY <2>0, <2>2
    <3>2. d.layout[i] \in Made(d) /\ d.layout[i] \notin Made(c)
      <4>1. d.layout[i] = Len(c.blocks) + (i - Len(c.layout))
        BY <2>0, <3>1 DEF Grows
      <4>2. d.layout[i] > Len(c.blocks)
        BY <1>1, <2>0, <3>1, <4>1
      <4> QED
        BY <1>1, <1>4, <4>2 DEF Made
    <3>3. PICK v \in Begun(m, new) : v \notin Begun(m, map) /\ At(m, new, v) = d.layout[i]
      BY <3>2 DEF Grows
    <3>4. CASE m[v].op = "function"
      <4>1. d.blocks[d.layout[i]].fn = m[v].id
        BY <3>3, <3>4 DEF Grows
      <4>2. i \in 1..i
        BY <2>0
      <4> QED
        BY <3>3, <3>4, <4>1, <4>2
    <3>5. CASE m[v].op = "label"
      <4>1. ~ Outside(m, w) /\ d.blocks[d.layout[i]].fn = fn
        BY <3>3, <3>5 DEF Grows
      <4>2. PICK g \in Begun(m, map), j \in DOMAIN c.layout :
              m[g].op = "function" /\ m[g].id = fn /\ c.layout[j] = At(m, map, g)
        BY <4>1, EntryPlaced
      <4>3. j \in 1..i /\ j \in 1..Len(c.layout)
        BY <2>0, <3>1, <4>2
      <4>4. d.layout[j] = At(m, new, g) /\ g \in Begun(m, new)
        BY <1>2, <4>2, <4>3, GrowthKeeps
      <4> QED
        BY <4>1, <4>2, <4>3, <4>4
    <3> QED
      BY <3>4, <3>5, BegunFacts DEF Here
  <2> QED
    BY <2>1, <2>2
<1> QED
  BY <1>0, <1>4, <1>5 DEF LayoutOK

LEMMA GrowTargets ==
  ASSUME NEW m, NEW map, NEW new, NEW w, NEW c, NEW d, NEW fn,
         Here(m, map, w, c), Grows(m, map, new, w, c, d, fn), TargetsOK(m, map, c)
  PROVE  TargetsOK(m, new, d)
<1> SUFFICES ASSUME NEW i \in Made(d)
             PROVE  /\ d.blocks[i].term.kind # "double"
                    /\ \A k \in DOMAIN d.blocks[i].term.to :
                         /\ d.blocks[i].term.to[k] \in Made(d)
                         /\ d.blocks[d.blocks[i].term.to[k]].fn = d.blocks[i].fn
                         /\ \A g \in Begun(m, new) :
                              m[g].op = "function" => At(m, new, g) # d.blocks[i].term.to[k]
  BY DEF TargetsOK
<1>1. CASE i \in Made(c)
  <2>1. d.blocks[i] = c.blocks[i]
    BY <1>1, GrowthKeeps
  <2>2. ASSUME NEW k \in DOMAIN c.blocks[i].term.to
        PROVE  /\ c.blocks[i].term.to[k] \in Made(d)
               /\ d.blocks[c.blocks[i].term.to[k]].fn = c.blocks[i].fn
               /\ \A g \in Begun(m, new) :
                    m[g].op = "function" => At(m, new, g) # c.blocks[i].term.to[k]
    <3>1. /\ c.blocks[i].term.to[k] \in Made(c)
          /\ c.blocks[c.blocks[i].term.to[k]].fn = c.blocks[i].fn
          /\ \A g \in Begun(m, map) : m[g].op = "function" => At(m, map, g) # c.blocks[i].term.to[k]
      BY <1>1 DEF TargetsOK
    <3>2. /\ c.blocks[i].term.to[k] \in Made(d)
          /\ d.blocks[c.blocks[i].term.to[k]].fn = c.blocks[i].fn
      BY <3>1, GrowthKeeps
    <3>3. ASSUME NEW g \in Begun(m, new), m[g].op = "function"
          PROVE  At(m, new, g) # c.blocks[i].term.to[k]
      <4>1. CASE g \in Begun(m, map)
        BY <3>1, <3>3, <4>1, GrowthKeeps
      <4>2. CASE g \notin Begun(m, map)
        BY <3>1, <4>2, GrowthKeeps
      <4> QED
        BY <4>1, <4>2
    <3> QED
      BY <3>2, <3>3
  <2> QED
    BY <1>1, <2>1, <2>2 DEF TargetsOK
<1>2. CASE i \notin Made(c)
  <2>1. d.blocks[i].term = NoTerm
    BY <1>2 DEF Grows
  <2> QED
    BY <2>1 DEF NoTerm, Term
<1> QED
  BY <1>1, <1>2

LEMMA PendingBegun ==
  ASSUME NEW m, Valid(m), NEW map, NEW w \in Nat, w >= 1
  PROVE  \A v : v \in Pending(m, map, w) <=> v \in Begun(m, map) /\ v >= w
<1>1. DOMAIN m = 1..Len(m) /\ Len(m) \in Nat
  BY DEF Valid
<1> QED
  BY <1>1 DEF Pending, Begun

LEMMA GrowOpen ==
  ASSUME NEW m, NEW map, NEW new, NEW w, NEW c, NEW d, NEW fn, NEW out,
         Here(m, map, w, c), Grows(m, map, new, w, c, d, fn), OpenOK(m, map, w, c, out)
  PROVE  OpenOK(m, new, w, d, out)
<1> SUFFICES ASSUME NEW i \in Made(d), Open(d, i)
             PROVE  \/ i \in out
                    \/ \E v \in Pending(m, new, w) : At(m, new, v) = i
                    \/ i = d.insert /\ w \in DOMAIN m /\ m[w].op \in InBlock \union {"functionEnd"}
  BY DEF OpenOK
<1>0. /\ \A v : v \in Pending(m, map, w) <=> v \in Begun(m, map) /\ v >= w
      /\ \A v : v \in Pending(m, new, w) <=> v \in Begun(m, new) /\ v >= w
  BY PendingBegun DEF Here
<1>1. CASE i \in Made(c)
  <2>1. Open(c, i)
    BY <1>1, GrowthKeeps DEF Open
  <2> QED
    BY <1>0, <1>1, <2>1, GrowthKeeps DEF OpenOK
<1>2. CASE i \notin Made(c)
  BY <1>0, <1>2 DEF Grows
<1> QED
  BY <1>1, <1>2

(* What has been read keeps its code and its end. *)
LEMMA CodeStays ==
  ASSUME NEW m, NEW map, NEW new, NEW w \in Nat, Valid(m), w <= Len(m) + 1, Keeping(map, new),
         DistinctOK(m, map, w), NEW v \in 1..(w - 1), NEW e \in Nat, e <= w
  PROVE  CodeOf(m, new, v, e) = CodeOf(m, map, v, e)
<1>1. ASSUME NEW i \in 1..(e - v - 1), m[v + i].op = "call"
      PROVE  new[m[v + i].id] = map[m[v + i].id]
  <2>1. v + i \in 1..(w - 1) /\ v + i \in DOMAIN m
    BY DEF Valid
  <2>2. m[v + i].id \in Ids
    BY <1>1, <2>1, Fields
  <2>3. map[m[v + i].id] # Nothing
    BY <1>1, <2>1 DEF DistinctOK
  <2> QED
    BY <2>2, <2>3 DEF Keeping
<1> QED
  BY <1>1 DEF CodeOf

LEMMA EndStays ==
  ASSUME NEW m, NEW map, NEW new, NEW w \in Nat, Valid(m), w <= Len(m) + 1, Keeping(map, new),
         DistinctOK(m, map, w), NEW c, NEW d, NEW ep, NEW v \in 1..(w - 1),
         NEW e \in (v + 1)..(w - 1), EndedAt(m, map, c, ep, v, e),
         At(m, new, v) = At(m, map, v),
         d.blocks[At(m, map, v)] = c.blocks[At(m, map, v)],
         SameStage(c, d) \/ c.blocks[At(m, map, v)].fn \notin ep
  PROVE  EndedAt(m, new, d, ep, v, e)
<1>1. CodeOf(m, new, v, e) = CodeOf(m, map, v, e)
  BY CodeStays
<1>2. TermFor(m, map, c, ep, c.blocks[At(m, map, v)], e)
  BY DEF EndedAt
<1>3. TermFor(m, new, d, ep, d.blocks[At(m, new, v)], e)
  <2>1. m[e].op \in Branches =>
          [i \in DOMAIN m[e].labels |-> new[m[e].labels[i]]]
            = [i \in DOMAIN m[e].labels |-> map[m[e].labels[i]]]
    <3> SUFFICES ASSUME m[e].op \in Branches, NEW i \in DOMAIN m[e].labels
                 PROVE  new[m[e].labels[i]] = map[m[e].labels[i]]
      OBVIOUS
    <3>1. e \in 1..(w - 1) /\ e \in DOMAIN m
      BY DEF Valid
    <3>2. m[e].labels[i] \in Ids
      BY <3>1, Fields
    <3> QED
      BY <3>1, <3>2 DEF DistinctOK, Keeping
  <2> QED
    BY <1>2, <2>1 DEF TermFor, SameStage
<1> QED
  BY <1>1, <1>3 DEF EndedAt

LEMMA GrowCode ==
  ASSUME NEW m, NEW map, NEW new, NEW w, NEW c, NEW d, NEW fn, NEW ep,
         Here(m, map, w, c), Grows(m, map, new, w, c, d, fn), CodeOK(m, map, w, c, ep),
         DistinctOK(m, map, w), \A v \in Begun(m, map) : At(m, map, v) \in Made(c)
  PROVE  CodeOK(m, new, w, d, ep)
<1>0. /\ \A v : v \in Pending(m, map, w) <=> v \in Begun(m, map) /\ v >= w
      /\ \A v : v \in Pending(m, new, w) <=> v \in Begun(m, new) /\ v >= w
  BY PendingBegun DEF Here
<1>1. ASSUME NEW v \in Pending(m, new, w)
      PROVE  d.blocks[At(m, new, v)].code = <<>>
  <2>1. CASE v \in Begun(m, map)
    <3>1. v \in Pending(m, map, w) /\ At(m, new, v) = At(m, map, v)
          /\ d.blocks[At(m, map, v)] = c.blocks[At(m, map, v)]
      BY <1>0, <2>1, GrowthKeeps
    <3> QED
      BY <3>1 DEF CodeOK
  <2>2. CASE v \notin Begun(m, map)
    <3>1. At(m, new, v) \in Made(d) /\ At(m, new, v) \notin Made(c)
      BY <1>0, <2>2, GrowthKeeps
    <3> QED
      BY <3>1 DEF Grows
  <2> QED
    BY <2>1, <2>2
<1>2. ASSUME NEW v \in 1..(w - 1), m[v].op = "label"
      PROVE  /\ At(m, new, v) = At(m, map, v)
             /\ d.blocks[At(m, map, v)] = c.blocks[At(m, map, v)]
  <2>1. v \in Begun(m, map)
    BY <1>2 DEF DistinctOK, Definitions
  <2> QED
    BY <2>1, GrowthKeeps
<1>3. Keeping(map, new) /\ SameStage(c, d) /\ d.insert = c.insert /\ w \in Nat /\ Valid(m)
      /\ w <= Len(m) + 1
  <2>1. Keeping(map, new) /\ d.insert = c.insert
    BY GrowthKeeps
  <2>2. SameStage(c, d)
    BY DEF Grows
  <2> QED
    BY <2>1, <2>2 DEF Here
<1>4. ASSUME NEW v \in 1..(w - 1), m[v].op = "label", Current(m, map, w, c, v)
      PROVE  Current(m, new, w, d, v)
  <2>1. CodeOf(m, new, v, w) = CodeOf(m, map, v, w)
    BY <1>3, CodeStays
  <2> QED
    BY <1>2, <1>3, <1>4, <2>1 DEF Current
<1>5. ASSUME NEW v \in 1..(w - 1), m[v].op = "label"
      PROVE  \/ \E e \in (v + 1)..(w - 1) : EndedAt(m, new, d, ep, v, e)
             \/ InABlock(m, w) /\ Current(m, new, w, d, v)
  <2>1. CASE \E e \in (v + 1)..(w - 1) : EndedAt(m, map, c, ep, v, e)
    <3>1. PICK e \in (v + 1)..(w - 1) : EndedAt(m, map, c, ep, v, e)
      BY <2>1
    <3> QED
      BY <1>2, <1>3, <1>5, <3>1, EndStays
  <2>2. CASE InABlock(m, w) /\ Current(m, map, w, c, v)
    BY <1>4, <1>5, <2>2
  <2> QED
    BY <1>5, <2>1, <2>2 DEF CodeOK
<1> QED
  BY <1>1, <1>4, <1>5 DEF CodeOK

LEMMA GrowGraph ==
  ASSUME NEW m, NEW map, NEW new, NEW w, NEW c, NEW d, NEW fn, NEW ep,
         Here(m, map, w, c), Grows(m, map, new, w, c, d, fn), w \in DOMAIN m,
         m[w].op # "entryPoint", GraphOK(m, map, w, c, fn, ep)
  PROVE  GraphOK(m, new, w, d, fn, ep)
<1>1. \A v \in Begun(m, map) : At(m, map, v) \in Made(c)
  BY DEF GraphOK, CoverOK
<1>2. Unplaced(d, fn, ep) = Unplaced(c, fn, ep)
  BY GrowthKeeps DEF Unplaced
<1> QED
  BY <1>1, <1>2, GrowWords, GrowOwners, GrowDistinct, GrowCover, GrowLayout, GrowTargets,
     GrowOpen, GrowCode DEF GraphOK

-----------------------------------------------------------------------------
(* A word within a function has been read.  What stays of the blocks:      *)
Stays(c, d) ==
  /\ c \in BuilderType /\ d \in BuilderType /\ Len(d.blocks) = Len(c.blocks)
  /\ \A i \in Made(c) : d.blocks[i].fn = c.blocks[i].fn
  /\ SameStage(c, d) /\ d.layout = c.layout

LEMMA StaysMade ==
  ASSUME NEW c, NEW d, Stays(c, d)
  PROVE  Made(d) = Made(c) /\ Stages(d) = Stages(c)
BY DEF Stays, Made, Stages, SameStage

LEMMA WordFacts ==
  ASSUME NEW m, Valid(m), NEW w \in DOMAIN m, ~ Outside(m, w), m[w].op # "functionEnd"
  PROVE  /\ w \in Nat /\ w >= 1 /\ w < Len(m) /\ w + 1 \in DOMAIN m /\ ~ Outside(m, w + 1)
         /\ m[w].op \in InBlock \union {"label"}
         /\ m[w].op \notin Terminators => m[w + 1].op \in InBlock
         /\ m[w].op \in Terminators => m[w + 1].op \in {"label", "functionEnd"}
<1>1. m[w].op \in InBlock \union {"label"}
  BY Fields DEF Outside, Opcodes, Definitions
<1>2. w \in Nat /\ w >= 1 /\ w + 1 \in DOMAIN m /\ m[w + 1].op \in Follows(m[w].op)
  BY <1>1, NextWord DEF InBlock, Terminators, Branches
<1>3. w < Len(m)
  BY <1>2 DEF Valid
<1>4. m[w].op \notin Terminators => m[w].op \in {"label", "stmt", "call", "phi"}
  BY <1>1 DEF InBlock
<1>5. /\ m[w].op \notin Terminators => m[w + 1].op \in InBlock
      /\ m[w].op \in Terminators => m[w + 1].op \in {"label", "functionEnd"}
  BY <1>2, <1>4, Following
<1>6. ~ Outside(m, w + 1)
  BY <1>2, <1>5 DEF Outside, InBlock, Terminators, Branches
<1> QED
  BY <1>1, <1>2, <1>3, <1>5, <1>6

LEMMA WordWords ==
  ASSUME NEW m, NEW map, NEW w, NEW c, NEW d, NEW fn, Here(m, map, w, c), w \in DOMAIN m,
         ~ Outside(m, w), m[w].op # "functionEnd", WordsOK(m, map, w, c, fn),
         d.blocks[d.insert].fn = fn
  PROVE  WordsOK(m, map, w + 1, d, fn)
<1>0. Valid(m)
  BY DEF Here
<1>1. /\ w \in Nat /\ ~ Outside(m, w + 1) /\ w >= 1
      /\ m[w].op # "function" /\ (w + 1 \in DOMAIN m => m[w + 1].op # "entryPoint")
  BY <1>0, WordFacts DEF Outside
<1>2. PICK f \in 1..(w - 1) : /\ m[f].op = "function" /\ m[f].id = fn
                             /\ \A u \in (f + 1)..(w - 1) : m[u].op # "function"
  BY DEF WordsOK
<1>3. f \in 1..((w + 1) - 1) /\ \A u \in (f + 1)..((w + 1) - 1) : m[u].op # "function"
  BY <1>1, <1>2
<1> QED
  BY <1>1, <1>2, <1>3 DEF WordsOK

LEMMA WordOwners ==
  ASSUME NEW m, NEW map, NEW w, NEW c, NEW d, NEW fn, Here(m, map, w, c), w \in DOMAIN m,
         ~ Outside(m, w), m[w].op # "functionEnd", WordsOK(m, map, w, c, fn),
         OwnersOK(m, map, w, c, fn), Stays(c, d),
         \A v \in Begun(m, map) : At(m, map, v) \in Made(c)
  PROVE  OwnersOK(m, map, w + 1, d, fn)
<1>0. Valid(m) /\ w \in Nat /\ w >= 1 /\ ~ Outside(m, w + 1) /\ m[w].op # "function"
  BY WordFacts DEF Here, Outside
<1> SUFFICES ASSUME NEW v \in Begun(m, map)
    PROVE /\ m[v].op = "function" => d.blocks[At(m, map, v)].fn = m[v].id
          /\ m[v].op = "label" /\ v < w + 1 =>
               \E f \in DOMAIN m : Behind(m, f, v) /\ d.blocks[At(m, map, v)].fn = m[f].id
          /\ m[v].op = "label" /\ (\A u \in v..((w + 1) - 1) : m[u].op # "functionEnd") =>
               ~ Outside(m, w + 1) /\ d.blocks[At(m, map, v)].fn = fn
          /\ m[v].op = "label" => \A u \in (w + 1)..v : m[u].op # "functionEnd"
  BY DEF OwnersOK
<1>1. d.blocks[At(m, map, v)].fn = c.blocks[At(m, map, v)].fn /\ v \in Nat
  BY <1>0, BegunFacts DEF Stays
<1>2. m[v].op = "function" => d.blocks[At(m, map, v)].fn = m[v].id
  BY <1>1 DEF OwnersOK
<1>3. ASSUME m[v].op = "label", v < w
      PROVE  \E f \in DOMAIN m : Behind(m, f, v) /\ d.blocks[At(m, map, v)].fn = m[f].id
  BY <1>1, <1>3 DEF OwnersOK
<1>4. ASSUME m[v].op = "label", v = w
      PROVE  \E f \in DOMAIN m : Behind(m, f, v) /\ d.blocks[At(m, map, v)].fn = m[f].id
  <2>0. \A u \in v..(w - 1) : m[u].op # "functionEnd"
    BY <1>0, <1>4
  <2>1. d.blocks[At(m, map, v)].fn = fn
    BY <1>1, <1>4, <2>0 DEF OwnersOK
  <2>2. PICK f \in 1..(w - 1) : /\ m[f].op = "function" /\ m[f].id = fn
                               /\ \A u \in (f + 1)..(w - 1) : m[u].op # "function"
    BY DEF WordsOK
  <2>3. Behind(m, f, w)
    BY <1>0, <2>2 DEF Behind
  <2>4. f \in DOMAIN m
    BY <1>0, <2>2 DEF Valid
  <2> QED
    BY <1>4, <2>1, <2>2, <2>3, <2>4
<1>5. ASSUME m[v].op = "label", \A u \in v..((w + 1) - 1) : m[u].op # "functionEnd"
      PROVE  d.blocks[At(m, map, v)].fn = fn
  <2>1. \A u \in v..(w - 1) : m[u].op # "functionEnd"
    BY <1>0, <1>1, <1>5
  <2> QED
    BY <1>1, <1>5, <2>1 DEF OwnersOK
<1>7. m[v].op = "label" => \A u \in (w + 1)..v : m[u].op # "functionEnd"
  <2>1. \A u \in (w + 1)..v : u \in w..v
    BY <1>0, <1>1
  <2> QED
    BY <2>1 DEF OwnersOK
<1>6. v < w + 1 => v < w \/ v = w
  BY <1>0, <1>1
<1> QED
  BY <1>0, <1>2, <1>3, <1>4, <1>5, <1>6, <1>7

LEMMA WordDistinct ==
  ASSUME NEW m, NEW map, NEW w, NEW c, Here(m, map, w, c), w \in DOMAIN m,
         ~ Outside(m, w), DistinctOK(m, map, w),
         m[w].op = "label" => w \in Begun(m, map),
         m[w].op = "call" => map[m[w].id] # Nothing,
         m[w].op \in Branches => \A i \in DOMAIN m[w].labels : map[m[w].labels[i]] # Nothing
  PROVE  DistinctOK(m, map, w + 1)
<1>1. m[w].op # "function" /\ w \in Nat
  BY DEF Outside, Here
<1>2. m[w].op \in Definitions => w \in Begun(m, map)
  BY <1>1 DEF Definitions
<1>3. \A v \in 1..((w + 1) - 1) : v \in 1..(w - 1) \/ v = w
  BY <1>1
<1> QED
  BY <1>1, <1>2, <1>3 DEF DistinctOK

LEMMA WordMain ==
  ASSUME NEW m, NEW w \in Nat, w >= 1, NEW ep, m[w].op = "function" => m[w].id \notin ep
  PROVE  MainRead(m, w + 1, ep) <=> MainRead(m, w, ep)
<1>1. \A f : f \in 1..((w + 1) - 1) <=> f \in 1..(w - 1) \/ f = w
  OBVIOUS
<1> QED
  BY <1>1 DEF MainRead

LEMMA WordCover ==
  ASSUME NEW m, NEW map, NEW w, NEW c, NEW d, NEW ep, Here(m, map, w, c), w \in DOMAIN m,
         m[w].op # "function", CoverOK(m, map, w, c, ep), Stays(c, d)
  PROVE  CoverOK(m, map, w + 1, d, ep)
<1>1. MainRead(m, w + 1, ep) <=> MainRead(m, w, ep)
  BY WordMain DEF Here
<1>2. Made(d) = Made(c) /\ Stages(d) = Stages(c)
  BY StaysMade
<1>3. MainRead(m, w, ep) => \A i \in Stages(d) : i \in Made(d) /\ d.blocks[i].fn \in ep
  BY <1>2 DEF CoverOK, Stays
<1>4. d.stageEpilogue = c.stageEpilogue /\ d.stageExit = c.stageExit
  BY DEF Stays, SameStage
<1> QED
  BY <1>1, <1>2, <1>3, <1>4 DEF CoverOK

LEMMA WordLayout ==
  ASSUME NEW m, NEW map, NEW c, NEW d, NEW out, LayoutOK(m, map, c, out), Stays(c, d)
  PROVE  LayoutOK(m, map, d, out)
<1>1. Made(d) = Made(c) /\ d.layout = c.layout
  BY StaysMade DEF Stays
<1>2. \A i \in DOMAIN c.layout : d.blocks[c.layout[i]].fn = c.blocks[c.layout[i]].fn
  BY DEF LayoutOK, Stays
<1> QED
  BY <1>1, <1>2 DEF LayoutOK

-----------------------------------------------------------------------------
(* An instruction has been added to the current block, or it has ended.    *)

(* Only the insert block differs. *)
Fills(c, d) ==
  /\ Stays(c, d) /\ d.insert = c.insert
  /\ \A i \in Made(c) : i # c.insert => d.blocks[i] = c.blocks[i]

(* What the insert block may become. *)
GoodEnd(m, map, w, c, blk) ==
  /\ blk.term.kind # "double"
  /\ \A k \in DOMAIN blk.term.to :
       /\ blk.term.to[k] \in Made(c)
       /\ c.blocks[blk.term.to[k]].fn = c.blocks[c.insert].fn
       /\ \A g \in Begun(m, map) : m[g].op = "function" => At(m, map, g) # blk.term.to[k]
  /\ blk.term.kind = "none" => m[w + 1].op \in InBlock \union {"functionEnd"}

LEMMA FillTargets ==
  ASSUME NEW m, NEW map, NEW w, NEW c, NEW d, TargetsOK(m, map, c), Fills(c, d),
         c.insert \in Made(c), GoodEnd(m, map, w, c, d.blocks[c.insert])
  PROVE  TargetsOK(m, map, d)
<1>1. Made(d) = Made(c) /\ \A i \in Made(c) : d.blocks[i].fn = c.blocks[i].fn
  BY StaysMade DEF Fills, Stays
<1> SUFFICES ASSUME NEW i \in Made(c)
    PROVE /\ d.blocks[i].term.kind # "double"
          /\ \A k \in DOMAIN d.blocks[i].term.to :
               /\ d.blocks[i].term.to[k] \in Made(c)
               /\ d.blocks[d.blocks[i].term.to[k]].fn = d.blocks[i].fn
               /\ \A g \in Begun(m, map) :
                    m[g].op = "function" => At(m, map, g) # d.blocks[i].term.to[k]
  BY <1>1 DEF TargetsOK
<1>2. CASE i = c.insert
  BY <1>1, <1>2 DEF GoodEnd
<1>3. CASE i # c.insert
  <2>1. d.blocks[i] = c.blocks[i]
    BY <1>3 DEF Fills
  <2>2. /\ c.blocks[i].term.kind # "double"
        /\ \A k \in DOMAIN c.blocks[i].term.to :
             /\ c.blocks[i].term.to[k] \in Made(c)
             /\ c.blocks[c.blocks[i].term.to[k]].fn = c.blocks[i].fn
             /\ \A g \in Begun(m, map) :
                  m[g].op = "function" => At(m, map, g) # c.blocks[i].term.to[k]
    BY DEF TargetsOK
  <2> QED
    BY <1>1, <2>1, <2>2
<1> QED
  BY <1>2, <1>3

LEMMA FillOpen ==
  ASSUME NEW m, NEW map, NEW w, NEW c, NEW d, NEW out, Valid(m), w \in DOMAIN m, InABlock(m, w),
         OpenOK(m, map, w, c, out), Fills(c, d), c.insert \in Made(c),
         GoodEnd(m, map, w, c, d.blocks[c.insert])
  PROVE  OpenOK(m, map, w + 1, d, out)
<1>1. Made(d) = Made(c)
  BY StaysMade DEF Fills
<1>2. ~ Outside(m, w) /\ m[w].op # "functionEnd" /\ m[w].op \notin Definitions
  BY DEF Outside, InABlock, InBlock, Terminators, Branches, Definitions
<1>3. w + 1 \in DOMAIN m /\ w \in Nat /\ w >= 1
  BY <1>2, WordFacts
<1>4. \A v \in Pending(m, map, w) : v \in Pending(m, map, w + 1)
  <2> SUFFICES ASSUME NEW v \in Pending(m, map, w) PROVE v \in Pending(m, map, w + 1)
    OBVIOUS
  <2>1. v \in Begun(m, map) /\ v >= w /\ v # w /\ v \in Nat
    BY <1>2, <1>3, PendingBegun, BegunFacts
  <2> QED
    BY <1>3, <2>1, PendingBegun
<1> SUFFICES ASSUME NEW i \in Made(c), Open(d, i)
    PROVE  \/ i \in out
           \/ \E v \in Pending(m, map, w + 1) : At(m, map, v) = i
           \/ i = d.insert /\ w + 1 \in DOMAIN m /\ m[w + 1].op \in InBlock \union {"functionEnd"}
  BY <1>1 DEF OpenOK
<1>5. CASE i = c.insert
  BY <1>3, <1>5 DEF GoodEnd, Open, Fills
<1>6. CASE i # c.insert
  <2>1. Open(c, i)
    BY <1>6 DEF Fills, Open
  <2> QED
    BY <1>4, <1>6, <2>1 DEF OpenOK
<1> QED
  BY <1>5, <1>6

(* The label whose block is the insert block. *)
LEMMA OneCurrent ==
  ASSUME NEW m, NEW map, NEW w \in DOMAIN m, NEW c, NEW ep, Valid(m), InABlock(m, w),
         CodeOK(m, map, w, c, ep), DistinctOK(m, map, w)
  PROVE  \E v \in 1..(w - 1) :
           /\ m[v].op = "label" /\ Current(m, map, w, c, v)
           /\ \A u \in 1..(w - 1) : m[u].op = "label" /\ u # v =>
                /\ At(m, map, u) # c.insert
                /\ \E e \in (u + 1)..(w - 1) : EndedAt(m, map, c, ep, u, e)
<1>1. PICK v \in 1..(w - 1) : m[v].op = "label" /\ Current(m, map, w, c, v)
  BY DEF CodeOK
<1>2. ASSUME NEW u \in 1..(w - 1), m[u].op = "label", u # v
      PROVE  At(m, map, u) # c.insert
  <2>1. u \in Begun(m, map) /\ v \in Begun(m, map)
    BY <1>1, <1>2 DEF DistinctOK, Definitions
  <2>2. At(m, map, v) = c.insert
    BY <1>1 DEF Current
  <2>3. u < v \/ v < u
    BY <1>1, <1>2
  <2>4. m[u].op # "function" /\ m[v].op # "function"
    BY <1>1, <1>2
  <2> QED
    BY <2>1, <2>2, <2>3, <2>4 DEF DistinctOK
<1>3. ASSUME NEW u \in 1..(w - 1), m[u].op = "label", u # v
      PROVE  \E e \in (u + 1)..(w - 1) : EndedAt(m, map, c, ep, u, e)
  <2>1. ~ Current(m, map, w, c, u)
    BY <1>2, <1>3 DEF Current
  <2> QED
    BY <1>3, <2>1 DEF CodeOK
<1> QED
  BY <1>1, <1>2, <1>3

LEMMA FillPending ==
  ASSUME NEW m, NEW map, NEW w, NEW c, NEW d, NEW ep, Valid(m), w \in DOMAIN m, InABlock(m, w),
         Fills(c, d), CodeOK(m, map, w, c, ep),
         \A v \in Begun(m, map) : At(m, map, v) \in Made(c),
         \A v \in Pending(m, map, w) : At(m, map, v) = c.insert => v = w
  PROVE  \A v \in Pending(m, map, w + 1) : d.blocks[At(m, map, v)].code = <<>>
<1> SUFFICES ASSUME NEW v \in Pending(m, map, w + 1) PROVE d.blocks[At(m, map, v)].code = <<>>
  OBVIOUS
<1>1. w \in Nat /\ w >= 1
  BY DEF Valid
<1>2. v \in Begun(m, map) /\ v >= w + 1 /\ v \in Nat
  BY <1>1, PendingBegun, BegunFacts
<1>3. v \in Pending(m, map, w) /\ v # w
  BY <1>1, <1>2, PendingBegun
<1>4. d.blocks[At(m, map, v)] = c.blocks[At(m, map, v)]
  BY <1>2, <1>3 DEF Fills
<1> QED
  BY <1>3, <1>4 DEF CodeOK

(* A block that ended earlier keeps its code and its end. *)
LEMMA FillEnded ==
  ASSUME NEW m, NEW map, NEW w, NEW c, NEW d, NEW ep, Valid(m), w \in DOMAIN m,
         Fills(c, d), DistinctOK(m, map, w),
         \A v \in Begun(m, map) : At(m, map, v) \in Made(c),
         NEW u \in 1..(w - 1), m[u].op = "label", At(m, map, u) # c.insert,
         \E e \in (u + 1)..(w - 1) : EndedAt(m, map, c, ep, u, e)
  PROVE  \E e \in (u + 1)..((w + 1) - 1) : EndedAt(m, map, d, ep, u, e)
<1>0. w \in Nat /\ w <= Len(m) + 1
  BY DEF Valid
<1>1. PICK e \in (u + 1)..(w - 1) : EndedAt(m, map, c, ep, u, e)
  OBVIOUS
<1>2. u \in Begun(m, map)
  BY DEF DistinctOK, Definitions
<1>3. d.blocks[At(m, map, u)] = c.blocks[At(m, map, u)]
  BY <1>2 DEF Fills
<1>4. SameStage(c, d)
  BY DEF Fills, Stays
<1>5. EndedAt(m, map, d, ep, u, e)
  BY <1>0, <1>1, <1>3, <1>4, EndStays DEF Keeping
<1>6. e \in (u + 1)..((w + 1) - 1)
  BY <1>0
<1> QED
  BY <1>5, <1>6

(* What a word other than a terminator appends. *)
Word(m, map, w) == IF m[w].op = "call" THEN Event("call", map[m[w].id]) ELSE Event("stmt", w)

LEMMA CodeGrows ==
  ASSUME NEW m, NEW map, NEW w \in Nat, NEW v \in 1..(w - 1)
  PROVE  Append(CodeOf(m, map, v, w), Word(m, map, w)) = CodeOf(m, map, v, w + 1)
<1>1. w - v - 1 \in Nat /\ (w + 1) - v - 1 = (w - v - 1) + 1 /\ v + ((w - v - 1) + 1) = w
  OBVIOUS
<1> DEFINE S == CodeOf(m, map, v, w)
           T == CodeOf(m, map, v, w + 1)
           n == w - v - 1
<1>2. DOMAIN S = 1..n /\ DOMAIN T = 1..(n + 1) /\ \A i \in 1..n : S[i] = T[i]
  BY <1>1 DEF CodeOf
<1>3. T[n + 1] = Word(m, map, w)
  <2>1. n + 1 \in 1..((w + 1) - v - 1) /\ v + (n + 1) = w
    BY <1>1
  <2> QED
    BY <2>1 DEF CodeOf, Word
<1>4. S = [i \in 1..n |-> S[i]] /\ T = [i \in 1..(n + 1) |-> T[i]]
  BY <1>2 DEF CodeOf
<1>5. n \in Nat
  BY <1>1
<1> HIDE DEF S, T, n
<1>6. Append(S, Word(m, map, w)) = T
  <2> DEFINE e == Word(m, map, w)
           X == {S[i] : i \in 1..n} \union {e}
  <2>1. S \in Seq(X) /\ Len(S) = n /\ e \in X
    BY <1>4, <1>5
  <2> HIDE DEF e, X
  <2>2. /\ Append(S, e) \in Seq(X) /\ Len(Append(S, e)) = n + 1
        /\ Append(S, e)[n + 1] = e /\ \A i \in 1..n : Append(S, e)[i] = S[i]
    BY <2>1, AppendProperties
  <2>3. \A i \in 1..(n + 1) : i \in 1..n \/ i = n + 1
    BY <1>5
  <2>4. \A i \in 1..(n + 1) : Append(S, e)[i] = T[i]
    BY <1>2, <1>3, <2>2, <2>3 DEF e
  <2>5. Append(S, e) \in [1..(n + 1) -> X]
    BY <2>2, LenProperties
  <2>6. Append(S, e) = [i \in 1..(n + 1) |-> Append(S, e)[i]]
    BY <2>5
  <2> QED
    BY <1>4, <2>4, <2>6 DEF e
<1> QED
  BY <1>6 DEF S, T

LEMMA FillCodeOn ==
  ASSUME NEW m, NEW map, NEW w, NEW c, NEW d, NEW ep, Valid(m), w \in DOMAIN m, InABlock(m, w),
         m[w].op \notin Terminators, Fills(c, d), CodeOK(m, map, w, c, ep), DistinctOK(m, map, w),
         \A v \in Begun(m, map) : At(m, map, v) \in Made(c),
         \A v \in Pending(m, map, w) : At(m, map, v) = c.insert => v = w,
         d.blocks[c.insert].code = Append(c.blocks[c.insert].code, Word(m, map, w))
  PROVE  CodeOK(m, map, w + 1, d, ep)
<1>1. PICK v \in 1..(w - 1) :
           /\ m[v].op = "label" /\ Current(m, map, w, c, v)
           /\ \A u \in 1..(w - 1) : m[u].op = "label" /\ u # v =>
                /\ At(m, map, u) # c.insert
                /\ \E e \in (u + 1)..(w - 1) : EndedAt(m, map, c, ep, u, e)
  BY OneCurrent
<1>2. ~ Outside(m, w) /\ m[w].op # "functionEnd" /\ m[w].op # "label" /\ w \in Nat
  <2>1. w \in Nat
    BY DEF Valid
  <2> QED
    BY <2>1 DEF Outside, InABlock, InBlock, Terminators, Branches
<1>3. InABlock(m, w + 1)
  BY <1>2, WordFacts DEF InABlock
<1>4. Current(m, map, w + 1, d, v)
  <2>1. d.blocks[d.insert].code = CodeOf(m, map, v, w + 1)
    BY <1>1, <1>2, CodeGrows DEF Current, Fills
  <2>2. NoEnd(m, v, w + 1)
    <3>1. \A u \in (v + 1)..((w + 1) - 1) : u \in (v + 1)..(w - 1) \/ u = w
      BY <1>1, <1>2
    <3> QED
      BY <1>1, <3>1 DEF NoEnd, Current
  <2> QED
    BY <1>1, <2>1, <2>2 DEF Current, Fills
<1>5. v \in 1..((w + 1) - 1)
  BY <1>1, <1>2
<1>6. ASSUME NEW u \in 1..((w + 1) - 1), m[u].op = "label", u # v
      PROVE  \E e \in (u + 1)..((w + 1) - 1) : EndedAt(m, map, d, ep, u, e)
  <2>1. u \in 1..(w - 1)
    BY <1>2, <1>6
  <2> QED
    BY <1>1, <1>6, <2>1, FillEnded
<1>7. \A u \in Pending(m, map, w + 1) : d.blocks[At(m, map, u)].code = <<>>
  BY FillPending
<1> QED
  BY <1>1, <1>3, <1>4, <1>5, <1>6, <1>7 DEF CodeOK

(* The words in front of w, and w. *)
LEMMA ReadOn ==
  ASSUME NEW m, Valid(m), NEW w \in DOMAIN m
  PROVE  /\ w \in Nat
         /\ \A v \in 1..(w - 1) : v \in 1..((w + 1) - 1) /\ w \in (v + 1)..((w + 1) - 1)
         /\ \A u \in 1..((w + 1) - 1) : u \in 1..(w - 1) \/ u = w
<1>1. w \in Nat
  BY NextWord
<1> QED
  BY <1>1

LEMMA FillCodeEnd ==
  ASSUME NEW m, NEW map, NEW w, NEW c, NEW d, NEW ep, Valid(m), w \in DOMAIN m,
         m[w].op \in Terminators, Fills(c, d), CodeOK(m, map, w, c, ep), DistinctOK(m, map, w),
         \A v \in Begun(m, map) : At(m, map, v) \in Made(c),
         \A v \in Pending(m, map, w) : At(m, map, v) = c.insert => v = w,
         d.blocks[c.insert].code = c.blocks[c.insert].code \o Killed(m[w].op),
         TermFor(m, map, d, ep, d.blocks[c.insert], w)
  PROVE  CodeOK(m, map, w + 1, d, ep)
<1>0. InABlock(m, w)
  BY DEF InABlock, InBlock
<1>1. PICK v \in 1..(w - 1) :
           /\ m[v].op = "label" /\ Current(m, map, w, c, v)
           /\ \A u \in 1..(w - 1) : m[u].op = "label" /\ u # v =>
                /\ At(m, map, u) # c.insert
                /\ \E e \in (u + 1)..(w - 1) : EndedAt(m, map, c, ep, u, e)
  BY <1>0, OneCurrent
<1>n. /\ w \in Nat /\ v \in 1..((w + 1) - 1) /\ w \in (v + 1)..((w + 1) - 1)
      /\ \A u \in 1..((w + 1) - 1) : u \in 1..(w - 1) \/ u = w
  BY Zenon, ReadOn
<1>2. ~ Outside(m, w) /\ m[w].op # "functionEnd" /\ m[w].op # "label" /\ w \in Nat
  BY <1>n DEF Outside, Terminators, Branches
<1>3. ~ InABlock(m, w + 1)
  BY <1>2, WordFacts DEF InABlock, InBlock, Terminators, Branches
<1>4. EndedAt(m, map, d, ep, v, w)
  BY <1>1 DEF Current, EndedAt
<1>5. v \in 1..((w + 1) - 1) /\ w \in (v + 1)..((w + 1) - 1)
  BY Zenon, <1>n
<1>6. ASSUME NEW u \in 1..((w + 1) - 1), m[u].op = "label", u # v
      PROVE  \E e \in (u + 1)..((w + 1) - 1) : EndedAt(m, map, d, ep, u, e)
  <2>1. u \in 1..(w - 1)
    <3>1. u # w
      BY <1>2, <1>6
    <3> QED
      BY Zenon, <1>n, <3>1
  <2> QED
    BY <1>1, <1>6, <2>1, FillEnded
<1>7. \A u \in Pending(m, map, w + 1) : d.blocks[At(m, map, u)].code = <<>>
  BY <1>0, FillPending
<1> QED
  BY <1>1, <1>3, <1>4, <1>5, <1>6, <1>7 DEF CodeOK

(* A word in a block has been read. *)
LEMMA FillGraph ==
  ASSUME NEW m, NEW map, NEW w, NEW c, NEW d, NEW fn, NEW ep, Here(m, map, w, c), InABlock(m, w),
         GraphOK(m, map, w, c, fn, ep), Fills(c, d), GoodEnd(m, map, w, c, d.blocks[c.insert]),
         \A v \in Pending(m, map, w) : At(m, map, v) = c.insert => v = w,
         m[w].op = "call" => map[m[w].id] # Nothing,
         m[w].op \in Branches => \A i \in DOMAIN m[w].labels : map[m[w].labels[i]] # Nothing,
         \/ /\ m[w].op \notin Terminators
            /\ d.blocks[c.insert].code = Append(c.blocks[c.insert].code, Word(m, map, w))
         \/ /\ m[w].op \in Terminators
            /\ d.blocks[c.insert].code = c.blocks[c.insert].code \o Killed(m[w].op)
            /\ TermFor(m, map, d, ep, d.blocks[c.insert], w)
  PROVE  GraphOK(m, map, w + 1, d, fn, ep)
<1>1. /\ ~ Outside(m, w) /\ m[w].op # "functionEnd" /\ m[w].op # "function" /\ m[w].op # "label"
      /\ w \in DOMAIN m /\ c.insert \in Made(c) /\ Valid(m) /\ Stays(c, d)
  BY DEF Outside, InABlock, InBlock, Terminators, Branches, Here, Fills
<1>2. \A v \in Begun(m, map) : At(m, map, v) \in Made(c)
  BY DEF GraphOK, CoverOK
<1>3. Unplaced(d, fn, ep) = Unplaced(c, fn, ep)
  BY <1>1, StaysMade DEF Unplaced
<1>4. WordsOK(m, map, w + 1, d, fn)
  <2>1. d.blocks[d.insert].fn = fn
    BY <1>1 DEF GraphOK, WordsOK, Fills, Stays
  <2> QED
    BY <1>1, <2>1, WordWords DEF GraphOK
<1>5. OwnersOK(m, map, w + 1, d, fn)
  BY <1>1, <1>2, WordOwners DEF GraphOK
<1>6. DistinctOK(m, map, w + 1)
  BY <1>1, WordDistinct DEF GraphOK
<1>7. CoverOK(m, map, w + 1, d, ep)
  BY <1>1, WordCover DEF GraphOK
<1>8. LayoutOK(m, map, d, Unplaced(d, fn, ep))
  BY <1>1, <1>3, WordLayout DEF GraphOK
<1>9. TargetsOK(m, map, d)
  BY <1>1, FillTargets DEF GraphOK
<1>10. OpenOK(m, map, w + 1, d, Unplaced(d, fn, ep))
  BY <1>1, <1>3, FillOpen DEF GraphOK
<1>11. CodeOK(m, map, w + 1, d, ep)
  BY <1>1, <1>2, FillCodeOn, FillCodeEnd DEF GraphOK
<1> QED
  BY <1>4, <1>5, <1>6, <1>7, <1>8, <1>9, <1>10, <1>11 DEF GraphOK

-----------------------------------------------------------------------------
(* A label has been read: its block becomes the current one. *)
Turns(c, d, blk) == Stays(c, d) /\ d.blocks = c.blocks /\ d.insert = blk

LEMMA LabelCode ==
  ASSUME NEW m, NEW map, NEW w \in DOMAIN m, NEW c, NEW d, NEW ep, Valid(m), m[w].op = "label",
         w \in Begun(m, map), Turns(c, d, At(m, map, w)), CodeOK(m, map, w, c, ep),
         DistinctOK(m, map, w)
  PROVE  CodeOK(m, map, w + 1, d, ep)
<1>1. /\ ~ Outside(m, w) /\ m[w].op # "functionEnd" /\ m[w].op \notin Terminators
      /\ ~ InABlock(m, w) /\ w \in Nat /\ w >= 1 /\ w <= Len(m) + 1
  BY DEF Outside, InABlock, InBlock, Terminators, Branches, Valid
<1>2. InABlock(m, w + 1)
  BY <1>1, WordFacts DEF InABlock
<1>3. ASSUME NEW v \in Pending(m, map, w + 1)
      PROVE  d.blocks[At(m, map, v)].code = <<>>
  <2>1. v \in Begun(m, map) /\ v >= w + 1 /\ v \in Nat
    BY <1>1, PendingBegun, BegunFacts
  <2>2. v \in Pending(m, map, w)
    BY <1>1, <2>1, PendingBegun
  <2> QED
    BY <2>2 DEF CodeOK, Turns
<1>4. Current(m, map, w + 1, d, w)
  <2>1. w \in Pending(m, map, w)
    BY <1>1, PendingBegun
  <2>2. d.blocks[d.insert].code = <<>>
    BY <2>1 DEF CodeOK, Turns
  <2>3. CodeOf(m, map, w, w + 1) = <<>>
    <3>1. 1..((w + 1) - w - 1) = {}
      BY <1>1
    <3> QED
      BY <3>1 DEF CodeOf
  <2>4. NoEnd(m, w, w + 1)
    BY <1>1 DEF NoEnd
  <2> QED
    BY <2>2, <2>3, <2>4 DEF Current, Turns
<1>5. ASSUME NEW v \in 1..((w + 1) - 1), m[v].op = "label", v # w
      PROVE  \E e \in (v + 1)..((w + 1) - 1) : EndedAt(m, map, d, ep, v, e)
  <2>1. v \in 1..(w - 1)
    BY <1>1, <1>5
  <2>2. PICK e \in (v + 1)..(w - 1) : EndedAt(m, map, c, ep, v, e)
    BY <1>1, <1>5, <2>1 DEF CodeOK
  <2>3. EndedAt(m, map, d, ep, v, e)
    BY <1>1, <2>1, <2>2, EndStays DEF Keeping, Turns, Stays
  <2>4. e \in (v + 1)..((w + 1) - 1)
    BY <1>1
  <2> QED
    BY <2>3, <2>4
<1>6. w \in 1..((w + 1) - 1)
  BY <1>1
<1> QED
  BY <1>2, <1>3, <1>4, <1>5, <1>6 DEF CodeOK

LEMMA LabelGraph ==
  ASSUME NEW m, NEW map, NEW w, NEW c, NEW d, NEW fn, NEW ep, Here(m, map, w, c), w \in DOMAIN m,
         m[w].op = "label", w \in Begun(m, map), GraphOK(m, map, w, c, fn, ep),
         Turns(c, d, At(m, map, w))
  PROVE  GraphOK(m, map, w + 1, d, fn, ep)
<1>1. /\ ~ Outside(m, w) /\ m[w].op # "functionEnd" /\ m[w].op # "function"
      /\ m[w].op \notin Terminators /\ m[w].op \notin InBlock \union {"functionEnd"}
      /\ Valid(m) /\ Stays(c, d) /\ w \in Nat /\ w >= 1
      /\ m[w].op # "call" /\ m[w].op \notin Branches
  BY DEF Outside, InBlock, Terminators, Branches, Here, Turns
<1>2. \A v \in Begun(m, map) : At(m, map, v) \in Made(c)
  BY DEF GraphOK, CoverOK
<1>3. Unplaced(d, fn, ep) = Unplaced(c, fn, ep) /\ Made(d) = Made(c)
  BY <1>1, StaysMade DEF Unplaced
<1>4. WordsOK(m, map, w + 1, d, fn)
  <2>1. \A u \in w..(w - 1) : m[u].op # "functionEnd"
    BY <1>1
  <2>2. c.blocks[At(m, map, w)].fn = fn
    BY <2>1 DEF GraphOK, OwnersOK
  <2>3. d.blocks[d.insert].fn = fn
    BY <2>2 DEF Turns
  <2> QED
    BY <1>1, <2>3, WordWords DEF GraphOK
<1>5. OwnersOK(m, map, w + 1, d, fn)
  BY <1>1, <1>2, WordOwners DEF GraphOK
<1>6. DistinctOK(m, map, w + 1)
  BY <1>1, WordDistinct DEF GraphOK
<1>7. CoverOK(m, map, w + 1, d, ep)
  BY <1>1, WordCover DEF GraphOK
<1>8. LayoutOK(m, map, d, Unplaced(d, fn, ep))
  BY <1>1, <1>3, WordLayout DEF GraphOK
<1>9. TargetsOK(m, map, d)
  BY <1>3 DEF GraphOK, TargetsOK, Turns
<1>10. OpenOK(m, map, w + 1, d, Unplaced(d, fn, ep))
  <2> SUFFICES ASSUME NEW i \in Made(c), Open(d, i), i \notin Unplaced(c, fn, ep)
      PROVE  \/ \E v \in Pending(m, map, w + 1) : At(m, map, v) = i
             \/ i = d.insert /\ w + 1 \in DOMAIN m /\ m[w + 1].op \in InBlock \union {"functionEnd"}
    BY <1>3 DEF OpenOK
  <2>1. Open(c, i)
    BY DEF Open, Turns
  <2>2. PICK v \in Pending(m, map, w) : At(m, map, v) = i
    BY <1>1, <2>1 DEF GraphOK, OpenOK
  <2>3. v \in Begun(m, map) /\ v >= w /\ v \in Nat
    BY <1>1, PendingBegun, BegunFacts
  <2>4. CASE v = w
    BY <1>1, <2>2, <2>4, WordFacts DEF Turns
  <2>5. CASE v # w
    <3>1. v \in Pending(m, map, w + 1)
      BY <1>1, <2>3, <2>5, PendingBegun
    <3> QED
      BY <2>2, <3>1
  <2> QED
    BY <2>4, <2>5
<1>11. CodeOK(m, map, w + 1, d, ep)
  BY <1>1, LabelCode DEF GraphOK
<1> QED
  BY <1>4, <1>5, <1>6, <1>7, <1>8, <1>9, <1>10, <1>11 DEF GraphOK

-----------------------------------------------------------------------------
(* makeLabelBlock: the blocks made are the new labels', in order. *)

LEMMA RankOnto ==
  ASSUME NEW n \in Nat, NEW seen \in SUBSET (1..n), NEW j \in 1..Cardinality(seen)
  PROVE  \E i \in seen : Rank(seen, i) = j
<1> DEFINE k == Cardinality(seen)
           f == [i \in seen |-> Rank(seen, i)]
<1>1. /\ k \in Nat /\ \A i \in seen : Rank(seen, i) \in 1..k
      /\ \A x, y \in seen : Rank(seen, x) = Rank(seen, y) => x = y
  BY RankInjective
<1>2. f \in Injection(seen, 1..k)
  BY <1>1 DEF Injection, IsInjective
<1>3. IsFiniteSet(1..k) /\ Cardinality(1..k) = k
  BY <1>1, FS_Interval
<1> HIDE DEF f
<1>4. f \in Surjection(seen, 1..k)
  BY <1>2, <1>3, FS_Injection
<1> QED
  BY <1>4 DEF Surjection, f

LEMMA MakeLabelBlocksAppends ==
  ASSUME NEW c \in BuilderType, commonMap \in [Ids -> 0..Len(c.blocks)],
         currentFunction \in Ids \union {NoFunction}, NEW labels \in Seq(Ids)
  PROVE  LET t == MakeLabelBlocks(c, labels)
             d == t.b
         IN  /\ Len(d.layout) = Len(c.layout) + (Len(d.blocks) - Len(c.blocks))
             /\ \A i \in 1..Len(c.layout) : d.layout[i] = c.layout[i]
             /\ \A i \in 1..Len(d.layout) : i > Len(c.layout) =>
                  d.layout[i] = Len(c.blocks) + (i - Len(c.layout))
             /\ \A i \in Made(d) : i \notin Made(c) =>
                  /\ d.blocks[i] = NewBlock("L", currentFunction)
                  /\ \E id \in NewIds(commonMap, t.map) : t.map[id] = i
<1> DEFINE n == Len(c.blocks)
           l == Len(c.layout)
           seen == FirstSeen(labels)
           k == Cardinality(seen)
           B == NewBlock("L", currentFunction)
           more == [j \in 1..k |-> B]
           more2 == [j \in 1..k |-> n + j]
           t == MakeLabelBlocks(c, labels)
           d == t.b
<1>1. /\ n \in Nat /\ l \in Nat /\ Len(labels) \in Nat
      /\ seen \in SUBSET (1..Len(labels))
      /\ c.blocks \in Seq(BlockType) /\ c.layout \in Seq(Nat)
  BY BuilderFields DEF FirstSeen
<1>2. k \in Nat
  BY <1>1, RankInjective
<1>3. B \in BlockType
  BY NewBlockType
<1>4. \A i \in seen : /\ labels[i] \in Ids /\ commonMap[labels[i]] = Nothing
                      /\ \A j \in seen : labels[j] = labels[i] => j = i
  <2>1. \A i, j \in seen : i < j => labels[i] # labels[j]
    <3> SUFFICES ASSUME NEW i \in seen, NEW j \in seen, i < j PROVE labels[i] # labels[j]
      OBVIOUS
    <3>1. i \in 1..(j - 1)
      BY <1>1
    <3> QED
      BY <3>1 DEF FirstSeen
  <2>2. \A i, j \in seen : i = j \/ i < j \/ j < i
    BY <1>1
  <2>3. \A i \in seen : labels[i] \in Ids /\ commonMap[labels[i]] = Nothing
    BY DEF FirstSeen
  <2> HIDE DEF seen
  <2> QED
    BY <2>1, <2>2, <2>3
<1>5. ASSUME NEW i \in seen
      PROVE  t.map[labels[i]] = n + Rank(seen, i)
  <2>1. (CHOOSE j \in seen : labels[j] = labels[i]) = i
    <3> HIDE DEF seen
    <3> QED
      BY <1>4
  <2> QED
    BY <1>4, <2>1 DEF MakeLabelBlocks, LabelMap
<1>6. /\ d.blocks = c.blocks \o more /\ d.layout = c.layout \o more2
  <2> HIDE DEF n, k
  <2>1. d = [c EXCEPT !.blocks = @ \o more, !.layout = @ \o more2]
    BY DEF MakeLabelBlocks, k, n
  <2> HIDE DEF d, more, more2
  <2> QED
    BY <2>1 DEF BuilderType
<1> HIDE DEF k, B, seen, t, n
<1>7. more \in Seq(BlockType) /\ Len(more) = k /\ \A j \in 1..k : more[j] = B
  BY <1>2, <1>3
<1>8. more2 \in Seq(Nat) /\ Len(more2) = k /\ \A j \in 1..k : more2[j] = n + j
  BY <1>1, <1>2
<1> HIDE DEF more, more2
<1>9. /\ Len(d.blocks) = n + k /\ \A j \in 1..k : d.blocks[n + j] = B
  <2> DEFINE old == c.blocks
             r == old \o more
             S == BlockType
  <2>1. old \in Seq(S) /\ more \in Seq(S) /\ n = Len(old) /\ d.blocks = r
    BY <1>1, <1>6, <1>7 DEF n
  <2> HIDE DEF S, old
  <2>2. /\ Len(r) = Len(old) + Len(more)
        /\ \A j \in 1..Len(more) : r[Len(old) + j] = more[j]
    BY <2>1, Appended
  <2> HIDE DEF r
  <2> QED
    BY <1>7, <2>1, <2>2
<1>10. /\ Len(d.layout) = l + k
       /\ \A i \in 1..l : d.layout[i] = c.layout[i]
       /\ \A j \in 1..k : d.layout[l + j] = n + j
  <2> DEFINE old == c.layout
             r == old \o more2
  <2>1. old \in Seq(Nat) /\ more2 \in Seq(Nat) /\ l = Len(old) /\ d.layout = r
    BY <1>1, <1>6, <1>8
  <2>2. \A i \in 1..l : old[i] = c.layout[i]
    OBVIOUS
  <2> HIDE DEF old, l
  <2>3. /\ Len(r) = Len(old) + Len(more2)
        /\ \A i \in 1..Len(old) : r[i] = old[i]
        /\ \A j \in 1..Len(more2) : r[Len(old) + j] = more2[j]
    BY <2>1, Appended
  <2> HIDE DEF r
  <2> QED
    BY <1>8, <2>1, <2>2, <2>3
<1>11. Len(d.layout) = l + (Len(d.blocks) - n)
  BY <1>1, <1>2, <1>9, <1>10
<1>12. ASSUME NEW i \in 1..Len(d.layout), i > l
       PROVE  d.layout[i] = n + (i - l)
  <2>1. i - l \in 1..k /\ l + (i - l) = i
    BY <1>1, <1>2, <1>10, <1>12
  <2> QED
    BY <1>10, <2>1
<1>13. ASSUME NEW i \in Made(d), i \notin Made(c)
       PROVE  d.blocks[i] = B /\ \E id \in NewIds(commonMap, t.map) : t.map[id] = i
  <2>1. i - n \in 1..k /\ n + (i - n) = i
    BY <1>1, <1>2, <1>9, <1>13 DEF Made, n
  <2>2. d.blocks[i] = B
    BY <1>9, <2>1
  <2>3. PICK j \in seen : Rank(seen, j) = i - n
    BY <1>1, <2>1, RankOnto DEF k
  <2>4. t.map[labels[j]] = i /\ i # Nothing
    BY <1>1, <1>5, <2>1, <2>3 DEF Nothing
  <2>5. labels[j] \in NewIds(commonMap, t.map)
    BY <1>4, <2>4 DEF NewIds
  <2> QED
    BY <2>2, <2>4, <2>5
<1> QED
  BY <1>10, <1>11, <1>12, <1>13 DEF n, B, t

(* Labels ahead, of the current function, get blocks. *)
LEMMA LabelBlocksGrow ==
  ASSUME NEW m, NEW w, NEW c, Here(m, commonMap, w, c), w \in DOMAIN m,
         currentFunction \in Ids \union {NoFunction},
         NEW labels \in Seq(Ids), ~ Outside(m, w),
         \A i \in DOMAIN labels : commonMap[labels[i]] = Nothing =>
           \E v \in DOMAIN m : /\ v >= w /\ m[v].op = "label" /\ m[v].id = labels[i]
                               /\ m[v - 1].op # "function"
                               /\ \A u \in w..v : m[u].op # "functionEnd"
  PROVE  LET t == MakeLabelBlocks(c, labels)
         IN  Grows(m, commonMap, t.map, w, c, t.b, currentFunction)
<1> DEFINE t == MakeLabelBlocks(c, labels)
           d == t.b
<1>1. c \in BuilderType /\ commonMap \in [Ids -> 0..Len(c.blocks)] /\ Valid(m)
  BY DEF Here
<1>2. /\ Changes(c, d, {}) /\ SameStage(c, d) /\ d.insert = c.insert
      /\ Extends(commonMap, t.map, c, d)
      /\ \A id \in NewIds(commonMap, t.map) : \E i \in DOMAIN labels : labels[i] = id
  BY <1>1, MakeLabelBlocksChanges
<1>3. /\ Len(d.layout) = Len(c.layout) + (Len(d.blocks) - Len(c.blocks))
      /\ \A i \in 1..Len(c.layout) : d.layout[i] = c.layout[i]
      /\ \A i \in 1..Len(d.layout) : i > Len(c.layout) =>
           d.layout[i] = Len(c.blocks) + (i - Len(c.layout))
      /\ \A i \in Made(d) : i \notin Made(c) =>
           /\ d.blocks[i] = NewBlock("L", currentFunction)
           /\ \E id \in NewIds(commonMap, t.map) : t.map[id] = i
  BY <1>1, MakeLabelBlocksAppends
<1> HIDE DEF t
<1>4. \A i \in Made(c) : d.blocks[i] = c.blocks[i]
  BY <1>2 DEF Changes
<1>5. ASSUME NEW id \in NewIds(commonMap, t.map)
      PROVE  \E v \in DOMAIN m : /\ v >= w /\ m[v].op = "label" /\ m[v].id = id
                               /\ m[v - 1].op # "function"
                               /\ \A u \in w..v : m[u].op # "functionEnd"
  <2>1. PICK i \in DOMAIN labels : labels[i] = id
    BY <1>2, <1>5
  <2> QED
    BY <2>1 DEF NewIds
<1>6. ASSUME NEW v \in Begun(m, t.map), v \notin Begun(m, commonMap)
      PROVE  m[v].id \in NewIds(commonMap, t.map)
  BY <1>1, <1>6, BegunFacts DEF Begun, NewIds, At
<1>7. ASSUME NEW i \in Made(d), i \notin Made(c)
      PROVE  /\ d.blocks[i].term = NoTerm /\ d.blocks[i].code = <<>>
             /\ \E v \in Begun(m, t.map) : v \notin Begun(m, commonMap) /\ At(m, t.map, v) = i
  <2>1. d.blocks[i] = NewBlock("L", currentFunction)
    BY <1>3, <1>7
  <2>2. PICK id \in NewIds(commonMap, t.map) : t.map[id] = i
    BY <1>3, <1>7
  <2>3. PICK v \in DOMAIN m : m[v].op = "label" /\ m[v].id = id
    BY <1>5
  <2>4. v \in Begun(m, t.map) /\ v \notin Begun(m, commonMap) /\ At(m, t.map, v) = i
    BY <2>2, <2>3 DEF Begun, At, NewIds, Definitions
  <2> QED
    BY <2>1, <2>4 DEF NewBlock
<1>8. ASSUME NEW v \in Begun(m, t.map), v \notin Begun(m, commonMap)
      PROVE  /\ v >= w /\ m[v].op = "label" /\ m[v - 1].op # "function"
             /\ d.blocks[At(m, t.map, v)].fn = currentFunction
             /\ \A u \in w..v : m[u].op # "functionEnd"
  <2>1. m[v].id \in NewIds(commonMap, t.map)
    BY <1>6, <1>8
  <2>2. PICK u \in DOMAIN m : /\ u >= w /\ m[u].op = "label" /\ m[u].id = m[v].id
                             /\ m[u - 1].op # "function"
                             /\ \A x \in w..u : m[x].op # "functionEnd"
    BY <1>5, <2>1
  <2>3. v = u
    <3>1. v \in DOMAIN m /\ m[v].op \in Definitions /\ m[u].op \in Definitions
      BY <2>2 DEF Begun, Definitions
    <3> QED
      BY <1>1, <2>2, <3>1, Unique
  <2>4. t.map[m[v].id] \in Made(d) /\ t.map[m[v].id] \notin Made(c)
    BY <1>2, <2>1 DEF Extends
  <2>5. d.blocks[At(m, t.map, v)] = NewBlock("L", currentFunction)
    BY <1>3, <2>4 DEF At
  <2> QED
    BY <2>2, <2>3, <2>5 DEF NewBlock
<1>9. Grows(m, commonMap, t.map, w, c, d, currentFunction)
  <2>1. \A v \in Begun(m, t.map) : v \notin Begun(m, commonMap) => m[v].op # "function"
    BY <1>8
  <2>2. c \in BuilderType /\ d \in BuilderType /\ Len(c.blocks) <= Len(d.blocks)
    BY <1>2 DEF Changes
  <2> HIDE DEF d
  <2> QED
    BY <1>2, <1>3, <1>4, <1>7, <1>8, <2>1, <2>2 DEF Grows
<1> QED
  BY <1>9 DEF t

-----------------------------------------------------------------------------
(* The builder's calls on the insert block. *)

LEMMA EmitFills ==
  ASSUME NEW c \in BuilderType, Open(c, c.insert), NEW e \in EventType
  PROVE  LET d == Emit(c, e)
         IN  /\ Fills(c, d) /\ Open(d, d.insert)
             /\ d.blocks[c.insert] = [c.blocks[c.insert] EXCEPT !.code = Append(@, e)]
<1> DEFINE d == Emit(c, e)
           B == [c.blocks[c.insert] EXCEPT !.code = Append(@, e)]
<1>1. c.blocks[c.insert] \in BlockType
  BY BuilderFields DEF Open
<1>2. Append(c.blocks[c.insert].code, e) \in Seq(EventType)
  BY <1>1 DEF BlockType
<1>3. B \in BlockType /\ B.term = c.blocks[c.insert].term /\ B.fn = c.blocks[c.insert].fn
  BY <1>1, <1>2 DEF BlockType
<1>4. d = [c EXCEPT !.blocks[c.insert] = B]
  BY DEF Emit
<1> HIDE DEF B, d
<1>5. /\ Changes(c, d, {c.insert}) /\ SameStage(c, d) /\ d.insert = c.insert
      /\ Len(d.blocks) = Len(c.blocks) /\ d.layout = c.layout /\ d.blocks[c.insert] = B
  BY <1>3, <1>4, InsertChanged
<1>6. \A i \in Made(c) : i # c.insert => d.blocks[i] = c.blocks[i]
  BY <1>5 DEF Changes
<1>7. Stays(c, d)
  BY <1>3, <1>5, <1>6 DEF Stays, Changes
<1> QED
  BY <1>3, <1>5, <1>6, <1>7 DEF Fills, Open, Made, B, d

LEMMA TerminateFills ==
  ASSUME NEW c \in BuilderType, Open(c, c.insert), NEW t \in TermType
  PROVE  LET d == Terminate(c, t)
         IN  Fills(c, d) /\ d.blocks[c.insert] = [c.blocks[c.insert] EXCEPT !.term = t]
<1> DEFINE d == Terminate(c, t)
           B == [c.blocks[c.insert] EXCEPT !.term = t]
<1>1. c.blocks[c.insert] \in BlockType
  BY BuilderFields DEF Open
<1>3. B \in BlockType /\ B.fn = c.blocks[c.insert].fn
  BY <1>1 DEF BlockType
<1>4. d = [c EXCEPT !.blocks[c.insert] = B]
  BY DEF Terminate, Terminated, HasTerminator, Open
<1> HIDE DEF B, d
<1>5. /\ Changes(c, d, {c.insert}) /\ SameStage(c, d) /\ d.insert = c.insert
      /\ Len(d.blocks) = Len(c.blocks) /\ d.layout = c.layout /\ d.blocks[c.insert] = B
  BY <1>3, <1>4, InsertChanged
<1>6. \A i \in Made(c) : i # c.insert => d.blocks[i] = c.blocks[i]
  BY <1>5 DEF Changes
<1>7. Stays(c, d)
  BY <1>3, <1>5, <1>6 DEF Stays, Changes
<1> QED
  BY <1>5, <1>6, <1>7 DEF Fills, B, d

LEMMA FillsThen ==
  ASSUME NEW c, NEW d, NEW e, Fills(c, d), Fills(d, e)
  PROVE  Fills(c, e)
<1>1. Made(d) = Made(c)
  BY StaysMade DEF Fills
<1> QED
  BY <1>1 DEF Fills, Stays, SameStage

-----------------------------------------------------------------------------
(* Where a block may jump to. *)

(* A label of the current function, but not its first. *)
LEMMA LabelTarget ==
  ASSUME NEW m, NEW map, NEW w, NEW c, NEW fn, NEW ep, Here(m, map, w, c), ~ Outside(m, w),
         GraphOK(m, map, w, c, fn, ep), NEW v \in Begun(m, map), m[v].op = "label",
         m[v - 1].op # "function", \A u \in v..(w - 1) : m[u].op # "functionEnd"
  PROVE  /\ At(m, map, v) \in Made(c)
         /\ c.blocks[At(m, map, v)].fn = c.blocks[c.insert].fn
         /\ \A g \in Begun(m, map) : m[g].op = "function" => At(m, map, g) # At(m, map, v)
<1>1. At(m, map, v) \in Made(c)
  BY DEF GraphOK, CoverOK
<1>2. c.blocks[At(m, map, v)].fn = fn /\ c.blocks[c.insert].fn = fn
  BY DEF GraphOK, OwnersOK, WordsOK
<1>3. ASSUME NEW g \in Begun(m, map), m[g].op = "function", At(m, map, g) = At(m, map, v)
      PROVE  FALSE
  <2>1. g \in Nat /\ v \in Nat /\ g # v
    BY <1>3, BegunFacts DEF Here
  <2>2. g < v => v = g + 1
    BY <1>3 DEF GraphOK, DistinctOK
  <2>3. ~ (v < g)
    BY <1>3 DEF GraphOK, DistinctOK
  <2> QED
    BY <1>3, <2>1, <2>2, <2>3
<1> QED
  BY <1>1, <1>2, <1>3

(* Main's stage blocks. *)
LEMMA StageTarget ==
  ASSUME NEW m, NEW map, NEW w, NEW c, NEW fn, NEW ep, NEW model, ~ Outside(m, w),
         GraphOK(m, map, w, c, fn, ep), ModelOK(ep, model), fn \in ep, NEW i \in Stages(c)
  PROVE  /\ i \in Made(c) /\ c.blocks[i].fn = c.blocks[c.insert].fn
         /\ \A g \in Begun(m, map) : At(m, map, g) # i
<1>1. MainRead(m, w, ep)
  BY DEF GraphOK, WordsOK, MainRead
<1>2. i \in Made(c) /\ c.blocks[i].fn \in ep
  BY <1>1 DEF GraphOK, CoverOK
<1>3. c.blocks[i].fn = c.blocks[c.insert].fn
  BY <1>2 DEF ModelOK, GraphOK, WordsOK
<1> QED
  BY <1>2, <1>3 DEF GraphOK, CoverOK

LEMMA GrowHere ==
  ASSUME NEW m, NEW map, NEW new, NEW w, NEW c, NEW d, NEW fn, Here(m, map, w, c),
         Grows(m, map, new, w, c, d, fn)
  PROVE  Here(m, new, w, d)
<1>1. \A i \in Made(c) : i \in Made(d)
  BY GrowthKeeps
<1> QED
  BY <1>1 DEF Here, Grows, Extends

-----------------------------------------------------------------------------
(* The words, one by one. *)

(* What a word finds. *)
LEMMA GraphNow ==
  ASSUME SInv, GInv, phase = "translating"
  PROVE  /\ Here(spirv, commonMap, word, b) /\ ModelOK(entryPoint, currentModel)
         /\ GraphOK(spirv, commonMap, word, b, currentFunction, entryPoint)
         /\ InsertOK(spirv, commonMap, word, b, currentFunction)
         /\ currentFunction \in Ids \union {NoFunction}
         /\ word <= Len(spirv) => word \in DOMAIN spirv
<1>1. STypes /\ InsertOK(spirv, commonMap, word, b, currentFunction)
  BY DEF SInv, Running
<1>2. Valid(spirv) /\ word \in Nat /\ word >= 1 /\ word <= Len(spirv) + 1
  BY <1>1, ModuleValid DEF STypes
<1>3. ~ Outside(spirv, word) => b.insert \in Made(b)
  BY <1>1 DEF Outside, InsertOK
<1>4. Here(spirv, commonMap, word, b)
  BY <1>1, <1>2, <1>3 DEF Here, STypes
<1> QED
  BY <1>1, <1>4, ModuleValid DEF GInv, STypes

(* It leaves the graph of the next word. *)
LEMMA GraphNext ==
  ASSUME phase = "translating", word' = word + 1,
         UNCHANGED <<spirv, entryPoint, currentModel, phase>>,
         ModelOK(entryPoint, currentModel),
         GraphOK(spirv, commonMap', word + 1, b', currentFunction', entryPoint)
  PROVE  GInv'
BY DEF GInv

(* The current block waits for no other definition. *)
Free(m, map, w, c) == \A v \in Pending(m, map, w) : At(m, map, v) = c.insert => v = w

LEMMA GrowFree ==
  ASSUME NEW m, NEW map, NEW new, NEW w, NEW c, NEW d, NEW fn, Here(m, map, w, c),
         Grows(m, map, new, w, c, d, fn), Free(m, map, w, c), c.insert \in Made(c)
  PROVE  Free(m, new, w, d)
<1> SUFFICES ASSUME NEW v \in Pending(m, new, w), At(m, new, v) = d.insert PROVE v = w
  BY DEF Free
<1>1. v \in Begun(m, new) /\ v >= w /\ Valid(m) /\ w \in Nat /\ w >= 1
  BY PendingBegun DEF Here
<1>2. d.insert = c.insert
  BY DEF Grows
<1>3. v \in Begun(m, map)
  BY <1>1, <1>2, GrowthKeeps
<1>4. At(m, map, v) = c.insert /\ v \in Pending(m, map, w)
  BY <1>1, <1>2, <1>3, GrowthKeeps, PendingBegun
<1> QED
  BY <1>4 DEF Free

(* A word that only appends to the current block. *)
LEMMA PlainWord ==
  ASSUME NEW m, NEW map, NEW w, NEW c, NEW fn, NEW ep, Here(m, map, w, c), w \in DOMAIN m,
         m[w].op \in {"stmt", "call"}, GraphOK(m, map, w, c, fn, ep), Free(m, map, w, c),
         Open(c, c.insert), m[w].op = "call" => map[m[w].id] # Nothing
  PROVE  GraphOK(m, map, w + 1, Emit(c, Word(m, map, w)), fn, ep)
<1> DEFINE e == Word(m, map, w)
           d == Emit(c, e)
<1>1. /\ InABlock(m, w) /\ m[w].op \notin Terminators /\ ~ Outside(m, w)
      /\ m[w].op # "functionEnd" /\ Valid(m) /\ w \in Nat /\ c \in BuilderType
      /\ map \in [Ids -> 0..Len(c.blocks)] /\ m[w].op \notin Branches
  BY DEF InABlock, InBlock, Terminators, Branches, Outside, Here
<1>2. e \in EventType
  <2>1. CASE m[w].op = "call"
    <3>1. map[m[w].id] \in Nat
      <4>1. m[w].id \in Ids
        BY <1>1, <2>1, Fields
      <4> QED
        BY <1>1, <4>1, BuilderFields
    <3> QED
      BY <2>1, <3>1, EventsType DEF Word
  <2>2. CASE m[w].op # "call"
    BY <1>1, <2>2, EventsType DEF Word
  <2> QED
    BY <2>1, <2>2
<1> HIDE DEF e
<1>3. /\ Fills(c, d) /\ Open(d, d.insert)
      /\ d.blocks[c.insert] = [c.blocks[c.insert] EXCEPT !.code = Append(@, e)]
  BY <1>1, <1>2, EmitFills
<1>4. c.blocks[c.insert] \in BlockType /\ c.insert \in Made(c)
  BY <1>1, BuilderFields DEF Open
<1> HIDE DEF d
<1>5. /\ d.blocks[c.insert].code = Append(c.blocks[c.insert].code, e)
      /\ d.blocks[c.insert].term = c.blocks[c.insert].term
  BY <1>3, <1>4 DEF BlockType
<1>6. GoodEnd(m, map, w, c, d.blocks[c.insert])
  <2>1. m[w + 1].op \in InBlock
    BY <1>1, WordFacts
  <2> QED
    BY <1>4, <1>5, <2>1 DEF GoodEnd, GraphOK, TargetsOK
<1> QED
  BY <1>1, <1>3, <1>5, <1>6, FillGraph DEF e, d, Free

LEMMA StmtGraph ==
  ASSUME SInv, GInv, OpInBlock
  PROVE  GInv'
<1>1. /\ phase = "translating" /\ word <= Len(spirv) /\ spirv[word].op = "stmt"
      /\ word' = word + 1 /\ b' = Emit(b, Event("stmt", word)) /\ commonMap' = commonMap
      /\ UNCHANGED <<spirv, entryPoint, currentModel, currentFunction, phase>>
  BY DEF OpInBlock, Reading, Instruction, GoOn
<1>2. /\ Here(spirv, commonMap, word, b) /\ ModelOK(entryPoint, currentModel)
      /\ GraphOK(spirv, commonMap, word, b, currentFunction, entryPoint)
      /\ InsertOK(spirv, commonMap, word, b, currentFunction)
      /\ word \in DOMAIN spirv
  BY <1>1, GraphNow
<1>3. Open(b, b.insert) /\ Free(spirv, commonMap, word, b)
  BY <1>1, <1>2 DEF InsertOK, InBlock, Free
<1>4. b' = Emit(b, Word(spirv, commonMap, word))
  BY <1>1 DEF Word
<1>5. GraphOK(spirv, commonMap, word + 1, b', currentFunction, entryPoint)
  BY <1>1, <1>2, <1>3, <1>4, PlainWord
<1> QED
  BY <1>1, <1>2, <1>5, GraphNext

(* A function that is called before it is defined gets its entry. *)
LEMMA EntryGrows ==
  ASSUME NEW m, NEW map, NEW w, NEW c, NEW v \in DOMAIN m, Here(m, map, w, c), v >= w,
         m[v].op = "function", map[m[v].id] = Nothing, NEW fn
  PROVE  Grows(m, map, [map EXCEPT ![m[v].id] = Next1(c)], w, c,
               MakeFunctionEntry(c, m[v].id), fn)
<1> DEFINE id == m[v].id
           new == [map EXCEPT ![id] = Next1(c)]
           d == MakeFunctionEntry(c, id)
           n == Len(c.blocks)
           l == Len(c.layout)
<1>1. c \in BuilderType /\ Valid(m) /\ map \in [Ids -> 0..Len(c.blocks)]
  BY DEF Here
<1>2. id \in Ids
  BY <1>1, Fields DEF Definitions
<1>3. /\ Changes(c, d, {}) /\ SameStage(c, d) /\ d.insert = c.insert
      /\ Len(d.blocks) = n + 1 /\ Next1(c) = n + 1
      /\ d.layout = Append(c.layout, Next1(c))
  <2>1. id \in Ids \union {NoFunction} /\ "entry" \in BlockNames \union {"L"}
    BY <1>2 DEF BlockNames
  <2> QED
    BY <1>1, <2>1, CreateInChanges DEF MakeFunctionEntry
<1>4. /\ n \in Nat /\ l \in Nat /\ c.layout \in Seq(Nat) /\ c.blocks \in Seq(BlockType)
      /\ d \in BuilderType
  BY <1>1, <1>3, BuilderFields DEF Changes
<1>5. d.blocks[n + 1] = NewBlock("entry", id)
  <2>1. d.blocks = Append(c.blocks, NewBlock("entry", id))
    BY <1>1 DEF MakeFunctionEntry, CreateIn, Create, PushBack, BuilderType
  <2>2. NewBlock("entry", id) \in BlockType
    BY <1>2, NewBlockType DEF BlockNames
  <2> QED
    BY <1>4, <2>1, <2>2, AppendProperties
<1>6. /\ Len(d.layout) = l + 1 /\ d.layout[l + 1] = n + 1
      /\ \A i \in 1..l : d.layout[i] = c.layout[i]
  <2>1. Next1(c) \in Nat
    BY <1>3, <1>4
  <2> QED
    BY <1>3, <1>4, <2>1, AppendProperties
<1> HIDE DEF d
<1>7. \A i \in 1..Len(d.layout) : i > l => d.layout[i] = n + (i - l)
  <2>0. l \in Nat /\ n \in Nat /\ Len(d.layout) = l + 1
    BY <1>4, <1>6
  <2> HIDE DEF l, n
  <2>1. \A i \in 1..Len(d.layout) : i > l => i = l + 1 /\ n + (i - l) = n + 1
    BY <2>0
  <2> QED
    BY <1>6, <2>1
<1>8. \A i \in Made(d) : i \notin Made(c) => i = n + 1
  BY <1>3, <1>4 DEF Made
<1>9. new[id] = n + 1 /\ \A x \in Ids : x # id => new[x] = map[x]
  BY <1>1, <1>2, <1>3
<1>10. NewIds(map, new) \subseteq {id}
  BY <1>9 DEF NewIds
<1>11. n + 1 \in Made(d) /\ n + 1 \notin Made(c) /\ n + 1 # Nothing
  BY <1>3, <1>4 DEF Made, Nothing
<1>12. Extends(map, new, c, d)
  <2>1. \A x \in 0..n : x \in 0..(n + 1)
    BY <1>4
  <2>2. n + 1 \in 0..(n + 1)
    BY <1>4
  <2>3. new \in [Ids -> 0..Len(d.blocks)]
    BY <1>1, <1>2, <1>3, <2>1, <2>2
  <2> QED
    BY <1>9, <1>10, <1>11, <2>3 DEF Extends
<1>13. \A u \in Begun(m, new) : u \notin Begun(m, map) => u = v
  <2> SUFFICES ASSUME NEW u \in Begun(m, new), u \notin Begun(m, map) PROVE u = v
    OBVIOUS
  <2>1. m[u].id \in NewIds(map, new) /\ u \in DOMAIN m /\ m[u].op \in Definitions
    BY <1>1, BegunFacts DEF Begun, NewIds, At
  <2> QED
    BY <1>1, <1>10, <2>1, Unique DEF Definitions
<1>14. v \in Begun(m, new) /\ v \notin Begun(m, map) /\ At(m, new, v) = n + 1
  BY <1>9, <1>11 DEF Begun, At, Definitions
<1>15. Len(d.layout) = l + (Len(d.blocks) - n) /\ n <= Len(d.blocks)
  BY <1>3, <1>4, <1>6
<1>16. \A i \in Made(c) : d.blocks[i] = c.blocks[i]
  BY <1>3 DEF Changes
<1> HIDE DEF new, id
<1>17. ASSUME NEW i \in Made(d), i \notin Made(c)
       PROVE  /\ d.blocks[i].term = NoTerm /\ d.blocks[i].code = <<>>
              /\ \E u \in Begun(m, new) : u \notin Begun(m, map) /\ At(m, new, u) = i
  BY <1>5, <1>8, <1>14, <1>17 DEF NewBlock
<1>18. d.blocks[At(m, new, v)].fn = m[v].id
  BY <1>5, <1>14 DEF NewBlock, id
<1>19. Grows(m, map, new, w, c, d, fn)
  <2> HIDE DEF n, l
  <2> QED
    BY <1>1, <1>3, <1>4, <1>6, <1>7, <1>12, <1>13, <1>15, <1>16, <1>17, <1>18 DEF Grows, n, l
<1> QED
  BY <1>19 DEF new, id, d

(* The numbers are well-founded. *)
LEMMA LeastNat ==
  ASSUME NEW S, S \subseteq Nat, S # {}
  PROVE  \E x \in S : \A y \in S : x <= y
<1> DEFINE R == OpToRel(<, Nat)
<1>1. IsWellFoundedOn(R, Nat)
  BY NatLessThanWellFounded
<1>2. \A x, y \in Nat : <<x, y>> \in R <=> x < y
  BY DEF OpToRel
<1> HIDE DEF R
<1>3. PICK x \in S : \A y \in S : ~ (<<y, x>> \in R)
  BY <1>1, WFMin
<1>4. \A y \in S : y \in Nat /\ x \in Nat /\ ~ (y < x)
  BY <1>2, <1>3
<1>5. \A y \in S : x <= y
  BY <1>4
<1> QED
  BY <1>3, <1>5

(* Every label has a block after its makeLabelBlock. *)
LEMMA AllLabels ==
  ASSUME NEW c \in BuilderType, commonMap \in [Ids -> 0..Len(c.blocks)],
         NEW labels \in Seq(Ids), NEW i \in DOMAIN labels
  PROVE  MakeLabelBlocks(c, labels).map[labels[i]] # Nothing
<1> DEFINE id == labels[i]
           seen == FirstSeen(labels)
           new == LabelMap(c, labels)
<1>1. /\ Len(c.blocks) \in Nat /\ Len(labels) \in Nat /\ DOMAIN labels = 1..Len(labels)
      /\ id \in Ids /\ seen \in SUBSET (1..Len(labels))
  BY BuilderFields DEF FirstSeen
<1>2. CASE commonMap[id] = Nothing
  <2> DEFINE S == {j \in DOMAIN labels : labels[j] = id}
  <2>1. S \subseteq Nat /\ S # {}
    BY <1>1
  <2>2. PICK j \in S : \A k \in S : j <= k
    BY <2>1, LeastNat
  <2>3. \A k \in 1..j - 1 : labels[k] # id
    <3> SUFFICES ASSUME NEW k \in 1..j - 1, labels[k] = id PROVE FALSE
      OBVIOUS
    <3>1. k \in S
      BY <1>1, <2>2
    <3> QED
      BY <1>1, <2>2, <3>1
  <2>4. j \in seen /\ labels[j] = id
    BY <1>2, <2>2, <2>3 DEF FirstSeen
  <2> HIDE DEF seen, id
  <2>5. new[id] = Len(c.blocks) + Rank(seen, CHOOSE k \in seen : labels[k] = id)
    BY <1>1, <2>4 DEF LabelMap, seen
  <2>6. (CHOOSE k \in seen : labels[k] = id) \in seen
    BY <2>4
  <2>7. Rank(seen, CHOOSE k \in seen : labels[k] = id) \in 1..Cardinality(seen)
    BY <1>1, <2>6, RankInjective
  <2>8. Cardinality(seen) \in Nat
    BY <1>1, RankInjective
  <2>9. new[id] # Nothing
    <3> DEFINE r == Rank(seen, CHOOSE k \in seen : labels[k] = id)
    <3>1. r \in 1..Cardinality(seen) /\ new[id] = Len(c.blocks) + r
      BY <2>5, <2>7
    <3> HIDE DEF r, new
    <3> QED
      BY <1>1, <2>8, <3>1 DEF Nothing
  <2> QED
    BY <2>9 DEF MakeLabelBlocks, id
<1>3. CASE commonMap[id] # Nothing
  <2>1. ~ \E k \in seen : labels[k] = id
    BY <1>3 DEF FirstSeen
  <2>2. new[id] = commonMap[id]
    BY <1>1, <2>1 DEF LabelMap
  <2> QED
    BY <1>3, <2>2 DEF MakeLabelBlocks
<1> QED
  BY <1>2, <1>3

LEMMA CallGraph ==
  ASSUME SInv, GInv, OpFunctionCall
  PROVE  GInv'
<1> DEFINE id == spirv[word].id
           e == MakeFunctionEntry(b, id)
           new == [commonMap EXCEPT ![id] = Next1(b)]
<1>1. /\ phase = "translating" /\ word <= Len(spirv) /\ spirv[word].op = "call"
      /\ word' = word + 1
      /\ UNCHANGED <<spirv, entryPoint, currentModel, currentFunction, phase>>
      /\ \/ /\ commonMap[id] # Nothing
            /\ b' = Emit(b, Event("call", commonMap[id])) /\ commonMap' = commonMap
         \/ /\ commonMap[id] = Nothing
            /\ b' = Emit(e, Event("call", Next1(b))) /\ commonMap' = new
  BY DEF OpFunctionCall, Reading, Instruction, GoOn
<1>2. /\ Here(spirv, commonMap, word, b) /\ ModelOK(entryPoint, currentModel)
      /\ GraphOK(spirv, commonMap, word, b, currentFunction, entryPoint)
      /\ InsertOK(spirv, commonMap, word, b, currentFunction)
      /\ word \in DOMAIN spirv /\ Valid(spirv)
  BY <1>1, GraphNow DEF Here
<1>3. Open(b, b.insert) /\ Free(spirv, commonMap, word, b)
  BY <1>1, <1>2 DEF InsertOK, InBlock, Free
<1>4. CASE /\ commonMap[id] # Nothing
           /\ b' = Emit(b, Event("call", commonMap[id])) /\ commonMap' = commonMap
  <2>1. b' = Emit(b, Word(spirv, commonMap, word))
    BY <1>1, <1>4 DEF Word
  <2>2. GraphOK(spirv, commonMap, word + 1, b', currentFunction, entryPoint)
    BY <1>1, <1>2, <1>3, <1>4, <2>1, PlainWord
  <2> QED
    BY <1>1, <1>2, <1>4, <2>2, GraphNext
<1>5. CASE /\ commonMap[id] = Nothing
           /\ b' = Emit(e, Event("call", Next1(b))) /\ commonMap' = new
  <2>1. PICK v \in DOMAIN spirv : spirv[v].op = "function" /\ spirv[v].id = id
    BY <1>1, <1>2 DEF Valid
  <2>2. v >= word
    <3>1. v \notin Begun(spirv, commonMap)
      BY <1>5, <2>1 DEF Begun, At
    <3>2. v \in Nat /\ v >= 1 /\ word \in Nat
      BY <1>2 DEF Valid
    <3> QED
      BY <1>2, <2>1, <3>1, <3>2 DEF GraphOK, DistinctOK, Definitions
  <2>3. Grows(spirv, commonMap, new, word, b, e, currentFunction)
    BY <1>2, <1>5, <2>1, <2>2, EntryGrows
  <2> HIDE DEF e, new
  <2>4. GraphOK(spirv, new, word, e, currentFunction, entryPoint)
    BY <1>1, <1>2, <2>3, GrowGraph
  <2>5. Here(spirv, new, word, e) /\ Free(spirv, new, word, e)
    BY <1>2, <1>3, <2>3, GrowHere, GrowFree DEF Open
  <2>6. Open(e, e.insert)
    BY <1>2, <1>3, <2>3, GrowthKeeps DEF Open
  <2>7. new[id] = Next1(b) /\ new[id] # Nothing
    <3>1. id \in Ids /\ b \in BuilderType
      BY <1>1, <1>2, Fields DEF Here
    <3>2. Next1(b) \in Nat /\ Next1(b) # 0
      BY <3>1, BuilderFields DEF Next1
    <3> QED
      BY <1>2, <3>1, <3>2 DEF new, Nothing, Here
  <2>8. b' = Emit(e, Word(spirv, new, word))
    BY <1>1, <1>5, <2>7 DEF Word
  <2>9. GraphOK(spirv, new, word + 1, b', currentFunction, entryPoint)
    BY <1>1, <1>2, <2>4, <2>5, <2>6, <2>7, <2>8, PlainWord
  <2> QED
    BY <1>1, <1>2, <1>5, <2>9, GraphNext
<1> QED
  BY <1>1, <1>4, <1>5

(* A word that ends the current block. *)
LEMMA EndingWord ==
  ASSUME NEW m, NEW map, NEW w, NEW c, NEW d, NEW fn, NEW ep, Here(m, map, w, c), w \in DOMAIN m,
         m[w].op \in Terminators, GraphOK(m, map, w, c, fn, ep), Free(m, map, w, c),
         Fills(c, d), GoodEnd(m, map, w, c, d.blocks[c.insert]),
         m[w].op \in Branches => \A i \in DOMAIN m[w].labels : map[m[w].labels[i]] # Nothing,
         d.blocks[c.insert].code = c.blocks[c.insert].code \o Killed(m[w].op),
         TermFor(m, map, d, ep, d.blocks[c.insert], w)
  PROVE  GraphOK(m, map, w + 1, d, fn, ep)
<1>1. InABlock(m, w) /\ m[w].op # "call"
  BY DEF InABlock, InBlock, Terminators, Branches
<1> QED
  BY <1>1, FillGraph DEF Free

LEMMA ReturnGraph ==
  ASSUME SInv, GInv, OpReturn
  PROVE  GInv'
<1> DEFINE main == InEntryPoint
           t == IF main THEN Br(b.stageEpilogue) ELSE Ret
           B == b.blocks[b.insert]
           B2 == b'.blocks[b.insert]
<1>1. /\ phase = "translating" /\ word <= Len(spirv) /\ spirv[word].op = "return"
      /\ word' = word + 1 /\ b' = MakeReturn(b, TRUE, main) /\ commonMap' = commonMap
      /\ UNCHANGED <<spirv, entryPoint, currentModel, currentFunction, phase>>
  BY DEF OpReturn, Reading, Instruction, GoOn
<1>2. /\ Here(spirv, commonMap, word, b) /\ ModelOK(entryPoint, currentModel)
      /\ GraphOK(spirv, commonMap, word, b, currentFunction, entryPoint)
      /\ InsertOK(spirv, commonMap, word, b, currentFunction)
      /\ word \in DOMAIN spirv /\ Valid(spirv) /\ b \in BuilderType
  BY <1>1, GraphNow DEF Here
<1>3. Open(b, b.insert) /\ Free(spirv, commonMap, word, b) /\ b.insert \in Made(b)
  BY <1>1, <1>2 DEF InsertOK, InBlock, Free, Terminators, Open
<1>4. ~ Outside(spirv, word)
  BY <1>1, <1>2 DEF Outside
<1>5. t \in TermType /\ t.kind \notin {"none", "double"}
  BY <1>2, BuilderFields, TermsType DEF Br, Ret, Term
<1>6. b' = Terminate(b, t)
  BY <1>1, <1>3 DEF MakeReturn, Terminated, HasTerminator, Open
<1>7. B \in BlockType /\ B.fn = currentFunction
  BY <1>2, <1>3, <1>4, BuilderFields DEF GraphOK, WordsOK
<1> HIDE DEF t, main
<1>8. Fills(b, b') /\ B2 = [B EXCEPT !.term = t]
  BY <1>2, <1>3, <1>5, <1>6, TerminateFills
<1> HIDE DEF B, B2
<1>9. B2.term = t /\ B2.code = B.code /\ B2.fn = currentFunction
  BY <1>7, <1>8 DEF BlockType
<1>10. GoodEnd(spirv, commonMap, word, b, B2)
  <2>1. CASE main
    <3>1. t.to = <<b.stageEpilogue>> /\ currentFunction \in entryPoint
      BY <2>1 DEF t, Br, Term, main, InEntryPoint
    <3>2. \A k \in DOMAIN t.to : t.to[k] \in Stages(b)
      BY <3>1 DEF Stages
    <3> QED
      BY <1>2, <1>4, <1>5, <1>9, <3>1, <3>2, StageTarget DEF GoodEnd
  <2>2. CASE ~ main
    <3>1. DOMAIN t.to = {}
      BY <2>2 DEF t, Ret, Term
    <3> QED
      BY <1>5, <1>9, <3>1 DEF GoodEnd
  <2> QED
    BY <2>1, <2>2
<1>11. B2.code = B.code \o Killed(spirv[word].op)
  <2>1. B.code \o <<>> = B.code
    BY <1>7, ConcatEmptySeq DEF BlockType
  <2> QED
    BY <1>1, <1>9, <2>1 DEF Killed
<1>12. TermFor(spirv, commonMap, b', entryPoint, B2, word)
  <2>1. b'.stageEpilogue = b.stageEpilogue
    BY <1>8 DEF Fills, Stays, SameStage
  <2> QED
    BY <1>1, <1>9, <2>1 DEF TermFor, Branches, t, main, InEntryPoint
<1>13. GraphOK(spirv, commonMap, word + 1, b', currentFunction, entryPoint)
  <2>1. spirv[word].op \in Terminators /\ spirv[word].op \notin Branches
    BY <1>1 DEF Terminators, Branches
  <2> QED
    BY <1>2, <1>3, <1>8, <1>10, <1>11, <1>12, <2>1, EndingWord DEF B, B2
<1> QED
  BY <1>1, <1>2, <1>13, GraphNext

LEMMA TargetsIn ==
  ASSUME NEW s \in Seq(Nat), s # <<>>, NEW op, NEW k \in DOMAIN Targets(s, op)
  PROVE  \E i \in DOMAIN s : Targets(s, op)[k] = s[i]
<1>1. CASE op = "switch"
  <2> DEFINE r == Append(Tail(s), Head(s))
  <2>1. /\ Len(s) \in Nat /\ Len(s) >= 1 /\ DOMAIN s = 1..Len(s) /\ Head(s) = s[1]
        /\ Head(s) \in Nat /\ Tail(s) \in Seq(Nat) /\ Len(Tail(s)) = Len(s) - 1
        /\ \A i \in 1..Len(Tail(s)) : Tail(s)[i] = s[i + 1]
    OBVIOUS
  <2>2. /\ Len(r) = Len(s) /\ r[Len(s)] = s[1] /\ r \in Seq(Nat)
        /\ \A i \in 1..(Len(s) - 1) : r[i] = s[i + 1]
    BY <2>1, AppendProperties
  <2>3. Targets(s, op) = r
    BY <1>1 DEF Targets
  <2>4. DOMAIN r = 1..Len(s)
    BY <2>2, LenProperties
  <2> HIDE DEF r
  <2>5. CASE k = Len(s)
    BY <2>1, <2>2, <2>3, <2>5
  <2>6. CASE k # Len(s)
    <3>1. k \in 1..(Len(s) - 1) /\ k + 1 \in DOMAIN s
      BY <2>1, <2>3, <2>4, <2>6
    <3> QED
      BY <2>2, <2>3, <3>1
  <2> QED
    BY <2>5, <2>6
<1>2. CASE op # "switch"
  BY <1>2 DEF Targets
<1> QED
  BY <1>1, <1>2

LEMMA BranchGraph ==
  ASSUME SInv, GInv, OpBranch
  PROVE  GInv'
<1> DEFINE labels == spirv[word].labels
           t == MakeLabelBlocks(b, labels)
           e == t.b
           new == t.map
           blocks == [i \in DOMAIN labels |-> new[labels[i]]]
           to == Targets(blocks, spirv[word].op)
           term == Term(TermKind(spirv[word].op), to, 0)
           B == e.blocks[e.insert]
           B2 == b'.blocks[e.insert]
<1>1. /\ phase = "translating" /\ word <= Len(spirv) /\ spirv[word].op \in Branches
      /\ word' = word + 1 /\ commonMap' = new /\ b' = Terminate(e, term)
      /\ UNCHANGED <<spirv, entryPoint, currentModel, currentFunction, phase>>
  BY DEF OpBranch, Reading, Instruction, GoOn, Branches
<1>2. /\ Here(spirv, commonMap, word, b) /\ ModelOK(entryPoint, currentModel)
      /\ GraphOK(spirv, commonMap, word, b, currentFunction, entryPoint)
      /\ InsertOK(spirv, commonMap, word, b, currentFunction)
      /\ currentFunction \in Ids \union {NoFunction}
      /\ word \in DOMAIN spirv /\ Valid(spirv) /\ b \in BuilderType
      /\ commonMap \in [Ids -> 0..Len(b.blocks)]
  BY <1>1, GraphNow DEF Here
<1>3. Open(b, b.insert) /\ Free(spirv, commonMap, word, b)
  BY <1>1, <1>2 DEF InsertOK, InBlock, Free, Terminators
<1>4. ~ Outside(spirv, word) /\ word \in Nat
  BY <1>1, <1>2 DEF Outside, Branches, Valid
<1>5. labels \in Seq(Ids) /\ labels # <<>>
  BY <1>1, <1>2, Fields DEF Valid
<1>6. ASSUME NEW i \in DOMAIN labels
      PROVE  \E v \in DOMAIN spirv :
               /\ spirv[v].op = "label" /\ spirv[v].id = labels[i] /\ spirv[v - 1].op # "function"
               /\ InOneFunction(spirv, v, word)
  BY <1>1, <1>2 DEF Valid
<1>7. ASSUME NEW i \in DOMAIN labels, commonMap[labels[i]] = Nothing
      PROVE  \E v \in DOMAIN spirv :
               /\ v >= word /\ spirv[v].op = "label" /\ spirv[v].id = labels[i]
               /\ spirv[v - 1].op # "function"
               /\ \A u \in word..v : spirv[u].op # "functionEnd"
  <2>1. PICK v \in DOMAIN spirv :
               /\ spirv[v].op = "label" /\ spirv[v].id = labels[i] /\ spirv[v - 1].op # "function"
               /\ InOneFunction(spirv, v, word)
    BY <1>6
  <2>2. v >= word
    <3>1. v \notin Begun(spirv, commonMap)
      BY <1>7, <2>1 DEF Begun, At
    <3>2. v \in Nat /\ v >= 1
      BY <1>2 DEF Valid
    <3> QED
      BY <1>2, <1>4, <2>1, <3>1, <3>2 DEF GraphOK, DistinctOK, Definitions
  <2> QED
    BY <2>1, <2>2 DEF InOneFunction
<1> HIDE DEF labels
<1>8. Grows(spirv, commonMap, new, word, b, e, currentFunction)
  BY <1>2, <1>4, <1>5, <1>7, LabelBlocksGrow
<1>9. \A i \in DOMAIN labels : new[labels[i]] # Nothing
  BY <1>2, <1>5, AllLabels
<1> HIDE DEF t, e, new
<1>10. GraphOK(spirv, new, word, e, currentFunction, entryPoint)
  BY <1>1, <1>2, <1>8, GrowGraph DEF Branches
<1>11. Here(spirv, new, word, e) /\ Free(spirv, new, word, e)
  BY <1>2, <1>3, <1>8, GrowHere, GrowFree DEF Open
<1>12. Open(e, e.insert) /\ e \in BuilderType
  <2>1. e \in BuilderType
    BY <1>8 DEF Grows
  <2>2. e.insert = b.insert /\ b.insert \in Made(e) /\ e.blocks[b.insert] = b.blocks[b.insert]
    BY <1>2, <1>3, <1>8, GrowthKeeps DEF Open
  <2> QED
    BY <1>3, <2>1, <2>2 DEF Open
<1>13. blocks \in Seq(Nat) /\ blocks # <<>> /\ DOMAIN blocks = DOMAIN labels
  <2>1. new \in [Ids -> 0..Len(e.blocks)] /\ Len(e.blocks) \in Nat
    BY <1>11, <1>12, BuilderFields DEF Here
  <2>2. \A x \in 0..Len(e.blocks) : x \in Nat
    BY <2>1
  <2>3. new \in [Ids -> Nat]
    BY <2>1, <2>2
  <2> QED
    BY <1>5, <2>3
<1>14. ASSUME NEW k \in DOMAIN to
       PROVE  /\ to[k] \in Made(e) /\ e.blocks[to[k]].fn = e.blocks[e.insert].fn
              /\ \A g \in Begun(spirv, new) : spirv[g].op = "function" => At(spirv, new, g) # to[k]
  <2>1. PICK i \in DOMAIN blocks : to[k] = blocks[i]
    <3> HIDE DEF blocks
    <3> QED
      BY <1>13, TargetsIn
  <2>2. PICK v \in DOMAIN spirv :
               /\ spirv[v].op = "label" /\ spirv[v].id = labels[i] /\ spirv[v - 1].op # "function"
               /\ InOneFunction(spirv, v, word)
    BY <1>6, <1>13
  <2>3. v \in Begun(spirv, new) /\ At(spirv, new, v) = to[k]
    BY <1>9, <1>13, <2>1, <2>2 DEF Begun, At, Definitions
  <2>4. \A u \in v..(word - 1) : spirv[u].op # "functionEnd"
    <3>1. \A u \in v..(word - 1) : u \in v..word
      BY <1>2, <1>4 DEF Valid
    <3> QED
      BY <2>2, <3>1 DEF InOneFunction
  <2> QED
    BY <1>4, <1>10, <1>11, <2>2, <2>3, <2>4, LabelTarget
<1>15. TermKind(spirv[word].op) \in {"br", "cond", "switch"}
  BY <1>1 DEF TermKind, Branches
<1>16. term \in TermType /\ term.to = to /\ term.kind \notin {"none", "double"}
  <2>1. to \in Seq(Nat)
    BY <1>13, TargetsType
  <2> HIDE DEF to
  <2> QED
    BY <1>15, <2>1 DEF Term, TermType, TermKinds
<1>17. Fills(e, b') /\ B2 = [B EXCEPT !.term = term]
  <2> HIDE DEF term
  <2> QED
    BY <1>1, <1>12, <1>16, TerminateFills
<1>18. B \in BlockType
  BY <1>12, BuilderFields DEF Open
<1> HIDE DEF B, B2, to
<1>19. B2.term = term /\ B2.code = B.code
  <2> HIDE DEF term
  <2> QED
    BY <1>17, <1>18 DEF BlockType
<1>20. GoodEnd(spirv, new, word, e, B2)
  BY <1>14, <1>16, <1>19 DEF GoodEnd
<1>21. B2.code = B.code \o Killed(spirv[word].op)
  <2>1. B.code \o <<>> = B.code
    BY <1>18, ConcatEmptySeq DEF BlockType
  <2> QED
    BY <1>1, <1>19, <2>1 DEF Killed, Branches
<1>22. TermFor(spirv, new, b', entryPoint, B2, word)
  BY <1>1, <1>19 DEF TermFor, Branches, to, labels
<1>23. GraphOK(spirv, new, word + 1, b', currentFunction, entryPoint)
  <2>1. spirv[word].op \in Terminators
    BY <1>1 DEF Terminators
  <2> QED
    BY <1>2, <1>9, <1>10, <1>11, <1>17, <1>20, <1>21, <1>22, <2>1, EndingWord DEF B, B2, labels
<1> QED
  BY <1>1, <1>2, <1>23, GraphNext

(* Labels ahead get the same blocks whatever the current block holds. *)
LEMMA FilledLabels ==
  ASSUME NEW c, NEW d, Fills(c, d), commonMap \in [Ids -> 0..Len(c.blocks)],
         currentFunction \in Ids \union {NoFunction}, NEW labels \in Seq(Ids),
         c.insert \in Made(c)
  PROVE  LET s == MakeLabelBlocks(c, labels)
             t == MakeLabelBlocks(d, labels)
         IN  /\ t.map = s.map /\ Fills(s.b, t.b)
             /\ t.b.blocks[c.insert] = d.blocks[c.insert]
             /\ s.b.blocks[c.insert] = c.blocks[c.insert] /\ s.b.insert = c.insert
<1> DEFINE s == MakeLabelBlocks(c, labels)
           t == MakeLabelBlocks(d, labels)
           e == s.b
           f == t.b
<1>1. /\ c \in BuilderType /\ d \in BuilderType /\ Len(d.blocks) = Len(c.blocks)
      /\ Made(d) = Made(c) /\ d.insert = c.insert /\ d.layout = c.layout
  BY StaysMade DEF Fills, Stays
<1>2. t.map = s.map
  BY <1>1 DEF MakeLabelBlocks, LabelMap
<1>3. /\ Changes(c, e, {}) /\ SameStage(c, e) /\ e.insert = c.insert
      /\ Len(e.layout) = Len(c.layout) + (Len(e.blocks) - Len(c.blocks))
      /\ \A i \in 1..Len(c.layout) : e.layout[i] = c.layout[i]
      /\ \A i \in 1..Len(e.layout) : i > Len(c.layout) =>
           e.layout[i] = Len(c.blocks) + (i - Len(c.layout))
      /\ \A i \in Made(e) : i \notin Made(c) => e.blocks[i] = NewBlock("L", currentFunction)
  <2>1. Changes(c, e, {}) /\ SameStage(c, e) /\ e.insert = c.insert
    BY <1>1, MakeLabelBlocksChanges
  <2>2. /\ Len(e.layout) = Len(c.layout) + (Len(e.blocks) - Len(c.blocks))
        /\ \A i \in 1..Len(c.layout) : e.layout[i] = c.layout[i]
        /\ \A i \in 1..Len(e.layout) : i > Len(c.layout) =>
             e.layout[i] = Len(c.blocks) + (i - Len(c.layout))
        /\ \A i \in Made(e) : i \notin Made(c) => e.blocks[i] = NewBlock("L", currentFunction)
    BY <1>1, MakeLabelBlocksAppends
  <2> QED
    BY <2>1, <2>2
<1>4. /\ Changes(d, f, {}) /\ SameStage(d, f) /\ f.insert = d.insert
      /\ Len(f.layout) = Len(d.layout) + (Len(f.blocks) - Len(d.blocks))
      /\ \A i \in 1..Len(d.layout) : f.layout[i] = d.layout[i]
      /\ \A i \in 1..Len(f.layout) : i > Len(d.layout) =>
           f.layout[i] = Len(d.blocks) + (i - Len(d.layout))
      /\ \A i \in Made(f) : i \notin Made(d) => f.blocks[i] = NewBlock("L", currentFunction)
  <2>1. Changes(d, f, {}) /\ SameStage(d, f) /\ f.insert = d.insert
    BY <1>1, MakeLabelBlocksChanges
  <2>2. /\ Len(f.layout) = Len(d.layout) + (Len(f.blocks) - Len(d.blocks))
        /\ \A i \in 1..Len(d.layout) : f.layout[i] = d.layout[i]
        /\ \A i \in 1..Len(f.layout) : i > Len(d.layout) =>
             f.layout[i] = Len(d.blocks) + (i - Len(d.layout))
        /\ \A i \in Made(f) : i \notin Made(d) => f.blocks[i] = NewBlock("L", currentFunction)
    BY <1>1, MakeLabelBlocksAppends
  <2> QED
    BY <2>1, <2>2
<1>5. Len(f.blocks) = Len(e.blocks)
  <2> DEFINE k == Cardinality(FirstSeen(labels))
             more == [j \in 1..k |-> NewBlock("L", currentFunction)]
  <2>1. k \in Nat
    <3>1. Len(labels) \in Nat /\ FirstSeen(labels) \in SUBSET (1..Len(labels))
      BY DEF FirstSeen
    <3> QED
      BY <3>1, RankInjective
  <2>2. e.blocks = c.blocks \o more /\ f.blocks = d.blocks \o more
    BY <1>1 DEF MakeLabelBlocks, BuilderType
  <2>3. NewBlock("L", currentFunction) \in BlockType
    BY NewBlockType
  <2>4. more \in Seq(BlockType)
    <3> HIDE DEF k
    <3> QED
      BY <2>1, <2>3
  <2>5. c.blocks \in Seq(BlockType) /\ d.blocks \in Seq(BlockType)
    BY <1>1, BuilderFields
  <2> HIDE DEF more
  <2>6. /\ Len(c.blocks \o more) = Len(c.blocks) + Len(more)
        /\ Len(d.blocks \o more) = Len(d.blocks) + Len(more)
    BY <2>4, <2>5, ConcatProperties
  <2> QED
    BY <1>1, <2>2, <2>6
<1> HIDE DEF e, f
<1>6. e \in BuilderType /\ f \in BuilderType /\ Made(f) = Made(e) /\ SameStage(e, f)
  BY <1>3, <1>4, <1>5 DEF Changes, Made, SameStage, Fills, Stays
<1>7. /\ \A i \in Made(c) : e.blocks[i] = c.blocks[i] /\ f.blocks[i] = d.blocks[i]
      /\ \A i \in Made(c) : i \in Made(e)
  BY <1>1, <1>3, <1>4, ChangesFacts
<1>8. ASSUME NEW i \in Made(e)
      PROVE  (i # c.insert => f.blocks[i] = e.blocks[i]) /\ f.blocks[i].fn = e.blocks[i].fn
  <2>1. CASE i \in Made(c)
    BY <1>7, <2>1 DEF Fills, Stays
  <2>2. CASE i \notin Made(c)
    BY <1>1, <1>3, <1>4, <1>6, <2>2
  <2> QED
    BY <2>1, <2>2
<1>9. f.layout = e.layout
  <2>1. /\ e.layout \in Seq(Nat) /\ f.layout \in Seq(Nat) /\ Len(c.layout) \in Nat
        /\ Len(f.layout) = Len(e.layout) /\ Len(e.layout) \in Nat
    <3>1. c.layout \in Seq(Nat) /\ e.layout \in Seq(Nat) /\ f.layout \in Seq(Nat)
      BY <1>1, <1>6, BuilderFields
    <3>2. Len(f.layout) = Len(e.layout)
      BY <1>1, <1>3, <1>4, <1>5
    <3> QED
      BY <3>1, <3>2, LenProperties
  <2>2. ASSUME NEW i \in 1..Len(e.layout) PROVE f.layout[i] = e.layout[i]
    <3>1. CASE i > Len(c.layout)
      BY <1>1, <1>3, <1>4, <2>1, <3>1
    <3>2. CASE ~ (i > Len(c.layout))
      <4>1. i \in 1..Len(c.layout)
        BY <2>1, <3>2
      <4> QED
        BY <1>1, <1>3, <1>4, <4>1
    <3> QED
      BY <3>1, <3>2
  <2> QED
    BY <2>1, <2>2, SeqEqual
<1>10. Fills(e, f)
  BY <1>1, <1>3, <1>4, <1>5, <1>6, <1>8, <1>9 DEF Fills, Stays
<1> QED
  BY <1>2, <1>3, <1>7, <1>10 DEF e, f

LEMMA KillGraph ==
  ASSUME SInv, GInv, OpKill
  PROVE  GInv'
<1> DEFINE main == InEntryPoint
           d == Discard(b, main)
           p == Emit(b, Event("discard", 0))
           B == b.blocks[b.insert]
           B2 == b'.blocks[b.insert]
           id == spirv[word + 1].id
           t == MakeLabelBlocks(d, <<id>>)
           s == MakeLabelBlocks(b, <<id>>)
<1>1. /\ phase = "translating" /\ word <= Len(spirv) /\ spirv[word].op = "kill"
      /\ word' = word + 1
      /\ UNCHANGED <<spirv, entryPoint, currentModel, currentFunction, phase>>
      /\ \/ /\ Terminated(d) \/ spirv[word + 1].op # "label"
            /\ b' = d /\ commonMap' = commonMap
         \/ /\ ~ Terminated(d) /\ spirv[word + 1].op = "label"
            /\ commonMap' = t.map /\ b' = Terminate(t.b, Br(t.map[id]))
  BY DEF OpKill, Reading, Instruction, GoOn
<1>2. /\ Here(spirv, commonMap, word, b) /\ ModelOK(entryPoint, currentModel)
      /\ GraphOK(spirv, commonMap, word, b, currentFunction, entryPoint)
      /\ InsertOK(spirv, commonMap, word, b, currentFunction)
      /\ word \in DOMAIN spirv /\ Valid(spirv) /\ b \in BuilderType
      /\ currentFunction \in Ids \union {NoFunction}
      /\ commonMap \in [Ids -> 0..Len(b.blocks)]
  BY <1>1, GraphNow DEF Here
<1>3. Open(b, b.insert) /\ Free(spirv, commonMap, word, b) /\ b.insert \in Made(b)
  BY <1>1, <1>2 DEF InsertOK, InBlock, Free, Terminators, Open
<1>4. /\ ~ Outside(spirv, word) /\ word \in Nat /\ word >= 1
      /\ spirv[word].op \in Terminators /\ spirv[word].op \notin Branches
  BY <1>1, <1>2 DEF Outside, Branches, Terminators, Valid
<1>5. /\ Fills(b, p) /\ Open(p, p.insert)
      /\ p.blocks[b.insert] = [B EXCEPT !.code = Append(@, Event("discard", 0))]
  <2>1. Event("discard", 0) \in EventType
    BY EventsType
  <2> QED
    BY <1>2, <1>3, <2>1, EmitFills
<1>6. B \in BlockType /\ B.fn = currentFunction
  BY <1>2, <1>3, <1>4, BuilderFields DEF GraphOK, WordsOK
<1>7. Append(B.code, Event("discard", 0)) = B.code \o Killed(spirv[word].op)
  <2>1. B.code \in Seq(EventType) /\ Event("discard", 0) \in EventType
    BY <1>6, EventsType DEF BlockType
  <2> HIDE DEF B
  <2> QED
    BY <1>1, <2>1, AppendIsConcat DEF Killed
<1>8. d = IF main THEN Terminate(p, Br(b.stageExit)) ELSE p
  BY <1>3 DEF Discard, Terminated, HasTerminator, Open
<1>9. /\ p.insert = b.insert /\ p \in BuilderType
      /\ p.blocks[b.insert].code = B.code \o Killed(spirv[word].op)
      /\ p.blocks[b.insert].term = B.term /\ p.blocks[b.insert].fn = currentFunction
      /\ p.blocks[b.insert] \in BlockType
  <2>1. p.insert = b.insert /\ p \in BuilderType
    BY <1>5 DEF Fills, Stays
  <2>2. p.blocks[b.insert] \in BlockType
    BY <1>5, <2>1, BuilderFields DEF Open
  <2> HIDE DEF p, B
  <2> QED
    BY <1>5, <1>6, <1>7, <2>1, <2>2 DEF BlockType
<1> HIDE DEF p
<1>10. CASE main
  <2> DEFINE br == Br(b.stageExit)
  <2>1. br \in TermType /\ br.to = <<b.stageExit>> /\ br.kind = "br"
    BY <1>2, BuilderFields, TermsType DEF Br, Term
  <2>2. d = Terminate(p, br)
    BY <1>8, <1>10
  <2>3. Fills(p, d) /\ d.blocks[b.insert] = [p.blocks[b.insert] EXCEPT !.term = br]
    <3>1. p \in BuilderType /\ Open(p, p.insert) /\ p.insert = b.insert /\ br \in TermType
      BY <1>5, <1>9, <2>1
    <3> HIDE DEF br, d
    <3>2. LET q == Terminate(p, br)
          IN  Fills(p, q) /\ q.blocks[p.insert] = [p.blocks[p.insert] EXCEPT !.term = br]
      BY <3>1, TerminateFills
    <3> QED
      BY <2>2, <3>1, <3>2
  <2> HIDE DEF d
  <2>4. Fills(b, d) /\ d.insert = b.insert
    BY <1>5, <1>9, <2>3, FillsThen DEF Fills
  <2>5. /\ d.blocks[b.insert].term = br /\ d.blocks[b.insert].fn = currentFunction
        /\ d.blocks[b.insert].code = B.code \o Killed(spirv[word].op)
    <3> HIDE DEF br, B
    <3> QED
      BY <1>9, <2>3 DEF BlockType
  <2>6. Terminated(d)
    BY <2>1, <2>4, <2>5 DEF Terminated, HasTerminator
  <2>7. b' = d /\ commonMap' = commonMap
    BY <1>1, <2>6
  <2>8. GoodEnd(spirv, commonMap, word, b, B2)
    <3>1. currentFunction \in entryPoint /\ \A k \in DOMAIN br.to : br.to[k] \in Stages(b)
      BY <1>10, <2>1 DEF InEntryPoint, Stages
    <3>2. B2.term = br
      BY <2>5, <2>7
    <3>3. ASSUME NEW i \in Stages(b)
          PROVE  /\ i \in Made(b) /\ b.blocks[i].fn = b.blocks[b.insert].fn
                 /\ \A g \in Begun(spirv, commonMap) : At(spirv, commonMap, g) # i
      BY <1>2, <1>4, <3>1, StageTarget
    <3> HIDE DEF br, B2
    <3> QED
      BY <2>1, <3>1, <3>2, <3>3 DEF GoodEnd
  <2>9. TermFor(spirv, commonMap, b', entryPoint, B2, word)
    <3>1. b'.stageExit = b.stageExit
      BY <2>4, <2>7 DEF Fills, Stays, SameStage
    <3> QED
      BY <1>1, <2>5, <2>7, <3>1 DEF TermFor, Branches
  <2>10. GraphOK(spirv, commonMap, word + 1, b', currentFunction, entryPoint)
    BY <1>2, <1>3, <1>4, <2>4, <2>5, <2>7, <2>8, <2>9, EndingWord
  <2> QED
    BY <1>1, <1>2, <2>7, <2>10, GraphNext
<1>11. CASE ~ main /\ spirv[word + 1].op # "label"
  <2>1. d = p
    BY <1>8, <1>11
  <2>2. b' = p /\ commonMap' = commonMap
    BY <1>1, <1>11, <2>1
  <2>3. spirv[word + 1].op = "functionEnd"
    BY <1>1, <1>2, <1>4, <1>11, WordFacts
  <2>4. GoodEnd(spirv, commonMap, word, b, B2)
    <3>1. B2.term = b.blocks[b.insert].term
      BY <1>9, <2>2
    <3> HIDE DEF B2
    <3> QED
      BY <1>2, <1>3, <2>3, <3>1 DEF GoodEnd, GraphOK, TargetsOK
  <2>5. TermFor(spirv, commonMap, b', entryPoint, B2, word)
    BY <1>1, <1>9, <1>11, <2>2 DEF TermFor, Branches, InEntryPoint
  <2>6. GraphOK(spirv, commonMap, word + 1, b', currentFunction, entryPoint)
    BY <1>2, <1>3, <1>4, <1>5, <1>9, <2>2, <2>4, <2>5, EndingWord
  <2> QED
    BY <1>1, <1>2, <2>2, <2>6, GraphNext
<1>12. CASE ~ main /\ spirv[word + 1].op = "label"
  <2>1. d = p
    BY <1>8, <1>12
  <2>2. ~ Terminated(d)
    BY <1>5, <2>1 DEF Terminated, HasTerminator, Open
  <2>3. commonMap' = t.map /\ b' = Terminate(t.b, Br(t.map[id]))
    BY <1>1, <1>12, <2>2
  <2>4. word + 1 \in DOMAIN spirv /\ id \in Ids
    <3>1. word + 1 \in DOMAIN spirv
      BY <1>1, <1>2, NextWord
    <3> QED
      BY <1>2, <1>12, <3>1, Fields DEF Definitions
  <2>5. <<id>> \in Seq(Ids) /\ DOMAIN <<id>> = {1} /\ <<id>>[1] = id
    BY <2>4
  <2> HIDE DEF d, main
  <2>6. /\ t.map = s.map /\ Fills(s.b, t.b)
        /\ t.b.blocks[b.insert] = p.blocks[b.insert] /\ s.b.blocks[b.insert] = B
        /\ s.b.insert = b.insert
    <3>1. t = MakeLabelBlocks(p, <<id>>)
      BY <2>1
    <3> DEFINE r == MakeLabelBlocks(p, <<id>>)
    <3> HIDE DEF id, t
    <3>2. /\ r.map = s.map /\ Fills(s.b, r.b)
          /\ r.b.blocks[b.insert] = p.blocks[b.insert]
          /\ s.b.blocks[b.insert] = b.blocks[b.insert]
          /\ s.b.insert = b.insert
      BY <1>2, <1>3, <1>5, <2>5, FilledLabels
    <3> QED
      BY <3>1, <3>2
  <2>7. Grows(spirv, commonMap, s.map, word, b, s.b, currentFunction)
    <3>1. ASSUME NEW i \in DOMAIN <<id>>, commonMap[<<id>>[i]] = Nothing
          PROVE  \E v \in DOMAIN spirv :
                   /\ v >= word /\ spirv[v].op = "label" /\ spirv[v].id = <<id>>[i]
                   /\ spirv[v - 1].op # "function"
                   /\ \A u \in word..v : spirv[u].op # "functionEnd"
      <4>1. word + 1 >= word /\ (word + 1) - 1 = word /\ \A u \in word..(word + 1) : u = word \/ u = word + 1
        BY <1>4
      <4>2. spirv[word].op # "function" /\ \A u \in word..(word + 1) : spirv[u].op # "functionEnd"
        BY <1>1, <1>12, <4>1
      <4> QED
        BY <1>12, <2>4, <2>5, <4>1, <4>2
    <3> HIDE DEF id
    <3> QED
      BY <1>2, <1>4, <2>5, <3>1, LabelBlocksGrow
  <2>8. s.map[id] # Nothing
    <3> HIDE DEF id
    <3> QED
      BY <1>2, <2>4, OneLabel
  <2> DEFINE e == s.b
             f == t.b
             new == s.map
             br == Br(new[id])
  <2> HIDE DEF s, t
  <2>9. /\ GraphOK(spirv, new, word, e, currentFunction, entryPoint)
        /\ Here(spirv, new, word, e) /\ Free(spirv, new, word, e)
    BY <1>1, <1>2, <1>3, <2>7, GrowGraph, GrowHere, GrowFree
  <2>10. /\ f \in BuilderType /\ f.insert = b.insert /\ Open(f, f.insert) /\ f.blocks[b.insert] \in BlockType
    <3>1. f \in BuilderType /\ f.insert = b.insert /\ Made(f) = Made(e)
      BY <2>6, StaysMade DEF Fills, Stays
    <3>2. b.insert \in Made(e)
      BY <1>2, <1>3, <2>7, GrowthKeeps
    <3> QED
      BY <1>5, <1>9, <2>6, <3>1, <3>2 DEF Open
  <2>11. word + 1 \in Begun(spirv, new) /\ At(spirv, new, word + 1) = new[id]
    BY <1>12, <2>4, <2>8 DEF Begun, At, Definitions
  <2>12. /\ new[id] \in Made(e) /\ e.blocks[new[id]].fn = e.blocks[e.insert].fn
         /\ \A g \in Begun(spirv, new) : spirv[g].op = "function" => At(spirv, new, g) # new[id]
    <3>1. (word + 1) - 1 = word /\ (word + 1)..(word - 1) = {}
      BY <1>4
    <3>2. spirv[(word + 1) - 1].op # "function"
      BY <1>1, <3>1
    <3>3. \A u \in (word + 1)..(word - 1) : spirv[u].op # "functionEnd"
      BY <3>1
    <3> QED
      BY SMTT(60), <1>4, <1>12, <2>9, <2>11, <3>2, <3>3, LabelTarget
  <2>13. br \in TermType /\ br.to = <<new[id]>> /\ br.kind = "br"
    <3>1. new[id] \in Nat
      BY <2>9, <2>12, BuilderFields DEF Here, Made
    <3> QED
      BY <3>1, TermsType DEF Br, Term
  <2>14. Fills(f, b') /\ B2 = [f.blocks[b.insert] EXCEPT !.term = br]
    <3>1. b' = Terminate(f, br)
      BY <2>3, <2>6
    <3> HIDE DEF br, f
    <3> QED
      BY <2>10, <2>13, <3>1, TerminateFills
  <2>15. Fills(e, b')
    BY <2>6, <2>14, FillsThen
  <2> HIDE DEF B, B2
  <2>16. B2.term = br /\ B2.code = B.code \o Killed(spirv[word].op) /\ B2.fn = currentFunction
    <3> HIDE DEF br
    <3> QED
      BY <1>9, <2>6, <2>10, <2>14 DEF BlockType
  <2>17. GoodEnd(spirv, new, word, e, B2)
    <3>1. \A k \in DOMAIN br.to : br.to[k] = new[id]
      BY <2>13
    <3> HIDE DEF br
    <3> QED
      BY <2>12, <2>13, <2>16, <3>1 DEF GoodEnd
  <2>18. TermFor(spirv, new, b', entryPoint, B2, word)
    BY <1>1, <1>12, <2>16 DEF TermFor, Branches, InEntryPoint, main
  <2>19. e.insert = b.insert /\ e.blocks[b.insert] = B
    BY <2>6
  <2>20. GraphOK(spirv, new, word + 1, b', currentFunction, entryPoint)
    BY <1>2, <1>4, <2>9, <2>15, <2>16, <2>17, <2>18, <2>19, EndingWord DEF B2
  <2>21. commonMap' = new
    BY <2>3, <2>6
  <2> QED
    BY <1>1, <1>2, <2>20, <2>21, GraphNext
<1> QED
  BY <1>10, <1>11, <1>12

LEMMA LabelStepGraph ==
  ASSUME SInv, GInv, OpLabel
  PROVE  GInv'
<1> DEFINE id == spirv[word].id
           t == MakeLabelBlocks(b, <<id>>)
           e == t.b
           new == t.map
<1>1. /\ phase = "translating" /\ word <= Len(spirv) /\ spirv[word].op = "label"
      /\ word' = word + 1 /\ commonMap' = new /\ b' = SetInsertPoint(e, new[id])
      /\ UNCHANGED <<spirv, entryPoint, currentModel, currentFunction, phase>>
  BY DEF OpLabel, Reading, Instruction, GoOn
<1>2. /\ Here(spirv, commonMap, word, b) /\ ModelOK(entryPoint, currentModel)
      /\ GraphOK(spirv, commonMap, word, b, currentFunction, entryPoint)
      /\ currentFunction \in Ids \union {NoFunction}
      /\ word \in DOMAIN spirv /\ Valid(spirv) /\ b \in BuilderType
      /\ commonMap \in [Ids -> 0..Len(b.blocks)]
  BY <1>1, GraphNow DEF Here
<1>3. ~ Outside(spirv, word) /\ word \in Nat /\ word >= 1 /\ id \in Ids
  BY <1>1, <1>2, Fields DEF Outside, Valid, Definitions
<1>4. <<id>> \in Seq(Ids) /\ DOMAIN <<id>> = {1} /\ <<id>>[1] = id
  BY <1>3
<1>5. commonMap[id] = Nothing => spirv[word - 1].op # "function"
  <2> SUFFICES ASSUME spirv[word - 1].op = "function" PROVE commonMap[id] # Nothing
    OBVIOUS
  <2>1. word # 1
    BY <1>1, <1>2 DEF Valid
  <2>2. word - 1 \in 1..(word - 1) /\ (word - 1) + 1 = word
    BY <1>3, <2>1
  <2>3. word \in Begun(spirv, commonMap)
    BY <1>2, <2>2 DEF GraphOK, DistinctOK
  <2> QED
    BY <2>3 DEF Begun, At
<1>6. Grows(spirv, commonMap, new, word, b, e, currentFunction)
  <2>1. \A u \in word..word : spirv[u].op # "functionEnd"
    BY <1>1, <1>3
  <2>2. ASSUME NEW i \in DOMAIN <<id>>, commonMap[<<id>>[i]] = Nothing
        PROVE  \E v \in DOMAIN spirv :
                 /\ v >= word /\ spirv[v].op = "label" /\ spirv[v].id = <<id>>[i]
                 /\ spirv[v - 1].op # "function"
                 /\ \A u \in word..v : spirv[u].op # "functionEnd"
    BY <1>1, <1>2, <1>3, <1>4, <1>5, <2>1, <2>2
  <2> HIDE DEF id
  <2> QED
    BY <1>2, <1>3, <1>4, <2>2, LabelBlocksGrow
<1>7. new[id] # Nothing
  <2> HIDE DEF id
  <2> QED
    BY <1>2, <1>3, OneLabel
<1> HIDE DEF t
<1>8. /\ GraphOK(spirv, new, word, e, currentFunction, entryPoint)
      /\ Here(spirv, new, word, e)
  BY <1>1, <1>2, <1>6, GrowGraph, GrowHere
<1>9. word \in Begun(spirv, new) /\ At(spirv, new, word) = new[id]
  BY <1>1, <1>2, <1>7 DEF Begun, At, Definitions
<1>10. Turns(e, b', At(spirv, new, word))
  <2>1. new[id] \in Nat /\ e \in BuilderType
    BY <1>3, <1>8, BuilderFields DEF Here
  <2>2. /\ Changes(e, b', {}) /\ SameStage(e, b') /\ b'.insert = new[id]
        /\ b'.blocks = e.blocks /\ b'.layout = e.layout
    BY <1>1, <2>1, SetInsertChanges
  <2> QED
    BY <1>9, <2>2 DEF Turns, Stays, Changes
<1>11. GraphOK(spirv, new, word + 1, b', currentFunction, entryPoint)
  BY <1>1, <1>2, <1>8, <1>9, <1>10, LabelGraph
<1> QED
  BY <1>1, <1>2, <1>11, GraphNext
=============================================================================
