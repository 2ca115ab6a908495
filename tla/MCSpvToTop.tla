----------------------------- MODULE MCSpvToTop ------------------------------
(* Modules of two or three functions: main is 1, the others are 2 and 3.    *)
(* Label n of function f is 10 * f + n.  Blocks come in an order in which   *)
(* none is in front of a block that dominates it, as SPIR-V asks.           *)
EXTENDS SpvToTop
LOCAL INSTANCE SequencesExt

MCIds == {1, 2, 3} \union {10 * f + n : f \in 1..3, n \in 1..3}

Ins(op, id, labels) == [op |-> op, id |-> id, labels |-> labels]
Stmt == Ins("stmt", 0, <<>>)
CallOf(f) == Ins("call", f, <<>>)
Endings(f, n) ==
  LET L == {10 * f + k : k \in 2..n}
  IN  {Ins("branch", 0, <<l>>) : l \in L}
        \union {Ins(op, 0, <<l, m>>) : op \in {"branchConditional", "switch"}, l \in L, m \in L}
        \union {Ins("kill", 0, <<>>), Ins("return", 0, <<>>)}

(* bodies[k] is what label k does before it ends *)
BlockOf(f, k, body, end) == <<Ins("label", 10 * f + k, <<>>)>> \o body \o <<end>>
FunctionOf(f, bodies, ends) ==
  <<Ins("function", f, <<>>)>>
    \o FlattenSeq([k \in DOMAIN ends |-> BlockOf(f, k, bodies[k], ends[k])])
    \o <<Ins("functionEnd", 0, <<>>)>>

(* what label 1 reaches without label "avoided" *)
Step(f, ends, S, avoided) ==
  (S \union {l - 10 * f : l \in UNION {{ends[k].labels[j] : j \in DOMAIN ends[k].labels} : k \in S}})
    \ {avoided}
ReachedWithout(f, ends, avoided) ==
  Step(f, ends, Step(f, ends, {1} \ {avoided}, avoided), avoided)
Ordered(f, ends) ==
  \A k \in DOMAIN ends : \A later \in k + 1..Len(ends) :
     k \in ReachedWithout(f, ends, 0) => k \in ReachedWithout(f, ends, later)

Flows(f, n) == {ends \in [1..n -> Endings(f, n)] : Ordered(f, ends)}
Bodies(k, call) == [[j \in 1..3 |-> <<Stmt>>] EXCEPT ![k] = <<Stmt, call, Stmt>>]
Return(f) == <<Ins("return", 0, <<>>)>>
Leaf(f) == FunctionOf(f, <<<<Stmt>>>>, Return(f))
Helper(end) == FunctionOf(2, <<<<Stmt>>>>, <<end>>)

Entry == Ins("entryPoint", 1, <<>>)
Either(x, y) == {<<Entry>> \o x \o y, <<Entry>> \o y \o x}
MainFlows ==
  UNION {Either(FunctionOf(1, Bodies(k, CallOf(2)), ends), Helper(Ins(op, 0, <<>>))) :
           ends \in Flows(1, 3), k \in {2}, op \in {"kill"}}
HelperFlows ==
  UNION {Either(FunctionOf(1, <<<<CallOf(2), CallOf(3)>>>>, Return(1)) \o Leaf(3),
                FunctionOf(2, Bodies(k, CallOf(3)), ends)) :
           ends \in Flows(2, 3), k \in {2}}
Refused == {<<Entry, Ins("entryPoint", 2, <<>>)>>,
            <<Entry>> \o FunctionOf(1, <<<<Ins("phi", 0, <<>>)>>>>, Return(1))}
MCModules == MainFlows \union HelperFlows \union Refused
=============================================================================
