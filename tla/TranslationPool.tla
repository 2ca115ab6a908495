-------------------------- MODULE TranslationPool ---------------------------
(***************************************************************************)
(* What the threaded mode of the driver promises, whoever does the work:   *)
(* each of the shaders 1..N is taken up once, in order, and then settled,  *)
(* as translated or as dropped.  Once all are settled their results are    *)
(* shown, in order.  It ends having shown all of them, or none.            *)
(***************************************************************************)
EXTENDS Naturals, Sequences

CONSTANT N
Shaders == 1..N
Settled == {"translated", "dropped"}

VARIABLES
  state,  \* of each shader
  shown,  \* the results shown
  ended

pool == <<state, shown, ended>>

Init ==
  /\ state = [n \in Shaders |-> "waiting"]
  /\ shown = <<>>
  /\ ended = FALSE

Take(n) ==
  /\ state[n] = "waiting"
  /\ \A m \in Shaders : m < n => state[m] # "waiting"
  /\ state' = [state EXCEPT ![n] = "taken"]
  /\ UNCHANGED <<shown, ended>>

Settle(n) ==
  /\ state[n] = "taken"
  /\ \E how \in Settled : state' = [state EXCEPT ![n] = how]
  /\ UNCHANGED <<shown, ended>>

Show ==
  /\ \A n \in Shaders : state[n] \in Settled
  /\ Len(shown) < N
  /\ shown' = Append(shown, [of |-> Len(shown) + 1, how |-> state[Len(shown) + 1]])
  /\ UNCHANGED <<state, ended>>

End ==
  /\ Len(shown) \in {0, N}
  /\ ended' = TRUE
  /\ UNCHANGED <<state, shown>>

Next == ~ ended /\ (Show \/ End \/ \E n \in Shaders : Take(n) \/ Settle(n))

Spec == Init /\ [][Next]_pool
=============================================================================
