----------------------------- MODULE DriverPool -----------------------------
(***************************************************************************)
(* The driver implements TranslationPool: the work list, the threads and   *)
(* main's loops are one pool.  In the linked mode the pool is never used.  *)
(***************************************************************************)
EXTENDS Driver

PoolState(n) ==
  IF \E i \in DOMAIN worklist : worklist[i] = n THEN "waiting"
  ELSE IF \E w \in Workers : Busy(w) /\ worker[w].name = n THEN "taken"
  ELSE IF ~ Threaded \/ main = "begin" THEN "waiting"
  ELSE IF results[n] = "none" THEN "dropped" ELSE "translated"
PoolShown ==
  IF Threaded
  THEN [i \in DOMAIN output |->
          [of |-> output[i].of,
           how |-> IF output[i].how = "none" THEN "dropped" ELSE "translated"]]
  ELSE <<>>

Pool == INSTANCE TranslationPool WITH
  N <- NumShaders,
  state <- [n \in Names |-> PoolState(n)],
  shown <- PoolShown,
  ended <- Threaded /\ ~ Running

(* TranslateShadersMultithreaded, TranslateSingleShader: whatever the      *)
(* schedule, the failures and the way it ends, the driver does what the    *)
(* pool may do; in particular it shows all results in order, or none.      *)
Implements == Pool!Spec
=============================================================================
