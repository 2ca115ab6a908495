---------------------------- MODULE Driver_proofs ----------------------------
(***************************************************************************)
(* Proofs about the driver, for any number of shaders and workers; at the  *)
(* end, that it implements the pool: each step of main or of a worker is a *)
(* step of TranslationPool or leaves the pool as it is.                    *)
(***************************************************************************)
EXTENDS DriverPool, TLAPS

(* The types of the worker states and of the printed results. *)
WorkerType == [Workers -> [at : WorkerPlaces, name : Names \cup {NoName}]]
Printed    == [of : Names \cup Stages, how : Paths]

LEMMA MoveWorker ==
  ASSUME worker \in WorkerType, NEW w \in Workers, NEW p \in WorkerPlaces
  PROVE  [worker EXCEPT ![w].at = p] \in WorkerType
BY DEF WorkerType

LEMMA GiveWorker ==
  ASSUME worker \in WorkerType, NEW w \in Workers, NEW p \in WorkerPlaces,
         NEW n \in Names
  PROVE  [worker EXCEPT ![w] = [at |-> p, name |-> n]] \in WorkerType
BY DEF WorkerType

LEMMA AppendType ==
  ASSUME NEW S, NEW s \in Seq(S), NEW e \in S
  PROVE  Append(s, e) \in Seq(S)
OBVIOUS

(* Every variable keeps its type.  No conjunct needs another invariant. *)
THEOREM TypeCorrect == Spec => []TypeOK
<1> USE NumShadersAssumption, StagesAssumption, FatesAssumption DEF NumShadersAssumption, StagesAssumption, FatesAssumption
<1>1. Init => TypeOK
  <2> SUFFICES ASSUME Init PROVE TypeOK
    OBVIOUS
  <2>1. worker \in [Workers -> [at : WorkerPlaces, name : Names \cup {NoName}]]
    BY DEF Init, WorkerPlaces
  <2>2. worklist \in Seq(Names) /\ output \in Seq([of : Names \cup Stages, how : Paths])
    BY DEF Init
  <2>3. results \in [Names -> Paths] /\ next \in 1..(NumShaders + 1)
    BY DEF Init, Paths
  <2> QED
    BY <2>1, <2>2, <2>3 DEF Init, TypeOK
<1>2. TypeOK /\ [Next]_vars => TypeOK'
  <2> SUFFICES ASSUME TypeOK, [Next]_vars PROVE TypeOK'
    OBVIOUS
  <2> USE DEF Names, NoName, Paths, WorkerPlaces, ESuccess, Aborted,
              EFailCompile, EFailLink, input, flags
  <2>1. CASE TranslateShaders
    BY <2>1 DEF TypeOK, TranslateShaders
  <2>2. ASSUME NEW w \in Workers, StartWorker(w) PROVE TypeOK'
    <3>1. worker \in WorkerType /\ "idle" \in WorkerPlaces
      BY DEF TypeOK, WorkerType
    <3>2. worker' \in WorkerType
      BY <2>2, <3>1, MoveWorker DEF StartWorker
    <3> QED
      BY <2>2, <3>2 DEF TypeOK, StartWorker, WorkerType
  <2>3. CASE StartFails
    BY <2>3 DEF TypeOK, StartFails
  <2>4. CASE WaitForWorkers
    BY <2>4 DEF TypeOK, WaitForWorkers
  <2>5. CASE PrintResult
    <3>1. next <= NumShaders => [of |-> next, how |-> results[next]]
                                  \in [of : Names \cup Stages, how : Paths]
      BY DEF TypeOK
    <3>2. output' \in Seq(Printed)
      <4>1. CASE next <= NumShaders
        <5> DEFINE e == [of |-> next, how |-> results[next]]
        <5>1. e \in Printed
          BY <3>1, <4>1 DEF TypeOK, Printed
        <5>2. output \in Seq(Printed)
          BY DEF TypeOK, Printed
        <5>3. Append(output, e) \in Seq(Printed)
          BY <5>1, <5>2, AppendType
        <5> QED
          BY <2>5, <4>1, <5>3 DEF TypeOK, PrintResult
      <4>2. CASE ~ (next <= NumShaders)
        BY <2>5, <4>2 DEF TypeOK, PrintResult, Printed
      <4> QED
        BY <4>1, <4>2
    <3>3. next' \in 1..(NumShaders + 1) /\ main' \in {"print", "end"}
      BY <2>5 DEF TypeOK, PrintResult
    <3> QED
      BY <2>5, <3>2, <3>3 DEF TypeOK, PrintResult, Printed
  <2>6. CASE Exit
    BY <2>6 DEF TypeOK, Exit
  <2>7. CASE ParseLinked
    <3>1. next' \in 1..(NumShaders + 1) /\ main' \in {"parse", "link", "end"}
      BY <2>7 DEF TypeOK, ParseLinked
    <3>2. compileFailed' \in BOOLEAN
      BY <2>7 DEF TypeOK, ParseLinked
    <3> QED
      BY <2>7, <3>1, <3>2 DEF TypeOK, ParseLinked
  <2>8. CASE LinkLinked
    BY <2>8 DEF TypeOK, LinkLinked
  <2>9. CASE TranslateStage
    <3>1. ToDo \subseteq Stages
      BY DEF TypeOK, ToDo
    <3> DEFINE e(s) == [of |-> s, how |-> IF "V" \in options THEN "spirv" ELSE "glslang"]
    <3>2. \/ output' = output
          \/ \E s \in ToDo : output' = Append(output, e(s))
      BY <2>9 DEF TypeOK, TranslateStage
    <3>3. \A s \in ToDo : e(s) \in Printed
      BY <3>1 DEF TypeOK, Printed
    <3>4. output \in Seq(Printed)
      BY DEF TypeOK, Printed
    <3> HIDE DEF e
    <3>5. output' \in Seq(Printed)
      <4>1. ASSUME NEW s \in ToDo, output' = Append(output, e(s))
            PROVE  output' \in Seq(Printed)
        BY <3>3, <3>4, <4>1, AppendType
      <4> QED
        BY <3>2, <3>4, <4>1
    <3>6. main' \in {"stages", "end"} /\ exitCode' \in {exitCode, Aborted}
      BY <2>9 DEF TypeOK, TranslateStage, Abort
    <3> QED
      BY <2>9, <3>5, <3>6 DEF TypeOK, TranslateStage, Printed
  <2>10. ASSUME NEW w \in Workers, Remove(w) PROVE TypeOK'
    <3>1. worklist # <<>> => Head(worklist) \in Names /\ Tail(worklist) \in Seq(Names)
      BY DEF TypeOK
    <3>2. worker' \in WorkerType
      <4>1. worker \in WorkerType /\ {"done", "parse"} \subseteq WorkerPlaces
        BY DEF TypeOK, WorkerType
      <4>2. CASE worklist = <<>>
        BY <2>10, <4>1, <4>2, MoveWorker DEF Remove
      <4>3. CASE worklist # <<>>
        BY <2>10, <3>1, <4>1, <4>3, GiveWorker DEF Remove
      <4> QED
        BY <4>2, <4>3
    <3>3. worklist' \in Seq(Names)
      BY <2>10, <3>1 DEF TypeOK, Remove
    <3> QED
      BY <2>10, <3>2, <3>3 DEF TypeOK, Remove, WorkerType
  <2>11. ASSUME NEW w \in Workers, ParseSingle(w) PROVE TypeOK'
    <3>1. worker \in WorkerType /\ {"idle", "check"} \subseteq WorkerPlaces
      BY DEF TypeOK, WorkerType
    <3>2. worker' \in WorkerType
      BY <2>11, <3>1, MoveWorker DEF ParseSingle
    <3>3. compileFailed' \in BOOLEAN
      BY <2>11 DEF TypeOK, ParseSingle
    <3> QED
      BY <2>11, <3>2, <3>3 DEF TypeOK, ParseSingle, WorkerType
  <2>12. ASSUME NEW w \in Workers, CheckSingle(w) PROVE TypeOK'
    <3>1. worker \in WorkerType /\ {"idle", "link"} \subseteq WorkerPlaces
      BY DEF TypeOK, WorkerType
    <3>2. worker' \in WorkerType
      BY <2>12, <3>1, MoveWorker DEF CheckSingle
    <3> QED
      BY <2>12, <3>2 DEF TypeOK, CheckSingle, WorkerType
  <2>13. ASSUME NEW w \in Workers, LinkSingle(w) PROVE TypeOK'
    <3>1. worker \in WorkerType /\ {"idle", "translate"} \subseteq WorkerPlaces
      BY DEF TypeOK, WorkerType
    <3>2. worker' \in WorkerType
      BY <2>13, <3>1, MoveWorker DEF LinkSingle
    <3>3. linkFailed' \in BOOLEAN
      BY <2>13 DEF TypeOK, LinkSingle
    <3> QED
      BY <2>13, <3>2, <3>3 DEF TypeOK, LinkSingle, WorkerType
  <2>14. ASSUME NEW w \in Workers, TranslateSingle(w) PROVE TypeOK'
    <3>1. worker' \in WorkerType
      <4>1. worker \in WorkerType /\ "idle" \in WorkerPlaces
        BY DEF TypeOK, WorkerType
      <4>2. worker' = worker \/ worker' = [worker EXCEPT ![w].at = "idle"]
        BY <2>14 DEF TypeOK, TranslateSingle
      <4> QED
        BY <4>1, <4>2, MoveWorker
    <3>2. results' \in [Names -> Paths] /\ exitCode' \in {exitCode, Aborted}
      BY <2>14 DEF TypeOK, TranslateSingle, Abort
    <3> QED
      BY <2>14, <3>1, <3>2 DEF TypeOK, TranslateSingle, WorkerType
  <2>15. CASE UNCHANGED vars
    BY <2>15 DEF TypeOK, vars
  <2> QED
    BY <2>1, <2>2, <2>3, <2>4, <2>5, <2>6, <2>7, <2>8, <2>9, <2>10, <2>11,
       <2>12, <2>13, <2>14, <2>15 DEF Next, MainStep, WorkerStep
<1> QED
  BY <1>1, <1>2, PTL DEF TypeOK, Spec

-----------------------------------------------------------------------------
(* A work item is with the list or with one worker.  The invariant adds    *)
(* that an item's results are not written while it waits, and what the     *)
(* state is before the work is enqueued.                                   *)
OneTakerInv ==
  /\ OneTaker
  /\ \A i \in DOMAIN worklist : results[worklist[i]] = "none"
  /\ main = "begin" => /\ worklist = <<>>
                       /\ \A w \in Workers : worker[w].at = "off"
                       /\ \A n \in Names : results[n] = "none"

(* A step that takes no item and writes no results keeps the invariant. *)
LEMMA QuietStep ==
  ASSUME OneTakerInv, worklist' = worklist, results' = results,
         main' # "begin" \/ (main' = main /\ worker' = worker),
         \A w \in Workers : Busy(w)' => Busy(w) /\ worker'[w].name = worker[w].name
  PROVE  OneTakerInv'
BY DEF OneTakerInv, OneTaker, Busy

(* The work list hands each item to one worker. *)
LEMMA OneTakerInvariant == Spec => []OneTakerInv
<1>1. Init => OneTakerInv
  BY DEF Init, OneTakerInv, OneTaker, Busy
<1>2. TypeOK /\ OneTakerInv /\ [Next]_vars => OneTakerInv'
  <2> SUFFICES ASSUME TypeOK, OneTakerInv, [Next]_vars PROVE OneTakerInv'
    OBVIOUS
  <2>0. worker \in WorkerType /\ results \in [Names -> Paths] /\ worklist \in Seq(Names)
    BY DEF TypeOK, WorkerType
  <2>0a. \A w \in Workers : worker[w].at # "off" => main # "begin"
    BY DEF OneTakerInv
  <2>1. CASE TranslateShaders
    <3>1. \A w \in Workers : worker'[w].at = "off"
      BY <2>1 DEF TranslateShaders, OneTakerInv
    <3>2. \A n \in Names : results'[n] = "none"
      BY <2>1 DEF TranslateShaders, OneTakerInv
    <3>3. worklist' = [n \in Names |-> n] \/ worklist' = <<>>
      BY <2>1 DEF TranslateShaders, OneTakerInv
    <3>4. main' # "begin"
      BY <2>1 DEF TranslateShaders
    <3> QED
      BY <3>1, <3>2, <3>3, <3>4 DEF OneTakerInv, OneTaker, Busy
  <2>2. ASSUME NEW w \in Workers, StartWorker(w) PROVE OneTakerInv'
    <3>1. \A v \in Workers : Busy(v)' => Busy(v) /\ worker'[v].name = worker[v].name
      BY <2>0, <2>2 DEF StartWorker, Busy, WorkerType
    <3> QED
      BY <2>2, <3>1, QuietStep DEF StartWorker
  <2>3. CASE StartFails
    BY <2>3, QuietStep DEF StartFails, Busy
  <2>4. CASE WaitForWorkers
    BY <2>4, QuietStep DEF WaitForWorkers, Busy
  <2>5. CASE PrintResult
    BY <2>5, QuietStep DEF PrintResult, Busy
  <2>6. CASE Exit
    BY <2>6, QuietStep DEF Exit, Busy
  <2>7. CASE ParseLinked
    BY <2>7, QuietStep DEF ParseLinked, Busy
  <2>8. CASE LinkLinked
    BY <2>8, QuietStep DEF LinkLinked, Busy
  <2>9. CASE TranslateStage
    BY <2>9, QuietStep DEF TranslateStage, Busy
  <2>10. ASSUME NEW w \in Workers, Remove(w) PROVE OneTakerInv'
    <3>0. main' # "begin" /\ results' = results
      BY <2>0a, <2>10 DEF Remove
    <3>1. CASE worklist = <<>>
      <4>1. \A v \in Workers : Busy(v)' => Busy(v) /\ worker'[v].name = worker[v].name
        BY <2>0, <2>10, <3>1 DEF Remove, Busy, WorkerType
      <4> QED
        BY <2>10, <3>0, <3>1, <4>1, QuietStep DEF Remove
    <3>2. CASE worklist # <<>>
      <4>1. /\ worker' = [worker EXCEPT ![w] = [at |-> "parse", name |-> Head(worklist)]]
            /\ worklist' = Tail(worklist)
        BY <2>10, <3>2 DEF Remove
      <4>2. /\ 1 \in DOMAIN worklist /\ Head(worklist) = worklist[1]
            /\ \A i \in DOMAIN worklist' : /\ i + 1 \in DOMAIN worklist
                                           /\ worklist'[i] = worklist[i + 1]
                                           /\ i + 1 # 1 /\ i \in Int
        BY <2>0, <3>2, <4>1
      <4>3. ~ Busy(w) /\ worker'[w].name = worklist[1]
        BY <2>0, <2>10, <4>1, <4>2 DEF Remove, Busy, WorkerType
      <4>4. \A v \in Workers \ {w} : worker'[v] = worker[v]
        BY <2>0, <4>1 DEF WorkerType
      <4>5. \A i, j \in DOMAIN worklist' : worklist'[i] = worklist'[j] => i = j
        <5> SUFFICES ASSUME NEW i \in DOMAIN worklist', NEW j \in DOMAIN worklist',
                            worklist'[i] = worklist'[j]
                     PROVE  i = j
          OBVIOUS
        <5>1. i + 1 = j + 1
          BY <4>2 DEF OneTakerInv, OneTaker
        <5> QED
          BY <4>2, <5>1
      <4>6. \A i \in DOMAIN worklist' : worklist'[i] # worklist[1]
        BY <4>2 DEF OneTakerInv, OneTaker
      <4>7. \A v \in Workers \ {w} : Busy(v)' =>
              /\ \A i \in DOMAIN worklist' : worklist'[i] # worker'[v].name
              /\ results'[worker'[v].name] = "none"
              /\ worker'[v].name # worklist[1]
        BY <3>0, <4>2, <4>4 DEF OneTakerInv, OneTaker, Busy
      <4>7a. \A v, u \in Workers \ {w} : Busy(v)' /\ Busy(u)' /\ u # v =>
               worker'[u].name # worker'[v].name
        BY <4>4 DEF OneTakerInv, OneTaker, Busy
      <4>8. results'[worklist[1]] = "none"
        BY <3>0, <4>2 DEF OneTakerInv
      <4>9. \A i \in DOMAIN worklist' : results'[worklist'[i]] = "none"
        BY <3>0, <4>2 DEF OneTakerInv
      <4>10. OneTaker'
        BY <4>3, <4>5, <4>6, <4>7, <4>7a, <4>8 DEF OneTaker
      <4> QED
        BY <3>0, <4>9, <4>10 DEF OneTakerInv
    <3> QED
      BY <3>1, <3>2
  <2>11. ASSUME NEW w \in Workers, ParseSingle(w) PROVE OneTakerInv'
    <3>1. \A v \in Workers : Busy(v)' => Busy(v) /\ worker'[v].name = worker[v].name
      BY <2>0, <2>11 DEF ParseSingle, Busy, WorkerType
    <3> QED
      BY <2>0a, <2>11, <3>1, QuietStep DEF ParseSingle
  <2>12. ASSUME NEW w \in Workers, CheckSingle(w) PROVE OneTakerInv'
    <3>1. \A v \in Workers : Busy(v)' => Busy(v) /\ worker'[v].name = worker[v].name
      BY <2>0, <2>12 DEF CheckSingle, Busy, WorkerType
    <3> QED
      BY <2>0a, <2>12, <3>1, QuietStep DEF CheckSingle
  <2>13. ASSUME NEW w \in Workers, LinkSingle(w) PROVE OneTakerInv'
    <3>1. \A v \in Workers : Busy(v)' => Busy(v) /\ worker'[v].name = worker[v].name
      BY <2>0, <2>13 DEF LinkSingle, Busy, WorkerType
    <3> QED
      BY <2>0a, <2>13, <3>1, QuietStep DEF LinkSingle
  <2>14. ASSUME NEW w \in Workers, TranslateSingle(w) PROVE OneTakerInv'
    <3>1. CASE Unsupported(worker[w].name)
      BY <2>0a, <2>14, <3>1, QuietStep DEF TranslateSingle, Busy
    <3>2. CASE ~ Unsupported(worker[w].name)
      <4>1. /\ results' = [results EXCEPT ![worker[w].name] = "glslang"]
            /\ worker' = [worker EXCEPT ![w].at = "idle"]
            /\ worklist' = worklist /\ main' # "begin"
        BY <2>0a, <2>14, <3>2 DEF TranslateSingle
      <4>2. Busy(w) /\ ~ Busy(w)'
        BY <2>0, <2>14, <4>1 DEF TranslateSingle, Busy, WorkerType
      <4>3. \A v \in Workers \ {w} : worker'[v] = worker[v]
        BY <2>0, <4>1 DEF WorkerType
      <4>4. \A n \in Names : n # worker[w].name => results'[n] = results[n]
        BY <2>0, <4>1
      <4>5. \A i \in DOMAIN worklist : results'[worklist[i]] = "none"
        BY <2>0, <4>2, <4>4 DEF OneTakerInv, OneTaker
      <4>6. \A v \in Workers \ {w} : Busy(v)' =>
              /\ worker[v].name # worker[w].name /\ results[worker[v].name] = "none"
        BY <4>2, <4>3 DEF OneTakerInv, OneTaker, Busy
      <4>7. \A v \in Workers \ {w} : Busy(v)' => results'[worker'[v].name] = "none"
        BY <2>0, <4>1, <4>3, <4>6 DEF WorkerType
      <4>8. OneTaker'
        BY <4>1, <4>2, <4>3, <4>7 DEF OneTakerInv, OneTaker, Busy
      <4> QED
        BY <4>1, <4>5, <4>8 DEF OneTakerInv
    <3> QED
      BY <3>1, <3>2
  <2>15. CASE UNCHANGED vars
    BY <2>15, QuietStep DEF vars, Busy
  <2> QED
    BY <2>1, <2>2, <2>3, <2>4, <2>5, <2>6, <2>7, <2>8, <2>9, <2>10, <2>11,
       <2>12, <2>13, <2>14, <2>15 DEF Next, MainStep, WorkerStep
<1> QED
  BY <1>1, <1>2, TypeCorrect, PTL DEF Spec

(* TranslateShaders(void* ): no two workers ever have the same item. *)
THEOREM OneTakerCorrect == Spec => []OneTaker
<1>1. OneTakerInv => OneTaker
  BY DEF OneTakerInv
<1> QED
  BY <1>1, OneTakerInvariant, PTL

-----------------------------------------------------------------------------
(* What main prints is final.  The invariant follows main through the two  *)
(* modes: printing starts only after every worker is done.                 *)
AllDone == \A w \in Workers : worker[w].at = "done"
SettledInv ==
  /\ Threaded => main \notin {"parse", "link", "stages"}
  /\ ~ Threaded => main \notin {"start", "print"}
  /\ main \in {"begin", "start", "parse", "link"} => output = <<>>
  /\ main \in {"begin", "start"} => next = 1
  /\ main = "print" => AllDone /\ next = Len(output) + 1
  /\ PrintsSettled

(* Steps of workers leave output alone, and change results only while some *)
(* worker is not done.                                                     *)
LEMMA WorkerKeepsSettled ==
  ASSUME SettledInv, NEW w \in Workers, worker[w].at # "done",
         UNCHANGED <<options, main, next, output>>
  PROVE  SettledInv'
<1>1. main # "print" /\ (Threaded => output = <<>>)
  BY DEF SettledInv, PrintsSettled, AllDone
<1> QED
  BY <1>1 DEF SettledInv, PrintsSettled, Threaded

(* Steps of main that keep what has been printed and what it is made of. *)
LEMMA MainKeepsSettled ==
  ASSUME SettledInv, UNCHANGED <<options, output, worker, results>>,
         main' # main => main' \in {"link", "stages", "end"},
         (main' = main /\ next' = next) \/ main' \notin {"begin", "start", "print"},
         main' = "link" => main = "parse",
         main' = "stages" => main \in {"link", "stages"},
         main' \in {"link", "stages"} => ~ Threaded
  PROVE  SettledInv'
BY DEF SettledInv, PrintsSettled, Threaded, AllDone

(* Main prints only after all workers are done, in order. *)
LEMMA SettledInvariant == Spec => []SettledInv
<1>1. Init => SettledInv
  BY DEF Init, SettledInv, PrintsSettled
<1>2. TypeOK /\ SettledInv /\ [Next]_vars => SettledInv'
  <2> SUFFICES ASSUME TypeOK, SettledInv, [Next]_vars PROVE SettledInv'
    OBVIOUS
  <2>0. output \in Seq(Printed) /\ next \in Int
    BY NumShadersAssumption DEF TypeOK, Printed, NumShadersAssumption
  <2>1. CASE TranslateShaders
    BY <2>1 DEF TranslateShaders, SettledInv, PrintsSettled, Threaded, input
  <2>2. ASSUME NEW w \in Workers, StartWorker(w) PROVE SettledInv'
    BY <2>2 DEF StartWorker, SettledInv, PrintsSettled, Threaded, input
  <2>3. CASE StartFails
    BY <2>3 DEF StartFails, SettledInv, PrintsSettled, Threaded, input
  <2>4. CASE WaitForWorkers
    BY <2>0, <2>4 DEF WaitForWorkers, SettledInv, PrintsSettled, Threaded, AllDone, input
  <2>5. CASE PrintResult
    <3>0. /\ main = "print" /\ Threaded /\ Threaded' /\ AllDone /\ AllDone'
          /\ next = Len(output) + 1 /\ results' = results /\ Len(output) \in Nat
      BY <2>0, <2>5 DEF PrintResult, SettledInv, Threaded, AllDone, input
    <3>1. CASE next <= NumShaders
      <4>1. /\ output' = Append(output, [of |-> next, how |-> results[next]])
            /\ next' = next + 1 /\ main' = main
        BY <2>5, <3>1 DEF PrintResult
      <4>2. Len(output') = Len(output) + 1
        BY <2>0, <4>1
      <4>3. ASSUME NEW i \in DOMAIN output' PROVE output'[i] = [of |-> i, how |-> results[i]]
        <5>1. CASE i = Len(output) + 1
          BY <2>0, <3>0, <4>1, <5>1
        <5>2. CASE i \in DOMAIN output
          BY <2>0, <3>0, <4>1, <5>2 DEF SettledInv, PrintsSettled
        <5> QED
          BY <2>0, <4>1, <5>1, <5>2
      <4> QED
        BY <3>0, <4>1, <4>2, <4>3 DEF SettledInv, PrintsSettled, AllDone
    <3>2. CASE ~ (next <= NumShaders)
      BY <2>5, <3>0, <3>2 DEF PrintResult, SettledInv, PrintsSettled, AllDone
    <3> QED
      BY <3>1, <3>2
  <2>6. CASE Exit
    BY <2>6, MainKeepsSettled DEF Exit, input
  <2>7. CASE ParseLinked
    BY <2>7, MainKeepsSettled DEF ParseLinked, SettledInv, input
  <2>8. CASE LinkLinked
    BY <2>8, MainKeepsSettled DEF LinkLinked, SettledInv, input
  <2>9. CASE TranslateStage
    <3>1. ~ Threaded /\ ~ Threaded' /\ main' \in {"stages", "end"}
      BY <2>9 DEF TranslateStage, SettledInv, Threaded, input
    <3> QED
      BY <3>1 DEF SettledInv, PrintsSettled
  <2>10. ASSUME NEW w \in Workers, WorkerStep(w) PROVE SettledInv'
    <3>1. worker[w].at # "done" /\ UNCHANGED <<options, main, next, output>>
      BY <2>10 DEF WorkerStep, Remove, ParseSingle, CheckSingle, LinkSingle,
                   TranslateSingle, input
    <3> QED
      BY <3>1, WorkerKeepsSettled
  <2>15. CASE UNCHANGED vars
    BY <2>15 DEF vars, input, SettledInv, PrintsSettled, Threaded, AllDone
  <2> QED
    BY <2>1, <2>2, <2>3, <2>4, <2>5, <2>6, <2>7, <2>8, <2>9, <2>10, <2>15
       DEF Next, MainStep
<1> QED
  BY <1>1, <1>2, TypeCorrect, PTL DEF Spec

(* TranslateShadersMultithreaded: what main has printed no worker changes. *)
THEOREM PrintsSettledCorrect == Spec => []PrintsSettled
<1>1. SettledInv => PrintsSettled
  BY DEF SettledInv
<1> QED
  BY <1>1, SettledInvariant, PTL

-----------------------------------------------------------------------------
(* The work list holds the last shaders of the command line, in order; a   *)
(* worker has a shader's number while it works and is done only when no    *)
(* work is left; outside the threaded mode nothing of this moves.          *)
QueueInv ==
  /\ \A i \in DOMAIN worklist : worklist[i] = NumShaders - Len(worklist) + i
  /\ main = "begin" \/ ~ Threaded =>
       worklist = <<>> /\ \A w \in Workers : worker[w].at = "off"
  /\ \A w \in Workers : /\ Busy(w) => worker[w].name \in Names
                        /\ worker[w].at = "done" => worklist = <<>>

(* Steps of main that leave the list and the workers alone. *)
LEMMA MainKeepsQueue ==
  ASSUME QueueInv, UNCHANGED <<options, worklist, worker>>,
         main' = "begin" => main = "begin"
  PROVE  QueueInv'
BY DEF QueueInv, Busy, Threaded

(* A worker that goes on with its shader, or puts it down. *)
LEMMA WorkerKeepsQueue ==
  ASSUME QueueInv, UNCHANGED <<options, worklist, main>>,
         worker \in WorkerType, NEW w \in Workers, Busy(w),
         NEW p \in WorkerPlaces, p # "done",
         worker' = [worker EXCEPT ![w].at = p]
  PROVE  QueueInv'
<1>1. main # "begin" /\ Threaded
  BY DEF QueueInv, Busy
<1>2. \A v \in Workers : v # w => worker'[v] = worker[v]
  BY DEF WorkerType
<1>3. worker'[w].at = p /\ worker'[w].name \in Names
  BY DEF WorkerType, QueueInv
<1> QED
  BY <1>1, <1>2, <1>3 DEF QueueInv, Busy, Threaded

(* TranslateShaders, Worklist.remove: the list is filled once and shrinks. *)
LEMMA QueueInvariant == Spec => []QueueInv
<1>1. Init => QueueInv
  BY DEF Init, QueueInv, Busy
<1>2. TypeOK /\ SettledInv /\ QueueInv /\ [Next]_vars => QueueInv'
  <2> SUFFICES ASSUME TypeOK, SettledInv, QueueInv, [Next]_vars PROVE QueueInv'
    OBVIOUS
  <2>0. worker \in WorkerType /\ worklist \in Seq(Names) /\ NumShaders \in Nat
    BY NumShadersAssumption DEF TypeOK, WorkerType, NumShadersAssumption
  <2>1. CASE TranslateShaders
    <3>1. \A w \in Workers : worker'[w].at = "off"
      BY <2>1 DEF TranslateShaders, QueueInv
    <3>2. CASE Threaded
      <4>1. worklist' = [n \in Names |-> n] /\ main' # "begin" /\ Threaded'
        BY <2>1, <3>2 DEF TranslateShaders, Threaded, input
      <4>2. Len(worklist') = NumShaders /\ DOMAIN worklist' = 1..NumShaders
        BY <2>0, <4>1 DEF Names
      <4> QED
        BY <2>0, <3>1, <4>1, <4>2 DEF QueueInv, Busy, Names
    <3>3. CASE ~ Threaded
      BY <2>1, <3>1, <3>3 DEF TranslateShaders, Threaded, QueueInv, Busy, input
    <3> QED
      BY <3>2, <3>3
  <2>2. ASSUME NEW w \in Workers, StartWorker(w) PROVE QueueInv'
    <3>1. main = "start" /\ main' = "start" /\ UNCHANGED <<options, worklist>>
      BY <2>2 DEF StartWorker, input
    <3>2. Threaded /\ Threaded'
      BY <3>1 DEF SettledInv, Threaded
    <3>3. \A v \in Workers : v # w => worker'[v] = worker[v]
      BY <2>0, <2>2 DEF StartWorker, WorkerType
    <3>4. worker'[w].at = "idle"
      BY <2>0, <2>2 DEF StartWorker, WorkerType
    <3> QED
      BY <3>1, <3>2, <3>3, <3>4 DEF QueueInv, Busy
  <2>3. CASE StartFails
    BY <2>3, MainKeepsQueue DEF StartFails, input
  <2>4. CASE WaitForWorkers
    BY <2>4, MainKeepsQueue DEF WaitForWorkers, input
  <2>5. CASE PrintResult
    BY <2>5, MainKeepsQueue DEF PrintResult, input
  <2>6. CASE Exit
    BY <2>6, MainKeepsQueue DEF Exit, input
  <2>7. CASE ParseLinked
    BY <2>7, MainKeepsQueue DEF ParseLinked, input
  <2>8. CASE LinkLinked
    BY <2>8, MainKeepsQueue DEF LinkLinked, input
  <2>9. CASE TranslateStage
    BY <2>9, MainKeepsQueue DEF TranslateStage, input
  <2>10. ASSUME NEW w \in Workers, Remove(w) PROVE QueueInv'
    <3>0. /\ worker[w].at = "idle" /\ main' = main /\ options' = options
          /\ main # "begin" /\ Threaded /\ Threaded'
      BY <2>10 DEF Remove, QueueInv, Threaded, input
    <3>1. \A v \in Workers : v # w => worker'[v] = worker[v]
      BY <2>0, <2>10 DEF Remove, WorkerType
    <3>2. CASE worklist = <<>>
      <4>1. worklist' = <<>> /\ worker'[w].at = "done"
        BY <2>0, <2>10, <3>2 DEF Remove, WorkerType
      <4> QED
        BY <3>0, <3>1, <3>2, <4>1 DEF QueueInv, Busy
    <3>3. CASE worklist # <<>>
      <4>1. /\ worklist' = Tail(worklist)
            /\ worker'[w] = [at |-> "parse", name |-> Head(worklist)]
            /\ Head(worklist) \in Names
        BY <2>0, <2>10, <3>3 DEF Remove, WorkerType
      <4>2. /\ Len(worklist) \in Nat /\ Len(worklist') = Len(worklist) - 1
            /\ \A i \in DOMAIN worklist' : /\ i \in Int /\ i + 1 \in DOMAIN worklist
                                           /\ worklist'[i] = worklist[i + 1]
        BY <2>0, <3>3, <4>1
      <4>3. \A i \in DOMAIN worklist' : worklist'[i] = NumShaders - Len(worklist') + i
        BY <2>0, <4>2 DEF QueueInv
      <4>4. \A v \in Workers : worker'[v].at # "done"
        BY <3>1, <3>3, <4>1 DEF QueueInv
      <4>5. \A v \in Workers : Busy(v)' => worker'[v].name \in Names
        BY <3>1, <4>1 DEF QueueInv, Busy
      <4> QED
        BY <3>0, <4>3, <4>4, <4>5 DEF QueueInv
    <3> QED
      BY <3>2, <3>3
  <2>11. ASSUME NEW w \in Workers, ParseSingle(w) PROVE QueueInv'
    BY <2>0, <2>11, WorkerKeepsQueue DEF ParseSingle, Busy, WorkerPlaces, input
  <2>12. ASSUME NEW w \in Workers, CheckSingle(w) PROVE QueueInv'
    BY <2>0, <2>12, WorkerKeepsQueue DEF CheckSingle, Busy, WorkerPlaces, input
  <2>13. ASSUME NEW w \in Workers, LinkSingle(w) PROVE QueueInv'
    BY <2>0, <2>13, WorkerKeepsQueue DEF LinkSingle, Busy, WorkerPlaces, input
  <2>14. ASSUME NEW w \in Workers, TranslateSingle(w) PROVE QueueInv'
    <3>1. CASE Unsupported(worker[w].name)
      BY <2>14, <3>1, MainKeepsQueue DEF TranslateSingle, input
    <3>2. CASE ~ Unsupported(worker[w].name)
      BY <2>0, <2>14, <3>2, WorkerKeepsQueue
         DEF TranslateSingle, Busy, WorkerPlaces, input
    <3> QED
      BY <3>1, <3>2
  <2>15. CASE UNCHANGED vars
    BY <2>15, MainKeepsQueue DEF vars, input
  <2> QED
    BY <2>1, <2>2, <2>3, <2>4, <2>5, <2>6, <2>7, <2>8, <2>9, <2>10, <2>11,
       <2>12, <2>13, <2>14, <2>15 DEF Next, MainStep, WorkerStep
<1> QED
  BY <1>1, <1>2, TypeCorrect, SettledInvariant, PTL DEF Spec

-----------------------------------------------------------------------------
(* No shader gets lost: in the threaded mode each one waits, is worked on, *)
(* has its results, or was given up for a reason the input or a flag shows.*)
Waiting(n) == \E i \in DOMAIN worklist : worklist[i] = n
Taken(n)   == \E w \in Workers : Busy(w) /\ worker[w].name = n
GivenUp(n) == \/ fate[n] = "unreadable" \/ compileFailed
              \/ linkFailed /\ fate[n] = "badLink"
Accounted(n) == Waiting(n) \/ Taken(n) \/ results[n] # "none" \/ GivenUp(n)
AccountInv == Threaded /\ main # "begin" => \A n \in Names : Accounted(n)

(* A step that settles no shader and takes no flag back. *)
LEMMA KeepsAccounts ==
  ASSUME AccountInv, UNCHANGED <<options, fate, worklist, results>>,
         main # "begin" \/ main' = "begin",
         compileFailed => compileFailed', linkFailed => linkFailed',
         \A w \in Workers : Busy(w) => Busy(w)' /\ worker'[w].name = worker[w].name
  PROVE  AccountInv'
BY DEF AccountInv, Accounted, Waiting, Taken, GivenUp, Threaded

(* A worker that goes on with its shader, or puts it down for a reason.    *)
LEMMA WorkerKeepsAccounts ==
  ASSUME AccountInv, UNCHANGED <<options, fate, worklist, results>>,
         worker \in WorkerType, NEW w \in Workers, main # "begin",
         NEW p \in WorkerPlaces, worker' = [worker EXCEPT ![w].at = p],
         compileFailed => compileFailed', linkFailed => linkFailed',
         ~ Busy(w) \/ Busy(w)' \/ GivenUp(worker[w].name)'
  PROVE  AccountInv'
<1>1. \A v \in Workers : worker'[v].name = worker[v].name
  BY DEF WorkerType
<1>2. \A v \in Workers : v # w => worker'[v] = worker[v]
  BY DEF WorkerType
<1>3. \A v \in Workers : Busy(v) => Busy(v)' \/ GivenUp(worker[v].name)'
  BY <1>2 DEF Busy
<1>4. \A n : Taken(n) => Taken(n)' \/ GivenUp(n)'
  BY <1>1, <1>3 DEF Taken
<1>5. \A n : Waiting(n)' = Waiting(n) /\ (GivenUp(n) => GivenUp(n)')
  BY DEF Waiting, GivenUp
<1> QED
  BY <1>4, <1>5 DEF AccountInv, Accounted, Threaded

(* TranslateSingleShader: every shader is accounted for. *)
LEMMA AccountInvariant == Spec => []AccountInv
<1>1. Init => AccountInv
  BY DEF Init, AccountInv
<1>2. TypeOK /\ SettledInv /\ QueueInv /\ AccountInv /\ [Next]_vars => AccountInv'
  <2> SUFFICES ASSUME TypeOK, SettledInv, QueueInv, AccountInv, [Next]_vars
               PROVE  AccountInv'
    OBVIOUS
  <2>0. worker \in WorkerType /\ worklist \in Seq(Names) /\ results \in [Names -> Paths]
    BY DEF TypeOK, WorkerType
  <2>0a. \A w \in Workers : worker[w].at # "off" => main # "begin" /\ Threaded
    BY DEF QueueInv
  <2>1. CASE TranslateShaders
    <3>1. Threaded' => worklist' = [n \in Names |-> n]
      BY <2>1 DEF TranslateShaders, Threaded, input
    <3>2. Threaded' => \A n \in Names : Waiting(n)'
      BY <3>1 DEF Waiting
    <3> QED
      BY <3>2 DEF AccountInv, Accounted
  <2>2. ASSUME NEW w \in Workers, StartWorker(w) PROVE AccountInv'
    <3>1. /\ worker' = [worker EXCEPT ![w].at = "idle"] /\ ~ Busy(w) /\ main # "begin"
          /\ UNCHANGED <<options, fate, worklist, results, compileFailed, linkFailed>>
      BY <2>2 DEF StartWorker, Busy, input, flags
    <3> QED
      BY <2>0, <3>1, WorkerKeepsAccounts DEF WorkerPlaces
  <2>3. CASE StartFails
    BY <2>3, KeepsAccounts DEF StartFails, Busy, input
  <2>4. CASE WaitForWorkers
    BY <2>4, KeepsAccounts DEF WaitForWorkers, Busy, input, flags
  <2>5. CASE PrintResult
    BY <2>5, KeepsAccounts DEF PrintResult, Busy, input, flags
  <2>6. CASE Exit
    BY <2>6, KeepsAccounts DEF Exit, Busy, input, flags
  <2>7. CASE ParseLinked
    BY <2>7, KeepsAccounts DEF ParseLinked, Busy, input
  <2>8. CASE LinkLinked
    BY <2>8 DEF LinkLinked, SettledInv, AccountInv, Threaded, input
  <2>9. CASE TranslateStage
    BY <2>9, KeepsAccounts DEF TranslateStage, Busy, input, flags
  <2>10. ASSUME NEW w \in Workers, Remove(w) PROVE AccountInv'
    <3>0. /\ ~ Busy(w) /\ main # "begin" /\ main' = main
          /\ UNCHANGED <<options, fate, results, compileFailed, linkFailed>>
      BY <2>0a, <2>10 DEF Remove, Busy, input, flags
    <3>1. CASE worklist = <<>>
      BY <2>0, <2>10, <3>0, <3>1, WorkerKeepsAccounts DEF Remove, WorkerPlaces
    <3>2. CASE worklist # <<>>
      <4>1. /\ worklist' = Tail(worklist)
            /\ worker'[w] = [at |-> "parse", name |-> Head(worklist)]
        BY <2>0, <2>10, <3>2 DEF Remove, WorkerType
      <4>2. \A v \in Workers : v # w => worker'[v] = worker[v]
        BY <2>0, <2>10, <3>2 DEF Remove, WorkerType
      <4>3. \A n : Taken(n) => Taken(n)'
        BY <3>0, <4>2 DEF Taken, Busy
      <4>4. \A n : n = worklist[1] => Taken(n)'
        BY <2>0, <3>2, <4>1 DEF Taken, Busy
      <4>5. \A i \in DOMAIN worklist : i # 1 =>
              /\ i - 1 \in DOMAIN worklist' /\ worklist'[i - 1] = worklist[i]
        BY <2>0, <3>2, <4>1
      <4>6. \A n : Waiting(n) => Waiting(n)' \/ Taken(n)'
        BY <4>4, <4>5 DEF Waiting
      <4> QED
        BY <3>0, <4>3, <4>6 DEF AccountInv, Accounted, GivenUp, Threaded
    <3> QED
      BY <3>1, <3>2
  <2>11. ASSUME NEW w \in Workers, ParseSingle(w) PROVE AccountInv'
    <3> DEFINE n == worker[w].name
               p == IF fate[n] = "unreadable" THEN "idle" ELSE "check"
    <3>1. /\ worker' = [worker EXCEPT ![w].at = p] /\ main # "begin"
          /\ UNCHANGED <<options, fate, worklist, results, linkFailed>>
          /\ p \in WorkerPlaces /\ (compileFailed => compileFailed')
      BY <2>0a, <2>11 DEF ParseSingle, input, WorkerPlaces
    <3>2. worker'[w].name = n /\ (fate'[n] = "unreadable" \/ Busy(w)')
      BY <2>0, <3>1 DEF Busy, WorkerType
    <3> HIDE DEF p
    <3>3. GivenUp(worker[w].name)' \/ Busy(w)'
      BY <3>1, <3>2 DEF GivenUp
    <3> QED
      BY <2>0, <3>1, <3>3, WorkerKeepsAccounts
  <2>12. ASSUME NEW w \in Workers, CheckSingle(w) PROVE AccountInv'
    <3> DEFINE p == IF compileFailed THEN "idle" ELSE "link"
    <3>1. /\ worker' = [worker EXCEPT ![w].at = p] /\ main # "begin"
          /\ UNCHANGED <<options, fate, worklist, results, linkFailed, compileFailed>>
          /\ p \in WorkerPlaces
      BY <2>0a, <2>12 DEF CheckSingle, input, flags, WorkerPlaces
    <3>2. compileFailed' \/ Busy(w)'
      BY <2>0, <3>1 DEF Busy, WorkerType
    <3> HIDE DEF p
    <3>3. GivenUp(worker[w].name)' \/ Busy(w)'
      BY <3>1, <3>2 DEF GivenUp
    <3> QED
      BY <2>0, <3>1, <3>3, WorkerKeepsAccounts
  <2>13. ASSUME NEW w \in Workers, LinkSingle(w) PROVE AccountInv'
    <3> DEFINE n == worker[w].name
               p == IF fate[n] # "badLink" THEN "translate" ELSE "idle"
    <3>1. /\ worker' = [worker EXCEPT ![w].at = p] /\ main # "begin"
          /\ UNCHANGED <<options, fate, worklist, results, compileFailed>>
          /\ p \in WorkerPlaces /\ (linkFailed => linkFailed')
          /\ fate'[n] = "badLink" => linkFailed'
      BY <2>0a, <2>13 DEF LinkSingle, input, WorkerPlaces
    <3>2. worker'[w].name = n /\ (fate'[n] = "badLink" \/ Busy(w)')
      BY <2>0, <3>1 DEF Busy, WorkerType
    <3> HIDE DEF p
    <3>3. GivenUp(worker[w].name)' \/ Busy(w)'
      BY <3>1, <3>2 DEF GivenUp
    <3> QED
      BY <2>0, <3>1, <3>3, WorkerKeepsAccounts
  <2>14. ASSUME NEW w \in Workers, TranslateSingle(w) PROVE AccountInv'
    <3>1. CASE Unsupported(worker[w].name)
      BY <2>0a, <2>14, <3>1, KeepsAccounts DEF TranslateSingle, Busy, input, flags
    <3>2. CASE ~ Unsupported(worker[w].name)
      <4>1. /\ results' = [results EXCEPT ![worker[w].name] = "glslang"]
            /\ worker' = [worker EXCEPT ![w].at = "idle"]
            /\ UNCHANGED <<options, fate, worklist, main, compileFailed, linkFailed>>
        BY <2>14, <3>2 DEF TranslateSingle, input, flags
      <4>2. \A v \in Workers : v # w => worker'[v] = worker[v]
        BY <2>0, <4>1 DEF WorkerType
      <4>3. \A n \in Names : n # worker[w].name => results'[n] = results[n]
        BY <2>0, <4>1
      <4>4. worker[w].name \in Names => results'[worker[w].name] # "none"
        BY <2>0, <4>1
      <4>5. \A n \in Names : results[n] # "none" => results'[n] # "none"
        BY <4>3, <4>4
      <4>6. \A n \in Names : Taken(n) => Taken(n)' \/ results'[n] # "none"
        BY <4>2, <4>4 DEF Taken, Busy
      <4>7. \A n : Waiting(n)' = Waiting(n) /\ (GivenUp(n) => GivenUp(n)')
        BY <4>1 DEF Waiting, GivenUp
      <4> QED
        BY <4>1, <4>5, <4>6, <4>7 DEF AccountInv, Accounted, Threaded
    <3> QED
      BY <3>1, <3>2
  <2>15. CASE UNCHANGED vars
    BY <2>15, KeepsAccounts DEF vars, Busy, input, flags
  <2> QED
    BY <2>1, <2>2, <2>3, <2>4, <2>5, <2>6, <2>7, <2>8, <2>9, <2>10, <2>11,
       <2>12, <2>13, <2>14, <2>15 DEF Next, MainStep, WorkerStep
<1> QED
  BY <1>1, <1>2, TypeCorrect, SettledInvariant, QueueInvariant, PTL DEF Spec

-----------------------------------------------------------------------------
(* When all shaders compile, only a thread that cannot be created sets     *)
(* CompileFailed, and then main prints nothing.                            *)
IsolationInv ==
  Threaded /\ CompilesAll /\ compileFailed => main = "end" /\ output = <<>>

(* A step that sets no flag and leaves main's end and its output alone. *)
LEMMA KeepsIsolation ==
  ASSUME IsolationInv, UNCHANGED <<options, fate>>,
         compileFailed' => compileFailed,
         main = "end" => main' = "end" /\ output' = output
  PROVE  IsolationInv'
BY DEF IsolationInv, CompilesAll, Threaded

(* StartFails is the only step of such a run that sets CompileFailed. *)
LEMMA IsolationInvariant == Spec => []IsolationInv
<1>1. Init => IsolationInv
  BY DEF Init, IsolationInv
<1>2. TypeOK /\ SettledInv /\ QueueInv /\ IsolationInv /\ [Next]_vars => IsolationInv'
  <2> SUFFICES ASSUME TypeOK, SettledInv, QueueInv, IsolationInv, [Next]_vars
               PROVE  IsolationInv'
    OBVIOUS
  <2>1. CASE TranslateShaders
    BY <2>1, KeepsIsolation DEF TranslateShaders, input, flags
  <2>2. ASSUME NEW w \in Workers, StartWorker(w) PROVE IsolationInv'
    BY <2>2, KeepsIsolation DEF StartWorker, input, flags
  <2>3. CASE StartFails
    BY <2>3 DEF StartFails, SettledInv, IsolationInv
  <2>4. CASE WaitForWorkers
    BY <2>4, KeepsIsolation DEF WaitForWorkers, input, flags
  <2>5. CASE PrintResult
    BY <2>5, KeepsIsolation DEF PrintResult, input, flags
  <2>6. CASE Exit
    BY <2>6, KeepsIsolation DEF Exit, input, flags
  <2>7. CASE ParseLinked
    BY <2>7 DEF ParseLinked, SettledInv, IsolationInv, Threaded, input
  <2>8. CASE LinkLinked
    BY <2>8, KeepsIsolation DEF LinkLinked, input
  <2>9. CASE TranslateStage
    BY <2>9, KeepsIsolation DEF TranslateStage, input, flags
  <2>10. ASSUME NEW w \in Workers, Remove(w) PROVE IsolationInv'
    BY <2>10, KeepsIsolation DEF Remove, input, flags
  <2>11. ASSUME NEW w \in Workers, ParseSingle(w) PROVE IsolationInv'
    <3>1. worker[w].name \in Names
      BY <2>11 DEF ParseSingle, QueueInv, Busy
    <3>2. CompilesAll => (compileFailed' => compileFailed)
      BY <2>11, <3>1 DEF ParseSingle, CompilesAll, Parses
    <3> QED
      BY <2>11, <3>2 DEF ParseSingle, IsolationInv, CompilesAll, Threaded, input
  <2>12. ASSUME NEW w \in Workers, CheckSingle(w) PROVE IsolationInv'
    BY <2>12, KeepsIsolation DEF CheckSingle, input, flags
  <2>13. ASSUME NEW w \in Workers, LinkSingle(w) PROVE IsolationInv'
    BY <2>13, KeepsIsolation DEF LinkSingle, input
  <2>14. ASSUME NEW w \in Workers, TranslateSingle(w) PROVE IsolationInv'
    BY <2>14, KeepsIsolation DEF TranslateSingle, input, flags
  <2>15. CASE UNCHANGED vars
    BY <2>15, KeepsIsolation DEF vars, input, flags
  <2> QED
    BY <2>1, <2>2, <2>3, <2>4, <2>5, <2>6, <2>7, <2>8, <2>9, <2>10, <2>11,
       <2>12, <2>13, <2>14, <2>15 DEF Next, MainStep, WorkerStep
<1> QED
  BY <1>1, <1>2, TypeCorrect, SettledInvariant, QueueInvariant, PTL DEF Spec

(* TranslateSingleShader: once main prints, no worker is busy and no work  *)
(* waits, so every shader that can be translated has been.                 *)
LEMMA AllSettled ==
  ASSUME SettledInv, QueueInv, AccountInv, Threaded, output # <<>>
  PROVE  \A n \in Names : results[n] # "none" \/ GivenUp(n)
<1>1. \A w \in Workers : worker[w].at = "done"
  BY DEF SettledInv, PrintsSettled
<1>2. worklist = <<>> /\ \A w \in Workers : ~ Busy(w)
  BY <1>1, WorkersAssumption DEF QueueInv, Busy, WorkersAssumption
<1>3. main # "begin"
  BY DEF SettledInv
<1> QED
  BY <1>2, <1>3 DEF AccountInv, Accounted, Waiting, Taken

(* TranslateSingleShader: in any schedule, a shader that does not link or  *)
(* cannot be read costs no other shader its translation.                   *)
THEOREM LinkFailureIsolatedCorrect == Spec => []LinkFailureIsolated
<1>1. SettledInv /\ QueueInv /\ AccountInv /\ IsolationInv => LinkFailureIsolated
  BY AllSettled DEF LinkFailureIsolated, IsolationInv, GivenUp
<1> QED
  BY <1>1, SettledInvariant, QueueInvariant, AccountInvariant, IsolationInvariant, PTL

-----------------------------------------------------------------------------
(* How the two modes end: the threaded one with all its results printed,   *)
(* or, having failed, with none; the linked one with a translation of      *)
(* every stage unless something failed.                                    *)
EndInv ==
  /\ Threaded /\ main = "end" =>
       IF output = <<>> THEN compileFailed ELSE Len(output) = NumShaders
  /\ ~ Threaded =>
       /\ \A i \in DOMAIN output : output[i].how # "none"
       /\ Done \subseteq {stage[n] : n \in Names}
       /\ main = "end" => compileFailed \/ linkFailed \/ ~ Readable \/ ToDo = {}
  /\ exitCode = ESuccess => main = "end" /\ ~ compileFailed /\ ~ linkFailed

(* A step that prints nothing, takes no flag back and does not end main.   *)
LEMMA KeepsEnd ==
  ASSUME EndInv, UNCHANGED <<fate, stage, options, output>>,
         main' = "end" => main = "end", exitCode' # ESuccess,
         compileFailed => compileFailed', linkFailed => linkFailed'
  PROVE  EndInv'
BY ZenonT(60) DEF EndInv, Done, ToDo, Readable, Threaded

(* TranslateStage prints a translation of a stage some shader is of. *)
LEMMA StagePrinted ==
  ASSUME TypeOK, EndInv, ~ Threaded, NEW s \in ToDo, NEW path \in Paths \ {"none"},
         output' = Append(output, [of |-> s, how |-> path]), UNCHANGED stage
  PROVE  /\ \A i \in DOMAIN output' : output'[i].how # "none"
         /\ Done' \subseteq {stage[n] : n \in Names}
<1> DEFINE e == [of |-> s, how |-> path]
<1>1. output \in Seq(Printed)
  BY DEF TypeOK, Printed
<1>2. \A i \in DOMAIN output' : output'[i] = e \/ (i \in DOMAIN output /\ output'[i] = output[i])
  BY <1>1
<1>3. e.of = s /\ e.how # "none" /\ s \in {stage[n] : n \in Names}
  BY DEF ToDo
<1> HIDE DEF e
<1> QED
  BY ZenonT(60), <1>2, <1>3 DEF EndInv, Done

(* main and the exit code it returns. *)
LEMMA EndInvariant == Spec => []EndInv
<1>1. Init => EndInv
  BY DEF Init, EndInv, Done, ESuccess
<1>2. TypeOK /\ SettledInv /\ EndInv /\ [Next]_vars => EndInv'
  <2> SUFFICES ASSUME TypeOK, SettledInv, EndInv, [Next]_vars PROVE EndInv'
    OBVIOUS
  <2> USE DEF ESuccess, Aborted
  <2>1. CASE TranslateShaders
    BY <2>1, KeepsEnd DEF TranslateShaders, Running, input, flags
  <2>2. ASSUME NEW w \in Workers, StartWorker(w) PROVE EndInv'
    BY <2>2, KeepsEnd DEF StartWorker, Running, input, flags
  <2>3. CASE StartFails
    BY <2>3 DEF StartFails, Running, SettledInv, EndInv, Threaded, Done, input
  <2>4. CASE WaitForWorkers
    BY <2>4, KeepsEnd DEF WaitForWorkers, Running, input, flags
  <2>5. CASE PrintResult
    <3>0. /\ Threaded /\ Threaded' /\ next = Len(output) + 1 /\ exitCode' = -1
          /\ next \in 1..(NumShaders + 1) /\ Len(output) \in Nat /\ main = "print"
      BY <2>5 DEF PrintResult, Running, SettledInv, TypeOK, Threaded, input
    <3>1. CASE next <= NumShaders
      BY <2>5, <3>0, <3>1 DEF PrintResult, EndInv
    <3>2. CASE ~ (next <= NumShaders)
      <4>1. Len(output) = NumShaders /\ output' = output /\ output # <<>>
        BY <2>5, <3>0, <3>2, NumShadersAssumption DEF PrintResult, NumShadersAssumption
      <4> QED
        BY <3>0, <4>1 DEF EndInv
    <3> QED
      BY <3>1, <3>2
  <2>6. CASE Exit
    <3>1. /\ UNCHANGED <<fate, stage, options, output, main, flags>> /\ main = "end"
          /\ exitCode' = 0 => ~ compileFailed /\ ~ linkFailed
      BY <2>6 DEF Exit, input, EFailCompile, EFailLink
    <3> QED
      BY ZenonT(60), <3>1 DEF EndInv, Done, ToDo, Readable, Threaded, flags
  <2>7. CASE ParseLinked
    <3>1. /\ ~ Threaded /\ ~ Threaded' /\ exitCode' = -1
          /\ UNCHANGED <<fate, stage, output, linkFailed>>
      BY <2>7 DEF ParseLinked, Running, SettledInv, Threaded, input
    <3>2. main' = "end" => compileFailed' \/ fate[next] = "unreadable"
      BY <2>7 DEF ParseLinked
    <3>3. next \in Names \/ main' # "end"
      BY <2>7, NumShadersAssumption DEF ParseLinked, TypeOK, Names, NumShadersAssumption
    <3>4. main' = "end" => compileFailed' \/ ~ Readable'
      BY <3>1, <3>2, <3>3 DEF Readable
    <3> QED
      BY <3>1, <3>4 DEF EndInv, Done, ToDo
  <2>8. CASE LinkLinked
    BY <2>8 DEF LinkLinked, Running, SettledInv, EndInv, Done, ToDo, Readable,
                Threaded, input
  <2>9. CASE TranslateStage
    <3>0. exitCode = -1 /\ (exitCode' = exitCode \/ exitCode' = Aborted)
      BY <2>9 DEF TranslateStage, Running, Abort
    <3>1. /\ ~ Threaded /\ ~ Threaded' /\ exitCode' # ESuccess /\ main = "stages"
          /\ UNCHANGED <<fate, stage, options, compileFailed, linkFailed>>
      BY <2>9, <3>0 DEF TranslateStage, SettledInv, Threaded, input, flags
    <3>2. CASE ToDo = {}
      BY <2>9, <3>1, <3>2 DEF TranslateStage, EndInv, Done, ToDo
    <3>3. CASE main' = main /\ output' = output
      BY <3>1, <3>3 DEF EndInv, Done, ToDo
    <3>4. ASSUME NEW s \in ToDo, main' = main,
                 output' = Append(output, [of |-> s, how |->
                              IF "V" \in options THEN "spirv" ELSE "glslang"])
          PROVE  EndInv'
      <4>1. (IF "V" \in options THEN "spirv" ELSE "glslang") \in Paths \ {"none"}
        BY DEF Paths
      <4>2. /\ \A i \in DOMAIN output' : output'[i].how # "none"
            /\ Done' \subseteq {stage[n] : n \in Names}
        BY <3>1, <3>4, <4>1, StagePrinted
      <4> QED
        BY <3>1, <3>4, <4>2 DEF EndInv
    <3> QED
      BY <2>9, <3>2, <3>3, <3>4 DEF TranslateStage
  <2>10. ASSUME NEW w \in Workers, WorkerStep(w) PROVE EndInv'
    <3>1. UNCHANGED <<fate, stage, options, output, main>>
      BY <2>10 DEF WorkerStep, Remove, ParseSingle, CheckSingle, LinkSingle,
                   TranslateSingle, input
    <3>2. exitCode' # ESuccess
      <4>1. exitCode = -1 /\ (exitCode' = exitCode \/ exitCode' = Aborted)
        BY <2>10 DEF WorkerStep, Remove, ParseSingle, CheckSingle, LinkSingle,
                     TranslateSingle, Abort, Running
      <4> QED
        BY <4>1
    <3>3. (compileFailed => compileFailed') /\ (linkFailed => linkFailed')
      <4>1. CASE ParseSingle(w)
        BY <4>1 DEF ParseSingle
      <4>2. CASE LinkSingle(w)
        BY <4>2 DEF LinkSingle
      <4>3. CASE ~ ParseSingle(w) /\ ~ LinkSingle(w)
        BY <2>10, <4>3 DEF WorkerStep, Remove, CheckSingle, TranslateSingle, flags
      <4> QED
        BY <4>1, <4>2, <4>3
    <3> QED
      BY <3>1, <3>2, <3>3, KeepsEnd
  <2>15. CASE UNCHANGED vars
    BY ZenonT(60), <2>15 DEF vars, input, flags, EndInv, Done, ToDo, Readable, Threaded
  <2> QED
    BY <2>1, <2>2, <2>3, <2>4, <2>5, <2>6, <2>7, <2>8, <2>9, <2>10, <2>15
       DEF Next, MainStep
<1> QED
  BY <1>1, <1>2, TypeCorrect, SettledInvariant, PTL DEF Spec

(* main: exit code 0 means that everything that could be read has been     *)
(* translated and printed, each shader or each stage.                      *)
THEOREM CleanExitCorrect == Spec => []CleanExit
<1>1. TypeOK /\ SettledInv /\ QueueInv /\ AccountInv /\ EndInv => CleanExit
  <2> SUFFICES ASSUME TypeOK, SettledInv, QueueInv, AccountInv, EndInv,
                      exitCode = ESuccess, Readable
               PROVE  /\ \A i \in DOMAIN output : output[i].how # "none"
                      /\ Done = IF Threaded THEN Names ELSE {stage[n] : n \in Names}
    BY DEF CleanExit
  <2>0. main = "end" /\ ~ compileFailed /\ ~ linkFailed
    BY DEF EndInv
  <2>1. CASE Threaded
    <3>1. Len(output) = NumShaders /\ output # <<>> /\ DOMAIN output = Names
      BY <2>0, <2>1 DEF EndInv, TypeOK, Names
    <3>2. \A n \in Names : results[n] # "none"
      BY <2>0, <2>1, <3>1, AllSettled DEF GivenUp, Readable
    <3>3. \A i \in DOMAIN output : output[i] = [of |-> i, how |-> results[i]]
      BY <2>1, <3>1 DEF SettledInv, PrintsSettled
    <3>4. \A i \in DOMAIN output : output[i].of = i /\ output[i].how = results[i]
      BY <3>3
    <3> QED
      BY <2>1, <3>1, <3>2, <3>4 DEF Done
  <2>2. CASE ~ Threaded
    BY <2>0, <2>2 DEF EndInv, ToDo
  <2> QED
    BY <2>1, <2>2
<1> QED
  BY <1>1, TypeCorrect, SettledInvariant, QueueInvariant, AccountInvariant,
     EndInvariant, PTL

-----------------------------------------------------------------------------
(* What the steps need to know of the state they start from. *)
PoolInv == TypeOK /\ OneTakerInv /\ SettledInv /\ QueueInv /\ EndInv

LEMMA PoolInvariant == Spec => []PoolInv
BY TypeCorrect, OneTakerInvariant, SettledInvariant, QueueInvariant,
   EndInvariant, PTL DEF PoolInv

-----------------------------------------------------------------------------
(* The pool's states in the terms of the proofs about the driver. *)
LEMMA PoolStates ==
  ASSUME NEW n
  PROVE  PoolState(n) = IF Waiting(n) THEN "waiting"
                        ELSE IF Taken(n) THEN "taken"
                        ELSE IF ~ Threaded \/ main = "begin" THEN "waiting"
                        ELSE IF results[n] = "none" THEN "dropped" ELSE "translated"
BY DEF PoolState, Waiting, Taken

(* A step that moves no shader. *)
LEMMA SameStates ==
  ASSUME UNCHANGED <<options, worklist, results>>, main = "begin" <=> main' = "begin",
         \A w \in Workers : /\ Busy(w)' <=> Busy(w)
                            /\ Busy(w) => worker'[w].name = worker[w].name
  PROVE  \A n : PoolState(n)' = PoolState(n)
<1> SUFFICES ASSUME NEW n PROVE PoolState(n)' = PoolState(n)
  OBVIOUS
<1>1. (Waiting(n)' <=> Waiting(n)) /\ (Taken(n)' <=> Taken(n))
  BY DEF Waiting, Taken
<1>2. Threaded' <=> Threaded
  BY DEF Threaded
<1>3. PoolState(n)' = IF Waiting(n)' THEN "waiting"
                      ELSE IF Taken(n)' THEN "taken"
                      ELSE IF ~ Threaded' \/ main' = "begin" THEN "waiting"
                      ELSE IF results'[n] = "none" THEN "dropped" ELSE "translated"
  BY DEF PoolState, Waiting, Taken
<1> QED
  BY <1>1, <1>2, <1>3, PoolStates

(* What the pool shows and whether it has ended. *)
LEMMA SameShown ==
  ASSUME UNCHANGED <<options, output>>
  PROVE  PoolShown' = PoolShown
BY DEF PoolShown, Threaded

(* The pool stutters. *)
LEMMA PoolStutters ==
  ASSUME \A n : PoolState(n)' = PoolState(n), UNCHANGED <<options, output, exitCode>>
  PROVE  UNCHANGED Pool!pool
<1>1. [n \in Names |-> PoolState(n)]' = [n \in Names |-> PoolState(n)]
  OBVIOUS
<1>2. (Threaded /\ ~ Running)' = (Threaded /\ ~ Running)
  BY DEF Threaded, Running
<1> QED
  BY <1>1, <1>2, SameShown DEF Pool!pool

(* Moving one shader of the pool. *)
LEMMA OneMoves ==
  ASSUME NEW n \in Names, NEW how, PoolState(n)' = how,
         \A m \in Names \ {n} : PoolState(m)' = PoolState(m)
  PROVE  [m \in Names |-> PoolState(m)]' = [[m \in Names |-> PoolState(m)] EXCEPT ![n] = how]
OBVIOUS

(* Worklist.remove: a worker takes the first shader of the list. *)
LEMMA WorkerTakes ==
  ASSUME PoolInv, PoolInv', NEW w \in Workers, Remove(w), worklist # <<>>
  PROVE  Pool!Next
<1>1. /\ worklist' = Tail(worklist) /\ worker[w].at = "idle"
      /\ worker' = [worker EXCEPT ![w] = [at |-> "parse", name |-> Head(worklist)]]
      /\ UNCHANGED <<options, results, main, output, exitCode>> /\ exitCode = -1
  BY DEF Remove, Running, input
<1>2. worklist \in Seq(Names) /\ worker \in WorkerType
  BY DEF PoolInv, TypeOK, WorkerType
<1>3. Threaded /\ main # "begin" /\ Threaded' /\ main' # "begin"
  BY <1>1 DEF PoolInv, QueueInv, Threaded
<1>4. PICK n \in Names : n = worklist[1] /\ n = Head(worklist)
  BY <1>2
<1>5. worker'[w].at = "parse" /\ worker'[w].name = n
  BY <1>1, <1>2, <1>4 DEF WorkerType
<1>6. Waiting(n) /\ ~ Waiting(n)' /\ Taken(n)'
  <2>1. 1 \in DOMAIN worklist
    BY <1>2
  <2>2. Taken(n)'
    BY <1>5 DEF Taken, Busy
  <2>3. ~ Waiting(n)'
    BY <1>5 DEF PoolInv, OneTakerInv, OneTaker, Waiting, Busy
  <2> QED
    BY <1>4, <2>1, <2>2, <2>3 DEF Waiting
<1>7. ASSUME NEW m \in Names \ {n} PROVE (Waiting(m)' <=> Waiting(m)) /\ (Taken(m)' <=> Taken(m))
  <2>1. \A i \in DOMAIN worklist' : i + 1 \in DOMAIN worklist /\ worklist'[i] = worklist[i + 1]
    BY <1>1, <1>2
  <2>2. \A i \in DOMAIN worklist : i # 1 =>
          i - 1 \in DOMAIN worklist' /\ worklist'[i - 1] = worklist[i]
    BY <1>1, <1>2
  <2>3. Waiting(m)' <=> Waiting(m)
    BY <1>4, <2>1, <2>2 DEF Waiting
  <2>4. \A v \in Workers : v # w => worker'[v] = worker[v]
    BY <1>1, <1>2 DEF WorkerType
  <2>5. Taken(m)' <=> Taken(m)
    BY <1>1, <1>5, <2>4 DEF Taken, Busy
  <2> QED
    BY <2>3, <2>5
<1>8. PoolState(n) = "waiting" /\ PoolState(n)' = "taken"
  BY <1>6, PoolStates DEF PoolState, Waiting, Taken
<1>9. ASSUME NEW m \in Names \ {n} PROVE PoolState(m)' = PoolState(m)
  <2>1. PoolState(m)' = IF Waiting(m)' THEN "waiting"
                        ELSE IF Taken(m)' THEN "taken"
                        ELSE IF ~ Threaded' \/ main' = "begin" THEN "waiting"
                        ELSE IF results'[m] = "none" THEN "dropped" ELSE "translated"
    BY DEF PoolState, Waiting, Taken
  <2> QED
    BY <1>1, <1>3, <1>7, <2>1, PoolStates
<1>10. ASSUME NEW m \in Names, m < n PROVE PoolState(m) # "waiting"
  <2>1. ~ Waiting(m)
    <3> SUFFICES ASSUME NEW i \in DOMAIN worklist, worklist[i] = m PROVE FALSE
      BY DEF Waiting
    <3>1. 1 \in DOMAIN worklist /\ i \in Int /\ i >= 1 /\ Len(worklist) \in Nat
      BY <1>2
    <3>2. /\ m = NumShaders - Len(worklist) + i
          /\ n = NumShaders - Len(worklist) + 1
      BY <1>4, <3>1 DEF PoolInv, QueueInv
    <3> QED
      BY <1>10, <3>1, <3>2, NumShadersAssumption DEF NumShadersAssumption
  <2> QED
    BY <1>3, <2>1, PoolStates
<1>11. Pool!Take(n)
  <2>1. [m \in Names |-> PoolState(m)]'
          = [[m \in Names |-> PoolState(m)] EXCEPT ![n] = "taken"]
    BY <1>8, <1>9, OneMoves
  <2>2. (Threaded /\ ~ Running)' = (Threaded /\ ~ Running)
    BY <1>1 DEF Threaded, Running
  <2> QED
    BY <1>1, <1>8, <1>10, <2>1, <2>2, SameShown DEF Pool!Take, Pool!Shaders, Names
<1> QED
  BY <1>1, <1>11 DEF Pool!Next, Pool!Shaders, Names, Running

(* TranslateSingleShader: a worker puts its shader down, whatever became   *)
(* of it.                                                                  *)
LEMMA WorkerSettles ==
  ASSUME PoolInv, NEW w \in Workers, Busy(w), Running, worker[w].name \in Names,
         worker' = [worker EXCEPT ![w].at = "idle"],
         UNCHANGED <<options, main, worklist, output, exitCode>>,
         \A m \in Names : m # worker[w].name => results'[m] = results[m]
  PROVE  Pool!Next
<1>1. worker \in WorkerType
  BY DEF PoolInv, TypeOK, WorkerType
<1>2. Threaded /\ main # "begin" /\ Threaded' /\ main' # "begin"
  BY DEF PoolInv, QueueInv, Threaded, Busy
<1>3. PICK n \in Names : n = worker[w].name
  OBVIOUS
<1>4. \A v \in Workers : v # w => worker'[v] = worker[v]
  BY <1>1
<1>4a. worker'[w].at = "idle"
  BY <1>1 DEF WorkerType
<1>5. ~ Waiting(n) /\ Taken(n) /\ ~ Taken(n)'
  <2>1. ~ Waiting(n) /\ Taken(n)
    BY <1>3 DEF PoolInv, OneTakerInv, OneTaker, Waiting, Taken
  <2>2. \A v \in Workers \ {w} : Busy(v) => worker[v].name # n
    BY <1>3 DEF PoolInv, OneTakerInv, OneTaker
  <2> QED
    BY <1>4, <1>4a, <2>1, <2>2 DEF Taken, Busy
<1>6. ASSUME NEW m \in Names \ {n} PROVE (Taken(m)' <=> Taken(m))
  BY <1>3, <1>4, <1>4a DEF Taken, Busy
<1>7. \A m : Waiting(m)' <=> Waiting(m)
  BY DEF Waiting
<1>8. \A m : PoolState(m)' = IF Waiting(m)' THEN "waiting"
                        ELSE IF Taken(m)' THEN "taken"
                        ELSE IF ~ Threaded' \/ main' = "begin" THEN "waiting"
                        ELSE IF results'[m] = "none" THEN "dropped" ELSE "translated"
  BY DEF PoolState, Waiting, Taken
<1>9. PoolState(n) = "taken" /\ PoolState(n)' \in {"dropped", "translated"}
  BY <1>2, <1>5, <1>7, <1>8, PoolStates
<1>10. ASSUME NEW m \in Names \ {n} PROVE PoolState(m)' = PoolState(m)
  BY <1>2, <1>3, <1>6, <1>7, <1>8, PoolStates
<1>11. Pool!Settle(n)
  <2>1. PICK how \in {"dropped", "translated"} : PoolState(n)' = how
    BY <1>9
  <2>2. [m \in Names |-> PoolState(m)]'
          = [[m \in Names |-> PoolState(m)] EXCEPT ![n] = how]
    BY <1>10, <2>1, OneMoves
  <2>3. (Threaded /\ ~ Running)' = (Threaded /\ ~ Running)
    BY DEF Threaded, Running
  <2> QED
    BY <1>9, <2>1, <2>2, <2>3, SameShown DEF Pool!Settle, Pool!Settled
<1> QED
  BY <1>11 DEF Pool!Next, Pool!Shaders, Names

(* PrintResult: main shows one more result, when nothing moves any more. *)
LEMMA MainShows ==
  ASSUME PoolInv, PrintResult, next <= NumShaders
  PROVE  Pool!Next
<1>1. /\ main = "print" /\ exitCode = -1 /\ main' = main /\ AllDone /\ Threaded
      /\ output' = Append(output, [of |-> next, how |-> results[next]])
      /\ UNCHANGED <<options, worklist, worker, results, exitCode>>
  BY DEF PrintResult, Running, PoolInv, SettledInv, Threaded, input
<1>2. /\ output \in Seq(Printed) /\ Len(output) \in Nat /\ next = Len(output) + 1
      /\ next \in Names /\ Len(output) < NumShaders
  BY <1>1, NumShadersAssumption
     DEF PoolInv, TypeOK, SettledInv, Printed, Names, NumShadersAssumption
<1>3. ASSUME NEW n \in Names
      PROVE  PoolState(n) = IF results[n] = "none" THEN "dropped" ELSE "translated"
  <2>1. worklist = <<>> /\ \A w \in Workers : ~ Busy(w)
    BY <1>1, WorkersAssumption
       DEF PoolInv, QueueInv, AllDone, Busy, WorkersAssumption
  <2>2. ~ Waiting(n) /\ ~ Taken(n)
    BY <2>1 DEF Waiting, Taken
  <2> QED
    BY <1>1, <2>2, PoolStates
<1>4. Len(PoolShown) = Len(output)
  BY <1>1, <1>2 DEF PoolShown
<1>5. PoolShown' = Append(PoolShown, [of |-> Len(PoolShown) + 1,
                                      how |-> PoolState(Len(PoolShown) + 1)])
  <2> DEFINE shows(r) == [of |-> r.of, how |-> IF r.how = "none" THEN "dropped"
                                               ELSE "translated"]
             e == [of |-> next, how |-> results[next]]
  <2>1. PoolShown = [i \in DOMAIN output |-> shows(output[i])]
    BY <1>1 DEF PoolShown
  <2>2. PoolShown' = [i \in DOMAIN output' |-> shows(output'[i])]
    BY <1>1 DEF PoolShown, Threaded
  <2>3. shows(e) = [of |-> next, how |-> PoolState(next)]
    BY <1>2, <1>3
  <2>4. /\ DOMAIN output = 1..Len(output) /\ DOMAIN output' = 1..(Len(output) + 1)
        /\ \A i \in DOMAIN output : output'[i] = output[i]
        /\ output'[Len(output) + 1] = e
    BY <1>1, <1>2, AppendType DEF PoolInv, TypeOK, Printed, Names
  <2> HIDE DEF shows, e
  <2>5. PoolShown' = Append(PoolShown, shows(e))
    BY <1>2, <2>1, <2>2, <2>4
  <2> QED
    BY <1>2, <1>4, <2>3, <2>5
<1>6. \A n : PoolState(n)' = PoolState(n)
  BY <1>1, SameStates DEF Busy
<1>7. Pool!Show
  <2>1. [n \in Names |-> PoolState(n)]' = [n \in Names |-> PoolState(n)]
    BY <1>6
  <2>2. (Threaded /\ ~ Running)' = (Threaded /\ ~ Running)
    BY <1>1 DEF Threaded, Running
  <2>3. \A n \in Names : PoolState(n) \in {"translated", "dropped"}
    BY <1>3
  <2>4. PoolShown' = Append(PoolShown, [of |-> Len(PoolShown) + 1,
           how |-> [n \in Names |-> PoolState(n)][Len(PoolShown) + 1]])
    BY <1>2, <1>4, <1>5
  <2> QED
    BY <1>2, <1>4, <2>1, <2>2, <2>3, <2>4 DEF Pool!Show, Pool!Shaders, Pool!Settled, Names
<1> QED
  BY <1>1, <1>7 DEF Pool!Next, Running

(* Exit, and UnsupportedFunctionality in a worker: the process ends.       *)
LEMMA ProcessEnds ==
  ASSUME PoolInv, Running, exitCode' # -1, Threaded,
         output = <<>> \/ Len(output) = NumShaders,
         UNCHANGED <<options, main, worklist, worker, results, output>>
  PROVE  Pool!Next
<1>1. \A n : PoolState(n)' = PoolState(n)
  BY SameStates DEF Busy
<1>2. [n \in Names |-> PoolState(n)]' = [n \in Names |-> PoolState(n)]
  BY <1>1
<1>3. (Threaded /\ ~ Running)' = TRUE /\ (Threaded /\ ~ Running) = FALSE
  BY DEF Threaded, Running
<1>4. Len(PoolShown) \in {0, NumShaders}
  <2>1. output \in Seq(Printed)
    BY DEF PoolInv, TypeOK, Printed
  <2>2. Len(PoolShown) = Len(output)
    BY <2>1 DEF PoolShown
  <2> QED
    BY <2>2
<1>5. Pool!End
  BY <1>2, <1>3, <1>4, SameShown DEF Pool!End
<1> QED
  BY <1>3, <1>5 DEF Pool!Next

-----------------------------------------------------------------------------
(* TranslateShadersMultithreaded, TranslateSingleShader, main: whatever    *)
(* the schedule, the shaders' fates and the way the process ends, the      *)
(* driver does only what the pool may do.                                  *)
THEOREM DriverImplementsPool == Spec => Implements
<1>1. Init => Pool!Init
  <2> SUFFICES ASSUME Init PROVE Pool!Init
    OBVIOUS
  <2>1. \A n : PoolState(n) = "waiting"
    BY PoolStates DEF Init, Taken, Busy
  <2>2. PoolShown = <<>>
    BY DEF Init, PoolShown
  <2> QED
    BY <2>1, <2>2 DEF Init, Running, Pool!Init, Pool!Shaders, Names
<1>2. PoolInv /\ PoolInv' /\ [Next]_vars => [Pool!Next]_(Pool!pool)
  <2> SUFFICES ASSUME PoolInv, PoolInv', [Next]_vars
               PROVE  Pool!Next \/ UNCHANGED Pool!pool
    OBVIOUS
  <2>0. worker \in WorkerType
    BY DEF PoolInv, TypeOK, WorkerType
  <2>0a. \A w \in Workers : Busy(w) => worker[w].name \in Names
    BY DEF PoolInv, QueueInv
  <2>1. CASE TranslateShaders
    <3>1. \A w \in Workers : ~ Busy(w) /\ ~ Busy(w)'
      BY <2>1 DEF TranslateShaders, PoolInv, QueueInv, Busy
    <3>2. Threaded' => \A n \in Names : Waiting(n)'
      BY <2>1 DEF TranslateShaders, Threaded, Waiting, input
    <3>3. \A n \in Names : PoolState(n) = "waiting"
      BY <2>1, <3>1, PoolStates DEF TranslateShaders, Taken
    <3>4. \A n \in Names : PoolState(n)' = "waiting"
      BY <3>1, <3>2 DEF PoolState, Waiting
    <3>5. [n \in Names |-> PoolState(n)]' = [n \in Names |-> PoolState(n)]
      BY <3>3, <3>4
    <3>6. (Threaded /\ ~ Running)' = (Threaded /\ ~ Running)
      BY <2>1 DEF TranslateShaders, Threaded, Running, input
    <3> QED
      BY <2>1, <3>5, <3>6, SameShown DEF TranslateShaders, Pool!pool, input
  <2>2. ASSUME NEW w \in Workers, StartWorker(w) PROVE UNCHANGED Pool!pool
    <3>1. \A v \in Workers : (Busy(v)' <=> Busy(v)) /\ worker'[v].name = worker[v].name
      BY <2>0, <2>2 DEF StartWorker, Busy, WorkerType
    <3> QED
      BY <2>2, <3>1, SameStates, PoolStutters DEF StartWorker, input
  <2>3. CASE StartFails
    BY <2>3, SameStates, PoolStutters DEF StartFails, Busy, input
  <2>4. CASE WaitForWorkers
    BY <2>4, SameStates, PoolStutters DEF WaitForWorkers, Busy, input
  <2>5. CASE PrintResult
    <3>1. CASE next <= NumShaders
      BY <2>5, <3>1, MainShows
    <3>2. CASE ~ (next <= NumShaders)
      BY <2>5, <3>2, SameStates, PoolStutters DEF PrintResult, Busy, input
    <3> QED
      BY <3>1, <3>2
  <2>6. CASE Exit
    <3>1. /\ Running /\ exitCode' # -1 /\ main = "end"
          /\ UNCHANGED <<options, main, worklist, worker, results, output>>
      BY <2>6 DEF Exit, input, ESuccess, EFailCompile, EFailLink
    <3>2. CASE Threaded
      BY <3>1, <3>2, ProcessEnds DEF PoolInv, EndInv
    <3>3. CASE ~ Threaded
      <4>1. \A n : PoolState(n)' = PoolState(n)
        BY <3>1, SameStates DEF Busy
      <4>2. [n \in Names |-> PoolState(n)]' = [n \in Names |-> PoolState(n)]
        BY <4>1
      <4>3. (Threaded /\ ~ Running)' = (Threaded /\ ~ Running)
        BY <3>1, <3>3 DEF Threaded
      <4> QED
        BY <3>1, <4>2, <4>3, SameShown DEF Pool!pool
    <3> QED
      BY <3>2, <3>3
  <2>7. CASE ParseLinked
    BY <2>7, SameStates, PoolStutters DEF ParseLinked, Busy, input
  <2>8. CASE LinkLinked
    BY <2>8, SameStates, PoolStutters DEF LinkLinked, Busy, input
  <2>9. CASE TranslateStage
    <3>1. ~ Threaded /\ ~ Threaded'
      BY <2>9 DEF TranslateStage, PoolInv, SettledInv, Threaded, input
    <3>2. \A n : PoolState(n)' = PoolState(n)
      BY <2>9, SameStates DEF TranslateStage, Busy, input
    <3>3. [n \in Names |-> PoolState(n)]' = [n \in Names |-> PoolState(n)]
      BY <3>2
    <3>4. (Threaded /\ ~ Running)' = (Threaded /\ ~ Running)
      BY <3>1
    <3> QED
      BY <3>1, <3>3, <3>4 DEF Pool!pool, PoolShown
  <2>10. ASSUME NEW w \in Workers, Remove(w) PROVE Pool!Next \/ UNCHANGED Pool!pool
    <3>1. CASE worklist = <<>>
      <4>1. \A v \in Workers : (Busy(v)' <=> Busy(v)) /\ worker'[v].name = worker[v].name
        BY <2>0, <2>10, <3>1 DEF Remove, Busy, WorkerType
      <4> QED
        BY <2>10, <3>1, <4>1, SameStates, PoolStutters DEF Remove, input
    <3>2. CASE worklist # <<>>
      BY <2>10, <3>2, WorkerTakes
    <3> QED
      BY <3>1, <3>2
  <2>11. ASSUME NEW w \in Workers, Busy(w), Running, worker'[w].at \in WorkerPlaces,
                worker' = [worker EXCEPT ![w].at = worker'[w].at],
                Busy(w)' \/ worker'[w].at = "idle",
                UNCHANGED <<options, main, worklist, results, output, exitCode>>
         PROVE  Pool!Next \/ UNCHANGED Pool!pool
    <3>1. CASE Busy(w)'
      <4>1. \A v \in Workers : (Busy(v)' <=> Busy(v)) /\ worker'[v].name = worker[v].name
        BY <2>0, <2>11, <3>1 DEF Busy, WorkerType
      <4> QED
        BY <2>11, <4>1, SameStates, PoolStutters
    <3>2. CASE worker'[w].at = "idle"
      BY <2>0a, <2>11, <3>2, WorkerSettles
    <3> QED
      BY <2>11, <3>1, <3>2
  <2>12. ASSUME NEW w \in Workers, ParseSingle(w) \/ CheckSingle(w) \/ LinkSingle(w)
         PROVE  Pool!Next \/ UNCHANGED Pool!pool
    <3>1. Busy(w) /\ Running /\ UNCHANGED <<options, main, worklist, results, output, exitCode>>
      BY <2>12 DEF ParseSingle, CheckSingle, LinkSingle, Busy, input
    <3>2. PICK p \in {"idle", "check", "link", "translate"} :
            worker' = [worker EXCEPT ![w].at = p]
      BY <2>12 DEF ParseSingle, CheckSingle, LinkSingle
    <3>3. worker'[w].at = p
      BY <2>0, <3>2 DEF WorkerType
    <3> QED
      BY <2>11, <3>1, <3>2, <3>3 DEF Busy, WorkerPlaces
  <2>14. ASSUME NEW w \in Workers, TranslateSingle(w)
         PROVE  Pool!Next \/ UNCHANGED Pool!pool
    <3>0. Busy(w) /\ Running /\ UNCHANGED <<options, main, worklist, output>>
      BY <2>14 DEF TranslateSingle, Busy, input
    <3>1. CASE Unsupported(worker[w].name)
      <4>1. exitCode' # -1 /\ UNCHANGED <<results, worker>>
        BY <2>14, <3>1 DEF TranslateSingle, Abort, Aborted
      <4>2. Threaded
        BY <3>0 DEF PoolInv, QueueInv, Busy
      <4>3. output = <<>>
        BY <3>0, <4>2 DEF PoolInv, SettledInv, PrintsSettled, Busy
      <4> QED
        BY <3>0, <4>1, <4>2, <4>3, ProcessEnds
    <3>2. CASE ~ Unsupported(worker[w].name)
      <4>1. /\ worker' = [worker EXCEPT ![w].at = "idle"] /\ exitCode' = exitCode
            /\ results' = [results EXCEPT ![worker[w].name] = "glslang"]
        BY <2>14, <3>2 DEF TranslateSingle
      <4>2. \A m \in Names : m # worker[w].name => results'[m] = results[m]
        BY <4>1 DEF PoolInv, TypeOK
      <4> QED
        BY <2>0a, <3>0, <4>1, <4>2, WorkerSettles
    <3> QED
      BY <3>1, <3>2
  <2>15. CASE UNCHANGED vars
    BY <2>15, SameStates, PoolStutters DEF vars, input, Busy
  <2> QED
    BY <2>1, <2>2, <2>3, <2>4, <2>5, <2>6, <2>7, <2>8, <2>9, <2>10, <2>12,
       <2>14, <2>15 DEF Next, MainStep, WorkerStep
<1> QED
  BY <1>1, <1>2, PoolInvariant, PTL DEF Spec, Implements, Pool!Spec
=============================================================================
