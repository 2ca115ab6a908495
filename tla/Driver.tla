------------------------------- MODULE Driver -------------------------------
(***************************************************************************)
(* The stand-alone driver (Standalone/main.cpp): one process translates    *)
(* the shaders its command line names, either all linked into one program, *)
(* one translation per stage (TranslateLinkedShaders), or with -t each on  *)
(* its own, by threads that share a work list (TranslateShadersMulti-      *)
(* threaded, TranslateShaders, TranslateSingleShader).  The flags          *)
(* CompileFailed and LinkFailed are globals every thread reads and writes. *)
(*                                                                         *)
(* What glslang and the middle and back ends make of a shader is its       *)
(* "fate", chosen at the start.  On Windows there are NumThreads workers;  *)
(* elsewhere the main thread itself runs the one worker, which is a        *)
(* started worker main waits for.                                          *)
(***************************************************************************)
EXTENDS Integers, Sequences, FiniteSets

CONSTANTS
  NumShaders,  \* the shaders on the command line
  Workers,     \* the threads of -t
  Stages,      \* pipeline stages the shaders are of
  Fates,       \* the fates shaders may have
  MayNotStart  \* whether the creation of a thread may fail

AllFates ==
  {"ok",           \* translates
   "unreadable",   \* the file cannot be read
   "badParse",     \* does not compile
   "needsRelaxed", \* compiles in the relaxed mode of -r only
   "badLink",      \* compiles, does not link
   "unsupported"}  \* a later phase meets functionality it does not support

ASSUME NumShadersAssumption == NumShaders \in Nat \ {0}
ASSUME StagesAssumption == Stages \subseteq Nat
ASSUME WorkersAssumption == IsFiniteSet(Workers) /\ Workers # {}
ASSUME FatesAssumption == Fates \subseteq AllFates
ASSUME MayNotStartAssumption == MayNotStart \in BOOLEAN

Names == 1..NumShaders
NoName == 0

(* The codes main returns, and what exit(1) makes of the process. *)
ESuccess == 0  EFailCompile == 2  EFailLink == 3  Aborted == 1

VARIABLES
  fate, stage,    \* the input: each shader's fate and stage
  options,        \* the command line's options, of {"r", "V", "t"}
  messages,       \* the global Messages, what parse() and link() are told
  compileFailed, linkFailed,  \* the globals
  main,           \* where the main thread is
  next,           \* main's loop variable
  worklist,       \* the global Worklist
  worker,         \* each worker: where it is and with which shader
  results,        \* the work items' results
  output,         \* what was printed, in order
  exitCode        \* of the process, -1 while it runs

input  == <<fate, stage, options>>
flags  == <<compileFailed, linkFailed>>
vars   == <<input, messages, flags, main, next, worklist, worker, results,
            output, exitCode>>

Paths == {"none", "glslang", "spirv"}
WorkerPlaces == {"off", "idle", "parse", "check", "link", "translate", "done"}

Init ==
  /\ fate \in [Names -> Fates] /\ stage \in [Names -> Stages]
  /\ options \in SUBSET {"r", "V", "t"}
  /\ messages = {}
  /\ compileFailed = FALSE /\ linkFailed = FALSE
  /\ main = "begin" /\ next = 1
  /\ worklist = <<>>
  /\ worker = [w \in Workers |-> [at |-> "off", name |-> NoName]]
  /\ results = [n \in Names |-> "none"]
  /\ output = <<>> /\ exitCode = -1

Running == exitCode = -1

(* shader->parse(..., Messages), shader by shader, and program.link(). *)
Parses(n) == \/ fate[n] \notin {"badParse", "needsRelaxed"}
             \/ fate[n] = "needsRelaxed" /\ "r" \in messages
Unsupported(n) == fate[n] = "unsupported"

(* gla::UnsupportedFunctionality: exit(1), from whichever thread. *)
Abort == exitCode' = Aborted

-----------------------------------------------------------------------------
(* TranslateShaders(names): the options -r, -i, -w go into a local variable *)
(* named messages; the global one stays as it is.                           *)
TranslateShaders ==
  /\ Running /\ main = "begin"
  /\ main' = IF "t" \in options THEN "start" ELSE "parse"
  /\ worklist' = IF "t" \in options THEN [n \in Names |-> n] ELSE worklist
  /\ UNCHANGED <<input, messages, flags, next, worker, results, output, exitCode>>

(* TranslateShadersMultithreaded: the threads are created one by one; they *)
(* run from then on.                                                       *)
StartWorker(w) ==
  /\ Running /\ main = "start" /\ worker[w].at = "off"
  /\ worker' = [worker EXCEPT ![w].at = "idle"]
  /\ UNCHANGED <<input, messages, flags, main, next, worklist, results, output,
                 exitCode>>

StartFails ==
  /\ Running /\ main = "start" /\ MayNotStart
  /\ \E w \in Workers : worker[w].at = "off"
  /\ compileFailed' = TRUE
  /\ main' = "end"
  /\ UNCHANGED <<input, messages, linkFailed, next, worklist, worker, results,
                 output, exitCode>>

(* mutant: main waits for one of the threads *)
WaitForOneWorker ==
  /\ Running /\ main = "start"
  /\ \E w \in Workers : worker[w].at = "done"
  /\ main' = "print"
  /\ UNCHANGED <<input, messages, flags, next, worklist, worker, results, output,
                 exitCode>>

(* OS_WaitForAllThreads *)
WaitForWorkers ==
  /\ Running /\ main = "start"
  /\ \A w \in Workers : worker[w].at = "done"
  /\ main' = "print"
  /\ UNCHANGED <<input, messages, flags, next, worklist, worker, results, output,
                 exitCode>>

(* mutant: printing stops at a shader without a translation *)
PrintResultStops ==
  /\ Running /\ main = "print"
  /\ IF next <= NumShaders /\ results[next] # "none"
     THEN /\ output' = Append(output, [of |-> next, how |-> results[next]])
          /\ next' = next + 1 /\ main' = main
     ELSE main' = "end" /\ UNCHANGED <<output, next>>
  /\ UNCHANGED <<input, messages, flags, worklist, worker, results, exitCode>>

(* Print out all the results *)
PrintResult ==
  /\ Running /\ main = "print"
  /\ IF next <= NumShaders
     THEN /\ output' = Append(output, [of |-> next, how |-> results[next]])
          /\ next' = next + 1 /\ main' = main
     ELSE main' = "end" /\ UNCHANGED <<output, next>>
  /\ UNCHANGED <<input, messages, flags, worklist, worker, results, exitCode>>

(* mutant: both failures add up to a code main does not have *)
ExitAddsUp ==
  /\ Running /\ main = "end"
  /\ exitCode' = (IF compileFailed THEN EFailCompile ELSE ESuccess)
                 + (IF linkFailed THEN EFailLink ELSE ESuccess)
  /\ UNCHANGED <<input, messages, flags, main, next, worklist, worker, results,
                 output>>

(* The end of main() *)
Exit ==
  /\ Running /\ main = "end"
  /\ exitCode' = IF compileFailed THEN EFailCompile
                 ELSE IF linkFailed THEN EFailLink ELSE ESuccess
  /\ UNCHANGED <<input, messages, flags, main, next, worklist, worker, results,
                 output>>

-----------------------------------------------------------------------------
(* TranslateShaders(void* ): Worklist.remove takes the lock. *)

(* mutant: the item is left on the list for another worker *)
RemoveKeeps(w) ==
  /\ Running /\ worker[w].at = "idle"
  /\ IF worklist = <<>>
     THEN worker' = [worker EXCEPT ![w].at = "done"] /\ UNCHANGED worklist
     ELSE /\ worker' = [worker EXCEPT ![w] = [at |-> "parse", name |-> Head(worklist)]]
          /\ UNCHANGED worklist
  /\ UNCHANGED <<input, messages, flags, main, next, results, output, exitCode>>

Remove(w) ==
  /\ Running /\ worker[w].at = "idle"
  /\ IF worklist = <<>>
     THEN worker' = [worker EXCEPT ![w].at = "done"] /\ UNCHANGED worklist
     ELSE /\ worker' = [worker EXCEPT ![w] = [at |-> "parse", name |-> Head(worklist)]]
          /\ worklist' = Tail(worklist)
  /\ UNCHANGED <<input, messages, flags, main, next, results, output, exitCode>>

(* mutant: a file that cannot be read is read again *)
ParseSingleRetries(w) ==
  LET n == worker[w].name
  IN  /\ Running /\ worker[w].at = "parse"
      /\ compileFailed' = (compileFailed \/ (fate[n] # "unreadable" /\ ~ Parses(n)))
      /\ worker' = [worker EXCEPT ![w].at =
                      IF fate[n] = "unreadable" THEN "parse" ELSE "check"]
      /\ UNCHANGED <<input, messages, linkFailed, main, next, worklist, results,
                     output, exitCode>>

(* TranslateSingleShader: read and parse ... *)
ParseSingle(w) ==
  LET n == worker[w].name
  IN  /\ Running /\ worker[w].at = "parse"
      /\ compileFailed' = (compileFailed \/ (fate[n] # "unreadable" /\ ~ Parses(n)))
      /\ worker' = [worker EXCEPT ![w].at =
                      IF fate[n] = "unreadable" THEN "idle" ELSE "check"]
      /\ UNCHANGED <<input, messages, linkFailed, main, next, worklist, results,
                     output, exitCode>>

(* mutant: a link failure stops the other shaders as well *)
CheckSingleBoth(w) ==
  /\ Running /\ worker[w].at = "check"
  /\ worker' = [worker EXCEPT ![w].at =
                  IF compileFailed \/ linkFailed THEN "idle" ELSE "link"]
  /\ UNCHANGED <<input, messages, flags, main, next, worklist, results, output,
                 exitCode>>

(* ... give up if the flag is set, by this thread or by any ... *)
CheckSingle(w) ==
  /\ Running /\ worker[w].at = "check"
  /\ worker' = [worker EXCEPT ![w].at = IF compileFailed THEN "idle" ELSE "link"]
  /\ UNCHANGED <<input, messages, flags, main, next, worklist, results, output,
                 exitCode>>

(* mutant: a link failure is not remembered *)
LinkSingleSilent(w) ==
  /\ Running /\ worker[w].at = "link"
  /\ worker' = [worker EXCEPT ![w].at =
                  IF fate[worker[w].name] # "badLink" THEN "translate" ELSE "idle"]
  /\ UNCHANGED <<input, messages, flags, main, next, worklist, results, output,
                 exitCode>>

LinkSingle(w) ==
  LET linked == fate[worker[w].name] # "badLink"
  IN  /\ Running /\ worker[w].at = "link"
      /\ linkFailed' = (linkFailed \/ ~ linked)
      /\ worker' = [worker EXCEPT ![w].at = IF linked THEN "translate" ELSE "idle"]
      /\ UNCHANGED <<input, messages, compileFailed, main, next, worklist, results,
                     output, exitCode>>

(* ... and translate, always by TranslateGlslangToTop. *)
TranslateSingle(w) ==
  LET n == worker[w].name
  IN  /\ Running /\ worker[w].at = "translate"
      /\ IF Unsupported(n)
         THEN Abort /\ UNCHANGED <<results, worker>>
         ELSE /\ results' = [results EXCEPT ![n] = "glslang"]
              /\ worker' = [worker EXCEPT ![w].at = "idle"]
              /\ UNCHANGED exitCode
      /\ UNCHANGED <<input, messages, flags, main, next, worklist, output>>

-----------------------------------------------------------------------------
(* TranslateLinkedShaders: parse shader after shader, up to one that fails; *)
(* a file that cannot be read ends it without setting a flag.               *)
ParseLinked ==
  /\ Running /\ main = "parse"
  /\ IF next > NumShaders
     THEN main' = "link" /\ UNCHANGED <<compileFailed, next>>
     ELSE IF fate[next] = "unreadable"
     THEN main' = "end" /\ UNCHANGED <<compileFailed, next>>
     ELSE IF ~ Parses(next)
     THEN compileFailed' = TRUE /\ main' = "end" /\ UNCHANGED next
     ELSE next' = next + 1 /\ UNCHANGED <<compileFailed, main>>
  /\ UNCHANGED <<input, messages, linkFailed, worklist, worker, results, output,
                 exitCode>>

LinkLinked ==
  LET linked == \A n \in Names : fate[n] # "badLink"
  IN  /\ Running /\ main = "link"
      /\ linkFailed' = ~ linked
      /\ main' = IF linked THEN "stages" ELSE "end"
      /\ UNCHANGED <<input, messages, compileFailed, next, worklist, worker, results,
                     output, exitCode>>

(* For each populated stage, in order: translate and print. *)
Done == {output[i].of : i \in DOMAIN output}
ToDo == {stage[n] : n \in Names} \ Done

TranslateStage ==
  /\ Running /\ main = "stages"
  /\ IF ToDo = {}
     THEN main' = "end" /\ UNCHANGED <<output, exitCode>>
     ELSE \E s \in ToDo :
            /\ \A t \in ToDo : s <= t
            /\ IF \E n \in Names : stage[n] = s /\ Unsupported(n)
               THEN Abort /\ UNCHANGED <<output, main>>
               ELSE /\ output' = Append(output, [of |-> s, how |->
                                   IF "V" \in options THEN "spirv" ELSE "glslang"])
                    /\ UNCHANGED <<main, exitCode>>
  /\ UNCHANGED <<input, messages, flags, next, worklist, worker, results>>

-----------------------------------------------------------------------------
WorkerStep(w) == \/ Remove(w) \/ ParseSingle(w) \/ CheckSingle(w)
                 \/ LinkSingle(w) \/ TranslateSingle(w)
MainStep == \/ TranslateShaders
            \/ \E w \in Workers : StartWorker(w)
            \/ StartFails \/ WaitForWorkers \/ PrintResult \/ Exit
            \/ ParseLinked \/ LinkLinked \/ TranslateStage

Next == MainStep \/ \E w \in Workers : WorkerStep(w)

Spec == Init /\ [][Next]_vars

(* The threads are scheduled fairly by the operating system. *)
FairSpec == Spec /\ WF_vars(MainStep) /\ \A w \in Workers : WF_vars(WorkerStep(w))
-----------------------------------------------------------------------------
Busy(w) == worker[w].at \in {"parse", "check", "link", "translate"}
Threaded == "t" \in options

(* The state's types. *)
TypeOK ==
  /\ fate \in [Names -> Fates] /\ stage \in [Names -> Stages]
  /\ options \subseteq {"r", "V", "t"} /\ messages \subseteq {"r"}
  /\ compileFailed \in BOOLEAN /\ linkFailed \in BOOLEAN
  /\ main \in {"begin", "start", "print", "parse", "link", "stages", "end"}
  /\ next \in 1..(NumShaders + 1)
  /\ worklist \in Seq(Names)
  /\ worker \in [Workers -> [at : WorkerPlaces, name : Names \cup {NoName}]]
  /\ results \in [Names -> Paths]
  /\ output \in Seq([of : Names \cup Stages, how : Paths])
  /\ exitCode \in {-1, ESuccess, Aborted, EFailCompile, EFailLink}

(* TranslateShaders(void* ): a shader waits on the work list once, or is   *)
(* with one worker, and a worker that writes a work item's results is the  *)
(* only one that ever has the item.                                        *)
OneTaker ==
  /\ \A i, j \in DOMAIN worklist : worklist[i] = worklist[j] => i = j
  /\ \A w \in Workers : Busy(w) =>
       /\ \A i \in DOMAIN worklist : worklist[i] # worker[w].name
       /\ results[worker[w].name] = "none"
       /\ \A v \in Workers \ {w} : Busy(v) => worker[v].name # worker[w].name

(* TranslateShadersMultithreaded: main prints in the order of the command  *)
(* line and only what no worker can still change.                          *)
PrintsSettled ==
  (Threaded /\ output # <<>>) =>
     /\ \A w \in Workers : worker[w].at = "done"
     /\ \A i \in DOMAIN output : output[i] = [of |-> i, how |-> results[i]]

(* main: a process that exits with success, and could read its files, has  *)
(* printed a translation of every shader, or of every stage when linking.  *)
Readable == \A n \in Names : fate[n] # "unreadable"
CleanExit ==
  (exitCode = ESuccess /\ Readable) =>
     /\ \A i \in DOMAIN output : output[i].how # "none"
     /\ Done = IF Threaded THEN Names ELSE {stage[n] : n \in Names}

(* TranslateSingleShader: a shader that does not link, or that cannot be   *)
(* read, costs no other shader its translation, in any schedule.           *)
CompilesAll == \A n \in Names : fate[n] \in {"ok", "badLink", "unreadable"}
LinkFailureIsolated ==
  (Threaded /\ CompilesAll /\ output # <<>>) =>
     \A n \in Names : fate[n] = "ok" => results[n] # "none"

(* TranslateShaders(void* ), OS_WaitForAllThreads: whatever the shaders'   *)
(* fates and the schedule, the process ends.                               *)
Terminates == <>(~ Running)
=============================================================================
