-------------------------- MODULE GenerationProofs --------------------------
(***************************************************************************)
(* Theorems about Generation, for any number of threads and models, either *)
(* discipline of the clients and any set of supported batch sizes.         *)
(***************************************************************************)
EXTENDS Generation, TLAPS

GenInv == TypeOK /\ EvaluationIsFlagged

\* A step that leaves the registry and the flags alone and moves one thread
\* to a phase in which it evaluates no more than it did before.
LEMMA MoveKeeps ==
    ASSUME GenInv, NEW t \in Threads, NEW w \in Worker,
           w.pc = "none" \/ w.model = worker[t].model, worker[t].pc # "none",
           w.pc \in {"spawned", "prefill", "check", "eval", "finish"}
             => worker[t].pc \in {"spawned", "prefill", "check", "eval", "finish"},
           worker' = [worker EXCEPT ![t] = w],
           UNCHANGED <<registry, waits>>,
           isGen' \in [ModelIds -> BOOLEAN], stop' \in [ModelIds -> BOOLEAN],
           \A m \in ModelIds : (isGen[m] /\ ~ isGen'[m]) =>
               /\ m = worker[t].model
               /\ w.pc \notin {"spawned", "prefill", "check", "eval", "finish"}
               /\ Evaluating(t, m)
    PROVE  GenInv'
<1>1. worker \in [Threads -> Worker] /\ worker[t].model \in ModelIds
  BY DEF GenInv, TypeOK
<1>2. TypeOK' /\ loaded' = loaded
  BY <1>1 DEF GenInv, TypeOK, registry
<1>3. \A u \in Threads : worker'[u] = IF u = t THEN w ELSE worker[u]
  BY <1>1
<1>4. \A u \in Threads, m \in ModelIds : Evaluating(u, m)' => Evaluating(u, m)
  BY <1>3 DEF Evaluating
<1>5. ASSUME NEW u \in Threads, NEW m \in ModelIds, Evaluating(u, m)'
      PROVE  /\ isGen'[m] /\ m \in loaded'
             /\ \A v \in Threads : Evaluating(v, m)' => v = u
  <2>1. Evaluating(u, m)
    BY <1>4, <1>5
  <2>2. /\ isGen[m] /\ m \in loaded
        /\ \A v \in Threads : Evaluating(v, m) => v = u
    BY <2>1 DEF GenInv, EvaluationIsFlagged
  <2>3. isGen'[m]
    <3> SUFFICES ASSUME ~ isGen'[m] PROVE FALSE
      OBVIOUS
    <3>1. u = t
      BY <2>2
    <3> QED BY <1>3, <1>5, <2>2, <3>1 DEF Evaluating
  <2> QED BY <1>2, <1>4, <2>2, <2>3
<1> QED BY <1>2, <1>5 DEF GenInv, EvaluationIsFlagged

\* What a thread that moves to a phase looks like.
LEMMA AtWorker ==
    ASSUME NEW w \in Worker, NEW ph \in Phases
    PROVE  /\ At(w, ph) \in Worker /\ At(w, ph).pc = ph
           /\ ph # "none" => At(w, ph) = [w EXCEPT !.pc = ph]
           /\ ph = "none" => At(w, ph) = Idle
<1>1. CASE ph = "none"
  BY <1>1 DEF At, Idle, Call, Worker, Phases, AllKinds
<1>2. CASE ph # "none"
  BY <1>2 DEF At, Worker
<1> QED BY <1>1, <1>2

\* What stop_generation and the reset of another thread change of a thread.
LEMMA ToldWorker ==
    ASSUME NEW w \in Worker
    PROVE  /\ Told(w) \in Worker /\ Told(w).pc = w.pc /\ Told(w).model = w.model
           /\ Told(w).kind = w.kind /\ Told(w).asked /\ ~ Told(w).undone
           /\ Told(w).late = IF w.undone THEN 0 ELSE w.late
<1> DEFINE l == IF w.undone THEN 0 ELSE w.late
<1>1. l \in Nat /\ Told(w) = [w EXCEPT !.asked = TRUE, !.undone = FALSE, !.late = l]
  BY DEF Told, Worker
<1> HIDE DEF l
<1>2. /\ Told(w) \in Worker /\ Told(w).pc = w.pc /\ Told(w).model = w.model
      /\ Told(w).kind = w.kind /\ Told(w).asked /\ ~ Told(w).undone
      /\ Told(w).late = l
  BY <1>1 DEF Worker
<1> QED BY <1>2 DEF l

LEMMA UnheardWorker ==
    ASSUME NEW w \in Worker, NEW m
    PROVE  /\ Unheard(w, m) \in Worker
           /\ Unheard(w, m).pc = w.pc /\ Unheard(w, m).model = w.model
           /\ Unheard(w, m).kind = w.kind /\ Unheard(w, m).late = w.late
           /\ Unheard(w, m).asked = w.asked
           /\ Unheard(w, m).undone = (w.undone \/ (w.asked /\ w.model = m))
<1> DEFINE b == w.undone \/ (w.asked /\ w.model = m)
<1>1. b \in BOOLEAN /\ Unheard(w, m) = [w EXCEPT !.undone = b]
  BY DEF Unheard, Worker
<1> HIDE DEF b
<1>2. /\ Unheard(w, m) \in Worker
      /\ Unheard(w, m).pc = w.pc /\ Unheard(w, m).model = w.model
      /\ Unheard(w, m).kind = w.kind /\ Unheard(w, m).late = w.late
      /\ Unheard(w, m).asked = w.asked /\ Unheard(w, m).undone = b
  BY <1>1 DEF Worker
<1> QED BY <1>2 DEF b

LEMMA GenInit == Init => GenInv
<1> SUFFICES ASSUME Init PROVE GenInv
  OBVIOUS
<1>1. TypeOK
  BY GenerationAssumption DEF Init, Idle, Call, TypeOK, Worker, Phases, AllKinds, ModelIds
<1>2. \A t \in Threads : worker[t].pc = "none"
  BY DEF Init, Idle, Call
<1> QED BY <1>1, <1>2 DEF GenInv, EvaluationIsFlagged, Evaluating

LEMMA GenStep == GenInv /\ [Next]_vars => GenInv'
<1> SUFFICES ASSUME GenInv, [Next]_vars PROVE GenInv'
  OBVIOUS
<1>a. /\ nextId \in 0 .. MaxModels /\ loaded \cup wordless \subseteq 0 .. nextId - 1
      /\ isGen \in [ModelIds -> BOOLEAN] /\ stop \in [ModelIds -> BOOLEAN]
      /\ worker \in [Threads -> Worker] /\ MaxModels \in Nat
      /\ waits \in {"flag", "thread"}
      /\ \A t \in Threads : worker[t].pc # "none" => worker[t].model \in ModelIds
  BY GenerationAssumption DEF GenInv, TypeOK
<1>1. CASE LoadModel
  <2>1. UNCHANGED <<isGen, stop, worker, waits>> /\ nextId' = nextId + 1
        /\ loaded' = loaded \cup {nextId} /\ nextId < MaxModels
        /\ wordless' \in {wordless, wordless \cup {nextId}}
    BY <1>1 DEF LoadModel
  <2>2. nextId' \in 0 .. MaxModels /\ (loaded \cup wordless)' \subseteq 0 .. nextId' - 1
    BY <1>a, <2>1
  <2> QED BY <1>a, <2>1, <2>2 DEF GenInv, TypeOK, EvaluationIsFlagged, Evaluating
<1>2. ASSUME NEW m \in ModelIds, ReleaseModel(m) PROVE GenInv'
  <2>1. UNCHANGED <<nextId, wordless, isGen, stop, worker, waits>>
        /\ loaded' = loaded \ {m} /\ ~ isGen[m]
    BY <1>2 DEF ReleaseModel, SeenIdle
  <2>2. TypeOK'
    BY <1>a, <2>1 DEF TypeOK
  <2> QED BY <2>1, <2>2 DEF GenInv, EvaluationIsFlagged, Evaluating
<1>3. ASSUME NEW m \in ModelIds, StopGeneration(m) PROVE GenInv'
  <2>1. /\ stop' = [stop EXCEPT ![m] = TRUE]
        /\ worker' = [t \in Threads |->
                        IF Listening(t, m) THEN Told(worker[t]) ELSE worker[t]]
        /\ UNCHANGED <<registry, isGen, waits>>
    BY <1>3 DEF StopGeneration
  <2>2. \A t \in Threads : /\ worker'[t].pc = worker[t].pc
                           /\ worker'[t].model = worker[t].model
                           /\ worker'[t] \in Worker
    BY <1>a, <2>1, ToldWorker
  <2>3. worker' \in [Threads -> Worker]
    BY <2>1, <2>2
  <2>4. TypeOK'
    BY <1>a, <2>1, <2>2, <2>3 DEF TypeOK, registry
  <2>5. \A t \in Threads, n \in ModelIds : Evaluating(t, n)' <=> Evaluating(t, n)
    BY <2>2 DEF Evaluating
  <2> QED BY <2>1, <2>4, <2>5 DEF registry, GenInv, EvaluationIsFlagged
<1>4. ASSUME NEW t \in Threads, NEW m \in ModelIds, NEW k \in Kinds,
             NEW b \in BatchSizes, NEW n \in TokenLimits, StartAsync(t, m, k, b, n)
      PROVE  GenInv'
  <2> DEFINE w == Call(k, m, b, n, "spawned")
  <2>1. /\ m \in loaded /\ ~ isGen[m]
        /\ isGen' = [isGen EXCEPT ![m] = TRUE] /\ stop' = [stop EXCEPT ![m] = FALSE]
        /\ worker' = [worker EXCEPT ![t] = w] /\ UNCHANGED <<nextId, loaded, wordless, waits>>
    BY <1>4 DEF StartAsync, SeenIdle, registry
  <2>2. w \in Worker /\ w.model = m
    BY GenerationAssumption DEF Call, Worker, Phases, ModelIds
  <2> HIDE DEF w
  <2>3. \A u \in Threads : worker'[u] = IF u = t THEN w ELSE worker[u]
    BY <1>a, <2>1
  <2>4. TypeOK'
    BY <1>a, <2>1, <2>2, <2>3 DEF TypeOK
  <2>5. \A u \in Threads : ~ Evaluating(u, m)
    BY <2>1 DEF GenInv, EvaluationIsFlagged
  <2>6. \A u \in Threads, l \in ModelIds :
          Evaluating(u, l)' => (u = t /\ l = m) \/ (u # t /\ l # m /\ Evaluating(u, l))
    BY <2>2, <2>3, <2>5 DEF Evaluating
  <2>7. \A l \in ModelIds : l # m => isGen'[l] = isGen[l]
    BY <1>a, <2>1
  <2>8. isGen'[m]
    BY <1>a, <2>1
  <2> QED BY <2>1, <2>4, <2>6, <2>7, <2>8 DEF GenInv, EvaluationIsFlagged
<1>5. ASSUME NEW t \in Threads, WorkerStep(t) PROVE GenInv'
  <2>a. worker[t] \in Worker
    BY <1>a
  <2>1. ASSUME NEW ph \in Phases, Goto(t, ph), UNCHANGED registry,
               worker[t].pc # "none",
               ph \in {"spawned", "prefill", "check", "eval", "finish"}
                 => worker[t].pc \in {"spawned", "prefill", "check", "eval", "finish"},
               isGen' \in [ModelIds -> BOOLEAN], stop' \in [ModelIds -> BOOLEAN],
               \A m \in ModelIds : (isGen[m] /\ ~ isGen'[m]) =>
                   /\ m = worker[t].model
                   /\ ph \notin {"spawned", "prefill", "check", "eval", "finish"}
                   /\ Evaluating(t, m)
        PROVE  GenInv'
    <3> DEFINE w == At(worker[t], ph)
    <3>1. w \in Worker /\ w.pc = ph
      BY <2>a, AtWorker
    <3>2. ph = "none" \/ w.model = worker[t].model
      BY <2>a, AtWorker DEF Worker
    <3>3. worker' = [worker EXCEPT ![t] = w] /\ UNCHANGED waits
      BY <2>1 DEF Goto
    <3> HIDE DEF w
    <3> QED BY <2>1, <3>1, <3>2, <3>3, MoveKeeps
  <2>2. ASSUME NEW ph \in {"prefill", "rejected", "check", "eval", "finish", "none"},
               Goto(t, ph), UNCHANGED flags, worker[t].pc # "none",
               ph \in {"prefill", "check", "eval", "finish"}
                 => worker[t].pc \in {"spawned", "prefill", "check", "eval"}
        PROVE  GenInv'
    <3>1. /\ UNCHANGED registry /\ UNCHANGED <<isGen, stop>> /\ ph \in Phases
          /\ \A m \in ModelIds : ~ (isGen[m] /\ ~ isGen'[m])
      BY <2>2 DEF flags, Phases
    <3> QED BY <1>a, <2>1, <2>2, <3>1
  <2>3. ASSUME NEW ph \in {"none", "clear_stop"}, Goto(t, ph),
               worker[t].pc \in {"prefill", "eval", "finish"},
               isGen' = [isGen EXCEPT ![worker[t].model] = FALSE],
               UNCHANGED <<registry, stop>>
        PROVE  GenInv'
    <3>1. isGen' \in [ModelIds -> BOOLEAN] /\ stop' \in [ModelIds -> BOOLEAN]
      BY <1>a, <2>3
    <3>2. \A m \in ModelIds : (isGen[m] /\ ~ isGen'[m]) =>
            m = worker[t].model /\ Evaluating(t, m)
      BY <1>a, <2>3 DEF Evaluating
    <3> QED BY <2>1, <2>3, <3>1, <3>2 DEF Phases
  <2>4. CASE Enter(t)
    <3>1. /\ worker[t].pc = "spawned" /\ Goto(t, "prefill")
          /\ isGen' = [isGen EXCEPT ![worker[t].model] = TRUE]
          /\ stop' = [stop EXCEPT ![worker[t].model] = FALSE]
          /\ UNCHANGED registry
      BY <2>4 DEF Enter
    <3>2. /\ \A m \in ModelIds : ~ (isGen[m] /\ ~ isGen'[m])
          /\ isGen' \in [ModelIds -> BOOLEAN] /\ stop' \in [ModelIds -> BOOLEAN]
      BY <1>a, <3>1
    <3> QED BY <2>1, <3>1, <3>2 DEF Phases
  <2>5. CASE EnterSpeech(t)
    BY <2>2, <2>5 DEF EnterSpeech
  <2>6. CASE Reject(t)
    BY <2>2, <2>6 DEF Reject
  <2>7. CASE Prefilled(t)
    <3> DEFINE ph == IF worker[t].kind \in ChatKinds THEN "check" ELSE "eval"
    <3>1. ph \in {"check", "eval"} /\ Goto(t, ph) /\ worker[t].pc = "prefill" /\ UNCHANGED flags
      BY <2>7 DEF Prefilled
    <3> HIDE DEF ph
    <3> QED BY <2>2, <3>1
  <2>8. CASE EvalFails(t)
    BY <2>3, <2>8 DEF EvalFails
  <2>9. CASE SpeechFails(t)
    BY <2>2, <2>9 DEF SpeechFails
  <2>10. CASE GoOn(t)
    BY <2>2, <2>10 DEF GoOn
  <2>11. CASE LeaveLoop(t)
    BY <2>2, <2>11 DEF LeaveLoop
  <2>12. CASE EvalToken(t)
    <3> DEFINE l == IF worker[t].asked THEN worker[t].late + 1 ELSE worker[t].late
    <3> DEFINE w == [worker[t] EXCEPT !.pc = "check", !.done = @ + 1, !.late = l]
    <3>0. l \in Nat /\ worker[t].done + 1 \in Nat
      BY <2>a DEF Worker
    <3>2. /\ worker[t].pc = "eval" /\ UNCHANGED <<registry, isGen, stop, waits>>
          /\ worker' = [worker EXCEPT ![t] = w]
      BY <1>a, <2>12 DEF EvalToken, flags
    <3> HIDE DEF l
    <3>1. w \in Worker /\ w.model = worker[t].model /\ w.pc = "check"
      BY <2>a, <3>0 DEF Worker, Phases
    <3> HIDE DEF w
    <3> QED BY <1>a, <3>1, <3>2, MoveKeeps
  <2>13. CASE ClearGenerating(t)
    <3> DEFINE ph == IF worker[t].kind = "speech" THEN "none" ELSE "clear_stop"
    <3>1. /\ ph \in {"none", "clear_stop"} /\ Goto(t, ph) /\ worker[t].pc = "finish"
          /\ isGen' = [isGen EXCEPT ![worker[t].model] = FALSE]
          /\ UNCHANGED <<registry, stop>>
      BY <2>13 DEF ClearGenerating
    <3> HIDE DEF ph
    <3> QED BY <2>3, <3>1
  <2>14. CASE ClearStop(t)
    <3> DEFINE ph == IF worker[t].kind \in ChatKinds THEN "cleanup" ELSE "none"
    <3>1. /\ ph \in {"cleanup", "none"} /\ worker[t].pc = "clear_stop"
          /\ UNCHANGED <<registry, isGen, waits>>
          /\ stop' = [stop EXCEPT ![worker[t].model] = FALSE]
          /\ worker' = [u \in Threads |-> IF u = t THEN At(worker[t], ph)
                                          ELSE Unheard(worker[u], worker[t].model)]
      BY <2>14 DEF ClearStop
    <3> HIDE DEF ph
    <3>2. At(worker[t], ph) \in Worker /\ At(worker[t], ph).pc = ph
      BY <2>a, <3>1, AtWorker DEF Phases
    <3>3. ph = "cleanup" => At(worker[t], ph).model = worker[t].model
      BY <2>a, <3>1, AtWorker DEF Worker, Phases
    <3>4. ASSUME NEW u \in Threads
          PROVE  /\ worker'[u] \in Worker
                 /\ u # t => /\ worker'[u].pc = worker[u].pc
                             /\ worker'[u].model = worker[u].model
      BY <1>a, <3>1, <3>2, UnheardWorker
    <3>5. worker' \in [Threads -> Worker]
      BY <3>1, <3>4
    <3>6. \A u \in Threads : worker'[u].pc # "none" => worker'[u].model \in ModelIds
      BY <1>a, <3>1, <3>2, <3>3, <3>4
    <3>7. stop' \in [ModelIds -> BOOLEAN]
      BY <1>a, <3>1
    <3>8. TypeOK'
      BY <1>a, <3>1, <3>5, <3>6, <3>7 DEF TypeOK, registry
    <3>9. \A u \in Threads, m \in ModelIds : Evaluating(u, m)' => Evaluating(u, m)
      BY <3>1, <3>2, <3>4 DEF Evaluating
    <3> QED BY <3>1, <3>8, <3>9 DEF GenInv, EvaluationIsFlagged, registry
  <2>15. CASE CleanupTree(t)
    BY <2>2, <2>15 DEF CleanupTree
  <2> QED BY <1>5, <2>4, <2>5, <2>6, <2>7, <2>8, <2>9, <2>10, <2>11, <2>12, <2>13,
             <2>14, <2>15 DEF WorkerStep
<1>6. CASE UNCHANGED vars
  BY <1>6 DEF vars, flags, registry, GenInv, TypeOK, EvaluationIsFlagged, Evaluating
<1> QED BY <1>1, <1>2, <1>3, <1>4, <1>5, <1>6 DEF Next

\* Flags, registry and threads keep their types, and no id is given out twice,
\* for any number of threads, models and calls.
THEOREM TypeCorrect == Spec => []TypeOK
<1>1. GenInv => TypeOK
  BY DEF GenInv
<1> QED BY <1>1, GenInit, GenStep, PTL DEF Spec

\* However many threads, models and calls there are, and whether clients wait
\* for the flag or for the thread: a model that a thread evaluates on is
\* loaded, its flag is up, and the thread is the only one.
THEOREM EvaluationIsFlaggedCorrect == Spec => []EvaluationIsFlagged
<1>1. GenInv => EvaluationIsFlagged
  BY DEF GenInv
<1> QED BY <1>1, GenInit, GenStep, PTL DEF Spec


-----------------------------------------------------------------------------
(* Stopping. *)

\* No two threads run code for one model.
Alone ==
    \A t, u \in Threads, m \in ModelIds : Running(t, m) /\ Running(u, m) => t = u

\* A stop that was asked for and not undone is still up while the thread can
\* evaluate, and a token evaluated since then is the last; up is the flag of
\* w's model.
Heard(w, up) == w.kind # "speech" /\ ~ w.undone =>
    /\ w.pc \in {"prefill", "check", "eval"} /\ w.asked => up
    /\ ~ w.asked => w.late = 0
    /\ w.pc \in {"spawned", "prefill", "eval"} => w.late = 0
    /\ w.late <= 1

\* A stop is undone after it was asked for, and asked for in a call.
Asked(w) ==
    /\ w.undone => w.asked
    /\ w.pc \in {"none", "spawned", "rejected"} => ~ w.asked

AllHeard == \A t \in Threads :
    Heard(worker[t], stop[worker[t].model]) /\ Asked(worker[t])

NoneUndone == \A t \in Threads : ~ worker[t].undone

StopInv == GenInv /\ AllHeard /\ (waits = "thread" => Alone /\ NoneUndone)

\* A step of a running thread that changes at most its own phase, its count of
\* late tokens and, while it evaluates, the flag of its model.
LEMMA MoveHears ==
    ASSUME StopInv, GenInv', NEW t \in Threads, NEW w \in Worker,
           w.pc = "none" \/ w.model = worker[t].model, Running(t, worker[t].model),
           worker' = [worker EXCEPT ![t] = w], UNCHANGED waits,
           \A m \in ModelIds : stop'[m] = stop[m] \/ Evaluating(t, m),
           Heard(w, stop'[w.model]), Asked(w), w.undone => worker[t].undone
    PROVE  StopInv'
<1>1. /\ worker \in [Threads -> Worker] /\ worker[t].model \in ModelIds
      /\ \A u \in Threads : worker[u].pc # "none" => worker[u].model \in ModelIds
  BY DEF StopInv, GenInv, TypeOK, Running
<1>2. \A u \in Threads : worker'[u] = IF u = t THEN w ELSE worker[u]
  BY <1>1
<1>3. \A u \in Threads, m \in ModelIds : Running(u, m)' => Running(u, m)
  BY <1>2 DEF Running
<1>4. waits = "thread" => Alone' /\ NoneUndone'
  BY <1>2, <1>3 DEF StopInv, Alone, NoneUndone
<1>5. ASSUME NEW u \in Threads, u # t
      PROVE  Heard(worker'[u], stop'[worker'[u].model]) /\ Asked(worker'[u])
  <2>1. /\ worker'[u] = worker[u]
        /\ Heard(worker[u], stop[worker[u].model]) /\ Asked(worker[u])
    BY <1>2, <1>5 DEF StopInv, AllHeard
  <2>2. worker[u].pc \in {"prefill", "check", "eval"} =>
          stop'[worker[u].model] = stop[worker[u].model]
    BY <1>1, <1>5 DEF StopInv, GenInv, EvaluationIsFlagged, Evaluating
  <2> QED BY <2>1, <2>2 DEF Heard
<1> QED BY <1>2, <1>4, <1>5 DEF AllHeard, StopInv

LEMMA StopInit == Init => StopInv
<1> SUFFICES ASSUME Init PROVE StopInv
  OBVIOUS
<1>1. \A t \in Threads : /\ worker[t].pc = "none" /\ worker[t].late = 0
                         /\ ~ worker[t].asked /\ ~ worker[t].undone
  BY DEF Init, Idle, Call
<1> QED BY <1>1, GenInit DEF StopInv, Alone, AllHeard, NoneUndone, Heard, Asked, Running

LEMMA StopStep == ASSUME StopInv, [Next]_vars PROVE StopInv'
<1>a. /\ isGen \in [ModelIds -> BOOLEAN] /\ stop \in [ModelIds -> BOOLEAN]
      /\ worker \in [Threads -> Worker]
      /\ \A t \in Threads : worker[t].pc # "none" => worker[t].model \in ModelIds
  BY DEF StopInv, GenInv, TypeOK
<1>b. GenInv' /\ GenInv
  BY GenStep DEF StopInv
<1>d. AllHeard
  BY DEF StopInv
<1>1. CASE UNCHANGED <<stop, worker, waits>>
  BY <1>1, <1>b DEF StopInv, Alone, AllHeard, NoneUndone, Running
<1>2. ASSUME NEW m \in ModelIds, StopGeneration(m) PROVE StopInv'
  <2>1. /\ stop' = [stop EXCEPT ![m] = TRUE] /\ UNCHANGED waits
        /\ worker' = [t \in Threads |->
                        IF Listening(t, m) THEN Told(worker[t]) ELSE worker[t]]
    BY <1>2 DEF StopGeneration
  <2>2. ASSUME NEW t \in Threads
        PROVE  /\ worker'[t].pc = worker[t].pc
               /\ worker'[t].kind = worker[t].kind
               /\ worker'[t].model = worker[t].model
               /\ worker'[t].undone => worker[t].undone
               /\ worker'[t].asked <=> worker[t].asked \/ Listening(t, m)
               /\ Listening(t, m) => ~ worker'[t].undone
               /\ worker'[t].late = IF Listening(t, m) /\ worker[t].undone
                                    THEN 0 ELSE worker[t].late
    <3>1. worker[t] \in Worker
      BY <1>a
    <3> QED BY <2>1, <3>1, ToldWorker DEF Worker
  <2>3. waits = "thread" => Alone' /\ NoneUndone'
    BY <2>2 DEF StopInv, Alone, NoneUndone, Running
  <2>4. ASSUME NEW t \in Threads
        PROVE  Heard(worker'[t], stop'[worker'[t].model]) /\ Asked(worker'[t])
    <3>1. /\ Heard(worker[t], stop[worker[t].model]) /\ Asked(worker[t])
          /\ worker[t] \in Worker
      BY <1>a, <1>d DEF AllHeard
    <3>2. worker[t].pc \in {"prefill", "check", "eval"} =>
            /\ worker[t].model = m => stop'[worker[t].model]
            /\ worker[t].model # m => stop'[worker[t].model] = stop[worker[t].model]
      BY <1>a, <2>1
    <3>3. Asked(worker'[t])
      BY <2>2, <3>1 DEF Asked, Listening
    <3>4. CASE Listening(t, m)
      <4>1. /\ worker'[t].pc = worker[t].pc /\ worker'[t].kind = worker[t].kind
            /\ worker'[t].model = m /\ worker[t].model = m /\ worker'[t].asked
            /\ ~ worker'[t].undone
            /\ worker'[t].late = IF worker[t].undone THEN 0 ELSE worker[t].late
            /\ worker[t].pc \in {"prefill", "check", "eval"}
        BY <2>2, <3>4 DEF Listening
      <4>2. stop'[m]
        BY <3>2, <4>1
      <4>3. CASE worker[t].undone
        BY <3>3, <4>1, <4>2, <4>3 DEF Heard
      <4>4. CASE ~ worker[t].undone
        BY <3>1, <3>3, <4>1, <4>2, <4>4 DEF Heard
      <4> QED BY <4>3, <4>4
    <3>5. CASE ~ Listening(t, m)
      BY <2>1, <3>1, <3>2, <3>3, <3>5 DEF Heard, Listening
    <3> QED BY <3>3, <3>4, <3>5
  <2> QED BY <1>b, <2>1, <2>3, <2>4 DEF AllHeard, StopInv
<1>3. ASSUME NEW t \in Threads, NEW m \in ModelIds, NEW k \in Kinds,
             NEW b \in BatchSizes, NEW n \in TokenLimits, StartAsync(t, m, k, b, n)
      PROVE  StopInv'
  <2> DEFINE w == Call(k, m, b, n, "spawned")
  <2>1. /\ ~ isGen[m] /\ UNCHANGED waits
        /\ waits = "thread" => \A u \in Threads : ~ Running(u, m)
        /\ stop' = [stop EXCEPT ![m] = FALSE] /\ worker' = [worker EXCEPT ![t] = w]
    BY <1>3 DEF StartAsync, SeenIdle
  <2>2. w.model = m /\ w.pc = "spawned" /\ w.late = 0 /\ ~ w.asked /\ ~ w.undone
    BY DEF Call
  <2> HIDE DEF w
  <2>3. \A u \in Threads : worker'[u] = IF u = t THEN w ELSE worker[u]
    BY <1>a, <2>1
  <2>4. waits = "thread" => \A u \in Threads, l \in ModelIds :
          Running(u, l)' => (u = t /\ l = m) \/ (u # t /\ l # m /\ Running(u, l))
    BY <2>1, <2>2, <2>3 DEF Running
  <2>5. waits = "thread" => Alone' /\ NoneUndone'
    BY <2>2, <2>3, <2>4 DEF StopInv, Alone, NoneUndone
  <2>6. ASSUME NEW u \in Threads, u # t
        PROVE  Heard(worker'[u], stop'[worker'[u].model]) /\ Asked(worker'[u])
    <3>1. /\ worker'[u] = worker[u]
          /\ Heard(worker[u], stop[worker[u].model]) /\ Asked(worker[u])
      BY <1>d, <2>3, <2>6 DEF AllHeard
    <3>2. worker[u].pc \in {"prefill", "check", "eval"} =>
            stop'[worker[u].model] = stop[worker[u].model]
      BY <1>a, <1>b, <2>1 DEF GenInv, EvaluationIsFlagged, Evaluating
    <3> QED BY <3>1, <3>2 DEF Heard
  <2>7. Heard(w, stop'[w.model]) /\ Asked(w)
    BY <2>2 DEF Heard, Asked
  <2> QED BY <1>b, <2>1, <2>3, <2>5, <2>6, <2>7 DEF AllHeard, StopInv
<1>4. ASSUME NEW t \in Threads, WorkerStep(t) PROVE StopInv'
  <2>a. /\ worker[t] \in Worker
        /\ Heard(worker[t], stop[worker[t].model]) /\ Asked(worker[t])
    BY <1>a, <1>d DEF AllHeard
  <2>1. ASSUME NEW ph \in Phases \ {"spawned"}, Goto(t, ph),
               worker[t].pc \notin {"none", "rejected"},
               \A m \in ModelIds : stop'[m] = stop[m] \/ Evaluating(t, m),
               ph = "rejected" => worker[t].pc = "spawned",
               worker[t].kind # "speech" /\ ~ worker[t].undone =>
                 /\ ph \in {"prefill", "check", "eval"} /\ worker[t].asked
                      => stop'[worker[t].model]
                 /\ ph \in {"prefill", "eval"} => worker[t].late = 0
        PROVE  StopInv'
    <3> DEFINE w == At(worker[t], ph)
    <3>1. w \in Worker /\ w.pc = ph
      BY <2>a, <2>1, AtWorker
    <3>2. ph # "none" => /\ w.model = worker[t].model /\ w.kind = worker[t].kind
                         /\ w.asked = worker[t].asked /\ w.late = worker[t].late
                         /\ w.undone = worker[t].undone
      BY <2>a, <2>1, AtWorker DEF Worker
    <3>3. ph = "none" => ~ w.asked /\ w.late = 0 /\ ~ w.undone
      BY <2>a, <2>1, AtWorker DEF Idle, Call
    <3>4. worker' = [worker EXCEPT ![t] = w] /\ UNCHANGED waits
      BY <2>1 DEF Goto
    <3> HIDE DEF w
    <3>5. Heard(w, stop'[w.model])
      BY <2>a, <2>1, <3>1, <3>2, <3>3 DEF Heard
    <3>6. Asked(w) /\ (w.undone => worker[t].undone)
      BY <2>a, <2>1, <3>1, <3>2, <3>3 DEF Asked
    <3>7. Running(t, worker[t].model)
      BY <2>1 DEF Running
    <3> QED BY <1>b, <2>1, <3>1, <3>2, <3>4, <3>5, <3>6, <3>7, MoveHears
  <2>2. CASE Enter(t)
    <3>1. /\ Goto(t, "prefill") /\ worker[t].pc = "spawned" /\ worker[t].kind # "speech"
          /\ stop' = [stop EXCEPT ![worker[t].model] = FALSE]
      BY <2>2 DEF Enter
    <3>2. \A m \in ModelIds : stop'[m] = stop[m] \/ Evaluating(t, m)
      BY <1>a, <3>1 DEF Evaluating
    <3>3. ~ worker[t].asked /\ (~ worker[t].undone => worker[t].late = 0)
      BY <2>a, <3>1 DEF Heard, Asked
    <3> QED BY <2>1, <3>1, <3>2, <3>3 DEF Phases
  <2>3. CASE EnterSpeech(t)
    BY <2>1, <2>3 DEF EnterSpeech, flags, Phases
  <2>4. CASE Reject(t)
    BY <2>1, <2>4 DEF Reject, flags, Phases
  <2>5. CASE Prefilled(t)
    <3> DEFINE ph == IF worker[t].kind \in ChatKinds THEN "check" ELSE "eval"
    <3>1. ph \in {"check", "eval"}
      OBVIOUS
    <3>2. Goto(t, ph) /\ worker[t].pc = "prefill" /\ stop' = stop
      BY <2>5 DEF Prefilled, flags
    <3> HIDE DEF ph
    <3> QED BY <2>1, <2>a, <3>1, <3>2 DEF Heard, Phases
  <2>6. CASE EvalFails(t)
    BY <2>1, <2>6 DEF EvalFails, Phases
  <2>7. CASE SpeechFails(t)
    BY <2>1, <2>7 DEF SpeechFails, flags, Phases
  <2>8. CASE GoOn(t)
    <3>1. /\ Goto(t, "eval") /\ worker[t].pc = "check" /\ stop' = stop
          /\ stop[worker[t].model] => worker[t].kind = "speech"
      BY <2>8 DEF GoOn, flags
    <3>2. worker[t].kind # "speech" /\ ~ worker[t].undone =>
            ~ worker[t].asked /\ worker[t].late = 0
      BY <2>a, <3>1 DEF Heard
    <3> QED BY <2>1, <3>1, <3>2 DEF Phases
  <2>9. CASE LeaveLoop(t)
    BY <2>1, <2>9 DEF LeaveLoop, flags, Phases
  <2>10. CASE EvalToken(t)
    <3> DEFINE l == IF worker[t].asked THEN worker[t].late + 1 ELSE worker[t].late
    <3> DEFINE w == [worker[t] EXCEPT !.pc = "check", !.done = @ + 1, !.late = l]
    <3>1. /\ worker[t].pc = "eval" /\ stop' = stop /\ UNCHANGED waits
          /\ worker' = [worker EXCEPT ![t] = w]
      BY <1>a, <2>10 DEF EvalToken, flags
    <3>2. worker[t].kind # "speech" /\ ~ worker[t].undone => worker[t].late = 0
      BY <2>a, <3>1 DEF Heard
    <3>3. /\ l \in Nat /\ worker[t].done + 1 \in Nat
          /\ worker[t].kind # "speech" /\ ~ worker[t].undone =>
               l <= 1 /\ (~ worker[t].asked => l = 0)
      BY <2>a, <3>2 DEF Worker
    <3> HIDE DEF l
    <3>4. /\ w \in Worker /\ w.model = worker[t].model /\ w.pc = "check"
          /\ w.asked = worker[t].asked /\ w.late = l /\ w.kind = worker[t].kind
          /\ w.undone = worker[t].undone
      BY <2>a, <3>3 DEF Worker, Phases
    <3> HIDE DEF w
    <3>5. Heard(w, stop'[w.model]) /\ Asked(w)
      BY <2>a, <3>1, <3>3, <3>4 DEF Heard, Asked
    <3>6. Running(t, worker[t].model)
      BY <3>1 DEF Running
    <3> QED BY <1>b, <3>1, <3>4, <3>5, <3>6, MoveHears
  <2>11. CASE ClearGenerating(t)
    BY <2>1, <2>11 DEF ClearGenerating, Phases
  <2>12. CASE ClearStop(t)
    <3> DEFINE m == worker[t].model
    <3> DEFINE ph == IF worker[t].kind \in ChatKinds THEN "cleanup" ELSE "none"
    <3>1. /\ ph \in {"cleanup", "none"} /\ worker[t].pc = "clear_stop" /\ UNCHANGED waits
          /\ stop' = [stop EXCEPT ![m] = FALSE]
          /\ worker' = [u \in Threads |-> IF u = t THEN At(worker[t], ph)
                                          ELSE Unheard(worker[u], m)]
      BY <2>12 DEF ClearStop
    <3>2. m \in ModelIds /\ Running(t, m)
      BY <1>a, <3>1 DEF Running
    <3> HIDE DEF ph
    <3> DEFINE w == At(worker[t], ph)
    <3>3. w.pc = ph
      BY <2>a, <3>1, AtWorker DEF Phases
    <3>4. ph # "none" => /\ w.model = m /\ w.kind = worker[t].kind
                         /\ w.asked = worker[t].asked /\ w.late = worker[t].late
                         /\ w.undone = worker[t].undone
      BY <2>a, <3>1, AtWorker DEF Worker, Phases
    <3>5. ph = "none" => ~ w.asked /\ w.late = 0 /\ ~ w.undone
      BY <2>a, AtWorker DEF Idle, Call, Phases
    <3>6. worker'[t] = w
      BY <3>1
    <3> HIDE DEF w
    <3>7. Heard(w, stop'[w.model]) /\ Asked(w) /\ (w.undone => worker[t].undone)
      BY <2>a, <3>1, <3>3, <3>4, <3>5 DEF Heard, Asked
    <3>8. ASSUME NEW u \in Threads, u # t
          PROVE  /\ Heard(worker'[u], stop'[worker'[u].model]) /\ Asked(worker'[u])
                 /\ waits = "thread" => ~ worker'[u].undone
                 /\ worker'[u].pc = worker[u].pc /\ worker'[u].model = worker[u].model
      <4>1. /\ worker[u] \in Worker /\ worker'[u] = Unheard(worker[u], m)
            /\ Heard(worker[u], stop[worker[u].model]) /\ Asked(worker[u])
        BY <1>a, <1>d, <3>1, <3>8 DEF AllHeard
      <4>2. /\ worker'[u].pc = worker[u].pc /\ worker'[u].model = worker[u].model
            /\ worker'[u].kind = worker[u].kind /\ worker'[u].late = worker[u].late
            /\ worker'[u].asked = worker[u].asked
            /\ worker'[u].undone = (worker[u].undone \/ (worker[u].asked /\ worker[u].model = m))
        BY <4>1, UnheardWorker
      <4>3. worker[u].pc \in {"prefill", "check", "eval"} /\ worker[u].model # m =>
              stop'[worker[u].model] = stop[worker[u].model]
        BY <1>a, <3>1
      <4>4. worker[u].asked /\ worker[u].model = m => Running(u, m)
        BY <4>1 DEF Asked, Running
      <4>5. waits = "thread" => ~ worker'[u].undone
        BY <3>2, <3>8, <4>2, <4>4 DEF StopInv, Alone, NoneUndone
      <4> QED BY <4>1, <4>2, <4>3, <4>5 DEF Heard, Asked
    <3>9. \A u \in Threads, l \in ModelIds : Running(u, l)' => Running(u, l)
      BY <3>1, <3>3, <3>4, <3>6, <3>8 DEF Running
    <3>10. AllHeard'
      BY <3>6, <3>7, <3>8 DEF AllHeard
    <3>11. waits = "thread" => Alone' /\ NoneUndone'
      BY <3>6, <3>7, <3>8, <3>9 DEF StopInv, Alone, NoneUndone
    <3> QED BY <1>b, <3>1, <3>10, <3>11 DEF StopInv
  <2>13. CASE CleanupTree(t)
    BY <2>1, <2>13 DEF CleanupTree, flags, Phases
  <2> QED BY <1>4, <2>2, <2>3, <2>4, <2>5, <2>6, <2>7, <2>8, <2>9, <2>10, <2>11,
             <2>12, <2>13 DEF WorkerStep
<1> QED BY <1>1, <1>2, <1>3, <1>4 DEF Next, vars, flags, LoadModel, ReleaseModel

\* However many threads, models and calls there are and however clients wait:
\* at most one token is evaluated after a stop_generation that follows the
\* reset of stop_signal, unless an earlier call of the model lowers the signal
\* behind it; a client that waits for the thread is not exposed to that.
THEOREM StopHonouredCorrect == Spec => []StopHonoured
<1>1. StopInv => StopHonoured
  BY DEF StopInv, AllHeard, Heard, NoneUndone, StopHonoured, GenInv, TypeOK
<1>2. StopInv /\ [Next]_vars => StopInv'
  BY StopStep
<1> QED BY <1>1, <1>2, StopInit, PTL DEF Spec

=============================================================================
