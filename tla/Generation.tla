----------------------------- MODULE Generation -----------------------------
(***************************************************************************)
(* The asynchronous calls of the C API (src/src/c_api.cpp) and the status  *)
(* flags of a model: is_generating and stop_signal (src/src/runtime.cpp).  *)
(*                                                                         *)
(* A call ..._async raises is_generating, lowers stop_signal and detaches  *)
(* a thread that runs chat, chat_batch, gen_completion,                    *)
(* gen_completion_batch or one of the streaming speech calls.  The client  *)
(* polls is_generating, may call stop_generation, and then starts the next *)
(* call, releases the model or loads another one.  Only the flags and the  *)
(* phase of each thread are kept; Chat and SpeechStream are about what the *)
(* phases compute.                                                         *)
(***************************************************************************)
EXTENDS Integers, FiniteSets

CONSTANTS
    Threads,      \* the threads a run can use; a thread that ended is reused
    Kinds,        \* the calls clients make, a subset of AllKinds
    BatchSizes,   \* batch_size arguments
    TokenLimits,  \* max_tokens arguments
    Supported,    \* supported_batch_sizes of the backend
    MaxModels     \* bound: models loaded in one run

AllKinds == {"chat", "chat_batch", "completion", "completion_batch", "speech"}

ChatKinds == {"chat", "chat_batch"}

ASSUME GenerationAssumption ==
    /\ Kinds \subseteq AllKinds
    /\ BatchSizes \subseteq Nat \ {0}
    /\ TokenLimits \subseteq Nat \ {0}
    /\ MaxModels \in Nat

VARIABLES
    nextId,   \* _next_model_id
    loaded,   \* ids in _models
    wordless, \* models that were loaded without a tokenizer
    isGen,    \* is_generating of each model
    stop,     \* stop_signal of each model
    worker,   \* the detached threads
    waits     \* what clients wait for before they go on with a model: "flag"
              \* is what the examples do, they poll is_generating; "thread"
              \* is until the thread of the call has ended

registry == <<nextId, loaded, wordless>>

flags == <<registry, isGen, stop>>

vars == <<flags, worker, waits>>

ModelIds == 0 .. MaxModels - 1

Phases == {"none", "spawned", "prefill", "check", "eval", "finish",
           "clear_stop", "cleanup", "rejected"}

\* The thread's call, and three facts the code does not keep.  asked:
\* stop_generation was called since the thread reset stop_signal; late: tokens
\* evaluated since then; undone: another thread has lowered the signal again.
Worker == [kind : AllKinds, model : Nat, batch : Nat, limit : Nat,
           pc : Phases, done : Nat, asked : BOOLEAN, late : Nat, undone : BOOLEAN]

Call(k, m, b, n, phase) ==
    [kind |-> k, model |-> m, batch |-> b, limit |-> n, pc |-> phase, done |-> 0,
     asked |-> FALSE, late |-> 0, undone |-> FALSE]

Idle == Call("chat", 0, 1, 1, "none")

Init ==
    /\ nextId = 0
    /\ loaded = {}
    /\ wordless = {}
    /\ isGen = [m \in ModelIds |-> FALSE]
    /\ stop = [m \in ModelIds |-> FALSE]
    /\ worker = [t \in Threads |-> Idle]
    /\ waits \in {"flag", "thread"}

\* A thread that still runs code of the runtime for model m.
Running(t, m) == worker[t].model = m /\ worker[t].pc \notin {"none", "rejected"}

\* The client has seen that the model is not in use.
SeenIdle(m) ==
    /\ ~ isGen[m]
    /\ waits = "thread" => \A t \in Threads : ~ Running(t, m)

-----------------------------------------------------------------------------
(* The client. *)

\* Slip: the id of the new model is not used up.
LoadModelSameId ==
    /\ nextId < MaxModels
    /\ loaded' = loaded \cup {nextId}
    /\ UNCHANGED <<nextId, wordless, isGen, stop, worker, waits>>

\* An empty tokenizer path gives a model without a tokenizer.
LoadModel ==
    /\ nextId < MaxModels
    /\ loaded' = loaded \cup {nextId}
    /\ wordless' \in {wordless, wordless \cup {nextId}}
    /\ nextId' = nextId + 1
    /\ UNCHANGED <<isGen, stop, worker, waits>>

\* The last model is kept, so that a client always has one.
ReleaseModel(m) ==
    /\ m \in loaded
    /\ nextId < MaxModels
    /\ SeenIdle(m)
    /\ loaded' = loaded \ {m}
    /\ UNCHANGED <<nextId, wordless, isGen, stop, worker, waits>>

\* Slip: is_generating is left to the thread.
StartAsyncUnflagged(t, m, k, b, n) ==
    /\ m \in loaded
    /\ SeenIdle(m)
    /\ worker[t].pc = "none"
    /\ stop' = [stop EXCEPT ![m] = FALSE]
    /\ worker' = [worker EXCEPT ![t] = Call(k, m, b, n, "spawned")]
    /\ UNCHANGED <<registry, isGen, waits>>

StartAsync(t, m, k, b, n) ==
    /\ m \in loaded
    /\ SeenIdle(m)
    /\ worker[t].pc = "none"
    /\ isGen' = [isGen EXCEPT ![m] = TRUE]
    /\ stop' = [stop EXCEPT ![m] = FALSE]
    /\ worker' = [worker EXCEPT ![t] = Call(k, m, b, n, "spawned")]
    /\ UNCHANGED <<registry, waits>>

\* A thread whose call has not reset the flag yet will reset it.
Listening(t, m) ==
    worker[t].model = m /\ worker[t].pc \in {"prefill", "check", "eval"}

\* A stop after one that was undone counts anew.
Told(w) == [w EXCEPT !.asked = TRUE, !.undone = FALSE,
                     !.late = IF w.undone THEN 0 ELSE @]

StopGeneration(m) ==
    /\ m \in loaded
    /\ stop' = [stop EXCEPT ![m] = TRUE]
    /\ worker' = [t \in Threads |->
                    IF Listening(t, m) THEN Told(worker[t]) ELSE worker[t]]
    /\ UNCHANGED <<registry, isGen, waits>>

-----------------------------------------------------------------------------
(* The threads. *)

\* gen_completion_batch takes (max_length, batch_size) and is given
\* (batch_size, max_tokens).
RuntimeBatch(w) == IF w.kind = "completion_batch" THEN w.limit ELSE w.batch

RuntimeLimit(w) == IF w.kind = "completion_batch" THEN w.batch ELSE w.limit

\* The model has a tokenizer and the backend evaluates batches of this size;
\* the number of prompts is the batch size of the C API.
Accepts(w) ==
    /\ w.model \notin wordless
    /\ w.kind \in {"chat_batch", "completion_batch"} =>
        RuntimeBatch(w) \in Supported /\ RuntimeBatch(w) = w.batch

At(w, phase) == IF phase = "none" THEN Idle ELSE [w EXCEPT !.pc = phase]

Goto(t, phase) ==
    /\ worker' = [worker EXCEPT ![t] = At(worker[t], phase)]
    /\ UNCHANGED waits

Enter(t) ==
    LET m == worker[t].model IN
    /\ worker[t].pc = "spawned"
    /\ worker[t].kind # "speech"
    /\ Accepts(worker[t])
    /\ isGen' = [isGen EXCEPT ![m] = TRUE]
    /\ stop' = [stop EXCEPT ![m] = FALSE]
    /\ Goto(t, "prefill")
    /\ UNCHANGED registry

\* The speech calls leave the flags to the C API.
EnterSpeech(t) ==
    /\ worker[t].pc = "spawned"
    /\ worker[t].kind = "speech"
    /\ Goto(t, "prefill")
    /\ UNCHANGED flags

\* A model without a tokenizer and a batch size are refused before a flag is
\* touched, and so is a speech call without speech models or with a voice
\* sample that cannot be read.
Reject(t) ==
    /\ worker[t].pc = "spawned"
    /\ Accepts(worker[t]) => worker[t].kind = "speech"
    /\ Goto(t, "rejected")
    /\ UNCHANGED flags

\* chat and chat_batch look at the stop signal before they evaluate a token,
\* gen_completion and gen_completion_batch after it, the speech calls never.
Prefilled(t) ==
    /\ worker[t].pc = "prefill"
    /\ Goto(t, IF worker[t].kind \in ChatKinds THEN "check" ELSE "eval")
    /\ UNCHANGED flags

\* Slip: a failed evaluation just returns.
EvalFailsSilently(t) ==
    /\ worker[t].pc \in {"prefill", "eval"}
    /\ worker[t].kind # "speech"
    /\ Goto(t, "none")
    /\ UNCHANGED flags

\* A failed evaluation lowers is_generating and returns: stop_signal stays.
EvalFails(t) ==
    /\ worker[t].pc \in {"prefill", "eval"}
    /\ worker[t].kind # "speech"
    /\ isGen' = [isGen EXCEPT ![worker[t].model] = FALSE]
    /\ Goto(t, "none")
    /\ UNCHANGED <<registry, stop>>

\* The inner thread of a speech call sets generation_finished and returns; the
\* call goes on with what has been said so far.
SpeechFails(t) ==
    /\ worker[t].pc \in {"prefill", "eval"}
    /\ worker[t].kind = "speech"
    /\ Goto(t, "finish")
    /\ UNCHANGED flags

\* Slip: the stop signal is not looked at.
GoOnAnyway(t) ==
    /\ worker[t].pc = "check"
    /\ worker[t].done < RuntimeLimit(worker[t])
    /\ Goto(t, "eval")
    /\ UNCHANGED flags

GoOn(t) ==
    /\ worker[t].pc = "check"
    /\ stop[worker[t].model] => worker[t].kind = "speech"
    /\ worker[t].done < RuntimeLimit(worker[t])
    /\ Goto(t, "eval")
    /\ UNCHANGED flags

\* The stop signal is up, a stop code was found or the limit is reached.
LeaveLoop(t) ==
    /\ worker[t].pc = "check"
    /\ Goto(t, "finish")
    /\ UNCHANGED flags

EvalToken(t) ==
    /\ worker[t].pc = "eval"
    /\ worker' = [worker EXCEPT ![t].pc = "check", ![t].done = @ + 1,
                    ![t].late = IF worker[t].asked THEN @ + 1 ELSE @]
    /\ UNCHANGED <<flags, waits>>

ClearGenerating(t) ==
    /\ worker[t].pc = "finish"
    /\ isGen' = [isGen EXCEPT ![worker[t].model] = FALSE]
    /\ Goto(t, IF worker[t].kind = "speech" THEN "none" ELSE "clear_stop")
    /\ UNCHANGED <<registry, stop>>

\* The stop that was meant for a later call of the model is lost.
Unheard(w, m) == [w EXCEPT !.undone = @ \/ (w.asked /\ w.model = m)]

ClearStop(t) ==
    /\ worker[t].pc = "clear_stop"
    /\ LET m == worker[t].model
           next == IF worker[t].kind \in ChatKinds THEN "cleanup" ELSE "none" IN
       /\ stop' = [stop EXCEPT ![m] = FALSE]
       /\ worker' = [u \in Threads |-> IF u = t THEN At(worker[t], next)
                                       ELSE Unheard(worker[u], m)]
    /\ UNCHANGED <<registry, isGen, waits>>

\* cleanup_state_tree walks and prunes the tree of the model.
CleanupTree(t) ==
    /\ worker[t].pc = "cleanup"
    /\ Goto(t, "none")
    /\ UNCHANGED flags

WorkerStep(t) ==
    \/ Enter(t)
    \/ EnterSpeech(t)
    \/ Reject(t)
    \/ Prefilled(t)
    \/ EvalFails(t)
    \/ SpeechFails(t)
    \/ GoOn(t)
    \/ LeaveLoop(t)
    \/ EvalToken(t)
    \/ ClearGenerating(t)
    \/ ClearStop(t)
    \/ CleanupTree(t)

Next ==
    \/ LoadModel
    \/ \E m \in ModelIds : ReleaseModel(m) \/ StopGeneration(m)
    \/ \E t \in Threads, m \in ModelIds, k \in Kinds, b \in BatchSizes, n \in TokenLimits :
         StartAsync(t, m, k, b, n)
    \/ \E t \in Threads : WorkerStep(t)

Spec == Init /\ [][Next]_vars

\* A thread that can run is scheduled in the end; nothing is asked of clients.
FairSpec == Spec /\ \A t \in Threads : WF_vars(WorkerStep(t))

-----------------------------------------------------------------------------
(* Properties. *)

\* Flags, registry and threads have their types, and the ids given out are
\* the ones below _next_model_id.
TypeOK ==
    /\ nextId \in 0 .. MaxModels
    /\ loaded \cup wordless \subseteq 0 .. nextId - 1
    /\ isGen \in [ModelIds -> BOOLEAN]
    /\ stop \in [ModelIds -> BOOLEAN]
    /\ worker \in [Threads -> Worker]
    /\ waits \in {"flag", "thread"}
    /\ \A t \in Threads : worker[t].pc # "none" => worker[t].model \in ModelIds

\* A thread from its start to the end of its last use of the backend.
Evaluating(t, m) ==
    worker[t].model = m
      /\ worker[t].pc \in {"spawned", "prefill", "check", "eval", "finish"}

\* What polling does protect: a model some thread evaluates on is loaded and
\* flagged, and no second thread evaluates on it (c_api.cpp:77, 113, 176, 207
\* against runtime.cpp:900, 1240, 2169 and 2231).
EvaluationIsFlagged ==
    \A t \in Threads, m \in ModelIds :
        Evaluating(t, m) =>
            /\ isGen[m] /\ m \in loaded
            /\ \A u \in Threads : Evaluating(u, m) => u = t

\* What "Waiting for generation to finish..." says of the polling loop
\* (examples/test_model_reloading.cpp:59-65): once is_generating is false, no
\* thread works on the model any more.
FinishedWhenPolled ==
    \A t \in Threads, m \in ModelIds : Running(t, m) => isGen[m]

\* A stop that comes after a call has reset the flag lets at most one more
\* token be evaluated (runtime.cpp:853, 1181, 2160, 2224), however clients wait,
\* unless an earlier call of the model, which had lowered is_generating but not
\* yet stop_signal, lowers the signal behind it (901, 1241, 2170, 2232).  A
\* client that waits for the thread never loses a stop in this way.  The speech
\* calls never look at it.
StopHonoured ==
    \A t \in Threads : worker[t].kind # "speech" =>
        /\ worker[t].late <= 1 \/ worker[t].undone
        /\ worker[t].undone => waits = "flag"

\* A thread whose call was refused on the thread.
RefusedOn(m) == \E t \in Threads : worker[t].model = m /\ worker[t].pc = "rejected"

\* Polling is_generating comes to an end, whatever fails on the way, unless the
\* call was refused before the runtime took over the flag (runtime.cpp:671, 913,
\* 926, 2067, 2081, 2180, 1642 and 1667 return with it raised).
Terminates == \A m \in ModelIds : isGen[m] ~> (~ isGen[m] \/ RefusedOn(m))

=============================================================================
