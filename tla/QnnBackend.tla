----------------------------- MODULE QnnBackend -----------------------------
(***************************************************************************)
(* The QNN backend (src/src/backends/qnn/qnn_backend.cpp).                 *)
(*                                                                         *)
(* The model is cut into graphs, which are executed one after the other;   *)
(* each keeps the state of its own layers.  There are graphs for one token *)
(* (decode), for PrefillLength tokens (prefill), for embeddings instead of *)
(* tokens, and for batches of 2, 4, 6 or 8 tokens.  All of them work on    *)
(* the same state tensors, which have one part for each slot: the batch of *)
(* size b on the first b, the others on slot 0.                            *)
(*                                                                         *)
(* The state of a layer is the sequence of tokens its graph has read.  A   *)
(* call is one step: graphExecute runs under the mutex.                    *)
(***************************************************************************)
EXTENDS Integers, Sequences, FiniteSets

CONSTANTS
    Tokens,
    Inputs,          \* the rows of tokens that are evaluated
    Raw,             \* the state that a state file holds
    Lost, NoState,   \* as in Backend
    Graphs,          \* graphs the model is cut into
    PrefillLength,   \* prefillSequenceLength, 0 without prefill graphs
    EmbdLength,      \* embdPrefillSequenceLength, 0 without such graphs
    BatchGraphs,     \* sizes of the batch decode graphs
    MaxCalls         \* bound: calls in one run

ASSUME QnnAssumption ==
    /\ Inputs \subseteq Seq(Tokens) \ {<< >>}
    /\ Raw \notin Tokens
    /\ Lost \notin Seq(Tokens \cup {Raw})
    /\ NoState \notin [1 .. Graphs -> Seq(Tokens \cup {Raw})]
    /\ NoState \notin Seq(Tokens \cup {Raw}) \cup {Lost}
    /\ Graphs \in Nat \ {0}
    /\ PrefillLength \in Nat /\ EmbdLength \in Nat
    /\ BatchGraphs \subseteq {2, 4, 6, 8}
    /\ MaxCalls \in Nat

\* The graph for a batch of n, and the sizes that load_model then supports.
Even(n) == n + (n % 2)
SupportedSizes == {1} \cup {n \in 2 .. 8 : Even(n) \in BatchGraphs}
SlotCount == CHOOSE n \in SupportedSizes : \A k \in SupportedSizes : k <= n
Slots == 0 .. SlotCount - 1

VARIABLES
    layers,      \* state tensors: for each slot, what each graph has read
    inputs,      \* token_input of the batch graphs
    held,        \* the state that the runtime got last
    logits,      \* logits_buffer: for each row, the layers it was computed by
    external,    \* tokenInputTensor is null: embeddings are looked up outside
    result,      \* the last call returned success
    failed,      \* history: a call has returned an error
    hidden,      \* history: success was returned though the graphs of a
                 \* prefill had not all read the chunk that failed
    calls        \* calls made

vars == <<layers, inputs, held, logits, external, result, failed, hidden, calls>>

Empty == [g \in 1 .. Graphs |-> << >>]

Init ==
    /\ layers = [s \in Slots |-> Empty]
    /\ \E t \in Tokens : inputs = [b \in BatchGraphs |-> [s \in 0 .. b - 1 |-> t]]
    /\ held = NoState
    /\ logits = << >>
    /\ external \in BOOLEAN
    /\ result = TRUE
    /\ failed = FALSE
    /\ hidden = "never"
    /\ calls = 0

\* The outcome of a call that returns ok.
Outcome(ok, hides) ==
    /\ calls' = calls + 1
    /\ result' = ok
    /\ failed' = (failed \/ ~ ok)
    /\ hidden' = IF hides THEN "now" ELSE IF hidden = "never" THEN "never" ELSE "earlier"

Returns(ok) == Outcome(ok, FALSE)

-----------------------------------------------------------------------------
(* Evaluation. *)

\* The layers of a slot after the first k graphs have read ids.
Run(layer, ids, k) ==
    [g \in 1 .. Graphs |-> IF g <= k THEN layer[g] \o ids ELSE layer[g]]

First(ids, n) == SubSeq(ids, 1, n)
From(ids, n) == SubSeq(ids, n + 1, Len(ids))

\* The prefills that ids fill.
Chunks(ids, length) == IF length = 0 THEN 0 ELSE Len(ids) \div length

\* The prefill graphs are run on as many tokens as fill them; where one of them
\* fails, the graphs before it have read that chunk too.
PrefillRuns(layer, ids, length) ==
    {[layer |-> Run(layer, First(ids, length * Chunks(ids, length)), Graphs),
      read |-> length * Chunks(ids, length), ok |-> TRUE, skewed |-> FALSE]}
    \cup
    {[layer |-> Run(Run(layer, First(ids, length * m), Graphs),
                    SubSeq(ids, length * m + 1, length * m + length), k - 1),
      read |-> length * m, ok |-> FALSE, skewed |-> k > 1] :
        m \in 0 .. Chunks(ids, length) - 1, k \in 1 .. Graphs}

\* Slip: the result of a decode graph is not looked at.
DecodeUnchecked(layer, ids, stages) ==
    {[layer |-> Run(layer, ids, Graphs), read |-> Len(ids), ok |-> TRUE]}
    \cup
    {[layer |-> Run(Run(layer, First(ids, n), Graphs), <<ids[n + 1]>>, k - 1),
      read |-> n, ok |-> TRUE] : n \in 0 .. Len(ids) - 1, k \in 1 .. stages}

\* The decode graphs are run on one token after the other; any of the stages of
\* a token may fail: the graphs and, where eval is called for each token, the
\* copy of its logits.
DecodeRuns(layer, ids, stages) ==
    {[layer |-> Run(layer, ids, Graphs), read |-> Len(ids), ok |-> TRUE]}
    \cup
    {[layer |-> Run(Run(layer, First(ids, n), Graphs), <<ids[n + 1]>>, k - 1),
      read |-> n, ok |-> FALSE] : n \in 0 .. Len(ids) - 1, k \in 1 .. stages}

\* Slip: after a failed prefill the decode graphs go on behind its chunk.
SkipFailed(ids, prefill) ==
    From(ids, IF prefill.ok THEN prefill.read ELSE prefill.read + PrefillLength)

\* The tokens that are left to the decode graphs.
Left(ids, prefill) == From(ids, prefill.read)

\* Without prefill graphs eval is called for each token, and copies its logits.
Stages == IF PrefillLength = 0 THEN Graphs + 1 ELSE Graphs

\* The logits that were copied before the token behind the first n failed.
Copied(ids, n) ==
    IF PrefillLength = 0 /\ n > 0 THEN <<Run(layers[0], First(ids, n), Graphs)>> ELSE logits

\* eval: when a prefill fails the decode graphs take over.  The copy of the
\* logits may fail behind them (post_graph_execute).
EvalTokens(ids) ==
    /\ ~ external
    /\ \E prefill \in PrefillRuns(layers[0], ids, PrefillLength) :
         \E decode \in DecodeRuns(prefill.layer, Left(ids, prefill), Stages) :
           /\ layers' = [layers EXCEPT ![0] = decode.layer]
           /\ \/ decode.ok /\ logits' = <<decode.layer>> /\ Outcome(TRUE, prefill.skewed)
              \/ /\ logits' = Copied(ids, IF decode.ok THEN Len(ids) - 1 ELSE decode.read)
                 /\ Returns(FALSE)
    /\ UNCHANGED <<inputs, held, external>>

\* eval without a token input and eval_with_embeddings.
EvalEmbeddings(ids) ==
    /\ external => EmbdLength > 0
    /\ \E prefill \in PrefillRuns(layers[0], ids, EmbdLength) :
         \/ /\ ~ prefill.ok
            /\ layers' = [layers EXCEPT ![0] = prefill.layer]
            /\ Returns(FALSE)
            /\ UNCHANGED logits
         \/ /\ prefill.ok
            /\ \E decode \in DecodeRuns(prefill.layer, Left(ids, prefill), Graphs) :
                 /\ layers' = [layers EXCEPT ![0] = decode.layer]
                 /\ \/ decode.ok /\ logits' = <<decode.layer>> /\ Returns(TRUE)
                    \/ UNCHANGED logits /\ Returns(FALSE)
    /\ UNCHANGED <<inputs, held, external>>

\* The size of the graph that runs a batch of n.
GraphSize(n) == Even(n)

\* eval_batch: a batch of odd size leaves the last token input as it was, and
\* the graph reads that too.  After the graphs the copy of the logits may fail.
EvalBatch(row) ==
    /\ Len(row) \in SupportedSizes
    /\ LET size == GraphSize(Len(row)) IN
         IF size \notin BatchGraphs
         THEN Returns(FALSE) /\ UNCHANGED <<layers, inputs, logits>>
         ELSE /\ inputs' = [inputs EXCEPT ![size] =
                              [s \in 0 .. size - 1 |->
                                 IF s < Len(row) THEN row[s + 1] ELSE @[s]]]
              /\ \E k \in 0 .. Graphs, copied \in BOOLEAN :
                   /\ copied => k = Graphs
                   /\ layers' = [s \in Slots |->
                                   IF s < size THEN Run(layers[s], <<inputs'[size][s]>>, k)
                                   ELSE layers[s]]
                   /\ logits' = IF copied
                                THEN [b \in 1 .. Len(row) |-> layers'[b - 1]]
                                ELSE logits
                   /\ Returns(copied)
    /\ UNCHANGED <<held, external>>

-----------------------------------------------------------------------------
(* States. *)

\* Slip: the state of the first graph only.
GetFirstState(s) ==
    /\ held' = layers[s][1]
    /\ Returns(TRUE)
    /\ UNCHANGED <<layers, inputs, logits, external>>

GetState(s) ==
    /\ held' = layers[s]
    /\ Returns(TRUE)
    /\ UNCHANGED <<layers, inputs, logits, external>>

SetState(s) ==
    /\ layers' = IF held = NoState THEN layers ELSE [layers EXCEPT ![s] = held]
    /\ Returns(TRUE)
    /\ UNCHANGED <<inputs, held, logits, external>>

ZeroState(s) ==
    /\ layers' = [layers EXCEPT ![s] = Empty]
    /\ Returns(TRUE)
    /\ UNCHANGED <<inputs, held, logits, external>>

\* A file for a model with another number of layers only zeroes the state.
LoadRawStates ==
    /\ \E ok \in BOOLEAN :
         /\ layers' = [layers EXCEPT ![0] = [g \in 1 .. Graphs |->
                                               IF ok THEN <<Raw>> ELSE << >>]]
         /\ Returns(ok)
    /\ UNCHANGED <<inputs, held, logits, external>>

Next ==
    /\ calls < MaxCalls
    /\ \/ \E ids \in Inputs : EvalTokens(ids) \/ EvalEmbeddings(ids) \/ EvalBatch(ids)
       \/ \E s \in Slots : GetState(s) \/ SetState(s) \/ ZeroState(s)
       \/ LoadRawStates

Spec == Init /\ [][Next]_vars

-----------------------------------------------------------------------------
(* Properties. *)

State == [1 .. Graphs -> Seq(Tokens \cup {Raw})]

\* Types of the tensors, of the buffers and of what the runtime holds.
TypeOK ==
    /\ layers \in [Slots -> State]
    /\ DOMAIN inputs = BatchGraphs
    /\ \A b \in BatchGraphs : inputs[b] \in [0 .. b - 1 -> Tokens]
    /\ held \in State \cup {NoState}
    /\ logits \in Seq(State)
    /\ external \in BOOLEAN /\ result \in BOOLEAN /\ failed \in BOOLEAN
    /\ hidden \in {"never", "now", "earlier"}
    /\ calls \in Nat

InStep(state) == \A g \in 1 .. Graphs : state[g] = state[1]

\* As long as every call has returned success, all graphs of the model have read
\* the same tokens in every slot, unless a prefill failed behind its first graph
\* and the decode graphs hid it (qnn_backend.cpp:2269-2306).
LayersInStep ==
    ~ failed /\ hidden = "never" => \A s \in Slots : InStep(layers[s])

\* What "falling back to decode mode" says of a prefill that fails
\* (qnn_backend.cpp:2272): the result of eval is then as good as without it.
FallbackInStep == ~ failed => \A s \in Slots : InStep(layers[s])

\* The state of a slot as the runtime sees it.
Seen(state) ==
    IF state = NoState THEN NoState ELSE IF InStep(state) THEN state[1] ELSE Lost

B == INSTANCE Backend WITH
        slots <- [s \in Slots |-> Seen(layers[s])],
        held  <- Seen(held),
        shown <- [b \in DOMAIN logits |-> Seen(logits[b])],
        ok    <- result

\* The backend does what the runtime expects of an execution_provider, with one
\* exception: an eval that hides a failed prefill returns success though the
\* state is lost.
Implements ==
    B!Init /\ [][B!Next \/ (hidden' = "now" /\ B!EvalLosesState)]_(B!vars)

=============================================================================
