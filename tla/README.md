# TLA+ verification of rwkv-mobicog

rwkv-mobicog is a C++ runtime for RWKV language models on phones. Clients use a
C API; behind it, a runtime holds loaded models and runs chats, completions and
speech synthesis on one of several inference backends. RWKV is a recurrent
network, so "what the model has read" is a state of fixed size. The runtime
keeps a tree of such states (the prefix cache), so that a conversation that goes
on does not have to be read again. Line numbers below refer to the files under
`src/src/` unless another path is given.

## Inventory

| part | state | operations | hard because |
|---|---|---|---|
| prefix cache (`backend.cpp`, `backend.h`) | tree of `state_node`: ids, state, logits, use count, constant flag | `match_and_load_state`, `register_state_checkpoint(_with_state)`, `register_batch_state_checkpoint`, `cleanup_state_tree` | the tree lives through any sequence of calls; a wrong pairing of ids and state shows up much later as a wrong answer |
| chat and prompts (`runtime.cpp`) | the live state in the backend, `model->prompt`, local variables of a call | `chat`, `set_prompt`, `set_audio_prompt`, `load_initial_state`, `unload_initial_state`, `clear_state`, `eval_logits` | rewinding, logits from the cache, text cut and encoded again, evaluations that fail half way |
| batched chat (`runtime.cpp`) | batch slots of the backend, one set of vectors per call | `chat_batch` | requests end in different rounds, slots are compacted while states, tokens, logits and the mapping must stay in step |
| asynchronous calls (`c_api.cpp`) | `is_generating`, `stop_signal` per model, detached threads | `..._async`, `stop_generation`, `is_generating`, `load_model`, `release_model` | unsynchronised flags are the only means by which client and thread agree |
| completion (`runtime.cpp`) | slots, responses, occurrence counts, a static variable | `gen_completion`, `gen_completion_batch` | the static token is shared by calls on all models; prompts are read in one slot and handed over |
| prefill progress (`runtime.cpp`, `runtime.h`) | total and finished tokens, for the whole runtime | start, update, finish | shared by threads of different models |
| speech synthesis (`runtime.cpp`, `multimodal/tts`) | output tokens, stream buffer, speaker tokens | `run_spark_tts..._streaming` | two threads share a vector and a flag without a lock; chunks overlap |
| QNN backend (`backends/qnn/qnn_backend.cpp`) | state tensors per layer and slot, token inputs, logits | `eval`, `eval_with_embeddings`, `eval_batch`, get, set and zero state, `load_raw_states` | a model is several graphs run one after the other, any of which may fail; several kinds of graphs work on one state |
| tokenizer (`tokenizer.cpp`, `trie.hpp`) | trie, mapping of ids to bytes | load, encode, decode | the walk overshoots; duplicates in the vocabulary, bytes without an entry |
| sampler (`sampler.cpp`) | occurrence counts, parameters | penalties, sampling | penalties are written into logits that the cache owns |
| rmpack (`rmpack.cpp`), logger (`logger.h`), embedding (`embedding/`) | file index, ring of messages, model handles | read, log, embed | ring boundary |
| other backends (`backends/*`) | engine handles | `eval`, `get_state`, `set_state`, batch slots | adapters to external engines |

How they interact: the C API calls the runtime, for generation from a detached
thread. The runtime calls the backend, which owns both the live state and the
prefix cache. `chat` matches the encoded conversation in the tree, loads the
state of the node it ends at, evaluates the rest chunk by chunk and registers a
node after each chunk, samples and evaluates the answer token by token,
registers the answer, and prunes the tree. Client and thread share only
`is_generating`, `stop_signal` and the response buffers. A streaming speech call
starts two more threads, one for the language model and one for the sound.

What makes the parts correct: a node's state is the state for its ids; a chat
has read its whole text once when it starts to answer, and samples from the
logits of what it has read; pruning removes only what is not used; a request in
a batch is never given the state or the token of another; no model is used by
two threads or after its release; a client that polls comes to an end, and a
stop is honoured; speech is heard in order, whole and once; all layers of a
model have read the same tokens; decoding undoes encoding.

## Modules

| module | models | relation to the others |
|---|---|---|
| StateCache | `state_node` and the functions on the tree | extended by Chat and ChatBatch |
| Conversation | what chat promises to a client | abstract |
| Chat | one model with all calls that use the cache | implements Conversation; detailed side of a chat thread of Generation |
| ChatBatch | `chat_batch` | on the same tree |
| Generation | flags, threads, clients, models | its phases are what Chat, Completion and SpeechStream compute |
| Completion | both completions on several models, progress counters | |
| Speech | what a streaming speech call promises | abstract |
| SpeechStream | the streaming speech calls | implements Speech |
| Backend | what the runtime takes an `execution_provider` to be | abstract; the interface on which Chat, ChatBatch and Completion stand |
| QnnBackend | the QNN backend | implements Backend |
| Tokenizer | vocabulary, trie, encode, decode | Chat takes a tokenizer as a parameter |

`...Proofs` hold the theorems, `MC...` the parameters for TLC. Definitions that
begin with "Slip" in their comment are plausible mistakes in the definition
after them; each makes the property it is listed with fail.

**StateCache** is the tree as a function from node numbers to records, with
operators for what the functions of `backend.cpp` do to it. Children of a node
in vector order are its children in increasing number, because vectors only
grow at the back and erasing keeps the order. `anc` is the set of owners, so
that erasing a child is one set expression. A backend state is abstracted to
the history it is a function of: a sequence of events, each a token fed as text
or a tag whose file content was fed in its place. Two states are equal when the
histories are. Logits are named by the history they are the output of.

**Chat** is one model with the calls that use the cache. One action is one step
of the descent, one chunk of the prefill, one token of the answer, the
registration, the cleanup; every evaluation may fail, and then the call returns
with part of its input in the live state. `DecodeBreak` stands for the four ways
to leave the loop (limit, token 0, stop code, stop signal). The chat template
and the tokenizer are the parameters `ChatIds` and `Reencode`; the model is of a
build with vision and audio. Calls on one model come one after the other, as in
all clients of the repository; two overlapping calls on one model are excluded
by `EvaluationIsFlagged` of module Generation, except for the cleanup (see
`FinishedWhenPolled`). `LoadInitialState` stores what is live under the tag
whether the backend could load the file or not, because the code does not look
at the result of `load_raw_states` (`runtime.cpp:384`): the live state is then
the one before the call (`backend.h:67`), a zero state (QNN), or a zero state and
a token (llama.cpp). Two history variables say what went wrong: `collided`, the
duplicate test of `register_state_checkpoint_with_state` returned a node below a
node other than the root, or one whose state is not the one just computed;
`misloaded`, the tags that were stored although their load failed. The
properties of the cache are stated for everything that is not below such a tag.

**Conversation** is a model without a cache: a client asks, the model reads the
chat, answers token by token and reads its own answer. The mapping in Chat takes
what the model has read from the live state, as token ids, while the call
answers; the prefill, prompts, cleanups and all that happens to the tree are
hidden. `basis` is the text whose logits the next token is sampled from; for the
first token it may be what was saved with a node. A collision or a failed load is
`Misplace`, after which nothing is promised. Token ids do not tell whether the tag of an initial
state was read as text or as its file; that is what `ContinuesParent` is about.

**ChatBatch** is `chat_batch`: requests are matched and prefilled one by one in
slot 1, put into slots, and advance together. The backend is one of a set of
backends that differ in their batch sizes. `active` is the mapping between slots
and requests, `base` a history. `logits` are the rows that the one logits pointer
of the call points at, named by what they were computed after, and `cached` is
the node it points into when a request was cached in full. A compaction moves the
rows with the states and writes them back in place (`runtime.cpp:1140`), so a node
the pointer points into gets other logits; rows behind those evaluated last are
`NoLogits`. Any request may end in any round, whatever `set_eos_token` made of the
stop codes; `clash` marks requests that a rewind token ended. The spare slot that
an odd batch makes a backend read is left out, as slots behind the batch in use
are never read again.

**Generation** is the C API's asynchronous calls on several models: a client
that starts, stops, polls, releases and loads, and threads reduced to their
phases and to the flags they write. `waits`, chosen at the start, is what
clients wait for before they go on: the flag, as the examples do, or the end of
the thread. `wordless` are the models loaded with an empty tokenizer path
(`runtime.cpp:203`), on which every chat and completion is refused. `asked`, `late`
and `undone` are histories of a thread: it was told to stop, it has evaluated
tokens since, and another thread of its model has lowered the signal again. The
speech calls leave the flags to the C API when they begin, never look at
`stop_signal` and never reset it.

**Completion** has one thread per model. Sampling, the test for the end token,
appending, evaluating, reporting and counting are separate actions, because each
of them reads the static variable `idx` anew and another thread may write it in
between (`crossed`). `gen_completion_batch` reads its prompts one after the
other in the first slot, keeps the states, and hands them to their slots after
the last. The progress counters are those of the whole runtime; `overlapped`
says that two prefills were under way at once. `counted` is the sampler's table of
occurrences as the sequence of tokens that were counted, each with the number of
times that `apply_penalties` has multiplied it by `penalty_decay` since, so that a
count of the code is the sum of `penalty_decay ^ decays` over its token; `Penalised`
are the models whose three penalties are positive, the others never decay. Batches
keep counts of their own, which end with the call and are left out. An empty prompt
evaluates nothing and the result of `eval_logits` is then whatever was on the stack
(`runtime.cpp:433`): the call may return an error, go on with the logits of the
prompt before it, or, at the first prompt, return at once and report success.

**SpeechStream** has three threads: the call, the language model and the voice.
`output_tokens` is a vector that one thread appends to while another copies from
it: `room` is its capacity, and a copy that began before the array was replaced
may read memory that was given back. `generation_finished` is a plain `bool`, so
the end of the vector may be seen late. Both are outcomes of the model, recorded
in `raced`. The sound of a token is the token. `speaker` and `prompts` follow
whether the speaker's tokens have their offset added zero, one or two times.

**QnnBackend** keeps for every slot what each graph of the model has read. A
call is one step with all its outcomes: for each chunk and each graph that it
may fail there, and after the graphs in the copy of the logits
(`post_graph_execute`, `copy_qnn_tensor_to_float`), when everything has been read
and the caller sees an error. An odd batch runs the graph of the next even size, whose last
input is whatever a former batch left there. The refinement mapping shows a slot
as the tokens its layers agree on, and as `Lost` where they do not. Backend
allows `Lost` only in calls that return an error, and such a call may also have
read all or part of its tokens. `hidden` is a history: an `eval` returned success
though a prefill graph behind the first had failed (`qnn_backend.cpp:2271`).

**Tokenizer** is the vocabulary built line by line, the trie as a function from
paths to sets of ids, and one action per step of the walk.

## Runs

| run | what it asks | result | distinct states |
|---|---|---|---|
| cache | three conversations, one a continuation of another with a rewind token, pruning with small counts | holds | 2.3 million |
| files | text and audio prompts, images, an initial state that is also a prompt text, a token that is split when the text is cut, failing evaluations and loads; Chat implements Conversation | holds | 1.7 million |
| collision | is every node coherent without the proviso `~ collided`? | no: `backend.cpp:41` | |
| batch | up to three requests on backends with sizes 1, 2, 3 and 1, 3, rewinds, any stop codes, reasoning mode or not | holds | 1.8 million |
| batch_cut | are requests that were cut off saved with their state? | no: `runtime.cpp:1217` | |
| flags | two threads, two models, clients of both kinds, models without a tokenizer, batched and refused calls, speech | holds | 1.1 million |
| polled | is the thread done when the flag is down? | no: `runtime.cpp:900` | |
| speech | two calls of up to two texts, chunks of 3 and then 2 tokens that overlap by one, all modes, failures, races | holds | 28,600 |
| qnn | two graphs, prefills of 2 and embeddings of 3, batch graphs, every failure | holds | 1.2 million |
| fallback | are the layers in step after every call that returned success? | no: `qnn_backend.cpp:2271` | |
| completion | two calls on two models, batches of two, chunks of two, failures, empty prompts | holds | 4.7 million |
| tokenizer | vocabularies with nested, missing and repeated tokens, texts up to four bytes | holds | 11,700 |

Bounds. `MaxNode` and `MaxCount` stop new calls once the tree is that large; the
call in progress always runs to its end. `MaxChunk` is 1 or 2 instead of 256, so
that texts of three to six tokens are cut. `MaxLength` of two tokens is
enough for an answer that is rewound, one that goes on after a rewind token, and
one cut off. `ActivationInit` and `ActivationConst` are small so that pruning
happens within the bound. `MaxLive` bounds bare evaluations between calls and what
a failed load leaves live. Two
or three tokens suffice because tokens matter only as text, assistant word,
rewind token or tag. Three requests are the fewest for which a batch can shrink
twice and a size can be missing. Two models and two threads are the fewest for
which releasing, loading and overlap can happen; `chat` is left out of the kinds
of the run flags because it takes the steps of an accepted batched chat. In
SpeechStream up to eight tokens give a first chunk, two later ones and a rest of
each length, and the capacity of the array goes through 1, 2, 4 and 8; two calls are needed
for what one leaves to the next. In Completion two calls are enough both for two
models at once and for one after the other; the two models are symmetric. In
QnnBackend three calls are enough for save, change and restore, and batches of
two sizes for a spare slot that was a request's. A backend without prefill graphs
(`PrefillLength = 0`, where `eval` is called for each token) is covered by the
theorems and not by a run. Deadlock is checked except in
the runs of QnnBackend and Completion, which stop when `MaxCalls` is reached.

Fairness. Only threads are fair, and only weakly: one that can take a step takes
one in the end, as the operating system schedules runnable threads. In
SpeechStream these are the call and its two threads, in Tokenizer the one that
encodes. Nothing is asked of the client, and no choice between outcomes (a
failing evaluation, a stop code) is assumed fair: the loops end because they are
bounded by the token limit or the length of the text.

## What the code does and no property claims

Exceptions in the properties stand for behaviour of the code that a reader
should know. Each was found as a counterexample to the property without it.

- `StopHonoured` counts stops from the moment the call has reset `stop_signal` on
  its thread. An earlier stop is overwritten (`runtime.cpp:676`). A client that
  only polls, as every client in the repository does, can have its stop undone by
  the thread before (`runtime.cpp:901`): that is `undone`, and `StopHonoured` shows
  that there is no other way to lose a stop and that clients which wait for the
  thread never do.
- `Terminates` and `CallEnds` except calls that are refused on their thread, for
  want of a tokenizer (`runtime.cpp:671`, `913`, `2067`, `2180`), for their batch
  size (`926`, `2081`) or as a speech call (`1642`, `1667`): they return with the
  flag that the C API raised, and a client that polls never sees it go down. One way to get
  there is `c_api.cpp:218`, where `batch_size` and `max_tokens` are exchanged, so
  that a supported batch is refused unless the two are equal.
- The descent takes the first child whose ids match (`backend.cpp:14`), which
  need not lead to the deepest node that matches. `PromptRead` shows that the
  rest is read all the same.
- `set_prompt` of a prompt that is cached in full returns before it assigns
  `model->prompt` (`runtime.cpp:1265`): after prompts A, B and A again, chats go on
  under B. A prompt that is cached in part is evaluated whole on the state of the
  part (`runtime.cpp:1273`) and registered under the part followed by the whole, which
  chats under that prompt do not begin with. In Conversation the first is a `SetPrompt` that does not happen;
  the second does not show.
- `load_initial_state` stores a state under its tag although the load has failed
  (`runtime.cpp:384`). Chats that begin with the tag then run on whatever was live.
  `CoherentUnlessCollided`, `ContinuesParent` and `PromptRead` except what is below
  such a tag, and `Implements` promises nothing after one.
- `chat_batch` has one `logits` pointer for all requests (`runtime.cpp:1000`). A
  request that is fully cached samples its first token from the logits of the
  request before it, and a node registered by a batch gets the row of its request
  number although rows are in slot order after a compaction (`backend.cpp:92`).
  While the pointer points into a node, a compaction in the first round reads rows
  behind the node's vector and overwrites the logits saved with it
  (`runtime.cpp:1141`); what writing several rows there does to the memory behind
  the vector is not modelled. All this is in ChatBatch, and `RowsFollowSlots` is
  about the rounds after the first.
- `register_batch_state_checkpoint` adds a duplicate all the same, because its
  `continue` belongs to the inner loop (`backend.cpp:81`).
- `FinishedCoherent` is stated for backends that have all batch sizes up to the
  largest, and without reasoning mode. Without the smaller size, an ended request
  is evaluated on and its state is taken again when token 0 is sampled in its
  slot; in reasoning mode a state saved for rewinding is not reset
  (`runtime.cpp:1083-1088`). It also excepts requests that a rewind token ended,
  which needs a stop code set by `set_eos_token`: the state from before the end
  token is then registered without the token before it, or `pop_back` is called on
  an empty response (`runtime.cpp:1226`). That another thread may change the stop
  codes while they are compared is not modelled.
- `SlotsFollowText` and `CountsFollowText` except completions during which
  another model's completion wrote the static `idx` (`runtime.cpp:2204`): the
  response then shows one token and the model reads or counts another.
  `SlotsFollowText` also excepts a call that ended at an empty first prompt, whose
  result is not initialised. `ProgressOfCall` excepts both that and overlapping
  prefills.
- In `gen_completion_batch` an ended slot is evaluated on and may take tokens into
  its response again, as `eos_found` is computed anew in each round
  (`runtime.cpp:2145`); end tokens are read and not shown.
- `OneSpeaker` is about what the language model reads; the detokenizer is given the
  speaker's tokens without the offset in one mode and with it in the others
  (`runtime.cpp:1750`, `2018`). It excepts the mode with voice properties: the tokens made for the
  first text are kept with their offset, and the second text adds it again
  (`runtime.cpp:1869`; compare the comment at `1984`).
- `DecodesBack` excepts vocabularies with the same bytes twice: `add_token` stores
  a token id where an index is expected (`trie.hpp:202`).
- `LayersInStep` and `Implements` of QnnBackend except an `eval` that hides a failed
  prefill graph behind the first (`hidden`); the run fallback shows it happen.

## What is proved

For all values of the constants that satisfy the assumptions named in the
modules (sets of sequences of tokens, natural bounds, a positive chunk size):

- `ChatProofs`: types, and the tree is a tree with the node of the call in it.
  `TreeShape` is inductive together with `TypeOK` and `CallShape` (what a call
  holds in each phase). The argument is a lemma for each way a tree changes: a
  count, a new child, a removed subtree, a cleanup (`StateCacheProofs`).
- `CoherentCorrect`, `ContinuesParentCorrect`: the inductive invariant adds
  `LiveHistory`: while a call evaluates, the live state is the state of its node
  and then the response, and the state saved for rewinding is that without the
  last token. A registration that does not collide then adds a node whose ids
  and state grow by the same tokens. The theorem says that the duplicate test and a
  failed load are the only ways to break the pairing of ids and states, and that
  the second stays below its tag: a node that is not below one was never computed
  from it.
- `HotPathCorrect`, `CleanupCorrect`: counts never grow from a node to its
  descendants. A descent breaks this between two steps only on its own path,
  which `HotDescent` makes precise. It follows that a node with a count left has
  no ancestor without one, so a cleanup never takes an active node with it.
- `LogitsOfNodeCorrect`, `SampledAfterHistoryCorrect`: `LogitsFollow` says where
  the logits pointer of a call leads in each phase (nowhere, to the output for the
  live state, or to the logits of the matched node), and that a state saved for
  rewinding lacks exactly one rewind token. So logits that are saved belong to the
  state saved with them or to that state and one rewind token. `LogitsOfNode` does
  not need the proviso on collisions: a collision pairs the wrong node with a
  call and leaves the pairs inside the nodes as they are.
- `PromptReadCorrect`: the invariant adds `PrefillReads`, during the prefill the
  text read and the text still to be read make up the chat. The start of a prefill
  needs that the matched node's ids are a prefix of the chat (`CallShape`) and that
  its state is the state for its ids (`CoherentUnlessCollided`); a chunk moves
  tokens from one side to the other (`ChunkRead`). How long the chunks are and where
  they are cut does not matter.
- `ImplementsCorrect` (Chat): each step of Chat is one of Conversation or changes
  nothing a client sees. The first token is `PromptInv` together with
  `SampledAfterHistory`; the later ones append the same token to the live state and
  to the answer; a step can only lose trust, by a collision or a failed load. No
  further invariant is needed: what the proof adds is that the phases fit together
  and that a call never ends with something of it left over for the next.
- `ChatBatchProofs`: types with the lengths of all vectors, for every set of backends.
  `CallShape` says how far the vectors are filled at each step, and that no two slots
  serve one request. `SlotsFollowRequestsCorrect` is inductive with the types: a
  compaction moves the states, the mapping and the tokens by the same permutation
  of slots. `RowsFollowSlotsCorrect` adds that it moves the rows of logits by it
  too. `EndTokenNotFedCorrect` adds `EndsDetected`: between the test and the
  next round, a request that has not ended did not sample token 0.
  `FinishedCoherentCorrect` adds `FinishedInTime`: ended requests leave the batch
  before the next round, so that their saved state is not taken again, and a state
  kept for rewinding is the one before the last token of the response.
- `CompletionProofs`: types, and the four properties of the run completion. A
  step of one model's thread leaves the calls of the others alone except for the
  static token and the progress counters, so each invariant speaks of one model.
  `SlotsFollowCall`: which slot has read what while a prompt is read and handed over.
  `LogitsFollow`: where the logits of a call come from. `OnePrefill`: two prefills
  are never under way unless `overlapped` says so. `CountsFollowCall`: a counted
  token is appended before and read before it is counted, and `idx` is still the
  token that was appended last unless the call is `crossed`. `CountsFollowText` is
  exact: the counts there were when the call began, then one for each generated
  token, each decayed once for every token drawn since.
- `GenerationProofs`: types and `EvaluationIsFlaggedCorrect`, for any number of threads and models, and
  clients of both kinds.
- `StopHonouredCorrect`: the invariant adds `Alone`, no two threads run code for
  one model, since a second one would lower the flag, and `Heard`: a stop that was
  asked for stays up while its thread can evaluate, unless it was undone, and the
  loop is not entered again under it. It holds for clients of both kinds; for those
  that wait, `Alone` leaves no thread that could undo a stop.
- `SpeechStreamProofs`: types, order, seams, completeness, the speaker, that
  nothing is taken back, and the refinement of Speech. The inductive invariant
  says, for each place of the voice thread, what has been taken, what the overlap
  holds and how far the sound has come; the other threads only add to the output.
- `QnnBackendProofs`: types, `LayersInStep` and the refinement of Backend, for any
  number of graphs and whichever fails. The lemmas say what `Run`, `PrefillRuns` and
  `DecodeRuns` do to layers in step: a run that succeeds leaves them in step behind
  all tokens; one that fails in the first graph leaves them in step before the
  chunk; one that fails later is an error, or hidden by the decode graphs.
- `TokenizerProofs`: types, decoding, the longest match, and what is dropped. The
  invariants say that the trie has exactly the prefixes of the lines read so far,
  with the ids of those lines at their ends; that `data_idx` leads to the bytes of
  an id; and that the walk has passed no longer token than the one it keeps.

The assumptions are the ones the code gives: tokens of a vocabulary, texts that
are sequences of them, batch sizes that are positive and have a largest one (a
vector of sizes is finite and not empty), positive chunks. The bounds of the runs
(`MaxNode`, `MaxCount`, `MaxLive`, `MaxCalls`) are parameters of the theorems as
well, so these hold for every bound.

Only model-checked: `Terminates`, `CallEnds` and `EncodeEnds`, as liveness is out
of the prover's reach, and the four runs that end in a counterexample. No theorem
says what `Reencode` returns: that the ids encoded again spell the text of the ids
that were cut is a property of the tokenizer (`DecodesBack`), and no module
composes the two. The invariants named above are checked by TLC on the instances
of the runs before they are proved; they are not listed as properties because they
say how the proof goes, not what the code is for.

## What is not modelled

- Inference, sampling, audio and vision: floating-point code, whose results enter
  the models as free choices or as events in a history.
- The loading of QNN contexts and tensor layouts, and the other backends: calls
  into vendor libraries. Backend is what the runtime asks of them.
- The OpenCog backend (`backends/opencog/`): its logits and states are
  trigonometric functions of ids. It is no implementation of Backend as it
  stands: `current_sequence` and `sequence_position` influence the logits and are
  neither saved nor restored with a state, `eval_batch` evaluates only the first
  row, and `set_state` of an empty state is an error.
- rmpack, converters, configuration, platform detection: sequential file I/O.
- The logger: a ring under one mutex that nothing reads back. Its start never
  advances, so after 1024 messages the log reads as empty (`logger.h:40`).
- Embedding and rerank keep nothing between calls.
- A detokenizer that returns no sound, for want of its model or of speaker tokens
  (`sparktts.cpp:231-245`): the first chunk is then silent, and with later ones the
  iterators of `runtime.cpp:1392` are out of range.
- Penalties and bans that the sampler writes into the logits saved with a node
  (`runtime.cpp:814`): logits are identified by the text they follow. Bans are
  applied only if all three penalties are positive (`sampler.cpp:150`).
- Memory that a caller frees while a thread still reads it: the prompts of
  `gen_completion_batch_async` (`c_api.cpp:211`) and the texts of the speech calls.
- Two calls that overlap on one model against the protocol of the examples.
- Vendored code (`json.hpp`, `half.hpp`, `stb_image.h`, whisper, clip, QNN headers).

## Plan

Done: prefix cache, chat and prompts, batched chat, status flags, completion and
progress, streaming speech against Speech, the QNN backend against Backend, the
tokenizer; theorems for every invariant, action property and refinement that a run
checks, and for Chat as an implementation of Conversation. Left: batched chats as
several conversations (ChatBatch names the rows of logits, but only those of the rounds after the
first follow the slots); Chat as an implementation of the phases of Generation; the
sampler's penalties on saved logits.
