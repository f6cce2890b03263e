----------------------------- MODULE Completion -----------------------------
(***************************************************************************)
(* gen_completion and gen_completion_batch (src/src/runtime.cpp) on        *)
(* several models, each called from a thread of its own.                   *)
(*                                                                         *)
(* The threads share two things: the token that gen_completion has sampled *)
(* last, which is a static variable, and the counters of the prefill       *)
(* progress, which the runtime keeps once for all models.  Everything else *)
(* belongs to a model: the slots of its backend, the response, the counts  *)
(* of its sampler.                                                         *)
(*                                                                         *)
(* A state is the sequence of tokens that a slot has read, logits are the  *)
(* state they were computed after.  Flags are modelled in Generation.      *)
(***************************************************************************)
EXTENDS Integers, Sequences

CONSTANTS
    Models,
    Penalised,     \* models whose three penalty parameters are positive
    Vocab,
    StopCode,      \* stop_code, a token
    Prompts,       \* encoded prompts
    ChunkSize,     \* _prefill_chunk_size
    BatchSizes,    \* supported_batch_sizes
    MaxLength,     \* max_length
    MaxCalls       \* bound: calls in one run

ASSUME CompletionAssumption ==
    /\ StopCode \in Vocab /\ Penalised \subseteq Models
    /\ Prompts \subseteq Seq(Vocab)
    /\ ChunkSize \in Nat \ {0}
    /\ BatchSizes \subseteq Nat \ {0} /\ 1 \in BatchSizes
    /\ \E n \in BatchSizes : \A k \in BatchSizes : k <= n
    /\ MaxLength \in Nat \ {0} /\ MaxCalls \in Nat

VARIABLES
    idx,         \* static int idx
    total,       \* _current_prefill_total_tokens
    finished,    \* _current_prefill_finished_tokens
    progress,    \* _prefill_progress: 0, 1 or a pair of tokens read and total
    slots,       \* for each model the states of its slots
    job,         \* for each model the call that runs on it
    text,        \* the ids of the responses, by slot
    counted,     \* _occurences of the model's sampler: each token counted, and how
                 \* often it was multiplied by penalty_decay since
    base,        \* history: the slots at the beginning of the call
    crossed,     \* history: another call has written idx while this one used it
    overlapped,  \* history: two prefills have been under way at once
    calls        \* calls made

shared == <<total, finished, progress, overlapped>>
vars == <<idx, shared, slots, job, text, counted, base, crossed, calls>>

SlotCount == CHOOSE n \in BatchSizes : \A k \in BatchSizes : k <= n
Slots == 1 .. SlotCount     \* slot s - 1 of the code

\* pc: where the thread is; kind: which of the two functions; row: the prompts;
\* at, pos: the prompt and the token in it that the prefill has reached;
\* saved: state_batch; logits: what each row of logits follows from;
\* picked: decoded_idx_batch, and after: what it was sampled after;
\* round: the loop counter; eos: eos_found; ok: the last call returned success;
\* known: history, what the sampler had counted when the call began.
NoJob ==
    [pc |-> "idle", kind |-> "one", row |-> << >>, at |-> 1, pos |-> 0, saved |-> << >>,
     logits |-> << >>, picked |-> << >>, after |-> << >>, round |-> 0, eos |-> FALSE,
     ok |-> TRUE, known |-> << >>]

Init ==
    /\ idx = StopCode
    /\ total = -1 /\ finished = 0 /\ progress = <<0, 1>>
    /\ slots = [m \in Models |-> [s \in Slots |-> << >>]]
    /\ job = [m \in Models |-> NoJob]
    /\ text = [m \in Models |-> << >>]
    /\ counted = [m \in Models |-> << >>]
    /\ base = slots
    /\ crossed = [m \in Models |-> FALSE]
    /\ overlapped = FALSE
    /\ calls = 0

At(m, pc) == job[m].pc = pc
Size(m) == Len(job[m].row)
Goto(m, pc) == job' = [job EXCEPT ![m].pc = pc]

\* The call returns; the client may start another one.
Return(m, ok) == job' = [job EXCEPT ![m].pc = "idle", ![m].ok = ok]

-----------------------------------------------------------------------------
(* The calls and their prefill. *)

\* What both functions do first.
Enter(m, new) ==
    /\ At(m, "idle")
    /\ calls < MaxCalls
    /\ calls' = calls + 1
    /\ job' = [job EXCEPT ![m] = [new EXCEPT !.known = counted[m]]]
    /\ base' = [base EXCEPT ![m] = slots[m]]
    /\ crossed' = [crossed EXCEPT ![m] = FALSE]

\* gen_completion.
Complete(m, ids) ==
    /\ Enter(m, [NoJob EXCEPT !.pc = "prompt", !.row = <<ids>>])
    /\ text' = [text EXCEPT ![m] = << << >> >>]
    /\ UNCHANGED <<idx, shared, slots, counted>>

\* gen_completion_batch, which takes the states of all its slots first.
CompleteBatch(m, row) ==
    /\ Len(row) \in BatchSizes
    /\ Enter(m, [NoJob EXCEPT !.pc = "prompt", !.kind = "batch", !.row = row,
                              !.saved  = [s \in 1 .. Len(row) |-> slots[m][s]],
                              !.picked = [s \in 1 .. Len(row) |-> StopCode],
                              !.after  = [s \in 1 .. Len(row) |-> << >>]])
    /\ text' = [text EXCEPT ![m] = [s \in 1 .. Len(row) |-> << >>]]
    /\ UNCHANGED <<idx, shared, slots, counted>>

Ids(m) == job[m].row[job[m].at]

\* Slip: the tokens of the last prefill are counted on.
ProgressRestart(n) == total' = n /\ progress' = <<0, 1>> /\ UNCHANGED finished

\* _prefill_progress_start
ProgressStart(n) == total' = n /\ finished' = 0 /\ progress' = <<0, 1>>

\* Slip: the position in the prompt before is kept.
BeginPromptAnywhere(m) ==
    /\ At(m, "prompt")
    /\ ProgressStart(Len(Ids(m)))
    /\ overlapped' = \E other \in Models \ {m} : At(other, "prefill")
    /\ slots' = IF job[m].kind = "one" THEN slots
                ELSE [slots EXCEPT ![m][1] = job[m].saved[job[m].at]]
    /\ Goto(m, "prefill")
    /\ UNCHANGED <<idx, text, counted, base, crossed, calls>>

\* The prefill of the next prompt begins; a batch does it in the first slot.
BeginPrompt(m) ==
    /\ At(m, "prompt")
    /\ ProgressStart(Len(Ids(m)))
    /\ overlapped' = \E other \in Models \ {m} : At(other, "prefill")
    /\ slots' = IF job[m].kind = "one" THEN slots
                ELSE [slots EXCEPT ![m][1] = job[m].saved[job[m].at]]
    /\ job' = [job EXCEPT ![m].pc = "prefill", ![m].pos = 0]
    /\ UNCHANGED <<idx, text, counted, base, crossed, calls>>

\* The update of the progress in eval_logits.
ProgressAdd(n) ==
    IF total > 0
    THEN finished' = finished + n /\ progress' = <<finished', total>> /\ UNCHANGED total
    ELSE UNCHANGED <<total, finished, progress>>

Piece(m) ==
    LET left == Len(Ids(m)) - job[m].pos IN IF left < ChunkSize THEN left ELSE ChunkSize

Tokens(m, n) == SubSeq(Ids(m), job[m].pos + 1, job[m].pos + n)

\* Slip: the logits of the first chunk are kept.
EvalChunkFirstLogits(m) ==
    /\ At(m, "prefill") /\ Piece(m) > 0
    /\ slots' = [slots EXCEPT ![m][1] = @ \o Tokens(m, Piece(m))]
    /\ job' = [job EXCEPT ![m].pos = @ + Piece(m),
                          ![m].logits = IF job[m].pos > 0 THEN @ ELSE <<slots'[m][1]>>]
    /\ ProgressAdd(Piece(m))
    /\ UNCHANGED <<idx, text, counted, base, crossed, overlapped, calls>>

\* One chunk of eval_logits.
EvalChunk(m) ==
    /\ At(m, "prefill") /\ Piece(m) > 0
    /\ slots' = [slots EXCEPT ![m][1] = @ \o Tokens(m, Piece(m))]
    /\ job' = [job EXCEPT ![m].pos = @ + Piece(m), ![m].logits = <<slots'[m][1]>>]
    /\ ProgressAdd(Piece(m))
    /\ UNCHANGED <<idx, text, counted, base, crossed, overlapped, calls>>

\* It fails: a last chunk that is not full is counted all the same.
EvalChunkFails(m) ==
    /\ At(m, "prefill") /\ Piece(m) > 0
    /\ \E n \in 0 .. Piece(m) : slots' = [slots EXCEPT ![m][1] = @ \o Tokens(m, n)]
    /\ IF Piece(m) = ChunkSize THEN UNCHANGED <<total, finished, progress>>
       ELSE ProgressAdd(Piece(m))
    /\ Return(m, FALSE)
    /\ UNCHANGED <<idx, text, counted, base, crossed, overlapped, calls>>

\* Without tokens eval_logits returns what its variable held before.  Anything
\* but 0 is an error; with 0 and still no logits, which only the first prompt
\* of a call can meet, the call ends as well and its caller sees success.
EmptyEnds(m) ==
    /\ At(m, "prefill") /\ Ids(m) = << >>
    /\ \/ Return(m, FALSE)
       \/ job[m].at = 1 /\ Return(m, TRUE)
    /\ UNCHANGED <<idx, shared, slots, text, counted, base, crossed, calls>>

\* _prefill_progress_finish
ProgressFinish == total' = -1 /\ progress' = <<1, 1>> /\ UNCHANGED finished

Prefilled(m) ==
    At(m, "prefill") /\ job[m].pos = Len(Ids(m)) /\ job[m].logits # << >>

\* gen_completion goes on to its loop.
PrefillDone(m) ==
    /\ Prefilled(m) /\ job[m].kind = "one"
    /\ ProgressFinish
    /\ text' = [text EXCEPT ![m][1] = Ids(m)]
    /\ Goto(m, "sample")
    /\ UNCHANGED <<idx, slots, counted, base, crossed, overlapped, calls>>

\* set_state_on_batch_slot for all requests.
HandedOver(m, saved) ==
    [slots EXCEPT ![m] = [s \in Slots |-> IF s <= Size(m) THEN saved[s] ELSE @[s]]]

\* gen_completion_batch saves the state, samples the first token and goes on to
\* the next prompt; after the last it hands the states to their slots.
PromptDone(m) ==
    /\ Prefilled(m) /\ job[m].kind = "batch"
    /\ ProgressFinish
    /\ LET b == job[m].at
           saved == [job[m].saved EXCEPT ![b] = slots[m][1]]
           last == b = Size(m)
       IN  /\ text' = [text EXCEPT ![m][b] = Ids(m)]
           /\ \E t \in Vocab :
                job' = [job EXCEPT ![m].pc = IF last THEN "round" ELSE "prompt",
                                   ![m].saved = saved, ![m].at = b + 1,
                                   ![m].picked[b] = t, ![m].after[b] = job[m].logits[1]]
           /\ slots' = IF last THEN HandedOver(m, saved) ELSE slots
    /\ UNCHANGED <<idx, counted, base, crossed, overlapped, calls>>

-----------------------------------------------------------------------------
(* The loop of gen_completion. *)

\* Where a call still reads idx.
UsesIdx == {"test", "append", "eval", "report", "count"}

\* How far n draws age a count.
Aged(m, n) == IF m \in Penalised THEN n ELSE 0

\* The sampler's apply_penalties: every count decays once, those of earlier calls
\* too.  (The logits it writes into are not read again.)
ApplyPenalties(m) ==
    [i \in DOMAIN counted[m] |-> [counted[m][i] EXCEPT !.decays = @ + Aged(m, 1)]]

Sample(m) ==
    /\ At(m, "sample") /\ job[m].round < MaxLength
    /\ counted' = [counted EXCEPT ![m] = ApplyPenalties(m)]
    /\ idx' \in Vocab
    /\ crossed' = [o \in Models |-> crossed[o] \/ (o # m /\ job[o].pc \in UsesIdx)]
    /\ Goto(m, "test")
    /\ UNCHANGED <<shared, slots, text, base, calls>>

TestEos(m) ==
    /\ At(m, "test")
    /\ job' = [job EXCEPT ![m].pc = "append", ![m].eos = (idx = StopCode)]
    /\ UNCHANGED <<idx, shared, slots, text, counted, base, crossed, calls>>

\* Slip: the end token is left out of the response, as in a batch.
AppendUnlessEos(m) ==
    /\ At(m, "append")
    /\ text' = IF job[m].eos THEN text ELSE [text EXCEPT ![m][1] = Append(@, idx)]
    /\ Goto(m, "eval")
    /\ UNCHANGED <<idx, shared, slots, counted, base, crossed, calls>>

AppendToken(m) ==
    /\ At(m, "append")
    /\ text' = [text EXCEPT ![m][1] = Append(@, idx)]
    /\ Goto(m, "eval")
    /\ UNCHANGED <<idx, shared, slots, counted, base, crossed, calls>>

EvalToken(m) ==
    /\ At(m, "eval")
    /\ slots' = [slots EXCEPT ![m][1] = Append(@, idx)]
    /\ job' = [job EXCEPT ![m].pc = "report", ![m].logits = <<slots'[m][1]>>]
    /\ UNCHANGED <<idx, shared, text, counted, base, crossed, calls>>

\* An error is returned, whether the slot has read the token or not.
EvalTokenFails(m) ==
    /\ At(m, "eval")
    /\ \/ UNCHANGED slots
       \/ slots' = [slots EXCEPT ![m][1] = Append(@, idx)]
    /\ Return(m, FALSE)
    /\ UNCHANGED <<idx, shared, text, counted, base, crossed, calls>>

\* The callback, and the end of the loop; stop_signal may be raised at any time.
Report(m) ==
    /\ At(m, "report")
    /\ \/ Return(m, TRUE)
       \/ ~ job[m].eos /\ Goto(m, "count")
    /\ UNCHANGED <<idx, shared, slots, text, counted, base, crossed, calls>>

\* Slip: a token that was counted before is not counted again.
CountOnce(m) ==
    /\ At(m, "count")
    /\ counted' = IF \E i \in 1 .. Len(counted[m]) : counted[m][i].token = idx THEN counted
                  ELSE [counted EXCEPT ![m] = Append(@, [token |-> idx, decays |-> 0])]
    /\ job' = [job EXCEPT ![m].pc = "sample", ![m].round = @ + 1]
    /\ UNCHANGED <<idx, shared, slots, text, base, crossed, calls>>

\* update_occurences; gen_completion never clears the counts.
Count(m) ==
    /\ At(m, "count")
    /\ counted' = [counted EXCEPT ![m] = Append(@, [token |-> idx, decays |-> 0])]
    /\ job' = [job EXCEPT ![m].pc = "sample", ![m].round = @ + 1]
    /\ UNCHANGED <<idx, shared, slots, text, base, crossed, calls>>

LoopEnds(m) ==
    /\ At(m, "sample") \/ At(m, "round")
    /\ job[m].round = MaxLength
    /\ Return(m, TRUE)
    /\ UNCHANGED <<idx, shared, slots, text, counted, base, crossed, calls>>

-----------------------------------------------------------------------------
(* The loop of gen_completion_batch. *)

\* The response takes the token unless it is the end token.
Taken(m) ==
    [s \in DOMAIN text[m] |-> IF job[m].picked[s] = StopCode THEN text[m][s]
                              ELSE Append(text[m][s], job[m].picked[s])]

\* The slots in S read the tokens picked for them.
Fed(m, S) ==
    [s \in Slots |-> IF s \in S THEN Append(slots[m][s], job[m].picked[s]) ELSE slots[m][s]]

\* One round: every slot reads its token, one that has ended too, and what is
\* eos_found for a slot in one round may not be so in the next.
Round(m) ==
    /\ At(m, "round") /\ job[m].round < MaxLength
    /\ text' = [text EXCEPT ![m] = Taken(m)]
    /\ slots' = [slots EXCEPT ![m] = Fed(m, 1 .. Size(m))]
    /\ \/ Return(m, TRUE)
       \/ /\ \E s \in 1 .. Size(m) : job[m].picked[s] # StopCode
          /\ \E picked \in [1 .. Size(m) -> Vocab] :
               job' = [job EXCEPT ![m].round = @ + 1,
                                  ![m].logits = [s \in 1 .. Size(m) |-> slots'[m][s]],
                                  ![m].picked = picked,
                                  ![m].after = [s \in 1 .. Size(m) |-> slots'[m][s]]]
    /\ UNCHANGED <<idx, shared, counted, base, crossed, calls>>

RoundFails(m) ==
    /\ At(m, "round") /\ job[m].round < MaxLength
    /\ text' = [text EXCEPT ![m] = Taken(m)]
    /\ \E S \in SUBSET (1 .. Size(m)) : slots' = [slots EXCEPT ![m] = Fed(m, S)]
    /\ Return(m, FALSE)
    /\ UNCHANGED <<idx, shared, counted, base, crossed, calls>>

\* A step of the thread that calls model m.
Step(m) ==
    \/ \E ids \in Prompts : Complete(m, ids)
    \/ \E n \in BatchSizes : \E row \in [1 .. n -> Prompts] : CompleteBatch(m, row)
    \/ BeginPrompt(m) \/ EvalChunk(m) \/ EvalChunkFails(m) \/ EmptyEnds(m)
    \/ PrefillDone(m) \/ PromptDone(m)
    \/ Sample(m) \/ TestEos(m) \/ AppendToken(m) \/ EvalToken(m) \/ EvalTokenFails(m)
    \/ Report(m) \/ Count(m) \/ LoopEnds(m)
    \/ Round(m) \/ RoundFails(m)

Next == \E m \in Models : Step(m)

Spec == Init /\ [][Next]_vars

-----------------------------------------------------------------------------
(* Properties. *)

Counts == [token : Vocab, decays : Nat]

Jobs ==
    [pc : {"idle", "prompt", "prefill", "sample", "round"} \cup UsesIdx,
     kind : {"one", "batch"}, row : Seq(Prompts), at : Nat, pos : Nat,
     saved : Seq(Seq(Vocab)), logits : Seq(Seq(Vocab)), picked : Seq(Vocab),
     after : Seq(Seq(Vocab)),
     round : 0 .. MaxLength, eos : BOOLEAN, ok : BOOLEAN,
     known : Seq(Counts)]

\* Types, and that the prefill stays within its prompt.
TypeOK ==
    /\ idx \in Vocab
    /\ total \in Int /\ finished \in Nat /\ progress \in Nat \X Nat
    /\ slots \in [Models -> [Slots -> Seq(Vocab)]]
    /\ base \in [Models -> [Slots -> Seq(Vocab)]]
    /\ job \in [Models -> Jobs]
    /\ \A m \in Models :
         /\ At(m, "prefill") => job[m].at <= Size(m) /\ job[m].pos <= Len(Ids(m))
         /\ Len(text[m]) = Size(m)
    /\ text \in [Models -> Seq(Seq(Vocab))]
    /\ counted \in [Models -> Seq(Counts)]
    /\ crossed \in [Models -> BOOLEAN] /\ overlapped \in BOOLEAN
    /\ calls \in 0 .. MaxCalls

\* shown is what is left of read when the end tokens are taken out.
WithoutStops(shown, read) ==
    \E at \in [DOMAIN shown -> DOMAIN read] :
      /\ \A i, k \in DOMAIN shown : i < k => at[i] < at[k]
      /\ \A i \in DOMAIN shown : shown[i] = read[at[i]]
      /\ {at[i] : i \in DOMAIN shown} = {k \in DOMAIN read : read[k] # StopCode}

\* What comes behind the first n tokens.
Behind(n, ids) == SubSeq(ids, n + 1, Len(ids))

\* Slot s has read what it held before, its own prompt and tokens that are the
\* generated part of its own response, but for the end tokens among them, which
\* are read and not shown.
BatchFollows(m, s) ==
    LET before == base[m][s] \o job[m].row[s]
        read   == Behind(Len(before), slots[m][s])
        shown  == Behind(Len(job[m].row[s]), text[m][s])
    IN  /\ slots[m][s] = before \o read
        /\ text[m][s] = job[m].row[s] \o shown
        /\ WithoutStops(shown, read)

\* A call without a token in its first prompt: it ends there, and what it returns
\* is not initialised (runtime.cpp:433).
Empty(m) == job[m].row # << >> /\ job[m].row[1] = << >>

\* Where the slots should agree with the response.
Settled(m) ==
    \/ job[m].pc \in {"sample", "test", "append", "report", "count", "round"}
    \/ At(m, "idle") /\ job[m].ok /\ ~ Empty(m)

\* A slot that takes part has read what it held before, its own prompt and its
\* own response, and the other slots are as before.  (Not claimed of
\* gen_completion when another model's wrote idx in between, runtime.cpp:2204, nor
\* of a call that ended at an empty first prompt.)
SlotsFollowText ==
    \A m \in Models : Settled(m) =>
      \A s \in Slots :
        IF s > Size(m) THEN slots[m][s] = base[m][s]
        ELSE IF job[m].kind = "batch" THEN BatchFollows(m, s)
        ELSE ~ crossed[m] => slots[m][s] = base[m][s] \o text[m][s]

\* The tokens of a round were sampled from the logits of their own slots, unless
\* a prompt behind the first was empty and eval_logits returned what it found
\* (runtime.cpp:433).
SampledAfterOwn ==
    \A m \in Models :
      /\ At(m, "round") /\ (\A b \in 2 .. Size(m) : job[m].row[b] # << >>) =>
           \A s \in 1 .. Size(m) : job[m].after[s] = slots[m][s]
      /\ At(m, "sample") => job[m].logits = <<slots[m][1]>>

\* While prefills do not overlap, the progress counters show how many tokens of
\* the current prompt have been read, and a prefill that ended well is shown as
\* complete, unless there was nothing to read.
ProgressOfCall ==
    ~ overlapped =>
      /\ \A m \in Models : At(m, "prefill") =>
           /\ total = Len(Ids(m)) /\ finished = job[m].pos
           /\ job[m].pos > 0 => progress = <<finished, total>>
           /\ job[m].pos = 0 => progress[1] = 0
      /\ (\A m \in Models : ~ At(m, "prefill") /\ job[m].ok /\ ~ Empty(m)) /\ calls > 0 =>
           progress = <<1, 1>> \/ \E m \in Models : At(m, "prompt")

\* How many tokens the call under way has drawn and counted (gen_completion_batch
\* keeps counts of its own).
Drawn(m) ==
    IF job[m].kind = "batch" THEN 0
    ELSE job[m].round + IF job[m].pc \in UsesIdx THEN 1 ELSE 0
Counted(m) == IF job[m].kind = "batch" THEN 0 ELSE job[m].round

\* The sampler has counted what it had when the call began and behind it exactly
\* the generated tokens of the call, in their order, but for the one in hand;
\* each has decayed once for every token drawn since it was counted.  (The token
\* may be another model's when that one wrote idx, runtime.cpp:2204.)
CountsFollowText ==
    \A m \in Models : ~ At(m, "idle") =>
      LET old == job[m].known IN
      /\ Len(counted[m]) = Len(old) + Counted(m)
      /\ \A i \in 1 .. Len(old) :
           /\ counted[m][i].token = old[i].token
           /\ counted[m][i].decays = old[i].decays + Aged(m, Drawn(m))
      /\ \A k \in 1 .. Counted(m) :
           /\ ~ crossed[m] =>
                counted[m][Len(old) + k].token = text[m][1][Len(Ids(m)) + k]
           /\ counted[m][Len(old) + k].decays = Aged(m, Drawn(m) - k)

-----------------------------------------------------------------------------
(* What makes the properties above inductive. *)

\* What a call that is under way has set up, and that only a call that has
\* returned can have failed.
JobShape(m) ==
    LET j == job[m] IN
    /\ j.pc # "idle" => j.ok /\ Size(m) > 0
    /\ j.pc \in {"prompt", "prefill"} => j.at \in 1 .. Size(m)
    /\ j.pc \in {"sample"} \cup UsesIdx => j.kind = "one"
    /\ j.pc \in UsesIdx => j.round < MaxLength
    /\ j.pc = "round" => j.kind = "batch"
    /\ j.kind = "one" => Size(m) <= 1
    /\ Size(m) <= SlotCount
    /\ j.kind = "batch" =>
         /\ Len(j.saved) = Size(m) /\ Len(j.picked) = Size(m) /\ Len(j.after) = Size(m)

\* The slots no call in progress takes part in, and how far the others are: the
\* first slot reads prompt `at`, the states of a batch wait to be handed over.
SlotsFollowCall(m) ==
    LET j == job[m] IN
    /\ \A s \in Slots : s > Size(m) => slots[m][s] = base[m][s]
    /\ j.pc \in {"prompt", "prefill"} /\ j.kind = "batch" =>
         \A s \in 1 .. Size(m) :
           IF s < j.at THEN /\ j.saved[s] = base[m][s] \o j.row[s]
                           /\ text[m][s] = j.row[s]
           ELSE j.saved[s] = base[m][s]
    /\ j.pc = "prompt" /\ j.kind = "one" => slots[m][1] = base[m][1]
    /\ j.pc = "prefill" => slots[m][1] = base[m][j.at] \o SubSeq(Ids(m), 1, j.pos)
    /\ j.pc = "eval" /\ ~ crossed[m] =>
         Append(slots[m][1], idx) = base[m][1] \o text[m][1]

\* Where the logits of a call come from: without a token read there are none,
\* or those of the prompt before, and a batch has kept each prompt's.
LogitsFollow(m) ==
    LET j == job[m] IN
    /\ j.pc = "prompt" /\ j.at = 1 => j.logits = << >>
    /\ j.pc = "prefill" => IF j.pos > 0 THEN j.logits = <<slots[m][1]>>
                           ELSE j.at = 1 => j.logits = << >>
    /\ j.pc \in {"prompt", "prefill"} /\ j.kind = "batch" =>
         \A s \in 1 .. j.at - 1 :
           (s = 1 \/ j.row[s] # << >>) => j.after[s] = j.saved[s]
    /\ j.pc \in {"report", "count"} => j.logits = <<slots[m][1]>>

\* Only one prefill is under way unless two were, and the counters are its own.
OnePrefill ==
    ~ overlapped =>
      \A m, o \in Models : At(m, "prefill") /\ At(o, "prefill") => m = o

\* The response is the prompt and the tokens generated so far; the last one is
\* counted after it was read.
CountsFollowCall(m) ==
    LET j == job[m]
        shown == j.pc \in {"eval", "report", "count"}
    IN  /\ j.pc \in {"prompt", "prefill"} => j.round = 0
        /\ j.pc \in {"sample"} \cup UsesIdx =>
             Len(text[m][1]) = Len(Ids(m)) + j.round + IF shown THEN 1 ELSE 0
        /\ shown /\ ~ crossed[m] => text[m][1][Len(text[m][1])] = idx

=============================================================================
