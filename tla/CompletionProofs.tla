--------------------------- MODULE CompletionProofs --------------------------
(***************************************************************************)
(* Theorems about Completion, for every set of models, vocabulary, set of  *)
(* prompts, chunk size, set of batch sizes and bound.                      *)
(***************************************************************************)
EXTENDS Completion, SequenceTheorems, TLAPS

ShapeInv == TypeOK /\ \A m \in Models : JobShape(m)

-----------------------------------------------------------------------------
(* What the steps have in common. *)

LEMMA SlotFacts ==
    /\ SlotCount \in BatchSizes /\ SlotCount \in Nat \ {0}
    /\ \A k \in BatchSizes : k <= SlotCount
    /\ 1 \in Slots
<1>1. SlotCount \in BatchSizes /\ \A k \in BatchSizes : k <= SlotCount
  BY CompletionAssumption DEF SlotCount
<1>2. SlotCount \in Nat \ {0}
  BY <1>1, CompletionAssumption
<1> QED BY <1>1, <1>2 DEF Slots

\* The components of a job.
LEMMA JobFields ==
    ASSUME NEW j \in Jobs
    PROVE  /\ j.row \in Seq(Prompts) /\ j.at \in Nat /\ j.pos \in Nat
           /\ j.saved \in Seq(Seq(Vocab)) /\ j.logits \in Seq(Seq(Vocab))
           /\ j.picked \in Seq(Vocab) /\ j.after \in Seq(Seq(Vocab))
           /\ j.round \in 0 .. MaxLength /\ j.eos \in BOOLEAN /\ j.ok \in BOOLEAN
           /\ j.kind \in {"one", "batch"} /\ j.known \in Seq(Counts)
BY DEF Jobs

\* What belongs to a model, apart from `crossed`, is changed by its own thread.
Only(m) ==
    /\ job' = [job EXCEPT ![m] = job'[m]]
    /\ slots' = [slots EXCEPT ![m] = slots'[m]]
    /\ text' = [text EXCEPT ![m] = text'[m]]
    /\ counted' = [counted EXCEPT ![m] = counted'[m]]
    /\ base' = [base EXCEPT ![m] = base'[m]]

LEMMA StepOnly ==
    ASSUME TypeOK, NEW m \in Models, Step(m)
    PROVE  Only(m)
<1>a. /\ job \in [Models -> Jobs] /\ DOMAIN slots = Models /\ DOMAIN text = Models
      /\ DOMAIN counted = Models /\ DOMAIN base = Models
      /\ slots = [o \in Models |-> slots[o]] /\ text = [o \in Models |-> text[o]]
      /\ counted = [o \in Models |-> counted[o]] /\ base = [o \in Models |-> base[o]]
  BY DEF TypeOK
<1>1. ASSUME NEW ids \in Prompts, Complete(m, ids) PROVE Only(m)
  BY <1>a, <1>1 DEF Complete, Enter, Only
<1>2. ASSUME NEW row, CompleteBatch(m, row) PROVE Only(m)
  BY <1>a, <1>2 DEF CompleteBatch, Enter, Only
<1>3. CASE BeginPrompt(m)
  BY <1>a, <1>3 DEF BeginPrompt, Only
<1>4. CASE EvalChunk(m)
  <2>1. \E e, lg : job' = [job EXCEPT ![m].pos = e, ![m].logits = lg]
    BY <1>4 DEF EvalChunk
  <2>2. \E new : slots' = [slots EXCEPT ![m][1] = new]
    BY <1>4 DEF EvalChunk
  <2>3. UNCHANGED <<text, counted, base>>
    BY <1>4 DEF EvalChunk
  <2> QED BY <1>a, <2>1, <2>2, <2>3 DEF Only
<1>5. CASE EvalChunkFails(m)
  <2>1. PICK n \in 0 .. Piece(m) :
          slots' = [slots EXCEPT ![m][1] = @ \o Tokens(m, n)]
    BY <1>5 DEF EvalChunkFails
  <2> QED BY <1>a, <1>5, <2>1 DEF EvalChunkFails, Return, Only
<1>13. CASE EmptyEnds(m)
  BY <1>a, <1>13 DEF EmptyEnds, Return, Only
<1>6. CASE PrefillDone(m)
  BY <1>a, <1>6 DEF PrefillDone, Goto, Only
<1>7. CASE PromptDone(m)
  BY <1>a, <1>7 DEF PromptDone, HandedOver, Only
<1>8. CASE Sample(m) \/ TestEos(m) \/ AppendToken(m)
  BY <1>a, <1>8 DEF Sample, TestEos, AppendToken, Goto, Only
<1>9. CASE EvalToken(m)
  <2>1. /\ \E lg : job' = [job EXCEPT ![m].pc = "report", ![m].logits = lg]
        /\ \E h : slots' = [slots EXCEPT ![m][1] = h]
        /\ UNCHANGED <<text, counted, base>>
    BY <1>9 DEF EvalToken
  <2> QED BY <1>a, <2>1 DEF Only
<1>14. CASE EvalTokenFails(m)
  BY <1>a, <1>14 DEF EvalTokenFails, Return, Only
<1>10. CASE Report(m) \/ Count(m) \/ LoopEnds(m)
  BY <1>a, <1>10 DEF Report, Count, LoopEnds, Return, Goto, Only
<1>11. CASE Round(m)
  BY <1>a, <1>11 DEF Round, Return, Only
<1>12. CASE RoundFails(m)
  BY <1>a, <1>12 DEF RoundFails, Return, Only
<1> QED BY <1>1, <1>2, <1>3, <1>4, <1>5, <1>6, <1>7, <1>8, <1>9, <1>10, <1>11, <1>12,
           <1>13, <1>14
        DEF Step

-----------------------------------------------------------------------------
(* Types, and what a call has set up at each of its steps. *)

\* What the invariant says of one model.
Typed(m) ==
    /\ job[m] \in Jobs /\ JobShape(m)
    /\ slots[m] \in [Slots -> Seq(Vocab)] /\ base[m] \in [Slots -> Seq(Vocab)]
    /\ text[m] \in Seq(Seq(Vocab)) /\ Len(text[m]) = Size(m)
    /\ counted[m] \in Seq(Counts)
    /\ At(m, "prefill") => job[m].pos <= Len(Ids(m))

\* What it says of the variables that the models share.
SharedTyped ==
    /\ idx \in Vocab
    /\ total \in Int /\ finished \in Nat /\ progress \in Nat \X Nat
    /\ crossed \in [Models -> BOOLEAN] /\ overlapped \in BOOLEAN
    /\ calls \in 0 .. MaxCalls

LEMMA ShapeParts ==
    ASSUME ShapeInv
    PROVE  SharedTyped /\ \A m \in Models : Typed(m)
BY DEF ShapeInv, TypeOK, SharedTyped, Typed

LEMMA ShapeFromParts ==
    ASSUME ShapeInv, NEW m \in Models, Only(m), Typed(m)', SharedTyped'
    PROVE  ShapeInv'
<1>a. SharedTyped /\ \A o \in Models : Typed(o)
  BY ShapeParts
<1>b. /\ DOMAIN job = Models /\ DOMAIN slots = Models /\ DOMAIN text = Models
      /\ DOMAIN counted = Models /\ DOMAIN base = Models
  BY DEF ShapeInv, TypeOK
<1>1. \A o \in Models : o # m =>
        /\ job'[o] = job[o] /\ slots'[o] = slots[o] /\ text'[o] = text[o]
        /\ counted'[o] = counted[o] /\ base'[o] = base[o]
  BY <1>b DEF Only
<1>2. /\ DOMAIN job' = Models /\ DOMAIN slots' = Models /\ DOMAIN text' = Models
      /\ DOMAIN counted' = Models /\ DOMAIN base' = Models
  BY <1>b DEF Only
<1>3. ASSUME NEW o \in Models PROVE Typed(o)'
  <2>1. CASE o = m
    BY <2>1
  <2>2. CASE o # m
    BY <1>a, <1>1, <2>2 DEF Typed, JobShape, Size, At, Ids
  <2> QED BY <2>1, <2>2
<1>4. job' \in [Models -> Jobs]
  <2>1. job' = [o \in Models |-> job'[o]]
    BY <1>2 DEF Only
  <2> QED BY <1>3, <2>1 DEF Typed
<1>5. /\ slots' \in [Models -> [Slots -> Seq(Vocab)]]
      /\ base' \in [Models -> [Slots -> Seq(Vocab)]]
  <2>1. slots' = [o \in Models |-> slots'[o]] /\ base' = [o \in Models |-> base'[o]]
    BY <1>2 DEF Only
  <2> QED BY <1>3, <2>1 DEF Typed
<1>6. text' \in [Models -> Seq(Seq(Vocab))] /\ counted' \in [Models -> Seq(Counts)]
  <2>1. text' = [o \in Models |-> text'[o]] /\ counted' = [o \in Models |-> counted'[o]]
    BY <1>2 DEF Only
  <2> QED BY <1>3, <2>1 DEF Typed
<1>7. ASSUME NEW o \in Models
      PROVE  (/\ At(o, "prefill") => job[o].at <= Size(o) /\ job[o].pos <= Len(Ids(o))
              /\ Len(text[o]) = Size(o))'
  BY <1>3 DEF Typed, JobShape, At
<1> QED BY <1>3, <1>4, <1>5, <1>6, <1>7 DEF ShapeInv, TypeOK, SharedTyped, Typed

LEMMA NoJobTyped == NoJob \in Jobs
BY CompletionAssumption DEF NoJob, Jobs

LEMMA ShapeInit == Init => ShapeInv
<1> SUFFICES ASSUME Init PROVE ShapeInv
  OBVIOUS
<1>1. NoJob \in Jobs
  BY NoJobTyped
<1>2. NoJob.row = << >> /\ NoJob.pc = "idle" /\ NoJob.kind = "one"
  BY DEF NoJob
<1>3. ASSUME NEW m \in Models
      PROVE  job[m] = NoJob /\ Size(m) = 0 /\ text[m] = << >> /\ JobShape(m)
  <2>1. job[m] = NoJob /\ text[m] = << >>
    BY DEF Init
  <2>2. Size(m) = 0
    BY <1>2, <2>1 DEF Size
  <2>3. SlotCount \in Nat
    BY SlotFacts
  <2>4. job[m].pc = "idle" /\ job[m].kind = "one"
    BY <1>2, <2>1
  <2>5. Size(m) <= 1 /\ Size(m) <= SlotCount
    BY <2>2, <2>3
  <2>6. JobShape(m)
    BY <2>4, <2>5 DEF JobShape, UsesIdx
  <2> QED BY <2>1, <2>2, <2>6
<1>4. /\ job \in [Models -> Jobs] /\ slots \in [Models -> [Slots -> Seq(Vocab)]]
      /\ text \in [Models -> Seq(Seq(Vocab))] /\ counted \in [Models -> Seq(Counts)]
      /\ crossed \in [Models -> BOOLEAN] /\ base = slots
  <2>1. << >> \in Seq(Vocab) /\ << >> \in Seq(Seq(Vocab)) /\ << >> \in Seq(Counts)
    OBVIOUS
  <2> QED BY <1>1, <2>1 DEF Init
<1>5. idx \in Vocab /\ overlapped \in BOOLEAN
  BY CompletionAssumption DEF Init
<1>6. total \in Int /\ finished \in Nat /\ progress \in Nat \X Nat
  BY DEF Init
<1>7. calls \in 0 .. MaxCalls
  BY CompletionAssumption DEF Init
<1>8. \A m \in Models : ~ At(m, "prefill") /\ Len(text[m]) = Size(m)
  BY <1>2, <1>3 DEF At
<1> QED BY <1>3, <1>4, <1>5, <1>6, <1>7, <1>8 DEF ShapeInv, TypeOK

\* The prompt a prefill is at, its rest and its next chunk.
LEMMA PrefillFacts ==
    ASSUME NEW m \in Models, Typed(m), job[m].pc \in {"prompt", "prefill"}
    PROVE  /\ Ids(m) \in Seq(Vocab) /\ Ids(m) = job[m].row[job[m].at]
           /\ job[m].at \in 1 .. Size(m) /\ Size(m) \in Nat \ {0}
           /\ 1 \in DOMAIN text[m] /\ DOMAIN text[m] = 1 .. Size(m)
           /\ Size(m) <= SlotCount
           /\ At(m, "prefill") =>
                /\ Piece(m) \in Nat /\ job[m].pos + Piece(m) <= Len(Ids(m))
                /\ \A n \in 0 .. Piece(m) :
                     Tokens(m, n) \in Seq(Vocab)
<1>1. /\ job[m].row \in Seq(Prompts) /\ job[m].at \in 1 .. Size(m)
      /\ text[m] \in Seq(Seq(Vocab)) /\ Len(text[m]) = Size(m)
  BY JobFields DEF Typed, JobShape
<1>2. /\ Size(m) \in Nat \ {0} /\ Size(m) <= SlotCount
      /\ 1 \in DOMAIN text[m] /\ DOMAIN text[m] = 1 .. Size(m)
  BY <1>1 DEF Size, Typed, JobShape
<1>3. Ids(m) \in Seq(Vocab)
  BY <1>1, CompletionAssumption DEF Ids, Size
<1>4. ASSUME At(m, "prefill")
      PROVE  Piece(m) \in Nat /\ job[m].pos + Piece(m) <= Len(Ids(m))
  BY <1>3, <1>4, JobFields, CompletionAssumption DEF Typed, Piece
<1>5. ASSUME At(m, "prefill"), NEW n \in 0 .. Piece(m)
      PROVE  Tokens(m, n) \in Seq(Vocab)
  <2> DEFINE a == job[m].pos
  <2>1. a \in Nat /\ a + n <= Len(Ids(m)) /\ n \in Nat
    BY <1>4, <1>5, JobFields DEF Typed
  <2>2. \A i \in a + 1 .. a + n : Ids(m)[i] \in Vocab
    BY <1>3, <2>1
  <2> HIDE DEF a
  <2>3. SubSeq(Ids(m), a + 1, a + n) \in Seq(Vocab)
    BY <2>1, <2>2, SubSeqProperties
  <2> QED BY <2>3 DEF Tokens, a
<1> QED BY <1>1, <1>2, <1>3, <1>4, <1>5 DEF Ids

\* The steps that return leave a job behind that may have failed.
LEMMA ReturnTyped ==
    ASSUME NEW m \in Models, Typed(m), NEW ok \in BOOLEAN,
           job'[m] = [job[m] EXCEPT !.pc = "idle", !.ok = ok],
           slots'[m] \in [Slots -> Seq(Vocab)], base'[m] = base[m],
           text'[m] \in Seq(Seq(Vocab)), Len(text'[m]) = Size(m), counted'[m] = counted[m]
    PROVE  Typed(m)'
<1>1. job'[m] \in Jobs /\ job'[m].pc = "idle"
  BY DEF Typed, Jobs
<1>2. /\ job'[m].row = job[m].row /\ job'[m].kind = job[m].kind
      /\ job'[m].saved = job[m].saved /\ job'[m].picked = job[m].picked
      /\ job'[m].after = job[m].after
  BY DEF Typed, Jobs
<1> QED BY <1>1, <1>2 DEF Typed, JobShape, Size, At, UsesIdx

\* The steps of the loop of gen_completion.
LEMMA LoopTyped ==
    ASSUME NEW m \in Models, Typed(m), job[m].pc \in {"sample"} \cup UsesIdx,
           NEW pc \in {"sample"} \cup UsesIdx,
           job'[m] \in Jobs, job'[m].pc = pc, job'[m].ok = job[m].ok,
           job'[m].row = job[m].row, job'[m].kind = job[m].kind,
           pc \in UsesIdx => job'[m].round < MaxLength,
           slots'[m] \in [Slots -> Seq(Vocab)], base'[m] = base[m],
           text'[m] \in Seq(Seq(Vocab)), Len(text'[m]) = Size(m),
           counted'[m] \in Seq(Counts)
    PROVE  Typed(m)'
BY DEF Typed, JobShape, Size, At, UsesIdx

\* One slot, or one response, is replaced.
LEMMA OneReplaced ==
    ASSUME TypeOK, NEW m \in Models
    PROVE  /\ \A s \in Slots, w \in Seq(Vocab) :
                /\ [slots[m] EXCEPT ![s] = w] \in [Slots -> Seq(Vocab)]
                /\ [slots[m] EXCEPT ![s] = w][s] = w
                /\ \A o \in Slots \ {s} : [slots[m] EXCEPT ![s] = w][o] = slots[m][o]
           /\ \A s \in 1 .. Size(m), w \in Seq(Vocab) :
                /\ [text[m] EXCEPT ![s] = w] \in Seq(Seq(Vocab))
                /\ Len([text[m] EXCEPT ![s] = w]) = Size(m)
                /\ [text[m] EXCEPT ![s] = w][s] = w
                /\ \A o \in 1 .. Size(m) \ {s} : [text[m] EXCEPT ![s] = w][o] = text[m][o]
<1>1. /\ slots[m] \in [Slots -> Seq(Vocab)] /\ text[m] \in Seq(Seq(Vocab))
      /\ Len(text[m]) = Size(m)
  BY DEF TypeOK
<1> QED BY <1>1, ExceptSeq

\* What a call that starts finds: everything but the counts is as it asks for.
LEMMA EnterEffect ==
    ASSUME TypeOK, NEW m \in Models, NEW new \in Jobs, Enter(m, new)
    PROVE  /\ job'[m] \in Jobs /\ job'[m].known = counted[m]
           /\ job'[m].pc = new.pc /\ job'[m].kind = new.kind /\ job'[m].row = new.row
           /\ job'[m].at = new.at /\ job'[m].pos = new.pos /\ job'[m].saved = new.saved
           /\ job'[m].logits = new.logits /\ job'[m].picked = new.picked
           /\ job'[m].after = new.after /\ job'[m].round = new.round
           /\ job'[m].ok = new.ok
           /\ base'[m] = slots[m] /\ crossed'[m] = FALSE
<1>1. /\ job'[m] = [new EXCEPT !.known = counted[m]]
      /\ base'[m] = slots[m] /\ crossed'[m] = FALSE
  BY DEF Enter, TypeOK
<1>2. counted[m] \in Seq(Counts)
  BY DEF TypeOK
<1> QED BY <1>1, <1>2 DEF Jobs

\* What the end of a prompt of a batch does to the call.
LEMMA PromptDoneEffect ==
    ASSUME TypeOK, NEW m \in Models, Typed(m), PromptDone(m)
    PROVE  /\ job[m].at \in 1 .. Size(m) /\ Size(m)' = Size(m)
           /\ job'[m] \in Jobs /\ job'[m].pc \in {"prompt", "round"} /\ JobShape(m)'
           /\ job'[m].pc = "round" <=> job[m].at = Size(m)
           /\ job'[m].at = job[m].at + 1 /\ job'[m].row = job[m].row
           /\ job'[m].kind = "batch" /\ job'[m].logits = job[m].logits
           /\ job'[m].saved = [job[m].saved EXCEPT ![job[m].at] = slots[m][1]]
           /\ job'[m].after = [job[m].after EXCEPT ![job[m].at] = job[m].logits[1]]
           /\ text'[m] = [text[m] EXCEPT ![job[m].at] = Ids(m)]
           /\ text'[m] \in Seq(Seq(Vocab)) /\ Len(text'[m]) = Size(m)
           /\ slots'[m] = IF job[m].at = Size(m)
                          THEN [s \in Slots |-> IF s <= Size(m) THEN job'[m].saved[s]
                                               ELSE slots[m][s]]
                          ELSE slots[m]
           /\ slots'[m] \in [Slots -> Seq(Vocab)]
<1>0. /\ job[m] \in Jobs /\ JobShape(m)
      /\ slots[m] \in [Slots -> Seq(Vocab)] /\ base[m] \in [Slots -> Seq(Vocab)]
      /\ text[m] \in Seq(Seq(Vocab)) /\ Len(text[m]) = Size(m)
      /\ DOMAIN job = Models /\ DOMAIN slots = Models /\ DOMAIN text = Models
      /\ 1 \in Slots /\ slots[m][1] \in Seq(Vocab) /\ Size(m) \in Nat
  <2>1. job[m] \in Jobs /\ slots[m] \in [Slots -> Seq(Vocab)]
    BY DEF Typed
  <2>2. job[m].row \in Seq(Prompts) /\ 1 \in Slots
    BY <2>1, JobFields, SlotFacts
  <2> QED BY <2>1, <2>2 DEF Typed, TypeOK, Size
<1> DEFINE b == job[m].at
           sv == [job[m].saved EXCEPT ![b] = slots[m][1]]
           last == b = Size(m)
           lg == job[m].logits[1]
<1>1. PICK t \in Vocab :
        job' = [job EXCEPT ![m].pc = IF last THEN "round" ELSE "prompt",
                           ![m].saved = sv, ![m].at = b + 1,
                           ![m].picked[b] = t, ![m].after[b] = lg]
  BY DEF PromptDone
<1>2. /\ At(m, "prefill") /\ job[m].kind = "batch" /\ ProgressFinish /\ job[m].logits # << >>
      /\ text'[m] = [text[m] EXCEPT ![b] = Ids(m)]
      /\ slots' = IF last THEN HandedOver(m, sv) ELSE slots
      /\ UNCHANGED <<idx, counted, base, crossed, overlapped, calls>>
  BY <1>0 DEF PromptDone, Prefilled
<1>3. /\ Ids(m) \in Seq(Vocab) /\ b \in 1 .. Size(m) /\ Size(m) <= SlotCount
      /\ Size(m) \in Nat \ {0}
  BY <1>2, PrefillFacts DEF At
<1>4. /\ job[m].saved \in Seq(Seq(Vocab)) /\ Len(job[m].saved) = Size(m)
      /\ job[m].picked \in Seq(Vocab) /\ Len(job[m].picked) = Size(m)
      /\ job[m].after \in Seq(Seq(Vocab)) /\ Len(job[m].after) = Size(m)
      /\ job[m].logits \in Seq(Seq(Vocab))
  BY <1>0, <1>2, JobFields DEF JobShape
<1>5. lg \in Seq(Vocab)
  BY <1>2, <1>4
<1> DEFINE pk == [job[m].picked EXCEPT ![b] = t]
           af == [job[m].after EXCEPT ![b] = lg]
           pc == IF last THEN "round" ELSE "prompt"
<1>6. job'[m] = [job[m] EXCEPT !.pc = pc, !.saved = sv, !.at = b + 1, !.picked = pk,
                               !.after = af]
  BY <1>0, <1>1 DEF Jobs
<1>7. sv \in Seq(Seq(Vocab)) /\ Len(sv) = Size(m) /\ \A s \in 1 .. Size(m) : sv[s] \in Seq(Vocab)
  <2>1. sv \in Seq(Seq(Vocab)) /\ Len(sv) = Size(m)
    BY <1>0, <1>3, <1>4, ExceptSeq
  <2> QED BY <2>1
<1>8. pk \in Seq(Vocab) /\ Len(pk) = Size(m)
  BY <1>3, <1>4, ExceptSeq
<1>9. af \in Seq(Seq(Vocab)) /\ Len(af) = Size(m)
  BY <1>3, <1>4, <1>5, ExceptSeq
<1>10. text'[m] \in Seq(Seq(Vocab)) /\ Len(text'[m]) = Size(m)
  BY <1>2, <1>3, OneReplaced
<1>11. slots'[m] \in [Slots -> Seq(Vocab)]
  <2>1. CASE ~ last
    BY <1>0, <1>2, <2>1
  <2>2. CASE last
    <3>1. slots'[m] = [s \in Slots |-> IF s <= Size(m) THEN sv[s] ELSE slots[m][s]]
      BY <1>0, <1>2, <2>2 DEF HandedOver
    <3>2. \A s \in Slots : s <= Size(m) => sv[s] \in Seq(Vocab)
      BY <1>7, SlotFacts DEF Slots
    <3> HIDE DEF sv
    <3> QED BY <1>0, <3>1, <3>2
  <2> QED BY <2>1, <2>2
<1> HIDE DEF sv, pk, af, lg
<1>12. job'[m].pc = pc /\ job'[m].saved = sv /\ job'[m].at = b + 1 /\ job'[m].picked = pk
  BY <1>0, <1>6 DEF Jobs
<1>13. /\ job'[m].after = af /\ job'[m].row = job[m].row /\ job'[m].kind = job[m].kind
       /\ job'[m].ok = job[m].ok
  BY <1>0, <1>6 DEF Jobs
<1>14. job'[m] \in Jobs
  <2>1. b + 1 \in Nat
    BY <1>3
  <2>2. pc \in {"prompt", "round"}
    OBVIOUS
  <2> HIDE DEF pc, b
  <2> QED BY <1>0, <1>6, <1>7, <1>8, <1>9, <2>1, <2>2 DEF Jobs
<1>15. pc = "prompt" => b + 1 \in 1 .. Size(m)
  BY <1>3
<1>16. pc \in {"prompt", "round"} /\ job[m].ok
  BY <1>0, <1>2 DEF JobShape, At
<1>17. JobShape(m)'
  <2>1. Size(m)' = Size(m)
    BY <1>13 DEF Size
  <2> HIDE DEF pc, b
  <2> QED BY <1>2, <1>3, <1>7, <1>8, <1>9, <1>12, <1>13, <1>15, <1>16, <2>1
          DEF JobShape, UsesIdx
<1>18. /\ job'[m].logits = job[m].logits /\ Size(m)' = Size(m)
  <2>1. job'[m].logits = job[m].logits
    BY <1>0, <1>6 DEF Jobs
  <2> QED BY <2>1, <1>13 DEF Size
<1>19. slots'[m] = IF last THEN [s \in Slots |-> IF s <= Size(m) THEN sv[s] ELSE slots[m][s]]
                   ELSE slots[m]
  BY <1>0, <1>2 DEF HandedOver
<1>20. (pc = "round" <=> last) /\ job[m].kind = "batch"
  BY <1>2
<1>21. /\ job'[m].saved = [job[m].saved EXCEPT ![job[m].at] = slots[m][1]]
       /\ job'[m].after = [job[m].after EXCEPT ![job[m].at] = job[m].logits[1]]
  BY <1>12, <1>13 DEF sv, af, lg
<1>22. /\ job[m].at \in 1 .. Size(m)
       /\ job'[m].pc \in {"prompt", "round"}
       /\ job'[m].pc = "round" <=> job[m].at = Size(m)
       /\ job'[m].at = job[m].at + 1 /\ job'[m].kind = "batch"
  BY <1>3, <1>12, <1>13, <1>20
<1>23. /\ text'[m] = [text[m] EXCEPT ![job[m].at] = Ids(m)]
       /\ slots'[m] = IF job[m].at = Size(m)
                      THEN [s \in Slots |-> IF s <= Size(m) THEN job'[m].saved[s]
                                           ELSE slots[m][s]]
                      ELSE slots[m]
  BY <1>2, <1>12, <1>19
<1> HIDE DEF pc, last, b
<1> QED BY <1>10, <1>11, <1>13, <1>14, <1>17, <1>18, <1>21, <1>22, <1>23

\* The penalties age every count and change nothing else.
LEMMA AgedCounts ==
    ASSUME NEW m \in Models, counted[m] \in Seq(Counts)
    PROVE  /\ ApplyPenalties(m) \in Seq(Counts)
           /\ Len(ApplyPenalties(m)) = Len(counted[m])
           /\ \A i \in 1 .. Len(counted[m]) :
                /\ ApplyPenalties(m)[i].token = counted[m][i].token
                /\ ApplyPenalties(m)[i].decays = counted[m][i].decays + Aged(m, 1)
<1>1. DOMAIN counted[m] = 1 .. Len(counted[m]) /\ Len(counted[m]) \in Nat
  OBVIOUS
<1>2. ASSUME NEW i \in 1 .. Len(counted[m])
      PROVE  LET c == [counted[m][i] EXCEPT !.decays = @ + Aged(m, 1)]
             IN  /\ c \in Counts /\ c.token = counted[m][i].token
                 /\ c.decays = counted[m][i].decays + Aged(m, 1)
  <2>1. counted[m][i] \in Counts
    BY <1>2
  <2> QED BY <2>1 DEF Counts, Aged
<1>3. ApplyPenalties(m)
        = [i \in 1 .. Len(counted[m]) |-> [counted[m][i] EXCEPT !.decays = @ + Aged(m, 1)]]
  BY <1>1 DEF ApplyPenalties
<1>4. ApplyPenalties(m) \in [1 .. Len(counted[m]) -> Counts]
  BY <1>2, <1>3
<1>5. /\ ApplyPenalties(m) \in Seq(Counts)
      /\ Len(ApplyPenalties(m)) = Len(counted[m])
  BY <1>1, <1>4, SeqDef
<1> QED BY <1>2, <1>3, <1>5

LEMMA ShapeStep == ShapeInv /\ [Next]_vars => ShapeInv'
<1> SUFFICES ASSUME ShapeInv, NEW m \in Models, Step(m) PROVE Typed(m)' /\ SharedTyped'
  <2>1. CASE UNCHANGED vars
    BY <2>1 DEF vars, shared, ShapeInv, TypeOK, JobShape, Size, At, Ids
  <2>2. ASSUME NEW m \in Models, Step(m), ShapeInv, Typed(m)', SharedTyped'
        PROVE  ShapeInv'
    BY <2>2, StepOnly, ShapeFromParts DEF ShapeInv
  <2> QED BY <2>1, <2>2 DEF Next
<1>a. TypeOK /\ Typed(m) /\ SharedTyped
  BY ShapeParts DEF ShapeInv
<1>b. /\ job[m] \in Jobs /\ JobShape(m)
      /\ slots[m] \in [Slots -> Seq(Vocab)] /\ base[m] \in [Slots -> Seq(Vocab)]
      /\ text[m] \in Seq(Seq(Vocab)) /\ Len(text[m]) = Size(m)
      /\ counted[m] \in Seq(Counts) /\ idx \in Vocab
      /\ At(m, "prefill") => job[m].pos <= Len(Ids(m))
  BY <1>a DEF Typed, SharedTyped
<1>c. /\ job[m].row \in Seq(Prompts) /\ Size(m) \in Nat
      /\ 1 \in Slots /\ slots[m][1] \in Seq(Vocab)
  BY <1>b, JobFields, SlotFacts DEF Size
<1>d. /\ job \in [Models -> Jobs] /\ DOMAIN slots = Models /\ DOMAIN text = Models
      /\ DOMAIN counted = Models /\ DOMAIN base = Models
  BY <1>a DEF TypeOK
<1>e. UNCHANGED <<idx, shared, crossed, calls>> => SharedTyped'
  BY <1>a DEF SharedTyped, shared
\* A call that starts.
<1>f. ASSUME NEW new \in Jobs, Enter(m, new), new.pc = "prompt", new.at = 1, new.ok,
             Len(new.row) \in Nat \ {0}, Len(new.row) <= SlotCount,
             new.kind = "one" => Len(new.row) <= 1,
             new.kind = "batch" => /\ Len(new.saved) = Len(new.row)
                                   /\ Len(new.picked) = Len(new.row)
                                   /\ Len(new.after) = Len(new.row),
             text'[m] \in Seq(Seq(Vocab)), Len(text'[m]) = Len(new.row),
             UNCHANGED <<idx, shared, slots, counted>>
      PROVE  Typed(m)' /\ SharedTyped'
  <2>0. TypeOK /\ Enter(m, new) /\ new \in Jobs
    BY <1>a, <1>f
  <2>1. /\ job'[m] \in Jobs /\ base'[m] = slots[m]
        /\ job'[m].pc = new.pc /\ job'[m].kind = new.kind /\ job'[m].row = new.row
        /\ job'[m].at = new.at /\ job'[m].saved = new.saved /\ job'[m].picked = new.picked
        /\ job'[m].after = new.after /\ job'[m].ok = new.ok
    BY <2>0, EnterEffect
  <2>2. slots'[m] = slots[m] /\ counted'[m] = counted[m]
    BY <1>f
  <2>3. Typed(m)'
    <3>1. Size(m)' = Len(new.row) /\ Size(m)' \in Nat
      BY <1>f, <2>1 DEF Size
    <3>2. JobShape(m)'
      BY <1>f, <2>1, <3>1 DEF JobShape, UsesIdx
    <3>3. /\ slots'[m] \in [Slots -> Seq(Vocab)] /\ base'[m] \in [Slots -> Seq(Vocab)]
          /\ counted'[m] \in Seq(Counts) /\ ~ At(m, "prefill")'
      BY <1>b, <1>f, <2>1, <2>2 DEF At
    <3> QED BY <1>f, <2>1, <3>1, <3>2, <3>3 DEF Typed
  <2>4. calls' \in 0 .. MaxCalls
    BY <1>a, <1>f, CompletionAssumption DEF Enter, SharedTyped
  <2>5. crossed' \in [Models -> BOOLEAN]
    BY <1>a, <1>f DEF Enter, SharedTyped
  <2> QED BY <1>a, <1>f, <2>3, <2>4, <2>5 DEF SharedTyped, shared
<1>1. ASSUME NEW ids \in Prompts, Complete(m, ids) PROVE Typed(m)' /\ SharedTyped'
  <2> DEFINE new == [NoJob EXCEPT !.pc = "prompt", !.row = <<ids>>]
  <2>1. /\ new.pc = "prompt" /\ new.at = 1 /\ new.ok /\ new.kind = "one"
        /\ new.row = <<ids>>
    BY DEF NoJob
  <2>2. new \in Jobs
    <3>1. <<ids>> \in Seq(Prompts)
      OBVIOUS
    <3> QED BY <3>1, NoJobTyped DEF Jobs
  <2>3. Enter(m, new) /\ UNCHANGED <<idx, shared, slots, counted>>
    BY <1>1 DEF Complete
  <2>4. text'[m] = << << >> >>
    BY <1>1, <1>d DEF Complete
  <2>5. Len(new.row) = 1 /\ 1 <= SlotCount
    BY <2>1, SlotFacts
  <2>6. text'[m] \in Seq(Seq(Vocab)) /\ Len(text'[m]) = 1
    BY <2>4
  <2> HIDE DEF new
  <2>7. /\ Len(new.row) \in Nat \ {0} /\ Len(new.row) <= SlotCount
        /\ new.kind = "one" => Len(new.row) <= 1
        /\ new.kind # "batch"
        /\ Len(text'[m]) = Len(new.row)
    BY <2>1, <2>5, <2>6
  <2> QED BY <1>f, <2>1, <2>2, <2>3, <2>6, <2>7
<1>2. ASSUME NEW n \in BatchSizes, NEW row \in [1 .. n -> Prompts], CompleteBatch(m, row)
      PROVE  Typed(m)' /\ SharedTyped'
  <2> DEFINE sv == [s \in 1 .. Len(row) |-> slots[m][s]]
             pk == [s \in 1 .. Len(row) |-> StopCode]
             af == [s \in 1 .. Len(row) |-> << >>]
             new == [NoJob EXCEPT !.pc = "prompt", !.kind = "batch", !.row = row,
                                  !.saved = sv, !.picked = pk, !.after = af]
  <2>1. n \in Nat \ {0} /\ n <= SlotCount
    BY SlotFacts, CompletionAssumption
  <2>2. row \in Seq(Prompts) /\ Len(row) = n
    BY <2>1, SeqDef
  <2>3. sv \in Seq(Seq(Vocab)) /\ Len(sv) = n
    <3>1. \A s \in 1 .. n : slots[m][s] \in Seq(Vocab)
      BY <1>b, <2>1, SlotFacts DEF Slots
    <3> QED BY <2>1, <2>2, <3>1
  <2>4. pk \in Seq(Vocab) /\ Len(pk) = n
    BY <2>1, <2>2, CompletionAssumption
  <2>5. af \in Seq(Seq(Vocab)) /\ Len(af) = n
    BY <2>1, <2>2
  <2> HIDE DEF sv, pk, af
  <2>6. /\ new.pc = "prompt" /\ new.at = 1 /\ new.ok /\ new.kind = "batch"
        /\ new.row = row /\ new.saved = sv /\ new.picked = pk /\ new.after = af
    BY DEF NoJob
  <2>7. new \in Jobs
    BY <2>2, <2>3, <2>4, <2>5, NoJobTyped DEF Jobs
  <2>8. Enter(m, new) /\ UNCHANGED <<idx, shared, slots, counted>>
    BY <1>2 DEF CompleteBatch, sv, pk, af
  <2>9. text'[m] = af
    BY <1>2, <1>d DEF CompleteBatch, af
  <2> HIDE DEF new
  <2> QED BY <1>f, <2>1, <2>2, <2>3, <2>4, <2>5, <2>6, <2>7, <2>8, <2>9
<1>3. CASE BeginPrompt(m)
  <2>1. /\ job'[m] = [job[m] EXCEPT !.pc = "prefill", !.pos = 0]
        /\ UNCHANGED <<idx, text, counted, base, crossed, calls>>
        /\ At(m, "prompt") /\ ProgressStart(Len(Ids(m))) /\ overlapped' \in BOOLEAN
    BY <1>3, <1>d DEF BeginPrompt
  <2>2. slots'[m] \in [Slots -> Seq(Vocab)]
    <3>1. job[m].kind = "batch" => job[m].saved[job[m].at] \in Seq(Vocab)
      BY <1>b, <2>1, JobFields, PrefillFacts, <1>a DEF JobShape, At
    <3>2. CASE job[m].kind = "one"
      BY <1>3, <1>b, <3>2 DEF BeginPrompt
    <3>3. CASE job[m].kind = "batch"
      <4>1. slots'[m] = [slots[m] EXCEPT ![1] = job[m].saved[job[m].at]]
        BY <1>3, <1>d, <3>3 DEF BeginPrompt
      <4> QED BY <1>b, <1>c, <3>1, <3>3, <4>1
    <3> QED BY <1>b, <3>2, <3>3, JobFields
  <2>3. /\ job'[m].pc = "prefill" /\ job'[m].pos = 0
        /\ job'[m].row = job[m].row /\ job'[m].at = job[m].at /\ job'[m].ok = job[m].ok
        /\ job'[m].kind = job[m].kind /\ job'[m].saved = job[m].saved
        /\ job'[m].picked = job[m].picked /\ job'[m].after = job[m].after
    BY <1>b, <2>1 DEF Jobs
  <2>7. job'[m] \in Jobs
    <3>1. job[m] \in Jobs
      BY <1>b
    <3>2. job'[m] = [job[m] EXCEPT !.pc = "prefill", !.pos = 0]
      BY <2>1
    <3>3. job'[m].pos \in Nat /\ job'[m].pc = "prefill"
      BY <2>3
    <3>4. job'[m].pos = 0
      BY <2>3
    <3> QED BY <3>1, <3>2, <3>3, <3>4, Zenon DEF Jobs
  <2>4. Len(Ids(m)) \in Nat /\ Ids(m)' = Ids(m)
    BY <1>a, <2>1, <2>3, PrefillFacts DEF At, Ids
  <2>5. Typed(m)'
    BY <1>b, <2>1, <2>2, <2>3, <2>4, <2>7 DEF Typed, JobShape, Size, At, UsesIdx
  <2>6. SharedTyped'
    BY <1>a, <2>1, <2>4 DEF SharedTyped, ProgressStart
  <2> QED BY <2>5, <2>6
<1>4. CASE EvalChunk(m)
  <2>1. /\ At(m, "prefill") /\ UNCHANGED <<idx, text, counted, base, crossed, overlapped, calls>>
        /\ ProgressAdd(Piece(m))
        /\ slots'[m] = [slots[m] EXCEPT ![1] = @ \o Tokens(m, Piece(m))]
        /\ job'[m] = [job[m] EXCEPT !.pos = @ + Piece(m), !.logits = <<slots'[m][1]>>]
    BY <1>4, <1>d DEF EvalChunk
  <2>2. /\ Piece(m) \in Nat /\ job[m].pos + Piece(m) <= Len(Ids(m))
        /\ Tokens(m, Piece(m)) \in Seq(Vocab) /\ Ids(m) \in Seq(Vocab)
    BY <1>a, <2>1, PrefillFacts DEF At
  <2>3. slots'[m] \in [Slots -> Seq(Vocab)] /\ slots'[m][1] \in Seq(Vocab)
    BY <1>b, <1>c, <2>1, <2>2
  <2>4. <<slots'[m][1]>> \in Seq(Seq(Vocab)) /\ job[m].pos + Piece(m) \in Nat
    BY <1>b, <2>2, <2>3, JobFields
  <2>5. /\ job'[m] \in Jobs /\ job'[m].pc = "prefill" /\ job'[m].pos = job[m].pos + Piece(m)
        /\ job'[m].row = job[m].row /\ job'[m].at = job[m].at /\ job'[m].ok = job[m].ok
        /\ job'[m].kind = job[m].kind /\ job'[m].saved = job[m].saved
        /\ job'[m].picked = job[m].picked /\ job'[m].after = job[m].after
    BY <1>b, <2>1, <2>4 DEF Jobs, At
  <2>6. Ids(m)' = Ids(m)
    BY <2>5 DEF Ids
  <2>7. Typed(m)'
    BY <1>b, <2>1, <2>2, <2>3, <2>5, <2>6 DEF Typed, JobShape, Size, At, UsesIdx
  <2>8. SharedTyped'
    BY <1>a, <2>1, <2>2 DEF SharedTyped, ProgressAdd
  <2> QED BY <2>7, <2>8
<1>5. CASE EvalChunkFails(m)
  <2>1. PICK n \in 0 .. Piece(m) : slots' = [slots EXCEPT ![m][1] = @ \o Tokens(m, n)]
    BY <1>5 DEF EvalChunkFails
  <2>2. /\ At(m, "prefill") /\ UNCHANGED <<idx, text, counted, base, crossed, overlapped, calls>>
        /\ ProgressAdd(Piece(m)) \/ UNCHANGED <<total, finished, progress>>
        /\ job'[m] = [job[m] EXCEPT !.pc = "idle", !.ok = FALSE]
    BY <1>5, <1>d DEF EvalChunkFails, Return
  <2>3. Piece(m) \in Nat /\ Tokens(m, n) \in Seq(Vocab)
    BY <1>a, <2>2, PrefillFacts DEF At
  <2>4. slots'[m] \in [Slots -> Seq(Vocab)]
    BY <1>b, <1>c, <1>d, <2>1, <2>3
  <2>5. Typed(m)'
    BY <1>a, <1>b, <2>2, <2>4, ReturnTyped
  <2>6. SharedTyped'
    BY <1>a, <2>2, <2>3 DEF SharedTyped, ProgressAdd
  <2> QED BY <2>5, <2>6
<1>6. CASE EmptyEnds(m)
  <2>1. /\ UNCHANGED <<idx, shared, slots, text, counted, base, crossed, calls>>
        /\ \E ok \in BOOLEAN : job'[m] = [job[m] EXCEPT !.pc = "idle", !.ok = ok]
    BY <1>6, <1>d DEF EmptyEnds, Return
  <2> QED BY <1>a, <1>b, <1>e, <2>1, ReturnTyped
<1>7. CASE PrefillDone(m)
  <2>1. /\ At(m, "prefill") /\ job[m].kind = "one" /\ ProgressFinish
        /\ job'[m] = [job[m] EXCEPT !.pc = "sample"]
        /\ text'[m] = [text[m] EXCEPT ![1] = Ids(m)]
        /\ UNCHANGED <<idx, slots, counted, base, crossed, overlapped, calls>>
    BY <1>7, <1>d DEF PrefillDone, Prefilled, Goto
  <2>2. Ids(m) \in Seq(Vocab) /\ 1 \in 1 .. Size(m)
    BY <1>a, <2>1, PrefillFacts DEF At
  <2>3. text'[m] \in Seq(Seq(Vocab)) /\ Len(text'[m]) = Size(m)
    BY <1>a, <2>1, <2>2, OneReplaced
  <2>4. /\ job'[m] \in Jobs /\ job'[m].pc = "sample" /\ job'[m].ok = job[m].ok
        /\ job'[m].row = job[m].row /\ job'[m].kind = job[m].kind
    BY <1>b, <2>1 DEF Jobs
  <2>5. Typed(m)'
    BY <1>b, <2>1, <2>3, <2>4 DEF Typed, JobShape, Size, At, UsesIdx
  <2>6. SharedTyped'
    BY <1>a, <2>1 DEF SharedTyped, ProgressFinish
  <2> QED BY <2>5, <2>6
<1>8. CASE PromptDone(m)
  <2>1. /\ At(m, "prefill") /\ job[m].kind = "batch" /\ ProgressFinish
        /\ UNCHANGED <<idx, counted, base, crossed, overlapped, calls>>
    BY <1>8 DEF PromptDone, Prefilled
  <2>2. /\ job'[m] \in Jobs /\ job'[m].pc \in {"prompt", "round"} /\ JobShape(m)'
        /\ text'[m] \in Seq(Seq(Vocab)) /\ Len(text'[m]) = Size(m)
        /\ slots'[m] \in [Slots -> Seq(Vocab)] /\ Size(m)' = Size(m)
    BY <1>8, <1>a, PromptDoneEffect
  <2>3. ~ At(m, "prefill")'
    BY <2>2 DEF At
  <2>4. Typed(m)'
    BY <1>b, <2>1, <2>2, <2>3 DEF Typed
  <2>5. SharedTyped'
    BY <1>a, <2>1 DEF SharedTyped, ProgressFinish
  <2> QED BY <2>4, <2>5
<1>9. CASE Sample(m)
  <2>1. /\ job'[m] = [job[m] EXCEPT !.pc = "test"] /\ At(m, "sample") /\ idx' \in Vocab
        /\ crossed' = [o \in Models |-> crossed[o] \/ (o # m /\ job[o].pc \in UsesIdx)]
        /\ UNCHANGED <<shared, slots, text, base, calls>>
    BY <1>9, <1>d DEF Sample, Goto
  <2>4. counted'[m] \in Seq(Counts)
    <3>1. counted'[m] = ApplyPenalties(m)
      BY <1>9, <1>d DEF Sample
    <3> QED BY <1>b, <3>1, AgedCounts
  <2>2. Typed(m)'
    <3>1. /\ job'[m] \in Jobs /\ job'[m].pc = "test" /\ job'[m].ok = job[m].ok
          /\ job'[m].row = job[m].row /\ job'[m].kind = job[m].kind
          /\ job'[m].round < MaxLength
      BY <1>9, <1>b, <2>1 DEF Sample, Jobs, UsesIdx
    <3> QED BY <1>a, <1>b, <2>1, <2>4, <3>1, LoopTyped DEF UsesIdx, At
  <2>3. crossed' \in [Models -> BOOLEAN]
    BY <2>1
  <2> QED BY <1>a, <2>1, <2>2, <2>3 DEF SharedTyped, shared
\* The other steps of the loop change the job and at most one thing more.
<1>m. /\ job[m].eos \in BOOLEAN /\ job[m].logits \in Seq(Seq(Vocab))
      /\ job[m].round \in 0 .. MaxLength
      /\ job[m].pc \in UsesIdx => job[m].round < MaxLength
  BY <1>b, JobFields DEF JobShape
<1> DEFINE LoopJob(pc) ==
      /\ job'[m] \in Jobs /\ job'[m].pc = pc /\ job'[m].ok = job[m].ok
      /\ job'[m].row = job[m].row /\ job'[m].kind = job[m].kind
      /\ pc \in UsesIdx => job'[m].round < MaxLength
<1>l. ASSUME NEW pc \in {"sample"} \cup UsesIdx, LoopJob(pc),
             job[m].pc \in {"sample"} \cup UsesIdx,
             slots'[m] \in [Slots -> Seq(Vocab)], text'[m] \in Seq(Seq(Vocab)),
             Len(text'[m]) = Size(m), counted'[m] \in Seq(Counts),
             UNCHANGED <<idx, shared, base, crossed, calls>>
      PROVE  Typed(m)' /\ SharedTyped'
  BY <1>a, <1>b, <1>e, <1>l, LoopTyped
<1> HIDE DEF LoopJob
<1>10. CASE TestEos(m)
  <2>1. /\ At(m, "test")
        /\ job'[m] = [job[m] EXCEPT !.pc = "append", !.eos = (idx = StopCode)]
        /\ UNCHANGED <<idx, shared, slots, text, counted, base, crossed, calls>>
    BY <1>10, <1>d DEF TestEos
  <2>2. LoopJob("append")
    BY <1>b, <1>m, <2>1 DEF LoopJob, Jobs, At, UsesIdx
  <2> QED BY <1>b, <1>l, <2>1, <2>2 DEF At, UsesIdx
<1>11. CASE AppendToken(m)
  <2>1. /\ At(m, "append") /\ text'[m] = [text[m] EXCEPT ![1] = Append(text[m][1], idx)]
        /\ job'[m] = [job[m] EXCEPT !.pc = "eval"]
        /\ UNCHANGED <<idx, shared, slots, counted, base, crossed, calls>>
    BY <1>11, <1>d DEF AppendToken, Goto
  <2>2. LoopJob("eval")
    BY <1>b, <1>m, <2>1 DEF LoopJob, Jobs, At, UsesIdx
  <2>3. 1 \in 1 .. Size(m)
    BY <1>b, <1>c, <2>1 DEF JobShape, At
  <2>4. Append(text[m][1], idx) \in Seq(Vocab)
    BY <1>b, <2>3
  <2>5. text'[m] \in Seq(Seq(Vocab)) /\ Len(text'[m]) = Size(m)
    BY <1>a, <2>1, <2>3, <2>4, OneReplaced
  <2> QED BY <1>b, <1>l, <2>1, <2>2, <2>5 DEF At, UsesIdx
<1>12. CASE EvalToken(m)
  <2>1. /\ At(m, "eval") /\ slots'[m] = [slots[m] EXCEPT ![1] = Append(slots[m][1], idx)]
        /\ job'[m] = [job[m] EXCEPT !.pc = "report", !.logits = <<slots'[m][1]>>]
        /\ UNCHANGED <<idx, shared, text, counted, base, crossed, calls>>
    BY <1>12, <1>d DEF EvalToken
  <2>3. slots'[m] \in [Slots -> Seq(Vocab)] /\ slots'[m][1] \in Seq(Vocab)
    BY <1>b, <1>c, <2>1
  <2>4. <<slots'[m][1]>> \in Seq(Seq(Vocab))
    BY <2>3
  <2>2. LoopJob("report")
    BY <1>b, <1>m, <2>1, <2>4 DEF LoopJob, Jobs, At, UsesIdx
  <2> QED BY <1>b, <1>l, <2>1, <2>2, <2>3 DEF At, UsesIdx
<1>13. CASE EvalTokenFails(m)
  <2>1. /\ At(m, "eval")
        /\ slots'[m] \in {slots[m], [slots[m] EXCEPT ![1] = Append(slots[m][1], idx)]}
        /\ UNCHANGED <<idx, shared, text, counted, base, crossed, calls>>
        /\ job'[m] = [job[m] EXCEPT !.pc = "idle", !.ok = FALSE]
    BY <1>13, <1>d DEF EvalTokenFails, Return
  <2>3. Append(slots[m][1], idx) \in Seq(Vocab)
    BY <1>b, <1>c
  <2>2. slots'[m] \in [Slots -> Seq(Vocab)]
    BY <1>b, <1>c, <2>1, <2>3
  <2> QED BY <1>a, <1>b, <1>e, <2>1, <2>2, ReturnTyped
<1>14. CASE Report(m)
  <2>1. /\ UNCHANGED <<idx, shared, slots, text, counted, base, crossed, calls>>
        /\ At(m, "report")
    BY <1>14 DEF Report
  <2>2. CASE job'[m] = [job[m] EXCEPT !.pc = "idle", !.ok = TRUE]
    BY <1>a, <1>b, <1>e, <2>1, <2>2, ReturnTyped
  <2>3. CASE job'[m] = [job[m] EXCEPT !.pc = "count"]
    <3>1. LoopJob("count")
      BY <1>b, <1>m, <2>1, <2>3 DEF LoopJob, Jobs, At, UsesIdx
    <3> QED BY <1>b, <1>l, <2>1, <3>1 DEF At, UsesIdx
  <2> QED BY <1>14, <1>d, <2>2, <2>3 DEF Report, Return, Goto
<1>15. CASE Count(m)
  <2>1. /\ At(m, "count")
        /\ counted'[m] = Append(counted[m], [token |-> idx, decays |-> 0])
        /\ job'[m] = [job[m] EXCEPT !.pc = "sample", !.round = job[m].round + 1]
        /\ UNCHANGED <<idx, shared, slots, text, base, crossed, calls>>
    BY <1>15, <1>d DEF Count
  <2>3. counted'[m] \in Seq(Counts)
    BY <1>b, <2>1 DEF Counts
  <2>4. job[m].round + 1 \in 0 .. MaxLength
    BY <1>m, <2>1, CompletionAssumption DEF At, UsesIdx
  <2>2. LoopJob("sample")
    BY <1>b, <1>m, <2>1, <2>4 DEF LoopJob, Jobs, At, UsesIdx
  <2> QED BY <1>b, <1>l, <2>1, <2>2, <2>3 DEF At, UsesIdx
<1>16. CASE LoopEnds(m)
  <2>1. /\ UNCHANGED <<idx, shared, slots, text, counted, base, crossed, calls>>
        /\ job'[m] = [job[m] EXCEPT !.pc = "idle", !.ok = TRUE]
    BY <1>16, <1>d DEF LoopEnds, Return
  <2> QED BY <1>a, <1>b, <1>e, <2>1, ReturnTyped
\* A round of a batch.
<1>r. ASSUME At(m, "round"), text' = [text EXCEPT ![m] = Taken(m)],
             NEW S \in SUBSET (1 .. Size(m)), slots' = [slots EXCEPT ![m] = Fed(m, S)]
      PROVE  /\ slots'[m] \in [Slots -> Seq(Vocab)]
             /\ text'[m] \in Seq(Seq(Vocab)) /\ Len(text'[m]) = Size(m)
  <2>1. /\ job[m].picked \in Seq(Vocab) /\ Len(job[m].picked) = Size(m)
        /\ DOMAIN text[m] = 1 .. Size(m)
    BY <1>b, <1>r, JobFields DEF JobShape, At
  <2>2. \A s \in 1 .. Size(m) : job[m].picked[s] \in Vocab /\ text[m][s] \in Seq(Vocab)
    BY <1>b, <2>1
  <2>3. \A s \in S : s \in 1 .. Size(m)
    OBVIOUS
  <2>4. slots'[m] \in [Slots -> Seq(Vocab)]
    <3>1. slots'[m] = [s \in Slots |-> IF s \in S THEN Append(slots[m][s], job[m].picked[s])
                                      ELSE slots[m][s]]
      BY <1>d, <1>r DEF Fed
    <3>2. ASSUME NEW s \in Slots PROVE slots'[m][s] \in Seq(Vocab)
      <4>1. CASE s \in S
        <5>1. job[m].picked[s] \in Vocab /\ slots[m][s] \in Seq(Vocab)
          BY <1>b, <2>2, <2>3, <4>1
        <5> QED BY <3>1, <4>1, <5>1
      <4>2. CASE s \notin S
        BY <1>b, <3>1, <4>2
      <4> QED BY <4>1, <4>2
    <3> QED BY <3>1, <3>2
  <2>5. text'[m] = [s \in 1 .. Size(m) |-> IF job[m].picked[s] = StopCode THEN text[m][s]
                                           ELSE Append(text[m][s], job[m].picked[s])]
    BY <1>d, <1>r, <2>1 DEF Taken
  <2>6. text'[m] \in Seq(Seq(Vocab)) /\ Len(text'[m]) = Size(m)
    <3>1. \A s \in 1 .. Size(m) : Append(text[m][s], job[m].picked[s]) \in Seq(Vocab)
      BY <2>2
    <3>2. ASSUME NEW s \in 1 .. Size(m) PROVE text'[m][s] \in Seq(Vocab)
      BY <2>2, <2>5, <3>1
    <3>3. text'[m] \in [1 .. Size(m) -> Seq(Vocab)]
      BY <2>5, <3>2
    <3>4. Size(m) \in Nat
      BY <1>c
    <3>5. text'[m] \in Seq(Seq(Vocab))
      BY <3>3, <3>4, SeqDef
    <3>6. DOMAIN text'[m] = 1 .. Size(m)
      BY <3>3
    <3> QED BY <3>4, <3>5, <3>6, LenProperties
  <2> QED BY <2>4, <2>6
<1>17. CASE Round(m)
  <2>1. /\ At(m, "round") /\ UNCHANGED <<idx, shared, counted, base, crossed, calls>>
        /\ job[m].round < MaxLength
    BY <1>17 DEF Round
  <2>2. /\ slots'[m] \in [Slots -> Seq(Vocab)]
        /\ text'[m] \in Seq(Seq(Vocab)) /\ Len(text'[m]) = Size(m)
    BY <1>17, <1>r DEF Round
  <2>3. CASE job'[m] = [job[m] EXCEPT !.pc = "idle", !.ok = TRUE]
    BY <1>a, <1>b, <1>e, <2>1, <2>2, <2>3, ReturnTyped
  <2>4. ASSUME NEW picked \in [1 .. Size(m) -> Vocab],
               job' = [job EXCEPT ![m].round = @ + 1,
                                  ![m].logits = [s \in 1 .. Size(m) |-> slots'[m][s]],
                                  ![m].picked = picked,
                                  ![m].after = [s \in 1 .. Size(m) |-> slots'[m][s]]]
        PROVE  Typed(m)' /\ SharedTyped'
    <3> DEFINE af == [s \in 1 .. Size(m) |-> slots'[m][s]]
    <3>1. job'[m] = [job[m] EXCEPT !.round = job[m].round + 1, !.logits = af,
                                   !.picked = picked, !.after = af]
      BY <1>b, <1>d, <2>4 DEF Jobs
    <3>2. af \in Seq(Seq(Vocab)) /\ Len(af) = Size(m)
      <4>1. \A s \in 1 .. Size(m) : slots'[m][s] \in Seq(Vocab)
        <5>1. Size(m) <= SlotCount
          BY <1>b DEF JobShape
        <5> QED BY <1>c, <2>2, <5>1, SlotFacts DEF Slots
      <4> QED BY <1>c, <4>1
    <3>3. picked \in Seq(Vocab) /\ Len(picked) = Size(m)
      BY <1>c
    <3>4. job[m].round + 1 \in 0 .. MaxLength
      BY <1>m, <2>1, CompletionAssumption
    <3> HIDE DEF af
    <3>5. job'[m] \in Jobs
      BY <1>b, <3>1, <3>2, <3>3, <3>4 DEF Jobs
    <3>6. /\ job'[m].pc = "round" /\ job'[m].row = job[m].row /\ job'[m].kind = job[m].kind
          /\ job'[m].ok = job[m].ok
      BY <1>b, <2>1, <3>1 DEF Jobs, At
    <3>7. job'[m].saved = job[m].saved /\ job'[m].picked = picked /\ job'[m].after = af
      BY <1>b, <3>1 DEF Jobs
    <3>8. Size(m)' = Size(m)
      BY <3>6 DEF Size
    <3>9. JobShape(m)'
      BY <1>b, <2>1, <3>2, <3>3, <3>6, <3>7, <3>8 DEF JobShape, At, UsesIdx
    <3>10. ~ At(m, "prefill")'
      BY <3>6 DEF At
    <3>11. Typed(m)'
      BY <1>b, <2>1, <2>2, <3>5, <3>8, <3>9, <3>10 DEF Typed
    <3> QED BY <1>e, <2>1, <3>11
  <2> QED BY <1>17, <1>d, <2>3, <2>4 DEF Round, Return
<1>18. CASE RoundFails(m)
  <2>1. PICK S \in SUBSET (1 .. Size(m)) : slots' = [slots EXCEPT ![m] = Fed(m, S)]
    BY <1>18 DEF RoundFails
  <2>2. /\ At(m, "round") /\ UNCHANGED <<idx, shared, counted, base, crossed, calls>>
        /\ text' = [text EXCEPT ![m] = Taken(m)]
        /\ job'[m] = [job[m] EXCEPT !.pc = "idle", !.ok = FALSE]
    BY <1>18, <1>d DEF RoundFails, Return
  <2>3. /\ slots'[m] \in [Slots -> Seq(Vocab)]
        /\ text'[m] \in Seq(Seq(Vocab)) /\ Len(text'[m]) = Size(m)
    BY <1>r, <2>1, <2>2
  <2> QED BY <1>a, <1>b, <1>e, <2>2, <2>3, ReturnTyped
<1> QED BY <1>1, <1>2, <1>3, <1>4, <1>5, <1>6, <1>7, <1>8, <1>9, <1>10, <1>11, <1>12,
           <1>13, <1>14, <1>15, <1>16, <1>17, <1>18 DEF Step

\* The variables keep their types, and a prefill never goes beyond its prompt
\* (eval_logits and the loops of gen_completion and gen_completion_batch).
THEOREM TypeCorrect == Spec => []TypeOK
<1>1. Init => ShapeInv
  BY ShapeInit
<1>2. ShapeInv /\ [Next]_vars => ShapeInv'
  BY ShapeStep
<1>3. ShapeInv => TypeOK
  BY DEF ShapeInv
<1> QED BY <1>1, <1>2, <1>3, PTL DEF Spec

\* What a round of a batch does.
LEMMA RoundEffect ==
    ASSUME TypeOK, NEW m \in Models, Typed(m), Round(m) \/ RoundFails(m)
    PROVE  /\ job[m].picked \in [1 .. Size(m) -> Vocab] /\ DOMAIN text[m] = 1 .. Size(m)
           /\ Size(m)' = Size(m) /\ job'[m].row = job[m].row
           /\ text'[m] = [s \in 1 .. Size(m) |->
                            IF job[m].picked[s] = StopCode THEN text[m][s]
                            ELSE Append(text[m][s], job[m].picked[s])]
           /\ Round(m) =>
                slots'[m] = [s \in Slots |-> IF s <= Size(m)
                                            THEN Append(slots[m][s], job[m].picked[s])
                                            ELSE slots[m][s]]
           /\ RoundFails(m) =>
                /\ ~ job'[m].ok
                /\ \A s \in Slots : s > Size(m) => slots'[m][s] = slots[m][s]
           /\ job'[m].kind = "batch" /\ job'[m].pc \in {"idle", "round"}
           /\ At(m, "round")' => job'[m].after = [s \in 1 .. Size(m) |-> slots'[m][s]]
<1>1. /\ job[m] \in Jobs /\ JobShape(m) /\ At(m, "round")
      /\ DOMAIN job = Models /\ DOMAIN slots = Models /\ DOMAIN text = Models
      /\ text[m] \in Seq(Seq(Vocab)) /\ Len(text[m]) = Size(m)
  BY DEF Typed, TypeOK, Round, RoundFails
<1>2. /\ job[m].picked \in Seq(Vocab) /\ Len(job[m].picked) = Size(m)
      /\ job[m].kind = "batch" /\ job[m].row \in Seq(Prompts) /\ job[m].pc = "round"
  BY <1>1, JobFields DEF JobShape, At
<1>3. /\ job[m].picked \in [1 .. Size(m) -> Vocab] /\ DOMAIN text[m] = 1 .. Size(m)
      /\ Size(m) \in Nat
  BY <1>1, <1>2 DEF Size
<1>4. text'[m] = [s \in 1 .. Size(m) |-> IF job[m].picked[s] = StopCode THEN text[m][s]
                                         ELSE Append(text[m][s], job[m].picked[s])]
  BY <1>1, <1>3 DEF Round, RoundFails, Taken
<1>5. ASSUME Round(m)
      PROVE  slots'[m] = [s \in Slots |-> IF s <= Size(m)
                                         THEN Append(slots[m][s], job[m].picked[s])
                                         ELSE slots[m][s]]
  <2>1. slots'[m] = [s \in Slots |-> IF s \in 1 .. Size(m)
                                    THEN Append(slots[m][s], job[m].picked[s])
                                    ELSE slots[m][s]]
    BY <1>1, <1>5 DEF Round, Fed
  <2>2. \A s \in Slots : s \in 1 .. Size(m) <=> s <= Size(m)
    BY <1>3, SlotFacts DEF Slots
  <2> QED BY <2>1, <2>2
<1>6. ASSUME RoundFails(m)
      PROVE  \A s \in Slots : s > Size(m) => slots'[m][s] = slots[m][s]
  <2>1. PICK S \in SUBSET (1 .. Size(m)) : slots' = [slots EXCEPT ![m] = Fed(m, S)]
    BY <1>6 DEF RoundFails
  <2>2. \A s \in Slots : s > Size(m) => s \notin S
    BY <1>3, SlotFacts DEF Slots
  <2> QED BY <1>1, <2>1, <2>2 DEF Fed
<1>7. CASE job'[m] = [job[m] EXCEPT !.pc = "idle", !.ok = TRUE] /\ Round(m)
  <2>1. /\ job'[m].pc = "idle" /\ job'[m].kind = job[m].kind /\ job'[m].row = job[m].row
    BY <1>1, <1>7 DEF Jobs
  <2>2. ~ RoundFails(m) \/ ~ job'[m].ok
    BY <1>1 DEF RoundFails, Return, Jobs
  <2> QED BY <1>2, <1>3, <1>4, <1>5, <1>6, <2>1, <2>2 DEF At, Size
<1>8. CASE RoundFails(m)
  <2>1. job'[m] = [job[m] EXCEPT !.pc = "idle", !.ok = FALSE]
    BY <1>1, <1>8 DEF RoundFails, Return
  <2>2. /\ job'[m].pc = "idle" /\ job'[m].kind = job[m].kind /\ job'[m].row = job[m].row
        /\ ~ job'[m].ok
    BY <1>1, <2>1 DEF Jobs
  <2> QED BY <1>2, <1>3, <1>4, <1>5, <1>6, <2>2 DEF At, Size
<1>9. ASSUME Round(m), NEW picked,
             job' = [job EXCEPT ![m].round = @ + 1,
                                ![m].logits = [s \in 1 .. Size(m) |-> slots'[m][s]],
                                ![m].picked = picked,
                                ![m].after = [s \in 1 .. Size(m) |-> slots'[m][s]]]
      PROVE  /\ job'[m].pc = "round" /\ job'[m].kind = "batch" /\ job'[m].row = job[m].row
             /\ job'[m].after = [s \in 1 .. Size(m) |-> slots'[m][s]]
  <2> DEFINE af == [s \in 1 .. Size(m) |-> slots'[m][s]]
  <2>1. job'[m] = [job[m] EXCEPT !.round = job[m].round + 1, !.logits = af,
                                 !.picked = picked, !.after = af]
    BY <1>1, <1>9 DEF Jobs
  <2> HIDE DEF af
  <2>2. /\ job'[m].pc = "round" /\ job'[m].kind = "batch" /\ job'[m].row = job[m].row
        /\ job'[m].after = af
    BY <1>1, <1>2, <2>1 DEF Jobs
  <2> QED BY <2>2 DEF af
<1>10. CASE Round(m) /\ ~ RoundFails(m)
  <2>1. \/ job'[m] = [job[m] EXCEPT !.pc = "idle", !.ok = TRUE]
        \/ \E picked \in [1 .. Size(m) -> Vocab] :
              job' = [job EXCEPT ![m].round = @ + 1,
                                 ![m].logits = [s \in 1 .. Size(m) |-> slots'[m][s]],
                                 ![m].picked = picked,
                                 ![m].after = [s \in 1 .. Size(m) |-> slots'[m][s]]]
    BY <1>1, <1>10 DEF Round, Return
  <2>2. \/ job'[m] = [job[m] EXCEPT !.pc = "idle", !.ok = TRUE]
        \/ /\ job'[m].pc = "round" /\ job'[m].kind = "batch" /\ job'[m].row = job[m].row
           /\ job'[m].after = [s \in 1 .. Size(m) |-> slots'[m][s]]
    BY <1>9, <1>10, <2>1
  <2> QED BY <1>2, <1>3, <1>4, <1>5, <1>7, <1>10, <2>2 DEF At, Size
<1> QED BY <1>8, <1>10

-----------------------------------------------------------------------------
(* The progress of the prefill. *)

ProgressInv == ShapeInv /\ OnePrefill /\ ProgressOfCall

\* What the other threads see of a step: their calls are as before.
LEMMA OthersStay ==
    ASSUME TypeOK, NEW m \in Models, Step(m)
    PROVE  \A o \in Models : o # m =>
             /\ job'[o] = job[o] /\ slots'[o] = slots[o] /\ text'[o] = text[o]
             /\ counted'[o] = counted[o] /\ base'[o] = base[o]
<1>1. /\ DOMAIN job = Models /\ DOMAIN slots = Models /\ DOMAIN text = Models
      /\ DOMAIN counted = Models /\ DOMAIN base = Models
  BY DEF TypeOK
<1> QED BY <1>1, StepOnly DEF Only

LEMMA ProgressInit == Init => ProgressInv
<1> SUFFICES ASSUME Init PROVE ProgressInv
  OBVIOUS
<1>1. ShapeInv
  BY ShapeInit
<1>2. \A m \in Models : ~ At(m, "prefill")
  BY DEF Init, At, NoJob
<1>3. calls = 0
  BY DEF Init
<1> QED BY <1>1, <1>2, <1>3 DEF ProgressInv, OnePrefill, ProgressOfCall

LEMMA ProgressStep == ProgressInv /\ [Next]_vars => ProgressInv'
<1> SUFFICES ASSUME ProgressInv, [Next]_vars PROVE ProgressInv'
  OBVIOUS
<1>1. ShapeInv /\ ShapeInv'
  BY ShapeStep DEF ProgressInv
<1>2. CASE UNCHANGED vars
  BY <1>1, <1>2 DEF vars, shared, ProgressInv, OnePrefill, ProgressOfCall, At, Ids, Empty
<1>3. ASSUME NEW m \in Models, Step(m) PROVE OnePrefill' /\ ProgressOfCall'
  <2>a. TypeOK /\ Typed(m) /\ JobShape(m) /\ OnePrefill /\ ProgressOfCall /\ DOMAIN job = Models
    BY <1>1, ShapeParts DEF ShapeInv, TypeOK, ProgressInv
  <2>b. \A o \in Models : o # m =>
          /\ job'[o] = job[o] /\ Ids(o)' = Ids(o) /\ (Empty(o)' <=> Empty(o))
          /\ \A pc : At(o, pc)' <=> At(o, pc)
    <3>1. \A o \in Models : o # m => job'[o] = job[o]
      BY <1>3, <2>a, OthersStay
    <3> QED BY <3>1 DEF Ids, At, Empty
  \* A step that neither begins nor is part of a prefill.
  <2>c. ASSUME ~ At(m, "idle"), ~ At(m, "prompt"), ~ At(m, "prefill"),
               ~ At(m, "prefill")', UNCHANGED <<shared, calls>>, job'[m].row = job[m].row
        PROVE  OnePrefill' /\ ProgressOfCall'
    <3>1. job[m].ok
      BY <2>a, <2>c DEF JobShape, At
    <3>2. OnePrefill'
      BY <2>a, <2>b, <2>c DEF OnePrefill, shared
    <3>3. UNCHANGED <<total, finished, progress, overlapped, calls>>
      BY <2>c DEF shared
    <3>4. ASSUME ~ overlapped', NEW o \in Models, At(o, "prefill")'
          PROVE  /\ total' = Len(Ids(o)') /\ finished' = job'[o].pos
                 /\ job'[o].pos > 0 => progress' = <<finished', total'>>
                 /\ job'[o].pos = 0 => progress'[1] = 0
      <4>1. o # m /\ At(o, "prefill") /\ ~ overlapped
        BY <2>b, <2>c, <3>3, <3>4
      <4> QED BY <2>a, <2>b, <3>3, <4>1 DEF ProgressOfCall
    <3>5. ASSUME ~ overlapped', calls' > 0,
                 (\A o \in Models : ~ At(o, "prefill") /\ job[o].ok /\ ~ Empty(o))'
          PROVE  progress' = <<1, 1>> \/ \E o \in Models : At(o, "prompt")'
      <4>0. Empty(m)' <=> Empty(m)
        BY <2>c DEF Empty
      <4>1. \A o \in Models : ~ At(o, "prefill") /\ job[o].ok /\ ~ Empty(o)
        BY <2>b, <2>c, <3>1, <3>5, <4>0
      <4>2. progress = <<1, 1>> \/ \E o \in Models : At(o, "prompt")
        BY <2>a, <3>3, <3>5, <4>1 DEF ProgressOfCall
      <4>3. \A o \in Models : At(o, "prompt") => At(o, "prompt")'
        BY <2>b, <2>c
      <4> QED BY <3>3, <4>2, <4>3
    <3> QED BY <3>2, <3>4, <3>5 DEF ProgressOfCall
  \* A call that starts.
  <2>d. ASSUME NEW new, Enter(m, new), new.pc = "prompt", UNCHANGED shared
        PROVE  OnePrefill' /\ ProgressOfCall'
    <3>1. At(m, "prompt")' /\ ~ At(m, "prefill")'
      <4>1. job'[m] = [new EXCEPT !.known = counted[m]]
        BY <2>a, <2>d DEF Enter
      <4>2. job'[m] \in Jobs
        BY <1>1 DEF ShapeInv, TypeOK
      <4> QED BY <2>d, <4>1, <4>2 DEF At, Jobs
    <3>2. UNCHANGED <<total, finished, progress, overlapped>>
      BY <2>d DEF shared
    <3>3. OnePrefill'
      BY <2>a, <2>b, <3>1, <3>2 DEF OnePrefill
    <3>4. ASSUME ~ overlapped', NEW o \in Models, At(o, "prefill")'
          PROVE  /\ total' = Len(Ids(o)') /\ finished' = job'[o].pos
                 /\ job'[o].pos > 0 => progress' = <<finished', total'>>
                 /\ job'[o].pos = 0 => progress'[1] = 0
      <4>1. o # m /\ At(o, "prefill") /\ ~ overlapped
        BY <2>b, <3>1, <3>2, <3>4
      <4> QED BY <2>a, <2>b, <3>2, <4>1 DEF ProgressOfCall
    <3> QED BY <3>1, <3>3, <3>4 DEF ProgressOfCall
  \* A step that ends a prefill, and how.
  <2>e. ASSUME At(m, "prefill"), ~ At(m, "prefill")', UNCHANGED overlapped,
               progress' = <<1, 1>> \/ ~ job'[m].ok \/ Empty(m)'
        PROVE  OnePrefill' /\ ProgressOfCall'
    <3>1. OnePrefill'
      BY <2>a, <2>b, <2>e DEF OnePrefill
    <3>2. ~ overlapped' => \A o \in Models : ~ At(o, "prefill")'
      BY <2>a, <2>b, <2>e DEF OnePrefill
    <3> QED BY <2>e, <3>1, <3>2 DEF ProgressOfCall
  <2>1. ASSUME NEW ids \in Prompts, Complete(m, ids) PROVE OnePrefill' /\ ProgressOfCall'
    <3>1. [NoJob EXCEPT !.pc = "prompt", !.row = <<ids>>].pc = "prompt"
      BY DEF NoJob
    <3> QED BY <2>1, <2>d, <3>1 DEF Complete
  <2>2. ASSUME NEW row, CompleteBatch(m, row) PROVE OnePrefill' /\ ProgressOfCall'
    <3> DEFINE new == [NoJob EXCEPT !.pc = "prompt", !.kind = "batch", !.row = row,
                              !.saved  = [s \in 1 .. Len(row) |-> slots[m][s]],
                              !.picked = [s \in 1 .. Len(row) |-> StopCode],
                              !.after  = [s \in 1 .. Len(row) |-> << >>]]
    <3>1. new.pc = "prompt"
      BY DEF NoJob
    <3>2. Enter(m, new) /\ UNCHANGED shared
      BY <2>2 DEF CompleteBatch
    <3> HIDE DEF new
    <3> QED BY <2>d, <3>1, <3>2
  <2>3. CASE BeginPrompt(m)
    <3>1. /\ At(m, "prompt") /\ ProgressStart(Len(Ids(m)))
          /\ overlapped' = \E other \in Models \ {m} : At(other, "prefill")
          /\ job'[m] = [job[m] EXCEPT !.pc = "prefill", !.pos = 0]
      BY <2>3, <2>a DEF BeginPrompt
    <3>2. /\ job'[m].row = job[m].row /\ job'[m].at = job[m].at
          /\ job'[m].pc = "prefill" /\ job'[m].pos = 0
      BY <2>a, <3>1 DEF Typed, Jobs
    <3>3. Ids(m)' = Ids(m) /\ At(m, "prefill")'
      BY <3>2 DEF Ids, At
    <3>4. ~ overlapped' => \A o \in Models : At(o, "prefill")' => o = m
      BY <2>b, <3>1
    <3>5. OnePrefill'
      BY <3>4 DEF OnePrefill
    <3>6. total' = Len(Ids(m)') /\ finished' = 0 /\ progress'[1] = 0
      BY <3>1, <3>3 DEF ProgressStart
    <3> QED BY <3>2, <3>3, <3>4, <3>5, <3>6 DEF ProgressOfCall
  <2>4. CASE EvalChunk(m)
    <3>1. /\ At(m, "prefill") /\ Piece(m) > 0 /\ UNCHANGED <<calls, overlapped>>
          /\ ProgressAdd(Piece(m))
          /\ job'[m] = [job[m] EXCEPT !.pos = @ + Piece(m), !.logits = <<slots'[m][1]>>]
      BY <2>4, <2>a DEF EvalChunk
    <3>2. /\ job'[m].row = job[m].row /\ job'[m].at = job[m].at
          /\ job'[m].pc = "prefill" /\ job'[m].pos = job[m].pos + Piece(m)
      BY <2>a, <3>1 DEF Typed, Jobs, At
    <3>3. Ids(m)' = Ids(m) /\ At(m, "prefill")'
      BY <3>2 DEF Ids, At
    <3>4. ~ overlapped' => \A o \in Models : At(o, "prefill")' => o = m
      BY <2>a, <2>b, <3>1 DEF OnePrefill
    <3>5. OnePrefill'
      BY <3>4 DEF OnePrefill
    <3>6. /\ Piece(m) \in Nat /\ job[m].pos + Piece(m) <= Len(Ids(m)) /\ job[m].pos \in Nat
          /\ Ids(m) \in Seq(Vocab)
      BY <2>a, <3>1, PrefillFacts, JobFields DEF At, Typed
    <3>7. ASSUME ~ overlapped
          PROVE  /\ total' = Len(Ids(m)') /\ finished' = job'[m].pos
                 /\ progress' = <<finished', total'>> /\ job'[m].pos # 0
      <4>1. total = Len(Ids(m)) /\ finished = job[m].pos
        BY <2>a, <3>1, <3>7 DEF ProgressOfCall
      <4>2. total > 0
        BY <3>1, <3>6, <4>1
      <4> QED BY <3>1, <3>2, <3>3, <3>6, <4>1, <4>2 DEF ProgressAdd
    <3> QED BY <3>1, <3>3, <3>4, <3>5, <3>7 DEF ProgressOfCall
  <2>5. CASE EvalChunkFails(m)
    <3>1. /\ At(m, "prefill") /\ UNCHANGED overlapped
          /\ job'[m] = [job[m] EXCEPT !.pc = "idle", !.ok = FALSE]
      BY <2>5, <2>a DEF EvalChunkFails, Return
    <3>2. ~ job'[m].ok /\ job'[m].pc = "idle"
      BY <2>a, <3>1 DEF Typed, Jobs
    <3> QED BY <2>e, <3>1, <3>2 DEF At
  <2>10. CASE EmptyEnds(m)
    <3>1. /\ At(m, "prefill") /\ Ids(m) = << >> /\ UNCHANGED overlapped
          /\ \/ job'[m] = [job[m] EXCEPT !.pc = "idle", !.ok = FALSE]
             \/ /\ job[m].at = 1
                /\ job'[m] = [job[m] EXCEPT !.pc = "idle", !.ok = TRUE]
      BY <2>10, <2>a DEF EmptyEnds, Return, shared
    <3>2. /\ job'[m].pc = "idle" /\ job'[m].row = job[m].row
          /\ job[m].at # 1 => ~ job'[m].ok
      BY <2>a, <3>1 DEF Typed, Jobs
    <3>3. job[m].at = 1 => Empty(m)'
      <4>1. job[m].at \in 1 .. Size(m) /\ Ids(m) = job[m].row[job[m].at]
            /\ job[m].row \in Seq(Prompts)
        BY <2>a, <3>1, PrefillFacts, JobFields DEF At, Typed
      <4> QED BY <3>1, <3>2, <4>1 DEF Empty, Size
    <3> QED BY <2>e, <3>1, <3>2, <3>3 DEF At
  <2>6. CASE PrefillDone(m) \/ PromptDone(m)
    <3>1. At(m, "prefill") /\ UNCHANGED overlapped /\ progress' = <<1, 1>>
      BY <2>6 DEF PrefillDone, PromptDone, Prefilled, ProgressFinish
    <3>2. ~ At(m, "prefill")'
      <4>1. CASE PrefillDone(m)
        BY <2>a, <4>1 DEF PrefillDone, Goto, At, Typed, Jobs
      <4>2. CASE PromptDone(m)
        <5>1. job'[m].pc \in {"prompt", "round"}
          BY <2>a, <4>2, PromptDoneEffect
        <5> QED BY <5>1 DEF At
      <4> QED BY <2>6, <4>1, <4>2
    <3> QED BY <2>e, <3>1, <3>2
  <2>7. CASE Sample(m) \/ TestEos(m) \/ AppendToken(m) \/ Count(m)
    <3>1. ~ At(m, "idle") /\ ~ At(m, "prompt") /\ ~ At(m, "prefill")
          /\ UNCHANGED <<shared, calls>>
      BY <2>7 DEF Sample, TestEos, AppendToken, Count, At
    <3>2. ~ At(m, "prefill")' /\ job'[m].row = job[m].row
      BY <2>a, <2>7 DEF Sample, TestEos, AppendToken, Count, At, Goto, Typed, Jobs
    <3> QED BY <2>c, <3>1, <3>2
  <2>8. CASE EvalToken(m) \/ EvalTokenFails(m) \/ Report(m) \/ LoopEnds(m)
    <3>1. ~ At(m, "idle") /\ ~ At(m, "prompt") /\ ~ At(m, "prefill")
          /\ UNCHANGED <<shared, calls>>
      BY <2>8 DEF EvalToken, EvalTokenFails, Report, LoopEnds, At
    <3>2. ~ At(m, "prefill")' /\ job'[m].row = job[m].row
      BY <2>a, <2>8 DEF EvalToken, EvalTokenFails, Report, LoopEnds, At, Goto, Return, Typed, Jobs
    <3> QED BY <2>c, <3>1, <3>2
  <2>9. CASE Round(m) \/ RoundFails(m)
    <3>1. ~ At(m, "idle") /\ ~ At(m, "prompt") /\ ~ At(m, "prefill")
          /\ UNCHANGED <<shared, calls>> /\ At(m, "round")
      BY <2>9 DEF Round, RoundFails, At
    <3>2. job'[m].pc \in {"idle", "round"} /\ job'[m].row = job[m].row
      BY <2>a, <2>9, RoundEffect
    <3>3. ~ At(m, "prefill")'
      BY <3>2 DEF At
    <3> QED BY <2>c, <3>1, <3>2, <3>3
  <2> QED BY <1>3, <2>1, <2>2, <2>3, <2>4, <2>5, <2>6, <2>7, <2>8, <2>9,
             <2>10
          DEF Step
<1> QED BY <1>1, <1>2, <1>3 DEF Next, ProgressInv

\* Without overlapping prefills, the progress shown is the one of the prompt
\* being read, and a prefill that ended well is shown as complete
\* (_prefill_progress_start, eval_logits and _prefill_progress_finish).
THEOREM ProgressOfCallCorrect == Spec => []ProgressOfCall
<1>1. ProgressInv => ProgressOfCall
  BY DEF ProgressInv
<1> QED BY <1>1, ProgressInit, ProgressStep, PTL DEF Spec

-----------------------------------------------------------------------------
(* The logits a token is sampled from. *)

\* What SampledAfterOwn says of one model.
OwnLogits(m) ==
    /\ At(m, "round") /\ (\A b \in 2 .. Size(m) : job[m].row[b] # << >>) =>
         \A s \in 1 .. Size(m) : job[m].after[s] = slots[m][s]
    /\ At(m, "sample") => job[m].logits = <<slots[m][1]>>

LogitsInv == ShapeInv /\ \A m \in Models : LogitsFollow(m) /\ OwnLogits(m)

LEMMA LogitsInit == Init => LogitsInv
<1> SUFFICES ASSUME Init PROVE LogitsInv
  OBVIOUS
<1>1. ShapeInv
  BY ShapeInit
<1>2. \A m \in Models : job[m].pc = "idle"
  BY DEF Init, NoJob
<1> QED BY <1>1, <1>2 DEF LogitsInv, LogitsFollow, OwnLogits, At

\* A thread that is in none of the steps that the invariant speaks of.
LEMMA NoLogits ==
    ASSUME NEW m, job'[m].pc \in {"idle", "test", "append", "eval"}
    PROVE  LogitsFollow(m)' /\ OwnLogits(m)'
BY DEF LogitsFollow, OwnLogits, At

LEMMA LogitsStep == LogitsInv /\ [Next]_vars => LogitsInv'
<1> SUFFICES ASSUME LogitsInv, [Next]_vars PROVE LogitsInv'
  OBVIOUS
<1>1. ShapeInv /\ ShapeInv'
  BY ShapeStep DEF LogitsInv
<1>2. CASE UNCHANGED vars
  BY <1>1, <1>2 DEF vars, LogitsInv, LogitsFollow, OwnLogits, At, Size, Ids
<1>3. ASSUME NEW m \in Models, Step(m), NEW o \in Models, o # m
      PROVE  LogitsFollow(o)' /\ OwnLogits(o)'
  <2>1. job'[o] = job[o] /\ slots'[o] = slots[o]
    BY <1>1, <1>3, OthersStay DEF ShapeInv
  <2>2. LogitsFollow(o) /\ OwnLogits(o)
    BY DEF LogitsInv
  <2> QED BY <2>1, <2>2 DEF LogitsFollow, OwnLogits, At, Size
<1>4. ASSUME NEW m \in Models, Step(m) PROVE LogitsFollow(m)' /\ OwnLogits(m)'
  <2>a. /\ TypeOK /\ Typed(m) /\ JobShape(m) /\ LogitsFollow(m) /\ OwnLogits(m)
        /\ DOMAIN job = Models /\ DOMAIN slots = Models /\ job[m] \in Jobs
        /\ slots[m] \in [Slots -> Seq(Vocab)] /\ 1 \in Slots
    BY <1>1, ShapeParts, SlotFacts DEF LogitsInv, ShapeInv, TypeOK
  \* A call that starts has no logits.
  <2>b. ASSUME NEW new, Enter(m, new), new.pc = "prompt", new.at = 1, new.logits = << >>
        PROVE  LogitsFollow(m)' /\ OwnLogits(m)'
    <3>1. job'[m].pc = "prompt" /\ job'[m].at = 1 /\ job'[m].logits = << >>
      BY <2>a, <2>b DEF Enter
    <3>2. \A s \in 1 .. job'[m].at - 1 : FALSE
      BY <3>1
    <3> QED BY <3>1, <3>2 DEF LogitsFollow, OwnLogits, At
  <2>1. ASSUME NEW ids \in Prompts, Complete(m, ids)
        PROVE  LogitsFollow(m)' /\ OwnLogits(m)'
    <3> DEFINE new == [NoJob EXCEPT !.pc = "prompt", !.row = <<ids>>]
    <3>1. new.pc = "prompt" /\ new.at = 1 /\ new.logits = << >>
      BY DEF NoJob
    <3>2. Enter(m, new)
      BY <2>1 DEF Complete
    <3> HIDE DEF new
    <3> QED BY <2>b, <3>1, <3>2
  <2>2. ASSUME NEW row, CompleteBatch(m, row)
        PROVE  LogitsFollow(m)' /\ OwnLogits(m)'
    <3> DEFINE new == [NoJob EXCEPT !.pc = "prompt", !.kind = "batch", !.row = row,
                              !.saved  = [s \in 1 .. Len(row) |-> slots[m][s]],
                              !.picked = [s \in 1 .. Len(row) |-> StopCode],
                              !.after  = [s \in 1 .. Len(row) |-> << >>]]
    <3>1. new.pc = "prompt" /\ new.at = 1 /\ new.logits = << >>
      BY DEF NoJob
    <3>2. Enter(m, new)
      BY <2>2 DEF CompleteBatch
    <3> HIDE DEF new
    <3> QED BY <2>b, <3>1, <3>2
  <2>3. CASE BeginPrompt(m)
    <3>1. /\ At(m, "prompt")
          /\ job'[m] = [job[m] EXCEPT !.pc = "prefill", !.pos = 0]
      BY <2>3, <2>a DEF BeginPrompt
    <3>2. /\ job'[m].pc = "prefill" /\ job'[m].pos = 0 /\ job'[m].kind = job[m].kind
          /\ job'[m].row = job[m].row /\ job'[m].at = job[m].at
      BY <2>a, <3>1 DEF Jobs
    <3>3. /\ job'[m].logits = job[m].logits /\ job'[m].saved = job[m].saved
          /\ job'[m].after = job[m].after
      BY <2>a, <3>1 DEF Jobs
    <3> QED BY <2>a, <3>1, <3>2, <3>3 DEF LogitsFollow, OwnLogits, At
  <2>4. CASE EvalChunk(m)
    <3>1. /\ At(m, "prefill") /\ Piece(m) > 0
          /\ job'[m] = [job[m] EXCEPT !.pos = @ + Piece(m), !.logits = <<slots'[m][1]>>]
      BY <2>4, <2>a DEF EvalChunk
    <3>2. /\ job'[m].pc = "prefill" /\ job'[m].pos = job[m].pos + Piece(m)
          /\ job'[m].kind = job[m].kind
          /\ job'[m].row = job[m].row /\ job'[m].at = job[m].at
      BY <2>a, <3>1 DEF Jobs, At
    <3>3. /\ job'[m].logits = <<slots'[m][1]>> /\ job'[m].saved = job[m].saved
          /\ job'[m].after = job[m].after
      BY <2>a, <3>1 DEF Jobs
    <3>4. Piece(m) \in Nat /\ job[m].pos \in Nat
      BY <2>a, <3>1, PrefillFacts, JobFields DEF At
    <3>5. job'[m].pos > 0
      BY <3>1, <3>2, <3>4
    <3>6. job[m].pc = "prefill"
      BY <3>1 DEF At
    <3> QED BY <2>a, <3>2, <3>3, <3>5, <3>6 DEF LogitsFollow, OwnLogits, At
  <2>5. CASE EvalChunkFails(m) \/ EmptyEnds(m) \/ EvalTokenFails(m) \/ LoopEnds(m)
    <3>1. \E ok : Return(m, ok)
      BY <2>5 DEF EvalChunkFails, EmptyEnds, EvalTokenFails, LoopEnds
    <3>2. job'[m].pc = "idle"
      BY <2>a, <3>1 DEF Return, Jobs
    <3> QED BY <3>2, NoLogits
  \* The logits of a prefill that is complete are those of its last token.
  <2>c. ASSUME Prefilled(m), job[m].at = 1 \/ Ids(m) # << >>
        PROVE  job[m].logits = <<slots[m][1]>>
    <3>1. At(m, "prefill") /\ job[m].pos = Len(Ids(m)) /\ job[m].logits # << >>
      BY <2>c DEF Prefilled
    <3>2. Ids(m) \in Seq(Vocab) /\ job[m].pos \in Nat
      BY <2>a, <3>1, PrefillFacts, JobFields DEF At
    <3>3. job[m].pos > 0
      <4>1. CASE job[m].at = 1
        BY <2>a, <3>1, <3>2, <4>1 DEF LogitsFollow, At
      <4>2. CASE Ids(m) # << >>
        BY <3>1, <3>2, <4>2, EmptySeq
      <4> QED BY <2>c, <4>1, <4>2
    <3> QED BY <2>a, <3>1, <3>3 DEF LogitsFollow, At
  <2>6. CASE PrefillDone(m)
    <3>1. /\ Prefilled(m) /\ job[m].kind = "one" /\ UNCHANGED slots
          /\ job'[m] = [job[m] EXCEPT !.pc = "sample"]
      BY <2>6, <2>a DEF PrefillDone, Goto
    <3>2. job[m].at \in 1 .. Size(m) /\ Size(m) \in Nat /\ Size(m) <= 1
      BY <2>a, <3>1, PrefillFacts DEF Prefilled, At, JobShape
    <3>3. job[m].at = 1
      BY <3>2
    <3>4. job'[m].pc = "sample" /\ job'[m].logits = job[m].logits
      BY <2>a, <3>1 DEF Jobs
    <3> QED BY <2>c, <3>1, <3>3, <3>4 DEF LogitsFollow, OwnLogits, At
  <2>7. CASE PromptDone(m)
    <3> DEFINE b == job[m].at
    <3>1. /\ b \in 1 .. Size(m) /\ Size(m)' = Size(m)
          /\ job'[m].pc \in {"prompt", "round"} /\ (job'[m].pc = "round" <=> b = Size(m))
          /\ job'[m].at = b + 1 /\ job'[m].row = job[m].row
      BY <2>7, <2>a, PromptDoneEffect
    <3>2. /\ job'[m].saved = [job[m].saved EXCEPT ![b] = slots[m][1]]
          /\ job'[m].after = [job[m].after EXCEPT ![b] = job[m].logits[1]]
          /\ b = Size(m) =>
               slots'[m] = [s \in Slots |-> IF s <= Size(m) THEN job'[m].saved[s]
                                          ELSE slots[m][s]]
      BY <2>7, <2>a, PromptDoneEffect
    <3>3. Prefilled(m) /\ job[m].kind = "batch" /\ job[m].pc = "prefill"
      BY <2>7 DEF PromptDone, Prefilled, At
    <3>4. /\ DOMAIN job[m].saved = 1 .. Size(m) /\ DOMAIN job[m].after = 1 .. Size(m)
          /\ Ids(m) = job[m].row[b] /\ Size(m) \in Nat /\ Size(m) <= SlotCount
      BY <2>a, <3>3, JobFields, PrefillFacts DEF JobShape
    <3>5. ASSUME NEW s \in 1 .. b, s = 1 \/ job[m].row[s] # << >>
          PROVE  job'[m].after[s] = job'[m].saved[s]
      <4>1. CASE s = b
        <5>1. job[m].logits[1] = slots[m][1]
          BY <2>c, <3>3, <3>4, <3>5, <4>1
        <5> QED BY <3>1, <3>2, <3>4, <4>1, <5>1
      <4>2. CASE s # b
        <5>1. s \in 1 .. b - 1 /\ s \in 1 .. Size(m)
          BY <3>1, <3>4, <4>2
        <5>2. job[m].after[s] = job[m].saved[s]
          BY <2>a, <3>3, <3>5, <5>1 DEF LogitsFollow
        <5> QED BY <3>2, <3>4, <4>2, <5>1, <5>2
      <4> QED BY <4>1, <4>2
    <3> HIDE DEF b
    <3>6. CASE b # Size(m)
      <4>1. job'[m].pc = "prompt"
        BY <3>1, <3>6
      <4>2. job'[m].at # 1 /\ job'[m].at - 1 = b
        BY <3>1, <3>4
      <4> QED BY <3>1, <3>5, <4>1, <4>2 DEF LogitsFollow, OwnLogits, At
    <3>7. CASE b = Size(m)
      <4>1. job'[m].pc = "round"
        BY <3>1, <3>7
      <4>2. \A s \in 1 .. Size(m) : slots'[m][s] = job'[m].saved[s]
        <5>1. \A s \in 1 .. Size(m) : s \in Slots /\ s <= Size(m)
          BY <3>4, SlotFacts DEF Slots
        <5> QED BY <3>2, <3>7, <5>1
      <4>3. ASSUME \A s \in 2 .. Size(m) : job[m].row[s] # << >>, NEW s \in 1 .. Size(m)
            PROVE  job'[m].after[s] = slots'[m][s]
        <5>1. s = 1 \/ s \in 2 .. Size(m)
          BY <3>4
        <5> QED BY <3>5, <3>7, <4>2, <4>3, <5>1
      <4>4. OwnLogits(m)'
        BY <3>1, <4>1, <4>3 DEF OwnLogits, At
      <4> QED BY <4>1, <4>4 DEF LogitsFollow
    <3> QED BY <3>6, <3>7
  <2>8. CASE Sample(m) \/ TestEos(m) \/ AppendToken(m)
    <3>1. job'[m].pc \in {"test", "append", "eval"}
      BY <2>a, <2>8 DEF Sample, TestEos, AppendToken, Goto, Jobs
    <3> QED BY <3>1, NoLogits
  <2>9. CASE EvalToken(m)
    <3>1. job'[m] = [job[m] EXCEPT !.pc = "report", !.logits = <<slots'[m][1]>>]
      BY <2>9, <2>a DEF EvalToken
    <3>2. job'[m].pc = "report" /\ job'[m].logits = <<slots'[m][1]>>
      BY <2>a, <3>1 DEF Jobs
    <3> QED BY <3>2 DEF LogitsFollow, OwnLogits, At
  <2>10. CASE Report(m)
    <3>1. At(m, "report") /\ UNCHANGED slots
      BY <2>10 DEF Report
    <3>2. CASE Return(m, TRUE)
      <4>1. job'[m].pc = "idle"
        BY <2>a, <3>2 DEF Return, Jobs
      <4> QED BY <4>1, NoLogits
    <3>3. CASE Goto(m, "count")
      <4>1. job'[m].pc = "count" /\ job'[m].logits = job[m].logits
        BY <2>a, <3>3 DEF Goto, Jobs
      <4> QED BY <2>a, <3>1, <4>1 DEF LogitsFollow, OwnLogits, At
    <3> QED BY <2>10, <3>2, <3>3 DEF Report
  <2>11. CASE Count(m)
    <3>1. At(m, "count") /\ UNCHANGED slots
      BY <2>11 DEF Count
    <3>2. job'[m].pc = "sample" /\ job'[m].logits = job[m].logits
      BY <2>a, <2>11 DEF Count, Jobs
    <3> QED BY <2>a, <3>1, <3>2 DEF LogitsFollow, OwnLogits, At
  <2>12. CASE Round(m) \/ RoundFails(m)
    <3>1. /\ job'[m].pc \in {"idle", "round"} /\ Size(m)' = Size(m)
          /\ At(m, "round")' => job'[m].after = [s \in 1 .. Size(m) |-> slots'[m][s]]
      BY <2>12, <2>a, RoundEffect
    <3>2. CASE job'[m].pc = "idle"
      BY <3>2, NoLogits
    <3>3. CASE job'[m].pc = "round"
      <4>1. \A s \in 1 .. Size(m) : job'[m].after[s] = slots'[m][s]
        BY <3>1, <3>3 DEF At
      <4> QED BY <3>1, <3>3, <4>1 DEF LogitsFollow, OwnLogits, At
    <3> QED BY <3>1, <3>2, <3>3
  <2> QED BY <1>4, <2>1, <2>2, <2>3, <2>4, <2>5, <2>6, <2>7, <2>8, <2>9, <2>10, <2>11, <2>12
          DEF Step
<1>5. ASSUME NEW m \in Models, Step(m)
      PROVE  \A o \in Models : LogitsFollow(o)' /\ OwnLogits(o)'
  BY <1>3, <1>4, <1>5
<1> QED BY <1>1, <1>2, <1>5 DEF Next, LogitsInv

\* A token is sampled from the logits of its own slot, as long as no prompt
\* behind the first is empty (the loops of gen_completion, and those of
\* gen_completion_batch, which samples the first token after each prompt).
THEOREM SampledAfterOwnCorrect == Spec => []SampledAfterOwn
<1>1. LogitsInv => SampledAfterOwn
  BY DEF LogitsInv, OwnLogits, SampledAfterOwn
<1> QED BY <1>1, LogitsInit, LogitsStep, PTL DEF Spec

-----------------------------------------------------------------------------
(* Sequences of tokens. *)

LEMMA BehindFacts ==
    ASSUME NEW ids \in Seq(Vocab), NEW n \in 0 .. Len(ids)
    PROVE  /\ Behind(n, ids) \in Seq(Vocab)
           /\ Len(Behind(n, ids)) = Len(ids) - n
           /\ \A i \in 1 .. Len(ids) - n : Behind(n, ids)[i] = ids[n + i]
<1>1. n \in Nat /\ Len(ids) \in Nat /\ n <= Len(ids)
  OBVIOUS
<1>2. \A i \in n + 1 .. Len(ids) : ids[i] \in Vocab
  BY <1>1
<1>3. /\ Behind(n, ids) \in Seq(Vocab)
      /\ Len(Behind(n, ids)) = IF n + 1 <= Len(ids) THEN Len(ids) - (n + 1) + 1 ELSE 0
      /\ \A i \in 1 .. Len(ids) - (n + 1) + 1 : Behind(n, ids)[i] = ids[n + 1 + i - 1]
  BY <1>1, <1>2, SubSeqProperties DEF Behind
<1>4. Len(Behind(n, ids)) = Len(ids) - n
  BY <1>1, <1>3
<1>5. ASSUME NEW i \in 1 .. Len(ids) - n PROVE Behind(n, ids)[i] = ids[n + i]
  <2>1. i \in 1 .. Len(ids) - (n + 1) + 1 /\ n + 1 + i - 1 = n + i
    BY <1>1
  <2> QED BY <1>3, <2>1
<1> QED BY <1>3, <1>4, <1>5

LEMMA BehindAll ==
    ASSUME NEW ids \in Seq(Vocab)
    PROVE  Behind(Len(ids), ids) = << >>
<1>1. Len(ids) \in 0 .. Len(ids)
  OBVIOUS
<1>2. Behind(Len(ids), ids) \in Seq(Vocab) /\ Len(Behind(Len(ids), ids)) = 0
  BY <1>1, BehindFacts
<1> QED BY <1>2, EmptySeq

LEMMA BehindConcat ==
    ASSUME NEW a \in Seq(Vocab), NEW b \in Seq(Vocab)
    PROVE  Behind(Len(a), a \o b) = b
<1>1. /\ a \o b \in Seq(Vocab) /\ Len(a \o b) = Len(a) + Len(b)
      /\ Len(a) \in 0 .. Len(a \o b) /\ Len(a) \in Nat /\ Len(b) \in Nat
      /\ \A i \in 1 .. Len(a) + Len(b) :
           (a \o b)[i] = IF i <= Len(a) THEN a[i] ELSE b[i - Len(a)]
  BY ConcatProperties
<1>2. /\ Behind(Len(a), a \o b) \in Seq(Vocab)
      /\ Len(Behind(Len(a), a \o b)) = Len(b)
      /\ \A i \in 1 .. Len(b) : Behind(Len(a), a \o b)[i] = (a \o b)[Len(a) + i]
  <2> DEFINE c == a \o b
  <2>1. c \in Seq(Vocab) /\ Len(a) \in 0 .. Len(c) /\ Len(c) - Len(a) = Len(b)
    BY <1>1
  <2> HIDE DEF c
  <2>2. /\ Behind(Len(a), c) \in Seq(Vocab)
        /\ Len(Behind(Len(a), c)) = Len(c) - Len(a)
        /\ \A i \in 1 .. Len(c) - Len(a) : Behind(Len(a), c)[i] = c[Len(a) + i]
    BY <2>1, BehindFacts
  <2> QED BY <2>1, <2>2 DEF c
<1>3. \A i \in 1 .. Len(b) : (a \o b)[Len(a) + i] = b[i]
  BY <1>1
<1> QED BY <1>2, <1>3, SeqEqual

LEMMA ConcatAppend ==
    ASSUME NEW a \in Seq(Vocab), NEW b \in Seq(Vocab), NEW t \in Vocab
    PROVE  Append(a \o b, t) = a \o Append(b, t)
<1>1. <<t>> \in Seq(Vocab) /\ a \o b \in Seq(Vocab)
  BY ConcatProperties
<1>2. Append(a \o b, t) = (a \o b) \o <<t>>
  BY <1>1, AppendIsConcat
<1>3. Append(b, t) = b \o <<t>>
  BY AppendIsConcat
<1>4. (a \o b) \o <<t>> = a \o (b \o <<t>>)
  BY <1>1, ConcatAssociative
<1> QED BY <1>2, <1>3, <1>4

-----------------------------------------------------------------------------
(* The tokens the sampler has counted. *)

\* A thread in its loop still refers to its prompt.
AtPrompt(m) == job[m].pc \in {"sample"} \cup UsesIdx => job[m].at \in 1 .. Size(m)

\* What CountsFollowText says of one model.
CountsFollow(m) ==
    ~ At(m, "idle") =>
      LET old == job[m].known IN
      /\ Len(counted[m]) = Len(old) + Counted(m)
      /\ \A i \in 1 .. Len(old) :
           /\ counted[m][i].token = old[i].token
           /\ counted[m][i].decays = old[i].decays + Aged(m, Drawn(m))
      /\ \A k \in 1 .. Counted(m) :
           /\ ~ crossed[m] =>
                counted[m][Len(old) + k].token = text[m][1][Len(Ids(m)) + k]
           /\ counted[m][Len(old) + k].decays = Aged(m, Drawn(m) - k)

CountsInv ==
    ShapeInv /\ \A m \in Models : AtPrompt(m) /\ CountsFollowCall(m) /\ CountsFollow(m)

LEMMA AgedFacts ==
    ASSUME NEW m \in Models
    PROVE  /\ Aged(m, 0) = 0
           /\ \A n \in Nat : Aged(m, n) \in Nat /\ Aged(m, n + 1) = Aged(m, n) + Aged(m, 1)
BY DEF Aged

\* Another thread changes idx under a call only if that call is marked.
LEMMA IdxStays ==
    ASSUME TypeOK, NEW m \in Models, Step(m), NEW o \in Models, o # m
    PROVE  \/ crossed'[o]
           \/ crossed'[o] = crossed[o] /\ (idx' = idx \/ job[o].pc \notin UsesIdx)
<1>1. crossed \in [Models -> BOOLEAN]
  BY DEF TypeOK
<1>2. ASSUME NEW ids \in Prompts, Complete(m, ids) PROVE crossed'[o] = crossed[o] /\ idx' = idx
  BY <1>1, <1>2 DEF Complete, Enter
<1>3. ASSUME NEW row, CompleteBatch(m, row) PROVE crossed'[o] = crossed[o] /\ idx' = idx
  BY <1>1, <1>3 DEF CompleteBatch, Enter
<1>4. CASE Sample(m)
  BY <1>1, <1>4 DEF Sample
<1>5. CASE UNCHANGED <<idx, crossed>>
  BY <1>5
<1>6. ASSUME \/ BeginPrompt(m) \/ EvalChunk(m) \/ EvalChunkFails(m) \/ EmptyEnds(m)
             \/ PrefillDone(m) \/ PromptDone(m) \/ TestEos(m) \/ AppendToken(m)
             \/ EvalToken(m) \/ EvalTokenFails(m) \/ Report(m) \/ Count(m) \/ LoopEnds(m)
             \/ Round(m) \/ RoundFails(m)
      PROVE  UNCHANGED <<idx, crossed>>
  BY <1>6 DEF BeginPrompt, EvalChunk, EvalChunkFails, EmptyEnds, PrefillDone, PromptDone,
              TestEos, AppendToken, EvalToken, EvalTokenFails, Report, Count, LoopEnds,
              Round, RoundFails
<1> QED BY <1>2, <1>3, <1>4, <1>5, <1>6 DEF Step

LEMMA CountsInit == Init => CountsInv
<1> SUFFICES ASSUME Init PROVE CountsInv
  OBVIOUS
<1>1. ShapeInv
  BY ShapeInit
<1>2. \A m \in Models : job[m].pc = "idle"
  BY DEF Init, NoJob
<1> QED BY <1>1, <1>2 DEF CountsInv, AtPrompt, CountsFollowCall, CountsFollow, At, UsesIdx

LEMMA CountsTyped ==
    ASSUME NEW c \in Seq(Counts), NEW i \in 1 .. Len(c)
    PROVE  c[i].token \in Vocab /\ c[i].decays \in Nat
<1>1. c[i] \in Counts
  OBVIOUS
<1> QED BY <1>1 DEF Counts

\* A call whose counts, and the tokens it has counted, stay.
LEMMA CountsKept ==
    ASSUME NEW m \in Models, CountsFollow(m), ~ At(m, "idle"),
           counted'[m] = counted[m], job'[m].known = job[m].known,
           Counted(m)' = Counted(m), Drawn(m)' = Drawn(m),
           crossed'[m] = crossed[m],
           \A k \in 1 .. Counted(m) :
             text'[m][1][Len(Ids(m)') + k] = text[m][1][Len(Ids(m)) + k]
    PROVE  CountsFollow(m)'
BY DEF CountsFollow

LEMMA CountsStep == CountsInv /\ [Next]_vars => CountsInv'
<1> SUFFICES ASSUME CountsInv, [Next]_vars PROVE CountsInv'
  OBVIOUS
<1>1. ShapeInv /\ ShapeInv'
  BY ShapeStep DEF CountsInv
<1>2. CASE UNCHANGED vars
  BY <1>1, <1>2 DEF vars, CountsInv, AtPrompt, CountsFollowCall, CountsFollow, Size, Ids, At,
                    Counted, Drawn
<1>3. ASSUME NEW m \in Models, Step(m), NEW o \in Models, o # m
      PROVE  AtPrompt(o)' /\ CountsFollowCall(o)' /\ CountsFollow(o)'
  <2>1. job'[o] = job[o] /\ text'[o] = text[o] /\ counted'[o] = counted[o]
    BY <1>1, <1>3, OthersStay DEF ShapeInv
  <2>2. AtPrompt(o) /\ CountsFollowCall(o) /\ CountsFollow(o)
    BY DEF CountsInv
  <2>3. \/ crossed'[o]
        \/ crossed'[o] = crossed[o] /\ (idx' = idx \/ job[o].pc \notin UsesIdx)
    BY <1>1, <1>3, IdxStays DEF ShapeInv
  <2>4. /\ Ids(o)' = Ids(o) /\ Size(o)' = Size(o)
        /\ Counted(o)' = Counted(o) /\ Drawn(o)' = Drawn(o) /\ (At(o, "idle")' <=> At(o, "idle"))
    BY <2>1 DEF Ids, Size, Counted, Drawn, At
  <2>5. AtPrompt(o)'
    BY <2>1, <2>2, <2>4 DEF AtPrompt
  <2>6. CountsFollowCall(o)'
    BY <2>1, <2>2, <2>3, <2>4 DEF CountsFollowCall, UsesIdx
  <2>7. CountsFollow(o)'
    BY <2>1, <2>2, <2>3, <2>4 DEF CountsFollow
  <2> QED BY <2>5, <2>6, <2>7
<1>4. ASSUME NEW m \in Models, Step(m)
      PROVE  AtPrompt(m)' /\ CountsFollowCall(m)' /\ CountsFollow(m)'
  <2>a. /\ TypeOK /\ Typed(m) /\ JobShape(m) /\ AtPrompt(m) /\ CountsFollowCall(m)
        /\ CountsFollow(m)
        /\ DOMAIN job = Models /\ DOMAIN text = Models /\ DOMAIN counted = Models
        /\ job[m] \in Jobs /\ text[m] \in Seq(Seq(Vocab)) /\ Len(text[m]) = Size(m)
        /\ counted[m] \in Seq(Counts) /\ idx \in Vocab /\ crossed \in [Models -> BOOLEAN]
        /\ job'[m] \in Jobs /\ job[m].round \in Nat
    <3>1. job[m].round \in Nat /\ job'[m] \in Jobs
      BY <1>1, CompletionAssumption DEF ShapeInv, TypeOK, Jobs
    <3> QED BY <1>1, <3>1, ShapeParts DEF CountsInv, ShapeInv, TypeOK
  \* A call that has ended.
  <2>z. job'[m].pc = "idle" => AtPrompt(m)' /\ CountsFollowCall(m)' /\ CountsFollow(m)'
    BY DEF AtPrompt, CountsFollowCall, CountsFollow, At, UsesIdx
  \* A call that starts.
  <2>s. ASSUME NEW new \in Jobs, Enter(m, new), new.pc = "prompt", new.round = 0
        PROVE  AtPrompt(m)' /\ CountsFollowCall(m)' /\ CountsFollow(m)'
    <3>1. /\ job'[m].pc = "prompt" /\ job'[m].round = 0 /\ job'[m].known = counted[m]
      BY <2>a, <2>s, EnterEffect
    <3>2. counted'[m] = counted[m]
      <4>1. ASSUME NEW ids \in Prompts, Complete(m, ids) PROVE UNCHANGED counted
        BY <4>1 DEF Complete
      <4>2. ASSUME NEW row, CompleteBatch(m, row) PROVE UNCHANGED counted
        BY <4>2 DEF CompleteBatch
      <4>3. At(m, "idle")
        BY <2>s DEF Enter
      <4>4. \/ \E ids \in Prompts : Complete(m, ids)
            \/ \E n \in BatchSizes : \E row \in [1 .. n -> Prompts] : CompleteBatch(m, row)
        BY <1>4, <4>3 DEF Step, At, BeginPrompt, EvalChunk, EvalChunkFails, EmptyEnds,
              PrefillDone, PromptDone, Prefilled, Sample, TestEos, AppendToken, EvalToken,
              EvalTokenFails, Report, Count, LoopEnds, Round, RoundFails
      <4> QED BY <4>1, <4>2, <4>4
    <3>3. Drawn(m)' = 0 /\ Counted(m)' = 0
      BY <3>1 DEF Drawn, Counted, UsesIdx
    <3>4. CountsFollow(m)'
      <4>1. Len(counted[m]) \in Nat /\ \A i \in 1 .. Len(counted[m]) : counted[m][i].decays \in Nat
        BY <2>a, CountsTyped
      <4>2. Aged(m, 0) = 0
        BY AgedFacts
      <4>3. \A i \in 1 .. Len(counted[m]) :
              counted[m][i].decays = counted[m][i].decays + Aged(m, 0)
        BY <4>1, <4>2
      <4>4. Len(counted[m]) = Len(counted[m]) + 0
        BY <4>1
      <4> QED BY <3>1, <3>2, <3>3, <4>3, <4>4 DEF CountsFollow
    <3> QED BY <3>1, <3>4 DEF AtPrompt, CountsFollowCall, UsesIdx
  \* A step of a call outside the loop of gen_completion.
  <2>b. ASSUME job[m].pc \in {"prompt", "prefill", "round"},
               job'[m].pc \in {"prompt", "prefill", "round"},
               job'[m].kind = job[m].kind, job'[m].known = job[m].known,
               job[m].pc # "round" => job'[m].round = job[m].round,
               job[m].pc = "round" => job'[m].pc = "round",
               counted'[m] = counted[m], crossed'[m] = crossed[m]
        PROVE  AtPrompt(m)' /\ CountsFollowCall(m)' /\ CountsFollow(m)'
    <3>1. Counted(m) = 0 /\ Counted(m)' = 0
      BY <2>a, <2>b DEF Counted, JobShape, CountsFollowCall
    <3>2. Drawn(m) = 0 /\ Drawn(m)' = 0
      BY <2>a, <2>b DEF Drawn, JobShape, CountsFollowCall, UsesIdx
    <3>3. CountsFollow(m)'
      BY <2>a, <2>b, <3>1, <3>2, CountsKept DEF At
    <3>4. CountsFollowCall(m)'
      BY <2>a, <2>b DEF CountsFollowCall, UsesIdx
    <3> QED BY <2>b, <3>3, <3>4 DEF AtPrompt, UsesIdx
  \* A step of the loop: what the prompt is.
  <2>c. ASSUME job[m].pc \in {"sample"} \cup UsesIdx
        PROVE  /\ Ids(m) \in Seq(Vocab) /\ Size(m) \in Nat \ {0} /\ 1 \in 1 .. Size(m)
               /\ text[m][1] \in Seq(Vocab) /\ job[m].kind = "one" /\ ~ At(m, "idle")
               /\ Counted(m) = job[m].round
    <3>1. job[m].at \in 1 .. Size(m) /\ job[m].row \in Seq(Prompts)
      BY <2>a, <2>c, JobFields DEF AtPrompt
    <3>2. Ids(m) \in Prompts /\ Size(m) \in Nat \ {0}
      BY <3>1 DEF Ids, Size
    <3> QED BY <2>a, <2>c, <3>2, CompletionAssumption DEF JobShape, UsesIdx, At, Counted
  \* A step of the loop that draws and counts nothing; the response may grow.
  <2>d. ASSUME job[m].pc \in UsesIdx, job'[m].pc \in UsesIdx,
               job'[m].row = job[m].row, job'[m].at = job[m].at,
               job'[m].kind = job[m].kind, job'[m].known = job[m].known,
               job'[m].round = job[m].round,
               UNCHANGED <<counted, idx>>, crossed'[m] = crossed[m],
               \/ /\ text'[m] = text[m]
                  /\ job[m].pc \in {"eval", "report", "count"}
                       <=> job'[m].pc \in {"eval", "report", "count"}
               \/ /\ text'[m][1] = Append(text[m][1], idx)
                  /\ job[m].pc = "append" /\ job'[m].pc = "eval"
        PROVE  AtPrompt(m)' /\ CountsFollowCall(m)' /\ CountsFollow(m)'
    <3>1. Ids(m)' = Ids(m) /\ Size(m)' = Size(m)
      BY <2>d DEF Ids, Size
    <3>2. /\ Ids(m) \in Seq(Vocab) /\ text[m][1] \in Seq(Vocab) /\ Counted(m) = job[m].round
          /\ ~ At(m, "idle") /\ Len(Ids(m)) \in Nat /\ Len(text[m][1]) \in Nat
      BY <2>c, <2>d
    <3>3. Len(text[m][1]) >= Len(Ids(m)) + job[m].round
      BY <2>a, <2>d, <3>2 DEF CountsFollowCall
    <3>4. AtPrompt(m)'
      BY <2>a, <2>d, <3>1 DEF AtPrompt
    <3>5. CountsFollowCall(m)'
      <4>1. CASE text'[m] = text[m] /\ (job[m].pc \in {"eval", "report", "count"}
                                         <=> job'[m].pc \in {"eval", "report", "count"})
        BY <2>a, <2>d, <3>1, <4>1 DEF CountsFollowCall, UsesIdx
      <4>2. CASE /\ text'[m][1] = Append(text[m][1], idx)
                 /\ job[m].pc = "append" /\ job'[m].pc = "eval"
        <5>1. Len(text[m][1]) = Len(Ids(m)) + job[m].round
          BY <2>a, <3>2, <4>2 DEF CountsFollowCall, UsesIdx
        <5>2. /\ Len(text'[m][1]) = Len(text[m][1]) + 1
              /\ text'[m][1][Len(text[m][1]) + 1] = idx
          BY <2>a, <3>2, <4>2, AppendProperties
        <5> QED BY <2>a, <2>d, <3>1, <3>2, <4>2, <5>1, <5>2 DEF CountsFollowCall, UsesIdx
      <4> QED BY <2>d, <4>1, <4>2
    <3>6. \A k \in 1 .. Counted(m) :
            text'[m][1][Len(Ids(m)') + k] = text[m][1][Len(Ids(m)) + k]
      <4> SUFFICES ASSUME NEW k \in 1 .. Counted(m)
                   PROVE  text'[m][1][Len(Ids(m)) + k] = text[m][1][Len(Ids(m)) + k]
        BY <3>1
      <4>1. Len(Ids(m)) + k \in 1 .. Len(text[m][1])
        BY <2>a, <3>2, <3>3
      <4> QED BY <2>a, <2>d, <3>2, <4>1, AppendProperties
    <3>7. Drawn(m)' = Drawn(m) /\ Counted(m)' = Counted(m)
      BY <2>d DEF Drawn, Counted
    <3> QED BY <2>a, <2>d, <3>2, <3>4, <3>5, <3>6, <3>7, CountsKept
  <2>1. ASSUME NEW ids \in Prompts, Complete(m, ids)
        PROVE  AtPrompt(m)' /\ CountsFollowCall(m)' /\ CountsFollow(m)'
    <3> DEFINE new == [NoJob EXCEPT !.pc = "prompt", !.row = <<ids>>]
    <3>1. new.pc = "prompt" /\ new.round = 0
      BY DEF NoJob
    <3>2. new \in Jobs
      <4>1. <<ids>> \in Seq(Prompts)
        OBVIOUS
      <4> QED BY <4>1, NoJobTyped DEF Jobs
    <3>3. Enter(m, new)
      BY <2>1 DEF Complete
    <3> HIDE DEF new
    <3> QED BY <2>s, <3>1, <3>2, <3>3
  <2>2. ASSUME NEW n \in BatchSizes, NEW row \in [1 .. n -> Prompts], CompleteBatch(m, row)
        PROVE  AtPrompt(m)' /\ CountsFollowCall(m)' /\ CountsFollow(m)'
    <3> DEFINE sv == [s \in 1 .. Len(row) |-> slots[m][s]]
               pk == [s \in 1 .. Len(row) |-> StopCode]
               af == [s \in 1 .. Len(row) |-> << >>]
               new == [NoJob EXCEPT !.pc = "prompt", !.kind = "batch", !.row = row,
                                    !.saved = sv, !.picked = pk, !.after = af]
    <3>1. /\ n \in Nat \ {0} /\ n <= SlotCount /\ row \in Seq(Prompts) /\ Len(row) = n
      BY SlotFacts, CompletionAssumption, SeqDef
    <3>2. /\ sv \in Seq(Seq(Vocab)) /\ pk \in Seq(Vocab) /\ af \in Seq(Seq(Vocab))
      <4>1. \A s \in 1 .. n : slots[m][s] \in Seq(Vocab)
        BY <2>a, <3>1, SlotFacts DEF Slots, TypeOK
      <4>2. sv \in Seq(Seq(Vocab))
        BY <3>1, <4>1
      <4>3. pk \in Seq(Vocab)
        BY <3>1, CompletionAssumption
      <4>4. af \in Seq(Seq(Vocab))
        BY <3>1
      <4> QED BY <4>2, <4>3, <4>4
    <3>3. Enter(m, new)
      BY <2>2 DEF CompleteBatch
    <3> HIDE DEF sv, pk, af
    <3>4. new.pc = "prompt" /\ new.round = 0
      BY DEF NoJob
    <3>5. new \in Jobs
      BY <3>1, <3>2, NoJobTyped DEF Jobs
    <3> HIDE DEF new
    <3> QED BY <2>s, <3>3, <3>4, <3>5
  <2>3. CASE BeginPrompt(m)
    <3>1. /\ job[m].pc = "prompt" /\ job'[m] = [job[m] EXCEPT !.pc = "prefill", !.pos = 0]
          /\ counted'[m] = counted[m] /\ crossed'[m] = crossed[m]
      BY <2>a, <2>3 DEF BeginPrompt, At
    <3>2. /\ job'[m].pc = "prefill" /\ job'[m].kind = job[m].kind
          /\ job'[m].known = job[m].known /\ job'[m].round = job[m].round
      BY <2>a, <3>1 DEF Jobs
    <3> QED BY <2>b, <3>1, <3>2
  <2>14. CASE EvalChunk(m)
    <3>1. /\ job[m].pc = "prefill"
          /\ job'[m] = [job[m] EXCEPT !.pos = @ + Piece(m), !.logits = <<slots'[m][1]>>]
          /\ counted'[m] = counted[m] /\ crossed'[m] = crossed[m]
      BY <2>a, <2>14 DEF EvalChunk, At
    <3>2. /\ job'[m].pc = "prefill" /\ job'[m].kind = job[m].kind
          /\ job'[m].known = job[m].known /\ job'[m].round = job[m].round
      BY <2>a, <3>1 DEF Jobs
    <3> QED BY <2>b, <3>1, <3>2
  <2>4. CASE EvalChunkFails(m) \/ EmptyEnds(m) \/ EvalTokenFails(m) \/ LoopEnds(m)
    <3>1. \E ok : Return(m, ok)
      BY <2>4 DEF EvalChunkFails, EmptyEnds, EvalTokenFails, LoopEnds
    <3>2. job'[m].pc = "idle"
      BY <2>a, <3>1 DEF Return, Jobs
    <3> QED BY <2>z, <3>2
  <2>5. CASE PrefillDone(m)
    <3>1. /\ At(m, "prefill") /\ job'[m] = [job[m] EXCEPT !.pc = "sample"]
          /\ text'[m] = [text[m] EXCEPT ![1] = Ids(m)]
          /\ counted'[m] = counted[m] /\ crossed'[m] = crossed[m] /\ job[m].kind = "one"
      BY <2>5, <2>a DEF PrefillDone, Prefilled, Goto
    <3>2. /\ job'[m].pc = "sample" /\ job'[m].row = job[m].row /\ job'[m].at = job[m].at
          /\ job'[m].known = job[m].known /\ job'[m].round = job[m].round
          /\ job'[m].kind = job[m].kind
      BY <2>a, <3>1 DEF Jobs
    <3>3. /\ Ids(m) \in Seq(Vocab) /\ job[m].at \in 1 .. Size(m) /\ 1 \in DOMAIN text[m]
      BY <2>a, <3>1, PrefillFacts DEF At
    <3>4. Ids(m)' = Ids(m) /\ Size(m)' = Size(m)
      BY <3>2 DEF Ids, Size
    <3>5. text'[m][1] = Ids(m) /\ job[m].round = 0
      BY <2>a, <3>1, <3>3 DEF CountsFollowCall, At
    <3>6. Counted(m) = 0 /\ Counted(m)' = 0 /\ Drawn(m) = 0 /\ Drawn(m)' = 0
      BY <3>1, <3>2, <3>5 DEF Counted, Drawn, UsesIdx, At
    <3>7. CountsFollow(m)'
      <4>1. ~ At(m, "idle") /\ \A k \in 1 .. Counted(m) : FALSE
        BY <3>1, <3>6 DEF At
      <4> QED BY <2>a, <3>1, <3>2, <3>6, <4>1, CountsKept
    <3>8. CountsFollowCall(m)'
      BY <3>2, <3>3, <3>4, <3>5 DEF CountsFollowCall
    <3> QED BY <3>2, <3>3, <3>4, <3>7, <3>8 DEF AtPrompt
  <2>6. CASE PromptDone(m)
    <3>1. /\ job'[m].pc \in {"prompt", "round"} /\ job'[m].kind = "batch"
      BY <2>6, <2>a, PromptDoneEffect
    <3>2. /\ job[m].pc = "prefill" /\ job[m].kind = "batch"
          /\ counted'[m] = counted[m] /\ crossed'[m] = crossed[m]
      BY <2>6 DEF PromptDone, Prefilled, At
    <3>3. job'[m].known = job[m].known /\ job'[m].round = job[m].round
      <4> DEFINE sv == [job[m].saved EXCEPT ![job[m].at] = slots[m][1]]
                 pc == IF job[m].at = Size(m) THEN "round" ELSE "prompt"
      <4>1. PICK t \in Vocab :
              job' = [job EXCEPT ![m].pc = pc, ![m].saved = sv, ![m].at = job[m].at + 1,
                                 ![m].picked[job[m].at] = t,
                                 ![m].after[job[m].at] = job[m].logits[1]]
        BY <2>6 DEF PromptDone
      <4> HIDE DEF sv, pc
      <4> DEFINE pk == [job[m].picked EXCEPT ![job[m].at] = t]
                 af == [job[m].after EXCEPT ![job[m].at] = job[m].logits[1]]
      <4>2. job'[m] = [job[m] EXCEPT !.pc = pc, !.saved = sv, !.at = job[m].at + 1,
                                     !.picked = pk, !.after = af]
        BY <2>a, <4>1 DEF Jobs
      <4> HIDE DEF pk, af
      <4> QED BY <2>a, <4>2 DEF Jobs
    <3> QED BY <2>b, <3>1, <3>2, <3>3
  <2>7. CASE Sample(m)
    <3>1. /\ At(m, "sample") /\ job'[m] = [job[m] EXCEPT !.pc = "test"]
          /\ text'[m] = text[m] /\ crossed'[m] = crossed[m]
          /\ counted'[m] = ApplyPenalties(m)
      BY <2>7, <2>a DEF Sample, Goto
    <3>2. /\ job'[m].pc = "test" /\ job'[m].row = job[m].row /\ job'[m].at = job[m].at
          /\ job'[m].known = job[m].known /\ job'[m].round = job[m].round
          /\ job'[m].kind = job[m].kind
      BY <2>a, <3>1 DEF Jobs
    <3>3. /\ Ids(m)' = Ids(m) /\ Size(m)' = Size(m) /\ job[m].pc = "sample"
          /\ job[m].kind = "one" /\ Counted(m) = job[m].round
      BY <2>c, <3>1, <3>2 DEF Ids, Size, At
    <3>4. /\ Drawn(m) = job[m].round /\ Drawn(m)' = job[m].round + 1
          /\ Counted(m)' = Counted(m)
      BY <2>a, <3>2, <3>3 DEF Drawn, Counted, UsesIdx
    <3>5. /\ Len(counted'[m]) = Len(counted[m]) /\ Len(counted[m]) \in Nat
          /\ \A i \in 1 .. Len(counted[m]) :
               /\ counted'[m][i].token = counted[m][i].token
               /\ counted'[m][i].decays = counted[m][i].decays + Aged(m, 1)
      BY <2>a, <3>1, AgedCounts
    <3>6. CountsFollow(m)'
      <4> DEFINE old == job[m].known
                 r == job[m].round
      <4>1. /\ Len(old) \in Nat /\ r \in Nat /\ \A i \in 1 .. Len(old) : old[i].decays \in Nat
        BY <2>a, JobFields, CountsTyped
      <4>2. /\ Len(counted[m]) = Len(old) + r
            /\ \A i \in 1 .. Len(old) :
                 /\ counted[m][i].token = old[i].token
                 /\ counted[m][i].decays = old[i].decays + Aged(m, r)
            /\ \A k \in 1 .. r :
                 /\ ~ crossed[m] =>
                      counted[m][Len(old) + k].token = text[m][1][Len(Ids(m)) + k]
                 /\ counted[m][Len(old) + k].decays = Aged(m, r - k)
        BY <2>a, <3>3, <3>4 DEF CountsFollow, At
      <4> HIDE DEF old, r
      <4>3. ASSUME NEW i \in 1 .. Len(old)
            PROVE  /\ counted'[m][i].token = old[i].token
                   /\ counted'[m][i].decays = old[i].decays + Aged(m, r + 1)
        <5>1. i \in 1 .. Len(counted[m])
          BY <4>1, <4>2
        <5>2. Aged(m, r) \in Nat /\ Aged(m, 1) \in Nat /\ Aged(m, r + 1) = Aged(m, r) + Aged(m, 1)
          BY <4>1, AgedFacts
        <5>3. /\ counted'[m][i].token = counted[m][i].token
              /\ counted'[m][i].decays = counted[m][i].decays + Aged(m, 1)
          BY <3>5, <5>1
        <5>4. /\ counted[m][i].token = old[i].token
              /\ counted[m][i].decays = old[i].decays + Aged(m, r)
          BY <4>2
        <5>5. old[i].decays \in Nat
          BY <4>1
        <5> QED BY <5>2, <5>3, <5>4, <5>5
      <4>4. ASSUME NEW k \in 1 .. r
            PROVE  /\ ~ crossed[m] =>
                        counted'[m][Len(old) + k].token = text[m][1][Len(Ids(m)) + k]
                   /\ counted'[m][Len(old) + k].decays = Aged(m, r + 1 - k)
        <5>1. Len(old) + k \in 1 .. Len(counted[m])
          BY <4>1, <4>2
        <5>2. r - k \in Nat /\ r + 1 - k = (r - k) + 1
          BY <4>1
        <5>3. Aged(m, r + 1 - k) = Aged(m, r - k) + Aged(m, 1)
          BY <5>2, AgedFacts
        <5> QED BY <3>5, <4>2, <5>1, <5>3
      <4>5. /\ job'[m].known = old /\ Counted(m)' = r /\ Drawn(m)' = r + 1
            /\ Len(counted'[m]) = Len(old) + r
        BY <3>2, <3>3, <3>4, <3>5, <4>2 DEF old, r
      <4>6. text'[m][1] = text[m][1] /\ Ids(m)' = Ids(m) /\ crossed'[m] = crossed[m]
        BY <3>1, <3>3
      <4>7. Len(counted'[m]) = Len(job'[m].known) + Counted(m)'
        BY <4>5
      <4>8. \A i \in 1 .. Len(job'[m].known) :
              /\ counted'[m][i].token = job'[m].known[i].token
              /\ counted'[m][i].decays = job'[m].known[i].decays + Aged(m, Drawn(m)')
        BY <4>3, <4>5
      <4>9. \A k \in 1 .. Counted(m)' :
              /\ ~ crossed'[m] => counted'[m][Len(job'[m].known) + k].token
                                    = text'[m][1][Len(Ids(m)') + k]
              /\ counted'[m][Len(job'[m].known) + k].decays = Aged(m, Drawn(m)' - k)
        <5> TAKE k \in 1 .. Counted(m)'
        <5>1. k \in 1 .. r
          BY <4>5
        <5>2. /\ ~ crossed[m] =>
                   counted'[m][Len(old) + k].token = text[m][1][Len(Ids(m)) + k]
              /\ counted'[m][Len(old) + k].decays = Aged(m, r + 1 - k)
          BY <4>4, <5>1
        <5>3. counted'[m][Len(job'[m].known) + k].decays = Aged(m, Drawn(m)' - k)
          <6>1. Drawn(m)' - k = r + 1 - k
            BY <4>1, <4>5
          <6>2. job'[m].known = old
            BY <4>5
          <6> QED BY <5>2, <6>1, <6>2
        <5>4. ASSUME ~ crossed'[m]
              PROVE  counted'[m][Len(job'[m].known) + k].token
                       = text'[m][1][Len(Ids(m)') + k]
          BY <4>5, <4>6, <5>2, <5>4
        <5> QED BY <5>3, <5>4
      <4> QED BY <4>7, <4>8, <4>9 DEF CountsFollow, Aged
    <3>7. CountsFollowCall(m)' /\ AtPrompt(m)'
      BY <2>a, <3>1, <3>2, <3>3 DEF CountsFollowCall, AtPrompt, UsesIdx
    <3> QED BY <3>6, <3>7
  <2>8. CASE TestEos(m)
    <3>1. /\ At(m, "test") /\ job'[m] = [job[m] EXCEPT !.pc = "append", !.eos = (idx = StopCode)]
          /\ UNCHANGED <<idx, text, counted, crossed>>
      BY <2>8, <2>a DEF TestEos
    <3>2. /\ job'[m].pc = "append" /\ job'[m].row = job[m].row /\ job'[m].at = job[m].at
          /\ job'[m].known = job[m].known /\ job'[m].round = job[m].round
          /\ job'[m].kind = job[m].kind
      BY <2>a, <3>1 DEF Jobs
    <3> QED BY <2>d, <3>1, <3>2 DEF At, UsesIdx
  <2>9. CASE AppendToken(m)
    <3>1. /\ At(m, "append") /\ job'[m] = [job[m] EXCEPT !.pc = "eval"]
          /\ text'[m] = [text[m] EXCEPT ![1] = Append(text[m][1], idx)]
          /\ UNCHANGED <<idx, counted, crossed>>
      BY <2>9, <2>a DEF AppendToken, Goto
    <3>2. /\ job'[m].pc = "eval" /\ job'[m].row = job[m].row /\ job'[m].at = job[m].at
          /\ job'[m].known = job[m].known /\ job'[m].round = job[m].round
          /\ job'[m].kind = job[m].kind
      BY <2>a, <3>1 DEF Jobs
    <3>3. 1 \in 1 .. Size(m) /\ job[m].pc = "append"
      BY <2>c, <3>1 DEF At, UsesIdx
    <3>4. text'[m][1] = Append(text[m][1], idx)
      BY <2>a, <3>1, <3>3
    <3> QED BY <2>d, <3>1, <3>2, <3>3, <3>4 DEF UsesIdx
  <2>10. CASE EvalToken(m)
    <3>1. /\ At(m, "eval")
          /\ job'[m] = [job[m] EXCEPT !.pc = "report", !.logits = <<slots'[m][1]>>]
          /\ UNCHANGED <<idx, text, counted, crossed>>
      BY <2>10, <2>a DEF EvalToken, shared
    <3>2. /\ job'[m].pc = "report" /\ job'[m].row = job[m].row /\ job'[m].at = job[m].at
          /\ job'[m].known = job[m].known /\ job'[m].round = job[m].round
          /\ job'[m].kind = job[m].kind
      BY <2>a, <3>1 DEF Jobs
    <3> QED BY <2>d, <3>1, <3>2 DEF At, UsesIdx
  <2>11. CASE Report(m)
    <3>1. At(m, "report") /\ UNCHANGED <<idx, text, counted, crossed>>
      BY <2>11 DEF Report
    <3>2. CASE Return(m, TRUE)
      <4>1. job'[m].pc = "idle"
        BY <2>a, <3>2 DEF Return, Jobs
      <4> QED BY <2>z, <4>1
    <3>3. CASE Goto(m, "count")
      <4>1. /\ job'[m].pc = "count" /\ job'[m].row = job[m].row /\ job'[m].at = job[m].at
            /\ job'[m].known = job[m].known /\ job'[m].round = job[m].round
            /\ job'[m].kind = job[m].kind
        BY <2>a, <3>3 DEF Goto, Jobs
      <4> QED BY <2>d, <3>1, <4>1 DEF At, UsesIdx
    <3> QED BY <2>11, <3>2, <3>3 DEF Report
  <2>12. CASE Count(m)
    <3>1. /\ At(m, "count")
          /\ job'[m] = [job[m] EXCEPT !.pc = "sample", !.round = job[m].round + 1]
          /\ counted'[m] = Append(counted[m], [token |-> idx, decays |-> 0])
          /\ UNCHANGED <<idx, text, crossed>>
      BY <2>12, <2>a DEF Count
    <3>2. /\ job'[m].pc = "sample" /\ job'[m].row = job[m].row /\ job'[m].at = job[m].at
          /\ job'[m].known = job[m].known /\ job'[m].round = job[m].round + 1
          /\ job'[m].kind = job[m].kind
      BY <2>a, <3>1 DEF Jobs
    <3>3. /\ Ids(m)' = Ids(m) /\ Size(m)' = Size(m) /\ job[m].pc = "count"
          /\ job[m].kind = "one" /\ Counted(m) = job[m].round
          /\ Ids(m) \in Seq(Vocab) /\ Len(Ids(m)) \in Nat
      BY <2>c, <3>1, <3>2 DEF Ids, Size, At, UsesIdx
    <3> DEFINE old == job[m].known
               r == job[m].round
               new == [token |-> idx, decays |-> 0]
    <3>4. /\ Len(old) \in Nat /\ r \in Nat /\ Len(counted[m]) \in Nat /\ new \in Counts
      BY <2>a, JobFields DEF Counts
    <3>5. /\ Drawn(m) = r + 1 /\ Drawn(m)' = r + 1 /\ Counted(m)' = r + 1
      BY <2>a, <3>2, <3>3 DEF Drawn, Counted, UsesIdx
    <3>6. /\ Len(counted[m]) = Len(old) + r
          /\ \A i \in 1 .. Len(old) :
               /\ counted[m][i].token = old[i].token
               /\ counted[m][i].decays = old[i].decays + Aged(m, r + 1)
          /\ \A k \in 1 .. r :
               /\ ~ crossed[m] =>
                    counted[m][Len(old) + k].token = text[m][1][Len(Ids(m)) + k]
               /\ counted[m][Len(old) + k].decays = Aged(m, r + 1 - k)
      BY <2>a, <3>3, <3>5 DEF CountsFollow, At
    <3>7. /\ Len(text[m][1]) = Len(Ids(m)) + r + 1
          /\ ~ crossed[m] => text[m][1][Len(Ids(m)) + r + 1] = idx
      BY <2>a, <3>3, <3>4 DEF CountsFollowCall, UsesIdx
    <3>8. new.token = idx /\ new.decays = 0
      OBVIOUS
    <3> HIDE DEF old, r, new
    <3>9. /\ Len(counted'[m]) = Len(counted[m]) + 1
          /\ \A i \in 1 .. Len(counted[m]) : counted'[m][i] = counted[m][i]
          /\ counted'[m][Len(counted[m]) + 1] = new
      BY <2>a, <3>1, <3>4, AppendProperties DEF new
    <3>10. ASSUME NEW i \in 1 .. Len(old)
           PROVE  /\ counted'[m][i].token = old[i].token
                  /\ counted'[m][i].decays = old[i].decays + Aged(m, r + 1)
      <4>1. i \in 1 .. Len(counted[m])
        BY <3>4, <3>6
      <4> QED BY <3>6, <3>9, <4>1
    <3>11. ASSUME NEW k \in 1 .. r + 1
           PROVE  /\ ~ crossed[m] =>
                       counted'[m][Len(old) + k].token = text[m][1][Len(Ids(m)) + k]
                  /\ counted'[m][Len(old) + k].decays = Aged(m, r + 1 - k)
      <4>1. CASE k = r + 1
        <5>1. Len(old) + k = Len(counted[m]) + 1 /\ Len(Ids(m)) + k = Len(Ids(m)) + r + 1
              /\ r + 1 - k = 0
          BY <3>3, <3>4, <3>6, <4>1
        <5>2. counted'[m][Len(old) + k] = new
          BY <3>9, <5>1
        <5> QED BY <3>7, <3>8, <5>1, <5>2, AgedFacts
      <4>2. CASE k # r + 1
        <5>1. k \in 1 .. r /\ Len(old) + k \in 1 .. Len(counted[m])
          BY <3>4, <3>6, <4>2
        <5> QED BY <3>6, <3>9, <5>1
      <4> QED BY <4>1, <4>2
    <3>12. Len(counted'[m]) = Len(old) + (r + 1)
      BY <3>4, <3>6, <3>9
    <3>13. job'[m].known = old
      BY <3>2 DEF old
    <3>14. CountsFollow(m)'
      <4>1. text'[m][1] = text[m][1] /\ Ids(m)' = Ids(m) /\ crossed'[m] = crossed[m]
        BY <3>1, <3>3
      <4>2. Counted(m)' = r + 1 /\ Drawn(m)' = r + 1
        BY <3>5
      <4>7. Len(counted'[m]) = Len(job'[m].known) + Counted(m)'
        BY <3>12, <3>13, <4>2
      <4>8. \A i \in 1 .. Len(job'[m].known) :
              /\ counted'[m][i].token = job'[m].known[i].token
              /\ counted'[m][i].decays = job'[m].known[i].decays + Aged(m, Drawn(m)')
        BY <3>10, <3>13, <4>2
      <4>9. \A k \in 1 .. Counted(m)' :
              /\ ~ crossed'[m] => counted'[m][Len(job'[m].known) + k].token
                                    = text'[m][1][Len(Ids(m)') + k]
              /\ counted'[m][Len(job'[m].known) + k].decays = Aged(m, Drawn(m)' - k)
        <5> TAKE k \in 1 .. Counted(m)'
        <5>1. k \in 1 .. r + 1
          BY <4>2
        <5>2. /\ ~ crossed[m] =>
                   counted'[m][Len(old) + k].token = text[m][1][Len(Ids(m)) + k]
              /\ counted'[m][Len(old) + k].decays = Aged(m, r + 1 - k)
          BY <3>11, <5>1
        <5>3. counted'[m][Len(job'[m].known) + k].decays = Aged(m, Drawn(m)' - k)
          <6>1. Drawn(m)' - k = r + 1 - k
            BY <3>4, <4>2
          <6>2. job'[m].known = old
            BY <3>13
          <6> QED BY <5>2, <6>1, <6>2
        <5>4. ASSUME ~ crossed'[m]
              PROVE  counted'[m][Len(job'[m].known) + k].token
                       = text'[m][1][Len(Ids(m)') + k]
          BY <3>13, <4>1, <4>2, <5>2, <5>4
        <5> QED BY <5>3, <5>4
      <4> QED BY <4>7, <4>8, <4>9 DEF CountsFollow, Aged
    <3>15. Len(text'[m][1]) = Len(Ids(m)') + job'[m].round
      BY <3>1, <3>2, <3>3, <3>4, <3>7 DEF r
    <3>16. CountsFollowCall(m)'
      BY <3>2, <3>3, <3>4, <3>15 DEF CountsFollowCall, UsesIdx, r
    <3> QED BY <2>a, <3>2, <3>3, <3>14, <3>16 DEF AtPrompt, UsesIdx
  <2>13. CASE Round(m) \/ RoundFails(m)
    <3>1. /\ job'[m].pc \in {"idle", "round"} /\ job'[m].kind = "batch" /\ job[m].pc = "round"
          /\ job[m].kind = "batch" /\ counted'[m] = counted[m] /\ crossed'[m] = crossed[m]
      BY <2>13, <2>a, RoundEffect DEF Round, RoundFails, At, JobShape
    <3>2. CASE job'[m].pc = "round"
      <4>2. job'[m].known = job[m].known
        <5>1. ASSUME Return(m, TRUE) \/ Return(m, FALSE) PROVE FALSE
          BY <2>a, <3>2, <5>1 DEF Return, Jobs
        <5>2. PICK picked \in [1 .. Size(m) -> Vocab] :
                job' = [job EXCEPT ![m].round = @ + 1,
                                   ![m].logits = [s \in 1 .. Size(m) |-> slots'[m][s]],
                                   ![m].picked = picked,
                                   ![m].after = [s \in 1 .. Size(m) |-> slots'[m][s]]]
          BY <2>13, <5>1 DEF Round, RoundFails
        <5> DEFINE af == [s \in 1 .. Size(m) |-> slots'[m][s]]
        <5>3. job'[m] = [job[m] EXCEPT !.round = job[m].round + 1, !.logits = af,
                                       !.picked = picked, !.after = af]
          BY <2>a, <5>2 DEF Jobs
        <5> HIDE DEF af
        <5> QED BY <2>a, <5>3 DEF Jobs
      <4> QED BY <2>b, <3>1, <3>2, <4>2
    <3> QED BY <2>z, <3>1, <3>2
  <2> QED BY <1>4, <2>1, <2>2, <2>3, <2>4, <2>5, <2>6, <2>7, <2>8, <2>9, <2>10, <2>11, <2>12,
             <2>13, <2>14
          DEF Step
<1>5. ASSUME NEW m \in Models, Step(m)
      PROVE  \A o \in Models : AtPrompt(o)' /\ CountsFollowCall(o)' /\ CountsFollow(o)'
  BY <1>3, <1>4, <1>5
<1> QED BY <1>1, <1>2, <1>5 DEF Next, CountsInv

\* While gen_completion runs the sampler's counts are exactly those it found,
\* none lost or added, and behind them one for every token the call has read and
\* gone on from, in the order of the response (the tokens themselves as long as
\* no other model's call has written idx); and each has been multiplied by
\* penalty_decay once for every token drawn since (apply_penalties and
\* update_occurences).
THEOREM CountsFollowTextCorrect == Spec => []CountsFollowText
<1>1. CountsInv => CountsFollowText
  BY DEF CountsInv, CountsFollow, CountsFollowText
<1> QED BY <1>1, CountsInit, CountsStep, PTL DEF Spec

-----------------------------------------------------------------------------
(* What the slots have read. *)

LEMMA NothingWithoutStops == WithoutStops(<< >>, << >>)
<1>1. DOMAIN << >> = {}
  OBVIOUS
<1>2. << >> \in [{} -> {}]
  OBVIOUS
<1>3. {<< >>[i] : i \in {}} = {k \in {} : << >>[k] # StopCode}
  OBVIOUS
<1> QED BY <1>1, <1>2, <1>3 DEF WithoutStops

LEMMA StopWithoutStops ==
    ASSUME NEW shown \in Seq(Vocab), NEW read \in Seq(Vocab), WithoutStops(shown, read)
    PROVE  WithoutStops(shown, Append(read, StopCode))
<1>1. PICK at \in [DOMAIN shown -> DOMAIN read] :
        /\ \A i, k \in DOMAIN shown : i < k => at[i] < at[k]
        /\ \A i \in DOMAIN shown : shown[i] = read[at[i]]
        /\ {at[i] : i \in DOMAIN shown} = {k \in DOMAIN read : read[k] # StopCode}
  BY DEF WithoutStops
<1> DEFINE new == Append(read, StopCode)
<1>2. /\ DOMAIN read = 1 .. Len(read) /\ DOMAIN new = 1 .. Len(read) + 1 /\ Len(read) \in Nat
      /\ \A i \in 1 .. Len(read) : new[i] = read[i]
      /\ new[Len(read) + 1] = StopCode
  BY AppendProperties, CompletionAssumption
<1> HIDE DEF new
<1>3. at \in [DOMAIN shown -> DOMAIN new]
  BY <1>1, <1>2
<1>4. \A i \in DOMAIN shown : shown[i] = new[at[i]]
  BY <1>1, <1>2
<1>5. {k \in DOMAIN read : read[k] # StopCode} = {k \in DOMAIN new : new[k] # StopCode}
  BY <1>2
<1>6. WithoutStops(shown, new)
  BY <1>1, <1>3, <1>4, <1>5 DEF WithoutStops
<1> QED BY <1>6 DEF new

LEMMA TokenWithoutStops ==
    ASSUME NEW shown \in Seq(Vocab), NEW read \in Seq(Vocab), WithoutStops(shown, read),
           NEW t \in Vocab, t # StopCode
    PROVE  WithoutStops(Append(shown, t), Append(read, t))
<1>1. PICK at \in [DOMAIN shown -> DOMAIN read] :
        /\ \A i, k \in DOMAIN shown : i < k => at[i] < at[k]
        /\ \A i \in DOMAIN shown : shown[i] = read[at[i]]
        /\ {at[i] : i \in DOMAIN shown} = {k \in DOMAIN read : read[k] # StopCode}
  BY DEF WithoutStops
<1> DEFINE new == Append(read, t)
           more == Append(shown, t)
           n == Len(shown)
           k == Len(read) + 1
           to == [i \in 1 .. n + 1 |-> IF i <= n THEN at[i] ELSE k]
<1>2. /\ DOMAIN read = 1 .. Len(read) /\ DOMAIN new = 1 .. k /\ Len(read) \in Nat
      /\ \A i \in 1 .. Len(read) : new[i] = read[i]
      /\ new[k] = t
  BY AppendProperties
<1>3. /\ DOMAIN shown = 1 .. n /\ DOMAIN more = 1 .. n + 1 /\ n \in Nat
      /\ \A i \in 1 .. n : more[i] = shown[i]
      /\ more[n + 1] = t
  BY AppendProperties
<1>4. k \in Nat /\ \A i \in 1 .. Len(read) : i < k /\ i \in 1 .. k
  BY <1>2
<1>5. \A i \in 1 .. n : at[i] \in 1 .. Len(read)
  BY <1>1, <1>2, <1>3
<1>6. DOMAIN read = 1 .. k - 1 /\ k \in 1 .. k
  BY <1>2
<1> HIDE DEF new, more, n, k
<1>7. /\ DOMAIN to = 1 .. n + 1
      /\ \A i \in 1 .. n : to[i] = at[i]
      /\ to[n + 1] = k
  BY <1>3
<1>8. \A i \in 1 .. n + 1 : i \in 1 .. n \/ i = n + 1
  BY <1>3
<1> HIDE DEF to
<1>9. \A i \in 1 .. n + 1 : to[i] \in 1 .. k
  BY <1>4, <1>5, <1>6, <1>7, <1>8
<1>10. to \in [1 .. n + 1 -> 1 .. k]
  BY <1>7, <1>9 DEF to
<1>11. ASSUME NEW i \in 1 .. n + 1, NEW j \in 1 .. n + 1, i < j PROVE to[i] < to[j]
  <2>1. i \in 1 .. n
    BY <1>3, <1>11
  <2>2. CASE j = n + 1
    BY <1>4, <1>5, <1>7, <2>1, <2>2
  <2>3. CASE j \in 1 .. n
    BY <1>1, <1>3, <1>7, <1>11, <2>1, <2>3
  <2> QED BY <1>8, <2>2, <2>3
<1>12. ASSUME NEW i \in 1 .. n + 1 PROVE more[i] = new[to[i]]
  <2>1. CASE i = n + 1
    BY <1>2, <1>3, <1>7, <2>1
  <2>2. CASE i \in 1 .. n
    BY <1>1, <1>2, <1>3, <1>5, <1>7, <2>2
  <2> QED BY <1>8, <2>1, <2>2
<1>13. {to[i] : i \in 1 .. n + 1} = {j \in 1 .. k : new[j] # StopCode}
  <2>1. ASSUME NEW i \in 1 .. n + 1 PROVE to[i] \in 1 .. k /\ new[to[i]] # StopCode
    <3>1. CASE i = n + 1
      BY <1>2, <1>6, <1>7, <3>1
    <3>2. CASE i \in 1 .. n
      <4>1. read[at[i]] # StopCode
        BY <1>1, <1>3, <3>2
      <4> QED BY <1>2, <1>4, <1>5, <1>7, <3>2, <4>1
    <3> QED BY <1>8, <3>1, <3>2
  <2>2. ASSUME NEW j \in 1 .. k, new[j] # StopCode PROVE \E i \in 1 .. n + 1 : j = to[i]
    <3>1. CASE j = k
      <4>1. n + 1 \in 1 .. n + 1
        BY <1>3
      <4> QED BY <1>7, <3>1, <4>1
    <3>2. CASE j # k
      <4>1. j \in 1 .. Len(read)
        BY <1>2, <1>4, <3>2 DEF k
      <4>2. j \in {at[i] : i \in DOMAIN shown}
        BY <1>1, <1>2, <2>2, <4>1
      <4>3. PICK i \in 1 .. n : j = at[i]
        BY <1>3, <4>2
      <4>4. i \in 1 .. n + 1
        BY <1>3
      <4> QED BY <1>7, <4>3, <4>4
    <3> QED BY <3>1, <3>2
  <2> QED BY <2>1, <2>2
<1>14. WithoutStops(more, new)
  <2>1. DOMAIN more = 1 .. n + 1 /\ DOMAIN new = 1 .. k
    BY <1>2, <1>3
  <2>2. to \in [DOMAIN more -> DOMAIN new]
    BY <1>10, <2>1
  <2>3. \A i, j \in DOMAIN more : i < j => to[i] < to[j]
    BY <1>11, <2>1
  <2>4. \A i \in DOMAIN more : more[i] = new[to[i]]
    BY <1>12, <2>1
  <2>5. {to[i] : i \in DOMAIN more} = {j \in DOMAIN new : new[j] # StopCode}
    BY <1>13, <2>1
  <2> QED BY <2>2, <2>3, <2>4, <2>5 DEF WithoutStops
<1> QED BY <1>14 DEF new, more

\* What BatchFollows says of a slot, what it and its response began with.
Follows(slot, shown, before, row) ==
    LET read == Behind(Len(before), slot)
        new  == Behind(Len(row), shown)
    IN  slot = before \o read /\ shown = row \o new /\ WithoutStops(new, read)

LEMMA FollowsPrompt ==
    ASSUME NEW before \in Seq(Vocab), NEW row \in Seq(Vocab)
    PROVE  Follows(before, row, before, row)
BY BehindAll, ConcatEmptySeq, NothingWithoutStops DEF Follows

LEMMA FollowsRound ==
    ASSUME NEW before \in Seq(Vocab), NEW row \in Seq(Vocab), NEW slot \in Seq(Vocab),
           NEW shown \in Seq(Vocab), NEW t \in Vocab, Follows(slot, shown, before, row)
    PROVE  Follows(Append(slot, t), IF t = StopCode THEN shown ELSE Append(shown, t),
                   before, row)
<1> DEFINE read == Behind(Len(before), slot)
           new == Behind(Len(row), shown)
<1>1. slot = before \o read /\ shown = row \o new /\ WithoutStops(new, read)
  BY DEF Follows
<1>2. read \in Seq(Vocab) /\ new \in Seq(Vocab)
  <2>1. ASSUME NEW a \in Seq(Vocab), NEW c \in Seq(Vocab), c = a \o Behind(Len(a), c)
        PROVE  Behind(Len(a), c) \in Seq(Vocab)
    <3>1. Len(a) \in Nat /\ Len(c) \in Nat
      OBVIOUS
    <3>2. \A i \in Len(a) + 1 .. Len(c) : c[i] \in Vocab
      BY <3>1
    <3> QED BY <3>1, <3>2, SubSeqProperties DEF Behind
  <2> QED BY <1>1, <2>1
<1> HIDE DEF read, new
<1>3. Append(slot, t) = before \o Append(read, t) /\ Append(read, t) \in Seq(Vocab)
  BY <1>1, <1>2, ConcatAppend, AppendProperties
<1>4. Behind(Len(before), Append(slot, t)) = Append(read, t)
  BY <1>3, BehindConcat
<1>5. CASE t = StopCode
  <2>1. WithoutStops(new, Append(read, t))
    BY <1>1, <1>2, <1>5, StopWithoutStops
  <2>2. shown = row \o Behind(Len(row), shown)
    BY <1>1 DEF new
  <2>3. WithoutStops(Behind(Len(row), shown), Append(read, t))
    BY <2>1 DEF new
  <2>4. Follows(Append(slot, t), shown, before, row)
    BY <1>3, <1>4, <2>2, <2>3 DEF Follows
  <2> QED BY <1>5, <2>4
<1>6. CASE t # StopCode
  <2>1. WithoutStops(Append(new, t), Append(read, t))
    BY <1>1, <1>2, <1>6, TokenWithoutStops
  <2>2. Append(shown, t) = row \o Append(new, t) /\ Append(new, t) \in Seq(Vocab)
    BY <1>1, <1>2, ConcatAppend, AppendProperties
  <2>3. Behind(Len(row), Append(shown, t)) = Append(new, t)
    BY <2>2, BehindConcat
  <2> QED BY <1>3, <1>4, <1>6, <2>1, <2>2, <2>3 DEF Follows
<1> QED BY <1>5, <1>6

\* What SlotsFollowText says of one model.
SlotsFollow(m) ==
    Settled(m) =>
      \A s \in Slots :
        IF s > Size(m) THEN slots[m][s] = base[m][s]
        ELSE IF job[m].kind = "batch"
             THEN Follows(slots[m][s], text[m][s], base[m][s] \o job[m].row[s], job[m].row[s])
        ELSE ~ crossed[m] => slots[m][s] = base[m][s] \o text[m][s]

SlotsInv == ShapeInv /\ \A m \in Models : SlotsFollowCall(m) /\ SlotsFollow(m)

LEMMA SlotsInit == Init => SlotsInv
<1> SUFFICES ASSUME Init, NEW m \in Models PROVE SlotsFollowCall(m) /\ SlotsFollow(m)
  BY ShapeInit DEF SlotsInv
<1>1. /\ job[m].pc = "idle" /\ job[m].kind = "one" /\ Size(m) = 0
      /\ slots[m] = base[m]
  BY DEF Init, NoJob, Size
<1>2. \A s \in Slots : s > Size(m)
  BY <1>1, SlotFacts DEF Slots
<1> QED BY <1>1, <1>2 DEF SlotsFollowCall, SlotsFollow

LEMMA SlotsStep == SlotsInv /\ [Next]_vars => SlotsInv'
<1> SUFFICES ASSUME SlotsInv, [Next]_vars PROVE SlotsInv'
  OBVIOUS
<1>1. ShapeInv /\ ShapeInv'
  BY ShapeStep DEF SlotsInv
<1>2. CASE UNCHANGED vars
  BY <1>1, <1>2 DEF vars, SlotsInv, SlotsFollowCall, SlotsFollow, Settled, Size, Ids, At,
                  Empty
<1>3. ASSUME NEW m \in Models, Step(m), NEW o \in Models, o # m
      PROVE  SlotsFollowCall(o)' /\ SlotsFollow(o)'
  <2>1. /\ job'[o] = job[o] /\ text'[o] = text[o] /\ slots'[o] = slots[o]
        /\ base'[o] = base[o]
    BY <1>1, <1>3, OthersStay DEF ShapeInv
  <2>2. SlotsFollowCall(o) /\ SlotsFollow(o)
    BY DEF SlotsInv
  <2>3. \/ crossed'[o]
        \/ crossed'[o] = crossed[o] /\ (idx' = idx \/ job[o].pc \notin UsesIdx)
    BY <1>1, <1>3, IdxStays DEF ShapeInv
  <2>4. Ids(o)' = Ids(o) /\ Size(o)' = Size(o) /\ (Settled(o)' <=> Settled(o))
    BY <2>1 DEF Ids, Size, Settled, At, Empty
  <2>5. SlotsFollow(o)'
    BY <2>1, <2>2, <2>3, <2>4 DEF SlotsFollow
  <2>6. job[o].pc = "eval" /\ ~ crossed'[o] =>
          Append(slots[o][1], idx') = base[o][1] \o text[o][1]
    BY <2>2, <2>3 DEF SlotsFollowCall, UsesIdx
  <2>7. SlotsFollowCall(o)'
    BY <2>1, <2>2, <2>4, <2>6 DEF SlotsFollowCall
  <2> QED BY <2>5, <2>7
<1>4. ASSUME NEW m \in Models, Step(m) PROVE SlotsFollowCall(m)' /\ SlotsFollow(m)'
  <2>a. /\ TypeOK /\ Typed(m) /\ JobShape(m) /\ SlotsFollowCall(m) /\ SlotsFollow(m)
        /\ DOMAIN job = Models /\ DOMAIN text = Models /\ DOMAIN slots = Models
        /\ DOMAIN base = Models
    BY <1>1, ShapeParts DEF SlotsInv, ShapeInv, TypeOK
  <2>b. /\ job[m] \in Jobs /\ job[m].row \in Seq(Prompts)
        /\ text[m] \in Seq(Seq(Vocab)) /\ Len(text[m]) = Size(m)
        /\ slots[m] \in [Slots -> Seq(Vocab)] /\ base[m] \in [Slots -> Seq(Vocab)]
        /\ idx \in Vocab /\ crossed \in [Models -> BOOLEAN]
    BY <2>a, JobFields DEF TypeOK
  <2>c. /\ Size(m) \in Nat /\ Size(m) <= SlotCount /\ SlotCount \in Nat /\ 1 \in Slots
        /\ Slots = 1 .. SlotCount
        /\ \A s \in 1 .. Size(m) : s \in Slots /\ ~ s > Size(m)
        /\ \A s \in Slots : s > Size(m) \/ s \in 1 .. Size(m)
        /\ DOMAIN text[m] = 1 .. Size(m)
    <3>1. Size(m) \in Nat /\ Size(m) <= SlotCount
      BY <2>a, <2>b DEF Size, JobShape
    <3>2. SlotCount \in Nat /\ 1 \in Slots
      BY SlotFacts
    <3> QED BY <2>b, <3>1, <3>2 DEF Slots
  \* The steps after which a call has not settled, in the slots it has no part in.
  <2>d. ASSUME job'[m].row = job[m].row, base'[m] = base[m],
               \A s \in Slots : s > Size(m) => slots'[m][s] = slots[m][s]
        PROVE  \A s \in Slots : s > Size(m)' => slots'[m][s] = base'[m][s]
    BY <2>a, <2>d DEF SlotsFollowCall, Size
  \* A call that has failed, or had nothing to read.
  <2>e. ASSUME NEW ok \in BOOLEAN, Return(m, ok), ~ ok \/ Empty(m), base'[m] = base[m],
               \A s \in Slots : s > Size(m) => slots'[m][s] = slots[m][s]
        PROVE  SlotsFollowCall(m)' /\ SlotsFollow(m)'
    <3>1. job'[m].pc = "idle" /\ job'[m].ok = ok /\ job'[m].row = job[m].row
      BY <2>a, <2>b, <2>e DEF Return, Jobs
    <3>2. ~ Settled(m)'
      BY <2>e, <3>1 DEF Settled, At, Empty
    <3> QED BY <2>d, <2>e, <3>1, <3>2 DEF SlotsFollowCall, SlotsFollow
  \* A step of a loop that leaves what has been read and shown as it is.
  <2>f. ASSUME Settled(m), job'[m].row = job[m].row, job'[m].kind = job[m].kind,
               slots'[m] = slots[m], text'[m] = text[m], base'[m] = base[m],
               crossed'[m] = crossed[m],
               job'[m].pc \notin {"prompt", "prefill", "eval"}
        PROVE  SlotsFollowCall(m)' /\ SlotsFollow(m)'
    <3>1. Size(m)' = Size(m)
      BY <2>f DEF Size
    <3>2. SlotsFollow(m)'
      BY <2>a, <2>f, <3>1 DEF SlotsFollow
    <3> QED BY <2>d, <2>f, <3>2 DEF SlotsFollowCall
  \* A call that starts.
  <2>1. ASSUME NEW ids \in Prompts, Complete(m, ids)
        PROVE  SlotsFollowCall(m)' /\ SlotsFollow(m)'
    <3> DEFINE new == [NoJob EXCEPT !.pc = "prompt", !.row = <<ids>>]
    <3>1. new.pc = "prompt" /\ new.kind = "one"
      BY DEF NoJob
    <3>4. job'[m] \in Jobs
      BY <1>1 DEF ShapeInv, TypeOK
    <3>2. /\ job'[m] = [new EXCEPT !.known = counted[m]] /\ base'[m] = slots[m]
          /\ slots'[m] = slots[m]
      BY <2>1, <2>a DEF Complete, Enter
    <3> HIDE DEF new
    <3>3. job'[m].pc = "prompt" /\ job'[m].kind = "one"
      BY <3>1, <3>2, <3>4 DEF Jobs
    <3> QED BY <3>2, <3>3 DEF SlotsFollowCall, SlotsFollow, Settled, At
  <2>2. ASSUME NEW n \in BatchSizes, NEW row \in [1 .. n -> Prompts], CompleteBatch(m, row)
        PROVE  SlotsFollowCall(m)' /\ SlotsFollow(m)'
    <3> DEFINE sv == [s \in 1 .. Len(row) |-> slots[m][s]]
               new == [NoJob EXCEPT !.pc = "prompt", !.kind = "batch", !.row = row,
                              !.saved  = sv,
                              !.picked = [s \in 1 .. Len(row) |-> StopCode],
                              !.after  = [s \in 1 .. Len(row) |-> << >>]]
    <3> HIDE DEF sv
    <3>1. /\ new.pc = "prompt" /\ new.kind = "batch" /\ new.at = 1 /\ new.saved = sv
          /\ new.row = row
      BY DEF NoJob
    <3>2. Enter(m, new) /\ UNCHANGED slots
      BY <2>2 DEF CompleteBatch, sv
    <3> HIDE DEF new
    <3>6. job'[m] \in Jobs
      BY <1>1 DEF ShapeInv, TypeOK
    <3>3. /\ job'[m] = [new EXCEPT !.known = counted[m]] /\ base'[m] = slots[m]
          /\ slots'[m] = slots[m]
      BY <2>a, <3>2 DEF Enter
    <3>4. /\ job'[m].pc = "prompt" /\ job'[m].kind = "batch" /\ job'[m].at = 1
          /\ job'[m].saved = sv /\ job'[m].row = row
      BY <3>1, <3>3, <3>6 DEF Jobs
    <3>5. ASSUME NEW s \in 1 .. Size(m)' PROVE ~ s < 1 /\ sv[s] = slots[m][s]
      <4>1. s \in 1 .. Len(row) /\ Len(row) \in Nat
        BY <3>4, <2>2, CompletionAssumption DEF Size
      <4> QED BY <4>1 DEF sv
    <3>7. ~ Settled(m)'
      BY <3>4 DEF Settled, At
    <3> QED BY <3>3, <3>4, <3>5, <3>7 DEF SlotsFollowCall, SlotsFollow
  <2>3. CASE BeginPrompt(m)
    <3>1. /\ At(m, "prompt") /\ UNCHANGED <<text, base>>
          /\ job'[m] = [job[m] EXCEPT !.pc = "prefill", !.pos = 0]
          /\ slots'[m] = IF job[m].kind = "one" THEN slots[m]
                         ELSE [slots[m] EXCEPT ![1] = job[m].saved[job[m].at]]
      BY <2>3, <2>a DEF BeginPrompt
    <3>2. /\ job'[m].row = job[m].row /\ job'[m].at = job[m].at /\ job'[m].pos = 0
          /\ job'[m].pc = "prefill" /\ job'[m].kind = job[m].kind
          /\ job'[m].saved = job[m].saved
      BY <2>b, <3>1 DEF Jobs
    <3>3. /\ Ids(m) \in Seq(Vocab) /\ job[m].at \in 1 .. Size(m) /\ job[m].pc = "prompt"
          /\ job[m].at \in Slots
      BY <2>a, <2>c, <3>1, PrefillFacts DEF At
    <3>4. Ids(m)' = Ids(m) /\ Size(m)' = Size(m)
      BY <3>2 DEF Ids, Size
    <3>5. slots'[m][1] = base[m][job[m].at]
      <4>1. CASE job[m].kind = "one"
        <5>1. job[m].at = 1
          BY <2>a, <2>c, <3>3, <4>1 DEF JobShape
        <5> QED BY <2>a, <3>1, <3>3, <4>1, <5>1 DEF SlotsFollowCall
      <4>2. CASE job[m].kind = "batch"
        <5>1. job[m].saved[job[m].at] = base[m][job[m].at]
          <6> DEFINE s == job[m].at
          <6>1. s \in 1 .. Size(m) /\ ~ s < s
            BY <2>c, <3>3
          <6>2. job[m].pc \in {"prompt", "prefill"} /\ job[m].kind = "batch"
            BY <3>3, <4>2
          <6> QED BY <2>a, <6>1, <6>2 DEF SlotsFollowCall
        <5> QED BY <2>b, <2>c, <3>1, <4>2, <5>1
      <4> QED BY <2>b, <4>1, <4>2 DEF Jobs
    <3>6. slots'[m][1] = base[m][job[m].at] \o SubSeq(Ids(m), 1, 0)
      <4>1. SubSeq(Ids(m), 1, 0) = << >>
        BY SubSeqEmpty
      <4>2. base[m][job[m].at] \in Seq(Vocab)
        BY <2>b, <3>3
      <4> QED BY <3>5, <4>1, <4>2, ConcatEmptySeq
    <3>7. \A s \in Slots : s > Size(m) => slots'[m][s] = slots[m][s]
      <4>1. \A s \in Slots : s > Size(m) => s # 1
        BY <2>c, <3>3
      <4> QED BY <2>b, <3>1, <4>1
    <3>8. ~ Settled(m)'
      BY <3>2 DEF Settled, At
    <3>9. /\ base'[m] = base[m] /\ text'[m] = text[m]
          /\ \A s \in Slots : s > Size(m)' => slots'[m][s] = base'[m][s]
      BY <2>d, <3>1, <3>2, <3>7
    <3>10. SlotsFollowCall(m)'
      BY <2>a, <3>2, <3>3, <3>4, <3>6, <3>9 DEF SlotsFollowCall
    <3> QED BY <3>8, <3>10 DEF SlotsFollow
  <2>4. CASE EvalChunk(m)
    <3>1. /\ At(m, "prefill") /\ Piece(m) > 0 /\ UNCHANGED <<text, base>>
          /\ slots'[m] = [slots[m] EXCEPT ![1] = slots[m][1] \o Tokens(m, Piece(m))]
          /\ job'[m] = [job[m] EXCEPT !.pos = @ + Piece(m), !.logits = <<slots'[m][1]>>]
      BY <2>4, <2>a DEF EvalChunk
    <3>2. /\ job'[m].row = job[m].row /\ job'[m].at = job[m].at
          /\ job'[m].pos = job[m].pos + Piece(m) /\ job'[m].pc = "prefill"
          /\ job'[m].kind = job[m].kind /\ job'[m].saved = job[m].saved
      BY <2>b, <3>1 DEF Jobs, At
    <3>3. /\ Ids(m) \in Seq(Vocab) /\ job[m].at \in 1 .. Size(m) /\ job[m].pc = "prefill"
          /\ job[m].at \in Slots
          /\ Piece(m) \in Nat /\ job[m].pos + Piece(m) <= Len(Ids(m)) /\ job[m].pos \in Nat
      BY <2>a, <2>b, <2>c, <3>1, PrefillFacts, JobFields DEF At
    <3>4. Ids(m)' = Ids(m) /\ Size(m)' = Size(m)
      BY <3>2 DEF Ids, Size
    <3>5. slots'[m][1] = base[m][job[m].at] \o SubSeq(Ids(m), 1, job[m].pos + Piece(m))
      <4> DEFINE a == SubSeq(Ids(m), 1, job[m].pos)
                 c == SubSeq(Ids(m), job[m].pos + 1, job[m].pos + Piece(m))
      <4>1. slots[m][1] = base[m][job[m].at] \o a
        BY <2>a, <3>3 DEF SlotsFollowCall
      <4>2. slots'[m][1] = slots[m][1] \o c
        BY <2>b, <2>c, <3>1 DEF Tokens
      <4>3. a \in Seq(Vocab) /\ c \in Seq(Vocab)
        <5>1. /\ \A i \in 1 .. job[m].pos : Ids(m)[i] \in Vocab
              /\ \A i \in job[m].pos + 1 .. job[m].pos + Piece(m) : Ids(m)[i] \in Vocab
          BY <3>3
        <5>2. a \in Seq(Vocab)
          BY <3>3, <5>1, SubSeqProperties
        <5>3. c \in Seq(Vocab)
          BY <3>3, <5>1, SubSeqProperties
        <5> QED BY <5>2, <5>3
      <4>4. a \o c = SubSeq(Ids(m), 1, job[m].pos + Piece(m))
        <5>1. /\ 1 \in 1 .. Len(Ids(m)) + 1 /\ job[m].pos \in 1 - 1 .. Len(Ids(m))
              /\ job[m].pos + Piece(m) \in job[m].pos .. Len(Ids(m))
          BY <3>3
        <5> QED BY <3>3, <5>1, ConcatAdjacentSubSeq
      <4>5. base[m][job[m].at] \in Seq(Vocab)
        BY <2>b, <3>3
      <4> DEFINE h == base[m][job[m].at]
      <4> HIDE DEF a, c, h
      <4>6. h \in Seq(Vocab)
        BY <4>5 DEF h
      <4>7. (h \o a) \o c = h \o (a \o c)
        BY <4>3, <4>6, ConcatAssociative
      <4>8. slots'[m][1] = h \o (a \o c)
        BY <4>1, <4>2, <4>7 DEF h
      <4> QED BY <4>4, <4>8 DEF h
    <3>6. \A s \in Slots : s > Size(m) => slots'[m][s] = slots[m][s]
      <4>1. \A s \in Slots : s > Size(m) => s # 1
        BY <2>c, <3>3
      <4> QED BY <2>b, <3>1, <4>1
    <3>7. ~ Settled(m)'
      BY <3>2 DEF Settled, At
    <3>8. /\ base'[m] = base[m] /\ text'[m] = text[m]
          /\ \A s \in Slots : s > Size(m)' => slots'[m][s] = base'[m][s]
      BY <2>d, <3>1, <3>2, <3>6
    <3>9. SlotsFollowCall(m)'
      BY <2>a, <3>2, <3>3, <3>4, <3>5, <3>8 DEF SlotsFollowCall
    <3> QED BY <3>7, <3>9 DEF SlotsFollow
  <2>5. CASE EvalChunkFails(m)
    <3>1. /\ At(m, "prefill") /\ Return(m, FALSE) /\ base'[m] = base[m]
      BY <2>5 DEF EvalChunkFails
    <3>2. PICK n \in 0 .. Piece(m) : slots' = [slots EXCEPT ![m][1] = @ \o Tokens(m, n)]
      BY <2>5 DEF EvalChunkFails
    <3>3. \A s \in Slots : s > Size(m) => s # 1
      BY <2>a, <2>c, <3>1, PrefillFacts DEF At
    <3>4. \A s \in Slots : s > Size(m) => slots'[m][s] = slots[m][s]
      BY <2>a, <2>b, <3>2, <3>3
    <3> QED BY <2>e, <3>1, <3>4
  <2>19. CASE EvalTokenFails(m)
    <3>1. base'[m] = base[m] /\ Return(m, FALSE) /\ job[m].pc = "eval"
      BY <2>19 DEF EvalTokenFails, At
    <3>2. \A s \in Slots : s > Size(m) => s # 1
      BY <2>a, <2>c, <3>1 DEF JobShape
    <3>4. slots'[m] \in {slots[m], [slots[m] EXCEPT ![1] = Append(slots[m][1], idx)]}
      BY <2>19, <2>a DEF EvalTokenFails
    <3>3. \A s \in Slots : s > Size(m) => slots'[m][s] = slots[m][s]
      BY <2>b, <3>2, <3>4
    <3> QED BY <2>e, <3>1, <3>3
  <2>6. CASE EmptyEnds(m)
    <3>1. base'[m] = base[m] /\ slots'[m] = slots[m]
      BY <2>6 DEF EmptyEnds
    <3>2. CASE Return(m, FALSE)
      BY <2>e, <3>1, <3>2
    <3>3. CASE At(m, "prefill") /\ Ids(m) = << >> /\ job[m].at = 1 /\ Return(m, TRUE)
      <4>1. job[m].at \in 1 .. Size(m) /\ Ids(m) = job[m].row[job[m].at]
        BY <2>a, <3>3, PrefillFacts DEF At
      <4>2. Empty(m)
        BY <2>b, <3>3, <4>1 DEF Empty, Size
      <4> QED BY <2>e, <3>1, <3>3, <4>2
    <3> QED BY <2>6, <3>2, <3>3 DEF EmptyEnds
  <2>7. CASE PrefillDone(m)
    <3>1. /\ At(m, "prefill") /\ job[m].pos = Len(Ids(m)) /\ job[m].kind = "one"
          /\ job'[m] = [job[m] EXCEPT !.pc = "sample"]
          /\ text'[m] = [text[m] EXCEPT ![1] = Ids(m)]
          /\ slots'[m] = slots[m] /\ base'[m] = base[m]
      BY <2>7, <2>a DEF PrefillDone, Prefilled, Goto
    <3>2. /\ job'[m].pc = "sample" /\ job'[m].kind = "one" /\ job'[m].row = job[m].row
      BY <2>b, <3>1 DEF Jobs
    <3>3. /\ Ids(m) \in Seq(Vocab) /\ job[m].at \in 1 .. Size(m) /\ job[m].pc = "prefill"
          /\ 1 \in DOMAIN text[m]
      BY <2>a, <3>1, PrefillFacts DEF At
    <3>4. job[m].at = 1 /\ Size(m) = 1
      BY <2>a, <2>c, <3>1, <3>3 DEF JobShape
    <3>5. slots'[m][1] = base'[m][1] \o text'[m][1]
      <4>1. slots[m][1] = base[m][1] \o SubSeq(Ids(m), 1, Len(Ids(m)))
        BY <2>a, <3>1, <3>3, <3>4 DEF SlotsFollowCall
      <4>2. SubSeq(Ids(m), 1, Len(Ids(m))) = Ids(m)
        BY <3>3, SubSeqFull
      <4> QED BY <3>1, <3>3, <4>1, <4>2
    <3>6. \A s \in Slots : s > Size(m)' => slots'[m][s] = base'[m][s]
      BY <2>d, <3>1, <3>2
    <3>7. \A s \in Slots : s > Size(m)' \/ s = 1
      BY <2>c, <3>2, <3>4 DEF Size
    <3>8. SlotsFollow(m)'
      BY <3>2, <3>5, <3>6, <3>7 DEF SlotsFollow
    <3> QED BY <3>2, <3>6, <3>8 DEF SlotsFollowCall
  <2>9. CASE Sample(m) \/ TestEos(m)
    <3>1. /\ slots'[m] = slots[m] /\ text'[m] = text[m] /\ base'[m] = base[m]
          /\ crossed'[m] = crossed[m] /\ Settled(m)
      BY <2>9, <2>a, <2>b DEF Sample, TestEos, Settled, At
    <3>2. /\ job'[m].pc \in {"test", "append"} /\ job'[m].kind = job[m].kind
          /\ job'[m].row = job[m].row
      BY <2>9, <2>a, <2>b DEF Sample, TestEos, Goto, Jobs
    <3> QED BY <2>f, <3>1, <3>2
  \* In the loop of gen_completion there is one slot.
  <2>g. ASSUME job[m].pc \in {"sample"} \cup UsesIdx
        PROVE  /\ job[m].kind = "one" /\ Size(m) = 1
               /\ text[m][1] \in Seq(Vocab) /\ slots[m][1] \in Seq(Vocab)
               /\ base[m][1] \in Seq(Vocab)
    <3>1. job[m].kind = "one" /\ Size(m) = 1
      BY <2>a, <2>c, <2>g DEF JobShape, UsesIdx
    <3> QED BY <2>b, <2>c, <3>1
  <2>10. CASE AppendToken(m)
    <3>1. /\ At(m, "append") /\ job'[m] = [job[m] EXCEPT !.pc = "eval"]
          /\ text'[m] = [text[m] EXCEPT ![1] = Append(text[m][1], idx)]
          /\ UNCHANGED <<idx, slots, base, crossed>>
      BY <2>10, <2>a DEF AppendToken, Goto
    <3>2. /\ job'[m].pc = "eval" /\ job'[m].kind = job[m].kind /\ job'[m].row = job[m].row
      BY <2>b, <3>1 DEF Jobs
    <3>3. /\ job[m].kind = "one" /\ Size(m) = 1 /\ job[m].pc = "append"
          /\ text[m][1] \in Seq(Vocab) /\ base[m][1] \in Seq(Vocab)
      BY <2>g, <3>1 DEF At, UsesIdx
    <3>4. ASSUME ~ crossed[m]
          PROVE  Append(slots[m][1], idx) = base[m][1] \o text'[m][1]
      <4>1. slots[m][1] = base[m][1] \o text[m][1]
        <5>1. Settled(m)
          BY <3>3 DEF Settled
        <5>2. 1 \in Slots /\ ~ 1 > Size(m) /\ job[m].kind # "batch"
          BY <2>c, <3>3
        <5> QED BY <2>a, <3>4, <5>1, <5>2 DEF SlotsFollow
      <4>2. text'[m][1] = Append(text[m][1], idx)
        BY <2>c, <3>1, <3>3
      <4>3. Append(base[m][1] \o text[m][1], idx) = base[m][1] \o Append(text[m][1], idx)
        BY <2>b, <3>3, ConcatAppend
      <4> QED BY <4>1, <4>2, <4>3
    <3>5. ~ Settled(m)'
      BY <3>2 DEF Settled, At
    <3>6. \A s \in Slots : s > Size(m)' => slots'[m][s] = base'[m][s]
      BY <2>d, <3>1, <3>2
    <3> QED BY <3>1, <3>2, <3>4, <3>5, <3>6 DEF SlotsFollowCall, SlotsFollow
  <2>11. CASE EvalToken(m)
    <3>1. /\ At(m, "eval") /\ slots'[m] = [slots[m] EXCEPT ![1] = Append(slots[m][1], idx)]
          /\ job'[m] = [job[m] EXCEPT !.pc = "report", !.logits = <<slots'[m][1]>>]
          /\ UNCHANGED <<text, base, crossed>>
      BY <2>11, <2>a DEF EvalToken
    <3>2. /\ job'[m].pc = "report" /\ job'[m].kind = job[m].kind /\ job'[m].row = job[m].row
      BY <2>b, <3>1 DEF Jobs
    <3>3. job[m].kind = "one" /\ Size(m) = 1 /\ job[m].pc = "eval"
      BY <2>g, <3>1 DEF At, UsesIdx
    <3>4. ~ crossed[m] => slots'[m][1] = base[m][1] \o text[m][1]
      BY <2>a, <2>b, <2>c, <3>1, <3>3 DEF SlotsFollowCall
    <3>5. \A s \in Slots : s > Size(m) => slots'[m][s] = slots[m][s]
      BY <2>b, <2>c, <3>1, <3>3
    <3>6. \A s \in Slots : s > Size(m)' => slots'[m][s] = base'[m][s]
      BY <2>d, <3>1, <3>2, <3>5
    <3>7. \A s \in Slots : s > Size(m)' \/ s = 1
      BY <2>c, <3>2, <3>3 DEF Size
    <3>8. SlotsFollow(m)'
      BY <3>1, <3>2, <3>3, <3>4, <3>6, <3>7 DEF SlotsFollow
    <3> QED BY <3>2, <3>6, <3>8 DEF SlotsFollowCall
  <2>12. CASE Report(m)
    <3>1. At(m, "report") /\ UNCHANGED <<slots, text, base, crossed>> /\ Settled(m)
      BY <2>12 DEF Report, Settled, At
    <3>2. /\ job'[m].pc \in {"idle", "count"} /\ job'[m].kind = job[m].kind
          /\ job'[m].row = job[m].row
      BY <2>12, <2>a, <2>b DEF Report, Return, Goto, Jobs
    <3> QED BY <2>f, <3>1, <3>2
  <2>13. CASE Count(m) \/ LoopEnds(m)
    <3>1. UNCHANGED <<slots, text, base, crossed>> /\ Settled(m)
      BY <2>13 DEF Count, LoopEnds, Settled, At
    <3>2. /\ job'[m].pc \in {"sample", "idle"} /\ job'[m].kind = job[m].kind
          /\ job'[m].row = job[m].row
      BY <2>13, <2>a, <2>b DEF Count, LoopEnds, Return, Jobs
    <3> QED BY <2>f, <3>1, <3>2
  <2>8. CASE PromptDone(m)
    <3> DEFINE b == job[m].at
    <3>1. /\ b \in 1 .. Size(m) /\ Size(m)' = Size(m)
          /\ job'[m].pc \in {"prompt", "round"} /\ (job'[m].pc = "round" <=> b = Size(m))
          /\ job'[m].at = b + 1 /\ job'[m].row = job[m].row /\ job'[m].kind = "batch"
      BY <2>8, <2>a, PromptDoneEffect
    <3>2. /\ job'[m].saved = [job[m].saved EXCEPT ![b] = slots[m][1]]
          /\ text'[m] = [text[m] EXCEPT ![b] = Ids(m)]
          /\ slots'[m] = IF b = Size(m)
                         THEN [s \in Slots |-> IF s <= Size(m) THEN job'[m].saved[s]
                                             ELSE slots[m][s]]
                         ELSE slots[m]
      BY <2>8, <2>a, PromptDoneEffect
    <3>3. /\ job[m].pc = "prefill" /\ job[m].pos = Len(Ids(m)) /\ job[m].kind = "batch"
          /\ base'[m] = base[m]
      BY <2>8 DEF PromptDone, Prefilled, At
    <3>4. /\ DOMAIN job[m].saved = 1 .. Size(m) /\ Ids(m) = job[m].row[b]
          /\ Ids(m) \in Seq(Vocab)
      BY <2>a, <2>b, <3>3, JobFields, PrefillFacts DEF JobShape
    <3>5. slots[m][1] = base[m][b] \o job[m].row[b]
      <4>1. slots[m][1] = base[m][b] \o SubSeq(Ids(m), 1, Len(Ids(m)))
        BY <2>a, <3>3 DEF SlotsFollowCall
      <4> QED BY <3>4, <4>1, SubSeqFull
    <3> HIDE DEF b
    <3>6. ASSUME NEW s \in 1 .. Size(m), s <= b
          PROVE  job'[m].saved[s] = base[m][s] \o job[m].row[s] /\ text'[m][s] = job[m].row[s]
      <4>1. CASE s = b
        BY <2>c, <3>1, <3>2, <3>4, <3>5, <4>1
      <4>2. CASE s # b
        <5>1. s < b
          BY <3>1, <3>6, <4>2
        <5>2. job[m].saved[s] = base[m][s] \o job[m].row[s] /\ text[m][s] = job[m].row[s]
          BY <2>a, <3>3, <5>1 DEF SlotsFollowCall, b
        <5> QED BY <2>c, <3>2, <3>4, <4>2, <5>2
      <4> QED BY <4>1, <4>2
    <3>7. \A s \in Slots : s > Size(m) => slots'[m][s] = slots[m][s]
      <4>1. \A s \in Slots : s > Size(m) => ~ s <= Size(m)
        BY <2>c
      <4> QED BY <3>2, <4>1
    <3>8. \A s \in Slots : s > Size(m)' => slots'[m][s] = base'[m][s]
      BY <2>d, <3>1, <3>3, <3>7
    <3>9. CASE b # Size(m)
      <4>1. job'[m].pc = "prompt"
        BY <3>1, <3>9
      <4>2. ASSUME NEW s \in 1 .. Size(m)
            PROVE  IF s < b + 1
                   THEN /\ job'[m].saved[s] = base[m][s] \o job[m].row[s]
                        /\ text'[m][s] = job[m].row[s]
                   ELSE job'[m].saved[s] = base[m][s]
        <5>1. CASE s < b + 1
          <6>1. s <= b
            BY <3>1, <5>1
          <6> QED BY <3>6, <5>1, <6>1
        <5>2. CASE ~ s < b + 1
          <6>1. s # b /\ ~ s < b
            BY <3>1, <5>2
          <6>2. job[m].saved[s] = base[m][s]
            BY <2>a, <3>3, <6>1 DEF SlotsFollowCall, b
          <6> QED BY <3>2, <3>4, <5>2, <6>1, <6>2
        <5> QED BY <5>1, <5>2
      <4>3. ~ Settled(m)'
        BY <4>1 DEF Settled, At
      <4>4. SlotsFollowCall(m)'
        BY <3>1, <3>3, <3>8, <4>1, <4>2 DEF SlotsFollowCall
      <4> QED BY <4>3, <4>4 DEF SlotsFollow
    <3>10. CASE b = Size(m)
      <4>1. job'[m].pc = "round"
        BY <3>1, <3>10
      <4>2. ASSUME NEW s \in 1 .. Size(m)
            PROVE  Follows(slots'[m][s], text'[m][s], base[m][s] \o job[m].row[s],
                           job[m].row[s])
        <5>1. s \in Slots /\ s <= Size(m) /\ s <= b
          BY <2>c, <3>10
        <5>2. slots'[m][s] = job'[m].saved[s]
          BY <3>2, <3>10, <5>1
        <5>3. slots'[m][s] = base[m][s] \o job[m].row[s] /\ text'[m][s] = job[m].row[s]
          BY <3>6, <5>1, <5>2
        <5>4. job[m].row[s] \in Seq(Vocab) /\ base[m][s] \in Seq(Vocab)
          <6>1. job[m].row[s] \in Prompts
            BY <2>b DEF Size
          <6> QED BY <2>b, <5>1, <6>1, CompletionAssumption
        <5>5. base[m][s] \o job[m].row[s] \in Seq(Vocab)
          BY <5>4, ConcatProperties
        <5> QED BY <5>3, <5>4, <5>5, FollowsPrompt
      <4>3. \A s \in Slots : s > Size(m)' \/ s \in 1 .. Size(m)
        BY <2>c, <3>1
      <4>4. SlotsFollow(m)'
        BY <3>1, <3>3, <3>8, <4>2, <4>3 DEF SlotsFollow
      <4> QED BY <3>8, <4>1, <4>4 DEF SlotsFollowCall
    <3> QED BY <3>9, <3>10
  <2>14. CASE Round(m) \/ RoundFails(m)
    <3>1. /\ job[m].picked \in [1 .. Size(m) -> Vocab]
          /\ Size(m)' = Size(m) /\ job'[m].row = job[m].row
          /\ text'[m] = [s \in 1 .. Size(m) |->
                           IF job[m].picked[s] = StopCode THEN text[m][s]
                           ELSE Append(text[m][s], job[m].picked[s])]
          /\ job'[m].kind = "batch" /\ job'[m].pc \in {"idle", "round"}
      BY <2>14, <2>a, RoundEffect
    <3>2. base'[m] = base[m] /\ job[m].pc = "round" /\ job[m].kind = "batch"
      BY <2>14, <2>a DEF Round, RoundFails, At, JobShape
    <3>3. CASE RoundFails(m)
      <4>1. \A s \in Slots : s > Size(m) => slots'[m][s] = slots[m][s]
        BY <2>a, <3>3, RoundEffect
      <4>2. Return(m, FALSE)
        BY <3>3 DEF RoundFails
      <4> QED BY <2>e, <3>2, <4>1, <4>2
    <3>4. CASE Round(m)
      <4>1. slots'[m] = [s \in Slots |-> IF s <= Size(m)
                                       THEN Append(slots[m][s], job[m].picked[s])
                                       ELSE slots[m][s]]
        BY <2>a, <3>4, RoundEffect
      <4>2. \A s \in Slots : s > Size(m) => slots'[m][s] = slots[m][s]
        <5>1. \A s \in Slots : s > Size(m) => ~ s <= Size(m)
          BY <2>c
        <5> QED BY <4>1, <5>1
      <4>3. \A s \in Slots : s > Size(m)' => slots'[m][s] = base'[m][s]
        BY <2>d, <3>1, <3>2, <4>2
      <4>4. ASSUME NEW s \in 1 .. Size(m)
            PROVE  Follows(slots'[m][s], text'[m][s], base[m][s] \o job[m].row[s],
                           job[m].row[s])
        <5> DEFINE before == base[m][s] \o job[m].row[s]
                   t == job[m].picked[s]
        <5>1. s \in Slots /\ s <= Size(m) /\ ~ s > Size(m)
          BY <2>c
        <5>2. Follows(slots[m][s], text[m][s], before, job[m].row[s])
          BY <2>a, <3>2, <5>1 DEF SlotsFollow, Settled
        <5>3. job[m].row[s] \in Seq(Vocab) /\ base[m][s] \in Seq(Vocab)
          <6>1. job[m].row[s] \in Prompts
            BY <2>b DEF Size
          <6> QED BY <2>b, <5>1, <6>1, CompletionAssumption
        <5>4. /\ before \in Seq(Vocab) /\ t \in Vocab /\ slots[m][s] \in Seq(Vocab)
              /\ text[m][s] \in Seq(Vocab)
          <6>1. before \in Seq(Vocab)
            BY <5>3, ConcatProperties
          <6>2. t \in Vocab
            BY <3>1
          <6> HIDE DEF before, t
          <6> QED BY <2>b, <2>c, <5>1, <6>1, <6>2
        <5>5. /\ slots'[m][s] = Append(slots[m][s], t)
              /\ text'[m][s] = IF t = StopCode THEN text[m][s] ELSE Append(text[m][s], t)
          BY <3>1, <4>1, <5>1
        <5> HIDE DEF before, t
        <5>6. Follows(Append(slots[m][s], t),
                      IF t = StopCode THEN text[m][s] ELSE Append(text[m][s], t),
                      before, job[m].row[s])
          BY <5>2, <5>3, <5>4, FollowsRound
        <5>7. Follows(slots'[m][s], text'[m][s], before, job[m].row[s])
          BY <5>5, <5>6
        <5> QED BY <5>7 DEF before
      <4>5. \A s \in Slots : s > Size(m)' \/ s \in 1 .. Size(m)
        BY <2>c, <3>1
      <4>6. SlotsFollow(m)'
        BY <3>1, <3>2, <4>3, <4>4, <4>5 DEF SlotsFollow
      <4> QED BY <3>1, <4>3, <4>6 DEF SlotsFollowCall
    <3> QED BY <2>14, <3>3, <3>4
  <2> QED BY <1>4, <2>1, <2>19, <2>2, <2>3, <2>4, <2>5, <2>6, <2>7, <2>8, <2>9, <2>10, <2>11, <2>12,
             <2>13, <2>14
          DEF Step
<1>5. ASSUME NEW m \in Models, Step(m)
      PROVE  \A o \in Models : SlotsFollowCall(o)' /\ SlotsFollow(o)'
  BY <1>3, <1>4, <1>5
<1> QED BY <1>1, <1>2, <1>5 DEF Next, SlotsInv

\* Every slot has read what it held before the call, its own prompt and its own
\* response, and the slots that take no part are as before: through the handing
\* of slot 1 from prompt to prompt and set_state_on_batch_slot in
\* gen_completion_batch, and the loop of gen_completion while no other model's
\* call writes idx.
THEOREM SlotsFollowTextCorrect == Spec => []SlotsFollowText
<1>1. SlotsInv => SlotsFollowText
  BY DEF SlotsInv, SlotsFollow, SlotsFollowText, BatchFollows, Follows
<1> QED BY <1>1, SlotsInit, SlotsStep, PTL DEF Spec

=============================================================================
