------------------------------ MODULE Backend ------------------------------
(***************************************************************************)
(* What runtime.cpp takes an execution_provider (src/src/backend.h) to be: *)
(* slots that hold the state of the model after the tokens each has read,  *)
(* and the logits that follow from them.  A state is the sequence of those *)
(* tokens; slot 0 is also the state of the calls without a slot.           *)
(*                                                                         *)
(* Modules Chat and ChatBatch model the runtime on top of this.            *)
(***************************************************************************)
EXTENDS Integers, Sequences

CONSTANTS
    Tokens,
    Inputs,      \* the rows of tokens that are evaluated
    Raw,         \* what a state file stands for, before any token
    Lost,        \* the state of a slot in which an evaluation failed
    NoState,     \* an empty std::any
    SlotCount    \* the largest supported batch size

Slots == 0 .. SlotCount - 1

VARIABLES
    slots,       \* the state in each slot
    held,        \* the state the runtime got last
    shown,       \* the states that the rows of logits follow from
    ok           \* the last call returned success

vars == <<slots, held, shown, ok>>

Init ==
    /\ slots = [s \in Slots |-> << >>]
    /\ held = NoState
    /\ shown = << >>
    /\ ok = TRUE

\* A state after some more tokens; what is lost stays lost.
Read(state, ids) == IF state = Lost THEN Lost ELSE state \o ids

Eval(ids) ==
    /\ slots' = [slots EXCEPT ![0] = Read(@, ids)]
    /\ shown' = <<Read(slots[0], ids)>>
    /\ ok' = TRUE
    /\ UNCHANGED held

\* An error is returned: some of the tokens may have been read, and the logits
\* of fewer may have been copied, or the state may be lost.
EvalFails(ids) ==
    /\ \E n \in 0 .. Len(ids), m \in 0 .. Len(ids) :
         /\ m <= n
         /\ slots' \in {[slots EXCEPT ![0] = Read(@, SubSeq(ids, 1, n))],
                       [slots EXCEPT ![0] = Lost]}
         /\ shown' \in {shown, <<Read(slots[0], SubSeq(ids, 1, m))>>}
    /\ ok' = FALSE
    /\ UNCHANGED held

\* Not a step of a backend that keeps its promise: success is returned though
\* the state is lost.
EvalLosesState ==
    /\ slots' = [slots EXCEPT ![0] = Lost]
    /\ shown' = <<Lost>>
    /\ ok' = TRUE
    /\ UNCHANGED held

\* The row that a batch of odd size has too much: it reads any token.
Spare(n) == {s \in Slots : s = n /\ n % 2 = 1}

\* The slots after each of the first has read its token.
Advanced(row, t) ==
    [s \in Slots |-> IF s < Len(row) THEN Read(slots[s], <<row[s + 1]>>)
                    ELSE IF s \in Spare(Len(row)) THEN Read(slots[s], <<t>>)
                    ELSE slots[s]]

EvalBatch(row) ==
    /\ Len(row) <= SlotCount
    /\ \E t \in Tokens : slots' = Advanced(row, t)
    /\ shown' = [b \in 1 .. Len(row) |-> slots'[b - 1]]
    /\ ok' = TRUE
    /\ UNCHANGED held

\* An error is returned: every slot of the batch has read its token, or some of
\* the slots are lost and the others are as before.
EvalBatchFails(row) ==
    /\ \/ Len(row) <= SlotCount /\ \E t \in Tokens : slots' = Advanced(row, t)
       \/ \E S \in SUBSET (0 .. Len(row) - 1 \cup Spare(Len(row))) :
            slots' = [s \in Slots |-> IF s \in S THEN Lost ELSE slots[s]]
    /\ ok' = FALSE
    /\ UNCHANGED <<held, shown>>

GetState(s) ==
    /\ held' = slots[s]
    /\ ok' = TRUE
    /\ UNCHANGED <<slots, shown>>

\* Setting a state that was never got changes nothing.
SetState(s) ==
    /\ slots' = IF held = NoState THEN slots ELSE [slots EXCEPT ![s] = held]
    /\ ok' = TRUE
    /\ UNCHANGED <<held, shown>>

ZeroState(s) ==
    /\ slots' = [slots EXCEPT ![s] = << >>]
    /\ ok' = TRUE
    /\ UNCHANGED <<held, shown>>

\* A state file that does not fit the model leaves a zero state.
LoadRawStates ==
    /\ \/ slots' = [slots EXCEPT ![0] = <<Raw>>] /\ ok' = TRUE
       \/ slots' = [slots EXCEPT ![0] = << >>] /\ ok' = FALSE
    /\ UNCHANGED <<held, shown>>

Next ==
    \/ \E ids \in Inputs : Eval(ids) \/ EvalFails(ids)
    \/ \E row \in Inputs : EvalBatch(row) \/ EvalBatchFails(row)
    \/ \E s \in Slots : GetState(s) \/ SetState(s) \/ ZeroState(s)
    \/ LoadRawStates

Spec == Init /\ [][Next]_vars

=============================================================================
