----------------------------- MODULE ChatBatch ------------------------------
(***************************************************************************)
(* chat_batch (src/src/runtime.cpp): several chats decoded together.       *)
(*                                                                         *)
(* Every request is matched and prefilled on its own in batch slot 1, its  *)
(* state is put in a slot of its own, and all slots advance by one token a *)
(* round.  When requests end and the backend has the smaller batch size,   *)
(* the slots are compacted.  In the end every request's state is           *)
(* registered below its node.  One call runs at a time.                    *)
(***************************************************************************)
EXTENDS StateCache

CONSTANTS
    Texts,         \* encoded chats that clients send
    Backends,      \* supported_batch_sizes of the backends there are
    EosTok,        \* token 0
    RewindTokens,  \* rewind_token_list
    MaxChunk,      \* checkpoint_interval: 256 in the code
    MaxLength,     \* max_length
    MaxNode        \* bound: no call starts once a node number reaches it

ASSUME BatchAssumption ==
    /\ Texts \subseteq Seq(Token)
    /\ \A b \in Backends : b \subseteq Nat \ {0} /\ \E n \in b : \A k \in b : k <= n
    /\ EosTok \in Token /\ RewindTokens \subseteq Token \ {EosTok}
    /\ MaxChunk \in Nat \ {0} /\ MaxLength \in Nat /\ MaxNode \in Nat

VARIABLES
    tree,       \* the prefix cache
    supported,  \* supported_batch_sizes of the backend
    slots,      \* the state in each batch slot of the backend
    pc,         \* the step the call is at
    call        \* its local variables

vars == <<tree, supported, slots, pc, call>>

SlotIds == 1 .. Max(supported)

Steps == {"idle", "match", "prefill", "detect", "compact", "check", "save",
          "register", "cleanup"}

\* The local variables of a call with the given texts.
NewCall(ts, think) ==
    [texts    |-> ts,                          \* text_ids_batch
     think    |-> think,                       \* enable_reasoning
     cur      |-> 1,                           \* batch_idx
     pending  |-> << >>,                       \* tokens_to_prefill
     nodes    |-> << >>,                       \* nodes_batch
     saved    |-> << >>,                       \* state_batch
     resp     |-> [j \in DOMAIN ts |-> << >>], \* response_ids_raw_batch
     rewind   |-> [j \in DOMAIN ts |-> {}],    \* state_for_rewinding_batch
     eos      |-> {},                          \* ..._eos_found_batch
     thinking |-> IF think THEN DOMAIN ts ELSE {}, \* no thinking_end_tag_found
     active   |-> << >>,                       \* active_batch_indices
     decoded  |-> << >>,                       \* decoded_idx, by slot
     logits   |-> << >>,                       \* rows the logits pointer points at
     cached   |-> {},                          \* the node it points into, if any
     round    |-> 0,                           \* i
     base     |-> << >>,  \* history: each request's state after its prefill
     clash    |-> {}]     \* history: requests that ended with a rewind token

NoCall == NewCall(<< >>, FALSE)

Calls ==
    [texts : Seq(Texts), think : BOOLEAN, cur : Nat, pending : Seq(Token),
     nodes : Seq(Nat), saved : Seq(State), resp : Seq(Seq(Token)),
     rewind : Seq(SUBSET State), eos : SUBSET Nat, thinking : SUBSET Nat,
     active : Seq(Nat), decoded : Seq(Token), logits : Seq(Logits),
     cached : SUBSET Nat, round : 0 .. MaxLength, base : Seq(State),
     clash : SUBSET Nat]

Requests == DOMAIN call.texts

size == Len(call.texts)

Init ==
    /\ tree = EmptyTree
    /\ supported \in Backends
    /\ slots = [k \in SlotIds |-> << >>]
    /\ pc = "idle"
    /\ call = NoCall

\* The call returns; its local variables are gone.
Return == pc' = "idle" /\ call' = NoCall

-----------------------------------------------------------------------------
(* Prefill, one request after the other. *)

\* Only supported batch sizes get past the checks of chat_batch.
StartBatch(ts, think) ==
    /\ pc = "idle"
    /\ \A n \in DOMAIN tree : n < MaxNode
    /\ Len(ts) \in supported
    /\ pc' = "match"
    /\ call' = NewCall(ts, think)
    /\ UNCHANGED <<tree, supported, slots>>

Path(t, n) == (t[n].anc \cup {n}) \ {Root}

\* Node n is where match_and_load_state ends for ids.
MatchesAt(t, ids, n) ==
    /\ \A c \in Path(t, n) : IsFirst(c, Matching(t, t[c].parent, ids))
    /\ Matching(t, n, ids) = {}

Counted(t, S) ==
    [c \in DOMAIN t |-> IF c \in S THEN [t[c] EXCEPT !.cnt = @ + 1] ELSE t[c]]

MatchRequest ==
    /\ pc = "match"
    /\ \E n \in DOMAIN tree :
         LET ids == call.texts[call.cur] IN
         /\ MatchesAt(tree, ids, n)
         /\ tree' = Counted(tree, Path(tree, n))
         /\ slots' = [slots EXCEPT ![1] = tree[n].state]
         /\ call' = [call EXCEPT
                       !.nodes = Append(@, n),
                       !.pending = SubSeq(ids, Len(tree[n].ids) + 1, Len(ids))]
    /\ pc' = "prefill"
    /\ UNCHANGED supported

\* register_state_checkpoint, leaving the caller at node m.
Register(n, ids, st, lg, m) ==
    \/ /\ IsFirst(m, SameIds(tree, n, ids))
       /\ tree' = Bump(tree, m)
    \/ /\ SameIds(tree, n, ids) = {}
       /\ m \in FreshIds(tree)
       /\ tree' = AddNode(tree, m, NewChild(tree, n, ids, st, lg))

PrefillChunk ==
    /\ pc = "prefill"
    /\ call.pending # << >>
    /\ LET k == Min({Len(call.pending), MaxChunk})
           chunk == SubSeq(call.pending, 1, k)
           st == slots[1] \o AsText(chunk)
       IN  /\ slots' = [slots EXCEPT ![1] = st]
           /\ \E m \in DOMAIN tree \cup FreshIds(tree) :
                /\ Register(call.nodes[call.cur], chunk, st, LogitsAfter(st), m)
                /\ call' = [call EXCEPT
                              !.nodes[call.cur] = m,
                              !.logits = <<LogitsAfter(st)>>,
                              !.cached = {},
                              !.pending = SubSeq(@, k + 1, Len(@))]
    /\ UNCHANGED <<supported, pc>>

\* The saved logits of the node are used only while the pointer is null; they
\* are used in place.  After the last request all saved states are put in the
\* slots.
FirstToken(tok) ==
    /\ pc = "prefill"
    /\ call.pending = << >>
    /\ LET n == call.nodes[call.cur]
           null == call.logits = << >>
           next == [call EXCEPT !.logits = IF null THEN <<tree[n].logits>> ELSE @,
                                !.cached = IF null THEN {n} ELSE @,
                                !.decoded = Append(@, tok),
                                !.saved = Append(@, slots[1]),
                                !.base = Append(@, slots[1])]
       IN  \/ /\ call.cur < size
              /\ call' = [next EXCEPT !.cur = @ + 1]
              /\ pc' = "match"
              /\ UNCHANGED slots
           \/ /\ call.cur = size
              /\ call' = [next EXCEPT !.active = [k \in 1 .. size |-> k]]
              /\ slots' = [k \in SlotIds |->
                             IF k <= size THEN next.saved[k] ELSE slots[k]]
              /\ pc' = IF MaxLength > 0 THEN "detect" ELSE "save"
    /\ UNCHANGED <<tree, supported>>

-----------------------------------------------------------------------------
(* A round of the decode loop. *)

Slot(j) == CHOOSE k \in DOMAIN call.active : call.active[k] = j

InBatch(j) == \E k \in DOMAIN call.active : call.active[k] = j

\* The token sampled for request j in this round.
Sampled(j) == call.decoded[Slot(j)]

\* ends: requests whose text now ends with a stop code, whatever set_eos_token
\* made of the stop codes; closed: requests whose text now has the end of the
\* thinking part.
DetectEnds(ends, closed) ==
    LET here == {j \in Requests : InBatch(j)}
        zero == {j \in here : Sampled(j) = EosTok}
        open == here \ (call.eos \cup zero)
        reset == open \ call.thinking
        caught == {j \in open : Sampled(j) \in RewindTokens}
    IN  /\ pc = "detect"
        /\ ends \subseteq open
        /\ closed \subseteq open \cap call.thinking
        /\ call' = [call EXCEPT
             !.eos = @ \cup zero \cup ends,
             !.clash = @ \cup (ends \cap caught),
             !.thinking = @ \ closed,
             !.saved = [j \in Requests |-> IF j \in zero \cup ends THEN slots[Slot(j)]
                                                                 ELSE @[j]],
             !.rewind = [j \in Requests |-> IF j \in caught THEN {slots[Slot(j)]}
                                            ELSE IF j \in reset THEN {} ELSE @[j]]]
        /\ pc' = "compact"
        /\ UNCHANGED <<tree, supported, slots>>

\* left is new_active_batch_indices: the requests that have not ended, in order.
IsLeft(left) ==
    /\ \A i, k \in DOMAIN left : i < k => left[i] < left[k]
    /\ {left[i] : i \in DOMAIN left} = Requests \ call.eos

\* Slip: the batch shrinks to a size the backend does not have.
ShrinksToAnySize(left) == Len(left) \in 1 .. Len(call.active) - 1

Shrinks(left) == Len(left) \in 1 .. Len(call.active) - 1 /\ Len(left) \in supported

\* Slip: the states stay where they are.
StatesUnmoved(left) == slots

MovedStates(left) ==
    [k \in SlotIds |-> IF k <= Len(left) THEN slots[Slot(left[k])] ELSE slots[k]]

\* Slip: the sampled tokens stay where they are.
TokensUnmoved(left) == SubSeq(call.decoded, 1, Len(left))

MovedTokens(left) == [k \in 1 .. Len(left) |-> Sampled(left[k])]

\* The row of a slot.  Nothing is known of what is behind the rows that were
\* evaluated last.
Row(k) == IF k \in DOMAIN call.logits THEN call.logits[k] ELSE NoLogits

\* Slip: the logits stay where they are.
LogitsUnmoved(left) == call.logits

MovedLogits(left) ==
    [k \in 1 .. Len(left) |-> Row(Slot(left[k]))]
        \o SubSeq(call.logits, Len(left) + 1, Len(call.logits))

\* The logits of a node that the pointer points into are overwritten.
Overwritten(rows) ==
    [n \in DOMAIN tree |-> IF n \in call.cached THEN [tree[n] EXCEPT !.logits = rows[1]]
                                                ELSE tree[n]]

\* Requests that are left move down to the first slots, if the backend has
\* that batch size; otherwise ended requests keep their slots.
Compact ==
    /\ pc = "compact"
    /\ \E n \in 0 .. size : \E left \in [1 .. n -> Requests] :
         /\ IsLeft(left)
         /\ IF Shrinks(left)
            THEN /\ slots' = MovedStates(left)
                 /\ tree' = Overwritten(MovedLogits(left))
                 /\ call' = [call EXCEPT !.decoded = MovedTokens(left),
                                         !.logits = MovedLogits(left), !.active = left]
            ELSE UNCHANGED <<tree, slots, call>>
    /\ pc' = "check"
    /\ UNCHANGED supported

\* All requests have ended, or the stop signal is up.
LeaveLoop ==
    /\ pc = "check"
    /\ pc' = "save"
    /\ UNCHANGED <<tree, supported, slots, call>>

\* The slots in S are fed the tokens sampled for them.
FeedSlots(S) ==
    slots' = [k \in SlotIds |-> IF k \in S THEN slots[k] \o AsText(<<call.decoded[k]>>)
                                           ELSE slots[k]]

\* Every slot of the batch is fed its token, those of ended requests too; then
\* the tokens of the next round are sampled.
EvalRound(next) ==
    /\ pc = "check"
    /\ call.eos # Requests
    /\ FeedSlots(DOMAIN call.active)
    /\ call' = [call EXCEPT
         !.resp = [j \in Requests |-> IF j \in call.eos THEN @[j]
                                                        ELSE Append(@[j], Sampled(j))],
         !.decoded = next,
         !.logits = [k \in DOMAIN call.active |-> LogitsAfter(slots'[k])],
         !.cached = {},
         !.round = @ + 1]
    /\ pc' = IF call.round + 1 < MaxLength THEN "detect" ELSE "save"
    /\ UNCHANGED <<tree, supported>>

\* A failed evaluation returns at once; some of its tokens were fed, and the
\* tree keeps what is registered.
EvalFails ==
    /\ \/ /\ pc = "prefill"
          /\ call.pending # << >>
          /\ \E j \in 0 .. Min({Len(call.pending), MaxChunk}) :
               slots' = [slots EXCEPT ![1] = @ \o AsText(SubSeq(call.pending, 1, j))]
       \/ /\ pc = "check"
          /\ call.eos # Requests
          /\ \E done \in SUBSET DOMAIN call.active : FeedSlots(done)
    /\ Return
    /\ UNCHANGED <<tree, supported>>

-----------------------------------------------------------------------------
(* After the loop. *)

\* Slip: the rewind token stays in the response.
KeptWhole(j) == call.resp[j]

\* What is kept of a response: without its last token, if it was rewound.
\* (pop_back of an empty vector, which has no defined outcome, keeps it empty.)
KeptResponse(j) ==
    IF call.rewind[j] = {} THEN call.resp[j]
    ELSE SubSeq(call.resp[j], 1, Len(call.resp[j]) - 1)

KeptState(j) ==
    IF call.rewind[j] = {} THEN call.saved[j]
    ELSE CHOOSE st \in call.rewind[j] : TRUE

\* state_batch[j] has a value since the prefill, so the states of requests
\* that have not ended are not read again.  Nothing is registered when the
\* first request has no response.
SaveStates ==
    /\ pc = "save"
    /\ \/ /\ call.resp[1] = << >>
          /\ pc' = "cleanup"
          /\ UNCHANGED call
       \/ /\ call.resp[1] # << >>
          /\ pc' = "register"
          /\ call' = [call EXCEPT !.cur = 1,
                        !.saved = [j \in Requests |-> KeptState(j)],
                        !.resp = [j \in Requests |-> KeptResponse(j)]]
    /\ UNCHANGED <<tree, supported, slots>>

\* register_batch_state_checkpoint: children with the same ids are counted,
\* and a node is added all the same.  The logits are row `cur` of the buffer,
\* which is the row of slot `cur`, whatever request that slot serves.
RegisterRequest ==
    /\ pc = "register"
    /\ LET j == call.cur
           n == call.nodes[j]
           node == NewChild(tree, n, call.resp[j], call.saved[j], Row(j))
       IN  /\ \E m \in FreshIds(tree) :
                tree' = AddNode(Counted(tree, SameIds(tree, n, call.resp[j])), m, node)
           /\ IF j < size THEN call' = [call EXCEPT !.cur = @ + 1] /\ UNCHANGED pc
                          ELSE pc' = "cleanup" /\ UNCHANGED call
    /\ UNCHANGED <<supported, slots>>

CleanupStateTree ==
    /\ pc = "cleanup"
    /\ tree' = Cleaned(tree)
    /\ Return
    /\ UNCHANGED <<supported, slots>>

\* clear_state zeroes the state and every batch slot.
ClearState ==
    /\ pc = "idle"
    /\ slots' = [k \in SlotIds |-> << >>]
    /\ UNCHANGED <<tree, supported, pc, call>>

-----------------------------------------------------------------------------

Next ==
    \/ \E b \in supported, think \in BOOLEAN : \E ts \in [1 .. b -> Texts] :
         StartBatch(ts, think)
    \/ MatchRequest
    \/ PrefillChunk
    \/ \E tok \in Token : FirstToken(tok)
    \/ \E ends, closed \in SUBSET Requests : DetectEnds(ends, closed)
    \/ Compact
    \/ LeaveLoop
    \/ \E next \in [DOMAIN call.active -> Token] : EvalRound(next)
    \/ EvalFails
    \/ SaveStates
    \/ RegisterRequest
    \/ CleanupStateTree
    \/ ClearState

Spec == Init /\ [][Next]_vars

-----------------------------------------------------------------------------
(* Properties. *)

Decoding == pc \in {"detect", "compact", "check"}

\* Every variable has its type; the vectors of a call have one entry for each
\* request that was prefilled, or one for each slot in use, and only batch
\* sizes of the backend are ever evaluated (runtime.cpp:917-925, 1103-1113).
TypeOK ==
    /\ IsTree(tree)
    /\ supported \in Backends
    /\ slots \in [SlotIds -> State]
    /\ pc \in Steps
    /\ call \in Calls
    /\ call.nodes \in Seq(DOMAIN tree)
    /\ Len(call.resp) = size /\ Len(call.rewind) = size
    /\ call.eos \subseteq Requests /\ call.thinking \subseteq Requests
    /\ call.clash \subseteq call.eos
    /\ call.active \in Seq(Requests)
    /\ Decoding => /\ Len(call.decoded) = Len(call.active)
                   /\ Len(call.active) \in supported

\* Through every compaction each request that has not ended keeps a slot of
\* its own, and that slot has read what the request has: its prefilled text
\* and its own response so far (runtime.cpp:1119-1177).
SlotsFollowRequests ==
    Decoding =>
        \A j \in Requests \ call.eos :
            InBatch(j) /\ slots[Slot(j)] = call.base[j] \o AsText(call.resp[j])

\* No request that goes on is fed token 0, which ends a request whatever the
\* stop codes are, and no response contains it, though tokens move with their
\* requests to other slots (runtime.cpp:1057-1062, 1143-1162).
EndTokenNotFed ==
    /\ pc = "check" => \A j \in Requests \ call.eos : Sampled(j) # EosTok
    /\ \A j \in Requests : EosTok \notin ToSet(call.resp[j])

\* After the first round the logits of each slot in use follow from what the
\* slot has read, so that a compaction moves both alike
\* (runtime.cpp:1119-1141, 1172-1175).
RowsFollowSlots ==
    Decoding /\ call.round > 0 =>
        \A k \in DOMAIN call.active : Row(k) = LogitsAfter(slots[k])

\* What is about to be registered for request j is a state for the text of j.
OwnState(j) == call.saved[j] = call.base[j] \o AsText(call.resp[j])

\* A request that ended is registered with the state of exactly the response
\* that is kept, rewound or not, when the backend has every batch size, the
\* call is not in reasoning mode, and the token that ended the request is not
\* on the rewind list (runtime.cpp:1057-1092, 1225-1232).
FinishedCoherent ==
    (pc = "register" /\ SlotIds = supported /\ ~ call.think) =>
        \A j \in call.eos \ call.clash : OwnState(j)

\* What the comment of runtime.cpp:1215 says: "save state for not finished
\* batches".  A request cut off by max_length or the stop signal is registered
\* with the state of its response.
UnfinishedCoherent ==
    pc = "register" => \A j \in Requests \ call.eos : OwnState(j)

-----------------------------------------------------------------------------
(* What makes the properties above inductive. *)

\* During the prefill the requests before `cur` have a state each, and nothing
\* has been generated.
Prefilling ==
    /\ call.cur \in 1 .. size
    /\ Len(call.nodes) = IF pc = "prefill" THEN call.cur ELSE call.cur - 1
    /\ Len(call.saved) = call.cur - 1 /\ call.base = call.saved
    /\ Len(call.decoded) = call.cur - 1
    /\ call.eos = {} /\ call.round = 0
    /\ \A j \in Requests : call.resp[j] = << >> /\ call.rewind[j] = {}

\* After it every request has a node and a state.
Prefilled == Len(call.nodes) = size /\ Len(call.saved) = size /\ Len(call.base) = size

\* No two slots serve the same request, and a request has a slot until it ends.
Placed ==
    /\ \A i, k \in DOMAIN call.active : call.active[i] = call.active[k] => i = k
    /\ \A j \in Requests \ call.eos : InBatch(j)

\* What a call has set up at each of its steps.
CallShape ==
    /\ IF pc = "idle" THEN call = NoCall ELSE size \in supported
    /\ pc \in {"match", "prefill"} => Prefilling
    /\ Decoding \/ pc \in {"save", "register"} => Prefilled
    /\ Decoding => Placed /\ call.round < MaxLength
    /\ pc = "register" => call.cur \in 1 .. size
    /\ ~ call.think => call.thinking = {}

\* Token 0 ends a request in the round in which it is sampled.
EndsDetected ==
    pc \in {"compact", "check"} =>
        \A j \in Requests \ call.eos : Sampled(j) # EosTok

\* The state for the text and the response of j, and the one before its last
\* token.
Now(j) == call.base[j] \o AsText(call.resp[j])

Before(j) == call.base[j] \o AsText(Front(call.resp[j]))

\* A rewind token was sampled in the last round: the state before it is kept.
Rewound(j) == call.resp[j] # << >> /\ call.rewind[j] = {Before(j)}

\* An ended request can be registered.
Finished(j) == Rewound(j) \/ (call.rewind[j] = {} /\ call.saved[j] = Now(j))

\* When the backend has every batch size and the call is not in reasoning mode:
\* ended requests leave the batch before the next round, and the state that is
\* kept for rewinding is that of the last round.
FinishedInTime ==
    (SlotIds = supported /\ ~ call.think) =>
        /\ pc = "detect" =>
             /\ \A k \in DOMAIN call.active : call.active[k] \notin call.eos
             /\ \A j \in Requests \ call.eos : call.rewind[j] = {} \/ Rewound(j)
        /\ pc \in {"compact", "check"} =>
             \A j \in Requests \ call.eos : call.rewind[j] \subseteq {Now(j)}
        /\ (pc = "check" /\ call.eos # Requests) =>
             \A k \in DOMAIN call.active : call.active[k] \notin call.eos
        /\ Decoding \/ pc = "save" => \A j \in call.eos \ call.clash : Finished(j)

=============================================================================
