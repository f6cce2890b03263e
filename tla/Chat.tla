-------------------------------- MODULE Chat --------------------------------
(***************************************************************************)
(* One model of the runtime and the calls that read or write its prefix    *)
(* cache: chat, set_prompt, set_audio_prompt, load_initial_state,          *)
(* unload_initial_state, clear_state and eval_logits                       *)
(* (src/src/runtime.cpp).  Calls on one model come one after the other, as *)
(* in every client of the repository; module Generation is about what the  *)
(* status flags tell a client that runs chat on a thread.                  *)
(*                                                                         *)
(* A call is a sequence of steps: descend the tree one child at a time,    *)
(* prefill one chunk at a time, decode one token at a time, register the   *)
(* response, clean up.  Every evaluation may fail.                         *)
(***************************************************************************)
EXTENDS StateCache

CONSTANTS
    Inputs,         \* chat histories a client sends
    Prompts,        \* texts given to set_prompt, as token ids
    AudioTags,      \* ids of <audio src="path">, one for each path
    StateTags,      \* ids of <state src="path">, one for each path
    ChatIds(_, _),  \* apply_chat_template(prompt, inputs), encoded
    Reencode(_),    \* split_text_by_...: ids decoded, cut and encoded again
    AssistantTok,   \* the word at which prefill chunks are cut
    ImageTags,      \* tokens that stand for an <image> tag
    RewindTokens,   \* rewind_token_list
    MaxChunk,       \* checkpoint_interval: 256 in the code
    MaxLength,      \* max_length
    MaxNode,        \* bound: no call starts once a node number reaches it
    MaxCount,       \* bound: nor once an activation_count reaches it
    MaxLive         \* bound: eval_logits stops when live is this long, and no
                    \* load fails that would leave a longer one

PromptValues == {<< >>} \cup Prompts \cup AudioTags

ASSUME ChatAssumption ==
    /\ Prompts \subseteq Seq(Token)
    /\ AudioTags \subseteq Seq(Token)
    /\ StateTags \subseteq Seq(Token)
    /\ \A p \in PromptValues, i \in Inputs :
         /\ ChatIds(p, i) \in Seq(Token)
         /\ \A k \in 1 .. Len(ChatIds(p, i)) + 1 :
              Reencode(SubSeq(ChatIds(p, i), k, Len(ChatIds(p, i)))) \in Seq(Token)
    /\ {MaxChunk, MaxLength, MaxNode, MaxCount, MaxLive} \subseteq Nat
    /\ MaxChunk > 0

VARIABLES
    tree,      \* the prefix cache, rooted at state_root
    live,      \* the state inside the backend
    prompt,    \* model->prompt, as token ids
    pc,        \* the step the call in progress is at
    call,      \* its local variables
    logits,    \* what its logits pointer points at
    collided,  \* history: a registration returned an existing node that is
               \* not the root's child with the state just computed
    misloaded  \* history: the tags whose load failed

vars == <<tree, live, prompt, pc, call, logits, collided, misloaded>>

Ops == {"none", "chat", "prompt", "audio"}

Steps == {"idle", "match", "prefill", "decode", "register", "cleanup", "prompt"}

Call == [op : Ops, node : Nat, ids : Seq(Token), pending : Seq(Token),
         resp : Seq(Token), rewind : SUBSET State]

NoCall == [op |-> "none", node |-> Root, ids |-> << >>, pending |-> << >>,
           resp |-> << >>, rewind |-> {}]

Init ==
    /\ tree = EmptyTree
    /\ live = << >>
    /\ prompt = << >>
    /\ pc = "idle"
    /\ call = NoCall
    /\ logits = NoLogits
    /\ collided = FALSE
    /\ misloaded = {}

\* A call starts only while the tree is within the bounds.
Room == \A n \in DOMAIN tree : n < MaxNode /\ tree[n].cnt < MaxCount

Start(op, ids) ==
    /\ pc = "idle"
    /\ Room
    /\ pc' = "match"
    /\ call' = [NoCall EXCEPT !.op = op, !.ids = ids]
    /\ UNCHANGED <<tree, live, prompt, logits, collided, misloaded>>

\* The call returns; its local variables are gone.
Return ==
    /\ pc' = "idle"
    /\ call' = NoCall
    /\ logits' = NoLogits

-----------------------------------------------------------------------------
(* match_and_load_state *)

StartChat(i) == Start("chat", ChatIds(prompt, i))

\* An empty prompt returns at once.
StartSetPrompt(p) == p # << >> /\ Start("prompt", p)

StartAudioPrompt(a) == Start("audio", a)

MatchDescend ==
    /\ pc = "match"
    /\ \E c \in DOMAIN tree :
         /\ IsFirst(c, Matching(tree, call.node, call.ids))
         /\ tree' = Bump(tree, c)
         /\ call' = [call EXCEPT !.node = c]
    /\ UNCHANGED <<live, prompt, pc, logits, collided, misloaded>>

\* Slip: the first new token is skipped.
UnmatchedButOne ==
    SubSeq(call.ids, Len(tree[call.node].ids) + 2, Len(call.ids))

\* The ids below the matched node.
Unmatched ==
    SubSeq(call.ids, Len(tree[call.node].ids) + 1, Len(call.ids))

\* Slip: the state of the matched node is not loaded.
MatchEndNoLoad ==
    /\ pc = "match"
    /\ Matching(tree, call.node, call.ids) = {}
    /\ UNCHANGED live

MatchEnd ==
    /\ pc = "match"
    /\ Matching(tree, call.node, call.ids) = {}
    /\ live' = tree[call.node].state

\* Slip: the matched part of the text is read again.
MatchedChatWhole ==
    /\ MatchEnd
    /\ call.op = "chat"
    /\ call' = [call EXCEPT !.pending = Reencode(call.ids)]
    /\ pc' = "prefill"
    /\ UNCHANGED <<tree, prompt, logits, collided, misloaded>>

MatchedChat ==
    /\ MatchEnd
    /\ call.op = "chat"
    /\ call' = [call EXCEPT !.pending = Reencode(Unmatched)]
    /\ pc' = "prefill"
    /\ UNCHANGED <<tree, prompt, logits, collided, misloaded>>

\* Slip: only the new part of the prompt is kept.
MatchedPromptSuffix ==
    /\ MatchEnd
    /\ call.op \in {"prompt", "audio"}
    /\ Unmatched # << >>
    /\ prompt' = Unmatched
    /\ pc' = "prompt"
    /\ UNCHANGED <<tree, call, logits, collided, misloaded>>

\* A prompt that is cached in full returns before model->prompt is assigned.
MatchedPrompt ==
    /\ MatchEnd
    /\ call.op \in {"prompt", "audio"}
    /\ \/ /\ Unmatched = << >>
          /\ Return
          /\ UNCHANGED prompt
       \/ /\ Unmatched # << >>
          /\ prompt' = call.ids
          /\ pc' = "prompt"
          /\ UNCHANGED <<call, logits>>
    /\ UNCHANGED <<tree, collided, misloaded>>

-----------------------------------------------------------------------------
(* register_state_checkpoint_with_state: node n, ids to append, state, and  *)
(* logits; m is the node the caller's pointer is left at.                   *)

Register(n, ids, st, lg, m) ==
    \/ /\ IsFirst(m, SameIds(tree, n, ids))
       /\ tree' = Bump(tree, m)
       /\ collided' = (collided \/ n # Root \/ tree[m].state # st)
    \/ /\ SameIds(tree, n, ids) = {}
       /\ m \in FreshIds(tree)
       /\ tree' = AddNode(tree, m, NewChild(tree, n, ids, st, lg))
       /\ UNCHANGED collided

Slots == DOMAIN tree \cup FreshIds(tree)

\* Part of what was fed, or all of it, was read when an evaluation failed.
FailedEval(fed) ==
    /\ \E j \in 0 .. Len(fed) : live' = live \o SubSeq(fed, 1, j)
    /\ Return
    /\ UNCHANGED <<tree, prompt, collided, misloaded>>

-----------------------------------------------------------------------------
(* Prefill: the remaining text is cut before every image tag, before every  *)
(* run of the assistant word that follows other text, and every MaxChunk    *)
(* tokens; a piece that is nothing but the assistant word is not cut.       *)

Boundary(p, j) ==
    \/ j = Len(p)
    \/ /\ j < Len(p)
       /\ \/ p[j + 1] \in ImageTags
          \/ p[j + 1] = AssistantTok /\ p[j] # AssistantTok

IsPiece(p, e) == Boundary(p, e) /\ \A j \in 1 .. e - 1 : ~ Boundary(p, j)

IsFirstChunk(p, k) ==
    \/ p[1] \in ImageTags /\ k = 1
    \/ /\ p[1] \notin ImageTags
       /\ \E e \in 1 .. Len(p) :
            /\ IsPiece(p, e)
            /\ k = IF e <= MaxChunk \/ \A j \in 1 .. e : p[j] = AssistantTok
                   THEN e ELSE MaxChunk

Fed(chunk) == IF chunk[1] \in ImageTags THEN AsFile(chunk) ELSE AsText(chunk)

\* Slip: the logits of the chunk before are saved with the node.
PrefillChunkOldLogits ==
    /\ pc = "prefill"
    /\ \E k \in 1 .. Len(call.pending) :
         LET chunk == SubSeq(call.pending, 1, k) IN
         /\ IsFirstChunk(call.pending, k)
         /\ live' = live \o Fed(chunk)
         /\ logits' = LogitsAfter(live')
         /\ \E m \in Slots :
              /\ Register(call.node, chunk, live', logits, m)
              /\ call' = [call EXCEPT !.node = m,
                            !.pending = SubSeq(@, k + 1, Len(@))]
    /\ UNCHANGED <<prompt, pc, misloaded>>

PrefillChunk ==
    /\ pc = "prefill"
    /\ \E k \in 1 .. Len(call.pending) :
         LET chunk == SubSeq(call.pending, 1, k) IN
         /\ IsFirstChunk(call.pending, k)
         /\ live' = live \o Fed(chunk)
         /\ logits' = LogitsAfter(live')
         /\ \E m \in Slots :
              /\ Register(call.node, chunk, live', logits', m)
              /\ call' = [call EXCEPT !.node = m,
                            !.pending = SubSeq(@, k + 1, Len(@))]
    /\ UNCHANGED <<prompt, pc, misloaded>>

PrefillFails ==
    /\ pc = "prefill"
    /\ \E k \in 1 .. Len(call.pending) :
         /\ IsFirstChunk(call.pending, k)
         /\ FailedEval(Fed(SubSeq(call.pending, 1, k)))

\* Without anything to prefill the first token is sampled from the logits
\* that were saved with the node.
PrefillDone ==
    /\ pc = "prefill"
    /\ call.pending = << >>
    /\ pc' = "decode"
    /\ logits' = IF logits = NoLogits THEN tree[call.node].logits ELSE logits
    /\ UNCHANGED <<tree, live, prompt, call, collided, misloaded>>

-----------------------------------------------------------------------------
(* The decode loop. *)

\* Slip: the logits pointer is not moved to the new output.
DecodeTokenOldLogits(tok) ==
    /\ pc = "decode"
    /\ Len(call.resp) < MaxLength
    /\ live' = live \o AsText(<<tok>>)
    /\ call' = [call EXCEPT !.resp = Append(@, tok),
                            !.rewind = IF tok \in RewindTokens THEN {live} ELSE {}]
    /\ UNCHANGED <<tree, prompt, pc, logits, collided, misloaded>>

\* Before a rewind token is evaluated, the state is saved.
DecodeToken(tok) ==
    /\ pc = "decode"
    /\ Len(call.resp) < MaxLength
    /\ live' = live \o AsText(<<tok>>)
    /\ logits' = LogitsAfter(live')
    /\ call' = [call EXCEPT !.resp = Append(@, tok),
                            !.rewind = IF tok \in RewindTokens THEN {live} ELSE {}]
    /\ UNCHANGED <<tree, prompt, pc, collided, misloaded>>

DecodeFails(tok) ==
    /\ pc = "decode"
    /\ Len(call.resp) < MaxLength
    /\ FailedEval(AsText(<<tok>>))

\* max_length is reached, token 0 is sampled, a stop code is complete or the
\* stop signal is up: the sampled token is dropped, the saved state is kept.
DecodeBreak ==
    /\ pc = "decode"
    /\ pc' = "register"
    /\ UNCHANGED <<tree, live, prompt, call, logits, collided, misloaded>>

-----------------------------------------------------------------------------
(* After the loop. *)

\* Slip: a rewound state is registered under the whole response.
RegisterResponseNoPop ==
    /\ pc = "register"
    /\ \E m \in Slots, saved \in call.rewind :
         /\ Register(call.node, call.resp, saved, logits, m)
         /\ call' = [call EXCEPT !.node = m]
    /\ pc' = "cleanup"
    /\ UNCHANGED <<live, prompt, logits, misloaded>>

RegisterResponse ==
    /\ pc = "register"
    /\ \/ /\ call.resp = << >>
          /\ UNCHANGED <<tree, call, collided>>
       \/ /\ call.resp # << >>
          /\ call.rewind = {}
          /\ \E m \in Slots :
               /\ Register(call.node, call.resp, live, logits, m)
               /\ call' = [call EXCEPT !.node = m]
       \/ /\ call.resp # << >>
          /\ \E saved \in call.rewind, m \in Slots :
               /\ Register(call.node, SubSeq(call.resp, 1, Len(call.resp) - 1),
                           saved, logits, m)
               /\ call' = [call EXCEPT !.node = m]
    /\ pc' = "cleanup"
    /\ UNCHANGED <<live, prompt, logits, misloaded>>

CleanupStateTree ==
    /\ pc = "cleanup"
    /\ tree' = Cleaned(tree)
    /\ Return
    /\ UNCHANGED <<live, prompt, collided, misloaded>>

-----------------------------------------------------------------------------
(* set_prompt and set_audio_prompt evaluate the whole prompt on the state   *)
(* of the matched node and register it there.                               *)

PromptFed == IF call.op = "audio" THEN AsFile(call.ids) ELSE AsText(call.ids)

PromptEval ==
    /\ pc = "prompt"
    /\ live' = live \o PromptFed
    /\ \E m \in Slots :
         Register(call.node, call.ids, live', LogitsAfter(live'), m)
    /\ Return
    /\ UNCHANGED <<prompt, misloaded>>

\* The prompt was assigned before the evaluation and stays assigned.
PromptFails ==
    /\ pc = "prompt"
    /\ FailedEval(PromptFed)

-----------------------------------------------------------------------------
(* Calls that are one step. *)

\* What a load_raw_states that fails leaves: most backends do nothing, the
\* others stop after zero_state, one of them after a token.
HalfLoaded ==
    {h \in {live, << >>} \cup {AsText(<<tok>>) : tok \in Token} : Len(h) <= MaxLive}

\* Nothing happens when some child of the root already has the tag's ids.
\* Otherwise what is live after the load is stored under the tag, whether the
\* backend could load the file or not.
LoadInitialState(tag) ==
    /\ pc = "idle"
    /\ Room
    /\ SameIds(tree, Root, tag) = {}
    /\ \/ live' = AsFile(tag) /\ UNCHANGED misloaded
       \/ live' \in HalfLoaded /\ misloaded' = misloaded \cup {tag}
    /\ \E m \in FreshIds(tree) :
         tree' = AddNode(tree, m, ConstChild(tree, tag, live'))
    /\ UNCHANGED <<prompt, pc, call, logits, collided>>

UnloadInitialState(tag) ==
    /\ pc = "idle"
    /\ \E c \in DOMAIN tree :
         /\ IsFirst(c, SameIds(tree, Root, tag))
         /\ tree' = RemoveSubtree(tree, c)
    /\ UNCHANGED <<live, prompt, pc, call, logits, collided, misloaded>>

ClearState ==
    /\ pc = "idle"
    /\ live' = << >>
    /\ UNCHANGED <<tree, prompt, pc, call, logits, collided, misloaded>>

\* eval_logits and gen_completion feed the live state and register nothing.
EvalLogits(tok) ==
    /\ pc = "idle"
    /\ Len(live) < MaxLive
    /\ live' = live \o AsText(<<tok>>)
    /\ UNCHANGED <<tree, prompt, pc, call, logits, collided, misloaded>>

-----------------------------------------------------------------------------

Next ==
    \/ \E i \in Inputs : StartChat(i)
    \/ \E p \in Prompts : StartSetPrompt(p)
    \/ \E a \in AudioTags : StartAudioPrompt(a)
    \/ MatchDescend
    \/ MatchedChat
    \/ MatchedPrompt
    \/ PrefillChunk
    \/ PrefillFails
    \/ PrefillDone
    \/ \E tok \in Token : DecodeToken(tok)
    \/ \E tok \in Token : DecodeFails(tok)
    \/ DecodeBreak
    \/ RegisterResponse
    \/ CleanupStateTree
    \/ PromptEval
    \/ PromptFails
    \/ \E tag \in StateTags : LoadInitialState(tag)
    \/ \E tag \in StateTags : UnloadInitialState(tag)
    \/ ClearState
    \/ \E tok \in Token : EvalLogits(tok)

Spec == Init /\ [][Next]_vars

-----------------------------------------------------------------------------
(* Properties. *)

\* Every variable has its type, and every record of the tree and of the call
\* in progress is well formed.
TypeOK ==
    /\ IsTree(tree)
    /\ live \in State
    /\ prompt \in PromptValues
    /\ pc \in Steps
    /\ call \in Call
    /\ logits \in Logits
    /\ collided \in BOOLEAN
    /\ misloaded \subseteq StateTags

\* The tree stays a tree of extending keys and the node pointer a call holds
\* never dangles: every owner of a node is in the tree, a child's ids extend
\* its parent's ids, and call.node is in the tree, through registrations,
\* cleanups and unloads (backend.cpp:39-70, 100-125; runtime.cpp:392-405).
TreeShape == Linked(tree) /\ ConstAtTop(tree) /\ call.node \in DOMAIN tree

\* What the log lines of runtime.cpp:699 and 773 say of every node of the
\* cache: its saved state is the state for the text of its ids.
Coherent == CoherentTree(tree, {})

\* A node's saved state is the state for the text of its ids, rewound responses,
\* failed evaluations, prompts evaluated on a partly matched node and loaded
\* states included.  There are two ways out: the duplicate test of
\* backend.cpp:41 has returned a wrong child, or the node is, or is below, an
\* initial state that was stored though its load failed (runtime.cpp:384-388).
CoherentUnlessCollided == ~ collided => CoherentTree(tree, misloaded)

\* As long as there was no collision, the state of a node continues the state
\* of its parent, and that of a loaded initial state is the content of its file
\* unless the load failed: a conversation below it, an image or an audio prompt
\* really runs on the content of that file.
ContinuesParent == ~ collided => ContinuingTree(tree, misloaded)

\* As long as there was no collision, no node is used more than its parent
\* (backend.cpp:17 and 58): the counts decrease from the root's children down.
HotPath == ~ collided => HotTree(tree)

\* Logits saved with a node belong to the node's state, or to the state one
\* rewind token later when the response was rewound (runtime.cpp:886-888);
\* only the root and loaded initial states have zero logits.
LogitsOfNode ==
    \A n \in DOMAIN tree :
        IF n = Root \/ tree[n].const
        THEN tree[n].logits = ZeroLogits
        ELSE \/ tree[n].logits = LogitsAfter(tree[n].state)
             \/ \E r \in RewindTokens :
                  tree[n].logits = LogitsAfter(tree[n].state \o AsText(<<r>>))

\* In the decode loop the backend has read the node's history and the response
\* so far, and samples from the logits of exactly that history.  The
\* exceptions are a prompt found whole in the cache at a rewound response,
\* whose logits are one token ahead, and at the root or a loaded state
\* (runtime.cpp:792-794).
SampledAfterHistory ==
    (pc = "decode" /\ ~ collided) =>
        /\ live = tree[call.node].state \o AsText(call.resp)
        /\ \/ logits = LogitsAfter(live)
           \/ /\ call.resp = << >>
              /\ logits = tree[call.node].logits
              /\ \/ call.node = Root \/ tree[call.node].const
                 \/ \E r \in RewindTokens :
                      logits = LogitsAfter(live \o AsText(<<r>>))

\* What a chat is read as when k of its ids are found in the cache.
AsRead(ids, k) == SubSeq(ids, 1, k) \o Reencode(SubSeq(ids, k + 1, Len(ids)))

\* When the model starts to answer it has read the whole chat and nothing else:
\* a prefix of it token for token, found in the cache, and the rest as it was
\* encoded again, in pieces, each once and in order (runtime.cpp:687-777), unless
\* it starts with the tag of an initial state whose load failed.
PromptRead ==
    (/\ pc = "decode" /\ call.resp = << >>
     /\ ~ collided /\ Loaded(tree, misloaded, call.node)) =>
        \E k \in 0 .. Len(call.ids) : KeyOf(live) = AsRead(call.ids, k)

\* A cleanup removes a node only for its own lack of use: never because an
\* ancestor went, and never a loaded initial state (backend.cpp:100-125).
CleanupKeepsActive ==
    [][(pc = "cleanup" /\ ~ collided) =>
         \A n \in DOMAIN tree : Active(tree, n) => n \in DOMAIN tree']_vars

-----------------------------------------------------------------------------
(* The abstract specification. *)

\* What the call in progress looks like to a client; prompts and cleanups do not
\* show.
Phase ==
    IF pc \in {"decode", "register"} THEN "answering"
    ELSE IF pc \in {"match", "prefill"} /\ call.op = "chat" THEN "reading"
    ELSE "idle"

Asked == IF Phase = "idle" THEN << >> ELSE call.ids

\* No state was ever stored under a text that is not its own.
Trusted == ~ collided /\ misloaded = {}

\* The token ids of a history, as far as something is promised about it.
Promised(hist) == IF Phase = "answering" /\ Trusted THEN KeyOf(hist) ELSE << >>

Read == Promised(live)

Basis == Promised(logits.of)

Answered == IF Phase = "answering" THEN call.resp ELSE << >>

Texts == [p \in PromptValues |-> [i \in Inputs |-> ChatIds(p, i)]]

Readings ==
    [ids \in {ChatIds(p, i) : p \in PromptValues, i \in Inputs} |->
        {AsRead(ids, k) : k \in 0 .. Len(ids)}]

C == INSTANCE Conversation WITH
        Prompts <- Prompts \cup AudioTags, phase <- Phase, asked <- Asked,
        read <- Read, basis <- Basis, answer <- Answered, trusted <- Trusted

\* To a client the cache does not show: a chat is read and answered as by a model
\* that reads every chat from its beginning, whatever was cached, rewound, cut
\* off, unloaded or left half evaluated before (runtime.cpp:663-905), up to the
\* first collision or failed load.
Implements == C!Spec

-----------------------------------------------------------------------------
(* What makes the properties above inductive. *)

\* The ids of a call come from its arguments, the matched node is always a
\* prefix of them, and only the decode loop has a response.
CallShape ==
    /\ pc = "idle" => call = NoCall
    /\ pc \notin {"decode", "register", "cleanup"} =>
         call.resp = << >> /\ call.rewind = {}
    /\ pc \in {"prefill", "decode", "register", "cleanup"} => call.op = "chat"
    /\ pc = "prompt" => call.op \in {"prompt", "audio"}
    /\ call.op = "chat" =>
         \E p \in PromptValues, i \in Inputs : call.ids = ChatIds(p, i)
    /\ call.op \in {"prompt", "audio"} => call.ids \in Prompts \cup AudioTags
    /\ pc = "match" => call.op # "none" /\ IsPrefix(tree[call.node].ids, call.ids)

\* While a call evaluates, the live state is the one of its node continued by
\* the response, and the saved state is that without the last token.
LiveHistory ==
    ~ collided =>
        /\ pc = "prompt" => live = tree[call.node].state
        /\ pc \in {"prefill", "decode", "register"} =>
             live = tree[call.node].state \o AsText(call.resp)
        /\ pc \in {"decode", "register"} => \A saved \in call.rewind :
             /\ call.resp # << >>
             /\ saved = tree[call.node].state
                          \o AsText(SubSeq(call.resp, 1, Len(call.resp) - 1))

\* While a call evaluates, its logits pointer is null or points at what followed
\* the live state; before the first token is decoded it may be at the logits of
\* the node instead.  A saved state lacks one rewind token.
LogitsFollow ==
    /\ pc \in {"idle", "match", "prompt"} => logits = NoLogits
    /\ pc = "prefill" => logits \in {NoLogits, LogitsAfter(live)}
    /\ (pc = "decode" /\ call.resp = << >>) =>
         logits \in {tree[call.node].logits, LogitsAfter(live)}
    /\ (pc \in {"decode", "register"} /\ call.resp # << >>) =>
         logits = LogitsAfter(live)
    /\ pc \in {"decode", "register"} => \A saved \in call.rewind :
         call.resp # << >> /\ \E r \in RewindTokens : live = saved \o AsText(<<r>>)

\* While a call descends the tree, every node below its node was used less
\* often than the nodes on its path, which it has counted already.
HotDescent ==
    (~ collided /\ pc = "match") =>
        \A d \in DOMAIN tree :
            call.node \in tree[d].anc =>
                \A a \in (tree[call.node].anc \cup {call.node}) \ {Root} :
                    tree[d].cnt < tree[a].cnt

\* During the prefill, what has been read and what is still to be read make up
\* the chat.
PrefillReads ==
    (pc = "prefill" /\ ~ collided /\ Loaded(tree, misloaded, call.node)) =>
        \E k \in 0 .. Len(call.ids) : KeyOf(live) \o call.pending = AsRead(call.ids, k)

=============================================================================
