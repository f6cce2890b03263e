----------------------------- MODULE ChatProofs -----------------------------
(***************************************************************************)
(* Theorems about Chat, for every vocabulary, every set of inputs, prompts *)
(* and files, every re-encoding and every bound.                           *)
(***************************************************************************)
EXTENDS Chat, StateCacheProofs

ShapeInv == TypeOK /\ TreeShape /\ CallShape

-----------------------------------------------------------------------------
(* Facts about the pieces of the actions. *)

LEMMA NoCallFacts ==
    /\ NoCall \in Call
    /\ NoLogits \in Logits
    /\ NoCall.op = "none" /\ NoCall.node = Root
    /\ NoCall.resp = << >> /\ NoCall.rewind = {}
BY DEF NoCall, Call, Ops, Root, NoLogits, Logits, State

\* A registration keeps the tree a tree and leaves the caller at a node of it.
LEMMA RegisterShape ==
    ASSUME IsTree(tree), Linked(tree), ConstAtTop(tree), collided \in BOOLEAN,
           NEW n \in DOMAIN tree, NEW ids \in Seq(Token), NEW st \in State,
           NEW lg \in Logits, NEW m, Register(n, ids, st, lg, m)
    PROVE  /\ IsTree(tree') /\ Linked(tree') /\ ConstAtTop(tree')
           /\ m \in DOMAIN tree'
           /\ collided' \in BOOLEAN
<1>1. CASE /\ IsFirst(m, SameIds(tree, n, ids))
           /\ tree' = Bump(tree, m)
           /\ collided' = (collided \/ n # Root \/ tree[m].state # st)
  <2>1. m \in DOMAIN tree
    BY <1>1 DEF IsFirst, SameIds, Children
  <2>2. IsTree(tree') /\ SameButCounts(tree, tree')
    BY <1>1, <2>1, BumpFields
  <2>3. Linked(tree') /\ ConstAtTop(tree')
    BY <2>2, CountsDoNotMatter
  <2>4. m \in DOMAIN tree'
    BY <2>1, <2>2 DEF SameButCounts
  <2> QED BY <1>1, <2>2, <2>3, <2>4
<1>2. CASE /\ SameIds(tree, n, ids) = {}
           /\ m \in FreshIds(tree)
           /\ tree' = AddNode(tree, m, NewChild(tree, n, ids, st, lg))
           /\ UNCHANGED collided
  BY <1>2, NewChildKeeps
<1> QED BY <1>1, <1>2 DEF Register

\* What is left of the ids below a matched node is encoded again to tokens.
LEMMA ReencodeType ==
    ASSUME TypeOK, CallShape, call.node \in DOMAIN tree, pc = "match", call.op = "chat"
    PROVE  Reencode(Unmatched) \in Seq(Token)
<1>1. PICK p \in PromptValues, i \in Inputs : call.ids = ChatIds(p, i)
  BY DEF CallShape
<1> DEFINE k == Len(tree[call.node].ids) + 1
<1>2. tree[call.node].ids \in Seq(Token) /\ call.ids \in Seq(Token)
  BY DEF TypeOK, IsTree, Node, Call
<1>3. k \in 1 .. Len(call.ids) + 1
  BY <1>2 DEF CallShape, IsPrefix
<1>4. Reencode(SubSeq(call.ids, k, Len(call.ids))) \in Seq(Token)
  BY <1>1, <1>3, ChatAssumption
<1> QED BY <1>4 DEF Unmatched

\* Returning from a call leaves no call behind.
LEMMA ReturnShape ==
    ASSUME Return, IsTree(tree'), Linked(tree'), ConstAtTop(tree'),
           live' \in State, prompt' \in PromptValues, collided' \in BOOLEAN,
           misloaded' \subseteq StateTags
    PROVE  ShapeInv'
<1>1. pc' = "idle" /\ call' = NoCall /\ logits' = NoLogits
  BY DEF Return
<1>2. TypeOK'
  BY <1>1, NoCallFacts DEF TypeOK, Steps
<1>3. TreeShape'
  BY <1>1, NoCallFacts DEF TreeShape, IsTree
<1>4. CallShape'
  BY <1>1, NoCallFacts DEF CallShape
<1> QED BY <1>2, <1>3, <1>4 DEF ShapeInv

\* A failed evaluation leaves a well-formed state behind.
LEMMA FailedEvalShape ==
    ASSUME ShapeInv, NEW fed \in State, FailedEval(fed)
    PROVE  ShapeInv'
<1>1. PICK j \in 0 .. Len(fed) : live' = live \o SubSeq(fed, 1, j)
  BY DEF FailedEval
<1>2. SubSeq(fed, 1, j) \in State
  BY DEF State
<1>3. live' \in State
  BY <1>1, <1>2, KeyOfConcat DEF ShapeInv, TypeOK
<1>4. UNCHANGED <<tree, prompt, collided, misloaded>> /\ Return
  BY DEF FailedEval
<1> QED BY <1>3, <1>4, ReturnShape DEF ShapeInv, TypeOK, TreeShape

\* Starting a call: its ids are the ones of its arguments.
LEMMA StartShape ==
    ASSUME ShapeInv, NEW op \in {"chat", "prompt", "audio"}, NEW ids \in Seq(Token),
           Start(op, ids),
           op = "chat" => \E p \in PromptValues, i \in Inputs : ids = ChatIds(p, i),
           op # "chat" => ids \in Prompts \cup AudioTags
    PROVE  ShapeInv'
<1>1. /\ call'.op = op /\ call'.node = Root /\ call'.ids = ids
      /\ call'.resp = << >> /\ call'.rewind = {} /\ call' \in Call /\ pc' = "match"
      /\ UNCHANGED <<tree, live, prompt, logits, collided, misloaded>>
  BY NoCallFacts DEF Start, NoCall, Call, Ops, Root
<1>2. TypeOK'
  BY <1>1 DEF ShapeInv, TypeOK, Steps
<1>3. TreeShape'
  BY <1>1 DEF ShapeInv, TypeOK, TreeShape, IsTree
<1>4. tree[Root].ids = << >> /\ IsPrefix(<< >>, ids)
  BY DEF ShapeInv, TypeOK, IsTree, IsPrefix
<1>5. CallShape'
  BY <1>1, <1>4 DEF CallShape
<1> QED BY <1>2, <1>3, <1>5 DEF ShapeInv

\* The history a prefill chunk feeds has the chunk as its key.
LEMMA FedHistory ==
    ASSUME NEW chunk \in Seq(Token)
    PROVE  Fed(chunk) \in State /\ KeyOf(Fed(chunk)) = chunk
BY AsTextHistory, AsFileHistory DEF Fed

\* After a load, failed or not, what is live is a history; it is the content of
\* the file, or the tag is among those whose load failed.
LEMMA LoadLeaves ==
    ASSUME live \in State, NEW tag \in Seq(Token), LoadInitialState(tag)
    PROVE  /\ live' \in State
           /\ misloaded \subseteq misloaded'
           /\ tag \in misloaded' \/ (live' = AsFile(tag) /\ KeyOf(live') = tag)
<1>1. << >> \in State
  BY DEF State
<1>2. ASSUME NEW tok \in Token PROVE AsText(<<tok>>) \in State
  <2>1. <<tok>> \in Seq(Token)
    OBVIOUS
  <2> QED BY <2>1, AsTextHistory
<1>3. HalfLoaded \subseteq State
  BY <1>1, <1>2 DEF HalfLoaded
<1>4. AsFile(tag) \in State /\ KeyOf(AsFile(tag)) = tag
  BY AsFileHistory
<1> QED BY <1>3, <1>4 DEF LoadInitialState

-----------------------------------------------------------------------------
(* Types, links of the tree, and the phases of a call. *)

LEMMA ShapeInit == Init => ShapeInv
<1> SUFFICES ASSUME Init PROVE ShapeInv
  OBVIOUS
<1>1. /\ DOMAIN EmptyTree = {Root} /\ EmptyTree[Root].anc = {}
      /\ EmptyTree[Root].ids = << >> /\ EmptyTree[Root].state = << >>
      /\ EmptyTree[Root].const = FALSE /\ EmptyTree[Root] \in Node
  BY ActivationAssumption DEF EmptyTree, Node, Root, ZeroLogits, Logits, State
<1>2. EmptyTree \in [{Root} -> Node]
  BY <1>1 DEF EmptyTree
<1>3. IsTree(tree) /\ Linked(tree) /\ ConstAtTop(tree)
  BY <1>1, <1>2 DEF Init, IsTree, Linked, ConstAtTop, Root
<1>4. TypeOK
  <2>1. live \in State /\ prompt \in PromptValues /\ pc \in Steps
    BY DEF Init, PromptValues, Steps, State
  <2>2. call \in Call /\ logits \in Logits
        /\ collided \in BOOLEAN /\ misloaded \subseteq StateTags
    BY NoCallFacts DEF Init
  <2> QED BY <1>3, <2>1, <2>2 DEF TypeOK
<1>5. TreeShape /\ CallShape
  BY <1>1, <1>3, NoCallFacts DEF Init, TreeShape, CallShape
<1> QED BY <1>4, <1>5 DEF ShapeInv

LEMMA ShapeStep == ShapeInv /\ [Next]_vars => ShapeInv'
<1> SUFFICES ASSUME ShapeInv, [Next]_vars PROVE ShapeInv'
  OBVIOUS
<1>a. /\ IsTree(tree) /\ Linked(tree) /\ ConstAtTop(tree)
      /\ call.node \in DOMAIN tree /\ collided \in BOOLEAN
      /\ live \in State /\ logits \in Logits /\ prompt \in PromptValues
      /\ call \in Call /\ pc \in Steps /\ misloaded \subseteq StateTags
  BY DEF ShapeInv, TypeOK, TreeShape
<1>b. /\ call.ids \in Seq(Token) /\ call.pending \in Seq(Token)
      /\ call.resp \in Seq(Token) /\ call.rewind \in SUBSET State
      /\ call.op \in Ops
  BY <1>a DEF Call
<1>c. /\ tree[call.node].state \in State /\ tree[call.node].ids \in Seq(Token)
      /\ tree[call.node].logits \in Logits
      /\ DOMAIN tree \subseteq Nat /\ tree \in [DOMAIN tree -> Node]
  BY <1>a DEF IsTree, Node
<1>1. ASSUME NEW i \in Inputs, StartChat(i) PROVE ShapeInv'
  <2>1. ChatIds(prompt, i) \in Seq(Token)
    BY <1>a, ChatAssumption
  <2> QED BY <1>1, <1>a, <2>1, StartShape DEF StartChat
<1>2. ASSUME NEW p \in Prompts, StartSetPrompt(p) PROVE ShapeInv'
  <2>1. p \in Seq(Token)
    BY ChatAssumption
  <2> QED BY <1>2, <2>1, StartShape DEF StartSetPrompt
<1>3. ASSUME NEW p \in AudioTags, StartAudioPrompt(p) PROVE ShapeInv'
  <2>1. p \in Seq(Token)
    BY ChatAssumption
  <2> QED BY <1>3, <2>1, StartShape DEF StartAudioPrompt
<1>4. CASE MatchDescend
  <2>1. PICK c \in DOMAIN tree :
          /\ IsFirst(c, Matching(tree, call.node, call.ids))
          /\ tree' = Bump(tree, c)
          /\ call' = [call EXCEPT !.node = c]
    BY <1>4 DEF MatchDescend
  <2>2. IsTree(tree') /\ SameButCounts(tree, tree')
    BY <1>a, <2>1, BumpFields
  <2>3. Linked(tree') /\ ConstAtTop(tree')
    BY <1>a, <2>2, CountsDoNotMatter
  <2>4. IsPrefix(tree[c].ids, call.ids)
    BY <2>1 DEF IsFirst, Matching
  <2>5. c \in DOMAIN tree' /\ tree'[c].ids = tree[c].ids
    BY <2>2 DEF SameButCounts
  <2>6. /\ call' \in Call /\ call'.node = c
        /\ call'.ids = call.ids /\ call'.op = call.op
        /\ call'.resp = call.resp /\ call'.rewind = call.rewind
    BY <1>a, <1>c, <2>1 DEF Call
  <2>7. pc = "match" /\ UNCHANGED <<live, prompt, pc, logits, collided, misloaded>>
    BY <1>4 DEF MatchDescend
  <2>8. TypeOK'
    BY <1>a, <2>2, <2>6, <2>7 DEF TypeOK
  <2>9. TreeShape'
    BY <2>3, <2>5, <2>6 DEF TreeShape
  <2>10. CallShape'
    BY <2>4, <2>5, <2>6, <2>7 DEF ShapeInv, CallShape
  <2> QED BY <2>8, <2>9, <2>10 DEF ShapeInv
<1>5. CASE MatchedChat
  <2>1. /\ pc = "match" /\ call.op = "chat" /\ pc' = "prefill"
        /\ live' = tree[call.node].state
        /\ call' = [call EXCEPT !.pending = Reencode(Unmatched)]
        /\ UNCHANGED <<tree, prompt, logits, collided, misloaded>>
    BY <1>5 DEF MatchedChat, MatchEnd
  <2>2. Reencode(Unmatched) \in Seq(Token)
    BY <1>a, <2>1, ReencodeType DEF ShapeInv
  <2>3. /\ call' \in Call /\ call'.node = call.node
        /\ call'.ids = call.ids /\ call'.op = call.op
        /\ call'.resp = call.resp /\ call'.rewind = call.rewind
    BY <1>a, <2>1, <2>2 DEF Call
  <2>4. TypeOK'
    BY <1>a, <1>c, <2>1, <2>3 DEF TypeOK, Steps
  <2>5. TreeShape'
    BY <1>a, <2>1, <2>3 DEF TreeShape
  <2>6. CallShape'
    BY <2>1, <2>3 DEF ShapeInv, CallShape
  <2> QED BY <2>4, <2>5, <2>6 DEF ShapeInv
<1>6. CASE MatchedPrompt
  <2>1. /\ pc = "match" /\ call.op \in {"prompt", "audio"}
        /\ live' = tree[call.node].state
        /\ UNCHANGED <<tree, collided, misloaded>>
    BY <1>6 DEF MatchedPrompt, MatchEnd
  <2>2. CASE Return /\ UNCHANGED prompt
    BY <1>a, <1>c, <2>1, <2>2, ReturnShape
  <2>3. CASE prompt' = call.ids /\ pc' = "prompt" /\ UNCHANGED <<call, logits>>
    <3>1. prompt' \in PromptValues
      BY <2>1, <2>3 DEF ShapeInv, CallShape, PromptValues
    <3>2. TypeOK'
      BY <1>a, <1>c, <2>1, <2>3, <3>1 DEF TypeOK, Steps
    <3>3. TreeShape'
      BY <1>a, <2>1, <2>3 DEF TreeShape
    <3>4. CallShape'
      BY <2>1, <2>3 DEF ShapeInv, CallShape
    <3> QED BY <3>2, <3>3, <3>4 DEF ShapeInv
  <2> QED BY <1>6, <2>2, <2>3 DEF MatchedPrompt
<1>7. CASE PrefillChunk
  <2>1. PICK k \in 1 .. Len(call.pending), m \in Slots :
          LET chunk == SubSeq(call.pending, 1, k) IN
          /\ live' = live \o Fed(chunk)
          /\ logits' = LogitsAfter(live')
          /\ Register(call.node, chunk, live', logits', m)
          /\ call' = [call EXCEPT !.node = m, !.pending = SubSeq(@, k + 1, Len(@))]
    BY <1>7 DEF PrefillChunk
  <2> DEFINE chunk == SubSeq(call.pending, 1, k)
  <2>2. /\ chunk \in Seq(Token)
        /\ SubSeq(call.pending, k + 1, Len(call.pending)) \in Seq(Token)
    BY <1>b
  <2>3. live' \in State /\ logits' \in Logits
    BY <1>a, <2>1, <2>2, FedHistory, KeyOfConcat DEF LogitsAfter, Logits
  <2>4. /\ IsTree(tree') /\ Linked(tree') /\ ConstAtTop(tree')
        /\ m \in DOMAIN tree' /\ collided' \in BOOLEAN
    BY <1>a, <2>1, <2>2, <2>3, RegisterShape
  <2>5. m \in Nat
    BY <2>4 DEF IsTree
  <2>6. /\ call' \in Call /\ call'.node = m
        /\ call'.ids = call.ids /\ call'.op = call.op
        /\ call'.resp = call.resp /\ call'.rewind = call.rewind
    BY <1>a, <2>1, <2>2, <2>5 DEF Call
  <2>7. pc = "prefill" /\ UNCHANGED <<prompt, pc, misloaded>>
    BY <1>7 DEF PrefillChunk
  <2>8. TypeOK'
    BY <1>a, <2>3, <2>4, <2>6, <2>7 DEF TypeOK
  <2>9. TreeShape'
    BY <2>4, <2>6 DEF TreeShape
  <2>10. CallShape'
    BY <2>6, <2>7 DEF ShapeInv, CallShape
  <2> QED BY <2>8, <2>9, <2>10 DEF ShapeInv
<1>8. CASE PrefillFails
  <2>1. PICK k \in 1 .. Len(call.pending) : FailedEval(Fed(SubSeq(call.pending, 1, k)))
    BY <1>8 DEF PrefillFails
  <2>3. SubSeq(call.pending, 1, k) \in Seq(Token)
    BY <1>b
  <2>2. Fed(SubSeq(call.pending, 1, k)) \in State
    BY <2>3, FedHistory
  <2> QED BY <2>1, <2>2, FailedEvalShape
<1>9. CASE PrefillDone
  <2>1. /\ pc = "prefill" /\ pc' = "decode" /\ logits' \in Logits
        /\ UNCHANGED <<tree, live, prompt, call, collided, misloaded>>
    BY <1>9, <1>a, <1>c DEF PrefillDone
  <2> QED BY <1>a, <2>1 DEF ShapeInv, TypeOK, TreeShape, CallShape, Steps
<1>10. ASSUME NEW tok \in Token, DecodeToken(tok) PROVE ShapeInv'
  <2>1. /\ pc = "decode" /\ live' = live \o AsText(<<tok>>)
        /\ logits' = LogitsAfter(live')
        /\ call' = [call EXCEPT !.resp = Append(@, tok),
                       !.rewind = IF tok \in RewindTokens THEN {live} ELSE {}]
        /\ UNCHANGED <<tree, prompt, pc, collided, misloaded>>
    BY <1>10 DEF DecodeToken
  <2>2. live' \in State /\ logits' \in Logits
    <3>1. <<tok>> \in Seq(Token)
      OBVIOUS
    <3>2. AsText(<<tok>>) \in State
      BY <3>1, AsTextHistory
    <3> QED BY <1>a, <2>1, <3>2, KeyOfConcat DEF LogitsAfter, Logits
  <2>3. Append(call.resp, tok) \in Seq(Token)
    BY <1>b
  <2>4. /\ call' \in Call /\ call'.node = call.node
        /\ call'.ids = call.ids /\ call'.op = call.op
    BY <1>a, <2>1, <2>3 DEF Call
  <2>5. TypeOK'
    BY <1>a, <2>1, <2>2, <2>4 DEF TypeOK
  <2>6. TreeShape'
    BY <1>a, <2>1, <2>4 DEF TreeShape
  <2>7. CallShape'
    BY <2>1, <2>4 DEF ShapeInv, CallShape
  <2> QED BY <2>5, <2>6, <2>7 DEF ShapeInv
<1>11. ASSUME NEW tok \in Token, DecodeFails(tok) PROVE ShapeInv'
  <2>1. <<tok>> \in Seq(Token)
    OBVIOUS
  <2> QED BY <1>11, <2>1, AsTextHistory, FailedEvalShape DEF DecodeFails
<1>12. CASE DecodeBreak
  BY <1>12, <1>a DEF DecodeBreak, ShapeInv, TypeOK, TreeShape, CallShape, Steps
<1>13. CASE RegisterResponse
  <2>0. pc = "register" /\ pc' = "cleanup" /\ UNCHANGED <<live, prompt, logits, misloaded>>
    BY <1>13 DEF RegisterResponse
  <2>1. CASE UNCHANGED <<tree, call, collided>>
    BY <1>a, <2>0, <2>1 DEF ShapeInv, TypeOK, TreeShape, CallShape, Steps
  <2>2. ASSUME NEW ids \in Seq(Token), NEW st \in State, NEW m \in Slots,
               Register(call.node, ids, st, logits, m),
               call' = [call EXCEPT !.node = m]
        PROVE  ShapeInv'
    <3>1. /\ IsTree(tree') /\ Linked(tree') /\ ConstAtTop(tree')
          /\ m \in DOMAIN tree' /\ collided' \in BOOLEAN
      BY <1>a, <2>2, RegisterShape
    <3>2. m \in Nat
      BY <3>1 DEF IsTree
    <3>3. /\ call' \in Call /\ call'.node = m
          /\ call'.ids = call.ids /\ call'.op = call.op
          /\ call'.resp = call.resp /\ call'.rewind = call.rewind
      BY <1>a, <2>2, <3>2 DEF Call
    <3>4. TypeOK'
      BY <1>a, <2>0, <3>1, <3>3 DEF TypeOK, Steps
    <3>5. TreeShape'
      BY <3>1, <3>3 DEF TreeShape
    <3>6. CallShape'
      BY <2>0, <3>3 DEF ShapeInv, CallShape
    <3> QED BY <3>4, <3>5, <3>6 DEF ShapeInv
  <2>3. SubSeq(call.resp, 1, Len(call.resp) - 1) \in Seq(Token)
    BY <1>b
  <2> QED BY <1>13, <1>a, <1>b, <2>1, <2>2, <2>3 DEF RegisterResponse
<1>14. CASE CleanupStateTree
  <2>1. IsTree(tree') /\ Restricts(tree, tree')
    BY <1>14, <1>a, CleanedKeeps DEF CleanupStateTree
  <2>2. Linked(tree') /\ ConstAtTop(tree')
    BY <1>a, <2>1, RestrictsKeeps
  <2> QED BY <1>14, <1>a, <2>1, <2>2, ReturnShape DEF CleanupStateTree
<1>15. CASE PromptEval
  <2>1. PICK m \in Slots : Register(call.node, call.ids, live', LogitsAfter(live'), m)
    BY <1>15 DEF PromptEval
  <2>2. live' \in State
    BY <1>15, <1>a, <1>b, AsTextHistory, AsFileHistory, KeyOfConcat
    DEF PromptEval, PromptFed
  <2>3. LogitsAfter(live') \in Logits
    BY <2>2 DEF LogitsAfter, Logits
  <2>4. /\ IsTree(tree') /\ Linked(tree') /\ ConstAtTop(tree')
        /\ collided' \in BOOLEAN
    BY <1>a, <1>b, <2>1, <2>2, <2>3, RegisterShape
  <2> QED BY <1>15, <1>a, <2>2, <2>4, ReturnShape DEF PromptEval
<1>16. CASE PromptFails
  <2>1. PromptFed \in State
    BY <1>b, AsTextHistory, AsFileHistory DEF PromptFed
  <2> QED BY <1>16, <2>1, FailedEvalShape DEF PromptFails
<1>17. ASSUME NEW tag \in StateTags, LoadInitialState(tag) PROVE ShapeInv'
  <2>1. tag \in Seq(Token)
    BY ChatAssumption
  <2>2. PICK m \in FreshIds(tree) : tree' = AddNode(tree, m, ConstChild(tree, tag, live'))
    BY <1>17 DEF LoadInitialState
  <2>3. live' \in State
    BY <1>17, <1>a, <2>1, LoadLeaves
  <2>4. /\ IsTree(tree') /\ Linked(tree') /\ ConstAtTop(tree')
        /\ Adds(tree, tree', m, ConstChild(tree, tag, live'))
    BY <1>a, <2>1, <2>2, <2>3, ConstChildKeeps
  <2>5. call.node \in DOMAIN tree'
    BY <1>a, <2>4 DEF Adds
  <2>6. /\ pc = "idle" /\ UNCHANGED <<prompt, pc, call, logits, collided>>
        /\ misloaded' \subseteq StateTags
    BY <1>17, <1>a DEF LoadInitialState
  <2> QED BY <1>a, <2>3, <2>4, <2>5, <2>6 DEF ShapeInv, TypeOK, TreeShape, CallShape
<1>18. ASSUME NEW tag \in StateTags, UnloadInitialState(tag) PROVE ShapeInv'
  <2>1. PICK c \in DOMAIN tree : /\ IsFirst(c, SameIds(tree, Root, tag))
                                 /\ tree' = RemoveSubtree(tree, c)
    BY <1>18 DEF UnloadInitialState
  <2>2. c \in DOMAIN tree \ {Root}
    BY <2>1 DEF IsFirst, SameIds, Children
  <2>3. IsTree(tree') /\ Restricts(tree, tree')
    BY <1>a, <2>1, <2>2, RemoveSubtreeKeeps
  <2>4. Linked(tree') /\ ConstAtTop(tree')
    BY <1>a, <2>3, RestrictsKeeps
  <2>5. pc = "idle" /\ UNCHANGED <<live, prompt, pc, call, logits, collided, misloaded>>
    BY <1>18 DEF UnloadInitialState
  <2>6. call.node = Root /\ Root \in DOMAIN tree'
    BY <2>3, <2>5, NoCallFacts DEF ShapeInv, CallShape, IsTree
  <2> QED BY <1>a, <2>3, <2>4, <2>5, <2>6 DEF ShapeInv, TypeOK, TreeShape, CallShape
<1>19. CASE ClearState
  <2>1. << >> \in State
    BY DEF State
  <2> QED BY <1>19, <1>a, <2>1 DEF ClearState, ShapeInv, TypeOK, TreeShape, CallShape
<1>20. ASSUME NEW tok \in Token, EvalLogits(tok) PROVE ShapeInv'
  <2>1. live' \in State
    <3>1. <<tok>> \in Seq(Token)
      OBVIOUS
    <3>2. AsText(<<tok>>) \in State
      BY <3>1, AsTextHistory
    <3> QED BY <1>20, <1>a, <3>2, KeyOfConcat DEF EvalLogits
  <2> QED BY <1>20, <1>a, <2>1 DEF EvalLogits, ShapeInv, TypeOK, TreeShape, CallShape
<1>21. CASE UNCHANGED vars
  BY <1>21 DEF vars, ShapeInv, TypeOK, TreeShape, CallShape
<1> QED BY <1>1, <1>2, <1>3, <1>4, <1>5, <1>6, <1>7, <1>8, <1>9, <1>10, <1>11,
           <1>12, <1>13, <1>14, <1>15, <1>16, <1>17, <1>18, <1>19, <1>20, <1>21
        DEF Next

\* Chat keeps its types, whatever the vocabulary, the inputs and the bounds.
THEOREM TypeCorrect == Spec => []TypeOK
<1>1. ShapeInv => TypeOK
  BY DEF ShapeInv
<1> QED BY <1>1, ShapeInit, ShapeStep, PTL DEF Spec

\* The cache stays a tree of extending keys under every operation, and the
\* node a call holds is always in it.
THEOREM TreeShapeCorrect == Spec => []TreeShape
<1>1. ShapeInv => TreeShape
  BY DEF ShapeInv
<1> QED BY <1>1, ShapeInit, ShapeStep, PTL DEF Spec

-----------------------------------------------------------------------------
(* What the cache holds: theorems about the states, the counts and the      *)
(* logits of the nodes, on top of the shape established above.              *)

CacheInv == ShapeInv /\ LiveHistory /\ CoherentUnlessCollided /\ ContinuesParent

-----------------------------------------------------------------------------
(* Registering. *)

\* A registration of a state that continues the node's, under the key of the
\* continuation, leaves the caller at a node with exactly that state unless
\* it collides.
LEMMA RegisterCoherent ==
    ASSUME IsTree(tree), Linked(tree), ConstAtTop(tree), collided \in BOOLEAN,
           CoherentUnlessCollided, ContinuesParent,
           NEW n \in DOMAIN tree, NEW ids \in Seq(Token), NEW st,
           Extends(tree, misloaded, n, ids, st),
           NEW lg \in Logits, NEW m, Register(n, ids, st, lg, m), ~ collided',
           UNCHANGED misloaded
    PROVE  /\ ~ collided
           /\ CoherentTree(tree', misloaded') /\ ContinuingTree(tree', misloaded')
           /\ tree'[m].state = st
<1>0. ~ collided
  BY DEF Register
<1>1. CoherentTree(tree, misloaded) /\ ContinuingTree(tree, misloaded)
  BY <1>0 DEF CoherentUnlessCollided, ContinuesParent
<1>3. st \in State
  BY DEF Extends
<1>5. CASE /\ IsFirst(m, SameIds(tree, n, ids))
           /\ tree' = Bump(tree, m)
           /\ collided' = (collided \/ n # Root \/ tree[m].state # st)
  <2>1. m \in DOMAIN tree /\ tree[m].state = st
    BY <1>5 DEF IsFirst, SameIds, Children
  <2>2. SameButCounts(tree, tree')
    BY <1>5, <2>1, BumpFields
  <2>3. CoherentTree(tree', misloaded') /\ ContinuingTree(tree', misloaded')
    BY <1>1, <2>2, CountsDoNotMatter
  <2>4. tree'[m].state = st
    BY <2>1, <2>2 DEF SameButCounts
  <2> QED BY <1>0, <2>3, <2>4
<1>6. CASE /\ SameIds(tree, n, ids) = {}
           /\ m \in FreshIds(tree)
           /\ tree' = AddNode(tree, m, NewChild(tree, n, ids, st, lg))
           /\ UNCHANGED collided
  <2>1. CoherentTree(tree', misloaded') /\ ContinuingTree(tree', misloaded')
    BY <1>1, <1>6, NewChildCoherent
  <2>2. tree'[m] = NewChild(tree, n, ids, st, lg)
    BY <1>3, <1>6, NewChildKeeps
  <2>3. tree'[m].state = st
    BY <2>2 DEF NewChild
  <2> QED BY <1>0, <2>1, <2>3
<1> QED BY <1>5, <1>6 DEF Register

\* After a return the live state says nothing about the tree.
LEMMA ReturnCoherent ==
    ASSUME Return,
           ~ collided' => /\ CoherentTree(tree', misloaded')
                          /\ ContinuingTree(tree', misloaded')
    PROVE  LiveHistory' /\ CoherentUnlessCollided' /\ ContinuesParent'
BY DEF Return, LiveHistory, CoherentUnlessCollided, ContinuesParent

-----------------------------------------------------------------------------
(* Coherence of the cache. *)

LEMMA CacheInit == Init => CacheInv
<1> SUFFICES ASSUME Init PROVE CacheInv
  OBVIOUS
<1>1. ShapeInv
  BY ShapeInit
<1>2. tree = EmptyTree /\ pc = "idle"
  BY DEF Init
<1>3. DOMAIN EmptyTree = {Root} /\ EmptyTree[Root].state = << >> /\ EmptyTree[Root].ids = << >>
  BY DEF EmptyTree
<1>4. KeyOf(<< >>) = << >>
  BY DEF KeyOf
<1>5. CoherentTree(tree, misloaded) /\ ContinuingTree(tree, misloaded)
  BY <1>2, <1>3, <1>4 DEF CoherentTree, ContinuingTree
<1>6. LiveHistory
  BY <1>2 DEF LiveHistory
<1> QED BY <1>1, <1>5, <1>6 DEF CacheInv, CoherentUnlessCollided, ContinuesParent

LEMMA CacheStep == CacheInv /\ [Next]_vars => CacheInv'
<1> SUFFICES ASSUME CacheInv, [Next]_vars
             PROVE  LiveHistory' /\ CoherentUnlessCollided' /\ ContinuesParent'
  BY ShapeStep DEF CacheInv
<1>a. /\ IsTree(tree) /\ Linked(tree) /\ ConstAtTop(tree)
      /\ call.node \in DOMAIN tree /\ collided \in BOOLEAN
      /\ live \in State /\ logits \in Logits /\ call \in Call /\ CallShape
      /\ LiveHistory /\ CoherentUnlessCollided /\ ContinuesParent
  BY DEF CacheInv, ShapeInv, TypeOK, TreeShape
<1>b. /\ call.ids \in Seq(Token) /\ call.pending \in Seq(Token)
      /\ call.resp \in Seq(Token) /\ call.rewind \in SUBSET State
  BY <1>a DEF Call
<1>c. tree[call.node].state \in State
  BY <1>a DEF IsTree, Node
<1>d. ~ collided => CoherentTree(tree, misloaded) /\ ContinuingTree(tree, misloaded)
  BY <1>a DEF CoherentUnlessCollided, ContinuesParent
<1>e. tree[call.node].state \o AsText(<< >>) = tree[call.node].state
  <2>1. AsText(<< >>) = << >>
    BY DEF AsText
  <2> QED BY <1>c, <2>1, ConcatEmptySeq DEF State
\* Steps that leave the tree alone and return, or stay outside the phases
\* that LiveHistory speaks of.
<1>f. ASSUME UNCHANGED <<tree, collided, misloaded>>,
             pc' \notin {"prompt", "prefill", "decode", "register"}
      PROVE  LiveHistory' /\ CoherentUnlessCollided' /\ ContinuesParent'
  BY <1>a, <1>f DEF LiveHistory, CoherentUnlessCollided, ContinuesParent
<1>g. ASSUME NEW fed, FailedEval(fed)
      PROVE  LiveHistory' /\ CoherentUnlessCollided' /\ ContinuesParent'
  BY <1>f, <1>g DEF FailedEval, Return
<1>1. ASSUME NEW op, NEW ids, Start(op, ids)
      PROVE  LiveHistory' /\ CoherentUnlessCollided' /\ ContinuesParent'
  BY <1>1, <1>f DEF Start
<1>4. CASE MatchDescend
  <2>1. PICK c \in DOMAIN tree : tree' = Bump(tree, c)
    BY <1>4 DEF MatchDescend
  <2>2. SameButCounts(tree, tree')
    BY <1>a, <2>1, BumpFields
  <2>4. pc' = "match" /\ UNCHANGED <<collided, misloaded>>
    BY <1>4 DEF MatchDescend
  <2>3. ~ collided => CoherentTree(tree', misloaded') /\ ContinuingTree(tree', misloaded')
    BY <1>a, <1>d, <2>2, <2>4, CountsDoNotMatter
  <2> QED BY <2>3, <2>4 DEF LiveHistory, CoherentUnlessCollided, ContinuesParent
<1>5. CASE MatchedChat
  <2>1. /\ pc' = "prefill" /\ live' = tree[call.node].state
        /\ UNCHANGED <<tree, collided, misloaded>> /\ call.resp = << >>
        /\ call' = [call EXCEPT !.pending = Reencode(Unmatched)]
    BY <1>5, <1>a DEF MatchedChat, MatchEnd, CallShape
  <2>2. call'.node = call.node /\ call'.resp = << >>
    BY <1>a, <2>1 DEF Call
  <2>3. LiveHistory'
    BY <1>e, <2>1, <2>2 DEF LiveHistory
  <2> QED BY <1>d, <2>1, <2>3 DEF CoherentUnlessCollided, ContinuesParent
<1>6. CASE MatchedPrompt
  <2>1. /\ live' = tree[call.node].state /\ UNCHANGED <<tree, collided, misloaded>>
    BY <1>6 DEF MatchedPrompt, MatchEnd
  <2>2. CASE Return
    BY <1>f, <2>1, <2>2 DEF Return
  <2>3. CASE pc' = "prompt" /\ UNCHANGED <<call, logits>>
    BY <1>d, <2>1, <2>3 DEF LiveHistory, CoherentUnlessCollided, ContinuesParent
  <2> QED BY <1>6, <2>2, <2>3 DEF MatchedPrompt
<1>7. CASE PrefillChunk
  <2>1. PICK k \in 1 .. Len(call.pending), m \in Slots :
          LET chunk == SubSeq(call.pending, 1, k) IN
          /\ live' = live \o Fed(chunk)
          /\ logits' = LogitsAfter(live')
          /\ Register(call.node, chunk, live', logits', m)
          /\ call' = [call EXCEPT !.node = m, !.pending = SubSeq(@, k + 1, Len(@))]
    BY <1>7 DEF PrefillChunk
  <2> DEFINE chunk == SubSeq(call.pending, 1, k)
  <2>0. /\ pc = "prefill" /\ pc' = "prefill" /\ call.resp = << >> /\ call.rewind = {}
        /\ UNCHANGED misloaded
    BY <1>7, <1>a DEF PrefillChunk, CallShape
  <2>2. chunk \in Seq(Token)
    BY <1>b
  <2>3. Fed(chunk) \in State /\ KeyOf(Fed(chunk)) = chunk
    BY <2>2, FedHistory
  <2>4. live' \in State /\ logits' \in Logits
    BY <1>a, <2>1, <2>3, KeyOfConcat DEF LogitsAfter, Logits
  <2>5. call'.node = m /\ call'.resp = << >> /\ call'.rewind = {}
    BY <1>a, <2>0, <2>1 DEF Call
  <2> SUFFICES ASSUME ~ collided'
               PROVE  LiveHistory' /\ CoherentUnlessCollided' /\ ContinuesParent'
    BY DEF LiveHistory, CoherentUnlessCollided, ContinuesParent
  <2>6. ~ collided
    BY <2>1 DEF Register
  <2>7. live' = tree[call.node].state \o Fed(chunk)
    BY <1>a, <1>e, <2>0, <2>1, <2>6 DEF LiveHistory
  <2>8. Extends(tree, misloaded, call.node, chunk, live')
    <3>1. CoherentTree(tree, misloaded)
      BY <1>d, <2>6
    <3> HIDE DEF chunk
    <3> QED BY <1>a, <2>3, <2>7, <3>1, ExtendsByHistory
  <2>9. /\ CoherentTree(tree', misloaded') /\ ContinuingTree(tree', misloaded')
        /\ tree'[m].state = live'
    <3>1. Register(call.node, chunk, live', logits', m)
      BY <2>1
    <3> HIDE DEF chunk
    <3> QED BY <1>a, <2>0, <2>2, <2>4, <2>8, <3>1, RegisterCoherent
  <2>10. live' \o AsText(<< >>) = live'
    <3>1. AsText(<< >>) = << >>
      BY DEF AsText
    <3> QED BY <2>4, <3>1, ConcatEmptySeq DEF State
  <2>11. LiveHistory'
    BY <2>0, <2>5, <2>9, <2>10 DEF LiveHistory
  <2> QED BY <2>9, <2>11 DEF CoherentUnlessCollided, ContinuesParent
<1>8. CASE PrefillFails
  BY <1>8, <1>g DEF PrefillFails
<1>9. CASE PrefillDone
  <2>1. pc = "prefill" /\ pc' = "decode" /\ UNCHANGED <<tree, live, call, collided, misloaded>>
    BY <1>9 DEF PrefillDone
  <2>2. call.rewind = {}
    BY <1>a, <2>1 DEF CallShape
  <2> QED BY <1>a, <2>1, <2>2 DEF LiveHistory, CoherentUnlessCollided, ContinuesParent
<1>10. ASSUME NEW tok \in Token, DecodeToken(tok)
       PROVE  LiveHistory' /\ CoherentUnlessCollided' /\ ContinuesParent'
  <2>1. /\ pc = "decode" /\ live' = live \o AsText(<<tok>>)
        /\ call' = [call EXCEPT !.resp = Append(@, tok),
                       !.rewind = IF tok \in RewindTokens THEN {live} ELSE {}]
        /\ UNCHANGED <<tree, pc, collided, misloaded>>
    BY <1>10 DEF DecodeToken
  <2>2. /\ call'.node = call.node /\ call'.resp = Append(call.resp, tok)
        /\ call'.rewind \subseteq {live}
    BY <1>a, <2>1 DEF Call
  <2>3. ASSUME ~ collided PROVE LiveHistory'
    <3>1. live = tree[call.node].state \o AsText(call.resp)
      BY <1>a, <2>1, <2>3 DEF LiveHistory
    <3>2. live' = tree[call.node].state \o AsText(Append(call.resp, tok))
      BY <1>b, <1>c, <2>1, <3>1, AsTextGrows
    <3>3. SubSeq(Append(call.resp, tok), 1, Len(Append(call.resp, tok)) - 1) = call.resp
      BY <1>b, AppendDropped
    <3>4. Append(call.resp, tok) # << >>
      BY <1>b
    <3> QED BY <2>1, <2>2, <3>1, <3>2, <3>3, <3>4 DEF LiveHistory
  <2>4. LiveHistory'
    BY <2>1, <2>3 DEF LiveHistory
  <2> QED BY <1>d, <2>1, <2>4 DEF CoherentUnlessCollided, ContinuesParent
<1>11. ASSUME NEW tok \in Token, DecodeFails(tok)
       PROVE  LiveHistory' /\ CoherentUnlessCollided' /\ ContinuesParent'
  BY <1>11, <1>g DEF DecodeFails
<1>12. CASE DecodeBreak
  BY <1>12, <1>a DEF DecodeBreak, LiveHistory, CoherentUnlessCollided, ContinuesParent
<1>13. CASE RegisterResponse
  <2>0. pc = "register" /\ pc' = "cleanup" /\ UNCHANGED <<live, logits, misloaded>>
    BY <1>13 DEF RegisterResponse
  <2>1. CASE UNCHANGED <<tree, call, collided>>
    BY <1>f, <2>0, <2>1
  <2>2. ASSUME NEW ids \in Seq(Token), NEW st, NEW m \in Slots,
               ~ collided => st = tree[call.node].state \o AsText(ids),
               Register(call.node, ids, st, logits, m)
        PROVE  LiveHistory' /\ CoherentUnlessCollided' /\ ContinuesParent'
    <3>1. AsText(ids) \in State /\ KeyOf(AsText(ids)) = ids
      BY AsTextHistory
    <3>2. ASSUME ~ collided'
          PROVE  CoherentTree(tree', misloaded') /\ ContinuingTree(tree', misloaded')
      <4>1. ~ collided
        BY <2>2, <3>2 DEF Register
      <4>2. Extends(tree, misloaded, call.node, ids, st)
        BY <1>a, <1>d, <2>2, <3>1, <4>1, ExtendsByHistory
      <4> QED BY <1>a, <2>0, <2>2, <3>2, <4>2, RegisterCoherent
    <3> QED BY <2>0, <3>2 DEF LiveHistory, CoherentUnlessCollided, ContinuesParent
  <2>3. SubSeq(call.resp, 1, Len(call.resp) - 1) \in Seq(Token)
    BY <1>b
  <2>4. ~ collided => /\ live = tree[call.node].state \o AsText(call.resp)
                      /\ \A saved \in call.rewind :
                           saved = tree[call.node].state
                                     \o AsText(SubSeq(call.resp, 1, Len(call.resp) - 1))
    BY <1>a, <2>0 DEF LiveHistory
  <2>5. CASE \E m \in Slots : Register(call.node, call.resp, live, logits, m)
    BY <1>b, <2>2, <2>4, <2>5
  <2>6. CASE \E saved \in call.rewind, m \in Slots :
               Register(call.node, SubSeq(call.resp, 1, Len(call.resp) - 1), saved, logits, m)
    BY <2>2, <2>3, <2>4, <2>6
  <2> QED BY <1>13, <2>1, <2>5, <2>6 DEF RegisterResponse
<1>14. CASE CleanupStateTree
  <2>1. Restricts(tree, tree')
    BY <1>14, <1>a, CleanedKeeps DEF CleanupStateTree
  <2>3. UNCHANGED <<collided, misloaded>>
    BY <1>14 DEF CleanupStateTree
  <2>2. ~ collided' => CoherentTree(tree', misloaded') /\ ContinuingTree(tree', misloaded')
    BY <1>a, <1>d, <2>1, <2>3, RestrictsKeeps
  <2> QED BY <1>14, <2>2, ReturnCoherent DEF CleanupStateTree
<1>15. CASE PromptEval
  <2>1. PICK m \in Slots : Register(call.node, call.ids, live', LogitsAfter(live'), m)
    BY <1>15 DEF PromptEval
  <2> DEFINE fed == IF call.op = "audio" THEN AsFile(call.ids) ELSE AsText(call.ids)
  <2>2. fed \in State /\ KeyOf(fed) = call.ids /\ live' = live \o fed
    BY <1>15, <1>b, AsTextHistory, AsFileHistory DEF PromptEval, PromptFed
  <2>3. pc = "prompt" /\ Return /\ UNCHANGED misloaded
    BY <1>15 DEF PromptEval
  <2>4. live' \in State /\ LogitsAfter(live') \in Logits
    BY <1>a, <2>2, KeyOfConcat DEF LogitsAfter, Logits
  <2> HIDE DEF fed
  <2>5. ASSUME ~ collided'
        PROVE  CoherentTree(tree', misloaded') /\ ContinuingTree(tree', misloaded')
    <3>1. ~ collided
      BY <2>1, <2>5 DEF Register
    <3>2. live' = tree[call.node].state \o fed
      BY <1>a, <2>2, <2>3, <3>1 DEF LiveHistory
    <3>3. Extends(tree, misloaded, call.node, call.ids, live')
      BY <1>a, <1>d, <2>2, <3>1, <3>2, ExtendsByHistory
    <3> QED BY <1>a, <1>b, <2>1, <2>3, <2>4, <2>5, <3>3, RegisterCoherent
  <2> QED BY <2>3, <2>5, ReturnCoherent
<1>16. CASE PromptFails
  BY <1>16, <1>g DEF PromptFails
<1>17. ASSUME NEW tag \in StateTags, LoadInitialState(tag)
       PROVE  LiveHistory' /\ CoherentUnlessCollided' /\ ContinuesParent'
  <2>1. tag \in Seq(Token)
    BY ChatAssumption
  <2>2. PICK m \in FreshIds(tree) : tree' = AddNode(tree, m, ConstChild(tree, tag, live'))
    BY <1>17 DEF LoadInitialState
  <2>3. /\ live' \in State /\ misloaded \subseteq misloaded'
        /\ tag \in misloaded' \/ (live' = AsFile(tag) /\ KeyOf(live') = tag)
    BY <1>17, <1>a, <2>1, LoadLeaves
  <2>6. /\ CoherentTree(tree, misloaded) => CoherentTree(tree, misloaded')
        /\ ContinuingTree(tree, misloaded) => ContinuingTree(tree, misloaded')
    BY <2>3, MoreMisloaded
  <2>4. /\ CoherentTree(tree, misloaded) => CoherentTree(tree', misloaded')
        /\ ContinuingTree(tree, misloaded) => ContinuingTree(tree', misloaded')
    BY <1>a, <2>1, <2>2, <2>3, <2>6, ConstChildKeeps
  <2>5. pc' = "idle" /\ UNCHANGED collided
    BY <1>17 DEF LoadInitialState
  <2> QED BY <1>d, <2>4, <2>5 DEF LiveHistory, CoherentUnlessCollided, ContinuesParent
<1>18. ASSUME NEW tag \in StateTags, UnloadInitialState(tag)
       PROVE  LiveHistory' /\ CoherentUnlessCollided' /\ ContinuesParent'
  <2>1. PICK c \in DOMAIN tree : /\ IsFirst(c, SameIds(tree, Root, tag))
                                 /\ tree' = RemoveSubtree(tree, c)
    BY <1>18 DEF UnloadInitialState
  <2>2. c \in DOMAIN tree \ {Root}
    BY <2>1 DEF IsFirst, SameIds, Children
  <2>3. Restricts(tree, tree')
    BY <1>a, <2>1, <2>2, RemoveSubtreeKeeps
  <2>5. pc' = "idle" /\ UNCHANGED <<collided, misloaded>>
    BY <1>18 DEF UnloadInitialState
  <2>4. ~ collided => CoherentTree(tree', misloaded') /\ ContinuingTree(tree', misloaded')
    BY <1>a, <1>d, <2>3, <2>5, RestrictsKeeps
  <2> QED BY <2>4, <2>5 DEF LiveHistory, CoherentUnlessCollided, ContinuesParent
<1>19. CASE ClearState
  BY <1>19, <1>f DEF ClearState
<1>20. ASSUME NEW tok \in Token, EvalLogits(tok)
       PROVE  LiveHistory' /\ CoherentUnlessCollided' /\ ContinuesParent'
  BY <1>20, <1>f DEF EvalLogits
<1>21. CASE UNCHANGED vars
  BY <1>21, <1>a DEF vars, LiveHistory, CoherentUnlessCollided, ContinuesParent
<1>22. (\E i \in Inputs : StartChat(i)) \/ (\E p \in Prompts : StartSetPrompt(p))
         \/ (\E a \in AudioTags : StartAudioPrompt(a))
         => \E op, ids : Start(op, ids)
  BY DEF StartChat, StartSetPrompt, StartAudioPrompt
<1> QED BY <1>1, <1>4, <1>5, <1>6, <1>7, <1>8, <1>9, <1>10, <1>11, <1>12, <1>13,
           <1>14, <1>15, <1>16, <1>17, <1>18, <1>19, <1>20, <1>21, <1>22
        DEF Next

\* Until the duplicate test of register_state_checkpoint_with_state returns a
\* wrong child, every node's saved state is the state for its ids, for every
\* vocabulary, history, file and bound; but for the nodes of an initial state
\* whose load failed.
THEOREM CoherentCorrect == Spec => []CoherentUnlessCollided
<1>1. CacheInv => CoherentUnlessCollided
  BY DEF CacheInv
<1> QED BY <1>1, CacheInit, CacheStep, PTL DEF Spec

\* Under the same conditions every node's state continues its parent's: what
\* was loaded or encoded from a file stays below everything built on it.
THEOREM ContinuesParentCorrect == Spec => []ContinuesParent
<1>1. CacheInv => ContinuesParent
  BY DEF CacheInv
<1> QED BY <1>1, CacheInit, CacheStep, PTL DEF Spec

-----------------------------------------------------------------------------
(* The order of the counts. *)

HotInv == ShapeInv /\ HotPath /\ HotDescent

\* Counting a use of a node that its owners were used more often than keeps
\* the counts in order.
LEMMA BumpHot ==
    ASSUME NEW t, IsTree(t), Linked(t), HotTree(t), NEW c \in DOMAIN t,
           \A a \in t[c].anc \ {Root} : t[c].cnt < t[a].cnt
    PROVE  HotTree(Bump(t, c))
<1> DEFINE u == Bump(t, c)
<1>1. /\ DOMAIN u = DOMAIN t
      /\ \A n \in DOMAIN t : u[n].anc = t[n].anc
      /\ \A n \in DOMAIN t : u[n].cnt = IF n = c THEN t[n].cnt + 1 ELSE t[n].cnt
  BY BumpFields DEF SameButCounts
<1>2. \A n \in DOMAIN t : t[n].cnt \in Int
  BY DEF IsTree, Node
<1>3. \A n \in DOMAIN t : t[n].anc \subseteq DOMAIN t
  BY DEF IsTree, Linked
<1> HIDE DEF u
<1>4. ASSUME NEW n \in DOMAIN t, NEW a \in t[n].anc \ {Root}
      PROVE  u[n].cnt <= u[a].cnt
  <2>1. a \in DOMAIN t /\ t[n].cnt <= t[a].cnt
    BY <1>3 DEF HotTree
  <2>2. n = c => t[n].cnt < t[a].cnt
    OBVIOUS
  <2> QED BY <1>1, <1>2, <2>1, <2>2
<1>5. HotTree(u)
  BY <1>1, <1>4 DEF HotTree
<1> QED BY <1>5 DEF u

\* A registration that does not collide keeps the counts in order: a new child
\* starts with its parent's count, and a child of the root has no owner below
\* the root.
LEMMA RegisterHot ==
    ASSUME IsTree(tree), Linked(tree), ConstAtTop(tree), HotPath,
           NEW n \in DOMAIN tree, NEW ids \in Seq(Token), NEW st \in State,
           NEW lg \in Logits, NEW m, Register(n, ids, st, lg, m)
    PROVE  HotPath'
<1> SUFFICES ASSUME ~ collided' PROVE HotTree(tree')
  BY DEF HotPath
<1>1. HotTree(tree)
  BY DEF HotPath, Register
<1>2. CASE /\ IsFirst(m, SameIds(tree, n, ids))
           /\ tree' = Bump(tree, m)
           /\ collided' = (collided \/ n # Root \/ tree[m].state # st)
  <2>1. m \in DOMAIN tree \ {Root} /\ tree[m].parent = Root
    BY <1>2 DEF IsFirst, SameIds, Children
  <2>2. tree[m].anc = {Root}
    BY <2>1 DEF Linked, IsTree
  <2> QED BY <1>1, <1>2, <2>1, <2>2, BumpHot
<1>3. CASE /\ SameIds(tree, n, ids) = {}
           /\ m \in FreshIds(tree)
           /\ tree' = AddNode(tree, m, NewChild(tree, n, ids, st, lg))
           /\ UNCHANGED collided
  <2>1. HotTree(tree) => HotTree(tree')
    BY <1>3, NewChildKeeps
  <2> QED BY <1>1, <2>1
<1> QED BY <1>2, <1>3 DEF Register

\* A step down the tree keeps the counts in order and leaves the nodes below
\* the new node colder than its whole path.
LEMMA DescendHot ==
    ASSUME ShapeInv, HotPath, HotDescent, MatchDescend
    PROVE  HotPath' /\ HotDescent'
<1>a. IsTree(tree) /\ Linked(tree) /\ call.node \in DOMAIN tree /\ call \in Call
  BY DEF ShapeInv, TypeOK, TreeShape
<1>1. PICK c \in DOMAIN tree :
        /\ IsFirst(c, Matching(tree, call.node, call.ids))
        /\ tree' = Bump(tree, c)
        /\ call' = [call EXCEPT !.node = c]
  BY DEF MatchDescend
<1>2. call'.node = c /\ pc = "match" /\ UNCHANGED collided
  BY <1>a, <1>1 DEF MatchDescend, Call
<1>3. c # Root /\ tree[c].parent = call.node
  BY <1>1 DEF IsFirst, Matching, Children
<1>4. tree[c].anc = tree[call.node].anc \cup {call.node} /\ tree[c].anc \subseteq DOMAIN tree
  BY <1>a, <1>3 DEF Linked
<1> SUFFICES ASSUME ~ collided
             PROVE  HotTree(tree') /\ HotDescent'
  BY <1>2 DEF HotPath, HotDescent
<1>5. HotTree(tree)
  BY DEF HotPath
<1>6. \A d \in DOMAIN tree : call.node \in tree[d].anc =>
        \A a \in tree[c].anc \ {Root} : tree[d].cnt < tree[a].cnt
  BY <1>2, <1>4 DEF HotDescent
<1>7. \A a \in tree[c].anc \ {Root} : tree[c].cnt < tree[a].cnt
  BY <1>4, <1>6
<1>8. HotTree(tree')
  BY <1>a, <1>1, <1>5, <1>7, BumpHot
<1>9. /\ DOMAIN tree' = DOMAIN tree
      /\ \A n \in DOMAIN tree : tree'[n].anc = tree[n].anc
      /\ \A n \in DOMAIN tree :
           tree'[n].cnt = IF n = c THEN tree[n].cnt + 1 ELSE tree[n].cnt
  BY <1>a, <1>1, BumpFields DEF SameButCounts
<1>10. \A n \in DOMAIN tree : tree[n].cnt \in Int
  BY <1>a DEF IsTree, Node
<1>11. ASSUME NEW d \in DOMAIN tree, c \in tree[d].anc,
              NEW a \in (tree[c].anc \cup {c}) \ {Root}
       PROVE  tree'[d].cnt < tree'[a].cnt
  <2>1. a \in DOMAIN tree /\ tree[d].cnt <= tree[c].cnt
    BY <1>3, <1>4, <1>5, <1>11 DEF HotTree
  <2>2. c \notin tree[c].anc
    BY <1>3, <1>7, <1>10
  <2>3. d # c
    BY <1>11, <2>2
  <2>4. CASE a = c
    BY <1>9, <1>10, <2>1, <2>3, <2>4
  <2>5. CASE a # c
    BY <1>7, <1>9, <1>10, <2>1, <2>3, <2>5
  <2> QED BY <2>4, <2>5
<1>12. HotDescent'
  BY <1>2, <1>9, <1>11 DEF HotDescent
<1> QED BY <1>8, <1>12

LEMMA HotInit == Init => HotInv
<1> SUFFICES ASSUME Init PROVE HotInv
  OBVIOUS
<1>1. DOMAIN EmptyTree = {Root} /\ EmptyTree[Root].anc = {}
  BY DEF EmptyTree
<1>2. HotTree(tree) /\ pc # "match"
  BY <1>1 DEF Init, HotTree
<1> QED BY <1>2, ShapeInit DEF HotInv, HotPath, HotDescent

LEMMA HotStep == HotInv /\ [Next]_vars => HotInv'
<1> SUFFICES ASSUME HotInv, [Next]_vars PROVE HotPath' /\ HotDescent'
  BY ShapeStep DEF HotInv
<1>a. /\ IsTree(tree) /\ Linked(tree) /\ ConstAtTop(tree)
      /\ call.node \in DOMAIN tree /\ live \in State /\ logits \in Logits
      /\ call \in Call /\ HotPath /\ HotDescent
  BY DEF HotInv, ShapeInv, TypeOK, TreeShape
<1>b. /\ call.ids \in Seq(Token) /\ call.pending \in Seq(Token)
      /\ call.resp \in Seq(Token) /\ call.rewind \in SUBSET State
  BY <1>a DEF Call
<1>c. /\ live' \in State /\ logits' \in Logits
      /\ tree'[Root].anc = {}
  BY ShapeStep DEF HotInv, ShapeInv, TypeOK, IsTree
<1>1. ASSUME UNCHANGED <<tree, collided>>, pc' # "match"
      PROVE  HotPath' /\ HotDescent'
  BY <1>1, <1>a DEF HotPath, HotDescent
<1>2. ASSUME NEW fed, FailedEval(fed) PROVE HotPath' /\ HotDescent'
  BY <1>1, <1>2 DEF FailedEval, Return
<1>3. ASSUME NEW op, NEW ids, Start(op, ids) PROVE HotPath' /\ HotDescent'
  <2>1. call'.node = Root /\ UNCHANGED <<tree, collided, misloaded>>
    BY <1>3, NoCallFacts DEF Start, NoCall
  <2>2. (tree'[call'.node].anc \cup {call'.node}) \ {Root} = {}
    BY <1>c, <2>1
  <2> QED BY <1>a, <2>1, <2>2 DEF HotPath, HotDescent
<1>4. ASSUME NEW ids \in Seq(Token), NEW st \in State, NEW lg \in Logits, NEW m,
             Register(call.node, ids, st, lg, m), pc' # "match"
      PROVE  HotPath' /\ HotDescent'
  BY <1>a, <1>4, RegisterHot DEF HotDescent
<1>5. CASE MatchDescend
  BY <1>5, DescendHot DEF HotInv
<1>6. CASE MatchedChat \/ MatchedPrompt \/ PrefillDone \/ DecodeBreak
  BY <1>1, <1>6 DEF MatchedChat, MatchedPrompt, MatchEnd, PrefillDone, DecodeBreak, Return
<1>7. CASE PrefillChunk
  <2>1. PICK k \in 1 .. Len(call.pending), m \in Slots :
          Register(call.node, SubSeq(call.pending, 1, k), live', logits', m)
    BY <1>7 DEF PrefillChunk
  <2>2. SubSeq(call.pending, 1, k) \in Seq(Token)
    BY <1>b
  <2>3. pc' # "match"
    BY <1>7 DEF PrefillChunk
  <2> QED BY <1>4, <1>c, <2>1, <2>2, <2>3
<1>8. CASE PrefillFails \/ PromptFails \/ \E tok \in Token : DecodeFails(tok)
  BY <1>2, <1>8 DEF PrefillFails, PromptFails, DecodeFails
<1>9. ASSUME NEW tok \in Token, DecodeToken(tok) PROVE HotPath' /\ HotDescent'
  BY <1>1, <1>9 DEF DecodeToken
<1>10. CASE RegisterResponse
  <2>1. SubSeq(call.resp, 1, Len(call.resp) - 1) \in Seq(Token)
    BY <1>b
  <2>2. pc' # "match"
    BY <1>10 DEF RegisterResponse
  <2>3. CASE UNCHANGED <<tree, call, collided>>
    BY <1>1, <2>2, <2>3
  <2>4. CASE \E m \in Slots : Register(call.node, call.resp, live, logits, m)
    BY <1>4, <1>a, <1>b, <2>2, <2>4
  <2>5. CASE \E saved \in call.rewind, m \in Slots :
               Register(call.node, SubSeq(call.resp, 1, Len(call.resp) - 1), saved, logits, m)
    BY <1>4, <1>a, <1>b, <2>1, <2>2, <2>5
  <2> QED BY <1>10, <2>3, <2>4, <2>5 DEF RegisterResponse
<1>11. CASE CleanupStateTree
  <2>1. HotTree(tree) => HotTree(tree')
    BY <1>11, <1>a, CleanedKeeps DEF CleanupStateTree
  <2>2. pc' # "match" /\ UNCHANGED collided
    BY <1>11 DEF CleanupStateTree, Return
  <2> QED BY <1>a, <2>1, <2>2 DEF HotPath, HotDescent
<1>12. CASE PromptEval
  <2>1. PICK m \in Slots : Register(call.node, call.ids, live', LogitsAfter(live'), m)
    BY <1>12 DEF PromptEval
  <2>2. LogitsAfter(live') \in Logits
    BY <1>c DEF LogitsAfter, Logits
  <2>3. pc' # "match"
    BY <1>12 DEF PromptEval, Return
  <2> QED BY <1>4, <1>b, <1>c, <2>1, <2>2, <2>3
<1>13. ASSUME NEW tag \in StateTags, LoadInitialState(tag) PROVE HotPath' /\ HotDescent'
  <2>1. tag \in Seq(Token)
    BY ChatAssumption
  <2>2. PICK m \in FreshIds(tree) : tree' = AddNode(tree, m, ConstChild(tree, tag, live'))
    BY <1>13 DEF LoadInitialState
  <2>3. HotTree(tree) => HotTree(tree')
    BY <1>a, <1>c, <2>1, <2>2, ConstChildKeeps
  <2>4. pc' # "match" /\ UNCHANGED collided
    BY <1>13 DEF LoadInitialState
  <2> QED BY <1>a, <2>3, <2>4 DEF HotPath, HotDescent
<1>14. ASSUME NEW tag \in StateTags, UnloadInitialState(tag) PROVE HotPath' /\ HotDescent'
  <2>1. PICK c \in DOMAIN tree : /\ IsFirst(c, SameIds(tree, Root, tag))
                                 /\ tree' = RemoveSubtree(tree, c)
    BY <1>14 DEF UnloadInitialState
  <2>2. c \in DOMAIN tree \ {Root}
    BY <2>1 DEF IsFirst, SameIds, Children
  <2>3. HotTree(tree) => HotTree(tree')
    BY <1>a, <2>1, <2>2, RemoveSubtreeKeeps
  <2>4. pc' # "match" /\ UNCHANGED collided
    BY <1>14 DEF UnloadInitialState
  <2> QED BY <1>a, <2>3, <2>4 DEF HotPath, HotDescent
<1>15. CASE ClearState
  BY <1>1, <1>15 DEF ClearState
<1>16. ASSUME NEW tok \in Token, EvalLogits(tok) PROVE HotPath' /\ HotDescent'
  BY <1>1, <1>16 DEF EvalLogits
<1>17. CASE UNCHANGED vars
  BY <1>17, <1>a DEF vars, HotPath, HotDescent
<1>18. (\E i \in Inputs : StartChat(i)) \/ (\E p \in Prompts : StartSetPrompt(p))
         \/ (\E a \in AudioTags : StartAudioPrompt(a))
         => \E op, ids : Start(op, ids)
  BY DEF StartChat, StartSetPrompt, StartAudioPrompt
<1> QED BY <1>3, <1>5, <1>6, <1>7, <1>8, <1>9, <1>10, <1>11, <1>12, <1>13, <1>14,
           <1>15, <1>16, <1>17, <1>18
        DEF Next

\* Until there is a collision, no node is used more often than a node that
\* owns it, whatever calls are made.
THEOREM HotPathCorrect == Spec => []HotPath
<1>1. HotInv => HotPath
  BY DEF HotInv
<1> QED BY <1>1, HotInit, HotStep, PTL DEF Spec

\* Hence a cleanup never removes a node that is still in use because an owner
\* of it ran out of uses first, and never a loaded initial state.
THEOREM CleanupCorrect == Spec => CleanupKeepsActive
<1>1. ASSUME HotInv, [Next]_vars
      PROVE  [(pc = "cleanup" /\ ~ collided) =>
                \A n \in DOMAIN tree : Active(tree, n) => n \in DOMAIN tree']_vars
  <2> SUFFICES ASSUME pc = "cleanup", ~ collided, Next, NEW n \in DOMAIN tree,
                      Active(tree, n)
               PROVE  n \in DOMAIN tree'
    BY <1>1
  <2>1. CleanupStateTree
    BY DEF Next, StartChat, StartSetPrompt, StartAudioPrompt, Start, MatchDescend,
           MatchedChat, MatchedPrompt, MatchEnd, PrefillChunk, PrefillFails, PrefillDone,
           DecodeToken, DecodeFails, DecodeBreak, RegisterResponse, PromptEval,
           PromptFails, LoadInitialState, UnloadInitialState, ClearState, EvalLogits
  <2>2. IsTree(tree) /\ Linked(tree) /\ ConstAtTop(tree) /\ HotTree(tree)
    BY <1>1 DEF HotInv, ShapeInv, TypeOK, TreeShape, HotPath
  <2>3. n \in Kept(tree)
    BY <2>2, HotActiveKept
  <2> QED BY <2>1, <2>3 DEF CleanupStateTree, Cleaned
<1> QED BY <1>1, HotInit, HotStep, PTL DEF Spec, CleanupKeepsActive

-----------------------------------------------------------------------------
(* The logits. *)

LogitsInv == ShapeInv /\ LogitsOfNode /\ LogitsFollow

\* The logits lg may be saved with a node whose state is st.
Saves(st, lg) ==
    \/ lg = LogitsAfter(st)
    \/ \E r \in RewindTokens : lg = LogitsAfter(st \o AsText(<<r>>))

\* Counting uses and removing nodes leave the logits of the others alone.
LEMMA LogitsStay ==
    ASSUME LogitsOfNode, SameButCounts(tree, tree') \/ Restricts(tree, tree')
    PROVE  LogitsOfNode'
BY DEF LogitsOfNode, SameButCounts, Restricts

\* A registration saves logits that belong to the registered state.
LEMMA RegisterLogits ==
    ASSUME IsTree(tree), Linked(tree), ConstAtTop(tree), LogitsOfNode,
           NEW n \in DOMAIN tree, NEW ids \in Seq(Token), NEW st \in State,
           NEW lg \in Logits, NEW m, Register(n, ids, st, lg, m), Saves(st, lg)
    PROVE  LogitsOfNode'
<1>1. CASE /\ IsFirst(m, SameIds(tree, n, ids))
           /\ tree' = Bump(tree, m)
           /\ collided' = (collided \/ n # Root \/ tree[m].state # st)
  <2>1. m \in DOMAIN tree
    BY <1>1 DEF IsFirst, SameIds, Children
  <2> QED BY <1>1, <2>1, BumpFields, LogitsStay
<1>2. CASE /\ SameIds(tree, n, ids) = {}
           /\ m \in FreshIds(tree)
           /\ tree' = AddNode(tree, m, NewChild(tree, n, ids, st, lg))
           /\ UNCHANGED collided
  <2> DEFINE node == NewChild(tree, n, ids, st, lg)
  <2>1. Adds(tree, tree', m, node)
    BY <1>2, NewChildKeeps
  <2>2. node.state = st /\ node.logits = lg /\ ~ node.const
    BY DEF NewChild
  <2> HIDE DEF node
  <2>3. m # Root
    BY <2>1 DEF Adds, IsTree
  <2> QED BY <2>1, <2>2, <2>3 DEF Adds, LogitsOfNode, Saves
<1> QED BY <1>1, <1>2 DEF Register

\* After a return the logits pointer is gone.
LEMMA ReturnLogits ==
    ASSUME Return PROVE LogitsFollow'
BY DEF Return, LogitsFollow

LEMMA LogitsInit == Init => LogitsInv
<1> SUFFICES ASSUME Init PROVE LogitsInv
  OBVIOUS
<1>1. DOMAIN tree = {Root} /\ tree[Root].logits = ZeroLogits
  BY DEF Init, EmptyTree
<1>2. LogitsOfNode
  BY <1>1 DEF LogitsOfNode
<1>3. LogitsFollow
  BY DEF Init, LogitsFollow
<1> QED BY <1>2, <1>3, ShapeInit DEF LogitsInv

LEMMA LogitsStep == LogitsInv /\ [Next]_vars => LogitsInv'
<1> SUFFICES ASSUME LogitsInv, [Next]_vars PROVE LogitsOfNode' /\ LogitsFollow'
  BY ShapeStep DEF LogitsInv
<1>a. /\ IsTree(tree) /\ Linked(tree) /\ ConstAtTop(tree)
      /\ call.node \in DOMAIN tree /\ live \in State /\ logits \in Logits
      /\ call \in Call /\ CallShape /\ LogitsOfNode /\ LogitsFollow
  BY DEF LogitsInv, ShapeInv, TypeOK, TreeShape
<1>b. /\ call.ids \in Seq(Token) /\ call.pending \in Seq(Token)
      /\ call.resp \in Seq(Token) /\ call.rewind \in SUBSET State
  BY <1>a DEF Call
<1>c. live' \in State /\ logits' \in Logits
  BY ShapeStep DEF LogitsInv, ShapeInv, TypeOK
<1>d. UNCHANGED tree => LogitsOfNode'
  BY <1>a DEF LogitsOfNode
<1>e. ASSUME NEW fed, FailedEval(fed) PROVE LogitsOfNode' /\ LogitsFollow'
  BY <1>d, <1>e, ReturnLogits DEF FailedEval
<1>f. ASSUME NEW op, NEW ids, Start(op, ids) PROVE LogitsOfNode' /\ LogitsFollow'
  BY <1>a, <1>d, <1>f DEF Start, LogitsFollow
<1>1. CASE MatchDescend
  <2>1. PICK c \in DOMAIN tree : tree' = Bump(tree, c)
    BY <1>1 DEF MatchDescend
  <2>2. LogitsOfNode'
    BY <1>a, <2>1, BumpFields, LogitsStay
  <2>3. pc = "match" /\ UNCHANGED <<pc, logits>>
    BY <1>1 DEF MatchDescend
  <2> QED BY <1>a, <2>2, <2>3 DEF LogitsFollow
<1>2. CASE MatchedChat
  BY <1>2, <1>a, <1>d DEF MatchedChat, MatchEnd, LogitsFollow
<1>3. CASE MatchedPrompt
  <2>1. UNCHANGED tree /\ pc = "match"
    BY <1>3 DEF MatchedPrompt, MatchEnd
  <2>2. CASE Return
    BY <1>d, <2>1, <2>2, ReturnLogits
  <2>3. CASE pc' = "prompt" /\ UNCHANGED logits
    BY <1>a, <1>d, <2>1, <2>3 DEF LogitsFollow
  <2> QED BY <1>3, <2>2, <2>3 DEF MatchedPrompt
<1>4. CASE PrefillChunk
  <2>1. PICK k \in 1 .. Len(call.pending), m \in Slots :
          /\ logits' = LogitsAfter(live')
          /\ Register(call.node, SubSeq(call.pending, 1, k), live', logits', m)
    BY <1>4 DEF PrefillChunk
  <2>2. SubSeq(call.pending, 1, k) \in Seq(Token)
    BY <1>b
  <2>3. LogitsOfNode'
    BY <1>a, <1>c, <2>1, <2>2, RegisterLogits DEF Saves
  <2>4. pc' = "prefill"
    BY <1>4 DEF PrefillChunk
  <2> QED BY <2>1, <2>3, <2>4 DEF LogitsFollow
<1>5. CASE PrefillFails \/ PromptFails \/ \E tok \in Token : DecodeFails(tok)
  BY <1>5, <1>e DEF PrefillFails, PromptFails, DecodeFails
<1>6. CASE PrefillDone
  <2>1. /\ pc = "prefill" /\ pc' = "decode" /\ UNCHANGED <<tree, live, call>>
        /\ logits' \in {tree[call.node].logits, logits}
        /\ logits = NoLogits => logits' = tree[call.node].logits
    BY <1>6 DEF PrefillDone
  <2>2. call.resp = << >> /\ call.rewind = {}
    BY <1>a, <2>1 DEF CallShape
  <2>3. logits' \in {tree[call.node].logits, LogitsAfter(live)}
    BY <1>a, <2>1 DEF LogitsFollow
  <2> QED BY <1>d, <2>1, <2>2, <2>3 DEF LogitsFollow
<1>7. ASSUME NEW tok \in Token, DecodeToken(tok) PROVE LogitsOfNode' /\ LogitsFollow'
  <2>1. /\ live' = live \o AsText(<<tok>>) /\ logits' = LogitsAfter(live')
        /\ pc' = "decode" /\ UNCHANGED tree
        /\ call' = [call EXCEPT !.resp = Append(@, tok),
                       !.rewind = IF tok \in RewindTokens THEN {live} ELSE {}]
    BY <1>7 DEF DecodeToken
  <2>2. call'.resp = Append(call.resp, tok) /\ call'.resp # << >>
    <3>1. call.resp \in Seq(Token) /\ call \in Call
      BY <1>a, <1>b DEF Call
    <3>2. call'.resp = Append(call.resp, tok)
      BY <2>1, <3>1 DEF Call
    <3>3. Append(call.resp, tok) # << >>
      BY <3>1
    <3> QED BY <3>2, <3>3
  <2>3. \A saved \in call'.rewind :
          \E r \in RewindTokens : live' = saved \o AsText(<<r>>)
    <3>1. CASE tok \in RewindTokens
      <4>1. call'.rewind = {live}
        BY <1>a, <2>1, <3>1 DEF Call
      <4> QED BY <2>1, <3>1, <4>1
    <3>2. CASE tok \notin RewindTokens
      <4>1. call'.rewind = {}
        BY <1>a, <2>1, <3>2 DEF Call
      <4> QED BY <4>1
    <3> QED BY <3>1, <3>2
  <2>4. LogitsFollow'
    BY <2>1, <2>2, <2>3 DEF LogitsFollow
  <2> QED BY <1>d, <2>1, <2>4
<1>8. CASE DecodeBreak
  BY <1>8, <1>a, <1>d DEF DecodeBreak, LogitsFollow
<1>9. CASE RegisterResponse
  <2>1. pc = "register" /\ pc' = "cleanup"
    BY <1>9 DEF RegisterResponse
  <2>2. LogitsFollow'
    BY <2>1 DEF LogitsFollow
  <2>3. CASE UNCHANGED tree
    BY <1>d, <2>2, <2>3
  <2>4. SubSeq(call.resp, 1, Len(call.resp) - 1) \in Seq(Token)
    BY <1>b
  <2>5. CASE /\ call.resp # << >>
             /\ \E m \in Slots : Register(call.node, call.resp, live, logits, m)
    <3>1. Saves(live, logits)
      BY <1>a, <2>1, <2>5 DEF LogitsFollow, Saves
    <3> QED BY <1>a, <1>b, <2>2, <2>5, <3>1, RegisterLogits
  <2>6. ASSUME NEW saved \in call.rewind, NEW m \in Slots,
               Register(call.node, SubSeq(call.resp, 1, Len(call.resp) - 1), saved, logits, m)
        PROVE  LogitsOfNode'
    <3>1. Saves(saved, logits)
      BY <1>a, <2>1 DEF LogitsFollow, Saves
    <3> QED BY <1>a, <1>b, <2>4, <2>6, <3>1, RegisterLogits
  <2> QED BY <1>9, <2>2, <2>3, <2>5, <2>6 DEF RegisterResponse
<1>10. CASE CleanupStateTree
  <2>1. Restricts(tree, tree')
    BY <1>10, <1>a, CleanedKeeps DEF CleanupStateTree
  <2> QED BY <1>10, <1>a, <2>1, LogitsStay, ReturnLogits DEF CleanupStateTree
<1>11. CASE PromptEval
  <2>1. PICK m \in Slots : Register(call.node, call.ids, live', LogitsAfter(live'), m)
    BY <1>11 DEF PromptEval
  <2>2. LogitsAfter(live') \in Logits
    BY <1>c DEF LogitsAfter, Logits
  <2>3. LogitsOfNode'
    BY <1>a, <1>b, <1>c, <2>1, <2>2, RegisterLogits DEF Saves
  <2> QED BY <1>11, <2>3, ReturnLogits DEF PromptEval
<1>12. ASSUME NEW tag \in StateTags, LoadInitialState(tag)
       PROVE  LogitsOfNode' /\ LogitsFollow'
  <2>1. tag \in Seq(Token)
    BY ChatAssumption
  <2>2. PICK m \in FreshIds(tree) : tree' = AddNode(tree, m, ConstChild(tree, tag, live'))
    BY <1>12 DEF LoadInitialState
  <2> DEFINE node == ConstChild(tree, tag, live')
  <2>3. Adds(tree, tree', m, node)
    BY <1>a, <1>c, <2>1, <2>2, ConstChildKeeps
  <2>4. node.const /\ node.logits = ZeroLogits
    BY DEF ConstChild
  <2> HIDE DEF node
  <2>5. LogitsOfNode'
    BY <1>a, <2>3, <2>4 DEF Adds, LogitsOfNode
  <2>6. pc = "idle" /\ UNCHANGED <<pc, logits>>
    BY <1>12 DEF LoadInitialState
  <2> QED BY <1>a, <2>5, <2>6 DEF LogitsFollow
<1>13. ASSUME NEW tag \in StateTags, UnloadInitialState(tag)
       PROVE  LogitsOfNode' /\ LogitsFollow'
  <2>1. PICK c \in DOMAIN tree : /\ IsFirst(c, SameIds(tree, Root, tag))
                                 /\ tree' = RemoveSubtree(tree, c)
    BY <1>13 DEF UnloadInitialState
  <2>2. c \in DOMAIN tree \ {Root}
    BY <2>1 DEF IsFirst, SameIds, Children
  <2>3. LogitsOfNode'
    BY <1>a, <2>1, <2>2, RemoveSubtreeKeeps, LogitsStay
  <2>4. pc = "idle" /\ UNCHANGED <<pc, logits>>
    BY <1>13 DEF UnloadInitialState
  <2> QED BY <1>a, <2>3, <2>4 DEF LogitsFollow
<1>14. CASE ClearState
  BY <1>14, <1>a, <1>d DEF ClearState, LogitsFollow
<1>15. ASSUME NEW tok \in Token, EvalLogits(tok) PROVE LogitsOfNode' /\ LogitsFollow'
  BY <1>15, <1>a, <1>d DEF EvalLogits, LogitsFollow
<1>16. CASE UNCHANGED vars
  BY <1>16, <1>a, <1>d DEF vars, LogitsFollow
<1>17. (\E i \in Inputs : StartChat(i)) \/ (\E p \in Prompts : StartSetPrompt(p))
         \/ (\E a \in AudioTags : StartAudioPrompt(a))
         => \E op, ids : Start(op, ids)
  BY DEF StartChat, StartSetPrompt, StartAudioPrompt
<1> QED BY <1>f, <1>1, <1>2, <1>3, <1>4, <1>5, <1>6, <1>7, <1>8, <1>9, <1>10, <1>11,
           <1>12, <1>13, <1>14, <1>15, <1>16, <1>17
        DEF Next

\* The logits saved with a node are the output of the model for the node's
\* state, or for that state and one rewind token, whatever was registered,
\* rewound, removed or loaded, and after a collision too.
THEOREM LogitsOfNodeCorrect == Spec => []LogitsOfNode
<1>1. LogitsInv => LogitsOfNode
  BY DEF LogitsInv
<1> QED BY <1>1, LogitsInit, LogitsStep, PTL DEF Spec

\* Where the logits pointer leads in the decode loop.
LEMMA SampledFromInv == LogitsInv /\ CacheInv => SampledAfterHistory
<1> SUFFICES ASSUME LogitsInv, CacheInv, pc = "decode", ~ collided
             PROVE  /\ live = tree[call.node].state \o AsText(call.resp)
                    /\ \/ logits = LogitsAfter(live)
                       \/ /\ call.resp = << >>
                          /\ logits = tree[call.node].logits
                          /\ \/ call.node = Root \/ tree[call.node].const
                             \/ \E r \in RewindTokens :
                                  logits = LogitsAfter(live \o AsText(<<r>>))
  BY DEF SampledAfterHistory
<1>1. live = tree[call.node].state \o AsText(call.resp)
  BY DEF CacheInv, LiveHistory
<1>2. call.node \in DOMAIN tree /\ tree[call.node].state \in State
  BY DEF LogitsInv, ShapeInv, TypeOK, TreeShape, IsTree, Node
<1>3. CASE call.resp # << >>
  BY <1>1, <1>3 DEF LogitsInv, LogitsFollow
<1>4. CASE call.resp = << >>
  <2>1. AsText(<< >>) = << >>
    BY DEF AsText
  <2>2. live = tree[call.node].state
    BY <1>1, <1>2, <1>4, <2>1, ConcatEmptySeq DEF State
  <2>3. logits \in {tree[call.node].logits, LogitsAfter(live)}
    BY <1>4 DEF LogitsInv, LogitsFollow
  <2> QED BY <1>1, <1>2, <1>4, <2>2, <2>3 DEF LogitsInv, LogitsOfNode
<1> QED BY <1>3, <1>4

\* Hence every token of a response is sampled from the logits of exactly the
\* history the backend has read, but for the first one of a prompt that is
\* cached whole at the root, a loaded state or a rewound response.
THEOREM SampledAfterHistoryCorrect == Spec => []SampledAfterHistory
<1> QED BY SampledFromInv, LogitsInit, LogitsStep, CacheInit, CacheStep, PTL DEF Spec

-----------------------------------------------------------------------------
(* What the model has read when it starts to answer. *)

PromptInv == CacheInv /\ PrefillReads /\ PromptRead

LEMMA PromptInit == Init => PromptInv
<1>1. Init => PrefillReads /\ PromptRead
  BY DEF Init, PrefillReads, PromptRead
<1> QED BY <1>1, CacheInit DEF PromptInv

\* A chunk taken off the text still to be read and fed to the backend leaves
\* what both make up together unchanged.
LEMMA ChunkRead ==
    ASSUME NEW hist \in State, NEW rest \in Seq(Token), NEW k \in 1 .. Len(rest)
    PROVE  KeyOf(hist \o Fed(SubSeq(rest, 1, k))) \o SubSeq(rest, k + 1, Len(rest))
             = KeyOf(hist) \o rest
<1> DEFINE chunk == SubSeq(rest, 1, k)
           tail == SubSeq(rest, k + 1, Len(rest))
<1>1. chunk \in Seq(Token) /\ tail \in Seq(Token)
  OBVIOUS
<1>2. chunk \o tail = rest
  <2>1. chunk \o tail = SubSeq(rest, 1, Len(rest))
    BY ConcatAdjacentSubSeq
  <2>2. SubSeq(rest, 1, Len(rest)) = rest
    BY SubSeqFull
  <2> QED BY <2>1, <2>2
<1> HIDE DEF chunk, tail
<1>3. Fed(chunk) \in State /\ KeyOf(Fed(chunk)) = chunk
  BY <1>1, FedHistory
<1>4. KeyOf(hist) \in Seq(Token) /\ KeyOf(hist \o Fed(chunk)) = KeyOf(hist) \o chunk
  BY <1>3, KeyOfConcat
<1>5. (KeyOf(hist) \o chunk) \o tail = KeyOf(hist) \o (chunk \o tail)
  BY <1>1, <1>4, ConcatAssociative
<1> QED BY <1>2, <1>4, <1>5 DEF chunk, tail

\* A prefix is the front of the sequence it is a prefix of.
LEMMA PrefixIsFront ==
    ASSUME NEW s \in Seq(Token), NEW w \in Seq(Token), IsPrefix(s, w)
    PROVE  Len(s) \in 0 .. Len(w) /\ SubSeq(w, 1, Len(s)) = s
BY DEF IsPrefix

\* A registration that does not collide leads below a failed load only from there.
LEMMA RegisterLoaded ==
    ASSUME IsTree(tree), Linked(tree), ConstAtTop(tree), collided \in BOOLEAN,
           NEW n \in DOMAIN tree, NEW ids \in Seq(Token), NEW st \in State,
           NEW lg \in Logits, NEW m, Register(n, ids, st, lg, m), ~ collided',
           NEW bad, Loaded(tree', bad, m)
    PROVE  ~ collided /\ Loaded(tree, bad, n)
<1>1. CASE n = Root
  BY <1>1 DEF Register, IsTree, Loaded
<1>2. CASE n # Root
  <2>1. /\ m \in FreshIds(tree)
        /\ tree' = AddNode(tree, m, NewChild(tree, n, ids, st, lg))
        /\ ~ collided
    BY <1>2 DEF Register
  <2> QED BY <2>1, NewChildKeeps
<1> QED BY <1>1, <1>2

LEMMA PromptStep == PromptInv /\ [Next]_vars => PromptInv'
<1> SUFFICES ASSUME PromptInv, [Next]_vars PROVE PrefillReads' /\ PromptRead'
  BY CacheStep DEF PromptInv
<1>a. /\ IsTree(tree) /\ Linked(tree) /\ ConstAtTop(tree)
      /\ call.node \in DOMAIN tree /\ collided \in BOOLEAN
      /\ live \in State /\ call \in Call /\ CallShape /\ PrefillReads /\ PromptRead
      /\ ~ collided => CoherentTree(tree, misloaded)
  BY DEF PromptInv, CacheInv, ShapeInv, TypeOK, TreeShape, CoherentUnlessCollided
<1>b. /\ call.ids \in Seq(Token) /\ call.pending \in Seq(Token)
      /\ call.resp \in Seq(Token)
  BY <1>a DEF Call
<1>c. KeyOf(live) \in Seq(Token)
  BY <1>a, KeyOfConcat
<1>1. CASE pc' \notin {"prefill", "decode"}
  BY <1>1 DEF PrefillReads, PromptRead
<1>2. CASE MatchedChat
  <2>1. /\ pc = "match" /\ pc' = "prefill" /\ live' = tree[call.node].state
        /\ UNCHANGED <<tree, collided, misloaded>>
        /\ call' = [call EXCEPT !.pending = Reencode(Unmatched)]
    BY <1>2 DEF MatchedChat, MatchEnd
  <2>2. /\ call'.ids = call.ids /\ call'.pending = Reencode(Unmatched)
        /\ call'.node = call.node
    BY <1>a, <2>1 DEF Call
  <2> DEFINE k == Len(tree[call.node].ids)
  <2>3. tree[call.node].ids \in Seq(Token) /\ IsPrefix(tree[call.node].ids, call.ids)
    BY <1>a, <2>1 DEF IsTree, Node, CallShape
  <2>4. k \in 0 .. Len(call.ids) /\ SubSeq(call.ids, 1, k) = tree[call.node].ids
    BY <1>b, <2>3, PrefixIsFront
  <2>5. (~ collided /\ Loaded(tree, misloaded, call.node)) =>
          KeyOf(live') = SubSeq(call.ids, 1, k)
    BY <1>a, <2>1, <2>4 DEF CoherentTree
  <2>6. (~ collided /\ Loaded(tree, misloaded, call.node)) =>
          KeyOf(live') \o call'.pending = AsRead(call'.ids, k)
    BY <2>2, <2>5 DEF AsRead, Unmatched
  <2>7. PrefillReads'
    BY <2>1, <2>2, <2>4, <2>6 DEF PrefillReads
  <2> QED BY <2>1, <2>7 DEF PromptRead
<1>3. CASE PrefillChunk
  <2>1. PICK k \in 1 .. Len(call.pending), m \in Slots :
          LET chunk == SubSeq(call.pending, 1, k) IN
          /\ live' = live \o Fed(chunk) /\ logits' = LogitsAfter(live')
          /\ Register(call.node, chunk, live', logits', m)
          /\ call' = [call EXCEPT !.node = m,
                         !.pending = SubSeq(@, k + 1, Len(@))]
    BY <1>3 DEF PrefillChunk
  <2>2. pc = "prefill" /\ pc' = "prefill" /\ UNCHANGED misloaded
    BY <1>3 DEF PrefillChunk
  <2>3. /\ call'.ids = call.ids /\ call'.node = m
        /\ call'.pending = SubSeq(call.pending, k + 1, Len(call.pending))
    BY <1>a, <2>1 DEF Call
  <2>4. ASSUME ~ collided', Loaded(tree', misloaded', call'.node)
        PROVE  ~ collided /\ Loaded(tree, misloaded, call.node)
    <3> DEFINE chunk == SubSeq(call.pending, 1, k)
    <3>1. chunk \in Seq(Token)
      BY <1>b
    <3>2. Fed(chunk) \in State
      BY <3>1, FedHistory
    <3>3. live' \in State /\ logits' \in Logits
      BY <1>a, <2>1, <3>2, KeyOfConcat DEF LogitsAfter, Logits
    <3>4. Register(call.node, chunk, live', logits', m) /\ Loaded(tree', misloaded, m)
      BY <2>1, <2>2, <2>3, <2>4
    <3> HIDE DEF chunk
    <3> QED BY <1>a, <2>4, <3>1, <3>3, <3>4, RegisterLoaded
  <2>5. KeyOf(live') \o call'.pending = KeyOf(live) \o call.pending
    BY <1>a, <1>b, <2>1, <2>3, ChunkRead
  <2>6. PrefillReads'
    BY <1>a, <2>2, <2>3, <2>4, <2>5 DEF PrefillReads
  <2> QED BY <2>2, <2>6 DEF PromptRead
<1>4. CASE PrefillDone
  <2>1. /\ pc = "prefill" /\ pc' = "decode" /\ call.pending = << >>
        /\ UNCHANGED <<tree, live, call, collided, misloaded>>
    BY <1>4 DEF PrefillDone
  <2>2. KeyOf(live) \o call.pending = KeyOf(live)
    BY <1>c, <2>1, ConcatEmptySeq
  <2>3. PromptRead'
    BY <1>a, <2>1, <2>2 DEF PrefillReads, PromptRead
  <2> QED BY <2>1, <2>3 DEF PrefillReads
\* A response that has begun never becomes empty again.
<1>5. ASSUME NEW tok \in Token, DecodeToken(tok) PROVE PrefillReads' /\ PromptRead'
  <2>1. /\ pc' = "decode"
        /\ call' = [call EXCEPT !.resp = Append(@, tok),
                       !.rewind = IF tok \in RewindTokens THEN {live} ELSE {}]
    BY <1>5 DEF DecodeToken
  <2>2. call'.resp = Append(call.resp, tok)
    BY <1>a, <2>1 DEF Call
  <2>3. Append(call.resp, tok) # << >>
    BY <1>b
  <2> QED BY <2>1, <2>2, <2>3 DEF PrefillReads, PromptRead
<1>6. CASE UNCHANGED vars
  BY <1>6, <1>a DEF vars, PrefillReads, PromptRead
\* No other step leads into the prefill or the decode loop.
<1>7. CASE Next
  <2>1. CASE \/ \E i \in Inputs : StartChat(i)
             \/ \E p \in Prompts : StartSetPrompt(p)
             \/ \E a \in AudioTags : StartAudioPrompt(a)
             \/ MatchDescend
    BY <1>1, <2>1 DEF StartChat, StartSetPrompt, StartAudioPrompt, Start, MatchDescend
  <2>2. CASE MatchedPrompt \/ PromptEval
    BY <1>1, <2>2 DEF MatchedPrompt, PromptEval, Return
  <2>3. CASE PrefillFails \/ PromptFails \/ \E tok \in Token : DecodeFails(tok)
    BY <1>1, <2>3 DEF PrefillFails, PromptFails, DecodeFails, FailedEval, Return
  <2>4. CASE DecodeBreak \/ RegisterResponse \/ CleanupStateTree
    BY <1>1, <2>4 DEF DecodeBreak, RegisterResponse, CleanupStateTree, Return
  <2>5. CASE \/ \E tag \in StateTags : LoadInitialState(tag)
             \/ \E tag \in StateTags : UnloadInitialState(tag)
             \/ ClearState
             \/ \E tok \in Token : EvalLogits(tok)
    BY <1>1, <2>5 DEF LoadInitialState, UnloadInitialState, ClearState, EvalLogits
  <2> QED BY <1>2, <1>3, <1>4, <1>5, <1>7, <2>1, <2>2, <2>3, <2>4, <2>5 DEF Next
<1> QED BY <1>6, <1>7

\* When the model starts to answer, it has read the whole chat and nothing else,
\* wherever the chat was cut, whatever part of it was cached, and after any
\* earlier calls, failures, rewinds and unloads: for every template, tokenizer,
\* chunk size and vocabulary; but for a collision and for a chat that begins with
\* an initial state whose load failed.
THEOREM PromptReadCorrect == Spec => []PromptRead
<1>1. PromptInv => PromptRead
  BY DEF PromptInv
<1> QED BY <1>1, PromptInit, PromptStep, PTL DEF Spec

-----------------------------------------------------------------------------
(* Chat implements Conversation. *)

LEMMA TrustOnlyLost ==
    ASSUME Trusted' => Trusted PROVE Trusted' \in {Trusted, FALSE}
<1>1. Trusted \in BOOLEAN /\ Trusted' \in BOOLEAN
  BY DEF Trusted
<1> QED BY <1>1

\* As long as both histories only grow, trust is only lost.
LEMMA HistoriesGrow ==
    ASSUME collided => collided', misloaded \subseteq misloaded'
    PROVE  Trusted' => Trusted
BY DEF Trusted

\* A step that a client sees nothing of, but for a state put under another text.
LEMMA SeenNothing ==
    ASSUME Trusted' => Trusted, UNCHANGED prompt,
           Phase # "answering", Phase' = Phase, UNCHANGED Asked
    PROVE  [C!Next]_(C!vars)
<1>1. UNCHANGED <<Read, Basis, Answered>>
  BY DEF Read, Basis, Answered, Promised
<1>2. CASE Trusted' = Trusted
  BY <1>1, <1>2 DEF C!vars
<1>3. CASE Trusted' = FALSE
  BY <1>1, <1>3 DEF C!Misplace, C!Next
<1>4. Trusted' \in {Trusted, FALSE}
  BY TrustOnlyLost
<1> QED BY <1>2, <1>3, <1>4

\* Between two calls nothing is asked, read or answered.
LEMMA SeenIdle ==
    ASSUME Trusted' => Trusted, UNCHANGED prompt, Phase = "idle", Phase' = "idle"
    PROVE  [C!Next]_(C!vars)
<1>1. UNCHANGED Asked
  BY DEF Asked
<1> QED BY <1>1, SeenNothing

\* The end of a call, whatever it has done to the cache.
LEMMA SeenEnd ==
    ASSUME Trusted' => Trusted, UNCHANGED prompt, Phase # "idle", Phase' = "idle"
    PROVE  [C!Next]_(C!vars)
<1>1. Asked' = << >> /\ Read' = << >> /\ Basis' = << >> /\ Answered' = << >>
  BY DEF Asked, Read, Basis, Answered, Promised
<1>2. Trusted' \in {Trusted, FALSE}
  BY TrustOnlyLost
<1>3. C!End
  BY <1>1, <1>2 DEF C!End
<1> QED BY <1>3 DEF C!Next

\* A registration never makes up for a collision.
LEMMA CollidedStays ==
    ASSUME collided \in BOOLEAN, NEW n, NEW ids, NEW st, NEW lg, NEW m,
           Register(n, ids, st, lg, m)
    PROVE  collided => collided'
BY DEF Register

\* A call that returned early or at its end is over for the client.
LEMMA ReturnIdle ==
    ASSUME pc' \in {"idle", "cleanup", "prompt"} PROVE Phase' = "idle"
BY DEF Phase

\* A token after which there is a history is one of the vocabulary.
LEMMA OneMoreToken ==
    ASSUME NEW h \in State, NEW r, h \o AsText(<<r>>) \in State
    PROVE  r \in Token
<1> DEFINE e == [tok |-> r, how |-> "text"]
<1>1. AsText(<<r>>) = <<e>>
  BY DEF AsText
<1>2. h \o <<e>> \in Seq(Event)
  BY <1>1 DEF State
<1> HIDE DEF e
<1>3. (h \o <<e>>)[Len(h) + 1] = e /\ Len(h) + 1 \in 1 .. Len(h \o <<e>>)
  BY DEF State
<1>4. e \in Event
  BY <1>2, <1>3
<1> QED BY <1>4 DEF e, Event

\* One more token read as text is one more token in the key.
LEMMA KeyOfMore ==
    ASSUME NEW h \in State, NEW tok \in Token
    PROVE  KeyOf(h \o AsText(<<tok>>)) = Append(KeyOf(h), tok)
<1>1. <<tok>> \in Seq(Token)
  OBVIOUS
<1>2. AsText(<<tok>>) \in State /\ KeyOf(AsText(<<tok>>)) = <<tok>>
  BY <1>1, AsTextHistory
<1>3. KeyOf(h) \in Seq(Token) /\ KeyOf(h \o AsText(<<tok>>)) = KeyOf(h) \o <<tok>>
  BY <1>2, KeyOfConcat
<1> QED BY <1>3

\* The first token: the whole chat was read, and the logits follow it, or are the
\* ones that were saved with a node found whole.
LEMMA SeenAnswer ==
    ASSUME PromptInv, PromptInv', LogitsInv', SampledAfterHistory', PrefillDone
    PROVE  [C!Next]_(C!vars)
<1>1. /\ pc = "prefill" /\ pc' = "decode"
      /\ UNCHANGED <<tree, prompt, live, call, collided, misloaded>>
  BY DEF PrefillDone
<1>2. /\ call.op = "chat" /\ call.resp = << >> /\ call.ids \in Seq(Token)
      /\ \E p \in PromptValues, i \in Inputs : call.ids = ChatIds(p, i)
  BY <1>1 DEF PromptInv, CacheInv, ShapeInv, TypeOK, CallShape, Call
<1>3. Phase = "reading" /\ Phase' = "answering"
  BY <1>1, <1>2 DEF Phase
<1>4. UNCHANGED <<prompt, Asked, Answered>> /\ Trusted' = Trusted
  BY <1>1, <1>2, <1>3 DEF Asked, Answered, Trusted
<1>5. Asked = call.ids
  BY <1>3 DEF Asked
<1>6. CASE ~ Trusted
  <2>1. UNCHANGED <<Read, Basis>>
    BY <1>4, <1>6 DEF Read, Basis, Promised
  <2>2. C!Answer
    BY <1>3, <1>4, <1>6, <2>1 DEF C!Answer
  <2> QED BY <2>2 DEF C!Next
<1>7. CASE Trusted
  <2>1. Read' = KeyOf(live') /\ Basis' = KeyOf(logits'.of)
    BY <1>3, <1>4, <1>7 DEF Read, Basis, Promised
  <2>2. PICK k \in 0 .. Len(call.ids) : KeyOf(live') = AsRead(call.ids, k)
    <3>1. ~ collided' /\ Loaded(tree', misloaded', call'.node)
      BY <1>1, <1>7 DEF Trusted, Loaded
    <3> QED BY <1>1, <1>2, <3>1 DEF PromptInv, PromptRead
  <2>3. Read' \in Readings[Asked]
    BY <1>2, <1>5, <2>1, <2>2 DEF Readings
  <2>4. Basis' \in C!FirstBases(Read')
    <3>1. CASE logits' = LogitsAfter(live')
      BY <2>1, <3>1 DEF LogitsAfter, C!FirstBases
    <3>2. CASE logits' = ZeroLogits
      <4>1. Basis' = << >>
        BY <2>1, <3>2 DEF ZeroLogits, KeyOf
      <4> QED BY <4>1 DEF C!FirstBases
    <3>3. CASE \E r \in RewindTokens : logits' = LogitsAfter(live' \o AsText(<<r>>))
      <4>1. PICK r \in RewindTokens : logits' = LogitsAfter(live' \o AsText(<<r>>))
        BY <3>3
      <4>2. Basis' = KeyOf(live' \o AsText(<<r>>))
        BY <2>1, <4>1 DEF LogitsAfter
      <4>3. live' \in State /\ live' \o AsText(<<r>>) \in State
        <5>1. logits' \in Logits /\ live' \in State
          BY DEF LogitsInv, ShapeInv, TypeOK
        <5> QED BY <4>1, <5>1 DEF LogitsAfter, Logits
      <4>4. r \in Token
        BY <4>3, OneMoreToken
      <4>5. Basis' = Append(Read', r)
        BY <2>1, <4>2, <4>3, <4>4, KeyOfMore
      <4> QED BY <4>5 DEF C!FirstBases
    <3>4. \/ logits' = LogitsAfter(live') \/ logits' = ZeroLogits
          \/ \E r \in RewindTokens : logits' = LogitsAfter(live' \o AsText(<<r>>))
      BY <1>1, <1>7 DEF Trusted, SampledAfterHistory, LogitsInv, LogitsOfNode, ShapeInv, TreeShape
    <3> QED BY <3>1, <3>2, <3>3, <3>4
  <2>5. C!Answer
    BY <1>3, <1>4, <1>7, <2>3, <2>4 DEF C!Answer
  <2> QED BY <2>5 DEF C!Next
<1> QED BY <1>6, <1>7

\* Every further token is read after the ones before it and sampled from the
\* logits of what was read.
LEMMA SeenSay ==
    ASSUME ShapeInv, NEW tok \in Token, DecodeToken(tok)
    PROVE  [C!Next]_(C!vars)
<1>1. /\ pc = "decode" /\ pc' = "decode" /\ UNCHANGED <<prompt, collided, misloaded>>
      /\ Len(call.resp) < MaxLength
      /\ live' = live \o AsText(<<tok>>) /\ logits' = LogitsAfter(live')
      /\ call' = [call EXCEPT !.resp = Append(@, tok),
                     !.rewind = IF tok \in RewindTokens THEN {live} ELSE {}]
  BY DEF DecodeToken
<1>2. call \in Call /\ live \in State
  BY DEF ShapeInv, TypeOK
<1>3. Phase = "answering" /\ Phase' = "answering"
  BY <1>1 DEF Phase
<1>4. call'.resp = Append(call.resp, tok) /\ call'.ids = call.ids /\ Trusted' = Trusted
  BY <1>1, <1>2 DEF Call, Trusted
<1>5. UNCHANGED Asked /\ Answered = call.resp /\ Answered' = Append(Answered, tok)
  BY <1>3, <1>4 DEF Asked, Answered
<1>6. CASE ~ Trusted
  <2>1. UNCHANGED <<Read, Basis>>
    BY <1>4, <1>6 DEF Read, Basis, Promised
  <2>2. C!Say(tok)
    BY <1>1, <1>3, <1>4, <1>5, <1>6, <2>1 DEF C!Say
  <2> QED BY <2>2 DEF C!Next
<1>7. CASE Trusted
  <2>1. Read = KeyOf(live) /\ Read' = KeyOf(live') /\ Basis' = KeyOf(logits'.of)
    BY <1>3, <1>4, <1>7 DEF Read, Basis, Promised
  <2>2. Read' = Append(Read, tok)
    BY <1>1, <1>2, <2>1, KeyOfMore
  <2>3. Basis' = Read'
    BY <1>1, <2>1 DEF LogitsAfter
  <2>4. C!Say(tok)
    BY <1>1, <1>3, <1>4, <1>5, <1>7, <2>2, <2>3 DEF C!Say
  <2> QED BY <2>4 DEF C!Next
<1> QED BY <1>6, <1>7

\* A chat asks for the ids the template gives, under the prompt in force.
LEMMA SeenAsk ==
    ASSUME ShapeInv, NEW i \in Inputs, StartChat(i)
    PROVE  [C!Next]_(C!vars)
<1>1. /\ pc = "idle" /\ pc' = "match" /\ UNCHANGED <<prompt, collided, misloaded>>
      /\ call' = [NoCall EXCEPT !.op = "chat", !.ids = ChatIds(prompt, i)]
  BY DEF StartChat, Start
<1>2. call'.op = "chat" /\ call'.ids = ChatIds(prompt, i)
  BY <1>1 DEF NoCall
<1>3. Phase = "idle" /\ Phase' = "reading"
  BY <1>1, <1>2 DEF Phase
<1>4. prompt \in PromptValues
  BY DEF ShapeInv, TypeOK
<1>5. Asked' = Texts[prompt][i]
  BY <1>2, <1>3, <1>4 DEF Asked, Texts
<1>6. UNCHANGED <<Read, Basis, Answered, Trusted>>
  BY <1>1, <1>3 DEF Read, Basis, Answered, Promised, Trusted
<1>7. C!Ask(i)
  BY <1>1, <1>3, <1>5, <1>6 DEF C!Ask
<1> QED BY <1>7 DEF C!Next

\* A prompt that is not cached in full is in force from then on.
LEMMA SeenSetPrompt ==
    ASSUME ShapeInv, MatchedPrompt
    PROVE  [C!Next]_(C!vars)
<1>1. /\ pc = "match" /\ call.op \in {"prompt", "audio"} /\ UNCHANGED <<collided, misloaded>>
      /\ pc' \in {"idle", "prompt"} /\ prompt' \in {prompt, call.ids}
  BY DEF MatchedPrompt, MatchEnd, Return
<1>2. Phase = "idle" /\ Phase' = "idle" /\ Trusted' = Trusted
  BY <1>1 DEF Phase, Trusted
<1>3. call.ids \in Prompts \cup AudioTags
  BY <1>1 DEF ShapeInv, CallShape
<1>4. CASE prompt' = prompt
  BY <1>1, <1>2, <1>4, SeenIdle
<1>5. CASE prompt' = call.ids
  <2>1. UNCHANGED <<Asked, Read, Basis, Answered>>
    BY <1>2 DEF Asked, Read, Basis, Answered, Promised
  <2>2. C!SetPrompt(call.ids)
    BY <1>1, <1>2, <1>5, <2>1 DEF C!SetPrompt
  <2> QED BY <1>3, <2>2 DEF C!Next
<1> QED BY <1>1, <1>4, <1>5

LEMMA ConversationStep ==
    ASSUME PromptInv, PromptInv', LogitsInv', SampledAfterHistory', [Next]_vars
    PROVE  [C!Next]_(C!vars)
<1>a. ShapeInv /\ CallShape /\ call \in Call /\ collided \in BOOLEAN
  BY DEF PromptInv, CacheInv, ShapeInv, TypeOK
<1>b. ASSUME NEW fed, FailedEval(fed), pc \in {"prefill", "decode", "prompt"}
      PROVE  [C!Next]_(C!vars)
  <2>1. pc' = "idle" /\ UNCHANGED <<prompt, collided, misloaded>>
    BY <1>b DEF FailedEval, Return
  <2>2. Phase' = "idle"
    BY <2>1, ReturnIdle
  <2>3. Trusted' => Trusted
    BY <2>1, HistoriesGrow
  <2> QED BY <2>1, <2>2, <2>3, SeenIdle, SeenEnd
<1>1. CASE \E i \in Inputs : StartChat(i)
  BY <1>1, <1>a, SeenAsk
<1>2. ASSUME NEW op \in {"prompt", "audio"}, NEW ids, Start(op, ids)
      PROVE  [C!Next]_(C!vars)
  <2>1. /\ pc = "idle" /\ UNCHANGED <<prompt, collided, misloaded>>
        /\ call' = [NoCall EXCEPT !.op = op, !.ids = ids]
    BY <1>2 DEF Start
  <2>2. call'.op # "chat" /\ pc' = "match"
    BY <1>2, <2>1 DEF Start, NoCall
  <2>3. Phase = "idle" /\ Phase' = "idle"
    BY <2>1, <2>2 DEF Phase
  <2>4. Trusted' => Trusted
    BY <2>1, HistoriesGrow
  <2> QED BY <2>1, <2>3, <2>4, SeenIdle
<1>3. CASE MatchDescend
  <2>1. PICK c \in DOMAIN tree : call' = [call EXCEPT !.node = c]
    BY <1>3 DEF MatchDescend
  <2>2. call'.op = call.op /\ call'.ids = call.ids
    BY <1>a, <2>1 DEF Call
  <2>3. pc = "match" /\ UNCHANGED <<prompt, pc, collided, misloaded>>
    BY <1>3 DEF MatchDescend
  <2>4. Phase # "answering" /\ Phase' = Phase
    BY <2>2, <2>3 DEF Phase
  <2>5. UNCHANGED Asked
    BY <2>2, <2>4 DEF Asked
  <2>6. Trusted' => Trusted
    BY <2>3, HistoriesGrow
  <2> QED BY <2>3, <2>4, <2>5, <2>6, SeenNothing
<1>4. CASE MatchedChat
  <2>1. /\ pc = "match" /\ pc' = "prefill" /\ call.op = "chat"
        /\ call' = [call EXCEPT !.pending = Reencode(Unmatched)]
        /\ UNCHANGED <<prompt, collided, misloaded>>
    BY <1>4 DEF MatchedChat, MatchEnd
  <2>2. call'.op = call.op /\ call'.ids = call.ids
    BY <1>a, <2>1 DEF Call
  <2>3. Phase = "reading" /\ Phase' = "reading"
    BY <2>1, <2>2 DEF Phase
  <2>4. UNCHANGED Asked
    BY <2>2, <2>3 DEF Asked
  <2>5. Trusted' => Trusted
    BY <2>1, HistoriesGrow
  <2> QED BY <2>1, <2>3, <2>4, <2>5, SeenNothing
<1>5. CASE MatchedPrompt
  BY <1>5, <1>a, SeenSetPrompt
<1>6. CASE PrefillChunk
  <2>1. PICK k \in 1 .. Len(call.pending), m \in Slots :
          LET chunk == SubSeq(call.pending, 1, k) IN
          /\ Register(call.node, chunk, live', logits', m)
          /\ call' = [call EXCEPT !.node = m,
                         !.pending = SubSeq(@, k + 1, Len(@))]
    BY <1>6 DEF PrefillChunk
  <2>2. call'.op = call.op /\ call'.ids = call.ids
    BY <1>a, <2>1 DEF Call
  <2>3. pc = "prefill" /\ UNCHANGED <<prompt, pc, misloaded>>
    BY <1>6 DEF PrefillChunk
  <2>4. Phase # "answering" /\ Phase' = Phase
    BY <2>2, <2>3 DEF Phase
  <2>5. UNCHANGED Asked
    BY <2>2, <2>4 DEF Asked
  <2>6. Trusted' => Trusted
    BY <1>a, <2>1, <2>3, CollidedStays, HistoriesGrow
  <2> QED BY <2>3, <2>4, <2>5, <2>6, SeenNothing
<1>7. CASE PrefillFails \/ PromptFails \/ \E tok \in Token : DecodeFails(tok)
  BY <1>7, <1>b DEF PrefillFails, PromptFails, DecodeFails
<1>8. CASE PrefillDone
  BY <1>8, SeenAnswer
<1>9. CASE \E tok \in Token : DecodeToken(tok)
  BY <1>9, <1>a, SeenSay
<1>10. CASE DecodeBreak
  <2>1. /\ pc = "decode" /\ pc' = "register"
        /\ UNCHANGED <<prompt, live, call, logits, collided, misloaded>>
    BY <1>10 DEF DecodeBreak
  <2>2. Phase = "answering" /\ Phase' = "answering"
    BY <2>1 DEF Phase
  <2>3. UNCHANGED <<Asked, Read, Basis, Answered, Trusted>>
    BY <2>1, <2>2 DEF Asked, Read, Basis, Answered, Promised, Trusted
  <2> QED BY <2>1, <2>2, <2>3 DEF C!vars
<1>11. CASE RegisterResponse
  <2>1. pc = "register" /\ pc' = "cleanup" /\ UNCHANGED <<prompt, misloaded>>
    BY <1>11 DEF RegisterResponse
  <2>2. Phase = "answering" /\ Phase' = "idle"
    BY <2>1 DEF Phase
  <2>3. collided => collided'
    <3>1. \/ UNCHANGED collided
          \/ \E ids, st, m : Register(call.node, ids, st, logits, m)
      BY <1>11 DEF RegisterResponse
    <3> QED BY <1>a, <3>1, CollidedStays
  <2>4. Trusted' => Trusted
    BY <2>1, <2>3, HistoriesGrow
  <2> QED BY <2>1, <2>2, <2>4, SeenEnd
<1>12. CASE CleanupStateTree
  <2>1. pc = "cleanup" /\ pc' = "idle" /\ UNCHANGED <<prompt, collided, misloaded>>
    BY <1>12 DEF CleanupStateTree, Return
  <2>2. Phase = "idle" /\ Phase' = "idle"
    BY <2>1 DEF Phase
  <2>3. Trusted' => Trusted
    BY <2>1, HistoriesGrow
  <2> QED BY <2>1, <2>2, <2>3, SeenIdle
<1>13. CASE PromptEval
  <2>1. pc = "prompt" /\ pc' = "idle" /\ UNCHANGED <<prompt, misloaded>>
    BY <1>13 DEF PromptEval, Return
  <2>2. Phase = "idle" /\ Phase' = "idle"
    BY <2>1 DEF Phase
  <2>3. \E m \in Slots : Register(call.node, call.ids, live', LogitsAfter(live'), m)
    BY <1>13 DEF PromptEval
  <2>4. Trusted' => Trusted
    BY <1>a, <2>1, <2>3, CollidedStays, HistoriesGrow
  <2> QED BY <2>1, <2>2, <2>4, SeenIdle
<1>14. CASE \/ \E tag \in StateTags : LoadInitialState(tag)
            \/ \E tag \in StateTags : UnloadInitialState(tag)
            \/ ClearState
            \/ \E tok \in Token : EvalLogits(tok)
  <2>1. pc = "idle" /\ UNCHANGED <<prompt, pc, collided>> /\ misloaded \subseteq misloaded'
    BY <1>14 DEF LoadInitialState, UnloadInitialState, ClearState, EvalLogits
  <2>2. Phase = "idle" /\ Phase' = "idle"
    BY <2>1 DEF Phase
  <2>3. Trusted' => Trusted
    BY <2>1, HistoriesGrow
  <2> QED BY <2>1, <2>2, <2>3, SeenIdle
<1>15. CASE UNCHANGED vars
  <2>1. UNCHANGED <<prompt, pc, live, call, logits, collided, misloaded>>
    BY <1>15 DEF vars
  <2>2. UNCHANGED Phase
    BY <2>1 DEF Phase
  <2>3. UNCHANGED <<Asked, Read, Basis, Answered, Trusted>>
    BY <2>1, <2>2 DEF Asked, Read, Basis, Answered, Promised, Trusted
  <2> QED BY <2>1, <2>2, <2>3 DEF C!vars
<1>16. (\E p \in Prompts : StartSetPrompt(p)) \/ (\E a \in AudioTags : StartAudioPrompt(a))
         => \E op \in {"prompt", "audio"} : \E ids : Start(op, ids)
  BY DEF StartSetPrompt, StartAudioPrompt
<1> QED BY <1>1, <1>2, <1>3, <1>4, <1>5, <1>6, <1>7, <1>8, <1>9, <1>10, <1>11, <1>12,
           <1>13, <1>14, <1>15, <1>16
        DEF Next

\* The cache does not show: every behaviour of the calls on a model is, up to the
\* first collision or failed load, one of a model that reads each chat from its
\* beginning and answers it from the logits of all that it has read.
THEOREM ImplementsCorrect == Spec => Implements
<1>1. Init => C!Init
  <2> SUFFICES ASSUME Init PROVE C!Init
    OBVIOUS
  <2>1. Phase = "idle"
    BY DEF Init, Phase
  <2> QED BY <2>1 DEF Init, C!Init, Asked, Read, Basis, Answered, Promised, Trusted
<1>2. Init => PromptInv /\ LogitsInv
  BY PromptInit, LogitsInit
<1>3. PromptInv /\ LogitsInv => SampledAfterHistory
  BY SampledFromInv DEF PromptInv
<1>4. PromptInv /\ PromptInv' /\ LogitsInv' /\ SampledAfterHistory' /\ [Next]_vars
        => [C!Next]_(C!vars)
  BY ConversationStep
<1> QED BY <1>1, <1>2, <1>3, <1>4, PromptStep, LogitsStep, PTL
        DEF Spec, Implements, C!Spec

=============================================================================
