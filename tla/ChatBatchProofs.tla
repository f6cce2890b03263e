--------------------------- MODULE ChatBatchProofs --------------------------
(***************************************************************************)
(* Theorems about ChatBatch, for every vocabulary, set of chats, set of    *)
(* backends, chunk size, maximal length and bound.                         *)
(***************************************************************************)
EXTENDS ChatBatch, StateCacheProofs, FiniteSetTheorems

ShapeInv == TypeOK /\ CallShape

-----------------------------------------------------------------------------
(* What the steps have in common. *)

LEMMA SlotFacts ==
    ASSUME supported \in Backends
    PROVE  /\ Max(supported) \in supported /\ Max(supported) \in Nat \ {0}
           /\ supported \subseteq SlotIds /\ 1 \in SlotIds
<1>1. supported \subseteq Nat \ {0} /\ \E n \in supported : \A k \in supported : k <= n
  BY BatchAssumption
<1>2. \E n \in supported : \A k \in supported : n >= k
  BY <1>1
<1>3. Max(supported) \in supported /\ \A k \in supported : Max(supported) >= k
  BY <1>2 DEF Max
<1>4. Max(supported) \in Nat \ {0}
  BY <1>1, <1>3
<1>5. supported \subseteq 1 .. Max(supported)
  BY <1>1, <1>3, <1>4
<1> QED BY <1>3, <1>4, <1>5 DEF SlotIds

\* A function on an initial segment of the numbers is a sequence.
LEMMA RowIsSeq ==
    ASSUME NEW S, NEW n \in Nat, NEW f \in [1 .. n -> S]
    PROVE  f \in Seq(S) /\ Len(f) = n
BY SeqDef

\* A sequence of numbers is indexed by numbers and holds numbers.
LEMMA NumberedSeq ==
    ASSUME NEW S, S \subseteq Nat, NEW s \in Seq(S)
    PROVE  DOMAIN s \subseteq Nat /\ \A i \in DOMAIN s : s[i] \in Nat
<1>1. DOMAIN s = 1 .. Len(s) /\ Len(s) \in Nat
  OBVIOUS
<1>2. DOMAIN s \subseteq Nat
  BY <1>1
<1>3. \A i \in DOMAIN s : s[i] \in S
  OBVIOUS
<1>4. \A i \in DOMAIN s : s[i] \in Nat
  BY <1>3, Zenon
<1> QED BY <1>2, <1>4

\* The types of the local variables.
LEMMA CallFields ==
    ASSUME ShapeInv
    PROVE  /\ call.texts \in Seq(Texts) /\ call.think \in BOOLEAN /\ call.cur \in Nat
           /\ call.pending \in Seq(Token)
           /\ call.nodes \in Seq(Nat) /\ call.nodes \in Seq(DOMAIN tree)
           /\ call.saved \in Seq(State) /\ call.base \in Seq(State)
           /\ call.resp \in Seq(Seq(Token)) /\ call.rewind \in Seq(SUBSET State)
           /\ call.eos \subseteq Requests /\ call.thinking \subseteq Requests
           /\ call.clash \subseteq call.eos
           /\ call.active \in Seq(Requests) /\ call.decoded \in Seq(Token)
           /\ call.logits \in Seq(Logits) /\ call.round \in 0 .. MaxLength
           /\ Requests = 1 .. size /\ size \in Nat
           /\ Len(call.resp) = size /\ Len(call.rewind) = size
BY DEF ShapeInv, TypeOK, Calls, Requests, size

\* A loaded model can be fed text; its logits are those after its history.
LEMMA Fed ==
    ASSUME NEW h \in State, NEW ids \in Seq(Token)
    PROVE  h \o AsText(ids) \in State /\ LogitsAfter(h) \in Logits
<1>1. AsText(ids) \in State
  BY AsTextHistory
<1> QED BY <1>1 DEF State, LogitsAfter, Logits

LEMMA NewNode ==
    ASSUME NEW t, IsTree(t), NEW n \in DOMAIN t, NEW ids \in Seq(Token),
           NEW st \in State, NEW lg \in Logits
    PROVE  NewChild(t, n, ids, st, lg) \in Node
<1>1. t[n] \in Node /\ DOMAIN t \subseteq Nat
  BY DEF IsTree
<1>2. /\ t[n].ids \in Seq(Token) /\ t[n].cnt \in Int /\ t[n].anc \in SUBSET Nat
      /\ n \in Nat
  BY <1>1 DEF Node
<1>3. t[n].ids \o ids \in Seq(Token) /\ t[n].anc \cup {n} \in SUBSET Nat
  BY <1>2
<1> QED BY <1>2, <1>3 DEF NewChild, Node

\* Counting uses of nodes, and a cleanup, leave a tree.
LEMMA CountedTree ==
    ASSUME NEW t, IsTree(t), NEW S
    PROVE  IsTree(Counted(t, S)) /\ DOMAIN Counted(t, S) = DOMAIN t
<1> DEFINE u == Counted(t, S)
<1>1. DOMAIN u = DOMAIN t
  BY DEF Counted
<1>2. ASSUME NEW c \in DOMAIN t
      PROVE  /\ u[c] \in Node /\ u[c].anc = t[c].anc /\ u[c].ids = t[c].ids
             /\ u[c].state = t[c].state /\ u[c].const = t[c].const
  <2>1. t[c] \in Node
    BY DEF IsTree
  <2>2. u[c] = t[c] \/ u[c] = [t[c] EXCEPT !.cnt = @ + 1]
    BY DEF Counted
  <2> HIDE DEF u
  <2> QED BY <2>1, <2>2 DEF Node
<1>3. u = [c \in DOMAIN t |-> u[c]]
  BY DEF Counted
<1> HIDE DEF u
<1>4. u \in [DOMAIN u -> Node]
  BY <1>1, <1>2, <1>3
<1>5. IsTree(u)
  BY <1>1, <1>2, <1>4 DEF IsTree
<1> QED BY <1>1, <1>5 DEF u

LEMMA CleanedTree ==
    ASSUME NEW t, IsTree(t)
    PROVE  IsTree(Cleaned(t))
<1> DEFINE u == Cleaned(t)
<1>1. DOMAIN u = Kept(t)
  BY DEF Cleaned
<1>2. Root \in Kept(t) /\ Kept(t) \subseteq DOMAIN t
  BY DEF Kept, Active, IsTree
<1>3. ASSUME NEW c \in Kept(t)
      PROVE  /\ u[c] \in Node /\ u[c].anc = t[c].anc /\ u[c].ids = t[c].ids
             /\ u[c].state = t[c].state /\ u[c].const = t[c].const
  <2>1. t[c] \in Node
    BY <1>2 DEF IsTree
  <2>2. u[c] = t[c] \/ u[c] = [t[c] EXCEPT !.cnt = @ - 1]
    BY DEF Cleaned
  <2> HIDE DEF u
  <2> QED BY <2>1, <2>2 DEF Node
<1>4. u = [c \in Kept(t) |-> u[c]]
  BY DEF Cleaned
<1> HIDE DEF u
<1>5. u \in [DOMAIN u -> Node]
  BY <1>1, <1>3, <1>4
<1>6. IsTree(u)
  BY <1>1, <1>2, <1>3, <1>5 DEF IsTree
<1> QED BY <1>6 DEF u

\* A registration keeps the tree, and leaves the caller at one of its nodes.
LEMMA RegisterTree ==
    ASSUME IsTree(tree), NEW n \in DOMAIN tree, NEW ids \in Seq(Token),
           NEW st \in State, NEW lg \in Logits, NEW m, Register(n, ids, st, lg, m)
    PROVE  IsTree(tree') /\ m \in DOMAIN tree' /\ DOMAIN tree \subseteq DOMAIN tree'
<1>1. CASE IsFirst(m, SameIds(tree, n, ids)) /\ tree' = Bump(tree, m)
  <2>1. m \in DOMAIN tree
    BY <1>1 DEF IsFirst, SameIds, Children
  <2> QED BY <1>1, <2>1, BumpFields DEF SameButCounts
<1>2. CASE /\ m \in FreshIds(tree)
           /\ tree' = AddNode(tree, m, NewChild(tree, n, ids, st, lg))
  <2>1. NewChild(tree, n, ids, st, lg) \in Node
    BY NewNode
  <2>2. IsTree(tree') /\ Adds(tree, tree', m, NewChild(tree, n, ids, st, lg))
    BY <1>2, <2>1, AddNodeAdds
  <2> QED BY <2>2 DEF Adds
<1> QED BY <1>1, <1>2 DEF Register

LEMMA NoCallFacts ==
    /\ NoCall \in Calls /\ NoCall.texts = << >> /\ NoCall.nodes = << >>
    /\ NoCall.resp = << >> /\ NoCall.rewind = << >>
    /\ NoCall.eos = {} /\ NoCall.thinking = {} /\ NoCall.clash = {} /\ NoCall.active = << >>
<1>1. [j \in DOMAIN << >> |-> << >>] = << >> /\ [j \in DOMAIN << >> |-> {}] = << >>
  OBVIOUS
<1>2. << >> \in Seq(Logits) /\ << >> \in Seq(Token) /\ << >> \in Seq(Nat)
  OBVIOUS
<1>3. << >> \in Seq(Texts) /\ << >> \in Seq(State) /\ << >> \in Seq(SUBSET State)
  OBVIOUS
<1>4. 0 \in 0 .. MaxLength
  BY BatchAssumption
<1> QED BY <1>1, <1>2, <1>3, <1>4 DEF NoCall, NewCall, Calls

\* A call that returns leaves none of its local variables behind.
LEMMA ReturnShape ==
    ASSUME Return, IsTree(tree'), supported' \in Backends,
           (slots \in [SlotIds -> State])'
    PROVE  ShapeInv'
<1>1. pc' = "idle" /\ call' = NoCall
  BY DEF Return
<1>2. size' = 0 /\ ~ Decoding'
  BY <1>1, NoCallFacts DEF size, Decoding
<1>3. call'.nodes \in Seq(DOMAIN tree') /\ call'.active \in Seq(Requests')
  BY <1>1, NoCallFacts
<1>4. TypeOK'
  BY <1>1, <1>2, <1>3, NoCallFacts DEF TypeOK, Steps
<1>5. CallShape'
  BY <1>1, <1>2, NoCallFacts DEF CallShape
<1> QED BY <1>4, <1>5 DEF ShapeInv

-----------------------------------------------------------------------------
(* What each step does to the local variables of the call. *)

LEMMA StartEffect ==
    ASSUME ShapeInv, NEW ts \in Seq(Texts), NEW think \in BOOLEAN, StartBatch(ts, think)
    PROVE  /\ call' \in Calls /\ call'.texts = ts /\ call'.think = think
           /\ call'.cur = 1 /\ call'.nodes = << >> /\ call'.saved = << >>
           /\ call'.base = << >> /\ call'.decoded = << >> /\ call'.active = << >>
           /\ call'.eos = {} /\ call'.round = 0
           /\ call'.thinking = IF think THEN DOMAIN ts ELSE {}
           /\ call'.clash = {}
           /\ call'.resp = [j \in DOMAIN ts |-> << >>]
           /\ call'.rewind = [j \in DOMAIN ts |-> {}]
           /\ size' = Len(ts) /\ Requests' = 1 .. Len(ts)
<1>1. call' = NewCall(ts, think)
  BY DEF StartBatch
<1>2. DOMAIN ts = 1 .. Len(ts) /\ Len(ts) \in Nat
  OBVIOUS
<1>3. [j \in DOMAIN ts |-> << >>] \in Seq(Seq(Token))
  <2>1. [j \in 1 .. Len(ts) |-> << >>] \in [1 .. Len(ts) -> Seq(Token)]
    OBVIOUS
  <2> QED BY <1>2, <2>1, RowIsSeq
<1>4. [j \in DOMAIN ts |-> {}] \in Seq(SUBSET State)
  <2>1. [j \in 1 .. Len(ts) |-> {}] \in [1 .. Len(ts) -> SUBSET State]
    OBVIOUS
  <2> QED BY <1>2, <2>1, RowIsSeq
<1>5. << >> \in Seq(Logits) /\ 0 \in 0 .. MaxLength
  BY BatchAssumption
<1>6. NewCall(ts, think) \in Calls
  <2>1. << >> \in Seq(State) /\ << >> \in Seq(Nat) /\ << >> \in Seq(Token)
    OBVIOUS
  <2>2. (IF think THEN DOMAIN ts ELSE {}) \in SUBSET Nat
    BY <1>2

  <2> QED BY <1>2, <1>3, <1>4, <1>5, <2>1, <2>2 DEF NewCall, Calls
<1>7. /\ call'.texts = ts /\ call'.think = think
      /\ call'.cur = 1 /\ call'.nodes = << >> /\ call'.saved = << >>
      /\ call'.base = << >> /\ call'.decoded = << >> /\ call'.active = << >>
      /\ call'.eos = {} /\ call'.round = 0
      /\ call'.thinking = IF think THEN DOMAIN ts ELSE {}
      /\ call'.clash = {}
      /\ call'.resp = [j \in DOMAIN ts |-> << >>]
      /\ call'.rewind = [j \in DOMAIN ts |-> {}]
  BY <1>1 DEF NewCall
<1> QED BY <1>1, <1>2, <1>6, <1>7 DEF size, Requests

\* What the prefill of a request leaves alone.
GeneratedStays ==
    /\ call'.texts = call.texts /\ call'.think = call.think /\ call'.cur = call.cur
    /\ call'.saved = call.saved /\ call'.base = call.base
    /\ call'.resp = call.resp /\ call'.rewind = call.rewind
    /\ call'.eos = call.eos /\ call'.thinking = call.thinking
    /\ call'.clash = call.clash
    /\ call'.active = call.active /\ call'.decoded = call.decoded
    /\ call'.round = call.round
    /\ size' = size /\ Requests' = Requests

LEMMA MatchEffect ==
    ASSUME ShapeInv, MatchRequest
    PROVE  /\ call' \in Calls /\ GeneratedStays
           /\ \E n \in DOMAIN tree : /\ call'.nodes = Append(call.nodes, n)
                                     /\ tree' = Counted(tree, Path(tree, n))
                                     /\ slots' = [slots EXCEPT ![1] = tree[n].state]
<1>0. call \in Calls /\ Prefilling /\ DOMAIN tree \subseteq Nat
  BY DEF ShapeInv, TypeOK, CallShape, MatchRequest, IsTree
<1>1. PICK n \in DOMAIN tree :
        LET ids == call.texts[call.cur] IN
         /\ tree' = Counted(tree, Path(tree, n))
         /\ slots' = [slots EXCEPT ![1] = tree[n].state]
         /\ call' = [call EXCEPT
                       !.nodes = Append(@, n),
                       !.pending = SubSeq(ids, Len(tree[n].ids) + 1, Len(ids))]
  BY DEF MatchRequest
<1> DEFINE ids == call.texts[call.cur]
<1> DEFINE rest == SubSeq(ids, Len(tree[n].ids) + 1, Len(ids))
<1>2. rest \in Seq(Token)
  <2>1. ids \in Seq(Token)
    BY <1>0, BatchAssumption DEF Prefilling, Calls, size
  <2>2. tree[n].ids \in Seq(Token)
    BY DEF ShapeInv, TypeOK, IsTree, Node
  <2> HIDE DEF ids
  <2>3. Len(ids) \in Int /\ Len(tree[n].ids) + 1 \in Nat \ {0}
    BY <2>1, <2>2
  <2>4. \A i \in Len(tree[n].ids) + 1 .. Len(ids) : ids[i] \in Token
    BY <2>1, <2>3
  <2> QED BY <2>3, <2>4, SubSeqProperties
<1>3. call' = [call EXCEPT !.nodes = Append(@, n), !.pending = rest]
  BY <1>1
<1> HIDE DEF rest, ids
<1>4. Append(call.nodes, n) \in Seq(Nat)
  BY <1>0 DEF Calls
<1>5. call' \in Calls /\ call'.nodes = Append(call.nodes, n)
  BY <1>0, <1>2, <1>3, <1>4 DEF Calls
<1>6. GeneratedStays
  BY <1>0, <1>3 DEF Calls, GeneratedStays, size, Requests
<1> QED BY <1>1, <1>5, <1>6

LEMMA ChunkEffect ==
    ASSUME ShapeInv, PrefillChunk
    PROVE  /\ call' \in Calls /\ GeneratedStays
           /\ call'.nodes \in Seq(DOMAIN tree') /\ Len(call'.nodes) = Len(call.nodes)
           /\ IsTree(tree') /\ (slots \in [SlotIds -> State])'
<1>0. /\ call \in Calls /\ Prefilling /\ Len(call.nodes) = call.cur
      /\ call.cur \in 1 .. size
      /\ call.pending \in Seq(Token) /\ call.pending # << >> /\ IsTree(tree)
      /\ call.nodes \in Seq(DOMAIN tree) /\ UNCHANGED SlotIds
  BY DEF ShapeInv, TypeOK, CallShape, PrefillChunk, Prefilling, Calls, SlotIds
<1> DEFINE k == Min({Len(call.pending), MaxChunk})
<1> DEFINE chunk == SubSeq(call.pending, 1, k)
<1> DEFINE st == slots[1] \o AsText(chunk)
<1> DEFINE rest == SubSeq(call.pending, k + 1, Len(call.pending))
<1>1. PICK m : /\ slots' = [slots EXCEPT ![1] = st]
               /\ Register(call.nodes[call.cur], chunk, st, LogitsAfter(st), m)
               /\ call' = [call EXCEPT !.nodes[call.cur] = m,
                                       !.logits = <<LogitsAfter(st)>>,
                                       !.cached = {},
                                       !.pending = rest]
  BY DEF PrefillChunk
<1>2. k \in 1 .. Len(call.pending)
  <2>1. Len(call.pending) \in Nat \ {0} /\ MaxChunk \in Nat \ {0}
    BY <1>0, BatchAssumption
  <2>2. \E x \in {Len(call.pending), MaxChunk} :
          \A y \in {Len(call.pending), MaxChunk} : x =< y
    BY <2>1
  <2>3. /\ k \in {Len(call.pending), MaxChunk}
        /\ \A y \in {Len(call.pending), MaxChunk} : k =< y
    BY <2>2 DEF Min
  <2> QED BY <2>1, <2>3
<1>3. chunk \in Seq(Token) /\ rest \in Seq(Token)
  <2> HIDE DEF k
  <2>1. \A i \in 1 .. Len(call.pending) : call.pending[i] \in Token
    BY <1>0
  <2>2. k \in Int /\ 1 \in Int /\ k + 1 \in Int /\ Len(call.pending) \in Int
    BY <1>0, <1>2
  <2>3. \A i \in 1 .. k : call.pending[i] \in Token
    BY <1>2, <2>1, <2>2
  <2>4. \A i \in k + 1 .. Len(call.pending) : call.pending[i] \in Token
    BY <1>2, <2>1, <2>2
  <2> QED BY <2>2, <2>3, <2>4, SubSeqProperties
<1>4. slots \in [SlotIds -> State] /\ 1 \in SlotIds
  BY SlotFacts DEF ShapeInv, TypeOK
<1>5. st \in State /\ LogitsAfter(st) \in Logits
  BY <1>3, <1>4, Fed
<1> HIDE DEF k, chunk, st, rest
<1>6. call.nodes[call.cur] \in DOMAIN tree
  BY <1>0
<1>7. IsTree(tree') /\ m \in DOMAIN tree' /\ DOMAIN tree \subseteq DOMAIN tree'
  BY <1>0, <1>1, <1>3, <1>5, <1>6, RegisterTree
<1>8. (slots \in [SlotIds -> State])'
  BY <1>0, <1>1, <1>4, <1>5
<1>9. m \in Nat
  BY <1>7 DEF IsTree
<1>10. /\ [call.nodes EXCEPT ![call.cur] = m] \in Seq(DOMAIN tree')
       /\ [call.nodes EXCEPT ![call.cur] = m] \in Seq(Nat)
       /\ Len([call.nodes EXCEPT ![call.cur] = m]) = Len(call.nodes)
  <2>1. call.nodes \in Seq(DOMAIN tree') /\ call.nodes \in Seq(Nat)
    <3>1. DOMAIN tree \subseteq Nat
      BY <1>0 DEF IsTree
    <3> QED BY <1>0, <1>7, <3>1
  <2> QED BY <1>0, <1>7, <1>9, <2>1, ExceptSeq
<1>11. call'.nodes = [call.nodes EXCEPT ![call.cur] = m]
  BY <1>0, <1>1 DEF Calls
<1>12. call' \in Calls
  <2>1. <<LogitsAfter(st)>> \in Seq(Logits)
    BY <1>5
  <2> QED BY <1>0, <1>1, <1>3, <1>10, <2>1 DEF Calls
<1>13. GeneratedStays
  BY <1>0, <1>1 DEF Calls, GeneratedStays, size, Requests
<1> QED BY <1>7, <1>8, <1>10, <1>11, <1>12, <1>13

LEMMA FirstTokenEffect ==
    ASSUME ShapeInv, NEW tok \in Token, FirstToken(tok)
    PROVE  /\ call' \in Calls /\ size' = size /\ Requests' = Requests
           /\ call'.think = call.think /\ call'.nodes = call.nodes
           /\ call'.resp = call.resp /\ call'.rewind = call.rewind
           /\ call'.eos = call.eos /\ call'.thinking = call.thinking
           /\ call'.clash = call.clash
           /\ call'.round = call.round
           /\ call'.saved = Append(call.saved, slots[1])
           /\ call'.base = Append(call.base, slots[1])
           /\ call'.decoded = Append(call.decoded, tok)
           /\ \/ /\ call.cur < size /\ pc' = "match" /\ UNCHANGED slots
                 /\ call'.cur = call.cur + 1 /\ call'.active = call.active
              \/ /\ call.cur = size
                 /\ pc' = IF MaxLength > 0 THEN "detect" ELSE "save"
                 /\ call'.cur = call.cur
                 /\ call'.active = [k \in 1 .. size |-> k]
                 /\ slots' = [k \in SlotIds |->
                                IF k <= size THEN call'.saved[k] ELSE slots[k]]
<1>0. /\ call \in Calls /\ Prefilling /\ call.cur \in 1 .. size /\ size \in Nat
      /\ Len(call.nodes) = call.cur
      /\ call.nodes \in Seq(DOMAIN tree) /\ slots[1] \in State
      /\ call.logits \in Seq(Logits)
  <2>1. 1 \in SlotIds /\ slots \in [SlotIds -> State]
    BY SlotFacts DEF ShapeInv, TypeOK
  <2>2. pc = "prefill"
    BY DEF FirstToken
  <2>3. Prefilling
    BY <2>2 DEF ShapeInv, CallShape
  <2>4. call \in Calls /\ call.nodes \in Seq(DOMAIN tree)
    BY DEF ShapeInv, TypeOK
  <2> QED BY <2>1, <2>2, <2>3, <2>4, CallFields DEF Prefilling
<1> DEFINE n == call.nodes[call.cur]
<1> DEFINE node == tree[n]
<1> DEFINE lg == IF call.logits = << >> THEN <<node.logits>> ELSE call.logits
<1> DEFINE at == IF call.logits = << >> THEN {n} ELSE call.cached
<1> DEFINE next == [call EXCEPT !.logits = lg,
                                !.cached = at,
                                !.decoded = Append(@, tok),
                                !.saved = Append(@, slots[1]),
                                !.base = Append(@, slots[1])]
<1>1. lg \in Seq(Logits) /\ at \in SUBSET Nat
  <2>1. node.logits \in Logits /\ n \in Nat
    <3>1. n \in DOMAIN tree
      BY <1>0
    <3>2. node \in Node /\ n \in Nat
      BY <3>1 DEF ShapeInv, TypeOK, IsTree
    <3> HIDE DEF node, n
    <3> QED BY <3>2 DEF Node
  <2>2. call.cached \in SUBSET Nat
    BY <1>0 DEF Calls
  <2> HIDE DEF node, n
  <2> QED BY <1>0, <2>1, <2>2 DEF lg, at
<1>2. \/ /\ call.cur < size
         /\ call' = [next EXCEPT !.cur = @ + 1]
         /\ pc' = "match"
         /\ UNCHANGED slots
      \/ /\ call.cur = size
         /\ call' = [next EXCEPT !.active = [k \in 1 .. size |-> k]]
         /\ slots' = [k \in SlotIds |->
                        IF k <= size THEN next.saved[k] ELSE slots[k]]
         /\ pc' = IF MaxLength > 0 THEN "detect" ELSE "save"
  BY DEF FirstToken
<1> HIDE DEF lg, at, node, n
<1>3. /\ Append(call.saved, slots[1]) \in Seq(State)
      /\ Append(call.base, slots[1]) \in Seq(State)
      /\ Append(call.decoded, tok) \in Seq(Token)
  BY <1>0 DEF Calls
<1>4. /\ next \in Calls /\ next.texts = call.texts
      /\ next.think = call.think /\ next.nodes = call.nodes
      /\ next.resp = call.resp /\ next.rewind = call.rewind
      /\ next.eos = call.eos /\ next.thinking = call.thinking
      /\ next.clash = call.clash
      /\ next.round = call.round /\ next.cur = call.cur /\ next.active = call.active
      /\ next.saved = Append(call.saved, slots[1])
      /\ next.base = Append(call.base, slots[1])
      /\ next.decoded = Append(call.decoded, tok)
  BY <1>0, <1>1, <1>3 DEF Calls
<1> HIDE DEF next
<1>5. CASE /\ call.cur < size
           /\ call' = [next EXCEPT !.cur = @ + 1]
           /\ pc' = "match"
           /\ UNCHANGED slots
  <2>1. next.cur + 1 \in Nat /\ next.cur = call.cur
    BY <1>0, <1>4
  <2>2. call' \in Calls /\ call'.cur = next.cur + 1
    BY <1>4, <1>5, <2>1 DEF Calls
  <2>3. /\ call'.texts = next.texts /\ call'.think = next.think /\ call'.nodes = next.nodes
        /\ call'.resp = next.resp /\ call'.rewind = next.rewind
        /\ call'.eos = next.eos /\ call'.thinking = next.thinking
        /\ call'.clash = next.clash
        /\ call'.round = next.round /\ call'.active = next.active
        /\ call'.saved = next.saved /\ call'.base = next.base
        /\ call'.decoded = next.decoded
    BY <1>4, <1>5 DEF Calls
  <2> QED BY <1>4, <1>5, <2>1, <2>2, <2>3 DEF size, Requests
<1>6. CASE /\ call.cur = size
           /\ call' = [next EXCEPT !.active = [k \in 1 .. size |-> k]]
           /\ slots' = [k \in SlotIds |->
                          IF k <= size THEN next.saved[k] ELSE slots[k]]
           /\ pc' = IF MaxLength > 0 THEN "detect" ELSE "save"
  <2>1. [k \in 1 .. size |-> k] \in Seq(Nat)
    <3>1. [k \in 1 .. size |-> k] \in [1 .. size -> Nat]
      BY <1>0
    <3> QED BY <1>0, <3>1, RowIsSeq
  <2>2. call' \in Calls /\ call'.active = [k \in 1 .. size |-> k]
    BY <1>4, <1>6, <2>1 DEF Calls
  <2>3. /\ call'.texts = next.texts /\ call'.think = next.think /\ call'.nodes = next.nodes
        /\ call'.resp = next.resp /\ call'.rewind = next.rewind
        /\ call'.eos = next.eos /\ call'.thinking = next.thinking
        /\ call'.clash = next.clash
        /\ call'.round = next.round /\ call'.cur = next.cur
        /\ call'.saved = next.saved /\ call'.base = next.base
        /\ call'.decoded = next.decoded
    BY <1>4, <1>6 DEF Calls
  <2> QED BY <1>4, <1>6, <2>2, <2>3 DEF size, Requests
<1> QED BY <1>2, <1>5, <1>6

\* The tests of one round, as the definition of the step names them.
Here == {j \in Requests : InBatch(j)}

Zero == {j \in Here : Sampled(j) = EosTok}

Open == Here \ (call.eos \cup Zero)

Caught == {j \in Open : Sampled(j) \in RewindTokens}

\* The slot of a request that has one.
LEMMA SlotOf ==
    ASSUME NEW j, InBatch(j)
    PROVE  Slot(j) \in DOMAIN call.active /\ call.active[Slot(j)] = j
BY DEF InBatch, Slot

LEMMA SlotUsed ==
    ASSUME ShapeInv, Decoding, NEW j \in Requests, InBatch(j)
    PROVE  /\ Slot(j) \in SlotIds /\ slots[Slot(j)] \in State
           /\ Sampled(j) \in Token
<1>1. Slot(j) \in DOMAIN call.active
  BY SlotOf
<1>2. /\ call.active \in Seq(Requests) /\ call.decoded \in Seq(Token)
      /\ Len(call.active) \in supported /\ Len(call.decoded) = Len(call.active)
      /\ slots \in [SlotIds -> State] /\ supported \in Backends
  BY DEF ShapeInv, TypeOK, Calls
<1>3. Len(call.active) \in 1 .. Max(supported) /\ Max(supported) \in Nat
  BY <1>2, SlotFacts DEF SlotIds
<1>4. Slot(j) \in 1 .. Max(supported) /\ Slot(j) \in 1 .. Len(call.decoded)
  BY <1>1, <1>2, <1>3
<1> QED BY <1>2, <1>4 DEF SlotIds, Sampled

LEMMA DetectEffect ==
    ASSUME ShapeInv, NEW ends \in SUBSET Requests, NEW closed \in SUBSET Requests,
           DetectEnds(ends, closed)
    PROVE  /\ call' \in Calls /\ size' = size /\ Requests' = Requests
           /\ call'.think = call.think /\ call'.nodes = call.nodes
           /\ call'.cur = call.cur /\ call'.round = call.round
           /\ call'.base = call.base /\ call'.resp = call.resp
           /\ call'.active = call.active /\ call'.decoded = call.decoded
           /\ call'.eos = call.eos \cup Zero \cup ends
           /\ call'.thinking = call.thinking \ closed
           /\ call'.clash = call.clash \cup (ends \cap Caught)
           /\ Len(call'.saved) = size /\ Len(call'.rewind) = size
           /\ ends \subseteq Open
           /\ \A j \in Requests :
                /\ call'.saved[j] = IF j \in Zero \cup ends THEN slots[Slot(j)]
                                                           ELSE call.saved[j]
                /\ call'.rewind[j] = IF j \in Caught THEN {slots[Slot(j)]}
                                     ELSE IF j \in Open \ call.thinking THEN {}
                                     ELSE call.rewind[j]
<1> DEFINE sv == [j \in Requests |-> IF j \in Zero \cup ends THEN slots[Slot(j)]
                                                             ELSE call.saved[j]]
<1> DEFINE rw == [j \in Requests |-> IF j \in Caught THEN {slots[Slot(j)]}
                                     ELSE IF j \in Open \ call.thinking THEN {}
                                     ELSE call.rewind[j]]
<1>0. /\ call \in Calls /\ Requests = 1 .. size /\ size \in Nat
      /\ Decoding /\ Len(call.saved) = size /\ Len(call.rewind) = size
      /\ call.saved \in Seq(State) /\ call.rewind \in Seq(SUBSET State)
      /\ call.eos \subseteq Requests
  BY CallFields DEF ShapeInv, TypeOK, CallShape, DetectEnds, Decoding, Prefilled
<1>1. /\ ends \subseteq Open
      /\ call' = [call EXCEPT !.eos = call.eos \cup Zero \cup ends,
                              !.clash = call.clash \cup (ends \cap Caught),
                              !.thinking = call.thinking \ closed,
                              !.saved = sv, !.rewind = rw]
  BY DEF DetectEnds, Here, Zero, Open, Caught
<1>2. Zero \subseteq Here /\ Open \subseteq Here /\ Caught \subseteq Here /\ Here \subseteq Requests
  BY DEF Here, Zero, Open, Caught
<1>3. \A j \in Here : slots[Slot(j)] \in State
  BY <1>0, SlotUsed DEF Here
<1>4. sv \in Seq(State) /\ Len(sv) = size
  <2>1. sv \in [1 .. size -> State]
    BY <1>0, <1>1, <1>2, <1>3
  <2> HIDE DEF sv
  <2> QED BY <1>0, <2>1, RowIsSeq
<1>5. rw \in Seq(SUBSET State) /\ Len(rw) = size
  <2>1. rw \in [1 .. size -> SUBSET State]
    BY <1>0, <1>2, <1>3
  <2> HIDE DEF rw
  <2> QED BY <1>0, <2>1, RowIsSeq
<1>6. \A j \in Requests :
        /\ sv[j] = IF j \in Zero \cup ends THEN slots[Slot(j)] ELSE call.saved[j]
        /\ rw[j] = IF j \in Caught THEN {slots[Slot(j)]}
                   ELSE IF j \in Open \ call.thinking THEN {} ELSE call.rewind[j]
  OBVIOUS
<1> HIDE DEF sv, rw
<1>7. /\ call.eos \cup Zero \cup ends \in SUBSET Nat
      /\ call.thinking \ closed \in SUBSET Nat
      /\ call.clash \cup (ends \cap Caught) \in SUBSET Nat
  BY <1>0, <1>1, <1>2 DEF Calls
<1>8. call' \in Calls
  BY <1>0, <1>1, <1>4, <1>5, <1>7 DEF Calls
<1>9. /\ call'.texts = call.texts /\ call'.think = call.think /\ call'.nodes = call.nodes
      /\ call'.cur = call.cur /\ call'.round = call.round
      /\ call'.base = call.base /\ call'.resp = call.resp
      /\ call'.active = call.active /\ call'.decoded = call.decoded
      /\ call'.eos = call.eos \cup Zero \cup ends
      /\ call'.thinking = call.thinking \ closed
      /\ call'.clash = call.clash \cup (ends \cap Caught)
      /\ call'.saved = sv /\ call'.rewind = rw
  BY <1>0, <1>1 DEF Calls
<1>10. size' = size /\ Requests' = Requests
  BY <1>9 DEF size, Requests
<1> QED BY <1>1, <1>4, <1>5, <1>6, <1>8, <1>9, <1>10

\* What a compaction leaves alone.
ResponsesStay ==
    /\ size' = size /\ Requests' = Requests
    /\ call'.think = call.think /\ call'.nodes = call.nodes
    /\ call'.cur = call.cur /\ call'.round = call.round
    /\ call'.base = call.base /\ call'.resp = call.resp
    /\ call'.saved = call.saved /\ call'.rewind = call.rewind
    /\ call'.eos = call.eos /\ call'.thinking = call.thinking
    /\ call'.clash = call.clash

\* The batch is what is left.
Shrunk(left) ==
    /\ Shrinks(left) /\ slots' = MovedStates(left)
    /\ call'.active = left /\ Len(call'.decoded) = Len(left)
    /\ call'.logits = MovedLogits(left)
    /\ \A k \in DOMAIN left : call'.decoded[k] = Sampled(left[k])

\* A row is a row of logits, known or not.
LEMMA RowTyped ==
    ASSUME call \in Calls, NEW k
    PROVE  Row(k) \in Logits
<1>1. NoLogits \in Logits
  BY DEF NoLogits, Logits, State
<1>2. call.logits \in Seq(Logits)
  BY DEF Calls
<1> QED BY <1>1, <1>2 DEF Row

\* What is moved in the buffer are rows, and the tree stays one where the
\* buffer is that of a node.
LEMMA MovedRows ==
    ASSUME ShapeInv, NEW left \in Seq(Requests), left # << >>
    PROVE  /\ MovedLogits(left) \in Seq(Logits)
           /\ IsTree(Overwritten(MovedLogits(left)))
           /\ DOMAIN Overwritten(MovedLogits(left)) = DOMAIN tree
<1> DEFINE rows == [k \in 1 .. Len(left) |-> Row(Slot(left[k]))]
           rest == SubSeq(call.logits, Len(left) + 1, Len(call.logits))
           moved == MovedLogits(left)
           u == Overwritten(moved)
<1>1. /\ call \in Calls /\ call.logits \in Seq(Logits) /\ IsTree(tree)
      /\ Len(left) \in Nat \ {0} /\ Len(call.logits) \in Nat
  BY DEF ShapeInv, TypeOK, Calls
<1>2. rows \in Seq(Logits) /\ Len(rows) = Len(left) /\ rows # << >>
  <2>1. rows \in [1 .. Len(left) -> Logits]
    BY <1>1, RowTyped
  <2> HIDE DEF rows
  <2> QED BY <1>1, <2>1, RowIsSeq
<1>3. rest \in Seq(Logits)
  <2>1. /\ Len(left) + 1 \in Nat \ {0} /\ Len(call.logits) \in Int
        /\ \A i \in Len(left) + 1 .. Len(call.logits) : call.logits[i] \in Logits
    BY <1>1
  <2> QED BY <2>1, SubSeqProperties
<1>4. moved = rows \o rest
  BY DEF MovedLogits
<1> HIDE DEF rows, rest, moved
<1>5. moved \in Seq(Logits) /\ moved[1] \in Logits
  <2>1. moved \in Seq(Logits) /\ Len(moved) = Len(rows) + Len(rest)
    BY <1>2, <1>3, <1>4, ConcatProperties
  <2>2. 1 \in 1 .. Len(moved)
    BY <1>1, <1>2, <1>3, <2>1
  <2> QED BY <2>1, <2>2
<1>6. DOMAIN u = DOMAIN tree
  BY DEF Overwritten
<1>7. ASSUME NEW c \in DOMAIN tree
      PROVE  /\ u[c] \in Node /\ u[c].anc = tree[c].anc /\ u[c].ids = tree[c].ids
             /\ u[c].state = tree[c].state /\ u[c].const = tree[c].const
  <2>1. tree[c] \in Node
    BY <1>1 DEF IsTree
  <2>2. u[c] = tree[c] \/ u[c] = [tree[c] EXCEPT !.logits = moved[1]]
    BY DEF Overwritten
  <2> HIDE DEF u
  <2> QED BY <1>5, <2>1, <2>2 DEF Node
<1>8. u = [c \in DOMAIN tree |-> u[c]]
  BY DEF Overwritten
<1> HIDE DEF u
<1>9. u \in [DOMAIN u -> Node]
  BY <1>6, <1>7, <1>8
<1>10. IsTree(u)
  BY <1>1, <1>6, <1>7, <1>9 DEF IsTree
<1> QED BY <1>5, <1>6, <1>10 DEF u, moved

LEMMA CompactEffect ==
    ASSUME ShapeInv, Compact
    PROVE  /\ call' \in Calls /\ ResponsesStay
           /\ IsTree(tree') /\ DOMAIN tree' = DOMAIN tree
           /\ \E left \in Seq(Requests) :
                /\ IsLeft(left)
                /\ Shrunk(left) \/ (~ Shrinks(left) /\ UNCHANGED <<slots, call>>)
<1>0. /\ call \in Calls /\ Requests = 1 .. size /\ size \in Nat
      /\ Decoding /\ \A j \in Requests \ call.eos : InBatch(j)
  BY CallFields DEF ShapeInv, TypeOK, CallShape, Compact, Decoding, Placed
<1>a. PICK n \in 0 .. size : \E left \in [1 .. n -> Requests] :
         /\ IsLeft(left)
         /\ IF Shrinks(left)
            THEN /\ slots' = MovedStates(left)
                 /\ tree' = Overwritten(MovedLogits(left))
                 /\ call' = [call EXCEPT !.decoded = MovedTokens(left),
                                         !.logits = MovedLogits(left), !.active = left]
            ELSE UNCHANGED <<tree, slots, call>>
  BY DEF Compact
<1>1. PICK left \in [1 .. n -> Requests] :
         /\ IsLeft(left)
         /\ IF Shrinks(left)
            THEN /\ slots' = MovedStates(left)
                 /\ tree' = Overwritten(MovedLogits(left))
                 /\ call' = [call EXCEPT !.decoded = MovedTokens(left),
                                         !.logits = MovedLogits(left), !.active = left]
            ELSE UNCHANGED <<tree, slots, call>>
  BY <1>a
<1>2. left \in Seq(Requests) /\ Len(left) = n /\ left \in Seq(Nat) /\ n \in Nat
  <2>1. n \in Nat /\ left \in [1 .. n -> Nat]
    BY <1>0
  <2> QED BY <2>1, RowIsSeq
<1>3. CASE ~ Shrinks(left)
  <2>1. UNCHANGED <<tree, slots, call>>
    BY <1>1, <1>3
  <2>2. IsTree(tree)
    BY DEF ShapeInv, TypeOK
  <2> QED BY <1>0, <1>1, <1>2, <1>3, <2>1, <2>2 DEF ResponsesStay, size, Requests
<1>4. CASE Shrinks(left)
  <2> DEFINE new == MovedTokens(left)
             rows == MovedLogits(left)
  <2>1. /\ slots' = MovedStates(left) /\ tree' = Overwritten(rows)
        /\ call' = [call EXCEPT !.decoded = new, !.logits = rows, !.active = left]
    BY <1>1, <1>4
  <2>a. rows \in Seq(Logits) /\ IsTree(tree') /\ DOMAIN tree' = DOMAIN tree
    <3>1. Len(left) \in 1 .. Len(call.active) - 1
      BY <1>4 DEF Shrinks
    <3>2. left # << >>
      BY <3>1
    <3> QED BY <1>2, <2>1, <3>2, MovedRows
  <2>2. \A k \in 1 .. n : Sampled(left[k]) \in Token
    <3> SUFFICES ASSUME NEW k \in 1 .. n PROVE Sampled(left[k]) \in Token
      OBVIOUS
    <3>1. left[k] \in Requests \ call.eos
      BY <1>1, <1>2 DEF IsLeft
    <3> QED BY <1>0, <3>1, SlotUsed
  <2>3. new = [k \in 1 .. n |-> Sampled(left[k])]
    BY <1>2 DEF MovedTokens
  <2>4. new \in [1 .. n -> Token]
    BY <2>2, <2>3
  <2>5. new \in Seq(Token) /\ Len(new) = n
    <3> HIDE DEF new
    <3> QED BY <1>2, <2>4, RowIsSeq
  <2> HIDE DEF new, rows
  <2>6. call' \in Calls
    BY <1>0, <1>2, <2>1, <2>a, <2>5 DEF Calls
  <2>7. /\ call'.texts = call.texts /\ call'.think = call.think /\ call'.nodes = call.nodes
        /\ call'.cur = call.cur /\ call'.round = call.round
        /\ call'.base = call.base /\ call'.resp = call.resp
        /\ call'.saved = call.saved /\ call'.rewind = call.rewind
        /\ call'.eos = call.eos /\ call'.thinking = call.thinking
        /\ call'.clash = call.clash
        /\ call'.active = left /\ call'.decoded = new /\ call'.logits = rows
    BY <1>0, <2>1 DEF Calls
  <2>8. DOMAIN left = 1 .. n
    OBVIOUS
  <2>9. Shrunk(left)
    BY <1>2, <1>4, <2>1, <2>3, <2>5, <2>7, <2>8 DEF Shrunk, rows
  <2>10. ResponsesStay
    BY <2>7 DEF ResponsesStay, size, Requests
  <2> QED BY <1>1, <1>2, <2>a, <2>6, <2>9, <2>10
<1> QED BY <1>3, <1>4

\* In a round every slot of the batch is fed its token, and every request that
\* has not ended gets a token more.
RoundFed ==
    /\ slots' = [k \in SlotIds |-> IF k \in DOMAIN call.active
                                   THEN slots[k] \o AsText(<<call.decoded[k]>>)
                                   ELSE slots[k]]
    /\ \A j \in Requests : call'.resp[j] = IF j \in call.eos THEN call.resp[j]
                                           ELSE Append(call.resp[j], Sampled(j))

LEMMA FedSlots ==
    ASSUME ShapeInv, Decoding, NEW S \in SUBSET DOMAIN call.active, FeedSlots(S),
           UNCHANGED supported
    PROVE  (slots \in [SlotIds -> State])'
<1>1. /\ call.decoded \in Seq(Token) /\ Len(call.decoded) = Len(call.active)
      /\ call.active \in Seq(Requests) /\ slots \in [SlotIds -> State]
  BY DEF ShapeInv, TypeOK, Calls
<1>2. ASSUME NEW k \in SlotIds, k \in S
      PROVE  slots[k] \o AsText(<<call.decoded[k]>>) \in State
  <2>1. call.decoded[k] \in Token
    <3>1. k \in 1 .. Len(call.active)
      BY <1>1, <1>2
    <3> QED BY <1>1, <3>1
  <2>2. <<call.decoded[k]>> \in Seq(Token) /\ slots[k] \in State
    BY <1>1, <2>1
  <2> QED BY <2>2, Fed
<1>3. slots' \in [SlotIds -> State]
  BY <1>1, <1>2 DEF FeedSlots
<1> QED BY <1>3 DEF SlotIds

LEMMA RoundEffect ==
    ASSUME ShapeInv, NEW next \in [DOMAIN call.active -> Token], EvalRound(next)
    PROVE  /\ call' \in Calls /\ size' = size /\ Requests' = Requests
           /\ RoundFed /\ (slots \in [SlotIds -> State])'
           /\ call'.think = call.think /\ call'.nodes = call.nodes
           /\ call'.cur = call.cur /\ call'.round = call.round + 1
           /\ call'.base = call.base /\ call'.saved = call.saved
           /\ call'.rewind = call.rewind
           /\ call'.eos = call.eos /\ call'.thinking = call.thinking
           /\ call'.clash = call.clash
           /\ call'.active = call.active /\ Len(call'.decoded) = Len(call.active)
           /\ Len(call'.resp) = size
<1> DEFINE rs == [j \in Requests |-> IF j \in call.eos THEN call.resp[j]
                                     ELSE Append(call.resp[j], Sampled(j))]
<1> DEFINE lg == [k \in DOMAIN call.active |-> LogitsAfter(slots'[k])]
<1>0. /\ call \in Calls /\ Requests = 1 .. size /\ size \in Nat
      /\ Decoding /\ \A j \in Requests \ call.eos : InBatch(j)
      /\ call.resp \in Seq(Seq(Token)) /\ Len(call.resp) = size
      /\ call.active \in Seq(Requests)
      /\ call.round \in 0 .. MaxLength /\ call.round < MaxLength
  BY CallFields DEF ShapeInv, CallShape, TypeOK, EvalRound, Decoding, Placed
<1>1. /\ FeedSlots(DOMAIN call.active) /\ UNCHANGED supported
      /\ call' = [call EXCEPT !.resp = rs, !.decoded = next, !.logits = lg,
                              !.cached = {}, !.round = @ + 1]
  BY DEF EvalRound
<1>2. rs \in Seq(Seq(Token)) /\ Len(rs) = size
  <2>1. \A j \in Requests \ call.eos : Sampled(j) \in Token
    BY <1>0, SlotUsed
  <2>2. \A j \in Requests : call.resp[j] \in Seq(Token)
    BY <1>0
  <2>3. \A j \in Requests \ call.eos : Append(call.resp[j], Sampled(j)) \in Seq(Token)
    BY <2>1, <2>2
  <2>4. rs \in [1 .. size -> Seq(Token)]
    BY <1>0, <2>2, <2>3
  <2> HIDE DEF rs
  <2> QED BY <1>0, <2>4, RowIsSeq
<1>3. next \in Seq(Token) /\ Len(next) = Len(call.active)
  <2>1. DOMAIN call.active = 1 .. Len(call.active) /\ Len(call.active) \in Nat
    BY <1>0
  <2>2. next \in [1 .. Len(call.active) -> Token]
    BY <2>1
  <2> QED BY <2>1, <2>2, RowIsSeq
<1>4. \A j \in Requests : rs[j] = IF j \in call.eos THEN call.resp[j]
                                   ELSE Append(call.resp[j], Sampled(j))
  OBVIOUS
<1>9. (slots \in [SlotIds -> State])'
  BY <1>0, <1>1, FedSlots
<1>a. lg \in Seq(Logits)
  <2>1. Len(call.active) \in Nat /\ DOMAIN call.active = 1 .. Len(call.active)
    BY <1>0
  <2>2. \A k \in DOMAIN call.active : k \in SlotIds
    <3>1. supported \in Backends /\ Len(call.active) \in supported
      BY <1>0 DEF ShapeInv, TypeOK
    <3>2. Max(supported) \in Nat /\ Len(call.active) \in 1 .. Max(supported)
      BY <3>1, SlotFacts DEF SlotIds
    <3> QED BY <2>1, <3>2 DEF SlotIds
  <2>3. \A k \in DOMAIN call.active : slots'[k] \in State
    <3>1. SlotIds' = SlotIds
      BY <1>1 DEF SlotIds
    <3> QED BY <1>9, <2>2, <3>1
  <2>4. lg \in [1 .. Len(call.active) -> Logits]
    BY <2>1, <2>3 DEF LogitsAfter, Logits
  <2> HIDE DEF lg
  <2> QED BY <2>1, <2>4, RowIsSeq
<1> HIDE DEF rs, lg
<1>5. call.round + 1 \in 0 .. MaxLength
  BY <1>0, BatchAssumption
<1>6. call' \in Calls
  BY <1>0, <1>1, <1>2, <1>3, <1>a, <1>5 DEF Calls
<1>7. /\ call'.texts = call.texts /\ call'.think = call.think /\ call'.nodes = call.nodes
      /\ call'.cur = call.cur /\ call'.round = call.round + 1
      /\ call'.base = call.base /\ call'.saved = call.saved
      /\ call'.rewind = call.rewind /\ call'.eos = call.eos
      /\ call'.thinking = call.thinking /\ call'.active = call.active
      /\ call'.clash = call.clash
      /\ call'.decoded = next /\ call'.resp = rs
  BY <1>0, <1>1 DEF Calls
<1>8. RoundFed
  BY <1>1, <1>4, <1>7 DEF RoundFed, FeedSlots
<1> QED BY <1>2, <1>3, <1>6, <1>7, <1>8, <1>9 DEF size, Requests

\* What is registered is the kept response and its state.
LEMMA SaveEffect ==
    ASSUME ShapeInv, SaveStates, pc' = "register"
    PROVE  /\ call' \in Calls /\ size' = size /\ Requests' = Requests
           /\ call'.think = call.think /\ call'.nodes = call.nodes
           /\ call'.cur = 1 /\ call'.base = call.base
           /\ call'.rewind = call.rewind /\ call'.active = call.active
           /\ call'.eos = call.eos /\ call'.thinking = call.thinking
           /\ call'.clash = call.clash
           /\ Len(call'.saved) = size /\ Len(call'.resp) = size /\ size >= 1
           /\ \A j \in Requests : /\ call'.saved[j] = KeptState(j)
                                  /\ call'.resp[j] = KeptResponse(j)
<1> DEFINE sv == [j \in Requests |-> KeptState(j)]
<1> DEFINE rs == [j \in Requests |-> KeptResponse(j)]
<1>0. /\ call \in Calls /\ Requests = 1 .. size /\ size \in Nat
      /\ call.resp \in Seq(Seq(Token)) /\ Len(call.resp) = size
      /\ call.rewind \in Seq(SUBSET State) /\ Len(call.rewind) = size
      /\ call.saved \in Seq(State) /\ Len(call.saved) = size
      /\ size >= 1
  <2>1. pc = "save"
    BY DEF SaveStates
  <2>2. size \in supported /\ supported \subseteq Nat \ {0}
    BY <2>1, BatchAssumption DEF ShapeInv, CallShape, TypeOK
  <2> QED BY <2>1, <2>2, CallFields DEF ShapeInv, CallShape, TypeOK, Prefilled
<1>1. call' = [call EXCEPT !.cur = 1, !.saved = sv, !.resp = rs]
  BY DEF SaveStates
<1>2. sv \in Seq(State) /\ Len(sv) = size
  <2>1. ASSUME NEW j \in Requests PROVE KeptState(j) \in State
    <3>1. call.saved[j] \in State /\ call.rewind[j] \in SUBSET State
      BY <1>0
    <3>2. CASE call.rewind[j] = {}
      BY <3>1, <3>2 DEF KeptState
    <3>3. CASE call.rewind[j] # {}
      <4>1. (CHOOSE st \in call.rewind[j] : TRUE) \in call.rewind[j]
        BY <3>3
      <4> QED BY <3>1, <3>3, <4>1 DEF KeptState
    <3> QED BY <3>2, <3>3
  <2>2. sv \in [1 .. size -> State]
    BY <1>0, <2>1
  <2> HIDE DEF sv
  <2> QED BY <1>0, <2>2, RowIsSeq
<1>3. rs \in Seq(Seq(Token)) /\ Len(rs) = size
  <2>1. ASSUME NEW j \in Requests PROVE KeptResponse(j) \in Seq(Token)
    <3>1. call.resp[j] \in Seq(Token)
      BY <1>0
    <3>2. \A i \in 1 .. Len(call.resp[j]) - 1 : call.resp[j][i] \in Token
      BY <3>1
    <3>3. SubSeq(call.resp[j], 1, Len(call.resp[j]) - 1) \in Seq(Token)
      <4>1. Len(call.resp[j]) - 1 \in Int
        BY <3>1
      <4> QED BY <3>2, <4>1, SubSeqProperties
    <3> QED BY <3>1, <3>3 DEF KeptResponse
  <2>2. rs \in [1 .. size -> Seq(Token)]
    BY <1>0, <2>1
  <2> HIDE DEF rs
  <2> QED BY <1>0, <2>2, RowIsSeq
<1>4. \A j \in Requests : sv[j] = KeptState(j) /\ rs[j] = KeptResponse(j)
  OBVIOUS
<1> HIDE DEF sv, rs
<1>5. call' \in Calls
  BY <1>0, <1>1, <1>2, <1>3 DEF Calls
<1>6. /\ call'.texts = call.texts /\ call'.think = call.think /\ call'.nodes = call.nodes
      /\ call'.cur = 1 /\ call'.base = call.base
      /\ call'.rewind = call.rewind /\ call'.active = call.active
      /\ call'.eos = call.eos /\ call'.thinking = call.thinking
      /\ call'.clash = call.clash
      /\ call'.saved = sv /\ call'.resp = rs
  BY <1>0, <1>1 DEF Calls
<1> QED BY <1>0, <1>2, <1>3, <1>4, <1>5, <1>6 DEF size, Requests


\* A registration changes the tree and which request is next.
LEMMA RegisterEffect ==
    ASSUME ShapeInv, RegisterRequest
    PROVE  /\ IsTree(tree') /\ call'.nodes \in Seq(DOMAIN tree')
           /\ call' \in Calls /\ call'.texts = call.texts /\ call'.think = call.think
           /\ call'.nodes = call.nodes /\ call'.saved = call.saved
           /\ call'.base = call.base /\ call'.resp = call.resp
           /\ call'.rewind = call.rewind /\ call'.eos = call.eos
           /\ call'.thinking = call.thinking /\ call'.active = call.active
           /\ call'.clash = call.clash
           /\ size' = size /\ Requests' = Requests
           /\ \/ pc' = "register" /\ call'.cur = call.cur + 1 /\ call.cur < size
              \/ pc' = "cleanup"
<1>0. /\ call \in Calls /\ Requests = 1 .. size /\ size \in Nat
      /\ pc = "register" /\ call.cur \in 1 .. size
      /\ Len(call.nodes) = size /\ Len(call.saved) = size
      /\ size \in supported /\ supported \in Backends
      /\ slots \in [SlotIds -> State] /\ IsTree(tree)
      /\ call.nodes \in Seq(DOMAIN tree) /\ call.nodes \in Seq(Nat)
  BY CallFields
     DEF ShapeInv, TypeOK, CallShape, RegisterRequest, Prefilled
<1> DEFINE j == call.cur
<1> DEFINE n == call.nodes[j]
<1> DEFINE node == NewChild(tree, n, call.resp[j], call.saved[j], Row(j))
<1> DEFINE t == Counted(tree, SameIds(tree, n, call.resp[j]))
<1>1. PICK m \in FreshIds(tree) : tree' = AddNode(t, m, node)
  BY DEF RegisterRequest
<1>2. node \in Node
  <2>1. n \in DOMAIN tree
    BY <1>0
  <2>2. call.resp[j] \in Seq(Token)
    BY <1>0, CallFields
  <2>3. call.saved[j] \in State
    BY <1>0, CallFields
  <2>5. Row(j) \in Logits
    BY <1>0, RowTyped
  <2> HIDE DEF n, j
  <2> QED BY <1>0, <2>1, <2>2, <2>3, <2>5, NewNode
<1>3. IsTree(t) /\ DOMAIN t = DOMAIN tree
  BY <1>0, CountedTree
<1> HIDE DEF j, n, node, t
<1>4. m \in FreshIds(t)
  BY <1>3 DEF FreshIds
<1>5. IsTree(tree') /\ Adds(t, tree', m, node)
  BY <1>1, <1>2, <1>3, <1>4, AddNodeAdds
<1>6. DOMAIN tree \subseteq DOMAIN tree'
  BY <1>3, <1>5 DEF Adds
<1>7. call.nodes \in Seq(DOMAIN tree')
  BY <1>0, <1>6
<1>8. CASE call.cur < size
  <2>1. call' = [call EXCEPT !.cur = @ + 1] /\ pc' = "register"
    BY <1>0, <1>8 DEF RegisterRequest
  <2>2. call' \in Calls
    <3>1. call.cur + 1 \in Nat
      BY <1>0
    <3> QED BY <1>0, <2>1, <3>1 DEF Calls
  <2>3. /\ call'.texts = call.texts /\ call'.think = call.think
        /\ call'.nodes = call.nodes /\ call'.saved = call.saved
        /\ call'.base = call.base /\ call'.resp = call.resp
        /\ call'.rewind = call.rewind /\ call'.eos = call.eos
        /\ call'.thinking = call.thinking /\ call'.active = call.active
        /\ call'.clash = call.clash
        /\ call'.cur = call.cur + 1
    BY <1>0, <2>1 DEF Calls
  <2> QED BY <1>5, <1>7, <1>8, <2>1, <2>2, <2>3 DEF size, Requests
<1>9. CASE ~ call.cur < size
  <2>1. call' = call /\ pc' = "cleanup"
    BY <1>0, <1>9 DEF RegisterRequest
  <2> QED BY <1>0, <1>5, <1>7, <2>1 DEF size, Requests
<1> QED BY <1>8, <1>9

-----------------------------------------------------------------------------
(* Types, and what a call has set up at each of its steps. *)

LEMMA ShapeInit == Init => ShapeInv
<1> SUFFICES ASSUME Init PROVE ShapeInv
  OBVIOUS
<1>1. supported \in Backends /\ pc = "idle" /\ call = NoCall /\ tree = EmptyTree
  BY DEF Init
<1>2. slots \in [SlotIds -> State]
  BY DEF Init, State
<1>3. IsTree(tree)
  <2> DEFINE r == [parent |-> Root, anc |-> {}, ids |-> << >>, state |-> << >>,
                   logits |-> ZeroLogits, cnt |-> ActivationInit, const |-> FALSE]
  <2>1. ZeroLogits \in Logits
    BY DEF ZeroLogits, Logits, State
  <2>2. r \in Node
    BY <2>1, ActivationAssumption DEF Node, Root, State
  <2>3. DOMAIN tree = {Root} /\ tree[Root] = r /\ tree \in [{Root} -> {r}]
    BY <1>1 DEF EmptyTree
  <2>4. r.anc = {} /\ r.ids = << >> /\ r.state = << >> /\ ~ r.const
    OBVIOUS
  <2>5. Root \in Nat
    BY DEF Root
  <2> HIDE DEF r
  <2>6. tree \in [DOMAIN tree -> Node]
    BY <2>2, <2>3
  <2> QED BY <2>3, <2>4, <2>5, <2>6 DEF IsTree
<1>4. size = 0 /\ ~ Decoding /\ call.nodes \in Seq(DOMAIN tree) /\ call.active \in Seq(Requests)
  BY <1>1, NoCallFacts DEF size, Decoding
<1>5. TypeOK
  BY <1>1, <1>2, <1>3, <1>4, NoCallFacts DEF TypeOK, Steps
<1>6. CallShape
  BY <1>1, <1>4, NoCallFacts DEF CallShape
<1> QED BY <1>5, <1>6 DEF ShapeInv

\* Slots change to states, or not at all.
LEMMA SlotsStay ==
    ASSUME ShapeInv, UNCHANGED <<slots, supported>>
    PROVE  (slots \in [SlotIds -> State])'
BY DEF ShapeInv, TypeOK, SlotIds

LEMMA ShapeStep == ShapeInv /\ [Next]_vars => ShapeInv'
<1> SUFFICES ASSUME ShapeInv, [Next]_vars PROVE ShapeInv'
  OBVIOUS
<1>0. /\ IsTree(tree) /\ supported \in Backends /\ slots \in [SlotIds -> State]
      /\ call \in Calls /\ call.nodes \in Seq(DOMAIN tree)
      /\ Len(call.resp) = size /\ Len(call.rewind) = size
      /\ call.eos \subseteq Requests /\ call.thinking \subseteq Requests
      /\ call.clash \subseteq call.eos
      /\ call.active \in Seq(Requests)
      /\ supported \subseteq Nat \ {0}
      /\ pc # "idle" => size \in supported
      /\ ~ call.think => call.thinking = {}
  BY BatchAssumption DEF ShapeInv, TypeOK, CallShape
<1>s. UNCHANGED supported => UNCHANGED SlotIds
  BY DEF SlotIds
<1>1. ASSUME NEW b \in supported, NEW think \in BOOLEAN, NEW ts \in [1 .. b -> Texts],
             StartBatch(ts, think)
      PROVE  ShapeInv'
  <2>1. ts \in Seq(Texts) /\ Len(ts) = b
    BY <1>0, RowIsSeq
  <2>2. /\ call' \in Calls /\ call'.texts = ts /\ call'.think = think
        /\ call'.cur = 1 /\ call'.nodes = << >> /\ call'.saved = << >>
        /\ call'.base = << >> /\ call'.decoded = << >> /\ call'.active = << >>
        /\ call'.eos = {} /\ call'.round = 0
        /\ call'.thinking = IF think THEN DOMAIN ts ELSE {}
        /\ call'.clash = {}
        /\ call'.resp = [j \in DOMAIN ts |-> << >>]
        /\ call'.rewind = [j \in DOMAIN ts |-> {}]
        /\ size' = Len(ts) /\ Requests' = 1 .. Len(ts)
    BY <1>1, <2>1, StartEffect
  <2>3. pc' = "match" /\ UNCHANGED <<tree, supported, slots>>
    BY <1>1 DEF StartBatch
  <2>4. size' \in Nat \ {0} /\ size' \in supported'
    BY <1>0, <2>1, <2>2, <2>3
  <2>5. DOMAIN ts = 1 .. b
    OBVIOUS
  <2>6. Len(call'.resp) = size' /\ Len(call'.rewind) = size'
    <3>1. /\ call'.resp \in Seq(Seq(Token)) /\ call'.rewind \in Seq(SUBSET State)
          /\ DOMAIN call'.resp = 1 .. b /\ DOMAIN call'.rewind = 1 .. b
      BY <2>2, <2>5 DEF Calls
    <3> QED BY <2>1, <2>2, <3>1
  <2>7. /\ call'.nodes \in Seq(DOMAIN tree') /\ call'.active \in Seq(Requests')
        /\ call'.eos \subseteq Requests' /\ call'.thinking \subseteq Requests'
        /\ call'.clash \subseteq call'.eos
    BY <2>1, <2>2, <2>5
  <2>8. ~ Decoding'
    BY <2>3 DEF Decoding
  <2>9. TypeOK'
    BY <1>0, <1>s, <2>2, <2>3, <2>6, <2>7, <2>8 DEF TypeOK, Steps
  <2>10. Prefilling'
    BY <2>1, <2>2, <2>3, <2>4, <2>5 DEF Prefilling
  <2>11. CallShape'
    BY <2>2, <2>3, <2>4, <2>8, <2>10 DEF CallShape
  <2> QED BY <2>9, <2>11 DEF ShapeInv
<1>2. CASE MatchRequest
  <2>1. call' \in Calls /\ GeneratedStays
    BY <1>2, MatchEffect
  <2>2. PICK n \in DOMAIN tree :
          /\ call'.nodes = Append(call.nodes, n)
          /\ tree' = Counted(tree, Path(tree, n))
          /\ slots' = [slots EXCEPT ![1] = tree[n].state]
    BY <1>2, MatchEffect
  <2>3. pc = "match" /\ pc' = "prefill" /\ UNCHANGED supported /\ Prefilling
    BY <1>2 DEF MatchRequest, ShapeInv, CallShape
  <2>4. IsTree(tree') /\ DOMAIN tree' = DOMAIN tree
    BY <1>0, <2>2, CountedTree
  <2>5. tree[n].state \in State
    <3>1. tree[n] \in Node
      BY <1>0 DEF IsTree
    <3> QED BY <3>1 DEF Node
  <2>6. (slots \in [SlotIds -> State])'
    BY <1>0, <1>s, <2>2, <2>3, <2>5
  <2>7. /\ call'.nodes \in Seq(DOMAIN tree') /\ Len(call'.nodes) = Len(call.nodes) + 1
    BY <1>0, <2>2, <2>4
  <2>8. ~ Decoding' /\ Len(call.nodes) = call.cur - 1 /\ call.cur \in 1 .. size /\ size \in Nat
    BY <2>3, CallFields DEF Decoding, Prefilling
  <2>9. TypeOK'
    BY <1>0, <2>1, <2>3, <2>4, <2>6, <2>7, <2>8 DEF TypeOK, Steps, GeneratedStays
  <2>10. Prefilling'
    BY <2>1, <2>3, <2>7, <2>8 DEF Prefilling, GeneratedStays
  <2>11. CallShape'
    BY <1>0, <2>1, <2>3, <2>8, <2>10 DEF CallShape, GeneratedStays
  <2> QED BY <2>9, <2>11 DEF ShapeInv
<1>3. CASE PrefillChunk
  <2>1. /\ call' \in Calls /\ GeneratedStays
        /\ call'.nodes \in Seq(DOMAIN tree') /\ Len(call'.nodes) = Len(call.nodes)
        /\ IsTree(tree') /\ (slots \in [SlotIds -> State])'
    BY <1>3, ChunkEffect
  <2>2. pc = "prefill" /\ pc' = "prefill" /\ UNCHANGED supported /\ Prefilling
    BY <1>3 DEF PrefillChunk, ShapeInv, CallShape
  <2>3. ~ Decoding'
    BY <2>2 DEF Decoding
  <2>4. TypeOK'
    BY <1>0, <2>1, <2>2, <2>3 DEF TypeOK, Steps, GeneratedStays
  <2>5. Prefilling'
    BY <2>1, <2>2 DEF Prefilling, GeneratedStays
  <2>6. CallShape'
    BY <1>0, <2>1, <2>2, <2>3, <2>5 DEF CallShape, GeneratedStays
  <2> QED BY <2>4, <2>6 DEF ShapeInv
<1>4. ASSUME NEW tok \in Token, FirstToken(tok) PROVE ShapeInv'
  <2>1. /\ call' \in Calls /\ size' = size /\ Requests' = Requests
        /\ call'.think = call.think /\ call'.nodes = call.nodes
        /\ call'.resp = call.resp /\ call'.rewind = call.rewind
        /\ call'.eos = call.eos /\ call'.thinking = call.thinking
        /\ call'.clash = call.clash
        /\ call'.round = call.round
        /\ call'.saved = Append(call.saved, slots[1])
        /\ call'.base = Append(call.base, slots[1])
        /\ call'.decoded = Append(call.decoded, tok)
    BY <1>4, FirstTokenEffect
  <2>2. /\ pc = "prefill" /\ UNCHANGED <<tree, supported>> /\ Prefilling
        /\ size \in Nat /\ Requests = 1 .. size
        /\ call.decoded \in Seq(Token) /\ call.saved \in Seq(State)
        /\ call.base \in Seq(State)
    BY <1>4, CallFields DEF FirstToken, ShapeInv, CallShape
  <2>3. /\ Len(call'.saved) = call.cur /\ Len(call'.base) = call.cur
        /\ Len(call'.decoded) = call.cur /\ call'.base = call'.saved
        /\ Len(call'.nodes) = call.cur /\ call.cur \in 1 .. size
    BY <2>1, <2>2 DEF Prefilling
  <2>4. CASE /\ call.cur < size /\ pc' = "match" /\ UNCHANGED slots
             /\ call'.cur = call.cur + 1 /\ call'.active = call.active
    <3>1. ~ Decoding' /\ (slots \in [SlotIds -> State])'
      BY <2>2, <2>4, SlotsStay DEF Decoding
    <3>2. TypeOK'
      BY <1>0, <2>1, <2>2, <2>4, <3>1 DEF TypeOK, Steps
    <3>3. call'.cur \in 1 .. size' /\ call'.cur - 1 = call.cur
      BY <2>1, <2>2, <2>3, <2>4
    <3>4. Prefilling'
      BY <2>1, <2>2, <2>3, <2>4, <3>3 DEF Prefilling
    <3>5. CallShape'
      BY <1>0, <2>1, <2>2, <2>4, <3>1, <3>4 DEF CallShape
    <3> QED BY <3>2, <3>5 DEF ShapeInv
  <2>5. CASE /\ call.cur = size
             /\ pc' = IF MaxLength > 0 THEN "detect" ELSE "save"
             /\ call'.active = [k \in 1 .. size |-> k]
             /\ slots' = [k \in SlotIds |->
                            IF k <= size THEN call'.saved[k] ELSE slots[k]]
    <3>1. (slots \in [SlotIds -> State])'
      <4>1. call'.saved \in Seq(State)
        BY <2>1 DEF Calls
      <4>2. \A k \in SlotIds : k <= size => call'.saved[k] \in State
        <5>1. SlotIds \subseteq Nat \ {0}
          BY DEF SlotIds
        <5>2. Len(call'.saved) = size /\ size \in Nat
          BY <2>2, <2>3, <2>5
        <5>3. \A k \in 1 .. size : call'.saved[k] \in State
          BY <4>1, <5>2
        <5> QED BY <5>1, <5>2, <5>3
      <4> QED BY <1>0, <1>s, <2>2, <2>5, <4>2
    <3>2. /\ call'.active \in Seq(Requests') /\ Len(call'.active) = size
          /\ DOMAIN call'.active = 1 .. size /\ \A k \in 1 .. size : call'.active[k] = k
      <4>1. [k \in 1 .. size |-> k] \in [1 .. size -> Requests]
        BY <2>2
      <4> QED BY <2>1, <2>2, <2>5, <4>1, RowIsSeq
    <3>3. size \in supported
      BY <1>0, <2>2
    <3>4. TypeOK'
      BY <1>0, <2>1, <2>2, <2>3, <2>5, <3>1, <3>2, <3>3 DEF TypeOK, Steps
    <3>5. Prefilled'
      BY <2>1, <2>3, <2>5 DEF Prefilled
    <3>6. Placed'
      BY <2>1, <2>2, <3>2 DEF Placed, InBatch
    <3>7. Decoding' => call'.round < MaxLength
      <4>1. call.round = 0
        BY <2>2 DEF Prefilling
      <4> QED BY <2>1, <2>5, <4>1, BatchAssumption DEF Decoding
    <3>8. pc' \in {"detect", "save"}
      BY <2>5
    <3>9. CallShape'
      BY <1>0, <2>1, <2>2, <3>3, <3>5, <3>6, <3>7, <3>8 DEF CallShape
    <3> QED BY <3>4, <3>9 DEF ShapeInv
  <2> QED BY <1>4, <2>4, <2>5, FirstTokenEffect
<1>5. ASSUME NEW ends \in SUBSET Requests, NEW closed \in SUBSET Requests,
             DetectEnds(ends, closed)
      PROVE  ShapeInv'
  <2>1. /\ call' \in Calls /\ size' = size /\ Requests' = Requests
        /\ call'.think = call.think /\ call'.nodes = call.nodes
        /\ call'.cur = call.cur /\ call'.round = call.round
        /\ call'.base = call.base /\ call'.resp = call.resp
        /\ call'.active = call.active /\ call'.decoded = call.decoded
        /\ call'.eos = call.eos \cup Zero \cup ends
        /\ call'.thinking = call.thinking \ closed
        /\ call'.clash = call.clash \cup (ends \cap Caught)
        /\ Len(call'.saved) = size /\ Len(call'.rewind) = size
    BY <1>5, DetectEffect
  <2>2. /\ pc = "detect" /\ pc' = "compact" /\ UNCHANGED <<tree, supported, slots>>
    BY <1>5 DEF DetectEnds
  <2>3. Decoding /\ Decoding'
    BY <2>2 DEF Decoding
  <2>4. Zero \subseteq Requests /\ call'.clash \subseteq call'.eos
    BY <1>0, <2>1 DEF Zero, Here
  <2>5. Len(call.decoded) = Len(call.active) /\ Len(call.active) \in supported
    BY <2>3 DEF ShapeInv, TypeOK
  <2>6. TypeOK'
    BY <1>0, <1>s, <2>1, <2>2, <2>4, <2>5 DEF TypeOK, Steps
  <2>7. Prefilled /\ Placed /\ call.round < MaxLength
    BY <2>3 DEF ShapeInv, CallShape
  <2>8. Prefilled' /\ Placed' /\ call'.round < MaxLength
    BY <2>1, <2>7 DEF Prefilled, Placed, InBatch
  <2>9. CallShape'
    BY <1>0, <2>1, <2>2, <2>8 DEF CallShape
  <2> QED BY <2>6, <2>9 DEF ShapeInv
<1>6. CASE Compact
  <2>1. /\ call' \in Calls /\ ResponsesStay
        /\ IsTree(tree') /\ call'.nodes \in Seq(DOMAIN tree')
    <3>1. call'.nodes = call.nodes /\ DOMAIN tree' = DOMAIN tree
      BY <1>6, CompactEffect DEF ResponsesStay
    <3> QED BY <1>0, <1>6, <3>1, CompactEffect
  <2>2. pc = "compact" /\ pc' = "check" /\ UNCHANGED supported
    BY <1>6 DEF Compact
  <2>3. Decoding /\ Decoding'
    BY <2>2 DEF Decoding
  <2>4. /\ Len(call.decoded) = Len(call.active) /\ Len(call.active) \in supported
        /\ Prefilled /\ Placed /\ call.round < MaxLength
    BY <2>3 DEF ShapeInv, TypeOK, CallShape
  <2>5. Prefilled' /\ call'.round < MaxLength
    BY <2>1, <2>4 DEF Prefilled, ResponsesStay
  <2>6. PICK left \in Seq(Requests) :
          /\ IsLeft(left)
          /\ Shrunk(left) \/ (~ Shrinks(left) /\ UNCHANGED <<slots, call>>)
    BY <1>6, CompactEffect
  <2>7. CASE UNCHANGED <<slots, call>>
    <3>1. TypeOK'
      BY <1>0, <1>s, <2>1, <2>2, <2>4, <2>7 DEF TypeOK, Steps, ResponsesStay
    <3>2. Placed'
      BY <2>1, <2>4, <2>7 DEF Placed, InBatch, ResponsesStay
    <3>3. CallShape'
      BY <1>0, <2>1, <2>2, <2>5, <3>2 DEF CallShape, ResponsesStay
    <3> QED BY <3>1, <3>3 DEF ShapeInv
  <2>8. CASE Shrunk(left)
    <3>1. /\ Len(left) \in supported /\ slots' = MovedStates(left)
          /\ call'.active = left /\ Len(call'.decoded) = Len(left)
      BY <2>8 DEF Shrunk, Shrinks
    <3>2. (slots \in [SlotIds -> State])'
      <4>1. \A k \in DOMAIN left : slots[Slot(left[k])] \in State
        <5> SUFFICES ASSUME NEW k \in DOMAIN left PROVE slots[Slot(left[k])] \in State
          OBVIOUS
        <5>1. left[k] \in Requests \ call.eos
          BY <2>6 DEF IsLeft
        <5> QED BY <2>3, <2>4, <5>1, SlotUsed DEF Placed
      <4>2. \A k \in SlotIds : k <= Len(left) => k \in DOMAIN left
        <5>1. SlotIds \subseteq Nat \ {0} /\ DOMAIN left = 1 .. Len(left) /\ Len(left) \in Nat
          BY DEF SlotIds
        <5> QED BY <5>1
      <4> QED BY <1>0, <1>s, <2>2, <3>1, <4>1, <4>2 DEF MovedStates
    <3>3. TypeOK'
      BY <1>0, <2>1, <2>2, <3>1, <3>2 DEF TypeOK, Steps, ResponsesStay
    <3>4. \A i, k \in DOMAIN left : left[i] = left[k] => i = k
      <4>1. DOMAIN left \subseteq Nat /\ \A i \in DOMAIN left : left[i] \in Nat
        <5>1. call.texts \in Seq(Texts)
          BY CallFields
        <5>2. Requests \subseteq Nat
          BY <5>1 DEF Requests
        <5> QED BY <2>6, <5>2, NumberedSeq
      <4> QED BY <2>6, <4>1 DEF IsLeft
    <3>5. \A j \in Requests \ call.eos : \E k \in DOMAIN left : left[k] = j
      BY <2>6 DEF IsLeft
    <3>6. Placed'
      BY <2>1, <3>1, <3>4, <3>5 DEF Placed, InBatch, ResponsesStay
    <3>7. CallShape'
      BY <1>0, <2>1, <2>2, <2>5, <3>6 DEF CallShape, ResponsesStay
    <3> QED BY <3>3, <3>7 DEF ShapeInv
  <2> QED BY <2>6, <2>7, <2>8
<1>7. CASE LeaveLoop
  <2>1. pc = "check" /\ pc' = "save" /\ UNCHANGED <<tree, supported, slots, call>>
    BY <1>7 DEF LeaveLoop
  <2>2. Decoding /\ ~ Decoding'
    BY <2>1 DEF Decoding
  <2>3. size' = size /\ Requests' = Requests
    BY <2>1 DEF size, Requests
  <2>4. TypeOK'
    BY <1>0, <1>s, <2>1, <2>2, <2>3 DEF TypeOK, Steps
  <2>5. Prefilled'
    BY <2>1, <2>2, <2>3 DEF ShapeInv, CallShape, Prefilled
  <2>6. CallShape'
    BY <1>0, <2>1, <2>2, <2>3, <2>5 DEF CallShape
  <2> QED BY <2>4, <2>6 DEF ShapeInv
<1>8. ASSUME NEW next \in [DOMAIN call.active -> Token], EvalRound(next)
      PROVE  ShapeInv'
  <2>1. /\ call' \in Calls /\ size' = size /\ Requests' = Requests
        /\ (slots \in [SlotIds -> State])'
        /\ call'.think = call.think /\ call'.nodes = call.nodes
        /\ call'.round = call.round + 1
        /\ call'.base = call.base /\ call'.saved = call.saved
        /\ call'.rewind = call.rewind
        /\ call'.eos = call.eos /\ call'.thinking = call.thinking
        /\ call'.clash = call.clash
        /\ call'.active = call.active /\ Len(call'.decoded) = Len(call.active)
        /\ Len(call'.resp) = size
    BY <1>8, RoundEffect
  <2>2. /\ pc = "check" /\ UNCHANGED <<tree, supported>>
        /\ pc' = IF call.round + 1 < MaxLength THEN "detect" ELSE "save"
    BY <1>8 DEF EvalRound
  <2>3. Decoding /\ pc' \in {"detect", "save"}
    BY <2>2 DEF Decoding
  <2>4. Len(call.active) \in supported /\ Prefilled /\ Placed
    BY <2>3 DEF ShapeInv, TypeOK, CallShape
  <2>5. TypeOK'
    BY <1>0, <2>1, <2>2, <2>3, <2>4 DEF TypeOK, Steps
  <2>6. Prefilled' /\ Placed'
    BY <2>1, <2>4 DEF Prefilled, Placed, InBatch
  <2>7. Decoding' => call'.round < MaxLength
    BY <2>1, <2>2 DEF Decoding
  <2>8. CallShape'
    BY <1>0, <2>1, <2>2, <2>3, <2>6, <2>7 DEF CallShape
  <2> QED BY <2>5, <2>8 DEF ShapeInv
<1>9. CASE EvalFails
  <2>1. Return /\ UNCHANGED <<tree, supported>>
    BY <1>9 DEF EvalFails
  <2>2. (slots \in [SlotIds -> State])'
    <3>1. CASE /\ pc = "prefill"
               /\ \E j \in 0 .. Min({Len(call.pending), MaxChunk}) :
                    slots' = [slots EXCEPT ![1] = @ \o AsText(SubSeq(call.pending, 1, j))]
               /\ call.pending # << >>
      <4>1. PICK j \in 0 .. Min({Len(call.pending), MaxChunk}) :
              slots' = [slots EXCEPT ![1] = @ \o AsText(SubSeq(call.pending, 1, j))]
        BY <3>1
      <4>2. j \in Nat /\ j <= Len(call.pending) /\ call.pending \in Seq(Token)
        <5>1. Len(call.pending) \in Nat /\ MaxChunk \in Nat /\ call.pending \in Seq(Token)
          BY <1>0, BatchAssumption DEF Calls
        <5>2. \E x \in {Len(call.pending), MaxChunk} :
                \A y \in {Len(call.pending), MaxChunk} : x =< y
          BY <5>1
        <5>3. /\ Min({Len(call.pending), MaxChunk}) \in {Len(call.pending), MaxChunk}
              /\ \A y \in {Len(call.pending), MaxChunk} :
                   Min({Len(call.pending), MaxChunk}) =< y
          BY <5>2 DEF Min
        <5> QED BY <5>1, <5>3
      <4>3. SubSeq(call.pending, 1, j) \in Seq(Token)
        <5>1. \A i \in 1 .. j : call.pending[i] \in Token
          BY <4>2
        <5> QED BY <4>2, <5>1, SubSeqProperties
      <4>4. 1 \in SlotIds /\ slots[1] \in State
        BY <1>0, SlotFacts
      <4>5. slots[1] \o AsText(SubSeq(call.pending, 1, j)) \in State
        BY <4>3, <4>4, Fed
      <4> QED BY <1>0, <1>s, <2>1, <4>1, <4>5
    <3>2. CASE /\ pc = "check"
               /\ \E done \in SUBSET DOMAIN call.active : FeedSlots(done)
      <4>1. Decoding
        BY <3>2 DEF Decoding
      <4> QED BY <2>1, <3>2, <4>1, FedSlots
    <3> QED BY <1>9, <3>1, <3>2 DEF EvalFails
  <2> QED BY <1>0, <2>1, <2>2, ReturnShape
<1>10. CASE SaveStates
  <2>1. pc = "save" /\ UNCHANGED <<tree, supported, slots>>
    BY <1>10 DEF SaveStates
  <2>2. Prefilled
    BY <2>1 DEF ShapeInv, CallShape
  <2>3. CASE pc' = "cleanup" /\ UNCHANGED call
    <3>1. size' = size /\ Requests' = Requests /\ ~ Decoding'
      BY <2>3 DEF size, Requests, Decoding
    <3>2. TypeOK'
      BY <1>0, <1>s, <2>1, <2>3, <3>1 DEF TypeOK, Steps
    <3>3. CallShape'
      BY <1>0, <2>1, <2>3, <3>1 DEF CallShape
    <3> QED BY <3>2, <3>3 DEF ShapeInv
  <2>4. CASE pc' = "register"
    <3>1. /\ call' \in Calls /\ size' = size /\ Requests' = Requests
          /\ call'.think = call.think /\ call'.nodes = call.nodes
          /\ call'.cur = 1 /\ call'.base = call.base
          /\ call'.rewind = call.rewind /\ call'.active = call.active
          /\ call'.eos = call.eos /\ call'.thinking = call.thinking
          /\ call'.clash = call.clash
          /\ Len(call'.saved) = size /\ Len(call'.resp) = size /\ size >= 1
      BY <1>10, <2>4, SaveEffect
    <3>2. ~ Decoding'
      BY <2>4 DEF Decoding
    <3>3. TypeOK'
      BY <1>0, <1>s, <2>1, <2>4, <3>1, <3>2 DEF TypeOK, Steps
    <3>4. Prefilled'
      BY <2>2, <3>1 DEF Prefilled
    <3>5. call'.cur \in 1 .. size'
      BY <3>1, CallFields
    <3>6. CallShape'
      BY <1>0, <2>1, <2>4, <3>1, <3>2, <3>4, <3>5 DEF CallShape
    <3> QED BY <3>3, <3>6 DEF ShapeInv
  <2> QED BY <1>10, <2>3, <2>4 DEF SaveStates
<1>11. CASE RegisterRequest
  <2>1. /\ IsTree(tree') /\ call'.nodes \in Seq(DOMAIN tree')
        /\ call' \in Calls /\ call'.texts = call.texts /\ call'.think = call.think
        /\ call'.nodes = call.nodes /\ call'.saved = call.saved
        /\ call'.base = call.base /\ call'.resp = call.resp
        /\ call'.rewind = call.rewind /\ call'.eos = call.eos
        /\ call'.thinking = call.thinking /\ call'.active = call.active
        /\ call'.clash = call.clash
        /\ size' = size /\ Requests' = Requests
        /\ \/ pc' = "register" /\ call'.cur = call.cur + 1 /\ call.cur < size
           \/ pc' = "cleanup"
    BY <1>11, RegisterEffect
  <2>2. /\ pc = "register" /\ UNCHANGED <<supported, slots>>
        /\ call.cur \in 1 .. size /\ size \in Nat /\ Prefilled
    BY <1>11, CallFields DEF RegisterRequest, ShapeInv, CallShape
  <2>3. ~ Decoding' /\ pc' \in Steps
    BY <2>1 DEF Decoding, Steps
  <2>4. TypeOK'
    BY <1>0, <1>s, <2>1, <2>2, <2>3 DEF TypeOK
  <2>5. pc' = "register" => call'.cur \in 1 .. size'
    BY <2>1, <2>2
  <2>6. Prefilled'
    BY <2>1, <2>2 DEF Prefilled
  <2>7. CallShape'
    BY <1>0, <2>1, <2>2, <2>3, <2>5, <2>6 DEF CallShape
  <2> QED BY <2>4, <2>7 DEF ShapeInv
<1>12. CASE CleanupStateTree
  <2>1. Return /\ UNCHANGED <<supported, slots>> /\ tree' = Cleaned(tree)
    BY <1>12 DEF CleanupStateTree
  <2>2. (slots \in [SlotIds -> State])'
    BY <2>1, SlotsStay
  <2> QED BY <1>0, <2>1, <2>2, CleanedTree, ReturnShape
<1>13. CASE ClearState
  <2>1. /\ slots' = [k \in SlotIds |-> << >>] /\ pc = "idle"
        /\ UNCHANGED <<tree, supported, pc, call>>
    BY <1>13 DEF ClearState
  <2>2. (slots \in [SlotIds -> State])'
    BY <1>s, <2>1 DEF State
  <2>3. ~ Decoding' /\ size' = size /\ Requests' = Requests
    BY <2>1 DEF Decoding, size, Requests
  <2>4. TypeOK'
    BY <1>0, <2>1, <2>2, <2>3 DEF TypeOK, Steps
  <2>5. CallShape'
    BY <2>1, <2>3 DEF ShapeInv, CallShape
  <2> QED BY <2>4, <2>5 DEF ShapeInv
<1>14. CASE UNCHANGED vars
  <2>1. UNCHANGED <<tree, supported, slots, pc, call>>
    BY <1>14 DEF vars
  <2> QED BY <2>1 DEF ShapeInv, TypeOK, CallShape, SlotIds, Decoding, Prefilling,
                      Prefilled, Placed, InBatch, size, Requests
<1> QED BY <1>1, <1>2, <1>3, <1>4, <1>5, <1>6, <1>7, <1>8, <1>9, <1>10, <1>11, <1>12,
           <1>13, <1>14
        DEF Next

\* The types are right in every run, whatever the batches do.
THEOREM TypeCorrect == Spec => []TypeOK
<1>1. Init => ShapeInv
  BY ShapeInit
<1>2. ShapeInv /\ [Next]_vars => ShapeInv'
  BY ShapeStep
<1>3. ShapeInv => TypeOK
  BY DEF ShapeInv
<1> QED BY <1>1, <1>2, <1>3, PTL DEF Spec

-----------------------------------------------------------------------------
(* The slots follow their requests. *)

\* The steps that lead to a state in which the slots are in use.
LEMMA DecodingSteps ==
    ASSUME Next, Decoding'
    PROVE  \/ \E tok \in Token : FirstToken(tok) /\ pc' = "detect"
           \/ \E ends, closed \in SUBSET Requests : DetectEnds(ends, closed)
           \/ Compact
           \/ \E next \in [DOMAIN call.active -> Token] : EvalRound(next) /\ pc' = "detect"
<1>1. pc' \notin {"idle", "match", "prefill", "save", "register", "cleanup"}
  BY DEF Decoding
<1>2. ASSUME NEW b \in supported, NEW think \in BOOLEAN, NEW ts \in [1 .. b -> Texts],
             StartBatch(ts, think)
      PROVE  FALSE
  BY <1>1, <1>2 DEF StartBatch
<1>3. ~ MatchRequest /\ ~ PrefillChunk /\ ~ EvalFails /\ ~ CleanupStateTree
  BY <1>1 DEF MatchRequest, PrefillChunk, EvalFails, CleanupStateTree, Return
<1>4. ~ LeaveLoop /\ ~ SaveStates /\ ~ RegisterRequest /\ ~ ClearState
  BY <1>1 DEF LeaveLoop, SaveStates, RegisterRequest, ClearState
<1>5. ASSUME NEW tok \in Token, FirstToken(tok) PROVE pc' = "detect"
  BY <1>1, <1>5 DEF FirstToken
<1>6. ASSUME NEW next \in [DOMAIN call.active -> Token], EvalRound(next)
      PROVE  pc' = "detect"
  BY <1>1, <1>6 DEF EvalRound
<1> QED BY <1>2, <1>3, <1>4, <1>5, <1>6 DEF Next

\* A request has one slot.
LEMMA OneSlot ==
    ASSUME Placed, NEW k \in DOMAIN call.active
    PROVE  Slot(call.active[k]) = k
BY DEF Placed, Slot

SlotsInv == ShapeInv /\ SlotsFollowRequests

\* When the prefill is over, the slots hold the prefilled states.
LEMMA SlotsFilled ==
    ASSUME ShapeInv, ShapeInv', NEW tok \in Token, FirstToken(tok), pc' = "detect"
    PROVE  /\ call'.eos = {} /\ DOMAIN call'.active = 1 .. size
           /\ \A j \in Requests' :
                /\ call'.resp[j] = << >> /\ call'.rewind[j] = {}
                /\ (slots[Slot(j)])' = call'.base[j]
                /\ call'.base[j] \in State
<1>1. /\ size' = size /\ Requests' = Requests /\ call'.resp = call.resp
      /\ call'.rewind = call.rewind /\ call'.eos = call.eos
      /\ call'.saved = Append(call.saved, slots[1])
      /\ call'.base = Append(call.base, slots[1])
      /\ call'.active = [k \in 1 .. size |-> k]
      /\ slots' = [k \in SlotIds |-> IF k <= size THEN call'.saved[k] ELSE slots[k]]
  BY FirstTokenEffect
<1>2. Prefilling /\ UNCHANGED supported
  BY DEF ShapeInv, CallShape, FirstToken
<1>3. call'.base = call'.saved /\ call'.eos = {}
  BY <1>1, <1>2 DEF Prefilling
<1>4. DOMAIN call'.active = 1 .. size /\ \A k \in 1 .. size : call'.active[k] = k
  BY <1>1
<1>5. Requests = 1 .. size /\ size \in Nat /\ size \in supported /\ supported \in Backends
  BY CallFields DEF ShapeInv, TypeOK, CallShape, FirstToken
<1>6. ASSUME NEW j \in Requests PROVE (slots[Slot(j)])' = call'.base[j]
  <2>1. j \in 1 .. size
    BY <1>5
  <2>2. Slot(j)' = j
    BY <1>4, <2>1 DEF Slot
  <2>3. j \in SlotIds
    <3>1. Max(supported) \in Nat /\ size \in 1 .. Max(supported)
      BY <1>5, SlotFacts DEF SlotIds
    <3> QED BY <1>5, <2>1, <3>1 DEF SlotIds
  <2>4. slots'[j] = call'.saved[j]
    <3>1. j <= size
      BY <1>5, <2>1
    <3>2. slots' = [k \in SlotIds |-> IF k <= size THEN call'.saved[k] ELSE slots[k]]
      BY <1>1
    <3> QED BY <2>3, <3>1, <3>2
  <2> QED BY <1>3, <2>2, <2>4
<1>7. \A j \in Requests : call'.base[j] \in State
  <2>1. Len(call'.base) = size' /\ call'.base \in Seq(State)
    <3>1. Decoding'
      BY DEF Decoding
    <3> QED BY <3>1 DEF ShapeInv, CallShape, TypeOK, Prefilled, Calls
  <2> QED BY <1>1, <1>5, <2>1
<1> QED BY <1>1, <1>2, <1>3, <1>4, <1>6, <1>7 DEF Prefilling

LEMMA SlotsInit == Init => SlotsInv
<1> SUFFICES ASSUME Init PROVE SlotsInv
  OBVIOUS
<1>1. ~ Decoding
  BY DEF Init, Decoding
<1> QED BY <1>1, ShapeInit DEF SlotsInv, SlotsFollowRequests

LEMMA SlotsUntouched ==
    ASSUME SlotsFollowRequests, Decoding, UNCHANGED slots, Requests' = Requests,
           call'.base = call.base, call'.resp = call.resp,
           call'.active = call.active, call.eos \subseteq call'.eos
    PROVE  SlotsFollowRequests'
<1>1. \A j : Slot(j)' = Slot(j) /\ InBatch(j)' = InBatch(j)
  BY DEF Slot, InBatch
<1> SUFFICES ASSUME NEW j \in Requests \ call.eos
             PROVE  /\ InBatch(j)'
                    /\ (slots[Slot(j)] = call.base[j] \o AsText(call.resp[j]))'
  BY DEF SlotsFollowRequests
<1>2. InBatch(j) /\ slots[Slot(j)] = call.base[j] \o AsText(call.resp[j])
  BY DEF SlotsFollowRequests
<1>3. (slots[Slot(j)])' = slots[Slot(j)]
  BY <1>1
<1> QED BY <1>1, <1>2, <1>3

LEMMA SlotsStep == SlotsInv /\ [Next]_vars => SlotsInv'
<1> SUFFICES ASSUME SlotsInv, [Next]_vars, Decoding' PROVE SlotsFollowRequests'
  <2>1. ASSUME SlotsInv, [Next]_vars PROVE ShapeInv'
    BY <2>1, ShapeStep DEF SlotsInv
  <2>2. ASSUME ~ Decoding' PROVE SlotsFollowRequests'
    BY <2>2 DEF SlotsFollowRequests
  <2> QED BY <2>1, <2>2 DEF SlotsInv
<1>0. ShapeInv /\ ShapeInv' /\ Placed'
  BY ShapeStep DEF SlotsInv, ShapeInv, CallShape
<1>1. ASSUME NEW tok \in Token, FirstToken(tok), pc' = "detect"
      PROVE  SlotsFollowRequests'
  <2>1. \A j \in Requests' : /\ call'.resp[j] = << >>
                             /\ (slots[Slot(j)])' = call'.base[j]
                             /\ call'.base[j] \in State
    BY <1>0, <1>1, SlotsFilled
  <2>2. ASSUME NEW j \in Requests'
        PROVE  call'.base[j] = call'.base[j] \o AsText(call'.resp[j])
    <3>1. << >> \in Seq(Token) /\ EosTok \in Token
      BY BatchAssumption
    <3> QED BY <2>1, <3>1, AsTextGrows
  <2> QED BY <1>0, <2>1, <2>2 DEF SlotsFollowRequests, Placed
<1>2. ASSUME NEW ends \in SUBSET Requests, NEW closed \in SUBSET Requests,
             DetectEnds(ends, closed)
      PROVE  SlotsFollowRequests'
  <2>1. /\ Requests' = Requests /\ call'.base = call.base /\ call'.resp = call.resp
        /\ call'.active = call.active /\ call.eos \subseteq call'.eos
    BY <1>0, <1>2, DetectEffect
  <2>2. slots' = slots /\ Decoding
    BY <1>2 DEF DetectEnds, Decoding
  <2> QED BY <2>1, <2>2, SlotsUntouched DEF SlotsInv
<1>3. CASE Compact
  <2>1. ResponsesStay
    BY <1>0, <1>3, CompactEffect
  <2>2. UNCHANGED supported /\ Decoding
    BY <1>3 DEF Compact, Decoding
  <2>3. PICK left \in Seq(Requests) :
          IsLeft(left) /\ (Shrunk(left) \/ (~ Shrinks(left) /\ UNCHANGED <<slots, call>>))
    BY <1>0, <1>3, CompactEffect
  <2>4. CASE UNCHANGED <<slots, call>>
    BY <2>1, <2>2, <2>4, SlotsUntouched DEF SlotsInv, ResponsesStay
  <2>5. CASE Shrunk(left)
    <3>1. slots' = MovedStates(left) /\ call'.active = left /\ Len(left) \in supported
      BY <2>5 DEF Shrunk, Shrinks
    <3> SUFFICES ASSUME NEW j \in Requests \ call.eos
                 PROVE  (slots[Slot(j)])' = call'.base[j] \o AsText(call'.resp[j])
      BY <1>0, <2>1 DEF SlotsFollowRequests, Placed, ResponsesStay
    <3>2. PICK k \in DOMAIN left : left[k] = j
      BY <2>3 DEF IsLeft
    <3>3. Slot(j)' = k
      <4>1. Placed' => Slot(call.active[k])' = k
        BY <3>1, OneSlot DEF Placed, Slot
      <4> QED BY <1>0, <3>1, <3>2 DEF Placed, Slot
    <3>4. k \in SlotIds /\ k <= Len(left)
      <4>1. supported \in Backends
        BY <1>0 DEF ShapeInv, TypeOK
      <4>2. Max(supported) \in Nat /\ Len(left) \in 1 .. Max(supported)
        BY <3>1, <4>1, SlotFacts DEF SlotIds
      <4> QED BY <4>2 DEF SlotIds
    <3>5. slots'[k] = slots[Slot(j)]
      BY <3>1, <3>2, <3>4 DEF MovedStates
    <3>6. slots[Slot(j)] = call.base[j] \o AsText(call.resp[j])
      BY <2>2 DEF SlotsInv, SlotsFollowRequests
    <3> QED BY <2>1, <3>3, <3>5, <3>6 DEF ResponsesStay
  <2> QED BY <2>3, <2>4, <2>5
<1>4. ASSUME NEW next \in [DOMAIN call.active -> Token], EvalRound(next)
      PROVE  SlotsFollowRequests'
  <2>1. /\ Requests' = Requests /\ RoundFed /\ call'.base = call.base
        /\ call'.eos = call.eos /\ call'.active = call.active
    BY <1>0, <1>4, RoundEffect
  <2>2. Decoding /\ Prefilled
    BY <1>0, <1>4 DEF EvalRound, Decoding, ShapeInv, CallShape
  <2> SUFFICES ASSUME NEW j \in Requests \ call.eos
               PROVE  (slots[Slot(j)])' = call'.base[j] \o AsText(call'.resp[j])
    BY <1>0, <2>1 DEF SlotsFollowRequests, Placed
  <2>3. InBatch(j) /\ slots[Slot(j)] = call.base[j] \o AsText(call.resp[j])
    BY <2>2 DEF SlotsInv, SlotsFollowRequests
  <2>4. Slot(j)' = Slot(j) /\ Slot(j) \in DOMAIN call.active /\ Slot(j) \in SlotIds
        /\ Sampled(j) \in Token
    BY <1>0, <2>1, <2>2, <2>3, SlotOf, SlotUsed DEF Slot
  <2>5. slots'[Slot(j)] = slots[Slot(j)] \o AsText(<<Sampled(j)>>)
    BY <2>1, <2>4 DEF RoundFed, Sampled
  <2>6. call'.resp[j] = Append(call.resp[j], Sampled(j))
    BY <2>1 DEF RoundFed
  <2>7. call.base[j] \in State /\ call.resp[j] \in Seq(Token)
    <3>1. /\ call.base \in Seq(State) /\ Len(call.base) = size
          /\ call.resp \in Seq(Seq(Token)) /\ Len(call.resp) = size
          /\ Requests = 1 .. size
      BY <1>0, <2>2, CallFields DEF Prefilled
    <3> QED BY <3>1
  <2>8. (call.base[j] \o AsText(call.resp[j])) \o AsText(<<Sampled(j)>>)
          = call.base[j] \o AsText(Append(call.resp[j], Sampled(j)))
    BY <2>4, <2>7, AsTextGrows
  <2> QED BY <2>1, <2>3, <2>4, <2>5, <2>6, <2>8
<1>5. CASE UNCHANGED vars
  <2>1. UNCHANGED <<slots, call, pc>>
    BY <1>5 DEF vars
  <2>2. Decoding /\ Requests' = Requests
    BY <2>1 DEF Decoding, Requests
  <2> QED BY <2>1, <2>2, SlotsUntouched DEF SlotsInv
<1> QED BY <1>1, <1>2, <1>3, <1>4, <1>5, DecodingSteps

\* Through every round and every compaction a request that has not ended keeps
\* a slot, and the slot has read exactly its prefilled text and its response.
THEOREM SlotsFollowRequestsCorrect == Spec => []SlotsFollowRequests
<1>1. Init => SlotsInv
  BY SlotsInit
<1>2. SlotsInv /\ [Next]_vars => SlotsInv'
  BY SlotsStep
<1>3. SlotsInv => SlotsFollowRequests
  BY DEF SlotsInv
<1> QED BY <1>1, <1>2, <1>3, PTL DEF Spec

-----------------------------------------------------------------------------
(* The logits follow the slots. *)

RowsInv == ShapeInv /\ RowsFollowSlots

\* The first rows of a compacted buffer are those of the requests that are left.
LEMMA MovedRow ==
    ASSUME ShapeInv, NEW left \in Seq(Requests), NEW k \in DOMAIN left
    PROVE  /\ k \in DOMAIN MovedLogits(left)
           /\ MovedLogits(left)[k] = Row(Slot(left[k]))
<1> DEFINE rows == [i \in 1 .. Len(left) |-> Row(Slot(left[i]))]
           rest == SubSeq(call.logits, Len(left) + 1, Len(call.logits))
<1>1. /\ call \in Calls /\ call.logits \in Seq(Logits)
      /\ Len(left) \in Nat /\ Len(call.logits) \in Nat /\ k \in 1 .. Len(left)
  BY DEF ShapeInv, TypeOK, Calls
<1>2. rows \in Seq(Logits) /\ Len(rows) = Len(left) /\ rows[k] = Row(Slot(left[k]))
  <2>1. rows \in [1 .. Len(left) -> Logits] /\ rows[k] = Row(Slot(left[k]))
    BY <1>1, RowTyped
  <2> HIDE DEF rows
  <2> QED BY <1>1, <2>1, RowIsSeq
<1>3. rest \in Seq(Logits)
  <2>1. /\ Len(left) + 1 \in Nat \ {0} /\ Len(call.logits) \in Int
        /\ \A i \in Len(left) + 1 .. Len(call.logits) : call.logits[i] \in Logits
    BY <1>1
  <2> QED BY <2>1, SubSeqProperties
<1>4. MovedLogits(left) = rows \o rest
  BY DEF MovedLogits
<1> HIDE DEF rows, rest
<1>5. k \in DOMAIN (rows \o rest) /\ (rows \o rest)[k] = rows[k]
  BY <1>1, <1>2, <1>3
<1> QED BY <1>2, <1>4, <1>5

LEMMA RowsStep == RowsInv /\ [Next]_vars => RowsInv'
<1> SUFFICES ASSUME RowsInv, [Next]_vars, Decoding', call'.round > 0
             PROVE  \A k \in DOMAIN call'.active : Row(k)' = LogitsAfter(slots'[k])
  <2>1. ASSUME RowsInv, [Next]_vars PROVE ShapeInv'
    BY <2>1, ShapeStep DEF RowsInv
  <2>2. ASSUME ~ (Decoding' /\ call'.round > 0) PROVE RowsFollowSlots'
    BY <2>2 DEF RowsFollowSlots
  <2> QED BY <2>1, <2>2 DEF RowsInv, RowsFollowSlots
<1>0. ShapeInv /\ ShapeInv' /\ call \in Calls
  BY ShapeStep DEF RowsInv, ShapeInv, TypeOK
<1>1. ASSUME NEW tok \in Token, FirstToken(tok) PROVE FALSE
  <2>1. call'.round = call.round
    BY <1>0, <1>1, FirstTokenEffect
  <2>2. call.round = 0
    BY <1>0, <1>1 DEF FirstToken, ShapeInv, CallShape, Prefilling
  <2> QED BY <2>1, <2>2
<1>a. ASSUME Decoding, slots' = slots, call'.logits = call.logits,
             call'.active = call.active, call'.round = call.round
      PROVE  \A k \in DOMAIN call'.active : Row(k)' = LogitsAfter(slots'[k])
  <2>1. \A k \in DOMAIN call.active : Row(k) = LogitsAfter(slots[k])
    BY <1>a DEF RowsInv, RowsFollowSlots
  <2>2. \A k : Row(k)' = Row(k)
    BY <1>a DEF Row
  <2> QED BY <1>a, <2>1, <2>2
<1>2. ASSUME NEW ends \in SUBSET Requests, NEW closed \in SUBSET Requests,
             DetectEnds(ends, closed)
      PROVE  \A k \in DOMAIN call'.active : Row(k)' = LogitsAfter(slots'[k])
  <2>1. Decoding /\ slots' = slots
    BY <1>2 DEF DetectEnds, Decoding
  <2>2. call'.active = call.active /\ call'.round = call.round
    BY <1>0, <1>2, DetectEffect
  <2>3. call'.logits = call.logits
    BY <1>0, <1>2 DEF DetectEnds, Calls
  <2> QED BY <1>a, <2>1, <2>2, <2>3
<1>3. CASE Compact
  <2>1. Decoding /\ UNCHANGED supported
    BY <1>3 DEF Compact, Decoding
  <2>2. call'.round = call.round
    BY <1>0, <1>3, CompactEffect DEF ResponsesStay
  <2>3. PICK left \in Seq(Requests) :
          IsLeft(left) /\ (Shrunk(left) \/ (~ Shrinks(left) /\ UNCHANGED <<slots, call>>))
    BY <1>0, <1>3, CompactEffect
  <2>4. CASE UNCHANGED <<slots, call>>
    BY <1>a, <2>1, <2>4
  <2>5. CASE Shrunk(left)
    <3>1. /\ slots' = MovedStates(left) /\ call'.active = left
          /\ call'.logits = MovedLogits(left) /\ Len(left) \in supported
      BY <2>5 DEF Shrunk, Shrinks
    <3> SUFFICES ASSUME NEW k \in DOMAIN left PROVE Row(k)' = LogitsAfter(slots'[k])
      BY <3>1
    <3>2. Row(k)' = Row(Slot(left[k]))
      <4>1. k \in DOMAIN call'.logits /\ call'.logits[k] = Row(Slot(left[k]))
        BY <1>0, <3>1, MovedRow
      <4> QED BY <4>1 DEF Row
    <3>3. InBatch(left[k])
      <4>1. left[k] \in Requests \ call.eos
        BY <2>3 DEF IsLeft
      <4> QED BY <1>0, <2>1, <4>1 DEF ShapeInv, CallShape, Placed
    <3>4. Row(Slot(left[k])) = LogitsAfter(slots[Slot(left[k])])
      <4>1. Slot(left[k]) \in DOMAIN call.active
        BY <3>3, SlotOf
      <4> QED BY <2>1, <2>2, <4>1 DEF RowsInv, RowsFollowSlots
    <3>5. k \in SlotIds /\ k <= Len(left)
      <4>1. supported \in Backends
        BY <1>0 DEF ShapeInv, TypeOK
      <4>2. Max(supported) \in Nat /\ Len(left) \in 1 .. Max(supported)
        BY <3>1, <4>1, SlotFacts DEF SlotIds
      <4> QED BY <4>2 DEF SlotIds
    <3>6. slots'[k] = slots[Slot(left[k])]
      BY <3>1, <3>5 DEF MovedStates
    <3> QED BY <3>2, <3>4, <3>6
  <2> QED BY <2>3, <2>4, <2>5
<1>4. ASSUME NEW next \in [DOMAIN call.active -> Token], EvalRound(next)
      PROVE  \A k \in DOMAIN call'.active : Row(k)' = LogitsAfter(slots'[k])
  <2>1. call'.active = call.active
    BY <1>0, <1>4, RoundEffect
  <2>2. call'.logits = [k \in DOMAIN call.active |-> LogitsAfter(slots'[k])]
    BY <1>0, <1>4 DEF EvalRound, Calls
  <2> QED BY <2>1, <2>2 DEF Row
<1>5. CASE UNCHANGED vars
  <2>1. UNCHANGED <<slots, call, pc>> /\ Decoding
    BY <1>5 DEF vars, Decoding
  <2> QED BY <1>a, <2>1
<1> QED BY <1>1, <1>2, <1>3, <1>4, <1>5, DecodingSteps

\* From the second round on the logits of every slot in use are those after
\* what the slot has read, also where a compaction has moved both.
THEOREM RowsFollowSlotsCorrect == Spec => []RowsFollowSlots
<1>1. Init => RowsInv
  <2>1. Init => ~ Decoding
    BY DEF Init, Decoding
  <2> QED BY <2>1, ShapeInit DEF RowsInv, RowsFollowSlots
<1>2. RowsInv /\ [Next]_vars => RowsInv'
  BY RowsStep
<1>3. RowsInv => RowsFollowSlots
  BY DEF RowsInv
<1> QED BY <1>1, <1>2, <1>3, PTL DEF Spec

-----------------------------------------------------------------------------
(* Token 0 is never fed. *)

NoEndToken == \A j \in Requests : EosTok \notin ToSet(call.resp[j])

EndTokenInv == ShapeInv /\ EndsDetected /\ NoEndToken

LEMMA NotInLonger ==
    ASSUME NEW s \in Seq(Token), NEW tok, NEW x, x # tok, x \notin ToSet(s)
    PROVE  x \notin ToSet(Append(s, tok))
<1>1. /\ DOMAIN Append(s, tok) = 1 .. Len(s) + 1 /\ DOMAIN s = 1 .. Len(s)
      /\ Append(s, tok)[Len(s) + 1] = tok /\ Len(s) \in Nat
      /\ \A i \in 1 .. Len(s) : Append(s, tok)[i] = s[i]
  OBVIOUS
<1> QED BY <1>1 DEF ToSet

LEMMA NotInShorter ==
    ASSUME NEW s \in Seq(Token), NEW x, x \notin ToSet(s)
    PROVE  x \notin ToSet(SubSeq(s, 1, Len(s) - 1))
<1> DEFINE t == SubSeq(s, 1, Len(s) - 1)
<1>1. Len(s) \in Nat /\ \A i \in 1 .. Len(s) - 1 : s[i] \in Token
  OBVIOUS
<1>2. /\ t \in Seq(Token) /\ Len(t) = IF 1 <= Len(s) - 1 THEN Len(s) - 1 ELSE 0
      /\ \A i \in 1 .. Len(s) - 1 : t[i] = s[i]
  <2>1. Len(s) - 1 \in Int /\ Len(s) - 1 - 1 + 1 = Len(s) - 1
    BY <1>1
  <2>2. /\ t \in Seq(Token)
        /\ Len(t) = IF 1 <= Len(s) - 1 THEN Len(s) - 1 - 1 + 1 ELSE 0
        /\ \A i \in 1 .. Len(s) - 1 - 1 + 1 : t[i] = s[1 + i - 1]
    BY <1>1, <2>1, SubSeqProperties
  <2> HIDE DEF t
  <2>3. \A i \in 1 .. Len(s) - 1 : 1 + i - 1 = i
    OBVIOUS
  <2> QED BY <2>1, <2>2, <2>3
<1> HIDE DEF t
<1>3. DOMAIN t \subseteq DOMAIN s /\ \A i \in DOMAIN t : t[i] = s[i]
  BY <1>1, <1>2
<1>4. x \notin ToSet(t)
  BY <1>3 DEF ToSet
<1> QED BY <1>4 DEF t

\* Responses change in a round, when they are saved, and when a call starts or
\* ends.
LEMMA NoEndStep ==
    ASSUME EndTokenInv, Next
    PROVE  NoEndToken'
<1>0. /\ ShapeInv /\ EndsDetected /\ NoEndToken
      /\ \A j \in Requests : call.resp[j] \in Seq(Token)
  BY CallFields DEF EndTokenInv
<1>a. ASSUME Requests' = Requests, call'.resp = call.resp PROVE NoEndToken'
  BY <1>0, <1>a DEF NoEndToken
<1>b. ASSUME UNCHANGED call PROVE NoEndToken'
  BY <1>a, <1>b DEF Requests
<1>c. ASSUME Return PROVE NoEndToken'
  BY <1>c, NoCallFacts DEF Return, NoEndToken, Requests
<1>1. ASSUME NEW b \in supported, NEW think \in BOOLEAN, NEW ts \in [1 .. b -> Texts],
             StartBatch(ts, think)
      PROVE  NoEndToken'
  <2>1. b \in Nat
    BY <1>0, BatchAssumption DEF ShapeInv, TypeOK
  <2>2. ts \in Seq(Texts) /\ DOMAIN ts = 1 .. b /\ Len(ts) = b
    BY <2>1, RowIsSeq
  <2>3. Requests' = 1 .. b /\ call'.resp = [j \in 1 .. b |-> << >>]
    BY <1>0, <1>1, <2>2, StartEffect
  <2> QED BY <2>3 DEF NoEndToken, ToSet
<1>2. CASE MatchRequest
  BY <1>0, <1>2, <1>a, MatchEffect DEF GeneratedStays
<1>3. CASE PrefillChunk
  BY <1>0, <1>3, <1>a, ChunkEffect DEF GeneratedStays
<1>4. ASSUME NEW tok \in Token, FirstToken(tok) PROVE NoEndToken'
  BY <1>0, <1>4, <1>a, FirstTokenEffect
<1>5. ASSUME NEW ends \in SUBSET Requests, NEW closed \in SUBSET Requests,
             DetectEnds(ends, closed)
      PROVE  NoEndToken'
  BY <1>0, <1>5, <1>a, DetectEffect
<1>6. CASE Compact
  BY <1>0, <1>6, <1>a, CompactEffect DEF ResponsesStay
<1>7. CASE LeaveLoop \/ ClearState
  BY <1>7, <1>b DEF LeaveLoop, ClearState
<1>8. ASSUME NEW next \in [DOMAIN call.active -> Token], EvalRound(next)
      PROVE  NoEndToken'
  <2>1. RoundFed /\ Requests' = Requests
    BY <1>0, <1>8, RoundEffect
  <2>2. \A j \in Requests \ call.eos : Sampled(j) # EosTok
    BY <1>0, <1>8 DEF EvalRound, EndsDetected
  <2>3. ASSUME NEW j \in Requests PROVE EosTok \notin ToSet(call'.resp[j])
    <3>1. CASE j \in call.eos
      BY <1>0, <2>1, <3>1 DEF RoundFed, NoEndToken
    <3>2. CASE j \notin call.eos
      <4>1. call'.resp[j] = Append(call.resp[j], Sampled(j))
        BY <2>1, <3>2 DEF RoundFed
      <4>2. EosTok \notin ToSet(call.resp[j]) /\ call.resp[j] \in Seq(Token)
        BY <1>0 DEF NoEndToken
      <4> QED BY <2>2, <3>2, <4>1, <4>2, NotInLonger
    <3> QED BY <3>1, <3>2
  <2> QED BY <2>1, <2>3 DEF NoEndToken
<1>9. CASE EvalFails \/ CleanupStateTree
  BY <1>9, <1>c DEF EvalFails, CleanupStateTree
<1>10. CASE SaveStates
  <2>1. CASE UNCHANGED call
    BY <1>b, <2>1
  <2>2. CASE pc' = "register"
    <3>1. Requests' = Requests /\ \A j \in Requests : call'.resp[j] = KeptResponse(j)
      BY <1>0, <1>10, <2>2, SaveEffect
    <3>2. ASSUME NEW j \in Requests PROVE EosTok \notin ToSet(KeptResponse(j))
      <4>1. EosTok \notin ToSet(call.resp[j]) /\ call.resp[j] \in Seq(Token)
        BY <1>0 DEF NoEndToken
      <4> QED BY <4>1, NotInShorter DEF KeptResponse
    <3> QED BY <3>1, <3>2 DEF NoEndToken
  <2> QED BY <1>10, <2>1, <2>2 DEF SaveStates
<1>11. CASE RegisterRequest
  BY <1>0, <1>11, <1>a, RegisterEffect
<1> QED BY <1>1, <1>2, <1>3, <1>4, <1>5, <1>6, <1>7, <1>8, <1>9, <1>10, <1>11 DEF Next

LEMMA EndTokenInit == Init => EndTokenInv
<1> SUFFICES ASSUME Init PROVE EndTokenInv
  OBVIOUS
<1>1. pc = "idle" /\ call = NoCall
  BY DEF Init
<1>2. NoEndToken
  BY <1>1, NoCallFacts DEF NoEndToken, Requests
<1> QED BY <1>1, <1>2, ShapeInit DEF EndTokenInv, EndsDetected

LEMMA EndTokenStep == EndTokenInv /\ [Next]_vars => EndTokenInv'
<1> SUFFICES ASSUME EndTokenInv, [Next]_vars PROVE EndTokenInv'
  OBVIOUS
<1>0. ShapeInv /\ ShapeInv' /\ EndsDetected /\ NoEndToken
  BY ShapeStep DEF EndTokenInv
<1>1. CASE UNCHANGED vars
  BY <1>0, <1>1 DEF vars, EndTokenInv, EndsDetected, NoEndToken, Requests, Sampled, Slot
<1>2. CASE Next
  <2>1. NoEndToken'
    BY <1>2, NoEndStep
  <2>2. CASE pc' \notin {"compact", "check"}
    BY <1>0, <2>1, <2>2 DEF EndTokenInv, EndsDetected
  <2>3. CASE pc' \in {"compact", "check"}
    <3>1. Decoding' /\ pc' # "detect"
      BY <2>3 DEF Decoding
    <3>2. ASSUME NEW ends \in SUBSET Requests, NEW closed \in SUBSET Requests,
                 DetectEnds(ends, closed)
          PROVE  EndsDetected'
      <4>1. /\ Requests' = Requests /\ call'.active = call.active
            /\ call'.decoded = call.decoded /\ call'.eos = call.eos \cup Zero \cup ends
        BY <1>0, <3>2, DetectEffect
      <4>2. Placed /\ Decoding
        BY <1>0, <3>2 DEF DetectEnds, Decoding, ShapeInv, CallShape
      <4>3. \A j : Sampled(j)' = Sampled(j)
        BY <4>1 DEF Sampled, Slot
      <4>4. ASSUME NEW j \in Requests, j \notin call.eos, j \notin Zero
            PROVE  Sampled(j) # EosTok
        BY <4>2, <4>4 DEF Placed, Zero, Here
      <4> QED BY <4>1, <4>3, <4>4 DEF EndsDetected
    <3>3. CASE Compact
      <4>1. ResponsesStay
        BY <1>0, <3>3, CompactEffect
      <4>2. \A j \in Requests \ call.eos : Sampled(j) # EosTok
        BY <1>0, <3>3 DEF Compact, EndsDetected
      <4>3. PICK left \in Seq(Requests) :
              /\ IsLeft(left)
              /\ Shrunk(left) \/ (~ Shrinks(left) /\ UNCHANGED <<slots, call>>)
        BY <1>0, <3>3, CompactEffect
      <4>4. ASSUME NEW j \in Requests \ call.eos PROVE Sampled(j)' # EosTok
        <5>1. CASE UNCHANGED call
          BY <4>2, <5>1 DEF Sampled, Slot
        <5>2. CASE Shrunk(left)
          <6>1. PICK k \in DOMAIN left : left[k] = j
            BY <4>3 DEF IsLeft
          <6>2. call'.active = left /\ call'.decoded[k] = Sampled(j)
            BY <5>2, <6>1 DEF Shrunk
          <6>3. Slot(j)' = k
            <7>1. Placed'
              BY <1>0, <3>1 DEF ShapeInv, CallShape
            <7> QED BY <6>1, <6>2, <7>1 DEF Placed, Slot
          <6> QED BY <4>2, <6>2, <6>3 DEF Sampled
        <5> QED BY <4>3, <5>1, <5>2
      <4>5. Requests' = Requests /\ call'.eos = call.eos
        BY <4>1 DEF ResponsesStay
      <4>6. \A j \in Requests' \ call'.eos : (Sampled(j) # EosTok)'
        BY <4>4, <4>5
      <4>7. EndsDetected'
        BY <4>6 DEF EndsDetected
      <4> QED BY <1>0, <2>1, <4>7 DEF EndTokenInv
    <3> QED BY <1>0, <1>2, <2>1, <3>1, <3>2, <3>3, DecodingSteps DEF EndTokenInv
  <2> QED BY <2>2, <2>3
<1> QED BY <1>1, <1>2

\* No request that goes on is fed token 0, whatever the compactions moved, and
\* no response has it.
THEOREM EndTokenNotFedCorrect == Spec => []EndTokenNotFed
<1>1. Init => EndTokenInv
  BY EndTokenInit
<1>2. EndTokenInv /\ [Next]_vars => EndTokenInv'
  BY EndTokenStep
<1>3. EndTokenInv => EndTokenNotFed
  BY DEF EndTokenInv, EndTokenNotFed, EndsDetected, NoEndToken
<1> QED BY <1>1, <1>2, <1>3, PTL DEF Spec

-----------------------------------------------------------------------------
(* Ended requests are registered with the state of what is kept. *)

\* The hypothesis of the property: the backend has every batch size, and the
\* call is not in reasoning mode.
Fits == SlotIds = supported /\ ~ call.think

FinishedInv == SlotsInv /\ FinishedInTime /\ FinishedCoherent

\* As many requests have a slot as there are slots in use, and as many are left
\* as their sequence is long.
LEMMA DistinctCounted ==
    ASSUME NEW s \in Seq(Nat), \A i, k \in DOMAIN s : s[i] = s[k] => i = k,
           NEW S, S = {s[k] : k \in DOMAIN s}
    PROVE  IsFiniteSet(S) /\ Cardinality(S) = Len(s)
<1>1. DOMAIN s = 1 .. Len(s) /\ Len(s) \in Nat
  OBVIOUS
<1>2. s \in [1 .. Len(s) -> S]
  BY <1>1
<1>3. s \in Injection(1 .. Len(s), S)
  BY <1>1, <1>2 DEF Injection, IsInjective
<1>4. s \in Surjection(1 .. Len(s), S)
  BY <1>1, <1>2 DEF Surjection
<1>5. ExistsBijection(1 .. Len(s), S)
  BY <1>3, <1>4 DEF ExistsBijection, Bijection
<1>6. IsFiniteSet(1 .. Len(s)) /\ Cardinality(1 .. Len(s)) = Len(s)
  <2>1. 1 \in Int /\ Len(s) \in Int
    BY <1>1
  <2>2. /\ IsFiniteSet(1 .. Len(s))
        /\ Cardinality(1 .. Len(s)) = IF 1 > Len(s) THEN 0 ELSE Len(s) - 1 + 1
    BY <2>1, FS_Interval
  <2> QED BY <1>1, <2>2
<1> QED BY <1>5, <1>6, FS_Bijection

\* When no smaller batch is needed than the one in use, every slot serves a
\* request that has not ended.
LEMMA NothingToCompact ==
    ASSUME ShapeInv, Decoding, SlotIds = supported, call.eos # Requests,
           NEW left \in Seq(Requests), IsLeft(left), ~ Shrinks(left)
    PROVE  \A k \in DOMAIN call.active : call.active[k] \notin call.eos
<1> DEFINE A == {call.active[k] : k \in DOMAIN call.active}
<1> DEFINE L == {left[k] : k \in DOMAIN left}
<1>1. /\ call.active \in Seq(Requests) /\ call.eos \subseteq Requests
      /\ Requests = 1 .. size /\ size \in Nat
      /\ Len(call.active) \in supported /\ Placed
  BY CallFields DEF ShapeInv, TypeOK, CallShape
<1>2. L = Requests \ call.eos
  BY DEF IsLeft
<1>3. L \subseteq A
  BY <1>1, <1>2 DEF Placed, InBatch
<1>4. call.active \in Seq(Nat) /\ left \in Seq(Nat)
  BY <1>1
<1>5. \A i, k \in DOMAIN left : left[i] = left[k] => i = k
  <2>1. DOMAIN left \subseteq Nat /\ \A i \in DOMAIN left : left[i] \in Nat
    BY <1>4
  <2> QED BY <2>1 DEF IsLeft
<1> HIDE DEF A, L
<1>6. IsFiniteSet(A) /\ Cardinality(A) = Len(call.active)
  BY <1>1, <1>4, DistinctCounted DEF A, Placed
<1>7. IsFiniteSet(L) /\ Cardinality(L) = Len(left)
  BY <1>4, <1>5, DistinctCounted DEF L
<1>8. Len(left) # 0
  <2>1. L # {}
    BY <1>1, <1>2
  <2> QED BY <2>1 DEF L
<1>9. Len(left) >= Len(call.active)
  <2>1. Len(left) \in Nat /\ Len(call.active) \in Nat
    BY <1>1
  <2>2. Max(supported) \in Nat /\ Len(call.active) \in 1 .. Max(supported)
    BY <1>1, SlotFacts DEF ShapeInv, TypeOK, SlotIds
  <2>3. ASSUME Len(left) < Len(call.active) PROVE FALSE
    <3>1. Len(left) \in 1 .. Len(call.active) - 1 /\ Len(left) \in 1 .. Max(supported)
      BY <1>8, <2>1, <2>2, <2>3
    <3> QED BY <3>1 DEF Shrinks, SlotIds
  <2> QED BY <2>1, <2>3
<1>10. L = A
  <2>1. Cardinality(L) <= Cardinality(A)
    BY <1>3, <1>6, FS_Subset
  <2>2. Cardinality(A) = Cardinality(L)
    BY <1>1, <1>6, <1>7, <1>9, <2>1
  <2> QED BY <1>3, <1>6, <2>2, FS_Subset
<1> QED BY <1>2, <1>10 DEF A

\* The steps that lead out of the loop, and those after it.
LEMMA SavingSteps ==
    ASSUME Next, pc' \in {"save", "register"}
    PROVE  \/ \E tok \in Token : FirstToken(tok) /\ pc' = "save"
           \/ LeaveLoop
           \/ \E next \in [DOMAIN call.active -> Token] : EvalRound(next) /\ pc' = "save"
           \/ SaveStates /\ pc' = "register"
           \/ RegisterRequest /\ pc' = "register"
<1>1. ASSUME NEW b \in supported, NEW think \in BOOLEAN, NEW ts \in [1 .. b -> Texts],
             StartBatch(ts, think)
      PROVE  FALSE
  BY <1>1 DEF StartBatch
<1>2. ~ MatchRequest /\ ~ EvalFails /\ ~ CleanupStateTree
  BY DEF MatchRequest, EvalFails, CleanupStateTree, Return
<1>3. ~ PrefillChunk /\ ~ ClearState
  BY DEF PrefillChunk, ClearState
<1>4. ~ Compact
  BY DEF Compact
<1>5. ASSUME NEW ends \in SUBSET Requests, NEW closed \in SUBSET Requests,
             DetectEnds(ends, closed)
      PROVE  FALSE
  BY <1>5 DEF DetectEnds
<1>6. ASSUME NEW tok \in Token, FirstToken(tok) PROVE pc' = "save"
  BY <1>6 DEF FirstToken
<1>7. ASSUME NEW next \in [DOMAIN call.active -> Token], EvalRound(next)
      PROVE  pc' = "save"
  BY <1>7 DEF EvalRound
<1>8. ASSUME SaveStates PROVE pc' = "register"
  BY <1>8 DEF SaveStates
<1>9. ASSUME RegisterRequest PROVE pc' = "register"
  <2>1. pc = "register"
    BY <1>9 DEF RegisterRequest
  <2>2. pc' = pc \/ pc' = "cleanup"
    BY <1>9 DEF RegisterRequest
  <2> QED BY <2>1, <2>2
<1> QED BY <1>1, <1>2, <1>3, <1>4, <1>5, <1>6, <1>7, <1>8, <1>9 DEF Next

\* What is said of one request depends on its own entries only.
LEMMA EntriesStay ==
    ASSUME NEW j, call'.base[j] = call.base[j], call'.resp[j] = call.resp[j],
           call'.rewind[j] = call.rewind[j]
    PROVE  /\ Now(j)' = Now(j) /\ Before(j)' = Before(j)
           /\ Rewound(j)' <=> Rewound(j)
           /\ call'.saved[j] = call.saved[j] => (Finished(j)' <=> Finished(j))
<1>1. Now(j)' = Now(j) /\ Before(j)' = Before(j)
  BY DEF Now, Before
<1>2. Rewound(j)' <=> Rewound(j)
  BY <1>1 DEF Rewound
<1> QED BY <1>1, <1>2 DEF Finished

LEMMA FinishedInit == Init => FinishedInv
<1> SUFFICES ASSUME Init PROVE FinishedInv
  OBVIOUS
<1>1. pc = "idle" /\ ~ Decoding
  BY DEF Init, Decoding
<1> QED BY <1>1, SlotsInit DEF FinishedInv, FinishedInTime, FinishedCoherent

\* A round that detects ends: the state before a rewind token, or the state of
\* the whole response, is at hand.
LEMMA DetectFinished ==
    ASSUME FinishedInv, Fits, NEW ends \in SUBSET Requests,
           NEW closed \in SUBSET Requests, DetectEnds(ends, closed)
    PROVE  /\ \A j \in Requests \ call'.eos : call'.rewind[j] \subseteq {Now(j)'}
           /\ \A j \in call'.eos \ call'.clash : Finished(j)'
<1>0. /\ ShapeInv /\ Decoding /\ Placed /\ pc = "detect" /\ call.thinking = {}
      /\ \A k \in DOMAIN call.active : call.active[k] \notin call.eos
      /\ \A j \in Requests \ call.eos : call.rewind[j] = {} \/ Rewound(j)
      /\ \A j \in call.eos \ call.clash : Finished(j)
      /\ \A j \in Requests \ call.eos : slots[Slot(j)] = Now(j)
      /\ call.eos \subseteq Requests
  <2>1. pc = "detect" /\ Decoding
    BY DEF DetectEnds, Decoding
  <2>2. /\ \A k \in DOMAIN call.active : call.active[k] \notin call.eos
        /\ \A j \in Requests \ call.eos : call.rewind[j] = {} \/ Rewound(j)
        /\ \A j \in call.eos \ call.clash : Finished(j)
    BY <2>1 DEF FinishedInv, FinishedInTime, Fits
  <2>3. \A j \in Requests \ call.eos : slots[Slot(j)] = Now(j)
    BY <2>1 DEF FinishedInv, SlotsInv, SlotsFollowRequests, Now
  <2> QED BY <2>1, <2>2, <2>3
          DEF FinishedInv, SlotsInv, ShapeInv, TypeOK, CallShape, Fits
<1>1. /\ call'.base = call.base /\ call'.resp = call.resp
      /\ call'.eos = call.eos \cup Zero \cup ends /\ ends \subseteq Open
      /\ call'.clash = call.clash \cup (ends \cap Caught)
      /\ \A j \in Requests :
           /\ call'.saved[j] = IF j \in Zero \cup ends THEN slots[Slot(j)]
                                                      ELSE call.saved[j]
           /\ call'.rewind[j] = IF j \in Caught THEN {slots[Slot(j)]}
                                ELSE IF j \in Open \ call.thinking THEN {}
                                ELSE call.rewind[j]
  BY <1>0, DetectEffect
<1>2. /\ \A j \in Requests : InBatch(j) <=> j \in Here
      /\ \A j \in call.eos : ~ InBatch(j)
  BY <1>0 DEF Here, InBatch
<1>3. /\ Zero \subseteq Here /\ Open \subseteq Here /\ Caught \subseteq Open
      /\ Here \subseteq Requests /\ Open = Here \ (call.eos \cup Zero)
  BY DEF Here, Zero, Open, Caught
<1>4. ASSUME NEW j \in Requests
      PROVE  Now(j)' = Now(j) /\ Before(j)' = Before(j)
  BY <1>1 DEF Now, Before
<1>5. ASSUME NEW j \in call.eos \ call.clash PROVE Finished(j)'
  <2>1. j \in Requests /\ j \notin Here
    BY <1>0, <1>2
  <2>2. j \notin Zero /\ j \notin Open /\ j \notin ends /\ j \notin Caught
    BY <1>1, <1>3, <2>1
  <2>3. call'.rewind[j] = call.rewind[j] /\ call'.saved[j] = call.saved[j]
    BY <1>1, <2>1, <2>2
  <2>4. Finished(j)
    BY <1>0
  <2> QED BY <1>1, <2>3, <2>4, EntriesStay
<1>6. ASSUME NEW j \in Zero, j \notin call.eos PROVE Finished(j)'
  <2>1. j \in Requests /\ j \notin Open /\ j \notin Caught
    BY <1>3
  <2>2. call'.rewind[j] = call.rewind[j] /\ call'.saved[j] = slots[Slot(j)]
    BY <1>1, <2>1
  <2>3. call.rewind[j] = {} \/ Rewound(j)
    BY <1>0, <1>6, <2>1
  <2>4. Rewound(j)' <=> Rewound(j)
    BY <1>1, <2>2, EntriesStay
  <2>5. call'.saved[j] = Now(j)'
    BY <1>0, <1>4, <1>6, <2>1, <2>2
  <2> QED BY <2>2, <2>3, <2>4, <2>5 DEF Finished
<1>7. ASSUME NEW j \in ends, j \notin Caught PROVE Finished(j)'
  <2>1. j \in Requests /\ j \in Open /\ j \notin Caught /\ j \notin call.eos
    BY <1>1, <1>3, <1>7
  <2>2. call'.rewind[j] = {} /\ call'.saved[j] = slots[Slot(j)]
    BY <1>0, <1>1, <2>1
  <2>3. call'.saved[j] = Now(j)'
    BY <1>0, <1>4, <2>1, <2>2
  <2> QED BY <2>2, <2>3 DEF Finished
<1>8. ASSUME NEW j \in Requests, j \notin call'.eos
      PROVE  call'.rewind[j] \subseteq {Now(j)'}
  <2>1. j \notin call.eos /\ j \notin Zero
    BY <1>1, <1>8
  <2>2. j \in Here
    BY <1>0, <1>2, <2>1 DEF Placed
  <2>3. j \in Open
    BY <1>3, <2>1, <2>2
  <2>4. call'.rewind[j] = {slots[Slot(j)]} \/ call'.rewind[j] = {}
    BY <1>0, <1>1, <2>3
  <2>5. slots[Slot(j)] = Now(j)'
    BY <1>0, <1>4, <2>1
  <2> QED BY <2>4, <2>5
<1> QED BY <1>1, <1>5, <1>6, <1>7, <1>8

\* A round that feeds the slots: what was the state of the whole response is
\* now the state before its last token.
LEMMA RoundFinished ==
    ASSUME FinishedInv, Fits, NEW next \in [DOMAIN call.active -> Token], EvalRound(next)
    PROVE  /\ \A k \in DOMAIN call'.active : call'.active[k] \notin call'.eos
           /\ \A j \in Requests \ call'.eos : call'.rewind[j] = {} \/ Rewound(j)'
           /\ \A j \in call'.eos \ call'.clash : Finished(j)'
<1>0. /\ ShapeInv /\ pc = "check" /\ Decoding /\ Placed /\ call.eos # Requests
      /\ call.eos \subseteq Requests
  BY DEF EvalRound, Decoding, FinishedInv, SlotsInv, ShapeInv, TypeOK, CallShape
<1>1. /\ \A k \in DOMAIN call.active : call.active[k] \notin call.eos
      /\ \A j \in Requests \ call.eos : call.rewind[j] \subseteq {Now(j)}
      /\ \A j \in call.eos \ call.clash : Finished(j)
  BY <1>0 DEF FinishedInv, FinishedInTime, Fits
<1>2. /\ RoundFed /\ call'.base = call.base /\ call'.saved = call.saved
      /\ call'.rewind = call.rewind /\ call'.eos = call.eos
      /\ call'.active = call.active /\ call'.clash = call.clash
  BY <1>0, RoundEffect
<1>3. ASSUME NEW j \in call.eos \ call.clash PROVE Finished(j)'
  <2>1. call'.resp[j] = call.resp[j]
    BY <1>0, <1>2 DEF RoundFed
  <2> QED BY <1>1, <1>2, <2>1, EntriesStay
<1>4. ASSUME NEW j \in Requests \ call.eos
      PROVE  call'.rewind[j] = {} \/ Rewound(j)'
  <2>1. call'.resp[j] = Append(call.resp[j], Sampled(j))
    BY <1>2 DEF RoundFed
  <2>2. call.resp[j] \in Seq(Token) /\ Sampled(j) \in Token
    BY <1>0, CallFields, SlotUsed DEF Placed
  <2>3. Front(call'.resp[j]) = call.resp[j] /\ call'.resp[j] # << >>
    <3>1. Front(call'.resp[j]) = call.resp[j]
      BY <2>1, <2>2, AppendDropped DEF Front
    <3>2. Append(call.resp[j], Sampled(j)) # << >>
      BY <2>2
    <3> QED BY <2>1, <3>1, <3>2
  <2>4. Before(j)' = Now(j)
    BY <1>2, <2>3 DEF Before, Now
  <2>5. call.rewind[j] = {} \/ call.rewind[j] = {Now(j)}
    BY <1>1
  <2> QED BY <1>2, <2>3, <2>4, <2>5 DEF Rewound
<1> QED BY <1>1, <1>2, <1>3, <1>4

LEMMA FinishedStep == FinishedInv /\ [Next]_vars => FinishedInv'
<1> SUFFICES ASSUME FinishedInv, [Next]_vars PROVE FinishedInv'
  OBVIOUS
<1>0. /\ SlotsInv' /\ SlotsInv /\ ShapeInv /\ ShapeInv' /\ FinishedInTime
      /\ FinishedCoherent
  BY SlotsStep DEF FinishedInv, SlotsInv
<1>1. CASE UNCHANGED vars
  <2>1. FinishedInTime'
    <3>1. UNCHANGED <<supported, call, pc>>
      BY <1>1 DEF vars
    <3>2. \A j : Now(j)' = Now(j) /\ (Rewound(j)' <=> Rewound(j))
                 /\ (Finished(j)' <=> Finished(j))
      BY <3>1, EntriesStay
    <3> QED BY <1>0, <3>1, <3>2 DEF FinishedInTime, SlotIds, Decoding, Requests
  <2>2. FinishedCoherent'
    BY <1>0, <1>1 DEF vars, FinishedCoherent, SlotIds, OwnState
  <2> QED BY <1>0, <2>1, <2>2 DEF FinishedInv
<1>2. CASE ~ Fits'
  BY <1>0, <1>2 DEF FinishedInv, FinishedInTime, FinishedCoherent, Fits
<1>3. CASE Next /\ ~ Decoding' /\ pc' \notin {"save", "register"}
  BY <1>0, <1>3 DEF FinishedInv, FinishedInTime, FinishedCoherent, Decoding
<1>4. CASE Next /\ Decoding' /\ Fits'
  <2>0. FinishedCoherent'
    BY <1>4 DEF FinishedCoherent, Decoding
  <2>1. ASSUME NEW tok \in Token, FirstToken(tok), pc' = "detect" PROVE FinishedInTime'
    <3>1. /\ call'.eos = {} /\ \A j \in Requests' : call'.rewind[j] = {}
      BY <1>0, <2>1, SlotsFilled
    <3> QED BY <2>1, <3>1 DEF FinishedInTime
  <2>2. ASSUME NEW ends \in SUBSET Requests, NEW closed \in SUBSET Requests,
               DetectEnds(ends, closed)
        PROVE  FinishedInTime'
    <3>1. Requests' = Requests /\ call'.think = call.think
      BY <1>0, <2>2, DetectEffect
    <3>2. pc' = "compact" /\ UNCHANGED supported
      BY <2>2 DEF DetectEnds
    <3>3. Fits
      BY <1>4, <3>1, <3>2 DEF Fits, SlotIds
    <3>4. /\ \A j \in Requests \ call'.eos : call'.rewind[j] \subseteq {Now(j)'}
          /\ \A j \in call'.eos \ call'.clash : Finished(j)'
      BY <2>2, <3>3, DetectFinished
    <3> QED BY <3>1, <3>2, <3>4 DEF FinishedInTime
  <2>3. ASSUME Compact PROVE FinishedInTime'
    <3>1. ResponsesStay
      BY <1>0, <2>3, CompactEffect
    <3>2. pc = "compact" /\ pc' = "check" /\ UNCHANGED supported /\ Decoding
      BY <2>3 DEF Compact, Decoding
    <3>3. Fits /\ Requests' = Requests /\ call'.eos = call.eos
      BY <1>4, <3>1, <3>2 DEF Fits, SlotIds, ResponsesStay
    <3>4. /\ \A j \in Requests \ call.eos : call.rewind[j] \subseteq {Now(j)}
          /\ \A j \in call.eos \ call.clash : Finished(j)
      BY <1>0, <3>2, <3>3 DEF FinishedInTime, Fits
    <3>5. \A j : Now(j)' = Now(j) /\ (Finished(j)' <=> Finished(j))
      BY <3>1, EntriesStay DEF ResponsesStay
    <3>6. /\ \A j \in Requests \ call'.eos : call'.rewind[j] \subseteq {Now(j)'}
          /\ \A j \in call'.eos \ call'.clash : Finished(j)'
      BY <3>1, <3>4, <3>5 DEF ResponsesStay
    <3>7. ASSUME call.eos # Requests, NEW k \in DOMAIN call'.active
          PROVE  call'.active[k] \notin call.eos
      <4>1. PICK left \in Seq(Requests) :
              /\ IsLeft(left)
              /\ Shrunk(left) \/ (~ Shrinks(left) /\ UNCHANGED <<slots, call>>)
        BY <1>0, <2>3, CompactEffect
      <4>2. CASE Shrunk(left)
        <5>1. call'.active = left
          BY <4>2 DEF Shrunk
        <5> QED BY <3>7, <4>1, <5>1 DEF IsLeft
      <4>3. CASE ~ Shrinks(left) /\ UNCHANGED <<slots, call>>
        <5>1. \A i \in DOMAIN call.active : call.active[i] \notin call.eos
          BY <1>0, <3>2, <3>3, <3>7, <4>1, <4>3, NothingToCompact DEF Fits
        <5> QED BY <3>7, <4>3, <5>1
      <4> QED BY <4>1, <4>2, <4>3
    <3>8. /\ (\A j \in Requests \ call.eos : call.rewind[j] \subseteq {Now(j)})'
          /\ (\A j \in call.eos \ call.clash : Finished(j))'
      BY <3>3, <3>6
    <3>9. (call.eos # Requests => \A k \in DOMAIN call.active : call.active[k] \notin call.eos)'
      BY <3>3, <3>7
    <3> QED BY <3>2, <3>8, <3>9 DEF FinishedInTime
  <2>4. ASSUME NEW next \in [DOMAIN call.active -> Token], EvalRound(next), pc' = "detect"
        PROVE  FinishedInTime'
    <3>1. Requests' = Requests /\ call'.think = call.think
      BY <1>0, <2>4, RoundEffect
    <3>2. UNCHANGED supported
      BY <2>4 DEF EvalRound
    <3>3. Fits
      BY <1>4, <3>1, <3>2 DEF Fits, SlotIds
    <3>4. /\ \A k \in DOMAIN call'.active : call'.active[k] \notin call'.eos
          /\ \A j \in Requests \ call'.eos : call'.rewind[j] = {} \/ Rewound(j)'
          /\ \A j \in call'.eos \ call'.clash : Finished(j)'
      BY <2>4, <3>3, RoundFinished
    <3>5. /\ (\A k \in DOMAIN call.active : call.active[k] \notin call.eos)'
          /\ (\A j \in Requests \ call.eos : call.rewind[j] = {} \/ Rewound(j))'
          /\ (\A j \in call.eos \ call.clash : Finished(j))'
      BY <3>1, <3>4
    <3> QED BY <2>4, <3>5 DEF FinishedInTime
  <2>5. FinishedInTime'
    BY <1>4, <2>1, <2>2, <2>3, <2>4, DecodingSteps
  <2> QED BY <1>0, <2>0, <2>5 DEF FinishedInv
<1>5. CASE Next /\ pc' = "save" /\ Fits'
  <2>0. FinishedCoherent' /\ ~ Decoding'
    BY <1>5 DEF FinishedCoherent, Decoding
  <2>1. ASSUME NEW tok \in Token, FirstToken(tok) PROVE call'.eos = {}
    <3>1. call'.eos = call.eos
      BY <1>0, <2>1, FirstTokenEffect
    <3> QED BY <1>0, <2>1, <3>1 DEF ShapeInv, CallShape, FirstToken, Prefilling
  <2>2. ASSUME LeaveLoop, NEW j \in call'.eos \ call'.clash PROVE Finished(j)'
    <3>1. UNCHANGED <<call, supported>> /\ Decoding
      BY <2>2 DEF LeaveLoop, Decoding
    <3>2. Finished(j)
      BY <1>0, <1>5, <2>2, <3>1 DEF FinishedInTime, Fits, SlotIds
    <3> QED BY <3>1, <3>2, EntriesStay
  <2>3. ASSUME NEW next \in [DOMAIN call.active -> Token], EvalRound(next)
        PROVE  \A j \in call'.eos \ call'.clash : Finished(j)'
    <3>1. call'.think = call.think /\ UNCHANGED supported
      BY <1>0, <2>3, RoundEffect DEF EvalRound
    <3>2. Fits
      BY <1>5, <3>1 DEF Fits, SlotIds
    <3> QED BY <2>3, <3>2, RoundFinished
  <2>4. \A j \in call'.eos \ call'.clash : Finished(j)'
    <3>1. ~ (SaveStates /\ pc' = "register") /\ ~ (RegisterRequest /\ pc' = "register")
      BY <1>5
    <3> QED BY <1>5, <2>1, <2>2, <2>3, <3>1, SavingSteps
  <2>5. FinishedInTime'
    BY <1>5, <2>0, <2>4 DEF FinishedInTime
  <2> QED BY <1>0, <2>0, <2>5 DEF FinishedInv
<1>6. CASE Next /\ pc' = "register" /\ Fits'
  <2>0. FinishedInTime'
    BY <1>6 DEF FinishedInTime, Decoding
  <2>1. CASE SaveStates
    <3>1. /\ Requests' = Requests /\ call'.think = call.think /\ call'.base = call.base
          /\ call'.eos = call.eos /\ call'.clash = call.clash
          /\ \A j \in Requests : /\ call'.saved[j] = KeptState(j)
                                 /\ call'.resp[j] = KeptResponse(j)
      BY <1>0, <1>6, <2>1, SaveEffect
    <3>2. pc = "save" /\ UNCHANGED supported
      BY <2>1 DEF SaveStates
    <3>3. \A j \in call.eos \ call.clash : Finished(j) /\ j \in Requests
      BY <1>0, <1>6, <3>1, <3>2
         DEF FinishedInTime, Fits, SlotIds, ShapeInv, TypeOK
    <3>4. ASSUME NEW j \in call.eos \ call.clash PROVE OwnState(j)'
      <4>1. call'.saved[j] = KeptState(j) /\ call'.resp[j] = KeptResponse(j)
        BY <3>1, <3>3
      <4>2. CASE Rewound(j)
        <5>1. call.rewind[j] = {Before(j)}
          BY <4>2 DEF Rewound
        <5>2. KeptState(j) = Before(j)
          BY <5>1 DEF KeptState
        <5>3. KeptResponse(j) = Front(call.resp[j])
          BY <5>1 DEF KeptResponse, Front
        <5> QED BY <3>1, <4>1, <5>2, <5>3 DEF OwnState, Before
      <4>3. CASE call.rewind[j] = {} /\ call.saved[j] = Now(j)
        BY <3>1, <4>1, <4>3 DEF KeptState, KeptResponse, OwnState, Now
      <4> QED BY <3>3, <4>2, <4>3 DEF Finished
    <3> QED BY <1>0, <2>0, <3>1, <3>4 DEF FinishedInv, FinishedCoherent
  <2>2. CASE RegisterRequest
    <3>1. /\ call'.saved = call.saved /\ call'.base = call.base /\ call'.resp = call.resp
          /\ call'.eos = call.eos /\ call'.think = call.think
          /\ call'.clash = call.clash
      BY <1>0, <2>2, RegisterEffect
    <3>2. pc = "register" /\ UNCHANGED supported
      BY <2>2 DEF RegisterRequest
    <3>3. \A j \in call.eos \ call.clash : OwnState(j)
      BY <1>0, <1>6, <3>1, <3>2 DEF FinishedCoherent, Fits, SlotIds
    <3>4. \A j \in call'.eos \ call'.clash : OwnState(j)'
      BY <3>1, <3>3 DEF OwnState
    <3> QED BY <1>0, <2>0, <3>4 DEF FinishedInv, FinishedCoherent
  <2>3. ~ LeaveLoop
    BY <1>6 DEF LeaveLoop
  <2>4. SaveStates \/ RegisterRequest
    BY <1>6, <2>3, SavingSteps
  <2> QED BY <2>1, <2>2, <2>4
<1>7. pc' \in {"save", "register"} \/ pc' \notin {"save", "register"}
  OBVIOUS
<1> QED BY <1>1, <1>2, <1>3, <1>4, <1>5, <1>6, <1>7

\* With every batch size at hand and outside the reasoning mode, what is about
\* to be registered for an ended request is the state of its kept response, unless
\* the token that ended it is on the rewind list.
THEOREM FinishedCoherentCorrect == Spec => []FinishedCoherent
<1>1. Init => FinishedInv
  BY FinishedInit
<1>2. FinishedInv /\ [Next]_vars => FinishedInv'
  BY FinishedStep
<1>3. FinishedInv => FinishedCoherent
  BY DEF FinishedInv
<1> QED BY <1>1, <1>2, <1>3, PTL DEF Spec

=============================================================================
