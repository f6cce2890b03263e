-------------------------- MODULE StateCacheProofs --------------------------
(***************************************************************************)
(* Lemmas about the operators of StateCache: what each operation on the    *)
(* tree preserves, for every tree, every vocabulary and every count.       *)
(***************************************************************************)
EXTENDS StateCache, SequenceTheorems, TLAPS

\* Feeding text gives a history of that text.
LEMMA AsTextHistory ==
    ASSUME NEW ids \in Seq(Token)
    PROVE  AsText(ids) \in State /\ KeyOf(AsText(ids)) = ids /\ Len(AsText(ids)) = Len(ids)
<1>1. AsText(ids) \in [1 .. Len(ids) -> Event]
  BY DEF AsText, Event
<1>2. AsText(ids) \in State
  BY <1>1, SeqDef DEF State
<1>3. Len(AsText(ids)) = Len(ids)
  BY <1>1, <1>2 DEF State
<1>4. KeyOf(AsText(ids)) = ids
  BY <1>1 DEF KeyOf, AsText
<1> QED BY <1>2, <1>3, <1>4

\* Feeding a file gives a history with the tag as its key.
LEMMA AsFileHistory ==
    ASSUME NEW ids \in Seq(Token)
    PROVE  AsFile(ids) \in State /\ KeyOf(AsFile(ids)) = ids /\ Len(AsFile(ids)) = Len(ids)
<1>1. AsFile(ids) \in [1 .. Len(ids) -> Event]
  BY DEF AsFile, Event
<1>2. AsFile(ids) \in State
  BY <1>1, SeqDef DEF State
<1>3. Len(AsFile(ids)) = Len(ids)
  BY <1>1, <1>2 DEF State
<1>4. KeyOf(AsFile(ids)) = ids
  BY <1>1 DEF KeyOf, AsFile
<1> QED BY <1>2, <1>3, <1>4

\* The key of a history is a sequence of tokens, and keys concatenate.
LEMMA KeyOfConcat ==
    ASSUME NEW g \in State, NEW h \in State
    PROVE  /\ g \o h \in State
           /\ KeyOf(g) \in Seq(Token)
           /\ KeyOf(g \o h) = KeyOf(g) \o KeyOf(h)
<1>1. g \o h \in State /\ Len(g \o h) = Len(g) + Len(h)
  BY DEF State
<1>2. ASSUME NEW s \in State
      PROVE  KeyOf(s) \in Seq(Token) /\ Len(KeyOf(s)) = Len(s)
  <2>0. DOMAIN s = 1 .. Len(s) /\ \A i \in 1 .. Len(s) : s[i] \in Event
    BY DEF State
  <2>1. KeyOf(s) \in [1 .. Len(s) -> Token]
    BY <2>0 DEF KeyOf, Event
  <2>2. KeyOf(s) \in Seq(Token)
    BY <2>1, SeqDef DEF State
  <2> QED BY <2>1, <2>2 DEF State
<1>3. KeyOf(g) \o KeyOf(h) \in Seq(Token) /\ Len(KeyOf(g) \o KeyOf(h)) = Len(g) + Len(h)
  BY <1>2
<1>4. ASSUME NEW i \in 1 .. Len(g) + Len(h)
      PROVE  KeyOf(g \o h)[i] = (KeyOf(g) \o KeyOf(h))[i]
  BY <1>1, <1>2 DEF KeyOf, State
<1> QED BY <1>1, <1>2, <1>3, <1>4, SeqEqual

\* Feeding no text changes nothing; feeding one token more is feeding the
\* text so far and then the token.
LEMMA AsTextGrows ==
    ASSUME NEW h \in State, NEW ids \in Seq(Token), NEW tok \in Token
    PROVE  /\ h \o AsText(<< >>) = h
           /\ (h \o AsText(ids)) \o AsText(<<tok>>) = h \o AsText(Append(ids, tok))
<1>1. << >> \in Seq(Token) /\ <<tok>> \in Seq(Token) /\ Append(ids, tok) \in Seq(Token)
  OBVIOUS
<1>2. /\ AsText(<< >>) \in Seq(Event) /\ Len(AsText(<< >>)) = 0
      /\ AsText(ids) \in Seq(Event) /\ Len(AsText(ids)) = Len(ids)
      /\ AsText(<<tok>>) \in Seq(Event) /\ Len(AsText(<<tok>>)) = 1
      /\ AsText(Append(ids, tok)) \in Seq(Event)
      /\ Len(AsText(Append(ids, tok))) = Len(ids) + 1
  <2>1. \A s \in Seq(Token) : AsText(s) \in Seq(Event) /\ Len(AsText(s)) = Len(s)
    BY AsTextHistory DEF State
  <2>2. Len(<< >>) = 0 /\ Len(<<tok>>) = 1 /\ Len(Append(ids, tok)) = Len(ids) + 1
    OBVIOUS
  <2>3. AsText(<< >>) \in Seq(Event) /\ Len(AsText(<< >>)) = 0
    BY <1>1, <2>1, <2>2
  <2>4. AsText(<<tok>>) \in Seq(Event) /\ Len(AsText(<<tok>>)) = 1
    BY <1>1, <2>1, <2>2
  <2>5. /\ AsText(Append(ids, tok)) \in Seq(Event)
        /\ Len(AsText(Append(ids, tok))) = Len(ids) + 1
    BY <1>1, <2>1, <2>2
  <2> QED BY <2>1, <2>3, <2>4, <2>5
<1>3. h \o AsText(<< >>) = h
  BY <1>2 DEF State
<1>4. AsText(ids) \o AsText(<<tok>>) = AsText(Append(ids, tok))
  <2> DEFINE s == AsText(ids) \o AsText(<<tok>>)
  <2> DEFINE t == AsText(Append(ids, tok))
  <2>1. s \in Seq(Event) /\ t \in Seq(Event) /\ Len(s) = Len(t) /\ Len(s) = Len(ids) + 1
    <3>1. s \in Seq(Event) /\ Len(s) = Len(AsText(ids)) + Len(AsText(<<tok>>))
      BY <1>2, ConcatProperties
    <3> QED BY <1>2, <3>1
  <2>2. ASSUME NEW i \in 1 .. Len(ids) + 1 PROVE s[i] = t[i]
    BY <1>1, <1>2 DEF AsText
  <2> HIDE DEF s, t
  <2>3. s = t
    BY <2>1, <2>2, SeqEqual
  <2> QED BY <2>3 DEF s, t
<1>5. (h \o AsText(ids)) \o AsText(<<tok>>) = h \o (AsText(ids) \o AsText(<<tok>>))
  <2>1. \A u, v \in Seq(Event) : (h \o u) \o v = h \o (u \o v)
    BY ConcatAssociative DEF State
  <2>2. AsText(ids) \in Seq(Event) /\ AsText(<<tok>>) \in Seq(Event)
    BY <1>2
  <2> QED BY <2>1, <2>2, Zenon
<1> QED BY <1>3, <1>4, <1>5

\* The response without the token just appended is the response before it.
LEMMA AppendDropped ==
    ASSUME NEW ids \in Seq(Token), NEW tok \in Token
    PROVE  SubSeq(Append(ids, tok), 1, Len(Append(ids, tok)) - 1) = ids
<1>1. Append(ids, tok) = ids \o <<tok>> /\ Len(Append(ids, tok)) - 1 = Len(ids)
  OBVIOUS
<1>2. CASE ids = << >>
  BY <1>2
<1>3. CASE ids # << >>
  <2>1. 1 \in 1 .. Len(ids) /\ Len(ids) \in 1 .. Len(ids)
    BY <1>3
  <2>2. <<tok>> \in Seq(Token)
    OBVIOUS
  <2>3. SubSeq(ids \o <<tok>>, 1, Len(ids)) = SubSeq(ids, 1, Len(ids))
    BY <2>1, <2>2, SubSeqOfConcat1
  <2> QED BY <1>1, <2>3, SubSeqFull
<1> QED BY <1>2, <1>3

-----------------------------------------------------------------------------
(* A tree that has the nodes, links, keys and states of another one. *)

SameButCounts(t, u) ==
    /\ DOMAIN u = DOMAIN t
    /\ \A n \in DOMAIN t :
         /\ u[n].parent = t[n].parent /\ u[n].anc = t[n].anc
         /\ u[n].ids = t[n].ids /\ u[n].state = t[n].state
         /\ u[n].logits = t[n].logits /\ u[n].const = t[n].const

\* Counting a use of a node changes nothing but that count.
LEMMA BumpFields ==
    ASSUME NEW t, IsTree(t), NEW c \in DOMAIN t
    PROVE  /\ IsTree(Bump(t, c))
           /\ SameButCounts(t, Bump(t, c))
           /\ \A n \in DOMAIN t :
                Bump(t, c)[n].cnt = IF n = c THEN t[n].cnt + 1 ELSE t[n].cnt
<1>1. /\ DOMAIN Bump(t, c) = DOMAIN t
      /\ \A n \in DOMAIN t :
           Bump(t, c)[n] = IF n = c THEN [t[c] EXCEPT !.cnt = @ + 1] ELSE t[n]
  BY DEF Bump, IsTree
<1>2. \A n \in DOMAIN t : t[n] \in Node
  BY DEF IsTree
<1>3. [t[c] EXCEPT !.cnt = @ + 1] \in Node
  BY <1>2 DEF Node
<1>4. SameButCounts(t, Bump(t, c))
  BY <1>1, <1>2 DEF SameButCounts, Node
<1>5. Bump(t, c) \in [DOMAIN t -> Node]
  BY <1>1, <1>2, <1>3 DEF Bump, IsTree
<1>6. IsTree(Bump(t, c))
  BY <1>1, <1>4, <1>5 DEF IsTree, SameButCounts
<1>7. \A n \in DOMAIN t :
        Bump(t, c)[n].cnt = IF n = c THEN t[n].cnt + 1 ELSE t[n].cnt
  BY <1>1, <1>2 DEF Node
<1> QED BY <1>4, <1>6, <1>7

\* Every owner of a node is in the tree.
LEMMA OwnersInTree ==
    ASSUME NEW t, IsTree(t), Linked(t), NEW n \in DOMAIN t
    PROVE  t[n].anc \cup {n} \subseteq DOMAIN t
BY DEF IsTree, Linked

\* Everything but the order of the counts is untouched by counting.
LEMMA CountsDoNotMatter ==
    ASSUME NEW t, NEW u, IsTree(t), SameButCounts(t, u)
    PROVE  /\ Linked(t) => Linked(u)
           /\ ConstAtTop(t) => ConstAtTop(u)
           /\ \A bad : (Linked(t) /\ CoherentTree(t, bad)) => CoherentTree(u, bad)
           /\ \A bad : (Linked(t) /\ ContinuingTree(t, bad)) => ContinuingTree(u, bad)
<1>1. Root \in DOMAIN t
  BY DEF IsTree
<1>2. Linked(t) => Linked(u)
  BY <1>1 DEF SameButCounts, Linked
<1>3. ConstAtTop(t) => ConstAtTop(u)
  BY DEF SameButCounts, ConstAtTop
<1>4. ASSUME NEW bad, Linked(t), CoherentTree(t, bad) PROVE CoherentTree(u, bad)
  <2>1. \A n \in DOMAIN t : Loaded(u, bad, n) => Loaded(t, bad, n)
    <3> SUFFICES ASSUME NEW n \in DOMAIN t, Loaded(u, bad, n),
                        NEW a \in t[n].anc \cup {n}, t[a].const
                 PROVE  t[a].ids \notin bad
      BY DEF Loaded
    <3>1. a \in DOMAIN t
      BY <1>4, OwnersInTree
    <3> QED BY <3>1 DEF SameButCounts, Loaded
  <2> QED BY <1>4, <2>1 DEF SameButCounts, CoherentTree
<1>5. ASSUME NEW bad, Linked(t), ContinuingTree(t, bad) PROVE ContinuingTree(u, bad)
  BY <1>5 DEF SameButCounts, ContinuingTree, Linked
<1> QED BY <1>2, <1>3, <1>4, <1>5

\* A sequence is a prefix of what extends it.
LEMMA PrefixOfConcat ==
    ASSUME NEW S, NEW s \in Seq(S), NEW w \in Seq(S)
    PROVE  IsPrefix(s, s \o w)
<1>1. CASE s = << >>
  BY <1>1 DEF IsPrefix
<1>2. CASE s # << >>
  <2>1. Len(s) \in 1 .. Len(s)
    BY <1>2
  <2>2. SubSeq(s \o w, 1, Len(s)) = SubSeq(s, 1, Len(s))
    BY <2>1, SubSeqOfConcat1
  <2> QED BY <2>2 DEF IsPrefix
<1> QED BY <1>1, <1>2

-----------------------------------------------------------------------------
(* Adding a node: what the new tree looks like, then what it preserves. *)

Adds(t, u, m, node) ==
    /\ DOMAIN u = DOMAIN t \cup {m}
    /\ u[m] = node
    /\ m \in Nat
    /\ \A n \in DOMAIN t : n < m /\ n # m /\ u[n] = t[n]

\* A node that fits below its parent in the tree t.
FitsBelow(t, node) ==
    /\ node.parent \in DOMAIN t
    /\ node.anc = t[node.parent].anc \cup {node.parent}
    /\ IsPrefix(t[node.parent].ids, node.ids)

\* A node whose state continues its parent's, and is its file's unless the load
\* of the file failed.
ContinuesIn(t, bad, node) ==
    /\ IsPrefix(t[node.parent].state, node.state)
    /\ (node.const /\ node.ids \notin bad) => node.state = AsFile(node.ids)

\* An added node leaves every other node as it was.
LEMMA AddNodeAdds ==
    ASSUME NEW t, IsTree(t), NEW m \in FreshIds(t), NEW node \in Node
    PROVE  IsTree(AddNode(t, m, node)) /\ Adds(t, AddNode(t, m, node), m, node)
<1>1. m \in Nat /\ \A n \in DOMAIN t : n < m /\ n # m
  BY DEF FreshIds, IsTree
<1>2. /\ DOMAIN AddNode(t, m, node) = DOMAIN t \cup {m}
      /\ AddNode(t, m, node)[m] = node
      /\ \A n \in DOMAIN t : AddNode(t, m, node)[n] = t[n]
  BY <1>1 DEF AddNode
<1>3. AddNode(t, m, node) \in [DOMAIN t \cup {m} -> Node]
  <2>1. \A n \in DOMAIN t : t[n] \in Node
    BY DEF IsTree
  <2> QED BY <2>1 DEF AddNode
<1>4. IsTree(AddNode(t, m, node))
  BY <1>1, <1>2, <1>3 DEF IsTree
<1> QED BY <1>1, <1>2, <1>4 DEF Adds

\* Whether a node is below a state that did not load does not depend on nodes
\* added later.
LEMMA AddsLoaded ==
    ASSUME NEW t, NEW u, NEW m, NEW node, IsTree(t), Linked(t),
           Adds(t, u, m, node), NEW bad, NEW n \in DOMAIN t
    PROVE  Loaded(u, bad, n) <=> Loaded(t, bad, n)
<1>1. t[n].anc \cup {n} \subseteq DOMAIN t
  BY OwnersInTree
<1>2. \A a \in DOMAIN t : u[a] = t[a]
  BY DEF Adds
<1> QED BY <1>1, <1>2 DEF Loaded

\* A node added below n, with n's ancestors and an extension of n's ids,
\* keeps the tree linked; what else is kept depends on the node alone.
LEMMA AddsKeeps ==
    ASSUME NEW t, NEW u, NEW m, NEW node, IsTree(t), Linked(t),
           Adds(t, u, m, node), FitsBelow(t, node)
    PROVE  /\ Linked(u)
           /\ (ConstAtTop(t) /\ (node.const => node.parent = Root)) => ConstAtTop(u)
           /\ \A bad : (/\ CoherentTree(t, bad)
                        /\ Loaded(u, bad, m) => KeyOf(node.state) = node.ids)
                => CoherentTree(u, bad)
           /\ \A bad : (ContinuingTree(t, bad) /\ ContinuesIn(t, bad, node))
                => ContinuingTree(u, bad)
           /\ (HotTree(t) /\ \A a \in node.anc \ {Root} : node.cnt <= t[a].cnt)
                => HotTree(u)
<1>1. \A n \in DOMAIN t \ {Root} : t[n].parent \in DOMAIN t
  BY DEF Linked
<1>2. \A n \in DOMAIN t \ {Root} : u[n] = t[n] /\ u[u[n].parent] = t[t[n].parent]
  BY <1>1 DEF Adds
<1>3. m # Root /\ u[m] = node /\ u[u[m].parent] = t[node.parent]
  BY DEF Adds, FitsBelow, IsTree
<1>4. DOMAIN u \ {Root} = (DOMAIN t \ {Root}) \cup {m}
  BY <1>3 DEF Adds
<1>5. Linked(u)
  <2>1. \A n \in DOMAIN t : u[n] = t[n] /\ \A a \in t[n].anc : a \in DOMAIN t /\ u[a] = t[a]
    BY DEF Adds, Linked, IsTree
  <2>2. \A a \in node.anc : a \in DOMAIN t /\ u[a] = t[a] /\ t[a].anc \subseteq node.anc
    BY DEF Adds, Linked, FitsBelow, IsTree
  <2>3. ASSUME NEW n \in DOMAIN t \ {Root}
        PROVE  /\ u[n].parent \in DOMAIN u
               /\ u[n].parent < n
               /\ u[n].anc = u[u[n].parent].anc \cup {u[n].parent}
               /\ u[n].anc \subseteq DOMAIN u
               /\ \A a \in u[n].anc : u[a].anc \subseteq u[n].anc
               /\ IsPrefix(u[u[n].parent].ids, u[n].ids)
    BY <1>2, <2>1 DEF Linked, Adds
  <2>4. /\ u[m].parent \in DOMAIN u
        /\ u[m].parent < m
        /\ u[m].anc = u[u[m].parent].anc \cup {u[m].parent}
        /\ u[m].anc \subseteq DOMAIN u
        /\ \A a \in u[m].anc : u[a].anc \subseteq u[m].anc
        /\ IsPrefix(u[u[m].parent].ids, u[m].ids)
    BY <1>3, <2>2 DEF Adds, FitsBelow
  <2> QED BY <1>4, <2>3, <2>4 DEF Linked
<1>6. (ConstAtTop(t) /\ (node.const => node.parent = Root)) => ConstAtTop(u)
  BY <1>2, <1>3, <1>4 DEF ConstAtTop
<1>7. ASSUME NEW bad, CoherentTree(t, bad),
             Loaded(u, bad, m) => KeyOf(node.state) = node.ids
      PROVE  CoherentTree(u, bad)
  <2>1. \A n \in DOMAIN t : Loaded(u, bad, n) => Loaded(t, bad, n)
    BY AddsLoaded
  <2> QED BY <1>7, <2>1 DEF CoherentTree, Adds
<1>8. ASSUME NEW bad, ContinuingTree(t, bad), ContinuesIn(t, bad, node)
      PROVE  ContinuingTree(u, bad)
  BY <1>2, <1>3, <1>4, <1>8 DEF ContinuingTree, ContinuesIn
<1>9. (HotTree(t) /\ \A a \in node.anc \ {Root} : node.cnt <= t[a].cnt)
        => HotTree(u)
  <2>1. \A n \in DOMAIN t : u[n] = t[n] /\ \A a \in t[n].anc : a \in DOMAIN t /\ u[a] = t[a]
    BY DEF Adds, Linked, IsTree
  <2>2. \A a \in node.anc : a \in DOMAIN t /\ u[a] = t[a]
    BY DEF Adds, Linked, FitsBelow, IsTree
  <2> QED BY <1>3, <2>1, <2>2 DEF HotTree, Adds
<1> QED BY <1>5, <1>6, <1>7, <1>8, <1>9

\* A registered checkpoint keeps the tree a tree; it keeps it coherent when
\* the state is the one for the node's ids and the appended ones, continuing
\* when the state continues the node's, and it never is hotter than the node.
LEMMA NewChildKeeps ==
    ASSUME NEW t, IsTree(t), Linked(t), ConstAtTop(t), NEW n \in DOMAIN t,
           NEW ids \in Seq(Token), NEW st \in State, NEW lg \in Logits,
           NEW m \in FreshIds(t),
           NEW u, u = AddNode(t, m, NewChild(t, n, ids, st, lg))
    PROVE  /\ IsTree(u) /\ Linked(u) /\ ConstAtTop(u)
           /\ m \in DOMAIN u /\ u[m] = NewChild(t, n, ids, st, lg)
           /\ Adds(t, u, m, NewChild(t, n, ids, st, lg))
           /\ \A bad : (/\ CoherentTree(t, bad)
                        /\ Loaded(t, bad, n) => KeyOf(st) = t[n].ids \o ids)
                => CoherentTree(u, bad)
           /\ \A bad : (ContinuingTree(t, bad) /\ IsPrefix(t[n].state, st))
                => ContinuingTree(u, bad)
           /\ \A bad : Loaded(u, bad, m) => Loaded(t, bad, n)
           /\ HotTree(t) => HotTree(u)
<1> DEFINE node == NewChild(t, n, ids, st, lg)
<1>1. /\ node \in Node /\ node.parent = n /\ node.anc = t[n].anc \cup {n}
      /\ node.ids = t[n].ids \o ids /\ IsPrefix(t[n].ids, node.ids)
      /\ node.state = st /\ node.cnt = t[n].cnt /\ node.const = FALSE
  <2>1. t[n] \in Node /\ n \in Nat
    BY DEF IsTree
  <2>2. t[n].ids \in Seq(Token) /\ t[n].anc \in SUBSET Nat /\ t[n].cnt \in Int
    BY <2>1 DEF Node
  <2>3. IsPrefix(t[n].ids, t[n].ids \o ids)
    BY <2>2, PrefixOfConcat
  <2>4. t[n].ids \o ids \in Seq(Token) /\ t[n].anc \cup {n} \in SUBSET Nat
    BY <2>1, <2>2
  <2>5. NewChild(t, n, ids, st, lg) \in Node
    BY <2>1, <2>2, <2>4 DEF NewChild, Node
  <2> QED BY <2>3, <2>5 DEF NewChild
<1>2. t[n].cnt \in Int
  BY DEF IsTree, Node
<1> HIDE DEF node
<1>3. IsTree(u) /\ Adds(t, u, m, node)
  BY <1>1, AddNodeAdds DEF node
<1>4. Root \in DOMAIN t /\ FitsBelow(t, node)
  BY <1>1 DEF IsTree, FitsBelow
<1>5. /\ Linked(u)
      /\ (ConstAtTop(t) /\ (node.const => node.parent = Root)) => ConstAtTop(u)
      /\ \A bad : (/\ CoherentTree(t, bad)
                   /\ Loaded(u, bad, m) => KeyOf(node.state) = node.ids)
           => CoherentTree(u, bad)
      /\ \A bad : (ContinuingTree(t, bad) /\ ContinuesIn(t, bad, node))
           => ContinuingTree(u, bad)
      /\ (HotTree(t) /\ \A a \in node.anc \ {Root} : node.cnt <= t[a].cnt)
           => HotTree(u)
  BY <1>3, <1>4, AddsKeeps
<1>6. m \in DOMAIN u /\ u[m] = node
  BY <1>3 DEF Adds
<1>7. HotTree(t) => \A a \in node.anc \ {Root} : node.cnt <= t[a].cnt
  BY <1>1, <1>2 DEF HotTree
<1>8. t[node.parent].state = t[n].state
  BY <1>1
<1>9. ASSUME NEW bad, Loaded(u, bad, m) PROVE Loaded(t, bad, n)
  <2>1. Loaded(u, bad, n)
    <3>1. u[m].anc = u[n].anc \cup {n}
      BY <1>1, <1>3, <1>6 DEF Adds
    <3> QED BY <1>9, <3>1 DEF Loaded
  <2> QED BY <1>3, <2>1, AddsLoaded
<1>10. \A bad : IsPrefix(t[n].state, st) => ContinuesIn(t, bad, node)
  BY <1>1, <1>8 DEF ContinuesIn
<1>11. \A bad : (CoherentTree(t, bad) /\ (Loaded(t, bad, n) => KeyOf(st) = t[n].ids \o ids))
                  => CoherentTree(u, bad)
  BY <1>1, <1>5, <1>9
<1>12. \A bad : (ContinuingTree(t, bad) /\ IsPrefix(t[n].state, st))
                  => ContinuingTree(u, bad)
  BY <1>5, <1>10
<1> QED BY <1>3, <1>5, <1>1, <1>6, <1>7, <1>9, <1>11, <1>12 DEF node

\* A state that fits a new child of n: it continues n's state by something
\* whose key is ids.
Extends(t, bad, n, ids, st) ==
    /\ st \in State
    /\ Loaded(t, bad, n) => KeyOf(st) = t[n].ids \o ids
    /\ IsPrefix(t[n].state, st)

\* Evaluating a history on the state of a coherent node gives such a state.
LEMMA ExtendsByHistory ==
    ASSUME NEW t, NEW bad, IsTree(t), CoherentTree(t, bad), NEW n \in DOMAIN t,
           NEW w \in State, NEW ids, KeyOf(w) = ids
    PROVE  Extends(t, bad, n, ids, t[n].state \o w)
<1>1. t[n].state \in State /\ (Loaded(t, bad, n) => KeyOf(t[n].state) = t[n].ids)
  BY DEF IsTree, Node, CoherentTree
<1>2. /\ t[n].state \o w \in State
      /\ KeyOf(t[n].state \o w) = KeyOf(t[n].state) \o KeyOf(w)
  BY <1>1, KeyOfConcat
<1>3. IsPrefix(t[n].state, t[n].state \o w)
  BY <1>1, PrefixOfConcat DEF State
<1> QED BY <1>1, <1>2, <1>3 DEF Extends

\* A child with such a state keeps the tree coherent.
LEMMA NewChildCoherent ==
    ASSUME NEW t, NEW bad, IsTree(t), Linked(t), ConstAtTop(t), NEW n \in DOMAIN t,
           NEW ids \in Seq(Token), NEW st, NEW lg \in Logits,
           NEW m \in FreshIds(t), Extends(t, bad, n, ids, st),
           NEW u, u = AddNode(t, m, NewChild(t, n, ids, st, lg))
    PROVE  /\ CoherentTree(t, bad) => CoherentTree(u, bad)
           /\ ContinuingTree(t, bad) => ContinuingTree(u, bad)
<1>1. /\ st \in State /\ IsPrefix(t[n].state, st)
      /\ Loaded(t, bad, n) => KeyOf(st) = t[n].ids \o ids
  BY DEF Extends
<1> QED BY <1>1, NewChildKeeps

\* A tag more whose load failed is one case more that nothing is said of.
LEMMA MoreMisloaded ==
    ASSUME NEW t, NEW bad, NEW more, bad \subseteq more
    PROVE  /\ CoherentTree(t, bad) => CoherentTree(t, more)
           /\ ContinuingTree(t, bad) => ContinuingTree(t, more)
<1>1. \A n \in DOMAIN t : Loaded(t, more, n) => Loaded(t, bad, n)
  BY DEF Loaded
<1>2. CoherentTree(t, bad) => CoherentTree(t, more)
  BY <1>1 DEF CoherentTree
<1>3. ContinuingTree(t, bad) => ContinuingTree(t, more)
  BY DEF ContinuingTree
<1> QED BY <1>2, <1>3

\* A loaded initial state keeps every property of the tree when its state is
\* the one its tag stands for, or the load of the tag has failed.
LEMMA ConstChildKeeps ==
    ASSUME NEW t, IsTree(t), Linked(t), ConstAtTop(t),
           NEW ids \in Seq(Token), NEW st \in State,
           NEW m \in FreshIds(t),
           NEW u, u = AddNode(t, m, ConstChild(t, ids, st))
    PROVE  /\ IsTree(u) /\ Linked(u) /\ ConstAtTop(u)
           /\ Adds(t, u, m, ConstChild(t, ids, st))
           /\ \A bad : (CoherentTree(t, bad) /\ (ids \in bad \/ KeyOf(st) = ids))
                => CoherentTree(u, bad)
           /\ \A bad : (ContinuingTree(t, bad) /\ (ids \in bad \/ st = AsFile(ids)))
                => ContinuingTree(u, bad)
           /\ HotTree(t) => HotTree(u)
<1> DEFINE node == ConstChild(t, ids, st)
<1>0. /\ Root \in Nat /\ Root \in DOMAIN t
      /\ t[Root].anc = {} /\ t[Root].ids = << >> /\ t[Root].state = << >>
  BY DEF IsTree, Root
<1>1. /\ node \in Node /\ node.parent = Root /\ node.anc = t[Root].anc \cup {Root}
      /\ node.ids = ids /\ IsPrefix(t[Root].ids, node.ids)
      /\ node.state = st /\ IsPrefix(t[Root].state, node.state) /\ node.const
  <2>1. ZeroLogits \in Logits
    BY DEF ZeroLogits, Logits, State
  <2>2. IsPrefix(<< >>, ids) /\ IsPrefix(<< >>, st)
    BY DEF IsPrefix, State
  <2>3. ConstChild(t, ids, st) \in Node
    BY <1>0, <2>1, ActivationAssumption DEF ConstChild, Node
  <2> QED BY <1>0, <2>2, <2>3 DEF ConstChild
<1> HIDE DEF node
<1>2. IsTree(u) /\ Adds(t, u, m, node)
  BY <1>1, AddNodeAdds DEF node
<1>4. FitsBelow(t, node)
  BY <1>0, <1>1 DEF FitsBelow
<1>3. /\ Linked(u)
      /\ (ConstAtTop(t) /\ (node.const => node.parent = Root)) => ConstAtTop(u)
      /\ \A bad : (/\ CoherentTree(t, bad)
                   /\ Loaded(u, bad, m) => KeyOf(node.state) = node.ids)
           => CoherentTree(u, bad)
      /\ \A bad : (ContinuingTree(t, bad) /\ ContinuesIn(t, bad, node))
           => ContinuingTree(u, bad)
      /\ (HotTree(t) /\ \A a \in node.anc \ {Root} : node.cnt <= t[a].cnt)
           => HotTree(u)
  BY <1>4, <1>2, AddsKeeps
<1>5. node.anc \ {Root} = {}
  BY <1>0, <1>1
<1>6. ASSUME NEW bad, CoherentTree(t, bad), ids \in bad \/ KeyOf(st) = ids
      PROVE  CoherentTree(u, bad)
  <2>1. ids \in bad => ~ Loaded(u, bad, m)
    BY <1>1, <1>2 DEF Loaded, Adds
  <2>2. Loaded(u, bad, m) => KeyOf(node.state) = node.ids
    BY <1>1, <1>6, <2>1
  <2> QED BY <1>3, <1>6, <2>2
<1>7. ASSUME NEW bad, ContinuingTree(t, bad), ids \in bad \/ st = AsFile(ids)
      PROVE  ContinuingTree(u, bad)
  <2>1. ContinuesIn(t, bad, node)
    BY <1>1, <1>7 DEF ContinuesIn
  <2> QED BY <1>3, <1>7, <2>1
<1>8. ConstAtTop(u) /\ (HotTree(t) => HotTree(u))
  BY <1>1, <1>3, <1>5
<1>9. IsTree(u) /\ Linked(u) /\ Adds(t, u, m, node)
  BY <1>2, <1>3
<1> QED BY <1>6, <1>7, <1>8, <1>9 DEF node

-----------------------------------------------------------------------------
(* Removing nodes: what is left is closed under owners. *)

Restricts(t, u) ==
    /\ DOMAIN u \subseteq DOMAIN t
    /\ Root \in DOMAIN u
    /\ \A n \in DOMAIN u :
         /\ u[n].parent = t[n].parent /\ u[n].anc = t[n].anc
         /\ u[n].ids = t[n].ids /\ u[n].state = t[n].state
         /\ u[n].logits = t[n].logits /\ u[n].const = t[n].const
    /\ \A n \in DOMAIN u : t[n].anc \subseteq DOMAIN u

\* Everything but the order of the counts survives a removal.
LEMMA RestrictsKeeps ==
    ASSUME NEW t, NEW u, Linked(t), ConstAtTop(t), Restricts(t, u)
    PROVE  /\ Linked(u) /\ ConstAtTop(u)
           /\ \A bad : CoherentTree(t, bad) => CoherentTree(u, bad)
           /\ \A bad : ContinuingTree(t, bad) => ContinuingTree(u, bad)
<1>1. Linked(u)
  BY DEF Restricts, Linked
<1>2. ConstAtTop(u)
  BY DEF Restricts, ConstAtTop
<1>3. ASSUME NEW bad, CoherentTree(t, bad) PROVE CoherentTree(u, bad)
  <2>1. \A n \in DOMAIN u : Loaded(u, bad, n) => Loaded(t, bad, n)
    BY DEF Restricts, Loaded
  <2> QED BY <1>3, <2>1 DEF Restricts, CoherentTree
<1>4. ASSUME NEW bad, ContinuingTree(t, bad) PROVE ContinuingTree(u, bad)
  BY <1>4 DEF Restricts, ContinuingTree, Linked
<1> QED BY <1>1, <1>2, <1>3, <1>4

\* unload_initial_state erases a child of the root with all its subtree, and
\* touches nothing else.
LEMMA RemoveSubtreeKeeps ==
    ASSUME NEW t, IsTree(t), Linked(t), NEW c \in DOMAIN t \ {Root}
    PROVE  /\ IsTree(RemoveSubtree(t, c))
           /\ Restricts(t, RemoveSubtree(t, c))
           /\ HotTree(t) => HotTree(RemoveSubtree(t, c))
<1> DEFINE D == {m \in DOMAIN t : m # c /\ c \notin t[m].anc}
<1> DEFINE u == RemoveSubtree(t, c)
<1>1. DOMAIN u = D /\ \A n \in D : u[n] = t[n]
  BY DEF RemoveSubtree
<1>2. Root \in D /\ D \subseteq DOMAIN t
  BY DEF IsTree
<1>3. ASSUME NEW n \in D
      PROVE  t[n].anc \subseteq D
  BY <1>3 DEF Linked, IsTree
<1> HIDE DEF u, D
<1>4. Restricts(t, u)
  BY <1>1, <1>2, <1>3 DEF Restricts
<1>5. IsTree(u)
  <2>1. u \in [DOMAIN u -> Node]
    <3>1. u = [n \in D |-> t[n]]
      BY DEF u, D, RemoveSubtree
    <3> QED BY <1>1, <1>2, <3>1 DEF IsTree
  <2> QED BY <1>1, <1>2, <2>1 DEF IsTree
<1>6. HotTree(t) => HotTree(u)
  BY <1>1, <1>2, <1>3 DEF HotTree
<1> QED BY <1>4, <1>5, <1>6 DEF u

\* cleanup_state_tree keeps the tree a tree and the counts ordered: parent
\* and child lose one use each.
LEMMA CleanedKeeps ==
    ASSUME NEW t, IsTree(t), Linked(t), ConstAtTop(t)
    PROVE  /\ IsTree(Cleaned(t))
           /\ Restricts(t, Cleaned(t))
           /\ HotTree(t) => HotTree(Cleaned(t))
<1> DEFINE u == Cleaned(t)
<1>0. \A n \in DOMAIN t : t[n] \in Node
  BY DEF IsTree
<1>1. /\ DOMAIN u = Kept(t)
      /\ \A n \in Kept(t) :
           u[n] = IF n = Root \/ t[n].const THEN t[n] ELSE [t[n] EXCEPT !.cnt = @ - 1]
  BY DEF Cleaned
<1>2. Root \in Kept(t) /\ Kept(t) \subseteq DOMAIN t
  BY DEF Kept, Active, IsTree
<1>3. ASSUME NEW n \in Kept(t)
      PROVE  t[n].anc \subseteq Kept(t)
  BY <1>2, <1>3 DEF Linked, Kept, IsTree
<1>4. \A n \in Kept(t) :
        /\ u[n].parent = t[n].parent /\ u[n].anc = t[n].anc
        /\ u[n].ids = t[n].ids /\ u[n].state = t[n].state
        /\ u[n].logits = t[n].logits /\ u[n].const = t[n].const
        /\ u[n].cnt = IF n = Root \/ t[n].const THEN t[n].cnt ELSE t[n].cnt - 1
        /\ u[n] \in Node
  <2> SUFFICES ASSUME NEW n \in Kept(t)
               PROVE  /\ u[n].parent = t[n].parent /\ u[n].anc = t[n].anc
                      /\ u[n].ids = t[n].ids /\ u[n].state = t[n].state
                      /\ u[n].logits = t[n].logits /\ u[n].const = t[n].const
                      /\ u[n].cnt = IF n = Root \/ t[n].const
                                    THEN t[n].cnt ELSE t[n].cnt - 1
                      /\ u[n] \in Node
    OBVIOUS
  <2>1. t[n] \in Node
    BY <1>0, <1>2
  <2>2. CASE n = Root \/ t[n].const
    BY <1>1, <2>1, <2>2
  <2>3. CASE ~ (n = Root \/ t[n].const)
    <3>1. u[n] = [t[n] EXCEPT !.cnt = @ - 1]
      BY <1>1, <2>3
    <3> QED BY <2>1, <2>3, <3>1 DEF Node
  <2> QED BY <2>2, <2>3
<1> HIDE DEF u
<1>5. Restricts(t, u)
  BY <1>1, <1>2, <1>3, <1>4 DEF Restricts
<1>6. IsTree(u)
  <2>1. u \in [DOMAIN u -> Node]
    <3>1. u = [n \in Kept(t) |-> u[n]]
      BY <1>1 DEF u, Cleaned
    <3> QED BY <1>1, <1>4, <3>1
  <2> QED BY <1>1, <1>2, <1>4, <2>1 DEF IsTree
<1>7. HotTree(t) => HotTree(u)
  <2> SUFFICES ASSUME HotTree(t), NEW n \in Kept(t), NEW a \in t[n].anc \ {Root}
               PROVE  u[n].cnt <= u[a].cnt
    BY <1>1, <1>4 DEF HotTree
  <2>1. a \in Kept(t) /\ n \in DOMAIN t /\ a \in DOMAIN t /\ n # Root
    BY <1>2, <1>3 DEF IsTree
  <2>2. t[n].cnt \in Int /\ t[a].cnt \in Int
    BY <1>0, <2>1 DEF Node
  <2>3. t[n].cnt <= t[a].cnt
    BY <2>1 DEF HotTree
  <2>4. ~ t[n].const
    BY <2>1 DEF ConstAtTop, Linked, IsTree
  <2> QED BY <1>4, <2>1, <2>2, <2>3, <2>4
<1> QED BY <1>5, <1>6, <1>7 DEF u

\* With ordered counts a node that is still in use has only owners that are,
\* so a cleanup keeps it.
LEMMA HotActiveKept ==
    ASSUME NEW t, IsTree(t), Linked(t), ConstAtTop(t), HotTree(t)
    PROVE  Kept(t) = {n \in DOMAIN t : Active(t, n)}
<1> SUFFICES ASSUME NEW n \in DOMAIN t, Active(t, n), NEW a \in t[n].anc
             PROVE  Active(t, a)
  BY DEF Kept
<1>1. CASE a = Root
  BY <1>1 DEF Active
<1>2. CASE a # Root
  <2>1. n # Root /\ a \in DOMAIN t
    BY DEF IsTree, Linked
  <2>2. ~ t[n].const
    BY <1>2, <2>1 DEF ConstAtTop, Linked, IsTree
  <2>3. t[n].cnt > 0 /\ t[n].cnt <= t[a].cnt /\ t[n].cnt \in Int /\ t[a].cnt \in Int
    BY <1>2, <2>1, <2>2 DEF Active, HotTree, IsTree, Node
  <2> QED BY <2>3 DEF Active
<1> QED BY <1>1, <1>2

=============================================================================
