----------------------------- MODULE StateCache -----------------------------
(***************************************************************************)
(* The prefix cache of one loaded model: the tree of `state_node`s kept by *)
(* `execution_provider` (src/src/backend.h, src/src/backend.cpp).          *)
(*                                                                         *)
(* The tree is a function from node numbers to records.  Node 0 is         *)
(* `state_root`.  `children` is a vector that only grows at its back, so   *)
(* the children of a node in vector order are its children in increasing   *)
(* node number.  `anc` is the set of proper ancestors: a unique_ptr owns   *)
(* its subtree, so erasing a child erases every node that has it in `anc`. *)
(*                                                                         *)
(* A backend state is abstracted to the history it is a function of: the   *)
(* sequence of events that were fed to the model since zero_state().  The  *)
(* same tokens may have been fed as text, or a tag may stand for the file  *)
(* it names (an initial state, an image, an audio clip).                   *)
(***************************************************************************)
EXTENDS Integers, FiniteSets, SequencesExt

CONSTANTS
    Token,            \* token ids of the vocabulary
    ActivationInit,   \* activation_count of the root: 20 in the code
    ActivationConst   \* activation_count of a loaded initial state: 50

ASSUME ActivationAssumption ==
    /\ ActivationInit \in Nat
    /\ ActivationConst \in Nat

Root == 0

Event == [tok : Token, how : {"text", "file"}]

State == Seq(Event)

\* eval(ids): the tokens themselves are fed.
AsText(ids) == [i \in DOMAIN ids |-> [tok |-> ids[i], how |-> "text"]]

\* load_raw_states, eval_with_embeddings: the content of the file is fed
\* under the name of its tag.
AsFile(ids) == [i \in DOMAIN ids |-> [tok |-> ids[i], how |-> "file"]]

\* The token ids a history stands for in the keys of the tree.
KeyOf(hist) == [i \in DOMAIN hist |-> hist[i].tok]

\* Logits: none yet (a null pointer), the zero vector, or the output of the
\* model after a history.
Logits == [kind : {"none", "zeros", "eval"}, of : State]

NoLogits == [kind |-> "none", of |-> << >>]

ZeroLogits == [kind |-> "zeros", of |-> << >>]

LogitsAfter(hist) == [kind |-> "eval", of |-> hist]

Node == [parent : Nat, anc : SUBSET Nat, ids : Seq(Token), state : State,
         logits : Logits, cnt : Int, const : BOOLEAN]

EmptyTree ==
    [n \in {Root} |-> [parent |-> Root, anc |-> {}, ids |-> << >>,
                       state |-> << >>, logits |-> ZeroLogits,
                       cnt |-> ActivationInit, const |-> FALSE]]

-----------------------------------------------------------------------------

Children(t, n) == {c \in DOMAIN t \ {Root} : t[c].parent = n}

\* c is what a loop over a vector of children finds first in the set S.
IsFirst(c, S) == c \in S /\ \A d \in S : c <= d

\* Children that the loop of match_and_load_state accepts.
Matching(t, n, ids) == {c \in Children(t, n) : IsPrefix(t[c].ids, ids)}

\* Children that the duplicate test of register_state_checkpoint_with_state
\* accepts: the child's cumulative ids against the ids to append.
SameIds(t, n, ids) == {c \in Children(t, n) : t[c].ids = ids}

Bump(t, n) == [t EXCEPT ![n].cnt = @ + 1]

\* A number for a node that is appended to some vector of children.
FreshIds(t) == {m \in {n + 1 : n \in DOMAIN t} : \A n \in DOMAIN t : n < m}

AddNode(t, m, node) == [n \in DOMAIN t \cup {m} |-> IF n = m THEN node ELSE t[n]]

\* Slip: a new child is counted as if it had been matched.
NewChildCounted(t, n, ids, st, lg) ==
    [parent |-> n, anc |-> t[n].anc \cup {n}, ids |-> t[n].ids \o ids,
     state |-> st, logits |-> lg, cnt |-> t[n].cnt + 1, const |-> FALSE]

NewChild(t, n, ids, st, lg) ==
    [parent |-> n, anc |-> t[n].anc \cup {n}, ids |-> t[n].ids \o ids,
     state |-> st, logits |-> lg, cnt |-> t[n].cnt, const |-> FALSE]

ConstChild(t, ids, st) ==
    [parent |-> Root, anc |-> {Root}, ids |-> ids, state |-> st,
     logits |-> ZeroLogits, cnt |-> ActivationConst, const |-> TRUE]

\* Slip: what hangs below an erased child is kept.
RemoveOnlyNode(t, c) == [n \in DOMAIN t \ {c} |-> t[n]]

RemoveSubtree(t, c) == [n \in {m \in DOMAIN t : m # c /\ c \notin t[m].anc} |-> t[n]]

\* cleanup_state_tree keeps a child that is constant or still has a count.
Active(t, n) == n = Root \/ t[n].const \/ t[n].cnt > 0

Kept(t) == {n \in DOMAIN t : Active(t, n) /\ \A a \in t[n].anc : Active(t, a)}

\* Slip: the count is lowered before it is tested.
CleanedEarly(t) ==
    [n \in {k \in Kept(t) : k = Root \/ t[k].const \/ t[k].cnt > 1} |->
        IF n = Root \/ t[n].const THEN t[n] ELSE [t[n] EXCEPT !.cnt = @ - 1]]

Cleaned(t) ==
    [n \in Kept(t) |-> IF n = Root \/ t[n].const THEN t[n]
                       ELSE [t[n] EXCEPT !.cnt = @ - 1]]

-----------------------------------------------------------------------------
(* What the tree is meant to be, as predicates on a tree. *)

\* Every node is a node record, and the root is the empty text.
IsTree(t) ==
    /\ DOMAIN t \subseteq Nat
    /\ Root \in DOMAIN t
    /\ t \in [DOMAIN t -> Node]
    /\ t[Root].anc = {} /\ t[Root].ids = << >> /\ t[Root].state = << >>
    /\ ~ t[Root].const

\* Every owner of a node is in the tree, and a child extends its parent's key.
Linked(t) ==
    \A n \in DOMAIN t \ {Root} :
        /\ t[n].parent \in DOMAIN t
        /\ t[n].parent < n
        /\ t[n].anc = t[t[n].parent].anc \cup {t[n].parent}
        /\ t[n].anc \subseteq DOMAIN t
        /\ \A a \in t[n].anc : t[a].anc \subseteq t[n].anc
        /\ IsPrefix(t[t[n].parent].ids, t[n].ids)

\* n is neither a loaded initial state whose tag is in bad nor below one.
Loaded(t, bad, n) == \A a \in t[n].anc \cup {n} : t[a].const => t[a].ids \notin bad

\* The state of a node is the state for the text of its ids, but where the
\* loading of a tag in bad has failed.
CoherentTree(t, bad) ==
    \A n \in DOMAIN t : Loaded(t, bad, n) => KeyOf(t[n].state) = t[n].ids

\* The state of a node continues the state of its parent, and a loaded initial
\* state whose tag is not in bad is the content of its file.
ContinuingTree(t, bad) ==
    \A n \in DOMAIN t \ {Root} :
        /\ IsPrefix(t[t[n].parent].state, t[n].state)
        /\ (t[n].const /\ t[n].ids \notin bad) => t[n].state = AsFile(t[n].ids)

\* No node has a larger count than an owner of it below the root.
HotTree(t) ==
    \A n \in DOMAIN t : \A a \in t[n].anc \ {Root} : t[n].cnt <= t[a].cnt

\* Loaded initial states are children of the root.
ConstAtTop(t) == \A n \in DOMAIN t \ {Root} : t[n].const => t[n].parent = Root

=============================================================================
