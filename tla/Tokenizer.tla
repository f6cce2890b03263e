------------------------------ MODULE Tokenizer ------------------------------
(***************************************************************************)
(* The vocabulary and the trie of src/src/trie.hpp, behind trie_tokenizer  *)
(* (src/src/tokenizer.cpp).                                                *)
(*                                                                         *)
(* A vocabulary file is a sequence of lines, each a token id and the bytes *)
(* it stands for (the escapes of the file format are left out).  The trie  *)
(* is the set of paths from its root, with the ids at the end of each.     *)
(* encode walks down from the root one byte at a time and keeps the last   *)
(* id it passed.                                                           *)
(***************************************************************************)
EXTENDS Integers, Sequences

CONSTANTS
    Bytes,
    VocabFiles,   \* the files that may be loaded
    Texts,        \* the texts that are encoded
    Eod,          \* the bytes "<EOD>"
    Garbage       \* what is read behind the end of token_data

ASSUME TokenizerAssumption ==
    /\ VocabFiles \subseteq Seq([id : Nat, bytes : Seq(Bytes) \ {<< >>}])
    /\ Texts \subseteq Seq(Bytes)
    /\ Eod \in Seq(Bytes) \ {<< >>}
    /\ Garbage \in Seq(Bytes)

VARIABLES
    lines,        \* the vocabulary file
    loaded,       \* lines read
    token_data,
    data_idx,     \* idx_to_data_idx, counted from 0
    ids_of,       \* data_to_idx
    values,       \* the trie: the ids at each of its nodes
    phase,        \* "load", "ready" or "scan"
    text,         \* the text that is encoded
    pos,          \* where the current token begins
    idx,          \* where the walk down the trie is
    ret,          \* the last token passed: where it ends, and its id
    tokens,       \* the tokens found
    out           \* what decode makes of them

vocab == <<lines, loaded, token_data, data_idx, ids_of, values>>
vars == <<vocab, phase, text, pos, idx, ret, tokens, out>>

Init ==
    /\ lines \in VocabFiles
    /\ loaded = 0
    /\ token_data = << >>
    /\ data_idx = [id \in {} |-> 0]
    /\ ids_of = [bytes \in {} |-> 0]
    /\ values = [path \in {<< >>} |-> {}]
    /\ phase = "load"
    /\ text = << >> /\ pos = 0 /\ idx = 0 /\ ret = <<0, 0>>
    /\ tokens = << >> /\ out = << >>

-----------------------------------------------------------------------------
(* The vocabulary. *)

\* add_token: the second id for the same bytes gets the first id, where the
\* place of the bytes in token_data is meant.
AddToken(id, bytes) ==
    IF bytes \in DOMAIN ids_of
    THEN /\ data_idx' = [i \in DOMAIN data_idx \cup {id} |->
                           IF i = id THEN ids_of[bytes] ELSE data_idx[i]]
         /\ UNCHANGED <<token_data, ids_of>>
    ELSE /\ token_data' = Append(token_data, bytes)
         /\ data_idx' = [i \in DOMAIN data_idx \cup {id} |->
                           IF i = id THEN Len(token_data) ELSE data_idx[i]]
         /\ ids_of' = [b \in DOMAIN ids_of \cup {bytes} |->
                         IF b = bytes THEN id ELSE ids_of[b]]

Prefixes(bytes) == {SubSeq(bytes, 1, n) : n \in 0 .. Len(bytes)}

\* OptimizedTrie::add
AddPath(id, bytes) ==
    values' = [path \in DOMAIN values \cup Prefixes(bytes) |->
                 (IF path \in DOMAIN values THEN values[path] ELSE {})
                   \cup (IF path = bytes THEN {id} ELSE {})]

ReadLine ==
    /\ phase = "load" /\ loaded < Len(lines)
    /\ AddToken(lines[loaded + 1].id, lines[loaded + 1].bytes)
    /\ AddPath(lines[loaded + 1].id, lines[loaded + 1].bytes)
    /\ loaded' = loaded + 1
    /\ UNCHANGED <<lines, phase, text, pos, idx, ret, tokens, out>>

AddEod ==
    /\ phase = "load" /\ loaded = Len(lines)
    /\ AddToken(0, Eod)
    /\ AddPath(0, Eod)
    /\ phase' = "ready"
    /\ UNCHANGED <<lines, loaded, text, pos, idx, ret, tokens, out>>

\* get_token_data
Data(id) ==
    IF id \notin DOMAIN data_idx THEN << >>
    ELSE IF data_idx[id] < Len(token_data) THEN token_data[data_idx[id] + 1]
    ELSE Garbage

-----------------------------------------------------------------------------
(* Encoding. *)

\* Slip: the position of the text before is kept.
EncodeGoesOn(src) ==
    /\ phase = "ready"
    /\ phase' = "scan" /\ text' = src
    /\ idx' = 0 /\ ret' = <<0, 0>> /\ tokens' = << >> /\ out' = << >>
    /\ UNCHANGED <<vocab, pos>>

Encode(src) ==
    /\ phase = "ready"
    /\ phase' = "scan" /\ text' = src
    /\ pos' = 0 /\ idx' = 0 /\ ret' = <<0, 0>> /\ tokens' = << >> /\ out' = << >>
    /\ UNCHANGED vocab

Walked(n) == SubSeq(text, pos + 1, n)

\* The node of the trie for one byte more.
CanDescend == idx < Len(text) /\ Walked(idx + 1) \in DOMAIN values

\* Slip: the first token passed is kept.
DescendFirst ==
    /\ phase = "scan" /\ pos < Len(text) /\ CanDescend
    /\ idx' = idx + 1
    /\ IF values[Walked(idx + 1)] = {} \/ ret # <<0, 0>> THEN UNCHANGED ret
       ELSE \E id \in values[Walked(idx + 1)] : ret' = <<idx + 1, id>>
    /\ UNCHANGED <<vocab, phase, text, pos, tokens, out>>

\* One step of find_longest_fast; which of several ids a set gives is open.
Descend ==
    /\ phase = "scan" /\ pos < Len(text) /\ CanDescend
    /\ idx' = idx + 1
    /\ IF values[Walked(idx + 1)] = {} THEN UNCHANGED ret
       ELSE \E id \in values[Walked(idx + 1)] : ret' = <<idx + 1, id>>
    /\ UNCHANGED <<vocab, phase, text, pos, tokens, out>>

\* Slip: the next token begins where the walk ended.
TakeAll ==
    /\ phase = "scan" /\ pos < Len(text) /\ ~ CanDescend /\ ret[1] > pos
    /\ tokens' = Append(tokens, ret[2])
    /\ out' = out \o Data(ret[2])
    /\ pos' = idx /\ ret' = <<0, 0>>
    /\ UNCHANGED <<vocab, phase, text, idx>>

\* The token is taken and the walk begins anew behind it.
Take ==
    /\ phase = "scan" /\ pos < Len(text) /\ ~ CanDescend /\ ret[1] > pos
    /\ tokens' = Append(tokens, ret[2])
    /\ out' = out \o Data(ret[2])
    /\ pos' = ret[1] /\ idx' = ret[1] /\ ret' = <<0, 0>>
    /\ UNCHANGED <<vocab, phase, text>>

\* Slip: a token of one byte is taken for none.
FinishEarly ==
    /\ phase = "scan"
    /\ pos = Len(text) \/ (~ CanDescend /\ ret[1] <= pos + 1)
    /\ phase' = "ready"
    /\ UNCHANGED <<vocab, text, pos, idx, ret, tokens, out>>

\* Slip: where no token begins the walk is tried again.
FinishRetries ==
    /\ phase = "scan"
    /\ \/ pos = Len(text) /\ phase' = "ready" /\ UNCHANGED <<idx, ret>>
       \/ /\ pos < Len(text) /\ ~ CanDescend /\ ret[1] <= pos
          /\ idx' = pos /\ ret' = <<0, 0>> /\ UNCHANGED phase
    /\ UNCHANGED <<vocab, text, pos, tokens, out>>

\* At the end of the text, or where no token begins, encode returns what it has.
Finish ==
    /\ phase = "scan"
    /\ pos = Len(text) \/ (~ CanDescend /\ ret[1] <= pos)
    /\ phase' = "ready"
    /\ UNCHANGED <<vocab, text, pos, idx, ret, tokens, out>>

Next ==
    \/ ReadLine \/ AddEod
    \/ \E src \in Texts : Encode(src)
    \/ Descend \/ Take \/ Finish

Spec == Init /\ [][Next]_vars

\* Calls of load, encode and decode run to their end.
FairSpec == Spec /\ WF_vars(ReadLine \/ AddEod \/ Descend \/ Take \/ Finish)

-----------------------------------------------------------------------------
(* Properties. *)

\* Types, and the positions of a walk within its text.
TypeOK ==
    /\ lines \in VocabFiles /\ loaded \in 0 .. Len(lines)
    /\ token_data \in Seq(Seq(Bytes))
    /\ DOMAIN data_idx \subseteq Nat /\ \A id \in DOMAIN data_idx : data_idx[id] \in Nat
    /\ DOMAIN ids_of \subseteq Seq(Bytes) /\ \A b \in DOMAIN ids_of : ids_of[b] \in Nat
    /\ DOMAIN values \subseteq Seq(Bytes)
    /\ \A path \in DOMAIN values : values[path] \subseteq Nat
    /\ phase \in {"load", "ready", "scan"}
    /\ text \in Texts \cup {<< >>}
    /\ pos \in 0 .. Len(text) /\ idx \in pos .. Len(text)
    /\ ret \in (0 .. idx) \X Nat
    /\ tokens \in Seq(Nat) /\ out \in Seq(Bytes)

\* Every id and every sequence of bytes occurs once in the file.
Distinct ==
    /\ \A i, j \in 1 .. Len(lines) :
         i # j => lines[i].id # lines[j].id /\ lines[i].bytes # lines[j].bytes
    /\ \A i \in 1 .. Len(lines) : lines[i].id # 0 /\ lines[i].bytes # Eod

\* Decoding what was encoded gives the text back, as far as it was read.  (Not
\* with two ids for the same bytes, trie.hpp:202.)
DecodesBack == Distinct => out = SubSeq(text, 1, pos)

\* A sequence of bytes of the vocabulary that stands in the text at n.
Known == {lines[i].bytes : i \in 1 .. Len(lines)} \cup {Eod}
Matches(bytes, n) ==
    n + Len(bytes) <= Len(text) /\ SubSeq(text, n + 1, n + Len(bytes)) = bytes

\* A token that is taken is the longest of the vocabulary that matches there.
LongestTaken ==
    [][tokens' # tokens /\ tokens' # << >> =>
         /\ Matches(SubSeq(text, pos + 1, pos'), pos) /\ SubSeq(text, pos + 1, pos') \in Known
         /\ \A bytes \in Known : Matches(bytes, pos) => Len(bytes) <= pos' - pos]_vars

\* What is left of a text when encode returns begins with bytes that no token
\* of the vocabulary stands for.
DropsOnlyUnknown ==
    phase = "ready" /\ pos < Len(text) => \A bytes \in Known : ~ Matches(bytes, pos)

\* encode returns, whatever the text and the vocabulary.
EncodeEnds == phase = "scan" ~> phase = "ready"

=============================================================================
