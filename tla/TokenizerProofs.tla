--------------------------- MODULE TokenizerProofs ---------------------------
(***************************************************************************)
(* encode takes the longest token at every place, decode gives the text    *)
(* back, and only what no token begins with is dropped: for every          *)
(* vocabulary and every text.                                              *)
(***************************************************************************)
EXTENDS Tokenizer, SequenceTheorems, TLAPS

-----------------------------------------------------------------------------
(* Pieces of a text. *)

LEMMA Part ==
    ASSUME NEW T, NEW s \in Seq(T), NEW i \in 0 .. Len(s), NEW j \in i .. Len(s)
    PROVE  /\ SubSeq(s, i + 1, j) \in Seq(T) /\ Len(SubSeq(s, i + 1, j)) = j - i
           /\ \A k \in 1 .. j - i : SubSeq(s, i + 1, j)[k] = s[i + k]
<1> DEFINE p == SubSeq(s, i + 1, j)
<1>1. /\ \A k \in i + 1 .. j : s[k] \in T
      /\ i + 1 \in Int /\ j \in Int
  OBVIOUS
<1>2. /\ p \in Seq(T) /\ Len(p) = (IF i + 1 <= j THEN j - (i + 1) + 1 ELSE 0)
      /\ \A k \in 1 .. j - (i + 1) + 1 : p[k] = s[i + 1 + k - 1]
  BY <1>1, SubSeqProperties
<1> HIDE DEF p
<1>3. p \in Seq(T) /\ Len(p) = j - i /\ \A k \in 1 .. j - i : p[k] = s[i + k]
  BY <1>2
<1> QED BY <1>3 DEF p

\* A piece, and the one behind it.
LEMMA PartJoin ==
    ASSUME NEW T, NEW s \in Seq(T), NEW i \in 0 .. Len(s), NEW j \in i .. Len(s)
    PROVE  SubSeq(s, 1, i) \o SubSeq(s, i + 1, j) = SubSeq(s, 1, j)
<1> DEFINE x == SubSeq(s, 0 + 1, i)
           y == SubSeq(s, i + 1, j)
           z == SubSeq(s, 0 + 1, j)
<1>1. /\ x \in Seq(T) /\ Len(x) = i - 0 /\ \A k \in 1 .. i - 0 : x[k] = s[0 + k]
      /\ y \in Seq(T) /\ Len(y) = j - i /\ \A k \in 1 .. j - i : y[k] = s[i + k]
      /\ z \in Seq(T) /\ Len(z) = j - 0 /\ \A k \in 1 .. j - 0 : z[k] = s[0 + k]
  <2>1. 0 \in 0 .. Len(s) /\ i \in 0 .. Len(s) /\ j \in 0 .. Len(s)
    OBVIOUS
  <2> QED BY <2>1, Part
<1> HIDE DEF x, y, z
<1>2. /\ x \o y \in Seq(T) /\ Len(x \o y) = Len(x) + Len(y)
      /\ \A k \in 1 .. Len(x) + Len(y) :
           (x \o y)[k] = IF k <= Len(x) THEN x[k] ELSE y[k - Len(x)]
  BY <1>1, ConcatProperties
<1>3. Len(x \o y) = Len(z)
  BY <1>1, <1>2
<1>4. ASSUME NEW k \in 1 .. Len(z) PROVE (x \o y)[k] = z[k]
  <2>1. CASE k <= i
    BY <1>1, <1>2, <2>1
  <2>2. CASE k > i
    <3>1. k - i \in 1 .. j - i /\ i + (k - i) = k
      BY <1>1, <2>2
    <3>2. y[k - i] = s[i + (k - i)]
      BY <1>1, <3>1
    <3>3. (x \o y)[k] = y[k - Len(x)]
      <4>1. k \in 1 .. Len(x) + Len(y) /\ ~ k <= Len(x)
        BY <1>1, <2>2
      <4> QED BY <1>2, <4>1
    <3>4. Len(x) = i /\ z[k] = s[k]
      BY <1>1
    <3> QED BY <3>1, <3>2, <3>3, <3>4
  <2> QED BY <1>1, <2>1, <2>2
<1>5. x \o y = z
  BY <1>1, <1>2, <1>3, <1>4, SeqEqual
<1> QED BY <1>5 DEF x, y, z

\* A piece of a piece.
LEMMA PartOfPart ==
    ASSUME NEW T, NEW s \in Seq(T), NEW i \in 0 .. Len(s), NEW j \in i .. Len(s),
           NEW n \in 0 .. j - i
    PROVE  SubSeq(SubSeq(s, i + 1, j), 1, n) = SubSeq(s, i + 1, i + n)
<1> DEFINE p == SubSeq(s, i + 1, j)
           x == SubSeq(p, 0 + 1, n)
           y == SubSeq(s, i + 1, i + n)
<1>1. /\ p \in Seq(T) /\ Len(p) = j - i /\ \A k \in 1 .. j - i : p[k] = s[i + k]
  BY Part
<1> HIDE DEF p
<1>2. x \in Seq(T) /\ Len(x) = n - 0 /\ \A k \in 1 .. n - 0 : x[k] = p[0 + k]
  <2>1. 0 \in 0 .. Len(p) /\ n \in 0 .. Len(p)
    BY <1>1
  <2> QED BY <1>1, <2>1, Part
<1>3. y \in Seq(T) /\ Len(y) = i + n - i /\ \A k \in 1 .. i + n - i : y[k] = s[i + k]
  <2>1. i + n \in i .. Len(s)
    OBVIOUS
  <2> QED BY <2>1, Part
<1> HIDE DEF x, y
<1>4. Len(x) = Len(y) /\ \A k \in 1 .. Len(x) : x[k] = y[k]
  <2>1. Len(x) = n /\ Len(y) = n
    BY <1>2, <1>3
  <2>2. ASSUME NEW k \in 1 .. n PROVE x[k] = y[k]
    <3>1. x[k] = p[k] /\ y[k] = s[i + k]
      BY <1>2, <1>3
    <3>2. k \in 1 .. j - i
      OBVIOUS
    <3> QED BY <1>1, <3>1, <3>2
  <2> QED BY <2>1, <2>2
<1>5. x = y
  BY <1>2, <1>3, <1>4, SeqEqual
<1> QED BY <1>5 DEF x, y, p

-----------------------------------------------------------------------------
(* The invariant. *)

\* The vocabulary holds these bytes, and the way to them.
Held(trie, bytes) ==
    bytes \in DOMAIN trie /\ Prefixes(bytes) \subseteq DOMAIN trie /\ trie[bytes] # {}

\* An id at a node of the trie is that of a line with these bytes.
Listed(id, path) ==
    \/ \E i \in 1 .. loaded : lines[i].id = id /\ lines[i].bytes = path
    \/ phase # "load" /\ id = 0 /\ path = Eod

TrieInv ==
    /\ \A path \in DOMAIN values : \A id \in values[path] : Listed(id, path)
    /\ \A i \in 1 .. loaded : Held(values, lines[i].bytes)
    /\ phase # "load" => Held(values, Eod)

\* With every id and all bytes distinct, token_data is the file.
DataInv ==
    Distinct =>
      /\ \A bytes \in DOMAIN ids_of : \/ \E i \in 1 .. loaded : lines[i].bytes = bytes
                                      \/ phase # "load" /\ bytes = Eod
      /\ Len(token_data) = IF phase = "load" THEN loaded ELSE loaded + 1
      /\ \A i \in 1 .. loaded : /\ token_data[i] = lines[i].bytes
                                /\ lines[i].id \in DOMAIN data_idx
                                /\ data_idx[lines[i].id] = i - 1
      /\ phase # "load" => /\ token_data[loaded + 1] = Eod
                           /\ 0 \in DOMAIN data_idx /\ data_idx[0] = loaded

\* The walk: its path is in the trie, and ret is the last token on it.
WalkInv ==
    phase = "scan" =>
      /\ \A n \in pos + 1 .. idx :
           Walked(n) \in DOMAIN values /\ (values[Walked(n)] # {} => n <= ret[1])
      /\ ret # <<0, 0>> => /\ ret[1] \in pos + 1 .. idx
                           /\ ret[2] \in values[Walked(ret[1])]

LoadInv == IF phase = "load" THEN text = << >> ELSE loaded = Len(lines)

TInv == TypeOK /\ LoadInv /\ TrieInv /\ DataInv /\ WalkInv /\ DecodesBack /\ DropsOnlyUnknown

LEMMA InitInv == Init => TInv
<1> SUFFICES ASSUME Init PROVE TInv
  OBVIOUS
<1>1. TypeOK
  <2>1. lines \in VocabFiles /\ loaded \in 0 .. Len(lines)
    <3>1. lines \in Seq([id : Nat, bytes : Seq(Bytes) \ {<< >>}])
      BY TokenizerAssumption DEF Init
    <3> QED BY <3>1 DEF Init
  <2>2. /\ token_data \in Seq(Seq(Bytes))
        /\ DOMAIN data_idx = {} /\ DOMAIN ids_of = {} /\ DOMAIN values = {<< >>}
        /\ values[<< >>] = {} /\ << >> \in Seq(Bytes)
    BY DEF Init
  <2>3. /\ phase \in {"load", "ready", "scan"} /\ text = << >>
        /\ pos \in 0 .. 0 /\ idx \in pos .. 0 /\ ret \in (0 .. idx) \X Nat
        /\ tokens \in Seq(Nat) /\ out \in Seq(Bytes)
    BY DEF Init
  <2> QED BY <2>1, <2>2, <2>3 DEF TypeOK
<1>2. LoadInv /\ WalkInv /\ DropsOnlyUnknown
  BY DEF Init, LoadInv, WalkInv, DropsOnlyUnknown
<1>3. TrieInv
  BY DEF Init, TrieInv
<1>4. DataInv
  BY DEF Init, DataInv
<1>5. DecodesBack
  <2>1. SubSeq(<< >>, 1, 0) = << >>
    BY SubSeqEmpty
  <2> QED BY <2>1 DEF Init, DecodesBack
<1> QED BY <1>1, <1>2, <1>3, <1>4, <1>5 DEF TInv

-----------------------------------------------------------------------------
(* Loading. *)

LEMMA PrefixTypes ==
    ASSUME NEW bytes \in Seq(Bytes)
    PROVE  Prefixes(bytes) \subseteq Seq(Bytes) /\ bytes \in Prefixes(bytes)
<1>1. ASSUME NEW n \in 0 .. Len(bytes) PROVE SubSeq(bytes, 1, n) \in Seq(Bytes)
  <2>1. 0 \in 0 .. Len(bytes) /\ n \in 0 .. Len(bytes)
    OBVIOUS
  <2>2. SubSeq(bytes, 0 + 1, n) \in Seq(Bytes)
    BY <2>1, Part
  <2> QED BY <2>2
<1>2. SubSeq(bytes, 1, Len(bytes)) = bytes /\ Len(bytes) \in 0 .. Len(bytes)
  BY SubSeqFull
<1> QED BY <1>1, <1>2 DEF Prefixes

\* What AddPath does to the trie.
LEMMA PathAdded ==
    ASSUME TypeOK, NEW id \in Nat, NEW bytes \in Seq(Bytes), AddPath(id, bytes)
    PROVE  /\ DOMAIN values' \subseteq Seq(Bytes) /\ DOMAIN values \subseteq DOMAIN values'
           /\ \A path \in DOMAIN values' : values'[path] \subseteq Nat
           /\ \A path \in DOMAIN values' : \A k \in values'[path] :
                (path \in DOMAIN values /\ k \in values[path]) \/ (k = id /\ path = bytes)
           /\ \A b : Held(values, b) => Held(values', b)
           /\ Held(values', bytes)
<1>1. /\ DOMAIN values' = DOMAIN values \cup Prefixes(bytes)
      /\ \A path \in DOMAIN values' :
           values'[path] = (IF path \in DOMAIN values THEN values[path] ELSE {})
                             \cup (IF path = bytes THEN {id} ELSE {})
  BY DEF AddPath
<1>2. Prefixes(bytes) \subseteq Seq(Bytes) /\ bytes \in Prefixes(bytes)
  BY PrefixTypes
<1>3. /\ DOMAIN values \subseteq Seq(Bytes)
      /\ \A path \in DOMAIN values : values[path] \subseteq Nat
  BY DEF TypeOK
<1>4. /\ DOMAIN values' \subseteq Seq(Bytes) /\ DOMAIN values \subseteq DOMAIN values'
      /\ \A path \in DOMAIN values' : values'[path] \subseteq Nat
      /\ \A path \in DOMAIN values' : \A k \in values'[path] :
           (path \in DOMAIN values /\ k \in values[path]) \/ (k = id /\ path = bytes)
  BY <1>1, <1>2, <1>3
<1>5. ASSUME NEW b, Held(values, b) PROVE Held(values', b)
  BY <1>1, <1>5 DEF Held
<1>6. Held(values', bytes)
  BY <1>1, <1>2 DEF Held
<1> QED BY <1>4, <1>5, <1>6

\* What AddToken does to the types of the mapping.
LEMMA TokenAdded ==
    ASSUME TypeOK, NEW id \in Nat, NEW bytes \in Seq(Bytes), AddToken(id, bytes)
    PROVE  /\ token_data' \in Seq(Seq(Bytes))
           /\ DOMAIN data_idx' \subseteq Nat /\ \A i \in DOMAIN data_idx' : data_idx'[i] \in Nat
           /\ DOMAIN ids_of' \subseteq Seq(Bytes) /\ \A b \in DOMAIN ids_of' : ids_of'[b] \in Nat
<1>1. /\ token_data \in Seq(Seq(Bytes))
      /\ DOMAIN data_idx \subseteq Nat /\ \A i \in DOMAIN data_idx : data_idx[i] \in Nat
      /\ DOMAIN ids_of \subseteq Seq(Bytes) /\ \A b \in DOMAIN ids_of : ids_of[b] \in Nat
  BY DEF TypeOK
<1>2. CASE bytes \in DOMAIN ids_of
  BY <1>1, <1>2 DEF AddToken
<1>3. CASE bytes \notin DOMAIN ids_of
  <2>0. token_data' = Append(token_data, bytes)
    BY <1>3 DEF AddToken
  <2>1. token_data' \in Seq(Seq(Bytes)) /\ Len(token_data) \in Nat
    BY <1>1, <2>0, AppendProperties
  <2> QED BY <1>1, <1>3, <2>1 DEF AddToken
<1> QED BY <1>2, <1>3

\* What it does to the mapping when the bytes and the id are new.
LEMMA NewTokenAdded ==
    ASSUME TypeOK, NEW id \in Nat, NEW bytes \in Seq(Bytes), AddToken(id, bytes),
           bytes \notin DOMAIN ids_of
    PROVE  /\ Len(token_data') = Len(token_data) + 1
           /\ \A i \in 1 .. Len(token_data) : token_data'[i] = token_data[i]
           /\ token_data'[Len(token_data) + 1] = bytes
           /\ id \in DOMAIN data_idx' /\ data_idx'[id] = Len(token_data)
           /\ \A i \in DOMAIN data_idx :
                i \in DOMAIN data_idx' /\ (i # id => data_idx'[i] = data_idx[i])
           /\ DOMAIN ids_of' = DOMAIN ids_of \cup {bytes}
<1>1. token_data \in Seq(Seq(Bytes)) /\ token_data' = Append(token_data, bytes)
  BY DEF TypeOK, AddToken
<1>2. /\ Len(token_data') = Len(token_data) + 1
      /\ \A i \in 1 .. Len(token_data) : token_data'[i] = token_data[i]
      /\ token_data'[Len(token_data) + 1] = bytes
  BY <1>1, AppendProperties
<1>3. /\ id \in DOMAIN data_idx' /\ data_idx'[id] = Len(token_data)
      /\ \A i \in DOMAIN data_idx :
           i \in DOMAIN data_idx' /\ (i # id => data_idx'[i] = data_idx[i])
      /\ DOMAIN ids_of' = DOMAIN ids_of \cup {bytes}
  BY DEF AddToken
<1> QED BY <1>2, <1>3

LEMMA ReadLineInv == ASSUME TInv, ReadLine PROVE TInv'
<1> DEFINE n == loaded + 1
           id == lines[n].id
           bytes == lines[n].bytes
<1>1. /\ lines \in Seq([id : Nat, bytes : Seq(Bytes) \ {<< >>}]) /\ loaded \in Nat
      /\ n \in 1 .. Len(lines) /\ phase = "load"
  <2>1. lines \in VocabFiles /\ loaded \in 0 .. Len(lines)
    BY DEF TInv, TypeOK
  <2>2. lines \in Seq([id : Nat, bytes : Seq(Bytes) \ {<< >>}])
    BY <2>1, TokenizerAssumption
  <2>3. phase = "load" /\ loaded < Len(lines)
    BY DEF ReadLine
  <2>4. Len(lines) \in Nat
    BY <2>2, LenProperties
  <2> QED BY <2>1, <2>2, <2>3, <2>4
<1>2. id \in Nat /\ bytes \in Seq(Bytes)
  <2>1. lines[n] \in [id : Nat, bytes : Seq(Bytes) \ {<< >>}]
    BY <1>1, ElementOfSeq
  <2> QED BY <2>1
<1>3. /\ AddToken(id, bytes) /\ AddPath(id, bytes) /\ loaded' = n /\ lines' = lines
      /\ phase' = phase /\ text' = text /\ pos' = pos /\ idx' = idx /\ ret' = ret
      /\ tokens' = tokens /\ out' = out
  BY DEF ReadLine
<1>4. TypeOK
  BY DEF TInv
<1> HIDE DEF id, bytes
<1>5. TypeOK'
  <2>1. /\ token_data' \in Seq(Seq(Bytes))
        /\ DOMAIN data_idx' \subseteq Nat /\ \A i \in DOMAIN data_idx' : data_idx'[i] \in Nat
        /\ DOMAIN ids_of' \subseteq Seq(Bytes) /\ \A b \in DOMAIN ids_of' : ids_of'[b] \in Nat
    BY <1>2, <1>3, <1>4, TokenAdded
  <2>2. /\ DOMAIN values' \subseteq Seq(Bytes)
        /\ \A path \in DOMAIN values' : values'[path] \subseteq Nat
    BY <1>2, <1>3, <1>4, PathAdded
  <2>3. loaded' \in 0 .. Len(lines')
    BY <1>1, <1>3
  <2> QED BY <1>3, <1>4, <2>1, <2>2, <2>3 DEF TypeOK
<1>6. TrieInv'
  <2>1. /\ \A path \in DOMAIN values' : \A k \in values'[path] :
             (path \in DOMAIN values /\ k \in values[path]) \/ (k = id /\ path = bytes)
        /\ \A b : Held(values, b) => Held(values', b)
        /\ Held(values', bytes)
    BY <1>2, <1>3, <1>4, PathAdded
  <2>2. ASSUME NEW path \in DOMAIN values', NEW k \in values'[path]
        PROVE  Listed(k, path)'
    <3>1. CASE path \in DOMAIN values /\ k \in values[path]
      <4>1. Listed(k, path)
        BY <3>1 DEF TInv, TrieInv
      <4>2. PICK i \in 1 .. loaded : lines[i].id = k /\ lines[i].bytes = path
        BY <1>1, <4>1 DEF Listed
      <4>3. i \in 1 .. loaded'
        BY <1>1, <1>3
      <4> QED BY <1>3, <4>2, <4>3 DEF Listed
    <3>2. CASE k = id /\ path = bytes
      <4>1. n \in 1 .. loaded' /\ lines'[n].id = id /\ lines'[n].bytes = bytes
        BY <1>1, <1>3 DEF id, bytes
      <4> QED BY <3>2, <4>1 DEF Listed
    <3> QED BY <2>1, <3>1, <3>2
  <2>3. ASSUME NEW i \in 1 .. loaded' PROVE Held(values', lines[i].bytes)
    <3>1. CASE i = n
      BY <2>1, <3>1 DEF bytes
    <3>2. CASE i \in 1 .. loaded
      BY <2>1, <3>2 DEF TInv, TrieInv
    <3>3. i = n \/ i \in 1 .. loaded
      BY <1>1, <1>3
    <3> QED BY <3>1, <3>2, <3>3
  <2> QED BY <1>1, <1>3, <2>2, <2>3 DEF TrieInv
<1>7. DataInv'
  <2> SUFFICES ASSUME Distinct' PROVE DataInv'
    BY DEF DataInv
  <2>1. Distinct
    BY <1>3 DEF Distinct
  <2>2. /\ \A b \in DOMAIN ids_of : \E i \in 1 .. loaded : lines[i].bytes = b
        /\ Len(token_data) = loaded
        /\ \A i \in 1 .. loaded : /\ token_data[i] = lines[i].bytes
                                  /\ lines[i].id \in DOMAIN data_idx
                                  /\ data_idx[lines[i].id] = i - 1
    BY <1>1, <2>1 DEF TInv, DataInv
  <2>3. ASSUME NEW i \in 1 .. loaded PROVE lines[i].id # id /\ lines[i].bytes # bytes
    <3>1. i \in 1 .. Len(lines) /\ n \in 1 .. Len(lines) /\ i # n
      BY <1>1
    <3> QED BY <2>1, <3>1 DEF Distinct, id, bytes
  <2>4. bytes \notin DOMAIN ids_of
    BY <2>2, <2>3
  <2>5. /\ Len(token_data') = loaded + 1
        /\ \A i \in 1 .. loaded : token_data'[i] = token_data[i]
        /\ token_data'[loaded + 1] = bytes
        /\ id \in DOMAIN data_idx' /\ data_idx'[id] = loaded
        /\ \A i \in DOMAIN data_idx :
             i \in DOMAIN data_idx' /\ (i # id => data_idx'[i] = data_idx[i])
        /\ DOMAIN ids_of' = DOMAIN ids_of \cup {bytes}
    BY <1>2, <1>3, <1>4, <2>2, <2>4, NewTokenAdded
  <2>6. ASSUME NEW i \in 1 .. loaded'
        PROVE  /\ token_data'[i] = lines'[i].bytes
               /\ lines'[i].id \in DOMAIN data_idx'
               /\ data_idx'[lines'[i].id] = i - 1
    <3>1. CASE i = n
      BY <1>1, <1>3, <2>5, <3>1 DEF id, bytes
    <3>2. CASE i \in 1 .. loaded
      BY <1>3, <2>2, <2>3, <2>5, <3>2
    <3>3. i = n \/ i \in 1 .. loaded
      BY <1>1, <1>3
    <3> QED BY <3>1, <3>2, <3>3
  <2>7. ASSUME NEW b \in DOMAIN ids_of' PROVE \E i \in 1 .. loaded' : lines'[i].bytes = b
    <3>1. CASE b = bytes
      <4>1. n \in 1 .. loaded' /\ lines'[n].bytes = bytes
        BY <1>1, <1>3 DEF bytes
      <4> QED BY <3>1, <4>1
    <3>2. CASE b \in DOMAIN ids_of
      <4>1. PICK i \in 1 .. loaded : lines[i].bytes = b
        BY <2>2, <3>2
      <4>2. i \in 1 .. loaded'
        BY <1>1, <1>3
      <4> QED BY <1>3, <4>1, <4>2
    <3> QED BY <2>5, <3>1, <3>2
  <2>8. Len(token_data') = loaded'
    BY <1>3, <2>5
  <2> QED BY <1>1, <1>3, <2>6, <2>7, <2>8 DEF DataInv
<1>8. LoadInv' /\ WalkInv' /\ DropsOnlyUnknown'
  BY <1>1, <1>3 DEF TInv, LoadInv, WalkInv, DropsOnlyUnknown
<1>9. DecodesBack'
  BY <1>3 DEF TInv, DecodesBack, Distinct
<1> QED BY <1>5, <1>6, <1>7, <1>8, <1>9 DEF TInv

LEMMA AddEodInv == ASSUME TInv, AddEod PROVE TInv'
<1>1. /\ loaded = Len(lines) /\ loaded \in Nat /\ phase = "load" /\ phase' = "ready"
      /\ AddToken(0, Eod) /\ AddPath(0, Eod) /\ loaded' = loaded /\ lines' = lines
      /\ text' = text /\ pos' = pos /\ idx' = idx /\ ret' = ret
      /\ tokens' = tokens /\ out' = out
  <2>1. loaded \in 0 .. Len(lines)
    BY DEF TInv, TypeOK
  <2> QED BY <2>1 DEF AddEod
<1>2. 0 \in Nat /\ Eod \in Seq(Bytes)
  BY TokenizerAssumption
<1>3. TypeOK
  BY DEF TInv
<1>4. TypeOK'
  <2>1. /\ token_data' \in Seq(Seq(Bytes))
        /\ DOMAIN data_idx' \subseteq Nat /\ \A i \in DOMAIN data_idx' : data_idx'[i] \in Nat
        /\ DOMAIN ids_of' \subseteq Seq(Bytes) /\ \A b \in DOMAIN ids_of' : ids_of'[b] \in Nat
    BY <1>1, <1>2, <1>3, TokenAdded
  <2>2. /\ DOMAIN values' \subseteq Seq(Bytes)
        /\ \A path \in DOMAIN values' : values'[path] \subseteq Nat
    BY <1>1, <1>2, <1>3, PathAdded
  <2> QED BY <1>1, <1>3, <2>1, <2>2 DEF TypeOK
<1>5. TrieInv'
  <2>1. /\ \A path \in DOMAIN values' : \A k \in values'[path] :
             (path \in DOMAIN values /\ k \in values[path]) \/ (k = 0 /\ path = Eod)
        /\ \A b : Held(values, b) => Held(values', b)
        /\ Held(values', Eod)
    BY <1>1, <1>2, <1>3, PathAdded
  <2>2. ASSUME NEW path \in DOMAIN values', NEW k \in values'[path]
        PROVE  Listed(k, path)'
    <3>1. CASE path \in DOMAIN values /\ k \in values[path]
      <4>1. Listed(k, path)
        BY <3>1 DEF TInv, TrieInv
      <4> QED BY <1>1, <4>1 DEF Listed
    <3>2. CASE k = 0 /\ path = Eod
      BY <1>1, <3>2 DEF Listed
    <3> QED BY <2>1, <3>1, <3>2
  <2>3. ASSUME NEW i \in 1 .. loaded' PROVE Held(values', lines'[i].bytes)
    BY <1>1, <2>1 DEF TInv, TrieInv
  <2> QED BY <2>1, <2>2, <2>3 DEF TrieInv
<1>6. DataInv'
  <2> SUFFICES ASSUME Distinct' PROVE DataInv'
    BY DEF DataInv
  <2>1. Distinct
    BY <1>1 DEF Distinct
  <2>2. /\ \A b \in DOMAIN ids_of : \E i \in 1 .. loaded : lines[i].bytes = b
        /\ Len(token_data) = loaded
        /\ \A i \in 1 .. loaded : /\ token_data[i] = lines[i].bytes
                                  /\ lines[i].id \in DOMAIN data_idx
                                  /\ data_idx[lines[i].id] = i - 1
    BY <1>1, <2>1 DEF TInv, DataInv
  <2>3. \A i \in 1 .. loaded : lines[i].id # 0 /\ lines[i].bytes # Eod
    BY <1>1, <2>1 DEF Distinct
  <2>4. Eod \notin DOMAIN ids_of
    BY <2>2, <2>3
  <2>5. /\ Len(token_data') = loaded + 1
        /\ \A i \in 1 .. loaded : token_data'[i] = token_data[i]
        /\ token_data'[loaded + 1] = Eod
        /\ 0 \in DOMAIN data_idx' /\ data_idx'[0] = loaded
        /\ \A i \in DOMAIN data_idx :
             i \in DOMAIN data_idx' /\ (i # 0 => data_idx'[i] = data_idx[i])
        /\ DOMAIN ids_of' = DOMAIN ids_of \cup {Eod}
    BY <1>1, <1>2, <1>3, <2>2, <2>4, NewTokenAdded
  <2>6. ASSUME NEW i \in 1 .. loaded'
        PROVE  /\ token_data'[i] = lines'[i].bytes
               /\ lines'[i].id \in DOMAIN data_idx'
               /\ data_idx'[lines'[i].id] = i - 1
    BY <1>1, <2>2, <2>3, <2>5
  <2>7. ASSUME NEW b \in DOMAIN ids_of'
        PROVE  (\E i \in 1 .. loaded' : lines'[i].bytes = b) \/ b = Eod
    BY <1>1, <2>2, <2>5
  <2> QED BY <1>1, <2>5, <2>6, <2>7 DEF DataInv
<1>7. LoadInv' /\ WalkInv' /\ DropsOnlyUnknown'
  <2>1. text = << >> /\ pos \in 0 .. Len(text)
    BY <1>1, <1>3 DEF TInv, LoadInv, TypeOK
  <2>2. ~ (pos < Len(text))
    BY <2>1
  <2> QED BY <1>1, <2>2 DEF LoadInv, WalkInv, DropsOnlyUnknown
<1>8. DecodesBack'
  BY <1>1 DEF TInv, DecodesBack, Distinct
<1> QED BY <1>4, <1>5, <1>6, <1>7, <1>8 DEF TInv

-----------------------------------------------------------------------------
(* Encoding. *)

LEMMA EncodeInv == ASSUME TInv, NEW src \in Texts, Encode(src) PROVE TInv'
<1>1. /\ phase = "ready" /\ phase' = "scan" /\ text' = src /\ pos' = 0 /\ idx' = 0
      /\ ret' = <<0, 0>> /\ tokens' = << >> /\ out' = << >> /\ UNCHANGED vocab
  BY DEF Encode
<1>2. src \in Seq(Bytes) /\ Len(src) \in Nat
  BY TokenizerAssumption, LenProperties
<1>3. /\ lines' = lines /\ loaded' = loaded /\ token_data' = token_data
      /\ data_idx' = data_idx /\ ids_of' = ids_of /\ values' = values
  BY <1>1 DEF vocab
<1>4. TypeOK'
  <2>1. /\ phase' \in {"load", "ready", "scan"} /\ text' \in Texts \cup {<< >>}
        /\ tokens' \in Seq(Nat) /\ out' \in Seq(Bytes)
    BY <1>1
  <2>2. pos' \in 0 .. Len(text') /\ idx' \in pos' .. Len(text') /\ ret' \in (0 .. idx') \X Nat
    BY <1>1, <1>2
  <2> QED BY <1>3, <2>1, <2>2 DEF TInv, TypeOK
<1>5. LoadInv' /\ TrieInv' /\ DataInv'
  BY <1>1, <1>3 DEF TInv, LoadInv, TrieInv, DataInv, Listed, Distinct
<1>6. WalkInv' /\ DropsOnlyUnknown'
  BY <1>1 DEF WalkInv, DropsOnlyUnknown
<1>7. DecodesBack'
  <2>1. SubSeq(src, 1, 0) = << >>
    BY SubSeqEmpty
  <2> QED BY <1>1, <2>1 DEF DecodesBack
<1> QED BY <1>4, <1>5, <1>6, <1>7 DEF TInv

\* The positions of a walk.
LEMMA Positions ==
    ASSUME TypeOK
    PROVE  /\ text \in Seq(Bytes) /\ Len(text) \in Nat
           /\ pos \in 0 .. Len(text) /\ idx \in pos .. Len(text)
           /\ ret[1] \in 0 .. idx /\ ret[2] \in Nat /\ ret = <<ret[1], ret[2]>>
<1>1. text \in Seq(Bytes)
  <2>1. text \in Texts \/ text = << >>
    BY DEF TypeOK
  <2>2. Texts \subseteq Seq(Bytes)
    BY TokenizerAssumption
  <2>3. << >> \in Seq(Bytes)
    BY EmptySeq
  <2> QED BY <2>1, <2>2, <2>3
<1>2. Len(text) \in Nat
  BY <1>1, LenProperties
<1>3. pos \in 0 .. Len(text) /\ idx \in pos .. Len(text) /\ ret \in (0 .. idx) \X Nat
  BY DEF TypeOK
<1>4. ret[1] \in 0 .. idx /\ ret[2] \in Nat /\ ret = <<ret[1], ret[2]>>
  BY <1>3
<1> QED BY <1>1, <1>2, <1>3, <1>4

LEMMA DescendInv == ASSUME TInv, Descend PROVE TInv'
<1>1. /\ phase = "scan" /\ idx < Len(text) /\ Walked(idx + 1) \in DOMAIN values
      /\ idx' = idx + 1 /\ UNCHANGED <<vocab, phase, text, pos, tokens, out>>
  BY DEF Descend, CanDescend
<1>2. /\ lines' = lines /\ loaded' = loaded /\ token_data' = token_data
      /\ data_idx' = data_idx /\ ids_of' = ids_of /\ values' = values
      /\ phase' = phase /\ text' = text /\ pos' = pos /\ tokens' = tokens /\ out' = out
  BY <1>1 DEF vocab
<1>3. TypeOK
  BY DEF TInv
<1>4. /\ text \in Seq(Bytes) /\ Len(text) \in Nat
      /\ pos \in 0 .. Len(text) /\ idx \in pos .. Len(text)
      /\ ret[1] \in 0 .. idx /\ ret[2] \in Nat /\ ret = <<ret[1], ret[2]>>
  BY <1>3, Positions
<1>5. \/ values[Walked(idx + 1)] = {} /\ ret' = ret
      \/ \E id \in values[Walked(idx + 1)] : ret' = <<idx + 1, id>>
  BY DEF Descend
<1>6. \A n : Walked(n)' = Walked(n)
  BY <1>2 DEF Walked
<1>7. ret' \in (0 .. idx') \X Nat
  <2>1. values[Walked(idx + 1)] \subseteq Nat
    BY <1>1, <1>3 DEF TypeOK
  <2>2. CASE ret' = ret
    BY <1>1, <1>4, <2>2
  <2>3. CASE \E id \in values[Walked(idx + 1)] : ret' = <<idx + 1, id>>
    BY <1>1, <1>4, <2>1, <2>3
  <2> QED BY <1>5, <2>2, <2>3
<1>8. TypeOK'
  <2>1. idx' \in pos' .. Len(text')
    BY <1>1, <1>2, <1>4
  <2> QED BY <1>2, <1>3, <1>7, <2>1 DEF TypeOK
<1>9. WalkInv'
  <2>1. /\ \A n \in pos + 1 .. idx :
             Walked(n) \in DOMAIN values /\ (values[Walked(n)] # {} => n <= ret[1])
        /\ ret # <<0, 0>> => /\ ret[1] \in pos + 1 .. idx
                             /\ ret[2] \in values[Walked(ret[1])]
    BY <1>1 DEF TInv, WalkInv
  <2>2. ASSUME NEW n \in pos + 1 .. idx + 1
        PROVE  Walked(n) \in DOMAIN values /\ (values[Walked(n)] # {} => n <= ret'[1])
    <3>1. CASE n = idx + 1
      BY <1>1, <1>4, <1>5, <3>1
    <3>2. CASE n \in pos + 1 .. idx
      BY <1>4, <1>5, <2>1, <3>2
    <3>3. n = idx + 1 \/ n \in pos + 1 .. idx
      BY <1>4
    <3> QED BY <3>1, <3>2, <3>3
  <2>3. ret' # <<0, 0>> => /\ ret'[1] \in pos + 1 .. idx + 1
                           /\ ret'[2] \in values[Walked(ret'[1])]
    BY <1>4, <1>5, <2>1
  <2> QED BY <1>1, <1>2, <1>6, <2>2, <2>3 DEF WalkInv
<1>10. LoadInv' /\ TrieInv' /\ DataInv'
  BY <1>2 DEF TInv, LoadInv, TrieInv, DataInv, Listed, Distinct
<1>11. DecodesBack' /\ DropsOnlyUnknown'
  BY <1>1, <1>2 DEF TInv, DecodesBack, DropsOnlyUnknown, Distinct
<1> QED BY <1>8, <1>9, <1>10, <1>11 DEF TInv

\* What the vocabulary knows is in the trie once it is loaded.
LEMMA KnownHeld ==
    ASSUME TInv, phase # "load", NEW bytes \in Known
    PROVE  bytes \in Seq(Bytes) /\ Len(bytes) \in Nat \ {0} /\ Held(values, bytes)
<1>1. loaded = Len(lines) /\ lines \in VocabFiles
  BY DEF TInv, LoadInv, TypeOK
<1>2. lines \in Seq([id : Nat, bytes : Seq(Bytes) \ {<< >>}])
  BY <1>1, TokenizerAssumption
<1>3. Held(values, bytes)
  BY <1>1 DEF TInv, TrieInv, Known
<1>4. bytes \in Seq(Bytes) \ {<< >>}
  <2>1. CASE bytes = Eod
    BY <2>1, TokenizerAssumption
  <2>2. CASE \E i \in 1 .. Len(lines) : bytes = lines[i].bytes
    <3>1. PICK i \in 1 .. Len(lines) : bytes = lines[i].bytes
      BY <2>2
    <3>2. lines[i] \in [id : Nat, bytes : Seq(Bytes) \ {<< >>}]
      BY <1>2, ElementOfSeq
    <3> QED BY <3>1, <3>2
  <2> QED BY <2>1, <2>2 DEF Known
<1>5. Len(bytes) \in Nat \ {0}
  BY <1>4, EmptySeq, LenProperties
<1> QED BY <1>3, <1>4, <1>5

\* When the walk can go no further, what matches is no longer than the last
\* token that was passed.
LEMMA Longest ==
    ASSUME TInv, phase = "scan", ~ CanDescend, NEW bytes \in Known, Matches(bytes, pos)
    PROVE  pos + Len(bytes) <= ret[1]
<1> DEFINE end == pos + Len(bytes)
<1>1. /\ text \in Seq(Bytes) /\ Len(text) \in Nat
      /\ pos \in 0 .. Len(text) /\ idx \in pos .. Len(text)
      /\ ret[1] \in 0 .. idx
  BY Positions DEF TInv
<1>2. bytes \in Seq(Bytes) /\ Len(bytes) \in Nat \ {0} /\ Held(values, bytes)
  BY KnownHeld
<1>3. end \in pos + 1 .. Len(text) /\ SubSeq(text, pos + 1, end) = bytes
  BY <1>1, <1>2 DEF Matches
<1>4. CASE end > idx
  <2> DEFINE n == idx + 1 - pos
  <2>1. /\ n \in 0 .. end - pos /\ n \in 0 .. Len(bytes) /\ pos + n = idx + 1
        /\ end \in pos .. Len(text) /\ idx < Len(text)
    BY <1>1, <1>2, <1>3, <1>4
  <2> HIDE DEF n, end
  <2>2. SubSeq(SubSeq(text, pos + 1, end), 1, n) = SubSeq(text, pos + 1, pos + n)
    BY <1>1, <2>1, PartOfPart
  <2>3. SubSeq(bytes, 1, n) = Walked(idx + 1)
    BY <1>3, <2>1, <2>2 DEF Walked
  <2>4. SubSeq(bytes, 1, n) \in Prefixes(bytes)
    BY <2>1 DEF Prefixes
  <2> QED BY <1>2, <2>1, <2>3, <2>4 DEF Held, CanDescend
<1>5. CASE end <= idx
  <2>1. end \in pos + 1 .. idx
    BY <1>1, <1>3, <1>5
  <2>2. Walked(end) = bytes /\ values[bytes] # {}
    BY <1>2, <1>3 DEF Held, Walked
  <2> HIDE DEF end
  <2>3. end <= ret[1]
    BY <2>1, <2>2 DEF TInv, WalkInv
  <2> QED BY <2>3 DEF end
<1>6. end > idx \/ end <= idx
  BY <1>1, <1>3
<1> QED BY <1>4, <1>5, <1>6

LEMMA DataType == ASSUME TypeOK, NEW id PROVE Data(id) \in Seq(Bytes)
<1>1. << >> \in Seq(Bytes) /\ Garbage \in Seq(Bytes)
  BY TokenizerAssumption, EmptySeq
<1>2. token_data \in Seq(Seq(Bytes))
  BY DEF TypeOK
<1>3. ASSUME id \in DOMAIN data_idx, data_idx[id] < Len(token_data)
      PROVE  token_data[data_idx[id] + 1] \in Seq(Bytes)
  <2>1. data_idx[id] \in Nat
    BY <1>3 DEF TypeOK
  <2>2. data_idx[id] + 1 \in 1 .. Len(token_data)
    BY <1>2, <1>3, <2>1, LenProperties
  <2> QED BY <1>2, <2>2, ElementOfSeq
<1> QED BY <1>1, <1>3 DEF Data

\* The token that is taken stands for the bytes that were walked.
LEMMA TakenToken ==
    ASSUME TInv, phase = "scan", ret[1] > pos
    PROVE  /\ ret[1] \in pos + 1 .. idx
           /\ Walked(ret[1]) \in Known
           /\ Distinct => Data(ret[2]) = Walked(ret[1])
<1>1. /\ text \in Seq(Bytes) /\ Len(text) \in Nat
      /\ pos \in 0 .. Len(text) /\ idx \in pos .. Len(text)
      /\ ret[1] \in 0 .. idx /\ ret[2] \in Nat /\ ret = <<ret[1], ret[2]>>
  BY Positions DEF TInv
<1>2. ret # <<0, 0>>
  BY <1>1
<1>3. ret[1] \in pos + 1 .. idx /\ ret[2] \in values[Walked(ret[1])]
  BY <1>2 DEF TInv, WalkInv
<1>4. Walked(ret[1]) \in DOMAIN values
  BY <1>3 DEF TInv, WalkInv
<1>5. Listed(ret[2], Walked(ret[1]))
  BY <1>3, <1>4 DEF TInv, TrieInv
<1>6. loaded = Len(lines) /\ loaded \in Nat
  <2>1. loaded = Len(lines) /\ loaded \in 0 .. Len(lines)
    BY DEF TInv, TypeOK, LoadInv
  <2> QED BY <2>1
<1>7. CASE \E i \in 1 .. loaded : lines[i].id = ret[2] /\ lines[i].bytes = Walked(ret[1])
  <2>1. PICK i \in 1 .. loaded : lines[i].id = ret[2] /\ lines[i].bytes = Walked(ret[1])
    BY <1>7
  <2>2. Walked(ret[1]) \in Known
    BY <1>6, <2>1 DEF Known
  <2>3. ASSUME Distinct PROVE Data(ret[2]) = Walked(ret[1])
    <3>1. /\ Len(token_data) = loaded + 1 /\ token_data[i] = lines[i].bytes
          /\ lines[i].id \in DOMAIN data_idx /\ data_idx[lines[i].id] = i - 1
      BY <2>3 DEF TInv, DataInv
    <3>2. ret[2] \in DOMAIN data_idx /\ data_idx[ret[2]] = i - 1
      BY <2>1, <3>1
    <3>3. i - 1 < Len(token_data) /\ i - 1 + 1 = i
      BY <1>6, <3>1
    <3> QED BY <2>1, <3>1, <3>2, <3>3 DEF Data
  <2> QED BY <1>3, <2>2, <2>3
<1>8. CASE ret[2] = 0 /\ Walked(ret[1]) = Eod
  <2>1. ASSUME Distinct PROVE Data(ret[2]) = Walked(ret[1])
    <3>1. /\ Len(token_data) = loaded + 1 /\ token_data[loaded + 1] = Eod
          /\ 0 \in DOMAIN data_idx /\ data_idx[0] = loaded
      BY <2>1 DEF TInv, DataInv
    <3> QED BY <1>6, <1>8, <3>1 DEF Data
  <2> QED BY <1>3, <1>8, <2>1 DEF Known
<1> QED BY <1>5, <1>7, <1>8 DEF Listed

LEMMA TakeInv == ASSUME TInv, Take PROVE TInv'
<1>1. /\ phase = "scan" /\ ret[1] > pos /\ pos' = ret[1] /\ idx' = ret[1] /\ ret' = <<0, 0>>
      /\ tokens' = Append(tokens, ret[2]) /\ out' = out \o Data(ret[2])
      /\ UNCHANGED <<vocab, phase, text>>
  BY DEF Take
<1>2. /\ lines' = lines /\ loaded' = loaded /\ token_data' = token_data
      /\ data_idx' = data_idx /\ ids_of' = ids_of /\ values' = values
      /\ phase' = phase /\ text' = text
  BY <1>1 DEF vocab
<1>3. TypeOK
  BY DEF TInv
<1>4. /\ text \in Seq(Bytes) /\ Len(text) \in Nat
      /\ pos \in 0 .. Len(text) /\ idx \in pos .. Len(text)
      /\ ret[1] \in 0 .. idx /\ ret[2] \in Nat
  BY <1>3, Positions
<1>5. ret[1] \in pos + 1 .. idx /\ (Distinct => Data(ret[2]) = Walked(ret[1]))
  BY <1>1, TakenToken
<1>6. TypeOK'
  <2>1. tokens' \in Seq(Nat)
    <3>1. tokens \in Seq(Nat)
      BY <1>3 DEF TypeOK
    <3> QED BY <1>1, <1>4, <3>1, AppendProperties
  <2>2. out' \in Seq(Bytes)
    <3>1. out \in Seq(Bytes) /\ Data(ret[2]) \in Seq(Bytes)
      BY <1>3, DataType DEF TypeOK
    <3> QED BY <1>1, <3>1, ConcatProperties
  <2>3. pos' \in 0 .. Len(text') /\ idx' \in pos' .. Len(text') /\ ret' \in (0 .. idx') \X Nat
    BY <1>1, <1>2, <1>4, <1>5
  <2> QED BY <1>2, <1>3, <2>1, <2>2, <2>3 DEF TypeOK
<1>7. WalkInv'
  <2>1. pos' + 1 .. idx' = {}
    BY <1>1, <1>4
  <2> QED BY <1>1, <2>1 DEF WalkInv
<1>8. LoadInv' /\ TrieInv' /\ DataInv'
  BY <1>2 DEF TInv, LoadInv, TrieInv, DataInv, Listed, Distinct
<1>9. DropsOnlyUnknown'
  BY <1>1, <1>2 DEF DropsOnlyUnknown
<1>10. DecodesBack'
  <2> SUFFICES ASSUME Distinct' PROVE out' = SubSeq(text', 1, pos')
    BY DEF DecodesBack
  <2>1. Distinct
    BY <1>2 DEF Distinct
  <2>2. out = SubSeq(text, 1, pos)
    BY <2>1 DEF TInv, DecodesBack
  <2>3. ret[1] \in pos .. Len(text)
    BY <1>4, <1>5
  <2>4. SubSeq(text, 1, pos) \o SubSeq(text, pos + 1, ret[1]) = SubSeq(text, 1, ret[1])
    BY <1>4, <2>3, PartJoin
  <2> QED BY <1>1, <1>2, <1>5, <2>1, <2>2, <2>4 DEF Walked
<1> QED BY <1>6, <1>7, <1>8, <1>9, <1>10 DEF TInv

LEMMA FinishInv == ASSUME TInv, Finish PROVE TInv'
<1>1. /\ phase = "scan" /\ phase' = "ready"
      /\ pos = Len(text) \/ (~ CanDescend /\ ret[1] <= pos)
      /\ UNCHANGED <<vocab, text, pos, idx, ret, tokens, out>>
  BY DEF Finish
<1>2. /\ lines' = lines /\ loaded' = loaded /\ token_data' = token_data
      /\ data_idx' = data_idx /\ ids_of' = ids_of /\ values' = values
      /\ text' = text /\ pos' = pos /\ idx' = idx /\ ret' = ret
      /\ tokens' = tokens /\ out' = out
  BY <1>1 DEF vocab
<1>3. TypeOK'
  BY <1>1, <1>2 DEF TInv, TypeOK
<1>4. LoadInv' /\ TrieInv' /\ DataInv' /\ WalkInv' /\ DecodesBack'
  BY <1>1, <1>2
     DEF TInv, LoadInv, TrieInv, DataInv, WalkInv, DecodesBack, Listed, Distinct
<1>5. DropsOnlyUnknown'
  <2> SUFFICES ASSUME pos < Len(text), NEW bytes \in Known, Matches(bytes, pos) PROVE FALSE
    BY <1>2 DEF DropsOnlyUnknown, Known, Matches
  <2>1. pos \in 0 .. Len(text) /\ ret[1] \in 0 .. idx /\ idx \in pos .. Len(text)
    BY Positions DEF TInv
  <2>2. ~ CanDescend /\ ret[1] <= pos
    BY <1>1, <2>1
  <2>3. pos + Len(bytes) <= ret[1]
    BY <1>1, <2>2, Longest
  <2>4. Len(bytes) \in Nat \ {0}
    BY <1>1, KnownHeld
  <2> QED BY <2>1, <2>2, <2>3, <2>4
<1> QED BY <1>3, <1>4, <1>5 DEF TInv

-----------------------------------------------------------------------------
(* The theorems. *)

LEMMA StepInv == ASSUME TInv, [Next]_vars PROVE TInv'
<1>1. CASE ReadLine
  BY <1>1, ReadLineInv
<1>2. CASE AddEod
  BY <1>2, AddEodInv
<1>3. CASE \E src \in Texts : Encode(src)
  BY <1>3, EncodeInv
<1>4. CASE Descend
  BY <1>4, DescendInv
<1>5. CASE Take
  BY <1>5, TakeInv
<1>6. CASE Finish
  BY <1>6, FinishInv
<1>7. CASE UNCHANGED vars
  <2>1. /\ lines' = lines /\ loaded' = loaded /\ token_data' = token_data
        /\ data_idx' = data_idx /\ ids_of' = ids_of /\ values' = values
        /\ phase' = phase /\ text' = text /\ pos' = pos /\ idx' = idx /\ ret' = ret
        /\ tokens' = tokens /\ out' = out
    BY <1>7 DEF vars, vocab
  <2>2. TypeOK'
    BY <2>1 DEF TInv, TypeOK
  <2>3. LoadInv' /\ TrieInv'
    BY <2>1 DEF TInv, LoadInv, TrieInv, Listed
  <2>4. DataInv'
    BY <2>1 DEF TInv, DataInv, Distinct
  <2>5. WalkInv'
    BY <2>1 DEF TInv, WalkInv, Walked
  <2>6. DecodesBack' /\ DropsOnlyUnknown'
    BY <2>1 DEF TInv, DecodesBack, Distinct, DropsOnlyUnknown, Known, Matches
  <2> QED BY <2>2, <2>3, <2>4, <2>5, <2>6 DEF TInv
<1> QED BY <1>1, <1>2, <1>3, <1>4, <1>5, <1>6, <1>7 DEF Next

LEMMA Inductive == Spec => []TInv
<1> QED BY InitInv, StepInv, PTL DEF Spec

\* A walk stays within its text, whatever the vocabulary and the text.
THEOREM TypeCorrect == Spec => []TypeOK
<1>1. TInv => TypeOK
  BY DEF TInv
<1> QED BY <1>1, Inductive, PTL

\* Decoding what encode has found gives the text back as far as it was read.
THEOREM DecodesBackCorrect == Spec => []DecodesBack
<1>1. TInv => DecodesBack
  BY DEF TInv
<1> QED BY <1>1, Inductive, PTL

\* encode leaves a text unfinished only where no token of the vocabulary begins.
THEOREM DropsOnlyUnknownCorrect == Spec => []DropsOnlyUnknown
<1>1. TInv => DropsOnlyUnknown
  BY DEF TInv
<1> QED BY <1>1, Inductive, PTL

\* A token that is taken is the longest of the vocabulary that matches there.
THEOREM LongestTakenCorrect == Spec => LongestTaken
<1> DEFINE Longer == tokens' # tokens /\ tokens' # << >> =>
                       /\ Matches(SubSeq(text, pos + 1, pos'), pos)
                       /\ SubSeq(text, pos + 1, pos') \in Known
                       /\ \A bytes \in Known : Matches(bytes, pos) => Len(bytes) <= pos' - pos
<1>1. ASSUME TInv, [Next]_vars PROVE [Longer]_vars
  <2>1. CASE Take
    <3>1. phase = "scan" /\ ~ CanDescend /\ ret[1] > pos /\ pos' = ret[1]
      BY <2>1 DEF Take
    <3>2. /\ text \in Seq(Bytes) /\ Len(text) \in Nat
          /\ pos \in 0 .. Len(text) /\ idx \in pos .. Len(text) /\ ret[1] \in 0 .. idx
      BY <1>1, Positions DEF TInv
    <3>3. ret[1] \in pos + 1 .. idx /\ Walked(ret[1]) \in Known
      BY <1>1, <3>1, TakenToken
    <3>4. Matches(SubSeq(text, pos + 1, pos'), pos)
      <4>1. ret[1] \in pos .. Len(text)
        BY <3>2, <3>3
      <4>2. Len(SubSeq(text, pos + 1, ret[1])) = ret[1] - pos
        BY <3>2, <4>1, Part
      <4>3. pos + (ret[1] - pos) = ret[1] /\ ret[1] <= Len(text)
        BY <3>2, <4>1
      <4> QED BY <3>1, <4>2, <4>3 DEF Matches
    <3>5. ASSUME NEW bytes \in Known, Matches(bytes, pos) PROVE Len(bytes) <= pos' - pos
      <4>1. pos + Len(bytes) <= ret[1]
        BY <1>1, <3>1, <3>5, Longest
      <4>2. Len(bytes) \in Nat \ {0}
        BY <1>1, <3>1, KnownHeld
      <4> QED BY <3>1, <3>2, <4>1, <4>2
    <3> QED BY <3>1, <3>3, <3>4, <3>5 DEF Walked
  <2>2. CASE \E src \in Texts : Encode(src)
    BY <2>2 DEF Encode
  <2>3. CASE ReadLine \/ AddEod \/ Descend \/ Finish
    BY <2>3 DEF ReadLine, AddEod, Descend, Finish
  <2>4. CASE UNCHANGED vars
    BY <2>4
  <2> QED BY <1>1, <2>1, <2>2, <2>3, <2>4 DEF Next
<1> QED BY <1>1, Inductive, PTL DEF Spec, LongestTaken

=============================================================================
