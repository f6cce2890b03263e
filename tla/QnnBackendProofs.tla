--------------------------- MODULE QnnBackendProofs ---------------------------
(***************************************************************************)
(* The QNN backend is a backend, for every number of graphs, every length  *)
(* of a prefill, every set of batch sizes and whichever graph fails, up to *)
(* the evaluations that hide a prefill that failed behind its first graph. *)
(***************************************************************************)
EXTENDS QnnBackend, SequenceTheorems, TLAPS

Symbols == Tokens \cup {Raw}

-----------------------------------------------------------------------------
(* Pieces of sequences. *)

LEMMA PieceSeq ==
    ASSUME NEW T, NEW s \in Seq(T), NEW i \in 0 .. Len(s), NEW j \in i .. Len(s)
    PROVE  /\ SubSeq(s, i + 1, j) \in Seq(T)
           /\ Len(SubSeq(s, i + 1, j)) = j - i
           /\ \A k \in 1 .. j - i : SubSeq(s, i + 1, j)[k] = s[i + k]
<1>1. \A k \in i + 1 .. j : s[k] \in T
  OBVIOUS
<1>2. i + 1 \in Int /\ j \in Int
  OBVIOUS
<1> DEFINE p == SubSeq(s, i + 1, j)
<1>3. /\ p \in Seq(T) /\ Len(p) = (IF i + 1 <= j THEN j - (i + 1) + 1 ELSE 0)
      /\ \A k \in 1 .. j - (i + 1) + 1 : p[k] = s[i + 1 + k - 1]
  BY <1>1, <1>2, SubSeqProperties
<1> HIDE DEF p
<1>4. p \in Seq(T) /\ Len(p) = j - i /\ \A k \in 1 .. j - i : p[k] = s[i + k]
  BY <1>3
<1> QED BY <1>4 DEF p

\* A piece from the front and the piece behind it.
LEMMA PieceJoin ==
    ASSUME NEW T, NEW s \in Seq(T), NEW r \in 0 .. Len(s), NEW n \in 0 .. Len(s) - r
    PROVE  /\ From(s, r) \in Seq(T) /\ Len(From(s, r)) = Len(s) - r
           /\ First(s, r) \in Seq(T)
           /\ First(From(s, r), n) \in Seq(T)
           /\ First(s, r) \o First(From(s, r), n) = First(s, r + n)
<1> DEFINE a == First(s, r)
           b == From(s, r)
           c == First(From(s, r), n)
           d == First(s, r + n)
<1>1. /\ a \in Seq(T) /\ Len(a) = r /\ \A k \in 1 .. r : a[k] = s[k]
      /\ b \in Seq(T) /\ Len(b) = Len(s) - r /\ \A k \in 1 .. Len(s) - r : b[k] = s[r + k]
      /\ d \in Seq(T) /\ Len(d) = r + n /\ \A k \in 1 .. r + n : d[k] = s[k]
  <2>1. 0 \in 0 .. Len(s) /\ r \in 0 .. Len(s) /\ Len(s) \in r .. Len(s)
        /\ r + n \in 0 .. Len(s)
    OBVIOUS
  <2>2. /\ SubSeq(s, 0 + 1, r) \in Seq(T) /\ Len(SubSeq(s, 0 + 1, r)) = r - 0
        /\ \A k \in 1 .. r - 0 : SubSeq(s, 0 + 1, r)[k] = s[0 + k]
    BY <2>1, PieceSeq
  <2>3. /\ SubSeq(s, r + 1, Len(s)) \in Seq(T) /\ Len(SubSeq(s, r + 1, Len(s))) = Len(s) - r
        /\ \A k \in 1 .. Len(s) - r : SubSeq(s, r + 1, Len(s))[k] = s[r + k]
    BY <2>1, PieceSeq
  <2>4. /\ SubSeq(s, 0 + 1, r + n) \in Seq(T) /\ Len(SubSeq(s, 0 + 1, r + n)) = r + n - 0
        /\ \A k \in 1 .. r + n - 0 : SubSeq(s, 0 + 1, r + n)[k] = s[0 + k]
    BY <2>1, PieceSeq
  <2>5. a \in Seq(T) /\ Len(a) = r /\ \A k \in 1 .. r : a[k] = s[k]
    BY <2>2 DEF First
  <2>6. b \in Seq(T) /\ Len(b) = Len(s) - r /\ \A k \in 1 .. Len(s) - r : b[k] = s[r + k]
    BY <2>3 DEF From
  <2>7. d \in Seq(T) /\ Len(d) = r + n /\ \A k \in 1 .. r + n : d[k] = s[k]
    BY <2>4 DEF First
  <2> QED BY <2>5, <2>6, <2>7
<1> HIDE DEF a, b, d
<1>2. /\ First(b, n) \in Seq(T) /\ Len(First(b, n)) = n
      /\ \A k \in 1 .. n : First(b, n)[k] = b[k]
  <2>1. /\ SubSeq(b, 0 + 1, n) \in Seq(T) /\ Len(SubSeq(b, 0 + 1, n)) = n - 0
        /\ \A k \in 1 .. n - 0 : SubSeq(b, 0 + 1, n)[k] = b[0 + k]
    BY <1>1, PieceSeq
  <2> QED BY <2>1 DEF First
<1>3. c = First(b, n)
  BY DEF b
<1> HIDE DEF c
<1>4. a \o c \in Seq(T) /\ Len(a \o c) = r + n
      /\ \A k \in 1 .. r + n : (a \o c)[k] = IF k <= r THEN a[k] ELSE c[k - r]
  BY <1>1, <1>2, <1>3, ConcatProperties
<1>5. ASSUME NEW k \in 1 .. r + n PROVE (a \o c)[k] = d[k]
  <2>1. CASE k <= r
    BY <1>1, <1>4, <2>1
  <2>2. CASE k > r
    <3>1. k - r \in 1 .. n /\ k - r \in 1 .. Len(s) - r /\ r + (k - r) = k
      BY <2>2
    <3>2. c[k - r] = b[k - r] /\ b[k - r] = s[r + (k - r)]
      BY <1>1, <1>2, <1>3, <3>1
    <3> QED BY <1>1, <1>4, <2>2, <3>1, <3>2
  <2>3. k <= r \/ k > r
    OBVIOUS
  <2> QED BY <2>1, <2>2, <2>3
<1>6. a \o c = d
  BY <1>1, <1>4, <1>5, SeqEqual
<1> QED BY <1>1, <1>2, <1>3, <1>6 DEF a, b, c, d

LEMMA PieceAll ==
    ASSUME NEW T, NEW s \in Seq(T)
    PROVE  First(s, Len(s)) = s /\ First(s, 0) = << >>
<1>2. SubSeq(s, 1, Len(s)) = s
  BY SubSeqFull
<1>3. SubSeq(s, 1, 0) = << >>
  <2>1. 0 \in 0 .. Len(s)
    OBVIOUS
  <2>2. SubSeq(s, 0 + 1, 0) \in Seq(T) /\ Len(SubSeq(s, 0 + 1, 0)) = 0 - 0
    BY <2>1, PieceSeq
  <2> QED BY <2>2
<1> QED BY <1>2, <1>3 DEF First

-----------------------------------------------------------------------------
(* What the graphs do to the state of a slot. *)

\* A state whose graphs are not in step has them not in step for good: the
\* first has read more than the last.
Sound(state) == InStep(state) \/ Len(state[Graphs]) < Len(state[1])

LEMMA RunState ==
    ASSUME NEW x \in State, NEW ids \in Seq(Symbols), NEW k \in Int
    PROVE  Run(x, ids, k) \in State
<1>1. ASSUME NEW g \in 1 .. Graphs
      PROVE  (IF g <= k THEN x[g] \o ids ELSE x[g]) \in Seq(Symbols)
  BY ConcatProperties DEF State, Symbols
<1> QED BY <1>1 DEF Run, State, Symbols

LEMMA OneGraph == 1 \in 1 .. Graphs /\ Graphs \in 1 .. Graphs
BY QnnAssumption

\* When all graphs run the slot reads the tokens.
LEMMA RunAll ==
    ASSUME NEW x \in State, NEW ids \in Seq(Symbols), Sound(x)
    PROVE  /\ Sound(Run(x, ids, Graphs))
           /\ Seen(Run(x, ids, Graphs)) = B!Read(Seen(x), ids)
           /\ InStep(x) => InStep(Run(x, ids, Graphs))
<1> DEFINE y == Run(x, ids, Graphs)
<1>1. /\ y \in State
      /\ \A g \in 1 .. Graphs : y[g] = x[g] \o ids /\ x[g] \in Seq(Symbols)
                                /\ Len(y[g]) = Len(x[g]) + Len(ids)
  <2>1. y \in State
    BY RunState, QnnAssumption
  <2>2. \A g \in 1 .. Graphs : y[g] = x[g] \o ids
    BY DEF Run
  <2>3. \A g \in 1 .. Graphs : x[g] \in Seq(Symbols)
    BY DEF State, Symbols
  <2>4. \A g \in 1 .. Graphs : Len(x[g] \o ids) = Len(x[g]) + Len(ids)
    BY <2>3, ConcatProperties
  <2> QED BY <2>1, <2>2, <2>3, <2>4
<1>2. x # NoState /\ y # NoState
  BY <1>1, QnnAssumption DEF State
<1> HIDE DEF y
<1>3. CASE InStep(x)
  <2>1. InStep(y)
    BY <1>1, <1>3, OneGraph DEF InStep
  <2>2. x[1] # Lost
    BY <1>1, OneGraph, QnnAssumption DEF Symbols
  <2>3. Seen(y) = x[1] \o ids /\ Seen(x) = x[1]
    BY <1>1, <1>2, <1>3, <2>1, OneGraph DEF Seen
  <2> QED BY <2>1, <2>2, <2>3 DEF Sound, B!Read, y
<1>4. CASE ~ InStep(x)
  <2>1. Len(x[Graphs]) < Len(x[1])
    BY <1>4 DEF Sound
  <2>2. /\ Len(x[Graphs]) \in Nat /\ Len(x[1]) \in Nat /\ Len(ids) \in Nat
        /\ Len(y[Graphs]) = Len(x[Graphs]) + Len(ids) /\ Len(y[1]) = Len(x[1]) + Len(ids)
    <3>1. x[Graphs] \in Seq(Symbols) /\ x[1] \in Seq(Symbols)
      BY <1>1, OneGraph
    <3>2. /\ Len(y[Graphs]) = Len(x[Graphs]) + Len(ids)
          /\ Len(y[1]) = Len(x[1]) + Len(ids)
      BY <1>1, OneGraph
    <3> QED BY <3>1, <3>2, LenProperties
  <2>3. Len(y[Graphs]) < Len(y[1])
    BY <2>1, <2>2
  <2>4. ~ InStep(y)
    <3>1. y[Graphs] # y[1]
      BY <2>2, <2>3
    <3> QED BY <3>1, OneGraph DEF InStep
  <2>5. Seen(y) = Lost /\ Seen(x) = Lost
    BY <1>2, <1>4, <2>4 DEF Seen
  <2> QED BY <1>4, <2>3, <2>5 DEF Sound, B!Read, y
<1> QED BY <1>3, <1>4

\* When only the first graphs run the state is lost, unless none does.
LEMMA RunSome ==
    ASSUME NEW x \in State, NEW ids \in Seq(Symbols), NEW k \in 0 .. Graphs - 1,
           Sound(x), ids # << >>
    PROVE  /\ Sound(Run(x, ids, k))
           /\ k = 0 => Run(x, ids, k) = x
           /\ k > 0 => Seen(Run(x, ids, k)) = Lost
<1> DEFINE y == Run(x, ids, k)
<1>1. k = 0 => y = x
  BY DEF Run, State
<1>2. CASE k > 0
  <2>1. /\ x[1] \in Seq(Symbols) /\ x[Graphs] \in Seq(Symbols)
        /\ y[1] = x[1] \o ids /\ y[Graphs] = x[Graphs]
    BY <1>2, OneGraph, QnnAssumption DEF Run, State, Symbols
  <2>2. Len(y[1]) = Len(x[1]) + Len(ids)
    BY <2>1, ConcatProperties
  <2>3. Len(ids) > 0
    BY EmptySeq
  <2>4. Len(x[Graphs]) <= Len(x[1])
    <3>1. CASE InStep(x)
      BY <2>1, <3>1, OneGraph DEF InStep
    <3>2. CASE ~ InStep(x)
      BY <2>1, <3>2 DEF Sound
    <3> QED BY <3>1, <3>2
  <2>5. Len(y[Graphs]) < Len(y[1])
    BY <2>1, <2>2, <2>3, <2>4
  <2>6. y \in State
    BY RunState
  <2> HIDE DEF y
  <2>7. ~ InStep(y)
    <3>1. y[Graphs] # y[1]
      <4>1. Len(y[Graphs]) \in Nat /\ Len(y[1]) \in Nat
        BY <2>6, OneGraph DEF State
      <4> QED BY <2>5, <4>1
    <3> QED BY <3>1, OneGraph DEF InStep
  <2>8. y # NoState
    BY <2>6, QnnAssumption DEF State
  <2>9. Seen(y) = Lost /\ Sound(y)
    BY <2>5, <2>7, <2>8 DEF Seen, Sound
  <2> QED BY <1>2, <2>9 DEF y
<1>3. k = 0 \/ k > 0
  OBVIOUS
<1> HIDE DEF y
<1>4. CASE k = 0
  BY <1>1, <1>4 DEF y
<1> QED BY <1>2, <1>3, <1>4 DEF y

LEMMA ConcatThree ==
    ASSUME NEW s \in Seq(Symbols), NEW t \in Seq(Symbols), NEW u \in Seq(Symbols)
    PROVE  (s \o t) \o u = s \o (t \o u)
BY ConcatAssociative

\* Two runs of all graphs are one.
LEMMA RunTwice ==
    ASSUME NEW x \in State, NEW a \in Seq(Symbols), NEW b \in Seq(Symbols)
    PROVE  Run(Run(x, a, Graphs), b, Graphs) = Run(x, a \o b, Graphs)
<1> DEFINE y == Run(x, a, Graphs)
<1>1. \A g \in 1 .. Graphs : y[g] = x[g] \o a /\ x[g] \in Seq(Symbols)
  BY DEF Run, State, Symbols
<1> HIDE DEF y
<1>2. ASSUME NEW g \in 1 .. Graphs PROVE y[g] \o b = x[g] \o (a \o b)
  <2>1. x[g] \in Seq(Symbols) /\ y[g] = x[g] \o a
    BY <1>1
  <2>2. (x[g] \o a) \o b = x[g] \o (a \o b)
    BY <2>1, ConcatThree
  <2> QED BY <2>1, <2>2
<1>3. ASSUME NEW g \in 1 .. Graphs
      PROVE  (IF g <= Graphs THEN y[g] \o b ELSE y[g])
               = (IF g <= Graphs THEN x[g] \o (a \o b) ELSE x[g])
  <2>1. g <= Graphs
    BY QnnAssumption
  <2> QED BY <1>2, <2>1, Zenon
<1>4. Run(y, b, Graphs) = Run(x, a \o b, Graphs)
  BY <1>3, Zenon DEF Run
<1> QED BY <1>4 DEF y

\* Nothing read is nothing done.
LEMMA RunNothing ==
    ASSUME NEW x \in State, NEW k \in Int PROVE Run(x, << >>, k) = x
<1>1. \A g \in 1 .. Graphs : x[g] \o << >> = x[g]
  BY ConcatEmptySeq DEF State
<1> QED BY <1>1 DEF Run, State

-----------------------------------------------------------------------------
(* Evaluations of slot 0. *)

\* The prefill graphs leave a state in which all graphs have read the first
\* tokens, or, if one of them failed half way, a lost one.
LEMMA PrefillOutcome ==
    ASSUME NEW x \in State, Sound(x), NEW ids \in Inputs, NEW length \in Nat,
           NEW p \in PrefillRuns(x, ids, length)
    PROVE  /\ p.read \in 0 .. Len(ids) /\ (length = 0 => p.read = 0)
           /\ Sound(p.layer) /\ p.layer \in State /\ p.ok \in BOOLEAN
           /\ p.skewed \in BOOLEAN /\ (p.ok => ~ p.skewed)
           /\ ~ p.skewed => p.layer = Run(x, First(ids, p.read), Graphs)
           /\ p.skewed => Seen(p.layer) = Lost
           /\ ~ p.ok => Seen(p.layer) \in {B!Read(Seen(x), First(ids, p.read)), Lost}
<1>1. ids \in Seq(Symbols)
  BY QnnAssumption, SeqMonotonic DEF Symbols
<1> DEFINE q == Chunks(ids, length)
<1>2. /\ q \in Nat /\ length * q \in 0 .. Len(ids)
      /\ \A m \in 0 .. q - 1 : length > 0 /\ length * m \in Nat
                              /\ length * m + length <= Len(ids)
  <2>1. CASE length = 0
    BY <1>1, <2>1 DEF Chunks
  <2>2. CASE length > 0
    <3>1. q = Len(ids) \div length /\ Len(ids) \in Nat
      BY <1>1, <2>2 DEF Chunks
    <3>2. q \in Nat /\ length * q <= Len(ids)
      BY <2>2, <3>1
    <3> HIDE DEF q
    <3>3. ASSUME NEW m \in 0 .. q - 1
          PROVE  length * m \in Nat /\ length * m + length <= length * q
      BY <2>2, <3>2, <3>3
    <3>4. length * q \in Nat
      BY <3>2
    <3> QED BY <2>2, <3>1, <3>2, <3>3, <3>4
  <2> QED BY <2>1, <2>2
<1> HIDE DEF q
<1>3. ASSUME NEW n \in 0 .. Len(ids)
      PROVE  /\ First(ids, n) \in Seq(Symbols)
             /\ Run(x, First(ids, n), Graphs) \in State
             /\ Sound(Run(x, First(ids, n), Graphs))
             /\ Seen(Run(x, First(ids, n), Graphs)) = B!Read(Seen(x), First(ids, n))
  <2>1. First(ids, n) \in Seq(Symbols)
    <3>1. n \in 0 .. Len(ids) /\ 0 \in 0 .. Len(ids) - n
      BY <1>1
    <3> QED BY <1>1, <3>1, PieceJoin
  <2> QED BY <2>1, RunState, RunAll, QnnAssumption
<1>4. CASE p = [layer |-> Run(x, First(ids, length * q), Graphs),
                read |-> length * q, ok |-> TRUE, skewed |-> FALSE]
  <2> DEFINE n == length * q
             y == Run(x, First(ids, n), Graphs)
  <2>1. p.read = n /\ p.ok = TRUE /\ p.skewed = FALSE /\ p.layer = y
    BY <1>4
  <2>2. n \in 0 .. Len(ids) /\ (length = 0 => n = 0)
    BY <1>2
  <2>3. y \in State /\ Sound(y)
    BY <1>3, <2>2
  <2> HIDE DEF n
  <2> QED BY <2>1, <2>2, <2>3
<1>5. ASSUME NEW m \in 0 .. q - 1, NEW k \in 1 .. Graphs,
             p = [layer |-> Run(Run(x, First(ids, length * m), Graphs),
                                SubSeq(ids, length * m + 1, length * m + length), k - 1),
                  read |-> length * m, ok |-> FALSE, skewed |-> k > 1]
      PROVE  /\ p.read \in 0 .. Len(ids) /\ (length = 0 => p.read = 0)
             /\ Sound(p.layer) /\ p.layer \in State /\ p.ok \in BOOLEAN
             /\ p.skewed \in BOOLEAN /\ (p.ok => ~ p.skewed)
             /\ ~ p.skewed => p.layer = Run(x, First(ids, p.read), Graphs)
             /\ p.skewed => Seen(p.layer) = Lost
             /\ ~ p.ok => Seen(p.layer) \in {B!Read(Seen(x), First(ids, p.read)), Lost}
  <2> DEFINE n == length * m
             y == Run(x, First(ids, n), Graphs)
             chunk == SubSeq(ids, n + 1, n + length)
             z == Run(y, chunk, k - 1)
  <2>1. n \in 0 .. Len(ids) /\ n + length \in n .. Len(ids) /\ length > 0
    BY <1>1, <1>2
  <2>2. y \in State /\ Sound(y) /\ Seen(y) = B!Read(Seen(x), First(ids, n))
    BY <1>3, <2>1
  <2>3. p.read = n /\ p.ok = FALSE /\ p.layer = z /\ p.skewed = (k > 1)
    BY <1>5
  <2> HIDE DEF n, y
  <2>4. chunk \in Seq(Symbols) /\ Len(chunk) = n + length - n
    BY <1>1, <2>1, PieceSeq
  <2>5. chunk # << >> /\ k - 1 \in 0 .. Graphs - 1 /\ k - 1 \in Int
    <3> HIDE DEF chunk
    <3>1. Len(chunk) # 0
      BY <2>1, <2>4
    <3>2. k \in 1 .. Graphs /\ Graphs \in Nat
      BY QnnAssumption
    <3> QED BY <3>1, <3>2
  <2> HIDE DEF chunk
  <2>6. z \in State
    BY <2>2, <2>4, <2>5, RunState
  <2>7. /\ Sound(z) /\ (k - 1 = 0 => z = y) /\ (k - 1 > 0 => Seen(z) = Lost)
    BY <2>2, <2>4, <2>5, RunSome
  <2>8. (k > 1) \in BOOLEAN /\ (k > 1 <=> k - 1 > 0)
    BY <2>5
  <2>9. k - 1 = 0 \/ k - 1 > 0
    BY <2>5
  <2> HIDE DEF z
  <2>10. n \in 0 .. Len(ids) /\ length # 0
    BY <2>1
  <2>11. /\ p.skewed \in BOOLEAN
         /\ ~ p.skewed => z = Run(x, First(ids, n), Graphs)
         /\ p.skewed => Seen(z) = Lost
    BY <2>3, <2>7, <2>8, <2>9 DEF y
  <2>12. Seen(z) \in {B!Read(Seen(x), First(ids, n)), Lost}
    BY <2>2, <2>7, <2>9
  <2> QED BY <2>3, <2>6, <2>7, <2>10, <2>11, <2>12, Zenon
<1> DEFINE whole == [layer |-> Run(x, First(ids, length * q), Graphs),
                    read |-> length * q, ok |-> TRUE, skewed |-> FALSE]
           part(m, k) == [layer |-> Run(Run(x, First(ids, length * m), Graphs),
                                        SubSeq(ids, length * m + 1, length * m + length),
                                        k - 1),
                          read |-> length * m, ok |-> FALSE, skewed |-> k > 1]
<1>6. PrefillRuns(x, ids, length)
        = {whole} \cup {part(m, k) : m \in 0 .. q - 1, k \in 1 .. Graphs}
  BY DEF PrefillRuns, q
<1> HIDE DEF whole, part
<1>7. p = whole \/ \E m \in 0 .. q - 1, k \in 1 .. Graphs : p = part(m, k)
  BY <1>6
<1> QED BY <1>4, <1>5, <1>7, Zenon DEF whole, part

\* Two states of a slot behind some of the tokens, one token apart.
Nearby(x, ids, n) ==
    {B!Read(Seen(x), First(ids, n)), Lost}
      \cup (IF n < Len(ids) THEN {B!Read(Seen(x), First(ids, n + 1))} ELSE {})

\* The decode graphs read all tokens, or leave the state at one of them, or a
\* lost one; where the logits were not copied the state is one token ahead.
LEMMA DecodeOutcome ==
    ASSUME NEW x \in State, Sound(x), NEW ids \in Seq(Symbols),
           NEW stages \in {Graphs, Graphs + 1}, NEW d \in DecodeRuns(x, ids, stages)
    PROVE  /\ d.read \in 0 .. Len(ids)
           /\ Sound(d.layer) /\ d.layer \in State /\ d.ok \in BOOLEAN
           /\ d.ok => d.read = Len(ids) /\ d.layer = Run(x, ids, Graphs)
           /\ ~ d.ok => Seen(d.layer) \in Nearby(x, ids, d.read)
<1> DEFINE whole == [layer |-> Run(x, ids, Graphs), read |-> Len(ids), ok |-> TRUE]
           part(n, k) == [layer |-> Run(Run(x, First(ids, n), Graphs), <<ids[n + 1]>>, k - 1),
                          read |-> n, ok |-> FALSE]
<1>1. CASE d = whole
  <2>1. Run(x, ids, Graphs) \in State /\ Sound(Run(x, ids, Graphs))
    BY RunState, RunAll, QnnAssumption
  <2>2. d.layer = Run(x, ids, Graphs) /\ d.read = Len(ids) /\ d.ok = TRUE
    BY <1>1
  <2>3. Len(ids) \in 0 .. Len(ids) /\ First(ids, Len(ids)) = ids
    BY PieceAll
  <2> HIDE DEF whole
  <2> QED BY <2>1, <2>2, <2>3
<1>2. ASSUME NEW n \in 0 .. Len(ids) - 1, NEW k \in 1 .. Graphs + 1, d = part(n, k)
      PROVE  /\ d.read \in 0 .. Len(ids)
             /\ Sound(d.layer) /\ d.layer \in State /\ d.ok = FALSE
             /\ Seen(d.layer) \in Nearby(x, ids, d.read)
  <2> DEFINE y == Run(x, First(ids, n), Graphs)
             z == Run(y, <<ids[n + 1]>>, k - 1)
  <2>1. d.read = n /\ d.ok = FALSE /\ d.layer = z
    BY <1>2
  <2>2. First(ids, n) \in Seq(Symbols)
    <3>1. n \in 0 .. Len(ids) /\ 0 \in 0 .. Len(ids) - n
      OBVIOUS
    <3> QED BY <3>1, PieceJoin
  <2>3. y \in State /\ Sound(y) /\ Seen(y) = B!Read(Seen(x), First(ids, n))
    BY <2>2, RunState, RunAll, QnnAssumption
  <2>4. /\ <<ids[n + 1]>> \in Seq(Symbols) /\ <<ids[n + 1]>> # << >>
        /\ n < Len(ids) /\ n \in 0 .. Len(ids)
    <3>1. ids[n + 1] \in Symbols
      BY ElementOfSeq
    <3> QED BY <3>1
  <2>5. CASE k <= Graphs
    <3>1. k - 1 \in 0 .. Graphs - 1 /\ k - 1 \in Int
      BY <2>5, QnnAssumption
    <3> HIDE DEF y
    <3>2. z \in State /\ Sound(z) /\ (k - 1 = 0 => z = y) /\ (k - 1 > 0 => Seen(z) = Lost)
      BY <2>3, <2>4, <3>1, RunState, RunSome
    <3>3. k - 1 = 0 \/ k - 1 > 0
      BY <3>1
    <3> HIDE DEF z
    <3>4. Seen(z) \in {B!Read(Seen(x), First(ids, n)), Lost}
      BY <2>3, <3>2, <3>3
    <3> QED BY <2>1, <2>4, <3>2, <3>4 DEF Nearby
  <2>6. CASE k = Graphs + 1
    <3>1. k - 1 = Graphs
      BY <2>6, QnnAssumption
    <3>2. /\ First(ids, n + 1) \in Seq(Symbols)
          /\ z = Run(x, First(ids, n + 1), Graphs)
      <4>1. /\ n \in 0 .. Len(ids) /\ 1 \in 0 .. Len(ids) - n
            /\ n + 1 \in 0 .. Len(ids) /\ 0 \in 0 .. Len(ids) - (n + 1)
        BY <2>4
      <4>2. First(ids, n) \o First(From(ids, n), 1) = First(ids, n + 1)
        BY <4>1, PieceJoin
      <4>3. First(From(ids, n), 1) = <<ids[n + 1]>>
        <5>1. From(ids, n) \in Seq(Symbols) /\ Len(From(ids, n)) = Len(ids) - n
              /\ \A i \in 1 .. Len(ids) - n : From(ids, n)[i] = ids[n + i]
          <6>1. n \in 0 .. Len(ids) /\ Len(ids) \in n .. Len(ids)
            BY <4>1
          <6> QED BY <6>1, PieceSeq DEF From
        <5> HIDE DEF y, z
        <5> DEFINE rest == From(ids, n)
        <5>2. rest \in Seq(Symbols) /\ 0 \in 0 .. Len(rest) /\ 1 \in 0 .. Len(rest)
          BY <4>1, <5>1
        <5> HIDE DEF rest
        <5>3. /\ SubSeq(rest, 0 + 1, 1) \in Seq(Symbols) /\ Len(SubSeq(rest, 0 + 1, 1)) = 1 - 0
              /\ \A i \in 1 .. 1 - 0 : SubSeq(rest, 0 + 1, 1)[i] = rest[0 + i]
          BY <5>2, PieceSeq
        <5>4. rest[1] = ids[n + 1]
          BY <4>1, <5>1 DEF rest
        <5>5. First(rest, 1) \in Seq(Symbols) /\ Len(First(rest, 1)) = 1
              /\ First(rest, 1)[1] = ids[n + 1]
          BY <5>3, <5>4 DEF First
        <5> DEFINE f == First(rest, 1)
        <5>6. f \in Seq(Symbols) /\ Len(f) = 1 /\ f[1] = ids[n + 1]
          BY <5>5
        <5> HIDE DEF f
        <5>7. f = <<ids[n + 1]>>
          BY <5>6
        <5> QED BY <5>7 DEF f, rest
      <4>4. Run(y, <<ids[n + 1]>>, Graphs) = Run(x, First(ids, n) \o <<ids[n + 1]>>, Graphs)
        BY <2>2, <2>4, RunTwice
      <4>5. First(ids, n + 1) \in Seq(Symbols)
        BY <4>1, PieceJoin
      <4> QED BY <3>1, <4>2, <4>3, <4>4, <4>5
    <3> HIDE DEF z
    <3>3. /\ z \in State /\ Sound(z) /\ Seen(z) = B!Read(Seen(x), First(ids, n + 1))
      BY <3>2, RunState, RunAll, QnnAssumption
    <3> QED BY <2>1, <2>4, <3>3 DEF Nearby
  <2> HIDE DEF y, z
  <2>7. k <= Graphs \/ k = Graphs + 1
    BY QnnAssumption
  <2> QED BY <2>5, <2>6, <2>7, Zenon
<1>3. DecodeRuns(x, ids, stages)
        = {whole} \cup {part(n, k) : n \in 0 .. Len(ids) - 1, k \in 1 .. stages}
  BY DEF DecodeRuns
<1> HIDE DEF whole, part
<1>4. d = whole \/ \E n \in 0 .. Len(ids) - 1, k \in 1 .. stages : d = part(n, k)
  BY <1>3
<1>5. d = whole => d.ok = TRUE
  BY DEF whole
<1>6. 1 .. stages \subseteq 1 .. Graphs + 1
  BY QnnAssumption
<1> QED BY <1>1, <1>2, <1>4, <1>5, <1>6

\* Prefill and decode together: all tokens are read, unless a skewed prefill is
\* hidden; or the state is behind some of them, or a lost one.
LEMMA EvalOutcome ==
    ASSUME NEW x \in State, Sound(x), NEW ids \in Inputs, NEW length \in Nat,
           NEW stages \in {Graphs, Graphs + 1}, NEW p \in PrefillRuns(x, ids, length),
           NEW d \in DecodeRuns(p.layer, Left(ids, p), stages)
    PROVE  /\ Sound(d.layer) /\ d.layer \in State /\ d.ok \in BOOLEAN
           /\ p.read + d.read \in 0 .. Len(ids)
           /\ d.ok /\ ~ p.skewed => d.layer = Run(x, ids, Graphs)
           /\ d.ok /\ p.skewed => Seen(d.layer) = Lost
           /\ ~ d.ok => Seen(d.layer) \in Nearby(x, ids, p.read + d.read)
<1>1. ids \in Seq(Symbols)
  BY QnnAssumption, SeqMonotonic DEF Symbols
<1> DEFINE rest == Left(ids, p)
           head == First(ids, p.read)
<1>2. /\ p.read \in 0 .. Len(ids) /\ Sound(p.layer) /\ p.layer \in State
      /\ p.skewed \in BOOLEAN
      /\ ~ p.skewed => p.layer = Run(x, head, Graphs)
      /\ p.skewed => Seen(p.layer) = Lost
  BY PrefillOutcome
<1>3. rest \in Seq(Symbols) /\ Len(rest) = Len(ids) - p.read /\ head \in Seq(Symbols)
  <2>1. p.read \in 0 .. Len(ids) /\ 0 \in 0 .. Len(ids) - p.read
    BY <1>1, <1>2
  <2> QED BY <1>1, <2>1, PieceJoin DEF Left
<1> HIDE DEF head
<1>4. /\ d.read \in 0 .. Len(rest)
      /\ Sound(d.layer) /\ d.layer \in State /\ d.ok \in BOOLEAN
      /\ d.ok => d.read = Len(rest) /\ d.layer = Run(p.layer, rest, Graphs)
      /\ ~ d.ok => Seen(d.layer) \in Nearby(p.layer, rest, d.read)
  BY <1>2, <1>3, DecodeOutcome
<1>5. ASSUME NEW n \in 0 .. Len(rest)
      PROVE  /\ First(rest, n) \in Seq(Symbols) /\ p.read + n \in 0 .. Len(ids)
             /\ head \o First(rest, n) = First(ids, p.read + n)
  <2>1. p.read \in 0 .. Len(ids) /\ n \in 0 .. Len(ids) - p.read
    BY <1>2, <1>3
  <2>2. p.read + n \in 0 .. Len(ids)
    BY <1>1, <2>1
  <2> QED BY <1>1, <2>1, <2>2, PieceJoin DEF head, Left
<1> HIDE DEF rest
<1>6. ASSUME ~ p.skewed, NEW n \in 0 .. Len(rest)
      PROVE  /\ Run(p.layer, First(rest, n), Graphs) = Run(x, First(ids, p.read + n), Graphs)
             /\ B!Read(Seen(p.layer), First(rest, n))
                  = B!Read(Seen(x), First(ids, p.read + n))
  <2>1. /\ First(rest, n) \in Seq(Symbols) /\ head \o First(rest, n) = First(ids, p.read + n)
        /\ head \o First(rest, n) \in Seq(Symbols)
    BY <1>3, <1>5, ConcatProperties
  <2>2. Run(Run(x, head, Graphs), First(rest, n), Graphs)
          = Run(x, head \o First(rest, n), Graphs)
    BY <1>3, <2>1, RunTwice
  <2>3. p.layer = Run(x, head, Graphs)
    BY <1>2, <1>6
  <2>4. Seen(Run(p.layer, First(rest, n), Graphs)) = B!Read(Seen(p.layer), First(rest, n))
    BY <1>2, <2>1, RunAll
  <2>5. Seen(Run(x, First(ids, p.read + n), Graphs)) = B!Read(Seen(x), First(ids, p.read + n))
    BY <2>1, RunAll
  <2> QED BY <2>1, <2>2, <2>3, <2>4, <2>5
<1>7. ASSUME d.ok, ~ p.skewed PROVE d.layer = Run(x, ids, Graphs)
  <2>1. Len(rest) \in 0 .. Len(rest) /\ p.read + Len(rest) = Len(ids)
    BY <1>1, <1>2, <1>3
  <2>2. First(rest, Len(rest)) = rest /\ First(ids, Len(ids)) = ids
    BY <1>1, <1>3, PieceAll
  <2> QED BY <1>4, <1>6, <1>7, <2>1, <2>2
<1>8. ASSUME d.ok, p.skewed PROVE Seen(d.layer) = Lost
  <2>1. Seen(Run(p.layer, rest, Graphs)) = B!Read(Seen(p.layer), rest)
    BY <1>2, <1>3, RunAll
  <2> QED BY <1>2, <1>4, <1>8, <2>1 DEF B!Read
<1>9. p.read + d.read \in 0 .. Len(ids)
  BY <1>4, <1>5
<1>10. ASSUME ~ d.ok, p.skewed PROVE Seen(d.layer) \in Nearby(x, ids, p.read + d.read)
  <2>1. Seen(d.layer) = Lost
    BY <1>2, <1>4, <1>10 DEF Nearby, B!Read
  <2> QED BY <2>1 DEF Nearby
<1>11. ASSUME ~ d.ok, ~ p.skewed PROVE Seen(d.layer) \in Nearby(x, ids, p.read + d.read)
  <2>1. B!Read(Seen(p.layer), First(rest, d.read))
          = B!Read(Seen(x), First(ids, p.read + d.read))
    BY <1>4, <1>6, <1>11
  <2>2. CASE d.read < Len(rest)
    <3>1. /\ d.read + 1 \in 0 .. Len(rest) /\ p.read + (d.read + 1) = p.read + d.read + 1
          /\ p.read + d.read < Len(ids)
      <4>1. Len(ids) \in Nat /\ Len(rest) \in Nat /\ p.read \in Nat /\ d.read \in Nat
            /\ p.read + Len(rest) = Len(ids)
        BY <1>1, <1>2, <1>3, <1>4
      <4> QED BY <2>2, <4>1
    <3>2. B!Read(Seen(p.layer), First(rest, d.read + 1))
            = B!Read(Seen(x), First(ids, p.read + (d.read + 1)))
      BY <1>6, <1>11, <3>1
    <3>3. B!Read(Seen(p.layer), First(rest, d.read + 1))
            = B!Read(Seen(x), First(ids, p.read + d.read + 1))
      BY <3>1, <3>2
    <3>4. Seen(d.layer) \in {B!Read(Seen(p.layer), First(rest, d.read)), Lost,
                             B!Read(Seen(p.layer), First(rest, d.read + 1))}
      BY <1>4, <1>11 DEF Nearby
    <3> QED BY <2>1, <3>1, <3>3, <3>4 DEF Nearby
  <2>3. CASE ~ (d.read < Len(rest))
    <3>1. Seen(d.layer) \in {B!Read(Seen(p.layer), First(rest, d.read)), Lost}
      BY <1>4, <1>11, <2>3 DEF Nearby
    <3> QED BY <2>1, <3>1 DEF Nearby
  <2> QED BY <2>2, <2>3
<1> QED BY <1>2, <1>4, <1>7, <1>8, <1>9, <1>10, <1>11

-----------------------------------------------------------------------------
(* Slots and rows. *)

LEMMA SlotCountMax ==
    /\ SlotCount \in SupportedSizes
    /\ \A n \in SupportedSizes : n <= SlotCount
<1>1. SupportedSizes \subseteq 1 .. 8 /\ 1 \in SupportedSizes
  BY DEF SupportedSizes
<1>2. \E n \in SupportedSizes : \A k \in SupportedSizes : k <= n
  <2>1. CASE 8 \in SupportedSizes
    BY <1>1, <2>1
  <2>2. CASE 8 \notin SupportedSizes /\ 7 \in SupportedSizes
    BY <1>1, <2>2
  <2>3. CASE {7, 8} \cap SupportedSizes = {} /\ 6 \in SupportedSizes
    BY <1>1, <2>3
  <2>4. CASE {6, 7, 8} \cap SupportedSizes = {} /\ 5 \in SupportedSizes
    BY <1>1, <2>4
  <2>5. CASE {5, 6, 7, 8} \cap SupportedSizes = {} /\ 4 \in SupportedSizes
    BY <1>1, <2>5
  <2>6. CASE {4, 5, 6, 7, 8} \cap SupportedSizes = {} /\ 3 \in SupportedSizes
    BY <1>1, <2>6
  <2>7. CASE {3, 4, 5, 6, 7, 8} \cap SupportedSizes = {}
    BY <1>1, <2>7
  <2> QED BY <2>1, <2>2, <2>3, <2>4, <2>5, <2>6, <2>7
<1> QED BY <1>2 DEF SlotCount

LEMMA SlotCountNat == SlotCount \in 1 .. 8 /\ 0 \in Slots
<1>1. SlotCount \in 1 .. 8
  BY SlotCountMax DEF SupportedSizes
<1> QED BY <1>1 DEF Slots

\* The graph of a batch works on slots that exist.
LEMMA BatchFits ==
    ASSUME NEW n \in SupportedSizes, GraphSize(n) \in BatchGraphs
    PROVE  /\ n \in Nat \ {0} /\ n <= SlotCount /\ GraphSize(n) <= SlotCount
           /\ GraphSize(n) \in Nat
           /\ (n % 2 = 1 /\ GraphSize(n) = n + 1) \/ (n % 2 = 0 /\ GraphSize(n) = n)
<1>1. n \in 1 .. 8
  BY DEF SupportedSizes
<1>2. (n % 2 = 1 /\ GraphSize(n) = n + 1) \/ (n % 2 = 0 /\ GraphSize(n) = n)
  BY <1>1 DEF GraphSize, Even
<1>3. GraphSize(n) \in {2, 4, 6, 8}
  BY QnnAssumption
<1>4. Even(GraphSize(n)) = GraphSize(n)
  BY <1>3 DEF Even
<1>5. GraphSize(n) \in SupportedSizes
  BY <1>3, <1>4 DEF SupportedSizes
<1> QED BY <1>1, <1>2, <1>3, <1>5, SlotCountMax, SlotCountNat

\* How a change of one slot and a single row of logits are seen.
LEMMA SeenSlot ==
    ASSUME NEW f \in [Slots -> State], NEW s \in Slots, NEW y
    PROVE  [t \in Slots |-> Seen([f EXCEPT ![s] = y][t])]
             = [[t \in Slots |-> Seen(f[t])] EXCEPT ![s] = Seen(y)]
OBVIOUS

LEMMA SeenRow ==
    ASSUME NEW y
    PROVE  [b \in DOMAIN <<y>> |-> Seen(<<y>>[b])] = <<Seen(y)>>
OBVIOUS

LEMMA StateSeen ==
    ASSUME NEW x \in State PROVE x # NoState /\ Seen(x) # NoState
<1>1. x # NoState
  BY QnnAssumption DEF State
<1>2. CASE InStep(x)
  BY <1>1, <1>2, OneGraph, QnnAssumption DEF State, Seen
<1>3. CASE ~ InStep(x)
  BY <1>1, <1>3, QnnAssumption DEF Seen
<1> QED BY <1>1, <1>2, <1>3

-----------------------------------------------------------------------------
(* The states that are reached. *)

\* In every slot the first graph has read at least as much as the last.
SlotsSound ==
    /\ \A s \in Slots : Sound(layers[s])
    /\ held # NoState => Sound(held)

SInv == TypeOK /\ SlotsSound

\* Without an error, and with no failed prefill hidden, all graphs are in step.
Clean == ~ failed /\ hidden = "never"

SlotsInStep ==
    Clean => /\ \A s \in Slots : InStep(layers[s])
             /\ held # NoState => InStep(held)

LEMMA EmptyState == Empty \in State /\ InStep(Empty) /\ Sound(Empty) /\ Seen(Empty) = << >>
<1>1. Empty \in State /\ InStep(Empty)
  BY OneGraph DEF Empty, State, InStep
<1>2. Empty # NoState /\ Empty[1] = << >>
  BY <1>1, OneGraph, QnnAssumption DEF State, Empty
<1> QED BY <1>1, <1>2 DEF Sound, Seen

LEMMA InitSInv == Init => SInv /\ SlotsInStep /\ B!Init
<1> SUFFICES ASSUME Init PROVE SInv /\ SlotsInStep /\ B!Init
  OBVIOUS
<1>1. TypeOK
  <2>1. layers \in [Slots -> State] /\ held \in State \cup {NoState} /\ logits \in Seq(State)
    BY EmptyState DEF Init
  <2>2. DOMAIN inputs = BatchGraphs /\ \A b \in BatchGraphs : inputs[b] \in [0 .. b - 1 -> Tokens]
    BY DEF Init
  <2>3. calls \in Nat /\ hidden \in {"never", "now", "earlier"}
    BY DEF Init
  <2>4. external \in BOOLEAN /\ result \in BOOLEAN /\ failed \in BOOLEAN
    BY Zenon DEF Init
  <2> QED BY <2>1, <2>2, <2>3, <2>4, Zenon DEF TypeOK
<1>2. SlotsSound /\ SlotsInStep
  BY EmptyState DEF Init, SlotsSound, SlotsInStep
<1>3. B!Init
  <2>1. [s \in Slots |-> Seen(layers[s])] = [s \in B!Slots |-> << >>]
    BY EmptyState DEF Init, B!Slots, Slots
  <2>2. Seen(held) = NoState
    BY DEF Init, Seen
  <2>3. [b \in DOMAIN logits |-> Seen(logits[b])] = << >>
    BY DEF Init
  <2> QED BY <2>1, <2>2, <2>3, Zenon DEF B!Init, Init
<1> QED BY <1>1, <1>2, <1>3 DEF SInv

\* What a call does to the parts of the state that are not tensors.
Typed ==
    /\ external \in BOOLEAN /\ result \in BOOLEAN /\ failed \in BOOLEAN
    /\ hidden \in {"never", "now", "earlier"} /\ calls \in Nat

LEMMA OutcomeTypes ==
    ASSUME SInv, NEW ok \in BOOLEAN, NEW hides \in BOOLEAN, Outcome(ok, hides),
           external' = external
    PROVE  /\ Typed' /\ result' = ok /\ (Clean' => ok /\ ~ hides /\ Clean)
           /\ hides => hidden' = "now"
<1>1. /\ result' = ok /\ external' \in BOOLEAN /\ result' \in BOOLEAN /\ failed' \in BOOLEAN
      /\ ~ failed' => ok /\ ~ failed
  BY Zenon DEF SInv, TypeOK, Outcome
<1>2. /\ hidden' \in {"never", "now", "earlier"} /\ calls' \in Nat
      /\ hidden' = "never" => ~ hides /\ hidden = "never"
      /\ hides => hidden' = "now"
  BY DEF SInv, TypeOK, Outcome
<1> QED BY <1>1, <1>2, Zenon DEF Typed, Clean

LEMMA ReturnsTypes ==
    ASSUME SInv, NEW ok \in BOOLEAN, Returns(ok), external' = external
    PROVE  Typed' /\ result' = ok /\ (Clean' => ok /\ Clean)
<1>1. Outcome(ok, FALSE) /\ FALSE \in BOOLEAN
  BY DEF Returns
<1> QED BY <1>1, OutcomeTypes

\* A call that changes one slot.
LEMMA SlotStep ==
    ASSUME SInv, NEW s \in Slots, NEW y \in State, Sound(y),
           layers' = [layers EXCEPT ![s] = y],
           inputs' = inputs, held' = held, external' = external, logits' \in Seq(State),
           NEW ok \in BOOLEAN, NEW hides \in BOOLEAN, Outcome(ok, hides)
    PROVE  /\ SInv'
           /\ SlotsInStep /\ (ok /\ ~ hides /\ Clean => InStep(y)) => SlotsInStep'
           /\ [t \in Slots |-> Seen(layers[t])]'
                = [[t \in Slots |-> Seen(layers[t])] EXCEPT ![s] = Seen(y)]
           /\ Seen(held)' = Seen(held) /\ result' = ok
           /\ hides => hidden' = "now"
<1>1. layers \in [Slots -> State]
  BY DEF SInv, TypeOK
<1>2. layers' \in [Slots -> State] /\ \A t \in Slots : layers'[t] = IF t = s THEN y ELSE layers[t]
  BY <1>1
<1>3. /\ Typed' /\ result' = ok /\ (Clean' => ok /\ ~ hides /\ Clean)
      /\ hides => hidden' = "now"
  BY OutcomeTypes, Zenon
<1>4. TypeOK'
  BY <1>2, <1>3, Zenon DEF SInv, TypeOK, Typed
<1>5. SlotsSound'
  BY <1>2, Zenon DEF SInv, SlotsSound
<1>6. SlotsInStep /\ (ok /\ ~ hides /\ Clean => InStep(y)) => SlotsInStep'
  BY <1>2, <1>3, Zenon DEF SlotsInStep
<1>7. [t \in Slots |-> Seen(layers[t])]'
        = [[t \in Slots |-> Seen(layers[t])] EXCEPT ![s] = Seen(y)]
  BY <1>1, SeenSlot
<1>8. Seen(held)' = Seen(held)
  BY DEF Seen, InStep
<1> QED BY <1>3, <1>4, <1>5, <1>6, <1>7, <1>8, Zenon DEF SInv

LEMMA SlotReturn ==
    ASSUME SInv, NEW s \in Slots, NEW y \in State, Sound(y),
           layers' = [layers EXCEPT ![s] = y],
           inputs' = inputs, held' = held, external' = external, logits' \in Seq(State),
           NEW ok \in BOOLEAN, Returns(ok)
    PROVE  /\ SInv'
           /\ SlotsInStep /\ (ok /\ Clean => InStep(y)) => SlotsInStep'
           /\ [t \in Slots |-> Seen(layers[t])]'
                = [[t \in Slots |-> Seen(layers[t])] EXCEPT ![s] = Seen(y)]
           /\ Seen(held)' = Seen(held) /\ result' = ok
<1>1. Outcome(ok, FALSE) /\ FALSE \in BOOLEAN
  BY DEF Returns
<1>2. /\ SInv' /\ (SlotsInStep /\ (ok /\ ~ FALSE /\ Clean => InStep(y)) => SlotsInStep')
      /\ [t \in Slots |-> Seen(layers[t])]'
           = [[t \in Slots |-> Seen(layers[t])] EXCEPT ![s] = Seen(y)]
      /\ Seen(held)' = Seen(held) /\ result' = ok
  BY <1>1, SlotStep
<1> QED BY <1>2, Zenon

\* The evaluation of slot 0 that succeeds, and the one that fails after n tokens.
LEMMA EvalIsEval ==
    ASSUME SInv, NEW ids \in Inputs, NEW y \in State,
           y = Run(layers[0], ids, Graphs),
           layers' = [layers EXCEPT ![0] = y], logits' = <<y>>,
           inputs' = inputs, held' = held, external' = external, Returns(TRUE)
    PROVE  SInv' /\ (SlotsInStep => SlotsInStep') /\ B!Eval(ids)
<1>1. ids \in Seq(Symbols)
  BY QnnAssumption, SeqMonotonic DEF Symbols
<1>2. layers[0] \in State /\ Sound(layers[0]) /\ 0 \in Slots
  BY SlotCountNat DEF SInv, TypeOK, SlotsSound
<1>3. /\ Sound(y) /\ Seen(y) = B!Read(Seen(layers[0]), ids)
      /\ InStep(layers[0]) => InStep(y)
  BY <1>1, <1>2, RunAll
<1>4. logits' \in Seq(State)
  OBVIOUS
<1>5. /\ SInv' /\ (SlotsInStep /\ (TRUE /\ Clean => InStep(y)) => SlotsInStep')
      /\ [t \in Slots |-> Seen(layers[t])]'
           = [[t \in Slots |-> Seen(layers[t])] EXCEPT ![0] = Seen(y)]
      /\ Seen(held)' = Seen(held) /\ result' = TRUE
  BY <1>2, <1>3, <1>4, SlotReturn
<1>6. SlotsInStep => SlotsInStep'
  BY <1>2, <1>3, <1>5 DEF SlotsInStep
<1>7. [b \in DOMAIN logits |-> Seen(logits[b])]' = <<Seen(y)>>
  BY SeenRow
<1>8. [t \in Slots |-> Seen(layers[t])][0] = Seen(layers[0])
  BY <1>2
<1>9. B!Eval(ids)
  BY <1>3, <1>5, <1>7, <1>8 DEF B!Eval
<1> QED BY <1>5, <1>6, <1>9

LEMMA FirstSeq ==
    ASSUME NEW ids \in Seq(Symbols), NEW n \in 0 .. Len(ids)
    PROVE  First(ids, n) \in Seq(Symbols)
<1>1. n \in 0 .. Len(ids) /\ 0 \in 0 .. Len(ids) - n
  OBVIOUS
<1> QED BY <1>1, PieceJoin

\* m is the number of tokens whose logits may have been copied.
LEMMA FailIsFail ==
    ASSUME SInv, NEW ids \in Inputs, NEW y \in State, Sound(y), NEW m \in 0 .. Len(ids),
           Seen(y) \in Nearby(layers[0], ids, m),
           layers' = [layers EXCEPT ![0] = y],
           logits' \in {logits, <<Run(layers[0], First(ids, m), Graphs)>>},
           inputs' = inputs, held' = held, external' = external, Returns(FALSE)
    PROVE  SInv' /\ (SlotsInStep => SlotsInStep') /\ B!EvalFails(ids)
<1>1. ids \in Seq(Symbols)
  BY QnnAssumption, SeqMonotonic DEF Symbols
<1>2. layers[0] \in State /\ Sound(layers[0]) /\ 0 \in Slots
  BY SlotCountNat DEF SInv, TypeOK, SlotsSound
<1> DEFINE head == First(ids, m)
           x == Run(layers[0], head, Graphs)
<1>3. head \in Seq(Symbols)
  BY <1>1, FirstSeq
<1>4. x \in State /\ Seen(x) = B!Read(Seen(layers[0]), head)
  BY <1>2, <1>3, RunAll, RunState, QnnAssumption
<1>5. logits' \in Seq(State) /\ logits \in Seq(State)
  <2> HIDE DEF x
  <2>1. <<x>> \in Seq(State) /\ logits \in Seq(State)
    BY <1>4 DEF SInv, TypeOK
  <2> QED BY <2>1 DEF x
<1>6. /\ SInv' /\ (SlotsInStep /\ (FALSE /\ Clean => InStep(y)) => SlotsInStep')
      /\ [t \in Slots |-> Seen(layers[t])]'
           = [[t \in Slots |-> Seen(layers[t])] EXCEPT ![0] = Seen(y)]
      /\ Seen(held)' = Seen(held) /\ result' = FALSE
  BY <1>2, <1>5, SlotReturn
<1>7. [t \in Slots |-> Seen(layers[t])][0] = Seen(layers[0])
  BY <1>2
<1> HIDE DEF x
<1>8. [b \in DOMAIN logits |-> Seen(logits[b])]'
        \in {[b \in DOMAIN logits |-> Seen(logits[b])], <<Seen(x)>>}
  <2>1. CASE logits' = logits
    BY <2>1 DEF Seen, InStep
  <2>2. CASE logits' = <<x>>
    BY <2>2, SeenRow
  <2> QED BY <2>1, <2>2 DEF x
<1> DEFINE bar == [t \in Slots |-> Seen(layers[t])]
           rows == [b \in DOMAIN logits |-> Seen(logits[b])]
<1>9. PICK n \in 0 .. Len(ids) :
        /\ m <= n
        /\ Seen(y) \in {B!Read(Seen(layers[0]), First(ids, n)), Lost}
  <2>1. CASE m < Len(ids)
    <3>1. m + 1 \in 0 .. Len(ids) /\ m <= m + 1 /\ m <= m
      BY <1>1, <2>1
    <3>2. Seen(y) \in {B!Read(Seen(layers[0]), First(ids, m)), Lost}
          \/ Seen(y) \in {B!Read(Seen(layers[0]), First(ids, m + 1)), Lost}
      BY <2>1 DEF Nearby
    <3> QED BY <3>1, <3>2, Zenon
  <2>2. CASE ~ (m < Len(ids))
    <3>1. Seen(y) \in {B!Read(Seen(layers[0]), First(ids, m)), Lost} /\ m <= m
      BY <2>2 DEF Nearby
    <3> QED BY <3>1, Zenon
  <2> QED BY <2>1, <2>2
<1>10. /\ bar' \in {[bar EXCEPT ![0] = B!Read(@, SubSeq(ids, 1, n))],
                    [bar EXCEPT ![0] = Lost]}
       /\ rows' \in {rows, <<B!Read(bar[0], SubSeq(ids, 1, m))>>}
  <2>1. bar' = [bar EXCEPT ![0] = Seen(y)] /\ bar[0] = Seen(layers[0])
    BY <1>6, <1>7
  <2>2. Seen(y) \in {B!Read(bar[0], SubSeq(ids, 1, n)), Lost}
    BY <1>9, <2>1 DEF First
  <2>3. Seen(x) = B!Read(bar[0], SubSeq(ids, 1, m))
    BY <1>4, <2>1 DEF First
  <2>4. rows' \in {rows, <<Seen(x)>>}
    BY <1>8
  <2> HIDE DEF bar, rows
  <2> QED BY <2>1, <2>2, <2>3, <2>4
<1>11. B!EvalFails(ids)
  BY <1>6, <1>9, <1>10 DEF B!EvalFails
<1> QED BY <1>6, <1>11

\* The evaluation of slot 0 that hides a skewed prefill.
LEMMA LosesIsLoses ==
    ASSUME SInv, NEW y \in State, Sound(y), Seen(y) = Lost,
           layers' = [layers EXCEPT ![0] = y], logits' = <<y>>,
           inputs' = inputs, held' = held, external' = external, Outcome(TRUE, TRUE)
    PROVE  SInv' /\ (SlotsInStep => SlotsInStep') /\ hidden' = "now" /\ B!EvalLosesState
<1>1. 0 \in Slots /\ TRUE \in BOOLEAN /\ logits' \in Seq(State)
  BY SlotCountNat
<1>2. /\ SInv' /\ (SlotsInStep /\ (TRUE /\ ~ TRUE /\ Clean => InStep(y)) => SlotsInStep')
      /\ [t \in Slots |-> Seen(layers[t])]'
           = [[t \in Slots |-> Seen(layers[t])] EXCEPT ![0] = Seen(y)]
      /\ Seen(held)' = Seen(held) /\ result' = TRUE
      /\ TRUE => hidden' = "now"
  BY <1>1, SlotStep
<1>3. [b \in DOMAIN logits |-> Seen(logits[b])]' = <<Lost>>
  BY SeenRow
<1>4. B!EvalLosesState
  BY <1>2, <1>3 DEF B!EvalLosesState
<1> QED BY <1>2, <1>4

\* A step of the runtime's view.
Bstep == [B!Next \/ (hidden' = "now" /\ B!EvalLosesState)]_(B!vars)

LEMMA EvalStep ==
    ASSUME SInv, NEW ids \in Inputs, EvalTokens(ids)
    PROVE  SInv' /\ (SlotsInStep => SlotsInStep') /\ Bstep
<1> DEFINE n(d) == IF d.ok THEN Len(ids) - 1 ELSE d.read
<1>1. PICK p \in PrefillRuns(layers[0], ids, PrefillLength) :
        \E d \in DecodeRuns(p.layer, Left(ids, p), Stages) :
          /\ layers' = [layers EXCEPT ![0] = d.layer]
          /\ \/ d.ok /\ logits' = <<d.layer>> /\ Outcome(TRUE, p.skewed)
             \/ logits' = Copied(ids, n(d)) /\ Returns(FALSE)
  BY Zenon DEF EvalTokens
<1>2. PICK d \in DecodeRuns(p.layer, Left(ids, p), Stages) :
          /\ layers' = [layers EXCEPT ![0] = d.layer]
          /\ \/ d.ok /\ logits' = <<d.layer>> /\ Outcome(TRUE, p.skewed)
             \/ logits' = Copied(ids, n(d)) /\ Returns(FALSE)
  BY <1>1, Zenon
<1>3. inputs' = inputs /\ held' = held /\ external' = external
  BY DEF EvalTokens
<1>4. layers[0] \in State /\ Sound(layers[0]) /\ 0 \in Slots
  BY SlotCountNat DEF SInv, TypeOK, SlotsSound
<1>5. PrefillLength \in Nat /\ Stages \in {Graphs, Graphs + 1}
  BY QnnAssumption DEF Stages
<1>6. /\ Sound(d.layer) /\ d.layer \in State /\ d.ok \in BOOLEAN
      /\ p.read + d.read \in 0 .. Len(ids)
      /\ d.ok /\ ~ p.skewed => d.layer = Run(layers[0], ids, Graphs)
      /\ d.ok /\ p.skewed => Seen(d.layer) = Lost
      /\ ~ d.ok => Seen(d.layer) \in Nearby(layers[0], ids, p.read + d.read)
  BY <1>4, <1>5, EvalOutcome
<1>7. /\ p.read \in 0 .. Len(ids) /\ (PrefillLength = 0 => p.read = 0) /\ p.layer \in State
      /\ Sound(p.layer) /\ p.skewed \in BOOLEAN
  BY <1>4, <1>5, PrefillOutcome
<1>8. ids \in Seq(Symbols) /\ Len(ids) \in Nat /\ Len(ids) > 0
  BY QnnAssumption, SeqMonotonic, EmptySeq DEF Symbols
<1>9. d.read \in Nat
  <2>1. Left(ids, p) \in Seq(Symbols) /\ Len(Left(ids, p)) = Len(ids) - p.read
    <3>1. p.read \in 0 .. Len(ids) /\ 0 \in 0 .. Len(ids) - p.read
      BY <1>7, <1>8
    <3> QED BY <1>8, <3>1, PieceJoin DEF Left
  <2>2. d.read \in 0 .. Len(Left(ids, p))
    BY <1>5, <1>7, <2>1, DecodeOutcome
  <2> QED BY <2>2
<1> HIDE DEF n
<1>10. CASE d.ok /\ logits' = <<d.layer>> /\ Outcome(TRUE, p.skewed)
  <2>1. CASE p.skewed = FALSE
    <3>1. Returns(TRUE) /\ d.layer = Run(layers[0], ids, Graphs)
      BY <1>6, <1>10, <2>1 DEF Returns
    <3>2. SInv' /\ (SlotsInStep => SlotsInStep') /\ B!Eval(ids)
      BY <1>2, <1>3, <1>6, <1>10, <3>1, EvalIsEval
    <3> QED BY <3>2, Zenon DEF Bstep, B!Next
  <2>2. CASE p.skewed = TRUE
    <3>1. Outcome(TRUE, TRUE) /\ Seen(d.layer) = Lost
      BY <1>6, <1>10, <2>2
    <3>2. /\ SInv' /\ (SlotsInStep => SlotsInStep') /\ hidden' = "now"
          /\ B!EvalLosesState
      BY <1>2, <1>3, <1>6, <1>10, <3>1, LosesIsLoses
    <3> QED BY <3>2, Zenon DEF Bstep
  <2> QED BY <1>7, <2>1, <2>2, Zenon
<1>11. CASE logits' = Copied(ids, n(d)) /\ Returns(FALSE)
  <2>1. ASSUME NEW m \in 0 .. Len(ids), Seen(d.layer) \in Nearby(layers[0], ids, m),
               PrefillLength = 0 => n(d) = m
        PROVE  SInv' /\ (SlotsInStep => SlotsInStep') /\ Bstep
    <3>1. logits' \in {logits, <<Run(layers[0], First(ids, m), Graphs)>>}
      BY <1>11, <2>1, Zenon DEF Copied
    <3>2. SInv' /\ (SlotsInStep => SlotsInStep') /\ B!EvalFails(ids)
      BY <1>2, <1>3, <1>6, <1>11, <2>1, <3>1, FailIsFail
    <3> QED BY <3>2, Zenon DEF Bstep, B!Next
  <2>2. CASE d.ok = TRUE
    <3> DEFINE m == Len(ids) - 1
    <3>1. m \in 0 .. Len(ids) /\ m < Len(ids) /\ m + 1 = Len(ids) /\ n(d) = m
      BY <1>8, <2>2 DEF n
    <3>2. Seen(d.layer) \in {B!Read(Seen(layers[0]), First(ids, m + 1)), Lost}
      <4>1. First(ids, Len(ids)) = ids
        BY <1>8, PieceAll
      <4>2. Seen(Run(layers[0], ids, Graphs)) = B!Read(Seen(layers[0]), ids)
        BY <1>4, <1>8, RunAll
      <4>3. CASE p.skewed = TRUE
        BY <1>6, <2>2, <4>3
      <4>4. CASE p.skewed = FALSE
        <5>1. Seen(d.layer) = B!Read(Seen(layers[0]), First(ids, m + 1))
          BY <1>6, <2>2, <3>1, <4>1, <4>2, <4>4
        <5> QED BY <5>1
      <4> QED BY <1>7, <4>3, <4>4, Zenon
    <3>3. Seen(d.layer) \in Nearby(layers[0], ids, m)
      <4> HIDE DEF m
      <4> QED BY <3>1, <3>2 DEF Nearby
    <3> HIDE DEF m
    <3> QED BY <2>1, <3>1, <3>3
  <2>3. CASE d.ok = FALSE
    <3> DEFINE m == p.read + d.read
    <3>1. m \in 0 .. Len(ids) /\ Seen(d.layer) \in Nearby(layers[0], ids, m)
      BY <1>6, <2>3
    <3>2. PrefillLength = 0 => n(d) = m
      BY <1>7, <1>9, <2>3 DEF n
    <3> HIDE DEF m
    <3> QED BY <2>1, <3>1, <3>2
  <2> QED BY <1>6, <2>2, <2>3, Zenon
<1> QED BY <1>2, <1>10, <1>11, Zenon

LEMMA EmbeddingsStep ==
    ASSUME SInv, NEW ids \in Inputs, EvalEmbeddings(ids)
    PROVE  SInv' /\ (SlotsInStep => SlotsInStep') /\ Bstep
<1>1. PICK p \in PrefillRuns(layers[0], ids, EmbdLength) :
         \/ /\ ~ p.ok
            /\ layers' = [layers EXCEPT ![0] = p.layer]
            /\ Returns(FALSE)
            /\ logits' = logits
         \/ /\ p.ok
            /\ \E d \in DecodeRuns(p.layer, Left(ids, p), Graphs) :
                 /\ layers' = [layers EXCEPT ![0] = d.layer]
                 /\ \/ d.ok /\ logits' = <<d.layer>> /\ Returns(TRUE)
                    \/ logits' = logits /\ Returns(FALSE)
  BY Zenon DEF EvalEmbeddings
<1>2. inputs' = inputs /\ held' = held /\ external' = external
  BY DEF EvalEmbeddings
<1>3. layers[0] \in State /\ Sound(layers[0]) /\ 0 \in Slots
  BY SlotCountNat DEF SInv, TypeOK, SlotsSound
<1>4. EmbdLength \in Nat /\ Graphs \in {Graphs, Graphs + 1}
  BY QnnAssumption
<1>5. /\ p.read \in 0 .. Len(ids) /\ p.layer \in State /\ Sound(p.layer)
      /\ p.ok => ~ p.skewed
      /\ ~ p.ok => Seen(p.layer) \in {B!Read(Seen(layers[0]), First(ids, p.read)), Lost}
  BY <1>3, <1>4, PrefillOutcome
<1>6. ASSUME NEW m \in 0 .. Len(ids), NEW y \in State, Sound(y),
             Seen(y) \in Nearby(layers[0], ids, m), layers' = [layers EXCEPT ![0] = y],
             Returns(FALSE), logits' = logits
      PROVE  SInv' /\ (SlotsInStep => SlotsInStep') /\ Bstep
  <2>1. logits' \in {logits, <<Run(layers[0], First(ids, m), Graphs)>>}
    BY <1>6, Zenon
  <2>2. SInv' /\ (SlotsInStep => SlotsInStep') /\ B!EvalFails(ids)
    BY <1>2, <1>6, <2>1, FailIsFail
  <2> QED BY <2>2, Zenon DEF Bstep, B!Next
<1>7. CASE /\ ~ p.ok /\ layers' = [layers EXCEPT ![0] = p.layer]
           /\ Returns(FALSE) /\ logits' = logits
  <2>1. Seen(p.layer) \in Nearby(layers[0], ids, p.read)
    BY <1>5, <1>7 DEF Nearby
  <2> QED BY <1>5, <1>6, <1>7, <2>1
<1>8. CASE /\ p.ok
           /\ \E d \in DecodeRuns(p.layer, Left(ids, p), Graphs) :
                 /\ layers' = [layers EXCEPT ![0] = d.layer]
                 /\ \/ d.ok /\ logits' = <<d.layer>> /\ Returns(TRUE)
                    \/ logits' = logits /\ Returns(FALSE)
  <2>1. PICK d \in DecodeRuns(p.layer, Left(ids, p), Graphs) :
          /\ layers' = [layers EXCEPT ![0] = d.layer]
          /\ \/ d.ok /\ logits' = <<d.layer>> /\ Returns(TRUE)
             \/ logits' = logits /\ Returns(FALSE)
    BY <1>8, Zenon
  <2>2. /\ Sound(d.layer) /\ d.layer \in State /\ d.ok \in BOOLEAN
        /\ p.read + d.read \in 0 .. Len(ids)
        /\ d.ok => d.layer = Run(layers[0], ids, Graphs)
        /\ ~ d.ok => Seen(d.layer) \in Nearby(layers[0], ids, p.read + d.read)
    <3>1. ~ p.skewed
      BY <1>5, <1>8
    <3> QED BY <1>3, <1>4, <3>1, EvalOutcome
  <2>3. CASE d.ok /\ logits' = <<d.layer>> /\ Returns(TRUE)
    <3>1. SInv' /\ (SlotsInStep => SlotsInStep') /\ B!Eval(ids)
      BY <1>2, <2>1, <2>2, <2>3, EvalIsEval
    <3> QED BY <3>1, Zenon DEF Bstep, B!Next
  <2>4. CASE logits' = logits /\ Returns(FALSE)
    <3>1. CASE d.ok = TRUE
      <4>1. ids \in Seq(Symbols)
        BY QnnAssumption, SeqMonotonic DEF Symbols
      <4>2. Len(ids) \in 0 .. Len(ids) /\ First(ids, Len(ids)) = ids
        BY <4>1, PieceAll
      <4>3. Seen(d.layer) = B!Read(Seen(layers[0]), ids)
        BY <1>3, <2>2, <3>1, <4>1, RunAll
      <4>4. Seen(d.layer) \in Nearby(layers[0], ids, Len(ids))
        BY <4>2, <4>3 DEF Nearby
      <4> QED BY <1>6, <2>1, <2>2, <2>4, <4>2, <4>4
    <3>2. CASE d.ok = FALSE
      <4>1. Seen(d.layer) \in Nearby(layers[0], ids, p.read + d.read)
        BY <2>2, <3>2
      <4> QED BY <1>6, <2>1, <2>2, <2>4, <4>1
    <3> QED BY <2>2, <3>1, <3>2, Zenon
  <2> QED BY <2>1, <2>3, <2>4, Zenon
<1> QED BY <1>1, <1>7, <1>8, Zenon

LEMMA BatchStep ==
    ASSUME SInv, NEW row \in Inputs, EvalBatch(row)
    PROVE  SInv' /\ (SlotsInStep => SlotsInStep') /\ Bstep
<1> DEFINE len == Len(row)
           size == GraphSize(len)
           bar == [t \in Slots |-> Seen(layers[t])]
           rows == [b \in DOMAIN logits |-> Seen(logits[b])]
<1>1. held' = held /\ external' = external /\ len \in SupportedSizes
  BY DEF EvalBatch
<1>2. layers \in [Slots -> State] /\ \A s \in Slots : Sound(layers[s])
  BY DEF SInv, TypeOK, SlotsSound
<1>3. Seen(held)' = Seen(held)
  BY <1>1 DEF Seen, InStep
<1>4. CASE size \notin BatchGraphs
  <2>1. Returns(FALSE) /\ layers' = layers /\ inputs' = inputs /\ logits' = logits
    BY <1>4 DEF EvalBatch
  <2>2. Typed' /\ result' = FALSE /\ (Clean' => FALSE /\ Clean)
    BY <1>1, <2>1, ReturnsTypes, Zenon
  <2>3. SInv'
    BY <1>1, <2>1, <2>2, Zenon DEF SInv, Typed, TypeOK, SlotsSound
  <2>4. SlotsInStep'
    BY <2>2, Zenon DEF SlotsInStep
  <2>5. bar' = [s \in B!Slots |-> IF s \in {} THEN Lost ELSE bar[s]] /\ rows' = rows
    BY <2>1 DEF Seen, InStep, B!Slots, Slots
  <2>6. {} \in SUBSET (0 .. len - 1 \cup B!Spare(len))
    OBVIOUS
  <2>7. B!EvalBatchFails(row)
    BY <1>3, <2>2, <2>5, <2>6, Zenon DEF B!EvalBatchFails
  <2>8. Bstep
    BY <2>7, Zenon DEF Bstep, B!Next
  <2> QED BY <2>3, <2>4, <2>8
<1>5. CASE size \in BatchGraphs
  <2>1. PICK k \in 0 .. Graphs, copied \in BOOLEAN :
          /\ copied => k = Graphs
          /\ layers' = [s \in Slots |-> IF s < size
                                       THEN Run(layers[s], <<inputs'[size][s]>>, k)
                                       ELSE layers[s]]
          /\ logits' = IF copied THEN [b \in 1 .. len |-> layers'[b - 1]] ELSE logits
          /\ Returns(copied)
    BY <1>5, Zenon DEF EvalBatch
  <2>2. inputs' = [inputs EXCEPT ![size] =
                     [s \in 0 .. size - 1 |-> IF s < len THEN row[s + 1] ELSE @[s]]]
    BY <1>5, Zenon DEF EvalBatch
  <2>3. /\ len \in Nat \ {0} /\ len <= SlotCount /\ size <= SlotCount /\ size \in Nat
        /\ (len % 2 = 1 /\ size = len + 1) \/ (len % 2 = 0 /\ size = len)
    BY <1>1, <1>5, BatchFits
  <2>4. row \in Seq(Tokens) /\ \A s \in 0 .. len - 1 : row[s + 1] \in Tokens
    <3>1. row \in Seq(Tokens)
      BY QnnAssumption
    <3> QED BY <3>1, ElementOfSeq
  <2> HIDE DEF size
  <2>5. /\ DOMAIN inputs' = BatchGraphs
        /\ \A b \in BatchGraphs : inputs'[b] \in [0 .. b - 1 -> Tokens]
        /\ \A s \in 0 .. size - 1 : inputs'[size][s] \in Tokens
        /\ \A s \in 0 .. len - 1 : inputs'[size][s] = row[s + 1]
    <3>1. /\ DOMAIN inputs = BatchGraphs
          /\ \A b \in BatchGraphs : inputs[b] \in [0 .. b - 1 -> Tokens]
      BY DEF SInv, TypeOK
    <3> DEFINE new == [s \in 0 .. size - 1 |-> IF s < len THEN row[s + 1] ELSE inputs[size][s]]
    <3>2. new \in [0 .. size - 1 -> Tokens]
      <4>1. ASSUME NEW s \in 0 .. size - 1
            PROVE  (IF s < len THEN row[s + 1] ELSE inputs[size][s]) \in Tokens
        BY <1>5, <2>3, <2>4, <3>1
      <4> QED BY <4>1
    <3>3. \A s \in 0 .. len - 1 : new[s] = row[s + 1]
      BY <2>3
    <3>4. \A s \in 0 .. len - 1 : s \in 0 .. size - 1
      BY <2>3
    <3> HIDE DEF new
    <3>5. inputs' = [inputs EXCEPT ![size] = new]
      BY <2>2, Zenon DEF new
    <3> QED BY <1>5, <3>1, <3>2, <3>3, <3>4, <3>5
  <2>6. ASSUME NEW s \in Slots, s < size
        PROVE  <<inputs'[size][s]>> \in Seq(Symbols) /\ <<inputs'[size][s]>> # << >>
    <3>1. s \in 0 .. size - 1
      BY <2>3, <2>6, SlotCountNat DEF Slots
    <3>2. inputs'[size][s] \in Symbols
      BY <2>5, <3>1 DEF Symbols
    <3> QED BY <3>2
  <2>7. k \in Int /\ Graphs \in Int /\ (k # Graphs => k \in 0 .. Graphs - 1)
    BY QnnAssumption
  <2>8. ASSUME NEW s \in Slots
        PROVE  /\ layers'[s] \in State /\ Sound(layers'[s])
               /\ s < size =>
                    /\ layers'[s] = Run(layers[s], <<inputs'[size][s]>>, k)
                    /\ k = Graphs =>
                         /\ InStep(layers[s]) => InStep(layers'[s])
                         /\ Seen(layers'[s]) = B!Read(Seen(layers[s]), <<inputs'[size][s]>>)
                    /\ k # Graphs /\ k > 0 => Seen(layers'[s]) = Lost
                    /\ k # Graphs /\ k = 0 => layers'[s] = layers[s]
               /\ ~ (s < size) => layers'[s] = layers[s]
    <3>1. layers[s] \in State /\ Sound(layers[s])
      BY <1>2
    <3>2. CASE s < size
      <4> DEFINE t == <<inputs'[size][s]>>
      <4>1. layers'[s] = Run(layers[s], t, k)
        BY <2>1, <3>2
      <4>2. t \in Seq(Symbols) /\ t # << >>
        BY <2>6, <3>2
      <4> HIDE DEF t
      <4>3. Run(layers[s], t, k) \in State
        BY <2>7, <3>1, <4>2, RunState
      <4>4. CASE k = Graphs
        <5>1. /\ Sound(Run(layers[s], t, Graphs))
              /\ Seen(Run(layers[s], t, Graphs)) = B!Read(Seen(layers[s]), t)
              /\ InStep(layers[s]) => InStep(Run(layers[s], t, Graphs))
          BY <3>1, <4>2, RunAll
        <5> QED BY <3>2, <4>1, <4>3, <4>4, <5>1 DEF t
      <4>5. CASE k # Graphs
        <5>1. /\ Sound(Run(layers[s], t, k))
              /\ k = 0 => Run(layers[s], t, k) = layers[s]
              /\ k > 0 => Seen(Run(layers[s], t, k)) = Lost
          BY <2>7, <3>1, <4>2, <4>5, RunSome
        <5> QED BY <3>2, <4>1, <4>3, <4>5, <5>1 DEF t
      <4> QED BY <4>4, <4>5
    <3>3. CASE ~ (s < size)
      BY <2>1, <3>1, <3>3
    <3> QED BY <3>2, <3>3
  <2>9. layers' \in [Slots -> State]
    BY <2>1, <2>8
  <2>10. logits' \in Seq(State)
    <3>1. CASE copied = TRUE
      <4>1. \A b \in 1 .. len : b - 1 \in Slots
        BY <2>3, SlotCountNat DEF Slots
      <4>2. [b \in 1 .. len |-> layers'[b - 1]] \in [1 .. len -> State]
        BY <2>9, <4>1
      <4> HIDE DEF len
      <4>3. [1 .. len -> State] \subseteq Seq(State)
        BY <2>3, SeqDef
      <4>4. logits' = [b \in 1 .. len |-> layers'[b - 1]]
        BY <2>1, <3>1
      <4> QED BY <4>2, <4>3, <4>4, Zenon
    <3>2. CASE copied = FALSE
      BY <2>1, <3>2 DEF SInv, TypeOK
    <3> QED BY <3>1, <3>2
  <2>11. Typed' /\ result' = copied /\ (Clean' => copied /\ Clean)
    BY <1>1, <2>1, ReturnsTypes, Zenon
  <2>12. SInv'
    <3>1. TypeOK'
      BY <1>1, <2>5, <2>9, <2>10, <2>11, Zenon DEF SInv, TypeOK, Typed
    <3>2. SlotsSound'
      BY <1>1, <2>8, Zenon DEF SInv, SlotsSound
    <3> QED BY <3>1, <3>2, Zenon DEF SInv
  <2>13. SlotsInStep => SlotsInStep'
    <3>1. Clean' => copied = TRUE /\ Clean
      BY <2>11, Zenon
    <3>2. copied = TRUE => k = Graphs
      BY <2>1, Zenon
    <3> QED BY <1>1, <2>8, <3>1, <3>2, Zenon DEF SlotsInStep
  <2>14. CASE k = Graphs
    <3>1. bar' = [s \in Slots |-> Seen(layers'[s])]
      OBVIOUS
    <3> DEFINE t == inputs'[size][size - 1]
    <3>2. t \in Tokens
      BY <2>3, <2>5
    <3>3. ASSUME NEW s \in Slots
          PROVE  Seen(layers'[s]) =
                   IF s < len THEN B!Read(bar[s], <<row[s + 1]>>)
                   ELSE IF s \in B!Spare(len) THEN B!Read(bar[s], <<t>>)
                   ELSE bar[s]
      <4>1. bar[s] = Seen(layers[s]) /\ s \in Int /\ s >= 0
        BY SlotCountNat DEF Slots
      <4>2. CASE s < len
        <5>1. s < size /\ inputs'[size][s] = row[s + 1]
          BY <2>3, <2>5, <4>1, <4>2
        <5> QED BY <2>8, <2>14, <4>1, <4>2, <5>1
      <4>3. CASE ~ (s < len) /\ s \in B!Spare(len)
        <5>1. s < size /\ s = size - 1
          BY <2>3, <4>1, <4>3 DEF B!Spare
        <5>2. Seen(layers'[s]) = B!Read(Seen(layers[s]), <<inputs'[size][s]>>)
          BY <2>8, <2>14, <5>1
        <5> QED BY <4>1, <4>3, <5>1, <5>2
      <4>4. CASE ~ (s < len) /\ s \notin B!Spare(len)
        <5>1. ~ (s < size)
          BY <2>3, <4>1, <4>4 DEF B!Spare, B!Slots, Slots
        <5> QED BY <2>8, <4>1, <4>4, <5>1
      <4> QED BY <4>2, <4>3, <4>4
    <3>4. ASSUME copied = TRUE PROVE rows' = [b \in 1 .. len |-> bar'[b - 1]]
      <4>1. logits' = [b \in 1 .. len |-> layers'[b - 1]]
        BY <2>1, <3>4
      <4>2. \A b \in 1 .. len : b - 1 \in Slots
        BY <2>3, SlotCountNat DEF Slots
      <4>3. rows' = [b \in 1 .. len |-> Seen(layers'[b - 1])]
        BY <4>1
      <4>4. \A b \in 1 .. len : bar'[b - 1] = Seen(layers'[b - 1])
        BY <4>2
      <4> HIDE DEF rows, bar
      <4> QED BY <4>3, <4>4
    <3>5. bar' = B!Advanced(row, t)
      <4> HIDE DEF t
      <4> QED BY <3>1, <3>3, Zenon DEF B!Advanced, B!Slots, Slots
    <3> HIDE DEF t
    <3>6. CASE copied = TRUE
      <4>1. B!EvalBatch(row)
        BY <1>3, <2>3, <2>11, <3>2, <3>4, <3>5, <3>6, Zenon DEF B!EvalBatch
      <4> QED BY <2>12, <2>13, <4>1, Zenon DEF Bstep, B!Next
    <3>7. CASE copied = FALSE
      <4>1. rows' = rows
        <5>1. logits' = logits
          BY <2>1, <3>7
        <5> QED BY <5>1 DEF Seen, InStep
      <4>2. B!EvalBatchFails(row)
        BY <1>3, <2>3, <2>11, <3>2, <3>5, <3>7, <4>1, Zenon DEF B!EvalBatchFails
      <4> QED BY <2>12, <2>13, <4>2, Zenon DEF Bstep, B!Next
    <3> QED BY <3>6, <3>7, Zenon
  <2>15. CASE k # Graphs
    <3>0. copied = FALSE
      BY <2>1, <2>15, Zenon
    <3> DEFINE S == IF k = 0 THEN {} ELSE 0 .. size - 1
    <3>1. S \in SUBSET (0 .. len - 1 \cup B!Spare(len))
      BY <2>3, SlotCountNat DEF B!Spare, B!Slots
    <3>2. ASSUME NEW s \in Slots
          PROVE  Seen(layers'[s]) = IF s \in S THEN Lost ELSE bar[s]
      <4>1. bar[s] = Seen(layers[s]) /\ s \in Int /\ s >= 0
        BY SlotCountNat DEF Slots
      <4>2. k = 0 \/ k > 0
        BY <2>7
      <4>3. s \in S <=> k > 0 /\ s < size
        BY <2>3, <2>7, <4>1
      <4> HIDE DEF S, bar
      <4>4. CASE s \in S
        <5>1. Seen(layers'[s]) = Lost
          BY <2>8, <2>15, <4>3, <4>4
        <5> QED BY <4>4, <5>1
      <4>5. CASE s \notin S
        <5>1. layers'[s] = layers[s]
          BY <2>8, <2>15, <4>2, <4>3, <4>5
        <5> QED BY <4>1, <4>5, <5>1
      <4> QED BY <4>4, <4>5
    <3> HIDE DEF S
    <3>3. bar' = [s \in B!Slots |-> IF s \in S THEN Lost ELSE bar[s]]
      BY <3>2, Zenon DEF B!Slots, Slots
    <3>4. rows' = rows
      <4>1. logits' = logits
        BY <2>1, <3>0
      <4> QED BY <4>1 DEF Seen, InStep
    <3>5. B!EvalBatchFails(row)
      BY <1>3, <2>11, <3>0, <3>1, <3>3, <3>4, Zenon DEF B!EvalBatchFails
    <3>6. Bstep
      BY <3>5, Zenon DEF Bstep, B!Next
    <3> QED BY <2>12, <2>13, <3>6
  <2> QED BY <2>14, <2>15
<1> QED BY <1>4, <1>5

\* Getting, setting, zeroing and loading a state.
LEMMA StateStep ==
    ASSUME SInv, (\E s \in Slots : GetState(s) \/ SetState(s) \/ ZeroState(s)) \/ LoadRawStates
    PROVE  SInv' /\ (SlotsInStep => SlotsInStep') /\ Bstep
<1> DEFINE bar == [t \in Slots |-> Seen(layers[t])]
           rows == [b \in DOMAIN logits |-> Seen(logits[b])]
<1>1. /\ layers \in [Slots -> State] /\ logits \in Seq(State)
      /\ held \in State \cup {NoState} /\ (held # NoState => Sound(held))
      /\ \A s \in Slots : Sound(layers[s])
  BY DEF SInv, TypeOK, SlotsSound
<1>2. logits' = logits => rows' = rows
  BY DEF Seen, InStep
<1>3. ASSUME NEW s \in Slots, GetState(s)
      PROVE  SInv' /\ (SlotsInStep => SlotsInStep') /\ B!GetState(s)
  <2>1. /\ held' = layers[s] /\ Returns(TRUE) /\ layers' = layers /\ inputs' = inputs
        /\ logits' = logits /\ external' = external
    BY <1>3 DEF GetState
  <2>2. Typed' /\ result' = TRUE /\ (Clean' => TRUE /\ Clean)
    BY <2>1, ReturnsTypes, Zenon
  <2>3. layers[s] \in State /\ Sound(layers[s])
    BY <1>1
  <2>4. TypeOK'
    BY <1>1, <2>1, <2>2, <2>3, Zenon DEF SInv, Typed, TypeOK
  <2>5. SlotsSound' /\ (SlotsInStep => SlotsInStep')
    BY <1>1, <2>1, <2>2, <2>3, Zenon DEF SlotsSound, SlotsInStep
  <2>6. bar' = bar /\ Seen(held)' = bar[s]
    BY <2>1 DEF Seen, InStep
  <2>7. B!GetState(s)
    BY <1>2, <2>1, <2>2, <2>6, Zenon DEF B!GetState
  <2> QED BY <2>4, <2>5, <2>7 DEF SInv
<1>4. ASSUME NEW s \in Slots, SetState(s), held = NoState
      PROVE  SInv' /\ (SlotsInStep => SlotsInStep') /\ B!SetState(s)
  <2>1. /\ held' = held /\ Returns(TRUE) /\ layers' = layers /\ inputs' = inputs
        /\ logits' = logits /\ external' = external
    BY <1>4 DEF SetState
  <2>2. Typed' /\ result' = TRUE /\ (Clean' => TRUE /\ Clean)
    BY <2>1, ReturnsTypes, Zenon
  <2>3. TypeOK'
    BY <1>1, <2>1, <2>2, Zenon DEF SInv, Typed, TypeOK
  <2>4. SlotsSound' /\ (SlotsInStep => SlotsInStep')
    BY <1>1, <2>1, <2>2, Zenon DEF SlotsSound, SlotsInStep
  <2>5. bar' = bar /\ Seen(held)' = Seen(held) /\ Seen(held) = NoState
    BY <1>4, <2>1 DEF Seen, InStep
  <2>6. B!SetState(s)
    BY <1>2, <2>1, <2>2, <2>5, Zenon DEF B!SetState
  <2> QED BY <2>3, <2>4, <2>6 DEF SInv
<1>5. ASSUME NEW s \in Slots, SetState(s), held # NoState
      PROVE  SInv' /\ (SlotsInStep => SlotsInStep') /\ B!SetState(s)
  <2>1. /\ held' = held /\ Returns(TRUE) /\ layers' = [layers EXCEPT ![s] = held]
        /\ inputs' = inputs /\ logits' = logits /\ external' = external
    BY <1>5 DEF SetState
  <2>2. held \in State /\ Sound(held) /\ Seen(held) # NoState
    BY <1>1, <1>5, StateSeen
  <2>3. /\ SInv' /\ (SlotsInStep /\ (TRUE /\ Clean => InStep(held)) => SlotsInStep')
        /\ bar' = [bar EXCEPT ![s] = Seen(held)] /\ Seen(held)' = Seen(held)
        /\ result' = TRUE
    BY <1>1, <2>1, <2>2, SlotReturn
  <2>4. SlotsInStep => SlotsInStep'
    BY <1>5, <2>3, Zenon DEF SlotsInStep
  <2>5. B!SetState(s)
    BY <1>2, <2>1, <2>2, <2>3, Zenon DEF B!SetState
  <2> QED BY <2>3, <2>4, <2>5
<1>6. ASSUME NEW s \in Slots, ZeroState(s) \/ (LoadRawStates /\ layers' = [layers EXCEPT ![s] = Empty]),
             NEW ok \in BOOLEAN, Returns(ok)
      PROVE  /\ SInv' /\ (SlotsInStep => SlotsInStep') /\ result' = ok
             /\ bar' = [bar EXCEPT ![s] = << >>] /\ Seen(held)' = Seen(held) /\ rows' = rows
  <2>1. /\ held' = held /\ layers' = [layers EXCEPT ![s] = Empty]
        /\ inputs' = inputs /\ logits' = logits /\ external' = external
    BY <1>6 DEF ZeroState, LoadRawStates
  <2>2. /\ SInv' /\ (SlotsInStep /\ (ok /\ Clean => InStep(Empty)) => SlotsInStep')
        /\ bar' = [bar EXCEPT ![s] = Seen(Empty)] /\ Seen(held)' = Seen(held)
        /\ result' = ok
    BY <1>1, <1>6, <2>1, EmptyState, SlotReturn
  <2> HIDE DEF bar, rows
  <2> QED BY <1>2, <2>1, <2>2, EmptyState, Zenon
<1>7. ASSUME LoadRawStates
      PROVE  SInv' /\ (SlotsInStep => SlotsInStep') /\ B!LoadRawStates
  <2>1. PICK ok \in BOOLEAN :
          /\ layers' = [layers EXCEPT ![0] = [g \in 1 .. Graphs |-> IF ok THEN <<Raw>> ELSE << >>]]
          /\ Returns(ok)
    BY <1>7, Zenon DEF LoadRawStates
  <2>2. CASE ok = FALSE
    <3>1. layers' = [layers EXCEPT ![0] = Empty]
      BY <2>1, <2>2 DEF Empty
    <3>2. /\ SInv' /\ (SlotsInStep => SlotsInStep') /\ result' = FALSE
          /\ bar' = [bar EXCEPT ![0] = << >>] /\ Seen(held)' = Seen(held) /\ rows' = rows
      BY <1>6, <1>7, <2>1, <2>2, <3>1, SlotCountNat
    <3>3. B!LoadRawStates
      BY <3>2, Zenon DEF B!LoadRawStates
    <3> QED BY <3>2, <3>3
  <2>3. CASE ok = TRUE
    <3> DEFINE y == [g \in 1 .. Graphs |-> <<Raw>>]
    <3>1. y \in State /\ InStep(y) /\ y[1] = <<Raw>>
      <4>1. <<Raw>> \in Seq(Tokens \cup {Raw})
        OBVIOUS
      <4> QED BY <4>1, OneGraph DEF State, InStep
    <3>2. /\ held' = held /\ layers' = [layers EXCEPT ![0] = y] /\ Returns(TRUE)
          /\ inputs' = inputs /\ logits' = logits /\ external' = external
      BY <1>7, <2>1, <2>3 DEF LoadRawStates
    <3> HIDE DEF y
    <3>3. Sound(y) /\ Seen(y) = <<Raw>>
      BY <3>1, StateSeen DEF Sound, Seen
    <3>4. /\ SInv' /\ (SlotsInStep /\ (TRUE /\ Clean => InStep(y)) => SlotsInStep')
          /\ bar' = [bar EXCEPT ![0] = Seen(y)] /\ Seen(held)' = Seen(held)
          /\ result' = TRUE
      BY <1>1, <3>1, <3>2, <3>3, SlotCountNat, SlotReturn
    <3>5. B!LoadRawStates
      BY <1>2, <3>2, <3>3, <3>4, Zenon DEF B!LoadRawStates
    <3> QED BY <3>1, <3>4, <3>5
  <2> QED BY <2>1, <2>2, <2>3
<1>8. ASSUME NEW s \in Slots, ZeroState(s)
      PROVE  SInv' /\ (SlotsInStep => SlotsInStep') /\ B!ZeroState(s)
  <2>1. Returns(TRUE) /\ TRUE \in BOOLEAN
    BY <1>8 DEF ZeroState
  <2>2. /\ SInv' /\ (SlotsInStep => SlotsInStep') /\ result' = TRUE
        /\ bar' = [bar EXCEPT ![s] = << >>] /\ Seen(held)' = Seen(held) /\ rows' = rows
    BY <1>6, <1>8, <2>1
  <2>3. B!ZeroState(s)
    BY <2>2, Zenon DEF B!ZeroState
  <2> QED BY <2>2, <2>3
<1>9. B!Slots = Slots
  BY DEF B!Slots, Slots
<1>10. /\ \A s \in Slots : B!GetState(s) \/ B!SetState(s) \/ B!ZeroState(s) => Bstep
       /\ B!LoadRawStates => Bstep
  BY <1>9, Zenon DEF Bstep, B!Next
<1> QED BY <1>3, <1>4, <1>5, <1>7, <1>8, <1>10, SlotCountNat, Zenon

-----------------------------------------------------------------------------
(* The theorems. *)

LEMMA StutterStep ==
    ASSUME SInv, UNCHANGED vars
    PROVE  SInv' /\ (SlotsInStep => SlotsInStep') /\ Bstep
<1>1. SInv' /\ (SlotsInStep => SlotsInStep')
  BY DEF vars, SInv, TypeOK, SlotsSound, SlotsInStep, Clean
<1>2. Bstep
  BY DEF vars, Bstep, B!vars, Seen, InStep
<1> QED BY <1>1, <1>2

LEMMA NextStep ==
    ASSUME SInv, [Next]_vars
    PROVE  SInv' /\ (SlotsInStep => SlotsInStep') /\ Bstep
BY EvalStep, EmbeddingsStep, BatchStep, StateStep, StutterStep, Zenon DEF Next

\* The tensors and buffers of the QNN backend keep their types, whatever calls
\* are made and whichever graph fails.
THEOREM TypeCorrect == Spec => []TypeOK
<1>1. Init => SInv
  BY InitSInv
<1>2. SInv /\ [Next]_vars => SInv'
  BY NextStep
<1>3. SInv => TypeOK
  BY DEF SInv
<1> QED BY <1>1, <1>2, <1>3, PTL DEF Spec

\* Whichever graph fails, all graphs of the model have read the same tokens as
\* long as no call has returned an error and no eval has hidden a prefill that
\* failed behind its first graph.
THEOREM LayersInStepCorrect == Spec => []LayersInStep
<1>1. Init => SInv /\ SlotsInStep
  BY InitSInv
<1>2. SInv /\ SlotsInStep /\ [Next]_vars => (SInv /\ SlotsInStep)'
  BY NextStep
<1>3. SlotsInStep => LayersInStep
  BY DEF SlotsInStep, Clean, LayersInStep
<1> QED BY <1>1, <1>2, <1>3, PTL DEF Spec

\* The QNN backend, whatever its graphs, its prefill lengths and its batch sizes
\* and whichever graph or copy of logits fails, is the backend that the runtime
\* expects, but for the evals that hide such a prefill.
THEOREM ImplementsCorrect == Spec => Implements
<1>1. Init => SInv /\ B!Init
  BY InitSInv
<1>2. SInv /\ [Next]_vars => SInv'
  BY NextStep
<1>3. SInv /\ [Next]_vars => [B!Next \/ (hidden' = "now" /\ B!EvalLosesState)]_(B!vars)
  BY NextStep DEF Bstep
<1> QED BY <1>1, <1>2, <1>3, PTL DEF Spec, Implements

=============================================================================
