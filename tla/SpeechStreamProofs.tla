------------------------- MODULE SpeechStreamProofs -------------------------
(***************************************************************************)
(* Theorems about SpeechStream, for every size of chunks and overlap and   *)
(* every number of tokens, texts and calls.                                *)
(***************************************************************************)
EXTENDS SpeechStream, SequenceTheorems, TLAPS

LEMMA TokensSeq ==
    ASSUME NEW k \in Nat, NEW n \in Nat
    PROVE  /\ Tokens(k, n) \in Seq(Nat) /\ Len(Tokens(k, n)) = n
           /\ \A i \in 1 .. n : Tokens(k, n)[i] = k + i
           /\ Len(Junk(n)) = n /\ Junk(n) \in Seq(Nat)
BY DEF Tokens, Junk

\* Two pieces that follow each other are one piece.
LEMMA TokensJoin ==
    ASSUME NEW k \in Nat, NEW n \in Nat, NEW m \in Nat
    PROVE  Tokens(k, n) \o Tokens(k + n, m) = Tokens(k, n + m)
<1> DEFINE s == Tokens(k, n)
           t == Tokens(k + n, m)
           u == Tokens(k, n + m)
<1>0. k + n \in Nat /\ n + m \in Nat
  OBVIOUS
<1>1. /\ s \in Seq(Nat) /\ Len(s) = n /\ \A i \in 1 .. n : s[i] = k + i
      /\ t \in Seq(Nat) /\ Len(t) = m /\ \A i \in 1 .. m : t[i] = k + n + i
      /\ u \in Seq(Nat) /\ Len(u) = n + m /\ \A i \in 1 .. n + m : u[i] = k + i
  BY <1>0, TokensSeq
<1> HIDE DEF s, t, u
<1>2. s \o t \in Seq(Nat) /\ Len(s \o t) = n + m
      /\ \A i \in 1 .. n + m : (s \o t)[i] = IF i <= n THEN s[i] ELSE t[i - n]
  BY <1>1, ConcatProperties
<1>3. ASSUME NEW i \in 1 .. n + m PROVE (s \o t)[i] = u[i]
  <2>1. CASE i <= n
    BY <1>1, <1>2, <2>1
  <2>2. CASE i > n
    <3>1. i - n \in 1 .. m
      BY <2>2
    <3>2. t[i - n] = k + n + (i - n)
      BY <1>1, <3>1
    <3>3. (s \o t)[i] = t[i - n] /\ u[i] = k + i
      BY <1>1, <1>2, <2>2
    <3>4. k + n + (i - n) = k + i
      OBVIOUS
    <3> QED BY <3>2, <3>3, <3>4
  <2>3. i <= n \/ i > n
    OBVIOUS
  <2> QED BY <2>1, <2>2, <2>3
<1>4. s \o t = u
  BY <1>1, <1>2, <1>3, SeqEqual
<1> QED BY <1>4 DEF s, t, u

\* The first n tokens in two parts.
LEMMA TokensSplit ==
    ASSUME NEW n \in Nat, NEW k \in 0 .. n
    PROVE  Tokens(0, k) \o Tokens(k, n - k) = Tokens(0, n)
<1> DEFINE zero == 0
           m == n - k
<1>1. zero \in Nat /\ k \in Nat /\ m \in Nat /\ zero + k = k /\ k + m = n
  OBVIOUS
<1> HIDE DEF zero, m
<1>2. Tokens(zero, k) \o Tokens(zero + k, m) = Tokens(zero, k + m)
  BY <1>1, TokensJoin
<1>3. Tokens(zero, k) \o Tokens(k, m) = Tokens(zero, n)
  BY <1>1, <1>2
<1> QED BY <1>3 DEF zero, m

\* What is left of a piece after its first tokens is a piece.
LEMMA TokensPart ==
    ASSUME NEW k \in Nat, NEW n \in Nat, NEW i \in 0 .. n
    PROVE  SubSeq(Tokens(k, n), i + 1, n) = Tokens(k + i, n - i)
<1> DEFINE s == Tokens(k, n)
           t == SubSeq(s, i + 1, n)
           u == Tokens(k + i, n - i)
<1>0. k + i \in Nat /\ n - i \in Nat
  OBVIOUS
<1>1. /\ s \in Seq(Nat) /\ Len(s) = n /\ \A j \in 1 .. n : s[j] = k + j
      /\ u \in Seq(Nat) /\ Len(u) = n - i /\ \A j \in 1 .. n - i : u[j] = k + i + j
  BY <1>0, TokensSeq
<1> HIDE DEF s, u
<1>2. \A j \in i + 1 .. n : s[j] \in Nat
  BY <1>1
<1>3. t \in Seq(Nat) /\ Len(t) = n - i
      /\ \A j \in 1 .. n - i : t[j] = s[i + 1 + j - 1]
  BY <1>1, <1>2, SubSeqProperties
<1> HIDE DEF t
<1>4. \A j \in 1 .. n - i : t[j] = u[j]
  BY <1>1, <1>3
<1>5. t = u
  BY <1>1, <1>3, <1>4, SeqEqual
<1> QED BY <1>5 DEF s, t, u

\* The rest of any sequence.
LEMMA RestSeq ==
    ASSUME NEW s \in Seq(Nat), NEW i \in 0 .. Len(s)
    PROVE  /\ SubSeq(s, i + 1, Len(s)) \in Seq(Nat)
           /\ Len(SubSeq(s, i + 1, Len(s))) = Len(s) - i
<1>1. \A j \in i + 1 .. Len(s) : s[j] \in Nat
  OBVIOUS
<1> QED BY <1>1, SubSeqProperties

-----------------------------------------------------------------------------
(* The invariant. *)

Reading == {"poll", "look", "copy", "drain"}

\* How the threads stand to each other, and the lengths of what they hold.
Shape ==
    /\ caller # "joining" => llm = "off" /\ voice = "off"
    /\ generating <=> caller \in {"spawned", "refused", "joining"}
    /\ caller \in {"none", "spawned", "refused"} => audio = << >>
    /\ caller = "joining" => taken <= output /\ (llm = "off" <=> finished)
    /\ caller = "joining" /\ voice \in {"drain", "rest", "off"} => finished
    /\ voice = "copy" => taken + size <= output
    /\ voice \in Reading =>
         (taken = 0 /\ overlap = << >> /\ size = InitialChunk) \/ Len(overlap) = OverlapSize
    /\ voice = "sound" => Len(overlap) = OverlapSize
    /\ voice \in {"sound", "rest"} => skip <= Len(window)
    /\ voice = "rest" => taken = output \/ raced

\* What they hold, as long as no read went wrong.
Content == ~ raced =>
    /\ voice \in Reading \cup {"sound"} =>
         Len(overlap) <= taken /\ overlap = Tokens(taken - Len(overlap), Len(overlap))
    /\ voice \in Reading => audio = Tokens(0, taken)
    /\ voice \in {"sound", "rest"} =>
         /\ Len(window) <= taken /\ window = Tokens(taken - Len(window), Len(window))
         /\ skip = OverlapSize \/ (skip = 0 /\ taken = Len(window))
         /\ audio = Tokens(0, taken - Len(window) + skip)
    /\ voice = "off" /\ caller \in {"joining", "done"} => audio = Tokens(0, output)

StreamInv == TypeOK /\ Shape /\ Content

LEMMA EmptyTokens == << >> = Tokens(0, 0) /\ \A k \in Int : Tokens(k, 0) = << >>
BY DEF Tokens

LEMMA StreamInit == Init => StreamInv
<1> SUFFICES ASSUME Init PROVE StreamInv
  OBVIOUS
<1>1. << >> \in Seq(Nat)
  OBVIOUS
<1>2. CallTypes
  <2>1. 0 \in 0 .. MaxCalls
    BY SpeechAssumption
  <2> QED BY <2>1 DEF Init, CallTypes, Modes
<1>3. LlmTypes
  <2>1. 0 \in 0 .. MaxTexts /\ 0 \in 0 .. MaxLength
    BY SpeechAssumption
  <2> QED BY <2>1 DEF Init, LlmTypes
<1>6. SpeakerTypes
  BY DEF Init, SpeakerTypes
<1>4. VoiceTypes
  BY <1>1, SpeechAssumption DEF Init, VoiceTypes
<1>5. Shape /\ Content
  BY DEF Init, Shape, Content, Reading
<1> QED BY <1>2, <1>3, <1>4, <1>5, <1>6 DEF StreamInv, TypeOK

\* A chunk, at its place after the overlap.
LEMMA WindowTokens ==
    ASSUME NEW t \in Nat, NEW n \in Nat, NEW o \in Seq(Nat), Len(o) <= t,
           o = Tokens(t - Len(o), Len(o))
    PROVE  o \o Tokens(t, n) = Tokens(t - Len(o), Len(o) + n)
<1>1. t - Len(o) \in Nat /\ Len(o) \in Nat /\ t - Len(o) + Len(o) = t
  OBVIOUS
<1>2. Tokens(t - Len(o), Len(o)) \o Tokens(t - Len(o) + Len(o), n)
        = Tokens(t - Len(o), Len(o) + n)
  BY <1>1, TokensJoin
<1> QED BY <1>1, <1>2


LEMMA StreamStep == StreamInv /\ [Next]_vars => StreamInv'
<1> SUFFICES ASSUME StreamInv, [Next]_vars PROVE StreamInv'
  OBVIOUS
<1> USE SpeechAssumption
<1>e. << >> \in Seq(Nat)
  OBVIOUS
<1>a. /\ CallTypes /\ LlmTypes /\ SpeakerTypes /\ VoiceTypes /\ Shape /\ Content
      /\ output \in Nat /\ taken \in Nat /\ size \in Nat \ {0} /\ size \in Nat
      /\ skip \in Nat /\ overlap \in Seq(Nat) /\ window \in Seq(Nat)
      /\ audio \in Seq(Nat) /\ raced \in BOOLEAN
  BY DEF StreamInv, TypeOK, LlmTypes, VoiceTypes
<1>b. UNCHANGED callVars => CallTypes'
  BY <1>a DEF callVars, CallTypes
<1>c. UNCHANGED llmVars => LlmTypes' /\ SpeakerTypes'
  BY <1>a DEF llmVars, LlmTypes, SpeakerTypes
<1>f. UNCHANGED <<speaker, prompts>> => SpeakerTypes'
  BY <1>a DEF SpeakerTypes
<1>d. UNCHANGED voiceVars => VoiceTypes'
  BY <1>a DEF voiceVars, VoiceTypes
<1> USE DEF StreamInv, TypeOK
<1>1. ASSUME NEW m \in Modes, StartStreaming(m) PROVE StreamInv'
  <2>1. CallTypes'
    BY <1>a, <1>1 DEF StartStreaming, CallTypes
  <2>2. LlmTypes' /\ SpeakerTypes'
    BY <1>c, <1>1 DEF StartStreaming
  <2>3. VoiceTypes'
    BY <1>a, <1>e, <1>1 DEF StartStreaming, VoiceTypes
  <2>4. Shape'
    BY <1>a, <1>1 DEF StartStreaming, Shape, llmVars, Reading
  <2>5. Content'
    BY <1>a, <1>1 DEF StartStreaming, Shape, Content, llmVars, Reading
  <2> QED BY <2>1, <2>2, <2>3, <2>4, <2>5
<1>2. CASE Refuse
  <2>1. CallTypes'
    BY <1>a, <1>2 DEF Refuse, CallTypes
  <2>2. Shape' /\ Content'
    BY <1>a, <1>2 DEF Refuse, Shape, Content, llmVars, voiceVars, Reading
  <2> QED BY <1>c, <1>d, <1>2, <2>1, <2>2 DEF Refuse
<1>3. CASE Setup
  <2>1. CallTypes'
    BY <1>a, <1>3 DEF Setup, CallTypes
  <2>2. LlmTypes' /\ SpeakerTypes'
    <3>1. SpeakerTypes'
      BY <1>3 DEF Setup, SpeakerTypes
    <3>2. 0 \in 0 .. MaxLength
      OBVIOUS
    <3> QED BY <1>3, <3>1, <3>2 DEF Setup, LlmTypes
  <2>3. VoiceTypes'
    BY <1>a, <1>e, <1>3 DEF Setup, VoiceTypes
  <2>4. Shape'
    BY <1>a, <1>3 DEF Setup, Shape, Reading
  <2>5. Content'
    BY <1>a, <1>3, EmptyTokens DEF Setup, Content, Reading
  <2> QED BY <2>1, <2>2, <2>3, <2>4, <2>5
<1>4. CASE Join
  <2>1. CallTypes'
    BY <1>a, <1>4 DEF Join, CallTypes
  <2>2. Shape' /\ Content'
    BY <1>a, <1>4 DEF Join, Shape, Content, llmVars, voiceVars, Reading
  <2> QED BY <1>c, <1>d, <1>4, <2>1, <2>2 DEF Join
<1>5. CASE BeginText
  <2>1. LlmTypes' /\ SpeakerTypes'
    <3>1. SpeakerTypes'
      BY <1>a, <1>5 DEF BeginText, SpeakerTypes, Offset
    <3>2. texts \in 0 .. MaxTexts /\ texts > 0 => texts - 1 \in 0 .. MaxTexts
      OBVIOUS
    <3>3. 0 \in 0 .. MaxLength
      OBVIOUS
    <3>4. LlmTypes'
      BY <1>a, <1>5, <3>2, <3>3 DEF BeginText, LlmTypes
    <3> QED BY <3>1, <3>4
  <2>2. Shape' /\ Content'
    BY <1>a, <1>5 DEF BeginText, Shape, Content, callVars, voiceVars, Reading
  <2> QED BY <1>b, <1>d, <1>5, <2>1, <2>2 DEF BeginText
<1>6. CASE Push
  <2>1. LlmTypes'
    <3>1. spoken' \in 0 .. MaxLength
      BY <1>a, <1>6 DEF Push, LlmTypes
    <3>2. output' \in Nat /\ room' \in Nat
      BY <1>a, <1>6 DEF Push, LlmTypes
    <3> QED BY <1>a, <1>6, <3>1, <3>2 DEF Push, LlmTypes
  <2>5. SpeakerTypes'
    BY <1>f, <1>6 DEF Push
  <2>2. caller = "joining" /\ llm # "off" /\ ~ finished
    BY <1>a, <1>6 DEF Push, Shape, LlmTypes
  <2>3. Shape'
    BY <1>a, <1>6, <2>2 DEF Push, Shape, callVars, voiceVars, Reading
  <2>4. Content'
    BY <1>a, <1>6, <2>2 DEF Push, Shape, Content, callVars, voiceVars, Reading
  <2> QED BY <1>b, <1>d, <1>6, <2>1, <2>3, <2>4, <2>5 DEF Push
<1>7. CASE Evaluated
  <2>1. LlmTypes' /\ SpeakerTypes'
    BY <1>a, <1>f, <1>7 DEF Evaluated, LlmTypes
  <2>2. Shape' /\ Content'
    BY <1>a, <1>7 DEF Evaluated, Shape, Content, callVars, voiceVars, Reading
  <2> QED BY <1>b, <1>d, <1>7, <2>1, <2>2 DEF Evaluated
<1>8. CASE EndText
  <2>1. LlmTypes' /\ SpeakerTypes'
    BY <1>a, <1>f, <1>8 DEF EndText, LlmTypes
  <2>2. Shape' /\ Content'
    BY <1>a, <1>8 DEF EndText, Shape, Content, callVars, voiceVars, Reading
  <2> QED BY <1>b, <1>d, <1>8, <2>1, <2>2 DEF EndText
<1>9. CASE Finish
  <2>1. LlmTypes' /\ SpeakerTypes'
    BY <1>a, <1>f, <1>9 DEF Finish, LlmTypes
  <2>2. Shape' /\ Content'
    BY <1>a, <1>9 DEF Finish, Shape, Content, callVars, voiceVars, Reading
  <2> QED BY <1>b, <1>d, <1>9, <2>1, <2>2 DEF Finish
<1>10. CASE Poll
  <2>1. VoiceTypes'
    BY <1>a, <1>10 DEF Poll, VoiceTypes
  <2>2. Shape' /\ Content'
    BY <1>a, <1>10 DEF Poll, Shape, Content, callVars, llmVars, Reading
  <2> QED BY <1>b, <1>c, <1>10, <2>1, <2>2 DEF Poll
<1>11. CASE Look
  <2>1. VoiceTypes'
    <3>1. storage' \in Nat
      BY <1>a, <1>11 DEF Look, LlmTypes
    <3> QED BY <1>a, <1>11, <3>1 DEF Look, VoiceTypes
  <2>2. Shape' /\ Content'
    BY <1>a, <1>11 DEF Look, Shape, Content, callVars, llmVars, Reading
  <2> QED BY <1>b, <1>c, <1>11, <2>1, <2>2 DEF Look
<1>12. CASE CopyChunk
  <2>1. PICK chunk : /\ chunk = Tokens(taken, size) \/ chunk = Junk(size)
                     /\ window' = overlap \o chunk
                     /\ raced' = (raced \/ chunk # Tokens(taken, size))
    BY <1>12 DEF CopyChunk
  <2>2. /\ voice = "copy" /\ voice' = "sound" /\ skip' = Len(overlap)
        /\ taken' = taken + size
        /\ overlap' = SubSeq(window', (Len(window') - OverlapSize) + 1, Len(window'))
        /\ UNCHANGED <<callVars, llmVars, size, storage, audio>>
    BY <1>12 DEF CopyChunk, LastOf
  <2>3. chunk \in Seq(Nat) /\ Len(chunk) = size
    <3>1. /\ Tokens(taken, size) \in Seq(Nat) /\ Len(Tokens(taken, size)) = size
          /\ Junk(size) \in Seq(Nat) /\ Len(Junk(size)) = size
      BY <1>a, TokensSeq
    <3> QED BY <2>1, <3>1
  <2>4. window' \in Seq(Nat) /\ Len(window') = Len(overlap) + size
    BY <1>a, <2>1, <2>3, ConcatProperties
  <2>5. Len(overlap) = OverlapSize \/ (taken = 0 /\ overlap = << >> /\ size = InitialChunk)
    BY <1>a, <2>2 DEF Shape, Reading
  <2>6. Len(window') - OverlapSize \in 0 .. Len(window')
    BY <1>a, <2>4, <2>5
  <2>7. overlap' \in Seq(Nat) /\ Len(overlap') = OverlapSize
    <3>1. /\ SubSeq(window', (Len(window') - OverlapSize) + 1, Len(window')) \in Seq(Nat)
          /\ Len(SubSeq(window', (Len(window') - OverlapSize) + 1, Len(window')))
               = Len(window') - (Len(window') - OverlapSize)
      BY <2>4, <2>6, RestSeq
    <3> QED BY <2>2, <2>4, <3>1
  <2>8. VoiceTypes'
    <3>1. skip' \in Nat /\ taken' \in Nat /\ raced' \in BOOLEAN
      BY <1>a, <2>1, <2>2
    <3> QED BY <1>a, <2>2, <2>4, <2>7, <3>1 DEF VoiceTypes
  <2>9. Shape'
    <3>1. taken' <= output /\ caller = "joining"
      BY <1>a, <2>2 DEF Shape
    <3>2. skip' <= Len(window')
      BY <1>a, <2>2, <2>4
    <3> QED BY <1>a, <2>2, <2>7, <3>1, <3>2 DEF Shape, callVars, llmVars, Reading
  <2>10. Content'
    <3> SUFFICES ASSUME ~ raced' PROVE Content'
      BY DEF Content
    <3>1. ~ raced /\ chunk = Tokens(taken, size)
      BY <1>a, <2>1
    <3>2. /\ Len(overlap) <= taken /\ overlap = Tokens(taken - Len(overlap), Len(overlap))
          /\ audio = Tokens(0, taken)
      BY <1>a, <2>2, <3>1 DEF Content, Reading
    <3> DEFINE k == taken - Len(overlap)
               n == Len(overlap) + size
    <3>3. /\ k \in Nat /\ n \in Nat /\ k + n = taken' /\ n = Len(window')
          /\ taken' - n = k
      BY <1>a, <2>2, <2>4, <3>2
    <3>4. window' = Tokens(k, n)
      <4>1. overlap \o Tokens(taken, size) = Tokens(k, n)
        BY <1>a, <3>2, WindowTokens
      <4> QED BY <2>1, <3>1, <4>1
    <3> DEFINE i == n - OverlapSize
    <3>5. i \in 0 .. n /\ n - i = OverlapSize /\ k + i = taken' - OverlapSize
      BY <2>6, <3>3
    <3> HIDE DEF k, n
    <3>6. overlap' = Tokens(k + i, n - i)
      <4>1. SubSeq(Tokens(k, n), i + 1, n) = Tokens(k + i, n - i)
        BY <3>3, <3>5, TokensPart
      <4> QED BY <2>2, <3>3, <3>4, <4>1
    <3>7. overlap' = Tokens(taken' - OverlapSize, OverlapSize) /\ OverlapSize <= taken'
      BY <3>3, <3>5, <3>6
    <3>8. window' = Tokens(taken' - Len(window'), Len(window')) /\ Len(window') <= taken'
      BY <3>3, <3>4
    <3>9. /\ skip' = OverlapSize \/ (skip' = 0 /\ taken' = Len(window'))
          /\ taken' - Len(window') + skip' = taken
      BY <1>a, <2>2, <2>4, <2>5
    <3> QED BY <2>2, <2>7, <3>2, <3>7, <3>8, <3>9 DEF Content, callVars, llmVars, Reading
  <2> QED BY <1>b, <1>c, <2>2, <2>8, <2>9, <2>10
<1>13. ASSUME voice \in {"sound", "rest"}, audio' = audio \o NewSound,
              UNCHANGED <<taken, raced>>
       PROVE  audio' \in Seq(Nat) /\ (~ raced => audio' = Tokens(0, taken))
  <2>1. skip \in 0 .. Len(window)
    BY <1>a, <1>13 DEF Shape
  <2>2. NewSound \in Seq(Nat)
    BY <1>a, <2>1, RestSeq DEF NewSound
  <2>3. audio' \in Seq(Nat)
    BY <1>a, <1>13, <2>2, ConcatProperties
  <2>4. ASSUME ~ raced PROVE audio' = Tokens(0, taken)
    <3> DEFINE k == taken - Len(window)
               n == Len(window)
    <3>1. /\ k \in Nat /\ n \in Nat /\ k + n = taken /\ skip \in 0 .. n
          /\ window = Tokens(k, n) /\ audio = Tokens(0, k + skip)
      BY <1>a, <1>13, <2>1, <2>4 DEF Content
    <3>2. NewSound = SubSeq(window, skip + 1, n)
      BY DEF NewSound
    <3> HIDE DEF k, n
    <3>3. NewSound = Tokens(k + skip, n - skip)
      BY <3>1, <3>2, TokensPart
    <3> DEFINE a == k + skip
    <3>4. a \in 0 .. taken /\ n - skip = taken - a
      BY <1>a, <3>1
    <3> HIDE DEF a
    <3>5. Tokens(0, a) \o Tokens(a, taken - a) = Tokens(0, taken)
      BY <1>a, <3>4, TokensSplit
    <3>6. audio = Tokens(0, a) /\ NewSound = Tokens(a, taken - a)
      BY <3>1, <3>3, <3>4 DEF a
    <3> QED BY <1>13, <3>5, <3>6
  <2> QED BY <2>3, <2>4
<1>14. CASE Sound
  <2>1. audio' \in Seq(Nat) /\ (~ raced => audio' = Tokens(0, taken))
    BY <1>13, <1>14 DEF Sound
  <2>2. VoiceTypes'
    BY <1>a, <1>14, <2>1 DEF Sound, VoiceTypes
  <2>3. Shape'
    BY <1>a, <1>14 DEF Sound, Shape, callVars, llmVars, Reading
  <2>4. Content'
    BY <1>a, <1>14, <2>1 DEF Sound, Content, callVars, llmVars, Reading
  <2> QED BY <1>b, <1>c, <1>14, <2>2, <2>3, <2>4 DEF Sound
<1>15. CASE Drain
  <2>1. PICK n \in taken .. output :
          /\ window' = overlap \o Tokens(taken, n - taken) /\ taken' = n
          /\ voice' = (IF n > taken THEN "rest" ELSE "off")
          /\ raced' = (raced \/ n # output)
    BY <1>15 DEF Drain
  <2>2. /\ voice = "drain" /\ skip' = Len(overlap)
        /\ UNCHANGED <<callVars, llmVars, size, overlap, storage, audio>>
    BY <1>15 DEF Drain
  <2>3. caller = "joining" /\ finished
    BY <1>a, <2>2 DEF Shape
  <2>4. n - taken \in Nat /\ n \in Nat
    BY <1>a, <2>1
  <2>5. window' \in Seq(Nat) /\ Len(window') = Len(overlap) + (n - taken)
    <3>1. Tokens(taken, n - taken) \in Seq(Nat) /\ Len(Tokens(taken, n - taken)) = n - taken
      BY <1>a, <2>4, TokensSeq
    <3> QED BY <1>a, <2>1, <3>1, ConcatProperties
  <2>6. VoiceTypes'
    <3>1. skip' \in Nat /\ raced' \in BOOLEAN /\ voice' \in {"rest", "off"}
      BY <1>a, <2>1, <2>2
    <3> QED BY <1>a, <2>1, <2>2, <2>4, <2>5, <3>1 DEF VoiceTypes
  <2>7. Shape'
    <3>1. skip' <= Len(window') /\ taken' <= output
      BY <1>a, <2>1, <2>2, <2>4, <2>5
    <3> QED BY <1>a, <2>1, <2>2, <2>3, <3>1 DEF Shape, callVars, llmVars, Reading
  <2>8. Content'
    <3> SUFFICES ASSUME ~ raced' PROVE Content'
      BY DEF Content
    <3>1. ~ raced /\ n = output
      BY <1>a, <2>1
    <3>2. /\ Len(overlap) <= taken /\ overlap = Tokens(taken - Len(overlap), Len(overlap))
          /\ audio = Tokens(0, taken)
      BY <1>a, <2>2, <3>1 DEF Content, Reading
    <3>3. window' = Tokens(taken - Len(overlap), Len(overlap) + (n - taken))
      <4>1. overlap \o Tokens(taken, n - taken)
              = Tokens(taken - Len(overlap), Len(overlap) + (n - taken))
        BY <1>a, <2>4, <3>2, WindowTokens
      <4> QED BY <2>1, <4>1
    <3>4. /\ Len(window') <= taken' /\ window' = Tokens(taken' - Len(window'), Len(window'))
          /\ taken' - Len(window') + skip' = taken
      <4>0. Len(overlap) \in Nat
        BY <1>a
      <4>1. taken' - Len(window') = taken - Len(overlap)
        BY <1>a, <2>1, <2>4, <2>5, <4>0
      <4>2. Len(window') <= taken' /\ taken' - Len(window') + skip' = taken
        BY <1>a, <2>1, <2>2, <2>4, <2>5, <3>2, <4>0
      <4> QED BY <2>5, <3>3, <4>1, <4>2
    <3>5. skip' = OverlapSize \/ (skip' = 0 /\ taken' = Len(window'))
      <4>1. Len(overlap) = OverlapSize \/ (taken = 0 /\ overlap = << >>)
        BY <1>a, <2>2 DEF Shape, Reading
      <4> QED BY <1>a, <2>1, <2>2, <2>4, <2>5, <4>1
    <3>6. voice' = "off" => audio = Tokens(0, output)
      BY <1>a, <2>1, <3>1, <3>2
    <3> QED BY <2>1, <2>2, <3>2, <3>4, <3>5, <3>6 DEF Content, callVars, llmVars, Reading
  <2> QED BY <1>b, <1>c, <2>2, <2>6, <2>7, <2>8
<1>16. CASE SoundRest
  <2>1. audio' \in Seq(Nat) /\ (~ raced => audio' = Tokens(0, taken))
    BY <1>13, <1>16 DEF SoundRest
  <2>2. VoiceTypes'
    BY <1>a, <1>16, <2>1 DEF SoundRest, VoiceTypes
  <2>3. Shape'
    BY <1>a, <1>16 DEF SoundRest, Shape, callVars, llmVars, Reading
  <2>4. Content'
    BY <1>a, <1>16, <2>1 DEF SoundRest, Shape, Content, callVars, llmVars, Reading
  <2> QED BY <1>b, <1>c, <1>16, <2>2, <2>3, <2>4 DEF SoundRest
<1>17. CASE UNCHANGED vars
  <2>1. UNCHANGED callVars /\ UNCHANGED llmVars /\ UNCHANGED voiceVars
    BY <1>17 DEF vars
  <2>2. Shape' /\ Content'
    BY <1>a, <2>1 DEF callVars, llmVars, voiceVars, Shape, Content, Reading
  <2> QED BY <1>b, <1>c, <1>d, <2>1, <2>2
<1> QED BY <1>1, <1>2, <1>3, <1>4, <1>5, <1>6, <1>7, <1>8, <1>9, <1>10, <1>11, <1>12,
           <1>14, <1>15, <1>16, <1>17 DEF Next, CallStep, LlmStep, VoiceStep, Quiet

-----------------------------------------------------------------------------
(* The theorems. *)

LEMMA StreamAlways == Spec => []StreamInv
BY StreamInit, StreamStep, PTL DEF Spec

\* The types of the call and of its threads (runtime.cpp:1641-1771).
THEOREM TypeCorrect == Spec => []TypeOK
<1>1. StreamInv => TypeOK
  BY DEF StreamInv
<1> QED BY <1>1, StreamAlways, PTL

\* Nothing is played out of order or twice, however the two threads interleave
\* and the chunks fall (runtime.cpp:1374-1404).
THEOREM InOrderCorrect == Spec => []InOrder
<1>1. StreamInv => InOrder
  <2> SUFFICES ASSUME StreamInv, ~ raced
               PROVE  audio = Tokens(0, Len(audio)) /\ Len(audio) <= output
    BY DEF InOrder
  <2>1. \E n \in 0 .. output : audio = Tokens(0, n)
    <3> USE DEF StreamInv, TypeOK, LlmTypes, VoiceTypes
    <3>1. CASE caller \in {"none", "spawned", "refused"}
      <4>1. audio = Tokens(0, 0) /\ 0 \in 0 .. output
        BY <3>1, EmptyTokens DEF Shape
      <4> QED BY <4>1
    <3>2. CASE voice = "off" /\ caller \in {"joining", "done"}
      BY <3>2 DEF Content
    <3>3. CASE caller = "joining" /\ voice \in Reading
      <4>1. taken \in 0 .. output
        BY <3>3 DEF Shape
      <4> QED BY <3>3, <4>1 DEF Content
    <3>4. CASE caller = "joining" /\ voice \in {"sound", "rest"}
      <4>0. Len(window) \in Nat /\ taken \in Nat /\ skip \in Nat /\ output \in Nat
        OBVIOUS
      <4>1. taken - Len(window) + skip \in 0 .. output
        BY <3>4, <4>0 DEF Shape, Content
      <4> QED BY <3>4, <4>1 DEF Content
    <3> QED BY <3>1, <3>2, <3>3, <3>4 DEF CallTypes, Shape, Reading
  <2>2. PICK n \in 0 .. output : audio = Tokens(0, n)
    BY <2>1
  <2>3. Len(audio) = n
    BY <2>2, TokensSeq DEF StreamInv, TypeOK, LlmTypes
  <2> QED BY <2>2, <2>3 DEF StreamInv, TypeOK, LlmTypes
<1> QED BY <1>1, StreamAlways, PTL

\* A window has no gap in it and goes on where the last one stopped
\* (runtime.cpp:1376-1382).
THEOREM SeamsOverlapCorrect == Spec => []SeamsOverlap
<1>1. StreamInv => SeamsOverlap
  <2> SUFFICES ASSUME StreamInv, voice \in {"sound", "rest"}, ~ raced
               PROVE  /\ window = Tokens(taken - Len(window), Len(window))
                      /\ skip = OverlapSize \/ (skip = 0 /\ taken = Len(window))
                      /\ Len(audio) = taken - Len(window) + skip
    BY DEF SeamsOverlap
  <2>1. /\ Len(window) <= taken /\ window = Tokens(taken - Len(window), Len(window))
        /\ skip = OverlapSize \/ (skip = 0 /\ taken = Len(window))
        /\ audio = Tokens(0, taken - Len(window) + skip)
    BY DEF StreamInv, Content
  <2>2. taken - Len(window) + skip \in Nat
    BY <2>1 DEF StreamInv, TypeOK, VoiceTypes
  <2>3. Len(audio) = taken - Len(window) + skip
    BY <2>1, <2>2, TokensSeq
  <2> QED BY <2>1, <2>3
<1> QED BY <1>1, StreamAlways, PTL

\* A call that has ended has played all it said (runtime.cpp:1395-1404).
THEOREM CompleteAtEndCorrect == Spec => []CompleteAtEnd
<1>1. StreamInv => CompleteAtEnd
  BY DEF StreamInv, Shape, Content, CompleteAtEnd
<1> QED BY <1>1, StreamAlways, PTL

-----------------------------------------------------------------------------
(* The promise of module Speech. *)

LEMMA FirstTokens == \A n \in Nat : Tokens(0, n) = [i \in 1 .. n |-> i]
BY DEF Tokens

LEMMA PromiseInit == Init => S!Init
BY DEF Init, S!Init, SaidTokens

\* Every step of the threads is a step of the promise or changes nothing of it.
LEMMA PromiseStep == StreamInv /\ [Next]_vars => [S!Next]_(S!vars)
<1> SUFFICES ASSUME StreamInv, [Next]_vars PROVE [S!Next]_(S!vars)
  OBVIOUS
<1>a. /\ CallTypes /\ Shape /\ Content
      /\ output \in Nat /\ taken \in Nat /\ skip \in Nat
      /\ Len(window) \in Nat /\ audio \in Seq(Nat) /\ raced \in BOOLEAN
  BY DEF StreamInv, TypeOK, LlmTypes, VoiceTypes
<1>b. UNCHANGED <<SaidTokens, audio, generating, raced>> => UNCHANGED S!vars
  BY DEF S!vars
<1>c. ASSUME voice \in {"sound", "rest"}, audio' = audio \o NewSound,
             UNCHANGED <<callVars, llmVars, taken, raced>>
      PROVE  S!Hear
  <2>1. caller = "joining" /\ generating
    BY <1>a, <1>c DEF Shape
  <2>2. UNCHANGED <<SaidTokens, generating, raced>> /\ SaidTokens = output
    BY <1>c, <2>1 DEF SaidTokens, callVars, llmVars
  <2>3. CASE ~ raced
    <3>1. /\ Len(window) <= taken /\ skip <= Len(window)
          /\ audio = Tokens(0, taken - Len(window) + skip)
      BY <1>a, <1>c, <2>3 DEF Content, Shape
    <3> DEFINE k == taken - Len(window) + skip
               m == taken - Len(window)
    <3>2. k \in 0 .. taken /\ k \in Nat /\ m \in Nat /\ m + skip = k
      BY <1>a, <3>1
    <3>3. Len(audio) = k
      BY <3>1, <3>2, TokensSeq
    <3>4. NewSound = Tokens(k, taken - k)
      <4>1. window = Tokens(m, Len(window)) /\ skip \in 0 .. Len(window)
        BY <1>a, <1>c, <2>3, <3>1 DEF Content
      <4>2. SubSeq(Tokens(m, Len(window)), skip + 1, Len(window))
              = Tokens(m + skip, Len(window) - skip)
        BY <1>a, <3>2, <4>1, TokensPart
      <4>3. Len(window) - skip = taken - k
        BY <1>a, <3>2
      <4> QED BY <3>2, <4>1, <4>2, <4>3 DEF NewSound
    <3>5. Tokens(0, k) \o Tokens(k, taken - k) = Tokens(0, taken)
      <4> HIDE DEF k, m
      <4> QED BY <1>a, <3>2, TokensSplit
    <3>6. audio' = [i \in 1 .. taken |-> i]
      BY <1>a, <1>c, <3>1, <3>4, <3>5, FirstTokens
    <3>7. taken \in Len(audio) .. SaidTokens
      BY <1>a, <2>1, <2>2, <3>2, <3>3 DEF Shape
    <3> QED BY <2>1, <2>2, <3>6, <3>7 DEF S!Hear
  <2>4. CASE raced
    BY <2>1, <2>2, <2>4 DEF S!Hear
  <2> QED BY <2>3, <2>4
<1>d. ASSUME voice # "off", UNCHANGED <<callVars, llmVars, audio>>, raced' \in BOOLEAN,
             raced => raced'
      PROVE  S!Break \/ UNCHANGED S!vars
  <2>1. generating /\ UNCHANGED <<SaidTokens, audio, generating>>
    BY <1>a, <1>d DEF Shape, SaidTokens, callVars, llmVars
  <2> QED BY <1>a, <1>b, <1>d, <2>1 DEF S!Break
<1>1. ASSUME NEW m \in Modes, StartStreaming(m) PROVE S!Begin
  BY <1>1 DEF StartStreaming, S!Begin, SaidTokens
<1>2. CASE Refuse
  BY <1>b, <1>2 DEF Refuse, SaidTokens, llmVars, voiceVars
<1>3. CASE Setup
  BY <1>a, <1>b, <1>3 DEF Setup, SaidTokens, Shape
<1>4. CASE Join
  <2>1. raced \/ audio = [i \in 1 .. SaidTokens |-> i]
    BY <1>a, <1>4, FirstTokens DEF Join, Content, SaidTokens
  <2>2. generating /\ ~ generating' /\ UNCHANGED <<audio, raced>>
    BY <1>a, <1>4 DEF Join, Shape, voiceVars
  <2>3. UNCHANGED SaidTokens
    BY <1>4 DEF Join, SaidTokens, llmVars
  <2>4. generating' = FALSE
    BY <1>4 DEF Join
  <2>5. S!End
    BY <2>1, <2>2, <2>3, <2>4 DEF S!End
  <2> QED BY <2>5 DEF S!Next
<1>5. CASE BeginText
  BY <1>b, <1>5 DEF BeginText, SaidTokens, callVars, voiceVars
<1>6. CASE Push
  BY <1>a, <1>6 DEF Push, S!Next, S!Say, SaidTokens, Shape, callVars, voiceVars
<1>7. CASE Evaluated
  BY <1>b, <1>7 DEF Evaluated, SaidTokens, callVars, voiceVars
<1>8. CASE EndText
  BY <1>b, <1>8 DEF EndText, SaidTokens, callVars, voiceVars
<1>9. CASE Finish
  BY <1>b, <1>9 DEF Finish, SaidTokens, callVars, voiceVars
<1>10. CASE Poll
  BY <1>b, <1>10 DEF Poll, SaidTokens, callVars, llmVars
<1>11. CASE Look
  BY <1>b, <1>11 DEF Look, SaidTokens, callVars, llmVars
<1>12. CASE CopyChunk
  <2>1. PICK chunk : raced' = (raced \/ chunk # Tokens(taken, size))
    BY <1>12 DEF CopyChunk
  <2>2. raced' \in BOOLEAN /\ (raced => raced')
    BY <1>a, <2>1
  <2> QED BY <1>d, <1>12, <2>2 DEF CopyChunk, S!Next
<1>13. CASE Sound
  BY <1>c, <1>13 DEF Sound, S!Next
<1>14. CASE Drain
  <2>1. PICK n : raced' = (raced \/ n # output)
    BY <1>14 DEF Drain
  <2>2. raced' \in BOOLEAN /\ (raced => raced')
    BY <1>a, <2>1
  <2> QED BY <1>d, <1>14, <2>2 DEF Drain, S!Next
<1>15. CASE SoundRest
  BY <1>c, <1>15 DEF SoundRest, S!Next
<1>16. CASE UNCHANGED vars
  BY <1>b, <1>16 DEF vars, callVars, llmVars, voiceVars, SaidTokens
<1> QED BY <1>1, <1>2, <1>3, <1>4, <1>5, <1>6, <1>7, <1>8, <1>9, <1>10, <1>11, <1>12,
           <1>13, <1>14, <1>15, <1>16
        DEF Next, CallStep, LlmStep, VoiceStep, Quiet, S!Next

\* A call does what module Speech promises: every behaviour of the threads is,
\* seen through the flag and the buffer a client reads, one of the promise.
THEOREM ImplementsCorrect == Spec => Implements
<1>1. Init => S!Init
  BY PromiseInit
<1>2. StreamInv /\ [Next]_vars => [S!Next]_(S!vars)
  BY PromiseStep
<1> QED BY <1>1, <1>2, StreamAlways, PTL DEF Spec, Implements, S!Spec

\* A sequence is at the front of what is appended to it.
LEMMA FrontKept ==
    ASSUME NEW s \in Seq(Nat), NEW t \in Seq(Nat)
    PROVE  /\ Len(s) <= Len(s \o t)
           /\ SubSeq(s \o t, 1, Len(s)) = s
           /\ SubSeq(s, 1, Len(s)) = s
<1>1. /\ s \o t \in Seq(Nat) /\ Len(s \o t) = Len(s) + Len(t)
      /\ \A i \in 1 .. Len(s) : (s \o t)[i] = s[i]
  BY ConcatProperties
<1> DEFINE u == s \o t
<1> HIDE DEF u
<1>2. /\ u \in Seq(Nat) /\ Len(u) = Len(s) + Len(t)
      /\ \A i \in 1 .. Len(s) : u[i] = s[i] /\ u[i] \in Nat /\ s[i] \in Nat
  BY <1>1 DEF u
<1>3. /\ SubSeq(u, 1, Len(s)) \in Seq(Nat) /\ Len(SubSeq(u, 1, Len(s))) = Len(s)
      /\ \A i \in 1 .. Len(s) : SubSeq(u, 1, Len(s))[i] = u[i]
  BY <1>2, SubSeqProperties
<1>4. /\ SubSeq(s, 1, Len(s)) \in Seq(Nat) /\ Len(SubSeq(s, 1, Len(s))) = Len(s)
      /\ \A i \in 1 .. Len(s) : SubSeq(s, 1, Len(s))[i] = s[i]
  BY <1>2, SubSeqProperties
<1>5. SubSeq(u, 1, Len(s)) = s /\ SubSeq(s, 1, Len(s)) = s
  BY <1>2, <1>3, <1>4, SeqEqual
<1> QED BY <1>2, <1>5 DEF u

\* While a call goes on the stream buffer only grows (c_api.cpp:683 and
\* runtime.cpp:1661 clear it before the first sound).
THEOREM NeverTakenBackCorrect == Spec => NeverTakenBack
<1> DEFINE Kept == generating /\ generating' =>
                     /\ Len(audio) <= Len(audio')
                     /\ SubSeq(audio', 1, Len(audio)) = audio
<1>1. ASSUME StreamInv, [Next]_vars PROVE Kept
  <2> SUFFICES ASSUME generating, generating'
               PROVE  /\ Len(audio) <= Len(audio')
                      /\ SubSeq(audio', 1, Len(audio)) = audio
    OBVIOUS
  <2>1. audio \in Seq(Nat) /\ << >> \in Seq(Nat)
    BY <1>1 DEF StreamInv, TypeOK, VoiceTypes
  <2>2. CASE UNCHANGED audio
    BY <2>1, <2>2, FrontKept
  <2>3. CASE Setup
    <3>1. audio = << >> /\ audio' = << >>
      BY <1>1, <2>3 DEF Setup, StreamInv, Shape
    <3> QED BY <2>2, <3>1
  <2>4. CASE Sound \/ SoundRest
    <3>1. NewSound \in Seq(Nat)
      <4>1. skip \in 0 .. Len(window) /\ window \in Seq(Nat)
        BY <1>1, <2>4 DEF Sound, SoundRest, StreamInv, TypeOK, VoiceTypes, Shape
      <4> QED BY <4>1, RestSeq DEF NewSound
    <3>2. audio' = audio \o NewSound
      BY <2>4 DEF Sound, SoundRest
    <3> QED BY <2>1, <3>1, <3>2, FrontKept
  <2>5. Setup \/ Sound \/ SoundRest \/ UNCHANGED audio
    BY <1>1 DEF Next, StartStreaming, CallStep, LlmStep, VoiceStep, Quiet, Refuse, Join,
         BeginText, Push, Evaluated, EndText, Finish, Poll, Look, CopyChunk, Drain,
         vars, voiceVars
  <2> QED BY <2>2, <2>3, <2>4, <2>5
<1>2. StreamInv /\ [Next]_vars => [Kept]_vars
  BY <1>1
<1> QED BY <1>2, StreamAlways, PTL DEF Spec, NeverTakenBack

\* The tokens of the speaker, while a call has threads.
SpeakerInv ==
    caller \in {"joining", "done"} =>
        /\ mode = "sample" => speaker = "raw" /\ prompts \subseteq {"offset"}
        /\ mode = "tokens" => speaker = "offset" /\ prompts \subseteq {"offset"}

\* With a voice sample or given tokens the language model reads the speaker's
\* tokens for every text alike: the offset is added once, however many texts there
\* are (runtime.cpp:1712, 1984).
THEOREM OneSpeakerCorrect == Spec => []OneSpeaker
<1>1. Init => SpeakerInv
  BY DEF Init, SpeakerInv
<1>2. ASSUME StreamInv, SpeakerInv, [Next]_vars PROVE SpeakerInv'
  <2>1. CASE \E m \in Modes : StartStreaming(m)
    BY <2>1 DEF StartStreaming, SpeakerInv
  <2>2. CASE Setup
    BY <2>2 DEF Setup, SpeakerInv
  <2>3. CASE Refuse
    BY <2>3 DEF Refuse, SpeakerInv
  <2>4. CASE Join
    BY <1>2, <2>4 DEF Join, SpeakerInv, llmVars
  <2>5. CASE BeginText
    <3>1. caller' = caller /\ mode' = mode /\ caller = "joining"
      BY <1>2, <2>5 DEF BeginText, callVars, StreamInv, Shape
    <3>2. CASE mode = "sample"
      <4>1. speaker = "raw" /\ prompts \subseteq {"offset"}
        BY <1>2, <3>1, <3>2 DEF SpeakerInv
      <4>2. speaker' = speaker /\ prompts' = prompts \cup {Offset(speaker)}
        BY <2>5, <3>2 DEF BeginText
      <4>3. Offset(speaker) = "offset"
        BY <4>1 DEF Offset
      <4> QED BY <3>1, <3>2, <4>1, <4>2, <4>3 DEF SpeakerInv
    <3>3. CASE mode = "tokens"
      <4>1. speaker = "offset" /\ prompts \subseteq {"offset"}
        BY <1>2, <3>1, <3>3 DEF SpeakerInv
      <4>2. speaker' = speaker /\ prompts' = prompts \cup {speaker}
        BY <2>5, <3>3 DEF BeginText
      <4> QED BY <3>1, <3>3, <4>1, <4>2 DEF SpeakerInv
    <3>4. CASE mode \notin {"sample", "tokens"}
      BY <3>1, <3>4 DEF SpeakerInv
    <3> QED BY <3>2, <3>3, <3>4
  <2>6. CASE UNCHANGED <<caller, mode, speaker, prompts>>
    BY <1>2, <2>6 DEF SpeakerInv
  <2>7. (LlmStep /\ ~ BeginText) \/ VoiceStep \/ Quiet \/ UNCHANGED vars
          => UNCHANGED <<caller, mode, speaker, prompts>>
    BY DEF LlmStep, VoiceStep, Quiet, vars, callVars, llmVars, Push, Evaluated, EndText,
           Finish, Poll, Look, CopyChunk, Sound, Drain, SoundRest
  <2> QED BY <1>2, <2>1, <2>2, <2>3, <2>4, <2>5, <2>6, <2>7 DEF Next, CallStep
<1>3. SpeakerInv /\ StreamInv => OneSpeaker
  BY DEF SpeakerInv, StreamInv, TypeOK, CallTypes, Modes, OneSpeaker
<1> QED BY <1>1, <1>2, <1>3, StreamAlways, PTL DEF Spec

=============================================================================
