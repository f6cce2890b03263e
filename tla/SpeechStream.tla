---------------------------- MODULE SpeechStream ----------------------------
(***************************************************************************)
(* The streaming speech calls (src/src/runtime.cpp, run_spark_tts_..._     *)
(* streaming and tts_detokenize_thread_main) and the part of the C API     *)
(* that starts them.                                                       *)
(*                                                                         *)
(* A call runs two threads.  The first lets the language model say speech  *)
(* tokens and pushes them to output_tokens; the second takes them in       *)
(* chunks, turns each chunk, after the last tokens of the one before it,   *)
(* into samples and appends what is new to the stream buffer, which the    *)
(* client reads.  output_tokens and generation_finished have no lock.      *)
(*                                                                         *)
(* The k-th token of a call is the number k; the sound of a token is the   *)
(* token (each token makes 16000/50 samples).  One call runs at a time.    *)
(***************************************************************************)
EXTENDS Integers, Sequences

CONSTANTS
    InitialChunk,   \* initial_chunk_size, 125
    ChunkSize,      \* chunk_size, 100
    OverlapSize,    \* overlap_size, 25
    MaxLength,      \* tts_max_length, 3000 tokens per text
    MaxTexts,       \* bound: texts a call is split into
    MaxCalls        \* bound: calls in one run

ASSUME SpeechAssumption ==
    /\ InitialChunk \in Nat \ {0} /\ ChunkSize \in Nat \ {0}
    /\ OverlapSize \in Nat
    /\ OverlapSize <= InitialChunk
    /\ MaxLength \in Nat \ {0} /\ MaxTexts \in Nat /\ MaxCalls \in Nat

\* Where the speaker comes from: a voice sample, properties of the voice, or
\* the global tokens of an earlier call.
Modes == {"sample", "properties", "tokens"}

VARIABLES
    calls,        \* calls started
    generating,   \* is_generating
    caller,       \* the thread of the call
    mode,
    texts,        \* texts not yet begun
    llm,          \* the thread that says tokens
    spoken,       \* tokens said for the current text
    output,       \* output_tokens.size()
    room,         \* output_tokens.capacity()
    finished,     \* generation_finished
    speaker,      \* the values in global_tokens: none yet, raw ones or ones
                  \* that have global_token_offset added
    prompts,      \* the speaker tokens that the model has read
    voice,        \* the thread that makes sound
    taken,        \* semantic_token_pos
    size,         \* actual_chunk_size
    overlap,      \* semantic_tokens_buf
    window,       \* current_semantic_tokens
    skip,         \* buffered_size
    storage,      \* capacity of the array the copy of a chunk began to read
    audio,        \* _tts_output_samples_buffer
    raced         \* history: a read without a lock gave a wrong result

callVars  == <<calls, generating, caller, mode>>
llmVars   == <<texts, llm, spoken, output, room, finished, speaker, prompts>>
voiceVars == <<voice, taken, size, overlap, window, skip, storage, audio, raced>>

vars == <<callVars, llmVars, voiceVars>>

\* n tokens of output_tokens, after the first k.
Tokens(k, n) == [i \in 1 .. n |-> k + i]

\* What may be read from memory that was given back.
Junk(n) == [i \in 1 .. n |-> 0]

Init ==
    /\ calls = 0 /\ generating = FALSE /\ caller = "none" /\ mode = "sample"
    /\ texts = 0 /\ llm = "off" /\ spoken = 0 /\ output = 0 /\ room = 0
    /\ finished = FALSE /\ speaker = "none" /\ prompts = {}
    /\ voice = "off" /\ taken = 0 /\ size = InitialChunk /\ overlap = << >>
    /\ window = << >> /\ skip = 0 /\ storage = 0 /\ audio = << >> /\ raced = FALSE

-----------------------------------------------------------------------------
(* The call. *)

\* Slip: the C API leaves it to the thread to clear the buffer.
StartKeepsBuffer(m) ==
    /\ calls < MaxCalls
    /\ ~ generating
    /\ calls' = calls + 1
    /\ generating' = TRUE
    /\ caller' = "spawned"
    /\ mode' = m
    /\ raced' = FALSE
    /\ UNCHANGED <<llmVars, voice, taken, size, overlap, window, skip, storage, audio>>

\* The client starts a call when is_generating is down.
StartStreaming(m) ==
    /\ calls < MaxCalls
    /\ ~ generating
    /\ calls' = calls + 1
    /\ generating' = TRUE
    /\ caller' = "spawned"
    /\ mode' = m
    /\ audio' = << >>
    /\ raced' = FALSE
    /\ UNCHANGED <<llmVars, voice, taken, size, overlap, window, skip, storage>>

\* No speech models, or the voice sample gives no tokens: is_generating stays.
Refuse ==
    /\ caller = "spawned"
    /\ caller' = "refused"
    /\ UNCHANGED <<calls, generating, mode, llmVars, voiceVars>>

\* The text is split, the buffer is cleared again and the threads start.
Setup ==
    /\ caller = "spawned"
    /\ caller' = "joining"
    /\ texts' \in 0 .. MaxTexts
    /\ llm' = "text" /\ spoken' = 0 /\ output' = 0 /\ room' = 0
    /\ finished' = FALSE /\ prompts' = {}
    /\ \/ mode = "sample" /\ speaker' = "raw"
       \/ mode = "properties" /\ speaker' = "none"
       \/ mode = "tokens" /\ speaker' = "offset"
    /\ voice' = "poll" /\ taken' = 0 /\ size' = InitialChunk /\ overlap' = << >>
    /\ window' = << >> /\ skip' = 0 /\ storage' = 0 /\ audio' = << >>
    /\ UNCHANGED <<calls, generating, mode, raced>>

\* Slip: the voice thread is not waited for.
JoinOne ==
    /\ caller = "joining"
    /\ llm = "off"
    /\ caller' = "done"
    /\ generating' = FALSE
    /\ UNCHANGED <<calls, mode, llmVars, voiceVars>>

\* Both threads are joined, the samples are written to a file.
Join ==
    /\ caller = "joining"
    /\ llm = "off" /\ voice = "off"
    /\ caller' = "done"
    /\ generating' = FALSE
    /\ UNCHANGED <<calls, mode, llmVars, voiceVars>>

-----------------------------------------------------------------------------
(* The thread of the language model. *)

\* Adding global_token_offset.
Offset(tokens) == IF tokens = "raw" THEN "offset" ELSE "offset twice"

\* Slip: the offset is added to global_tokens themselves.
BeginTextInPlace ==
    /\ llm = "text" /\ texts > 0
    /\ texts' = texts - 1
    /\ llm' = "sample" /\ spoken' = 0
    /\ speaker' = "offset"
    /\ prompts' = prompts \cup
                    {IF mode = "tokens" \/ speaker # "offset" THEN "offset" ELSE "offset twice"}
    /\ UNCHANGED <<callVars, output, room, finished, voiceVars>>

\* The global tokens are offset when they are given to the model, and in the
\* mode "properties" also when they are made.
BeginText ==
    /\ llm = "text" /\ texts > 0
    /\ texts' = texts - 1
    /\ llm' = "sample" /\ spoken' = 0
    /\ \/ /\ mode = "sample" \/ (mode = "properties" /\ speaker # "none")
          /\ prompts' = prompts \cup {Offset(speaker)}
          /\ UNCHANGED speaker
       \/ /\ mode = "tokens"
          /\ prompts' = prompts \cup {speaker}
          /\ UNCHANGED speaker
       \/ /\ mode = "properties" /\ speaker = "none"
          /\ prompts' = prompts \cup {"offset"}
          /\ speaker' = "offset"
    /\ UNCHANGED <<callVars, output, room, finished, voiceVars>>

\* Slip: tts_max_length is not looked at.
PushForever ==
    /\ llm = "sample"
    /\ spoken' = spoken + 1
    /\ output' = output + 1
    /\ room' = IF output < room THEN room ELSE IF room = 0 THEN 1 ELSE 2 * room
    /\ llm' = "eval"
    /\ UNCHANGED <<callVars, texts, finished, speaker, prompts, voiceVars>>

\* push_back: a full array is replaced by one of twice the size.
Push ==
    /\ llm = "sample" /\ spoken < MaxLength
    /\ spoken' = spoken + 1
    /\ output' = output + 1
    /\ room' = IF output < room THEN room ELSE IF room = 0 THEN 1 ELSE 2 * room
    /\ llm' = "eval"
    /\ UNCHANGED <<callVars, texts, finished, speaker, prompts, voiceVars>>

Evaluated ==
    /\ llm = "eval"
    /\ llm' = "sample"
    /\ UNCHANGED <<callVars, texts, spoken, output, room, finished, speaker, prompts,
                   voiceVars>>

\* The end token cannot be the first: its logit was lowered.
EndText ==
    /\ llm = "sample" /\ spoken > 0
    /\ llm' = "text"
    /\ UNCHANGED <<callVars, texts, spoken, output, room, finished, speaker, prompts,
                   voiceVars>>

\* Slip: the flag is only set after the last text.
FinishUnmarked ==
    /\ llm \in {"text", "eval"}
    /\ llm' = "off" /\ finished' = (llm = "text" /\ texts = 0)
    /\ UNCHANGED <<callVars, texts, spoken, output, room, speaker, prompts, voiceVars>>

\* All texts are done, a text has no tokens or an evaluation fails.
Finish ==
    /\ llm \in {"text", "eval"}
    /\ llm' = "off" /\ finished' = TRUE
    /\ UNCHANGED <<callVars, texts, spoken, output, room, speaker, prompts, voiceVars>>

-----------------------------------------------------------------------------
(* The thread of the voice. *)

Poll ==
    /\ voice = "poll"
    /\ voice' = IF finished THEN "drain" ELSE "look"
    /\ UNCHANGED <<callVars, llmVars, taken, size, overlap, window, skip, storage, audio,
                   raced>>

Look ==
    /\ voice = "look"
    /\ voice' = IF output - taken >= size THEN "copy" ELSE "poll"
    /\ storage' = room
    /\ UNCHANGED <<callVars, llmVars, taken, size, overlap, window, skip, audio, raced>>

\* Slip: the overlap is taken from the chunk's front.
FirstOf(s, n) == SubSeq(s, 1, n)

\* The last n of s.
LastOf(s, n) == SubSeq(s, Len(s) - n + 1, Len(s))

\* A chunk is copied.  If the array is replaced under the copy, the copy may
\* read memory that was given back.
CopyChunk ==
    /\ voice = "copy"
    /\ \E chunk \in {Tokens(taken, size)} \cup (IF room # storage THEN {Junk(size)} ELSE {}) :
         /\ window' = overlap \o chunk
         /\ raced' = (raced \/ chunk # Tokens(taken, size))
    /\ skip' = Len(overlap)
    /\ taken' = taken + size
    /\ overlap' = LastOf(window', OverlapSize)
    /\ voice' = "sound"
    /\ UNCHANGED <<callVars, llmVars, size, storage, audio>>

\* Slip: what was heard already is played again.
SoundWhole == window

\* The samples of the window without those of the overlap.
NewSound == SubSeq(window, skip + 1, Len(window))

\* After the first chunk the smaller size is used.
Sound ==
    /\ voice = "sound"
    /\ audio' = audio \o NewSound
    /\ size' = IF audio = << >> THEN ChunkSize ELSE size
    /\ voice' = "poll"
    /\ UNCHANGED <<callVars, llmVars, taken, overlap, window, skip, storage, raced>>

\* Slip: the rest is only spoken if it fills a chunk.
DrainFullOnly ==
    /\ voice = "drain"
    /\ window' = overlap \o Tokens(taken, output - taken)
    /\ skip' = Len(overlap)
    /\ taken' = output
    /\ voice' = IF output - taken >= size THEN "rest" ELSE "off"
    /\ UNCHANGED <<callVars, llmVars, size, overlap, storage, audio, raced>>

\* What is left when the flag is seen.  Nothing orders the flag after the last
\* tokens, so some of them may not be seen yet.
Drain ==
    /\ voice = "drain"
    /\ \E n \in taken .. output :
         /\ window' = overlap \o Tokens(taken, n - taken)
         /\ taken' = n
         /\ voice' = IF n > taken THEN "rest" ELSE "off"
         /\ raced' = (raced \/ n # output)
    /\ skip' = Len(overlap)
    /\ UNCHANGED <<callVars, llmVars, size, overlap, storage, audio>>

SoundRest ==
    /\ voice = "rest"
    /\ audio' = audio \o NewSound
    /\ voice' = "off"
    /\ UNCHANGED <<callVars, llmVars, taken, size, overlap, window, skip, storage, raced>>

-----------------------------------------------------------------------------

CallStep == Refuse \/ Setup \/ Join

LlmStep == BeginText \/ Push \/ Evaluated \/ EndText \/ Finish

VoiceStep == Poll \/ Look \/ CopyChunk \/ Sound \/ Drain \/ SoundRest

\* No call is going on and the client starts none any more.
Quiet ==
    /\ ~ generating \/ caller = "refused"
    /\ calls = MaxCalls \/ caller = "refused"
    /\ UNCHANGED vars

Next ==
    \/ \E m \in Modes : StartStreaming(m)
    \/ CallStep
    \/ LlmStep
    \/ VoiceStep
    \/ Quiet

Spec == Init /\ [][Next]_vars

\* The three threads are scheduled in the end; nothing is asked of the client.
FairSpec == Spec /\ WF_vars(CallStep) /\ WF_vars(LlmStep) /\ WF_vars(VoiceStep)

-----------------------------------------------------------------------------
(* Properties. *)

CallTypes ==
    /\ calls \in 0 .. MaxCalls /\ generating \in BOOLEAN /\ mode \in Modes
    /\ caller \in {"none", "spawned", "refused", "joining", "done"}

LlmTypes ==
    /\ texts \in 0 .. MaxTexts /\ llm \in {"off", "text", "sample", "eval"}
    /\ spoken \in 0 .. MaxLength /\ output \in Nat /\ room \in Nat
    /\ finished \in BOOLEAN

SpeakerTypes ==
    /\ speaker \in {"none", "raw", "offset"}
    /\ prompts \subseteq {"none", "raw", "offset", "offset twice"}

VoiceTypes ==
    /\ voice \in {"off", "poll", "look", "copy", "sound", "drain", "rest"}
    /\ taken \in Nat /\ size \in {InitialChunk, ChunkSize}
    /\ overlap \in Seq(Nat) /\ window \in Seq(Nat) /\ skip \in Nat /\ storage \in Nat
    /\ audio \in Seq(Nat) /\ raced \in BOOLEAN

\* Types of the call and of its two threads.
TypeOK == CallTypes /\ LlmTypes /\ SpeakerTypes /\ VoiceTypes

\* The stream buffer holds the sound of the tokens in the order in which they
\* were said, each once, however the chunks fall (runtime.cpp:1374-1404).
InOrder == ~ raced => audio = Tokens(0, Len(audio)) /\ Len(audio) <= output

\* Every window is a piece of the output without a gap, and what is new in it
\* comes after OverlapSize tokens that were heard before, except at the start
\* (runtime.cpp:1376-1382): there is no seam between two chunks.
SeamsOverlap ==
    voice \in {"sound", "rest"} /\ ~ raced =>
        /\ window = Tokens(taken - Len(window), Len(window))
        /\ skip = OverlapSize \/ (skip = 0 /\ taken = Len(window))
        /\ Len(audio) = taken - Len(window) + skip

\* When is_generating goes down everything that was said has been heard, also
\* when an evaluation failed half way (runtime.cpp:1395-1404, 1754-1761).
CompleteAtEnd ==
    caller = "done" /\ ~ raced => audio = Tokens(0, output)

\* What a client has read from the buffer during a call stays (c_api.cpp:683
\* and runtime.cpp:1661 both clear it).
NeverTakenBack ==
    [][generating /\ generating' =>
         /\ Len(audio) <= Len(audio')
         /\ SubSeq(audio', 1, Len(audio)) = audio]_vars

\* For every text of a call the language model reads the speaker's tokens with
\* the offset added once (runtime.cpp:1712, 1984).  Not in the mode "properties",
\* where the tokens made for the first text have the offset already and get it
\* again with the second (1869).  Nothing is said of what the detokenizer is
\* given (1750, 2018).
OneSpeaker ==
    caller \in {"joining", "done"} /\ mode # "properties" => prompts \subseteq {"offset"}

\* A call comes to an end, whichever of its evaluations fail, unless it is
\* refused before the threads start.
CallEnds == generating ~> (~ generating \/ caller = "refused")

\* The tokens of a call that has set up its threads.
SaidTokens == IF caller \in {"joining", "done"} THEN output ELSE 0

S == INSTANCE Speech WITH
        said <- SaidTokens, heard <- audio, talking <- generating, broken <- raced

\* The call keeps the promise of module Speech.
Implements == S!Spec

=============================================================================
