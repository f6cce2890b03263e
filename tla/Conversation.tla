---------------------------- MODULE Conversation ----------------------------
(***************************************************************************)
(* What a client of one model is promised by chat: a model without a cache *)
(* that reads each chat from its beginning, then answers token by token    *)
(* and reads its own answer.  Nothing of earlier chats, failed calls,      *)
(* loaded states or other calls shows but the prompt that was set.         *)
(* A text is a sequence of token ids; whether the tag of a file was read   *)
(* as its content or as a word is not told apart here.                     *)
(*                                                                         *)
(* trusted says that no state has been stored under another text so far,   *)
(* be it another chat's or one left by an initial state that did not load; *)
(* nothing is promised about what is read from then on.                    *)
(***************************************************************************)
EXTENDS Integers, Sequences

CONSTANTS
    Token,
    Inputs,         \* histories that clients send
    Prompts,        \* prompts that clients set
    Texts,          \* for a prompt and an input the chat's ids
    Readings,       \* for a chat's ids the sequences it may be read as
    RewindTokens,
    MaxLength

VARIABLES
    prompt,    \* the prompt in force
    phase,     \* "idle", "reading" or "answering"
    asked,     \* the ids of the chat to answer
    read,      \* all that the model has read, once it answers
    basis,     \* the text after which the next token is sampled
    answer,
    trusted

vars == <<prompt, phase, asked, read, basis, answer, trusted>>

Init ==
    /\ prompt = << >>
    /\ phase = "idle"
    /\ asked = << >>
    /\ read = << >>
    /\ basis = << >>
    /\ answer = << >>
    /\ trusted = TRUE

Ask(i) ==
    /\ phase = "idle"
    /\ phase' = "reading"
    /\ asked' = Texts[prompt][i]
    /\ UNCHANGED <<prompt, read, basis, answer, trusted>>

\* The first token of a chat that was answered or loaded before may be sampled
\* from the logits saved then: one token ahead of it, or none at all.
FirstBases(text) == {text, << >>} \cup {Append(text, r) : r \in RewindTokens}

Answer ==
    /\ phase = "reading"
    /\ phase' = "answering"
    /\ IF trusted
       THEN read' \in Readings[asked] /\ basis' \in FirstBases(read')
       ELSE UNCHANGED <<read, basis>>
    /\ UNCHANGED <<prompt, asked, answer, trusted>>

Say(tok) ==
    /\ phase = "answering"
    /\ Len(answer) < MaxLength
    /\ answer' = Append(answer, tok)
    /\ IF trusted
       THEN read' = Append(read, tok) /\ basis' = read'
       ELSE UNCHANGED <<read, basis>>
    /\ UNCHANGED <<prompt, phase, asked, trusted>>

\* The call returns, with an error or not.  Saving the answer may go wrong.
End ==
    /\ phase # "idle"
    /\ phase' = "idle"
    /\ asked' = << >>
    /\ read' = << >>
    /\ basis' = << >>
    /\ answer' = << >>
    /\ trusted' \in {trusted, FALSE}
    /\ UNCHANGED prompt

SetPrompt(p) ==
    /\ phase = "idle"
    /\ prompt' = p
    /\ UNCHANGED <<phase, asked, read, basis, answer, trusted>>

\* A state is stored under a text that is not its own.
Misplace ==
    /\ phase # "answering"
    /\ trusted' = FALSE
    /\ UNCHANGED <<prompt, phase, asked, read, basis, answer>>

Next ==
    \/ \E i \in Inputs : Ask(i)
    \/ Answer
    \/ \E tok \in Token : Say(tok)
    \/ End
    \/ \E p \in Prompts : SetPrompt(p)
    \/ Misplace

Spec == Init /\ [][Next]_vars

=============================================================================
