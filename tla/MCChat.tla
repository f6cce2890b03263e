------------------------------- MODULE MCChat -------------------------------
(***************************************************************************)
(* Small instances of Chat.                                                *)
(*                                                                         *)
(* Tokens: u user text, A the assistant word, x an answer, r an answer     *)
(* token of the rewind list, uA user text and the assistant word as one    *)
(* token, i an image tag, a an audio tag, t an initial state's tag.        *)
(***************************************************************************)
EXTENDS Chat, TLC

Letters(tok) == IF tok = "uA" THEN <<"u", "A">> ELSE <<tok>>

\* What a sequence of tokens decodes to.
Spelling(ids) == FlattenSeq([i \in DOMAIN ids |-> Letters(ids[i])])

\* The template puts the prompt before the history.
MCChatIds(p, i) == p \o i

\* Cutting the text before the assistant word splits a token that spans the
\* cut; nothing else is encoded differently.
MCReencode(ids) == Spelling(ids)

CacheInputs == {<<"u", "A">>, <<"u", "A", "r", "u", "A">>, <<"u", "u", "A">>}

FileInputs == {<<"u", "uA">>, <<"i", "A">>, <<"t", "u">>}

FilePrompts == {<<"t">>, <<"t", "u">>}

FileAudio == {<<"a">>}

FileStates == {<<"t">>}

CollisionInputs == {<<"u">>, <<"u", "u", "x">>, <<"u", "u", "x", "u">>}

=============================================================================
