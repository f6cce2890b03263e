---------------------------- MODULE MCChatBatch -----------------------------
(***************************************************************************)
(* Small instances of ChatBatch.  Tokens: u text, r a token of the rewind  *)
(* list, z token 0.                                                        *)
(***************************************************************************)
EXTENDS ChatBatch, TLC

AllBackends == {{1, 3}, {1, 2, 3}}

SmallBackend == {{1, 2}}

OneText == {<<"u", "r">>}

=============================================================================
