---- MODULE MCTokenizer ----
(* Vocabularies over two bytes: with all bytes, with one missing, with tokens *)
(* that share a beginning, and with two ids for the same bytes.               *)
EXTENDS Tokenizer

CONSTANTS a, b, e

MCBytes == {a, b, e}
MCEod == <<e, a>>
Line(id, bytes) == [id |-> id, bytes |-> bytes]
MCVocabFiles ==
    {<<Line(1, <<a>>), Line(2, <<b>>), Line(3, <<e>>), Line(4, <<a, b>>), Line(5, <<a, b, b, a>>)>>,
     <<Line(2, <<a, a, b>>), Line(1, <<a>>), Line(7, <<b, a>>)>>,
     <<Line(1, <<b>>), Line(2, <<a>>), Line(3, <<b>>)>>}
MCTexts == UNION {[1 .. n -> {a, b, e}] : n \in 0 .. 5}
MCGarbage == <<e, e>>
====
