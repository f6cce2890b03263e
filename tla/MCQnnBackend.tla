---- MODULE MCQnnBackend ----
(* An instance of QnnBackend with batches of up to four. *)
EXTENDS QnnBackend

CONSTANTS a, b

MCTokens == {a, b}
MCInputs == {<<a>>, <<b>>, <<a, b>>, <<a, b, a>>, <<b, a, b, b>>, <<a, a, b, a, b>>}
MCBatchGraphs == {2, 4}
====
