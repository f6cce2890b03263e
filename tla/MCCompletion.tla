---- MODULE MCCompletion ----
(* Two models, two tokens; the prompts are empty, a chunk, and more than one. *)
EXTENDS Completion, TLC

CONSTANTS a, stop, m1, m2

MCModels == {m1, m2}
MCVocab == {a, stop}
MCPrompts == {<< >>, <<a, stop>>, <<a, a, stop>>}
MCSymmetry == Permutations(MCModels)
====
