------------------------------- MODULE Speech -------------------------------
(***************************************************************************)
(* What a streaming speech call promises to a client: the tokens the model *)
(* says are heard in the order in which they are said, each once, what has *)
(* been heard is never taken back, and the call ends when everything has   *)
(* been heard.  Token k is the k-th token said.                            *)
(*                                                                         *)
(* The tokens pass between two threads without synchronisation.  broken    *)
(* says that this went wrong once; nothing is promised from then on.       *)
(***************************************************************************)
EXTENDS Integers, Sequences

VARIABLES
    said,      \* number of tokens said in the call
    heard,     \* the tokens whose sound is in the stream buffer
    talking,   \* the call is going on, as is_generating tells the client
    broken

vars == <<said, heard, talking, broken>>

Init ==
    /\ said = 0
    /\ heard = << >>
    /\ talking = FALSE
    /\ broken = FALSE

Begin ==
    /\ ~ talking
    /\ talking' = TRUE
    /\ said' = 0
    /\ heard' = << >>
    /\ broken' = FALSE

Say ==
    /\ talking
    /\ said' = said + 1
    /\ UNCHANGED <<heard, talking, broken>>

Hear ==
    /\ talking
    /\ \/ \E n \in Len(heard) .. said : heard' = [i \in 1 .. n |-> i]
       \/ broken
    /\ UNCHANGED <<said, talking, broken>>

Break ==
    /\ talking
    /\ broken' = TRUE
    /\ UNCHANGED <<said, heard, talking>>

End ==
    /\ talking
    /\ broken \/ heard = [i \in 1 .. said |-> i]
    /\ talking' = FALSE
    /\ UNCHANGED <<said, heard, broken>>

Next == Begin \/ Say \/ Hear \/ Break \/ End

Spec == Init /\ [][Next]_vars

=============================================================================
