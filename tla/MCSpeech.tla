------------------------------ MODULE MCSpeech ------------------------------
(* Messages of one character.                                              *)
EXTENDS Speech

OneEach == [m \in Messages |-> 1]
=============================================================================
