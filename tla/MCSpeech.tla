------------------------------ MODULE MCSpeech ------------------------------
(* Speech with two bubbles, the first of them a thought. *)
EXTENDS Speech

Thoughts == {1}
Nothing == {}
Tools == {2}
=============================================================================
