---------------------------- MODULE SharedState ----------------------------
(***************************************************************************)
(* What the event stream promises its viewers, without hosts, patches or   *)
(* connections: the host goes through a sequence of states, and a viewer   *)
(* that has joined always shows one of them.  A viewer may skip states, it *)
(* never goes back, and it never shows a state that was not the host's.    *)
(***************************************************************************)
EXTENDS Integers, Sequences, SequencesExt

CONSTANT Viewers

VARIABLES
  log,     \* every state of the host so far
  at,      \* the position each viewer has reached, 0 before it has joined
  view     \* what each viewer shows

Init ==
  /\ log /= <<>>
  /\ at = [v \in Viewers |-> 0]

(* The host moves on, by one state or by several at once. *)
Grow ==
  /\ IsPrefix(log, log')
  /\ UNCHANGED <<at, view>>

(* A viewer moves forward to a state it had not reached. *)
Observe(v) ==
  /\ UNCHANGED log
  /\ \E i \in (at[v] + 1)..Len(log) :
       /\ at' = [at EXCEPT ![v] = i]
       /\ view' = [view EXCEPT ![v] = log[i]]

Next == Grow \/ \E v \in Viewers : Observe(v)

Spec == Init /\ [][Next]_<<log, at, view>>

=============================================================================
