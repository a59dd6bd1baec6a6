------------------------- MODULE PatchStreamProofs -------------------------
(***************************************************************************)
(* Proofs about PatchStream, for any number of viewers and any bounds:     *)
(* type correctness, that the watermark of a viewer is the version of what *)
(* it shows, that a reconnect leaves a viewer at the state frame-zero      *)
(* describes, and that the stream implements SharedState.                  *)
(*                                                                         *)
(* OrderInv carries the first two: the patches on their way are numbered   *)
(* without a gap, in the host's stream as in each subscription, and only   *)
(* the first frame of a connection is a state.  CurrentInv carries the     *)
(* third: a viewer is never ahead of the state that travels towards it.    *)
(* The types need two facts about folds: the rebuilt state of frame-zero   *)
(* (FoldLeft over a recursive function) has a value and is a state, proved *)
(* from least indices.                                                     *)
(*                                                                         *)
(* StreamInv carries the refinement.  Every patch on its way is a step of  *)
(* the log; the route's copy, which may be ahead of what it serves, names  *)
(* the same messages as the state it has served up to, or a reset is       *)
(* coming; and the frames a viewer has not seen carry the steps that       *)
(* follow what it shows, without a gap.                                    *)
(***************************************************************************)
EXTENDS PatchStream, FiniteSetTheorems, SequenceTheorems, TLAPS

(* What a patch and an update may change of a state, besides the messages. *)
Changes ==
  [turn : Turns] \union [pending : BOOLEAN] \union [turn : Turns, error : BOOLEAN] \union
  [turn : Turns, pending : BOOLEAN] \union
  [turn : Turns, error : BOOLEAN, pending : BOOLEAN]

Ops ==
  [kind : {"add"}, message : Messages] \union
  [kind : {"append", "tool"}, target : Nat, n : Nat] \union
  [kind : {"reset"}] \union
  [kind : {"session"}, changes : Changes]

Wires ==
  [kind : {"message"}, key : Nat, role : Roles, n : Nat] \union
  [kind : {"chunk"}, key : Nat] \union
  [kind : {"reset"}] \union
  [kind : {"session"}, changes : Changes]

(* A patch on its way, and a frame on the network. *)
Patches == [version : Nat, op : Ops]

Frames ==
  [kind : {"snapshot"}, version : Nat, session : Nat, state : States] \union
  [kind : {"update"}, version : Nat, update : Wires]

(* Merge, field by field. *)
Merged(s, c) ==
  [messages |-> s.messages,
   turn    |-> IF "turn" \in DOMAIN c THEN c.turn ELSE s.turn,
   error   |-> IF "error" \in DOMAIN c THEN c.error ELSE s.error,
   pending |-> IF "pending" \in DOMAIN c THEN c.pending ELSE s.pending]

LEMMA MergeIs ==
  ASSUME NEW s \in States, NEW c \in Changes
  PROVE  Merge(s, c) = Merged(s, c)
<1>1. DOMAIN s = {"messages", "turn", "error", "pending"}
  BY DEF States
<1>2. "messages" \notin DOMAIN c
  BY DEF Changes
<1> QED
  BY <1>1, <1>2 DEF Merge, Merged, States

LEMMA MergeType ==
  ASSUME NEW s \in States, NEW c \in Changes
  PROVE  Merge(s, c) \in States
<1>1. Merged(s, c) \in States
  BY DEF Merged, Changes, States
<1> QED
  BY <1>1, MergeIs

LEMMA StateUpdateType ==
  ASSUME NEW c \in Changes
  PROVE  StateUpdate(c) \in Changes
  BY DEF StateUpdate, Changes, Turns

-----------------------------------------------------------------------------
(* Least and greatest indices. *)

LEMMA LeastNat ==
  ASSUME NEW T \in SUBSET Nat, T /= {}
  PROVE  \E x \in T : \A y \in T : x <= y
<1> DEFINE Below == {0 .. x : x \in T}
<1>1. Below \subseteq FiniteSubsetsOf(Nat) /\ Below # {}
  <2>1. ASSUME NEW x \in T PROVE 0 .. x \in FiniteSubsetsOf(Nat)
    BY FS_Interval, 0 .. x \subseteq Nat DEF FiniteSubsetsOf
  <2> QED
    BY <2>1
<1>2. PICK X \in Below : \A Y \in Below : <<Y, X>> \notin StrictSubsetOrdering(Nat)
  <2> HIDE DEF Below
  <2> QED
    BY <1>1, FS_StrictSubsetOrderingWellFounded, WFMin
<1>3. PICK x \in T : X = 0 .. x
  OBVIOUS
<1>4. ASSUME NEW y \in T, y < x PROVE FALSE
  <2>1. 0 .. y \subseteq X /\ x \in X /\ x \notin 0 .. y /\ X \subseteq Nat
    BY <1>3, <1>4
  <2> QED
    BY <1>2, <2>1 DEF StrictSubsetOrdering
<1> QED
  BY <1>4

LEMMA MinIs ==
  ASSUME NEW T \in SUBSET Nat, T /= {}
  PROVE  Min(T) \in T /\ \A y \in T : Min(T) <= y
  BY LeastNat DEF Min

LEMMA GreatestIndex ==
  ASSUME NEW n \in Nat, NEW T \in SUBSET (1 .. n), T /= {}
  PROVE  \E x \in T : \A y \in T : y <= x
<1> DEFINE Back == {n - x : x \in T}
<1>1. Back \in SUBSET Nat /\ Back /= {}
  <2>1. \A x \in T : n - x \in Nat
    OBVIOUS
  <2> QED
    BY <2>1
<1>2. PICK m \in Back : \A k \in Back : m <= k
  BY <1>1, LeastNat
<1>3. PICK x \in T : m = n - x
  OBVIOUS
<1>4. ASSUME NEW y \in T PROVE y <= x
  BY <1>2, <1>3, n - y \in Back
<1> QED
  BY <1>4

LEMMA MaxIs ==
  ASSUME NEW n \in Nat, NEW T \in SUBSET (1 .. n), T /= {}
  PROVE  Max(T) \in T /\ \A y \in T : y <= Max(T)
  BY GreatestIndex DEF Max

(* The message a patch names, and the one an update names. *)
Target(ms, t)  == SelectInSeq(ms, LAMBDA m : m.id = t)
Same(ms, r, k) == SelectInSeq(ms, LAMBDA m : m.role = r /\ m.key = k)

LEMMA TargetIndex ==
  ASSUME NEW ms, Len(ms) \in Nat, NEW t
  PROVE  \/ Target(ms, t) = 0 /\ \A j \in 1 .. Len(ms) : ms[j].id /= t
         \/ /\ Target(ms, t) \in 1 .. Len(ms) /\ ms[Target(ms, t)].id = t
            /\ \A j \in 1 .. Len(ms) : ms[j].id = t => Target(ms, t) <= j
<1> DEFINE I == {j \in 1 .. Len(ms) : ms[j].id = t}
<1>1. Target(ms, t) = IF I /= {} THEN Min(I) ELSE 0
  BY DEF SelectInSeq, Target
<1>2. I /= {} => Min(I) \in I /\ \A j \in I : Min(I) <= j
  <2>1. I \in SUBSET Nat
    OBVIOUS
  <2> HIDE DEF I
  <2> QED
    BY <2>1, MinIs
<1> QED
  BY <1>1, <1>2

LEMMA SameIndex ==
  ASSUME NEW ms, Len(ms) \in Nat, NEW r, NEW k
  PROVE  \/ Same(ms, r, k) = 0 /\ \A j \in 1 .. Len(ms) : ms[j].role /= r \/ ms[j].key /= k
         \/ /\ Same(ms, r, k) \in 1 .. Len(ms)
            /\ ms[Same(ms, r, k)].role = r /\ ms[Same(ms, r, k)].key = k
<1> DEFINE I == {j \in 1 .. Len(ms) : ms[j].role = r /\ ms[j].key = k}
<1>1. Same(ms, r, k) = IF I /= {} THEN Min(I) ELSE 0
  BY DEF SelectInSeq, Same
<1>2. I /= {} => Min(I) \in I
  <2>1. I \in SUBSET Nat
    OBVIOUS
  <2> HIDE DEF I
  <2> QED
    BY <2>1, MinIs
<1> QED
  BY <1>1, <1>2

LEMMA ContinuedIndex ==
  ASSUME NEW ms \in Seq(Messages), NEW k
  PROVE  \/ Continued(ms, k) = 0
         \/ /\ Continued(ms, k) \in 1 .. Len(ms)
            /\ ms[Continued(ms, k)].role = "agent" /\ ms[Continued(ms, k)].key = k
            /\ \A j \in 1 .. Len(ms) : ms[j].role = "agent" => j <= Continued(ms, k)
<1> DEFINE texts == {i \in DOMAIN ms : ms[i].role = "agent"}
           last  == CHOOSE i \in texts : \A j \in texts : j <= i
<1>1. texts \in SUBSET (1 .. Len(ms)) /\ Len(ms) \in Nat
  OBVIOUS
<1>2. texts /= {} => last \in texts /\ \A j \in texts : j <= last
  <2> HIDE DEF texts
  <2> QED
    BY <1>1, GreatestIndex
<1>3. Continued(ms, k) = IF texts /= {} /\ ms[last].key = k THEN last ELSE 0
  BY DEF Continued
<1> HIDE DEF last
<1> QED
  BY <1>1, <1>2, <1>3

LEMMA ReplayIs ==
  ASSUME NEW ps \in Seq(Patches), NEW w
  PROVE  /\ Replay(ps, w) \in Seq(Patches) /\ Len(Replay(ps, w)) <= Len(ps)
         /\ Replay(ps, w) /= <<>> => 
              \E j \in 1 .. Len(ps) : ps[j].version > w
<1> DEFINE I == {j \in 1 .. Len(ps) : ps[j].version > w}
           i == SelectInSeq(ps, LAMBDA p : p.version > w)
<1>1. i = IF I /= {} THEN Min(I) ELSE 0
  BY DEF SelectInSeq
<1>2. I /= {} => Min(I) \in I
  <2>1. I \in SUBSET Nat
    OBVIOUS
  <2> HIDE DEF I
  <2> QED
    BY <2>1, MinIs
<1>3. i = 0 \/ i \in I
  BY <1>1, <1>2
<1>4. Replay(ps, w) = IF i = 0 THEN <<>> ELSE SubSeq(ps, i, Len(ps))
  BY DEF Replay
<1> HIDE DEF i
<1> QED
  BY <1>3, <1>4

-----------------------------------------------------------------------------
(* Patches and updates keep states. *)

LEMMA StateParts ==
  ASSUME NEW s \in States
  PROVE  /\ s.messages \in Seq(Messages) /\ Len(s.messages) \in Nat
         /\ s.turn \in Turns /\ s.error \in BOOLEAN /\ s.pending \in BOOLEAN
         /\ \A i \in 1 .. Len(s.messages) : s.messages[i] \in Messages
  BY DEF States

LEMMA MessageParts ==
  ASSUME NEW m \in Messages
  PROVE  m.id \in Nat /\ m.key \in Nat /\ m.role \in Roles /\ m.n \in Nat
  BY DEF Messages

LEMMA TurnOfType ==
  ASSUME NEW s \in States, NEW role
  PROVE  TurnOf(s, role) \in Turns /\ "busy" \in Turns
  BY DEF States, TurnOf, Turns

LEMMA MessagesType ==
  ASSUME NEW s \in States, NEW ms \in Seq(Messages), NEW t \in Turns
  PROVE  /\ [s EXCEPT !.messages = ms, !.turn = t] \in States
         /\ [s EXCEPT !.messages = ms] \in States
  BY DEF States

LEMMA EmptiedType ==
  ASSUME NEW s \in States
  PROVE  [s EXCEPT !.messages = <<>>] \in States
<1>1. <<>> \in Seq(Messages)
  OBVIOUS
<1>2. \A ms \in Seq(Messages) : [s EXCEPT !.messages = ms] \in States
  BY MessagesType, "busy" \in Turns DEF Turns
<1> QED
  BY <1>1, <1>2

LEMMA AddedType ==
  ASSUME NEW s \in States, NEW m \in Messages
  PROVE  [s EXCEPT !.messages = Append(@, m), !.turn = TurnOf(s, m.role)] \in States
<1>1. Append(s.messages, m) \in Seq(Messages)
  BY StateParts
<1> QED
  BY <1>1, TurnOfType, MessagesType

LEMMA AddType ==
  ASSUME NEW s \in States, NEW key \in Nat, NEW role \in Roles, NEW n \in Nat
  PROVE  Add(s, key, role, n) \in States
<1> DEFINE m == [id |-> Len(s.messages), key |-> key, role |-> role, n |-> n]
<1>1. m \in Messages /\ m.role = role
  BY StateParts DEF Messages
<1>2. Add(s, key, role, n) = [s EXCEPT !.messages = Append(@, m), !.turn = TurnOf(s, m.role)]
  BY <1>1 DEF Add
<1> HIDE DEF m
<1> QED
  BY <1>1, <1>2, AddedType

(* The state after a message has changed. *)
Changed(s, i, n, t) == [s EXCEPT !.messages[i].n = n, !.turn = t]

LEMMA ChangedType ==
  ASSUME NEW s \in States, NEW i \in 1 .. Len(s.messages), NEW n \in Nat, NEW t \in Turns
  PROVE  Changed(s, i, n, t) \in States
<1>1. s.messages \in Seq(Messages) /\ s.messages[i] \in Messages
  BY StateParts
<1>2. [s.messages[i] EXCEPT !.n = n] \in Messages
  BY <1>1 DEF Messages
<1>3. [s.messages EXCEPT ![i] = [s.messages[i] EXCEPT !.n = n]] \in Seq(Messages)
  BY <1>1, <1>2
<1> QED
  BY <1>3, MessagesType DEF Changed

LEMMA ApplyPatchType ==
  ASSUME NEW s \in States, NEW op \in Ops
  PROVE  ApplyPatch(s, op) \in States
<1>1. CASE op.kind = "add"
  <2>1. op.message \in Messages
    BY <1>1 DEF Ops
  <2> QED
    BY <1>1, <2>1, AddedType DEF ApplyPatch
<1>2. CASE op.kind \in {"append", "tool"}
  <2> DEFINE i == Target(s.messages, op.target)
             turn == IF op.kind = "tool" THEN s.turn ELSE TurnOf(s, s.messages[i].role)
             n == IF op.kind = "tool" THEN op.n ELSE s.messages[i].n + op.n
  <2>1. op.n \in Nat
    BY <1>2 DEF Ops
  <2>2. i = 0 \/ i \in 1 .. Len(s.messages)
    BY StateParts, TargetIndex
  <2>3. ApplyPatch(s, op) = s \/ ApplyPatch(s, op) = Changed(s, i, n, turn)
    BY <1>2 DEF ApplyPatch, Target, Changed
  <2>4. i = 0 => ApplyPatch(s, op) = s
    BY <1>2 DEF ApplyPatch, Target
  <2> HIDE DEF i
  <2>5. i \in 1 .. Len(s.messages) => n \in Nat /\ turn \in Turns
    BY <2>1, StateParts, MessageParts, TurnOfType
  <2> HIDE DEF n, turn
  <2> QED
    BY <2>2, <2>3, <2>4, <2>5, ChangedType
<1>3. CASE op.kind = "reset"
  BY <1>3, EmptiedType DEF ApplyPatch
<1>4. CASE op.kind = "session"
  BY <1>4, MergeType DEF ApplyPatch, Ops
<1> QED
  BY <1>1, <1>2, <1>3, <1>4 DEF Ops

LEMMA ReduceType ==
  ASSUME NEW s \in States, NEW u \in Wires
  PROVE  Reduce(s, u) \in States
<1>1. CASE u.kind = "message"
  <2> DEFINE i == Same(s.messages, u.role, u.key)
             j == IF u.role = "user" THEN 0 ELSE i
             turn == IF u.role = "tool" THEN s.turn ELSE "busy"
  <2>1. u.key \in Nat /\ u.role \in Roles /\ u.n \in Nat
    BY <1>1 DEF Wires
  <2>2. i = 0 \/ i \in 1 .. Len(s.messages)
    BY StateParts, SameIndex
  <2>3. Reduce(s, u) = IF j = 0 THEN Add(s, u.key, u.role, u.n)
                       ELSE Changed(s, j, u.n, turn)
    BY <1>1 DEF Reduce, ReduceMessage, Same, Changed
  <2>4. turn \in Turns
    BY StateParts, TurnOfType
  <2> HIDE DEF i, turn
  <2> QED
    BY <2>1, <2>2, <2>3, <2>4, AddType, ChangedType
<1>2. CASE u.kind = "chunk"
  <2> DEFINE i == Continued(s.messages, u.key)
             n == s.messages[i].n + 1
  <2>1. u.key \in Nat
    BY <1>2 DEF Wires
  <2>2. i = 0 \/ i \in 1 .. Len(s.messages)
    BY StateParts, ContinuedIndex
  <2>3. Reduce(s, u) = IF i = 0 THEN Add(s, u.key, "agent", 1)
                       ELSE Changed(s, i, n, "busy")
    BY <1>2 DEF Reduce, ReduceChunk, Changed
  <2> HIDE DEF i
  <2>4. i \in 1 .. Len(s.messages) => n \in Nat
    BY StateParts, MessageParts
  <2>5. "busy" \in Turns /\ "agent" \in Roles
    BY DEF Turns, Roles
  <2> HIDE DEF n
  <2> QED
    BY <2>1, <2>2, <2>3, <2>4, <2>5, AddType, ChangedType
<1>3. CASE u.kind = "reset"
  BY <1>3, EmptiedType DEF Reduce
<1>4. CASE u.kind = "session"
  BY <1>4, MergeType DEF Reduce, Wires
<1> QED
  BY <1>1, <1>2, <1>3, <1>4 DEF Wires

-----------------------------------------------------------------------------
(* The frames of a patch, and the fold that rebuilds a state. *)

LEMMA WholeMessageType ==
  ASSUME NEW m \in Messages
  PROVE  WholeMessage(m) \in Wires
  BY DEF WholeMessage, Messages, Wires

LEMMA UpdatesType ==
  ASSUME NEW s \in States, NEW op \in Ops
  PROVE  /\ Updates(s, op) \in Seq(Wires)
         /\ Len(Updates(s, op)) \in 0 .. 1
<1>1. \A u \in Wires : <<u>> \in Seq(Wires) /\ Len(<<u>>) = 1
  OBVIOUS
<1>2. <<>> \in Seq(Wires) /\ Len(<<>>) = 0
  OBVIOUS
<1>3. CASE op.kind = "add"
  <2>1. Updates(s, op) = <<WholeMessage(op.message)>> /\ op.message \in Messages
    BY <1>3 DEF Updates, Ops
  <2> QED
    BY <1>1, <2>1, WholeMessageType
<1>4. CASE op.kind \in {"append", "tool"}
  <2> DEFINE i     == Target(s.messages, op.target)
             whole == [WholeMessage(s.messages[i]) EXCEPT !.n = op.n]
             chunk == [kind |-> "chunk", key |-> s.messages[i].key]
  <2>1. i = 0 \/ i \in 1 .. Len(s.messages)
    BY StateParts, TargetIndex
  <2>2. \/ Updates(s, op) = <<>>
        \/ i /= 0 /\ Updates(s, op) = <<whole>>
        \/ i /= 0 /\ Updates(s, op) = <<chunk>>
    BY <1>4 DEF Updates, Target
  <2> HIDE DEF i
  <2>3. i \in 1 .. Len(s.messages) => whole \in Wires /\ chunk \in Wires
    <3>1. op.n \in Nat
      BY <1>4 DEF Ops
    <3>2. ASSUME NEW m \in Messages
          PROVE  /\ [WholeMessage(m) EXCEPT !.n = op.n] \in Wires
                 /\ [kind |-> "chunk", key |-> m.key] \in Wires
      BY <3>1 DEF WholeMessage, Messages, Wires
    <3> QED
      BY <3>2, StateParts
  <2> HIDE DEF whole, chunk
  <2>4. CASE Updates(s, op) = <<>>
    BY <1>2, <2>4
  <2>5. CASE i /= 0 /\ Updates(s, op) = <<whole>>
    BY <1>1, <2>1, <2>3, <2>5
  <2>6. CASE i /= 0 /\ Updates(s, op) = <<chunk>>
    BY <1>1, <2>1, <2>3, <2>6
  <2> QED
    BY <2>2, <2>4, <2>5, <2>6
<1>5. CASE op.kind = "reset"
  <2>1. Updates(s, op) = <<Reset>> /\ Reset \in Wires
    BY <1>5 DEF Updates, Reset, Wires
  <2> QED
    BY <1>1, <2>1
<1>6. CASE op.kind = "session"
  <2>1. Updates(s, op) = <<Session(StateUpdate(op.changes))>> /\ op.changes \in Changes
    BY <1>6 DEF Updates, Ops
  <2>2. Session(StateUpdate(op.changes)) \in Wires
    BY <2>1, StateUpdateType DEF Session, Wires
  <2> QED
    BY <1>1, <2>1, <2>2
<1> QED
  BY <1>3, <1>4, <1>5, <1>6 DEF Ops

(* FoldLeft is a recursive function of the sets of indices; it has a value.  By          *)
(* induction on n: a function for 1..n gives one for 1..n + 1.                           *)
Folds(us, n, g) ==
  g = [is \in SUBSET (1 .. n) |->
         IF is = {} THEN Initial ELSE Reduce(g[is \ {Max(is)}], us[Max(is)])]

LEMMA FoldExtends ==
  ASSUME NEW us, NEW n \in Nat, NEW g, Folds(us, n, g)
  PROVE  \E h : Folds(us, n + 1, h)
<1> DEFINE h == [is \in SUBSET (1 .. n + 1) |->
                   IF n + 1 \in is THEN Reduce(g[is \ {n + 1}], us[n + 1]) ELSE g[is]]
<1>1. ASSUME NEW is \in SUBSET (1 .. n + 1)
      PROVE  h[is] = IF is = {} THEN Initial ELSE Reduce(h[is \ {Max(is)}], us[Max(is)])
  <2>1. CASE n + 1 \in is
    <3>1. Max(is) = n + 1
      <4>1. Max(is) \in is /\ \A y \in is : y <= Max(is)
        BY <2>1, MaxIs
      <4>2. Max(is) \in 1 .. n + 1
        BY <4>1
      <4>3. n + 1 <= Max(is)
        BY <2>1, <4>1
      <4> QED
        BY <4>2, <4>3
    <3>2. is \ {n + 1} \in SUBSET (1 .. n + 1) /\ n + 1 \notin is \ {n + 1}
      OBVIOUS
    <3>3. h[is \ {n + 1}] = g[is \ {n + 1}]
      BY <3>2
    <3> QED
      BY <2>1, <3>1, <3>3
  <2>2. CASE n + 1 \notin is
    <3>1. is \in SUBSET (1 .. n)
      BY <2>2
    <3>2. h[is] = g[is]
      BY <2>2
    <3>3. g[is] = IF is = {} THEN Initial ELSE Reduce(g[is \ {Max(is)}], us[Max(is)])
      BY <3>1 DEF Folds
    <3>4. is /= {} => h[is \ {Max(is)}] = g[is \ {Max(is)}]
      BY <2>2, is \ {Max(is)} \in SUBSET (1 .. n + 1)
    <3> QED
      BY <3>2, <3>3, <3>4
  <2> QED
    BY <2>1, <2>2
<1>2. h = [is \in SUBSET (1 .. n + 1) |->
             IF is = {} THEN Initial ELSE Reduce(h[is \ {Max(is)}], us[Max(is)])]
  <2> HIDE DEF h
  <2>1. h = [is \in SUBSET (1 .. n + 1) |-> h[is]]
    BY DEF h
  <2> QED
    BY <1>1, <2>1
<1> QED
  BY <1>2 DEF Folds

LEMMA FoldExists ==
  ASSUME NEW us, NEW n \in Nat
  PROVE  \E g : Folds(us, n, g)
<1> DEFINE T == {k \in Nat : ~\E g : Folds(us, k, g)}
<1>1. SUFFICES ASSUME T /= {}
               PROVE  FALSE
  OBVIOUS
<1>2. PICK k \in T : \A y \in T : k <= y
  BY <1>1, LeastNat
<1>3. k /= 0
  <2>1. Folds(us, 0, [is \in SUBSET (1 .. 0) |-> Initial])
    BY 1 .. 0 = {} DEF Folds
  <2> QED
    BY <2>1
<1>4. k - 1 \in Nat /\ k - 1 \notin T /\ (k - 1) + 1 = k
  BY <1>2, <1>3
<1> QED
  BY <1>4, FoldExtends

(* The states on the way of the fold. *)
LEMMA FoldUnrolls ==
  ASSUME NEW us, NEW n \in Nat, DOMAIN us = 1 .. n
  PROVE  \E f : /\ f[0] = Initial /\ f[n] = FoldLeft(Reduce, Initial, us)
                /\ \A k \in 1 .. n : f[k] = Reduce(f[k - 1], us[k])
<1> DEFINE g == CHOOSE g : Folds(us, n, g)
           f == [k \in 0 .. n |-> g[1 .. k]]
<1>1. Folds(us, n, g)
  BY FoldExists
<1>2. FoldLeft(Reduce, Initial, us) = g[1 .. n]
  BY DEF FoldLeft, MapThenFoldSet, Folds
<1> HIDE DEF g
<1>3. f[0] = Initial
  <2>1. 1 .. 0 = {} /\ {} \in SUBSET (1 .. n)
    OBVIOUS
  <2>2. g[{}] = Initial
    BY <1>1, <2>1 DEF Folds
  <2> QED
    BY <2>1, <2>2
<1>4. ASSUME NEW k \in 1 .. n
      PROVE  f[k] = Reduce(f[k - 1], us[k])
  <2>1. 1 .. k \in SUBSET (1 .. n) /\ k \in 1 .. k
    OBVIOUS
  <2>2. Max(1 .. k) = k
    <3>1. Max(1 .. k) \in 1 .. k /\ \A y \in 1 .. k : y <= Max(1 .. k)
      BY <2>1, MaxIs
    <3> QED
      BY <2>1, <3>1
  <2>3. (1 .. k) \ {k} = 1 .. (k - 1)
    OBVIOUS
  <2>4. g[1 .. k] = Reduce(g[1 .. (k - 1)], us[k])
    BY <1>1, <2>1, <2>2, <2>3 DEF Folds
  <2> QED
    BY <2>4
<1>5. f[n] = FoldLeft(Reduce, Initial, us)
  BY <1>2
<1> HIDE DEF f
<1> QED
  BY <1>3, <1>4, <1>5

(* What the fold of updates reaches is a state: the first one that is not cannot be. *)
LEMMA FoldedStates ==
  ASSUME NEW f, NEW us, NEW n \in Nat, f[0] \in States,
         \A k \in 1 .. n : us[k] \in Wires /\ f[k] = Reduce(f[k - 1], us[k])
  PROVE  \A k \in 0 .. n : f[k] \in States
<1> DEFINE T == {k \in 0 .. n : f[k] \notin States}
<1>1. SUFFICES ASSUME T /= {}
               PROVE  FALSE
  OBVIOUS
<1>2. PICK k \in T : \A y \in T : k <= y
  <2>1. T \in SUBSET Nat
    OBVIOUS
  <2> HIDE DEF T
  <2> QED
    BY <1>1, <2>1, LeastNat
<1>3. k \in 1 .. n /\ k - 1 \in 0 .. n /\ k - 1 \notin T
  BY <1>2
<1>4. f[k - 1] \in States /\ us[k] \in Wires /\ f[k] = Reduce(f[k - 1], us[k])
  BY <1>3
<1> QED
  BY <1>2, <1>4, ReduceType

Rest(s) == StateUpdate([turn |-> s.turn, error |-> s.error, pending |-> s.pending])

LEMMA RestType ==
  ASSUME NEW s \in States
  PROVE  Rest(s) \in Changes
<1>1. [turn |-> s.turn, error |-> s.error, pending |-> s.pending] \in Changes
  BY StateParts DEF Changes
<1> QED
  BY <1>1, StateUpdateType DEF Rest

LEMMA InitialType == Initial \in States
<1>1. <<>> \in Seq(Messages)
  OBVIOUS
<1>2. ASSUME NEW ms \in Seq(Messages)
      PROVE  [messages |-> ms, turn |-> "idle", error |-> FALSE, pending |-> FALSE] \in States
  BY DEF States, Turns
<1> QED
  BY <1>1, <1>2 DEF Initial

LEMMA RebuiltType ==
  ASSUME NEW s \in States
  PROVE  Rebuilt(s) \in States
<1> DEFINE wholes == [i \in DOMAIN s.messages |-> WholeMessage(s.messages[i])]
           n == Len(s.messages)
<1>1. n \in Nat /\ DOMAIN s.messages = 1 .. n
  BY StateParts
<1>2. DOMAIN wholes = 1 .. n /\ \A k \in 1 .. n : wholes[k] \in Wires
  BY <1>1, StateParts, WholeMessageType
<1>3. Rebuilt(s) = Merge(FoldLeft(Reduce, Initial, wholes), Rest(s))
  BY DEF Rebuilt, Rest
<1> HIDE DEF wholes, n
<1>4. PICK f : /\ f[0] = Initial /\ f[n] = FoldLeft(Reduce, Initial, wholes)
               /\ \A k \in 1 .. n : f[k] = Reduce(f[k - 1], wholes[k])
  BY <1>1, <1>2, FoldUnrolls
<1>5. f[n] \in States
  <2>1. \A k \in 1 .. n : wholes[k] \in Wires /\ f[k] = Reduce(f[k - 1], wholes[k])
    BY <1>2, <1>4
  <2>2. \A k \in 0 .. n : f[k] \in States
    BY <1>1, <1>4, <2>1, FoldedStates, InitialType
  <2> QED
    BY <1>1, <2>2
<1> QED
  BY <1>3, <1>4, <1>5, RestType, MergeType

-----------------------------------------------------------------------------
(* The types, and the order of the patches on their way.                    *)

(* The position in the log that a patch or a frame names.                   *)
Pos(p) == start + p.version

(* The positions of the last patch the broadcaster has drained and of the last one the   *)
(* route has served to a viewer.                                                         *)
Drained   == Len(log) - Len(source)
Served(v) == Drained - Len(inbox[v])

(* A log and the patches of it that wait in the host's stream, in order, up to the last.  *)
Queue(l, q) ==
  /\ l \in Seq(States) /\ q \in Seq(Patches)
  /\ start \in 1 .. Len(l) - Len(q)
  /\ \A i \in 1 .. Len(q) : Pos(q[i]) = Len(l) - Len(q) + i

HostType ==
  /\ Queue(log, source) /\ Len(log) <= MaxStates + 1
  /\ session \in Nat /\ created \in Nat /\ restarts \in Nat /\ prompted \in BOOLEAN
  /\ switch \subseteq [by : Viewers, target : Nat, old : Nat]
  /\ reply \in [Viewers -> Nat \union {None}]

BufferType ==
  /\ buffer \in Seq(Patches) /\ Len(buffer) <= BufferSize
  /\ \A i \in 1 .. Len(buffer) : Pos(buffer[i]) <= Drained

StreamType ==
  /\ link \in [Viewers -> {"away", "open"}]
  /\ drops \in [Viewers -> Nat]
  /\ inbox \in [Viewers -> Seq(Patches)]
  /\ served \in [Viewers -> States]
  /\ net \in [Viewers -> Seq(Frames)]

(* A subscription holds the patches after the last one served, up to the last one drained; *)
(* only the first frame of a connection is a state.                                       *)
InOrder(st, len, drained, lk, ib, nt) ==
  /\ lk = "away" => ib = <<>> /\ nt = <<>>
  /\ lk = "open" =>
       /\ st <= drained - Len(ib)
       /\ \A i \in 1 .. Len(ib) : st + ib[i].version = drained - Len(ib) + i
  /\ \A i \in 1 .. Len(nt) : st + nt[i].version <= len
  /\ \A i \in 2 .. Len(nt) : nt[i].kind = "update"

StreamOrder(v) == InOrder(start, Len(log), Drained, link[v], inbox[v], net[v])

ViewType ==
  /\ view \in [Viewers -> [state : States, seen : Nat, known : Nat \union {None}, at : Nat]]
  /\ \A v \in Viewers : view[v].at <= Len(log)

OrderInv ==
  /\ HostType /\ BufferType /\ StreamType /\ ViewType
  /\ \A v \in Viewers : StreamOrder(v)
  /\ WatermarkIsTrue

(* One emission. *)
Extended(l, op)  == Append(l, ApplyPatch(l[Len(l)], op))
Queued(l, q, op) == Append(q, [version |-> Len(l) + 1 - start, op |-> op])

LEMMA QueueKeeps ==
  ASSUME NEW l, NEW q, Queue(l, q), start \in Nat, NEW op \in Ops
  PROVE  /\ Queue(Extended(l, op), Queued(l, q, op))
         /\ Len(Extended(l, op)) = Len(l) + 1 /\ Len(Queued(l, q, op)) = Len(q) + 1
         /\ \A i \in 1 .. Len(l) : Extended(l, op)[i] = l[i]
<1> DEFINE s == ApplyPatch(l[Len(l)], op)
           p == [version |-> Len(l) + 1 - start, op |-> op]
<1>1. l \in Seq(States) /\ q \in Seq(Patches) /\ Len(l) \in Nat \ {0} /\ Len(q) \in Nat
      /\ start <= Len(l) - Len(q)
  BY DEF Queue
<1>2. s \in States
  BY <1>1, ApplyPatchType
<1>3. p \in Patches /\ Pos(p) = Len(l) + 1
  BY <1>1 DEF Patches, Pos
<1>4. Extended(l, op) = Append(l, s) /\ Queued(l, q, op) = Append(q, p)
  BY DEF Extended, Queued
<1> HIDE DEF s, p
<1>5. /\ Append(l, s) \in Seq(States) /\ Len(Append(l, s)) = Len(l) + 1
      /\ \A i \in 1 .. Len(l) : Append(l, s)[i] = l[i]
  BY <1>1, <1>2
<1>6. /\ Append(q, p) \in Seq(Patches) /\ Len(Append(q, p)) = Len(q) + 1
      /\ \A i \in 1 .. Len(q) : Append(q, p)[i] = q[i]
      /\ Append(q, p)[Len(q) + 1] = p
  BY <1>1, <1>3
<1>7. ASSUME NEW i \in 1 .. Len(q) + 1
      PROVE  Pos(Append(q, p)[i]) = Len(l) - Len(q) + i
  <2>1. CASE i = Len(q) + 1
    BY <1>1, <1>3, <1>6, <2>1
  <2>2. CASE i \in 1 .. Len(q)
    BY <1>1, <1>6, <2>2 DEF Queue
  <2> QED
    BY <1>1, <2>1, <2>2
<1> QED
  BY <1>1, <1>4, <1>5, <1>6, <1>7 DEF Queue

(* What the emissions of a handler do, whatever they are. *)
Grown ==
  /\ Queue(log', source') /\ Len(log') <= MaxStates + 1
  /\ Len(log') - Len(source') = Len(log) - Len(source)
  /\ Len(log) <= Len(log')
  /\ \A i \in 1 .. Len(log) : log'[i] = log[i]

LEMMA EmitIs ==
  ASSUME NEW op, Emit(op), HostType
  PROVE  log' = Extended(log, op) /\ source' = Queued(log, source, op)
<1>1. Version + 1 = Len(log) + 1 - start
  BY DEF HostType, Queue, Version
<1> QED
  BY <1>1 DEF Emit, Extended, Queued, host

LEMMA EmitBothIs ==
  ASSUME NEW first \in Ops, NEW second \in Ops, EmitBoth(first, second), HostType
  PROVE  /\ log' = Extended(Extended(log, first), second)
         /\ source' = Queued(Extended(log, first), Queued(log, source, first), second)
<1> DEFINE s == ApplyPatch(host, first)
           t == ApplyPatch(s, second)
           p == [version |-> Version + 1, op |-> first]
           r == [version |-> Version + 2, op |-> second]
<1>1. log \in Seq(States) /\ source \in Seq(Patches) /\ Len(log) \in Nat \ {0} /\ start \in Int
  BY DEF HostType, Queue
<1>2. \A x, y : log \o <<x, y>> = Append(Append(log, x), y)
  BY <1>1
<1>3. \A x, y : source \o <<x, y>> = Append(Append(source, x), y)
  BY <1>1
<1>4. log' = log \o <<s, t>> /\ source' = source \o <<p, r>>
  BY DEF EmitBoth
<1>5. Append(log, s)[Len(Append(log, s))] = s /\ Len(Append(log, s)) = Len(log) + 1
  BY <1>1
<1>6. Version + 1 = Len(log) + 1 - start /\ Version + 2 = Len(Append(log, s)) + 1 - start
  BY <1>1, <1>5 DEF Version
<1>7. log' = Append(Append(log, s), t) /\ source' = Append(Append(source, p), r)
  BY <1>2, <1>3, <1>4
<1> QED
  BY <1>5, <1>6, <1>7 DEF Extended, Queued, host

LEMMA EmitGrows ==
  ASSUME HostType, NEW op \in Ops, Emit(op), start' = start
  PROVE  Grown
<1>1. Queue(log, source) /\ start \in Nat /\ MaxStates \in Nat /\ Len(log) \in Nat
      /\ Len(source) \in Nat
  BY BoundsAssumption DEF HostType, Queue
<1>2. Len(log) + 1 <= MaxStates + 1
  BY <1>1 DEF Emit
<1>3. Queue(log', source') /\ Len(log') = Len(log) + 1 /\ Len(source') = Len(source) + 1
      /\ \A i \in 1 .. Len(log) : log'[i] = log[i]
  BY <1>1, EmitIs, QueueKeeps
<1> QED
  BY <1>1, <1>2, <1>3 DEF Grown

LEMMA EmitBothGrows ==
  ASSUME HostType, NEW first \in Ops, NEW second \in Ops, EmitBoth(first, second),
         start' = start
  PROVE  Grown
<1> DEFINE l == Extended(log, first)
           q == Queued(log, source, first)
<1>1. Queue(log, source) /\ start \in Nat /\ MaxStates \in Nat /\ Len(log) \in Nat
      /\ Len(source) \in Nat
  BY BoundsAssumption DEF HostType, Queue
<1>2. Len(log) + 2 <= MaxStates + 1
  BY <1>1 DEF EmitBoth
<1>3. Queue(l, q) /\ Len(l) = Len(log) + 1 /\ Len(q) = Len(source) + 1
      /\ \A i \in 1 .. Len(log) : l[i] = log[i]
  BY <1>1, QueueKeeps
<1> HIDE DEF l, q
<1>4. log' = Extended(l, second) /\ source' = Queued(l, q, second)
  BY EmitBothIs DEF l, q
<1>5. Queue(log', source') /\ Len(log') = Len(l) + 1 /\ Len(source') = Len(q) + 1
      /\ \A i \in 1 .. Len(l) : log'[i] = l[i]
  <2>1. /\ Queue(Extended(l, second), Queued(l, q, second))
        /\ Len(Extended(l, second)) = Len(l) + 1 /\ Len(Queued(l, q, second)) = Len(q) + 1
        /\ \A i \in 1 .. Len(l) : Extended(l, second)[i] = l[i]
    BY <1>1, <1>3, QueueKeeps
  <2> QED
    BY <1>4, <2>1
<1> QED
  BY <1>1, <1>2, <1>3, <1>5 DEF Grown

(* The viewers do not see that the host has moved on. *)
LEMMA FrameParts ==
  ASSUME NEW f \in Frames
  PROVE  /\ f.version \in Nat
         /\ f.kind \in {"snapshot", "update"}
         /\ f.kind = "snapshot" => f.session \in Nat /\ f.state \in States
         /\ f.kind = "update" => f.update \in Wires
  BY DEF Frames

LEMMA OrderGrows ==
  ASSUME NEW st \in Nat, NEW len \in Nat, NEW l \in Nat, len <= l, NEW drained, NEW lk, NEW ib,
         NEW nt \in Seq(Frames), InOrder(st, len, drained, lk, ib, nt)
  PROVE  InOrder(st, l, drained, lk, ib, nt)
<1>1. ASSUME NEW i \in 1 .. Len(nt)
      PROVE  st + nt[i].version <= l
  <2>1. nt[i] \in Frames
    OBVIOUS
  <2>2. st + nt[i].version <= len /\ nt[i].version \in Nat
    BY <2>1, FrameParts DEF InOrder
  <2> QED
    BY <2>2
<1> QED
  BY <1>1 DEF InOrder

LEMMA GrownKeeps ==
  ASSUME OrderInv, Grown, HostStep,
         session' \in Nat, created' \in Nat, prompted' \in BOOLEAN,
         switch' \subseteq [by : Viewers, target : Nat, old : Nat],
         reply' \in [Viewers -> Nat \union {None}]
  PROVE  OrderInv'
<1> USE DEF HostStep
<1>1. Len(log) \in Nat /\ Len(source) \in Nat /\ Len(log') \in Nat /\ start \in Nat
  BY DEF OrderInv, HostType, Queue, Grown
<1>2. HostType'
  BY DEF OrderInv, HostType, Grown, Queue, Pos
<1>3. BufferType'
  BY DEF OrderInv, BufferType, Grown, Pos, Drained
<1>4. StreamType'
  BY DEF OrderInv, StreamType
<1>5. ViewType'
  <2>1. ASSUME NEW v \in Viewers
        PROVE  view[v].at <= Len(log')
    BY <1>1 DEF OrderInv, ViewType, Grown
  <2> QED
    BY <2>1 DEF OrderInv, ViewType
<1>6. ASSUME NEW v \in Viewers
      PROVE  StreamOrder(v)'
  <2>1. StreamOrder(v) /\ net[v] \in Seq(Frames)
    BY DEF OrderInv, StreamType
  <2>2. Drained' = Drained
    BY DEF Drained, Grown
  <2>3. InOrder(start, Len(log'), Drained, link[v], inbox[v], net[v])
    BY <1>1, <2>1, OrderGrows DEF StreamOrder, Grown
  <2> QED
    BY <2>2, <2>3 DEF StreamOrder
<1>7. WatermarkIsTrue'
  BY DEF OrderInv, WatermarkIsTrue
<1> QED
  BY <1>2, <1>3, <1>4, <1>5, <1>6, <1>7 DEF OrderInv

LEMMA SessionOpType ==
  ASSUME NEW c \in Changes
  PROVE  Session(c) \in Ops
  BY DEF Session, Ops

LEMMA ResetOpType == Reset \in Ops
  BY DEF Reset, Ops

LEMMA TurnChanges ==
  ASSUME NEW t \in Turns, NEW b \in BOOLEAN
  PROVE  /\ [turn |-> t, error |-> b] \in Changes /\ [turn |-> t] \in Changes
         /\ [pending |-> b] \in Changes
  BY DEF Changes

LEMMA AddOpType ==
  ASSUME NEW s \in States, NEW key \in Nat, NEW role \in Roles
  PROVE  AddOp(s, key, role, 1) \in Ops
<1>1. [id |-> Len(s.messages), key |-> key, role |-> role, n |-> 1] \in Messages
  BY StateParts DEF Messages
<1> QED
  BY <1>1 DEF AddOp, Ops

LEMMA MessageOpType ==
  ASSUME NEW m \in Messages
  PROVE  AppendOp(m) \in Ops /\ ToolOp(m) \in Ops
  BY MessageParts DEF AppendOp, ToolOp, Ops

LEMMA HostParts ==
  ASSUME HostType
  PROVE  /\ host \in States /\ Len(log) \in Nat \ {0} /\ log \in Seq(States)
         /\ session \in Nat /\ created \in Nat /\ prompted \in BOOLEAN
         /\ switch \subseteq [by : Viewers, target : Nat, old : Nat]
         /\ reply \in [Viewers -> Nat \union {None}]
         /\ \A m \in Range(host.messages) : m \in Messages
<1>1. log \in Seq(States) /\ Len(log) \in Nat \ {0}
  BY DEF HostType, Queue
<1>2. host \in States
  BY <1>1 DEF host
<1>3. host.messages \in Seq(Messages)
  BY <1>2, StateParts
<1>4. \A m \in Range(host.messages) : m \in Messages
  BY <1>3 DEF Range
<1> QED
  BY <1>1, <1>2, <1>4 DEF HostType

LEMMA PromptStep ==
  ASSUME OrderInv, Prompt
  PROVE  OrderInv'
<1> DEFINE begin   == Session([turn |-> "waiting", error |-> FALSE])
           message == AddOp(host, NoKey, "user", 1)
<1>1. HostType /\ start' = start
  BY DEF OrderInv, Prompt, HostStep
<1>2. begin \in Ops /\ message \in Ops
  <2>1. "waiting" \in Turns /\ FALSE \in BOOLEAN /\ NoKey \in Nat /\ "user" \in Roles
    BY DEF Turns, NoKey, Roles
  <2> QED
    BY <1>1, <2>1, TurnChanges, SessionOpType, AddOpType, HostParts
<1>3. Emit(message) \/ EmitBoth(begin, message)
  BY DEF Prompt
<1> HIDE DEF begin, message
<1>4. Grown
  BY <1>1, <1>2, <1>3, EmitGrows, EmitBothGrows
<1> QED
  BY <1>1, <1>4, HostParts, GrownKeeps DEF Prompt, InSession

LEMMA TurnEndStep ==
  ASSUME OrderInv, NEW failed \in BOOLEAN, TurnEnd(failed)
  PROVE  OrderInv'
<1> DEFINE end == Session([turn |-> "idle", error |-> failed])
<1>1. HostType /\ start' = start
  BY DEF OrderInv, TurnEnd, HostStep
<1>2. end \in Ops
  BY TurnChanges, SessionOpType DEF Turns
<1>3. Emit(end)
  BY DEF TurnEnd
<1> HIDE DEF end
<1>4. Grown
  BY <1>1, <1>2, <1>3, EmitGrows
<1> QED
  BY <1>1, <1>4, HostParts, GrownKeeps DEF TurnEnd, InSession

LEMMA AgentChunkStep ==
  ASSUME OrderInv, NEW key \in ChunkKeys, AgentChunk(key)
  PROVE  OrderInv'
<1> DEFINE i  == Continued(host.messages, key)
           op == IF i = 0 THEN AddOp(host, key, "agent", 1) ELSE AppendOp(host.messages[i])
<1>1. HostType /\ start' = start
  BY DEF OrderInv, AgentChunk, HostStep
<1>2. key \in Nat
  BY <1>1, HostParts, MessageParts DEF ChunkKeys, FreshKey
<1>3. op \in Ops
  <2>1. host \in States /\ host.messages \in Seq(Messages) /\ "agent" \in Roles
    BY <1>1, HostParts, StateParts DEF Roles
  <2>2. i = 0 \/ i \in 1 .. Len(host.messages)
    BY <2>1, ContinuedIndex
  <2>3. i /= 0 => host.messages[i] \in Messages
    BY <2>1, <2>2, StateParts
  <2> HIDE DEF i
  <2> QED
    BY <1>2, <2>1, <2>3, AddOpType, MessageOpType
<1>4. Emit(op)
  BY DEF AgentChunk
<1> HIDE DEF op
<1>5. Grown
  BY <1>1, <1>3, <1>4, EmitGrows
<1> QED
  BY <1>1, <1>5, HostParts, GrownKeeps DEF AgentChunk, InSession

LEMMA AgentToolStep ==
  ASSUME OrderInv, AgentTool
  PROVE  OrderInv'
<1>1. HostType /\ start' = start
  BY DEF OrderInv, AgentTool, HostStep
<1>2. PICK op \in Ops : Emit(op)
  <2>1. AddOp(host, FreshKey, "tool", 1) \in Ops
    BY <1>1, HostParts, AddOpType DEF FreshKey, Roles
  <2>2. \A m \in Range(host.messages) : ToolOp(m) \in Ops
    BY <1>1, HostParts, MessageOpType
  <2> QED
    BY <2>1, <2>2 DEF AgentTool
<1>3. Grown
  BY <1>1, <1>2, EmitGrows
<1> QED
  BY <1>1, <1>3, HostParts, GrownKeeps DEF AgentTool, InSession

LEMMA PendingStep ==
  ASSUME OrderInv, Pending
  PROVE  OrderInv'
<1> DEFINE op == Session([pending |-> ~host.pending])
<1>1. HostType /\ start' = start
  BY DEF OrderInv, Pending, HostStep
<1>2. op \in Ops
  BY TurnChanges, SessionOpType, "idle" \in Turns DEF Turns
<1>3. Emit(op)
  BY DEF Pending
<1> HIDE DEF op
<1>4. Grown
  BY <1>1, <1>2, <1>3, EmitGrows
<1> QED
  BY <1>1, <1>4, HostParts, GrownKeeps DEF Pending, InSession

LEMMA SwitchBeginStep ==
  ASSUME OrderInv, NEW v \in Viewers, NEW target \in Targets, SwitchBegin(v, target)
  PROVE  OrderInv'
<1> DEFINE op == Session([pending |-> FALSE])
           w  == [by |-> v, target |-> target, old |-> session]
<1>1. HostType /\ start' = start
  BY DEF OrderInv, SwitchBegin, HostStep
<1>2. op \in Ops /\ Reset \in Ops
  BY TurnChanges, SessionOpType, ResetOpType, "idle" \in Turns DEF Turns
<1>3. EmitBoth(op, Reset) \/ Emit(Reset)
  BY DEF SwitchBegin
<1> HIDE DEF op
<1>4. Grown
  BY <1>1, <1>2, <1>3, EmitGrows, EmitBothGrows
<1>5. target \in Nat
  BY <1>1, HostParts DEF Targets, Sessions
<1>6. switch' = {w} /\ w \in [by : Viewers, target : Nat, old : Nat]
  BY <1>1, <1>5, HostParts DEF SwitchBegin
<1>7. session' \in Nat
  BY <1>5 DEF SwitchBegin, Switching
<1>8. prompted' \in BOOLEAN /\ created' \in Nat /\ reply' \in [Viewers -> Nat \union {None}]
      /\ HostStep
  BY <1>1, HostParts DEF SwitchBegin
<1> QED
  BY <1>4, <1>6, <1>7, <1>8, GrownKeeps

LEMMA SwitchSucceedsStep ==
  ASSUME OrderInv, SwitchSucceeds
  PROVE  OrderInv'
<1> DEFINE op == Session([turn |-> "idle", error |-> FALSE])
<1>1. HostType /\ start' = start
  BY DEF OrderInv, SwitchSucceeds, HostStep
<1>2. op \in Ops
  BY TurnChanges, SessionOpType DEF Turns
<1>3. Emit(op)
  BY DEF SwitchSucceeds
<1> HIDE DEF op
<1>4. Grown
  BY <1>1, <1>2, <1>3, EmitGrows
<1>5. PICK w \in switch :
        /\ session' = w.target
        /\ created' = IF w.target > created THEN w.target ELSE created
        /\ reply' = [reply EXCEPT ![w.by] = w.target]
  BY DEF SwitchSucceeds
<1>6. w.target \in Nat /\ w.by \in Viewers
  BY <1>1, HostParts
<1>7. reply' \in [Viewers -> Nat \union {None}] /\ created' \in Nat
  BY <1>1, <1>5, <1>6, HostParts
<1>8. switch' = {} /\ prompted' \in BOOLEAN /\ HostStep
  BY <1>1, HostParts DEF SwitchSucceeds
<1> QED
  BY <1>4, <1>5, <1>6, <1>7, <1>8, GrownKeeps

LEMMA SwitchFailsStep ==
  ASSUME OrderInv, SwitchFails
  PROVE  OrderInv'
<1> DEFINE op == Session([turn |-> "idle"])
<1>1. HostType /\ start' = start
  BY DEF OrderInv, SwitchFails, HostStep
<1>2. op \in Ops /\ Reset \in Ops
  BY TurnChanges, SessionOpType, ResetOpType DEF Turns
<1>3. EmitBoth(Reset, op)
  BY DEF SwitchFails
<1> HIDE DEF op
<1>4. Grown
  BY <1>1, <1>2, <1>3, EmitBothGrows
<1>5. session' \in Nat
  BY <1>1, HostParts DEF SwitchFails
<1>6. switch' = {} /\ prompted' \in BOOLEAN /\ created' \in Nat /\ HostStep
      /\ reply' \in [Viewers -> Nat \union {None}]
  BY <1>1, HostParts DEF SwitchFails
<1> QED
  BY <1>4, <1>5, <1>6, GrownKeeps

(* A new host starts from nothing, and its versions are past every watermark.           *)
LEMMA RebuildStep ==
  ASSUME OrderInv, Rebuild
  PROVE  OrderInv'
<1>1. /\ log \in Seq(States) /\ Len(log) \in Nat \ {0} /\ session \in Nat /\ created \in Nat
      /\ restarts \in Nat /\ reply \in [Viewers -> Nat \union {None}] /\ MaxStates \in Nat
      /\ BufferSize \in Nat
  BY BoundsAssumption, HostParts DEF OrderInv, HostType
<1>2. /\ log' \in Seq(States) /\ Len(log') = Len(log) + 1 /\ start' = Len(log')
      /\ Len(log') <= MaxStates + 1
  BY <1>1, InitialType DEF Rebuild
<1>3. source' = <<>> /\ buffer' = <<>> /\ <<>> \in Seq(Patches) /\ Len(<<>>) = 0
  BY DEF Rebuild
<1>4. HostType'
  <2>1. Queue(log, source)'
    BY <1>1, <1>2, <1>3 DEF Queue
  <2>2. session' \in Nat /\ created' \in Nat /\ restarts' \in Nat
    BY <1>1 DEF Rebuild
  <2>3. switch' = {} /\ prompted' \in BOOLEAN /\ reply' = reply
    BY DEF Rebuild
  <2> QED
    BY <1>1, <1>2, <2>1, <2>2, <2>3 DEF HostType
<1>5. BufferType'
  BY <1>1, <1>3 DEF BufferType
<1>6. <<>> \in Seq(Frames)
  OBVIOUS
<1>7. StreamType'
  BY <1>3, <1>6, InitialType DEF OrderInv, StreamType, Rebuild
<1>8. ASSUME NEW v \in Viewers
      PROVE  view'[v].at \in Nat /\ view'[v].at < start'
  BY <1>1, <1>2 DEF OrderInv, ViewType, Rebuild
<1>9. ViewType'
  BY <1>2, <1>8 DEF OrderInv, ViewType, Rebuild
<1>10. ASSUME NEW v \in Viewers
       PROVE  StreamOrder(v)'
  <2>1. inbox'[v] = <<>> /\ net'[v] = <<>> /\ link'[v] = "away" /\ Len(<<>>) = 0
    BY DEF Rebuild
  <2> QED
    BY <2>1 DEF StreamOrder, InOrder
<1>11. WatermarkIsTrue'
  BY <1>2, <1>8 DEF WatermarkIsTrue
<1> QED
  BY <1>4, <1>5, <1>7, <1>9, <1>10, <1>11 DEF OrderInv

LEMMA OrderDispatched ==
  ASSUME NEW st \in Nat, NEW len, NEW drained \in Nat, NEW ib \in Seq(Patches), NEW nt,
         InOrder(st, len, drained, "open", ib, nt),
         NEW p \in Patches, st + p.version = drained + 1
  PROVE  InOrder(st, len, drained + 1, "open", Append(ib, p), nt)
<1>1. /\ Len(Append(ib, p)) = Len(ib) + 1 /\ Len(ib) \in Nat
      /\ \A i \in 1 .. Len(ib) : Append(ib, p)[i] = ib[i]
      /\ Append(ib, p)[Len(ib) + 1] = p
  OBVIOUS
<1>2. ASSUME NEW i \in 1 .. Len(ib) + 1
      PROVE  st + Append(ib, p)[i].version = drained + 1 - (Len(ib) + 1) + i
  <2>1. CASE i \in 1 .. Len(ib)
    BY <1>1, <2>1 DEF InOrder
  <2>2. CASE i = Len(ib) + 1
    BY <1>1, <2>2
  <2> QED
    BY <1>1, <2>1, <2>2
<1>3. st <= drained + 1 - (Len(ib) + 1)
  BY <1>1 DEF InOrder
<1> QED
  BY <1>1, <1>2, <1>3 DEF InOrder

(* The next patch of the host goes to the end of every subscription.                     *)
LEMMA DispatchStep ==
  ASSUME OrderInv, Dispatch
  PROVE  OrderInv'
<1> PICK p : p = Head(source)
  OBVIOUS
<1>1. /\ log \in Seq(States) /\ source \in Seq(Patches) /\ source /= <<>>
      /\ start \in 1 .. Drained /\ Len(log) \in Nat
      /\ log' = log /\ start' = start /\ source' = Tail(source)
  BY DEF OrderInv, HostType, Queue, Dispatch, hostVars, Drained
<1>2. /\ Len(source) \in Nat \ {0} /\ Tail(source) \in Seq(Patches)
      /\ Len(Tail(source)) = Len(source) - 1
      /\ \A i \in 1 .. Len(source) - 1 : Tail(source)[i] = source[i + 1]
      /\ p \in Patches /\ p = source[1]
  BY <1>1
<1>3. Pos(p) = Drained + 1 /\ Drained' = Drained + 1 /\ Drained \in Nat
  <2>1. Queue(log, source)
    BY DEF OrderInv, HostType
  <2> QED
    BY <1>1, <1>2, <2>1 DEF Queue, Drained
<1>4. HostType'
  <2>1. Queue(log, source)'
    BY <1>1, <1>2 DEF OrderInv, HostType, Queue, Pos
  <2> QED
    BY <2>1 DEF OrderInv, HostType, Dispatch, hostVars, viewerVars
<1>5. BufferType'
  <2> DEFINE b == Append(buffer, p)
  <2>1. buffer \in Seq(Patches) /\ Len(buffer) <= BufferSize /\ BufferSize \in Nat
        /\ Len(buffer) \in Nat
    BY BoundsAssumption DEF OrderInv, BufferType
  <2>2. b \in Seq(Patches) /\ Len(b) = Len(buffer) + 1 /\ Len(b) \in Nat
        /\ \A i \in 1 .. Len(b) : b[i] = IF i <= Len(buffer) THEN buffer[i] ELSE p
    BY <1>2, <2>1
  <2>3. ASSUME NEW i \in 1 .. Len(b)
        PROVE  Pos(b[i]) <= Drained'
    <3>1. CASE i <= Len(buffer)
      <4>1. i \in 1 .. Len(buffer) /\ b[i] = buffer[i] /\ buffer[i] \in Patches
        BY <2>1, <2>2, <3>1
      <4>2. Pos(buffer[i]) \in Int /\ Pos(buffer[i]) <= Drained
        BY <1>1, <4>1 DEF OrderInv, BufferType, Pos, Patches
      <4> QED
        BY <1>3, <4>1, <4>2
    <3>2. CASE i > Len(buffer)
      BY <1>3, <2>1, <2>2, <3>2
    <3> QED
      BY <2>1, <3>1, <3>2
  <2>4. buffer' = Keep(b)
    BY DEF Dispatch
  <2> HIDE DEF b
  <2>5. \/ buffer' = SubSeq(b, 1, Len(b)) /\ Len(b) <= BufferSize
        \/ buffer' = SubSeq(b, 2, Len(b))
    BY <2>1, <2>2, <2>4 DEF Keep
  <2>6. buffer' \in Seq(Patches) /\ Len(buffer') <= BufferSize
    <3>1. SubSeq(b, 1, Len(b)) \in Seq(Patches) /\ Len(SubSeq(b, 1, Len(b))) = Len(b)
      BY <2>2
    <3>2. SubSeq(b, 2, Len(b)) \in Seq(Patches) /\ Len(SubSeq(b, 2, Len(b))) = Len(buffer)
      BY <2>1, <2>2
    <3> QED
      BY <2>1, <2>5, <3>1, <3>2
  <2>7. ASSUME NEW i \in 1 .. Len(buffer')
        PROVE  \E j \in 1 .. Len(b) : buffer'[i] = b[j]
    <3>1. CASE buffer' = SubSeq(b, 1, Len(b))
      BY <2>2, <3>1
    <3>2. CASE buffer' = SubSeq(b, 2, Len(b))
      <4>1. i + 1 \in 1 .. Len(b) /\ buffer'[i] = b[i + 1]
        BY <2>2, <3>2
      <4> QED
        BY <4>1
    <3> QED
      BY <2>5, <3>1, <3>2
  <2>8. \A i \in 1 .. Len(buffer') : Pos(buffer'[i]) <= Drained'
    BY <2>3, <2>7 DEF Pos
  <2> QED
    BY <1>1, <2>6, <2>8 DEF BufferType, Pos
<1>6. inbox' = [v \in Viewers |-> IF Subscribed(v) THEN Append(inbox[v], p) ELSE inbox[v]]
      /\ UNCHANGED <<served, link, net, drops, view, reply>>
  BY DEF Dispatch, viewerVars
<1>7. StreamType'
  BY <1>2, <1>6 DEF OrderInv, StreamType
<1>8. ViewType' /\ WatermarkIsTrue'
  BY <1>1, <1>6 DEF OrderInv, ViewType, WatermarkIsTrue
<1>9. ASSUME NEW v \in Viewers
      PROVE  StreamOrder(v)'
  <2>1. StreamOrder(v) /\ inbox[v] \in Seq(Patches) /\ link[v] \in {"away", "open"}
        /\ Len(inbox[v]) \in Nat
    BY DEF OrderInv, StreamType
  <2>2. CASE link[v] = "away"
    BY <1>1, <1>6, <2>1, <2>2 DEF StreamOrder, InOrder, Subscribed
  <2>3. CASE link[v] = "open"
    <3>1. inbox'[v] = Append(inbox[v], p) /\ link'[v] = "open" /\ net'[v] = net[v]
      BY <1>6, <2>3 DEF Subscribed
    <3>2. InOrder(start, Len(log), Drained + 1, "open", Append(inbox[v], p), net[v])
      <4>1. InOrder(start, Len(log), Drained, "open", inbox[v], net[v])
        BY <2>1, <2>3 DEF StreamOrder
      <4>2. start \in Nat /\ start + p.version = Drained + 1
        BY <1>1, <1>3 DEF Pos
      <4> QED
        BY <1>2, <1>3, <2>1, <4>1, <4>2, OrderDispatched
    <3> QED
      BY <1>1, <1>3, <3>1, <3>2 DEF StreamOrder
  <2> QED
    BY <2>1, <2>2, <2>3
<1> QED
  BY <1>4, <1>5, <1>7, <1>8, <1>9 DEF OrderInv

(* A step of one viewer's connection leaves the host and the other viewers alone.        *)
LEMMA OneViewerKeeps ==
  ASSUME OrderInv, NEW v \in Viewers, UNCHANGED <<hostVars, source, buffer>>,
         StreamType', ViewType', WatermarkIsTrue', StreamOrder(v)',
         reply' \in [Viewers -> Nat \union {None}],
         \A w \in Viewers \ {v} :
           link'[w] = link[w] /\ inbox'[w] = inbox[w] /\ net'[w] = net[w]
  PROVE  OrderInv'
<1>1. UNCHANGED <<log, start, session, created, switch, prompted, restarts, source, buffer>>
  BY DEF hostVars
<1>2. HostType'
  BY <1>1 DEF OrderInv, HostType, Queue, Pos
<1>3. BufferType'
  BY <1>1 DEF OrderInv, BufferType, Pos, Drained
<1>4. ASSUME NEW w \in Viewers
      PROVE  StreamOrder(w)'
  <2>1. CASE w /= v
    <3>1. link'[w] = link[w] /\ inbox'[w] = inbox[w] /\ net'[w] = net[w]
      BY <2>1
    <3>2. StreamOrder(w) /\ Drained' = Drained
      BY <1>1 DEF OrderInv, Drained
    <3> QED
      BY <1>1, <3>1, <3>2 DEF StreamOrder
  <2> QED
    BY <2>1
<1> QED
  BY <1>2, <1>3, <1>4 DEF OrderInv

LEMMA OrderParts ==
  ASSUME OrderInv, NEW v \in Viewers
  PROVE  /\ link[v] \in {"away", "open"} /\ drops[v] \in Nat
         /\ inbox[v] \in Seq(Patches) /\ net[v] \in Seq(Frames) /\ served[v] \in States
         /\ view[v].at \in Nat /\ view[v].seen \in Nat /\ view[v].state \in States
         /\ view[v].known \in Nat \union {None} /\ view[v].at <= Len(log)
         /\ log \in Seq(States) /\ Len(log) \in Nat \ {0} /\ host \in States
         /\ start \in 1 .. Drained /\ Drained \in Nat /\ Drained <= Len(log)
         /\ StreamOrder(v)
  BY HostParts DEF OrderInv, HostType, Queue, StreamType, ViewType, Drained

(* Nothing in the buffer is later than the state, so a new subscription starts empty.    *)
LEMMA ReplayEmpty ==
  ASSUME OrderInv
  PROVE  Replay(buffer, Version) = <<>>
<1>1. log \in Seq(States) /\ source \in Seq(Patches) /\ start \in Nat /\ buffer \in Seq(Patches)
  BY DEF OrderInv, HostType, Queue, BufferType
<1>2. Version \in Int /\ Version = Len(log) - start /\ Drained <= Len(log) /\ Drained \in Int
  BY <1>1 DEF Version, Drained
<1>3. ASSUME NEW j \in 1 .. Len(buffer), buffer[j].version > Version
      PROVE  FALSE
  <2>1. buffer[j] \in Patches
    BY <1>1
  <2>2. buffer[j].version \in Nat
    BY <2>1 DEF Patches
  <2>3. start + buffer[j].version <= Drained
    BY DEF OrderInv, BufferType, Pos
  <2> QED
    BY <1>1, <1>2, <1>3, <2>2, <2>3
<1> QED
  BY <1>1, <1>3, ReplayIs

LEMMA ConnectStep ==
  ASSUME OrderInv, NEW v \in Viewers, Connect(v)
  PROVE  OrderInv'
<1> DEFINE f == [kind |-> "snapshot", version |-> Version, session |-> session, state |-> host]
<1>1. f \in Frames /\ Pos(f) = Len(log) /\ Len(log) \in Nat
  <2>1. Version \in Nat /\ start + Version = Len(log) /\ session \in Nat /\ Len(log) \in Nat
    BY OrderParts DEF Version, OrderInv, HostType
  <2> QED
    BY <2>1, OrderParts DEF Frames, Pos
<1>2. <<f>> \in Seq(Frames) /\ Len(<<f>>) = 1 /\ <<f>>[1] = f
  BY <1>1
<1>3. /\ link' = [link EXCEPT ![v] = "open"] /\ inbox' = [inbox EXCEPT ![v] = <<>>]
      /\ served' = [served EXCEPT ![v] = host] /\ net' = [net EXCEPT ![v] = <<f>>]
      /\ UNCHANGED <<hostVars, source, buffer, drops, view, reply>>
  BY ReplayEmpty DEF Connect, viewerVars
<1> HIDE DEF f
<1>4. StreamType'
  BY <1>2, <1>3, OrderParts DEF OrderInv, StreamType
<1>5. UNCHANGED <<log, start, source>>
  BY <1>3 DEF hostVars
<1>6. ViewType' /\ WatermarkIsTrue'
  BY <1>3, <1>5 DEF OrderInv, ViewType, WatermarkIsTrue
<1>7. StreamOrder(v)'
  <2>1. link'[v] = "open" /\ inbox'[v] = <<>> /\ net'[v] = <<f>> /\ Len(<<>>) = 0
    BY <1>3 DEF OrderInv, StreamType
  <2>2. InOrder(start, Len(log), Drained, "open", <<>>, <<f>>)
    BY <1>1, <1>2, <2>1, OrderParts DEF InOrder, Pos
  <2> QED
    BY <1>5, <2>1, <2>2 DEF StreamOrder, Drained
<1>8. reply' \in [Viewers -> Nat \union {None}]
  BY <1>3 DEF OrderInv, HostType
<1> QED
  BY <1>3, <1>4, <1>6, <1>7, <1>8, OneViewerKeeps DEF OrderInv, StreamType

LEMMA DropStep ==
  ASSUME OrderInv, NEW v \in Viewers, Drop(v)
  PROVE  OrderInv'
<1>1. /\ link' = [link EXCEPT ![v] = "away"] /\ inbox' = [inbox EXCEPT ![v] = <<>>]
      /\ drops' = [drops EXCEPT ![v] = @ + 1]
      /\ served' = [served EXCEPT ![v] = Initial] /\ net' = [net EXCEPT ![v] = <<>>]
      /\ UNCHANGED <<hostVars, source, buffer, view, reply>>
  BY DEF Drop, viewerVars
<1>2. UNCHANGED <<log, start, source>>
  BY <1>1 DEF hostVars
<1>3. <<>> \in Seq(Frames) /\ <<>> \in Seq(Patches) /\ Len(<<>>) = 0
  OBVIOUS
<1>4. StreamType'
  BY <1>1, <1>3, InitialType DEF OrderInv, StreamType
<1>5. ViewType' /\ WatermarkIsTrue'
  BY <1>1, <1>2 DEF OrderInv, ViewType, WatermarkIsTrue
<1>6. StreamOrder(v)'
  <2>1. link'[v] = "away" /\ inbox'[v] = <<>> /\ net'[v] = <<>>
    BY <1>1 DEF OrderInv, StreamType
  <2> QED
    BY <1>3, <2>1 DEF StreamOrder, InOrder
<1>7. reply' \in [Viewers -> Nat \union {None}]
  BY <1>1 DEF OrderInv, HostType
<1> QED
  BY <1>1, <1>4, <1>5, <1>6, <1>7, OneViewerKeeps DEF OrderInv, StreamType

(* What the route writes when it serves a patch: nothing, or one frame of its version.   *)
Framed(p, u) == [kind |-> "update", version |-> p.version, update |-> u]
Written(p, us) == [i \in DOMAIN us |-> Framed(p, us[i])]

LEMMA FramedParts ==
  ASSUME NEW p, NEW u
  PROVE  /\ Framed(p, u).kind = "update" /\ Framed(p, u).version = p.version
         /\ Framed(p, u).update = u
  BY DEF Framed

LEMMA WrittenType ==
  ASSUME NEW p \in Patches, NEW us \in Seq(Wires), Len(us) \in 0 .. 1
  PROVE  /\ Written(p, us) \in Seq(Frames) /\ Len(Written(p, us)) = Len(us)
         /\ \A i \in 1 .. Len(us) : Written(p, us)[i] = Framed(p, us[i])
<1>1. DOMAIN us = 1 .. Len(us) /\ Len(us) \in Nat
  OBVIOUS
<1>2. ASSUME NEW i \in 1 .. Len(us)
      PROVE  Framed(p, us[i]) \in Frames
  <2>1. us[i] \in Wires /\ p.version \in Nat
    BY DEF Patches
  <2> QED
    BY <2>1 DEF Framed, Frames
<1>3. Written(p, us) = [i \in 1 .. Len(us) |-> Framed(p, us[i])]
  BY <1>1 DEF Written
<1> QED
  BY <1>1, <1>2, <1>3

LEMMA OrderServed ==
  ASSUME NEW st \in Nat, NEW len \in Nat, NEW drained \in Nat, drained <= len,
         NEW ib \in Seq(Patches), NEW nt \in Seq(Frames), Len(ib) > 0,
         InOrder(st, len, drained, "open", ib, nt),
         NEW us \in Seq(Wires), Len(us) \in 0 .. 1
  PROVE  InOrder(st, len, drained, "open", Tail(ib), nt \o Written(ib[1], us))
<1>0. PICK ws : ws = Written(ib[1], us)
  OBVIOUS
<1>1. /\ Len(ib) \in Nat \ {0} /\ ib[1] \in Patches /\ Len(Tail(ib)) = Len(ib) - 1
      /\ \A i \in 1 .. Len(ib) - 1 : Tail(ib)[i] = ib[i + 1]
      /\ Len(nt) \in Nat
  OBVIOUS
<1>2. /\ ws \in Seq(Frames) /\ Len(ws) = Len(us)
      /\ \A i \in 1 .. Len(us) : ws[i] = Framed(ib[1], us[i])
  BY <1>0, <1>1, WrittenType
<1>3. ASSUME NEW i \in 1 .. Len(ws)
      PROVE  ws[i].kind = "update" /\ st + ws[i].version = drained - Len(ib) + 1
  <2>1. st + ib[1].version = drained - Len(ib) + 1
    BY <1>1 DEF InOrder
  <2>2. ws[i] = Framed(ib[1], us[i])
    BY <1>2
  <2> QED
    BY <2>1, <2>2 DEF Framed
<1>4. /\ Len(nt \o ws) = Len(nt) + Len(ws)
      /\ \A i \in 1 .. Len(nt) : (nt \o ws)[i] = nt[i]
      /\ \A i \in Len(nt) + 1 .. Len(nt \o ws) :
           i - Len(nt) \in 1 .. Len(ws) /\ (nt \o ws)[i] = ws[i - Len(nt)]
  <2>1. Len(ws) \in Nat
    BY <1>2
  <2>2. /\ Len(nt \o ws) = Len(nt) + Len(ws)
        /\ \A i \in 1 .. Len(nt) + Len(ws) :
             (nt \o ws)[i] = IF i <= Len(nt) THEN nt[i] ELSE ws[i - Len(nt)]
    BY <1>2, ConcatProperties
  <2> QED
    BY <1>1, <2>1, <2>2
<1>5. ASSUME NEW i \in 1 .. Len(nt \o ws)
      PROVE  /\ st + (nt \o ws)[i].version <= len
             /\ i > 1 => (nt \o ws)[i].kind = "update"
  <2>1. CASE i \in 1 .. Len(nt)
    BY <1>4, <2>1 DEF InOrder
  <2>2. CASE i \in Len(nt) + 1 .. Len(nt \o ws)
    BY <1>1, <1>3, <1>4, <2>2
  <2> QED
    BY <1>1, <1>4, <2>1, <2>2
<1>6. ASSUME NEW i \in 1 .. Len(Tail(ib))
      PROVE  st + Tail(ib)[i].version = drained - Len(Tail(ib)) + i
  <2>1. Tail(ib)[i] = ib[i + 1] /\ i + 1 \in 1 .. Len(ib)
    BY <1>1
  <2>2. st + ib[i + 1].version = drained - Len(ib) + (i + 1)
    BY <2>1 DEF InOrder
  <2> QED
    BY <1>1, <2>1, <2>2
<1>7. st <= drained - Len(Tail(ib))
  BY <1>1 DEF InOrder
<1>8. InOrder(st, len, drained, "open", Tail(ib), nt \o ws)
  <2>1. Len(nt \o ws) \in Nat
    BY <1>1, <1>2, <1>4
  <2>2. \A i \in 2 .. Len(nt \o ws) : (nt \o ws)[i].kind = "update"
    BY <1>5, <2>1
  <2>3. \A i \in 1 .. Len(nt \o ws) : st + (nt \o ws)[i].version <= len
    BY <1>5
  <2> QED
    BY <1>6, <1>7, <2>2, <2>3 DEF InOrder
<1> QED
  BY <1>0, <1>8

(* A frame that is taken leaves the others in order. *)
LEMMA OrderTaken ==
  ASSUME NEW st, NEW len, NEW drained, NEW lk, NEW ib, NEW nt \in Seq(Frames), nt /= <<>>,
         InOrder(st, len, drained, lk, ib, nt)
  PROVE  InOrder(st, len, drained, lk, ib, Tail(nt)) /\ lk /= "away"
<1>1. Len(Tail(nt)) = Len(nt) - 1 /\ Len(nt) \in Nat \ {0}
      /\ \A i \in 1 .. Len(nt) - 1 : Tail(nt)[i] = nt[i + 1]
  OBVIOUS
<1>2. \A i \in 1 .. Len(Tail(nt)) : i + 1 \in 2 .. Len(nt) /\ Tail(nt)[i] = nt[i + 1]
  BY <1>1
<1> QED
  BY <1>1, <1>2 DEF InOrder

LEMMA ServeIs ==
  ASSUME OrderInv, NEW v \in Viewers, Serve(v)
  PROVE  \E p, after, us :
           /\ p = inbox[v][1] /\ after = ApplyPatch(served[v], p.op) /\ us = Updates(after, p.op)
           /\ p \in Patches /\ p.op \in Ops /\ after \in States
           /\ us \in Seq(Wires) /\ Len(us) \in 0 .. 1
           /\ Len(inbox[v]) > 0 /\ link[v] = "open"
           /\ served' = [served EXCEPT ![v] = after]
           /\ net' = [net EXCEPT ![v] = net[v] \o Written(p, us)]
           /\ inbox' = [inbox EXCEPT ![v] = Tail(inbox[v])]
           /\ UNCHANGED <<hostVars, source, buffer, link, drops, view, reply>>
<1> DEFINE p     == inbox[v][1]
           after == ApplyPatch(served[v], p.op)
           us    == Updates(after, p.op)
<1>1. inbox[v] \in Seq(Patches) /\ served[v] \in States /\ inbox[v] /= <<>>
  BY OrderParts DEF Serve
<1>2. p \in Patches /\ Head(inbox[v]) = p /\ Len(inbox[v]) > 0
  BY <1>1
<1>3. p.op \in Ops
  BY <1>2 DEF Patches
<1>4. after \in States
  BY <1>1, <1>3, ApplyPatchType
<1>5. us \in Seq(Wires) /\ Len(us) \in 0 .. 1
  BY <1>3, <1>4, UpdatesType
<1>6. link[v] = "open"
  BY <1>1, OrderParts DEF StreamOrder, InOrder
<1>7. /\ served' = [served EXCEPT ![v] = after]
      /\ net' = [net EXCEPT ![v] = net[v] \o Written(p, us)]
      /\ inbox' = [inbox EXCEPT ![v] = Tail(inbox[v])]
      /\ UNCHANGED <<hostVars, source, buffer, link, drops, view, reply>>
  BY <1>2 DEF Serve, Written, Framed, viewerVars
<1> HIDE DEF p, after, us
<1>8. p = inbox[v][1] /\ after = ApplyPatch(served[v], p.op) /\ us = Updates(after, p.op)
  BY DEF p, after, us
<1> QED
  BY <1>2, <1>3, <1>4, <1>5, <1>6, <1>7, <1>8

LEMMA ServeStep ==
  ASSUME OrderInv, NEW v \in Viewers, Serve(v)
  PROVE  OrderInv'
<1>1. PICK p, after, us :
           /\ p = inbox[v][1] /\ after = ApplyPatch(served[v], p.op) /\ us = Updates(after, p.op)
           /\ p \in Patches /\ p.op \in Ops /\ after \in States
           /\ us \in Seq(Wires) /\ Len(us) \in 0 .. 1
           /\ Len(inbox[v]) > 0 /\ link[v] = "open"
           /\ served' = [served EXCEPT ![v] = after]
           /\ net' = [net EXCEPT ![v] = net[v] \o Written(p, us)]
           /\ inbox' = [inbox EXCEPT ![v] = Tail(inbox[v])]
           /\ UNCHANGED <<hostVars, source, buffer, link, drops, view, reply>>
  BY ServeIs
<1>2. UNCHANGED <<log, start, source>> /\ Drained' = Drained
  BY <1>1 DEF hostVars, Drained
<1>3. inbox[v] \in Seq(Patches) /\ net[v] \in Seq(Frames) /\ StreamOrder(v)
      /\ Len(log) \in Nat /\ start \in Nat /\ Drained \in Nat /\ Drained <= Len(log)
  BY OrderParts
<1>4. Tail(inbox[v]) \in Seq(Patches)
  BY <1>1, <1>3
<1>5. net[v] \o Written(p, us) \in Seq(Frames)
  BY <1>1, <1>3, WrittenType
<1>6. StreamType'
  BY <1>1, <1>4, <1>5 DEF OrderInv, StreamType
<1>7. ViewType' /\ WatermarkIsTrue'
  BY <1>1, <1>2 DEF OrderInv, ViewType, WatermarkIsTrue
<1>8. StreamOrder(v)'
  <2>1. inbox'[v] = Tail(inbox[v]) /\ net'[v] = net[v] \o Written(p, us) /\ link'[v] = "open"
    BY <1>1 DEF OrderInv, StreamType
  <2>2. InOrder(start, Len(log), Drained, "open", Tail(inbox[v]), net[v] \o Written(p, us))
    BY <1>1, <1>3, OrderServed DEF StreamOrder
  <2> QED
    BY <1>2, <2>1, <2>2 DEF StreamOrder
<1>9. reply' \in [Viewers -> Nat \union {None}]
  BY <1>1 DEF OrderInv, HostType
<1> QED
  BY <1>1, <1>6, <1>7, <1>8, <1>9, OneViewerKeeps DEF OrderInv, StreamType

LEMMA ArrivesIs ==
  ASSUME OrderInv, NEW v \in Viewers, NEW kind, Arrives(v, kind)
  PROVE  /\ net[v] \in Seq(Frames) /\ Len(net[v]) > 0 /\ Head(net[v]) = net[v][1]
         /\ net[v][1] \in Frames /\ net[v][1].kind = kind
         /\ net' = [net EXCEPT ![v] = Tail(net[v])] /\ Tail(net[v]) \in Seq(Frames)
         /\ net'[v] = Tail(net[v]) /\ Len(Tail(net[v])) = Len(net[v]) - 1
         /\ \A i \in 1 .. Len(net[v]) - 1 : Tail(net[v])[i] = net[v][i + 1]
         /\ UNCHANGED <<log, start, session, created, switch, prompted, restarts,
                        source, buffer, inbox, served, link, drops, reply>>
         /\ link[v] = "open"
<1>1. net[v] \in Seq(Frames) /\ net[v] /= <<>> /\ Head(net[v]).kind = kind
      /\ net' = [net EXCEPT ![v] = Tail(net[v])]
  BY OrderParts DEF Arrives
<1>2. net'[v] = Tail(net[v])
  BY <1>1 DEF OrderInv, StreamType
<1>3. link[v] = "open"
  BY <1>1, OrderParts, OrderTaken DEF StreamOrder
<1> QED
  BY <1>1, <1>2, <1>3 DEF Arrives, hostVars, serverVars

(* What a viewer shows after a frame is at the frame's position, and the frame's version *)
(* is its watermark.                                                                     *)
LEMMA ViewMoves ==
  ASSUME OrderInv, NEW v \in Viewers, NEW kind, Arrives(v, kind),
         NEW r \in [state : States, seen : Nat, known : Nat \union {None}, at : Nat],
         r = view[v] \/ (r.seen = net[v][1].version /\ r.at = start + net[v][1].version),
         view' = [view EXCEPT ![v] = r]
  PROVE  OrderInv'
<1>1. /\ net[v] \in Seq(Frames) /\ Len(net[v]) > 0 /\ net[v][1] \in Frames
      /\ net' = [net EXCEPT ![v] = Tail(net[v])] /\ Tail(net[v]) \in Seq(Frames)
      /\ net'[v] = Tail(net[v]) 
      /\ UNCHANGED <<log, start, session, created, switch, prompted, restarts,
                     source, buffer, inbox, served, link, drops, reply>>
  BY ArrivesIs
<1>2. StreamType'
  BY <1>1 DEF OrderInv, StreamType
<1>3. start + net[v][1].version <= Len(log) /\ net[v][1].version \in Nat /\ start \in Nat
      /\ Len(log) \in Nat
  BY <1>1, OrderParts, FrameParts DEF StreamOrder, InOrder
<1>4. r.at <= Len(log) /\ (r.at >= start => r.seen = r.at - start)
  <2>1. CASE r = view[v]
    BY <2>1, OrderParts DEF OrderInv, WatermarkIsTrue
  <2>2. CASE r.seen = net[v][1].version /\ r.at = start + net[v][1].version
    BY <1>3, <2>2
  <2> QED
    BY <2>1, <2>2
<1>5. view'[v] = r /\ \A w \in Viewers \ {v} : view'[w] = view[w]
  BY DEF OrderInv, ViewType
<1>6. ViewType'
  BY <1>1, <1>4, <1>5 DEF OrderInv, ViewType
<1>7. WatermarkIsTrue'
  <2>1. ASSUME NEW w \in Viewers
        PROVE  view'[w].at >= start => view'[w].seen = view'[w].at - start
    BY <1>4, <1>5 DEF OrderInv, WatermarkIsTrue
  <2> QED
    BY <1>1, <2>1 DEF WatermarkIsTrue
<1>8. StreamOrder(v)'
  <2>1. InOrder(start, Len(log), Drained, link[v], inbox[v], Tail(net[v]))
    BY <1>1, OrderParts, OrderTaken DEF StreamOrder
  <2> QED
    BY <1>1, <2>1 DEF StreamOrder, Drained
<1>9. reply' \in [Viewers -> Nat \union {None}]
  BY <1>1 DEF OrderInv, HostType
<1>10. UNCHANGED <<hostVars, source, buffer>>
  BY <1>1 DEF hostVars
<1>11. \A w \in Viewers \ {v} : link'[w] = link[w] /\ inbox'[w] = inbox[w] /\ net'[w] = net[w]
  BY <1>1 DEF OrderInv, StreamType
<1> QED
  BY <1>2, <1>6, <1>7, <1>8, <1>9, <1>10, <1>11, OneViewerKeeps

LEMMA TakeSnapshotStep ==
  ASSUME OrderInv, NEW v \in Viewers, TakeSnapshot(v)
  PROVE  OrderInv'
<1> DEFINE f == net[v][1]
           r == IF NothingMissed(v, f) THEN view[v] ELSE Replaced(f)
<1>1. Arrives(v, "snapshot") /\ f \in Frames /\ f.kind = "snapshot" /\ Head(net[v]) = f
  BY ArrivesIs DEF TakeSnapshot
<1>2. /\ view \in [Viewers -> [state : States, seen : Nat, known : Nat \union {None}, at : Nat]]
      /\ start \in Nat
  BY OrderParts DEF OrderInv, ViewType
<1>3. view' = [view EXCEPT ![v] = r]
  BY <1>1, <1>2 DEF TakeSnapshot
<1>4. Replaced(f) \in [state : States, seen : Nat, known : Nat \union {None}, at : Nat]
  <2>1. f.version \in Nat /\ f.session \in Nat /\ Rebuilt(f.state) \in States
    BY <1>1, FrameParts, RebuiltType
  <2> QED
    BY <1>2, <2>1 DEF Replaced
<1>5. r \in [state : States, seen : Nat, known : Nat \union {None}, at : Nat]
  BY <1>2, <1>4
<1>6. r = view[v] \/ (r.seen = f.version /\ r.at = start + f.version)
  BY DEF Replaced
<1> HIDE DEF r
<1> QED
  BY <1>1, <1>3, <1>5, <1>6, ViewMoves

LEMMA TakeUpdateStep ==
  ASSUME OrderInv, NEW v \in Viewers, TakeUpdate(v)
  PROVE  OrderInv'
<1> DEFINE f == net[v][1]
           moved == [view[v] EXCEPT !.state = Reduce(@, f.update), !.seen = f.version,
                                    !.at = start + f.version]
           r == IF Stale(v, f) THEN view[v] ELSE moved
<1>1. Arrives(v, "update") /\ f \in Frames /\ f.kind = "update" /\ Head(net[v]) = f
  BY ArrivesIs DEF TakeUpdate
<1>2. /\ view \in [Viewers -> [state : States, seen : Nat, known : Nat \union {None}, at : Nat]]
      /\ start \in Nat
  BY OrderParts DEF OrderInv, ViewType
<1>3. view' = [view EXCEPT ![v] = r]
  BY <1>1, <1>2 DEF TakeUpdate
<1>4. f.version \in Nat /\ Reduce(view[v].state, f.update) \in States
  BY <1>1, FrameParts, OrderParts, ReduceType
<1>5. r \in [state : States, seen : Nat, known : Nat \union {None}, at : Nat]
  <2>1. start + f.version \in Nat
    BY <1>2, <1>4
  <2>2. ASSUME NEW w \in [state : States, seen : Nat, known : Nat \union {None}, at : Nat],
               NEW s \in States, NEW n \in Nat, NEW a \in Nat
        PROVE  [w EXCEPT !.state = s, !.seen = n, !.at = a]
                 \in [state : States, seen : Nat, known : Nat \union {None}, at : Nat]
    OBVIOUS
  <2>3. moved = [view[v] EXCEPT !.state = Reduce(view[v].state, f.update), !.seen = f.version,
                                !.at = start + f.version]
    OBVIOUS
  <2>4. view[v] \in [state : States, seen : Nat, known : Nat \union {None}, at : Nat]
    BY <1>2
  <2> HIDE DEF moved, f
  <2>5. moved \in [state : States, seen : Nat, known : Nat \union {None}, at : Nat]
    BY <1>4, <2>1, <2>2, <2>3, <2>4
  <2> QED
    BY <2>4, <2>5
<1>6. r = view[v] \/ (r.seen = f.version /\ r.at = start + f.version)
  BY <1>2
<1> HIDE DEF r
<1> QED
  BY <1>1, <1>3, <1>5, <1>6, ViewMoves

LEMMA TakeReplyStep ==
  ASSUME OrderInv, NEW v \in Viewers, TakeReply(v)
  PROVE  OrderInv'
<1>1. /\ UNCHANGED <<hostVars, source, buffer, inbox, served, link, net, drops>>
      /\ view' = [view EXCEPT ![v].known = reply[v]]
      /\ reply' = [reply EXCEPT ![v] = None]
  BY DEF TakeReply, serverVars
<1>2. UNCHANGED <<log, start, source>>
  BY <1>1 DEF hostVars
<1>3. reply \in [Viewers -> Nat \union {None}]
  BY DEF OrderInv, HostType
<1>4. StreamType' /\ reply' \in [Viewers -> Nat \union {None}]
  BY <1>1, <1>3 DEF OrderInv, StreamType
<1>5. ViewType' /\ WatermarkIsTrue'
  BY <1>1, <1>2, <1>3 DEF OrderInv, ViewType, WatermarkIsTrue
<1>6. StreamOrder(v)'
  BY <1>1, <1>2, OrderParts DEF StreamOrder, Drained
<1> QED
  BY <1>1, <1>4, <1>5, <1>6, OneViewerKeeps

LEMMA OrderInit == Init => OrderInv
<1> SUFFICES ASSUME Init PROVE OrderInv
  OBVIOUS
<1>1. /\ <<>> \in Seq(Patches) /\ <<>> \in Seq(Frames) /\ Len(<<>>) = 0 /\ Initial \in States
      /\ <<Initial>> \in Seq(States) /\ Len(<<Initial>>) = 1 /\ MaxStates \in Nat
      /\ BufferSize \in Nat
  BY InitialType, BoundsAssumption
<1>2. HostType
  <2>1. Queue(log, source) /\ Len(log) <= MaxStates + 1
    BY <1>1 DEF Init, Queue
  <2>2. session \in Nat /\ created \in Nat /\ restarts \in Nat /\ prompted \in BOOLEAN
        /\ switch = {}
    BY DEF Init
  <2>3. reply \in [Viewers -> Nat \union {None}]
    BY DEF Init
  <2> QED
    BY <2>1, <2>2, <2>3 DEF HostType
<1>3. BufferType /\ StreamType
  BY <1>1 DEF Init, BufferType, StreamType
<1>4. ViewType
  BY <1>1 DEF Init, ViewType
<1>5. ASSUME NEW v \in Viewers
      PROVE  StreamOrder(v)
  BY <1>1 DEF Init, StreamOrder, InOrder
<1>6. WatermarkIsTrue
  BY DEF Init, WatermarkIsTrue
<1> QED
  BY <1>2, <1>3, <1>4, <1>5, <1>6 DEF OrderInv

LEMMA OrderNext == OrderInv /\ [Next]_vars => OrderInv'
<1> SUFFICES ASSUME OrderInv, [Next]_vars PROVE OrderInv'
  OBVIOUS
<1>1. CASE HostNext
  BY <1>1, PromptStep, TurnEndStep, AgentChunkStep, AgentToolStep, PendingStep, SwitchBeginStep,
     SwitchSucceedsStep, SwitchFailsStep, RebuildStep DEF HostNext
<1>2. CASE Dispatch
  BY <1>2, DispatchStep
<1>3. ASSUME NEW v \in Viewers, ViewerNext(v)
      PROVE  OrderInv'
  BY <1>3, ConnectStep, ServeStep, DropStep, TakeSnapshotStep, TakeUpdateStep, TakeReplyStep
     DEF ViewerNext
<1>4. CASE UNCHANGED vars
  BY <1>4 DEF vars, hostVars, serverVars, viewerVars, OrderInv, HostType, Queue, Pos, BufferType,
              StreamType, StreamOrder, Drained, ViewType, WatermarkIsTrue
<1> QED
  BY <1>1, <1>2, <1>3, <1>4 DEF Next

LEMMA OrderCorrect == Spec => []OrderInv
  BY OrderInit, OrderNext, PTL DEF Spec

(* Every part of the stream has its type: what the host emits and what the viewers fold
   out of frames are states, for every order of emissions, drains, frames and drops. *)
THEOREM TypeCorrect == Spec => []TypeOK
<1>1. OrderInv => TypeOK
  <2> SUFFICES ASSUME OrderInv PROVE TypeOK
    OBVIOUS
  <2>1. Queue(log, source) /\ Len(log) <= MaxStates + 1 /\ MaxStates \in Nat
    BY BoundsAssumption DEF OrderInv, HostType
  <2>2. log \in Seq(States) /\ source \in Seq(Patches) /\ start \in 1 .. Len(log) - Len(source)
    BY <2>1 DEF Queue
  <2>3. Len(source) <= MaxStates /\ start \in 1 .. Len(log)
    BY <2>1, <2>2
  <2> QED
    BY <2>2, <2>3 DEF OrderInv, HostType, BufferType, StreamType, ViewType, TypeOK
<1> QED
  BY <1>1, OrderCorrect, PTL

(* The watermark a viewer compares versions with is the version of the state it shows
   (#lastSeenVersion of remote-session-view.ts). *)
THEOREM WatermarkCorrect == Spec => []WatermarkIsTrue
<1>1. OrderInv => WatermarkIsTrue
  BY DEF OrderInv
<1> QED
  BY <1>1, OrderCorrect, PTL

-----------------------------------------------------------------------------
(* Reconnects.                                                              *)

(* A reconnect may ignore the state it gets because versions can be compared: they are    *)
(* versions of one host, or the session tells the hosts apart.                            *)
OneHostOrSession == MaxRestarts = 0 \/ Switches = "none"

(* The state of the host is on its way, ahead of all other frames. *)
Joins(nt) == nt /= <<>> /\ nt[1].kind = "snapshot"

CurrentView(st, ses, lk, nt, r, rp) ==
  /\ Joins(nt) => r.at <= st + nt[1].version
  /\ lk = "open" /\ ~Joins(nt) => r.at >= st
  /\ Switches = "none" =>
       /\ rp = None /\ r.known <= ses
       /\ r.known = ses => r.at >= st
       /\ Joins(nt) => nt[1].session = ses

Current(v) == CurrentView(start, session, link[v], net[v], view[v], reply[v])

CurrentInv ==
  /\ restarts <= MaxRestarts /\ (restarts = 0 => start = 1)
  /\ Switches = "none" => switch = {} /\ session = created
  /\ \A v \in Viewers : Current(v)

(* What a reconnect ignores, the viewer shows already.                      *)
LEMMA MissedNothing ==
  ASSUME OneHostOrSession, OrderInv, CurrentInv, NEW v \in Viewers,
         Arrives(v, "snapshot"), NothingMissed(v, net[v][1])
  PROVE  view[v].at = start + net[v][1].version
<1> DEFINE f == net[v][1]
<1>1. f \in Frames /\ f.kind = "snapshot" /\ Len(net[v]) > 0 /\ net[v] \in Seq(Frames)
  BY ArrivesIs
<1>2. Joins(net[v]) /\ f.version \in Nat
  BY <1>1, FrameParts DEF Joins
<1>3. /\ view[v].at > 0 /\ f.session = view[v].known /\ f.version <= view[v].seen
      /\ view[v].at \in Nat /\ view[v].seen \in Nat /\ start \in Nat
  BY OrderParts DEF NothingMissed
<1>4. Current(v) /\ restarts <= MaxRestarts /\ (restarts = 0 => start = 1)
  BY DEF CurrentInv
<1>5. view[v].at <= start + f.version
  BY <1>2, <1>4 DEF Current, CurrentView
<1>6. view[v].at >= start
  <2>1. CASE MaxRestarts = 0
    <3>1. restarts \in Nat
      BY DEF OrderInv, HostType
    <3> QED
      BY <1>3, <1>4, <2>1, <3>1
  <2>2. CASE Switches = "none"
    BY <1>2, <1>3, <1>4, <2>2 DEF Current, CurrentView
  <2> QED
    BY <2>1, <2>2 DEF OneHostOrSession
<1>7. view[v].seen = view[v].at - start
  BY <1>6 DEF OrderInv, WatermarkIsTrue
<1> QED
  BY <1>2, <1>3, <1>5, <1>7

(* The host does not touch the connections, and numbers its sessions only when viewers   *)
(* switch.                                                                                *)
LEMMA CurrentHostKeeps ==
  ASSUME OrderInv, CurrentInv, HostStep,
         Switches = "none" => UNCHANGED <<session, created, switch, reply>>
  PROVE  CurrentInv'
<1>1. UNCHANGED <<start, restarts, link, net, view>>
  BY DEF HostStep
<1>2. ASSUME NEW v \in Viewers
      PROVE  Current(v)'
  <2>1. Current(v)
    BY DEF CurrentInv
  <2> QED
    BY <1>1, <2>1 DEF Current, CurrentView
<1> QED
  BY <1>1, <1>2 DEF CurrentInv

LEMMA CurrentRebuild ==
  ASSUME OrderInv, CurrentInv, Rebuild
  PROVE  CurrentInv'
<1>1. /\ created \in Nat /\ restarts \in Nat /\ MaxRestarts \in Nat /\ Len(log) \in Nat
  BY HostParts, BoundsAssumption DEF OrderInv, HostType
<1>2. restarts' <= MaxRestarts /\ restarts' /= 0
  BY <1>1 DEF Rebuild
<1>3. ASSUME NEW v \in Viewers
      PROVE  Current(v)'
  <2>1. net'[v] = <<>> /\ link'[v] = "away" /\ view'[v] = view[v] /\ reply'[v] = reply[v]
        /\ session' = created + 1
    BY DEF Rebuild
  <2>2. Switches = "none" => reply[v] = None /\ view[v].known < created + 1
    BY <1>1, OrderParts DEF CurrentInv, Current, CurrentView, None
  <2>3. view[v].known \in Int
    BY OrderParts DEF None
  <2> QED
    BY <1>1, <2>1, <2>2, <2>3 DEF Current, CurrentView, Joins
<1>4. Switches = "none" => switch' = {} /\ session' = created'
  BY DEF Rebuild
<1> QED
  BY <1>2, <1>3, <1>4 DEF CurrentInv

(* A step of one viewer's connection. *)
LEMMA CurrentViewerKeeps ==
  ASSUME CurrentInv, NEW v \in Viewers, UNCHANGED hostVars, Current(v)',
         \A w \in Viewers \ {v} :
           link'[w] = link[w] /\ net'[w] = net[w] /\ view'[w] = view[w] /\ reply'[w] = reply[w]
  PROVE  CurrentInv'
<1>1. UNCHANGED <<start, session, created, switch, restarts>>
  BY DEF hostVars
<1>2. ASSUME NEW w \in Viewers
      PROVE  Current(w)'
  <2>1. CASE w /= v
    <3>1. Current(w)
      BY DEF CurrentInv
    <3>2. link'[w] = link[w] /\ net'[w] = net[w] /\ view'[w] = view[w] /\ reply'[w] = reply[w]
      BY <2>1
    <3> QED
      BY <1>1, <3>1, <3>2 DEF Current
  <2> QED
    BY <2>1
<1> QED
  BY <1>1, <1>2 DEF CurrentInv

LEMMA CurrentConnect ==
  ASSUME OrderInv, CurrentInv, NEW v \in Viewers, Connect(v)
  PROVE  CurrentInv'
<1> DEFINE f == [kind |-> "snapshot", version |-> Version, session |-> session, state |-> host]
<1>1. /\ link' = [link EXCEPT ![v] = "open"] /\ net' = [net EXCEPT ![v] = <<f>>]
      /\ UNCHANGED <<hostVars, view, reply>>
  BY DEF Connect, viewerVars
<1>2. UNCHANGED <<start, session>>
  BY <1>1 DEF hostVars
<1>3. /\ link' [v] = "open" /\ net'[v] = <<f>> /\ view'[v] = view[v] /\ reply'[v] = reply[v]
      /\ \A w \in Viewers \ {v} : link'[w] = link[w] /\ net'[w] = net[w]
  BY <1>1 DEF OrderInv, StreamType
<1>4. start + f.version = Len(log) /\ f.kind = "snapshot" /\ f.session = session
  BY OrderParts DEF Version
<1> HIDE DEF f
<1>5. Joins(<<f>>) /\ <<f>>[1] = f
  BY <1>4 DEF Joins
<1>6. Current(v)'
  <2>1. Current(v)
    BY DEF CurrentInv
  <2>2. view[v].at <= start + f.version
    BY <1>4, OrderParts
  <2> QED
    BY <1>2, <1>3, <1>4, <1>5, <2>1, <2>2 DEF Current, CurrentView
<1> QED
  BY <1>1, <1>3, <1>6, CurrentViewerKeeps

LEMMA CurrentServe ==
  ASSUME OrderInv, CurrentInv, NEW v \in Viewers, Serve(v)
  PROVE  CurrentInv'
<1>1. PICK p, after, us :
           /\ p = inbox[v][1] /\ after = ApplyPatch(served[v], p.op) /\ us = Updates(after, p.op)
           /\ p \in Patches /\ p.op \in Ops /\ after \in States
           /\ us \in Seq(Wires) /\ Len(us) \in 0 .. 1
           /\ Len(inbox[v]) > 0 /\ link[v] = "open"
           /\ served' = [served EXCEPT ![v] = after]
           /\ net' = [net EXCEPT ![v] = net[v] \o Written(p, us)]
           /\ inbox' = [inbox EXCEPT ![v] = Tail(inbox[v])]
           /\ UNCHANGED <<hostVars, source, buffer, link, drops, view, reply>>
  BY ServeIs
<1>2. PICK ws : ws = Written(p, us)
  OBVIOUS
<1>3. UNCHANGED <<start, session>>
  BY <1>1 DEF hostVars
<1>4. /\ net'[v] = net[v] \o ws
      /\ \A w \in Viewers \ {v} : net'[w] = net[w]
  BY <1>1, <1>2 DEF OrderInv, StreamType
<1>5. /\ net[v] \in Seq(Frames) /\ Len(net[v]) \in Nat /\ ws \in Seq(Frames)
      /\ \A i \in 1 .. Len(ws) : ws[i].kind = "update"
  <2>1. ws \in Seq(Frames) /\ \A i \in 1 .. Len(ws) : ws[i] = Framed(p, us[i])
    BY <1>1, <1>2, WrittenType
  <2>2. \A i \in 1 .. Len(ws) : ws[i].kind = "update"
    BY <2>1, FramedParts
  <2> QED
    BY <2>1, <2>2, OrderParts
<1>6. Joins(net[v] \o ws) <=> Joins(net[v])
  <2>1. CASE net[v] = <<>>
    <3>1. net[v] \o ws = ws /\ (ws /= <<>> => 1 \in 1 .. Len(ws))
      BY <1>5, <2>1
    <3> QED
      BY <1>5, <2>1, <3>1 DEF Joins
  <2>2. CASE net[v] /= <<>>
    <3>1. (net[v] \o ws)[1] = net[v][1] /\ net[v] \o ws /= <<>>
      BY <1>5, <2>2
    <3> QED
      BY <2>2, <3>1 DEF Joins
  <2> QED
    BY <2>1, <2>2
<1>7. Joins(net[v]) => (net[v] \o ws)[1] = net[v][1]
  BY <1>5 DEF Joins
<1>8. Current(v)'
  <2>1. Current(v)
    BY DEF CurrentInv
  <2> QED
    BY <1>1, <1>3, <1>4, <1>6, <1>7, <2>1 DEF Current, CurrentView
<1> QED
  BY <1>1, <1>4, <1>8, CurrentViewerKeeps

LEMMA CurrentDrop ==
  ASSUME OrderInv, CurrentInv, NEW v \in Viewers, Drop(v)
  PROVE  CurrentInv'
<1>1. /\ link' = [link EXCEPT ![v] = "away"] /\ net' = [net EXCEPT ![v] = <<>>]
      /\ UNCHANGED <<hostVars, view, reply>>
  BY DEF Drop, viewerVars
<1>2. UNCHANGED <<start, session>>
  BY <1>1 DEF hostVars
<1>3. /\ link'[v] = "away" /\ net'[v] = <<>> /\ view'[v] = view[v] /\ reply'[v] = reply[v]
      /\ \A w \in Viewers \ {v} : link'[w] = link[w] /\ net'[w] = net[w]
  BY <1>1 DEF OrderInv, StreamType
<1>4. Current(v)'
  <2>1. Current(v)
    BY DEF CurrentInv
  <2> QED
    BY <1>2, <1>3, <2>1 DEF Current, CurrentView, Joins
<1> QED
  BY <1>1, <1>3, <1>4, CurrentViewerKeeps

(* Behind the first frame there are only updates. *)
LEMMA JoinsOnce ==
  ASSUME OrderInv, NEW v \in Viewers, NEW kind, Arrives(v, kind)
  PROVE  ~Joins(Tail(net[v]))
<1>1. /\ net[v] \in Seq(Frames) /\ Len(net[v]) \in Nat \ {0} /\ Len(Tail(net[v])) = Len(net[v]) - 1
      /\ \A i \in 1 .. Len(net[v]) - 1 : Tail(net[v])[i] = net[v][i + 1]
      /\ Tail(net[v]) \in Seq(Frames)
  BY ArrivesIs
<1>2. \A i \in 2 .. Len(net[v]) : net[v][i].kind = "update"
  BY OrderParts DEF StreamOrder, InOrder
<1>3. ASSUME Tail(net[v]) /= <<>>
      PROVE  Tail(net[v])[1] = net[v][2] /\ 2 \in 2 .. Len(net[v])
  BY <1>1, <1>3
<1> QED
  BY <1>2, <1>3 DEF Joins

LEMMA CurrentTaken ==
  ASSUME OrderInv, CurrentInv, NEW v \in Viewers, NEW kind, Arrives(v, kind), NEW r,
         view' = [view EXCEPT ![v] = r], r.at >= start,
         Switches = "none" => r.known \in {view[v].known, session}
  PROVE  CurrentInv'
<1>1. /\ net' = [net EXCEPT ![v] = Tail(net[v])] /\ net'[v] = Tail(net[v])
      /\ UNCHANGED <<log, start, session, created, switch, prompted, restarts, link, reply>>
  BY ArrivesIs
<1>2. view'[v] = r /\ \A w \in Viewers \ {v} : view'[w] = view[w] /\ net'[w] = net[w]
  BY <1>1 DEF OrderInv, ViewType, StreamType
<1>3. Current(v)'
  <2>1. Current(v) /\ view[v].known \in Int /\ session \in Int
    BY OrderParts DEF CurrentInv, None, OrderInv, HostType
  <2>2. ~Joins(Tail(net[v]))
    BY JoinsOnce
  <2> QED
    BY <1>1, <1>2, <2>1, <2>2 DEF Current, CurrentView
<1>4. UNCHANGED hostVars
  BY <1>1 DEF hostVars
<1> QED
  BY <1>1, <1>2, <1>3, <1>4, CurrentViewerKeeps

LEMMA CurrentTakeSnapshot ==
  ASSUME OneHostOrSession, OrderInv, CurrentInv, NEW v \in Viewers, TakeSnapshot(v)
  PROVE  CurrentInv' /\ view'[v].at = start + Head(net[v]).version
<1>1. PICK f : f = net[v][1]
  OBVIOUS
<1>2. PICK r : r = IF NothingMissed(v, f) THEN view[v] ELSE Replaced(f)
  OBVIOUS
<1>3. Arrives(v, "snapshot") /\ f \in Frames /\ f.kind = "snapshot" /\ Head(net[v]) = f
      /\ Len(net[v]) > 0 /\ net[v] \in Seq(Frames)
  BY <1>1, ArrivesIs DEF TakeSnapshot
<1>4. view' = [view EXCEPT ![v] = r] /\ view'[v] = r
  BY <1>2, <1>3 DEF TakeSnapshot, OrderInv, ViewType
<1>5. r.at = start + f.version
  BY <1>1, <1>2, <1>3, MissedNothing DEF Replaced
<1>6. r.at >= start
  BY <1>3, <1>5, FrameParts, OrderParts
<1>7. Switches = "none" => r.known \in {view[v].known, session}
  <2>1. Joins(net[v])
    BY <1>1, <1>3 DEF Joins
  <2>2. Switches = "none" => f.session = session
    BY <1>1, <2>1 DEF CurrentInv, Current, CurrentView
  <2> QED
    BY <1>2, <2>2 DEF Replaced
<1> QED
  BY <1>3, <1>4, <1>5, <1>6, <1>7, CurrentTaken

LEMMA CurrentTakeUpdate ==
  ASSUME OrderInv, CurrentInv, NEW v \in Viewers, TakeUpdate(v)
  PROVE  CurrentInv'
<1>1. PICK f : f = net[v][1]
  OBVIOUS
<1>2. PICK r : r = IF Stale(v, f) THEN view[v]
                   ELSE [view[v] EXCEPT !.state = Reduce(@, f.update), !.seen = f.version,
                                        !.at = start + f.version]
  OBVIOUS
<1>3. Arrives(v, "update") /\ f \in Frames /\ f.kind = "update" /\ Head(net[v]) = f
      /\ link[v] = "open"
  BY <1>1, ArrivesIs DEF TakeUpdate
<1>4. view \in [Viewers -> [state : States, seen : Nat, known : Nat \union {None}, at : Nat]]
  BY DEF OrderInv, ViewType
<1>5. view' = [view EXCEPT ![v] = r]
  BY <1>2, <1>3, <1>4 DEF TakeUpdate
<1>6. ~Joins(net[v])
  BY <1>1, <1>3 DEF Joins
<1>7. view[v].at >= start
  BY <1>3, <1>6 DEF CurrentInv, Current, CurrentView
<1>8. f.version \in Nat /\ start \in Nat
  BY <1>3, FrameParts, OrderParts
<1>9. r.at >= start /\ r.known = view[v].known
  BY <1>2, <1>4, <1>7, <1>8
<1> QED
  BY <1>3, <1>5, <1>9, CurrentTaken

LEMMA CurrentTakeReply ==
  ASSUME OrderInv, CurrentInv, NEW v \in Viewers, TakeReply(v)
  PROVE  CurrentInv'
<1>1. /\ UNCHANGED <<hostVars, link, net>> /\ reply[v] /= None
      /\ view' = [view EXCEPT ![v].known = reply[v]]
      /\ reply' = [reply EXCEPT ![v] = None]
  BY DEF TakeReply
<1>2. UNCHANGED <<start, session>>
  BY <1>1 DEF hostVars
<1>3. view'[v].at = view[v].at
      /\ \A w \in Viewers \ {v} : view'[w] = view[w] /\ reply'[w] = reply[w]
  BY <1>1 DEF OrderInv, ViewType, HostType
<1>4. Current(v)'
  BY <1>1, <1>2, <1>3 DEF CurrentInv, Current, CurrentView
<1> QED
  BY <1>1, <1>3, <1>4, CurrentViewerKeeps

LEMMA CurrentInit == Init => CurrentInv
  BY BoundsAssumption DEF Init, CurrentInv, Current, CurrentView, Joins, None

LEMMA CurrentNext ==
  ASSUME OneHostOrSession
  PROVE  OrderInv /\ CurrentInv /\ [Next]_vars => CurrentInv'
<1> SUFFICES ASSUME OrderInv, CurrentInv, [Next]_vars PROVE CurrentInv'
  OBVIOUS
<1>1. CASE HostNext
  <2>1. CASE Prompt
    BY <2>1, CurrentHostKeeps DEF Prompt, InSession
  <2>2. ASSUME NEW failed \in BOOLEAN, TurnEnd(failed)
        PROVE  CurrentInv'
    BY <2>2, CurrentHostKeeps DEF TurnEnd, InSession
  <2>3. ASSUME NEW key \in ChunkKeys, AgentChunk(key)
        PROVE  CurrentInv'
    BY <2>3, CurrentHostKeeps DEF AgentChunk, InSession
  <2>4. CASE AgentTool
    BY <2>4, CurrentHostKeeps DEF AgentTool, InSession
  <2>5. CASE Pending
    BY <2>5, CurrentHostKeeps DEF Pending, InSession
  <2>6. ASSUME NEW v \in Viewers, NEW target \in Targets, SwitchBegin(v, target)
        PROVE  CurrentInv'
    <3>1. Switches /= "none"
      BY <2>6 DEF Targets
    <3> QED
      BY <2>6, <3>1, CurrentHostKeeps DEF SwitchBegin
  <2>7. CASE SwitchSucceeds
    <3>1. Switches /= "none"
      BY <2>7 DEF SwitchSucceeds, CurrentInv
    <3> QED
      BY <2>7, <3>1, CurrentHostKeeps DEF SwitchSucceeds
  <2>8. CASE SwitchFails
    <3>1. Switches /= "none"
      BY <2>8 DEF SwitchFails, CurrentInv
    <3> QED
      BY <2>8, <3>1, CurrentHostKeeps DEF SwitchFails
  <2>9. CASE Rebuild
    BY <2>9, CurrentRebuild
  <2> QED
    BY <1>1, <2>1, <2>2, <2>3, <2>4, <2>5, <2>6, <2>7, <2>8, <2>9 DEF HostNext
<1>2. CASE Dispatch
  <2>1. UNCHANGED <<start, session, created, switch, restarts, link, net, view, reply>>
    BY <1>2 DEF Dispatch, hostVars, viewerVars
  <2> QED
    BY <2>1 DEF CurrentInv, Current
<1>3. ASSUME NEW v \in Viewers, ViewerNext(v)
      PROVE  CurrentInv'
  BY <1>3, CurrentConnect, CurrentServe, CurrentDrop, CurrentTakeSnapshot, CurrentTakeUpdate,
     CurrentTakeReply DEF ViewerNext
<1>4. CASE UNCHANGED vars
  BY <1>4 DEF vars, hostVars, viewerVars, CurrentInv, Current
<1> QED
  BY <1>1, <1>2, <1>3, <1>4 DEF Next

LEMMA CurrentCorrect ==
  ASSUME OneHostOrSession
  PROVE  Spec => [](OrderInv /\ CurrentInv)
  BY OrderInit, OrderNext, CurrentInit, CurrentNext, PTL DEF Spec

(* Frame-zero leaves the viewer at the state it describes, taken or ignored (the
   comparison of versions and sessions in remote-session-view.ts). *)
THEOREM ReconnectCorrect ==
  ASSUME OneHostOrSession
  PROVE  Spec => ReconnectIsCurrent
<1>1. ASSUME OrderInv, CurrentInv, [Next]_vars
      PROVE  [\A v \in Viewers :
                TakeSnapshot(v) => view'[v].at = start + Head(net[v]).version]_vars
  BY <1>1, CurrentTakeSnapshot
<1> QED
  BY <1>1, CurrentCorrect, PTL DEF Spec, ReconnectIsCurrent

-----------------------------------------------------------------------------
(* The transcripts: what of their shape the wire relies on.                 *)

(* Messages are numbered by their place, and a key names one message of each role but    *)
(* the user's.                                                                           *)
Kept(ms) ==
  /\ \A i \in 1 .. Len(ms) : ms[i].id = i - 1
  /\ \A i, j \in 1 .. Len(ms) :
       i /= j /\ ms[i].role = ms[j].role /\ ms[i].role /= "user" => ms[i].key /= ms[j].key

(* One transcript goes on where the other ends. *)
Continues(ms, ns) ==
  /\ Len(ms) <= Len(ns)
  /\ \A i \in 1 .. Len(ms) : ns[i].id = ms[i].id /\ ns[i].key = ms[i].key /\ ns[i].role = ms[i].role

(* What the host emits: a new message is numbered and has a key of its own, a chunk goes *)
(* to the message it would continue, a tool update to a tool.                            *)
LegalAdd(ms, m) ==
  /\ m.id = Len(ms)
  /\ m.role /= "user" => \A i \in 1 .. Len(ms) : ms[i].role = m.role => ms[i].key /= m.key

Legal(ms, op) ==
  /\ op.kind = "add" => LegalAdd(ms, op.message)
  /\ op.kind = "append" =>
       /\ op.n = 1 /\ op.target + 1 \in 1 .. Len(ms) /\ ms[op.target + 1].role = "agent"
       /\ Continued(ms, ms[op.target + 1].key) = op.target + 1
  /\ op.kind = "tool" => op.target + 1 \in 1 .. Len(ms) /\ ms[op.target + 1].role = "tool"

LEMMA ChangedIs ==
  ASSUME NEW s \in States, NEW i \in 1 .. Len(s.messages), NEW n, NEW t
  PROVE  /\ Changed(s, i, n, t).turn = t /\ Changed(s, i, n, t).pending = s.pending
         /\ Len(Changed(s, i, n, t).messages) = Len(s.messages)
         /\ Continues(s.messages, Changed(s, i, n, t).messages)
<1>1. s.messages \in Seq(Messages) /\ s.messages[i] \in Messages
  BY StateParts
<1>2. /\ Changed(s, i, n, t).messages = [s.messages EXCEPT ![i] = [s.messages[i] EXCEPT !.n = n]]
      /\ Changed(s, i, n, t).turn = t /\ Changed(s, i, n, t).pending = s.pending
  BY DEF Changed, States
<1>3. PICK m : m = [s.messages[i] EXCEPT !.n = n]
  OBVIOUS
<1>4. m.id = s.messages[i].id /\ m.key = s.messages[i].key /\ m.role = s.messages[i].role
  BY <1>1, <1>3 DEF Messages
<1>5. PICK ms : ms = s.messages
  OBVIOUS
<1>6. ms \in Seq(Messages) /\ i \in 1 .. Len(ms) /\ m.id = ms[i].id /\ m.key = ms[i].key
      /\ m.role = ms[i].role
  BY <1>1, <1>4, <1>5
<1>7. PICK ns : ns = [ms EXCEPT ![i] = m]
  OBVIOUS
<1>8. Len(ns) = Len(ms) /\ \A j \in 1 .. Len(ms) : ns[j] = IF j = i THEN m ELSE ms[j]
  BY <1>6, <1>7
<1>9. Len(ms) \in Nat
  BY <1>6
<1>10. Continues(ms, ns)
  BY <1>6, <1>8, <1>9 DEF Continues
<1> QED
  BY <1>2, <1>3, <1>5, <1>7, <1>8, <1>10

LEMMA ChangedPublic ==
  ASSUME NEW r \in States, NEW s \in States, Public(r) = Public(s),
         NEW i \in 1 .. Len(s.messages), NEW n, NEW t
  PROVE  Public(Changed(r, i, n, t)) = Public(Changed(s, i, n, t))
<1>1. r.messages = s.messages /\ r.pending = s.pending
  BY DEF Public
<1>2. PICK ms : ms = [s.messages EXCEPT ![i] = [s.messages[i] EXCEPT !.n = n]]
  OBVIOUS
<1>3. /\ Changed(s, i, n, t) = [s EXCEPT !.messages = ms, !.turn = t]
      /\ Changed(r, i, n, t) = [r EXCEPT !.messages = ms, !.turn = t]
  BY <1>1, <1>2 DEF Changed
<1> QED
  BY <1>1, <1>3 DEF Public, States

LEMMA ContinuesSelf ==
  ASSUME NEW ms, Len(ms) \in Nat
  PROVE  Continues(ms, ms)
  BY DEF Continues

LEMMA ContinuesOn ==
  ASSUME NEW ms, NEW ns, NEW os, Len(ms) \in Nat, Len(ns) \in Nat, Len(os) \in Nat,
         Continues(ms, ns), Continues(ns, os)
  PROVE  Continues(ms, os)
<1>1. \A i \in 1 .. Len(ms) : i \in 1 .. Len(ns)
  BY DEF Continues
<1> QED
  BY <1>1 DEF Continues

LEMMA AppendIs ==
  ASSUME NEW ms \in Seq(Messages), NEW m \in Messages
  PROVE  /\ Append(ms, m) \in Seq(Messages) /\ Len(Append(ms, m)) = Len(ms) + 1
         /\ \A i \in 1 .. Len(ms) : Append(ms, m)[i] = ms[i]
         /\ Append(ms, m)[Len(ms) + 1] = m
  OBVIOUS

(* What a patch does to a state, by its kind. *)
LEMMA ApplyAdd ==
  ASSUME NEW s \in States, NEW op \in Ops, op.kind = "add"
  PROVE  /\ op.message \in Messages
         /\ ApplyPatch(s, op).messages = Append(s.messages, op.message)
         /\ ApplyPatch(s, op).turn = TurnOf(s, op.message.role)
         /\ ApplyPatch(s, op).pending = s.pending
<1>1. op.message \in Messages
  BY DEF Ops
<1>2. ApplyPatch(s, op) = [s EXCEPT !.messages = Append(@, op.message),
                                    !.turn = TurnOf(s, op.message.role)]
  BY DEF ApplyPatch
<1> QED
  BY <1>1, <1>2 DEF States

LEMMA ApplyReset ==
  ASSUME NEW s \in States, NEW op \in Ops, op.kind = "reset"
  PROVE  /\ ApplyPatch(s, op).messages = <<>>
         /\ ApplyPatch(s, op).turn = s.turn /\ ApplyPatch(s, op).pending = s.pending
<1>1. ApplyPatch(s, op) = [s EXCEPT !.messages = <<>>]
  BY DEF ApplyPatch
<1>2. PICK e : e = <<>>
  OBVIOUS
<1>3. [s EXCEPT !.messages = e].messages = e /\ [s EXCEPT !.messages = e].turn = s.turn
      /\ [s EXCEPT !.messages = e].pending = s.pending
  BY DEF States
<1> QED
  BY <1>1, <1>2, <1>3

LEMMA ApplySession ==
  ASSUME NEW s \in States, NEW op \in Ops, op.kind = "session"
  PROVE  /\ op.changes \in Changes
         /\ ApplyPatch(s, op) = Merged(s, op.changes)
         /\ ApplyPatch(s, op).messages = s.messages
<1>1. op.changes \in Changes /\ ApplyPatch(s, op) = Merge(s, op.changes)
  BY DEF Ops, ApplyPatch
<1>2. Merged(s, op.changes).messages = s.messages
  BY DEF Merged
<1> QED
  BY <1>1, <1>2, MergeIs

(* A chunk and a tool update change the message they find, or nothing. *)
LEMMA ApplyTarget ==
  ASSUME NEW s \in States, NEW op \in Ops, op.kind \in {"append", "tool"}
  PROVE  LET i    == Target(s.messages, op.target)
             turn == IF op.kind = "tool" THEN s.turn ELSE TurnOf(s, s.messages[i].role)
             n    == IF op.kind = "tool" THEN op.n ELSE s.messages[i].n + op.n
         IN  ApplyPatch(s, op) =
               IF i = 0 \/ (s.messages[i].role = "tool") /= (op.kind = "tool") THEN s
               ELSE Changed(s, i, n, turn)
<1> DEFINE i == Target(s.messages, op.target)
           turn == IF op.kind = "tool" THEN s.turn ELSE TurnOf(s, s.messages[i].role)
           n == IF op.kind = "tool" THEN op.n ELSE s.messages[i].n + op.n
<1>1. ApplyPatch(s, op) =
        IF i = 0 \/ (s.messages[i].role = "tool") /= (op.kind = "tool") THEN s
        ELSE [s EXCEPT !.messages[i].n = IF op.kind = "tool" THEN op.n ELSE @ + op.n,
                       !.turn = IF op.kind = "tool" THEN @ ELSE TurnOf(s, s.messages[i].role)]
  BY DEF ApplyPatch, Target
<1> QED
  BY <1>1 DEF Changed

LEMMA ApplyContinues ==
  ASSUME NEW s \in States, NEW op \in Ops, op.kind /= "reset"
  PROVE  /\ Continues(s.messages, ApplyPatch(s, op).messages)
         /\ op.kind /= "add" => Len(ApplyPatch(s, op).messages) = Len(s.messages)
<1>1. s.messages \in Seq(Messages) /\ Len(s.messages) \in Nat
  BY StateParts
<1>2. CASE op.kind = "add"
  <2>1. PICK m : m = op.message
    OBVIOUS
  <2>2. m \in Messages /\ ApplyPatch(s, op).messages = Append(s.messages, m)
    BY <1>2, <2>1, ApplyAdd
  <2>3. PICK ms : ms = s.messages
    OBVIOUS
  <2>4. Continues(ms, Append(ms, m))
    BY <1>1, <2>2, <2>3, AppendIs DEF Continues
  <2> QED
    BY <1>2, <2>2, <2>3, <2>4
<1>3. CASE op.kind \in {"append", "tool"}
  <2> DEFINE i == Target(s.messages, op.target)
             turn == IF op.kind = "tool" THEN s.turn ELSE TurnOf(s, s.messages[i].role)
             n == IF op.kind = "tool" THEN op.n ELSE s.messages[i].n + op.n
  <2>1. i = 0 \/ i \in 1 .. Len(s.messages)
    BY StateParts, TargetIndex
  <2>2. ApplyPatch(s, op) = s \/ (i /= 0 /\ ApplyPatch(s, op) = Changed(s, i, n, turn))
    BY <1>3, ApplyTarget
  <2> HIDE DEF i, n, turn
  <2>3. CASE ApplyPatch(s, op) = s
    BY <1>1, <2>3, ContinuesSelf
  <2>4. CASE i /= 0 /\ ApplyPatch(s, op) = Changed(s, i, n, turn)
    <3>1. i \in 1 .. Len(s.messages)
      BY <2>1, <2>4
    <3>2. \A m, t : /\ Continues(s.messages, Changed(s, i, m, t).messages)
                    /\ Len(Changed(s, i, m, t).messages) = Len(s.messages)
      BY <3>1, ChangedIs
    <3> QED
      BY <2>4, <3>2
  <2> QED
    BY <2>2, <2>3, <2>4
<1>4. CASE op.kind = "session"
  BY <1>1, <1>4, ApplySession, ContinuesSelf
<1> QED
  BY <1>2, <1>3, <1>4 DEF Ops

(* In a kept transcript every message is found under its number. *)
LEMMA TargetKept ==
  ASSUME NEW ms, Len(ms) \in Nat, Kept(ms), NEW t \in Nat
  PROVE  Target(ms, t) = IF t < Len(ms) THEN t + 1 ELSE 0
<1>1. CASE t < Len(ms)
  <2>1. t + 1 \in 1 .. Len(ms) /\ ms[t + 1].id = t
    BY <1>1 DEF Kept
  <2>2. Target(ms, t) \in 1 .. Len(ms) /\ ms[Target(ms, t)].id = t
    BY <2>1, TargetIndex
  <2>3. ms[Target(ms, t)].id = Target(ms, t) - 1
    BY <2>2 DEF Kept
  <2> QED
    BY <1>1, <2>2, <2>3
<1>2. CASE ~(t < Len(ms))
  <2>1. \A i \in 1 .. Len(ms) : ms[i].id /= t
    BY <1>2 DEF Kept
  <2> QED
    BY <1>2, <2>1, TargetIndex
<1> QED
  BY <1>1, <1>2

(* What a legal patch does to a kept transcript. *)
LEMMA ApplyLegal ==
  ASSUME NEW s \in States, NEW op \in Ops, Kept(s.messages), Legal(s.messages, op)
  PROVE  /\ op.kind = "append" =>
              ApplyPatch(s, op) = Changed(s, op.target + 1, s.messages[op.target + 1].n + 1, "busy")
         /\ op.kind = "tool" => ApplyPatch(s, op) = Changed(s, op.target + 1, op.n, s.turn)
<1> SUFFICES ASSUME op.kind \in {"append", "tool"}
             PROVE  /\ op.kind = "append" =>
                         ApplyPatch(s, op) =
                           Changed(s, op.target + 1, s.messages[op.target + 1].n + 1, "busy")
                    /\ op.kind = "tool" =>
                         ApplyPatch(s, op) = Changed(s, op.target + 1, op.n, s.turn)
  OBVIOUS
<1> DEFINE i == Target(s.messages, op.target)
<1>1. op.target \in Nat /\ Len(s.messages) \in Nat
  BY StateParts DEF Ops
<1>2. op.target + 1 \in 1 .. Len(s.messages)
  BY DEF Legal
<1>3. i = op.target + 1 /\ i /= 0
  BY <1>1, <1>2, TargetKept
<1> HIDE DEF i
<1>4. CASE op.kind = "append"
  <2>1. s.messages[i].role = "agent" /\ op.n = 1
    BY <1>3, <1>4 DEF Legal
  <2>2. ApplyPatch(s, op) = Changed(s, i, s.messages[i].n + op.n, TurnOf(s, s.messages[i].role))
    BY <1>3, <1>4, <2>1, ApplyTarget DEF i
  <2>3. TurnOf(s, s.messages[i].role) = "busy"
    BY <2>1 DEF TurnOf
  <2> QED
    BY <1>3, <1>4, <2>1, <2>2, <2>3
<1>5. CASE op.kind = "tool"
  <2>1. s.messages[i].role = "tool"
    BY <1>3, <1>5 DEF Legal
  <2>2. ApplyPatch(s, op) = Changed(s, i, op.n, s.turn)
    BY <1>3, <1>5, <2>1, ApplyTarget DEF i
  <2> QED
    BY <1>3, <1>5, <2>2
<1> QED
  BY <1>4, <1>5

(* Legal patches keep a transcript kept. *)
LEMMA SameKept ==
  ASSUME NEW ms, NEW ns, Len(ms) \in Nat, Len(ns) = Len(ms), Kept(ms), Continues(ms, ns)
  PROVE  Kept(ns)
  BY DEF Kept, Continues

LEMMA AddKept ==
  ASSUME NEW ms \in Seq(Messages), NEW m \in Messages, Kept(ms), LegalAdd(ms, m)
  PROVE  Kept(Append(ms, m))
<1>1. PICK ns : ns = Append(ms, m)
  OBVIOUS
<1>2. Len(ms) \in Nat /\ Len(ns) = Len(ms) + 1 /\ ns[Len(ms) + 1] = m
      /\ \A i \in 1 .. Len(ms) : ns[i] = ms[i]
  BY <1>1, AppendIs
<1>3. \A i \in 1 .. Len(ns) : i \in 1 .. Len(ms) \/ (i = Len(ms) + 1 /\ ns[i] = m)
  BY <1>2
<1>4. ASSUME NEW i \in 1 .. Len(ns)
      PROVE  ns[i].id = i - 1
  BY <1>2, <1>3 DEF Kept, LegalAdd
<1>5. ASSUME NEW i \in 1 .. Len(ns), NEW j \in 1 .. Len(ns), i /= j, ns[i].role = ns[j].role,
             ns[i].role /= "user"
      PROVE  ns[i].key /= ns[j].key
  BY <1>2, <1>3, <1>5, ZenonT(60) DEF Kept, LegalAdd
<1> QED
  BY <1>1, <1>4, <1>5 DEF Kept

LEMMA ApplyKept ==
  ASSUME NEW s \in States, NEW op \in Ops, Kept(s.messages), Legal(s.messages, op)
  PROVE  Kept(ApplyPatch(s, op).messages)
<1>1. s.messages \in Seq(Messages) /\ Len(s.messages) \in Nat
  BY StateParts
<1>2. CASE op.kind = "add"
  <2>1. op.message \in Messages /\ ApplyPatch(s, op).messages = Append(s.messages, op.message)
        /\ LegalAdd(s.messages, op.message)
    BY <1>2, ApplyAdd DEF Legal
  <2> QED
    BY <1>1, <2>1, AddKept
<1>3. CASE op.kind = "reset"
  <2>1. ApplyPatch(s, op).messages = <<>> /\ Len(<<>>) = 0
    BY <1>3, ApplyReset
  <2> QED
    BY <2>1 DEF Kept
<1>4. CASE op.kind \notin {"add", "reset"}
  BY <1>1, <1>4, ApplyContinues, SameKept
<1> QED
  BY <1>2, <1>3, <1>4

(* The route's copy, which may hold patches twice, agrees with a transcript: under each  *)
(* number it finds a message of the same role and key.                                   *)
Agrees(ms, ns) ==
  \A t \in Nat :
    /\ t < Len(ns) => /\ Target(ms, t) \in 1 .. Len(ms)
                      /\ ms[Target(ms, t)].role = ns[t + 1].role
                      /\ ms[Target(ms, t)].key = ns[t + 1].key
    /\ ~(t < Len(ns)) => Target(ms, t) = 0

LEMMA AgreesSelf ==
  ASSUME NEW ms, Len(ms) \in Nat, Kept(ms)
  PROVE  Agrees(ms, ms)
  BY TargetKept DEF Agrees

LEMMA AgreesOn ==
  ASSUME NEW ms, NEW ns, NEW os, Len(ns) \in Nat, Len(os) = Len(ns), Agrees(ms, ns),
         Continues(ns, os)
  PROVE  Agrees(ms, os)
<1>1. \A t \in Nat : t < Len(ns) => t + 1 \in 1 .. Len(ns)
  OBVIOUS
<1> QED
  BY <1>1 DEF Agrees, Continues

LEMMA TargetSame ==
  ASSUME NEW ms, NEW ns, Len(ms) \in Nat, Len(ns) = Len(ms), Continues(ms, ns), NEW t
  PROVE  Target(ns, t) = Target(ms, t)
<1>1. \A i \in 1 .. Len(ms) : ns[i].id = ms[i].id
  BY DEF Continues
<1>2. CASE Target(ms, t) = 0
  <2>1. \A i \in 1 .. Len(ns) : ns[i].id /= t
    BY <1>1, <1>2, TargetIndex
  <2> QED
    BY <1>2, <2>1, TargetIndex
<1>3. CASE Target(ms, t) /= 0
  <2>1. PICK i \in 1 .. Len(ms) : i = Target(ms, t) /\ ms[i].id = t
                                  /\ \A j \in 1 .. Len(ms) : ms[j].id = t => i <= j
    BY <1>3, TargetIndex
  <2>2. PICK k \in 1 .. Len(ms) : k = Target(ns, t) /\ ns[k].id = t
                                  /\ \A j \in 1 .. Len(ms) : ns[j].id = t => k <= j
    BY <1>1, <2>1, TargetIndex
  <2> QED
    BY <1>1, <2>1, <2>2
<1> QED
  BY <1>2, <1>3

LEMMA AgreesToo ==
  ASSUME NEW ms, NEW ns, NEW os, Len(ms) \in Nat, Len(ns) = Len(ms), Continues(ms, ns),
         Agrees(ms, os)
  PROVE  Agrees(ns, os)
<1>1. ASSUME NEW t \in Nat
      PROVE  /\ t < Len(os) => /\ Target(ns, t) \in 1 .. Len(ns)
                               /\ ns[Target(ns, t)].role = os[t + 1].role
                               /\ ns[Target(ns, t)].key = os[t + 1].key
             /\ ~(t < Len(os)) => Target(ns, t) = 0
  <2>1. Target(ns, t) = Target(ms, t)
    BY TargetSame
  <2>2. CASE t < Len(os)
    <3>1. PICK i \in 1 .. Len(ms) : i = Target(ms, t) /\ ms[i].role = os[t + 1].role
                                    /\ ms[i].key = os[t + 1].key
      BY <2>2 DEF Agrees
    <3>2. ns[i].role = ms[i].role /\ ns[i].key = ms[i].key
      BY DEF Continues
    <3> QED
      BY <2>1, <2>2, <3>1, <3>2
  <2>3. CASE ~(t < Len(os))
    BY <2>1, <2>3 DEF Agrees
  <2> QED
    BY <2>2, <2>3
<1> QED
  BY <1>1 DEF Agrees

LEMMA TargetAppend ==
  ASSUME NEW ms \in Seq(Messages), NEW m \in Messages, NEW t
  PROVE  /\ Target(ms, t) /= 0 => Target(Append(ms, m), t) = Target(ms, t)
         /\ Target(ms, t) = 0 => Target(Append(ms, m), t) = IF m.id = t THEN Len(ms) + 1 ELSE 0
<1>1. PICK ns : ns = Append(ms, m)
  OBVIOUS
<1>2. Len(ms) \in Nat /\ Len(ns) = Len(ms) + 1 /\ ns[Len(ms) + 1] = m
      /\ \A i \in 1 .. Len(ms) : ns[i] = ms[i]
  BY <1>1, AppendIs
<1>3. \A i \in 1 .. Len(ns) : i \in 1 .. Len(ms) \/ (i = Len(ms) + 1 /\ ns[i] = m)
  BY <1>2
<1>4. CASE Target(ms, t) /= 0
  <2>1. PICK i \in 1 .. Len(ms) : i = Target(ms, t) /\ ms[i].id = t
                                  /\ \A j \in 1 .. Len(ms) : ms[j].id = t => i <= j
    BY <1>2, <1>4, TargetIndex
  <2>2. i \in 1 .. Len(ns) /\ ns[i].id = t
    BY <1>2, <2>1
  <2>3. PICK k \in 1 .. Len(ns) : k = Target(ns, t) /\ ns[k].id = t
                                  /\ \A j \in 1 .. Len(ns) : ns[j].id = t => k <= j
    BY <1>2, <2>2, TargetIndex
  <2>4. k <= i
    BY <2>2, <2>3
  <2>5. k \in 1 .. Len(ms) /\ ms[k].id = t
    BY <1>2, <2>3, <2>4
  <2> QED
    BY <1>1, <1>4, <2>1, <2>3, <2>4, <2>5
<1>5. CASE Target(ms, t) = 0 /\ m.id = t
  <2>1. \A i \in 1 .. Len(ms) : ms[i].id /= t
    BY <1>2, <1>5, TargetIndex
  <2>2. Len(ms) + 1 \in 1 .. Len(ns) /\ ns[Len(ms) + 1].id = t
    BY <1>2, <1>5
  <2>3. PICK k \in 1 .. Len(ns) : k = Target(ns, t) /\ ns[k].id = t
    BY <1>2, <2>2, TargetIndex
  <2> QED
    BY <1>1, <1>2, <1>3, <1>5, <2>1, <2>3
<1>6. CASE Target(ms, t) = 0 /\ m.id /= t
  <2>1. \A i \in 1 .. Len(ms) : ms[i].id /= t
    BY <1>2, <1>6, TargetIndex
  <2>2. \A i \in 1 .. Len(ns) : ns[i].id /= t
    BY <1>2, <1>3, <1>6, <2>1
  <2>3. Target(ns, t) = 0
    BY <1>2, <2>2, TargetIndex
  <2> QED
    BY <1>1, <1>6, <2>3
<1> QED
  BY <1>4, <1>5, <1>6

LEMMA AgreesAppend ==
  ASSUME NEW ms \in Seq(Messages), NEW ns \in Seq(Messages), NEW m \in Messages,
         Agrees(ms, ns), m.id = Len(ns)
  PROVE  Agrees(Append(ms, m), Append(ns, m))
<1>1. PICK mm, nn : mm = Append(ms, m) /\ nn = Append(ns, m)
  OBVIOUS
<1>2. Len(ms) \in Nat /\ Len(mm) = Len(ms) + 1 /\ mm[Len(ms) + 1] = m
      /\ \A i \in 1 .. Len(ms) : mm[i] = ms[i]
  BY <1>1, AppendIs
<1>3. Len(ns) \in Nat /\ Len(nn) = Len(ns) + 1 /\ nn[Len(ns) + 1] = m
      /\ \A i \in 1 .. Len(ns) : nn[i] = ns[i]
  BY <1>1, AppendIs
<1>4. ASSUME NEW t \in Nat
      PROVE  /\ t < Len(nn) => /\ Target(mm, t) \in 1 .. Len(mm)
                               /\ mm[Target(mm, t)].role = nn[t + 1].role
                               /\ mm[Target(mm, t)].key = nn[t + 1].key
             /\ ~(t < Len(nn)) => Target(mm, t) = 0
  <2>1. /\ Target(ms, t) /= 0 => Target(mm, t) = Target(ms, t)
        /\ Target(ms, t) = 0 => Target(mm, t) = IF m.id = t THEN Len(ms) + 1 ELSE 0
    BY <1>1, TargetAppend
  <2>2. CASE t < Len(ns)
    <3>1. PICK i \in 1 .. Len(ms) : i = Target(ms, t) /\ ms[i].role = ns[t + 1].role
                                    /\ ms[i].key = ns[t + 1].key
      BY <2>2 DEF Agrees
    <3>2. i /= 0 /\ i \in 1 .. Len(mm) /\ mm[i] = ms[i] /\ nn[t + 1] = ns[t + 1]
      BY <1>2, <1>3, <2>2
    <3> QED
      BY <1>3, <2>1, <2>2, <3>1, <3>2
  <2>3. CASE ~(t < Len(ns))
    <3>1. Target(ms, t) = 0
      BY <2>3 DEF Agrees
    <3>2. CASE t = Len(ns)
      BY <1>2, <1>3, <2>1, <3>1, <3>2
    <3>3. CASE t > Len(ns)
      BY <1>3, <2>1, <3>1, <3>3
    <3> QED
      BY <1>3, <2>3, <3>2, <3>3
  <2> QED
    BY <2>2, <2>3
<1> QED
  BY <1>1, <1>4 DEF Agrees

LEMMA AgreesTwice ==
  ASSUME NEW ms \in Seq(Messages), NEW ns, NEW m \in Messages, Agrees(ms, ns),
         Len(ns) \in Nat, m.id < Len(ns)
  PROVE  Agrees(Append(ms, m), ns)
<1>1. PICK mm : mm = Append(ms, m)
  OBVIOUS
<1>2. Len(ms) \in Nat /\ Len(mm) = Len(ms) + 1 /\ \A i \in 1 .. Len(ms) : mm[i] = ms[i]
  BY <1>1, AppendIs
<1>3. ASSUME NEW t \in Nat
      PROVE  /\ t < Len(ns) => /\ Target(mm, t) \in 1 .. Len(mm)
                               /\ mm[Target(mm, t)].role = ns[t + 1].role
                               /\ mm[Target(mm, t)].key = ns[t + 1].key
             /\ ~(t < Len(ns)) => Target(mm, t) = 0
  <2>1. /\ Target(ms, t) /= 0 => Target(mm, t) = Target(ms, t)
        /\ Target(ms, t) = 0 => Target(mm, t) = IF m.id = t THEN Len(ms) + 1 ELSE 0
    BY <1>1, TargetAppend
  <2>2. CASE t < Len(ns)
    <3>1. PICK i \in 1 .. Len(ms) : i = Target(ms, t) /\ ms[i].role = ns[t + 1].role
                                    /\ ms[i].key = ns[t + 1].key
      BY <2>2 DEF Agrees
    <3>2. i /= 0 /\ i \in 1 .. Len(mm) /\ mm[i] = ms[i]
      BY <1>2
    <3> QED
      BY <2>1, <2>2, <3>1, <3>2
  <2>3. CASE ~(t < Len(ns))
    <3>1. Target(ms, t) = 0 /\ m.id /= t
      BY <2>3, MessageParts DEF Agrees
    <3> QED
      BY <2>1, <2>3, <3>1
  <2> QED
    BY <2>2, <2>3
<1> QED
  BY <1>1, <1>3 DEF Agrees

(* The route folds a patch in step with the host ... *)
LEMMA AgreesApply ==
  ASSUME NEW s \in States, NEW t \in States, NEW op \in Ops, Kept(t.messages),
         Legal(t.messages, op),
         Agrees(s.messages, t.messages) \/ op.kind = "reset"
  PROVE  Agrees(ApplyPatch(s, op).messages, ApplyPatch(t, op).messages)
<1>1. /\ s.messages \in Seq(Messages) /\ Len(s.messages) \in Nat
      /\ t.messages \in Seq(Messages) /\ Len(t.messages) \in Nat
  BY StateParts
<1>2. CASE op.kind = "add"
  <2>1. /\ op.message \in Messages /\ LegalAdd(t.messages, op.message)
        /\ ApplyPatch(s, op).messages = Append(s.messages, op.message)
        /\ ApplyPatch(t, op).messages = Append(t.messages, op.message)
    BY <1>2, ApplyAdd DEF Legal
  <2> QED
    BY <1>1, <1>2, <2>1, AgreesAppend DEF LegalAdd
<1>3. CASE op.kind = "reset"
  <2>1. ApplyPatch(s, op).messages = <<>> /\ ApplyPatch(t, op).messages = <<>>
    BY <1>3, ApplyReset
  <2>2. Len(<<>>) = 0 /\ Kept(<<>>)
    BY DEF Kept
  <2> QED
    BY <2>1, <2>2, AgreesSelf
<1>4. CASE op.kind \notin {"add", "reset"}
  <2>1. PICK a, b : a = ApplyPatch(s, op).messages /\ b = ApplyPatch(t, op).messages
    OBVIOUS
  <2>2. Continues(s.messages, a) /\ Len(a) = Len(s.messages)
        /\ Continues(t.messages, b) /\ Len(b) = Len(t.messages)
    BY <1>4, <2>1, ApplyContinues
  <2>3. Agrees(s.messages, b)
    BY <1>1, <1>4, <2>2, AgreesOn
  <2> QED
    BY <1>1, <2>1, <2>2, <2>3, AgreesToo
<1> QED
  BY <1>2, <1>3, <1>4

(* ... and a patch that its copy already holds without effect on what it agrees with. *)
LEMMA AgreesAgain ==
  ASSUME NEW s \in States, NEW t \in States, NEW op \in Ops, op.kind /= "reset",
         Legal(t.messages, op), NEW ns, Len(ns) \in Nat, Agrees(s.messages, ns),
         Continues(ApplyPatch(t, op).messages, ns)
  PROVE  Agrees(ApplyPatch(s, op).messages, ns)
<1>1. /\ s.messages \in Seq(Messages) /\ Len(s.messages) \in Nat
      /\ t.messages \in Seq(Messages) /\ Len(t.messages) \in Nat
  BY StateParts
<1>2. CASE op.kind = "add"
  <2>1. /\ op.message \in Messages /\ LegalAdd(t.messages, op.message)
        /\ ApplyPatch(s, op).messages = Append(s.messages, op.message)
        /\ ApplyPatch(t, op).messages = Append(t.messages, op.message)
    BY <1>2, ApplyAdd DEF Legal
  <2>2. Len(Append(t.messages, op.message)) = Len(t.messages) + 1
    BY <1>1, <2>1, AppendIs
  <2>3. op.message.id < Len(ns)
    BY <1>1, <2>1, <2>2 DEF LegalAdd, Continues
  <2> QED
    BY <1>1, <2>1, <2>3, AgreesTwice
<1>3. CASE op.kind /= "add"
  <2>1. PICK a : a = ApplyPatch(s, op).messages
    OBVIOUS
  <2>2. Continues(s.messages, a) /\ Len(a) = Len(s.messages)
    BY <1>3, <2>1, ApplyContinues
  <2> QED
    BY <1>1, <2>1, <2>2, AgreesToo
<1> QED
  BY <1>2, <1>3

(* An update carries a patch to every viewer that shows the state before it. *)
Carries(u, s, t) == \A r \in States : Public(r) = Public(s) => Public(Reduce(r, u)) = Public(t)

LEMMA PublicIs ==
  ASSUME NEW r, NEW s
  PROVE  Public(r) = Public(s) <=>
           r.messages = s.messages /\ r.turn = s.turn /\ r.pending = s.pending
  BY DEF Public

LEMMA AddedPublic ==
  ASSUME NEW s \in States, NEW key, NEW role, NEW n, NEW m,
         m = [id |-> Len(s.messages), key |-> key, role |-> role, n |-> n]
  PROVE  /\ Add(s, key, role, n).messages = Append(s.messages, m)
         /\ Add(s, key, role, n).turn = TurnOf(s, role)
         /\ Add(s, key, role, n).pending = s.pending
<1>1. Add(s, key, role, n) = [s EXCEPT !.messages = Append(@, m), !.turn = TurnOf(s, role)]
  BY DEF Add
<1> QED
  BY <1>1 DEF States

(* A whole message that is not there is added. *)
LEMMA WholeAdds ==
  ASSUME NEW s \in States, NEW m \in Messages, LegalAdd(s.messages, m)
  PROVE  /\ Reduce(s, WholeMessage(m)).messages = Append(s.messages, m)
         /\ Reduce(s, WholeMessage(m)).turn = TurnOf(s, m.role)
         /\ Reduce(s, WholeMessage(m)).pending = s.pending
<1>1. PICK u : u = WholeMessage(m)
  OBVIOUS
<1>2. u.kind = "message" /\ u.key = m.key /\ u.role = m.role /\ u.n = m.n
  BY <1>1 DEF WholeMessage
<1>3. u.role = "user" \/ Same(s.messages, u.role, u.key) = 0
  BY <1>2, StateParts, SameIndex DEF LegalAdd
<1>4. Reduce(s, u) = Add(s, u.key, u.role, u.n)
  BY <1>2, <1>3 DEF Reduce, ReduceMessage, Same
<1>5. m = [id |-> Len(s.messages), key |-> m.key, role |-> m.role, n |-> m.n]
  BY DEF LegalAdd, Messages
<1> QED
  BY <1>1, <1>2, <1>4, <1>5, AddedPublic

LEMMA AddCarries ==
  ASSUME NEW s \in States, NEW op \in Ops, Legal(s.messages, op), op.kind = "add"
  PROVE  Carries(WholeMessage(op.message), s, ApplyPatch(s, op))
<1>1. PICK m : m = op.message
  OBVIOUS
<1>2. m \in Messages /\ LegalAdd(s.messages, m)
  BY <1>1, ApplyAdd DEF Legal
<1>3. ASSUME NEW r \in States, Public(r) = Public(s)
      PROVE  Public(Reduce(r, WholeMessage(m))) = Public(ApplyPatch(s, op))
  <2>1. r.messages = s.messages /\ r.turn = s.turn /\ r.pending = s.pending
    BY <1>3, PublicIs
  <2>2. /\ Reduce(r, WholeMessage(m)).messages = Append(r.messages, m)
        /\ Reduce(r, WholeMessage(m)).turn = TurnOf(r, m.role)
        /\ Reduce(r, WholeMessage(m)).pending = r.pending
    BY <1>2, <2>1, WholeAdds
  <2>3. TurnOf(r, m.role) = TurnOf(s, m.role)
    BY <2>1 DEF TurnOf
  <2>4. /\ ApplyPatch(s, op).messages = Append(s.messages, m)
        /\ ApplyPatch(s, op).turn = TurnOf(s, m.role)
        /\ ApplyPatch(s, op).pending = s.pending
    BY <1>1, ApplyAdd
  <2> QED
    BY <2>1, <2>2, <2>3, <2>4, PublicIs
<1> QED
  BY <1>1, <1>3 DEF Carries

LEMMA ChunkCarries ==
  ASSUME NEW s \in States, NEW op \in Ops, Kept(s.messages), Legal(s.messages, op),
         op.kind = "append", NEW k, k = s.messages[op.target + 1].key
  PROVE  Carries([kind |-> "chunk", key |-> k], s, ApplyPatch(s, op))
<1>1. PICK i : i = op.target + 1
  OBVIOUS
<1>2. i \in 1 .. Len(s.messages) /\ Continued(s.messages, k) = i /\ i /= 0
  BY <1>1 DEF Legal
<1>3. ApplyPatch(s, op) = Changed(s, i, s.messages[i].n + 1, "busy")
  BY <1>1, ApplyLegal
<1>4. ASSUME NEW r \in States, Public(r) = Public(s)
      PROVE  Public(Reduce(r, [kind |-> "chunk", key |-> k])) = Public(ApplyPatch(s, op))
  <2>1. r.messages = s.messages
    BY <1>4, PublicIs
  <2>2. PICK u : u = [kind |-> "chunk", key |-> k]
    OBVIOUS
  <2>3. u.kind = "chunk" /\ u.key = k
    BY <2>2
  <2>4. Reduce(r, u) = Changed(r, i, s.messages[i].n + 1, "busy")
    BY <1>2, <2>1, <2>3 DEF Reduce, ReduceChunk, Changed
  <2>5. PICK n : n = s.messages[i].n + 1
    OBVIOUS
  <2>6. Public(Changed(r, i, n, "busy")) = Public(Changed(s, i, n, "busy"))
    BY <1>2, <1>4, ChangedPublic
  <2> QED
    BY <1>3, <2>2, <2>4, <2>5, <2>6
<1> QED
  BY <1>4 DEF Carries

(* In a kept transcript the whole message of a tool finds its own. *)
LEMMA SameKeptTool ==
  ASSUME NEW ms, Len(ms) \in Nat, Kept(ms), NEW i \in 1 .. Len(ms), ms[i].role = "tool"
  PROVE  Same(ms, "tool", ms[i].key) = i
<1>1. PICK j \in 1 .. Len(ms) : j = Same(ms, "tool", ms[i].key) /\ ms[j].role = "tool"
                                /\ ms[j].key = ms[i].key
  BY SameIndex
<1> QED
  BY <1>1 DEF Kept

LEMMA ToolCarries ==
  ASSUME NEW s \in States, NEW op \in Ops, Kept(s.messages), Legal(s.messages, op),
         op.kind = "tool",
         NEW u, u.kind = "message", u.role = "tool", u.n = op.n,
         u.key = s.messages[op.target + 1].key
  PROVE  Carries(u, s, ApplyPatch(s, op))
<1>1. PICK i : i = op.target + 1
  OBVIOUS
<1>2. i \in 1 .. Len(s.messages) /\ s.messages[i].role = "tool" /\ i /= 0
  BY <1>1 DEF Legal
<1>3. Same(s.messages, u.role, u.key) = i
  BY <1>1, <1>2, StateParts, SameKeptTool
<1>4. ApplyPatch(s, op) = Changed(s, i, op.n, s.turn)
  BY <1>1, ApplyLegal
<1>5. ASSUME NEW r \in States, Public(r) = Public(s)
      PROVE  Public(Reduce(r, u)) = Public(ApplyPatch(s, op))
  <2>1. r.messages = s.messages /\ r.turn = s.turn
    BY <1>5, PublicIs
  <2>2. Reduce(r, u) = Changed(r, i, u.n, r.turn)
    BY <1>2, <1>3, <2>1 DEF Reduce, ReduceMessage, Same, Changed
  <2>3. PICK t : t = s.turn
    OBVIOUS
  <2>4. PICK n : n = op.n
    OBVIOUS
  <2>5. Public(Changed(r, i, n, t)) = Public(Changed(s, i, n, t))
    BY <1>2, <1>5, ChangedPublic
  <2> QED
    BY <1>4, <2>1, <2>2, <2>3, <2>4, <2>5
<1> QED
  BY <1>5 DEF Carries

LEMMA ResetCarries ==
  ASSUME NEW s \in States, NEW op \in Ops, op.kind = "reset"
  PROVE  Carries(Reset, s, ApplyPatch(s, op))
<1>1. Reset.kind = "reset"
  BY DEF Reset
<1>2. ASSUME NEW r \in States, Public(r) = Public(s)
      PROVE  Public(Reduce(r, Reset)) = Public(ApplyPatch(s, op))
  <2>1. r.messages = s.messages /\ r.turn = s.turn /\ r.pending = s.pending
    BY <1>2, PublicIs
  <2>2. Reduce(r, Reset) = ApplyPatch(r, op)
    BY <1>1 DEF Reduce, ApplyPatch
  <2> QED
    BY <2>1, <2>2, ApplyReset, PublicIs
<1> QED
  BY <1>2 DEF Carries

LEMMA SessionCarries ==
  ASSUME NEW s \in States, NEW op \in Ops, op.kind = "session"
  PROVE  Carries(Session(StateUpdate(op.changes)), s, ApplyPatch(s, op))
<1>1. PICK c : c = op.changes
  OBVIOUS
<1>2. c \in Changes /\ ApplyPatch(s, op) = Merged(s, c)
  BY <1>1, ApplySession
<1>3. PICK d : d = StateUpdate(c)
  OBVIOUS
<1>4. /\ d \in Changes
      /\ "turn" \in DOMAIN d <=> "turn" \in DOMAIN c
      /\ "turn" \in DOMAIN c => d.turn = c.turn
      /\ "pending" \in DOMAIN d <=> "pending" \in DOMAIN c
      /\ "pending" \in DOMAIN c => d.pending = c.pending
  <2>1. d \in Changes
    BY <1>2, <1>3, StateUpdateType
  <2> QED
    BY <1>3, <2>1 DEF StateUpdate
<1>5. PICK u : u = Session(d)
  OBVIOUS
<1>6. u.kind = "session" /\ u.changes = d
  BY <1>5 DEF Session
<1>7. ASSUME NEW r \in States, Public(r) = Public(s)
      PROVE  Public(Reduce(r, u)) = Public(ApplyPatch(s, op))
  <2>1. r.messages = s.messages /\ r.turn = s.turn /\ r.pending = s.pending
    BY <1>7, PublicIs
  <2>2. Reduce(r, u) = Merged(r, d)
    BY <1>4, <1>6, MergeIs DEF Reduce
  <2>3. /\ Merged(r, d).messages = Merged(s, c).messages
        /\ Merged(r, d).turn = Merged(s, c).turn
        /\ Merged(r, d).pending = Merged(s, c).pending
    BY <1>4, <2>1 DEF Merged
  <2> QED
    BY <1>2, <2>2, <2>3, PublicIs
<1> QED
  BY <1>1, <1>3, <1>5, <1>7 DEF Carries

(* A route whose copy agrees with the host's state writes one update for each patch, and  *)
(* that update carries it.                                                               *)
LEMMA UpdatesCarry ==
  ASSUME NEW s \in States, NEW t \in States, NEW op \in Ops, Kept(t.messages),
         Legal(t.messages, op), Agrees(s.messages, t.messages)
  PROVE  /\ Len(Updates(ApplyPatch(s, op), op)) = 1
         /\ Carries(Updates(ApplyPatch(s, op), op)[1], t, ApplyPatch(t, op))
<1> DEFINE us == Updates(ApplyPatch(s, op), op)
<1>1. CASE op.kind = "add"
  <2>1. us = <<WholeMessage(op.message)>>
    BY <1>1 DEF Updates
  <2> QED
    BY <1>1, <2>1, AddCarries
<1>2. CASE op.kind = "reset"
  <2>1. us = <<Reset>>
    BY <1>2 DEF Updates
  <2> QED
    BY <1>2, <2>1, ResetCarries
<1>3. CASE op.kind = "session"
  <2>1. us = <<Session(StateUpdate(op.changes))>>
    BY <1>3 DEF Updates
  <2> QED
    BY <1>3, <2>1, SessionCarries
<1>4. CASE op.kind \in {"append", "tool"}
  <2>1. PICK a : a = ApplyPatch(s, op).messages
    OBVIOUS
  <2>2. Continues(s.messages, a) /\ Len(a) = Len(s.messages)
    BY <1>4, <2>1, ApplyContinues
  <2>3. Agrees(a, t.messages)
    BY <2>2, StateParts, AgreesToo
  <2>4. PICK i : i = Target(a, op.target)
    OBVIOUS
  <2>5. op.target \in Nat /\ op.target + 1 \in 1 .. Len(t.messages) /\ Len(t.messages) \in Nat
        /\ Len(a) \in Nat
    BY <1>4, <2>2, StateParts DEF Legal, Ops
  <2>6. op.target < Len(t.messages)
    BY <2>5
  <2>7. /\ i \in 1 .. Len(a) /\ i /= 0
        /\ a[i].role = t.messages[op.target + 1].role /\ a[i].key = t.messages[op.target + 1].key
    BY <2>3, <2>4, <2>5, <2>6 DEF Agrees
  <2>8. CASE op.kind = "append"
    <3>1. a[i].role = "agent"
      BY <2>7, <2>8 DEF Legal
    <3>2. us = <<[kind |-> "chunk", key |-> a[i].key]>>
      BY <2>1, <2>4, <2>7, <2>8, <3>1 DEF Updates, Target
    <3>3. Carries([kind |-> "chunk", key |-> a[i].key], t, ApplyPatch(t, op))
      BY <2>7, <2>8, ChunkCarries
    <3> QED
      BY <3>2, <3>3
  <2>9. CASE op.kind = "tool"
    <3>1. a[i].role = "tool"
      BY <2>7, <2>9 DEF Legal
    <3>2. us = <<[WholeMessage(a[i]) EXCEPT !.n = op.n]>>
      BY <2>1, <2>4, <2>7, <2>9, <3>1 DEF Updates, Target
    <3>3. PICK u : u = [WholeMessage(a[i]) EXCEPT !.n = op.n]
      OBVIOUS
    <3>4. u.kind = "message" /\ u.role = "tool" /\ u.n = op.n
          /\ u.key = t.messages[op.target + 1].key
      BY <2>7, <3>1, <3>3 DEF WholeMessage
    <3>5. Carries(u, t, ApplyPatch(t, op))
      BY <2>9, <3>4, ToolCarries
    <3> QED
      BY <3>2, <3>3, <3>5
  <2> QED
    BY <1>4, <2>8, <2>9
<1> QED
  BY <1>1, <1>2, <1>3, <1>4 DEF Ops

(* Frame-zero: what a viewer rebuilds shows what the host had. *)
LEMMA RestIs ==
  ASSUME NEW s \in States
  PROVE  /\ Rest(s) \in Changes
         /\ "turn" \in DOMAIN Rest(s) /\ Rest(s).turn = s.turn
         /\ "pending" \in DOMAIN Rest(s) /\ Rest(s).pending = s.pending
<1>1. PICK c : c = [turn |-> s.turn, error |-> s.error, pending |-> s.pending]
  OBVIOUS
<1>2. /\ DOMAIN c = {"turn", "error", "pending"} /\ c.turn = s.turn /\ c.pending = s.pending
      /\ Rest(s) = StateUpdate(c)
  BY <1>1 DEF Rest
<1>3. /\ "turn" \in DOMAIN StateUpdate(c) /\ StateUpdate(c).turn = s.turn
      /\ "pending" \in DOMAIN StateUpdate(c) /\ StateUpdate(c).pending = s.pending
  BY <1>2 DEF StateUpdate
<1> QED
  BY <1>2, <1>3, RestType

(* The first k messages have been folded. *)
Restored(t, ms, k) ==
  Len(t.messages) = k /\ \A i \in 1 .. k : t.messages[i] = ms[i]

LEMMA RestoresNext ==
  ASSUME NEW t \in States, NEW ms \in Seq(Messages), Kept(ms), NEW k \in 1 .. Len(ms),
         Restored(t, ms, k - 1)
  PROVE  Restored(Reduce(t, WholeMessage(ms[k])), ms, k)
<1>1. PICK m : m = ms[k]
  OBVIOUS
<1>2. m \in Messages /\ k \in Nat /\ m.id = k - 1
  BY <1>1 DEF Kept
<1>3. t.messages \in Seq(Messages) /\ Len(t.messages) = k - 1
      /\ \A i \in 1 .. k - 1 : t.messages[i] = ms[i]
  BY StateParts DEF Restored
<1>4. LegalAdd(t.messages, m)
  <2>1. ASSUME NEW i \in 1 .. k - 1, m.role /= "user", t.messages[i].role = m.role
        PROVE  t.messages[i].key /= m.key
    <3>1. i \in 1 .. Len(ms) /\ i /= k
      OBVIOUS
    <3> QED
      BY <1>1, <1>3, <2>1, <3>1 DEF Kept
  <2> QED
    BY <1>2, <1>3, <2>1 DEF LegalAdd
<1>5. Reduce(t, WholeMessage(m)).messages = Append(t.messages, m)
  BY <1>2, <1>4, WholeAdds
<1>6. /\ Len(Append(t.messages, m)) = k /\ Append(t.messages, m)[k] = m
      /\ \A i \in 1 .. k - 1 : Append(t.messages, m)[i] = ms[i]
  BY <1>2, <1>3, AppendIs
<1>7. \A i \in 1 .. k : i = k \/ i \in 1 .. k - 1
  BY <1>2
<1> QED
  BY <1>1, <1>5, <1>6, <1>7 DEF Restored

LEMMA Restores ==
  ASSUME NEW f, NEW ms \in Seq(Messages), Kept(ms), f[0] = Initial,
         \A k \in 1 .. Len(ms) : f[k] = Reduce(f[k - 1], WholeMessage(ms[k])),
         \A k \in 0 .. Len(ms) : f[k] \in States
  PROVE  \A k \in 0 .. Len(ms) : Restored(f[k], ms, k)
<1> DEFINE T == {k \in 0 .. Len(ms) : ~Restored(f[k], ms, k)}
<1>1. SUFFICES ASSUME T /= {}
               PROVE  FALSE
  OBVIOUS
<1>2. PICK k \in T : \A y \in T : k <= y
  <2>1. T \in SUBSET Nat
    OBVIOUS
  <2> HIDE DEF T
  <2> QED
    BY <1>1, <2>1, LeastNat
<1>3. Restored(f[0], ms, 0)
  BY DEF Restored, Initial
<1>4. Len(ms) \in Nat /\ k \in 0 .. Len(ms) /\ k /= 0
  BY <1>3
<1>5. k \in 1 .. Len(ms) /\ k - 1 \in 0 .. Len(ms) /\ k - 1 \notin T
  BY <1>2, <1>4
<1>6. f[k - 1] \in States /\ Restored(f[k - 1], ms, k - 1)
  BY <1>5
<1>7. Restored(Reduce(f[k - 1], WholeMessage(ms[k])), ms, k)
  BY <1>5, <1>6, RestoresNext
<1> QED
  BY <1>5, <1>7

LEMMA RebuiltPublic ==
  ASSUME NEW s \in States, Kept(s.messages)
  PROVE  Public(Rebuilt(s)) = Public(s)
<1> DEFINE wholes == [i \in DOMAIN s.messages |-> WholeMessage(s.messages[i])]
           n == Len(s.messages)
<1>1. n \in Nat /\ DOMAIN s.messages = 1 .. n /\ s.messages \in Seq(Messages)
  BY StateParts
<1>2. DOMAIN wholes = 1 .. n
      /\ \A k \in 1 .. n : wholes[k] = WholeMessage(s.messages[k]) /\ wholes[k] \in Wires
  BY <1>1, StateParts, WholeMessageType
<1>3. Rebuilt(s) = Merge(FoldLeft(Reduce, Initial, wholes), Rest(s))
  BY DEF Rebuilt, Rest
<1> HIDE DEF wholes
<1>4. PICK f : /\ f[0] = Initial /\ f[n] = FoldLeft(Reduce, Initial, wholes)
               /\ \A k \in 1 .. n : f[k] = Reduce(f[k - 1], wholes[k])
  <2> HIDE DEF n
  <2> QED
    BY <1>1, <1>2, FoldUnrolls
<1>5. \A k \in 0 .. n : f[k] \in States
  <2> HIDE DEF n
  <2>1. \A k \in 1 .. n : wholes[k] \in Wires /\ f[k] = Reduce(f[k - 1], wholes[k])
    BY <1>2, <1>4
  <2> QED
    BY <1>1, <1>4, <2>1, FoldedStates, InitialType
<1>6. Restored(f[n], s.messages, n)
  <2>1. \A k \in 1 .. n : f[k] = Reduce(f[k - 1], WholeMessage(s.messages[k]))
    BY <1>2, <1>4
  <2>2. \A k \in 0 .. n : Restored(f[k], s.messages, k)
    BY <1>1, <1>4, <1>5, <2>1, Restores
  <2> QED
    BY <1>1, <2>2
<1>7. f[n] \in States /\ f[n].messages \in Seq(Messages)
  BY <1>1, <1>5, StateParts
<1>8. f[n].messages = s.messages
  <2>1. PICK a, b : a = f[n].messages /\ b = s.messages
    OBVIOUS
  <2>2. a \in Seq(Messages) /\ b \in Seq(Messages) /\ Len(a) = Len(b)
        /\ \A i \in 1 .. Len(a) : a[i] = b[i]
    BY <1>1, <1>6, <1>7, <2>1 DEF Restored
  <2>3. a = b
    BY <2>2
  <2> QED
    BY <2>1, <2>3
<1>9. PICK t, c : t = f[n] /\ c = Rest(s)
  OBVIOUS
<1>10. t \in States /\ t.messages = s.messages /\ c \in Changes
       /\ "turn" \in DOMAIN c /\ c.turn = s.turn
       /\ "pending" \in DOMAIN c /\ c.pending = s.pending
  BY <1>7, <1>8, <1>9, RestIs
<1>11. Rebuilt(s) = Merged(t, c)
  BY <1>3, <1>4, <1>9, <1>10, MergeIs
<1>12. Merged(t, c).messages = s.messages /\ Merged(t, c).turn = s.turn
       /\ Merged(t, c).pending = s.pending
  BY <1>10 DEF Merged
<1> QED
  BY <1>11, <1>12, PublicIs

-----------------------------------------------------------------------------
(* The stream follows the log: each patch on its way is the step of the log it names.    *)

Follows(st, l, p) ==
  \E k \in 2 .. Len(l) :
    /\ k = st + p.version
    /\ Legal(l[k - 1].messages, p.op)
    /\ l[k] = ApplyPatch(l[k - 1], p.op)

ResetIn(st, ps, low, high) ==
  \E i \in 1 .. Len(ps) :
    /\ ps[i].op.kind = "reset"
    /\ low < st + ps[i].version /\ st + ps[i].version <= high

(* A log and the stream of its last patches: between a state and the last one the        *)
(* transcript only grows, or a reset is on its way.                                      *)
Straight(st, l, q) ==
  /\ \A k \in 1 .. Len(l) : Kept(l[k].messages)
  /\ \A i \in 1 .. Len(l[Len(l)].messages) : l[Len(l)].messages[i].key < Len(l)
  /\ \A i \in 1 .. Len(q) : Follows(st, l, q[i])
  /\ \A k \in Len(l) - Len(q) .. Len(l) :
       Continues(l[k].messages, l[Len(l)].messages) \/ ResetIn(st, q, k, Len(l))

(* The same log and stream, later. *)
Later(l, q, m, r) ==
  /\ Len(l) <= Len(m) /\ Len(q) <= Len(r) /\ Len(m) - Len(r) = Len(l) - Len(q)
  /\ \A i \in 1 .. Len(l) : m[i] = l[i]
  /\ \A i \in 1 .. Len(q) : r[i] = q[i]

LEMMA LaterOn ==
  ASSUME NEW l, NEW q, NEW m, NEW r, NEW n, NEW u, Later(l, q, m, r), Later(m, r, n, u),
         Len(l) \in Nat, Len(q) \in Nat, Len(m) \in Nat, Len(r) \in Nat, Len(n) \in Nat,
         Len(u) \in Nat
  PROVE  Later(l, q, n, u)
<1>1. \A i \in 1 .. Len(l) : i \in 1 .. Len(m)
  BY DEF Later
<1>2. \A i \in 1 .. Len(q) : i \in 1 .. Len(r)
  BY DEF Later
<1>3. /\ \A i \in 1 .. Len(l) : n[i] = l[i]
      /\ \A i \in 1 .. Len(q) : u[i] = q[i]
  BY <1>1, <1>2 DEF Later
<1>4. /\ Len(l) <= Len(n) /\ Len(q) <= Len(u)
      /\ Len(n) - Len(u) = Len(l) - Len(q)
  BY SMTT(60) DEF Later
<1> QED
  BY <1>3, <1>4 DEF Later

LEMMA FollowsLater ==
  ASSUME NEW st, NEW l, NEW m, NEW p, Follows(st, l, p), Len(l) \in Nat, Len(m) \in Nat,
         Len(l) <= Len(m), \A i \in 1 .. Len(l) : m[i] = l[i]
  PROVE  Follows(st, m, p)
<1>1. PICK k \in 2 .. Len(l) : /\ k = st + p.version
                              /\ Legal(l[k - 1].messages, p.op)
                              /\ l[k] = ApplyPatch(l[k - 1], p.op)
  BY DEF Follows
<1>2. k \in 1 .. Len(l) /\ k - 1 \in 1 .. Len(l) /\ k \in 2 .. Len(m)
  OBVIOUS
<1>3. m[k] = l[k] /\ m[k - 1] = l[k - 1]
  BY <1>2
<1> QED
  BY <1>1, <1>2, <1>3 DEF Follows

LEMMA ResetLater ==
  ASSUME NEW st, NEW q, NEW r, NEW low, NEW high \in Nat, NEW up \in Nat, high <= up,
         Len(q) \in Nat, Len(r) \in Nat, Len(q) <= Len(r), \A i \in 1 .. Len(q) : r[i] = q[i],
         \A i \in 1 .. Len(q) : st + q[i].version \in Nat,
         ResetIn(st, q, low, high)
  PROVE  ResetIn(st, r, low, up)
<1>1. PICK i \in 1 .. Len(q) : /\ q[i].op.kind = "reset"
                               /\ low < st + q[i].version /\ st + q[i].version <= high
  BY DEF ResetIn
<1>2. i \in 1 .. Len(r) /\ r[i] = q[i]
  OBVIOUS
<1>3. st + r[i].version <= up
  BY <1>1, <1>2
<1> QED
  BY <1>1, <1>2, <1>3 DEF ResetIn

(* An emission. *)
LEMMA EmissionLater ==
  ASSUME NEW l, NEW q, Queue(l, q), start \in Nat, Straight(start, l, q), NEW op \in Ops,
         Legal(l[Len(l)].messages, op), op.kind = "add" => op.message.key <= Len(l)
  PROVE  /\ Straight(start, Extended(l, op), Queued(l, q, op))
         /\ Later(l, q, Extended(l, op), Queued(l, q, op))
<1>1. PICK m, r : m = Extended(l, op) /\ r = Queued(l, q, op)
  OBVIOUS
<1>2. PICK n : n = Len(l)
  OBVIOUS
<1>3. /\ l \in Seq(States) /\ q \in Seq(Patches) /\ n \in Nat \ {0} /\ Len(q) \in Nat
      /\ start \in Nat /\ start <= n - Len(q) /\ 1 <= n - Len(q) /\ n = Len(l)
  BY <1>2 DEF Queue
<1>4. /\ Queue(m, r) /\ Len(m) = n + 1 /\ Len(r) = Len(q) + 1
      /\ \A i \in 1 .. n : m[i] = l[i]
  BY <1>1, <1>2, QueueKeeps
<1>5. PICK p : p = [version |-> n + 1 - start, op |-> op]
  OBVIOUS
<1>6. r = Append(q, p) /\ p \in Patches /\ start + p.version = n + 1 /\ p.op = op
  BY <1>1, <1>2, <1>3, <1>5 DEF Queued, Patches
<1>7. (\A i \in 1 .. Len(q) : r[i] = q[i]) /\ r[Len(q) + 1] = p
  BY <1>3, <1>6
<1>8. Later(l, q, m, r)
  BY <1>2, <1>3, <1>4, <1>7 DEF Later
<1>9. PICK s, t : s = l[n] /\ t = ApplyPatch(s, op)
  OBVIOUS
<1>10. s \in States /\ t \in States /\ m[n + 1] = t
  <2>1. s \in States
    BY <1>3, <1>9
  <2>2. m = Append(l, t)
    BY <1>1, <1>2, <1>9 DEF Extended
  <2> QED
    BY <1>2, <1>3, <1>9, <2>1, <2>2, ApplyPatchType
<1>11. /\ s.messages \in Seq(Messages) /\ Len(s.messages) \in Nat
       /\ t.messages \in Seq(Messages) /\ Len(t.messages) \in Nat
  BY <1>10, StateParts
<1>12. Kept(s.messages) /\ Legal(s.messages, op)
  BY <1>2, <1>3, <1>9 DEF Straight
<1>13. Kept(t.messages)
  BY <1>9, <1>10, <1>12, ApplyKept
<1>14. \A k \in 1 .. Len(m) : k \in 1 .. n \/ k = n + 1
  BY <1>3, <1>4
<1>15. \A k \in 1 .. Len(m) : Kept(m[k].messages)
  BY <1>2, <1>4, <1>10, <1>13, <1>14 DEF Straight
<1>16. \A i \in 1 .. Len(t.messages) : t.messages[i].key < n + 1
  <2>1. \A i \in 1 .. Len(s.messages) : s.messages[i].key \in Nat /\ s.messages[i].key < n
    BY <1>2, <1>9, <1>10, StateParts, MessageParts DEF Straight
  <2>2. CASE op.kind = "add"
    <3>1. PICK e : e = op.message
      OBVIOUS
    <3>2. e \in Messages /\ t.messages = Append(s.messages, e) /\ e.key <= n /\ e.key \in Nat
      BY <1>2, <1>9, <1>10, <2>2, <3>1, ApplyAdd, MessageParts
    <3>3. /\ Len(t.messages) = Len(s.messages) + 1 /\ t.messages[Len(s.messages) + 1] = e
          /\ \A i \in 1 .. Len(s.messages) : t.messages[i] = s.messages[i]
      BY <1>11, <3>2, AppendIs
    <3>4. \A i \in 1 .. Len(t.messages) : i \in 1 .. Len(s.messages) \/ t.messages[i] = e
      BY <1>11, <3>3
    <3> QED
      BY <1>3, <2>1, <3>2, <3>3, <3>4, SMTT(60)
  <2>3. CASE op.kind = "reset"
    <3>1. t.messages = <<>> /\ Len(<<>>) = 0
      BY <1>9, <1>10, <2>3, ApplyReset
    <3> QED
      BY <3>1
  <2>4. CASE op.kind \notin {"add", "reset"}
    <3>1. Continues(s.messages, t.messages) /\ Len(t.messages) = Len(s.messages)
      BY <1>9, <1>10, <2>4, ApplyContinues
    <3>2. \A i \in 1 .. Len(s.messages) : t.messages[i].key = s.messages[i].key
      BY <3>1 DEF Continues
    <3>3. \A i \in 1 .. Len(t.messages) : t.messages[i].key \in Nat /\ t.messages[i].key < n
      BY <2>1, <3>1, <3>2
    <3> QED
      BY <1>3, <3>3
  <2> QED
    BY <2>2, <2>3, <2>4
<1>17. ASSUME NEW i \in 1 .. Len(r)
       PROVE  Follows(start, m, r[i])
  <2>1. CASE i = Len(q) + 1
    <3>1. PICK k : k = n + 1
      OBVIOUS
    <3>2. r[i] = p /\ k \in 2 .. Len(m) /\ m[k - 1] = s /\ m[k] = t
      BY <1>3, <1>4, <1>7, <1>9, <1>10, <2>1, <3>1
    <3>3. /\ k = start + p.version /\ Legal(m[k - 1].messages, p.op)
          /\ m[k] = ApplyPatch(m[k - 1], p.op)
      BY <1>6, <1>9, <1>12, <3>1, <3>2
    <3> QED
      BY <3>2, <3>3 DEF Follows
  <2>2. CASE i \in 1 .. Len(q)
    <3>1. Follows(start, l, q[i])
      BY <2>2 DEF Straight
    <3>2. Follows(start, m, q[i])
      BY <1>2, <1>3, <1>4, <3>1, FollowsLater
    <3> QED
      BY <1>7, <2>2, <3>2
  <2> QED
    BY <1>3, <1>4, <2>1, <2>2
<1>18. ASSUME NEW k \in n - Len(q) .. n + 1
       PROVE  Continues(m[k].messages, t.messages) \/ ResetIn(start, r, k, n + 1)
  <2>1. CASE k = n + 1
    BY <1>10, <1>11, <2>1, ContinuesSelf
  <2>2. CASE k \in n - Len(q) .. n
    <3>1. k \in 1 .. n /\ m[k] = l[k] /\ l[k] \in States /\ Len(l[k].messages) \in Nat
      <4>1. k \in 1 .. n /\ m[k] = l[k]
        BY <1>3, <1>4, <2>2
      <4>2. l[k] \in States
        BY <1>3, <4>1
      <4> QED
        BY <4>1, <4>2, StateParts
    <3>2. Continues(l[k].messages, s.messages) \/ ResetIn(start, q, k, n)
      BY <1>2, <1>9, <2>2 DEF Straight
    <3>3. CASE op.kind = "reset"
      <4>1. /\ Len(q) + 1 \in 1 .. Len(r) /\ r[Len(q) + 1].op.kind = "reset"
            /\ k < start + r[Len(q) + 1].version /\ start + r[Len(q) + 1].version <= n + 1
        BY <1>3, <1>4, <1>6, <1>7, <3>1, <3>3
      <4> QED
        BY <4>1 DEF ResetIn
    <3>4. CASE ResetIn(start, q, k, n)
      <4>1. \A i \in 1 .. Len(q) : start + q[i].version \in Nat
        <5>1. \A i \in 1 .. Len(q) : q[i] \in Patches
          BY <1>3
        <5>2. \A x \in Patches : x.version \in Nat
          BY DEF Patches
        <5> QED
          BY <1>3, <5>1, <5>2
      <4>2. ResetIn(start, r, k, n + 1)
        BY <1>3, <1>4, <1>7, <3>4, <4>1, ResetLater, SMTT(60)
      <4> QED
        BY <4>2
    <3>5. CASE Continues(l[k].messages, s.messages) /\ op.kind /= "reset"
      <4>1. Continues(s.messages, t.messages)
        BY <1>9, <1>10, <3>5, ApplyContinues
      <4>2. Continues(l[k].messages, t.messages)
        BY <1>11, <3>1, <3>5, <4>1, ContinuesOn
      <4> QED
        BY <3>1, <4>2
    <3> QED
      BY <3>2, <3>3, <3>4, <3>5
  <2> QED
    BY <1>3, <2>1, <2>2
<1>19. Len(m) - Len(r) = n - Len(q)
  BY <1>3, <1>4
<1>20. Straight(start, m, r)
  BY <1>4, <1>10, <1>15, <1>16, <1>17, <1>18, <1>19 DEF Straight
<1> QED
  BY <1>1, <1>8, <1>20

-----------------------------------------------------------------------------
(* The handlers of the host keep the stream straight.                       *)

Moves == Straight(start, log', source') /\ Later(log, source, log', source')

LEMMA EmitMoves ==
  ASSUME OrderInv, Straight(start, log, source), NEW op \in Ops, Emit(op),
         Legal(host.messages, op), op.kind = "add" => op.message.key <= Len(log)
  PROVE  Moves
<1>1. HostType /\ Queue(log, source) /\ start \in Nat
  BY DEF OrderInv, HostType, Queue
<1>2. log' = Extended(log, op) /\ source' = Queued(log, source, op)
  BY <1>1, EmitIs
<1> QED
  BY <1>1, <1>2, EmissionLater DEF Moves, host

LEMMA EmitBothMoves ==
  ASSUME OrderInv, Straight(start, log, source), NEW first \in Ops, NEW second \in Ops,
         EmitBoth(first, second), first.kind /= "add", Legal(host.messages, first),
         Legal(ApplyPatch(host, first).messages, second),
         second.kind = "add" => second.message.key <= Len(log)
  PROVE  Moves
<1>1. HostType /\ Queue(log, source) /\ start \in Nat /\ host \in States
  BY HostParts DEF OrderInv, HostType, Queue
<1>2. PICK l, q : l = Extended(log, first) /\ q = Queued(log, source, first)
  OBVIOUS
<1>3. /\ Straight(start, l, q) /\ Later(log, source, l, q) /\ Queue(l, q)
      /\ Len(l) = Len(log) + 1 /\ Len(q) = Len(source) + 1
  BY <1>1, <1>2, EmissionLater, QueueKeeps DEF host
<1>4. log' = Extended(l, second) /\ source' = Queued(l, q, second)
  BY <1>1, <1>2, EmitBothIs
<1>5. Len(log) \in Nat /\ Len(source) \in Nat /\ log \in Seq(States)
  BY <1>1 DEF Queue
<1>6. l[Len(l)] = ApplyPatch(host, first)
  <2>1. ApplyPatch(host, first) \in States
    BY <1>1, ApplyPatchType
  <2>2. l = Append(log, ApplyPatch(host, first))
    BY <1>2 DEF Extended, host
  <2> QED
    BY <1>3, <1>5, <2>1, <2>2
<1>7. second.kind = "add" => second.message.key <= Len(l)
  <2>1. ASSUME second.kind = "add"
        PROVE  second.message.key \in Nat
    BY <1>1, <2>1, ApplyAdd, MessageParts
  <2> QED
    BY <1>3, <1>5, <2>1
<1>8. /\ Straight(start, log', source') /\ Later(l, q, log', source')
      /\ Len(log') = Len(l) + 1 /\ Len(source') = Len(q) + 1
  <2>1. PICK m, r : m = Extended(l, second) /\ r = Queued(l, q, second)
    OBVIOUS
  <2>2. Legal(l[Len(l)].messages, second)
    BY <1>6
  <2>3. Straight(start, m, r) /\ Later(l, q, m, r)
    BY <1>1, <1>3, <1>7, <2>1, <2>2, EmissionLater
  <2>4. Len(m) = Len(l) + 1 /\ Len(r) = Len(q) + 1
    BY <1>1, <1>3, <2>1, QueueKeeps
  <2> QED
    BY <1>4, <2>1, <2>3, <2>4
<1>9. /\ Len(l) \in Nat /\ Len(q) \in Nat /\ Len(log') \in Nat /\ Len(source') \in Nat
  BY <1>3, <1>5, <1>8
<1> QED
  BY <1>3, <1>5, <1>8, <1>9, LaterOn DEF Moves

(* What the handlers emit is legal. *)
LEMMA QuietLegal ==
  ASSUME NEW ms, NEW op, op.kind \in {"reset", "session"}
  PROVE  Legal(ms, op)
  BY DEF Legal

LEMMA SessionIs ==
  ASSUME NEW s \in States, NEW c \in Changes
  PROVE  /\ Session(c) \in Ops /\ Session(c).kind = "session"
         /\ ApplyPatch(s, Session(c)).messages = s.messages
<1>1. Session(c) \in Ops /\ Session(c).kind = "session"
  BY SessionOpType DEF Session
<1> QED
  BY <1>1, ApplySession

LEMMA AddOpIs ==
  ASSUME NEW s \in States, NEW key \in Nat, NEW role \in Roles
  PROVE  /\ AddOp(s, key, role, 1) \in Ops /\ AddOp(s, key, role, 1).kind = "add"
         /\ AddOp(s, key, role, 1).message.id = Len(s.messages)
         /\ AddOp(s, key, role, 1).message.key = key
         /\ AddOp(s, key, role, 1).message.role = role
  BY AddOpType DEF AddOp

LEMMA AddOpLegal ==
  ASSUME NEW s \in States, NEW key \in Nat, NEW role \in Roles, NEW ms, ms = s.messages,
         role = "user" \/ \A i \in 1 .. Len(ms) : ms[i].role = role => ms[i].key /= key
  PROVE  Legal(ms, AddOp(s, key, role, 1))
  BY AddOpIs DEF Legal, LegalAdd

(* A key the host makes up is one no message has. *)
LEMMA FreshLegal ==
  ASSUME OrderInv, Straight(start, log, source), NEW role \in Roles
  PROVE  Legal(host.messages, AddOp(host, FreshKey, role, 1))
<1>1. host \in States /\ Len(log) \in Nat
  BY HostParts DEF OrderInv
<1>2. \A i \in 1 .. Len(host.messages) :
        host.messages[i].key \in Nat /\ host.messages[i].key < Len(log)
  BY <1>1, StateParts, MessageParts DEF Straight, host
<1>3. \A i \in 1 .. Len(host.messages) : host.messages[i].key /= Len(log)
  BY <1>1, <1>2
<1> QED
  BY <1>1, <1>3, AddOpLegal DEF FreshKey

LEMMA PromptMoves ==
  ASSUME OrderInv, Straight(start, log, source), Prompt
  PROVE  Moves
<1>1. host \in States /\ Len(log) \in Nat
  BY HostParts DEF OrderInv
<1>2. PICK op, c : op = AddOp(host, NoKey, "user", 1) /\ c = [turn |-> "waiting", error |-> FALSE]
  OBVIOUS
<1>3. /\ op \in Ops /\ op.kind = "add" /\ op.message.key = 0
      /\ Legal(host.messages, op)
  BY <1>1, <1>2, AddOpIs, AddOpLegal DEF NoKey, Roles
<1>4. op.message.key <= Len(log)
  BY <1>1, <1>3
<1>5. PICK first : first = Session(c)
  OBVIOUS
<1>6. /\ first \in Ops /\ first.kind = "session" /\ Legal(host.messages, first)
      /\ ApplyPatch(host, first).messages = host.messages
  <2>1. c \in Changes
    BY <1>2, TurnChanges DEF Turns
  <2>2. /\ first \in Ops /\ first.kind = "session"
        /\ ApplyPatch(host, first).messages = host.messages
    BY <1>1, <1>5, <2>1, SessionIs
  <2> QED
    BY <2>2, QuietLegal
<1>7. Emit(op) \/ EmitBoth(first, op)
  BY <1>2, <1>5 DEF Prompt
<1>8. CASE Emit(op)
  BY <1>3, <1>4, <1>8, EmitMoves
<1>9. CASE EmitBoth(first, op)
  BY <1>3, <1>4, <1>6, <1>9, EmitBothMoves
<1> QED
  BY <1>7, <1>8, <1>9

(* A patch of the session alone, or a reset. *)
LEMMA QuietMoves ==
  ASSUME OrderInv, Straight(start, log, source), NEW op \in Ops,
         op.kind \in {"reset", "session"}, Emit(op)
  PROVE  Moves
  BY QuietLegal, EmitMoves

LEMMA QuietBothMoves ==
  ASSUME OrderInv, Straight(start, log, source), NEW first \in Ops, NEW second \in Ops,
         first.kind \in {"reset", "session"}, second.kind \in {"reset", "session"},
         EmitBoth(first, second)
  PROVE  Moves
<1>1. Legal(host.messages, first) /\ Legal(ApplyPatch(host, first).messages, second)
  BY QuietLegal
<1> QED
  BY <1>1, EmitBothMoves

LEMMA TurnEndMoves ==
  ASSUME OrderInv, Straight(start, log, source), NEW failed \in BOOLEAN, TurnEnd(failed)
  PROVE  Moves
<1>1. PICK op : op = Session([turn |-> "idle", error |-> failed])
  OBVIOUS
<1>2. op \in Ops /\ op.kind = "session" /\ Emit(op)
  BY <1>1, TurnChanges, SessionOpType DEF TurnEnd, Session, Turns
<1> QED
  BY <1>2, QuietMoves

LEMMA PendingMoves ==
  ASSUME OrderInv, Straight(start, log, source), Pending
  PROVE  Moves
<1>1. PICK op : op = Session([pending |-> ~host.pending])
  OBVIOUS
<1>2. (~host.pending) \in BOOLEAN
  OBVIOUS
<1>3. op \in Ops /\ op.kind = "session" /\ Emit(op)
  BY <1>1, <1>2, TurnChanges, SessionOpType DEF Pending, Session, Turns
<1> QED
  BY <1>3, QuietMoves

LEMMA ResetIs == Reset \in Ops /\ Reset.kind = "reset"
  BY ResetOpType DEF Reset

LEMMA SwitchMoves ==
  ASSUME OrderInv, Straight(start, log, source),
         \/ \E v \in Viewers, target \in Targets : SwitchBegin(v, target)
         \/ SwitchSucceeds
         \/ SwitchFails
  PROVE  Moves
<1>1. CASE \E v \in Viewers, target \in Targets : SwitchBegin(v, target)
  <2>1. PICK op : op = Session([pending |-> FALSE])
    OBVIOUS
  <2>2. op \in Ops /\ op.kind = "session"
    BY <2>1, TurnChanges, SessionOpType DEF Session, Turns
  <2>3. EmitBoth(op, Reset) \/ Emit(Reset)
    BY <1>1, <2>1 DEF SwitchBegin
  <2> QED
    BY <2>2, <2>3, ResetIs, QuietMoves, QuietBothMoves
<1>2. CASE SwitchSucceeds
  <2>1. PICK op : op = Session([turn |-> "idle", error |-> FALSE])
    OBVIOUS
  <2>2. op \in Ops /\ op.kind = "session" /\ Emit(op)
    BY <1>2, <2>1, TurnChanges, SessionOpType DEF Session, SwitchSucceeds, Turns
  <2> QED
    BY <2>2, QuietMoves
<1>3. CASE SwitchFails
  <2>1. PICK op : op = Session([turn |-> "idle"])
    OBVIOUS
  <2>2. op \in Ops /\ op.kind = "session" /\ EmitBoth(Reset, op)
    BY <1>3, <2>1, TurnChanges, SessionOpType DEF Session, SwitchFails, Turns
  <2> QED
    BY <2>2, ResetIs, QuietBothMoves
<1> QED
  BY <1>1, <1>2, <1>3

LEMMA AgentChunkMoves ==
  ASSUME ~Interleaves, OrderInv, Straight(start, log, source), NEW key \in ChunkKeys,
         AgentChunk(key)
  PROVE  Moves
<1>1. host \in States /\ Len(log) \in Nat \ {0} /\ host.messages \in Seq(Messages)
      /\ Len(host.messages) \in Nat
  BY HostParts, StateParts DEF OrderInv
<1>2. PICK ms, i : ms = host.messages /\ i = Continued(ms, key)
  OBVIOUS
<1>3. CASE i = 0
  <2>1. key = Len(log)
    <3>1. key = FreshKey \/ Continued(host.messages, key) /= 0
      BY Zenon DEF ChunkKeys
    <3> QED
      BY <1>2, <1>3, <3>1 DEF FreshKey
  <2>2. PICK op : op = AddOp(host, FreshKey, "agent", 1)
    OBVIOUS
  <2>3. op \in Ops /\ op.message.key = Len(log) /\ Legal(host.messages, op)
    BY <1>1, <2>2, FreshLegal, AddOpIs DEF FreshKey, Roles
  <2>4. Emit(op)
    BY <1>2, <1>3, <2>1, <2>2 DEF AgentChunk, FreshKey
  <2> QED
    BY <1>1, <2>3, <2>4, EmitMoves
<1>4. CASE i /= 0
  <2>1. i \in 1 .. Len(ms) /\ ms[i].role = "agent" /\ ms[i].key = key /\ ms[i] \in Messages
    BY <1>1, <1>2, <1>4, ContinuedIndex
  <2>2. PICK op : op = AppendOp(ms[i])
    OBVIOUS
  <2>3. op.kind = "append" /\ op.n = 1 /\ op.target = ms[i].id /\ op \in Ops
    BY <2>1, <2>2, MessageOpType DEF AppendOp
  <2>4. Kept(ms)
    BY <1>1, <1>2 DEF Straight, host
  <2>5. op.target = i - 1
    BY <2>1, <2>3, <2>4 DEF Kept
  <2>6. op.target + 1 = i
    BY <2>1, <2>5
  <2>7. Legal(ms, op)
    BY <1>2, <2>1, <2>3, <2>6 DEF Legal
  <2>8. Emit(op)
    BY <1>2, <1>4, <2>2 DEF AgentChunk
  <2> QED
    BY <1>2, <2>3, <2>7, <2>8, EmitMoves
<1> QED
  BY <1>3, <1>4

LEMMA AgentToolMoves ==
  ASSUME OrderInv, Straight(start, log, source), AgentTool
  PROVE  Moves
<1>1. host \in States /\ Len(log) \in Nat \ {0} /\ host.messages \in Seq(Messages)
      /\ Len(host.messages) \in Nat
  BY HostParts, StateParts DEF OrderInv
<1>2. CASE Emit(AddOp(host, FreshKey, "tool", 1))
  <2>1. PICK op : op = AddOp(host, FreshKey, "tool", 1)
    OBVIOUS
  <2>2. op \in Ops /\ op.message.key = Len(log) /\ Legal(host.messages, op)
    BY <1>1, <2>1, FreshLegal, AddOpIs DEF FreshKey, Roles
  <2> QED
    BY <1>1, <1>2, <2>1, <2>2, EmitMoves
<1>3. CASE \E m \in Range(host.messages) : m.role = "tool" /\ Emit(ToolOp(m))
  <2>1. PICK m \in Range(host.messages) : m.role = "tool" /\ Emit(ToolOp(m))
    BY <1>3
  <2>2. PICK ms : ms = host.messages
    OBVIOUS
  <2>3. PICK i \in 1 .. Len(ms) : ms[i] = m
    BY <1>1, <2>2 DEF Range
  <2>4. PICK op : op = ToolOp(m)
    OBVIOUS
  <2>5. op.kind = "tool" /\ op.target = m.id /\ op \in Ops
    BY <1>1, <2>2, <2>3, <2>4, MessageOpType DEF ToolOp
  <2>6. Kept(ms)
    BY <1>1, <2>2 DEF Straight, host
  <2>7. op.target = i - 1
    BY <2>3, <2>5, <2>6 DEF Kept
  <2>8. op.target + 1 = i
    BY <1>1, <2>2, <2>7
  <2>9. Legal(ms, op)
    BY <2>1, <2>3, <2>5, <2>8 DEF Legal
  <2> QED
    BY <2>1, <2>2, <2>4, <2>5, <2>9, EmitMoves
<1> QED
  BY <1>2, <1>3 DEF AgentTool

-----------------------------------------------------------------------------
(* The route and the viewer follow the log.                                 *)

(* The state a viewer shows, or will show when it has taken frame-zero. *)
Floor(st, nt, at) == IF Joins(nt) THEN st + nt[1].version ELSE at

(* The route's copy agrees with the state it has served up to, at p; or, when the frame-zero  *)
(* of s is ahead of that, with the state of s, until a reset brings the two together.         *)
Copied(st, l, q, ib, sv, p, s) ==
  \/ Agrees(sv.messages, l[p].messages)
  \/ /\ p < s /\ Agrees(sv.messages, l[s].messages)
     /\ \A k \in p .. s : Continues(l[k].messages, l[s].messages)
  \/ ResetIn(st, ib, p, s)
  \/ ResetIn(st, q, p, s)

(* The frames that are later than what the viewer shows carry the steps of the log from there *)
(* on, one by one, up to the last one served.                                                 *)
Sent(st, l, nt, p, s) ==
  /\ Joins(nt) => nt[1].state = l[s]
  /\ \A i \in 1 .. Len(nt) : nt[i].kind = "update" => st + nt[i].version <= p
  /\ \A i \in 1 .. Len(nt) : \A k \in Nat :
       k = st + nt[i].version /\ s < k =>
         /\ k = s + 1 \/ (i > 1 /\ st + nt[i - 1].version = k - 1)
         /\ Carries(nt[i].update, l[k - 1], l[k])
  /\ s < p => Len(nt) > 0 /\ st + nt[Len(nt)].version = p

Routed(st, l, q, ib, sv, nt, p, s) ==
  /\ \A i \in 1 .. Len(ib) : Follows(st, l, ib[i])
  /\ Copied(st, l, q, ib, sv, p, s)
  /\ Sent(st, l, nt, p, s)

StreamInv ==
  /\ Straight(start, log, source)
  /\ \A v \in Viewers :
       link[v] = "open" =>
         Routed(start, log, source, inbox[v], served[v], net[v], Served(v),
                Floor(start, net[v], view[v].at))
  /\ ViewsAgree

LEMMA FloorIs ==
  ASSUME OrderInv, CurrentInv, NEW v \in Viewers, link[v] = "open"
  PROVE  /\ Floor(start, net[v], view[v].at) \in start .. Len(log)
         /\ Served(v) \in start .. Drained /\ Served(v) = Drained - Len(inbox[v])
         /\ start \in 1 .. Drained /\ Drained <= Len(log) /\ Drained \in Nat /\ Len(log) \in Nat
         /\ Drained = Len(log) - Len(source) /\ Len(source) \in Nat /\ Len(inbox[v]) \in Nat
         /\ \A i \in 1 .. Len(inbox[v]) : start + inbox[v][i].version = Served(v) + i
         /\ \A i \in 1 .. Len(net[v]) : /\ net[v][i] \in Frames /\ net[v][i].version \in Nat
                                        /\ start + net[v][i].version <= Len(log)
<1>1. /\ inbox[v] \in Seq(Patches) /\ net[v] \in Seq(Frames) /\ view[v].at \in Nat
      /\ view[v].at <= Len(log) /\ start \in 1 .. Drained /\ Drained \in Nat
      /\ Drained <= Len(log) /\ Len(log) \in Nat /\ StreamOrder(v)
  BY OrderParts
<1>2. Current(v)
  BY DEF CurrentInv
<1>3. /\ start <= Drained - Len(inbox[v])
      /\ \A i \in 1 .. Len(inbox[v]) : start + inbox[v][i].version = Drained - Len(inbox[v]) + i
      /\ \A i \in 1 .. Len(net[v]) : start + net[v][i].version <= Len(log)
  BY <1>1 DEF StreamOrder, InOrder
<1>4. Len(source) \in Nat /\ Drained = Len(log) - Len(source) /\ Len(inbox[v]) \in Nat
  BY <1>1 DEF OrderInv, HostType, Queue, Drained
<1>5. Served(v) \in start .. Drained /\ Served(v) = Drained - Len(inbox[v])
  BY <1>1, <1>3, <1>4 DEF Served
<1>6. \A i \in 1 .. Len(net[v]) : net[v][i] \in Frames /\ net[v][i].version \in Nat
  BY <1>1, FrameParts
<1>7. Floor(start, net[v], view[v].at) \in start .. Len(log)
  <2>1. CASE Joins(net[v])
    <3>1. 1 \in 1 .. Len(net[v])
      BY <1>1, <2>1 DEF Joins
    <3> QED
      BY <1>1, <1>3, <1>6, <2>1, <3>1 DEF Floor
  <2>2. CASE ~Joins(net[v])
    BY <1>1, <1>2, <2>2 DEF Floor, Current, CurrentView
  <2> QED
    BY <2>1, <2>2
<1> QED
  BY <1>1, <1>3, <1>4, <1>5, <1>6, <1>7

(* A longer log and stream change nothing for the route and the viewer. *)
LEMMA RoutedLater ==
  ASSUME NEW st \in Nat, NEW l, NEW q, NEW m, NEW r, Len(l) \in Nat, Len(q) \in Nat,
         Len(m) \in Nat, Len(r) \in Nat, Later(l, q, m, r),
         NEW ib, NEW sv, NEW nt, NEW p \in 1 .. Len(l), NEW s \in 1 .. Len(l),
         \A i \in 1 .. Len(q) : st + q[i].version \in Nat,
         \A i \in 1 .. Len(nt) : st + nt[i].version <= Len(l),
         Routed(st, l, q, ib, sv, nt, p, s)
  PROVE  Routed(st, m, r, ib, sv, nt, p, s)
<1>1. /\ Len(l) <= Len(m) /\ Len(q) <= Len(r)
      /\ \A i \in 1 .. Len(l) : m[i] = l[i]
      /\ \A i \in 1 .. Len(q) : r[i] = q[i]
  BY DEF Later
<1>2. \A i \in 1 .. Len(ib) : Follows(st, m, ib[i])
  BY <1>1, FollowsLater DEF Routed
<1>3. m[p] = l[p] /\ m[s] = l[s] /\ \A k \in p .. s : m[k] = l[k]
  BY <1>1
<1>4. Copied(st, m, r, ib, sv, p, s)
  <2>1. ResetIn(st, q, p, s) => ResetIn(st, r, p, s)
    BY <1>1, ResetLater
  <2>2. Copied(st, l, q, ib, sv, p, s)
    BY DEF Routed
  <2> QED
    BY <1>3, <2>1, <2>2 DEF Copied
<1>5. Sent(st, m, nt, p, s)
  <2>1. Sent(st, l, nt, p, s)
    BY DEF Routed
  <2>2. \A i \in 1 .. Len(nt) : \A k \in Nat :
          k = st + nt[i].version /\ s < k => m[k] = l[k] /\ m[k - 1] = l[k - 1]
    <3>1. ASSUME NEW k \in Nat, s < k, k <= Len(l)
          PROVE  m[k] = l[k] /\ m[k - 1] = l[k - 1]
      <4>1. k \in 1 .. Len(l) /\ k - 1 \in 1 .. Len(l)
        BY <3>1
      <4> QED
        BY <1>1, <4>1
    <3> QED
      BY <3>1
  <2> QED
    BY <1>3, <2>1, <2>2 DEF Sent
<1> QED
  BY <1>2, <1>4, <1>5 DEF Routed

LEMMA PatchesNat ==
  ASSUME OrderInv
  PROVE  /\ \A i \in 1 .. Len(source) : source[i] \in Patches /\ source[i].op \in Ops
                                        /\ start + source[i].version \in Nat
         /\ Len(source) \in Nat /\ start \in Nat /\ Len(log) \in Nat
<1>1. source \in Seq(Patches) /\ start \in Nat /\ Len(log) \in Nat /\ Len(source) \in Nat
  BY HostParts DEF OrderInv, HostType, Queue
<1>2. \A x \in Patches : x.version \in Nat /\ x.op \in Ops
  BY DEF Patches
<1> QED
  BY <1>1, <1>2

LEMMA AgreeLater ==
  ASSUME OrderInv, ViewsAgree, UNCHANGED view, Len(log') \in Nat, Len(log) <= Len(log'),
         \A i \in 1 .. Len(log) : log'[i] = log[i]
  PROVE  ViewsAgree'
<1>1. ASSUME NEW v \in Viewers, view[v].at > 0
      PROVE  Public(view[v].state) = Public(log'[view[v].at])
  <2>1. view[v].at \in 1 .. Len(log)
    BY <1>1, OrderParts
  <2> QED
    BY <1>1, <2>1 DEF ViewsAgree
<1> QED
  BY <1>1 DEF ViewsAgree

LEMMA MovedKeeps ==
  ASSUME OrderInv, CurrentInv, StreamInv, HostStep, Moves, Len(log') \in Nat, Len(source') \in Nat
  PROVE  StreamInv'
<1>1. UNCHANGED <<start, link, inbox, served, net, view>>
  BY DEF HostStep
<1>2. Later(log, source, log', source') /\ Straight(start, log', source')
  BY DEF Moves
<1>3. Len(log') - Len(source') = Len(log) - Len(source) /\ Len(log) <= Len(log')
      /\ \A i \in 1 .. Len(log) : log'[i] = log[i]
  BY <1>2 DEF Later
<1>4. ASSUME NEW v \in Viewers, link[v] = "open"
      PROVE  Routed(start, log', source', inbox[v], served[v], net[v], Served(v),
                    Floor(start, net[v], view[v].at))
  <2>1. PICK p, s : p = Served(v) /\ s = Floor(start, net[v], view[v].at)
    OBVIOUS
  <2>2. p \in 1 .. Len(log) /\ s \in 1 .. Len(log)
    BY <1>4, <2>1, FloorIs
  <2>3. \A i \in 1 .. Len(net[v]) : start + net[v][i].version <= Len(log)
    BY <1>4, FloorIs
  <2>4. Routed(start, log, source, inbox[v], served[v], net[v], p, s)
    BY <1>4, <2>1 DEF StreamInv
  <2>5. Routed(start, log', source', inbox[v], served[v], net[v], p, s)
    BY <1>2, <2>2, <2>3, <2>4, PatchesNat, RoutedLater
  <2> QED
    BY <2>1, <2>5
<1>5. \A v \in Viewers : Served(v)' = Served(v)
  BY <1>1, <1>3 DEF Served, Drained
<1>6. ViewsAgree'
  BY <1>1, <1>3, AgreeLater DEF StreamInv
<1> QED
  BY <1>1, <1>2, <1>4, <1>5, <1>6 DEF StreamInv

LEMMA HostMoves ==
  ASSUME ~Interleaves, OrderInv, Straight(start, log, source), HostNext
  PROVE  (Moves /\ HostStep) \/ Rebuild
<1>1. CASE Prompt
  <2>1. HostStep
    BY <1>1 DEF Prompt
  <2> QED
    BY <1>1, <2>1, PromptMoves
<1>2. CASE \E failed \in BOOLEAN : TurnEnd(failed)
  <2>1. PICK failed \in BOOLEAN : TurnEnd(failed)
    BY <1>2
  <2>2. HostStep
    BY <2>1 DEF TurnEnd
  <2> QED
    BY <2>1, <2>2, TurnEndMoves
<1>3. CASE \E key \in ChunkKeys : AgentChunk(key)
  <2>1. PICK key \in ChunkKeys : AgentChunk(key)
    BY <1>3
  <2>2. HostStep
    BY <2>1 DEF AgentChunk
  <2> QED
    BY <2>1, <2>2, AgentChunkMoves
<1>4. CASE AgentTool
  <2>1. HostStep
    BY <1>4 DEF AgentTool
  <2> QED
    BY <1>4, <2>1, AgentToolMoves
<1>5. CASE Pending
  <2>1. HostStep
    BY <1>5 DEF Pending
  <2> QED
    BY <1>5, <2>1, PendingMoves
<1>6. CASE \/ \E v \in Viewers, target \in Targets : SwitchBegin(v, target)
           \/ SwitchSucceeds
           \/ SwitchFails
  <2>1. HostStep
    BY <1>6 DEF SwitchBegin, SwitchSucceeds, SwitchFails
  <2> QED
    BY <1>6, <2>1, SwitchMoves
<1> QED
  BY <1>1, <1>2, <1>3, <1>4, <1>5, <1>6 DEF HostNext

(* A new host begins a stream of its own, which no connection follows yet.               *)
LEMMA RebuildKeeps ==
  ASSUME OrderInv, StreamInv, Rebuild
  PROVE  /\ StreamInv' /\ UNCHANGED view /\ Len(log') = Len(log) + 1
         /\ \A i \in 1 .. Len(log) : log'[i] = log[i]
<1>1. /\ log' = Append(log, Initial) /\ source' = <<>> /\ UNCHANGED view
      /\ link' = [v \in Viewers |-> "away"]
  BY DEF Rebuild
<1>2. log \in Seq(States) /\ Len(log) \in Nat \ {0} /\ Initial \in States
  BY HostParts, InitialType DEF OrderInv
<1>3. PICK l : l = log'
  OBVIOUS
<1>4. PICK n : n = Len(log)
  OBVIOUS
<1>5. /\ n \in Nat \ {0} /\ Len(l) = n + 1 /\ l[n + 1] = Initial
      /\ \A i \in 1 .. n : l[i] = log[i]
  BY <1>1, <1>2, <1>3, <1>4
<1>6. Initial.messages = <<>> /\ Len(Initial.messages) = 0
  BY DEF Initial
<1>7. Kept(Initial.messages)
  BY <1>6 DEF Kept
<1>8. \A k \in 1 .. Len(l) : Kept(l[k].messages)
  <2>1. \A k \in 1 .. Len(l) : k \in 1 .. n \/ k = n + 1
    BY <1>5
  <2> QED
    BY <1>4, <1>5, <1>7, <2>1 DEF StreamInv, Straight
<1>9. PICK q : q = source'
  OBVIOUS
<1>10. Len(q) = 0
  BY <1>1, <1>9
<1>11. Straight(start', l, q)
  <2>1. \A i \in 1 .. Len(l[Len(l)].messages) : l[Len(l)].messages[i].key < Len(l)
    BY <1>5, <1>6
  <2>2. \A i \in 1 .. Len(q) : Follows(start', l, q[i])
    BY <1>10
  <2>3. \A k \in Len(l) - Len(q) .. Len(l) : Continues(l[k].messages, l[Len(l)].messages)
    <3>1. \A k \in Len(l) - Len(q) .. Len(l) : k = n + 1
      BY <1>5, <1>10
    <3>2. Continues(Initial.messages, Initial.messages)
      BY <1>6, ContinuesSelf
    <3> QED
      BY <1>5, <3>1, <3>2
  <2> QED
    BY <1>8, <2>1, <2>2, <2>3 DEF Straight
<1>12. ViewsAgree'
  BY <1>1, <1>3, <1>4, <1>5, AgreeLater DEF StreamInv
<1>13. \A v \in Viewers : link'[v] /= "open"
  BY <1>1
<1> QED
  BY <1>1, <1>3, <1>4, <1>5, <1>9, <1>11, <1>12, <1>13 DEF StreamInv

-----------------------------------------------------------------------------
(* The broadcaster and the route. *)

(* A reset that a subscription still has to come to: with the patch at its head, or behind it. *)
LEMMA ResetMoved ==
  ASSUME NEW st, NEW q \in Seq(Patches), q /= <<>>, NEW ib \in Seq(Patches), NEW low, NEW high,
         ResetIn(st, q, low, high) \/ ResetIn(st, ib, low, high)
  PROVE  ResetIn(st, Tail(q), low, high) \/ ResetIn(st, Append(ib, Head(q)), low, high)
<1>1. PICK j, r : j = Append(ib, q[1]) /\ r = Tail(q)
  OBVIOUS
<1>2. /\ Len(j) = Len(ib) + 1 /\ j[Len(ib) + 1] = q[1] /\ \A i \in 1 .. Len(ib) : j[i] = ib[i]
      /\ Len(q) \in Nat /\ Len(r) = Len(q) - 1 /\ \A i \in 1 .. Len(r) : r[i] = q[i + 1]
      /\ Len(ib) \in Nat /\ Head(q) = q[1]
  BY <1>1
<1>3. CASE ResetIn(st, ib, low, high)
  <2>1. PICK i \in 1 .. Len(ib) : /\ ib[i].op.kind = "reset"
                                  /\ low < st + ib[i].version /\ st + ib[i].version <= high
    BY <1>3 DEF ResetIn
  <2>2. i \in 1 .. Len(j) /\ j[i] = ib[i]
    BY <1>2
  <2> QED
    BY <1>1, <1>2, <2>1, <2>2 DEF ResetIn
<1>4. CASE ResetIn(st, q, low, high)
  <2>1. PICK i \in 1 .. Len(q) : /\ q[i].op.kind = "reset"
                                 /\ low < st + q[i].version /\ st + q[i].version <= high
    BY <1>4 DEF ResetIn
  <2>2. CASE i = 1
    <3>1. PICK k : k = Len(ib) + 1
      OBVIOUS
    <3>2. k \in 1 .. Len(j) /\ j[k] = q[i]
      BY <1>2, <2>2, <3>1
    <3> QED
      BY <1>1, <1>2, <2>1, <3>2 DEF ResetIn
  <2>3. CASE i /= 1
    <3>1. PICK k : k = i - 1
      OBVIOUS
    <3>2. k \in 1 .. Len(r) /\ r[k] = q[i]
      BY <1>2, <2>3, <3>1
    <3> QED
      BY <1>1, <2>1, <3>2 DEF ResetIn
  <2> QED
    BY <2>2, <2>3
<1> QED
  BY <1>3, <1>4

LEMMA RoutedDispatched ==
  ASSUME NEW st, NEW l, NEW q \in Seq(Patches), q /= <<>>, Follows(st, l, q[1]),
         NEW ib \in Seq(Patches), NEW sv, NEW nt, NEW p, NEW s,
         Routed(st, l, q, ib, sv, nt, p, s)
  PROVE  Routed(st, l, Tail(q), Append(ib, Head(q)), sv, nt, p, s)
<1>1. PICK j : j = Append(ib, Head(q))
  OBVIOUS
<1>2. /\ Len(j) = Len(ib) + 1 /\ j[Len(ib) + 1] = q[1] /\ \A i \in 1 .. Len(ib) : j[i] = ib[i]
      /\ Len(ib) \in Nat
  BY <1>1
<1>3. \A i \in 1 .. Len(j) : Follows(st, l, j[i])
  <2>1. \A i \in 1 .. Len(j) : i \in 1 .. Len(ib) \/ j[i] = q[1]
    BY <1>2
  <2> QED
    BY <1>2, <2>1 DEF Routed
<1>4. Copied(st, l, Tail(q), j, sv, p, s)
  <2>1. Copied(st, l, q, ib, sv, p, s)
    BY DEF Routed
  <2>2. ResetIn(st, q, p, s) \/ ResetIn(st, ib, p, s) =>
          ResetIn(st, Tail(q), p, s) \/ ResetIn(st, j, p, s)
    BY <1>1, ResetMoved
  <2> QED
    BY <2>1, <2>2 DEF Copied
<1> QED
  BY <1>1, <1>3, <1>4 DEF Routed

(* Draining a patch leaves the stream straight: what it drains is past.                  *)
LEMMA StraightDrained ==
  ASSUME OrderInv, Straight(start, log, source), source /= <<>>
  PROVE  Straight(start, log, Tail(source))
<1>1. PICK q, r, n : q = source /\ r = Tail(source) /\ n = Len(log)
  OBVIOUS
<1>2. /\ q \in Seq(Patches) /\ Len(q) \in Nat \ {0} /\ Len(r) = Len(q) - 1 /\ n \in Nat
      /\ \A i \in 1 .. Len(r) : i + 1 \in 1 .. Len(q) /\ r[i] = q[i + 1]
      /\ \A i \in 1 .. Len(q) : start + q[i].version = n - Len(q) + i
  BY <1>1, HostParts DEF OrderInv, HostType, Queue, Pos
<1>3. \A i \in 1 .. Len(r) : Follows(start, log, r[i])
  BY <1>1, <1>2 DEF Straight
<1>4. ASSUME NEW k \in n - Len(r) .. n
      PROVE  Continues(log[k].messages, log[n].messages) \/ ResetIn(start, r, k, n)
  <2>1. k \in n - Len(q) .. n
    BY <1>2
  <2>2. Continues(log[k].messages, log[n].messages) \/ ResetIn(start, q, k, n)
    BY <1>1, <2>1 DEF Straight
  <2>3. ASSUME ResetIn(start, q, k, n)
        PROVE  ResetIn(start, r, k, n)
    <3>1. PICK i \in 1 .. Len(q) : /\ q[i].op.kind = "reset"
                                   /\ k < start + q[i].version /\ start + q[i].version <= n
      BY <2>3 DEF ResetIn
    <3>2. i /= 1
      BY <1>2, <3>1
    <3>3. PICK j : j = i - 1
      OBVIOUS
    <3>4. j \in 1 .. Len(r) /\ r[j] = q[i]
      BY <1>2, <3>2, <3>3
    <3> QED
      BY <3>1, <3>4 DEF ResetIn
  <2> QED
    BY <2>2, <2>3
<1> QED
  BY <1>1, <1>3, <1>4 DEF Straight

LEMMA DispatchKeeps ==
  ASSUME OrderInv, StreamInv, Dispatch
  PROVE  StreamInv'
<1>1. /\ source /= <<>> /\ source' = Tail(source)
      /\ UNCHANGED <<log, start, link, served, net, view>>
      /\ inbox' = [v \in Viewers |-> IF Subscribed(v) THEN Append(inbox[v], Head(source))
                                     ELSE inbox[v]]
  BY DEF Dispatch, hostVars, viewerVars
<1>2. /\ source \in Seq(Patches) /\ Len(source) \in Nat \ {0} /\ Len(log) \in Nat
      /\ Len(Tail(source)) = Len(source) - 1 /\ Head(source) = source[1] /\ Head(source) \in Patches
  BY <1>1, HostParts DEF OrderInv, HostType, Queue
<1>3. Follows(start, log, source[1])
  BY <1>2 DEF StreamInv, Straight
<1>4. ASSUME NEW v \in Viewers, link[v] = "open"
      PROVE  /\ Served(v)' = Served(v)
             /\ Routed(start, log, source', inbox'[v], served[v], net[v], Served(v),
                       Floor(start, net[v], view[v].at))
  <2>1. /\ inbox[v] \in Seq(Patches) /\ Len(inbox[v]) \in Nat
        /\ inbox'[v] = Append(inbox[v], Head(source))
    BY <1>1, <1>4, OrderParts DEF Subscribed
  <2>2. Len(inbox'[v]) = Len(inbox[v]) + 1
    BY <1>2, <2>1
  <2>3. Served(v)' = Served(v)
    BY <1>1, <1>2, <2>1, <2>2 DEF Served, Drained
  <2>4. Routed(start, log, source, inbox[v], served[v], net[v], Served(v),
               Floor(start, net[v], view[v].at))
    BY <1>4 DEF StreamInv
  <2>5. Routed(start, log, Tail(source), Append(inbox[v], Head(source)), served[v], net[v],
               Served(v), Floor(start, net[v], view[v].at))
    BY <1>1, <1>2, <1>3, <2>1, <2>4, RoutedDispatched
  <2> QED
    BY <1>1, <2>1, <2>3, <2>5
<1>5. Straight(start, log, source')
  BY <1>1, StraightDrained DEF StreamInv
<1>6. ViewsAgree'
  BY <1>1 DEF StreamInv, ViewsAgree
<1> QED
  BY <1>1, <1>4, <1>5, <1>6 DEF StreamInv

-----------------------------------------------------------------------------
(* Connecting, serving, and taking a frame, as the route and the viewer see them. *)

LEMMA RoutedConnected ==
  ASSUME NEW st, NEW l, NEW q, NEW s \in Nat \ {0}, s = Len(l), Len(q) \in Nat,
         NEW p \in 1 .. s, p = s - Len(q), Straight(st, l, q), Len(l[s].messages) \in Nat,
         \A i \in 1 .. Len(q) : st + q[i].version \in Nat,
         NEW ib, Len(ib) = 0, NEW sv, sv = l[s],
         NEW nt, Len(nt) = 1, nt[1].kind = "snapshot", st + nt[1].version = s, nt[1].state = l[s]
  PROVE  Routed(st, l, q, ib, sv, nt, p, s)
<1>1. \A k \in p .. s : Continues(l[k].messages, l[s].messages) \/ ResetIn(st, q, k, s)
  BY DEF Straight
<1>2. Agrees(sv.messages, l[s].messages)
  BY AgreesSelf DEF Straight
<1>3. Copied(st, l, q, ib, sv, p, s)
  <2>1. CASE \A k \in p .. s : Continues(l[k].messages, l[s].messages)
    <3>1. CASE p = s
      BY <1>2, <3>1 DEF Copied
    <3>2. CASE p < s
      BY <1>2, <2>1, <3>2 DEF Copied
    <3> QED
      BY <3>1, <3>2
  <2>2. CASE \E k \in p .. s : ResetIn(st, q, k, s)
    <3>1. PICK k \in p .. s : ResetIn(st, q, k, s)
      BY <2>2
    <3>2. PICK i \in 1 .. Len(q) : /\ q[i].op.kind = "reset"
                                   /\ k < st + q[i].version /\ st + q[i].version <= s
      BY <3>1 DEF ResetIn
    <3>3. p < st + q[i].version
      BY <3>2
    <3>4. ResetIn(st, q, p, s)
      BY <3>2, <3>3 DEF ResetIn
    <3> QED
      BY <3>4 DEF Copied
  <2> QED
    BY <1>1, <2>1, <2>2
<1>4. Sent(st, l, nt, p, s)
  <2>1. \A i \in 1 .. Len(nt) : i = 1
    OBVIOUS
  <2>2. ~(s < p)
    OBVIOUS
  <2> QED
    BY <2>1, <2>2 DEF Sent
<1>5. \A i \in 1 .. Len(ib) : Follows(st, l, ib[i])
  OBVIOUS
<1> QED
  BY <1>3, <1>4, <1>5 DEF Routed

(* The patch at the head of a subscription is the next step of the log. *)
LEMMA HeadFollows ==
  ASSUME NEW st, NEW l, NEW p, Follows(st, l, p), NEW x \in Nat, st + p.version = x,
         NEW y, x - 1 = y
  PROVE  Legal(l[y].messages, p.op) /\ l[x] = ApplyPatch(l[y], p.op)
  BY DEF Follows

LEMMA CopiedServed ==
  ASSUME NEW st \in Nat, NEW l \in Seq(States), NEW q, NEW ib \in Seq(Patches), Len(ib) > 0,
         NEW sv \in States, NEW p \in 1 .. Len(l), NEW s \in 1 .. Len(l), p + 1 <= Len(l),
         \A i \in 1 .. Len(q) : st + q[i].version >= p + 2,
         \A i \in 1 .. Len(ib) : st + ib[i].version = p + i,
         \A k \in 1 .. Len(l) : Kept(l[k].messages),
         \A i \in 1 .. Len(ib) : Follows(st, l, ib[i]),
         Copied(st, l, q, ib, sv, p, s),
         NEW op, op = ib[1].op, NEW t, t = l[p], NEW x, x = p + 1,
         NEW after, after = ApplyPatch(sv, op), NEW rest, rest = Tail(ib)
  PROVE  Copied(st, l, q, rest, after, x, s)
<1>1. op = ib[1].op /\ t = l[p] /\ after = ApplyPatch(sv, op) /\ x = p + 1
  OBVIOUS
<1>2. /\ x \in Nat /\ p \in Nat /\ s \in Nat /\ x \in 1 .. Len(l) /\ x - 1 = p /\ Len(ib) \in Nat
      /\ st + ib[1].version = x /\ ib[1] \in Patches /\ 1 \in 1 .. Len(ib)
  BY <1>1
<1>3. op \in Ops /\ t \in States /\ l[s] \in States /\ Len(l[s].messages) \in Nat
  BY <1>1, <1>2, StateParts, SMTT(60) DEF Patches
<1>4. Legal(t.messages, op) /\ l[x] = ApplyPatch(t, op)
  <2>1. Follows(st, l, ib[1])
    BY <1>2
  <2> QED
    BY <1>1, <1>2, <2>1, HeadFollows
<1>5. Kept(t.messages)
  BY <1>1
<1>6. Copied(st, l, q, rest, after, x, s)
  <2>1. CASE Agrees(sv.messages, t.messages) \/ op.kind = "reset"
    <3>1. Agrees(after.messages, l[x].messages)
      BY <1>1, <1>3, <1>4, <1>5, <2>1, AgreesApply
    <3> QED
      BY <3>1 DEF Copied
  <2>2. CASE /\ op.kind /= "reset" /\ p < s /\ Agrees(sv.messages, l[s].messages)
             /\ \A k \in p .. s : Continues(l[k].messages, l[s].messages)
    <3>1. x \in p .. s /\ \A k \in x .. s : k \in p .. s
      BY <1>1, <2>2
    <3>2. Continues(l[x].messages, l[s].messages)
      BY <2>2, <3>1
    <3>3. Agrees(after.messages, l[s].messages)
      BY <1>1, <1>3, <1>4, <2>2, <3>2, AgreesAgain
    <3>4. CASE x = s
      BY <3>3, <3>4 DEF Copied
    <3>5. CASE x < s
      BY <2>2, <3>1, <3>3, <3>5 DEF Copied
    <3> QED
      BY <1>2, <3>1, <3>4, <3>5
  <2>3. CASE op.kind /= "reset" /\ ResetIn(st, ib, p, s)
    <3>1. PICK i \in 1 .. Len(ib) : /\ ib[i].op.kind = "reset"
                                    /\ p < st + ib[i].version /\ st + ib[i].version <= s
      BY <2>3 DEF ResetIn
    <3>2. i /= 1
      BY <1>1, <2>3, <3>1
    <3>3. PICK j : j = i - 1
      OBVIOUS
    <3>4. j \in 1 .. Len(rest) /\ rest[j] = ib[i]
      BY <1>2, <3>2, <3>3
    <3>5. x < st + ib[i].version
      BY <1>1, <1>2, <3>2
    <3>6. ResetIn(st, rest, x, s)
      BY <3>1, <3>4, <3>5 DEF ResetIn
    <3> QED
      BY <3>6 DEF Copied
  <2>4. CASE ResetIn(st, q, p, s)
    <3>1. PICK i \in 1 .. Len(q) : /\ q[i].op.kind = "reset"
                                   /\ p < st + q[i].version /\ st + q[i].version <= s
      BY <2>4 DEF ResetIn
    <3>2. PICK y : y = st + q[i].version
      OBVIOUS
    <3>3. y >= p + 2
      BY <3>2
    <3>4. x < y
      BY <1>1, <1>2, <3>1, <3>2, <3>3
    <3>5. ResetIn(st, q, x, s)
      BY <3>1, <3>2, <3>4 DEF ResetIn
    <3> QED
      BY <3>5 DEF Copied
  <2> QED
    BY <1>1, <2>1, <2>2, <2>3, <2>4 DEF Copied
<1> QED
  BY <1>6

(* A viewer that has taken, or ignored, a frame. *)
LEMMA SentTaken ==
  ASSUME NEW st \in Nat, NEW l, NEW nt \in Seq(Frames), Len(nt) > 0, NEW p \in Nat, NEW s \in Nat,
         NEW z \in Nat, NEW h \in Nat, h = st + nt[1].version,
         (h <= s /\ z = s) \/ (h = s + 1 /\ z = h), ~Joins(Tail(nt)),
         Sent(st, l, nt, p, s)
  PROVE  Sent(st, l, Tail(nt), p, z)
<1>1. PICK r : r = Tail(nt)
  OBVIOUS
<1>2. /\ Len(nt) \in Nat \ {0} /\ Len(r) = Len(nt) - 1 /\ Len(r) \in Nat
      /\ \A i \in 1 .. Len(r) : i + 1 \in 1 .. Len(nt) /\ r[i] = nt[i + 1]
  BY <1>1
<1>3. \A i \in 1 .. Len(r) : r[i].kind = "update" => st + r[i].version <= p
  BY <1>2 DEF Sent
<1>4. ASSUME NEW i \in 1 .. Len(r), NEW k \in Nat, k = st + r[i].version, z < k
      PROVE  /\ k = z + 1 \/ (i > 1 /\ st + r[i - 1].version = k - 1)
             /\ Carries(r[i].update, l[k - 1], l[k])
  <2>1. PICK j : j = i + 1
    OBVIOUS
  <2>2. j \in 1 .. Len(nt) /\ nt[j] = r[i] /\ j - 1 = i /\ j > 1 /\ s < k
    BY <1>2, <1>4, <2>1, SMTT(60)
  <2>3. /\ k = s + 1 \/ st + nt[i].version = k - 1
        /\ Carries(nt[j].update, l[k - 1], l[k])
    BY <1>4, <2>2 DEF Sent
  <2>4. CASE k = s + 1
    BY <1>4, <2>2, <2>3, <2>4, SMTT(60)
  <2>5. CASE st + nt[i].version = k - 1 /\ i = 1
    <3>1. h = k - 1
      BY <2>5
    <3>2. k = z + 1
      BY <1>4, <3>1, SMTT(60)
    <3> QED
      BY <2>2, <2>3, <3>2
  <2>6. CASE st + nt[i].version = k - 1 /\ i > 1
    <3>1. PICK g : g = i - 1
      OBVIOUS
    <3>2. g \in 1 .. Len(r) /\ g + 1 = i
      BY <1>2, <2>6, <3>1
    <3>3. r[g] = nt[i]
      BY <1>2, <3>2
    <3> QED
      BY <2>2, <2>3, <2>6, <3>1, <3>3
  <2> QED
    BY <2>3, <2>4, <2>5, <2>6
<1>5. ASSUME z < p
      PROVE  Len(r) > 0 /\ st + r[Len(r)].version = p
  <2>1. s < p
    BY <1>5
  <2>2. st + nt[Len(nt)].version = p
    BY <2>1 DEF Sent
  <2>3. Len(nt) /= 1
    BY <1>5, <2>2
  <2>4. Len(r) \in 1 .. Len(r) /\ Len(r) + 1 = Len(nt)
    BY <1>2, <2>3
  <2> QED
    BY <1>2, <2>2, <2>4
<1> QED
  BY <1>1, <1>3, <1>4, <1>5 DEF Sent

LEMMA CopiedTaken ==
  ASSUME NEW st \in Nat, NEW l, NEW q, NEW ib, NEW sv, NEW p \in Nat, NEW s \in Nat,
         NEW z \in Nat, z = s \/ (z = s + 1 /\ z <= p),
         \A i \in 1 .. Len(q) : st + q[i].version \in Nat,
         \A i \in 1 .. Len(ib) : st + ib[i].version \in Nat,
         Copied(st, l, q, ib, sv, p, s)
  PROVE  /\ Copied(st, l, q, ib, sv, p, z)
         /\ s <= p => Agrees(sv.messages, l[p].messages)
<1>1. ASSUME s <= p
      PROVE  Agrees(sv.messages, l[p].messages)
  <2>1. ~ResetIn(st, ib, p, s) /\ ~ResetIn(st, q, p, s)
    BY <1>1 DEF ResetIn
  <2> QED
    BY <1>1, <2>1 DEF Copied
<1>2. CASE z = s
  BY <1>1, <1>2
<1>3. CASE z = s + 1 /\ z <= p
  <2>1. Agrees(sv.messages, l[p].messages)
    BY <1>1, <1>3
  <2> QED
    BY <1>1, <2>1 DEF Copied
<1> QED
  BY <1>2, <1>3

LEMMA JoinsServed ==
  ASSUME NEW nt \in Seq(Frames), NEW w \in Seq(Frames), \A i \in 1 .. Len(w) : w[i].kind = "update",
         NEW r, r = nt \o w
  PROVE  (Joins(r) <=> Joins(nt)) /\ (Joins(nt) => r[1] = nt[1])
<1>1. /\ Len(nt) \in Nat /\ Len(w) \in Nat /\ Len(r) = Len(nt) + Len(w)
      /\ \A i \in 1 .. Len(nt) : i \in 1 .. Len(r) /\ r[i] = nt[i]
      /\ \A i \in 1 .. Len(w) : r[Len(nt) + i] = w[i]
      /\ r \in Seq(Frames)
  OBVIOUS
<1>2. Joins(r) <=> Joins(nt)
  <2>1. CASE nt /= <<>>
    <3>1. 1 \in 1 .. Len(nt) /\ r /= <<>> /\ r[1] = nt[1]
      BY <1>1, <2>1
    <3> QED
      BY <2>1, <3>1 DEF Joins
  <2>2. CASE nt = <<>>
    <3>1. Len(nt) = 0
      BY <2>2
    <3>2. ASSUME r /= <<>>
          PROVE  r[1].kind = "update"
      <4>1. 1 \in 1 .. Len(r)
        BY <1>1, <3>2
      <4> QED
        BY <1>1, <3>1, <4>1
    <3> QED
      BY <2>2, <3>2 DEF Joins
  <2> QED
    BY <2>1, <2>2
<1>3. Joins(nt) => r[1] = nt[1]
  <2>1. Joins(nt) => 1 \in 1 .. Len(nt)
    BY <1>1 DEF Joins
  <2> QED
    BY <1>1, <2>1
<1> QED
  BY <1>2, <1>3

LEMMA OneMore ==
  ASSUME NEW a \in Nat, NEW b \in Nat, a <= b
  PROVE  a <= b + 1
  OBVIOUS

LEMMA SentServed ==
  ASSUME NEW st \in Nat, NEW l, NEW nt \in Seq(Frames), NEW p \in Nat, NEW s \in Nat,
         NEW w \in Seq(Frames), Len(w) \in 0 .. 1,
         \A i \in 1 .. Len(w) : w[i].kind = "update" /\ st + w[i].version = p + 1,
         s <= p => Len(w) = 1 /\ Carries(w[1].update, l[p], l[p + 1]),
         \A i \in 1 .. Len(nt) : st + nt[i].version \in Nat,
         Sent(st, l, nt, p, s),
         NEW r, r = nt \o w, NEW x, x = p + 1
  PROVE  Sent(st, l, r, x, s)
<1>1. r = nt \o w
  OBVIOUS
<1>2. /\ Len(nt) \in Nat /\ Len(w) \in Nat /\ Len(r) = Len(nt) + Len(w)
      /\ \A i \in 1 .. Len(nt) : i \in 1 .. Len(r) /\ r[i] = nt[i]
      /\ \A i \in 1 .. Len(w) : r[Len(nt) + i] = w[i]
      /\ \A i \in 1 .. Len(r) : i \in 1 .. Len(nt) \/ (i = Len(nt) + 1 /\ Len(w) = 1 /\ r[i] = w[1])
      /\ r \in Seq(Frames)
  BY <1>1
<1>3. (Joins(r) <=> Joins(nt)) /\ (Joins(nt) => r[1] = nt[1])
  BY JoinsServed
<1>4. \A i \in 1 .. Len(r) : r[i].kind = "update" => st + r[i].version <= p + 1
  <2>1. ASSUME NEW i \in 1 .. Len(nt), nt[i].kind = "update"
        PROVE  st + nt[i].version <= p + 1
    <3>1. st + nt[i].version <= p
      BY <2>1, Zenon DEF Sent
    <3>2. st + nt[i].version \in Nat
      OBVIOUS
    <3> QED
      BY <3>1, <3>2, OneMore
  <2>2. Len(w) = 1 => st + w[1].version <= p + 1
    OBVIOUS
  <2> QED
    BY <1>2, <2>1, <2>2
<1>5. ASSUME NEW i \in 1 .. Len(r), NEW k \in Nat, k = st + r[i].version, s < k
      PROVE  /\ k = s + 1 \/ (i > 1 /\ st + r[i - 1].version = k - 1)
             /\ Carries(r[i].update, l[k - 1], l[k])
  <2>1. CASE i \in 1 .. Len(nt)
    <3>1. /\ k = s + 1 \/ (i > 1 /\ st + nt[i - 1].version = k - 1)
          /\ Carries(nt[i].update, l[k - 1], l[k])
      BY <1>2, <1>5, <2>1 DEF Sent
    <3>2. i > 1 => r[i - 1] = nt[i - 1]
      <4>1. i > 1 => i - 1 \in 1 .. Len(nt)
        BY <1>2, <2>1
      <4> QED
        BY <1>2, <4>1
    <3> QED
      BY <1>2, <2>1, <3>1, <3>2
  <2>2. CASE i = Len(nt) + 1 /\ Len(w) = 1 /\ r[i] = w[1]
    <3>1. st + w[1].version = p + 1
      BY <2>2
    <3>2. k = p + 1 /\ k - 1 = p /\ s <= p
      <4>1. k = p + 1
        BY <1>5, <2>2, <3>1, Zenon
      <4>2. k - 1 = p
        BY <4>1
      <4>3. s <= p
        BY <1>5, <4>2
      <4> QED
        BY <4>1, <4>2, <4>3
    <3>3. Carries(r[i].update, l[k - 1], l[k])
      BY <2>2, <3>2
    <3>4. s < p => Len(nt) > 0 /\ st + nt[Len(nt)].version = p
      BY DEF Sent
    <3>5. Len(nt) > 0 => i > 1 /\ r[i - 1] = nt[Len(nt)]
      BY <1>2, <2>2
    <3> QED
      BY <3>2, <3>3, <3>4, <3>5, SMTT(60)
  <2> QED
    BY <1>2, <2>1, <2>2
<1>6. ASSUME s < p + 1
      PROVE  Len(r) > 0 /\ st + r[Len(r)].version = p + 1
  BY <1>2, <1>6
<1> QED
  BY <1>3, <1>4, <1>5, <1>6 DEF Sent

(* A step of one viewer's connection leaves what the others have coming alone. *)
LEMMA OneRoutedKeeps ==
  ASSUME StreamInv, NEW v \in Viewers, UNCHANGED <<log, start, source>>,
         link'[v] = "open" =>
           Routed(start, log, source, inbox'[v], served'[v], net'[v],
                  Len(log) - Len(source) - Len(inbox'[v]), Floor(start, net'[v], view'[v].at)),
         \A w \in Viewers \ {v} :
           /\ link'[w] = link[w] /\ inbox'[w] = inbox[w] /\ served'[w] = served[w]
           /\ net'[w] = net[w] /\ view'[w] = view[w],
         view'[v].at > 0 => Public(view'[v].state) = Public(log[view'[v].at])
  PROVE  StreamInv'
<1>1. \A w \in Viewers : Served(w)' = Len(log) - Len(source) - Len(inbox'[w])
  BY DEF Served, Drained
<1>2. \A w \in Viewers : Served(w) = Len(log) - Len(source) - Len(inbox[w])
  BY DEF Served, Drained
<1>3. ASSUME NEW w \in Viewers, link'[w] = "open"
      PROVE  Routed(start, log, source, inbox'[w], served'[w], net'[w],
                    Len(log) - Len(source) - Len(inbox'[w]), Floor(start, net'[w], view'[w].at))
  <2>1. CASE w = v
    BY <1>3, <2>1
  <2>2. CASE w /= v
    BY <1>2, <1>3, <2>2 DEF StreamInv
  <2> QED
    BY <2>1, <2>2
<1>4. ViewsAgree'
  <2>1. ASSUME NEW w \in Viewers, view'[w].at > 0
        PROVE  Public(view'[w].state) = Public(log[view'[w].at])
    BY <2>1 DEF StreamInv, ViewsAgree
  <2> QED
    BY <2>1 DEF ViewsAgree
<1> QED
  BY <1>1, <1>3, <1>4 DEF StreamInv

(* What a step of a viewer does to what it shows: nothing, or it moves forward. *)
Moved(v) ==
  /\ UNCHANGED <<log, start>>
  /\ \A w \in Viewers \ {v} : view'[w] = view[w]
  /\ \/ view'[v].state = view[v].state /\ view'[v].at = view[v].at
     \/ view'[v].at >= view[v].at /\ view'[v].at > 0

LEMMA ConnectKeeps ==
  ASSUME OrderInv, StreamInv, NEW v \in Viewers, Connect(v)
  PROVE  StreamInv' /\ Moved(v)
<1>1. PICK f : f = [kind |-> "snapshot", version |-> Version, session |-> session, state |-> host]
  OBVIOUS
<1>2. /\ link' = [link EXCEPT ![v] = "open"] /\ inbox' = [inbox EXCEPT ![v] = <<>>]
      /\ served' = [served EXCEPT ![v] = host] /\ net' = [net EXCEPT ![v] = <<f>>]
      /\ UNCHANGED <<log, start, source, view>>
  BY <1>1, ReplayEmpty DEF Connect, viewerVars, hostVars
<1>3. /\ inbox'[v] = <<>> /\ served'[v] = host /\ net'[v] = <<f>>
      /\ \A w \in Viewers \ {v} :
           /\ link'[w] = link[w] /\ inbox'[w] = inbox[w] /\ served'[w] = served[w]
           /\ net'[w] = net[w] /\ view'[w] = view[w]
  BY <1>2 DEF OrderInv, StreamType
<1>4. PICK s, p, ib, nt : s = Len(log) /\ p = s - Len(source) /\ ib = inbox'[v] /\ nt = net'[v]
  OBVIOUS
<1>5. /\ start \in 1 .. Drained /\ Drained <= Len(log) /\ Drained \in Nat /\ Len(log) \in Nat \ {0}
      /\ host \in States /\ Len(source) \in Nat
  BY OrderParts, PatchesNat
<1>6. p \in 1 .. s /\ s \in Nat \ {0} /\ s - p = Len(source) /\ p = Drained
  BY <1>4, <1>5 DEF Drained
<1>7. Len(ib) = 0
  BY <1>3, <1>4
<1>8. /\ Len(nt) = 1 /\ nt[1].kind = "snapshot" /\ nt[1].state = host
      /\ start + nt[1].version = s
  <2>1. nt[1] = f /\ Len(nt) = 1
    BY <1>3, <1>4
  <2>2. start + Version = s
    BY <1>4, <1>5 DEF Version
  <2> QED
    BY <1>1, <2>1, <2>2
<1>9. host = log[s] /\ Len(log[s].messages) \in Nat
  <2>1. host = log[s]
    BY <1>4 DEF host
  <2> QED
    BY <1>5, <2>1, StateParts
<1>10. Routed(start, log, source, ib, served'[v], nt, p, s)
  BY <1>3, <1>4, <1>5, <1>6, <1>7, <1>8, <1>9, PatchesNat, RoutedConnected, SMTT(60) DEF StreamInv
<1>11. Floor(start, nt, view'[v].at) = s
  BY <1>8 DEF Floor, Joins
<1>12. Len(log) - Len(source) - Len(inbox'[v]) = p
  BY <1>4, <1>6, <1>7
<1>13. view'[v].at > 0 => Public(view'[v].state) = Public(log[view'[v].at])
  BY <1>2 DEF StreamInv, ViewsAgree
<1>14. Routed(start, log, source, inbox'[v], served'[v], net'[v],
              Len(log) - Len(source) - Len(inbox'[v]), Floor(start, net'[v], view'[v].at))
  BY <1>4, <1>10, <1>11, <1>12
<1>15. StreamInv'
  BY <1>2, <1>3, <1>13, <1>14, OneRoutedKeeps
<1> QED
  BY <1>2, <1>15 DEF Moved

LEMMA DropKeeps ==
  ASSUME OrderInv, StreamInv, NEW v \in Viewers, Drop(v)
  PROVE  StreamInv' /\ Moved(v)
<1>1. /\ link' = [link EXCEPT ![v] = "away"] /\ inbox' = [inbox EXCEPT ![v] = <<>>]
      /\ served' = [served EXCEPT ![v] = Initial] /\ net' = [net EXCEPT ![v] = <<>>]
      /\ UNCHANGED <<log, start, source, view>>
  BY DEF Drop, viewerVars, hostVars
<1>2. /\ link'[v] = "away"
      /\ \A w \in Viewers \ {v} :
           /\ link'[w] = link[w] /\ inbox'[w] = inbox[w] /\ served'[w] = served[w]
           /\ net'[w] = net[w] /\ view'[w] = view[w]
  BY <1>1 DEF OrderInv, StreamType
<1>3. view'[v].at > 0 => Public(view'[v].state) = Public(log[view'[v].at])
  BY <1>1 DEF StreamInv, ViewsAgree
<1>4. StreamInv'
  BY <1>1, <1>2, <1>3, OneRoutedKeeps
<1> QED
  BY <1>1, <1>4 DEF Moved

LEMMA ServeKeeps ==
  ASSUME OrderInv, CurrentInv, StreamInv, NEW v \in Viewers, Serve(v)
  PROVE  StreamInv' /\ Moved(v)
<1>1. PICK x, after, us :
        /\ x = inbox[v][1] /\ after = ApplyPatch(served[v], x.op) /\ us = Updates(after, x.op)
        /\ x \in Patches /\ x.op \in Ops /\ after \in States
        /\ us \in Seq(Wires) /\ Len(us) \in 0 .. 1
        /\ Len(inbox[v]) > 0 /\ link[v] = "open"
        /\ served' = [served EXCEPT ![v] = after]
        /\ net' = [net EXCEPT ![v] = net[v] \o Written(x, us)]
        /\ inbox' = [inbox EXCEPT ![v] = Tail(inbox[v])]
        /\ UNCHANGED <<hostVars, source, buffer, link, drops, view, reply>>
  BY ServeIs
<1>2. UNCHANGED <<log, start, source, view, link>>
  BY <1>1 DEF hostVars
<1>3. PICK p, s, ib, nt, sv, w :
        /\ p = Served(v) /\ s = Floor(start, net[v], view[v].at) /\ ib = inbox[v] /\ nt = net[v]
        /\ sv = served[v] /\ w = Written(x, us)
  OBVIOUS
<1>4. /\ served'[v] = after /\ net'[v] = nt \o w /\ inbox'[v] = Tail(ib)
      /\ \A z \in Viewers \ {v} :
           /\ link'[z] = link[z] /\ inbox'[z] = inbox[z] /\ served'[z] = served[z]
           /\ net'[z] = net[z] /\ view'[z] = view[z]
  BY <1>1, <1>2, <1>3 DEF OrderInv, StreamType
<1>5. /\ ib \in Seq(Patches) /\ nt \in Seq(Frames) /\ sv \in States /\ log \in Seq(States)
      /\ Len(ib) \in Nat /\ Len(ib) > 0 /\ start \in Nat
  BY <1>1, <1>3, OrderParts
<1>6. /\ s \in 1 .. Len(log) /\ p \in 1 .. Len(log) /\ Len(log) \in Nat /\ p = Drained - Len(ib)
      /\ Drained = Len(log) - Len(source) /\ Len(source) \in Nat /\ Drained \in Nat
      /\ \A i \in 1 .. Len(ib) : start + ib[i].version = p + i
      /\ \A i \in 1 .. Len(nt) : start + nt[i].version \in Nat
  <2>1. link[v] = "open"
    BY <1>1
  <2>2. /\ s \in start .. Len(log) /\ p \in start .. Drained /\ p = Drained - Len(ib)
        /\ start \in 1 .. Drained /\ Drained <= Len(log) /\ Drained \in Nat /\ Len(log) \in Nat
        /\ Drained = Len(log) - Len(source) /\ Len(source) \in Nat
    BY <1>3, <2>1, FloorIs
  <2>3. \A i \in 1 .. Len(ib) : start + ib[i].version = p + i
    BY <1>3, <2>1, FloorIs
  <2>4. \A i \in 1 .. Len(nt) : nt[i].version \in Nat
    BY <1>3, <2>1, FloorIs
  <2> QED
    BY <2>2, <2>3, <2>4, SMTT(60)
<1>7. p + 1 <= Drained /\ p + 1 <= Len(log) /\ p \in Nat /\ s \in Nat
  BY <1>5, <1>6
<1>8. \A i \in 1 .. Len(source) : start + source[i].version >= p + 2
  <2>1. \A i \in 1 .. Len(source) : start + source[i].version = Len(log) - Len(source) + i
    BY DEF OrderInv, HostType, Queue, Pos
  <2> QED
    BY <1>6, <1>7, <2>1
<1>9. Routed(start, log, source, ib, sv, nt, p, s)
  BY <1>1, <1>3 DEF StreamInv
<1>10. \A k \in 1 .. Len(log) : Kept(log[k].messages)
  BY DEF StreamInv, Straight
<1>11. \A i \in 1 .. Len(ib) : Follows(start, log, ib[i])
  BY <1>9 DEF Routed
<1>12. ib[1] = x
  BY <1>1, <1>3
<1>13. PICK op, t, y, rest, r : /\ op = x.op /\ t = log[p] /\ y = p + 1 /\ rest = Tail(ib)
                               /\ r = nt \o w
  OBVIOUS
<1>14. /\ Copied(start, log, source, rest, after, y, s)
       /\ Legal(t.messages, op) /\ op \in Ops /\ t \in States /\ log[y] = ApplyPatch(t, op)
  <2>1. Copied(start, log, source, ib, sv, p, s)
    BY <1>9 DEF Routed
  <2>2. op = ib[1].op /\ after = ApplyPatch(sv, op)
    BY <1>1, <1>3, <1>12, <1>13
  <2>3. Copied(start, log, source, rest, after, y, s)
    BY <1>5, <1>6, <1>7, <1>8, <1>10, <1>11, <1>13, <2>1, <2>2, CopiedServed
  <2>4. y \in Nat /\ y - 1 = p /\ start + x.version = y /\ Follows(start, log, x)
    <3>1. y \in Nat /\ y - 1 = p /\ 1 \in 1 .. Len(ib)
      BY <1>5, <1>7, <1>13
    <3>2. start + ib[1].version = p + 1 /\ Follows(start, log, ib[1])
      BY <1>6, <1>11, <3>1
    <3> QED
      BY <1>12, <1>13, <3>1, <3>2
  <2>5. Legal(log[p].messages, x.op) /\ log[y] = ApplyPatch(log[p], x.op)
    BY <2>4, HeadFollows
  <2>6. t \in States
    BY <1>5, <1>6, <1>13
  <2>7. op \in Ops /\ Legal(t.messages, op) /\ log[y] = ApplyPatch(t, op)
    BY <1>1, <1>13, <2>5
  <2> QED
    BY <2>3, <2>6, <2>7
<1>15. /\ w \in Seq(Frames) /\ Len(w) = Len(us) /\ Len(w) \in 0 .. 1
       /\ \A i \in 1 .. Len(us) : w[i] = Framed(x, us[i])
  BY <1>1, <1>3, WrittenType
<1>16. \A i \in 1 .. Len(w) : w[i].kind = "update" /\ start + w[i].version = p + 1
  <2>1. start + x.version = p + 1
    BY <1>5, <1>6, <1>12, SMTT(60)
  <2> QED
    BY <1>15, <2>1, FramedParts
<1>17. ASSUME s <= p
       PROVE  Len(w) = 1 /\ Carries(w[1].update, t, log[y])
  <2>1. Agrees(sv.messages, t.messages)
    <3>1. Copied(start, log, source, ib, sv, p, s)
      BY <1>9 DEF Routed
    <3>2. \A i \in 1 .. Len(ib) : start + ib[i].version \in Nat
      BY <1>6, <1>7
    <3> QED
      BY <1>5, <1>7, <1>17, <1>13, <3>1, <3>2, PatchesNat, CopiedTaken
  <2>2. Kept(t.messages)
    BY <1>6, <1>10, <1>13
  <2>3. Len(us) = 1 /\ Carries(us[1], t, log[y])
    <3>1. after = ApplyPatch(sv, op) /\ us = Updates(after, op)
      BY <1>1, <1>3, <1>13
    <3>2. Len(Updates(ApplyPatch(sv, op), op)) = 1
      BY <1>5, <1>14, <2>1, <2>2, UpdatesCarry
    <3>3. Carries(Updates(ApplyPatch(sv, op), op)[1], t, ApplyPatch(t, op))
      BY <1>5, <1>14, <2>1, <2>2, UpdatesCarry
    <3> QED
      BY <1>14, <3>1, <3>2, <3>3
  <2>4. w[1] = Framed(x, us[1])
    BY <1>15, <2>3
  <2> QED
    BY <1>15, <2>3, <2>4, FramedParts
<1>18. /\ Sent(start, log, r, y, s)
       /\ (Joins(r) <=> Joins(nt)) /\ (Joins(nt) => r[1] = nt[1])
  <2>1. Sent(start, log, nt, p, s)
    BY <1>9 DEF Routed
  <2>2. Sent(start, log, r, y, s)
    BY <1>5, <1>6, <1>7, <1>15, <1>16, <1>17, <1>13, <2>1, SentServed
  <2> QED
    BY <1>5, <1>15, <1>16, <1>13, <2>2, JoinsServed
<1>19. Floor(start, r, view[v].at) = s
  <2>1. s = Floor(start, nt, view[v].at)
    BY <1>3
  <2> QED
    BY <1>18, <2>1 DEF Floor
<1>20. \A i \in 1 .. Len(rest) : Follows(start, log, rest[i])
  <2>1. \A i \in 1 .. Len(rest) : i + 1 \in 1 .. Len(ib) /\ rest[i] = ib[i + 1]
    BY <1>5, <1>13
  <2> QED
    BY <1>11, <2>1
<1>21. Routed(start, log, source, rest, after, r, y, s)
  BY <1>14, <1>18, <1>20 DEF Routed
<1>22. Len(log) - Len(source) - Len(inbox'[v]) = y
  <2>1. Len(inbox'[v]) = Len(ib) - 1
    BY <1>4, <1>5
  <2> QED
    BY <1>5, <1>6, <1>13, <2>1
<1>23. Floor(start, net'[v], view'[v].at) = s
  BY <1>2, <1>4, <1>19, <1>13
<1>24. Routed(start, log, source, inbox'[v], served'[v], net'[v],
              Len(log) - Len(source) - Len(inbox'[v]), Floor(start, net'[v], view'[v].at))
  BY <1>4, <1>21, <1>22, <1>23, <1>13
<1>25. view'[v].at > 0 => Public(view'[v].state) = Public(log[view'[v].at])
  BY <1>2 DEF StreamInv, ViewsAgree
<1>26. StreamInv'
  BY <1>2, <1>4, <1>24, <1>25, OneRoutedKeeps
<1> QED
  BY <1>2, <1>26 DEF Moved

(* A frame is taken: the viewer stays where it is, or moves on by one state. *)
LEMMA TakenKeeps ==
  ASSUME OrderInv, CurrentInv, StreamInv, NEW v \in Viewers, NEW kind, Arrives(v, kind),
         NEW r, r.at \in Nat, view' = [view EXCEPT ![v] = r],
         NEW h, h = start + net[v][1].version, NEW s, s = Floor(start, net[v], view[v].at),
         (h <= s /\ r.at = s) \/ (h = s + 1 /\ r.at = h /\ net[v][1].kind = "update"),
         r.at > 0 => Public(r.state) = Public(log[r.at])
  PROVE  StreamInv'
<1>1. /\ net[v] \in Seq(Frames) /\ Len(net[v]) > 0 /\ net[v][1] \in Frames
      /\ net' = [net EXCEPT ![v] = Tail(net[v])] /\ net'[v] = Tail(net[v])
      /\ link[v] = "open" /\ UNCHANGED <<log, start, source, inbox, served, link>>
  BY ArrivesIs
<1>2. PICK p, ib, nt, sv, z :
        /\ p = Served(v) /\ ib = inbox[v] /\ nt = net[v] /\ sv = served[v] /\ z = r.at
  OBVIOUS
<1>3. Routed(start, log, source, ib, sv, nt, p, s)
  BY <1>1, <1>2 DEF StreamInv
<1>4. /\ s \in 1 .. Len(log) /\ p \in 1 .. Len(log) /\ Len(log) \in Nat /\ s \in Nat /\ p \in Nat
      /\ p = Len(log) - Len(source) - Len(ib) /\ start \in Nat /\ Len(ib) \in Nat
      /\ \A i \in 1 .. Len(ib) : start + ib[i].version \in Nat
  <2>1. /\ s \in start .. Len(log) /\ p \in start .. Drained /\ p = Drained - Len(ib)
        /\ start \in 1 .. Drained /\ Drained <= Len(log) /\ Drained \in Nat /\ Len(log) \in Nat
        /\ Drained = Len(log) - Len(source) /\ Len(source) \in Nat /\ Len(ib) \in Nat
    BY <1>1, <1>2, FloorIs
  <2>2. \A i \in 1 .. Len(ib) : start + ib[i].version = p + i
    BY <1>1, <1>2, FloorIs
  <2>3. p \in Nat
    BY <2>1
  <2>4. \A i \in 1 .. Len(ib) : start + ib[i].version \in Nat
    BY <2>2, <2>3
  <2>5. s \in 1 .. Len(log) /\ p \in 1 .. Len(log) /\ s \in Nat /\ start \in Nat
    BY <2>1, SMTT(60)
  <2>6. p = Len(log) - Len(source) - Len(ib)
    BY <2>1
  <2> QED
    BY <2>1, <2>3, <2>4, <2>5, <2>6
<1>5. h \in Nat /\ z \in Nat
  BY <1>1, <1>2, <1>4, FrameParts, SMTT(60)
<1>6. nt \in Seq(Frames) /\ Len(nt) > 0 /\ ~Joins(Tail(nt)) /\ h = start + nt[1].version
  BY <1>1, <1>2, JoinsOnce
<1>7. (h <= s /\ z = s) \/ (h = s + 1 /\ z = h)
  BY <1>2
<1>8. Sent(start, log, Tail(nt), p, z)
  BY <1>3, <1>4, <1>5, <1>6, <1>7, SentTaken DEF Routed
<1>9. z = s \/ (z = s + 1 /\ z <= p)
  <2>1. CASE h <= s /\ z = s
    BY <2>1
  <2>2. CASE h = s + 1 /\ z = h /\ nt[1].kind = "update"
    <3>1. 1 \in 1 .. Len(nt)
      BY <1>6
    <3>2. h <= p
      BY <1>3, <1>6, <2>2, <3>1 DEF Routed, Sent
    <3> QED
      BY <2>2, <3>2
  <2> QED
    BY <1>2, <2>1, <2>2
<1>10. Copied(start, log, source, ib, sv, p, z)
  BY <1>3, <1>4, <1>5, <1>9, PatchesNat, CopiedTaken DEF Routed
<1>11. Routed(start, log, source, ib, sv, Tail(nt), p, z)
  BY <1>3, <1>8, <1>10 DEF Routed
<1>12. view'[v] = r /\ \A w \in Viewers \ {v} : view'[w] = view[w] /\ net'[w] = net[w]
  BY <1>1 DEF OrderInv, ViewType, StreamType
<1>13. Floor(start, Tail(nt), r.at) = z
  BY <1>2, <1>6 DEF Floor
<1>14. Routed(start, log, source, inbox'[v], served'[v], net'[v],
              Len(log) - Len(source) - Len(inbox'[v]), Floor(start, net'[v], view'[v].at))
  BY <1>1, <1>2, <1>4, <1>11, <1>12, <1>13
<1> QED
  BY <1>1, <1>12, <1>14, OneRoutedKeeps

LEMMA TakeSnapshotKeeps ==
  ASSUME OneHostOrSession, OrderInv, CurrentInv, StreamInv, NEW v \in Viewers, TakeSnapshot(v)
  PROVE  StreamInv' /\ Moved(v)
<1>1. PICK f : f = net[v][1]
  OBVIOUS
<1>2. PICK r : r = IF NothingMissed(v, f) THEN view[v] ELSE Replaced(f)
  OBVIOUS
<1>3. /\ Arrives(v, "snapshot") /\ f \in Frames /\ f.kind = "snapshot" /\ Head(net[v]) = f
      /\ Len(net[v]) > 0 /\ net[v] \in Seq(Frames) /\ link[v] = "open"
      /\ UNCHANGED <<log, start>>
  BY <1>1, ArrivesIs DEF TakeSnapshot
<1>4. view' = [view EXCEPT ![v] = r] /\ view'[v] = r /\ \A w \in Viewers \ {v} : view'[w] = view[w]
  BY <1>2, <1>3 DEF TakeSnapshot, OrderInv, ViewType
<1>5. r.at = start + f.version
  BY <1>3, <1>4, CurrentTakeSnapshot
<1>6. Joins(net[v])
  BY <1>1, <1>3 DEF Joins
<1>7. PICK s, h : s = Floor(start, net[v], view[v].at) /\ h = start + f.version
  OBVIOUS
<1>8. s = h /\ r.at = s
  BY <1>1, <1>5, <1>6, <1>7 DEF Floor
<1>9. s \in 1 .. Len(log) /\ Len(log) \in Nat /\ log \in Seq(States)
  BY <1>3, <1>7, FloorIs, OrderParts
<1>10. view[v].at <= r.at
  BY <1>1, <1>5, <1>6 DEF CurrentInv, Current, CurrentView
<1>11. Public(r.state) = Public(log[s])
  <2>1. CASE NothingMissed(v, f)
    <3>1. r = view[v] /\ view[v].at > 0
      BY <1>2, <2>1 DEF NothingMissed
    <3> QED
      BY <1>8, <3>1 DEF StreamInv, ViewsAgree
  <2>2. CASE ~NothingMissed(v, f)
    <3>1. r.state = Rebuilt(f.state)
      BY <1>2, <2>2 DEF Replaced
    <3>2. f.state = log[s]
      BY <1>1, <1>3, <1>6, <1>7 DEF StreamInv, Routed, Sent
    <3>3. log[s] \in States /\ Kept(log[s].messages)
      BY <1>9 DEF StreamInv, Straight
    <3> QED
      BY <3>1, <3>2, <3>3, RebuiltPublic
  <2> QED
    BY <2>1, <2>2
<1>12. StreamInv'
  <2>1. r.at \in Nat /\ h <= s /\ h = start + net[v][1].version
    BY <1>1, <1>7, <1>8, <1>9
  <2>2. r.at > 0 => Public(r.state) = Public(log[r.at])
    BY <1>8, <1>11
  <2> QED
    <3>1. Arrives(v, "snapshot") /\ view' = [view EXCEPT ![v] = r] /\ h <= s /\ r.at = s
          /\ s = Floor(start, net[v], view[v].at)
      BY <1>3, <1>4, <1>7, <1>8, <2>1
    <3> QED
      BY <2>1, <2>2, <3>1, TakenKeeps
<1> QED
  BY <1>3, <1>4, <1>8, <1>9, <1>10, <1>12 DEF Moved

LEMMA TakeUpdateKeeps ==
  ASSUME OrderInv, CurrentInv, StreamInv, NEW v \in Viewers, TakeUpdate(v)
  PROVE  StreamInv' /\ Moved(v)
<1>1. PICK f, old : f = net[v][1] /\ old = view[v]
  OBVIOUS
<1>2. PICK r : r = IF Stale(v, f) THEN old
                   ELSE [old EXCEPT !.state = Reduce(@, f.update), !.seen = f.version,
                                    !.at = start + f.version]
  OBVIOUS
<1>3. /\ Arrives(v, "update") /\ f \in Frames /\ f.kind = "update" /\ Head(net[v]) = f
      /\ Len(net[v]) > 0 /\ net[v] \in Seq(Frames) /\ link[v] = "open"
      /\ UNCHANGED <<log, start>>
  BY <1>1, ArrivesIs DEF TakeUpdate
<1>4. /\ view \in [Viewers -> [state : States, seen : Nat, known : Nat \union {None}, at : Nat]]
      /\ old \in [state : States, seen : Nat, known : Nat \union {None}, at : Nat]
  BY <1>1 DEF OrderInv, ViewType
<1>5. view' = [view EXCEPT ![v] = r]
  BY <1>1, <1>2, <1>3, <1>4 DEF TakeUpdate
<1>6. view'[v] = r /\ \A w \in Viewers \ {v} : view'[w] = view[w]
  BY <1>4, <1>5
<1>7. ~Joins(net[v])
  BY <1>1, <1>3 DEF Joins
<1>8. PICK s, h : s = view[v].at /\ h = start + f.version
  OBVIOUS
<1>9. s = Floor(start, net[v], view[v].at) /\ s = old.at
  BY <1>1, <1>7, <1>8 DEF Floor
<1>10. s \in start .. Len(log) /\ s \in 1 .. Len(log) /\ Len(log) \in Nat /\ start \in Nat
  <2>1. s \in start .. Len(log) /\ start \in 1 .. Drained /\ Drained \in Nat /\ Len(log) \in Nat
    BY <1>3, <1>9, FloorIs
  <2> QED
    BY <2>1
<1>11. f.version \in Nat /\ f.update \in Wires /\ h \in Nat
  BY <1>3, <1>8, <1>10, FrameParts
<1>12. old.seen = s - start /\ old.state \in States
  BY <1>1, <1>4, <1>8, <1>10 DEF OrderInv, WatermarkIsTrue
<1>13. Public(old.state) = Public(log[s])
  BY <1>1, <1>8, <1>10 DEF StreamInv, ViewsAgree
<1>14. CASE Stale(v, f)
  <2>1. r = old /\ f.version <= old.seen
    BY <1>1, <1>2, <1>14 DEF Stale
  <2>2. h <= s
    BY <1>8, <1>10, <1>11, <1>12, <2>1
  <2>3. r.at = s /\ r.at \in Nat /\ (r.at > 0 => Public(r.state) = Public(log[r.at]))
    BY <1>9, <1>10, <1>13, <2>1
  <2>4. StreamInv'
    BY <1>1, <1>3, <1>5, <1>8, <1>9, <2>2, <2>3, TakenKeeps
  <2> QED
    BY <1>1, <1>3, <1>6, <2>1, <2>4 DEF Moved
<1>15. CASE ~Stale(v, f)
  <2>1. f.version > old.seen
    <3>1. ~(f.version <= old.seen)
      BY <1>1, <1>15 DEF Stale
    <3>2. old.seen \in Nat
      BY <1>4
    <3> QED
      BY <1>11, <3>1, <3>2
  <2>2. s < h
    BY <1>8, <1>10, <1>11, <1>12, <2>1
  <2>3. r.state = Reduce(old.state, f.update) /\ r.at = h
    BY <1>2, <1>4, <1>8, <1>15
  <2>4. h = s + 1 /\ Carries(f.update, log[h - 1], log[h])
    <3>1. Sent(start, log, net[v], Served(v), s)
      BY <1>3, <1>9 DEF StreamInv, Routed
    <3>2. 1 \in 1 .. Len(net[v])
      BY <1>3
    <3> QED
      BY <1>1, <1>8, <1>11, <2>2, <3>1, <3>2 DEF Sent
  <2>5. h - 1 = s /\ h \in Nat /\ h > 0
    BY <1>10, <2>4
  <2>6. Public(r.state) = Public(log[h])
    BY <1>12, <1>13, <2>3, <2>4, <2>5 DEF Carries
  <2>7. StreamInv'
    BY <1>1, <1>3, <1>5, <1>8, <1>9, <2>3, <2>4, <2>5, <2>6, TakenKeeps
  <2>8. view'[v].at >= view[v].at /\ view'[v].at > 0
    BY <1>6, <1>8, <1>10, <2>2, <2>3, <2>5
  <2> QED
    BY <1>3, <1>6, <2>7, <2>8 DEF Moved
<1> QED
  BY <1>14, <1>15

LEMMA TakeReplyKeeps ==
  ASSUME OrderInv, CurrentInv, StreamInv, NEW v \in Viewers, TakeReply(v)
  PROVE  StreamInv' /\ Moved(v)
<1>1. /\ view' = [view EXCEPT ![v].known = reply[v]]
      /\ UNCHANGED <<log, start, source, inbox, served, link, net>>
  BY DEF TakeReply, hostVars, serverVars
<1>2. view \in [Viewers -> [state : States, seen : Nat, known : Nat \union {None}, at : Nat]]
  BY DEF OrderInv, ViewType
<1>3. /\ view'[v].at = view[v].at /\ view'[v].state = view[v].state
      /\ \A w \in Viewers \ {v} : view'[w] = view[w]
  BY <1>1, <1>2
<1>4. view'[v].at > 0 => Public(view'[v].state) = Public(log[view'[v].at])
  BY <1>3 DEF StreamInv, ViewsAgree
<1>5. link'[v] = "open" =>
        Routed(start, log, source, inbox'[v], served'[v], net'[v],
               Len(log) - Len(source) - Len(inbox'[v]), Floor(start, net'[v], view'[v].at))
  <2>1. Served(v) = Len(log) - Len(source) - Len(inbox[v])
    BY DEF Served, Drained
  <2> QED
    BY <1>1, <1>3, <2>1 DEF StreamInv
<1>6. StreamInv'
  BY <1>1, <1>3, <1>4, <1>5, OneRoutedKeeps
<1> QED
  BY <1>1, <1>3, <1>6 DEF Moved

LEMMA StreamInit == Init => StreamInv
<1> SUFFICES ASSUME Init PROVE StreamInv
  OBVIOUS
<1>1. /\ log = <<Initial>> /\ source = <<>> /\ link = [v \in Viewers |-> "away"]
      /\ \A v \in Viewers : view[v].at = 0
  BY DEF Init
<1>2. Len(log) = 1 /\ log[1] = Initial /\ Len(source) = 0
  BY <1>1
<1>3. Initial.messages = <<>> /\ Len(Initial.messages) = 0
  BY DEF Initial
<1>4. Kept(Initial.messages) /\ Continues(Initial.messages, Initial.messages)
  BY <1>3, ContinuesSelf DEF Kept
<1>5. Straight(start, log, source)
  <2>1. PICK l, q : l = log /\ q = source
    OBVIOUS
  <2>2. /\ \A k \in 1 .. Len(l) : k = 1
        /\ \A k \in Len(l) - Len(q) .. Len(l) : k = 1
        /\ Len(l) = 1 /\ l[1] = Initial /\ Len(q) = 0
    BY <1>2, <2>1
  <2>3. Straight(start, l, q)
    BY <1>3, <1>4, <2>2 DEF Straight
  <2> QED
    BY <2>1, <2>3
<1>6. \A v \in Viewers : link[v] /= "open"
  BY <1>1
<1>7. ViewsAgree
  BY <1>1 DEF ViewsAgree
<1> QED
  BY <1>5, <1>6, <1>7 DEF StreamInv

(* Every step is one of the host, which only adds to the log, or moves one viewer. *)
Grows ==
  /\ UNCHANGED view /\ Len(log) <= Len(log')
  /\ \A i \in 1 .. Len(log) : log'[i] = log[i]

LEMMA StreamNext ==
  ASSUME OneHostOrSession, ~Interleaves, OrderInv, CurrentInv, StreamInv, [Next]_vars
  PROVE  StreamInv' /\ (Grows \/ \E v \in Viewers : Moved(v))
<1>1. OrderInv'
  BY OrderNext
<1>2. Len(log) \in Nat
  BY PatchesNat
<1>3. CASE HostNext
  <2>1. CASE Moves /\ HostStep
    <3>1. Len(log') \in Nat /\ Len(source') \in Nat
      BY <1>1 DEF OrderInv, HostType, Queue
    <3>2. UNCHANGED view
      BY <2>1 DEF HostStep
    <3>3. Grows
      BY <2>1, <3>2 DEF Moves, Later, Grows
    <3> QED
      BY <2>1, <3>1, <3>3, MovedKeeps
  <2>2. CASE Rebuild
    <3>1. /\ StreamInv' /\ UNCHANGED view /\ Len(log') = Len(log) + 1
          /\ \A i \in 1 .. Len(log) : log'[i] = log[i]
      BY <2>2, RebuildKeeps
    <3>2. Grows
      BY <1>2, <3>1 DEF Grows
    <3> QED
      BY <3>1, <3>2
  <2> QED
    BY <1>3, <2>1, <2>2, HostMoves DEF StreamInv
<1>4. CASE Dispatch
  <2>1. UNCHANGED <<log, view>>
    BY <1>4 DEF Dispatch, hostVars, viewerVars
  <2>2. Grows
    BY <1>2, <2>1 DEF Grows
  <2> QED
    BY <1>4, <2>2, DispatchKeeps
<1>5. ASSUME NEW v \in Viewers, ViewerNext(v)
      PROVE  StreamInv' /\ Moved(v)
  BY <1>5, ConnectKeeps, ServeKeeps, DropKeeps, TakeSnapshotKeeps, TakeUpdateKeeps,
     TakeReplyKeeps DEF ViewerNext
<1>6. CASE UNCHANGED vars
  <2>1. UNCHANGED <<log, start, source, link, inbox, served, net, view>>
    BY <1>6 DEF vars, hostVars, serverVars, viewerVars
  <2>2. Grows
    BY <1>2, <2>1 DEF Grows
  <2>3. \A v \in Viewers : Served(v)' = Served(v)
    BY <2>1 DEF Served, Drained
  <2>4. StreamInv'
    BY <2>1, <2>3 DEF StreamInv, ViewsAgree
  <2> QED
    BY <2>2, <2>4
<1> QED
  BY <1>3, <1>4, <1>5, <1>6 DEF Next

LEMMA StreamCorrect ==
  ASSUME OneHostOrSession, ~Interleaves
  PROVE  Spec => [](OrderInv /\ CurrentInv /\ StreamInv)
<1>1. Spec => [](OrderInv /\ CurrentInv)
  BY CurrentCorrect
<1>2. OrderInv /\ CurrentInv /\ StreamInv /\ [Next]_vars => StreamInv'
  BY StreamNext
<1> QED
  BY <1>1, <1>2, StreamInit, PTL DEF Spec

-----------------------------------------------------------------------------
(* The refinement. *)

(* The abstract variables. *)
Shown(l) == [i \in DOMAIN l |-> Public(l[i])]

LEMMA ShownPrefix ==
  ASSUME NEW l \in Seq(States), NEW m \in Seq(States), Len(l) <= Len(m),
         \A i \in 1 .. Len(l) : m[i] = l[i]
  PROVE  IsPrefix(Shown(l), Shown(m))
<1>1. PICK a, b : a = Shown(l) /\ b = Shown(m)
  OBVIOUS
<1>2. /\ Len(l) \in Nat /\ Len(m) \in Nat
      /\ a = [i \in 1 .. Len(l) |-> Public(l[i])] /\ b = [i \in 1 .. Len(m) |-> Public(m[i])]
  BY <1>1 DEF Shown
<1>3. /\ Len(a) = Len(l) /\ Len(b) = Len(m)
      /\ \A i \in 1 .. Len(a) : b[i] = a[i]
  BY <1>2
<1>4. SubSeq(a, 1, Len(a)) = SubSeq(b, 1, Len(a))
  BY <1>2, <1>3
<1> QED
  BY <1>1, <1>2, <1>3, <1>4 DEF IsPrefix

LEMMA SharedInit == Init => Shared!Init
<1> SUFFICES ASSUME Init
             PROVE  /\ Shown(log) /= <<>>
                    /\ [v \in Viewers |-> view[v].at] = [v \in Viewers |-> 0]
  BY DEF Shared!Init, Shown
<1>1. log = <<Initial>> /\ \A v \in Viewers : view[v].at = 0
  BY DEF Init
<1>2. DOMAIN Shown(log) = {1}
  BY <1>1 DEF Shown
<1> QED
  BY <1>1, <1>2

LEMMA SharedNext ==
  ASSUME OneHostOrSession, ~Interleaves
  PROVE  OrderInv /\ CurrentInv /\ StreamInv /\ [Next]_vars =>
           [Shared!Next]_<<[i \in DOMAIN log |-> Public(log[i])],
                           [v \in Viewers |-> view[v].at],
                           [v \in Viewers |-> Public(view[v].state)]>>
<1> DEFINE at == [v \in Viewers |-> view[v].at]
           shows == [v \in Viewers |-> Public(view[v].state)]
<1> SUFFICES ASSUME OrderInv, CurrentInv, StreamInv, [Next]_vars
             PROVE  Shared!Next \/ UNCHANGED <<Shown(log), at, shows>>
  BY DEF Shown
<1>1. OrderInv' /\ StreamInv' /\ (Grows \/ \E v \in Viewers : Moved(v))
  BY OrderNext, StreamNext
<1>2. /\ log \in Seq(States) /\ log' \in Seq(States) /\ Len(log) \in Nat
  BY <1>1 DEF OrderInv, HostType, Queue
<1>3. CASE Grows
  <2>1. UNCHANGED <<at, shows>>
    BY <1>3 DEF Grows
  <2>2. IsPrefix(Shown(log), Shown(log'))
    BY <1>2, <1>3, ShownPrefix DEF Grows
  <2>3. Shared!Grow
    BY <2>1, <2>2 DEF Shared!Grow, Shared!IsPrefix, IsPrefix, Shown
  <2> QED
    BY <2>3 DEF Shared!Next
<1>4. ASSUME NEW v \in Viewers, Moved(v)
      PROVE  Shared!Next \/ UNCHANGED <<Shown(log), at, shows>>
  <2>1. UNCHANGED log /\ UNCHANGED Shown(log) /\ \A w \in Viewers \ {v} : view'[w] = view[w]
    BY <1>4 DEF Moved
  <2>2. CASE view'[v].at = view[v].at /\ Public(view'[v].state) = Public(view[v].state)
    <3>1. UNCHANGED <<at, shows>>
      BY <2>1, <2>2
    <3> QED
      BY <2>1, <3>1
  <2>3. CASE view'[v].at >= view[v].at /\ view'[v].at > 0
    <3>1. PICK j, k : j = view'[v].at /\ k = view[v].at
      OBVIOUS
    <3>2. j \in Nat /\ k \in Nat /\ j <= Len(log) /\ k <= j /\ j > 0
      <4>1. view'[v].at \in Nat /\ view'[v].at <= Len(log')
        BY <1>1 DEF OrderInv, ViewType
      <4> QED
        BY <2>1, <2>3, <3>1, <4>1, OrderParts
    <3>3. Public(view'[v].state) = Public(log[j])
      BY <1>1, <2>1, <2>3, <3>1 DEF StreamInv, ViewsAgree
    <3>4. CASE j = k
      <4>1. Public(view[v].state) = Public(log[j])
        BY <3>1, <3>2, <3>4 DEF StreamInv, ViewsAgree
      <4> QED
        BY <2>2, <3>1, <3>3, <3>4, <4>1
    <3>5. CASE k < j
      <4>1. j \in (at[v] + 1) .. Len(Shown(log)) /\ Shown(log)[j] = Public(log[j])
        <5>1. DOMAIN log = 1 .. Len(log)
          BY <1>2
        <5>2. Shown(log) = [i \in 1 .. Len(log) |-> Public(log[i])] /\ at[v] = k
          BY <3>1, <5>1 DEF Shown
        <5> QED
          BY <1>2, <3>2, <3>5, <5>2
      <4>2. at' = [at EXCEPT ![v] = j]
        BY <2>1, <3>1
      <4>3. shows' = [shows EXCEPT ![v] = Shown(log)[j]]
        BY <2>1, <3>3, <4>1
      <4> HIDE DEF at, shows
      <4>4. \E i \in (at[v] + 1) .. Len(Shown(log)) :
              at' = [at EXCEPT ![v] = i] /\ shows' = [shows EXCEPT ![v] = Shown(log)[i]]
        BY <4>1, <4>2, <4>3
      <4>5. Shared!Observe(v)
        BY <2>1, <4>4 DEF Shared!Observe, Shown, at, shows
      <4> QED
        BY <4>5 DEF Shared!Next
    <3> QED
      BY <3>2, <3>4, <3>5
  <2> QED
    BY <1>4, <2>2, <2>3 DEF Moved
<1> QED
  BY <1>1, <1>3, <1>4

(* What a viewer shows is a state the host really had, and never an older one than       *)
(* before (RemoteSessionView.applyIncoming and foldSnapshot over the broadcaster's drain *)
(* and the events route): over drops, reconnects and patches served twice the stream     *)
(* implements SharedState, for one host or viewers that do not switch, and an agent that *)
(* does not return to a message it has left.                                             *)
THEOREM RefinementCorrect ==
  ASSUME OneHostOrSession, ~Interleaves
  PROVE  Spec => SharedStates
  BY StreamCorrect, SharedInit, SharedNext, PTL DEF Spec, SharedStates, Shared!Spec

====
