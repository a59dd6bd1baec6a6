---------------------------- MODULE SpeechProofs ----------------------------
(***************************************************************************)
(* Proofs about Speech, for any number of bubbles and segments, any        *)
(* look-ahead and any bounds: type correctness, that a segment called      *)
(* ready has its audio, that segments start in the order of the text, and  *)
(* that a loop waiting at the end of the list leaves nothing behind.       *)
(*                                                                         *)
(* The inductive invariant has three layers over the types.  OrderInv: the *)
(* list is sorted and holds the items that are not absent.  AheadInv:      *)
(* until the driver jumps, nothing behind the cursor was played, and what  *)
(* the loop holds to play stands at the cursor.  StraightInv: until the    *)
(* driver jumps, each segment is fetched once and never aborted, so that   *)
(* no late result brings a segment back that was given up.                 *)
(***************************************************************************)
EXTENDS Speech, FiniteSetTheorems, SequenceTheorems, TLAPS

Items    == [st : ItemStates, needs : BOOLEAN, fetch : Nat, skip : {"-", "orphan", "timeout"}]
Statuses == {"none", "pending", "fetching", "ready", "error", "stale"}
Audio    == {"none", "loading", "complete", "cut", "broken"}
Fetches  == [key : Keys, gen : Nat, phase : {"text", "synth"}, sig : Nat]
Loops    == [at : Places, seg : Keys \union {None}, woken : BOOLEAN, full : BOOLEAN,
             lost : BOOLEAN]

(* The parts of TypeOK, and that the loop holds a segment where it needs one. *)
ListType ==
  /\ allocated \in [1 .. Bubbles -> 0 .. PerBubble]
  /\ list \in Seq(Keys)
  /\ item \in [Keys -> Items] /\ epoch \in [Keys -> Nat]
  /\ cursor \in 1 .. Len(list) + 1 /\ jumpTarget \in Nat

LoopType ==
  /\ transport \in {"playing", "paused", "stopped"}
  /\ loop \in Loops
  /\ loop.at \in {"resumePlay", "start", "item", "play"} => loop.seg \in Keys

JobType ==
  /\ jobs \in Seq(Keys) /\ status \in [Keys -> Statuses]
  /\ ctrl \in [Keys -> Nat] /\ fetches \subseteq Fetches
  /\ pending \in Nat

SinkType ==
  /\ sink \in [Keys -> Audio] /\ sinkCtrl \in [Keys -> Nat]
  /\ aborted \subseteq Keys \X Nat

CountType == steered \in BOOLEAN /\ events \in 0 .. MaxEvents

Typed == ListType /\ LoopType /\ JobType /\ SinkType /\ CountType

LEMMA TypedIsTypeOK == Typed => TypeOK
  BY DEF Typed, TypeOK, ListType, LoopType, JobType, SinkType, CountType, Items, Statuses,
     Audio, Fetches, Loops

-----------------------------------------------------------------------------
(* The keys, and the segment at the cursor. *)

LEMMA SegmentCount ==
  ASSUME NEW n \in Nat
  PROVE  IsFiniteSet(1 .. n) /\ Cardinality(1 .. n) = n
<1>1. 1 \in Int /\ n \in Int
  OBVIOUS
<1>2. IsFiniteSet(1 .. n) /\ Cardinality(1 .. n) = IF 1 > n THEN 0 ELSE n - 1 + 1
  BY <1>1, FS_Interval
<1> QED
  BY <1>2

LEMMA KeysFinite == IsFiniteSet(Keys)
<1>1. Bubbles \in Int /\ PerBubble - 1 \in Int
  BY SpeechAssumption
<1>2. IsFiniteSet(1 .. Bubbles) /\ IsFiniteSet(0 .. PerBubble - 1)
  BY <1>1, FS_Interval
<1> QED
  BY <1>2, FS_Product DEF Keys

LEMMA KeyParts ==
  ASSUME NEW k \in Keys
  PROVE  k[1] \in 1 .. Bubbles /\ k[2] \in 0 .. PerBubble - 1 /\ k = <<k[1], k[2]>> /\ k # None
  BY SpeechAssumption DEF Keys

LEMMA CursorIs ==
  ASSUME ListType
  PROVE  /\ AtCursor \in Keys \union {None}
         /\ AtCursor # None <=> cursor <= Len(list)
         /\ AtCursor # None => AtCursor = list[cursor] /\ AtCursor \in Keys
         /\ Len(list) \in Nat /\ \A i \in 1 .. Len(list) : list[i] \in Keys
<1>1. /\ Len(list) \in Nat /\ \A i \in 1 .. Len(list) : list[i] \in Keys
      /\ cursor \in 1 .. Len(list) + 1
  BY DEF ListType
<1>2. cursor <= Len(list) => list[cursor] \in Keys /\ list[cursor] # None
  BY <1>1, KeyParts
<1> QED
  BY <1>1, <1>2 DEF AtCursor

LEMMA ItemParts ==
  ASSUME ListType, NEW k \in Keys
  PROVE  /\ item[k] \in Items /\ item[k].st \in ItemStates /\ item[k].needs \in BOOLEAN
         /\ item[k].fetch \in Nat /\ item[k].skip \in {"-", "orphan", "timeout"}
         /\ epoch[k] \in Nat
  BY DEF ListType, Items

(* What becomes of one item. *)
LEMMA ItemBecomes ==
  ASSUME NEW i \in Items, NEW st \in ItemStates, NEW b \in BOOLEAN,
         NEW skip \in {"-", "orphan", "timeout"}
  PROVE  /\ [i EXCEPT !.st = st] \in Items
         /\ [i EXCEPT !.st = st, !.needs = b] \in Items
         /\ [i EXCEPT !.st = st, !.skip = skip] \in Items
         /\ \A n \in Nat : [i EXCEPT !.needs = b, !.fetch = n] \in Items
         /\ Absent \in Items
         /\ \A n \in Nat : [Absent EXCEPT !.st = st, !.fetch = n] \in Items
  BY DEF Items, Absent, ItemStates

LEMMA OffIs == Off \in Loops /\ Off.at = "off"
  BY DEF Off, Loops, Places

LEMMA GoToIs ==
  ASSUME NEW place \in Places
  PROVE  GoTo(place) \in Loops /\ GoTo(place).at = place /\ GoTo(place).woken = FALSE
  BY DEF GoTo, Off, Loops, Places

LEMMA HoldsIs ==
  ASSUME NEW place \in Places, NEW k \in Keys
  PROVE  /\ [GoTo(place) EXCEPT !.seg = k] \in Loops
         /\ [GoTo(place) EXCEPT !.seg = k].seg = k /\ [GoTo(place) EXCEPT !.seg = k].at = place
  BY DEF GoTo, Off, Loops, Places

LEMMA LoopBecomes ==
  ASSUME LoopType, NEW a \in BOOLEAN, NEW b \in BOOLEAN
  PROVE  /\ [loop EXCEPT !.woken = a] \in Loops
         /\ [loop EXCEPT !.woken = a].at = loop.at /\ [loop EXCEPT !.woken = a].seg = loop.seg
         /\ [loop EXCEPT !.woken = a, !.lost = b] \in Loops
         /\ [loop EXCEPT !.woken = a, !.lost = b].at = loop.at
         /\ [loop EXCEPT !.woken = a, !.lost = b].seg = loop.seg
         /\ [loop EXCEPT !.at = "start"] \in Loops
         /\ [loop EXCEPT !.at = "start"].seg = loop.seg /\ [loop EXCEPT !.at = "start"].at = "start"
         /\ loop.woken \in BOOLEAN /\ loop.lost \in BOOLEAN /\ loop.at \in Places
         /\ loop.seg \in Keys \union {None}
  BY DEF LoopType, Loops, Places

(* #pumpFetchLoop starts pending jobs only. *)
LEMMA PumpIs ==
  ASSUME NEW js \in Seq(Keys), NEW st \in [Keys -> Statuses], NEW fs \in SUBSET Fetches,
         ctrl' \in [Keys -> Nat], Pump(js, st, fs)
  PROVE  /\ status' \in [Keys -> Statuses] /\ fetches' \subseteq Fetches
         /\ \E S \in SUBSET Keys :
              /\ \A k \in S : st[k] = "pending"
              /\ status' = [k \in Keys |-> IF k \in S THEN "fetching" ELSE st[k]]
              /\ fetches' = fs \union
                   {[key |-> k, gen |-> ctrl'[k], phase |-> "text", sig |-> 0] : k \in S}
<1> DEFINE waiting == {i \in 1 .. Len(js) : st[js[i]] = "pending"}
           free == Lookahead - Cardinality(fs)
           chosen == {i \in waiting : Cardinality({j \in waiting : j < i}) < free}
           S == {js[i] : i \in chosen}
<1>1. S \in SUBSET Keys /\ \A k \in S : st[k] = "pending"
  <2>1. \A i \in chosen : js[i] \in Keys /\ st[js[i]] = "pending"
    OBVIOUS
  <2> HIDE DEF chosen
  <2> QED
    BY <2>1
<1>2. /\ status' = [k \in Keys |-> IF k \in S THEN "fetching" ELSE st[k]]
      /\ fetches' = fs \union {[key |-> k, gen |-> ctrl'[k], phase |-> "text", sig |-> 0] : k \in S}
  BY DEF Pump
<1> HIDE DEF S
<1>3. status' \in [Keys -> Statuses]
  BY <1>1, <1>2 DEF Statuses
<1>4. \A k \in S : [key |-> k, gen |-> ctrl'[k], phase |-> "text", sig |-> 0] \in Fetches
  BY <1>1 DEF Fetches
<1> QED
  BY <1>1, <1>2, <1>3, <1>4

(* The steps a pump takes: S are the jobs it starts. *)
Started(S, st, fs) ==
  /\ S \in SUBSET Keys /\ \A k \in S : st[k] = "pending"
  /\ status' = [k \in Keys |-> IF k \in S THEN "fetching" ELSE st[k]]
  /\ fetches' = fs \union {[key |-> k, gen |-> ctrl'[k], phase |-> "text", sig |-> 0] : k \in S}

Verdict(k, verdict) == IF status[k] = "none" THEN status ELSE [status EXCEPT ![k] = verdict]

(* The four things an outcome may do to an item. *)
LEMMA MarkedIs ==
  ASSUME NEW k, NEW outcome
  PROVE  \/ item[k].st = "absent" /\ Marked(k, outcome) = item[k]
         \/ /\ outcome = "abandoned" /\ item[k].st # "absent"
            /\ Marked(k, outcome) = [item[k] EXCEPT !.st = "reserved", !.needs = TRUE]
         \/ /\ item[k].st = "reserved" /\ outcome # "abandoned"
            /\ Marked(k, outcome) = [item[k] EXCEPT !.st = outcome]
         \/ Marked(k, outcome) = item[k]
<1>1. CASE item[k].st = "absent" \/ Stale(k)
  BY <1>1 DEF Marked
<1>2. CASE ~(item[k].st = "absent" \/ Stale(k)) /\ outcome = "abandoned"
  BY <1>2 DEF Marked
<1>3. CASE ~(item[k].st = "absent" \/ Stale(k)) /\ outcome # "abandoned"
  BY <1>3 DEF Marked
<1> QED
  BY <1>1, <1>2, <1>3

LEMMA MarkedType ==
  ASSUME ListType, NEW k \in Keys, NEW outcome \in {"ready", "error", "abandoned"}
  PROVE  Marked(k, outcome) \in Items
<1>1. item[k] \in Items /\ {"reserved", "ready", "error"} \subseteq ItemStates
  BY ItemParts DEF ItemStates
<1>2. \A st \in ItemStates :
        [item[k] EXCEPT !.st = st] \in Items /\ [item[k] EXCEPT !.st = st, !.needs = TRUE] \in Items
  BY <1>1, ItemBecomes
<1> QED
  BY <1>1, <1>2, MarkedIs

LEMMA SettleIs ==
  ASSUME Typed, NEW f \in fetches, NEW outcome \in {"ready", "error", "abandoned"},
         NEW verdict \in Statuses, Settle(f, outcome, verdict)
  PROVE  /\ f.key \in Keys /\ f \in Fetches
         /\ ListType' /\ LoopType' /\ JobType' /\ CountType'
         /\ item' = [item EXCEPT ![f.key] = Marked(f.key, outcome)]
         /\ loop'.at = loop.at /\ loop'.seg = loop.seg /\ (loop'.woken = FALSE => loop.woken = FALSE)
         /\ \E S : Started(S, Verdict(f.key, verdict), fetches \ {f})
         /\ UNCHANGED <<list, epoch, cursor, jumpTarget, transport, allocated, steered, events,
                        jobs, ctrl>>
<1>1. PICK k : k = f.key
  OBVIOUS
<1>2. k \in Keys /\ f \in Fetches
  BY <1>1 DEF Typed, JobType, Fetches
<1>3. UNCHANGED <<list, epoch, cursor, jumpTarget, transport, allocated, steered, events, jobs, ctrl>>
  BY DEF Settle
<1>4. item' = [item EXCEPT ![k] = Marked(k, outcome)]
  BY <1>1 DEF Settle
<1>5. ListType'
  <2>1. item' \in [Keys -> Items]
    BY <1>2, <1>4, MarkedType DEF Typed, ListType
  <2> QED
    BY <1>3, <2>1 DEF Typed, ListType
<1>6. \/ loop' = loop
      \/ \E a, b \in BOOLEAN : loop' = [loop EXCEPT !.woken = a, !.lost = b] /\ (loop.woken => a)
  <2>1. CASE loop.seg # k
    BY <1>1, <2>1 DEF Settle
  <2>2. CASE loop.seg = k
    <3>1. loop' = [loop EXCEPT !.woken = loop.woken \/ (loop.at = "item" /\ ~Stale(k)),
                               !.lost = loop.lost \/ (loop.at = "play" /\ outcome = "ready"
                                                       /\ sink[k] # "none")]
      BY <1>1, <2>2 DEF Settle
    <3> QED
      BY <3>1
  <2> QED
    BY <2>1, <2>2
<1>7. /\ LoopType'
      /\ loop'.at = loop.at /\ loop'.seg = loop.seg /\ (loop'.woken = FALSE => loop.woken = FALSE)
  <2>1. CASE loop' = loop
    BY <1>3, <2>1 DEF Typed, LoopType
  <2>2. ASSUME NEW a \in BOOLEAN, NEW b \in BOOLEAN, loop.woken => a,
               loop' = [loop EXCEPT !.woken = a, !.lost = b]
        PROVE  /\ LoopType'
               /\ loop'.at = loop.at /\ loop'.seg = loop.seg
               /\ (loop'.woken = FALSE => loop.woken = FALSE)
    <3>1. loop' \in Loops /\ loop'.at = loop.at /\ loop'.seg = loop.seg /\ loop.woken \in BOOLEAN
      BY <2>2, LoopBecomes DEF Typed
    <3>2. loop'.woken = a
      BY <2>2 DEF Typed, LoopType, Loops
    <3>3. LoopType'
      BY <1>3, <3>1 DEF Typed, LoopType
    <3> QED
      BY <2>2, <3>1, <3>2, <3>3
  <2> QED
    BY <1>6, <2>1, <2>2
<1>8. /\ status \in [Keys -> Statuses] /\ jobs \in Seq(Keys) /\ ctrl' \in [Keys -> Nat]
      /\ fetches \ {f} \in SUBSET Fetches
  BY <1>3 DEF Typed, JobType
<1>9. Verdict(k, verdict) \in [Keys -> Statuses]
  BY <1>2, <1>8 DEF Verdict
<1>10. Pump(jobs, Verdict(k, verdict), fetches \ {f})
  BY <1>1 DEF Settle, Verdict
<1>11. /\ status' \in [Keys -> Statuses] /\ fetches' \subseteq Fetches
       /\ \E S : Started(S, Verdict(k, verdict), fetches \ {f})
  BY <1>8, <1>9, <1>10, PumpIs DEF Started
<1>12. JobType'
  <2>1. pending' \in Nat
    BY DEF Settle, FewerPending, Typed, JobType
  <2> QED
    BY <1>3, <1>11, <2>1 DEF Typed, JobType
<1>13. CountType'
  BY <1>3 DEF Typed, CountType
<1> QED
  BY <1>1, <1>2, <1>3, <1>4, <1>5, <1>7, <1>11, <1>12, <1>13

LEMMA CaughtIs ==
  ASSUME NEW f
  PROVE  Caught(f) \in {"error", "abandoned"} /\ "error" \in Statuses /\ "ready" \in Statuses
  BY DEF Caught, Statuses

LEMMA FetchParts ==
  ASSUME Typed, NEW f \in fetches
  PROVE  /\ f \in Fetches /\ f.key \in Keys /\ f.gen \in Nat /\ f.sig \in Nat
         /\ f.phase \in {"text", "synth"}
  BY DEF Typed, JobType, Fetches

LEMMA TextDoneTyped ==
  ASSUME Typed, NEW f \in fetches, TextDone(f)
  PROVE  Typed'
<1>1. SinkType'
  BY DEF TextDone, sinkVars, Typed, SinkType
<1>2. CASE f.key[1] \in Composed /\ Current(f.key) \in aborted
  <2>1. Settle(f, "abandoned", "error")
    BY <1>2 DEF TextDone
  <2> QED
    BY <1>1, <2>1, SettleIs, CaughtIs DEF Typed
<1>3. CASE ~(f.key[1] \in Composed /\ Current(f.key) \in aborted)
  <2>1. /\ fetches' = (fetches \ {f}) \union {[f EXCEPT !.phase = "synth", !.sig = ctrl[f.key]]}
        /\ UNCHANGED <<allocated, list, item, epoch, cursor, jumpTarget, transport, loop, jobs,
                       status, ctrl, pending, steered, events>>
    BY <1>3 DEF TextDone, listVars, loopVars
  <2>2. [f EXCEPT !.phase = "synth", !.sig = ctrl[f.key]] \in Fetches
    BY FetchParts DEF Fetches, Typed, JobType
  <2>3. JobType'
    BY <2>1, <2>2 DEF Typed, JobType
  <2> QED
    BY <1>1, <2>1, <2>3 DEF Typed, ListType, LoopType, CountType
<1> QED
  BY <1>2, <1>3

LEMMA TextFailsTyped ==
  ASSUME Typed, NEW f \in fetches, TextFails(f)
  PROVE  Typed'
<1>1. SinkType'
  BY DEF TextFails, sinkVars, Typed, SinkType
<1> QED
  BY <1>1, SettleIs, CaughtIs DEF TextFails, Typed

LEMMA SynthDoneTyped ==
  ASSUME Typed, NEW f \in fetches, SynthDone(f)
  PROVE  Typed'
<1>1. SinkType'
  BY FetchParts DEF SynthDone, Typed, SinkType, JobType, Audio
<1> QED
  BY <1>1, SettleIs, CaughtIs DEF SynthDone, Typed

LEMMA SynthFailsTyped ==
  ASSUME Typed, NEW f \in fetches, SynthFails(f)
  PROVE  Typed'
<1>1. SinkType'
  BY DEF SynthFails, sinkVars, Typed, SinkType
<1> QED
  BY <1>1, SettleIs, CaughtIs DEF SynthFails, Typed

LEMMA StreamTyped ==
  ASSUME Typed, NEW k \in Keys, StreamEnds(k) \/ StreamBreaks(k)
  PROVE  Typed'
<1>1. UNCHANGED <<allocated, list, item, epoch, cursor, jumpTarget, transport, loop, jobs,
                  status, ctrl, fetches, pending, sinkCtrl, aborted, steered>>
  BY DEF StreamEnds, StreamBreaks, listVars, loopVars, jobVars
<1>2. sink' \in [Keys -> Audio]
  BY DEF StreamEnds, StreamBreaks, Typed, SinkType, Audio
<1>3. events' \in 0 .. MaxEvents
  BY SpeechAssumption DEF StreamEnds, StreamBreaks, Happens, Typed, CountType
<1> QED
  BY <1>1, <1>2, <1>3 DEF Typed, ListType, LoopType, JobType, SinkType, CountType

LEMMA LeastNat ==
  ASSUME NEW T \in SUBSET Nat, T # {}
  PROVE  \E x \in T : \A y \in T : x <= y
<1> DEFINE Below == {0 .. x : x \in T}
<1>1. Below \subseteq FiniteSubsetsOf(Nat) /\ Below # {}
  <2>1. ASSUME NEW x \in T PROVE 0 .. x \in FiniteSubsetsOf(Nat)
    BY FS_Interval, 0 .. x \subseteq Nat DEF FiniteSubsetsOf
  <2> QED
    BY <2>1
<1>2. PICK X \in Below : \A Y \in Below : <<Y, X>> \notin StrictSubsetOrdering(Nat)
  <2> HIDE DEF Below
  <2> QED
    BY <1>1, FS_StrictSubsetOrderingWellFounded, WFMin
<1>3. PICK x \in T : X = 0 .. x
  OBVIOUS
<1>4. ASSUME NEW y \in T, y < x PROVE FALSE
  <2>1. 0 .. y \subseteq X /\ x \in X /\ x \notin 0 .. y /\ X \subseteq Nat
    BY <1>3, <1>4
  <2> QED
    BY <1>2, <2>1 DEF StrictSubsetOrdering
<1> QED
  BY <1>4

-----------------------------------------------------------------------------
(* A segment is reserved. *)

LEMMA PositionIs ==
  ASSUME ListType, NEW k \in Keys
  PROVE  Position(k) \in 1 .. Len(list) + 1
<1> DEFINE I == {i \in 1 .. Len(list) : Before(list[i], k)}
<1>1. Len(list) \in Nat /\ I \subseteq 1 .. Len(list)
  BY DEF ListType
<1>2. IsFiniteSet(1 .. Len(list)) /\ Cardinality(1 .. Len(list)) = Len(list)
  BY <1>1, SegmentCount
<1>3. Cardinality(I) \in Nat /\ Cardinality(I) <= Len(list)
  BY <1>1, <1>2, FS_Subset, FS_CardinalityType
<1> QED
  BY <1>1, <1>3 DEF Position

LEMMA InsertIs ==
  ASSUME NEW l \in Seq(Keys), NEW n \in 1 .. Len(l) + 1, NEW k \in Keys
  PROVE  /\ InsertAt(l, n, k) \in Seq(Keys) /\ Len(InsertAt(l, n, k)) = Len(l) + 1
         /\ \A i \in 1 .. Len(l) + 1 :
              InsertAt(l, n, k)[i] = IF i < n THEN l[i] ELSE IF i = n THEN k ELSE l[i - 1]
<1> DEFINE a == SubSeq(l, 1, n - 1)
           b == SubSeq(l, n, Len(l))
<1>1. /\ a \in Seq(Keys) /\ Len(a) = n - 1 /\ \A i \in 1 .. n - 1 : a[i] = l[i]
  OBVIOUS
<1>2. /\ b \in Seq(Keys) /\ Len(b) = Len(l) - n + 1 /\ \A i \in 1 .. Len(l) - n + 1 : b[i] = l[i + n - 1]
  OBVIOUS
<1>3. /\ <<k>> \in Seq(Keys) /\ Len(<<k>>) = 1 /\ <<k>>[1] = k
  OBVIOUS
<1>4. InsertAt(l, n, k) = a \o <<k>> \o b
  BY DEF InsertAt
<1> HIDE DEF a, b
<1>5. /\ a \o <<k>> \in Seq(Keys) /\ Len(a \o <<k>>) = n
      /\ \A i \in 1 .. n : (a \o <<k>>)[i] = IF i < n THEN l[i] ELSE k
  BY <1>1, <1>3
<1>6. PICK ak : ak = a \o <<k>>
  OBVIOUS
<1>7. /\ ak \o b \in Seq(Keys) /\ Len(ak \o b) = Len(l) + 1
      /\ \A i \in 1 .. Len(l) + 1 :
           (ak \o b)[i] = IF i < n THEN l[i] ELSE IF i = n THEN k ELSE l[i - 1]
  <2>1. Len(ak) = n /\ ak \in Seq(Keys) /\ Len(b) = Len(l) - n + 1 /\ n \in Nat /\ Len(l) \in Nat
    BY <1>2, <1>5, <1>6
  <2>2. ak \o b \in Seq(Keys) /\ Len(ak \o b) = Len(l) + 1
    BY <1>2, <2>1
  <2>3. ASSUME NEW i \in 1 .. Len(l) + 1
        PROVE  (ak \o b)[i] = IF i < n THEN l[i] ELSE IF i = n THEN k ELSE l[i - 1]
    <3>1. CASE i <= n
      BY <1>2, <1>5, <1>6, <2>1, <3>1
    <3>2. CASE i > n
      <4>1. (ak \o b)[i] = b[i - n]
        BY <1>2, <2>1, <3>2
      <4>2. i - n \in 1 .. Len(l) - n + 1
        BY <2>1, <3>2
      <4> QED
        BY <1>2, <2>1, <3>2, <4>1, <4>2
    <3> QED
      BY <2>1, <3>1, <3>2
  <2> QED
    BY <2>2, <2>3
<1> QED
  BY <1>4, <1>6, <1>7

LEMMA ReserveTyped ==
  ASSUME Typed, NEW k \in Keys, Reserve(k), allocated' \in [1 .. Bubbles -> 0 .. PerBubble]
  PROVE  ListType' /\ LoopType'
<1>1. list' = InsertAt(list, Position(k), k) /\ list' \in Seq(Keys) /\ Len(list') = Len(list) + 1
  BY PositionIs, InsertIs DEF Reserve, Typed, ListType
<1>2. item' \in [Keys -> Items]
  <2>1. [Absent EXCEPT !.st = "reserved", !.fetch = epoch[k]] \in Items
    <3>1. PICK n : n = epoch[k]
      OBVIOUS
    <3>2. n \in Nat
      BY <3>1 DEF Typed, ListType
    <3>3. [Absent EXCEPT !.st = "reserved", !.fetch = n] \in Items
      BY <3>2 DEF Absent, Items, ItemStates
    <3> QED
      BY <3>1, <3>3
  <2> QED
    BY <2>1 DEF Reserve, Typed, ListType
<1>3. cursor' \in 1 .. Len(list') + 1 /\ UNCHANGED <<epoch, jumpTarget>>
  BY <1>1 DEF Reserve, ShiftedCursor, Typed, ListType
<1>4. ListType'
  BY <1>1, <1>2, <1>3 DEF Typed, ListType
<1>5. transport' \in {"playing", "paused", "stopped"}
  BY DEF Reserve, Typed, LoopType
<1>6. CASE loop.at = "off"
  <2>1. loop' \in Loops /\ loop'.at = "top"
    <3>1. loop' = GoTo("top") /\ "top" \in Places
      BY <1>6 DEF Reserve, Places
    <3> QED
      BY <3>1, GoToIs
  <2> QED
    BY <1>4, <1>5, <2>1 DEF LoopType
<1>7. CASE loop.at # "off"
  <2>1. loop' = Unparked
    BY <1>7 DEF Reserve
  <2>2. loop' = loop \/ loop' = [loop EXCEPT !.woken = TRUE]
    BY <2>1 DEF Unparked
  <2>3. loop' \in Loops /\ loop'.at = loop.at /\ loop'.seg = loop.seg
    BY <2>2, LoopBecomes DEF Typed, LoopType
  <2> QED
    BY <1>4, <1>5, <2>3 DEF LoopType, Typed
<1> QED
  BY <1>4, <1>6, <1>7

(* The parts of a sentence's step. *)
LEMMA EnqueueIs ==
  ASSUME Typed, NEW b \in 1 .. Bubbles, Enqueue(b)
  PROVE  \E k \in Keys :
           /\ k = <<b, allocated[b]>> /\ Idle
           /\ allocated' = [allocated EXCEPT ![b] = @ + 1]
           /\ allocated' \in [1 .. Bubbles -> 0 .. PerBubble]
           /\ Reserve(k) /\ jobs' = Append(jobs, k) /\ pending' = pending + 1
           /\ status' \in [Keys -> Statuses] /\ fetches' \subseteq Fetches
           /\ \E S : Started(S, [status EXCEPT ![k] = "pending"], fetches)
           /\ UNCHANGED <<ctrl, sink, sinkCtrl, aborted, steered, events>>
<1>1. PICK k : k = NextKey(b)
  OBVIOUS
<1>2. k = <<b, allocated[b]>> /\ k \in Keys /\ allocated[b] + 1 \in 0 .. PerBubble
  <2>1. allocated[b] \in 0 .. PerBubble /\ allocated[b] < PerBubble /\ PerBubble \in Nat
    BY SpeechAssumption DEF Enqueue, Typed, ListType
  <2> QED
    BY <1>1, <2>1 DEF NextKey, Keys
<1>3. /\ Reserve(k) /\ jobs' = Append(jobs, k) /\ pending' = pending + 1 /\ Idle
      /\ allocated' = [allocated EXCEPT ![b] = @ + 1]
      /\ Pump(jobs', [status EXCEPT ![k] = "pending"], fetches)
      /\ UNCHANGED <<ctrl, sink, sinkCtrl, aborted, steered, events>>
  BY <1>1 DEF Enqueue, sinkVars
<1>4. allocated' \in [1 .. Bubbles -> 0 .. PerBubble]
  BY <1>2, <1>3 DEF Typed, ListType
<1>5. /\ jobs' \in Seq(Keys) /\ [status EXCEPT ![k] = "pending"] \in [Keys -> Statuses]
      /\ ctrl' \in [Keys -> Nat] /\ fetches \in SUBSET Fetches
  BY <1>2, <1>3 DEF Typed, JobType, Statuses
<1>6. /\ status' \in [Keys -> Statuses] /\ fetches' \subseteq Fetches
      /\ \E S : Started(S, [status EXCEPT ![k] = "pending"], fetches)
  BY <1>3, <1>5, PumpIs DEF Started
<1> QED
  BY <1>2, <1>3, <1>4, <1>6

LEMMA EnqueueTyped ==
  ASSUME Typed, NEW b \in 1 .. Bubbles, Enqueue(b)
  PROVE  Typed'
<1>1. PICK k \in Keys :
           /\ k = <<b, allocated[b]>> /\ Idle
           /\ allocated' = [allocated EXCEPT ![b] = @ + 1]
           /\ allocated' \in [1 .. Bubbles -> 0 .. PerBubble]
           /\ Reserve(k) /\ jobs' = Append(jobs, k) /\ pending' = pending + 1
           /\ status' \in [Keys -> Statuses] /\ fetches' \subseteq Fetches
           /\ \E S : Started(S, [status EXCEPT ![k] = "pending"], fetches)
           /\ UNCHANGED <<ctrl, sink, sinkCtrl, aborted, steered, events>>
  BY EnqueueIs
<1>2. ListType' /\ LoopType'
  BY <1>1, ReserveTyped
<1>3. JobType'
  BY <1>1 DEF Typed, JobType
<1> QED
  BY <1>1, <1>2, <1>3 DEF Typed, SinkType, CountType

-----------------------------------------------------------------------------
(* The play loop. *)

LEMMA StartPlayIs ==
  ASSUME Typed, NEW k \in Keys, NEW full \in BOOLEAN, StartPlay(k, full)
  PROVE  /\ item' = [item EXCEPT ![k].st = "playing"] /\ item' \in [Keys -> Items]
         /\ loop' \in Loops /\ loop'.at = "play" /\ loop'.seg = k
<1>1. item' = [item EXCEPT ![k].st = "playing"]
  BY DEF StartPlay
<1>2. [item[k] EXCEPT !.st = "playing"] \in Items
  BY ItemParts, ItemBecomes DEF Typed, ItemStates
<1>3. loop' = [Off EXCEPT !.at = "play", !.seg = k, !.full = full, !.woken = (sink[k] = "none")]
  BY DEF StartPlay
<1>4. item' \in [Keys -> Items]
  BY <1>1, <1>2 DEF Typed, ListType
<1>5. loop' \in Loops /\ loop'.at = "play" /\ loop'.seg = k
  <2>1. PICK b \in BOOLEAN : b = (sink[k] = "none")
    OBVIOUS
  <2>2. PICK l : l = loop'
    OBVIOUS
  <2>3. l = [Off EXCEPT !.at = "play", !.seg = k, !.full = full, !.woken = b]
    BY <1>3, <2>1, <2>2
  <2>4. l \in Loops /\ l.seg = k /\ l.at = "play"
    BY <2>3 DEF Off, Loops, Places
  <2> QED
    BY <2>2, <2>4
<1> QED
  BY <1>1, <1>4, <1>5

LEMMA OrphansAre ==
  ASSUME ListType
  PROVE  /\ LastPlayed \in 0 .. Len(list)
         /\ \A i \in 1 .. Len(list) : item[list[i]].st \in {"done", "playing"} => i <= LastPlayed
         /\ Orphans # {} => /\ Min(Orphans) \in Orphans
                            /\ Min(Orphans) \in 1 .. Len(list) /\ Min(Orphans) > LastPlayed
<1>1. Len(list) \in Nat
  BY DEF ListType
<1> DEFINE P == {0} \union {i \in 1 .. Len(list) : item[list[i]].st \in {"done", "playing"}}
           n == Len(list)
<1>2. Max(P) \in P /\ \A y \in P : y <= Max(P)
  <2>1. P \in SUBSET Int /\ P # {} /\ \A y \in P : y <= n
    BY <1>1
  <2>0. n \in Int
    BY <1>1
  <2> HIDE DEF P, n
  <2>2. \E x \in P : \A y \in P : y <= x
    <3> DEFINE Back == {n - x : x \in P}
    <3>1. Back \in SUBSET Nat /\ Back # {}
      <4>1. \A x \in P : n - x \in Nat
        BY <2>0, <2>1
      <4> QED
        BY <2>1, <4>1
    <3>2. PICK m \in Back : \A y \in Back : m <= y
      <4> HIDE DEF Back
      <4> QED
        BY <3>1, LeastNat
    <3>3. PICK x \in P : m = n - x
      BY <3>2
    <3>4. ASSUME NEW y \in P PROVE y <= x
      <4>1. m <= n - y /\ y \in Int /\ x \in Int
        BY <2>1, <3>2
      <4> QED
        BY <2>0, <3>3, <4>1
    <3> QED
      BY <3>4
  <2> QED
    BY <2>2 DEF Max
<1>3. LastPlayed = Max(P)
  BY DEF LastPlayed
<1> HIDE DEF P
<1>4. LastPlayed \in P /\ \A y \in P : y <= LastPlayed
  BY <1>2, <1>3
<1> USE DEF P
<1>5. LastPlayed \in 0 .. Len(list)
  BY <1>1, <1>4
<1>6. \A i \in 1 .. Len(list) : item[list[i]].st \in {"done", "playing"} => i <= LastPlayed
  BY <1>4
<1>7. Orphans # {} => Min(Orphans) \in Orphans
  <2>1. Orphans \in SUBSET Nat
    BY DEF Orphans
  <2> QED
    BY <2>1, LeastNat DEF Min
<1> QED
  BY <1>5, <1>6, <1>7 DEF Orphans

(* The loop goes elsewhere without a segment. *)
LEMMA GoesTyped ==
  ASSUME Typed, NEW place \in {"top", "resume", "park"}, loop' = GoTo(place), transport' = transport
  PROVE  LoopType' /\ loop'.at = place
<1>1. place \in Places
  BY DEF Places
<1> QED
  BY <1>1, GoToIs DEF Typed, LoopType

LEMMA HoldsTyped ==
  ASSUME Typed, NEW place \in {"item", "resumePlay"}, NEW k \in Keys,
         loop' = [GoTo(place) EXCEPT !.seg = k], transport' = transport
  PROVE  LoopType' /\ loop'.at = place /\ loop'.seg = k
<1>1. place \in Places
  BY DEF Places
<1> QED
  BY <1>1, HoldsIs DEF Typed, LoopType

LEMMA StartPlayTyped ==
  ASSUME Typed, NEW k \in Keys, NEW full \in BOOLEAN, StartPlay(k, full),
         UNCHANGED <<allocated, list, epoch, cursor, jumpTarget, transport>>
  PROVE  ListType' /\ LoopType'
  BY StartPlayIs DEF Typed, ListType, LoopType

(* What is left alone keeps its type. *)
LEMMA OthersTyped ==
  ASSUME Typed
  PROVE  /\ UNCHANGED <<allocated, list, item, epoch, cursor, jumpTarget>> => ListType'
         /\ UNCHANGED <<transport, loop>> => LoopType'
         /\ UNCHANGED jobVars => JobType'
         /\ UNCHANGED sinkVars => SinkType'
         /\ UNCHANGED <<steered, events>> => CountType'
         /\ UNCHANGED <<allocated, list, epoch, jumpTarget>> /\ item' \in [Keys -> Items]
              /\ cursor' \in 1 .. Len(list) + 1 => ListType'
  BY DEF Typed, ListType, LoopType, JobType, SinkType, CountType, jobVars, sinkVars

LEMMA LoopPausesTyped ==
  ASSUME Typed, LoopPauses
  PROVE  Typed'
<1>1. LoopType'
  BY GoesTyped DEF LoopPauses
<1> QED
  BY <1>1, OthersTyped DEF LoopPauses, listVars, Typed

LEMMA SkipType ==
  ASSUME ListType, NEW k \in Keys, NEW reason \in {"orphan", "timeout"}
  PROVE  Skip(k, reason) \in Items
  BY ItemParts, ItemBecomes DEF Skip, ItemStates

LEMMA LoopAtEndTyped ==
  ASSUME Typed, LoopAtEnd
  PROVE  Typed'
<1>1. UNCHANGED <<allocated, list, epoch, transport, jobVars, sinkVars, steered, events>>
  BY DEF LoopAtEnd
<1>2. CASE Orphans # {}
  <2>1. cursor' = Min(Orphans) /\ jumpTarget' = Min(Orphans) /\ UNCHANGED <<item, loop>>
    BY <1>2 DEF LoopAtEnd
  <2>2. Min(Orphans) \in 1 .. Len(list) /\ Len(list) \in Nat
    BY <1>2, OrphansAre DEF Typed, ListType
  <2>3. ListType'
    BY <1>1, <2>1, <2>2 DEF Typed, ListType
  <2> QED
    BY <1>1, <2>1, <2>3, OthersTyped DEF Typed
<1>3. CASE Orphans = {}
  <2>1. /\ item' = [k \in Keys |-> IF Waiting(k) THEN Skip(k, "orphan") ELSE item[k]]
        /\ loop' = GoTo("park") /\ UNCHANGED <<cursor, jumpTarget>>
    BY <1>3 DEF LoopAtEnd
  <2>2. item' \in [Keys -> Items]
    BY <2>1, SkipType, ItemParts DEF Typed
  <2>3. LoopType'
    BY <1>1, <2>1, GoesTyped
  <2>4. ListType'
    BY <1>1, <2>1, <2>2 DEF Typed, ListType
  <2> QED
    BY <1>1, <2>3, <2>4, OthersTyped DEF Typed
<1> QED
  BY <1>2, <1>3

LEMMA LoopPlaysTyped ==
  ASSUME Typed, LoopPlays
  PROVE  Typed'
<1>1. AtCursor \in Keys /\ Complete(AtCursor) \in BOOLEAN
  BY CursorIs DEF LoopPlays, Typed, Complete
<1>2. ListType' /\ LoopType'
  BY <1>1, StartPlayTyped DEF LoopPlays
<1> QED
  BY <1>2, OthersTyped DEF LoopPlays, Typed

LEMMA RefetchTyped ==
  ASSUME Typed, NEW k \in Keys, Refetch(k)
  PROVE  /\ item' = [item EXCEPT ![k].needs = FALSE, ![k].fetch = epoch[k]]
         /\ item' \in [Keys -> Items] /\ JobType'
<1>1. item' = [item EXCEPT ![k].needs = FALSE, ![k].fetch = epoch[k]]
  BY DEF Refetch
<1>2. item' \in [Keys -> Items]
  <2>1. PICK n : n = epoch[k]
    OBVIOUS
  <2>2. n \in Nat /\ item[k] \in Items
    BY <2>1 DEF Typed, ListType
  <2>3. [item[k] EXCEPT !.needs = FALSE, !.fetch = n] \in Items
    BY <2>2 DEF Items
  <2>4. item' = [item EXCEPT ![k] = [item[k] EXCEPT !.needs = FALSE, !.fetch = n]]
    BY <1>1, <2>1 DEF Typed, ListType
  <2> QED
    BY <2>3, <2>4 DEF Typed, ListType
<1>3. CASE status[k] \in {"none", "fetching", "ready"}
  BY <1>1, <1>2, <1>3, OthersTyped DEF Refetch
<1>4. CASE status[k] \notin {"none", "fetching", "ready"}
  <2>1. /\ ctrl' = [ctrl EXCEPT ![k] = @ + 1] /\ pending' = pending + 1 /\ jobs' = jobs
        /\ Pump(jobs, [status EXCEPT ![k] = "pending"], fetches)
    BY <1>4 DEF Refetch
  <2>2. /\ jobs \in Seq(Keys) /\ ctrl' \in [Keys -> Nat] /\ pending' \in Nat
        /\ [status EXCEPT ![k] = "pending"] \in [Keys -> Statuses] /\ fetches \in SUBSET Fetches
    BY <2>1 DEF Typed, JobType, Statuses
  <2>3. status' \in [Keys -> Statuses] /\ fetches' \subseteq Fetches
    BY <2>1, <2>2, PumpIs
  <2> QED
    BY <1>1, <1>2, <2>1, <2>2, <2>3 DEF JobType
<1> QED
  BY <1>3, <1>4

LEMMA LoopWaitsTyped ==
  ASSUME Typed, LoopWaits
  PROVE  Typed'
<1>1. AtCursor \in Keys
  BY CursorIs DEF LoopWaits, Typed
<1>2. LoopType'
  BY <1>1, HoldsTyped DEF LoopWaits
<1>3. item' \in [Keys -> Items] /\ JobType'
  <2>1. CASE item[AtCursor].needs
    BY <1>1, <2>1, RefetchTyped DEF LoopWaits
  <2>2. CASE ~item[AtCursor].needs
    BY <2>2, OthersTyped DEF LoopWaits, Typed, ListType
  <2> QED
    BY <2>1, <2>2
<1>4. ListType'
  BY <1>3 DEF LoopWaits, Typed, ListType
<1> QED
  BY <1>2, <1>3, <1>4, OthersTyped DEF LoopWaits, Typed

LEMMA LoopCrawlsTyped ==
  ASSUME Typed, LoopCrawls
  PROVE  Typed'
<1>1. ListType'
  BY CursorIs DEF LoopCrawls, Typed, ListType
<1> QED
  BY <1>1, OthersTyped DEF LoopCrawls, loopVars, Typed

LEMMA LoopResumesItemTyped ==
  ASSUME Typed, LoopResumesItem
  PROVE  Typed'
<1>1. loop.seg \in Keys /\ "top" \in {"top", "resume", "park"}
  BY DEF LoopResumesItem, Typed, LoopType
<1>2. UNCHANGED <<allocated, list, epoch, jumpTarget, transport, jobVars, sinkVars, steered, events>>
  BY DEF LoopResumesItem
<1>3. CASE loop' = GoTo("top") /\ UNCHANGED <<item, cursor>>
  BY <1>1, <1>2, <1>3, GoesTyped, OthersTyped DEF Typed
<1>4. CASE UNCHANGED cursor /\ loop' = [GoTo("resumePlay") EXCEPT !.seg = loop.seg] /\ UNCHANGED item
  BY <1>1, <1>2, <1>4, HoldsTyped, OthersTyped DEF Typed
<1>5. CASE UNCHANGED cursor /\ StartPlay(loop.seg, FALSE)
  <2>1. ListType' /\ LoopType'
    BY <1>1, <1>2, <1>5, StartPlayTyped
  <2> QED
    BY <1>2, <2>1, OthersTyped DEF Typed
<1>6. CASE AtCursor = loop.seg /\ cursor' = cursor + 1 /\ loop' = GoTo("top") /\ UNCHANGED item
  <2>1. cursor <= Len(list)
    BY <1>1, <1>6, CursorIs, KeyParts DEF Typed
  <2>2. ListType'
    BY <1>2, <1>6, <2>1 DEF Typed, ListType
  <2> QED
    BY <1>1, <1>2, <1>6, <2>2, GoesTyped, OthersTyped DEF Typed
<1> QED
  BY <1>3, <1>4, <1>5, <1>6 DEF LoopResumesItem

LEMMA ReserveTimeoutTyped ==
  ASSUME Typed, ReserveTimeout
  PROVE  Typed'
<1>1. loop.seg \in Keys /\ "top" \in {"top", "resume", "park"}
  BY DEF ReserveTimeout, Typed, LoopType
<1>2. LoopType'
  BY <1>1, GoesTyped DEF ReserveTimeout
<1>3. CASE AtCursor = loop.seg
  <2>1. cursor <= Len(list)
    BY <1>1, <1>3, CursorIs, KeyParts DEF Typed
  <2>2. item' \in [Keys -> Items]
    BY <1>1, <1>3, SkipType DEF ReserveTimeout, Typed, ListType
  <2>3. ListType'
    BY <1>3, <2>1, <2>2 DEF ReserveTimeout, Typed, ListType
  <2> QED
    BY <1>2, <2>3, OthersTyped DEF ReserveTimeout, Typed
<1>4. CASE AtCursor # loop.seg
  BY <1>2, <1>4, OthersTyped DEF ReserveTimeout, Typed
<1> QED
  BY <1>3, <1>4

LEMMA LoopStartsTyped ==
  ASSUME Typed, LoopStarts
  PROVE  Typed'
<1>1. loop.seg \in Keys
  BY DEF LoopStarts, Typed, LoopType
<1>2. ListType' /\ LoopType'
  BY <1>1, StartPlayTyped DEF LoopStarts
<1> QED
  BY <1>2, OthersTyped DEF LoopStarts, Typed

LEMMA WokenTyped ==
  ASSUME Typed, loop' = [loop EXCEPT !.woken = TRUE], transport' = transport
  PROVE  LoopType' /\ loop'.at = loop.at /\ loop'.seg = loop.seg /\ loop'.woken = TRUE
<1>1. loop' \in Loops /\ loop'.at = loop.at /\ loop'.seg = loop.seg
  BY LoopBecomes DEF Typed
<1>2. loop'.woken = TRUE
  BY DEF Typed, LoopType, Loops
<1> QED
  BY <1>1, <1>2 DEF Typed, LoopType

LEMMA PlayEndsTyped ==
  ASSUME Typed, PlayEnds
  PROVE  Typed'
  BY WokenTyped, OthersTyped DEF PlayEnds, listVars, Typed

LEMMA LoopResumesPlayTyped ==
  ASSUME Typed, LoopResumesPlay
  PROVE  Typed'
<1>1. loop.seg \in Keys /\ "top" \in {"top", "resume", "park"}
  BY DEF LoopResumesPlay, Typed, LoopType
<1>2. LoopType'
  BY <1>1, GoesTyped DEF LoopResumesPlay
<1>3. CASE AtCursor = loop.seg
  <2>1. cursor <= Len(list)
    BY <1>1, <1>3, CursorIs, KeyParts DEF Typed
  <2>2. item' \in [Keys -> Items]
    <3>1. item[loop.seg] \in Items
      BY <1>1, ItemParts DEF Typed
    <3>2. [item[loop.seg] EXCEPT !.st = "done"] \in Items
      BY <3>1, ItemBecomes DEF ItemStates
    <3>3. [item[loop.seg] EXCEPT !.st = "reserved", !.needs = TRUE] \in Items
      BY <3>1, ItemBecomes DEF ItemStates
    <3>4. item' = [item EXCEPT ![loop.seg] =
                     IF loop.full \/ Complete(loop.seg) THEN [item[loop.seg] EXCEPT !.st = "done"]
                     ELSE [item[loop.seg] EXCEPT !.st = "reserved", !.needs = TRUE]]
      BY <1>3 DEF LoopResumesPlay
    <3> QED
      BY <3>2, <3>3, <3>4 DEF Typed, ListType
  <2>3. ListType'
    BY <1>3, <2>1, <2>2 DEF LoopResumesPlay, Typed, ListType
  <2> QED
    BY <1>2, <2>3, OthersTyped DEF LoopResumesPlay, Typed
<1>4. CASE AtCursor # loop.seg
  BY <1>2, <1>4, OthersTyped DEF LoopResumesPlay, Typed
<1> QED
  BY <1>3, <1>4

LEMMA LoopUnparksTyped ==
  ASSUME Typed, LoopUnparks
  PROVE  Typed'
<1>1. LoopType'
  BY GoesTyped DEF LoopUnparks
<1> QED
  BY <1>1, OthersTyped DEF LoopUnparks, listVars, Typed

-----------------------------------------------------------------------------
(* The driver. *)

LEMMA HappensTyped ==
  ASSUME Typed, Happens, steered' \in BOOLEAN
  PROVE  CountType'
  BY SpeechAssumption DEF Happens, Typed, CountType

LEMMA PauseTyped ==
  ASSUME Typed, Pause
  PROVE  Typed'
<1>1. CountType'
  BY HappensTyped DEF Pause, Typed, CountType
<1>2. LoopType'
  BY DEF Pause, Typed, LoopType
<1> QED
  BY <1>1, <1>2, OthersTyped DEF Pause, listVars, Typed

LEMMA ResumeTyped ==
  ASSUME Typed, Resume
  PROVE  Typed'
<1>1. transport' = "playing"
  BY DEF Resume
<1>2. CASE loop.at = "resume"
  <2>1. loop' = GoTo("top") /\ "top" \in Places
    BY <1>2 DEF Resume, Places
  <2>2. LoopType'
    BY <1>1, <2>1, GoToIs DEF LoopType
  <2> QED
    BY <2>2, OthersTyped DEF Resume, listVars, Typed
<1>3. CASE loop.at = "resumePlay"
  <2>1. loop' = [loop EXCEPT !.at = "start"]
    BY <1>3 DEF Resume
  <2>2. loop' \in Loops /\ loop'.at = "start" /\ loop'.seg = loop.seg /\ loop.seg \in Keys
    BY <1>3, <2>1, LoopBecomes DEF Typed, LoopType
  <2>3. LoopType'
    BY <1>1, <2>2 DEF LoopType
  <2> QED
    BY <2>3, OthersTyped DEF Resume, listVars, Typed
<1>4. CASE loop.at \notin {"resume", "resumePlay"}
  <2>1. loop' = loop
    BY <1>4 DEF Resume
  <2>2. LoopType'
    BY <1>1, <2>1 DEF LoopType, Typed
  <2> QED
    BY <2>2, OthersTyped DEF Resume, listVars, Typed
<1> QED
  BY <1>2, <1>3, <1>4

LEMMA DroppedAre ==
  ASSUME ListType, NEW n \in 1 .. Len(list), NEW reset
  PROVE  /\ Dropped(n, reset) \subseteq Keys /\ Cancelled(n, reset) \subseteq Keys
         /\ \A k \in Dropped(n, reset) : ~Complete(k) /\ item[k].st # "absent"
         /\ \A k \in Cancelled(n, reset) : item[k].st = "ready" => k \in Dropped(n, reset)
<1>1. Here \subseteq Keys /\ list[n] \in Keys
  BY CursorIs DEF Here
<1> QED
  BY <1>1 DEF Dropped, Cancelled, Target

LEMMA InvalidateTyped ==
  ASSUME Typed, NEW dropped \in SUBSET Keys, NEW cancelled \in SUBSET Keys,
         Invalidate(dropped, cancelled)
  PROVE  JobType' /\ SinkType'
<1>1. UNCHANGED <<jobs, ctrl, fetches, sinkCtrl>>
  BY DEF Invalidate
<1>2. status' \in [Keys -> Statuses]
  BY DEF Invalidate, Typed, JobType, Statuses
<1>3. pending' \in Nat
  <2> DEFINE I == {k \in dropped : status[k] = "pending"}
  <2>1. Cardinality(I) \in Nat
    BY KeysFinite, FS_Subset, FS_CardinalityType
  <2>2. pending' = IF pending > Cardinality(I) THEN pending - Cardinality(I) ELSE 0
    BY DEF Invalidate
  <2> HIDE DEF I
  <2> QED
    BY <2>1, <2>2 DEF Typed, JobType
<1>4. sink' \in [Keys -> Audio]
  BY DEF Invalidate, Typed, SinkType, Audio
<1>5. aborted' \subseteq Keys \X Nat
  BY DEF Invalidate, Typed, SinkType, JobType, Current
<1> QED
  BY <1>1, <1>2, <1>3, <1>4, <1>5 DEF Typed, JobType, SinkType

(* What a jump does to the items, and to the loop. *)
LEMMA NavigateIs ==
  ASSUME Typed, NEW n, NEW reset \in BOOLEAN, Navigate(n, reset)
  PROVE  /\ n \in 1 .. Len(list) /\ steered' = TRUE /\ loop.at # "off"
         /\ item' = [k \in Keys |-> Jumped(k, Dropped(n, reset))]
         /\ item' \in [Keys -> Items]
         /\ Invalidate(Dropped(n, reset), Cancelled(n, reset))
         /\ loop' = loop \/ loop' = [loop EXCEPT !.woken = TRUE]
         /\ UNCHANGED <<allocated, list, transport>>
<1>1. n \in 1 .. Len(list) /\ UNCHANGED <<allocated, list, transport>> /\ steered' = TRUE
      /\ Invalidate(Dropped(n, reset), Cancelled(n, reset)) /\ loop.at # "off"
  BY DEF Navigate
<1>4. item' = [k \in Keys |-> Jumped(k, Dropped(n, reset))]
  BY DEF Navigate
<1>5. ASSUME NEW k \in Keys
      PROVE  Jumped(k, Dropped(n, reset)) \in Items
  <2>1. item[k] \in Items
    BY ItemParts DEF Typed
  <2>2. /\ [item[k] EXCEPT !.st = "reserved", !.needs = TRUE] \in Items
        /\ [item[k] EXCEPT !.st = "done"] \in Items
    BY <2>1, ItemBecomes DEF ItemStates
  <2> QED
    BY <2>1, <2>2 DEF Jumped
<1>6. item' \in [Keys -> Items]
  BY <1>4, <1>5
<1>7. loop' = loop \/ loop' = [loop EXCEPT !.woken = TRUE]
  BY DEF Navigate
<1> QED
  BY <1>1, <1>4, <1>6, <1>7

LEMMA NavigateTyped ==
  ASSUME Typed, NEW n, NEW reset \in BOOLEAN, Navigate(n, reset)
  PROVE  Typed'
<1>1. /\ n \in 1 .. Len(list) /\ item' \in [Keys -> Items]
      /\ UNCHANGED <<allocated, list, transport>> /\ steered' = TRUE
      /\ loop' = loop \/ loop' = [loop EXCEPT !.woken = TRUE]
  BY NavigateIs
<1>2. cursor' = n /\ jumpTarget' = n
  BY DEF Navigate
<1>3. epoch' \in [Keys -> Nat]
  <2>1. epoch' = [k \in Keys |-> IF k \in Dropped(n, reset) THEN epoch[k] + 1 ELSE epoch[k]]
    BY DEF Navigate
  <2> QED
    BY <2>1 DEF Typed, ListType
<1>4. ListType'
  BY <1>1, <1>2, <1>3 DEF Typed, ListType
<1>5. JobType' /\ SinkType'
  BY <1>1, NavigateIs, DroppedAre, InvalidateTyped DEF Typed
<1>6. LoopType'
  BY <1>1, WokenTyped, OthersTyped
<1>7. CountType'
  BY <1>1, HappensTyped DEF Navigate
<1> QED
  BY <1>4, <1>5, <1>6, <1>7 DEF Typed

LEMMA EmptyListTyped ==
  ASSUME Typed, NEW also, NEW ended \in SUBSET (Keys \X Nat), EmptyList(also, ended)
  PROVE  ListType' /\ LoopType' /\ SinkType' /\ CountType'
<1>1. ListType'
  <2>1. Absent \in Items
    BY DEF Absent, Items, ItemStates
  <2>2. list' = <<>> /\ list' \in Seq(Keys) /\ cursor' = 1 /\ Len(list') = 0
    BY DEF EmptyList
  <2> QED
    BY <2>1, <2>2 DEF EmptyList, Typed, ListType
<1>2. LoopType'
  BY OffIs DEF EmptyList, LoopType
<1>3. SinkType'
  BY DEF EmptyList, Typed, SinkType, Audio
<1>4. CountType'
  BY HappensTyped DEF EmptyList
<1> QED
  BY <1>1, <1>2, <1>3, <1>4

LEMMA StopPlaylistTyped ==
  ASSUME Typed, StopPlaylist
  PROVE  Typed'
  BY EmptyListTyped, OthersTyped DEF StopPlaylist, Typed

LEMMA StopAndClearTyped ==
  ASSUME Typed, StopAndClear
  PROVE  Typed'
<1> DEFINE ended == {Current(k) : k \in {j \in Keys : status[j] \in {"fetching", "pending", "stale"}}}
<1>1. ended \in SUBSET (Keys \X Nat)
  BY DEF Current, Typed, JobType
<1>2. EmptyList(Keys, ended)
  BY DEF StopAndClear
<1> HIDE DEF ended
<1>3. JobType'
  <2>1. jobs' = <<>> /\ <<>> \in Seq(Keys)
    BY DEF StopAndClear
  <2> QED
    BY <2>1 DEF StopAndClear, Typed, JobType, Statuses
<1> QED
  BY <1>1, <1>2, <1>3, EmptyListTyped DEF Typed

-----------------------------------------------------------------------------
LEMMA TypedInit == Init => Typed
<1> SUFFICES ASSUME Init PROVE Typed
  OBVIOUS
<1>1. Absent \in Items /\ Off \in Loops /\ Off.at = "off" /\ 0 \in 0 .. PerBubble
  BY OffIs, SpeechAssumption DEF Absent, Items, ItemStates
<1>2. ListType
  BY <1>1 DEF Init, ListType
<1>3. LoopType
  BY <1>1 DEF Init, LoopType
<1>4. JobType /\ SinkType
  BY DEF Init, JobType, SinkType, Statuses, Audio
<1>5. CountType
  <2>1. MaxEvents \in Nat /\ events = 0 /\ steered = FALSE
    BY SpeechAssumption DEF Init
  <2>2. events \in 0 .. MaxEvents
    BY <2>1
  <2>3. steered \in BOOLEAN
    BY <2>1
  <2> QED
    BY <2>2, <2>3 DEF CountType
<1> QED
  BY <1>2, <1>3, <1>4, <1>5 DEF Typed

LEMMA TypedNext == Typed /\ [Next]_vars => Typed'
<1> SUFFICES ASSUME Typed, [Next]_vars PROVE Typed'
  OBVIOUS
<1>1. ASSUME NEW b \in 1 .. Bubbles, Enqueue(b) PROVE Typed'
  BY <1>1, EnqueueTyped
<1>2. ASSUME NEW f \in fetches, FetchNext(f) PROVE Typed'
  BY <1>2, TextDoneTyped, TextFailsTyped, SynthDoneTyped, SynthFailsTyped DEF FetchNext
<1>3. ASSUME NEW k \in Keys, StreamEnds(k) \/ StreamBreaks(k) PROVE Typed'
  BY <1>3, StreamTyped
<1>4. CASE LoopNext
  BY <1>4, LoopPausesTyped, LoopAtEndTyped, LoopPlaysTyped, LoopWaitsTyped, LoopCrawlsTyped,
     LoopResumesItemTyped, LoopStartsTyped, LoopResumesPlayTyped, LoopUnparksTyped DEF LoopNext
<1>5. CASE ReserveTimeout \/ PlayEnds
  BY <1>5, ReserveTimeoutTyped, PlayEndsTyped
<1>6. CASE DriverNext
  BY <1>6, PauseTyped, ResumeTyped, NavigateTyped, StopPlaylistTyped, StopAndClearTyped
     DEF DriverNext, Skips, Backs, JumpToBubble
<1>7. CASE UNCHANGED vars
  <2>1. UNCHANGED <<allocated, list, item, epoch, cursor, jumpTarget, transport, loop, jobVars,
                    sinkVars, steered, events>>
    BY <1>7 DEF vars, listVars, loopVars
  <2> QED
    BY <2>1, OthersTyped DEF Typed
<1> QED
  BY <1>1, <1>2, <1>3, <1>4, <1>5, <1>6, <1>7 DEF Next

LEMMA TypedCorrect == Spec => []Typed
  BY TypedInit, TypedNext, PTL DEF Spec

(* Every variable of the speaker, the playlist and the sink has its type, the counter
   of pending jobs never goes below zero, and the cursor never leaves the list by more
   than one (pendingCount of speaker.svelte.ts, #cursor of audio-playlist.svelte.ts). *)
THEOREM TypeCorrect == Spec => []TypeOK
  BY TypedCorrect, TypedIsTypeOK, PTL

-----------------------------------------------------------------------------
(* The order of the list. *)

Sorted == \A i, j \in 1 .. Len(list) : i < j => Before(list[i], list[j])

Issued(k) == k[2] < allocated[k[1]]

(* The items are those of the list, and were given out. *)
Listed ==
  \A k \in Keys : /\ item[k].st # "absent" <=> \E i \in 1 .. Len(list) : list[i] = k
                  /\ item[k].st # "absent" => Issued(k)

OffEmpty == loop.at = "off" => list = <<>>

Holding == loop.at \in {"resumePlay", "start", "item", "play"}
HeldListed == Holding => item[loop.seg].st # "absent"

OrderInv == Sorted /\ Listed /\ OffEmpty /\ HeldListed

LEMMA BeforeIsOrder ==
  ASSUME NEW a \in Keys, NEW b \in Keys
  PROVE  /\ ~Before(a, a)
         /\ a # b => Before(a, b) \/ Before(b, a)
         /\ \A c \in Keys : Before(a, b) /\ Before(b, c) => Before(a, c)
<1>1. /\ a[1] \in Int /\ a[2] \in Int /\ b[1] \in Int /\ b[2] \in Int
      /\ a = <<a[1], a[2]>> /\ b = <<b[1], b[2]>>
  BY KeyParts
<1>2. \A c \in Keys : c[1] \in Int /\ c[2] \in Int
  BY KeyParts
<1>3. ~Before(a, a) /\ (a # b => Before(a, b) \/ Before(b, a))
  BY <1>1 DEF Before
<1>4. \A c \in Keys : Before(a, b) /\ Before(b, c) => Before(a, c)
  BY <1>1, <1>2 DEF Before
<1> QED
  BY <1>3, <1>4

(* In a sorted list, what comes before a segment is in front of its position. *)
LEMMA PositionSplits ==
  ASSUME ListType, Sorted, NEW k \in Keys, NEW i \in 1 .. Len(list)
  PROVE  Before(list[i], k) <=> i < Position(k)
<1> DEFINE I == {j \in 1 .. Len(list) : Before(list[j], k)}
<1>1. Len(list) \in Nat /\ \A j \in 1 .. Len(list) : list[j] \in Keys
  BY CursorIs
<1>2. \A j \in I, h \in 1 .. Len(list) : h < j => h \in I
  BY <1>1, BeforeIsOrder DEF Sorted
<1>3. CASE I = {}
  <2>1. Cardinality(I) = 0
    BY <1>3, FS_EmptySet
  <2>2. Position(k) = 1
    BY <2>1 DEF Position
  <2> QED
    BY <1>1, <1>3, <2>2
<1>4. CASE I # {}
  <2> DEFINE n == Len(list)
             Back == {n - x : x \in I}
  <2>1. Back \in SUBSET Nat /\ Back # {}
    BY <1>1, <1>4
  <2>2. PICK b \in Back : \A y \in Back : b <= y
    <3> HIDE DEF Back
    <3> QED
      BY <2>1, LeastNat
  <2>3. PICK m \in I : b = n - m
    BY <2>2
  <2>4. m \in 1 .. n /\ \A y \in I : y <= m
    <3>1. ASSUME NEW y \in I PROVE y <= m
      <4>1. n - y \in Back
        OBVIOUS
      <4>2. b <= n - y /\ y \in Int /\ m \in Int /\ n \in Int
        BY <1>1, <2>2, <4>1
      <4> QED
        BY <2>3, <4>2
    <3> QED
      BY <3>1
  <2>5. I = 1 .. m
    <3>1. I \subseteq 1 .. m
      BY <1>1, <2>4
    <3>2. ASSUME NEW h \in 1 .. m PROVE h \in I
      <4>1. h = m \/ h < m
        BY <1>1, <2>4
      <4>2. h \in 1 .. Len(list)
        BY <1>1, <2>4
      <4> QED
        BY <1>2, <4>1, <4>2
    <3> QED
      BY <3>1, <3>2
  <2>6. Cardinality(I) = m
    <3>1. m \in Nat
      BY <1>1, <2>4
    <3> HIDE DEF I
    <3> QED
      BY <2>5, <3>1, SegmentCount
  <2>7. Position(k) = m + 1
    BY <2>4, <2>6 DEF Position
  <2>8. i \in I <=> i <= m
    BY <1>1, <2>4, <2>5
  <2> QED
    BY <1>1, <2>4, <2>7, <2>8
<1> QED
  BY <1>3, <1>4

(* A step that neither changes the list nor what is on it. *)
LEMMA OrderKept ==
  ASSUME ListType, OrderInv, UNCHANGED <<list, allocated>>,
         \A k \in Keys : item'[k].st = "absent" <=> item[k].st = "absent",
         loop'.at = "off" => loop.at = "off",
         Holding' => loop'.seg \in Keys /\ item[loop'.seg].st # "absent"
  PROVE  OrderInv'
  BY DEF OrderInv, Sorted, Listed, OffEmpty, HeldListed, Issued

LEMMA ReserveOrder ==
  ASSUME Typed, OrderInv, NEW b \in 1 .. Bubbles, Enqueue(b)
  PROVE  OrderInv'
<1>1. PICK k \in Keys :
           /\ k = <<b, allocated[b]>> /\ Idle
           /\ allocated' = [allocated EXCEPT ![b] = @ + 1]
           /\ allocated' \in [1 .. Bubbles -> 0 .. PerBubble]
           /\ Reserve(k) /\ jobs' = Append(jobs, k) /\ pending' = pending + 1
           /\ status' \in [Keys -> Statuses] /\ fetches' \subseteq Fetches
           /\ \E S : Started(S, [status EXCEPT ![k] = "pending"], fetches)
           /\ UNCHANGED <<ctrl, sink, sinkCtrl, aborted, steered, events>>
  BY EnqueueIs
<1>2. PICK p : p = Position(k)
  OBVIOUS
<1>3. /\ ListType /\ p \in 1 .. Len(list) + 1 /\ Len(list) \in Nat
      /\ \A i \in 1 .. Len(list) : list[i] \in Keys /\ (Before(list[i], k) <=> i < p)
  BY <1>2, CursorIs, PositionIs, PositionSplits DEF Typed, OrderInv
<1>4. /\ Len(list') = Len(list) + 1
      /\ \A i \in 1 .. Len(list) + 1 :
           list'[i] = IF i < p THEN list[i] ELSE IF i = p THEN k ELSE list[i - 1]
  <2>0. Reserve(k) /\ list \in Seq(Keys)
    BY <1>1, <1>3 DEF ListType
  <2>1. list' = InsertAt(list, p, k) /\ list \in Seq(Keys)
    BY <2>0, <1>2 DEF Reserve
  <2> QED
    BY <1>3, <2>1, InsertIs
<1>5. ~Issued(k)
  <2>1. allocated[b] \in Nat
    BY DEF Typed, ListType
  <2>2. k[1] = b /\ k[2] = allocated[b]
    BY <1>1
  <2> QED
    BY <2>1, <2>2 DEF Issued
<1>6. \A i \in 1 .. Len(list) : list[i] # k
  BY <1>3, <1>5 DEF OrderInv, Listed
<1>7. Sorted'
  <2>1. ASSUME NEW i \in 1 .. Len(list) + 1, NEW j \in 1 .. Len(list) + 1, i < j
        PROVE  Before(list'[i], list'[j])
    <3>1. \A h \in 1 .. Len(list) : h >= p => Before(k, list[h])
      BY <1>3, <1>6, BeforeIsOrder
    <3>2. \A g, h \in 1 .. Len(list) : g < h => Before(list[g], list[h])
      BY DEF OrderInv, Sorted
    <3>3. CASE i < p /\ j < p
      <4>1. i \in 1 .. Len(list) /\ j \in 1 .. Len(list) /\ list'[i] = list[i] /\ list'[j] = list[j]
        BY <1>3, <1>4, <3>3
      <4> QED
        BY <2>1, <3>2, <4>1
    <3>4. CASE i < p /\ j = p
      <4>1. i \in 1 .. Len(list) /\ list'[i] = list[i] /\ list'[j] = k
        BY <1>3, <1>4, <3>4
      <4> QED
        BY <1>3, <3>4, <4>1
    <3>5. CASE i < p /\ j > p
      <4>1. /\ i \in 1 .. Len(list) /\ j - 1 \in 1 .. Len(list) /\ i < j - 1
            /\ list'[i] = list[i] /\ list'[j] = list[j - 1]
        BY <1>3, <1>4, <3>5
      <4> QED
        BY <3>2, <4>1
    <3>6. CASE i = p /\ j > p
      <4>1. j - 1 \in 1 .. Len(list) /\ j - 1 >= p /\ list'[i] = k /\ list'[j] = list[j - 1]
        BY <1>3, <1>4, <3>6
      <4> QED
        BY <3>1, <4>1
    <3>7. CASE i > p
      <4>1. /\ i - 1 \in 1 .. Len(list) /\ j - 1 \in 1 .. Len(list) /\ i - 1 < j - 1
            /\ list'[i] = list[i - 1] /\ list'[j] = list[j - 1]
        BY <1>3, <1>4, <2>1, <3>7
      <4> QED
        BY <3>2, <4>1
    <3> QED
      BY <1>3, <2>1, <3>3, <3>4, <3>5, <3>6, <3>7
  <2> QED
    BY <1>4, <2>1 DEF Sorted
<1>8. Listed'
  <2>1. \A j \in Keys : j # k => item'[j] = item[j]
    BY <1>1 DEF Reserve, Typed, ListType
  <2>2. item'[k].st = "reserved"
    BY <1>1 DEF Reserve, Absent, Typed, ListType
  <2>3. \A j \in Keys : Issued(j) => Issued(j)'
    BY <1>1, KeyParts DEF Issued, Typed, ListType
  <2>4. Issued(k)'
    <3>1. allocated'[b] = allocated[b] + 1 /\ allocated[b] \in Nat
      <4>1. allocated' = [allocated EXCEPT ![b] = @ + 1]
        BY <1>1
      <4>2. allocated \in [1 .. Bubbles -> 0 .. PerBubble]
        BY DEF Typed, ListType
      <4> QED
        BY <4>1, <4>2
    <3>2. k[1] = b /\ k[2] = allocated[b]
      BY <1>1
    <3> QED
      BY <3>1, <3>2 DEF Issued
  <2>5. list'[p] = k /\ p \in 1 .. Len(list')
    BY <1>3, <1>4
  <2>6. \A i \in 1 .. Len(list) : \E h \in 1 .. Len(list') : list'[h] = list[i]
    <3>1. ASSUME NEW i \in 1 .. Len(list), i < p
          PROVE  i \in 1 .. Len(list') /\ list'[i] = list[i]
      BY <1>3, <1>4, <3>1
    <3>2. ASSUME NEW i \in 1 .. Len(list), i >= p
          PROVE  i + 1 \in 1 .. Len(list') /\ list'[i + 1] = list[i]
      BY <1>3, <1>4, <3>2
    <3> QED
      BY <1>3, <3>1, <3>2
  <2>7. \A h \in 1 .. Len(list') : list'[h] = k \/ \E i \in 1 .. Len(list) : list'[h] = list[i]
    <3>1. ASSUME NEW h \in 1 .. Len(list'), h > p
          PROVE  h - 1 \in 1 .. Len(list) /\ list'[h] = list[h - 1]
      BY <1>3, <1>4, <3>1
    <3>2. ASSUME NEW h \in 1 .. Len(list'), h < p
          PROVE  h \in 1 .. Len(list) /\ list'[h] = list[h]
      BY <1>3, <1>4, <3>2
    <3> QED
      BY <1>3, <1>4, <2>5, <3>1, <3>2
  <2>8. ASSUME NEW j \in Keys
        PROVE  /\ item'[j].st # "absent" <=> \E i \in 1 .. Len(list') : list'[i] = j
               /\ item'[j].st # "absent" => Issued(j)'
    <3>1. CASE j = k
      BY <2>2, <2>4, <2>5, <3>1
    <3>2. CASE j # k
      BY <2>1, <2>3, <2>6, <2>7, <3>2 DEF OrderInv, Listed
    <3> QED
      BY <3>1, <3>2
  <2> QED
    BY <2>8 DEF Listed
<1>9. OffEmpty' /\ HeldListed'
  <2>1. CASE loop.at = "off"
    <3>1. loop' = GoTo("top") /\ "top" \in Places
      BY <1>1, <2>1 DEF Reserve, Places
    <3> QED
      BY <3>1, GoToIs DEF OffEmpty, HeldListed, Holding
  <2>2. CASE loop.at # "off"
    <3>1. loop' = loop \/ loop' = [loop EXCEPT !.woken = TRUE]
      BY <1>1, <2>2 DEF Reserve, Unparked
    <3>2. loop'.at = loop.at /\ loop'.seg = loop.seg
      BY <3>1, LoopBecomes DEF Typed
    <3>3. Holding => loop.seg \in Keys /\ item'[loop.seg].st # "absent"
      BY <1>1 DEF Reserve, Absent, Typed, ListType, LoopType, OrderInv, HeldListed, Holding
    <3> QED
      BY <2>2, <3>2, <3>3 DEF OffEmpty, HeldListed, Holding
  <2> QED
    BY <2>1, <2>2
<1> QED
  BY <1>7, <1>8, <1>9 DEF OrderInv

LEMMA MarkedKeeps ==
  ASSUME ListType, NEW k \in Keys, NEW outcome \in {"ready", "error", "abandoned"}
  PROVE  /\ Marked(k, outcome).st = "absent" <=> item[k].st = "absent"
         /\ Marked(k, outcome).st \in {"done", "playing"} => Marked(k, outcome) = item[k]
         /\ outcome # "ready" /\ Marked(k, outcome).st = "ready" => Marked(k, outcome) = item[k]
         /\ outcome # "abandoned" =>
              /\ Marked(k, outcome).needs = item[k].needs /\ Marked(k, outcome).skip = item[k].skip
              /\ Marked(k, outcome).st \in {item[k].st, outcome}
              /\ item[k].st # "reserved" => Marked(k, outcome) = item[k]
<1>1. item[k] \in Items
  BY ItemParts
<1>2. /\ [item[k] EXCEPT !.st = "reserved", !.needs = TRUE].st = "reserved"
      /\ [item[k] EXCEPT !.st = outcome].st = outcome
      /\ [item[k] EXCEPT !.st = outcome].needs = item[k].needs
      /\ [item[k] EXCEPT !.st = outcome].skip = item[k].skip
  BY <1>1 DEF Items
<1> QED
  BY <1>2, MarkedIs

LEMMA SettleOrder ==
  ASSUME Typed, OrderInv, NEW f \in fetches, NEW outcome \in {"ready", "error", "abandoned"},
         NEW verdict \in Statuses, Settle(f, outcome, verdict)
  PROVE  OrderInv'
<1>1. /\ f.key \in Keys /\ UNCHANGED <<list, allocated>>
      /\ item' = [item EXCEPT ![f.key] = Marked(f.key, outcome)]
      /\ loop'.at = loop.at /\ loop'.seg = loop.seg
  BY SettleIs
<1>2. \A k \in Keys : item'[k].st = "absent" <=> item[k].st = "absent"
  BY <1>1, MarkedKeeps DEF Typed, ListType
<1>3. Holding' => loop'.seg \in Keys /\ item[loop'.seg].st # "absent"
  BY <1>1 DEF Holding, OrderInv, HeldListed, Typed, LoopType
<1> QED
  BY <1>1, <1>2, <1>3, OrderKept DEF Typed

LEMMA FetchOrder ==
  ASSUME Typed, OrderInv, NEW f \in fetches, FetchNext(f)
  PROVE  OrderInv'
<1>1. \/ \E outcome \in {"ready", "error", "abandoned"}, verdict \in Statuses :
           Settle(f, outcome, verdict)
      \/ UNCHANGED <<allocated, listVars, loopVars>>
  BY CaughtIs DEF FetchNext, TextDone, TextFails, SynthDone, SynthFails
<1>2. CASE UNCHANGED <<allocated, listVars, loopVars>>
  BY <1>2 DEF listVars, loopVars, OrderInv, Sorted, Listed, OffEmpty, HeldListed, Issued, Holding
<1> QED
  BY <1>1, <1>2, SettleOrder

(* The loop is elsewhere, and at most the items of the list change. *)
LEMMA GoesOrder ==
  ASSUME Typed, OrderInv, UNCHANGED <<list, allocated>>,
         \A k \in Keys : item'[k].st = "absent" <=> item[k].st = "absent",
         NEW place \in {"top", "resume", "park"}, loop' = GoTo(place)
  PROVE  OrderInv'
<1>1. loop'.at = place
  BY GoToIs DEF Places
<1> QED
  BY <1>1, OrderKept DEF Typed, Holding

LEMMA HoldsOrder ==
  ASSUME Typed, OrderInv, UNCHANGED <<list, allocated>>, NEW k \in Keys, item[k].st # "absent",
         \A j \in Keys : item'[j].st = "absent" <=> item[j].st = "absent",
         loop'.seg = k, loop'.at \in {"item", "resumePlay", "play"}
  PROVE  OrderInv'
  BY OrderKept DEF Typed, Holding

LEMMA StartPlayOrder ==
  ASSUME Typed, OrderInv, UNCHANGED <<list, allocated>>, NEW k \in Keys, item[k].st # "absent",
         NEW full \in BOOLEAN, StartPlay(k, full)
  PROVE  OrderInv'
<1>1. item' = [item EXCEPT ![k].st = "playing"] /\ loop'.at = "play" /\ loop'.seg = k
  BY StartPlayIs
<1>2. \A j \in Keys : item'[j].st = "absent" <=> item[j].st = "absent"
  BY <1>1 DEF Typed, ListType, Items
<1> QED
  BY <1>1, <1>2, HoldsOrder

(* The segment at the cursor is on the list. *)
LEMMA CursorListed ==
  ASSUME Typed, OrderInv, AtCursor # None
  PROVE  AtCursor \in Keys /\ item[AtCursor].st # "absent"
<1>1. AtCursor = list[cursor] /\ AtCursor \in Keys /\ cursor \in 1 .. Len(list)
  BY CursorIs DEF Typed, ListType
<1> QED
  BY <1>1 DEF OrderInv, Listed

LEMMA SkipKeeps ==
  ASSUME ListType, NEW k \in Keys, NEW reason \in {"orphan", "timeout"}
  PROVE  /\ Skip(k, reason) = item[k] \/ Skip(k, reason).st = "skipped"
         /\ Skip(k, reason).needs = item[k].needs
         /\ item[k].skip = "-" => Skip(k, reason).st = "skipped"
         /\ Skip(k, reason).skip # "-"
  BY ItemParts DEF Skip, Items

LEMMA LoopOrder ==
  ASSUME Typed, OrderInv, LoopNext \/ ReserveTimeout \/ PlayEnds
  PROVE  OrderInv'
<1>0. "top" \in {"top", "resume", "park"} /\ "resume" \in {"top", "resume", "park"}
      /\ "park" \in {"top", "resume", "park"} /\ ListType
  BY DEF Typed
<1>1. CASE LoopPauses \/ LoopUnparks
  BY <1>0, <1>1, GoesOrder DEF LoopPauses, LoopUnparks, listVars
<1>2. CASE LoopAtEnd
  <2>1. UNCHANGED <<list, allocated>>
    BY <1>2 DEF LoopAtEnd
  <2>2. CASE Orphans # {}
    <3>1. UNCHANGED <<item, loop>>
      BY <1>2, <2>2 DEF LoopAtEnd
    <3> QED
      BY <2>1, <3>1 DEF OrderInv, Sorted, Listed, OffEmpty, HeldListed, Issued, Holding
  <2>3. CASE Orphans = {}
    <3>1. /\ item' = [k \in Keys |-> IF Waiting(k) THEN Skip(k, "orphan") ELSE item[k]]
          /\ loop' = GoTo("park")
      BY <1>2, <2>3 DEF LoopAtEnd
    <3>2. \A k \in Keys : item'[k].st = "absent" <=> item[k].st = "absent"
      BY <1>0, <3>1, SkipKeeps DEF Waiting
    <3> QED
      BY <1>0, <2>1, <3>1, <3>2, GoesOrder
  <2> QED
    BY <2>2, <2>3
<1>3. CASE LoopPlays
  <2>1. AtCursor # None /\ StartPlay(AtCursor, Complete(AtCursor)) /\ UNCHANGED <<list, allocated>>
    BY <1>3 DEF LoopPlays
  <2>2. Complete(AtCursor) \in BOOLEAN
    BY DEF Complete
  <2> QED
    BY <2>1, <2>2, CursorListed, StartPlayOrder
<1>4. CASE LoopWaits
  <2>1. AtCursor \in Keys /\ item[AtCursor].st # "absent" /\ UNCHANGED <<list, allocated, transport>>
    BY <1>4, CursorListed DEF LoopWaits
  <2>2. loop'.at = "item" /\ loop'.seg = AtCursor
    <3>1. loop' = [GoTo("item") EXCEPT !.seg = AtCursor]
      BY <1>4 DEF LoopWaits
    <3> QED
      BY <2>1, <3>1, HoldsTyped
  <2>3. \A j \in Keys : item'[j].st = "absent" <=> item[j].st = "absent"
    <3>1. CASE item[AtCursor].needs
      <4>1. item' = [item EXCEPT ![AtCursor].needs = FALSE, ![AtCursor].fetch = epoch[AtCursor]]
        BY <1>4, <2>1, <3>1, RefetchTyped DEF LoopWaits
      <4> QED
        BY <2>1, <4>1 DEF Typed, ListType, Items
    <3>2. CASE ~item[AtCursor].needs
      BY <1>4, <3>2 DEF LoopWaits
    <3> QED
      BY <3>1, <3>2
  <2> QED
    BY <2>1, <2>2, <2>3, HoldsOrder
<1>5. CASE LoopCrawls
  <2>1. UNCHANGED <<list, allocated, item, loop>>
    BY <1>5 DEF LoopCrawls, loopVars
  <2> QED
    BY <2>1 DEF OrderInv, Sorted, Listed, OffEmpty, HeldListed, Issued, Holding
<1>6. CASE LoopResumesItem
  <2>1. loop.seg \in Keys /\ item[loop.seg].st # "absent" /\ UNCHANGED <<list, allocated, transport>>
    BY <1>6 DEF LoopResumesItem, Typed, LoopType, OrderInv, HeldListed, Holding
  <2>2. \/ loop' = GoTo("top") /\ UNCHANGED item
        \/ loop' = [GoTo("resumePlay") EXCEPT !.seg = loop.seg] /\ UNCHANGED item
        \/ StartPlay(loop.seg, FALSE)
    BY <1>6 DEF LoopResumesItem
  <2>3. CASE loop' = GoTo("top") /\ UNCHANGED item
    BY <1>0, <2>1, <2>3, GoesOrder
  <2>4. CASE loop' = [GoTo("resumePlay") EXCEPT !.seg = loop.seg] /\ UNCHANGED item
    <3>1. loop'.at = "resumePlay" /\ loop'.seg = loop.seg
      BY <2>1, <2>4, HoldsTyped
    <3> QED
      BY <2>1, <2>4, <3>1, HoldsOrder
  <2>5. CASE StartPlay(loop.seg, FALSE)
    BY <2>1, <2>5, StartPlayOrder
  <2> QED
    BY <2>2, <2>3, <2>4, <2>5
<1>7. CASE ReserveTimeout
  <2>1. loop.seg \in Keys /\ item[loop.seg].st # "absent" /\ UNCHANGED <<list, allocated>>
    BY <1>7 DEF ReserveTimeout, Typed, LoopType, OrderInv, HeldListed, Holding
  <2>2. item' = item \/ item' = [item EXCEPT ![loop.seg] = Skip(loop.seg, "timeout")]
    BY <1>7 DEF ReserveTimeout
  <2>3. \A j \in Keys : item'[j].st = "absent" <=> item[j].st = "absent"
    BY <1>0, <2>1, <2>2, SkipKeeps DEF ListType
  <2> QED
    BY <1>0, <1>7, <2>1, <2>3, GoesOrder DEF ReserveTimeout
<1>8. CASE LoopStarts
  <2>1. loop.seg \in Keys /\ item[loop.seg].st # "absent" /\ UNCHANGED <<list, allocated>>
        /\ StartPlay(loop.seg, FALSE)
    BY <1>8 DEF LoopStarts, Typed, LoopType, OrderInv, HeldListed, Holding
  <2> QED
    BY <2>1, StartPlayOrder
<1>9. CASE PlayEnds
  <2>1. UNCHANGED <<list, allocated, item>> /\ loop'.at = loop.at /\ loop'.seg = loop.seg
    BY <1>9, WokenTyped DEF PlayEnds, listVars
  <2> QED
    BY <2>1 DEF OrderInv, Sorted, Listed, OffEmpty, HeldListed, Issued, Holding
<1>10. CASE LoopResumesPlay
  <2>1. loop.seg \in Keys /\ item[loop.seg].st # "absent" /\ UNCHANGED <<list, allocated>>
    BY <1>10 DEF LoopResumesPlay, Typed, LoopType, OrderInv, HeldListed, Holding
  <2>2. \/ item' = item
        \/ item' = [item EXCEPT ![loop.seg] = [item[loop.seg] EXCEPT !.st = "done"]]
        \/ item' = [item EXCEPT ![loop.seg] =
                      [item[loop.seg] EXCEPT !.st = "reserved", !.needs = TRUE]]
    BY <1>10 DEF LoopResumesPlay
  <2>3. \A j \in Keys : item'[j].st = "absent" <=> item[j].st = "absent"
    BY <2>1, <2>2 DEF Typed, ListType, Items
  <2> QED
    BY <1>0, <1>10, <2>1, <2>3, GoesOrder DEF LoopResumesPlay
<1> QED
  BY <1>1, <1>2, <1>3, <1>4, <1>5, <1>6, <1>7, <1>8, <1>9, <1>10 DEF LoopNext

LEMMA JumpedKeeps ==
  ASSUME ListType, NEW k \in Keys, NEW gone, k \in gone => item[k].st # "absent"
  PROVE  /\ Jumped(k, gone).st = "absent" <=> item[k].st = "absent"
         /\ Jumped(k, gone).st = "ready" => item[k].st = "ready" /\ k \notin gone
         /\ Jumped(k, gone).st = "playing" => item[k].st = "playing"
  BY ItemParts DEF Jumped, Items

LEMMA DriverOrder ==
  ASSUME Typed, OrderInv, DriverNext
  PROVE  OrderInv'
<1>1. CASE Pause
  BY <1>1 DEF Pause, listVars, OrderInv, Sorted, Listed, OffEmpty, HeldListed, Issued, Holding
<1>2. CASE Resume
  <2>1. UNCHANGED <<list, allocated, item>>
    BY <1>2 DEF Resume, listVars
  <2>2. \/ loop' = GoTo("top")
        \/ loop.at = "resumePlay" /\ loop' = [loop EXCEPT !.at = "start"]
        \/ loop' = loop
    BY <1>2 DEF Resume
  <2>3. CASE loop' = GoTo("top")
    BY <2>1, <2>3, GoesOrder
  <2>4. CASE loop.at = "resumePlay" /\ loop' = [loop EXCEPT !.at = "start"]
    <3>1. loop'.at = "start" /\ loop'.seg = loop.seg
      BY <2>4, LoopBecomes DEF Typed
    <3> QED
      BY <2>1, <2>4, <3>1 DEF OrderInv, Sorted, Listed, OffEmpty, HeldListed, Issued, Holding
  <2>5. CASE loop' = loop
    BY <2>1, <2>5 DEF OrderInv, Sorted, Listed, OffEmpty, HeldListed, Issued, Holding
  <2> QED
    BY <2>2, <2>3, <2>4, <2>5
<1>3. ASSUME NEW n, NEW reset \in BOOLEAN, Navigate(n, reset)
      PROVE  OrderInv'
  <2>1. /\ n \in 1 .. Len(list) /\ UNCHANGED <<list, allocated, transport>>
        /\ item' = [k \in Keys |-> Jumped(k, Dropped(n, reset))]
        /\ loop' = loop \/ loop' = [loop EXCEPT !.woken = TRUE]
    BY <1>3, NavigateIs
  <2>2. ASSUME NEW k \in Keys
        PROVE  item'[k].st = "absent" <=> item[k].st = "absent"
    BY <2>1, DroppedAre, JumpedKeeps DEF Typed
  <2>3. loop'.at = loop.at /\ loop'.seg = loop.seg
    BY <2>1, WokenTyped
  <2>4. Holding' => loop'.seg \in Keys /\ item[loop'.seg].st # "absent"
    BY <2>3 DEF Holding, OrderInv, HeldListed, Typed, LoopType
  <2> QED
    BY <2>1, <2>2, <2>3, <2>4, OrderKept DEF Typed
<1>4. CASE StopPlaylist \/ StopAndClear
  <2>1. list' = <<>> /\ item' = [k \in Keys |-> Absent] /\ loop' = Off
    BY <1>4 DEF StopPlaylist, StopAndClear, EmptyList
  <2>2. Absent.st = "absent" /\ Off.at = "off"
    BY DEF Absent, Off
  <2> QED
    BY <2>1, <2>2 DEF OrderInv, Sorted, Listed, OffEmpty, HeldListed, Holding
<1> QED
  BY <1>1, <1>2, <1>3, <1>4 DEF DriverNext, Skips, Backs, JumpToBubble

LEMMA OrderInit == Init => OrderInv
<1>1. Absent.st = "absent" /\ Off.at = "off"
  BY DEF Absent, Off
<1> QED
  BY <1>1 DEF Init, OrderInv, Sorted, Listed, OffEmpty, HeldListed, Holding

LEMMA OrderNext == Typed /\ OrderInv /\ [Next]_vars => OrderInv'
<1> SUFFICES ASSUME Typed, OrderInv, [Next]_vars PROVE OrderInv'
  OBVIOUS
<1>1. ASSUME NEW k \in Keys, StreamEnds(k) \/ StreamBreaks(k) PROVE OrderInv'
  BY <1>1 DEF StreamEnds, StreamBreaks, listVars, loopVars, OrderInv, Sorted, Listed, OffEmpty,
     HeldListed, Issued, Holding
<1>2. CASE UNCHANGED vars
  BY <1>2 DEF vars, listVars, loopVars, OrderInv, Sorted, Listed, OffEmpty, HeldListed, Issued,
     Holding
<1> QED
  BY <1>1, <1>2, ReserveOrder, FetchOrder, LoopOrder, DriverOrder DEF Next

-----------------------------------------------------------------------------
(* What is ready has its audio. *)

LEMMA ReadyKept ==
  ASSUME ReadyHasAudio,
         \A k \in Keys : item'[k].st = "ready" =>
           item[k].st = "ready" /\ (sink'[k] = sink[k] \/ sink'[k] # "none")
  PROVE  ReadyHasAudio'
  BY DEF ReadyHasAudio

LEMMA FetchReady ==
  ASSUME Typed, ReadyHasAudio, NEW f \in fetches, FetchNext(f)
  PROVE  ReadyHasAudio'
<1>1. ASSUME NEW outcome \in {"error", "abandoned"}, NEW verdict \in Statuses,
             Settle(f, outcome, verdict), sink' = sink
      PROVE  ReadyHasAudio'
  <2>0. outcome \in {"ready", "error", "abandoned"}
    OBVIOUS
  <2>1. f.key \in Keys /\ item' = [item EXCEPT ![f.key] = Marked(f.key, outcome)]
    BY <1>1, <2>0, SettleIs
  <2>2. Marked(f.key, outcome).st = "ready" => Marked(f.key, outcome) = item[f.key]
    BY <2>0, <2>1, MarkedKeeps DEF Typed
  <2>3. \A k \in Keys : item'[k].st = "ready" => item[k].st = "ready"
    BY <2>1, <2>2 DEF Typed, ListType
  <2> QED
    BY <1>1, <2>3, ReadyKept
<1>2. CASE TextDone(f)
  <2>1. sink' = sink
    BY <1>2 DEF TextDone, sinkVars
  <2>2. CASE Settle(f, "abandoned", "error")
    BY <1>1, <2>1, <2>2, CaughtIs
  <2>3. CASE UNCHANGED item
    BY <2>1, <2>3 DEF ReadyHasAudio
  <2> QED
    BY <1>2, <2>2, <2>3 DEF TextDone, listVars
<1>3. CASE TextFails(f)
  BY <1>1, <1>3, CaughtIs DEF TextFails, sinkVars
<1>4. CASE SynthFails(f)
  BY <1>1, <1>4, CaughtIs DEF SynthFails, sinkVars
<1>5. CASE SynthDone(f)
  <2>1. /\ Settle(f, "ready", "ready") /\ sink' = [sink EXCEPT ![f.key] = "loading"]
        /\ f.key \in Keys
    BY <1>5, FetchParts DEF SynthDone
  <2>2. item' = [item EXCEPT ![f.key] = Marked(f.key, "ready")]
    BY <2>1, CaughtIs, SettleIs
  <2> QED
    BY <2>1, <2>2 DEF ReadyHasAudio, Typed, ListType, SinkType
<1> QED
  BY <1>2, <1>3, <1>4, <1>5 DEF FetchNext

(* The loop makes nothing ready, and leaves the audio alone. *)
LEMMA StartPlayItems ==
  ASSUME Typed, NEW k \in Keys, NEW full \in BOOLEAN, StartPlay(k, full)
  PROVE  \A j \in Keys :
           /\ j # k => item'[j] = item[j]
           /\ item'[k].st = "playing" /\ item'[k].needs = item[k].needs
           /\ item'[k].skip = item[k].skip
<1>1. item' = [item EXCEPT ![k].st = "playing"]
  BY StartPlayIs
<1> QED
  BY <1>1 DEF Typed, ListType, Items

(* What each step of the loop makes of an item. *)
Starts(k) ==
  \/ (LoopPlays /\ k = AtCursor)
  \/ (LoopResumesItem /\ k = AtCursor /\ k = loop.seg /\ item[k].st = "ready")
  \/ (LoopStarts /\ k = loop.seg)

LoopItem(k) ==
  \/ item'[k] = item[k]
  \/ /\ item'[k].st = "playing" /\ item'[k].needs = item[k].needs
     /\ item'[k].skip = item[k].skip /\ Starts(k)
  \/ /\ item'[k].st = item[k].st /\ item[k].needs /\ ~item'[k].needs
     /\ item'[k].skip = item[k].skip
  \/ item'[k].st = "skipped" /\ item'[k].needs = item[k].needs
  \/ /\ item'[k].st \in {"done", "reserved"} /\ item'[k].skip = item[k].skip
     /\ LoopResumesPlay /\ k = AtCursor /\ k = loop.seg

LEMMA LoopItems ==
  ASSUME Typed, LoopNext \/ ReserveTimeout \/ PlayEnds
  PROVE  UNCHANGED <<sink, steered>> /\ \A k \in Keys : LoopItem(k)
<1>1. UNCHANGED <<sink, steered>>
  BY DEF LoopNext, LoopPauses, LoopAtEnd, LoopPlays, LoopWaits, LoopCrawls, LoopResumesItem,
     LoopStarts, LoopResumesPlay, LoopUnparks, ReserveTimeout, PlayEnds, sinkVars
<1>2. CASE UNCHANGED item
  BY <1>1, <1>2 DEF LoopItem
<1>3. CASE LoopAtEnd /\ Orphans = {}
  <2>1. item' = [k \in Keys |-> IF Waiting(k) THEN Skip(k, "orphan") ELSE item[k]]
    BY <1>3 DEF LoopAtEnd
  <2> QED
    BY <1>1, <2>1, SkipKeeps DEF LoopItem, Typed
<1>4. CASE LoopPlays
  <2>1. AtCursor \in Keys /\ Complete(AtCursor) \in BOOLEAN
    BY <1>4, CursorIs DEF LoopPlays, Typed, Complete
  <2> QED
    BY <1>1, <1>4, <2>1, StartPlayItems DEF LoopPlays, LoopItem, Starts
<1>5. CASE LoopWaits /\ item[AtCursor].needs
  <2>1. AtCursor \in Keys
    BY <1>5, CursorIs DEF LoopWaits, Typed
  <2>2. item' = [item EXCEPT ![AtCursor].needs = FALSE, ![AtCursor].fetch = epoch[AtCursor]]
    BY <1>5, <2>1, RefetchTyped DEF LoopWaits
  <2>3. ASSUME NEW k \in Keys, k # AtCursor PROVE item'[k] = item[k]
    BY <2>1, <2>2, <2>3 DEF Typed, ListType
  <2>4. /\ item'[AtCursor].st = item[AtCursor].st /\ ~item'[AtCursor].needs
        /\ item'[AtCursor].skip = item[AtCursor].skip
    BY <2>1, <2>2 DEF Typed, ListType, Items
  <2> QED
    BY <1>1, <1>5, <2>3, <2>4 DEF LoopItem
<1>6. CASE LoopResumesItem /\ AtCursor = loop.seg /\ item[loop.seg].st = "ready"
           /\ StartPlay(loop.seg, FALSE)
  <2>1. loop.seg \in Keys
    BY <1>6 DEF LoopResumesItem, Typed, LoopType
  <2> QED
    BY <1>1, <1>6, <2>1, StartPlayItems DEF LoopItem, Starts
<1>7. CASE ReserveTimeout /\ AtCursor = loop.seg
  <2>1. loop.seg \in Keys
    BY <1>7 DEF ReserveTimeout, Typed, LoopType
  <2>2. item' = [item EXCEPT ![loop.seg] = Skip(loop.seg, "timeout")]
    BY <1>7 DEF ReserveTimeout
  <2> QED
    BY <1>1, <2>1, <2>2, SkipKeeps DEF LoopItem, Typed, ListType
<1>8. CASE LoopStarts
  <2>1. loop.seg \in Keys
    BY <1>8 DEF LoopStarts, Typed, LoopType
  <2> QED
    BY <1>1, <1>8, <2>1, StartPlayItems DEF LoopStarts, LoopItem, Starts
<1>9. CASE LoopResumesPlay /\ AtCursor = loop.seg
  <2>1. loop.seg \in Keys
    BY <1>9 DEF LoopResumesPlay, Typed, LoopType
  <2>2. \/ item' = [item EXCEPT ![loop.seg] = [item[loop.seg] EXCEPT !.st = "done"]]
        \/ item' = [item EXCEPT ![loop.seg] =
                      [item[loop.seg] EXCEPT !.st = "reserved", !.needs = TRUE]]
    BY <1>9 DEF LoopResumesPlay
  <2>3. ASSUME NEW k \in Keys, k # loop.seg PROVE item'[k] = item[k]
    BY <2>1, <2>2, <2>3 DEF Typed, ListType
  <2>4. /\ item'[loop.seg].st \in {"done", "reserved"}
        /\ item'[loop.seg].skip = item[loop.seg].skip
    <3>1. item[loop.seg] \in Items /\ item \in [Keys -> Items]
      BY <2>1 DEF Typed, ListType
    <3>2. PICK i : i = item[loop.seg]
      OBVIOUS
    <3>3. /\ [i EXCEPT !.st = "done"].st = "done" /\ [i EXCEPT !.st = "done"].skip = i.skip
          /\ [i EXCEPT !.st = "reserved", !.needs = TRUE].st = "reserved"
          /\ [i EXCEPT !.st = "reserved", !.needs = TRUE].skip = i.skip
      BY <3>1, <3>2 DEF Items
    <3>4. \/ item'[loop.seg] = [i EXCEPT !.st = "done"]
          \/ item'[loop.seg] = [i EXCEPT !.st = "reserved", !.needs = TRUE]
      BY <2>1, <2>2, <3>1, <3>2
    <3> QED
      BY <3>2, <3>3, <3>4
  <2> QED
    BY <1>1, <1>9, <2>3, <2>4 DEF LoopItem
<1>10. \/ UNCHANGED item
       \/ (LoopAtEnd /\ Orphans = {})
       \/ LoopPlays
       \/ (LoopWaits /\ item[AtCursor].needs)
       \/ (/\ LoopResumesItem /\ AtCursor = loop.seg /\ item[loop.seg].st = "ready"
           /\ StartPlay(loop.seg, FALSE))
       \/ (ReserveTimeout /\ AtCursor = loop.seg)
       \/ LoopStarts
       \/ (LoopResumesPlay /\ AtCursor = loop.seg)
  <2>1. LoopPauses \/ LoopCrawls \/ LoopUnparks \/ PlayEnds => UNCHANGED item
    BY DEF LoopPauses, LoopCrawls, LoopUnparks, PlayEnds, listVars
  <2>2. LoopAtEnd => UNCHANGED item \/ (LoopAtEnd /\ Orphans = {})
    BY DEF LoopAtEnd
  <2>3. LoopWaits => UNCHANGED item \/ (LoopWaits /\ item[AtCursor].needs)
    BY DEF LoopWaits
  <2>4. LoopResumesItem =>
          UNCHANGED item \/ (/\ LoopResumesItem /\ AtCursor = loop.seg
                             /\ item[loop.seg].st = "ready" /\ StartPlay(loop.seg, FALSE))
    BY DEF LoopResumesItem
  <2>5. ReserveTimeout => UNCHANGED item \/ (ReserveTimeout /\ AtCursor = loop.seg)
    BY DEF ReserveTimeout
  <2>6. LoopResumesPlay => UNCHANGED item \/ (LoopResumesPlay /\ AtCursor = loop.seg)
    BY DEF LoopResumesPlay
  <2> QED
    BY <2>1, <2>2, <2>3, <2>4, <2>5, <2>6 DEF LoopNext
<1> QED
  BY <1>2, <1>3, <1>4, <1>5, <1>6, <1>7, <1>8, <1>9, <1>10

LEMMA DriverReady ==
  ASSUME Typed, ReadyHasAudio, DriverNext
  PROVE  ReadyHasAudio'
<1>1. CASE Pause \/ Resume
  BY <1>1 DEF Pause, Resume, listVars, sinkVars, ReadyHasAudio
<1>2. ASSUME NEW n, NEW reset \in BOOLEAN, Navigate(n, reset)
      PROVE  ReadyHasAudio'
  <2>1. /\ n \in 1 .. Len(list) /\ item' = [k \in Keys |-> Jumped(k, Dropped(n, reset))]
        /\ Invalidate(Dropped(n, reset), Cancelled(n, reset))
    BY <1>2, NavigateIs
  <2>2. ASSUME NEW k \in Keys, item'[k].st = "ready"
        PROVE  item[k].st = "ready" /\ k \notin Cancelled(n, reset)
    BY <2>1, <2>2, DroppedAre, JumpedKeeps DEF Typed
  <2>3. \A k \in Keys : k \notin Cancelled(n, reset) => sink'[k] = sink[k]
    BY <2>1 DEF Invalidate
  <2> QED
    BY <2>2, <2>3, ReadyKept
<1>3. CASE StopPlaylist \/ StopAndClear
  <2>1. item' = [k \in Keys |-> Absent]
    BY <1>3 DEF StopPlaylist, StopAndClear, EmptyList
  <2> QED
    BY <2>1 DEF ReadyHasAudio, Absent
<1> QED
  BY <1>1, <1>2, <1>3 DEF DriverNext, Skips, Backs, JumpToBubble

LEMMA ReadyInit == Init => ReadyHasAudio
  BY DEF Init, ReadyHasAudio, Absent

LEMMA ReadyNext == Typed /\ ReadyHasAudio /\ [Next]_vars => ReadyHasAudio'
<1> SUFFICES ASSUME Typed, ReadyHasAudio, [Next]_vars PROVE ReadyHasAudio'
  OBVIOUS
<1>1. ASSUME NEW b \in 1 .. Bubbles, Enqueue(b) PROVE ReadyHasAudio'
  <2>1. \E k \in Keys : Reserve(k) /\ sink' = sink
    BY <1>1, EnqueueIs
  <2>2. \A k \in Keys : Reserve(k) /\ sink' = sink => ReadyHasAudio'
    BY DEF Reserve, Absent, Typed, ListType, ReadyHasAudio
  <2> QED
    BY <2>1, <2>2
<1>2. ASSUME NEW f \in fetches, FetchNext(f) PROVE ReadyHasAudio'
  BY <1>2, FetchReady
<1>3. ASSUME NEW k \in Keys, StreamEnds(k) \/ StreamBreaks(k) PROVE ReadyHasAudio'
  <2>1. UNCHANGED item /\ \E end \in {"complete", "broken", "cut"} : sink' = [sink EXCEPT ![k] = end]
    BY <1>3 DEF StreamEnds, StreamBreaks, listVars
  <2> QED
    BY <2>1 DEF ReadyHasAudio, Typed, SinkType
<1>4. CASE LoopNext \/ ReserveTimeout \/ PlayEnds
  <2>1. sink' = sink /\ \A k \in Keys : LoopItem(k)
    BY <1>4, LoopItems
  <2>2. \A k \in Keys : item'[k].st = "ready" => item[k].st = "ready"
    BY <2>1 DEF LoopItem
  <2> QED
    BY <2>1, <2>2, ReadyKept
<1>5. CASE DriverNext
  BY <1>5, DriverReady
<1>6. CASE UNCHANGED vars
  BY <1>6 DEF vars, listVars, sinkVars, ReadyHasAudio
<1> QED
  BY <1>1, <1>2, <1>3, <1>4, <1>5, <1>6 DEF Next

(* What the playlist calls ready is held by the sink, whatever jumps cancel and however
   late a fetch answers (I4 of audio-playlist-invariants.ts). *)
THEOREM AudioCorrect == Spec => []ReadyHasAudio
  BY TypedCorrect, ReadyInit, ReadyNext, PTL DEF Spec

-----------------------------------------------------------------------------
(* What is played follows the cursor. *)

Ahead == ~steered => \A i \in 1 .. Len(list) : i > cursor => item[list[i]].st \notin {"done", "playing"}

AtItem == ~steered /\ loop.at \in {"resumePlay", "start", "play"} => AtCursor = loop.seg

AheadInv == Ahead /\ AtItem

(* Of the steps that leave the list alone, only the loop's play a segment. *)
LEMMA PlayedIs ==
  ASSUME Typed, NEW k \in Keys,
         \/ \E f \in fetches : FetchNext(f)
         \/ \E j \in Keys : StreamEnds(j) \/ StreamBreaks(j)
         \/ LoopNext \/ ReserveTimeout \/ PlayEnds
         \/ DriverNext \/ \E b \in 1 .. Bubbles : Enqueue(b)
  PROVE  /\ item'[k].st = "playing" => item[k].st = "playing" \/ Starts(k)
         /\ item'[k].st = "done" => item[k].st \in {"done", "playing"}
                                    \/ (LoopResumesPlay /\ k = AtCursor)
<1>1. ASSUME NEW f \in fetches, FetchNext(f)
      PROVE  item'[k].st \in {"done", "playing"} => item'[k] = item[k]
  <2>1. \/ \E outcome \in {"ready", "error", "abandoned"}, verdict \in Statuses :
             Settle(f, outcome, verdict)
        \/ UNCHANGED item
    BY <1>1, CaughtIs DEF FetchNext, TextDone, TextFails, SynthDone, SynthFails, listVars
  <2>2. ASSUME NEW outcome \in {"ready", "error", "abandoned"}, NEW verdict \in Statuses,
               Settle(f, outcome, verdict)
        PROVE  item'[k].st \in {"done", "playing"} => item'[k] = item[k]
    <3>1. f.key \in Keys /\ item' = [item EXCEPT ![f.key] = Marked(f.key, outcome)]
      BY <2>2, SettleIs
    <3>2. Marked(f.key, outcome).st \in {"done", "playing"} => Marked(f.key, outcome) = item[f.key]
      BY <3>1, MarkedKeeps DEF Typed
    <3> QED
      BY <3>1, <3>2 DEF Typed, ListType
  <2> QED
    BY <2>1, <2>2
<1>2. ASSUME NEW j \in Keys, StreamEnds(j) \/ StreamBreaks(j)
      PROVE  item' = item
  BY <1>2 DEF StreamEnds, StreamBreaks, listVars
<1>3. CASE LoopNext \/ ReserveTimeout \/ PlayEnds
  <2>1. LoopItem(k)
    BY <1>3, LoopItems
  <2> QED
    BY <2>1 DEF LoopItem
<1>4. CASE DriverNext
  <2>1. CASE Pause \/ Resume
    BY <2>1 DEF Pause, Resume, listVars
  <2>2. ASSUME NEW n, NEW reset \in BOOLEAN, Navigate(n, reset)
        PROVE  item'[k].st \in {"done", "playing"} => item[k].st \in {"done", "playing"}
               /\ (item'[k].st = "playing" => item[k].st = "playing")
    <3>1. item' = [j \in Keys |-> Jumped(j, Dropped(n, reset))]
      BY <2>2, NavigateIs
    <3>2. item[k] \in Items
      BY ItemParts DEF Typed
    <3> QED
      BY <3>1, <3>2 DEF Jumped, Items
  <2>3. CASE StopPlaylist \/ StopAndClear
    <3>1. item'[k] = Absent
      BY <2>3 DEF StopPlaylist, StopAndClear, EmptyList
    <3> QED
      BY <3>1 DEF Absent
  <2>4. \/ Pause \/ Resume \/ StopPlaylist \/ StopAndClear
        \/ \E n : \E reset \in BOOLEAN : Navigate(n, reset)
    BY <1>4 DEF DriverNext, Skips, Backs, JumpToBubble
  <2> QED
    BY <2>1, <2>2, <2>3, <2>4
<1>5. ASSUME NEW b \in 1 .. Bubbles, Enqueue(b)
      PROVE  item'[k].st = "reserved" \/ item'[k] = item[k]
  <2>1. PICK j \in Keys : Reserve(j)
    BY <1>5, EnqueueIs
  <2> QED
    BY <2>1 DEF Reserve, Absent, Typed, ListType
<1> QED
  BY <1>1, <1>2, <1>3, <1>4, <1>5

(* What stands at the cursor stands nowhere behind it. *)
LEMMA CursorOnce ==
  ASSUME Typed, OrderInv, NEW i \in 1 .. Len(list), i > cursor
  PROVE  list[i] # AtCursor
<1>1. cursor \in 1 .. Len(list) /\ AtCursor = list[cursor] /\ AtCursor \in Keys
  BY CursorIs DEF Typed, ListType, AtCursor
<1>2. Before(AtCursor, list[i])
  BY <1>1 DEF OrderInv, Sorted
<1> QED
  BY <1>1, <1>2, BeforeIsOrder

LEMMA AheadStays ==
  ASSUME Typed, OrderInv, AheadInv, ~steered' => ~steered, UNCHANGED list,
         cursor' \in Int, cursor' >= cursor,
         \A k \in Keys : item'[k].st \in {"done", "playing"} =>
           item[k].st \in {"done", "playing"} \/ k = AtCursor
  PROVE  Ahead'
<1> SUFFICES ASSUME ~steered, NEW i \in 1 .. Len(list), i > cursor',
                    item'[list[i]].st \in {"done", "playing"}
             PROVE  FALSE
  BY DEF Ahead
<1>1. i > cursor /\ list[i] \in Keys
  BY CursorIs DEF Typed, ListType
<1>2. item[list[i]].st \in {"done", "playing"}
  BY <1>1, CursorOnce
<1> QED
  BY <1>1, <1>2 DEF AheadInv, Ahead

(* A new segment is put in front of the cursor or behind it. *)
LEMMA ReserveAhead ==
  ASSUME Typed, OrderInv, AheadInv, NEW b \in 1 .. Bubbles, Enqueue(b)
  PROVE  AheadInv'
<1>1. PICK k \in Keys :
           /\ k = <<b, allocated[b]>> /\ Idle
           /\ allocated' = [allocated EXCEPT ![b] = @ + 1]
           /\ allocated' \in [1 .. Bubbles -> 0 .. PerBubble]
           /\ Reserve(k) /\ jobs' = Append(jobs, k) /\ pending' = pending + 1
           /\ status' \in [Keys -> Statuses] /\ fetches' \subseteq Fetches
           /\ \E S : Started(S, [status EXCEPT ![k] = "pending"], fetches)
           /\ UNCHANGED <<ctrl, sink, sinkCtrl, aborted, steered, events>>
  BY EnqueueIs
<1>2. PICK p : p = Position(k)
  OBVIOUS
<1>3. /\ ListType /\ p \in 1 .. Len(list) + 1 /\ Len(list) \in Nat
      /\ \A i \in 1 .. Len(list) : list[i] \in Keys
  BY <1>2, CursorIs, PositionIs DEF Typed
<1>4. /\ Len(list') = Len(list) + 1
      /\ \A i \in 1 .. Len(list) + 1 :
           list'[i] = IF i < p THEN list[i] ELSE IF i = p THEN k ELSE list[i - 1]
  <2>0. Reserve(k) /\ list \in Seq(Keys)
    BY <1>1, <1>3 DEF ListType
  <2>1. list' = InsertAt(list, p, k) /\ list \in Seq(Keys)
    BY <2>0, <1>2 DEF Reserve
  <2>2. /\ Len(InsertAt(list, p, k)) = Len(list) + 1
        /\ \A i \in 1 .. Len(list) + 1 :
             InsertAt(list, p, k)[i] = IF i < p THEN list[i] ELSE IF i = p THEN k ELSE list[i - 1]
    <3>1. list \in Seq(Keys) /\ p \in 1 .. Len(list) + 1
      BY <1>3, <2>0
    <3> QED
      BY <3>1, InsertIs
  <2> QED
    BY <2>1, <2>2
<1>5. item'[k].st = "reserved" /\ \A j \in Keys : j # k => item'[j] = item[j]
  BY <1>1 DEF Reserve, Absent, Typed, ListType
<1>6. cursor \in 1 .. Len(list) + 1 /\ (loop.at = "off" => Len(list) = 0)
  BY <1>3 DEF ListType, OrderInv, OffEmpty
<1>7. \/ loop.at = "off" /\ cursor' = 1 /\ loop' = GoTo("top")
      \/ /\ loop.at # "off" /\ loop' = Unparked
         /\ cursor' = IF p < cursor \/ (p = cursor /\ cursor <= Len(list))
                        THEN cursor + 1 ELSE cursor
  BY <1>1, <1>2 DEF Reserve, ShiftedCursor
<1>8. Ahead'
  <2> SUFFICES ASSUME ~steered, NEW i \in 1 .. Len(list) + 1, i > cursor'
               PROVE  item'[list'[i]].st \notin {"done", "playing"}
    BY <1>1, <1>4 DEF Ahead
  <2>1. CASE i = p
    BY <1>4, <1>5, <2>1
  <2>2. CASE i < p
    <3>1. i \in 1 .. Len(list) /\ list'[i] = list[i] /\ i > cursor
      BY <1>3, <1>4, <1>6, <1>7, <2>2
    <3> QED
      BY <1>3, <1>5, <3>1 DEF AheadInv, Ahead
  <2>3. CASE i > p
    <3>1. i - 1 \in 1 .. Len(list) /\ list'[i] = list[i - 1] /\ i - 1 > cursor
      BY <1>3, <1>4, <1>6, <1>7, <2>3
    <3> QED
      BY <1>3, <1>5, <3>1 DEF AheadInv, Ahead
  <2> QED
    BY <1>3, <2>1, <2>2, <2>3
<1>9. AtItem'
  <2>1. CASE loop.at = "off"
    <3>1. "top" \in Places /\ loop' = GoTo("top")
      BY <1>7, <2>1 DEF Places
    <3> QED
      BY <3>1, GoToIs DEF AtItem
  <2>2. CASE loop.at # "off"
    <3>1. loop'.at = loop.at /\ loop'.seg = loop.seg
      BY <1>7, <2>2, LoopBecomes DEF Typed, Unparked
    <3>2. ASSUME ~steered, loop.at \in {"resumePlay", "start", "play"}
          PROVE  AtCursor' = AtCursor
      <4>1. AtCursor = loop.seg /\ loop.seg \in Keys
        BY <3>2 DEF AheadInv, AtItem, Typed, LoopType
      <4>2. cursor \in 1 .. Len(list) /\ AtCursor = list[cursor]
        BY <1>3, <1>6, <4>1, KeyParts DEF AtCursor
      <4>3. cursor' \in 1 .. Len(list') /\ list'[cursor'] = list[cursor]
        BY <1>3, <1>4, <1>7, <2>2, <4>2
      <4> QED
        BY <4>2, <4>3 DEF AtCursor
    <3> QED
      BY <1>1, <3>1, <3>2 DEF AheadInv, AtItem
  <2> QED
    BY <2>1, <2>2
<1> QED
  BY <1>8, <1>9 DEF AheadInv

LEMMA LoopAhead ==
  ASSUME Typed, OrderInv, AheadInv, LoopNext \/ ReserveTimeout \/ PlayEnds
  PROVE  AheadInv'
<1>1. /\ UNCHANGED <<list, steered>>
      /\ \A k \in Keys : item'[k].st \in {"done", "playing"} =>
           item[k].st \in {"done", "playing"} \/ k = AtCursor \/ (steered /\ LoopStarts)
  <2>1. UNCHANGED list
    BY DEF LoopNext, LoopPauses, LoopAtEnd, LoopPlays, LoopWaits, LoopCrawls, LoopResumesItem,
       LoopStarts, LoopResumesPlay, LoopUnparks, ReserveTimeout, PlayEnds, listVars
  <2>2. LoopStarts => loop.at = "start"
    BY DEF LoopStarts
  <2> QED
    BY <2>1, <2>2, LoopItems, PlayedIs DEF Starts, AheadInv, AtItem
<1>2. cursor \in Int /\ cursor + 1 >= cursor /\ cursor >= cursor /\ cursor + 1 \in Int
  BY DEF Typed, ListType
<1>3. CASE LoopAtEnd /\ Orphans # {}
  <2>1. cursor' = Min(Orphans) /\ UNCHANGED <<item, loop>> /\ loop.at = "top"
    BY <1>3 DEF LoopAtEnd
  <2>2. Min(Orphans) \in 1 .. Len(list) /\ Min(Orphans) > LastPlayed /\ LastPlayed \in 0 .. Len(list)
        /\ \A i \in 1 .. Len(list) : item[list[i]].st \in {"done", "playing"} => i <= LastPlayed
    BY <1>3, OrphansAre DEF Typed
  <2>3. Ahead'
    BY <1>1, <2>1, <2>2 DEF Ahead
  <2> QED
    BY <2>1, <2>3 DEF AheadInv, AtItem
<1>4. CASE ~(LoopAtEnd /\ Orphans # {})
  <2>1. cursor' = cursor \/ cursor' = cursor + 1
    BY <1>4 DEF LoopNext, LoopPauses, LoopAtEnd, LoopPlays, LoopWaits, LoopCrawls, LoopResumesItem,
       LoopStarts, LoopResumesPlay, LoopUnparks, ReserveTimeout, PlayEnds, listVars
  <2>2. Ahead'
    <3>1. CASE steered
      BY <1>1, <3>1 DEF Ahead
    <3>2. CASE ~steered
      BY <1>1, <1>2, <2>1, <3>2, AheadStays
    <3> QED
      BY <3>1, <3>2
  <2>3. AtItem'
    <3> SUFFICES ASSUME ~steered, loop'.at \in {"resumePlay", "start", "play"}
                 PROVE  AtCursor' = loop'.seg
      BY <1>1 DEF AtItem
    <3>0. "top" \in Places /\ "resume" \in Places /\ "park" \in Places
      BY DEF Places
    <3>1. CASE LoopPauses \/ LoopAtEnd \/ ReserveTimeout \/ LoopResumesPlay \/ LoopUnparks
      <4>1. loop' = GoTo("top") \/ loop' = GoTo("resume") \/ loop' = GoTo("park")
        BY <1>4, <3>1 DEF LoopPauses, LoopAtEnd, ReserveTimeout, LoopResumesPlay, LoopUnparks
      <4> QED
        BY <3>0, <4>1, GoToIs
    <3>2. CASE LoopPlays
      <4>1. AtCursor \in Keys /\ Complete(AtCursor) \in BOOLEAN
            /\ StartPlay(AtCursor, Complete(AtCursor)) /\ UNCHANGED cursor
        BY <3>2, CursorIs DEF LoopPlays, Typed, Complete
      <4>2. loop'.seg = AtCursor
        BY <4>1, StartPlayIs
      <4> QED
        BY <1>1, <4>1, <4>2 DEF AtCursor
    <3>3. CASE LoopWaits
      <4>1. AtCursor \in Keys /\ loop' = [GoTo("item") EXCEPT !.seg = AtCursor]
        BY <3>3, CursorIs DEF LoopWaits, Typed
      <4>2. loop'.at = "item"
        BY <3>3, <4>1, HoldsTyped DEF LoopWaits
      <4> QED
        BY <4>2
    <3>4. CASE LoopCrawls
      BY <3>4 DEF LoopCrawls, loopVars
    <3>5. CASE LoopResumesItem
      <4>1. loop.seg \in Keys
        BY <3>5 DEF LoopResumesItem, Typed, LoopType
      <4>2. \/ loop' = GoTo("top")
            \/ /\ AtCursor = loop.seg /\ UNCHANGED <<cursor, transport>>
               /\ \/ loop' = [GoTo("resumePlay") EXCEPT !.seg = loop.seg]
                  \/ StartPlay(loop.seg, FALSE)
        BY <3>5 DEF LoopResumesItem
      <4>3. CASE loop' = GoTo("top")
        BY <3>0, <4>3, GoToIs
      <4>4. CASE loop' # GoTo("top")
        <5>1. loop'.seg = loop.seg
          BY <4>1, <4>2, <4>4, HoldsTyped, StartPlayIs
        <5> QED
          BY <1>1, <4>2, <4>4, <5>1 DEF AtCursor
      <4> QED
        BY <4>3, <4>4
    <3>6. CASE LoopStarts
      <4>1. loop.at = "start" /\ loop.seg \in Keys /\ StartPlay(loop.seg, FALSE) /\ UNCHANGED cursor
        BY <3>6 DEF LoopStarts, Typed, LoopType
      <4>2. loop'.seg = loop.seg /\ AtCursor = loop.seg
        BY <4>1, StartPlayIs DEF AheadInv, AtItem
      <4> QED
        BY <1>1, <4>1, <4>2 DEF AtCursor
    <3>7. CASE PlayEnds
      <4>1. loop.at = "play" /\ loop'.seg = loop.seg /\ UNCHANGED cursor
        BY <3>7, WokenTyped DEF PlayEnds, listVars
      <4>2. AtCursor = loop.seg
        BY <4>1 DEF AheadInv, AtItem
      <4> QED
        BY <1>1, <4>1, <4>2 DEF AtCursor
    <3> QED
      BY <3>1, <3>2, <3>3, <3>4, <3>5, <3>6, <3>7 DEF LoopNext
  <2> QED
    BY <2>2, <2>3 DEF AheadInv
<1> QED
  BY <1>3, <1>4

LEMMA AheadInit == Init => AheadInv
<1>1. Off.at = "off"
  BY DEF Off
<1> QED
  BY <1>1 DEF Init, AheadInv, Ahead, AtItem

LEMMA AheadNext == Typed /\ OrderInv /\ AheadInv /\ [Next]_vars => AheadInv'
<1> SUFFICES ASSUME Typed, OrderInv, AheadInv, [Next]_vars PROVE AheadInv'
  OBVIOUS
<1>0. cursor \in Int /\ cursor >= cursor
  BY DEF Typed, ListType
<1>1. ASSUME NEW f \in fetches, FetchNext(f) PROVE AheadInv'
  <2>1. \/ \E outcome \in {"ready", "error", "abandoned"}, verdict \in Statuses :
             Settle(f, outcome, verdict)
        \/ UNCHANGED <<list, cursor, loop, steered>>
    BY <1>1, CaughtIs DEF FetchNext, TextDone, TextFails, SynthDone, SynthFails, listVars, loopVars
  <2>2. UNCHANGED <<list, cursor, steered>> /\ loop'.at = loop.at /\ loop'.seg = loop.seg
    BY <2>1, SettleIs
  <2>3. \A k \in Keys : item'[k].st \in {"done", "playing"} => item[k].st \in {"done", "playing"}
    <3>1. ASSUME NEW k \in Keys, item'[k].st \in {"done", "playing"}
          PROVE  item[k].st \in {"done", "playing"}
      <4>1. \/ \E outcome \in {"ready", "error", "abandoned"}, verdict \in Statuses :
                 Settle(f, outcome, verdict)
            \/ UNCHANGED item
        BY <1>1, CaughtIs DEF FetchNext, TextDone, TextFails, SynthDone, SynthFails, listVars
      <4>2. ASSUME NEW outcome \in {"ready", "error", "abandoned"}, NEW verdict \in Statuses,
                   Settle(f, outcome, verdict)
            PROVE  item[k].st \in {"done", "playing"}
        <5>1. f.key \in Keys /\ item' = [item EXCEPT ![f.key] = Marked(f.key, outcome)]
          BY <4>2, SettleIs
        <5>2. Marked(f.key, outcome).st \in {"done", "playing"} => Marked(f.key, outcome) = item[f.key]
          BY <5>1, MarkedKeeps DEF Typed
        <5> QED
          BY <3>1, <5>1, <5>2 DEF Typed, ListType
      <4> QED
        BY <3>1, <4>1, <4>2
    <3> QED
      BY <3>1
  <2>4. Ahead'
    BY <1>0, <2>2, <2>3, AheadStays
  <2>5. AtItem'
    BY <2>2 DEF AtItem, AtCursor, AheadInv
  <2> QED
    BY <2>4, <2>5 DEF AheadInv
<1>2. ASSUME NEW k \in Keys, StreamEnds(k) \/ StreamBreaks(k) PROVE AheadInv'
  BY <1>2 DEF StreamEnds, StreamBreaks, listVars, loopVars, AheadInv, Ahead, AtItem, AtCursor
<1>3. CASE DriverNext
  <2>1. CASE Pause
    BY <2>1 DEF Pause, listVars, AheadInv, Ahead, AtItem, AtCursor
  <2>2. CASE Resume
    <3>1. UNCHANGED <<list, item, cursor, steered>>
      BY <2>2 DEF Resume, listVars
    <3>2. \/ loop' = GoTo("top")
          \/ loop.at = "resumePlay" /\ loop' = [loop EXCEPT !.at = "start"]
          \/ loop' = loop
      BY <2>2 DEF Resume
    <3>3. loop'.at \notin {"resumePlay", "start", "play"}
          \/ (loop'.seg = loop.seg /\ loop.at \in {"resumePlay", "start", "play"})
      <4>1. "top" \in Places
        BY DEF Places
      <4> QED
        BY <3>2, <4>1, GoToIs, LoopBecomes DEF Typed
    <3> QED
      BY <3>1, <3>3 DEF AheadInv, Ahead, AtItem, AtCursor
  <2>3. ASSUME NEW n, NEW reset, Navigate(n, reset) PROVE AheadInv'
    BY <2>3 DEF Navigate, AheadInv, Ahead, AtItem
  <2>4. CASE StopPlaylist \/ StopAndClear
    <3>1. list' = <<>> /\ loop' = Off /\ Off.at = "off"
      BY <2>4 DEF StopPlaylist, StopAndClear, EmptyList, Off
    <3> QED
      BY <3>1 DEF AheadInv, Ahead, AtItem
  <2> QED
    BY <1>3, <2>1, <2>2, <2>3, <2>4 DEF DriverNext, Skips, Backs, JumpToBubble
<1>4. CASE UNCHANGED vars
  BY <1>4 DEF vars, listVars, loopVars, AheadInv, Ahead, AtItem, AtCursor
<1> QED
  BY <1>1, <1>2, <1>3, <1>4, ReserveAhead, LoopAhead DEF Next

(* A segment starts at the cursor, and every later one stands behind it. *)
LEMMA StartsInOrder ==
  ASSUME Typed, OrderInv, AheadInv, [Next]_vars
  PROVE  \A k \in Keys :
           ~steered /\ item[k].st # "playing" /\ item'[k].st = "playing" =>
             \A j \in Keys : Before(k, j) => item[j].st \notin {"done", "playing"}
<1> SUFFICES ASSUME NEW k \in Keys, ~steered, item[k].st # "playing", item'[k].st = "playing",
                    NEW j \in Keys, Before(k, j), item[j].st \in {"done", "playing"}
             PROVE  FALSE
  OBVIOUS
<1>1. CASE UNCHANGED vars
  BY <1>1 DEF vars, listVars
<1>2. CASE Next
  <2>1. Starts(k)
    BY <1>2, PlayedIs DEF Next
  <2>2. k = AtCursor
    BY <2>1 DEF Starts, LoopStarts, AheadInv, AtItem
  <2>3. cursor \in 1 .. Len(list) /\ k = list[cursor]
    BY <2>2, CursorIs, KeyParts DEF Typed, ListType
  <2>4. PICK i \in 1 .. Len(list) : list[i] = j
    BY DEF OrderInv, Listed
  <2>5. i <= cursor
    BY <2>3, <2>4 DEF AheadInv, Ahead, Typed, ListType
  <2>6. i = cursor \/ Before(j, k)
    BY <2>3, <2>4, <2>5 DEF OrderInv, Sorted
  <2> QED
    BY <2>3, <2>4, <2>6, BeforeIsOrder
<1> QED
  BY <1>1, <1>2

LEMMA OrderCorrect == Spec => [](Typed /\ OrderInv /\ AheadInv)
  BY TypedInit, TypedNext, OrderInit, OrderNext, AheadInit, AheadNext, PTL DEF Spec

(* Without a jump no segment starts after a later one was heard (the orphan scan of
   #playLoop and the sorted insert of reserve). *)
THEOREM PlayOrderCorrect == Spec => PlaysInOrder
<1>1. Typed /\ OrderInv /\ AheadInv /\ [Next]_vars =>
        [\A k \in Keys :
           ~steered /\ item[k].st # "playing" /\ item'[k].st = "playing" =>
             \A j \in Keys : Before(k, j) => item[j].st \notin {"done", "playing"}]_vars
  BY StartsInOrder
<1> QED
  BY <1>1, OrderCorrect, PTL DEF Spec, PlaysInOrder

-----------------------------------------------------------------------------
(* The jobs. *)

(* No trace of a segment that was not given out. *)
Fresh ==
  \A k \in Keys : ~Issued(k) =>
    /\ status[k] = "none" /\ sink[k] = "none"
    /\ \A f \in fetches : f.key # k
    /\ \A a \in aborted : a[1] # k

(* The fetches fs and the status st agree on the segment k. *)
OneFetch(k, st, fs) ==
  /\ \A f, g \in fs : f.key = k /\ g.key = k => f = g
  /\ \A f \in fs : f.key = k => st[k] = "fetching"

(* A pump touches what is pending. *)
LEMMA StartedIs ==
  ASSUME NEW S, NEW st, NEW fs, Started(S, st, fs), NEW k \in Keys
  PROVE  /\ st[k] # "pending" =>
              status'[k] = st[k] /\ \A f \in fetches' : f.key = k => f \in fs
         /\ status'[k] = st[k] \/ (st[k] = "pending" /\ status'[k] = "fetching")
         /\ OneFetch(k, st, fs) => OneFetch(k, status', fetches')
<1>1. /\ S \in SUBSET Keys /\ \A j \in S : st[j] = "pending"
      /\ status'[k] = IF k \in S THEN "fetching" ELSE st[k]
      /\ fetches' = fs \union {[key |-> j, gen |-> ctrl'[j], phase |-> "text", sig |-> 0] : j \in S}
  BY DEF Started
<1>2. \A f \in fetches' : f \in fs \/ (f.key \in S /\ f = [key |-> f.key, gen |-> ctrl'[f.key],
                                                      phase |-> "text", sig |-> 0])
  BY <1>1
<1> QED
  BY <1>1, <1>2 DEF OneFetch

(* A pump leaves alone what has no job. *)
LEMMA StartedNone ==
  ASSUME Typed, NEW S, NEW k \in Keys, Started(S, [status EXCEPT ![k] = "pending"], fetches),
         NEW j \in Keys, j # k, status[j] = "none", \A f \in fetches : f.key # j
  PROVE  status'[j] = "none" /\ \A f \in fetches' : f.key # j
<1>1. PICK st : st = [status EXCEPT ![k] = "pending"]
  OBVIOUS
<1>2. Started(S, st, fetches) /\ st[j] = "none"
  BY <1>1 DEF Typed, JobType
<1>3. status'[j] = st[j] /\ \A f \in fetches' : f.key = j => f \in fetches
  BY <1>2, StartedIs
<1> QED
  BY <1>2, <1>3

LEMMA VerdictIs ==
  ASSUME Typed, NEW k \in Keys, NEW verdict \in Statuses, NEW j \in Keys
  PROVE  /\ j # k => Verdict(k, verdict)[j] = status[j]
         /\ Verdict(k, verdict)[k] = IF status[k] = "none" THEN "none" ELSE verdict
  BY DEF Verdict, Typed, JobType

(* The ways a fetch goes on. *)
LEMMA FetchIs ==
  ASSUME Typed, NEW f \in fetches, FetchNext(f)
  PROVE  \/ \E outcome \in {"error", "abandoned"} :
              /\ Settle(f, outcome, "error") /\ UNCHANGED sinkVars
              /\ outcome = "abandoned" => Current(f.key) \in aborted
         \/ /\ Settle(f, "ready", "ready")
            /\ sink' = [sink EXCEPT ![f.key] = "loading"]
            /\ aborted' = IF sink[f.key] = "none" THEN aborted
                          ELSE aborted \union {<<f.key, sinkCtrl[f.key]>>}
         \/ /\ UNCHANGED <<allocated, listVars, loopVars, jobs, status, ctrl, pending, steered,
                           events, sinkVars>>
            /\ \E g \in Fetches : g.key = f.key /\ fetches' = (fetches \ {f}) \union {g}
<1>1. CASE TextDone(f) /\ ~(f.key[1] \in Composed /\ Current(f.key) \in aborted)
  <2>1. [f EXCEPT !.phase = "synth", !.sig = ctrl[f.key]] \in Fetches
        /\ [f EXCEPT !.phase = "synth", !.sig = ctrl[f.key]].key = f.key
    BY FetchParts DEF Fetches, Typed, JobType
  <2> QED
    BY <1>1, <2>1 DEF TextDone
<1>2. CASE TextDone(f) /\ f.key[1] \in Composed /\ Current(f.key) \in aborted
  BY <1>2 DEF TextDone
<1>3. CASE TextFails(f)
  BY <1>3 DEF TextFails, Caught
<1>4. CASE SynthDone(f)
  BY <1>4 DEF SynthDone
<1>5. CASE SynthFails(f)
  BY <1>5 DEF SynthFails, Caught
<1> QED
  BY <1>1, <1>2, <1>3, <1>4, <1>5 DEF FetchNext

LEMMA FetchFresh ==
  ASSUME Typed, Fresh, NEW f \in fetches, FetchNext(f)
  PROVE  Fresh'
<1>1. f.key \in Keys /\ Issued(f.key) /\ {"ready", "error"} \subseteq Statuses
  BY FetchParts DEF Fresh, Statuses
<1>2. ASSUME NEW outcome \in {"ready", "error", "abandoned"}, NEW verdict \in Statuses,
             Settle(f, outcome, verdict),
             \A k \in Keys : k # f.key => sink'[k] = sink[k],
             \A a \in aborted' : a \in aborted \/ a[1] = f.key
      PROVE  Fresh'
  <2>1. allocated' = allocated
    BY <1>2, SettleIs
  <2>2. PICK S : Started(S, Verdict(f.key, verdict), fetches \ {f})
    BY <1>2, SettleIs
  <2>3. ASSUME NEW k \in Keys, ~Issued(k)
        PROVE  /\ status'[k] = "none" /\ \A g \in fetches' : g.key # k
    <3>1. k # f.key /\ status[k] = "none" /\ \A g \in fetches : g.key # k
      BY <1>1, <2>3 DEF Fresh
    <3>2. Verdict(f.key, verdict)[k] = "none"
      BY <1>1, <3>1, VerdictIs
    <3> QED
      BY <2>2, <3>1, <3>2, StartedIs
  <2> QED
    BY <1>1, <1>2, <2>1, <2>3 DEF Fresh, Issued
<1>3. CASE \E outcome \in {"error", "abandoned"} : Settle(f, outcome, "error") /\ UNCHANGED sinkVars
  BY <1>1, <1>2, <1>3 DEF sinkVars
<1>4. CASE /\ Settle(f, "ready", "ready")
           /\ sink' = [sink EXCEPT ![f.key] = "loading"]
           /\ aborted' = IF sink[f.key] = "none" THEN aborted
                         ELSE aborted \union {<<f.key, sinkCtrl[f.key]>>}
  <2>1. \A k \in Keys : k # f.key => sink'[k] = sink[k]
    BY <1>4 DEF Typed, SinkType
  <2>2. \A a \in aborted' : a \in aborted \/ a[1] = f.key
    BY <1>4
  <2> QED
    BY <1>1, <1>2, <1>4, <2>1, <2>2
<1>5. CASE /\ UNCHANGED <<allocated, listVars, loopVars, jobs, status, ctrl, pending, steered,
                          events, sinkVars>>
           /\ \E g \in Fetches : g.key = f.key /\ fetches' = (fetches \ {f}) \union {g}
  BY <1>1, <1>5 DEF Fresh, Issued, sinkVars
<1> QED
  BY <1>3, <1>4, <1>5, FetchIs

LEMMA EnqueueFresh ==
  ASSUME Typed, OrderInv, Fresh, NEW b \in 1 .. Bubbles, Enqueue(b)
  PROVE  Fresh'
<1>1. PICK k \in Keys :
           /\ k = <<b, allocated[b]>> /\ Idle
           /\ allocated' = [allocated EXCEPT ![b] = @ + 1]
           /\ allocated' \in [1 .. Bubbles -> 0 .. PerBubble]
           /\ Reserve(k) /\ jobs' = Append(jobs, k) /\ pending' = pending + 1
           /\ status' \in [Keys -> Statuses] /\ fetches' \subseteq Fetches
           /\ \E S : Started(S, [status EXCEPT ![k] = "pending"], fetches)
           /\ UNCHANGED <<ctrl, sink, sinkCtrl, aborted, steered, events>>
  BY EnqueueIs
<1>2. PICK S : Started(S, [status EXCEPT ![k] = "pending"], fetches)
  BY <1>1
<1>3. /\ k[1] = b /\ k[2] = allocated[b] /\ allocated'[b] = allocated[b] + 1 /\ allocated[b] \in Nat
      /\ \A c \in 1 .. Bubbles : c # b => allocated'[c] = allocated[c]
  <2>1. allocated \in [1 .. Bubbles -> 0 .. PerBubble]
    BY DEF Typed, ListType
  <2> QED
    BY <1>1, <2>1
<1>4. ASSUME NEW j \in Keys, ~Issued(j)'
      PROVE  j # k /\ ~Issued(j)
  <2>1. j[1] \in 1 .. Bubbles /\ j[2] \in Int
    BY KeyParts
  <2>2. ~(j[2] < allocated'[j[1]])
    BY <1>4 DEF Issued
  <2> QED
    BY <1>3, <2>1, <2>2 DEF Issued
<1>5. ASSUME NEW j \in Keys, ~Issued(j)'
      PROVE  status'[j] = "none" /\ \A f \in fetches' : f.key # j
  <2>1. status[j] = "none" /\ j # k /\ \A f \in fetches : f.key # j
    BY <1>4, <1>5 DEF Fresh
  <2> QED
    BY <1>2, <2>1, StartedNone
<1> QED
  BY <1>1, <1>4, <1>5 DEF Fresh

LEMMA RefetchFresh ==
  ASSUME Typed, OrderInv, Fresh, LoopWaits
  PROVE  Fresh'
<1>1. AtCursor \in Keys /\ Issued(AtCursor) /\ UNCHANGED <<allocated, sink, aborted>>
  BY CursorListed DEF LoopWaits, OrderInv, Listed, sinkVars
<1>2. CASE UNCHANGED jobVars
  BY <1>1, <1>2 DEF Fresh, Issued, jobVars
<1>3. CASE ~UNCHANGED jobVars
  <2>1. /\ ctrl' = [ctrl EXCEPT ![AtCursor] = @ + 1]
        /\ Pump(jobs, [status EXCEPT ![AtCursor] = "pending"], fetches)
    BY <1>3 DEF LoopWaits, Refetch
  <2>2. /\ jobs \in Seq(Keys) /\ ctrl' \in [Keys -> Nat] /\ fetches \in SUBSET Fetches
        /\ [status EXCEPT ![AtCursor] = "pending"] \in [Keys -> Statuses]
    BY <1>1, <2>1 DEF Typed, JobType, Statuses
  <2>3. PICK S : Started(S, [status EXCEPT ![AtCursor] = "pending"], fetches)
    <3>1. PICK st : st = [status EXCEPT ![AtCursor] = "pending"]
      OBVIOUS
    <3>2. st \in [Keys -> Statuses] /\ Pump(jobs, st, fetches) /\ ctrl' \in [Keys -> Nat]
          /\ jobs \in Seq(Keys) /\ fetches \in SUBSET Fetches
      BY <2>1, <2>2, <3>1
    <3>3. \E S : Started(S, st, fetches)
      BY <3>2, PumpIs DEF Started
    <3> QED
      BY <3>1, <3>3
  <2>4. ASSUME NEW j \in Keys, ~Issued(j)
        PROVE  status'[j] = "none" /\ \A f \in fetches' : f.key # j
    <3>1. status[j] = "none" /\ j # AtCursor /\ \A f \in fetches : f.key # j
      BY <1>1, <2>4 DEF Fresh
    <3>2. PICK k \in Keys : k = AtCursor
      BY <1>1
    <3>3. Started(S, [status EXCEPT ![k] = "pending"], fetches) /\ j # k
      BY <2>3, <3>1, <3>2
    <3> QED
      BY <3>1, <3>3, StartedNone
  <2> QED
    BY <1>1, <2>4 DEF Fresh, Issued
<1> QED
  BY <1>2, <1>3

LEMMA DriverFresh ==
  ASSUME Typed, OrderInv, Fresh, DriverNext
  PROVE  Fresh'
<1>1. CASE Pause \/ Resume
  BY <1>1 DEF Pause, Resume, jobVars, sinkVars, Fresh, Issued
<1>2. ASSUME NEW n, NEW reset \in BOOLEAN, Navigate(n, reset)
      PROVE  Fresh'
  <2>1. /\ Invalidate(Dropped(n, reset), Cancelled(n, reset)) /\ allocated' = allocated
        /\ n \in 1 .. Len(list)
    BY <1>2, NavigateIs
  <2>2. Dropped(n, reset) \subseteq Keys /\ Cancelled(n, reset) \subseteq Keys
    BY <2>1, DroppedAre DEF Typed
  <2>3. \A k \in Keys : ~Issued(k) => status'[k] = "none" /\ sink'[k] = "none"
    BY <2>1 DEF Invalidate, Fresh
  <2>4. fetches' = fetches
    BY <2>1 DEF Invalidate
  <2>5. ASSUME NEW a \in aborted'
        PROVE  a \in aborted \/ (a[1] \in Keys /\ Issued(a[1]))
    BY <2>1, <2>2, <2>5 DEF Invalidate, Current, Fresh
  <2> QED
    BY <2>1, <2>3, <2>4, <2>5 DEF Fresh, Issued
<1>3. CASE StopPlaylist \/ StopAndClear
  <2>1. UNCHANGED <<allocated, fetches>>
    BY <1>3 DEF StopPlaylist, StopAndClear, EmptyList, jobVars
  <2>2. \A k \in Keys : ~Issued(k) => status'[k] = "none" /\ sink'[k] = "none"
    BY <1>3 DEF StopPlaylist, StopAndClear, EmptyList, jobVars, Fresh
  <2>3. ASSUME NEW a \in aborted'
        PROVE  a \in aborted \/ (a[1] \in Keys /\ Issued(a[1]))
    BY <1>3, <2>3 DEF StopPlaylist, StopAndClear, EmptyList, Current, Fresh
  <2> QED
    BY <2>1, <2>2, <2>3 DEF Fresh, Issued
<1> QED
  BY <1>1, <1>2, <1>3 DEF DriverNext, Skips, Backs, JumpToBubble

LEMMA FreshInit == Init => Fresh
  BY DEF Init, Fresh

LEMMA FreshNext == Typed /\ OrderInv /\ Fresh /\ [Next]_vars => Fresh'
<1> SUFFICES ASSUME Typed, OrderInv, Fresh, [Next]_vars PROVE Fresh'
  OBVIOUS
<1>1. ASSUME NEW k \in Keys, StreamEnds(k) \/ StreamBreaks(k) PROVE Fresh'
  <2>1. /\ UNCHANGED <<allocated, status, fetches, aborted>> /\ sink[k] # "none"
        /\ \E end \in {"complete", "broken", "cut"} : sink' = [sink EXCEPT ![k] = end]
    BY <1>1 DEF StreamEnds, StreamBreaks, jobVars
  <2> QED
    BY <2>1 DEF Fresh, Issued, Typed, SinkType
<1>2. CASE LoopNext \/ ReserveTimeout \/ PlayEnds
  <2>1. CASE LoopWaits
    BY <2>1, RefetchFresh
  <2>2. CASE ~LoopWaits
    <3>1. UNCHANGED <<allocated, jobVars, sinkVars>>
      BY <1>2, <2>2 DEF LoopNext, LoopPauses, LoopAtEnd, LoopPlays, LoopCrawls, LoopResumesItem,
         LoopStarts, LoopResumesPlay, LoopUnparks, ReserveTimeout, PlayEnds
    <3> QED
      BY <3>1 DEF Fresh, Issued, jobVars, sinkVars
  <2> QED
    BY <2>1, <2>2
<1>3. CASE UNCHANGED vars
  BY <1>3 DEF vars, jobVars, sinkVars, Fresh, Issued
<1> QED
  BY <1>1, <1>2, <1>3, EnqueueFresh, FetchFresh, DriverFresh DEF Next

-----------------------------------------------------------------------------
(* Without a jump, nothing is fetched twice and nothing is aborted. *)

Straight(k) ==
  /\ Current(k) \notin aborted
  /\ item[k].st \in {"ready", "playing", "done"} \/ item[k].needs => status[k] = "ready"
  /\ OneFetch(k, status, fetches)
  /\ status[k] \in {"pending", "fetching"} => sink[k] = "none"
  /\ item[k].skip # "-" => item[k].st = "skipped"

AllStraight == ~steered => \A k \in Keys : item[k].st # "absent" => Straight(k)

(* What the loop holds to play is ready, and what it plays is playing. *)
HeldReady ==
  ~steered => /\ loop.at \in {"resumePlay", "start"} => item[loop.seg].st = "ready"
              /\ loop.at = "play" => item[loop.seg].st = "playing"

StraightInv == Fresh /\ AllStraight /\ HeldReady /\ ParkedLeavesNothing

(* A step that leaves the jobs and the audio alone. *)
LEMMA StraightStays ==
  ASSUME NEW k \in Keys, Straight(k), UNCHANGED <<status, ctrl, fetches, sink, aborted>>,
         item'[k].st \in {"ready", "playing", "done"} \/ item'[k].needs =>
           item[k].st \in {"ready", "playing", "done"} \/ item[k].needs,
         item'[k].skip # "-" => item'[k].st = "skipped"
  PROVE  Straight(k)'
  BY DEF Straight, OneFetch, Current

LEMMA EnqueueStraight ==
  ASSUME Typed, OrderInv, StraightInv, NEW b \in 1 .. Bubbles, Enqueue(b)
  PROVE  AllStraight' /\ HeldReady' /\ ParkedLeavesNothing'
<1>1. PICK k \in Keys :
           /\ k = <<b, allocated[b]>> /\ Idle
           /\ allocated' = [allocated EXCEPT ![b] = @ + 1]
           /\ allocated' \in [1 .. Bubbles -> 0 .. PerBubble]
           /\ Reserve(k) /\ jobs' = Append(jobs, k) /\ pending' = pending + 1
           /\ status' \in [Keys -> Statuses] /\ fetches' \subseteq Fetches
           /\ \E S : Started(S, [status EXCEPT ![k] = "pending"], fetches)
           /\ UNCHANGED <<ctrl, sink, sinkCtrl, aborted, steered, events>>
  BY EnqueueIs
<1>2. PICK S : Started(S, [status EXCEPT ![k] = "pending"], fetches)
  BY <1>1
<1>3. ~Issued(k)
  <2>0. allocated[b] \in Nat
    BY DEF Typed, ListType
  <2>1. allocated[b] \in Nat /\ k[1] = b /\ k[2] = allocated[b]
    <3>1. k = <<b, allocated[b]>>
      BY <1>1
    <3> QED
      BY <2>0, <3>1
  <2> QED
    BY <2>1 DEF Issued
<1>4. item[k].st = "absent"
  BY <1>3 DEF OrderInv, Listed
<1>5. /\ item'[k].st = "reserved" /\ item'[k].needs = FALSE /\ item'[k].skip = "-"
      /\ \A j \in Keys : j # k => item'[j] = item[j]
  BY <1>1 DEF Reserve, Absent, Typed, ListType
<1>6. PICK st : st = [status EXCEPT ![k] = "pending"]
  OBVIOUS
<1>7. st[k] = "pending" /\ \A j \in Keys : j # k => st[j] = status[j]
  BY <1>6 DEF Typed, JobType
<1>8. AllStraight'
  <2> SUFFICES ASSUME ~steered, NEW j \in Keys, item'[j].st # "absent"
               PROVE  Straight(j)'
    BY <1>1 DEF AllStraight
  <2>0. Started(S, st, fetches)
    BY <1>2, <1>6
  <2>1. /\ status'[j] = st[j] \/ (st[j] = "pending" /\ status'[j] = "fetching")
        /\ OneFetch(j, st, fetches) => OneFetch(j, status', fetches')
    BY <2>0, StartedIs
  <2>2. CASE j = k
    <3>1. /\ sink[k] = "none" /\ \A f \in fetches : f.key # k
          /\ \A a \in aborted : a[1] # k
      BY <1>3 DEF StraightInv, Fresh
    <3>2. OneFetch(k, st, fetches)
      BY <3>1 DEF OneFetch
    <3>3. <<k, ctrl[k]>> \notin aborted
      BY <3>1
    <3> QED
      BY <1>1, <1>5, <2>1, <2>2, <3>1, <3>2, <3>3 DEF Straight, Current
  <2>3. CASE j # k
    <3>1. Straight(j) /\ item'[j] = item[j] /\ st[j] = status[j]
      BY <1>5, <1>7, <2>3 DEF StraightInv, AllStraight
    <3>2. OneFetch(j, st, fetches)
      BY <3>1 DEF Straight, OneFetch
    <3> QED
      BY <1>1, <2>1, <3>1, <3>2 DEF Straight, Current
  <2> QED
    BY <2>2, <2>3
<1>9. CASE loop.at = "off"
  <2>1. "top" \in Places /\ loop' = GoTo("top")
    BY <1>1, <1>9 DEF Reserve, Places
  <2>2. loop'.at = "top"
    BY <2>1, GoToIs
  <2> QED
    BY <1>8, <2>2 DEF HeldReady, ParkedLeavesNothing
<1>10. CASE loop.at # "off"
  <2>1. loop' = Unparked
    BY <1>1, <1>10 DEF Reserve
  <2>2. loop'.at = loop.at /\ loop'.seg = loop.seg /\ (loop.at = "park" => loop'.woken)
    BY <2>1, LoopBecomes DEF Typed, LoopType, Loops, Unparked
  <2>3. HeldReady'
    <3>1. Holding => loop.seg \in Keys /\ loop.seg # k
      BY <1>4 DEF Holding, OrderInv, HeldListed, Typed, LoopType
    <3> QED
      BY <1>1, <1>5, <2>2, <3>1 DEF StraightInv, HeldReady, Holding
  <2> QED
    BY <1>8, <2>2, <2>3 DEF ParkedLeavesNothing
<1> QED
  BY <1>9, <1>10

(* An outcome comes while the job is fetching, and finds a segment that waits. *)
LEMMA SettleStraight ==
  ASSUME Typed, OrderInv, StraightInv, NEW f \in fetches,
         NEW outcome \in {"ready", "error", "abandoned"}, NEW verdict \in Statuses,
         Settle(f, outcome, verdict), verdict = IF outcome = "ready" THEN "ready" ELSE "error",
         outcome = "abandoned" => Current(f.key) \in aborted,
         \A k \in Keys : k # f.key => sink'[k] = sink[k],
         \A a \in aborted' : a \in aborted \/ (a[1] = f.key /\ sink[f.key] # "none")
  PROVE  AllStraight' /\ HeldReady' /\ ParkedLeavesNothing'
<1>1. /\ f.key \in Keys /\ item' = [item EXCEPT ![f.key] = Marked(f.key, outcome)]
      /\ loop'.at = loop.at /\ loop'.seg = loop.seg /\ (loop'.woken = FALSE => loop.woken = FALSE)
      /\ UNCHANGED <<ctrl, steered>>
  BY SettleIs
<1>2. PICK S : Started(S, Verdict(f.key, verdict), fetches \ {f})
  BY SettleIs
<1> SUFFICES ASSUME ~steered PROVE AllStraight' /\ HeldReady' /\ ParkedLeavesNothing'
  BY <1>1 DEF AllStraight, HeldReady, ParkedLeavesNothing
<1>3. PICK k : k = f.key
  OBVIOUS
<1>4. k \in Keys /\ item' = [item EXCEPT ![k] = Marked(k, outcome)]
      /\ \A j \in Keys : j # k => item'[j] = item[j]
  BY <1>1, <1>3 DEF Typed, ListType
<1>5. item[k].st # "absent" =>
        /\ Straight(k) /\ status[k] = "fetching" /\ outcome # "abandoned"
        /\ item[k].st \notin {"ready", "playing", "done"} /\ ~item[k].needs
        /\ sink[k] = "none" /\ \A g \in fetches \ {f} : g.key # k
  <2> SUFFICES ASSUME item[k].st # "absent"
               PROVE  /\ Straight(k) /\ status[k] = "fetching" /\ outcome # "abandoned"
                      /\ item[k].st \notin {"ready", "playing", "done"} /\ ~item[k].needs
                      /\ sink[k] = "none" /\ \A g \in fetches \ {f} : g.key # k
    OBVIOUS
  <2>1. Straight(k)
    BY <1>4 DEF StraightInv, AllStraight
  <2>2. status[k] = "fetching" /\ Current(k) \notin aborted /\ \A g \in fetches \ {f} : g.key # k
    BY <1>3, <2>1 DEF Straight, OneFetch
  <2> QED
    BY <1>3, <2>1, <2>2 DEF Straight
<1>6. item'[k] = Marked(k, outcome)
  BY <1>4 DEF Typed, ListType
<1>7. /\ item'[k].st = "absent" <=> item[k].st = "absent"
      /\ item[k].st # "absent" =>
           /\ item'[k].needs = item[k].needs /\ item'[k].skip = item[k].skip
           /\ item'[k].st \in {item[k].st, outcome}
           /\ item[k].st # "reserved" => item'[k] = item[k]
  BY <1>4, <1>5, <1>6, MarkedKeeps DEF Typed
<1>8. AllStraight'
  <2> SUFFICES ASSUME NEW j \in Keys, item'[j].st # "absent"
               PROVE  Straight(j)'
    BY DEF AllStraight
  <2>1. PICK st : st = Verdict(f.key, verdict)
    OBVIOUS
  <2>2. /\ status'[j] = st[j] \/ (st[j] = "pending" /\ status'[j] = "fetching")
        /\ st[j] # "pending" => status'[j] = st[j] /\ \A g \in fetches' : g.key = j => g \in fetches \ {f}
        /\ OneFetch(j, st, fetches \ {f}) => OneFetch(j, status', fetches')
    BY <1>2, <2>1, StartedIs
  <2>3. CASE j = k
    <3>1. item[k].st # "absent" /\ item'[k].st # "absent"
      BY <1>7, <2>3
    <3>2. st[k] = verdict /\ verdict # "pending"
      BY <1>3, <1>4, <1>5, <2>1, <3>1, VerdictIs
    <3>3. status'[k] = verdict /\ \A g \in fetches' : g.key # k
      BY <1>5, <2>2, <2>3, <3>1, <3>2
    <3>4. Current(k)' \notin aborted'
      <4>1. Current(k) \notin aborted /\ Current(k)' = Current(k) /\ sink[k] = "none"
        BY <1>1, <1>5, <3>1 DEF Straight, Current
      <4> QED
        BY <1>3, <4>1
    <3>5. item'[k].st \in {"ready", "playing", "done"} \/ item'[k].needs => status'[k] = "ready"
      BY <1>5, <1>7, <3>1, <3>3
    <3>6. item'[k].skip # "-" => item'[k].st = "skipped"
      BY <1>5, <1>7, <3>1 DEF Straight
    <3> QED
      BY <2>3, <3>3, <3>4, <3>5, <3>6 DEF Straight, OneFetch
  <2>4. CASE j # k
    <3>1. Straight(j) /\ item'[j] = item[j] /\ sink'[j] = sink[j]
      BY <1>3, <1>4, <2>4 DEF StraightInv, AllStraight
    <3>2. st[j] = status[j]
      BY <1>3, <1>4, <2>1, <2>4, VerdictIs
    <3>3. OneFetch(j, st, fetches \ {f})
      BY <3>1, <3>2 DEF Straight, OneFetch
    <3>4. Current(j)' \notin aborted'
      BY <1>1, <1>3, <2>4, <3>1 DEF Straight, Current
    <3> QED
      BY <2>2, <3>1, <3>2, <3>3, <3>4 DEF Straight
  <2> QED
    BY <2>3, <2>4
<1>9. HeldReady'
  <2>1. Holding => loop.seg \in Keys /\ item[loop.seg].st # "absent"
    BY DEF Holding, OrderInv, HeldListed, Typed, LoopType
  <2>2. \A j \in Keys : item[j].st \in {"ready", "playing"} => item'[j] = item[j]
    BY <1>4, <1>5
  <2> QED
    BY <1>1, <2>1, <2>2 DEF StraightInv, HeldReady, Holding
<1>10. ParkedLeavesNothing'
  <2>1. \A j \in Keys : item'[j].st \in {"reserved", "ready"} => item[j].st \in {"reserved", "ready"}
    BY <1>4, <1>7
  <2>2. loop'.woken \in BOOLEAN /\ loop.woken \in BOOLEAN
    <3>1. LoopType /\ LoopType'
      BY SettleIs DEF Typed
    <3> QED
      BY <3>1 DEF LoopType, Loops
  <2> QED
    BY <1>1, <2>1, <2>2 DEF StraightInv, ParkedLeavesNothing, Waiting
<1> QED
  BY <1>8, <1>9, <1>10

LEMMA FetchStraight ==
  ASSUME Typed, OrderInv, StraightInv, NEW f \in fetches, FetchNext(f)
  PROVE  AllStraight' /\ HeldReady' /\ ParkedLeavesNothing'
<1>1. f.key \in Keys /\ {"ready", "error"} \subseteq Statuses
  BY FetchParts DEF Statuses
<1>2. CASE \E outcome \in {"error", "abandoned"} :
              /\ Settle(f, outcome, "error") /\ UNCHANGED sinkVars
              /\ outcome = "abandoned" => Current(f.key) \in aborted
  BY <1>1, <1>2, SettleStraight DEF sinkVars
<1>3. CASE /\ Settle(f, "ready", "ready")
           /\ sink' = [sink EXCEPT ![f.key] = "loading"]
           /\ aborted' = IF sink[f.key] = "none" THEN aborted
                         ELSE aborted \union {<<f.key, sinkCtrl[f.key]>>}
  <2>1. \A k \in Keys : k # f.key => sink'[k] = sink[k]
    BY <1>3 DEF Typed, SinkType
  <2>2. \A a \in aborted' : a \in aborted \/ (a[1] = f.key /\ sink[f.key] # "none")
    BY <1>3
  <2> QED
    BY <1>1, <1>3, <2>1, <2>2, SettleStraight
<1>4. CASE /\ UNCHANGED <<allocated, listVars, loopVars, jobs, status, ctrl, pending, steered,
                          events, sinkVars>>
           /\ \E g \in Fetches : g.key = f.key /\ fetches' = (fetches \ {f}) \union {g}
  <2>1. PICK g \in Fetches : g.key = f.key /\ fetches' = (fetches \ {f}) \union {g}
    BY <1>4
  <2>2. UNCHANGED <<item, loop, status, ctrl, steered, sink, aborted>>
    BY <1>4 DEF listVars, loopVars, sinkVars
  <2>3. \A k \in Keys : OneFetch(k, status, fetches) => OneFetch(k, status, fetches')
    BY <2>1 DEF OneFetch
  <2> QED
    BY <2>2, <2>3 DEF StraightInv, AllStraight, Straight, HeldReady, ParkedLeavesNothing, Current,
       Waiting
<1> QED
  BY <1>2, <1>3, <1>4, FetchIs

LEMMA StreamStraight ==
  ASSUME Typed, OrderInv, StraightInv, NEW k \in Keys, StreamEnds(k) \/ StreamBreaks(k)
  PROVE  AllStraight' /\ HeldReady' /\ ParkedLeavesNothing'
<1>1. /\ UNCHANGED <<item, loop, status, ctrl, fetches, steered, aborted>> /\ sink[k] # "none"
      /\ \E end \in {"complete", "broken", "cut"} : sink' = [sink EXCEPT ![k] = end]
  BY DEF StreamEnds, StreamBreaks, listVars, loopVars, jobVars
<1>2. \A j \in Keys : sink[j] = "none" => sink'[j] = "none"
  BY <1>1 DEF Typed, SinkType
<1> QED
  BY <1>1, <1>2 DEF StraightInv, AllStraight, Straight, OneFetch, HeldReady, ParkedLeavesNothing,
     Current, Waiting

LEMMA LoopStraight ==
  ASSUME Typed, OrderInv, StraightInv, LoopNext \/ ReserveTimeout \/ PlayEnds
  PROVE  AllStraight' /\ HeldReady' /\ ParkedLeavesNothing'
<1>1. UNCHANGED <<sink, steered>> /\ \A k \in Keys : LoopItem(k)
  BY LoopItems
<1> SUFFICES ASSUME ~steered PROVE AllStraight' /\ HeldReady' /\ ParkedLeavesNothing'
  BY <1>1 DEF AllStraight, HeldReady, ParkedLeavesNothing
<1>2. UNCHANGED <<status, ctrl, fetches, aborted>>
  <2>1. CASE LoopWaits /\ item[AtCursor].needs
    <3>1. AtCursor \in Keys /\ item[AtCursor].st # "absent"
      BY <2>1, CursorListed DEF LoopWaits
    <3>2. status[AtCursor] = "ready"
      BY <2>1, <3>1 DEF StraightInv, AllStraight, Straight
    <3> QED
      BY <2>1, <3>2 DEF LoopWaits, Refetch, jobVars, sinkVars
  <2>2. CASE ~(LoopWaits /\ item[AtCursor].needs)
    BY <2>2 DEF LoopNext, LoopPauses, LoopAtEnd, LoopPlays, LoopWaits, LoopCrawls, LoopResumesItem,
       LoopStarts, LoopResumesPlay, LoopUnparks, ReserveTimeout, PlayEnds, jobVars, sinkVars
  <2> QED
    BY <2>1, <2>2
<1>3. ASSUME NEW k \in Keys, Starts(k)
      PROVE  item[k].st \in {"ready", "done"}
  <2>1. CASE LoopPlays /\ k = AtCursor
    BY <2>1 DEF LoopPlays
  <2>2. CASE LoopStarts /\ k = loop.seg
    BY <2>2 DEF LoopStarts, StraightInv, HeldReady
  <2> QED
    BY <1>3, <2>1, <2>2 DEF Starts
<1>4. AllStraight'
  <2> SUFFICES ASSUME NEW k \in Keys, item'[k].st # "absent"
               PROVE  Straight(k)'
    BY DEF AllStraight
  <2>1. item[k].st # "absent"
    <3>1. item[k].st # "absent" \/ item'[k].st \in {"playing", "skipped", "done", "reserved"}
      BY <1>1 DEF LoopItem
    <3>2. OrderInv'
      BY LoopOrder
    <3>3. UNCHANGED list
      BY DEF LoopNext, LoopPauses, LoopAtEnd, LoopPlays, LoopWaits, LoopCrawls, LoopResumesItem,
         LoopStarts, LoopResumesPlay, LoopUnparks, ReserveTimeout, PlayEnds, listVars
    <3> QED
      BY <3>2, <3>3 DEF OrderInv, Listed
  <2>2. Straight(k)
    BY <2>1 DEF StraightInv, AllStraight
  <2>3. CASE item'[k] = item[k]
    BY <1>1, <1>2, <2>2, <2>3, StraightStays DEF Straight
  <2>4. CASE /\ item'[k].st = "playing" /\ item'[k].needs = item[k].needs
             /\ item'[k].skip = item[k].skip /\ Starts(k)
    BY <1>1, <1>2, <1>3, <2>2, <2>4, StraightStays DEF Straight
  <2>5. CASE /\ item'[k].st = item[k].st /\ item[k].needs /\ ~item'[k].needs
             /\ item'[k].skip = item[k].skip
    BY <1>1, <1>2, <2>2, <2>5, StraightStays DEF Straight
  <2>6. CASE item'[k].st = "skipped" /\ item'[k].needs = item[k].needs
    BY <1>1, <1>2, <2>2, <2>6, StraightStays
  <2>7. CASE /\ item'[k].st \in {"done", "reserved"} /\ item'[k].skip = item[k].skip
             /\ LoopResumesPlay /\ k = AtCursor /\ k = loop.seg
    <3>1. item[k].st = "playing"
      BY <2>7 DEF LoopResumesPlay, StraightInv, HeldReady
    <3> QED
      BY <1>1, <1>2, <2>2, <2>7, <3>1, StraightStays DEF Straight
  <2> QED
    BY <1>1, <2>3, <2>4, <2>5, <2>6, <2>7 DEF LoopItem
<1>5. HeldReady' /\ ParkedLeavesNothing'
  <2>0. "top" \in Places /\ "resume" \in Places /\ "park" \in Places
    BY DEF Places
  <2>1. CASE LoopPauses \/ ReserveTimeout \/ LoopResumesPlay \/ LoopUnparks
    <3>1. loop' = GoTo("top") \/ loop' = GoTo("resume")
      BY <2>1 DEF LoopPauses, ReserveTimeout, LoopResumesPlay, LoopUnparks
    <3>2. loop'.at \in {"top", "resume"}
      BY <2>0, <3>1, GoToIs
    <3> QED
      BY <3>2 DEF HeldReady, ParkedLeavesNothing
  <2>2. CASE LoopAtEnd
    <3>1. CASE Orphans # {}
      BY <2>2, <3>1 DEF LoopAtEnd, HeldReady, ParkedLeavesNothing
    <3>2. CASE Orphans = {}
      <4>1. /\ item' = [k \in Keys |-> IF Waiting(k) THEN Skip(k, "orphan") ELSE item[k]]
            /\ loop' = GoTo("park")
        BY <2>2, <3>2 DEF LoopAtEnd
      <4>2. loop'.at = "park"
        BY <2>0, <4>1, GoToIs
      <4>3. ASSUME NEW k \in Keys PROVE ~(item'[k].st \in {"reserved", "ready"})
        <5>1. CASE Waiting(k)
          <6>1. item'[k] = Skip(k, "orphan") /\ item[k].st # "absent"
                /\ item[k].st # "skipped"
            BY <4>1, <5>1 DEF Waiting
          <6>2. item[k].skip = "-"
            BY <6>1 DEF StraightInv, AllStraight, Straight
          <6> QED
            BY <6>1, <6>2, SkipKeeps DEF Typed
        <5>2. CASE ~Waiting(k)
          BY <4>1, <5>2 DEF Waiting
        <5> QED
          BY <5>1, <5>2
      <4> QED
        BY <4>2, <4>3 DEF HeldReady, ParkedLeavesNothing, Waiting
    <3> QED
      BY <3>1, <3>2
  <2>3. CASE LoopPlays
    <3>1. AtCursor \in Keys /\ Complete(AtCursor) \in BOOLEAN
          /\ StartPlay(AtCursor, Complete(AtCursor))
      BY <2>3, CursorIs DEF LoopPlays, Typed, Complete
    <3>2. loop'.at = "play" /\ loop'.seg = AtCursor /\ item'[AtCursor].st = "playing"
      BY <3>1, StartPlayIs, StartPlayItems
    <3> QED
      BY <3>2 DEF HeldReady, ParkedLeavesNothing
  <2>4. CASE LoopWaits
    <3>1. AtCursor \in Keys /\ loop' = [GoTo("item") EXCEPT !.seg = AtCursor] /\ "item" \in Places
      BY <2>4, CursorIs DEF LoopWaits, Typed, Places
    <3>2. loop'.at = "item"
      BY <3>1, HoldsIs
    <3> QED
      BY <3>2 DEF HeldReady, ParkedLeavesNothing
  <2>5. CASE LoopCrawls
    BY <2>5 DEF LoopCrawls, loopVars, HeldReady, ParkedLeavesNothing
  <2>6. CASE LoopResumesItem
    <3>1. loop.seg \in Keys
      BY <2>6 DEF LoopResumesItem, Typed, LoopType
    <3>2. \/ loop' = GoTo("top")
          \/ /\ item[loop.seg].st = "ready" /\ UNCHANGED item
             /\ loop' = [GoTo("resumePlay") EXCEPT !.seg = loop.seg]
          \/ StartPlay(loop.seg, FALSE)
      BY <2>6 DEF LoopResumesItem
    <3>3. CASE loop' = GoTo("top")
      <4>1. loop'.at = "top"
        BY <2>0, <3>3, GoToIs
      <4> QED
        BY <4>1 DEF HeldReady, ParkedLeavesNothing
    <3>4. CASE /\ item[loop.seg].st = "ready" /\ UNCHANGED item
               /\ loop' = [GoTo("resumePlay") EXCEPT !.seg = loop.seg]
      <4>1. loop'.at = "resumePlay" /\ loop'.seg = loop.seg
        <5>1. "resumePlay" \in Places
          BY DEF Places
        <5> QED
          BY <3>1, <3>4, <5>1, HoldsIs
      <4> QED
        BY <3>4, <4>1 DEF HeldReady, ParkedLeavesNothing
    <3>5. CASE StartPlay(loop.seg, FALSE)
      <4>1. loop'.at = "play" /\ loop'.seg = loop.seg /\ item'[loop.seg].st = "playing"
        BY <3>1, <3>5, StartPlayIs, StartPlayItems
      <4> QED
        BY <4>1 DEF HeldReady, ParkedLeavesNothing
    <3> QED
      BY <3>2, <3>3, <3>4, <3>5
  <2>7. CASE LoopStarts
    <3>1. loop.seg \in Keys /\ StartPlay(loop.seg, FALSE)
      BY <2>7 DEF LoopStarts, Typed, LoopType
    <3>2. loop'.at = "play" /\ loop'.seg = loop.seg /\ item'[loop.seg].st = "playing"
      BY <3>1, StartPlayIs, StartPlayItems
    <3> QED
      BY <3>2 DEF HeldReady, ParkedLeavesNothing
  <2>8. CASE PlayEnds
    <3>1. loop.at = "play" /\ loop'.at = "play" /\ loop'.seg = loop.seg /\ UNCHANGED item
      BY <2>8, WokenTyped DEF PlayEnds, listVars
    <3> QED
      BY <3>1 DEF StraightInv, HeldReady, ParkedLeavesNothing
  <2> QED
    BY <2>1, <2>2, <2>3, <2>4, <2>5, <2>6, <2>7, <2>8 DEF LoopNext
<1> QED
  BY <1>4, <1>5

LEMMA DriverStraight ==
  ASSUME Typed, OrderInv, StraightInv, DriverNext
  PROVE  AllStraight' /\ HeldReady' /\ ParkedLeavesNothing'
<1>1. CASE Pause
  BY <1>1 DEF Pause, listVars, jobVars, sinkVars, StraightInv, AllStraight, Straight, OneFetch,
     HeldReady, ParkedLeavesNothing, Current, Waiting
<1>2. CASE Resume
  <2>1. UNCHANGED <<item, status, ctrl, fetches, sink, aborted, steered>>
    BY <1>2 DEF Resume, listVars, jobVars, sinkVars
  <2>2. AllStraight'
    BY <2>1 DEF StraightInv, AllStraight, Straight, OneFetch, Current
  <2>3. \/ loop' = GoTo("top")
        \/ loop.at = "resumePlay" /\ loop' = [loop EXCEPT !.at = "start"]
        \/ loop' = loop
    BY <1>2 DEF Resume
  <2>4. CASE loop' = GoTo("top")
    <3>1. loop'.at = "top"
      <4>1. "top" \in Places
        BY DEF Places
      <4> QED
        BY <2>4, <4>1, GoToIs
    <3> QED
      BY <2>2, <3>1 DEF HeldReady, ParkedLeavesNothing
  <2>5. CASE loop.at = "resumePlay" /\ loop' = [loop EXCEPT !.at = "start"]
    <3>1. loop'.at = "start" /\ loop'.seg = loop.seg
      BY <2>5, LoopBecomes DEF Typed
    <3> QED
      BY <2>1, <2>2, <2>5, <3>1 DEF StraightInv, HeldReady, ParkedLeavesNothing
  <2>6. CASE loop' = loop
    BY <2>1, <2>2, <2>6 DEF StraightInv, HeldReady, ParkedLeavesNothing, Waiting
  <2> QED
    BY <2>3, <2>4, <2>5, <2>6
<1>3. ASSUME NEW n, NEW reset, Navigate(n, reset)
      PROVE  AllStraight' /\ HeldReady' /\ ParkedLeavesNothing'
  BY <1>3 DEF Navigate, AllStraight, HeldReady, ParkedLeavesNothing
<1>4. CASE StopPlaylist \/ StopAndClear
  <2>1. item' = [k \in Keys |-> Absent] /\ loop' = Off
    BY <1>4 DEF StopPlaylist, StopAndClear, EmptyList
  <2>2. Absent.st = "absent" /\ Off.at = "off"
    BY DEF Absent, Off
  <2> QED
    BY <2>1, <2>2 DEF AllStraight, HeldReady, ParkedLeavesNothing
<1> QED
  BY <1>1, <1>2, <1>3, <1>4 DEF DriverNext, Skips, Backs, JumpToBubble

LEMMA StraightInit == Init => StraightInv
<1>1. Off.at = "off" /\ Absent.st = "absent"
  BY DEF Off, Absent
<1> QED
  BY <1>1, FreshInit DEF Init, StraightInv, AllStraight, HeldReady, ParkedLeavesNothing

LEMMA StraightNext == Typed /\ OrderInv /\ StraightInv /\ [Next]_vars => StraightInv'
<1> SUFFICES ASSUME Typed, OrderInv, StraightInv, [Next]_vars PROVE StraightInv'
  OBVIOUS
<1>1. Fresh'
  BY FreshNext DEF StraightInv
<1>2. CASE UNCHANGED vars
  <2>1. UNCHANGED <<item, loop, status, ctrl, fetches, sink, aborted, steered>>
    BY <1>2 DEF vars, listVars, loopVars, jobVars, sinkVars
  <2> QED
    BY <1>1, <2>1 DEF StraightInv, AllStraight, Straight, OneFetch, HeldReady, ParkedLeavesNothing,
       Current, Waiting
<1>3. CASE Next
  BY <1>1, <1>3, EnqueueStraight, FetchStraight, StreamStraight, LoopStraight, DriverStraight
     DEF Next, StraightInv
<1> QED
  BY <1>2, <1>3

(* A loop that waits at the end of the list, and has not been woken, leaves no segment
   waiting, unless the driver jumped (the end of the list in #playLoop). *)
THEOREM ParkedCorrect == Spec => []ParkedLeavesNothing
<1>1. Typed /\ OrderInv /\ StraightInv => ParkedLeavesNothing
  BY DEF StraightInv
<1> QED
  BY <1>1, TypedInit, TypedNext, OrderInit, OrderNext, StraightInit, StraightNext, PTL DEF Spec
=============================================================================
