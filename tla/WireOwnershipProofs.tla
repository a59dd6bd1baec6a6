-------------------------- MODULE WireOwnershipProofs --------------------------
(***************************************************************************)
(* Proofs about WireOwnership, for any number of sockets, streams, clients *)
(* and hosts: type correctness, the four safety invariants and the two     *)
(* action properties its run checks.  The inductive invariant says how the *)
(* phases of a creation go with its host (HostInv), what a socket that     *)
(* disposes a host relies on, as long as nothing runs in the window of the *)
(* zero-delay timer (TakeInv), who owns the wire (OwnerInv), and how rows, *)
(* streams and epochs go together (ViewInv).                               *)
(***************************************************************************)
EXTENDS WireOwnership, TLAPS

(* A creation that waits for an eviction has room for its host; one that    *)
(* has a host has it open, unless it is undoing it; a registered host means *)
(* that no creation is under way.                                           *)
HostInv ==
  /\ phase = "evicting" => born < MaxHosts
  /\ entry <= born /\ making <= born
  /\ (making = 0) <=> (phase \in {"none", "evicting"})
  /\ entry # 0 => phase = "none"
  /\ making # 0 => hosts[making] = IF phase = "undoing" THEN "closing" ELSE "open"

TakeInv ==
  \A s \in Sockets : sock[s] \in {"taking", "left"} =>
    /\ takes[s] # 0 /\ takes[s] <= born /\ takes[s] # making
    /\ hosts[takes[s]] = "closing"
    /\ \A t \in Sockets : sock[t] \in {"taking", "left"} /\ takes[t] = takes[s] => t = s
    /\ ~raced => sock[s] = "taking" /\ entry = takes[s] /\ phase = "none" /\ Live

OwnerInv ==
  /\ active = evictEntry
  /\ OneOwner
  /\ NoOrphanHost

ViewInv ==
  /\ NoOrphanStream
  /\ RowsFollowStreams
  /\ ~Live => HttpRows = {}
  /\ Live => \A r \in Opened : seen[r] <= epoch

IInv == TypeOK /\ HostInv /\ TakeInv /\ OwnerInv /\ ViewInv

-----------------------------------------------------------------------------
(* Type correctness. *)

LEMMA InitTyped == Init => TypeOK
<1> SUFFICES ASSUME Init PROVE TypeOK
  OBVIOUS
<1> USE OwnershipAssumption DEF Init
<1>1. /\ conn \in {"live", "crashed", "deleted"} /\ epoch \in Nat
      /\ rows \in [Clients -> Streams \union {None}] /\ wsRows \subseteq Sockets
      /\ active \in Sockets \union {None} /\ evictEntry \in Sockets \union {None}
  OBVIOUS
<1>2. /\ sock \in [Sockets -> SocketStates] /\ takes \in [Sockets -> 0 .. MaxHosts]
      /\ entry \in 0 .. MaxHosts /\ phase \in Phases /\ waitsOn \in Sockets \union {None}
  BY DEF SocketStates, Phases
<1>3. /\ making \in 0 .. MaxHosts /\ born \in 0 .. MaxHosts
      /\ hosts \in [1 .. MaxHosts -> HostStates]
  BY DEF HostStates
<1>4. /\ stream \in [Streams -> {"new", "waiting", "open", "ended", "refused"}]
      /\ viewer \in [Streams -> Clients \union {None}]
      /\ seen \in [Streams -> Nat] /\ ended \in [Streams -> Ends]
  BY DEF Ends
<1>5. remembered \in BOOLEAN /\ raced \in BOOLEAN
  BY Zenon
<1> QED
  BY <1>1, <1>2, <1>3, <1>4, <1>5 DEF TypeOK

(* The handlers that close sockets and end streams keep the types. *)
LEMMA ClosingTyped ==
  ASSUME TypeOK, NEW s \in Sockets \union {None}, NEW f \in [Sockets -> SocketStates]
  PROVE  Closing(f, s) \in [Sockets -> SocketStates]
  BY DEF Closing, SocketStates

LEMMA EndStreamsTyped ==
  ASSUME TypeOK, NEW e \in Nat, EndStreams(e)
  PROVE  /\ stream' \in [Streams -> {"new", "waiting", "open", "ended", "refused"}]
         /\ ended' \in [Streams -> Ends] /\ viewer' = viewer /\ seen' = seen
  BY DEF TypeOK, EndStreams, Ends

LEMMA AttachTyped ==
  ASSUME TypeOK, NEW s \in Sockets, NEW u \in BOOLEAN, Attach(s, u)
  PROVE  /\ conn' = conn /\ epoch' \in Nat
         /\ rows' \in [Clients -> Streams \union {None}] /\ wsRows' \subseteq Sockets
         /\ active' = s /\ evictEntry' = s /\ entry' \in 0 .. MaxHosts
         /\ stream' \in [Streams -> {"new", "waiting", "open", "ended", "refused"}]
         /\ viewer' = viewer /\ seen' = seen /\ ended' \in [Streams -> Ends]
<1>1. (IF Live THEN epoch + 1 ELSE 0) \in Nat /\ epoch' \in Nat
  BY DEF TypeOK, Attach
<1>2. /\ stream' \in [Streams -> {"new", "waiting", "open", "ended", "refused"}]
      /\ viewer' = viewer /\ seen' = seen /\ ended' \in [Streams -> Ends]
  BY <1>1, EndStreamsTyped DEF Attach, viewVars, TypeOK
<1> QED
  BY <1>1, <1>2, OwnershipAssumption DEF TypeOK, Attach

LEMMA RefuseTyped ==
  ASSUME TypeOK, Refuse
  PROVE  /\ phase' \in Phases /\ waitsOn' = None /\ making' \in 0 .. MaxHosts
         /\ stream' \in [Streams -> {"new", "waiting", "open", "ended", "refused"}]
         /\ viewer' = viewer /\ seen' = seen /\ ended' = ended
  BY OwnershipAssumption DEF TypeOK, Refuse, Phases

LEMMA StartHostTyped ==
  ASSUME TypeOK, born < MaxHosts, StartHost
  PROVE  /\ born' \in 0 .. MaxHosts /\ making' \in 0 .. MaxHosts
         /\ hosts' \in [1 .. MaxHosts -> HostStates] /\ phase' \in Phases /\ waitsOn' = None
  BY OwnershipAssumption DEF TypeOK, StartHost, Phases, HostStates

LEMMA SubscribeTyped ==
  ASSUME TypeOK, NEW R \in SUBSET Streams, NEW last \in [Clients -> Streams \union {None}],
         Subscribe(R, last)
  PROVE  /\ conn' = conn /\ wsRows' = wsRows /\ ended' = ended
         /\ epoch' \in Nat /\ rows' \in [Clients -> Streams \union {None}]
         /\ stream' \in [Streams -> {"new", "waiting", "open", "ended", "refused"}]
         /\ seen' \in [Streams -> Nat]
<1> DEFINE bump == Live /\ HttpRows = {}
           e == IF Live THEN epoch + (IF bump THEN 1 ELSE 0) ELSE 0
<1>1. e \in Nat
  BY DEF TypeOK
<1> HIDE DEF e
<1>2. /\ epoch' = IF Live THEN e ELSE epoch
      /\ rows' = IF Live THEN [c \in Clients |-> IF last[c] # None THEN last[c] ELSE rows[c]]
                 ELSE rows
      /\ stream' = [r \in Streams |-> IF r \in R THEN "open" ELSE stream[r]]
      /\ seen' = [r \in Streams |-> IF r \in R THEN e ELSE seen[r]]
      /\ UNCHANGED <<conn, wsRows, ended>>
  BY DEF Subscribe, e
<1> QED
  BY <1>1, <1>2 DEF TypeOK

LEMMA SocketTyped == TypeOK /\ HostInv /\ SocketNext /\ raced' \in BOOLEAN => TypeOK'
<1> SUFFICES ASSUME TypeOK, HostInv, SocketNext, raced' \in BOOLEAN PROVE TypeOK'
  OBVIOUS
<1> PICK s \in Sockets : ConnectAttaches(s) \/ ConnectTakes(s) \/ ConnectRefused(s)
                         \/ SocketReleased(s) \/ SocketLeavesEarly(s) \/ Detach(s)
  BY DEF SocketNext
<1> USE DEF connVars, sockVars, hostVars, viewVars
<1>1. Closing(sock, active) \in [Sockets -> SocketStates] /\ Closing(sock, s) \in [Sockets -> SocketStates]
  BY ClosingTyped DEF TypeOK
<1>2. CASE ConnectAttaches(s)
  <2>1. PICK u \in BOOLEAN : Attach(s, u)
    BY <1>2 DEF ConnectAttaches
  <2>2. sock' \in [Sockets -> SocketStates]
    BY <1>1, <1>2 DEF ConnectAttaches, SocketStates
  <2> QED
    BY <1>2, <2>1, <2>2, AttachTyped DEF ConnectAttaches, TypeOK
<1>3. CASE ConnectTakes(s)
  <2>1. sock' \in [Sockets -> SocketStates]
    BY <1>1, <1>3 DEF ConnectTakes, SocketStates
  <2>2. takes' \in [Sockets -> 0 .. MaxHosts] /\ hosts' \in [1 .. MaxHosts -> HostStates]
    BY <1>3 DEF ConnectTakes, TypeOK, HostStates
  <2> QED
    BY <1>3, <2>1, <2>2 DEF ConnectTakes, TypeOK
<1>4. CASE ConnectRefused(s)
  <2>1. sock' \in [Sockets -> SocketStates]
    BY <1>1, <1>4 DEF ConnectRefused, SocketStates
  <2> QED
    BY <1>4, <2>1 DEF ConnectRefused, TypeOK
<1>5. CASE SocketReleased(s)
  BY <1>1, <1>5 DEF SocketReleased, TypeOK
<1>6. CASE SocketLeavesEarly(s)
  BY <1>6 DEF SocketLeavesEarly, TypeOK, SocketStates
<1>7. CASE Detach(s)
  <2>1. sock' \in [Sockets -> SocketStates]
    BY <1>7 DEF Detach, TypeOK, SocketStates
  <2>2. /\ phase' \in Phases /\ waitsOn' \in Sockets \union {None}
        /\ making' \in 0 .. MaxHosts /\ born' \in 0 .. MaxHosts
        /\ hosts' \in [1 .. MaxHosts -> HostStates]
        /\ stream' \in [Streams -> {"new", "waiting", "open", "ended", "refused"}]
        /\ viewer' = viewer /\ seen' = seen /\ ended' \in [Streams -> Ends]
    <3>1. CASE phase = "evicting" /\ StartHost /\ UNCHANGED viewVars
      BY <3>1, StartHostTyped DEF HostInv, TypeOK
    <3>2. CASE Refuse /\ UNCHANGED <<born, hosts>>
      BY <3>2, RefuseTyped DEF TypeOK
    <3>3. CASE UNCHANGED <<phase, waitsOn, making, born, hosts, viewVars>>
      BY <3>3 DEF TypeOK
    <3> QED
      BY <1>7, <3>1, <3>2, <3>3 DEF Detach
  <2>3. active' \in Sockets \union {None} /\ evictEntry' \in Sockets \union {None}
        /\ wsRows' \subseteq Sockets
    BY <1>7 DEF Detach, TypeOK
  <2> QED
    BY <1>7, <2>1, <2>2, <2>3 DEF Detach, TypeOK
<1> QED
  BY <1>2, <1>3, <1>4, <1>5, <1>6, <1>7

LEMMA EventsTyped == TypeOK /\ EventsNext /\ raced' \in BOOLEAN => TypeOK'
<1> SUFFICES ASSUME TypeOK, raced' \in BOOLEAN,
                    NEW r \in Streams, NEW c \in Clients, NEW e,
                    EventsServed(r, c, e) \/ EventsOnDeadHost(r, c, e) \/ EventsJoin(r, c, e)
                    \/ EventsCreate(r, c, e) \/ EventsRefused(r, c, e)
             PROVE  TypeOK'
  BY DEF EventsNext
<1> USE DEF Ask, connVars, sockVars, hostVars, viewVars
<1>1. viewer' \in [Streams -> Clients \union {None}]
  BY DEF EventsServed, EventsOnDeadHost, EventsJoin, EventsCreate, EventsRefused, TypeOK
<1>2. CASE EventsServed(r, c, e)
  <2> DEFINE last == [d \in Clients |-> IF d = c THEN r ELSE None]
  <2>1. last \in [Clients -> Streams \union {None}] /\ {r} \in SUBSET Streams
    OBVIOUS
  <2>2. Subscribe({r}, last)
    BY <1>2 DEF EventsServed
  <2> HIDE DEF last
  <2> QED
    BY <1>1, <1>2, <2>1, <2>2, SubscribeTyped DEF EventsServed, TypeOK
<1>3. CASE EventsOnDeadHost(r, c, e)
  <2>1. ended' \in [Streams -> Ends]
    BY <1>3 DEF EventsOnDeadHost, TypeOK, Ends
  <2> QED
    BY <1>1, <1>3, <2>1, OwnershipAssumption DEF EventsOnDeadHost, TypeOK
<1>4. CASE EventsJoin(r, c, e)
  BY <1>1, <1>4 DEF EventsJoin, TypeOK
<1>5. CASE EventsCreate(r, c, e)
  <2>1. CASE StartHost /\ UNCHANGED sock
    BY <1>1, <1>5, <2>1, StartHostTyped DEF EventsCreate, TypeOK
  <2>2. CASE /\ phase' = "evicting" /\ waitsOn' = evictEntry
             /\ sock' = Closing(sock, evictEntry) /\ UNCHANGED <<making, born, hosts>>
    <3>1. sock' \in [Sockets -> SocketStates]
      BY <2>2, ClosingTyped DEF TypeOK
    <3> QED
      BY <1>1, <1>5, <2>2, <3>1 DEF EventsCreate, TypeOK, Phases
  <2> QED
    BY <1>5, <2>1, <2>2 DEF EventsCreate
<1>6. CASE EventsRefused(r, c, e)
  BY <1>1, <1>6 DEF EventsRefused, TypeOK
<1> QED
  BY <1>2, <1>3, <1>4, <1>5, <1>6

LEMMA CreateTyped == TypeOK /\ (CreateNext \/ FinishRollback) /\ raced' \in BOOLEAN => TypeOK'
<1> SUFFICES ASSUME TypeOK, CreateNext \/ FinishRollback, raced' \in BOOLEAN PROVE TypeOK'
  OBVIOUS
<1> USE DEF connVars, sockVars, hostVars, viewVars
<1>1. CASE EvictTimeout
  BY <1>1, RefuseTyped DEF EvictTimeout, TypeOK
<1>2. CASE InitializeAnswered
  BY <1>2 DEF InitializeAnswered, TypeOK, Phases
<1>3. CASE InitializeFails
  BY <1>3, RefuseTyped DEF InitializeFails, TypeOK, HostStates
<1>4. CASE SessionOpened
  BY <1>4 DEF SessionOpened, TypeOK, Phases
<1>5. CASE SessionFails
  BY <1>5 DEF SessionFails, TypeOK, Phases, HostStates
<1>6. CASE FinishRollback
  BY <1>6, RefuseTyped DEF FinishRollback, TypeOK, HostStates
<1>7. CASE Recorded
  <2>1. PICK last \in [Clients -> Waiting \union {None}] : Subscribe(Waiting, last)
    BY <1>7 DEF Recorded
  <2>2. last \in [Clients -> Streams \union {None}] /\ Waiting \in SUBSET Streams
    BY DEF Waiting
  <2>3. /\ conn' = conn /\ wsRows' = wsRows /\ ended' = ended
        /\ epoch' \in Nat /\ rows' \in [Clients -> Streams \union {None}]
        /\ stream' \in [Streams -> {"new", "waiting", "open", "ended", "refused"}]
        /\ seen' \in [Streams -> Nat]
    BY <2>1, <2>2, SubscribeTyped
  <2>4. /\ entry' \in 0 .. MaxHosts /\ phase' \in Phases /\ making' \in 0 .. MaxHosts
    BY <1>7, OwnershipAssumption DEF Recorded, TypeOK, Phases
  <2> QED
    BY <1>7, <2>3, <2>4 DEF Recorded, TypeOK
<1> QED
  BY <1>1, <1>2, <1>3, <1>4, <1>5, <1>6, <1>7 DEF CreateNext

LEMMA UnregisterTyped ==
  ASSUME TypeOK, NEW newEpoch \in Nat, Unregister(newEpoch),
         conn' \in {"live", "crashed", "deleted"},
         sock' \in [Sockets -> SocketStates], raced' \in BOOLEAN
  PROVE  TypeOK'
  BY EndStreamsTyped, OwnershipAssumption DEF Unregister, TypeOK

LEMMA TypeStep == TypeOK /\ HostInv /\ [Next]_vars => TypeOK'
<1> SUFFICES ASSUME TypeOK, HostInv, [Next]_vars PROVE TypeOK'
  OBVIOUS
<1> USE DEF connVars, sockVars, hostVars, viewVars
<1>1. raced' \in BOOLEAN
  <2>1. CASE raced' = (raced \/ Disposing)
    BY <2>1, Zenon DEF Disposing
  <2>2. CASE UNCHANGED raced
    BY <2>2, Zenon DEF TypeOK
  <2> QED
    BY <2>1, <2>2, Zenon DEF Next, vars
<1>2. CASE SocketNext \/ EventsNext \/ CreateNext \/ FinishRollback
  BY <1>1, <1>2, SocketTyped, EventsTyped, CreateTyped
<1>3. ASSUME NEW r \in Streams, ViewerLeaves(r) PROVE TypeOK'
  BY <1>1, <1>3 DEF ViewerLeaves, DropRow, TypeOK, Ends
<1>4. ASSUME NEW c \in Clients, Expire(c) \/ ReleaseRow(c) PROVE TypeOK'
  BY <1>1, <1>4 DEF Expire, ReleaseRow, DropRow, TypeOK, Ends
<1>5. CASE Crash
  BY <1>1, <1>5, UnregisterTyped DEF Crash, TypeOK, SocketStates
<1>6. CASE Delete
  <2>1. Epoch \in Nat
    BY DEF Epoch, TypeOK
  <2> QED
    BY <1>1, <1>6, <2>1, UnregisterTyped DEF Delete, TypeOK
<1>7. ASSUME NEW s \in Sockets, FinishTakeover(s) PROVE TypeOK'
  <2>1. sock' \in [Sockets -> SocketStates]
    BY <1>7 DEF FinishTakeover, TypeOK, SocketStates
  <2>2. hosts' \in [1 .. MaxHosts -> HostStates]
    BY <1>7 DEF FinishTakeover, TypeOK, HostStates
  <2>4. takes' \in [Sockets -> 0 .. MaxHosts]
    <3>1. 0 \in 0 .. MaxHosts
      BY OwnershipAssumption
    <3> QED
      BY <1>7, <3>1 DEF FinishTakeover, TypeOK
  <2>3. Attach(s, TRUE)
    BY <1>7 DEF FinishTakeover
  <2> QED
    BY <1>1, <1>7, <2>1, <2>2, <2>3, <2>4, AttachTyped DEF FinishTakeover, TypeOK
<1>8. CASE UNCHANGED vars
  BY <1>8 DEF TypeOK, vars, state
<1> QED
  BY <1>2, <1>3, <1>4, <1>5, <1>6, <1>7, <1>8 DEF Next, ViewerNext, TimerNext

-----------------------------------------------------------------------------
(* The phases of a creation and its host. *)

LEMMA StartHostStep ==
  ASSUME TypeOK, HostInv, StartHost, born < MaxHosts, making = 0, entry = 0, entry' = entry
  PROVE  HostInv'
<1>1. /\ born' = born + 1 /\ making' = born + 1 /\ phase' \in {"session", "initialize"}
      /\ born \in Nat
  BY DEF StartHost, TypeOK
<1>2. hosts'[born + 1] = "open"
  <2>1. born + 1 \in 1 .. MaxHosts
    BY <1>1, OwnershipAssumption
  <2> QED
    BY <2>1 DEF StartHost, TypeOK
<1> QED
  BY <1>1, <1>2 DEF HostInv

LEMMA HostStep == TypeOK /\ HostInv /\ TakeInv /\ [Next]_vars => HostInv'
<1> SUFFICES ASSUME TypeOK, HostInv, TakeInv, [Next]_vars PROVE HostInv'
  OBVIOUS
<1> USE DEF connVars, sockVars, hostVars, viewVars
<1>1. CASE UNCHANGED <<phase, making, born, hosts>> /\ entry' \in {entry, 0}
  BY <1>1 DEF HostInv, TypeOK
<1>2. CASE Refuse /\ UNCHANGED <<entry, born>>
  BY <1>2 DEF HostInv, TypeOK, Refuse
<1>3. ASSUME NEW s \in Sockets, ConnectAttaches(s) PROVE HostInv'
  BY <1>1, <1>3 DEF ConnectAttaches, Attach
<1>4. ASSUME NEW s \in Sockets, ConnectTakes(s) PROVE HostInv'
  BY <1>4 DEF ConnectTakes, HostInv, TypeOK
<1>5. ASSUME NEW s \in Sockets, ConnectRefused(s) \/ SocketReleased(s) \/ SocketLeavesEarly(s)
      PROVE  HostInv'
  BY <1>1, <1>5 DEF ConnectRefused, SocketReleased, SocketLeavesEarly
<1>6. ASSUME NEW s \in Sockets, Detach(s) PROVE HostInv'
  <2>1. CASE phase = "evicting" /\ StartHost
    BY <1>6, <2>1, StartHostStep DEF Detach, HostInv
  <2>2. CASE Refuse /\ UNCHANGED <<born, hosts>>
    BY <1>2, <1>6, <2>2 DEF Detach
  <2>3. CASE UNCHANGED <<phase, waitsOn, making, born, hosts, viewVars>>
    BY <1>1, <1>6, <2>3 DEF Detach
  <2> QED
    BY <1>6, <2>1, <2>2, <2>3 DEF Detach
<1>7. ASSUME NEW r \in Streams, NEW c \in Clients, NEW e, EventsCreate(r, c, e) PROVE HostInv'
  <2>1. /\ entry = 0 /\ entry' = 0 /\ phase = "none" /\ making = 0 /\ born < MaxHosts
    BY <1>7 DEF EventsCreate, Held, HostInv
  <2>2. CASE StartHost
    BY <2>1, <2>2, StartHostStep
  <2>3. CASE phase' = "evicting" /\ UNCHANGED <<making, born, hosts>>
    BY <2>1, <2>3 DEF HostInv
  <2> QED
    BY <1>7, <2>2, <2>3 DEF EventsCreate
<1>8. ASSUME NEW r \in Streams, NEW c \in Clients, NEW e,
             EventsServed(r, c, e) \/ EventsOnDeadHost(r, c, e) \/ EventsJoin(r, c, e)
             \/ EventsRefused(r, c, e)
      PROVE  HostInv'
  BY <1>1, <1>8 DEF EventsServed, EventsOnDeadHost, EventsJoin, EventsRefused
<1>9. CASE EvictTimeout \/ InitializeFails \/ FinishRollback
  BY <1>2, <1>9 DEF EvictTimeout, InitializeFails, FinishRollback
<1>10. CASE InitializeAnswered
  BY <1>10 DEF InitializeAnswered, HostInv
<1>11. CASE SessionOpened
  BY <1>11 DEF SessionOpened, HostInv
<1>12. CASE SessionFails
  BY <1>12 DEF SessionFails, HostInv, TypeOK
<1>13. CASE Recorded
  BY <1>13 DEF Recorded, HostInv, TypeOK
<1>14. CASE ViewerNext
  BY <1>1, <1>14 DEF ViewerNext, ViewerLeaves, Expire, ReleaseRow
<1>15. CASE Crash \/ Delete
  BY <1>1, <1>15 DEF Crash, Delete, Unregister
<1>16. ASSUME NEW s \in Sockets, FinishTakeover(s) PROVE HostInv'
  <2>1. takes[s] # making
    BY <1>16 DEF FinishTakeover, TakeInv
  <2>2. entry' = 0 /\ UNCHANGED <<phase, making, born>>
    BY <1>16 DEF FinishTakeover, Attach
  <2>3. hosts'[making] = hosts[making]
    BY <1>16, <2>1 DEF FinishTakeover, TypeOK
  <2> QED
    BY <2>2, <2>3 DEF HostInv, TypeOK
<1>17. CASE UNCHANGED vars
  BY <1>1, <1>17 DEF vars, state
<1> QED
  BY <1>3, <1>4, <1>5, <1>6, <1>7, <1>8, <1>9, <1>10, <1>11, <1>12, <1>13, <1>14, <1>15, <1>16,
     <1>17 DEF Next, SocketNext, EventsNext, CreateNext, TimerNext

-----------------------------------------------------------------------------
(* A socket that disposes a host. *)

Takes(s) == sock[s] \in {"taking", "left"}

(* While a socket waits for the timer, any other step is a race.            *)
LEMMA TakeRaces ==
  ASSUME TypeOK, TakeInv, NEW s \in Sockets, Takes(s), raced' = (raced \/ Disposing)
  PROVE  raced'
<1>1. takes[s] \in 1 .. MaxHosts /\ hosts[takes[s]] = "closing"
  BY DEF TypeOK, TakeInv, Takes
<1> QED
  BY <1>1 DEF Disposing

LEMMA ClosingTakes ==
  ASSUME NEW f \in [Sockets -> SocketStates], NEW s, NEW t \in Sockets
  PROVE  Closing(f, s)[t] \in {"taking", "left"} <=> f[t] \in {"taking", "left"}
  BY DEF Closing, SocketStates

(* A step that puts no socket in the window, and takes the host away from    *)
(* none that is there.                                                       *)
LEMMA TakeKept ==
  ASSUME TypeOK, TypeOK', TakeInv, \A s \in Sockets : Takes(s) => raced',
         UNCHANGED takes, born <= born',
         \A s \in Sockets : Takes(s)' => Takes(s),
         \A s \in Sockets : Takes(s) => hosts'[takes[s]] = hosts[takes[s]],
         making' \in {0, making, born + 1}
  PROVE  TakeInv'
<1> SUFFICES ASSUME NEW s \in Sockets, Takes(s)'
             PROVE  /\ takes'[s] # 0 /\ takes'[s] <= born' /\ takes'[s] # making'
                    /\ hosts'[takes'[s]] = "closing" /\ raced'
                    /\ \A t \in Sockets : Takes(t)' /\ takes'[t] = takes'[s] => t = s
  BY DEF TakeInv, Takes
<1>1. /\ Takes(s) /\ takes[s] # 0 /\ takes[s] <= born /\ takes[s] # making
      /\ hosts[takes[s]] = "closing"
      /\ \A t \in Sockets : Takes(t) /\ takes[t] = takes[s] => t = s
  BY DEF TakeInv, Takes
<1>2. takes[s] # making' /\ takes[s] <= born'
  BY <1>1 DEF TypeOK
<1> QED
  BY <1>1, <1>2

LEMMA TakeStep == TypeOK /\ TypeOK' /\ HostInv /\ TakeInv /\ [Next]_vars => TakeInv'
<1> SUFFICES ASSUME TypeOK, TypeOK', HostInv, TakeInv, [Next]_vars PROVE TakeInv'
  OBVIOUS
<1> USE DEF connVars, sockVars, hostVars, viewVars
<1>1. sock \in [Sockets -> SocketStates] /\ born \in Nat /\ making \in Nat
  BY DEF TypeOK
<1>2. CASE UNCHANGED vars
  BY <1>2 DEF TakeInv, vars, state, Live
<1>3. CASE /\ SocketNext \/ EventsNext \/ CreateNext \/ ViewerNext \/ Crash \/ Delete
           /\ raced' = (raced \/ Disposing)
  <2>1. \A s \in Sockets : Takes(s) => raced'
    BY <1>3, TakeRaces
  <2>2. CASE UNCHANGED <<takes, born, hosts, making>> /\ \A s \in Sockets : Takes(s)' => Takes(s)
    BY <2>1, <2>2, <1>1, TakeKept
  <2>3. CASE UNCHANGED <<sock, takes, born>> /\ making' \in {0, making} /\ hosts' = hosts
    BY <2>1, <2>3, <1>1, TakeKept DEF Takes
  <2>4. CASE /\ UNCHANGED <<sock, takes, born>> /\ making' \in {0, making}
             /\ \E x : hosts' = [hosts EXCEPT ![making] = x]
    <3>1. \A s \in Sockets : Takes(s) => hosts'[takes[s]] = hosts[takes[s]]
      BY <2>4 DEF TakeInv, Takes, TypeOK
    <3> QED
      BY <2>1, <2>4, <3>1, <1>1, TakeKept DEF Takes
  <2>5. CASE /\ UNCHANGED takes /\ StartHost
             /\ \A s \in Sockets : Takes(s)' => Takes(s)
    <3>1. \A s \in Sockets : Takes(s) => hosts'[takes[s]] = hosts[takes[s]]
      BY <2>5 DEF StartHost, TakeInv, Takes, TypeOK
    <3> QED
      BY <2>1, <2>5, <3>1, <1>1, TakeKept DEF StartHost
  <2>6. ASSUME NEW s \in Sockets, ConnectAttaches(s) \/ ConnectRefused(s) PROVE TakeInv'
    <3>1. \A t \in Sockets : Takes(t)' => Takes(t)
      BY <1>1, <2>6, ClosingTakes DEF ConnectAttaches, ConnectRefused, Takes, Closing
    <3> QED
      BY <2>2, <2>6, <3>1 DEF ConnectAttaches, ConnectRefused
  <2>7. ASSUME NEW s \in Sockets, SocketReleased(s) \/ SocketLeavesEarly(s) PROVE TakeInv'
    <3>1. \A t \in Sockets : Takes(t)' => Takes(t)
      BY <1>1, <2>7, ClosingTakes DEF SocketReleased, SocketLeavesEarly, Takes
    <3> QED
      BY <2>2, <2>7, <3>1 DEF SocketReleased, SocketLeavesEarly
  <2>8. ASSUME NEW s \in Sockets, Detach(s) PROVE TakeInv'
    <3>1. \A t \in Sockets : Takes(t)' => Takes(t)
      BY <1>1, <2>8 DEF Detach, Takes
    <3>2. CASE StartHost
      BY <2>5, <2>8, <3>1, <3>2 DEF Detach
    <3>3. CASE Refuse /\ UNCHANGED <<born, hosts>>
      BY <1>1, <2>1, <2>8, <3>1, <3>3, TakeKept DEF Detach, Refuse
    <3>4. CASE UNCHANGED <<phase, waitsOn, making, born, hosts, viewVars>>
      BY <2>2, <2>8, <3>1, <3>4 DEF Detach
    <3> QED
      BY <2>8, <3>2, <3>3, <3>4 DEF Detach
  <2>9. ASSUME NEW s \in Sockets, ConnectTakes(s) PROVE TakeInv'
    <3>1. \A t \in Sockets : t # s /\ Takes(t)' => Takes(t)
      BY <1>1, <2>9, ClosingTakes DEF ConnectTakes, Takes, Closing
    <3>2. /\ ~Takes(s) /\ sock'[s] = "taking" /\ takes'[s] = entry /\ hosts'[entry] = "closing"
          /\ entry # 0 /\ hosts[entry] = "open" /\ UNCHANGED <<entry, phase, conn, making, born>>
          /\ phase = "none" /\ Live
      <4>1. Closing(sock, active) \in [Sockets -> SocketStates]
        BY ClosingTyped DEF TypeOK
      <4> QED
        BY <2>9, <4>1 DEF ConnectTakes, Takes, TypeOK, HostInv
    <3>3. \A t \in Sockets : Takes(t) =>
            takes'[t] = takes[t] /\ takes[t] # entry /\ hosts'[takes[t]] = "closing"
      BY <2>9, <3>2 DEF ConnectTakes, TakeInv, Takes, TypeOK
    <3>4. entry <= born /\ making = 0
      BY <3>2 DEF HostInv
    <3> QED
      <4> SUFFICES ASSUME NEW t \in Sockets, Takes(t)'
                   PROVE  /\ takes'[t] # 0 /\ takes'[t] <= born' /\ takes'[t] # making'
                          /\ hosts'[takes'[t]] = "closing"
                          /\ \A q \in Sockets : Takes(q)' /\ takes'[q] = takes'[t] => q = t
                          /\ ~raced' => sock'[t] = "taking" /\ entry' = takes'[t] /\ phase' = "none"
                                        /\ Live'
        BY DEF TakeInv, Takes
      <4>1. \A q \in Sockets : Takes(q) =>
               takes[q] # 0 /\ takes[q] <= born /\ takes[q] # making
               /\ \A o \in Sockets : Takes(o) /\ takes[o] = takes[q] => o = q
        BY DEF TakeInv, Takes
      <4>2. \A q \in Sockets : Takes(q)' /\ takes'[q] = takes'[t] => q = t
        BY <3>1, <3>2, <3>3, <4>1
      <4> QED
        BY <2>1, <3>1, <3>2, <3>3, <3>4, <4>1, <4>2 DEF Live
  <2>10. ASSUME NEW r \in Streams, NEW c \in Clients, NEW e, EventsCreate(r, c, e) PROVE TakeInv'
    <3>1. \A t \in Sockets : Takes(t)' => Takes(t)
      BY <1>1, <2>10, ClosingTakes DEF EventsCreate, Takes
    <3>2. CASE StartHost
      BY <2>5, <2>10, <3>1, <3>2 DEF EventsCreate
    <3>3. CASE UNCHANGED <<making, born, hosts>>
      BY <2>2, <2>10, <3>1, <3>3 DEF EventsCreate
    <3> QED
      BY <2>10, <3>2, <3>3 DEF EventsCreate
  <2>11. ASSUME NEW r \in Streams, NEW c \in Clients, NEW e,
                EventsServed(r, c, e) \/ EventsOnDeadHost(r, c, e) \/ EventsJoin(r, c, e)
                \/ EventsRefused(r, c, e)
         PROVE  TakeInv'
    BY <2>3, <2>11 DEF EventsServed, EventsOnDeadHost, EventsJoin, EventsRefused
  <2>12. CASE CreateNext
    BY <2>3, <2>4, <2>12 DEF CreateNext, EvictTimeout, InitializeAnswered, InitializeFails,
       SessionOpened, SessionFails, Recorded, Refuse
  <2>13. CASE ViewerNext \/ Delete
    BY <2>3, <2>13 DEF ViewerNext, ViewerLeaves, Expire, ReleaseRow, Delete, Unregister
  <2>14. CASE Crash
    <3>1. \A t \in Sockets : Takes(t)' => Takes(t)
      BY <1>1, <2>14 DEF Crash, Takes
    <3> QED
      BY <2>2, <2>14, <3>1 DEF Crash, Unregister
  <2> QED
    BY <1>3, <2>6, <2>7, <2>8, <2>9, <2>10, <2>11, <2>12, <2>13, <2>14
       DEF SocketNext, EventsNext
<1>4. CASE FinishRollback /\ UNCHANGED raced
  <2>1. \A s \in Sockets : Takes(s) => raced'
    BY <1>4 DEF FinishRollback, TakeInv, Takes
  <2>2. \A s \in Sockets : Takes(s) => hosts'[takes[s]] = hosts[takes[s]]
    BY <1>4 DEF FinishRollback, TakeInv, Takes, TypeOK
  <2> QED
    BY <1>1, <1>4, <2>1, <2>2, TakeKept DEF FinishRollback, Refuse, Takes
<1>5. ASSUME NEW s \in Sockets, FinishTakeover(s), UNCHANGED raced PROVE TakeInv'
  <2>1. /\ Takes(s) /\ ~Takes(s)' /\ UNCHANGED <<phase, making, born, conn>>
        /\ hosts' = [hosts EXCEPT ![takes[s]] = "closed"]
        /\ \A t \in Sockets : t # s => sock'[t] = sock[t] /\ takes'[t] = takes[t]
    BY <1>1, <1>5 DEF FinishTakeover, Attach, Takes, TypeOK
  <2>2. \A t \in Sockets : t # s /\ Takes(t) =>
          /\ takes[t] # 0 /\ takes[t] <= born /\ takes[t] # making /\ takes[t] # takes[s]
          /\ hosts[takes[t]] = "closing" /\ raced
          /\ \A q \in Sockets : Takes(q) /\ takes[q] = takes[t] => q = t
    <3> SUFFICES ASSUME NEW t \in Sockets, t # s, Takes(t)
                 PROVE  /\ takes[t] # 0 /\ takes[t] <= born /\ takes[t] # making
                        /\ takes[t] # takes[s] /\ hosts[takes[t]] = "closing" /\ raced
                        /\ \A q \in Sockets : Takes(q) /\ takes[q] = takes[t] => q = t
      OBVIOUS
    <3>1. /\ takes[t] # 0 /\ takes[t] <= born /\ takes[t] # making /\ hosts[takes[t]] = "closing"
          /\ \A q \in Sockets : Takes(q) /\ takes[q] = takes[t] => q = t
          /\ ~raced => entry = takes[t]
      BY DEF TakeInv, Takes
    <3>2. ~raced => entry = takes[s]
      BY <2>1 DEF TakeInv, Takes
    <3> QED
      BY <2>1, <3>1, <3>2
  <2>3. \A t \in Sockets : t # s /\ Takes(t) => hosts'[takes[t]] = "closing"
    <3>1. \A t \in Sockets : takes[t] # 0 => takes[t] \in 1 .. MaxHosts
      BY DEF TypeOK
    <3> QED
      BY <2>1, <2>2, <3>1 DEF TypeOK
  <2>4. \A t \in Sockets : Takes(t)' => t # s /\ Takes(t) /\ takes'[t] = takes[t]
    BY <2>1 DEF Takes
  <2> HIDE DEF Takes
  <2> SUFFICES ASSUME NEW t \in Sockets, Takes(t)'
               PROVE  /\ takes'[t] # 0 /\ takes'[t] <= born' /\ takes'[t] # making'
                      /\ hosts'[takes'[t]] = "closing" /\ raced'
                      /\ \A q \in Sockets : Takes(q)' /\ takes'[q] = takes'[t] => q = t
    BY DEF TakeInv, Takes
  <2> QED
    BY <1>5, <2>1, <2>2, <2>3, <2>4
<1> QED
  BY <1>2, <1>3, <1>4, <1>5 DEF Next, TimerNext

-----------------------------------------------------------------------------
(* Who owns the wire. *)

(* A creation that ends without a host has closed the one it made.          *)
LEMMA OwnerStep ==
  TypeOK /\ TypeOK' /\ HostInv /\ HostInv' /\ TakeInv /\ OwnerInv /\ [Next]_vars => OwnerInv'
<1> SUFFICES ASSUME TypeOK, TypeOK', HostInv, HostInv', TakeInv, OwnerInv, [Next]_vars
             PROVE  OwnerInv'
  OBVIOUS
<1> USE DEF connVars, sockVars, hostVars, viewVars
<1>0. ~raced' => ~raced
  BY Zenon DEF Next, vars
<1>1. CASE /\ UNCHANGED <<active, evictEntry, making, hosts>> /\ (Live' => Live)
           /\ phase' = phase \/ {phase, phase'} \subseteq {"initialize", "session", "recording"}
           /\ entry' = entry \/ (~Live' /\ entry' = 0)
  BY <1>0, <1>1 DEF OwnerInv, OneOwner, NoOrphanHost
(* The creation ends, and its host with it. *)
<1>2. CASE /\ UNCHANGED <<active, evictEntry, entry, conn>> /\ Refuse
           /\ \/ hosts' = [hosts EXCEPT ![making] = "closed"]
              \/ hosts' = hosts /\ phase \in {"none", "evicting"}
  <2>1. \A h \in 1 .. MaxHosts : hosts'[h] = "open" => hosts[h] = "open" /\ (h = making => making = 0)
    BY <1>2 DEF TypeOK, HostInv
  <2> QED
    BY <1>0, <1>2, <2>1 DEF OwnerInv, OneOwner, NoOrphanHost, Refuse, Live, HostInv
<1>3. ASSUME NEW s \in Sockets, ConnectAttaches(s) PROVE OwnerInv'
  <2>1. /\ active' = s /\ evictEntry' = s /\ phase' = "none" /\ entry' = 0
        /\ UNCHANGED <<hosts, making, conn>>
        /\ entry = 0 \/ hosts[entry] # "open"
    BY <1>3 DEF ConnectAttaches, Attach, Held, HostInv, Live
  <2> QED
    BY <1>0, <2>1 DEF OwnerInv, OneOwner, NoOrphanHost, Live
<1>4. ASSUME NEW s \in Sockets, ConnectTakes(s) PROVE OwnerInv'
  <2>1. \A h \in 1 .. MaxHosts : hosts'[h] = "open" => hosts[h] = "open"
    BY <1>4 DEF ConnectTakes, TypeOK
  <2> QED
    BY <1>0, <1>4, <2>1 DEF ConnectTakes, OwnerInv, OneOwner, NoOrphanHost, Live
<1>5. ASSUME NEW s \in Sockets, ConnectRefused(s) \/ SocketReleased(s) \/ SocketLeavesEarly(s)
      PROVE  OwnerInv'
  BY <1>1, <1>5 DEF ConnectRefused, SocketReleased, SocketLeavesEarly, Live
(* A host is started when the active socket has gone: nobody else has the   *)
(* wire, and there was no other host.                                       *)
<1>6. ASSUME StartHost, active' = None, evictEntry' = None, entry' = 0, entry = 0, making = 0, conn' = conn
      PROVE  OwnerInv'
  <2>1. \A h \in 1 .. MaxHosts : hosts'[h] = "open" => h = making' \/ hosts[h] = "open"
    BY <1>6 DEF StartHost, TypeOK
  <2> QED
    BY <1>0, <1>6, <2>1 DEF OwnerInv, OneOwner, NoOrphanHost, Live
<1>7. ASSUME NEW s \in Sockets, Detach(s) PROVE OwnerInv'
  <2>1. /\ active' = evictEntry' /\ (active = None => active' = None) /\ UNCHANGED <<entry, conn>>
    BY <1>7 DEF Detach, OwnerInv
  <2>2. CASE phase = "evicting" /\ evictEntry = s /\ StartHost
    BY <1>6, <1>7, <2>1, <2>2 DEF Detach, HostInv
  <2>3. CASE phase = "evicting" /\ Refuse /\ UNCHANGED <<born, hosts>> /\ ~Live
    BY <2>1, <2>3 DEF OwnerInv, OneOwner, NoOrphanHost, Refuse, Live, HostInv
  <2>4. CASE UNCHANGED <<phase, waitsOn, making, born, hosts, viewVars>>
    BY <1>0, <2>1, <2>4 DEF OwnerInv, OneOwner, NoOrphanHost, Live
  <2> QED
    BY <1>7, <2>2, <2>3, <2>4 DEF Detach
<1>8. ASSUME NEW r \in Streams, NEW c \in Clients, NEW e, EventsCreate(r, c, e) PROVE OwnerInv'
  <2>1. /\ entry = 0 /\ entry' = 0 /\ phase = "none" /\ making = 0
        /\ UNCHANGED <<active, evictEntry, conn>>
    BY <1>8 DEF EventsCreate, Held, HostInv
  <2>2. CASE active = None /\ StartHost
    BY <1>6, <2>1, <2>2 DEF OwnerInv
  <2>3. CASE phase' = "evicting" /\ UNCHANGED <<making, born, hosts>>
    BY <1>0, <2>1, <2>3 DEF OwnerInv, OneOwner, NoOrphanHost, Live
  <2> QED
    BY <1>8, <2>2, <2>3 DEF EventsCreate, OwnerInv
<1>9. ASSUME NEW r \in Streams, NEW c \in Clients, NEW e,
             EventsServed(r, c, e) \/ EventsOnDeadHost(r, c, e) \/ EventsJoin(r, c, e)
             \/ EventsRefused(r, c, e)
      PROVE  OwnerInv'
  BY <1>1, <1>9 DEF EventsServed, EventsOnDeadHost, EventsJoin, EventsRefused, Subscribe, Live
<1>10. CASE EvictTimeout \/ InitializeFails \/ FinishRollback
  BY <1>2, <1>10 DEF EvictTimeout, InitializeFails, FinishRollback
<1>11. CASE InitializeAnswered \/ SessionOpened
  BY <1>1, <1>11 DEF InitializeAnswered, SessionOpened, Live
<1>12. CASE SessionFails
  <2>1. \A h \in 1 .. MaxHosts : hosts'[h] = "open" => hosts[h] = "open"
    BY <1>12 DEF SessionFails, TypeOK
  <2> QED
    BY <1>0, <1>12, <2>1 DEF SessionFails, OwnerInv, OneOwner, NoOrphanHost, Live
<1>13. CASE Recorded
  <2>1. entry = 0
    BY <1>13 DEF Recorded, HostInv
  <2> QED
    BY <1>0, <1>13, <2>1 DEF Recorded, Subscribe, OwnerInv, OneOwner, NoOrphanHost, Live
<1>14. CASE ViewerNext
  BY <1>1, <1>14 DEF ViewerNext, ViewerLeaves, Expire, ReleaseRow, Live
<1>15. CASE Crash \/ Delete
  BY <1>1, <1>15 DEF Crash, Delete, Unregister, Live
<1>16. ASSUME NEW s \in Sockets, FinishTakeover(s) PROVE OwnerInv'
  <2>1. /\ active' = s /\ evictEntry' = s /\ entry' = 0 /\ UNCHANGED <<phase, making, conn>>
        /\ hosts' = [hosts EXCEPT ![takes[s]] = "closed"]
    BY <1>16 DEF FinishTakeover, Attach
  <2>2. ~raced => entry = takes[s] /\ phase = "none"
    BY <1>16 DEF FinishTakeover, TakeInv
  <2>3. \A h \in 1 .. MaxHosts : hosts'[h] = "open" => hosts[h] = "open" /\ h # takes[s]
    BY <2>1 DEF TypeOK
  <2> QED
    BY <1>0, <2>1, <2>2, <2>3 DEF OwnerInv, OneOwner, NoOrphanHost, Live
<1>17. CASE UNCHANGED vars
  BY <1>1, <1>17 DEF vars, state, Live
<1> QED
  BY <1>3, <1>4, <1>5, <1>7, <1>8, <1>9, <1>10, <1>11, <1>12, <1>13, <1>14, <1>15, <1>16, <1>17
     DEF Next, SocketNext, EventsNext, CreateNext, TimerNext

-----------------------------------------------------------------------------
(* Rows, streams and epochs. *)

LEMMA ViewKept ==
  ASSUME ViewInv, UNCHANGED <<rows, viewer, seen, conn>>, Opened' = Opened, epoch <= epoch',
         TypeOK, TypeOK', entry # 0 => entry' # 0
  PROVE  ViewInv'
<1>1. \A r \in Streams : stream[r] = "open" <=> stream'[r] = "open"
  BY DEF Opened
<1>2. \A c \in Clients : rows[c] # None => rows[c] \in Streams
  BY DEF TypeOK
<1>3. \A r \in Opened : seen[r] <= epoch => seen[r] <= epoch'
  BY DEF TypeOK, Opened
<1> QED
  BY <1>1, <1>2, <1>3 DEF ViewInv, NoOrphanStream, RowsFollowStreams, HttpRows, Live

(* Everything is dropped: the viewers with their host. *)
LEMMA ViewDropped ==
  ASSUME rows' = [c \in Clients |-> None], NEW e, EndStreams(e) PROVE ViewInv'
<1>1. HttpRows' = {} /\ Opened' = {}
  BY DEF HttpRows, EndStreams, Opened
<1> QED
  BY <1>1 DEF ViewInv, NoOrphanStream, RowsFollowStreams

(* The streams R are opened on a registered host.                            *)
LEMMA ViewSubscribed ==
  ASSUME TypeOK, TypeOK', ViewInv, entry' # 0,
         NEW R \in SUBSET Streams, NEW last \in [Clients -> R \union {None}], Subscribe(R, last),
         \A r \in Streams : r \notin R /\ stream[r] = "open" => viewer'[r] = viewer[r],
         \A c \in Clients : last[c] # None => viewer'[last[c]] = c,
         \A c \in Clients : rows[c] # None => rows[c] \notin R
  PROVE  ViewInv'
<1> DEFINE e == IF Live THEN epoch + (IF Live /\ HttpRows = {} THEN 1 ELSE 0) ELSE 0
<1>1. /\ epoch' = IF Live THEN e ELSE epoch
      /\ rows' = IF Live THEN [c \in Clients |-> IF last[c] # None THEN last[c] ELSE rows[c]]
                 ELSE rows
      /\ stream' = [r \in Streams |-> IF r \in R THEN "open" ELSE stream[r]]
      /\ seen' = [r \in Streams |-> IF r \in R THEN e ELSE seen[r]]
      /\ conn' = conn
  BY DEF Subscribe
<1>2. Live => e \in Nat /\ epoch <= e
  BY DEF TypeOK
<1> HIDE DEF e
<1>3. RowsFollowStreams'
  <2> SUFFICES ASSUME NEW c \in Clients, rows'[c] # None
               PROVE  stream'[rows'[c]] = "open" /\ viewer'[rows'[c]] = c
    BY DEF RowsFollowStreams, HttpRows
  <2>1. CASE last[c] # None /\ Live
    BY <1>1, <2>1
  <2>2. CASE rows'[c] = rows[c]
    BY <1>1, <2>2 DEF ViewInv, RowsFollowStreams, HttpRows, TypeOK
  <2> QED
    BY <1>1, <2>1, <2>2
<1>4. ~Live' => HttpRows' = {}
  BY <1>1 DEF ViewInv, HttpRows, Live
<1>5. Live' => \A r \in Opened' : seen'[r] <= epoch'
  <2> SUFFICES ASSUME Live, NEW r \in Streams, stream'[r] = "open" PROVE seen'[r] <= epoch'
    BY <1>1 DEF Opened, Live
  <2>1. CASE r \in R
    BY <1>1, <1>2, <2>1
  <2>2. CASE r \notin R
    <3>1. seen[r] <= epoch /\ seen[r] \in Nat /\ epoch \in Nat
      BY <1>1, <2>2 DEF ViewInv, Opened, TypeOK
    <3> QED
      BY <1>1, <1>2, <2>2, <3>1
  <2> QED
    BY <2>1, <2>2
<1> QED
  BY <1>3, <1>4, <1>5 DEF ViewInv, NoOrphanStream

(* A stream has ended, with the row that was its. *)
LEMMA ViewLeft ==
  ASSUME TypeOK, TypeOK', ViewInv, NEW r \in Streams, stream[r] = "open",
         stream' = [stream EXCEPT ![r] = "ended"], UNCHANGED <<conn, epoch, entry, viewer, seen>>,
         Live /\ rows[viewer[r]] = r => rows' = [rows EXCEPT ![viewer[r]] = None],
         ~(Live /\ rows[viewer[r]] = r) => rows' = rows
  PROVE  ViewInv'
<1>1. Opened' = Opened \ {r} /\ r \in Opened
  BY DEF Opened, TypeOK
<1>2. \A c \in Clients : rows'[c] # None => rows'[c] = rows[c] /\ rows[c] # r
  <2> SUFFICES ASSUME NEW c \in Clients, rows'[c] # None PROVE rows'[c] = rows[c] /\ rows[c] # r
    OBVIOUS
  <2>1. rows'[c] = rows[c]
    BY DEF TypeOK
  <2>2. rows[c] = r => Live /\ viewer[r] = c
    BY <2>1 DEF ViewInv, RowsFollowStreams, HttpRows
  <2>3. rows[c] # r
    BY <2>1, <2>2 DEF TypeOK
  <2> QED
    BY <2>1, <2>3
<1>3. RowsFollowStreams' /\ (~Live' => HttpRows' = {})
  BY <1>2 DEF ViewInv, RowsFollowStreams, HttpRows, TypeOK, Live
<1> QED
  BY <1>1, <1>3 DEF ViewInv, NoOrphanStream, Live

LEMMA ViewStep ==
  TypeOK /\ TypeOK' /\ HostInv /\ ViewInv /\ [Next]_vars => ViewInv'
<1> SUFFICES ASSUME TypeOK, TypeOK', HostInv, ViewInv, [Next]_vars PROVE ViewInv'
  OBVIOUS
<1> USE DEF connVars, sockVars, hostVars, viewVars
<1>1. epoch \in Nat /\ entry \in Nat /\ making \in Nat
  BY DEF TypeOK
<1>2. CASE UNCHANGED <<rows, viewer, seen, conn, epoch>> /\ Opened' = Opened /\ entry' = entry
  BY <1>1, <1>2, ViewKept
<1>3. Refuse => Opened' = Opened
  BY DEF Refuse, Opened, Waiting
<1>4. ASSUME NEW s \in Sockets, NEW u \in BOOLEAN, Attach(s, u), entry' = entry \/ u PROVE ViewInv'
  <2>1. CASE u = TRUE
    <3>1. rows' = [c \in Clients |-> None] /\ EndStreams(IF Live THEN epoch + 1 ELSE 0)
      BY <1>4, <2>1 DEF Attach
    <3> QED
      BY <3>1, ViewDropped
  <2>2. CASE u = FALSE
    <3>1. UNCHANGED <<rows, viewer, seen, conn, stream, entry>> /\ epoch <= epoch'
      BY <1>1, <1>4, <2>2 DEF Attach
    <3>2. Opened' = Opened
      BY <3>1 DEF Opened
    <3> QED
      BY <3>1, <3>2, ViewKept
  <2> QED
    BY <2>1, <2>2
<1>5. ASSUME NEW s \in Sockets, ConnectAttaches(s) \/ FinishTakeover(s) PROVE ViewInv'
  BY <1>4, <1>5 DEF ConnectAttaches, FinishTakeover, Attach
<1>6. ASSUME NEW s \in Sockets,
             ConnectTakes(s) \/ ConnectRefused(s) \/ SocketReleased(s) \/ SocketLeavesEarly(s)
      PROVE  ViewInv'
  BY <1>2, <1>6 DEF ConnectTakes, ConnectRefused, SocketReleased, SocketLeavesEarly, Opened
<1>7. ASSUME NEW s \in Sockets, Detach(s) PROVE ViewInv'
  <2>1. Opened' = Opened /\ UNCHANGED <<viewer, seen>>
    BY <1>3, <1>7 DEF Detach, Opened, Refuse
  <2> QED
    BY <1>2, <1>7, <2>1 DEF Detach
<1>8. CASE EvictTimeout \/ InitializeFails \/ FinishRollback
  BY <1>2, <1>3, <1>8 DEF EvictTimeout, InitializeFails, FinishRollback, Refuse
<1>9. CASE InitializeAnswered \/ SessionOpened \/ SessionFails
  BY <1>2, <1>9 DEF InitializeAnswered, SessionOpened, SessionFails, Opened
<1>10. CASE Recorded
  <2>1. PICK last \in [Clients -> Waiting \union {None}] :
          /\ \A c \in Clients : LET mine == {r \in Waiting : viewer[r] = c}
                              IN IF mine = {} THEN last[c] = None ELSE last[c] \in mine
          /\ Subscribe(Waiting, last)
    BY <1>10 DEF Recorded
  <2>2. Waiting \in SUBSET Streams /\ entry' # 0 /\ viewer' = viewer
    BY <1>10 DEF Recorded, HostInv, Waiting
  <2>3. \A c \in Clients : last[c] # None => viewer'[last[c]] = c
    BY <2>1, <2>2
  <2>4. \A c \in Clients : rows[c] # None => rows[c] \notin Waiting
    BY DEF ViewInv, RowsFollowStreams, HttpRows, Waiting
  <2> QED
    BY <2>1, <2>2, <2>3, <2>4, ViewSubscribed
<1>11. ASSUME NEW r \in Streams, NEW c \in Clients, NEW e, EventsServed(r, c, e) PROVE ViewInv'
  <2> DEFINE last == [d \in Clients |-> IF d = c THEN r ELSE None]
  <2>1. last \in [Clients -> {r} \union {None}] /\ {r} \in SUBSET Streams /\ entry' # 0
    BY <1>11 DEF EventsServed
  <2>2. Subscribe({r}, last) /\ stream[r] = "new" /\ viewer' = [viewer EXCEPT ![r] = c]
    BY <1>11 DEF EventsServed, Ask
  <2>3. \A q \in Streams : q \notin {r} /\ stream[q] = "open" => viewer'[q] = viewer[q]
    BY <2>2 DEF TypeOK
  <2>4. \A d \in Clients : last[d] # None => viewer'[last[d]] = d
    BY <2>2 DEF TypeOK
  <2>5. \A d \in Clients : rows[d] # None => rows[d] \notin {r}
    BY <2>2 DEF ViewInv, RowsFollowStreams, HttpRows
  <2> HIDE DEF last
  <2> QED
    BY <2>1, <2>2, <2>3, <2>4, <2>5, ViewSubscribed
<1>12. ASSUME NEW r \in Streams, NEW c \in Clients, NEW e, EventsOnDeadHost(r, c, e) PROVE ViewInv'
  <2>1. Opened' = {} /\ HttpRows' = {} /\ ~Live'
    BY <1>12 DEF EventsOnDeadHost, Ask, Opened, ViewInv, HttpRows, Live
  <2> QED
    BY <2>1 DEF ViewInv, NoOrphanStream, RowsFollowStreams
(* A request that is not served changes its own viewer, and nobody's row is its. *)
<1>13. ASSUME NEW r \in Streams, NEW c \in Clients, NEW e,
              EventsJoin(r, c, e) \/ EventsCreate(r, c, e) \/ EventsRefused(r, c, e)
       PROVE  ViewInv'
  <2>1. /\ stream[r] = "new" /\ viewer' = [viewer EXCEPT ![r] = c]
        /\ \A q \in Streams : stream'[q] = "open" <=> stream[q] = "open"
        /\ UNCHANGED <<rows, seen, conn, epoch, entry>>
    BY <1>13 DEF EventsJoin, EventsCreate, EventsRefused, Ask, TypeOK
  <2>2. Opened' = Opened
    BY <2>1 DEF Opened
  <2>3. RowsFollowStreams'
    BY <2>1 DEF ViewInv, RowsFollowStreams, HttpRows, TypeOK
  <2> QED
    BY <2>1, <2>2, <2>3 DEF ViewInv, NoOrphanStream, HttpRows, Live
<1>14. ASSUME NEW r \in Streams, ViewerLeaves(r) PROVE ViewInv'
  BY <1>14, ViewLeft DEF ViewerLeaves, DropRow
<1>15. ASSUME NEW c \in Clients, Expire(c) PROVE ViewInv'
  <2>1. rows[c] \in Streams /\ stream[rows[c]] = "open" /\ viewer[rows[c]] = c
    BY <1>15 DEF Expire, ViewInv, RowsFollowStreams, HttpRows, TypeOK
  <2> QED
    BY <1>15, <2>1, ViewLeft DEF Expire, DropRow
<1>16. ASSUME NEW c \in Clients, ReleaseRow(c) PROVE ViewInv'
  <2>1. \A d \in Clients : rows'[d] # None => rows'[d] = rows[d]
    BY <1>16 DEF ReleaseRow, DropRow, TypeOK
  <2>2. Opened' = Opened /\ UNCHANGED <<stream, viewer, seen, conn, epoch, entry>>
    BY <1>16 DEF ReleaseRow, Opened
  <2> QED
    BY <2>1, <2>2, <1>16 DEF ReleaseRow, ViewInv, NoOrphanStream, RowsFollowStreams, HttpRows, Live
<1>17. CASE Crash \/ Delete
  BY <1>17, ViewDropped DEF Crash, Delete, Unregister
<1>18. CASE UNCHANGED vars
  BY <1>2, <1>18 DEF vars, state, Opened
<1> QED
  BY <1>5, <1>6, <1>7, <1>8, <1>9, <1>10, <1>11, <1>12, <1>13, <1>14, <1>15, <1>16, <1>17, <1>18
     DEF Next, SocketNext, EventsNext, CreateNext, ViewerNext, TimerNext

LEMMA InitInv == Init => HostInv /\ TakeInv /\ OwnerInv /\ ViewInv
  BY OwnershipAssumption DEF Init, HostInv, TakeInv, OwnerInv, ViewInv, OneOwner, NoOrphanHost,
     NoOrphanStream, RowsFollowStreams, HttpRows, Opened, Live

LEMMA IInvCorrect == Spec => []IInv
<1>1. Init => IInv
  BY InitTyped, InitInv DEF IInv
<1>2. IInv /\ [Next]_vars => IInv'
  BY TypeStep, HostStep, TakeStep, OwnerStep, ViewStep DEF IInv
<1> QED
  BY <1>1, <1>2, PTL DEF Spec

-----------------------------------------------------------------------------
(* The properties. *)

(* The handlers of sockets, viewers and the agent keep the state's shape.   *)
THEOREM WireTyped == Spec => []TypeOK
  BY IInvCorrect, PTL DEF IInv

(* A registered host, or one being made, excludes an active WebSocket.      *)
THEOREM OwnersExclude == Spec => []OneOwner
  BY IInvCorrect, PTL DEF IInv, OwnerInv

(* No takeover, timeout or rollback leaves a host behind that still reads.  *)
THEOREM NoHostLeftBehind == Spec => []NoOrphanHost
  BY IInvCorrect, PTL DEF IInv, OwnerInv

(* No viewer is left on a stream that nobody will end.                      *)
THEOREM StreamsHaveHost == Spec => []NoOrphanStream
  BY IInvCorrect, PTL DEF IInv, ViewInv

(* Neither a host nor a stream is left behind.                              *)
THEOREM NothingLeftBehind == Spec => []NothingOrphaned
  BY NoHostLeftBehind, StreamsHaveHost, PTL DEF NothingOrphaned

(* The presence set shows the viewers there are.                            *)
THEOREM RowsAreStreams == Spec => []RowsFollowStreams
  BY IInvCorrect, PTL DEF IInv, ViewInv

(* The active socket changes when a socket attaches, and only then.         *)
LEMMA AttachStep ==
  ASSUME [Next]_vars, active' \notin {active, None}
  PROVE  \E s \in Sockets : ConnectAttaches(s) \/ FinishTakeover(s)
<1>1. CASE SocketNext
  BY <1>1 DEF SocketNext, ConnectTakes, ConnectRefused, SocketReleased, SocketLeavesEarly, Detach,
     hostVars, viewVars
<1>2. CASE EventsNext
  <2>1. UNCHANGED active
    BY <1>2 DEF EventsNext, EventsServed, EventsOnDeadHost, EventsJoin, EventsCreate,
       EventsRefused, sockVars, connVars, hostVars
  <2> QED  BY <2>1
<1>3. CASE CreateNext
  BY <1>3 DEF CreateNext, EvictTimeout, InitializeAnswered, InitializeFails, SessionOpened,
     SessionFails, Recorded, sockVars
<1>4. CASE ViewerNext
  BY <1>4 DEF ViewerNext, ViewerLeaves, Expire, ReleaseRow, sockVars
<1>5. CASE Crash \/ Delete
  BY <1>5 DEF Crash, Delete, Unregister
<1>6. CASE TimerNext
  BY <1>6 DEF TimerNext, FinishRollback, sockVars
<1>7. CASE UNCHANGED vars
  BY <1>7 DEF vars, state, sockVars
<1> QED
  BY <1>1, <1>2, <1>3, <1>4, <1>5, <1>6, <1>7 DEF Next

LEMMA ToldStep ==
  ASSUME IInv, [Next]_vars, NEW r \in Streams, stream[r] = "open", stream'[r] = "ended",
         active' \notin {active, None}, ~raced'
  PROVE  ended'[r] = "told"
<1>1. PICK s \in Sockets : ConnectAttaches(s) \/ FinishTakeover(s)
  BY AttachStep
<1>2. ~raced
  BY Zenon DEF Next, vars
<1>3. Live
  BY <1>1, <1>2 DEF ConnectAttaches, FinishTakeover, IInv, TakeInv
<1>4. EndStreams(epoch + 1)
  <2>1. PICK u \in BOOLEAN : Attach(s, u)
    BY <1>1 DEF ConnectAttaches, FinishTakeover
  <2>2. u
    BY <2>1 DEF Attach, viewVars
  <2> QED
    BY <1>3, <2>1, <2>2 DEF Attach
<1>5. r \in Opened /\ seen[r] <= epoch /\ seen[r] \in Nat /\ epoch \in Nat
  BY <1>3 DEF IInv, ViewInv, Opened, TypeOK
<1> QED
  BY <1>4, <1>5 DEF EndStreams

(* A viewer whose stream a socket takes over is told so: every stream in    *)
(* the table knows an epoch that the takeover advances.                     *)
THEOREM TakeoversAreTold == Spec => TakeoverIsTold
<1>1. IInv /\ [Next]_vars =>
        [\A r \in Streams :
           stream[r] = "open" /\ stream'[r] = "ended" /\ active' \notin {active, None} /\ ~raced'
             => ended'[r] = "told"]_vars
  BY ToldStep
<1> QED
  BY <1>1, IInvCorrect, PTL DEF Spec, TakeoverIsTold

LEMMA RowStep ==
  ASSUME IInv, [Next]_vars, NEW c \in Clients, rows[c] # None, rows'[c] = None,
         stream'[rows[c]] = "open"
  PROVE  UNCHANGED stream
<1> USE DEF connVars, sockVars, hostVars, viewVars
<1>1. rows[c] \in Streams /\ stream[rows[c]] = "open" /\ viewer[rows[c]] = c
  BY DEF IInv, TypeOK, ViewInv, RowsFollowStreams, HttpRows
<1>2. ASSUME NEW e, EndStreams(e) PROVE FALSE
  BY <1>1, <1>2 DEF EndStreams, Opened
<1>3. ASSUME NEW R, NEW last, Subscribe(R, last) PROVE FALSE
  BY <1>3 DEF Subscribe
<1>4. ASSUME NEW s \in Sockets, ConnectAttaches(s) \/ FinishTakeover(s) PROVE FALSE
  BY <1>2, <1>4 DEF ConnectAttaches, FinishTakeover, Attach
<1>5. CASE Crash \/ Delete
  BY <1>2, <1>5 DEF Crash, Delete, Unregister
<1>6. ASSUME NEW r \in Streams, ViewerLeaves(r) PROVE FALSE
  BY <1>1, <1>6 DEF ViewerLeaves, DropRow, IInv, TypeOK
<1>7. ASSUME NEW d \in Clients, Expire(d) PROVE FALSE
  BY <1>1, <1>7 DEF Expire, DropRow, IInv, TypeOK
<1>8. ASSUME NEW d \in Clients, ReleaseRow(d) PROVE UNCHANGED stream
  BY <1>8 DEF ReleaseRow
<1>9. ASSUME UNCHANGED rows PROVE FALSE
  BY <1>9
<1>10. ASSUME SocketNext, \A s \in Sockets : ~ConnectAttaches(s) PROVE FALSE
  BY <1>9, <1>10 DEF SocketNext, ConnectTakes, ConnectRefused, SocketReleased, SocketLeavesEarly,
     Detach
<1>11. ASSUME EventsNext PROVE FALSE
  BY <1>3, <1>9, <1>11 DEF EventsNext, EventsServed, EventsOnDeadHost, EventsJoin, EventsCreate,
     EventsRefused
<1>12. ASSUME CreateNext \/ FinishRollback PROVE FALSE
  BY <1>3, <1>9, <1>12 DEF CreateNext, EvictTimeout, InitializeAnswered, InitializeFails,
     SessionOpened, SessionFails, Recorded, FinishRollback
<1>13. CASE UNCHANGED vars
  BY <1>13 DEF vars, state
<1> QED
  BY <1>4, <1>5, <1>6, <1>7, <1>8, <1>10, <1>11, <1>12, <1>13 DEF Next, ViewerNext, TimerNext

(* The end of an old stream of a client leaves the row to its new one.      *)
THEOREM RowsSurvive == Spec => RowSurvivesOldStream
<1>1. IInv /\ [Next]_vars =>
        [\A c \in Clients :
           rows[c] # None /\ rows'[c] = None /\ stream'[rows[c]] = "open" => UNCHANGED stream]_vars
  BY RowStep
<1> QED
  BY <1>1, IInvCorrect, PTL DEF Spec, RowSurvivesOldStream
=============================================================================
