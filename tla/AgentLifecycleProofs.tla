------------------------- MODULE AgentLifecycleProofs -------------------------
(***************************************************************************)
(* Proofs about AgentLifecycle, for any set of agents and any bounds: type *)
(* correctness, the three safety invariants its run checks, and that only  *)
(* a PATCH can call an agent ready that has no connection.  The inductive  *)
(* invariant has a part on the phases of a boot (BootInv) and    *)
(* five per agent: nothing of it is in memory while the backend is not up  *)
(* (DownInv), an id not yet used leaves no trace (UnusedInv), a connection *)
(* belongs to a row that is on disk (LinkInv), what the records know of    *)
(* the session (RecordInv), and a deleted agent is out of reach of         *)
(* everything that could start or adopt it (DeletedInv).                   *)
(***************************************************************************)
EXTENDS AgentLifecycle, TLAPS

BootInv ==
  /\ up # "scan" => adopted = {} /\ retained = {}
  /\ up = "off" => todo = {}
  /\ up = "scan" => todo \intersect (adopted \union retained) = {}
  /\ adopted \intersect retained = {}
  /\ up \in {"off", "scan"} => cancelled = {}

Up == up \in {"connect", "on"}

(* What an agent has of the backend's memory while the backend is not up. *)
DownInv(a) ==
  ~Up => row[a] = NoRow /\ conn[a] = "none" /\ patch[a] = NoPatch

UnusedInv(a) ==
  a \notin created =>
    /\ row[a] = NoRow /\ disk[a] = NoRow /\ conn[a] = "none"
    /\ side[a] = "none" /\ ~file[a] /\ a \notin todo /\ a \notin adopted
    /\ talk[a] = 0 /\ cache[a] = 0 /\ patch[a] = NoPatch

LinkInv(a) ==
  /\ Listed(a) => row[a].status # "closed" /\ disk[a] = row[a]
  /\ conn[a] = "open" => Listed(a)
  /\ Pending(a) /\ ~Listed(a) => a \in cancelled
  /\ row[a].status = "ready" => up = "on"
  /\ up = "connect" /\ a \in todo => Listed(a)

RecordInv(a) ==
  /\ disk[a] # NoRow /\ known[a] \in {"row", "both"} =>
       disk[a].session = talk[a] /\ (Up => Listed(a))
  /\ Up /\ Listed(a) /\ known[a] = "both" => cache[a] = talk[a]
  /\ talk[a] = 0 => disk[a].session = 0
  /\ patch[a] # NoPatch => talk[a] # 0 /\ known[a] \in {"wait", "none"}
  /\ known[a] = "wait" =>
       /\ Up /\ patch[a] # NoPatch /\ patch[a].session = talk[a]
       /\ disk[a] # NoRow => Listed(a)
       /\ patch[a].replace \/ disk[a].session = 0

DeletedInv(a) ==
  a \in deleted =>
    /\ a \in created
    /\ row[a] = NoRow /\ disk[a] = NoRow /\ side[a] = "none"
    /\ conn[a] \in {"none", "waiting", "linking"}
    /\ up \in {"off", "scan"} => a \notin adopted
    /\ up = "connect" => a \notin todo

AgentInv(a) == DownInv(a) /\ UnusedInv(a) /\ LinkInv(a) /\ RecordInv(a) /\ DeletedInv(a)

IInv == TypeOK /\ BootInv /\ \A a \in Agents : AgentInv(a)

-----------------------------------------------------------------------------
(* Type correctness. *)

LEMMA InitTyped == Init => TypeOK
  BY LifecycleAssumption DEF Init, TypeOK, Sessions, Rows, Patches, NoRow, NoPatch

(* A step of the launch and of the connection keeps the types. *)
LEMMA ConnectTyped ==
  ASSUME TypeOK, NEW a \in Agents, Connects(a) \/ LossSeen(a) PROVE TypeOK'
<1> USE DEF TypeOK, Rows, NoRow, Statuses, Listed, Update, MarkCrashed, ConnectFails,
           bootVars, rowVars, connVars, sideVars, talkVars
<1>1. CASE ProbeAlive(a)
  BY <1>1 DEF ProbeAlive
<1>2. CASE ProbeFree(a)
  BY <1>2 DEF ProbeFree
<1>3. CASE ProbeUnsure(a)
  BY <1>3 DEF ProbeUnsure
<1>4. CASE BecomesReady(a)
  BY <1>4 DEF BecomesReady
<1>5. CASE GiveUp(a)
  BY <1>5 DEF GiveUp
<1>6. CASE Link(a)
  BY <1>6 DEF Link
<1>7. CASE LossSeen(a)
  BY <1>7 DEF LossSeen
<1> QED
  BY <1>1, <1>2, <1>3, <1>4, <1>5, <1>6, <1>7 DEF Connects

(* What registry.update is given and what it leaves is a row. *)
LEMMA RowTyped ==
  ASSUME TypeOK, NEW a \in Agents, Listed(a), NEW s \in Sessions
  PROVE  /\ Patched(a) \in Rows
         /\ [status |-> "ready", session |-> s] \in Rows
  BY DEF TypeOK, Rows, Statuses, Patches, Listed, Patched

LEMMA UpdateTyped ==
  ASSUME TypeOK, NEW a \in Agents, NEW r \in Rows \union {NoRow}, Update(a, r)
  PROVE  row' \in [Agents -> Rows \union {NoRow}] /\ disk' \in [Agents -> Rows \union {NoRow}]
  BY DEF TypeOK, Update

(* So does a step of a session or of a PATCH. *)
LEMMA SessionTyped ==
  ASSUME TypeOK, NEW a \in Agents, NEW s \in Sessions,
         NEW ready \in BOOLEAN,
         HostOpens(a, s) \/ BrowserOpens(a, s, ready) \/ PatchArrives(a) \/ PatchLost(a)
  PROVE  TypeOK'
<1>1. NoPatch \in Patches
  BY LifecycleAssumption DEF NoPatch, Patches, Sessions
<1>2. ASSUME Opens(a, s) PROVE fresh' \in [Agents -> Sessions] /\ talk' \in [Agents -> Sessions]
  BY <1>2 DEF TypeOK, Opens
<1>3. CASE HostOpens(a, s)
  <2>1. /\ row' \in [Agents -> Rows \union {NoRow}] /\ disk' \in [Agents -> Rows \union {NoRow}]
        /\ cache' \in [Agents -> Sessions]
    <3>1. CASE Listed(a) /\ row[a].status # "closed"
      BY <1>3, <3>1, RowTyped, UpdateTyped DEF HostOpens, Attached, TypeOK
    <3>2. CASE ~(Listed(a) /\ row[a].status # "closed")
      BY <1>3, <3>2 DEF HostOpens, Attached, TypeOK, rowVars
    <3> QED
      BY <3>1, <3>2
  <2> QED
    BY <1>2, <1>3, <2>1 DEF HostOpens, TypeOK, bootVars, connVars, sideVars
<1>4. CASE BrowserOpens(a, s, ready)
  <2>1. [session |-> s, replace |-> talk[a] # 0, ready |-> ready] \in Patches
    BY DEF Patches
  <2> QED
    BY <1>2, <1>4, <2>1 DEF BrowserOpens, TypeOK, bootVars, rowVars, connVars, sideVars
<1>5. CASE PatchArrives(a)
  <2>1. row' \in [Agents -> Rows \union {NoRow}] /\ disk' \in [Agents -> Rows \union {NoRow}]
    <3>1. CASE UNCHANGED rowVars
      BY <3>1 DEF TypeOK, rowVars
    <3>2. CASE Listed(a) /\ Update(a, Patched(a))
      BY <3>2, RowTyped, UpdateTyped
    <3> QED
      BY <1>5, <3>1, <3>2 DEF PatchArrives
  <2> QED
    BY <1>1, <1>5, <2>1 DEF PatchArrives, TypeOK, bootVars, connVars, sideVars
<1>6. CASE PatchLost(a)
  BY <1>1, <1>6 DEF PatchLost, TypeOK, bootVars, rowVars, connVars, sideVars
<1> QED
  BY <1>3, <1>4, <1>5, <1>6

(* And a step of the backend going down. *)
LEMMA DownTyped ==
  ASSUME TypeOK, Down, side' \in [Agents -> {"none", "starting", "serving"}],
         file' \in [Agents -> BOOLEAN], disk' \in [Agents -> Rows \union {NoRow}]
  PROVE  TypeOK'
<1> USE LifecycleAssumption DEF TypeOK, Down, Sessions, Patches, NoPatch
<1>1. row' \in [Agents -> Rows \union {NoRow}]
  BY DEF Down
<1>2. known' \in [Agents -> {"both", "row", "wait", "none"}]
  OBVIOUS
<1> QED
  BY <1>1, <1>2

LEMMA TypeStep == TypeOK /\ [Next]_vars => TypeOK'
<1> SUFFICES ASSUME TypeOK, [Next]_vars PROVE TypeOK'
  OBVIOUS
<1> USE DEF bootVars, rowVars, connVars, sideVars, talkVars
<1>1. [status |-> "starting", session |-> 0] \in Rows
  BY LifecycleAssumption DEF Rows, Statuses, Sessions
<1>2. ASSUME NEW a \in Agents, Create(a) PROVE TypeOK'
  BY <1>1, <1>2, UpdateTyped DEF TypeOK, Create
<1>3. ASSUME NEW a \in Agents, Delete(a) PROVE TypeOK'
  BY <1>3, UpdateTyped DEF TypeOK, Delete
<1>4. ASSUME NEW a \in Agents, SidecarEnds(a) \/ SidecarListens(a) PROVE TypeOK'
  BY <1>4 DEF TypeOK, SidecarEnds, SidecarListens
<1>5. ASSUME NEW a \in Agents, Probes(a) \/ Reattaches(a) PROVE TypeOK'
  BY <1>5 DEF TypeOK, Probes, Reattaches
<1>6. ASSUME NEW a \in Agents, DiesInDelete(a) PROVE TypeOK'
  <2>1. [row[a] EXCEPT !.status = "closed"] \in Rows
    BY <1>6 DEF TypeOK, DiesInDelete, Listed, Rows, Statuses
  <2>2. disk' \in [Agents -> Rows \union {NoRow}]
    BY <1>6, <2>1 DEF TypeOK, DiesInDelete
  <2> QED
    BY <1>6, <2>2, DownTyped DEF DiesInDelete, TypeOK
<1>7. ASSUME NEW kill \in BOOLEAN, Stops(kill) PROVE TypeOK'
  <2>1. side' \in [Agents -> {"none", "starting", "serving"}] /\ file' \in [Agents -> BOOLEAN]
    BY <1>7 DEF TypeOK, Stops
  <2> QED
    BY <1>7, <2>1, DownTyped DEF Stops, TypeOK
<1>8. CASE Boots \/ Serves
  <2>1. Boots => boots' \in 0 .. MaxBoots
    BY LifecycleAssumption DEF TypeOK, Boots
  <2> QED
    BY <1>8, <2>1 DEF TypeOK, Boots, Serves
<1>9. CASE Restore
  <2>1. \A a \in Agents : Restored(a) \in Rows
    BY <1>1 DEF TypeOK, Restored, Rows, Statuses
  <2>2. row' \in [Agents -> Rows \union {NoRow}]
    BY <1>9, <2>1 DEF Restore
  <2>3. disk' \in [Agents -> Rows \union {NoRow}]
    BY <1>9, <2>2 DEF TypeOK, Restore
  <2>4. cache' \in [Agents -> Sessions]
    BY <1>9, <2>2, LifecycleAssumption DEF Restore, Seeds, Rows, NoRow, Sessions
  <2>5. known' \in [Agents -> {"both", "row", "wait", "none"}]
    BY <1>9 DEF Restore
  <2> QED
    BY <1>9, <2>2, <2>3, <2>4, <2>5 DEF TypeOK, Restore
<1>10. CASE UNCHANGED vars
  BY <1>10 DEF TypeOK, vars
<1>11. ASSUME NEW a \in Agents, PatchArrives(a) \/ PatchLost(a) PROVE TypeOK'
  <2>1. 0 \in Sessions /\ TRUE \in BOOLEAN
    BY LifecycleAssumption DEF Sessions
  <2> QED
    BY <1>11, <2>1, SessionTyped
<1>12. ASSUME NEW a \in Agents, NEW s \in Sessions, NEW ready \in BOOLEAN,
              HostOpens(a, s) \/ BrowserOpens(a, s, ready)
       PROVE  TypeOK'
  BY <1>12, SessionTyped
<1> QED
  BY <1>2, <1>3, <1>4, <1>5, <1>6, <1>7, <1>8, <1>9, <1>10, <1>11, <1>12, ConnectTyped DEF Next

(* The state keeps its shape: the launch, the restart and the two recorders *)
(* of a session write nothing else into each other's records.               *)
THEOREM TypeCorrect == Spec => []TypeOK
<1>1. Init => TypeOK
  BY InitTyped
<1>2. TypeOK /\ [Next]_vars => TypeOK'
  BY TypeStep
<1> QED
  BY <1>1, <1>2, PTL DEF Spec

-----------------------------------------------------------------------------
(* The inductive invariant. *)

(* What the parts say of b is the same; its saved row may have been written *)
(* again, with the row in memory.                                           *)
Same(b) ==
  /\ up' = up /\ row'[b] = row[b] /\ disk'[b] \in {disk[b], row[b]}
  /\ cache'[b] = cache[b] /\ conn'[b] = conn[b] /\ side'[b] = side[b] /\ file'[b] = file[b]
  /\ talk'[b] = talk[b] /\ patch'[b] = patch[b] /\ known'[b] = known[b]
  /\ (b \in cancelled') <=> (b \in cancelled)
  /\ (b \in todo') <=> (b \in todo)
  /\ (b \in adopted') <=> (b \in adopted)
  /\ (b \in created') <=> (b \in created)
  /\ (b \in deleted') <=> (b \in deleted)

LEMMA Elsewhere ==
  ASSUME NEW b \in Agents, AgentInv(b), Same(b) PROVE AgentInv(b)'
<1> USE DEF AgentInv, Same, NoRow
<1>1. DownInv(b)' /\ UnusedInv(b)'
  BY DEF DownInv, UnusedInv, Up
<1>2. LinkInv(b)'
  BY DEF LinkInv, Listed, Pending
<1>3. RecordInv(b)'
  BY DEF RecordInv, LinkInv, Listed, Up
<1>4. DeletedInv(b)'
  BY DEF DeletedInv
<1> QED
  BY <1>1, <1>2, <1>3, <1>4

LEMMA InitInv == Init => BootInv /\ \A a \in Agents : AgentInv(a)
<1> SUFFICES ASSUME Init PROVE BootInv /\ \A a \in Agents : AgentInv(a)
  OBVIOUS
<1>1. BootInv
  BY DEF Init, BootInv
<1>2. ASSUME NEW a \in Agents PROVE AgentInv(a)
  BY DEF Init, AgentInv, DownInv, UnusedInv, LinkInv, RecordInv, DeletedInv, Listed, Pending,
         Up, NoRow, NoPatch
<1> QED
  BY <1>1, <1>2

(* The phases of the boot: a socket is probed once, and what it tells of an *)
(* agent is not both that it lives and that there is no telling.            *)
LEMMA BootStep == TypeOK /\ BootInv /\ [Next]_vars => BootInv'
<1> SUFFICES ASSUME TypeOK, BootInv, [Next]_vars PROVE BootInv'
  OBVIOUS
<1> USE DEF BootInv, bootVars, connVars
<1>1. CASE UNCHANGED bootVars /\ (cancelled' \subseteq cancelled \/ up = "on")
  BY <1>1
<1>2. ASSUME NEW a \in Agents,
             Create(a) \/ Delete(a) \/ LossSeen(a) \/ SidecarEnds(a) \/ SidecarListens(a)
             \/ PatchArrives(a) \/ PatchLost(a)
      PROVE  BootInv'
  BY <1>1, <1>2 DEF Create, Delete, LossSeen, SidecarEnds, SidecarListens, PatchArrives, PatchLost
<1>3. ASSUME NEW a \in Agents, Connects(a) PROVE BootInv'
  BY <1>1, <1>3 DEF Connects, ProbeAlive, ProbeFree, ProbeUnsure, BecomesReady, GiveUp, Link,
                    ConnectFails
<1>4. ASSUME NEW a \in Agents, NEW s \in Sessions, NEW ready \in BOOLEAN,
             HostOpens(a, s) \/ BrowserOpens(a, s, ready)
      PROVE  BootInv'
  BY <1>1, <1>4 DEF HostOpens, BrowserOpens
<1>5. ASSUME NEW a \in Agents, DiesInDelete(a) PROVE BootInv'
  BY <1>5 DEF DiesInDelete, Down
<1>6. ASSUME NEW kill \in BOOLEAN, Stops(kill) PROVE BootInv'
  BY <1>6 DEF Stops, Down
<1>7. ASSUME NEW a \in Agents, Probes(a) PROVE BootInv'
  BY <1>7 DEF Probes
<1>8. ASSUME NEW a \in Agents, Reattaches(a) PROVE BootInv'
  BY <1>8 DEF Reattaches
<1>9. CASE Boots \/ Restore \/ Serves
  BY <1>9 DEF Boots, Restore, Serves
<1>10. CASE UNCHANGED vars
  BY <1>1, <1>10 DEF vars
<1> QED
  BY <1>2, <1>3, <1>4, <1>5, <1>6, <1>7, <1>8, <1>9, <1>10 DEF Next

(* Creating an agent: the id had left no trace. *)
LEMMA CreateStep ==
  ASSUME TypeOK, BootInv, NEW a \in Agents, NEW b \in Agents, AgentInv(a), AgentInv(b),
         Create(a)
  PROVE  AgentInv(b)'
<1> USE DEF Create, Update,
    bootVars, rowVars, connVars, sideVars, talkVars, NoRow, Listed, Pending
<1>1. CASE a # b
  <2>1. Same(b)
    BY <1>1 DEF TypeOK, Same
  <2> QED
    BY <2>1, Elsewhere
<1>2. CASE a = b
  <2> USE <1>2 DEF AgentInv
  <2>1. DownInv(b)'
    BY DEF TypeOK, DownInv, Up
  <2>2. UnusedInv(b)'
    BY DEF TypeOK, UnusedInv, DeletedInv
  <2>3. LinkInv(b)'
    BY DEF TypeOK, LinkInv, UnusedInv, BootInv, DownInv, Up, DeletedInv
  <2>4. RecordInv(b)'
    BY DEF TypeOK, RecordInv, LinkInv, UnusedInv, Up, DownInv
  <2>5. DeletedInv(b)'
    BY DEF TypeOK, DeletedInv, LinkInv, UnusedInv
  <2> QED
    BY <2>1, <2>2, <2>3, <2>4, <2>5
<1> QED
  BY <1>1, <1>2

(* Deleting one: its row goes from memory and disk, its unit is stopped. *)
LEMMA DeleteStep ==
  ASSUME TypeOK, BootInv, NEW a \in Agents, NEW b \in Agents, AgentInv(a), AgentInv(b),
         Delete(a)
  PROVE  AgentInv(b)'
<1> USE DEF Delete, Update,
    bootVars, rowVars, connVars, sideVars, talkVars, NoRow, Listed, Pending
<1>1. CASE a # b
  <2>1. Same(b)
    BY <1>1 DEF TypeOK, Same
  <2> QED
    BY <2>1, Elsewhere
<1>2. CASE a = b
  <2> USE <1>2 DEF AgentInv
  <2>1. DownInv(b)'
    BY DEF TypeOK, DownInv, Up
  <2>2. UnusedInv(b)'
    BY DEF TypeOK, UnusedInv, DeletedInv
  <2>3. LinkInv(b)'
    BY DEF TypeOK, LinkInv, UnusedInv, BootInv, DownInv, Up, DeletedInv
  <2>4. RecordInv(b)'
    BY DEF TypeOK, RecordInv, LinkInv, UnusedInv, Up, DownInv
  <2>5. DeletedInv(b)'
    BY DEF TypeOK, DeletedInv, LinkInv, UnusedInv
  <2> QED
    BY <2>1, <2>2, <2>3, <2>4, <2>5
<1> QED
  BY <1>1, <1>2

(* A sidecar ends or begins to listen; a deleted agent has none. *)
LEMMA SidecarStep ==
  ASSUME TypeOK, BootInv, NEW a \in Agents, NEW b \in Agents, AgentInv(a), AgentInv(b),
         SidecarEnds(a) \/ SidecarListens(a)
  PROVE  AgentInv(b)'
<1> USE DEF SidecarEnds, SidecarListens, Update,
    bootVars, rowVars, connVars, sideVars, talkVars, NoRow, Listed, Pending
<1>1. CASE a # b
  <2>1. Same(b)
    BY <1>1 DEF TypeOK, Same
  <2> QED
    BY <2>1, Elsewhere
<1>2. CASE a = b
  <2> USE <1>2 DEF AgentInv
  <2>1. DownInv(b)'
    BY DEF TypeOK, DownInv, Up
  <2>2. UnusedInv(b)'
    BY DEF TypeOK, UnusedInv, DeletedInv
  <2>3. LinkInv(b)'
    BY DEF TypeOK, LinkInv, UnusedInv, BootInv, DownInv, Up, DeletedInv
  <2>4. RecordInv(b)'
    BY DEF TypeOK, RecordInv, LinkInv, UnusedInv, Up, DownInv
  <2>5. DeletedInv(b)'
    BY DEF TypeOK, DeletedInv, LinkInv, UnusedInv
  <2> QED
    BY <2>1, <2>2, <2>3, <2>4, <2>5
<1> QED
  BY <1>1, <1>2

(* A step of the launch and the connection: a connect that fails marks the *)
(* row, one that succeeds was not cancelled.                               *)
LEMMA ConnectStep ==
  ASSUME TypeOK, BootInv, NEW a \in Agents, NEW b \in Agents, AgentInv(a), AgentInv(b),
         Connects(a) \/ LossSeen(a)
  PROVE  AgentInv(b)'
<1> USE DEF Connects, LossSeen, ProbeAlive, ProbeFree, ProbeUnsure, BecomesReady, GiveUp, Link,
    bootVars, rowVars, connVars, sideVars, talkVars, Pending
<1>1. CASE a # b
  <2>1. Same(b)
    BY <1>1 DEF TypeOK, Same, ConnectFails, MarkCrashed, Update
  <2> QED
    BY <2>1, Elsewhere
<1>2. CASE a = b
  <2> USE <1>2 DEF AgentInv
  <2>0. \/ UNCHANGED rowVars
        \/ /\ Listed(b) /\ Listed(b)' /\ disk'[b] = row'[b] /\ row'[b].status = "crashed"
           /\ row'[b].session = row[b].session
    <3>1. CASE UNCHANGED rowVars
      BY <3>1
    <3>2. CASE Listed(b) /\ Update(b, [row[b] EXCEPT !.status = "crashed"])
      BY <3>2 DEF TypeOK, Listed, Rows, Update, NoRow
    <3> QED
      BY <3>1, <3>2 DEF ConnectFails, MarkCrashed
  <2>1. (Listed(b)' <=> Listed(b)) /\ UNCHANGED <<bootVars, cache, talkVars, created, deleted>>
    BY <2>0 DEF Listed
  <2>2. DownInv(b)' /\ UnusedInv(b)'
    BY <2>0, <2>1 DEF TypeOK, DownInv, UnusedInv, Up, Listed, DeletedInv, ConnectFails
  <2>3. /\ conn'[b] = "open" => conn[b] = "open" \/ (conn[b] = "linking" /\ b \notin cancelled)
        /\ Pending(b)' => Pending(b) /\ cancelled' = cancelled
    BY DEF TypeOK, ConnectFails
  <2>4. LinkInv(b)'
    BY <2>0, <2>1, <2>3 DEF TypeOK, LinkInv, Listed, NoRow
  <2>5. RecordInv(b)'
    <3>1. disk'[b] # NoRow /\ disk'[b] # disk[b] => disk[b] # NoRow
      BY <2>0 DEF LinkInv, Listed
    <3>2. disk'[b].session = disk[b].session
      BY <2>0 DEF LinkInv
    <3> QED
      BY <2>0, <2>1, <3>1, <3>2 DEF RecordInv, Up
  <2>6. DeletedInv(b)'
    BY <2>0, <2>1 DEF TypeOK, DeletedInv, Listed, ConnectFails
  <2> QED
    BY <2>2, <2>4, <2>5, <2>6
<1> QED
  BY <1>1, <1>2

(* A session is opened; the host records it, the browser is about to. *)
LEMMA SessionStep ==
  ASSUME TypeOK, BootInv, NEW a \in Agents, NEW b \in Agents, AgentInv(a), AgentInv(b),
         NEW s \in Sessions, NEW ready \in BOOLEAN,
         HostOpens(a, s) \/ BrowserOpens(a, s, ready)
  PROVE  AgentInv(b)'
<1> USE DEF HostOpens, BrowserOpens, Attached, Opens, Serving, Update,
    bootVars, rowVars, connVars, sideVars, talkVars, NoRow, Listed, Pending
<1>1. CASE a # b
  <2>1. Same(b)
    BY <1>1 DEF TypeOK, Same
  <2> QED
    BY <2>1, Elsewhere
<1>2. CASE a = b
  <2> USE <1>2 DEF AgentInv
  <2>1. DownInv(b)'
    BY DEF TypeOK, DownInv, Up
  <2>2. UnusedInv(b)'
    BY DEF TypeOK, UnusedInv, DeletedInv
  <2>3. LinkInv(b)'
    BY DEF TypeOK, LinkInv, UnusedInv, BootInv, DownInv, Up, DeletedInv
  <2>4. RecordInv(b)'
    <3>1. CASE HostOpens(a, s)
      <4>1. Listed(b)
        BY <3>1 DEF LinkInv
      <4>2. /\ row'[b] = [status |-> "ready", session |-> s] /\ disk'[b] = row'[b] /\ Listed(b)'
            /\ cache'[b] = s /\ talk'[b] = s /\ s # 0 /\ patch'[b] = patch[b]
            /\ known'[b] \in {"both", "none"} /\ (known'[b] = "both" => patch[b] = NoPatch)
        BY <3>1, <4>1 DEF TypeOK, LinkInv
      <4> QED
        BY <4>2 DEF RecordInv
    <3>2. CASE BrowserOpens(a, s, ready)
      <4>1. /\ up = "on" /\ UNCHANGED <<up, row, disk>> /\ talk'[b] = s /\ s # 0 /\ Listed(b)
            /\ known'[b] = "wait"
            /\ patch'[b] = [session |-> s, replace |-> talk[b] # 0, ready |-> ready]
        BY <3>2 DEF TypeOK, LinkInv
      <4>2. patch'[b] # NoPatch /\ patch'[b].session = s /\ (talk[b] # 0 => patch'[b].replace)
        <5>1. patch'[b].session = s
          BY <4>1
        <5>2. ASSUME talk[b] # 0
              PROVE  patch'[b] = [session |-> s, replace |-> TRUE, ready |-> ready]
          BY <4>1, <5>2
        <5> QED
          BY <4>1, <5>1, <5>2 DEF NoPatch
      <4>3. patch'[b].replace \/ disk'[b].session = 0
        BY <4>1, <4>2 DEF RecordInv
      <4> QED
        BY <4>1, <4>2, <4>3 DEF RecordInv, Up
    <3> QED
      BY <3>1, <3>2
  <2>5. DeletedInv(b)'
    BY DEF TypeOK, DeletedInv, LinkInv, UnusedInv
  <2> QED
    BY <2>1, <2>2, <2>3, <2>4, <2>5
<1> QED
  BY <1>1, <1>2

(* A PATCH arrives, and is taken if it names the session the agent is on; *)
(* the row it leaves may say ready, of whatever connection.                *)
LEMMA PatchStep ==
  ASSUME TypeOK, BootInv, NEW a \in Agents, NEW b \in Agents, AgentInv(a), AgentInv(b),
         PatchArrives(a) \/ PatchLost(a)
  PROVE  AgentInv(b)'
<1> USE DEF PatchArrives, PatchLost, NoPatch,
    bootVars, rowVars, connVars, sideVars, talkVars, NoRow, Listed, Pending
<1>1. CASE a # b
  <2>1. Same(b)
    BY <1>1 DEF TypeOK, Same, Update
  <2> QED
    BY <2>1, Elsewhere
<1>2. CASE a = b
  <2> USE <1>2 DEF AgentInv
  <2>0. \/ UNCHANGED rowVars
        \/ /\ row[b] # NoRow /\ row'[b] # NoRow /\ disk'[b] = row'[b]
           /\ row'[b].status \in {row[b].status, "ready"} /\ up = "on"
           /\ row'[b].session = patch[b].session
    <3>1. CASE up = "on" /\ Listed(b) /\ Update(b, Patched(b))
      BY <3>1 DEF TypeOK, Rows, Statuses, Update, Patched
    <3> QED
      BY <3>1
  <2>1. /\ Listed(b)' <=> Listed(b)
        /\ UNCHANGED <<bootVars, cache, connVars, sideVars, fresh, talk, created, deleted>>
        /\ patch[b] # NoPatch /\ patch'[b] = NoPatch
    BY <2>0 DEF TypeOK
  <2>2. DownInv(b)' /\ UnusedInv(b)' /\ DeletedInv(b)'
    BY <2>0, <2>1 DEF DownInv, UnusedInv, DeletedInv, Up
  <2>3. LinkInv(b)'
    BY <2>0, <2>1 DEF LinkInv
  <2>4. RecordInv(b)'
    <3>1. CASE known[b] = "wait" /\ PatchArrives(b)
      <4>1. known'[b] = "row" /\ patch[b].session = talk[b] /\ Up
        BY <3>1 DEF TypeOK, RecordInv
      <4>2. CASE Listed(b)
        <5>1. Update(b, Patched(b))
          BY <3>1, <4>2 DEF RecordInv, LinkInv
        <5>2. row'[b].session = patch[b].session /\ disk'[b] = row'[b] /\ row'[b] # NoRow
          BY <5>1, <4>2 DEF TypeOK, Rows, Statuses, Update, Patched
        <5> QED
          BY <2>1, <4>1, <5>2 DEF RecordInv
      <4>3. CASE ~Listed(b)
        <5>1. disk'[b] = NoRow /\ ~Listed(b)'
          BY <2>0, <3>1, <4>3 DEF RecordInv
        <5>2. talk'[b] # 0
          BY <2>1 DEF RecordInv
        <5> QED
          BY <2>1, <4>1, <5>1, <5>2 DEF RecordInv
      <4> QED
        BY <4>2, <4>3
    <3>2. CASE known[b] # "wait" /\ PatchArrives(b)
      BY <2>0, <2>1, <3>2 DEF RecordInv
    <3>3. CASE PatchLost(b)
      BY <2>1, <3>3 DEF TypeOK, RecordInv, Up
    <3> QED
      BY <3>1, <3>2, <3>3
  <2> QED
    BY <2>2, <2>3, <2>4
<1> QED
  BY <1>1, <1>2

(* A turn of the loops at boot. *)
LEMMA BootTurnStep ==
  ASSUME TypeOK, BootInv, NEW a \in Agents, NEW b \in Agents, AgentInv(a), AgentInv(b),
         Probes(a) \/ Reattaches(a)
  PROVE  AgentInv(b)'
<1> USE DEF Probes, Reattaches, Update,
    bootVars, rowVars, connVars, sideVars, talkVars, NoRow, Listed, Pending
<1>1. CASE a # b
  <2>1. Same(b)
    BY <1>1 DEF TypeOK, Same
  <2> QED
    BY <2>1, Elsewhere
<1>2. CASE a = b
  <2> USE <1>2 DEF AgentInv
  <2>1. DownInv(b)'
    BY DEF TypeOK, DownInv, Up
  <2>2. UnusedInv(b)'
    BY DEF TypeOK, UnusedInv, DeletedInv
  <2>3. LinkInv(b)'
    BY DEF TypeOK, LinkInv, UnusedInv, BootInv, DownInv, Up, DeletedInv
  <2>4. RecordInv(b)'
    BY DEF TypeOK, RecordInv, LinkInv, UnusedInv, Up, DownInv
  <2>5. DeletedInv(b)'
    BY DEF TypeOK, DeletedInv, LinkInv, UnusedInv
  <2> QED
    BY <2>1, <2>2, <2>3, <2>4, <2>5
<1> QED
  BY <1>1, <1>2

(* The backend goes down: the snapshot says what the rows said. *)
LEMMA DownStep ==
  ASSUME TypeOK, NEW b \in Agents, AgentInv(b), Down,
         \/ disk'[b] \in {disk[b], NoRow}
         \/ /\ Listed(b) /\ disk'[b] # NoRow /\ disk'[b].session = row[b].session,
         side'[b] \in {side[b], "none"}, file'[b] => file[b]
  PROVE  AgentInv(b)'
<1> USE DEF Down, AgentInv
<1>1. /\ up' = "off" /\ row'[b] = NoRow /\ cache'[b] = 0 /\ conn'[b] = "none"
      /\ b \notin todo' /\ b \notin adopted' /\ patch'[b] = NoPatch
      /\ talk'[b] = talk[b] /\ created' = created /\ deleted' = deleted
      /\ known'[b] # "wait" /\ (known'[b] \in {"row", "both"} => known'[b] = known[b])
  BY DEF TypeOK
<1>2. DownInv(b)' /\ UnusedInv(b)'
  BY <1>1 DEF DownInv, UnusedInv, Listed
<1>3. LinkInv(b)'
  BY <1>1 DEF LinkInv, Listed, Pending, NoRow
<1>4. RecordInv(b)'
  <2>1. disk'[b] # NoRow => disk[b] # NoRow /\ disk'[b].session = disk[b].session
    BY DEF LinkInv, Listed
  <2>2. disk'[b] = NoRow => disk'[b].session = 0
    BY DEF NoRow
  <2> QED
    BY <1>1, <2>1, <2>2 DEF RecordInv, Up
<1>5. DeletedInv(b)'
  BY <1>1 DEF DeletedInv, Listed
<1> QED
  BY <1>2, <1>3, <1>4, <1>5

(* The rows come back: live those that answered, as they were saved. *)
LEMMA RestoreStep ==
  ASSUME TypeOK, BootInv, NEW b \in Agents, AgentInv(b), Restore PROVE AgentInv(b)'
<1> USE DEF Restore, AgentInv, connVars, sideVars
<1>1. /\ up = "scan" /\ up' = "connect" /\ conn'[b] = "none" /\ patch'[b] = NoPatch
      /\ ~(b \in adopted /\ b \in retained)
      /\ UNCHANGED <<talk, side, file, patch, created, deleted>> /\ todo' = adopted /\ adopted' = {}
  BY DEF DownInv, Up, BootInv
<1>2. /\ row'[b] = IF b \in adopted THEN Restored(b) ELSE NoRow
      /\ disk'[b] = IF b \in retained THEN disk[b] ELSE row'[b]
      /\ cache'[b] = row'[b].session
  BY DEF Seeds
<1>3. /\ Restored(b) # NoRow /\ Restored(b).status = "starting"
      /\ Restored(b).session = IF disk[b] # NoRow THEN disk[b].session ELSE 0
  BY DEF Restored, TypeOK, Rows, NoRow
<1>4. DownInv(b)' /\ UnusedInv(b)' /\ DeletedInv(b)'
  BY <1>1, <1>2 DEF DownInv, UnusedInv, DeletedInv, Up, NoRow
<1>5. LinkInv(b)'
  BY <1>1, <1>2, <1>3 DEF LinkInv, Listed, Pending, NoRow
<1>6. RecordInv(b)'
  <2>1. known'[b] \in {"row", "both", "wait"} =>
          /\ b \in adopted /\ disk[b] # NoRow /\ disk[b].session = talk[b] /\ known'[b] = "both"
    BY DEF RecordInv
  <2>2. talk[b] = 0 => disk'[b].session = 0
    BY <1>2, <1>3 DEF RecordInv, NoRow
  <2> QED
    BY <1>1, <1>2, <1>3, <2>1, <2>2 DEF RecordInv, Up, Listed
<1> QED
  BY <1>4, <1>5, <1>6

LEMMA InvStep ==
  TypeOK /\ BootInv /\ (\A a \in Agents : AgentInv(a)) /\ [Next]_vars
    => \A b \in Agents : AgentInv(b)'
<1> SUFFICES ASSUME TypeOK, BootInv, \A a \in Agents : AgentInv(a), [Next]_vars,
                    NEW b \in Agents
             PROVE  AgentInv(b)'
  OBVIOUS
<1>1. ASSUME NEW a \in Agents,
             Create(a) \/ Delete(a) \/ Connects(a) \/ LossSeen(a) \/ SidecarEnds(a)
             \/ SidecarListens(a) \/ PatchArrives(a) \/ PatchLost(a)
      PROVE  AgentInv(b)'
  BY <1>1, CreateStep, DeleteStep, ConnectStep, SidecarStep, PatchStep
<1>2. ASSUME NEW a \in Agents, Probes(a) \/ Reattaches(a) PROVE AgentInv(b)'
  BY <1>2, BootTurnStep
<1>3. ASSUME NEW a \in Agents, NEW s \in Sessions, NEW ready \in BOOLEAN,
             HostOpens(a, s) \/ BrowserOpens(a, s, ready)
      PROVE  AgentInv(b)'
  BY <1>3, SessionStep
<1>4. ASSUME NEW a \in Agents, DiesInDelete(a) PROVE AgentInv(b)'
  <2>1. IF a = b THEN Listed(b) /\ disk'[b] = [row[b] EXCEPT !.status = "closed"]
                 ELSE disk'[b] = row[b]
    BY <1>4 DEF DiesInDelete, TypeOK
  <2>2. \/ disk'[b] = NoRow
        \/ Listed(b) /\ disk'[b] # NoRow /\ disk'[b].session = row[b].session
    <3>1. CASE a = b
      BY <2>1, <3>1 DEF TypeOK, Rows, NoRow, Listed
    <3>2. CASE a # b /\ Listed(b)
      BY <2>1, <3>2 DEF Listed
    <3>3. CASE a # b /\ ~Listed(b)
      BY <2>1, <3>3 DEF Listed
    <3> QED
      BY <3>1, <3>2, <3>3
  <2> QED
    BY <1>4, <2>2, DownStep DEF DiesInDelete, sideVars
<1>5. ASSUME NEW kill \in BOOLEAN, Stops(kill) PROVE AgentInv(b)'
  BY <1>5, DownStep DEF Stops
<1>6. CASE Boots
  <2>1. /\ up = "off" /\ up' = "scan" /\ adopted = {} /\ adopted' = adopted
        /\ (b \in todo' => file[b]) /\ UNCHANGED <<rowVars, cache, connVars, sideVars, talkVars,
                                                     created, deleted>>
    BY <1>6 DEF Boots, BootInv
  <2> QED
    BY <2>1 DEF AgentInv, DownInv, UnusedInv, LinkInv, RecordInv, DeletedInv, Listed, Pending, Up,
                rowVars, connVars, sideVars, talkVars
<1>7. CASE Serves
  BY <1>7 DEF Serves, AgentInv, DownInv, UnusedInv, LinkInv, RecordInv, DeletedInv, Listed,
              Pending, Up, rowVars, connVars, sideVars, talkVars
<1>8. CASE Restore
  BY <1>8, RestoreStep
<1>9. CASE UNCHANGED vars
  <2>1. Same(b)
    BY <1>9 DEF Same, vars, bootVars, rowVars, connVars, sideVars, talkVars
  <2> QED
    BY <2>1, Elsewhere
<1> QED
  BY <1>1, <1>2, <1>3, <1>4, <1>5, <1>6, <1>7, <1>8, <1>9 DEF Next

LEMMA IInvCorrect == Spec => []IInv
<1>1. Init => IInv
  BY InitTyped, InitInv DEF IInv
<1>2. IInv /\ [Next]_vars => IInv'
  BY TypeStep, BootStep, InvStep DEF IInv
<1> QED
  BY <1>1, <1>2, PTL DEF Spec

-----------------------------------------------------------------------------
(* The properties. *)

(* A connection that ends takes the word ready with it, and a connect that  *)
(* fails never leaves it.                                                   *)
LEMMA NoLossMisleads ==
  ASSUME TypeOK, NEW a \in Agents, NEW b \in Agents, AgentInv(a), AgentInv(b),
         Connects(a) \/ LossSeen(a), ~Misleads(b)
  PROVE  ~Misleads(b)'
<1> USE DEF Misleads, Connects, ProbeAlive, ProbeFree, ProbeUnsure, BecomesReady, GiveUp, Link,
            LossSeen, bootVars, rowVars, connVars, sideVars, talkVars
<1>1. CASE a # b
  BY <1>1 DEF TypeOK, ConnectFails, MarkCrashed, Update
<1>2. CASE a = b
  <2>1. CASE LossSeen(b)
    <3>1. Listed(b) /\ row[b].status # "closed"
      BY <2>1 DEF AgentInv, LinkInv
    <3>2. row'[b].status = "crashed"
      BY <2>1, <3>1 DEF TypeOK, MarkCrashed, Update, Rows, Listed
    <3> QED
      BY <3>2
  <2>2. CASE Connects(b)
    <3>1. conn[b] # "open" /\ UNCHANGED up
      BY <2>2
    <3>2. row'[b].status # "ready" \/ row'[b] = row[b]
      BY <2>2 DEF TypeOK, ConnectFails, MarkCrashed, Update, Rows, Listed
    <3> QED
      BY <3>1, <3>2
  <2> QED
    BY <1>2, <2>1, <2>2
<1> QED
  BY <1>1, <1>2

(* Everything else but a PATCH that carries the status. *)
LEMMA OthersMisleadNot ==
  ASSUME IInv, [Next]_vars, NEW b \in Agents, Misleads(b)', ~Misleads(b)
  PROVE  patch[b].ready /\ patch'[b] = NoPatch
<1> USE DEF IInv, Misleads, bootVars, rowVars, connVars, sideVars, talkVars
<1>1. ASSUME NEW a \in Agents, Create(a) \/ Delete(a) PROVE FALSE
  BY <1>1 DEF Create, Delete, Update, TypeOK, NoRow, AgentInv, DeletedInv
<1>2. ASSUME NEW a \in Agents, Connects(a) \/ LossSeen(a) PROVE FALSE
  BY <1>2, NoLossMisleads
<1>3. ASSUME NEW a \in Agents, SidecarEnds(a) \/ SidecarListens(a) \/ PatchLost(a) PROVE FALSE
  BY <1>3 DEF SidecarEnds, SidecarListens, PatchLost
<1>4. ASSUME NEW a \in Agents, PatchArrives(a) PROVE patch[b].ready /\ patch'[b] = NoPatch
  <2>1. up = "on" /\ conn' = conn /\ patch' = [patch EXCEPT ![a] = NoPatch]
    BY <1>4 DEF PatchArrives
  <2>2. row'[b] # row[b] => a = b /\ row'[b] = Patched(b)
    BY <1>4 DEF PatchArrives, Update, TypeOK
  <2>3. row'[b] # row[b] /\ row'[b].status # row[b].status
    BY <2>1, <1>4 DEF PatchArrives
  <2>4. patch[b].ready
    BY <2>2, <2>3 DEF Patched
  <2> QED
    BY <2>1, <2>2, <2>3, <2>4 DEF TypeOK
<1>5. ASSUME NEW a \in Agents, Probes(a) \/ Reattaches(a) \/ DiesInDelete(a) PROVE FALSE
  BY <1>5 DEF Probes, Reattaches, DiesInDelete, Down
<1>6. ASSUME NEW a \in Agents, NEW s \in Sessions, NEW ready \in BOOLEAN,
             HostOpens(a, s) \/ BrowserOpens(a, s, ready)
      PROVE  FALSE
  BY <1>6 DEF HostOpens, BrowserOpens, Attached, Update, Serving, TypeOK
<1>7. ASSUME NEW kill \in BOOLEAN, Stops(kill) PROVE FALSE
  BY <1>7 DEF Stops, Down
<1>8. CASE Boots \/ Restore \/ Serves
  BY <1>8 DEF Boots, Restore, Serves, AgentInv, LinkInv
<1>9. CASE UNCHANGED vars
  BY <1>9 DEF vars
<1> QED
  BY <1>1, <1>2, <1>3, <1>4, <1>5, <1>6, <1>7, <1>8, <1>9 DEF Next

(* The row follows every way a connection ends, and no boot brings a row    *)
(* back as ready: where a viewer is shown ready and nothing leads to the    *)
(* agent, a PATCH that carried the status came late.                        *)
THEOREM OnlyPatch == Spec => OnlyPatchMisleads
<1> DEFINE A == \A a \in Agents :
                  Misleads(a)' /\ ~Misleads(a) => patch[a].ready /\ patch'[a] = NoPatch
<1>1. IInv /\ [Next]_vars => [A]_vars
  BY OthersMisleadNot
<1>2. [][A]_vars => OnlyPatchMisleads
  BY DEF OnlyPatchMisleads
<1> QED
  BY <1>1, <1>2, IInvCorrect, PTL DEF Spec

(* A recorded session is the one the agent is on, through restarts.         *)
THEOREM RecordIsTrue == Spec => []RowNamesSession
<1>1. IInv => RowNamesSession
  BY DEF IInv, AgentInv, LinkInv, RecordInv, RowNamesSession, Listed
<1> QED
  BY <1>1, IInvCorrect, PTL

(* The next session host resumes what the last one recorded.                *)
THEOREM NextHostResumes == Spec => []ConversationKept
<1>1. IInv => ConversationKept
  BY DEF IInv, AgentInv, RecordInv, ConversationKept, Up
<1> QED
  BY <1>1, IInvCorrect, PTL

(* A deleted agent stays deleted, through any number of restarts.           *)
THEOREM DeletedIsGone == Spec => []DeletedStaysGone
<1>1. IInv => DeletedStaysGone
  BY DEF IInv, TypeOK, AgentInv, DeletedInv, DeletedStaysGone, Listed
<1> QED
  BY <1>1, IInvCorrect, PTL
=============================================================================
