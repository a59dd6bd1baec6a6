---------------------------- MODULE AgentLifecycle ----------------------------
(***************************************************************************)
(* Agents that outlive the backend.  Each runs in a sidecar, a systemd     *)
(* unit of its own behind a Unix socket; the backend keeps a row per agent *)
(* in memory and on disk, and after a restart finds the agents again by    *)
(* probing the sockets.  The model joins the orchestrator (create, delete, *)
(* crash), the launcher and the connection through a sidecar, the          *)
(* persistent registry, the adoption and reattachment at boot, and the two *)
(* ways a session id is recorded: the session host's, which writes the row *)
(* and the cache, and a browser's PATCH, which writes the row.             *)
(*                                                                         *)
(* A step is one macrotask of the backend with its microtasks (a change of *)
(* the registry is on disk at its end), or one event of a sidecar.         *)
(***************************************************************************)
EXTENDS Naturals

CONSTANTS
  Agents,       \* agent ids; each is created once
  MaxSessions,  \* bound: sessions opened per agent
  MaxBoots      \* bound: restarts

ASSUME LifecycleAssumption == MaxSessions \in Nat /\ MaxBoots \in Nat

VARIABLES
  up,         \* the backend: off, restoring rows, reattaching, or serving
  boots,      \* number of restarts
  row,        \* the registry in memory
  disk,       \* the snapshot file
  cache,      \* acpSessionIdCache (0: no entry)
  conn,       \* the connection registry with its pending connects
  cancelled,  \* pending connects a close() has cancelled
  side,       \* the sidecar process of each agent
  file,       \* its socket and meta file exist
  todo,       \* boot: sockets still to probe, then agents still to reattach
  adopted,    \* boot: agents that answered
  retained,   \* the rows restore() kept on disk without making them live
  fresh,      \* sessions the agent has opened
  talk,       \* the session it was last put on (0: none)
  patch,      \* a browser's PATCH on its way
  created,    \* ids used
  deleted,    \* history: deleted, and not while the first probe was out
  known       \* history: who knows talk: both, row, wait (PATCH on its way), none

bootVars == <<up, boots, todo, adopted, retained>>
rowVars  == <<row, disk>>
connVars == <<conn, cancelled>>
sideVars == <<side, file>>
talkVars == <<fresh, talk, patch, known>>
vars == <<bootVars, rowVars, cache, connVars, sideVars, talkVars, created, deleted>>

Sessions == 0 .. MaxSessions
Statuses == {"starting", "ready", "crashed", "closed"}
Rows     == [status : Statuses, session : Sessions]
Patches  == [session : Sessions, replace : BOOLEAN, ready : BOOLEAN]
NoRow    == [status |-> "none", session |-> 0]
NoPatch  == [session |-> 0, replace |-> FALSE, ready |-> FALSE]

TypeOK ==
  /\ up \in {"off", "scan", "connect", "on"}
  /\ boots \in 0 .. MaxBoots
  /\ row \in [Agents -> Rows \union {NoRow}]
  /\ disk \in [Agents -> Rows \union {NoRow}]
  /\ cache \in [Agents -> Sessions]
  /\ conn \in [Agents -> {"none", "probing", "waiting", "linking", "open"}]
  /\ cancelled \subseteq Agents
  /\ side \in [Agents -> {"none", "starting", "serving"}]
  /\ file \in [Agents -> BOOLEAN]
  /\ todo \subseteq Agents /\ adopted \subseteq Agents /\ retained \subseteq Agents
  /\ fresh \in [Agents -> Sessions] /\ talk \in [Agents -> Sessions]
  /\ patch \in [Agents -> Patches]
  /\ created \subseteq Agents /\ deleted \subseteq Agents
  /\ known \in [Agents -> {"both", "row", "wait", "none"}]

Init ==
  /\ up = "on" /\ boots = 0
  /\ row = [a \in Agents |-> NoRow] /\ disk = [a \in Agents |-> NoRow]
  /\ cache = [a \in Agents |-> 0]
  /\ conn = [a \in Agents |-> "none"] /\ cancelled = {}
  /\ side = [a \in Agents |-> "none"] /\ file = [a \in Agents |-> FALSE]
  /\ todo = {} /\ adopted = {} /\ retained = {}
  /\ fresh = [a \in Agents |-> 0] /\ talk = [a \in Agents |-> 0]
  /\ patch = [a \in Agents |-> NoPatch]
  /\ created = {} /\ deleted = {}
  /\ known = [a \in Agents |-> "none"]

-----------------------------------------------------------------------------
(* Helpers. *)

Listed(a)  == row[a] # NoRow
Pending(a) == conn[a] \in {"probing", "waiting", "linking"}

(* registry.update: the row changes and the snapshot is written. *)
Update(a, r) ==
  /\ row' = [row EXCEPT ![a] = r]
  /\ disk' = row'

(* onCrash, and the catch block of createAndSpawn: the row of an agent that *)
(* is not being deleted says crashed.                                       *)
MarkCrashed(a) ==
  IF Listed(a) /\ row[a].status # "closed"
  THEN Update(a, [row[a] EXCEPT !.status = "crashed"])
  ELSE UNCHANGED rowVars

(* connect throws.  createAndSpawn marks the row; at boot the row is kept. *)
ConnectFails(a) ==
  /\ conn' = [conn EXCEPT ![a] = "none"]
  /\ cancelled' = cancelled \ {a}
  /\ IF up = "on" THEN MarkCrashed(a) ELSE UNCHANGED rowVars

(* onSessionAttached: the row and the cache, unless the agent is going. *)
Attached(a, s) ==
  IF Listed(a) /\ row[a].status # "closed"
  THEN /\ Update(a, [status |-> "ready", session |-> s])
       /\ cache' = [cache EXCEPT ![a] = s]
  ELSE UNCHANGED <<rowVars, cache>>

-----------------------------------------------------------------------------
(* Creating an agent: createAndSpawn, connect, connectViaSidecar. *)

Create(a) ==
  /\ up = "on" /\ a \notin created
  /\ created' = created \union {a}
  /\ Update(a, [status |-> "starting", session |-> 0])
  /\ conn' = [conn EXCEPT ![a] = "probing"]
  /\ known' = [known EXCEPT ![a] = "both"]
  /\ UNCHANGED <<bootVars, cache, cancelled, sideVars, fresh, talk, patch, deleted>>

(* launchOrAttachAgent found a sidecar that answers. *)
ProbeAlive(a) ==
  /\ conn[a] = "probing" /\ side[a] = "serving"
  /\ conn' = [conn EXCEPT ![a] = "linking"]
  /\ UNCHANGED <<bootVars, rowVars, cache, cancelled, sideVars, talkVars, created, deleted>>

(* Nobody listens: a socket left behind is unlinked and a unit is started,  *)
(* which fails when one of that name runs already.                          *)
ProbeFree(a) ==
  /\ conn[a] = "probing" /\ side[a] # "serving"
  /\ file' = [file EXCEPT ![a] = FALSE]
  /\ IF side[a] = "starting"
     THEN ConnectFails(a) /\ UNCHANGED side
     ELSE /\ side' = [side EXCEPT ![a] = "starting"]
          /\ conn' = [conn EXCEPT ![a] = "waiting"]
          /\ UNCHANGED <<rowVars, cancelled>>
  /\ UNCHANGED <<bootVars, cache, talkVars, created, deleted>>

(* The probe gets no answer in time, or fails in a way that proves nothing: *)
(* no launch.                                                               *)
ProbeUnsure(a) ==
  /\ conn[a] = "probing" /\ file[a]
  /\ ConnectFails(a)
  /\ UNCHANGED <<bootVars, cache, sideVars, talkVars, created, deleted>>

BecomesReady(a) ==
  /\ conn[a] = "waiting" /\ side[a] = "serving"
  /\ conn' = [conn EXCEPT ![a] = "linking"]
  /\ UNCHANGED <<bootVars, rowVars, cache, cancelled, sideVars, talkVars, created, deleted>>

(* Mutant: the poll has no deadline; only a cancelled connect leaves it. *)
PollForever(a) ==
  /\ conn[a] = "waiting" /\ a \in cancelled
  /\ ConnectFails(a)
  /\ file' = [file EXCEPT ![a] = @ /\ side[a] = "serving"]
  /\ UNCHANGED <<bootVars, cache, side, talkVars, created, deleted>>

(* Thirty seconds without an answer: connect throws, the unit stays.  The   *)
(* poll has unlinked a socket nobody listens on.                            *)
GiveUp(a) ==
  /\ conn[a] = "waiting"
  /\ ConnectFails(a)
  /\ file' = [file EXCEPT ![a] = @ /\ side[a] = "serving"]
  /\ UNCHANGED <<bootVars, cache, side, talkVars, created, deleted>>

(* connectSidecar: the socket is connected, unless the sidecar has gone or  *)
(* close() has cancelled the connect; then it is disconnected again.        *)
Link(a) ==
  /\ conn[a] = "linking"
  /\ IF side[a] = "serving" /\ a \notin cancelled
     THEN conn' = [conn EXCEPT ![a] = "open"] /\ UNCHANGED <<rowVars, cancelled>>
     ELSE ConnectFails(a)
  /\ UNCHANGED <<bootVars, cache, sideVars, talkVars, created, deleted>>

-----------------------------------------------------------------------------
(* The end of an agent. *)

(* Mutant: close() only disconnects, and nobody stops the unit. *)
DeleteOnlyCloses(a) ==
  /\ up = "on" /\ Listed(a)
  /\ Update(a, NoRow)
  /\ cancelled' = IF Pending(a) THEN cancelled \union {a} ELSE cancelled
  /\ conn' = IF Pending(a) THEN conn ELSE [conn EXCEPT ![a] = "none"]
  /\ deleted' = IF conn[a] = "probing" THEN deleted ELSE deleted \union {a}
  /\ UNCHANGED <<bootVars, cache, sideVars, talkVars, created>>

(* deleteAndKill: close the connection or cancel its connect, stop the unit *)
(* (its sidecar removes its files), and delete the row.                     *)
Delete(a) ==
  /\ up = "on" /\ Listed(a)
  /\ Update(a, NoRow)
  /\ cancelled' = IF Pending(a) THEN cancelled \union {a} ELSE cancelled
  /\ conn' = IF Pending(a) THEN conn ELSE [conn EXCEPT ![a] = "none"]
  /\ side' = [side EXCEPT ![a] = "none"]
  /\ file' = [file EXCEPT ![a] = @ /\ side[a] # "serving"]
  /\ deleted' = IF conn[a] = "probing" THEN deleted ELSE deleted \union {a}
  /\ UNCHANGED <<bootVars, cache, talkVars, created>>

(* The process exits and removes its files, or is killed and leaves them. *)
SidecarEnds(a) ==
  /\ side[a] # "none"
  /\ side' = [side EXCEPT ![a] = "none"]
  /\ \/ file' = [file EXCEPT ![a] = FALSE]
     \/ UNCHANGED file
  /\ UNCHANGED <<bootVars, rowVars, cache, connVars, talkVars, created, deleted>>

SidecarListens(a) ==
  /\ side[a] = "starting"
  /\ side' = [side EXCEPT ![a] = "serving"]
  /\ file' = [file EXCEPT ![a] = TRUE]
  /\ UNCHANGED <<bootVars, rowVars, cache, connVars, talkVars, created, deleted>>

(* The backend sees the socket close: onCrash. *)
LossSeen(a) ==
  /\ conn[a] = "open" /\ side[a] # "serving"
  /\ conn' = [conn EXCEPT ![a] = "none"]
  /\ MarkCrashed(a)
  /\ UNCHANGED <<bootVars, cache, cancelled, sideVars, talkVars, created, deleted>>

-----------------------------------------------------------------------------
(* Sessions. *)

(* A session the agent can be put on: one it has had, or a new one. *)
Opens(a, s) ==
  /\ s \in 1 .. MaxSessions
  /\ s <= fresh[a] + 1
  /\ fresh' = [fresh EXCEPT ![a] = IF s > @ THEN s ELSE @]
  /\ talk' = [talk EXCEPT ![a] = s]

Serving(a) == up = "on" /\ conn[a] = "open" /\ side[a] = "serving"

(* A session host is created: it reattaches to the session in the cache, or *)
(* opens a new one, if there is none or it cannot be loaded; or a viewer    *)
(* switches the session by rpc.  Both report it with onSessionAttached.     *)
HostOpens(a, s) ==
  /\ Serving(a)
  /\ Opens(a, s)
  /\ Attached(a, s)
  /\ known' = [known EXCEPT ![a] = IF patch[a] = NoPatch THEN "both" ELSE "none"]
  /\ UNCHANGED <<bootVars, connVars, sideVars, patch, created, deleted>>

(* A browser opens a session over its WebSocket and sends a PATCH, which it *)
(* waits for.  With the session it may send the status, ready or nothing.   *)
BrowserOpens(a, s, ready) ==
  /\ Serving(a) /\ patch[a] = NoPatch
  /\ Opens(a, s)
  /\ patch' = [patch EXCEPT ![a] = [session |-> s, replace |-> talk[a] # 0, ready |-> ready]]
  /\ known' = [known EXCEPT ![a] = "wait"]
  /\ UNCHANGED <<bootVars, rowVars, cache, connVars, sideVars, created, deleted>>

(* The row a PATCH leaves. *)
Patched(a) ==
  [status  |-> IF patch[a].ready THEN "ready" ELSE row[a].status,
   session |-> patch[a].session]

(* Mutant: a PATCH never replaces a session. *)
PatchFirstOnly(a) ==
  /\ patch[a] # NoPatch /\ up = "on"
  /\ IF Listed(a) /\ row[a].session = 0
     THEN Update(a, Patched(a))
     ELSE UNCHANGED rowVars
  /\ patch' = [patch EXCEPT ![a] = NoPatch]
  /\ known' = [known EXCEPT ![a] = IF @ = "wait" THEN "row" ELSE @]
  /\ UNCHANGED <<bootVars, cache, connVars, sideVars, fresh, talk, created, deleted>>

(* PATCH /api/agents/:id: the row takes the session, and the status if one  *)
(* is sent, whatever has become of the connection; the cache does not.  409 *)
(* if the agent is ready with another session and none is to be replaced.   *)
PatchArrives(a) ==
  /\ patch[a] # NoPatch /\ up = "on"
  /\ IF /\ Listed(a)
        /\ \/ patch[a].replace \/ row[a].status # "ready"
           \/ row[a].session \in {0, patch[a].session}
     THEN Update(a, Patched(a))
     ELSE UNCHANGED rowVars
  /\ patch' = [patch EXCEPT ![a] = NoPatch]
  /\ known' = [known EXCEPT ![a] = IF @ = "wait" THEN "row" ELSE @]
  /\ UNCHANGED <<bootVars, cache, connVars, sideVars, fresh, talk, created, deleted>>

(* The tab is closed before its PATCH has left. *)
PatchLost(a) ==
  /\ patch[a] # NoPatch
  /\ patch' = [patch EXCEPT ![a] = NoPatch]
  /\ known' = [known EXCEPT ![a] = IF @ = "wait" THEN "none" ELSE @]
  /\ UNCHANGED <<bootVars, rowVars, cache, connVars, sideVars, fresh, talk, created, deleted>>

-----------------------------------------------------------------------------
(* Restart. *)

(* Everything in memory goes with the process; PATCHes meet no listener. *)
Down ==
  /\ up' = "off"
  /\ row' = [a \in Agents |-> NoRow]
  /\ cache' = [a \in Agents |-> 0]
  /\ conn' = [a \in Agents |-> "none"] /\ cancelled' = {}
  /\ todo' = {} /\ adopted' = {} /\ retained' = {}
  /\ patch' = [a \in Agents |-> NoPatch]
  /\ known' = [a \in Agents |-> IF known[a] = "wait" THEN "none" ELSE known[a]]
  /\ UNCHANGED <<boots, fresh, talk, created, deleted>>

(* The backend is stopped or dies.  A shutdown that was asked to kill stops *)
(* the units of the agents it is connected to; otherwise they stay.         *)
Stops(kill) ==
  /\ up # "off" /\ (kill => up = "on")
  /\ Down
  /\ side' = [a \in Agents |-> IF kill /\ conn[a] = "open" THEN "none" ELSE side[a]]
  /\ file' = [a \in Agents |-> file[a] /\ ~(kill /\ conn[a] = "open" /\ side[a] = "serving")]
  /\ UNCHANGED disk

(* It dies inside deleteAndKill, with the row marked closed. *)
DiesInDelete(a) ==
  /\ up = "on" /\ Listed(a)
  /\ Down
  /\ disk' = [row EXCEPT ![a].status = "closed"]
  /\ UNCHANGED sideVars

(* The new process reads the snapshot and lists the socket directory. *)
Boots ==
  /\ up = "off" /\ boots < MaxBoots
  /\ up' = "scan" /\ boots' = boots + 1
  /\ todo' = {a \in Agents : file[a]}
  /\ UNCHANGED <<rowVars, cache, connVars, sideVars, adopted, retained, talkVars, created, deleted>>

(* adoptLiveAgents probes one socket: it answers, nobody listens (the file  *)
(* goes), or there is no telling, and the row, if any, is to be retained.   *)
Probes(a) ==
  /\ up = "scan" /\ a \in todo
  /\ todo' = todo \ {a}
  /\ \/ /\ side[a] = "serving"
        /\ adopted' = adopted \union {a}
        /\ UNCHANGED <<retained, file>>
     \/ /\ side[a] # "serving"
        /\ file' = [file EXCEPT ![a] = FALSE]
        /\ UNCHANGED <<adopted, retained>>
     \/ /\ retained' = IF disk[a] # NoRow THEN retained \union {a} ELSE retained
        /\ UNCHANGED <<adopted, file>>
  /\ UNCHANGED <<up, boots, rowVars, cache, connVars, side, talkVars, created, deleted>>

(* Mutant: a row comes back as it was. *)
RestoredAsItWas(a) ==
  IF disk[a] # NoRow THEN disk[a] ELSE [status |-> "starting", session |-> 0]

(* Mutant: a status the store's schema does not have. *)
RestoredAsRestored(a) ==
  IF disk[a] # NoRow THEN [disk[a] EXCEPT !.status = "restored"]
  ELSE [status |-> "starting", session |-> 0]

(* The row of an agent that answered: the saved one, or one rebuilt from    *)
(* the meta file.                                                           *)
Restored(a) ==
  IF disk[a] # NoRow THEN [disk[a] EXCEPT !.status = "starting"]
  ELSE [status |-> "starting", session |-> 0]

(* Mutant: the rows come back, the session ids do not. *)
SeedNothing(newRow) == [a \in Agents |-> 0]

(* restorePersistedAgents seeds acpSessionIdCache from the adopted rows. *)
Seeds(newRow) == [a \in Agents |-> newRow[a].session]

(* restore: the agents that answered are live, the retained rows stay on    *)
(* disk, all others go.                                                     *)
Restore ==
  /\ up = "scan" /\ todo = {}
  /\ up' = "connect"
  /\ row' = [a \in Agents |-> IF a \in adopted THEN Restored(a) ELSE NoRow]
  /\ disk' = [a \in Agents |-> IF a \in retained THEN disk[a] ELSE row'[a]]
  /\ cache' = Seeds(row')
  /\ todo' = adopted
  /\ known' = [a \in Agents |->
                 IF a \in adopted /\ disk[a] # NoRow /\ known[a] \in {"row", "both"}
                 THEN "both" ELSE "none"]
  /\ adopted' = {} /\ retained' = {}
  /\ UNCHANGED <<boots, connVars, sideVars, fresh, talk, patch, created, deleted>>

(* The adopted agents are connected one after the other, as at creation. *)
Reattaches(a) ==
  /\ up = "connect" /\ a \in todo
  /\ \A b \in Agents : ~Pending(b)
  /\ conn' = [conn EXCEPT ![a] = "probing"]
  /\ todo' = todo \ {a}
  /\ UNCHANGED <<up, boots, adopted, retained, rowVars, cache, cancelled, sideVars, talkVars,
                 created, deleted>>

(* The server listens. *)
Serves ==
  /\ up = "connect" /\ todo = {}
  /\ \A b \in Agents : ~Pending(b)
  /\ up' = "on"
  /\ UNCHANGED <<boots, todo, adopted, retained, rowVars, cache, connVars, sideVars, talkVars,
                 created, deleted>>

-----------------------------------------------------------------------------
Connects(a) ==
  ProbeAlive(a) \/ ProbeFree(a) \/ ProbeUnsure(a) \/ BecomesReady(a) \/ GiveUp(a) \/ Link(a)

Next ==
  \/ \E a \in Agents :
       \/ Create(a) \/ Delete(a) \/ Connects(a) \/ LossSeen(a)
       \/ SidecarEnds(a) \/ SidecarListens(a)
       \/ PatchArrives(a) \/ PatchLost(a)
       \/ DiesInDelete(a) \/ Probes(a) \/ Reattaches(a)
       \/ \E s \in Sessions :
            \/ HostOpens(a, s)
            \/ \E ready \in BOOLEAN : BrowserOpens(a, s, ready)
  \/ Boots \/ Restore \/ Serves
  \/ \E kill \in BOOLEAN : Stops(kill)

(* Probes and the poll have timeouts; the loops at boot go on. *)
Fairness ==
  /\ \A a \in Agents :
       /\ WF_vars(ProbeAlive(a) \/ ProbeFree(a) \/ ProbeUnsure(a))
       /\ WF_vars(GiveUp(a)) /\ WF_vars(Link(a))
       /\ WF_vars(Probes(a)) /\ WF_vars(Reattaches(a))
  /\ WF_vars(Restore) /\ WF_vars(Serves)

Spec == Init /\ [][Next]_vars /\ Fairness

-----------------------------------------------------------------------------
(* Properties. *)

(* Shown to a viewer as ready, although no connection leads to the agent. *)
Misleads(a) == up = "on" /\ row[a].status = "ready" /\ conn[a] # "open"

(* agent.ts:141, of the statuses of an agent: "ready: זמין לקבל prompts"    *)
(* (it can take prompts): the agent is connected.                           *)
ReadyIsConnected == \A a \in Agents : ~Misleads(a)

(* An agent is shown as ready without a connection only where a PATCH that  *)
(* carries the status has overtaken the loss: no crash, failed launch,      *)
(* delete or restart leaves a row behind that says ready.                   *)
OnlyPatchMisleads ==
  [][\A a \in Agents :
       Misleads(a)' /\ ~Misleads(a) => patch[a].ready /\ patch'[a] = NoPatch]_vars

(* The row names the session the agent is on, so that a restart resumes it: *)
(* once the session host or the browser's PATCH has recorded it, as long as *)
(* every boot could reach the sidecar.                                      *)
RowNamesSession ==
  \A a \in Agents : Listed(a) /\ known[a] \in {"row", "both"} => row[a].session = talk[a]

(* The next session host of an agent whose session was recorded by the      *)
(* previous one, or before the restart, resumes that session.               *)
ConversationKept ==
  \A a \in Agents : up = "on" /\ Listed(a) /\ known[a] = "both" => cache[a] = talk[a]

(* A deleted agent does not come back, whatever was under way and however   *)
(* often the backend restarts; except one deleted while the first probe of  *)
(* its launch was out, whose unit is then started all the same.             *)
DeletedStaysGone == \A a \in deleted : ~Listed(a) /\ side[a] = "none"

(* A boot ends in a serving backend, whatever the sidecars do. *)
BootFinishes == up \in {"scan", "connect"} ~> up \in {"on", "off"}

(* registry.ts:350: "If the agent has an active ACP session (was WS-owned), *)
(* use warm path": the session recorded in the row is the one the next host *)
(* resumes.                                                                 *)
HandoffIsWarm ==
  \A a \in Agents : up = "on" /\ Listed(a) /\ row[a].session # 0 => cache[a] = row[a].session

=============================================================================
