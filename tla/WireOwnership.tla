---------------------------- MODULE WireOwnership ----------------------------
(***************************************************************************)
(* Who reads and writes the wire of one agent: the session host that       *)
(* serves its HTTP viewers, or the WebSocket of a browser that runs the    *)
(* protocol itself.  The model joins the host registry                     *)
(* (session-host/registry.ts), the connection registry                     *)
(* (acp/connection-registry.ts), the WebSocket pipe (delivery/ws-agent.ts),*)
(* the eviction controller (delivery/eviction-controller.ts), the events,  *)
(* connection and presence routes and the orchestrator's delete and crash  *)
(* handlers, for a single agent.                                           *)
(*                                                                         *)
(* A step is one macrotask of the event loop with its microtasks.  The     *)
(* waits that split a handler are: the close event of an evicted socket,   *)
(* the handshake and the session of a host being created, the write of the *)
(* project file, and the zero-delay timer in SessionHost.dispose.          *)
(***************************************************************************)
EXTENDS Naturals, FiniteSets

CONSTANTS
  Sockets,    \* WebSocket connections; each is used once
  Streams,    \* GET /events requests; each is used once
  Clients,    \* connection ids of the HTTP viewers
  MaxHosts,   \* bound: hosts created
  None

ASSUME OwnershipAssumption ==
  /\ MaxHosts \in Nat \ {0}
  /\ None \notin Sockets \union Streams \union Clients

VARIABLES
  conn,       \* the agent's connection: live, crashed or deleted
  epoch,      \* ownershipEpoch of the connection entry
  rows,       \* the http rows of the connection set: client -> its stream
  wsRows,     \* the ws rows of the connection set
  active,     \* activeFeWs
  sock,       \* the state of each socket
  takes,      \* the host a socket is disposing
  evictEntry, \* the socket the eviction controller has registered
  entry,      \* the host in the registry's map (0: none)
  phase,      \* the shared creation (inFlight): where doCreate waits
  waitsOn,    \* the socket whose detach the creation waits for
  making,     \* the host it has created (0: none yet)
  born,       \* number of hosts created
  hosts,      \* their states
  remembered, \* acpSessionIdCache has the agent
  stream,     \* the state of each events request
  viewer,     \* its client
  seen,       \* the epoch it was given (currentEpoch)
  ended,      \* history: was the viewer told of a takeover when it ended
  raced       \* history: something ran between a dispose() and its timer

connVars == <<conn, epoch, rows, wsRows>>
sockVars == <<active, sock, takes, evictEntry>>
hostVars == <<entry, phase, waitsOn, making, born, hosts, remembered>>
viewVars == <<stream, viewer, seen, ended>>
state    == <<connVars, sockVars, hostVars, viewVars>>
vars     == <<state, raced>>

SocketStates == {"new", "taking", "left", "attached", "closing", "zombie", "gone"}
Phases       == {"none", "evicting", "initialize", "session", "recording", "undoing"}
HostStates   == {"unborn", "open", "closing", "closed"}
Ends         == {"-", "told", "silent"}

TypeOK ==
  /\ conn \in {"live", "crashed", "deleted"}
  /\ epoch \in Nat
  /\ rows \in [Clients -> Streams \union {None}]
  /\ wsRows \subseteq Sockets
  /\ active \in Sockets \union {None}
  /\ sock \in [Sockets -> SocketStates]
  /\ takes \in [Sockets -> 0 .. MaxHosts]
  /\ evictEntry \in Sockets \union {None}
  /\ entry \in 0 .. MaxHosts
  /\ phase \in Phases
  /\ waitsOn \in Sockets \union {None}
  /\ making \in 0 .. MaxHosts /\ born \in 0 .. MaxHosts
  /\ hosts \in [1 .. MaxHosts -> HostStates]
  /\ remembered \in BOOLEAN
  /\ stream \in [Streams -> {"new", "waiting", "open", "ended", "refused"}]
  /\ viewer \in [Streams -> Clients \union {None}]
  /\ seen \in [Streams -> Nat]
  /\ ended \in [Streams -> Ends]
  /\ raced \in BOOLEAN

Init ==
  /\ conn = "live" /\ epoch = 0
  /\ rows = [c \in Clients |-> None] /\ wsRows = {}
  /\ active = None /\ evictEntry = None
  /\ sock = [s \in Sockets |-> "new"]
  /\ takes = [s \in Sockets |-> 0]
  /\ entry = 0 /\ phase = "none" /\ waitsOn = None
  /\ making = 0 /\ born = 0
  /\ hosts = [h \in 1 .. MaxHosts |-> "unborn"]
  /\ remembered \in BOOLEAN
  /\ stream = [r \in Streams |-> "new"]
  /\ viewer = [r \in Streams |-> None]
  /\ seen = [r \in Streams |-> 0]
  /\ ended = [r \in Streams |-> "-"]
  /\ raced = FALSE

-----------------------------------------------------------------------------
(* Helpers. *)

Live == conn = "live"

(* getEpoch: 0 for an agent without a connection. *)
Epoch == IF Live THEN epoch ELSE 0

HttpRows == {c \in Clients : rows[c] # None}
Opened   == {r \in Streams : stream[r] = "open"}
Waiting  == {r \in Streams : stream[r] = "waiting"}

(* isHeld *)
Held == entry # 0 \/ phase # "none"

(* A host waits for the zero-delay timer of its dispose(). *)
Disposing == \E h \in 1 .. MaxHosts : hosts[h] = "closing"

(* ws.close(): the close event comes later; a socket that is closed already *)
(* stays as it is.                                                          *)
Closing(f, s) == IF s # None /\ f[s] = "attached" THEN [f EXCEPT ![s] = "closing"] ELSE f

(* closeAllSubscribers: every reader of GET /events sees the end of its     *)
(* stream, compares epochs, and leaves its row.                             *)
EndStreams(newEpoch) ==
  /\ stream' = [r \in Streams |-> IF r \in Opened THEN "ended" ELSE stream[r]]
  /\ ended' = [r \in Streams |->
                 IF r \notin Opened THEN ended[r]
                 ELSE IF newEpoch > seen[r] THEN "told" ELSE "silent"]
  /\ UNCHANGED <<viewer, seen>>

(* removeConnection *)
DropRow(c) == rows' = [rows EXCEPT ![c] = None]

-----------------------------------------------------------------------------
(* The WebSocket side: ws-agent.ts. *)

(* Mutant: only http rows advance the epoch. *)
AttachKeepsEpoch(s, unregister) ==
  /\ active' = s /\ evictEntry' = s
  /\ rows' = IF unregister THEN [c \in Clients |-> None] ELSE rows
  /\ wsRows' = IF Live THEN (IF unregister THEN {} ELSE wsRows) \union {s} ELSE wsRows
  /\ entry' = IF unregister THEN 0 ELSE entry
  /\ IF unregister THEN EndStreams(Epoch) ELSE UNCHANGED viewVars
  /\ UNCHANGED <<conn, epoch>>

(* activeFeWs.set, addConnection, register, onLine, onCrash and the handlers, *)
(* after unregisterHost has dropped every row and closed the broadcaster.     *)
(* On a connection that has died addConnection does nothing.                  *)
Attach(s, unregister) ==
  /\ active' = s /\ evictEntry' = s
  /\ rows' = IF unregister THEN [c \in Clients |-> None] ELSE rows
  /\ wsRows' = IF Live THEN (IF unregister THEN {} ELSE wsRows) \union {s} ELSE wsRows
  /\ epoch' = IF Live THEN epoch + 1 ELSE epoch
  /\ entry' = IF unregister THEN 0 ELSE entry
  /\ IF unregister
     THEN EndStreams(IF Live THEN epoch + 1 ELSE 0)
     ELSE UNCHANGED viewVars
  /\ UNCHANGED conn

(* Mutant: isHeld looks at the map only, not at the creation in flight. *)
ConnectIgnoresCreation(s) ==
  /\ sock[s] = "new" /\ Live
  /\ \/ entry = 0 /\ Attach(s, FALSE)
     \/ entry # 0 /\ hosts[entry] # "open" /\ Attach(s, TRUE)
  /\ sock' = [Closing(sock, active) EXCEPT ![s] = "attached"]
  /\ UNCHANGED <<takes, phase, waitsOn, making, born, hosts, remembered>>

(* onConnect of a socket when nothing else holds the wire, or when the host *)
(* that holds it is being disposed by another socket: then dispose()        *)
(* returns at once.                                                         *)
ConnectAttaches(s) ==
  /\ sock[s] = "new" /\ Live
  /\ \/ ~Held /\ Attach(s, FALSE)
     \/ entry # 0 /\ hosts[entry] # "open" /\ Attach(s, TRUE)
  /\ sock' = [Closing(sock, active) EXCEPT ![s] = "attached"]
  /\ UNCHANGED <<takes, phase, waitsOn, making, born, hosts, remembered>>

(* onConnect when the HTTP host holds the wire: await host.dispose(). *)
ConnectTakes(s) ==
  /\ sock[s] = "new" /\ Live
  /\ entry # 0 /\ hosts[entry] = "open"
  /\ sock' = [Closing(sock, active) EXCEPT ![s] = "taking"]
  /\ takes' = [takes EXCEPT ![s] = entry]
  /\ hosts' = [hosts EXCEPT ![entry] = "closing"]
  /\ UNCHANGED <<connVars, active, evictEntry, entry, phase, waitsOn, making, born, remembered,
                 viewVars>>

(* onConnect refused: no connection, or a host is being created.  The socket *)
(* that was active has been told to close all the same.                      *)
ConnectRefused(s) ==
  /\ sock[s] = "new"
  /\ ~Live \/ (entry = 0 /\ phase # "none")
  /\ sock' = [Closing(sock, active) EXCEPT ![s] = "gone"]
  /\ UNCHANGED <<connVars, active, takes, evictEntry, hostVars, viewVars>>

(* The timer of dispose() fires: the transport is closed, and the socket that *)
(* waited attaches without looking again.  If its client has left meanwhile,  *)
(* its close event came before anybody listened for it.                       *)
FinishTakeover(s) ==
  /\ sock[s] \in {"taking", "left"}
  /\ hosts' = [hosts EXCEPT ![takes[s]] = "closed"]
  /\ sock' = [sock EXCEPT ![s] = IF @ = "left" THEN "zombie" ELSE "attached"]
  /\ takes' = [takes EXCEPT ![s] = 0]
  /\ Attach(s, TRUE)
  /\ UNCHANGED <<phase, waitsOn, making, born, remembered>>

(* $/detach on a socket, or DELETE connection with its id, which closes it  *)
(* only while it is the active one: the row is dropped first.               *)
SocketReleased(s) ==
  /\ Live /\ s \in wsRows
  /\ wsRows' = wsRows \ {s}
  /\ sock' = Closing(sock, s) \/ (active # s /\ UNCHANGED sock)
  /\ UNCHANGED <<conn, epoch, rows, active, takes, evictEntry, hostVars, viewVars>>

SocketLeavesEarly(s) ==
  /\ sock[s] = "taking"
  /\ sock' = [sock EXCEPT ![s] = "left"]
  /\ UNCHANGED <<connVars, active, takes, evictEntry, hostVars, viewVars>>

-----------------------------------------------------------------------------
(* Creating a host: registry.ts doCreate. *)

(* The creation ends without a host: the shared promise answers everybody *)
(* who waits for it.                                                      *)
Refuse ==
  /\ phase' = "none" /\ waitsOn' = None /\ making' = 0
  /\ stream' = [r \in Streams |-> IF r \in Waiting THEN "refused" ELSE stream[r]]
  /\ UNCHANGED <<viewer, seen, ended>>

(* After the eviction: the working directory is read from the connection,   *)
(* and the host subscribes to the wire before its first call to the agent.  *)
StartHost ==
  /\ born' = born + 1 /\ making' = born + 1
  /\ hosts' = [hosts EXCEPT ![born + 1] = "open"]
  /\ phase' = IF remembered THEN "session" ELSE "initialize"
  /\ waitsOn' = None

(* detach: on the close or error event of a socket, its client's or the       *)
(* stale sweep's doing.  The active socket leaves the table with its row;     *)
(* one that was replaced leaves its row behind.  The eviction controller      *)
(* resolves the creation that waits for this socket.                          *)
Detach(s) ==
  /\ sock[s] \in {"attached", "closing"}
  /\ sock' = [sock EXCEPT ![s] = "gone"]
  /\ active' = IF active = s THEN None ELSE active
  /\ wsRows' = IF active = s THEN wsRows \ {s} ELSE wsRows
  /\ evictEntry' = IF evictEntry = s THEN None ELSE evictEntry
  /\ IF phase = "evicting" /\ waitsOn = s /\ evictEntry = s
     THEN IF Live THEN StartHost /\ UNCHANGED viewVars
                  ELSE Refuse /\ UNCHANGED <<born, hosts>>
     ELSE UNCHANGED <<phase, waitsOn, making, born, hosts, viewVars>>
  /\ UNCHANGED <<conn, epoch, rows, takes, entry, remembered>>

(* evictAndWait gives up: 503 for everybody. *)
EvictTimeout ==
  /\ phase = "evicting"
  /\ Refuse
  /\ UNCHANGED <<connVars, sockVars, entry, born, hosts, remembered>>

InitializeAnswered ==
  /\ phase = "initialize" /\ Live
  /\ phase' = "session"
  /\ UNCHANGED <<connVars, sockVars, entry, waitsOn, making, born, hosts, remembered, viewVars>>

(* Mutant: nobody times the handshake; only its loss is noticed. *)
InitializeNotTimed ==
  /\ phase = "initialize" /\ ~Live
  /\ hosts' = [hosts EXCEPT ![making] = "closed"]
  /\ Refuse
  /\ UNCHANGED <<connVars, sockVars, entry, born, remembered>>

(* The agent refuses the handshake, or ten seconds pass: the client closes *)
(* the transport itself.                                                   *)
InitializeFails ==
  /\ phase = "initialize"
  /\ hosts' = [hosts EXCEPT ![making] = "closed"]
  /\ Refuse
  /\ UNCHANGED <<connVars, sockVars, entry, born, remembered>>

(* session/new or session/load has been answered; onSessionAttached stores  *)
(* the session id and waits for the project file.  A call on a wire that is *)
(* gone is never answered.                                                  *)
SessionOpened ==
  /\ phase = "session" /\ Live
  /\ phase' = "recording" /\ remembered' = TRUE
  /\ UNCHANGED <<connVars, sockVars, entry, waitsOn, making, born, hosts, viewVars>>

SessionFails ==
  /\ phase = "session" /\ Live
  /\ phase' = "undoing"
  /\ hosts' = [hosts EXCEPT ![making] = "closing"]
  /\ UNCHANGED <<connVars, sockVars, entry, waitsOn, making, born, remembered, viewVars>>

(* The rollback disposes the host and fails. *)
FinishRollback ==
  /\ phase = "undoing"
  /\ hosts' = [hosts EXCEPT ![making] = "closed"]
  /\ Refuse
  /\ UNCHANGED <<connVars, sockVars, entry, born, remembered>>

-----------------------------------------------------------------------------
(* Viewers: GET /events. *)

(* Mutant: the row is added without its stream. *)
SubscribeWithoutStream(R, last) ==
  LET bump == Live /\ HttpRows = {}
      e    == IF Live THEN epoch + (IF bump THEN 1 ELSE 0) ELSE 0
  IN /\ epoch' = IF Live THEN e ELSE epoch
     /\ rows' = IF Live THEN [c \in Clients |-> IF last[c] # None THEN c ELSE rows[c]] ELSE rows
     /\ stream' = [r \in Streams |-> IF r \in R THEN "open" ELSE stream[r]]
     /\ seen' = [r \in Streams |-> IF r \in R THEN e ELSE seen[r]]
     /\ UNCHANGED <<conn, wsRows, ended>>

(* subscribe, addConnection and the epoch read afterwards, for the streams R; *)
(* last[c] is the newest of them for client c.                                *)
Subscribe(R, last) ==
  LET bump == Live /\ HttpRows = {}
      e    == IF Live THEN epoch + (IF bump THEN 1 ELSE 0) ELSE 0
  IN /\ epoch' = IF Live THEN e ELSE epoch
     /\ rows' = IF Live THEN [c \in Clients |-> IF last[c] # None THEN last[c] ELSE rows[c]] ELSE rows
     /\ stream' = [r \in Streams |-> IF r \in R THEN "open" ELSE stream[r]]
     /\ seen' = [r \in Streams |-> IF r \in R THEN e ELSE seen[r]]
     /\ UNCHANGED <<conn, wsRows, ended>>

(* The host enters the map, whatever happened while it was made, and the    *)
(* requests that joined the creation subscribe in the order they came; only *)
(* the last of each client matters to the row.                              *)
Recorded ==
  /\ phase = "recording"
  /\ entry' = making
  /\ phase' = "none" /\ making' = 0
  /\ \E last \in [Clients -> Waiting \union {None}] :
       /\ \A c \in Clients :
            LET mine == {r \in Waiting : viewer[r] = c}
            IN IF mine = {} THEN last[c] = None ELSE last[c] \in mine
       /\ Subscribe(Waiting, last)
  /\ UNCHANGED <<sockVars, waitsOn, born, hosts, remembered, viewer>>

(* An events request of client c, with the epoch e it knows or none. *)
Ask(r, c, e) ==
  /\ stream[r] = "new"
  /\ e # None => e >= Epoch
  /\ viewer' = [viewer EXCEPT ![r] = c]

(* The host exists and its connection lives. *)
EventsServed(r, c, e) ==
  /\ Ask(r, c, e) /\ entry # 0 /\ Live
  /\ Subscribe({r}, [d \in Clients |-> IF d = c THEN r ELSE None])
  /\ UNCHANGED <<sockVars, hostVars>>

(* Mutant: the entry of a dead connection is dropped without closing its broadcaster. *)
DeadHostKeepsStreams(r, c, e) ==
  /\ Ask(r, c, e) /\ entry # 0 /\ ~Live
  /\ entry' = 0
  /\ stream' = [stream EXCEPT ![r] = "refused"]
  /\ UNCHANGED <<connVars, sockVars, phase, waitsOn, making, born, hosts, remembered, seen, ended>>

(* The host exists and its connection has died: it is dropped with its      *)
(* broadcaster, and the request gets a 404.                                 *)
EventsOnDeadHost(r, c, e) ==
  /\ Ask(r, c, e) /\ entry # 0 /\ ~Live
  /\ entry' = 0
  /\ stream' = [q \in Streams |-> IF q \in Opened THEN "ended"
                                  ELSE IF q = r THEN "refused" ELSE stream[q]]
  /\ ended' = [q \in Streams |-> IF q \in Opened THEN "silent" ELSE ended[q]]
  /\ UNCHANGED <<connVars, sockVars, phase, waitsOn, making, born, hosts, remembered, seen>>

(* A host is being created already: the request shares its result. *)
EventsJoin(r, c, e) ==
  /\ Ask(r, c, e) /\ entry = 0 /\ phase # "none"
  /\ stream' = [stream EXCEPT ![r] = "waiting"]
  /\ UNCHANGED <<connVars, sockVars, hostVars, seen, ended>>

(* The request creates the host.  An active socket is evicted first, and the *)
(* creation waits for its detach; an eviction controller that has nobody     *)
(* registered lets it through at once.                                       *)
EventsCreate(r, c, e) ==
  /\ Ask(r, c, e) /\ ~Held /\ Live /\ born < MaxHosts
  /\ stream' = [stream EXCEPT ![r] = "waiting"]
  /\ IF active # None /\ evictEntry # None
     THEN /\ phase' = "evicting" /\ waitsOn' = evictEntry
          /\ sock' = Closing(sock, evictEntry)
          /\ UNCHANGED <<making, born, hosts>>
     ELSE StartHost /\ UNCHANGED sock
  /\ UNCHANGED <<connVars, active, takes, evictEntry, entry, remembered, seen, ended>>

(* The epoch is stale, or there is no connection. *)
EventsRefused(r, c, e) ==
  /\ stream[r] = "new"
  /\ (e # None /\ e < Epoch) \/ (~Held /\ ~Live)
  /\ stream' = [stream EXCEPT ![r] = "refused"]
  /\ viewer' = [viewer EXCEPT ![r] = c]
  /\ UNCHANGED <<connVars, sockVars, hostVars, seen, ended>>

(* Mutant: the finally block drops the row whoever owns it. *)
ViewerLeavesAndDropsRow(r) ==
  /\ stream[r] = "open"
  /\ stream' = [stream EXCEPT ![r] = "ended"]
  /\ ended' = [ended EXCEPT ![r] = "silent"]
  /\ IF Live THEN DropRow(viewer[r]) ELSE UNCHANGED rows
  /\ UNCHANGED <<conn, epoch, wsRows, sockVars, hostVars, viewer, seen>>

(* The finally block of the route: unsubscribe, and drop the row only if it *)
(* is still this stream's.                                                  *)
ViewerLeaves(r) ==
  /\ stream[r] = "open"
  /\ stream' = [stream EXCEPT ![r] = "ended"]
  /\ ended' = [ended EXCEPT ![r] = "silent"]
  /\ IF Live /\ rows[viewer[r]] = r THEN DropRow(viewer[r]) ELSE UNCHANGED rows
  /\ UNCHANGED <<conn, epoch, wsRows, sockVars, hostVars, viewer, seen>>

(* Mutant: the sweep unsubscribes the stream and forgets the row. *)
ExpireKeepsRow(c) ==
  /\ entry # 0 /\ Live /\ rows[c] # None
  /\ stream' = [stream EXCEPT ![rows[c]] = "ended"]
  /\ ended' = [ended EXCEPT ![rows[c]] = "silent"]
  /\ UNCHANGED <<connVars, sockVars, hostVars, viewer, seen>>

(* The sweep of rows whose client has not polled for the TTL. *)
Expire(c) ==
  /\ entry # 0 /\ Live /\ rows[c] # None
  /\ DropRow(c)
  /\ stream' = [stream EXCEPT ![rows[c]] = "ended"]
  /\ ended' = [ended EXCEPT ![rows[c]] = "silent"]
  /\ UNCHANGED <<conn, epoch, wsRows, sockVars, hostVars, viewer, seen>>

(* DELETE connection by an HTTP viewer: only its row goes. *)
ReleaseRow(c) ==
  /\ Live /\ rows[c] # None
  /\ DropRow(c)
  /\ UNCHANGED <<conn, epoch, wsRows, sockVars, hostVars, viewVars>>

-----------------------------------------------------------------------------
(* The end of the agent. *)

(* unregisterHost, then the entry of the connection registry is removed: in *)
(* a crash before the readers look at the epoch again, in a delete later.   *)
Unregister(newEpoch) ==
  /\ rows' = [c \in Clients |-> None] /\ wsRows' = {}
  /\ entry' = 0
  /\ EndStreams(newEpoch)
  /\ UNCHANGED <<epoch, active, takes, evictEntry, phase, waitsOn, making, born, hosts, remembered>>

(* The process died: its crash listeners also close every attached socket. *)
Crash ==
  /\ Live /\ conn' = "crashed"
  /\ sock' = [s \in Sockets |-> IF sock[s] = "attached" THEN "closing" ELSE sock[s]]
  /\ Unregister(0)

(* deleteAndKill: a deliberate close is not a crash, so nobody else is told. *)
Delete ==
  /\ conn # "deleted" /\ conn' = "deleted"
  /\ UNCHANGED sock
  /\ Unregister(Epoch)

-----------------------------------------------------------------------------
KnownEpochs(c) ==
  {None} \union {seen[r] : r \in {q \in Streams : viewer[q] = c /\ stream[q] \in {"open", "ended"}}}

SocketNext ==
  \E s \in Sockets :
     ConnectAttaches(s) \/ ConnectTakes(s) \/ ConnectRefused(s) \/ SocketReleased(s)
     \/ SocketLeavesEarly(s) \/ Detach(s)

EventsNext ==
  \E r \in Streams, c \in Clients : \E e \in KnownEpochs(c) :
     EventsServed(r, c, e) \/ EventsOnDeadHost(r, c, e) \/ EventsJoin(r, c, e)
     \/ EventsCreate(r, c, e) \/ EventsRefused(r, c, e)

CreateNext ==
  EvictTimeout \/ InitializeAnswered \/ InitializeFails \/ SessionOpened \/ SessionFails \/ Recorded

ViewerNext ==
  (\E r \in Streams : ViewerLeaves(r)) \/ (\E c \in Clients : Expire(c) \/ ReleaseRow(c))

TimerNext == FinishRollback \/ \E s \in Sockets : FinishTakeover(s)

Next ==
  \/ /\ SocketNext \/ EventsNext \/ CreateNext \/ ViewerNext \/ Crash \/ Delete
     /\ raced' = (raced \/ Disposing)
  \/ TimerNext /\ UNCHANGED raced

(* A socket that was told to close does so, at the latest when the library   *)
(* gives up on the handshake; timers fire; the agent answers or the call     *)
(* fails; files get written.                                                 *)
Fairness ==
  /\ \A s \in Sockets : WF_state(Detach(s) /\ sock[s] = "closing") /\ WF_state(FinishTakeover(s))
  /\ WF_state(EvictTimeout) /\ WF_state(InitializeFails)
  /\ WF_state(SessionOpened \/ SessionFails)
  /\ WF_state(Recorded) /\ WF_state(FinishRollback)

Spec == Init /\ [][Next]_vars /\ Fairness

-----------------------------------------------------------------------------
(* Properties. *)

(* While a session host is registered or being made, no WebSocket is the      *)
(* active one: the two kinds of owner exclude each other.  This and the two   *)
(* properties marked below hold as long as nothing ran between a dispose()    *)
(* and its zero-delay timer.                                                  *)
OneOwner == ~raced /\ (entry # 0 \/ phase \notin {"none", "evicting"}) => active = None

(* A host that reads the wire of a living agent is the registered one or the *)
(* one being made: no takeover, timeout or rollback leaves one behind.       *)
(* (Without a race in the timer's window.)                                   *)
NoOrphanHost ==
  \A h \in 1 .. MaxHosts : hosts[h] = "open" /\ Live /\ ~raced => h = entry \/ h = making

(* A viewer reads from the host that is registered: none is left on a stream *)
(* nobody will ever end.                                                     *)
NoOrphanStream == Opened # {} => entry # 0

(* No takeover, failure or timeout leaves a host on the wire or a viewer on a *)
(* stream that belongs to nobody.                                            *)
NothingOrphaned == NoOrphanHost /\ NoOrphanStream

(* The presence set shows the HTTP viewers there are: a row is that of an     *)
(* open stream of its client, so the sweep ends a stream somebody reads.      *)
RowsFollowStreams ==
  \A c \in HttpRows : stream[rows[c]] = "open" /\ viewer[rows[c]] = c

(* A stream that ends because a socket took the wire over ends with the      *)
(* taken-over event, whatever epochs its viewers and earlier owners saw.     *)
(* (Without a race in the timer's window.)                                   *)
TakeoverIsTold ==
  [][\A r \in Streams :
       stream[r] = "open" /\ stream'[r] = "ended" /\ active' \notin {active, None} /\ ~raced'
         => ended'[r] = "told"]_vars

(* A viewer whose newest stream stays open keeps its row until the client    *)
(* releases it: the end of an older stream of the same client, which the     *)
(* server may notice much later, does not take the row away.                 *)
RowSurvivesOldStream ==
  [][\A c \in Clients :
       rows[c] # None /\ rows'[c] = None /\ stream'[rows[c]] = "open" => UNCHANGED stream]_vars

(* Every request for the events of a living agent is answered: an eviction    *)
(* that is never acknowledged, a handshake that hangs and a failed session    *)
(* all end the wait of everybody who joined.                                  *)
RequestsAnswered ==
  \A r \in Streams : stream[r] = "waiting" ~> stream[r] # "waiting" \/ ~Live

=============================================================================
