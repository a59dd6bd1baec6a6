# drive-coding in TLA+

drive-coding lets a person drive coding agents (Claude, Codex, Gemini, OpenCode) by
voice and screen. A backend starts the agent CLIs, speaks ACP (Agent Client
Protocol) with them over a wire, and keeps one conversation state per agent; browsers
and other agents see that state over HTTP and server-sent events and change it by rpc.

This directory holds TLA+ models of the parts of it where the order of events decides
what is right, the TLC configurations that check them on small instances, and proofs
that TLAPS checks for every value of the constants.

Contents: [parts of the system](#parts-of-the-system) ·
[modules and code](#modules-and-the-code-they-model) · [runs](#runs) ·
[fairness](#fairness) · [proofs](#proofs) · [findings](#findings) ·
[not modelled](#what-is-not-modelled-and-why) · [plan](#plan)

How to run (in this directory):

    tlc -config SessionHost_viewer.cfg MCSessionHost
    tlc -config PatchStream_stream.cfg PatchStream
    tlc -config WireOwnership_takeover.cfg MCWireOwnership
    tlc -config AgentLifecycle_restarts.cfg AgentLifecycle
    tlc -config Speech_play.cfg MCSpeech
    tlc -config LocalSession_reconnect.cfg MCLocalSession
    tlc -config AgentEvents_events.cfg MCAgentEvents
    tlapm SessionHostProofs.tla      # and every other *Proofs.tla

## Parts of the system

All paths below are under `src/packages/`.

```
 viewer (browser)          backend                                   agent
 RemoteSessionView <-SSE-- events route <- broadcaster <- SessionHost <-ACP wire-> provider
        |  ----- rpc ------> rpc routes ----------------------^          |        connection
 LocalSessionView <----------- WebSocket (ws-agent) ---------------------'      or sidecar
                             registry, connection registry, eviction: who owns the wire
```

**Session host** (`backend/src/session-host`: `session-host.ts`, `session-init.ts`,
`turn-lifecycle.ts`, `pending-requests.ts`, `close-on-turn-end.ts`, `loud-reload.ts`).
Keeps `currentState` (session id, messages, turn state and its error, the visible
permission and elicitation request, quota, status) and private counters (`turnSeq`,
`cancelledTurn`, `quotaGeneration`, `quotaFetchGeneration`, the maps of open requests).
Operations: open a session (warm reattach or cold start), new/load session with
rollback, prompt, cancel, respond, fetch quota, dispose; and it is called by the agent
with updates, permission and elicitation requests, and the end of its transport.
*Hard:* nothing serialises the rpcs. Each awaits the agent and resumes in the state the
others have left; answers of a session, a turn or a fetch that is over still arrive.
*Correct when:* what the state shows belongs to the session it names; a turn in progress
is shown as such; an error is the error of a turn nobody cancelled; a request that is
shown can be answered and every request is answered in the end; the quota slot is
neither lost nor doubled; a disposed host leaves nobody waiting.

**Patch stream** (`backend/src/session-host/patches-broadcaster.ts`, `http/events.ts`,
`core/src/session/wire-frames.ts`, `frontend/src/lib/session/sse-reader.ts`,
`remote-session-view.ts`). Every change of the state is a patch with a version. A
broadcaster drains the host's stream into a ring buffer and one queue per subscriber;
the events route sends frame-zero (a snapshot) and then each patch as a
`session/update` frame made against a copy of the state it folds itself; the viewer
folds the frames again, drops those at or below its watermark, and reconnects when the
connection is lost or silent.
*Hard:* a patch may wait in three places while the host runs ahead; snapshot and patches
overlap; a restarted backend counts versions from zero; the session id travels outside
the patches. *Correct when:* a viewer shows only states the host had, in order; its
watermark is the version of what it shows; what a reconnect ignores is already there;
every state arrives or is passed; viewers prompt the session the host has.

**Session state reducer and wire format** (`core/src/session`: `reduce.ts`,
`apply-patch.ts`, `to-session-update.ts`, `msg-coalesce.ts`, `content-helpers.ts`). Pure
functions: host and viewer fold the same conversation twice, once as patches and once as
frames. *Correct when* the two folds agree.

**Wire ownership** (`backend/src/session-host/registry.ts`,
`acp/connection-registry.ts`, `delivery/ws-agent.ts`, `delivery/eviction-controller.ts`,
`session-host/http/events.ts`, `connection.ts`, `presence.ts`, `app/agent-orchestrator.ts`).
Which of the HTTP host and the WebSockets holds an agent's wire. State: the map of hosts
and the creations in flight, the active socket of an agent, the connection rows with
their ownership epoch, the eviction waiters. Operations: a socket connects, takes over,
detaches; an events request finds, joins or creates a host, evicting a socket; rows
expire or are released; the agent crashes or is deleted. *Hard:* a creation awaits an
eviction, a handshake, a session and a file; a takeover awaits a dispose; anything may
happen in between and little is looked at again. *Correct when* host and socket exclude
each other, no host or stream is left that nobody will end, an evicted viewer is told,
presence rows follow the streams there are, and every request is answered.

**Agent lifecycle** (`backend/src/agents`, `app/agent-orchestrator.ts`,
`acp/connect-via-sidecar.ts`, `bin/agent-sidecar.ts`, `acp-wire/src/transport/unix-socket.ts`,
`main.ts`). Agents run in sidecars, systemd units that outlive the backend. State: the
registry's rows in memory and on disk, the session cache, the pending connects, the units
and their socket files. Operations: create (probe, launch, poll, link), delete, loss of a
sidecar, recording a session, and the boot: probe the sockets, restore the rows, reattach
one after the other, serve. *Hard:* the backend dies between any two steps, deletes race
launches, a probe can be inconclusive, a session is recorded in two places. *Correct
when* what is shown as ready is connected, what is deleted stays gone, a conversation
survives the restart, and a boot ends.

**Speech ordering and playback** (`core/src/voice/tts-queue.ts`,
`frontend/src/lib/view-models/speaker.svelte.ts`, `engines/audio-playlist.svelte.ts`,
`engines/playable-sink.ts`). State: the speaker's jobs with their abort controllers, the
playlist's items with state and fetch epoch, the cursor and the play loop, the sink's
audio. Operations: enqueue a sentence, fetch and compose it, play, pause, jump, stop.
*Hard:* the loop is one asynchronous function that is suspended at six places while
sentences are inserted before its cursor, audio is taken away under it and old fetches
answer. *Correct when* segments are heard in order, what is ready has audio, and nothing
is left behind without a word.

**Agent events** (`session-host/agent-events*.ts`, `turn-lifecycle.ts`,
`close-on-turn-end.ts`, `delivery/agent-events-*.ts`). Agents subscribe to each other; the
end of a turn and a suspected stall become prompts of the subscribers. State: the
subscriptions, and per host the turn counter, when the turn started, whether its stall
was reported, whether its close is scheduled. Operations: subscribe, the turn boundaries
of prompt, cancel and switch, the sweep over silent turns, the delivery (which may have to
make the subscriber's host first), the close of an agent after its turn. *Hard:* the
fields a sweep reads are set by four operations that overlap, an end that changes nothing
is not announced, and a delivery is itself a prompt of an agent that may be busy, in the
middle of a switch, without a host, or gone. *Correct when* a silent turn is reported, and
once, and a subscriber hears of every turn's end.

**RPC and state routes** (`session-host/http/rpc.ts`, `rpc-wait.ts`, `reply.ts`,
`state.ts`): thin handlers, except for the bounded wait for a turn's answer.

**Local session** (`frontend/src/lib/view-models/agent-session.svelte.ts`,
`acp-wire/src/transport/browser-ws.ts`). A tab that speaks ACP itself, over a WebSocket.
State: the status, the ids of agent and session, client and transport, the flags
`#detached`, `#tearingDown`, `#reconnecting` and `#errorSurfaced`, the count of attempts
and its timer, the bubbles and the frozen display. Operations: attach, load, switch, new,
leave, prompt, reconnect by hand or by the backoff loop (an agent that lives first, a new
one otherwise), attach to a running agent. *Hard:* all of them are asynchronous methods
over the same fields, and nothing serialises them; each await may end in a socket that was
closed, an agent that is gone, or a view model another method has used meanwhile. *Correct
when* no flag, modal or dialog is left that nobody will clear, the history on screen
survives a reconnect, and who lost the agent to another client leaves it alone.

**Provider connections** (`packages/provider`), **ACP transports** (`packages/acp-wire`):
spawning, killing and framing.
**Async helpers**, **live voice and user interface**, **boot, configuration, CLI**: see
[not modelled](#what-is-not-modelled-and-why).

`PROJECT.json` lists every component with its sources and status, and, under
`hazards`, the places where the order of events could go wrong, with the properties
that watch it.

## Modules and the code they model

| Module | What it is |
|---|---|
| `SessionHost` | the session host of one agent |
| `MCSessionHost` | its symmetry set for TLC |
| `SessionHostProofs` | type correctness, requests, quota slot, the `turnSeq` fence |
| `SessionHostOwnershipProofs` | quota and transcript belong to the session shown; a new session fetches its quota |
| `SharedState` | abstract: a growing log of states, viewers that only move forward on it |
| `PatchStream` | host, broadcaster, events route, connection and remote view; implements `SharedState` |
| `PatchStreamProofs` | types, the watermark, what a reconnect may ignore, the refinement of `SharedState` |
| `WireOwnership` | who holds the wire of one agent: sockets, host creation, events streams, rows |
| `MCWireOwnership` | its symmetry set for TLC |
| `WireOwnershipProofs` | types, exclusion of host and socket, no orphans, rows, takeovers told |
| `AgentLifecycle` | sidecars, rows, launch, delete, recorded sessions, restarts |
| `AgentLifecycleProofs` | types, what makes a row mislead, and the three safety invariants, across restarts |
| `Speech` | speaker, playlist with its play loop, sink |
| `MCSpeech` | which of its bubbles are composed, for TLC |
| `SpeechProofs` | types, the audio of what is ready, the order of playing, what a parked loop leaves |
| `LocalSession` | the connection of a tab over its WebSocket, with its reconnect machine |
| `MCLocalSession` | its sets for TLC |
| `LocalSessionProofs` | types, nothing is stranded, the frozen display, the history on screen |
| `AgentEvents` | subscriptions, turn boundaries, stall sweep, deliveries, close after a turn |
| `MCAgentEvents` | an agent and its subscriber, for TLC |
| `AgentEventsProofs` | types, and that no turn is reported twice |

### SessionHost

A step is one macrotask of the Node event loop with the microtasks it triggers; a
handler is split exactly where the code awaits the agent or a timer. So `NewSession` is
everything `newSession` does up to `await client.newSession`, and `NewSucceeds` /
`SwitchFails` what it does with the answer.

| Variables | Code |
|---|---|
| `sessionId`, `turnState`, `lastTurnError`, `status`, `transcript`, `pending`, `quota` | fields of `currentState`; the transcript is the set of sessions whose content it holds, `turnState` merges `thinking`, `responding` and `calling-tool` into `busy` |
| `turnSeq`, `cancelledTurn`, `quotaGeneration`, `quotaFetchGeneration`, `closeScheduled`, `disposed`, `streamOpen` | the host's private variables of these names (`streamOpen`: `patchController` is not null) |
| `open`, `nextRequestId` | `permPending` and `elicitPending` |
| `prompts`, `cancels`, `switches`, `fetches` | the continuations waiting for the agent, each with what it captured before its `await` |
| `boot`, `outcome` | how far `initSession` is |
| `live`, `wire` | the agent (environment): sessions it has open, the transport |
| `turnEnded` | history: `onTurnEnded` was called |

The agent is an environment that may answer, refuse, or stay silent, in any order; it
sends updates only for sessions it has open. Constants choose the configuration:
`Remembered` (a warm reattach), `Usage`, `CloseOnTurnEnd`, `RequestTimeout`, `AgentV2`
(state updates of ACP v2), and `Overlap`. `Overlap = FALSE` restricts the viewers: none
starts a switch or a prompt while a switch is in flight, and they prompt the session
shown. It is a restriction of the users, not of the code, and the properties that need
it name it in their antecedent; cancels, requests, answers, late updates, crash and
takeover are unrestricted in both settings.

### PatchStream and SharedState

`log` is the sequence of all states any host ever had, so a version is a position:
`Version = Len(log) - start`. `source`, `buffer`, `inbox` and `net` are the four queues a
patch passes: the host's stream, the ring buffer, the subscription and the network.
`served` is the copy the events route folds, `view` the remote view with its watermark
`seen`, the session id it believes (`known`), and one history field: `at`, the position
in the log of the state it shows. The host's actions (`Prompt`, `TurnEnd`, `AgentChunk`, `AgentTool`,
`Pending`, `SwitchBegin/Succeeds/Fails`, `Rebuild`) emit the patches the code emits.
`Dispatch` is one turn of the broadcaster's drain loop, `Connect` a GET /events, `Serve`
one turn of the route's loop, `Drop` a lost connection, `TakeSnapshot`/`TakeUpdate` a
frame reaching the view, `TakeReply` the answer of the viewer's own session rpc.

The two folds are written out: `ApplyPatch` (host and route) over patches,
`Reduce`/`Rebuilt` (viewer) over frames, `Updates`/`StateUpdate` the translation between
them with what it loses. `SharedState` is what the stream promises without any of this:
a host goes through states, a viewer moves forward over them. `Shared` in `PatchStream`
is the refinement mapping (the public part of the log, `at`, the public part of the
views), and `SharedStates` the claim that the stream implements it.

Abstractions: thoughts are merged with agent messages, the three active turn states are
`busy`, the two dialogs are one boolean, a message is its id, key, role and a length
(each chunk adds one), message keys are log positions. Agents that send no messageId are
left out. One switch is in flight at a time (overlapping switches are SessionHost's
subject), cancelling the dialogs and the reset of a switch are one step as in the code. A
subscription that lingers on the server after a drop has no effect on anyone and is
removed by `Drop`. `Rebuild` is the cold restart: the backend comes back and opens a new
session (the backend listens only after it has restored its agents, `main.ts`).

### WireOwnership

One agent, its sockets, its events requests and at most `MaxHosts` hosts. A step is one
macrotask; a handler is split where the code awaits.

| Variables | Code |
|---|---|
| `conn`, `epoch`, `rows`, `wsRows` | the entry of `connection-registry.ts`: is it there, `ownershipEpoch`, the http rows (client to stream) and ws rows of the connection set |
| `active`, `sock`, `takes` | `activeFeWs` of `ws-agent.ts`, where each socket is in `onConnect`, the host it awaits |
| `evictEntry`, `waitsOn` | the eviction controller's entry, and the socket a creation waits for |
| `entry`, `phase`, `making`, `born`, `hosts`, `remembered` | the registry's `map` and `inFlight`, where `doCreate` is, the hosts it has made, `acpSessionIdCache` |
| `stream`, `viewer`, `seen` | each GET /events, its connection id, its `currentEpoch` |
| `ended`, `raced` | history: was the viewer told; did anything run between a `dispose()` and its timer |

`ConnectAttaches`, `ConnectTakes`, `ConnectRefused` are the branches of `onConnect` up to
its `await`, `FinishTakeover` what follows; `EventsServed`, `EventsOnDeadHost`,
`EventsJoin`, `EventsCreate`, `EventsRefused` those of the events route with
`getOrCreateHost`; `EvictTimeout` to `Recorded` the rest of `doCreate`; `Detach` the
close event; `Crash` and `Delete` the orchestrator's handlers with `unregisterHost`.

`raced` is the one restriction of the properties. `SessionHost.dispose` waits for a
`setTimeout(0)`, and code that runs in this window finds a host that is registered and
disposed: two sockets that connect in it both attach, one whose client leaves in it stays
active for ever. The model has these behaviours; `OneOwner`, `NoOrphanHost` and
`TakeoverIsTold` speak of the runs without them, and [findings](#findings) lists them.

### AgentLifecycle

| Variables | Code |
|---|---|
| `up`, `boots`, `todo`, `adopted`, `retained` | how far `main.ts` is: off, scanning, reattaching, serving; what the loops have left and found |
| `row`, `disk` | `registry.ts` in memory and `persistent-registry.ts`'s snapshot |
| `cache` | `acpSessionIdCache` of the host registry |
| `conn`, `cancelled` | `connection-registry.ts`: none, then the awaits of `connectViaSidecar` (probing, waiting for the socket, linking), open |
| `side`, `file` | the unit of an agent, its socket and meta file |
| `fresh`, `talk`, `patch` | the sessions the agent has opened, the one it is on, a browser's PATCH on its way |
| `known`, `deleted` | history: who knows `talk`; deleted for good |

A change of the registry is on disk at the end of its step (`update` awaits the write;
a crash before it is `DiesInDelete`, where it matters). `ProbeAlive`, `ProbeFree`,
`ProbeUnsure` are the outcomes of `launchOrAttachAgent`'s probe; `GiveUp` its thirty
second deadline; `Stops` ends the backend at any step, with or without killing units;
`Boots`, `Probes`, `Restore`, `Reattaches`, `Serves` are `adoptLiveAgents`,
`restorePersistedAgents` and the rest of boot in order. `HostOpens` is
`onSessionAttached`, `BrowserOpens` and `PatchArrives` the other way a session gets into
the row. A PATCH may carry the status `ready` besides the session, as the route allows;
what it writes is `Patched`.

### Speech

| Variables | Code |
|---|---|
| `allocated` | `OrderAllocator` |
| `list`, `item`, `epoch`, `cursor`, `jumpTarget`, `transport` | `items`, their `state`, `needsRefetch`, `fetchEpoch` and skip reason, `segmentEpoch`, `#cursor`, `#jumpTarget`, `transport` of the playlist |
| `loop` | where `#runPlayLoop` is suspended, and on which segment; `top` and `start` are the stretches it runs without an await |
| `jobs`, `status`, `ctrl`, `aborted`, `pending` | the speaker's `#jobs`, their status and abort controller, `#pendingCount` |
| `fetches` | the running `#fetchJob`s: before `synthesize` (`text`), or in it, with the controller they were given |
| `sink`, `sinkCtrl` | the audio the sink holds: loading, complete, cut short, broken |
| `steered` | history: the driver has jumped |

While the loop runs (`top`, `start`) nothing else does, as in the code; when its promise
is resolved (`woken`) only the rejection of a fetch that the same call aborted can come
first. `Navigate` is `#navigate` with what it drops, cancels and invalidates; `Pump` is
`#pumpFetchLoop`, which ends every change of the jobs. A stream that ends or breaks while
playing is paused (`mp3-segment.ts:118`) is left out: `PlayEnds` needs a transport that
plays.

### LocalSession

| Variables | Code |
|---|---|
| `vm` | the fields of `AgentSession`: `status`, `error` and `#errorSurfaced`, `agentId`, `#sessionId`, `#client` and `#transport` (sockets), `#detached`, `#tearingDown`, `#reconnecting`, `reconnectAttempt`, `#reconnectTimer`, `bubbles` (blank or whole), `#displaySnapshot`, the prompt under way, `pendingPermission` |
| `sock` | each WebSocket: dialing, open, closing, closed; whether the handler that reconnects listens to it; why it is closed (by the tab, taken over, held, lost, released) |
| `flow` | the methods in progress, each with the await it is blocked at (`pc`), the socket, agent and session it captured |
| `agent` | the agents of the backend: live, crashed, gone; the session recorded for each; a DELETE on its way |
| `mixed` | history: since nothing was in progress, two methods have been |
| `used` | how much of the bounds on losses, failures and acts is used up |

A step is a method from one await to the next, written as a function on the record of
all state (`World`), because one method calls the next without an await: `Told` of a cold
reconnect runs the end of `loadSession`, of `#coldReconnect` and of the loop's turn.
`Step(f)` has one action per await and outcome; `CloseEvent` is the socket's close with
the view model's handler; what a close settles (`Broken`, `PromptBroken`) is continued
before anything else, as microtasks are. `Drop`, `Crash`, `Deleted`, `PromptAnswered`,
`Permission` are the backend and the network, the rest the user; while the status is
`connecting` a modal covers the page (`AppShell.svelte`) and the user does nothing.

An agent may ask for a permission at any time over a socket that is open, with or without
a prompt, also over the socket of an attempt that has not answered yet; `pending` says
whether the question came over the socket of the current client (`own`) or another
(`stray`), and a new one cancels the one before it.

Abstractions: one permission stands for permissions and elicitations; the one tick that
`leaveRunning` waits to flush an answer is left out; whether the page is hidden is chosen
where the code reads it; a close of 1000 or 1001 is the code `released`, which the
handler passes over; working directory and kind of agent are known whenever the session
is. The retries on 1008 before the socket is open never run with this backend, which
closes after the upgrade. Out of sockets, agents or sessions (bounds) a call fails; with
both places for methods taken, a close event waits.

### AgentEvents

| Variables | Code |
|---|---|
| `subs` | `subs` of the bus in `agent-events.ts` |
| `host` | `TurnLifecycleState` of an agent's host, with `turnState` (idle or not) and `lastTurnError` of its state; `timed`: `turnStartedAt` is not 0; `closeScheduled`: `closeOnTurnEndScheduled` |
| `silent` | the agents for which `computeSilentMs` has reached `stallSuspectMs` |
| `live`, `hosted`, `waiting` | the agents with a connection, `map` of the host registry, and the deliveries that wait for a creation in flight |
| `prompt`, `cancels`, `switching` | the continuations of `prompt` (of the newest turn), `cancel`, `newSession` and `loadSession` |
| `left` | what the users may still do (bounds) |
| `owed`, `heard`, `refused`, `stalled` | history: which subscribers a turn that was answered had when it began, which prompts told of which turn's end, which ends were dropped because no host could be made, which turn was reported last |

`Begun` is the synchronous head of `prompt`, `Ended` is `emitTurnEnd`. `Emit` is an event
from the bus to the subscribers, in the step of the handler that emits it, because
`getOrCreateHost` answers at once for a host that exists; a prompt it makes is a turn of
the subscriber, whose end its own subscribers hear of. `StallSweep` is one pass of
`runStallSweep` over all hosts. `HostRefused` is a creation that comes to nothing, because
the agent is gone or because one of its steps failed (`registry.ts:332`, `:377`, `:426`);
the deliveries that waited for it are dropped.

Abstractions: only the prompt of the newest turn is kept, because what the agent answers
to an older one changes nothing (that is `BusyWhileTurnRuns` of `SessionHost`); output
after the answer is left out, as are the output a load replays, a switch that begins
while another of the same agent is in flight (`SessionHost` has those), a permission open at the end of a turn, ACP v2 state
updates, the notification of the target's browsers and the takeover of a wire by a socket
(`WireOwnership`). `notify_parent` is a prompt like a user's. A subscription to a crashed
agent, which the route accepts, has no effect.

## Runs

`CHECK_DEADLOCK FALSE` everywhere: with the bounds used up, or with a disposed host,
there is rightly nothing left to do.

| Run | Bounds | What it shows |
|---|---|---|
| `viewer` | 3 sessions (symmetric), one remembered, 4 turns and switches, 3 generations, 1 cancel in flight, no requests, `Overlap` and `AgentV2` off | types; quota, transcript, turn state and errors belong to the session shown; a session that takes over fetches its quota; the quota slot is held by its fetch |
| `overlap` | 2 sessions, cold start, 2 turns or switches, one of them a switch at most, 2 requests, 2 generations, no cancels, `Overlap` and `AgentV2` on, fair timers | what is shown can be answered, a disposed host has answered everything; the quota slot is given back, every request is answered, the patch stream ends |
| `stream` | 1 viewer, 5 states, ring buffer of 2, 1 drop, switches to any session, `Interleaves` off | types; the watermark is true; the stream implements `SharedState` |
| `restart` | 1 viewer, 4 states, 1 restart, 1 drop, no switches, `Interleaves` off, fair readers | a reconnect misses nothing; every state arrives |
| `takeover` | 3 sockets, 2 events requests, 2 clients, 2 hosts, one crash or delete | host and socket exclude each other, nothing is orphaned, rows follow streams, takeovers are told, requests are answered |
| `restarts` | 2 agents, 2 sessions each, 1 restart | no step but a late PATCH makes a row say ready without a connection, sessions survive, deleted stays gone, a boot ends |
| `play` | 2 bubbles of 2 segments, 3 segments, lookahead 2, one jump, pause, stop or broken stream | played in order, ready has audio, nothing is left behind, every segment settles |
| `reconnect` | 2 sessions, 2 agents, 3 sockets, 2 methods at a time, 2 attempts; 1 loss, 1 failed call, 1 act of the user | no flag or modal, and no dialog of the tab's own client, is stranded; the frozen display is released; a reconnect alone keeps the history on screen |
| `events` | an agent with 1 prompt and 1 cancel of its users, its subscriber with 1 switch and `closeOnTurnEnd`, any number of silences, outputs, crashes, late answers and hosts that cannot be made; fair sweep and host creation | a silent turn is reported, and once; who subscribed hears of the end, unless no host can be made for it |
| `sentinel`, `handoff`, `loser` | small | one finding each (expected violation) |

Why the bounds are enough:

- *viewer*: the races are between an actor and at most two that came after it. Three
  sessions are a remembered one, the one switched to and one more; four turns allow
  prompt, switch, prompt and a late answer of the first; three generations allow an old
  fetch, a current one, and the one in between. Requests are left to `overlap`: no
  property of this run reads them except through `closeScheduled`.
- *overlap*: two requests of a kind are what it takes to hide one behind the other. A cold
  start takes no turn number, so both are for viewers: a switch with a prompt of the
  session before it still open, a prompt that begins beside the switch, or two prompts.
  The start and the switch are two generations of the quota, and the fetch of the first may
  hang through the switch and beside that of the second. Two switches that overlap are in
  *sentinel*, cancels and the warm start in *viewer*; liveness leaves no room for them
  here, and the safety half of the run is proved for any number of them.
- *stream*: five states leave room for a snapshot, patches made before it that arrive
  after it, and a reconnect; a ring buffer of two is shifted, which no viewer can notice:
  the route subscribes from the version of the snapshot it has just read
  (`events.ts:140`), and the buffer holds nothing newer.
  Viewers share nothing after the fan-out, so one viewer is enough for the state.
- *takeover*: one socket holds the wire, one takes it, one comes in between; two requests
  make a creation that is shared, or an old and a new stream of one client, or one stream
  each of two; two hosts are the one evicted and the one that follows. What an epoch was
  is only compared, and three sockets and two requests advance it five times.
- *restarts*: an agent adopted and one that was not; a session to lose and one to lose it
  to; the second boot would start from rows like the first, because a boot writes what it
  restored.
- *play*: two bubbles are what it takes to insert behind the cursor, three segments leave
  one to be heard before and one after; a lookahead of two lets the later finish first.
  One event of the driver takes the place of any step; two would need more states than
  the run has time for.
- *reconnect*: a loop and one more method are what it takes to interleave; a third runs
  only after one of them is over. Two agents are the one attached and the one a cold
  attempt creates, three sockets an old one, a new one and one that is still closing. The
  page starts new, with an agent left running by an earlier visit, or attached.
- *events*: two agents are a target and a subscriber; the subscriber's own turns come from
  the events (at most three: an end, a stall, a second end after late output), so a turn
  follows one that was reported and one that never ended. One cancel leaves an answer, a
  late output and a next turn behind it. Chains of subscriptions repeat this pairwise.
- *restart*: the second host has up to as many versions as the first, so a version of
  the new host can be lower, equal or higher than the watermark.

The bounds are the constants `Max…` and `BufferSize` (64 in the code; no
behaviour depends on it, see *stream*), and stand in guards: `MaxTurnSeq`, `MaxRequests`,
`MaxGeneration`, `CancelHandles` in `SessionHost`; `MaxStates`, `MaxRestarts`, `MaxDrops`
in `PatchStream`; `MaxHosts` (a creation needs one), `MaxSessions`, `MaxBoots`,
`MaxSegments`, `PerBubble`, `MaxEvents` and `Acts` in the other modules; `MaxBreaks`, `MaxRefusals`, `MaxActs`, `Sockets`
and `Flows` in `LocalSession`, whose `MaxAttempts` is the code's own limit (5). All of them only limit what users, agents and the network start, never
what the code answers; `MaxStates` also stops the answer of a switch, so a run may end
in the middle of one.

For each property of a passing run `PROJECT.json` names a mutant: a definition in the
modules, marked *Mutant*, with the kind of slip the code could have had (a forgotten
`turnSeq++`, a slot released by anyone, a frame applied without the watermark). With it
in place of the original, TLC finds the property violated.

## Fairness

`SessionHost`: `FairSpec` is fair to `DisposeFinish` (a `setTimeout(0)`), `QuotaFails` (a
five second timer) and `Expire` (the request timer). Each is fair for each generation of
the quota and each request by itself. Nothing is assumed of the agent, of the viewers, or
of the wire.

`PatchStream`: `FairSpec` is fair to `Dispatch` and `Serve` (loops on the server that run
whenever their queue is not empty), `TakeSnapshot` and `TakeUpdate` (frames on an open
connection arrive), and to `Connect` for a viewer that has joined (the reader's loop
reconnects with a backoff for as long as the view lives, and its watchdog aborts a
silent connection). The first connect, and every step of the host, carries no fairness.
`MaxDrops` says that the connection stays up in the end; without that no reader could
promise anything.

`WireOwnership`: `Fairness` is fair to the close of a socket that was told to close (the
ws library gives up on the handshake after its timeout), to `FinishTakeover` and
`FinishRollback` (a `setTimeout(0)`), `EvictTimeout` (5 s), `InitializeFails` (10 s),
`Recorded` (a file write), and to an answer of the agent to session/new or session/load,
good or bad. The last is an assumption about agents: `doCreate` has no deadline for it.

`AgentLifecycle`: fair to the probe, the poll's deadline, the link, the steps of the two
boot loops and `Restore`, `Serves`: each is code that runs, or has a timeout. Nothing is
assumed of sidecars, browsers or the operator.

`Speech`: fair to the loop, its timer, a fetch and a stream ending one way or the other
(the proxy has deadlines), and to the end of what is playing unless its audio was
replaced under it. Nothing is assumed of the driver.

`AgentEvents`: fair to the sweep (an interval) and to a creation that deliveries wait for,
which settles under the assumption made for `WireOwnership`. Nothing is assumed of the
answers to prompts: `SilenceIsNoticed` is about agents that hang, and `TurnEndsArrive`
speaks of the turns that were answered.

`LocalSession` has no fairness: `session/load` has no deadline in the code, and a socket
to a deleted agent stays open, so that nothing obliges an attempt to end. What it keeps is
that there always is somebody to wait for.

## Proofs

Every safety property of a passing run is a theorem: the invariants, the action
properties and the refinement.

The assumptions are the named `ASSUME`s of the modules. `SessionHost`:
`SessionsAssumption` (the two special session ids are no sessions),
`ConfigurationAssumption` (the options are Booleans), `BoundsAssumption` (the bounds are
natural numbers). `PatchStream`: `SwitchesAssumption` (the values the options range over)
and its own `BoundsAssumption`. `WireOwnership`: `OwnershipAssumption` (at least one host;
the null value is no socket, stream or client). `AgentLifecycle`: `LifecycleAssumption`
(bounds). `AgentEvents`: `AgentsAssumption` (finitely many agents, and pairs and closing
agents are among them) and its own `BoundsAssumption`. `Speech`: `SpeechAssumption` (at
least one bubble, segment and place of look-ahead; composed bubbles are bubbles; `None` is
no segment). `LocalSession`: `LocalSessionAssumption` (there are sessions, agents and
sockets, none of them is `Null`, finitely many methods run at a time, at least one attempt
is allowed). No theorem fixes a value: agents, viewers, sockets, streams, clients,
sessions, segments, methods and bounds are arbitrary, and each option may be on or off.
Two theorems have hypotheses beyond these, `ReconnectCorrect` and `RefinementCorrect`,
explained below.

| Theorem | Says |
|---|---|
| `TypeCorrect` | `Spec => []TypeOK` |
| `SlotsAreOpen` | a request that is shown can be answered |
| `DisposeIsComplete` | a disposed host has answered every request, hidden ones included, and takes no new one |
| `RequestsKept` | both, as `RequestsAreKept` |
| `FetchHoldsItsSlot` | the quota slot holds the current generation exactly while its fetch runs |
| `FenceProtectsTurn` | nothing shows the state idle while the newest prompt runs uncancelled |
| `ErrorsAreOurs` | an error appears only for an uncancelled prompt of the session shown |
| `QuotaBelongs` | outside a switch the quota is that of the session shown |
| `TranscriptBelongs` | outside a switch so is the transcript |
| `NewSessionAsks` | `NewSessionAsksQuota`: a session that takes over fetches its quota, whatever fetch of the session before it still hangs |
| `WireTyped`, `OwnersExclude`, `NoHostLeftBehind`, `StreamsHaveHost`, `NothingLeftBehind`, `RowsAreStreams`, `TakeoversAreTold`, `RowsSurvive` | `WireOwnership`: types, `OneOwner`, `NoOrphanHost`, `NoOrphanStream`, both as `NothingOrphaned`, `RowsFollowStreams`, `TakeoverIsTold`, `RowSurvivesOldStream` |
| `TypeCorrect`, `OnlyPatch`, `RecordIsTrue`, `NextHostResumes`, `DeletedIsGone` | `AgentLifecycle`: types, `OnlyPatchMisleads`, `RowNamesSession`, `ConversationKept`, `DeletedStaysGone` |
| `TypeCorrect`, `ReportedOnce` | `AgentEvents`: types, `StallOncePerTurn` |
| `TypeCorrect`, `WatermarkCorrect`, `ReconnectCorrect` | `PatchStream`: types, `WatermarkIsTrue`, and, with one host or no switches, `ReconnectIsCurrent` |
| `RefinementCorrect` | `PatchStream` implements `SharedState` (`SharedStates`), with one host or no switches, and an agent that does not return to an earlier message |
| `TypeCorrect`, `AudioCorrect`, `PlayOrderCorrect`, `ParkedCorrect` | `Speech`: types, `ReadyHasAudio`, `PlaysInOrder`, `ParkedLeavesNothing` |
| `TypeCorrect`, `StrandedCorrect`, `FrozenCorrect`, `HistoryCorrect` | `LocalSession`: types, `NothingIsStranded`, `FrozenIsReleased`, `HistoryKept` |

The argument for the session host, in the order in which the modules build on each other:

1. *Types* (`SessionHostProofs`): each helper keeps the types it touches, then one step
   per action.
2. *Requests*: all actions are classified by what they do to the request variables
   (`RequestStep`: open one, settle some, dispose, or nothing). `SlotIsOpen` and
   `DisposeAnswersAll` are inductive together over this classification.
3. *Quota slot*: the same with `QuotaStep`. `FetchHoldsSlot` alone is not inductive: a second
   fetch of the current generation, or one of a later generation, would break it one
   step on. `FetchInv` adds that there is neither, and that the slot is not ahead.
4. *The fence* (`SessionHostProofs`): `TurnInv` adds to `BusyWhileTurnRuns` that
   prompts are told apart by their turn and none is ahead of `turnSeq` (`PromptsInv`), that a
   cancel which still is current has marked its turn (`CancelsInv`), and that the newest
   prompt runs on the session shown with no switch under way (`CurrentInv`). Without the
   second, a resumed cancel could end a turn nobody cancelled.
   `ErrorsAreOurs` is an action property: it follows from `TurnInv` at the one step that
   sets an error, `PromptFails`.
5. *Ownership* (`SessionHostOwnershipProofs`): `OwnershipInv` says that there is at most
   one switch, how the switch record, the boot phase and the session shown agree
   (`SwitchInv`), that a ready host shows a real session (`ShownInv`), that the quota during a
   switch is that of the session left and a fetch of the current generation exists only
   outside of one (`QuotaInv`), and what may enter the transcript while a switch is on
   (`TranscriptInv`). It needs `TurnInv` where a prompt ends: only the newest turn fetches
   the quota, and no switch is under way then. `NewSessionAsks` follows from it and from
   `FetchInv`: a switch that succeeds has advanced the generation, no fetch of that
   generation exists (`QuotaInv`), and the slot is not ahead (`FetchInv`), so nothing makes
   `requestQuota` return early.

For the wire (`WireOwnershipProofs`), `IInv` has four parts besides the types. `HostInv`
ties the phase of a creation to its host: which is open, and that a registered host
excludes a creation. `TakeInv` says what a socket in `await host.dispose()` relies on: its
host is closing, no other socket waits for the same one, and, unless something ran in the
window, the host still is the registered one. `OwnerInv` is `OneOwner` and `NoOrphanHost`
with `active = evictEntry`: without that a creation could evict nobody while a socket is
active. `ViewInv` joins `NoOrphanStream` and `RowsFollowStreams` with the fact that an
open stream's epoch is never ahead of the connection's, from which `TakeoverIsTold`
follows at the one step that attaches a socket.

For the lifecycle (`AgentLifecycleProofs`), `BootInv` says that the sets of a boot are
disjoint and empty when they should be; per agent, `LinkInv` ties the connection to a row
that is on disk, and a row that says ready to a backend that serves (from it and the
kinds of step follows `OnlyPatchMisleads`), `RecordInv` says who knows the
session on disk, in the cache and in a PATCH under way, and `DeletedInv` that a deleted
agent has no row, no unit and no place in a boot, and that a pending connect of it is
cancelled. That is what keeps a launch that resumes after the delete from bringing it
back. A step for one agent leaves the others alone (`Elsewhere`); what remains is one
lemma per kind of step.

For the events (`AgentEventsProofs`), `IInv` adds to the types that finitely many
deliveries wait (a host that is made takes as many turns as there are) and `AllMarked`:
the last report is not ahead of the turns, and a turn that was reported is marked or has
lost its start. The mark alone is not inductive, because an end clears it; it is the start,
cleared in the same place, that keeps late output from reopening the turn for the sweep.
`EmitKeeps` carries both through a delivery, which may begin turns of any number of hosts.

For the stream (`PatchStreamProofs`), `OrderInv` says that the patches on their way are
numbered without a gap: those in `source` end at the host's version, those in each
subscription end where `source` begins, the frames on the network are not ahead of them,
and only the first frame of a connection may be a state. A step of the host extends this
numbering, and everything else moves patches along it, so `WatermarkIsTrue` follows where
a frame is taken. The types need the fold of frame-zero: `FoldLeft` is defined by a
recursive function, and its value is shown to be a state by the least index at which it
would not be one. `CurrentInv` says that a viewer is never ahead of the frame-zero that travels
towards it, that one which has taken it shows a state of the present host, and that
without switches the session tells the hosts apart; it gives
`ReconnectIsCurrent` if the backend is not restarted or no viewer switches. The
hypothesis is needed: with both, two hosts can be switching under the same sentinel, or
a new host can have reached the session a viewer asked the old one for, and a comparison of
their versions says nothing (see [findings](#findings)).

The refinement rests on `StreamInv`, for the states themselves what `OrderInv` is for
their numbers. Every patch on its way, in `source` or a subscription, is a legal step of
the log: applied to the state before, it gives the state after it. The copy the route
serves from finds under each number a message of the same role and key as the state it
has served up to (`Agrees`). Frame-zero may be later than the patches that wait behind
it, and then the copy takes them a second time: it holds messages twice, and still agrees
(`AgreesApply`, `AgreesAgain`), or a reset is among them that clears it.
The frames on the network carry the steps that follow what the viewer shows, without a
gap (`Sent`, `Carries`): `UpdatesCarry` shows that the translation of a patch into
updates carries its step although it loses fields, and `RebuiltPublic` that folding
frame-zero gives the public part of the state it was made from. `SharedNext` then matches
each step: one of the host extends the log, a frame that is taken moves one viewer
forward, and all else is a stutter. One hypothesis is that of `ReconnectCorrect`, and for
the same reason. The other is that the agent does not return to a message it has left
(`Interleaves` is off, as it is in the runs). With it on, TLC finds the views apart within
six states: a chunk of the earlier message starts a second one with the same id at the
host, and frame-zero, where messages are named by their ids, merges the two.

For speech (`SpeechProofs`) there are three layers over the types. `OrderInv`: the list is
sorted by segment, holds exactly the items that are not absent, and the segment the loop
holds is one of them; this is what `InsertAt` keeps. `AheadInv`: until the driver jumps,
nothing behind the cursor was heard, and what the loop holds stands at the cursor, also
when a sentence was inserted before it while the loop was suspended. `StraightInv`: until
the driver jumps each segment is fetched once, with a controller that was not aborted, so
its state is a function of how far its fetch is; only so can a parked loop be shown to
leave nothing, because a late result of an earlier fetch is what would. `ReadyHasAudio`
holds with jumps too: its proof is by what each step does to state and sink of a segment.

For the local session (`LocalSessionProofs`) a step is an operator from worlds to worlds,
so the lemmas are about those, from the inside out. Each first keeps the types. `Settled`
then says that every method in progress has the shape of its kind (which await it can be
at, and that it has what it needs there), and that each thing the view model waits for
is carried by one: a modal by an attach, a switch or a load (`Attempted`), `#reconnecting`
by a loop, `#tearingDown` by a cold attempt, a dialog of its own by a client, a frozen display by an
attempt (`Thawed`). `NothingIsStranded` and `FrozenIsReleased` are parts of it. `HistoryKept` is about
steps: `Outcome` and `Turn` list what a method's step and any other step can come to, and
`Hist` is inductive over these lists: while `mixed` is false the method in progress is
alone, a retry has the display frozen, and it has loaded the session before it says so.
Two methods at a time break it, which is why the property is restricted by `mixed`.

Only model-checked are the liveness properties (`NothingWaitsForEver`, `EverythingArrives`,
`RequestsAnswered`, `BootFinishes`, `EverySegmentSettles`, `SilenceIsNoticed`,
`TurnEndsArrive`), because the prover does not do liveness under fairness.

## Findings

Each is an expected violation: TLC shows a behaviour of the code that a comment or a
test of the repository rules out. Quotations are in `PROJECT.json`.

| Run | Where | What happens |
|---|---|---|
| `sentinel` | `session-host.ts:733` | two overlapping `newSession` rpcs; the second remembers the sentinel of the first as the old session, and restores it when refused. The host stays parked on `__drive_switching__` |
| `handoff` | `registry.ts:350` | a browser's PATCH writes the session into the row and not into the cache, so the host that takes over from the socket does not resume it |
| `loser` | `agent-session.svelte.ts:1206` | a warm reconnect that loses its agent to another client goes on to a cold one, creates a second agent for the session and deletes the one the other client uses |

More of the kind, found with the same models. Where a definition is named it is in the
module and no run checks it, because a passing run cannot; the rest are behaviours to be
seen in the models.

- Session host: cancelling an agent that never ran a turn schedules the close of a
  `closeOnTurnEnd` agent (`session-host.ts:953`, `CloseFollowsTurnEnd`). A switch cancels
  the requests that are shown; one that a later request pushed out of its slot stays open
  (`session-host.ts:703`, `SwitchCancelsRequests`).
- Patch stream: a viewer learns the session id only from frame-zero or its own rpc; after
  another viewer's switch it prompts the old session, and one that joined in the middle
  of a switch the sentinel (`remote-session-view.ts:487`, `ViewersKnowSession`; its own
  switch the code takes care of, `:421`). The turn start clears the error on the host, its frame does not, and a
  live viewer shows the old error through the new turn (`to-session-update.ts:141`,
  `ErrorIsCurrent`). For an agent that returns to an earlier messageId the host keeps
  three messages and the viewer two (`reduce.ts:405`, `ViewsAgree`). Two hosts that are
  both switching name the same sentinel, and a reconnect compares their versions
  (`remote-session-view.ts:366`, the restriction in `ReconnectIsCurrent`).
- Wire ownership: a host whose creation was in flight during a delete is registered
  afterwards, although `agent-orchestrator.ts:263` wants no window in which a deleted
  agent's host is found. Sockets of a deleted agent stay attached, and a session/new on
  the dead wire is never answered. A socket whose client leaves within the window of
  `dispose` stays active for ever, so that every later eviction runs into its timeout,
  which `eviction-controller.ts:95` did not expect. The row of a replaced socket is never
  removed (`ws-agent.ts:181`). The wait for a full detach that `registry.ts:312` describes
  is skipped when nobody is registered with the eviction controller. No client of the
  repository sends `?epoch=`, so the guard at `events.ts:104` is unused.
- Agent lifecycle: a PATCH may carry the status `ready` with its session
  (`http-agents.ts:157`), and what it says is written whatever the row says by then
  (`:222`). One that was sent before the agent crashed and arrives after it leaves a row
  that is ready without a connection, against `core/src/schemas/agent.ts:141`
  (`ReadyIsConnected`; TLC needs a launch, the PATCH and the crash). The frontend of the
  repository sends no status (`agents-api.ts:94`), other clients of the route may, and a
  test does (`http-agents.test.ts:370`). `OnlyPatchMisleads` says that there is no
  other way to it. The rows `restore` retains are lost with the next change of any row
  (`persistent-registry.ts:40` against `:61`). A delete while the first probe of a launch
  is out leaves a unit running (`agent-orchestrator.ts:273`; the exception in
  `DeletedStaysGone`). A sidecar that is starting when the backend boots has no socket
  file yet, and its row is dropped (`adopt-live-agents.ts:119`).
- Speech: a cancelled fetch that fails after the refetch was ordered: epochs are equal
  again, the fetch reads the controller of the refetch, and its failure is taken for that
  of the new one (`audio-playlist.svelte.ts:390`, `StaleResultIgnored`). Pausing while the loop waits for an item, then jumping and resuming, makes the
  loop play the item it held, which may stay `playing` after it has moved on: "at most one
  playing" (`audio-playlist-invariants.ts:53`) fails. `#pendingCount` can reach zero with
  jobs pending. A broken stream leaves its job `ready`, so the refetch returns at once and
  the segment is skipped after a timeout. A skip by timeout is documented as reversible
  and never reconsidered. `next()` while the loop waits for an item whose audio is
  complete does not wake it.
- Agent events: a session switch ends the running turn, and a crash or a delete ends it
  with its host, and no subscriber is told. An event that reaches a subscriber during its
  `newSession` is prompted to `__drive_switching__` and lost, and a turn begun during any
  switch is made idle when the switch ends, so its end is announced to nobody and the
  sweep passes over it (the restriction of `SilenceIsNoticed` and `TurnEndsArrive` to
  turns begun outside a switch). When the subscriber's host cannot be made, although its
  agent lives, the event is logged and dropped (`agent-events-deliver.ts:49`), and nobody
  tries again: `TurnEndsArrive` allows for that (`refused`). Output that arrives after a cancel ended the turn makes
  the answer end it a second time, which is announced again. An event supersedes the turn
  the subscriber is running. Agents that subscribe to each other, or one to itself, prompt
  each other without end. The grace timer of `closeOnTurnEnd` kills the agent whatever
  turn has begun since (`server-session-host-opts.ts:46`). A subscription cannot be
  ended: `unsubscribe` has no caller.
- Local session: a cold reconnect deletes the previous agent also when the load of the
  new one failed (`agent-session.svelte.ts:1271` speaks of success). A manual reconnect
  clears the timer of the loop but not an attempt that is past it, so two attempts run
  (`:2117` promises the contrary). `closeAndWait` closes an open socket with 1005, whose
  handler takes it for a loss and starts a loop beside the method that closed it; with an
  answer of `getAgent` that always comes late this repeats. So does a refused attach to a
  running agent, which has no cold attempt by design. A late answer of `getAgent` clears
  an error surfaced since. A socket lost while a cold reconnect notifies the backend is
  not noticed (`#tearingDown`), nor is a release (1000), which leaves `connected` over a
  dead socket. A takeover in the middle of a turn is shown as `error`: the prompt's catch
  comes after the handler. The DELETE of an agent closes no socket, so a `session/load`
  over it is never answered, under a modal without end. Leaving does not clear the frozen
  display. A warm attempt of the loop drops the client while an attach to a running agent
  has its socket open: a question that agent asks is shown with no client at all (why
  `NothingIsStranded` speaks of the questions put to the tab's own client). The user can
  still answer it.

The properties that hold have limits worth knowing. `TranscriptIsOurs` excepts the host
that fell back from a warm to a cold start: its filter is open in between, and what the
failed load let in stays. `BusyWhileTurnRuns`, `ErrorIsOurs`, `QuotaIsOurs` and
`TranscriptIsOurs` hold for viewers that wait for each other's switches (`Overlap`), the
first two for agents without ACP v2 state updates. `ViewsAgree`, which the refinement
`SharedStates` contains, holds for agents that do not return to an earlier messageId.
`ReconnectIsCurrent` holds when no switch is under way at the two snapshots; the *warm*
restart, where the rebuilt host has the same session id and lower versions, breaks it
too, and the code says so itself (`remote-session-view.ts:369`).

## What is not modelled, and why

- *Session host*: setMode and setConfigOption (their state is separate from everything
  the properties read), the commands list, titles, usage and opaque updates, and the
  policies that answer a permission without a viewer (they change nothing).
- *Patch stream*: the final 404, malformed frames, the warm restart.
- *Reducer*: thoughts, attachments, metadata, titles, commands, modes, usage and quota in
  the fold; agents without messageIds.
- *Wire ownership*: the rpc and state routes, which find or create a host exactly as the
  events route does; several agents (the registries keep them apart by id); the content
  of the wire; the scope checks.
- *Agent lifecycle*: agents without a sidecar (they die with the backend), titles and
  other fields of a row, sidecars started by hand on a socket in use, the buffering inside
  a sidecar.
- *Speech*: provider choice and cache, the bubble player's own fetches, the wake and
  audio-focus handling of the phone, what a sentence is.
- *Local session*: the remote paths of the view model (their state is `PatchStream`'s
  viewer), bubbles, titles, elicitations, modes and options; `local-session-view.ts`.
- *Agent events*: what the section on the module leaves out.
- *Routes, async helpers*: thin, or one call deep; the bounded wait of `rpc-wait.ts`
  watches a promise and changes no state.
- *Provider connections and transports*: process input and output; the session host
  takes what is behind the wire as an environment that does anything.
- *User interface, boot, configuration, CLI*: wiring and rendering. One fact of boot is
  used: restore precedes listen.

## Plan

In order of importance; the models of the first seven are done.

1. `SessionHost` with its two proof modules. **Done.** To come: setConfigOption (a
   late answer after a switch overwrites the new session's options).
2. `SharedState`, `PatchStream` with its proofs. **Done**, with the invariants and
   the refinement. To come: the warm restart as a constant of `Rebuild`.
3. `WireOwnership` with its proofs. **Done.**
4. `AgentLifecycle` with its proofs. **Done.** To come: the lines a sidecar drops while
   nobody owns its socket.
5. `Speech` with its proofs. **Done.** To come: a second event of the driver.
6. `LocalSession` with its proofs. **Done.** To come: the loss of a socket that nobody
   listens to any more, as a property of its own.
7. `AgentEvents`. **Done**. To come: chains of subscriptions, and what the caller of
   `session_send` is told when its turn was superseded.
8. A composition of `WireOwnership` with `SessionHost`'s life cycle (dispose, finish,
   crash) through a shared abstract host.
