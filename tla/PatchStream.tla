---------------------------- MODULE PatchStream ----------------------------
(***************************************************************************)
(* The way of the session state from the host to its viewers: the patches  *)
(* the host emits, the broadcaster that drains and fans them out, the      *)
(* events route that turns each patch into a session/update frame against  *)
(* a copy of the state it folds itself, the SSE connection with its drops  *)
(* and reconnects, and RemoteSessionView, which folds the frames again.    *)
(*                                                                         *)
(* Every hand-over is asynchronous: a patch may wait in the host's stream, *)
(* in a subscription or on the network while the host runs ahead.  Of the  *)
(* SessionState the model keeps what takes different roads over the wire:  *)
(* the messages, the turn with its error, and the pending dialog.          *)
(***************************************************************************)
EXTENDS Integers, Sequences, SequencesExt

CONSTANTS
  Viewers,
  BufferSize,    \* BUFFER_SIZE, patches the broadcaster keeps for late subscribers
  Interleaves,   \* the agent returns to an earlier messageId
  Switches,      \* what viewers ask for: no switches, new sessions, any session
  MaxStates,     \* bound: states of all hosts together
  MaxRestarts,   \* bound: hosts rebuilt
  MaxDrops       \* bound: connections lost, per viewer

ASSUME SwitchesAssumption ==
  /\ Interleaves \in BOOLEAN
  /\ Switches \in {"none", "new", "any"}
ASSUME BoundsAssumption ==
  {BufferSize, MaxStates, MaxRestarts, MaxDrops} \subseteq Nat

VARIABLES
  log,       \* the states of all hosts so far; the last is currentState
  start,     \* position in log of the present host's version 0
  session,   \* currentState.sessionId
  created,   \* session ids the agent has given out: 1..created
  switch,    \* the session/new or session/load in flight
  prompted,  \* the prompt of the current turn is in flight and not cancelled
  restarts,  \* hosts rebuilt so far
  source,    \* host.patches: emitted, not drained yet
  buffer,    \* the broadcaster's ring buffer
  link,      \* per viewer: its SSE connection
  inbox,     \* per viewer: its subscription
  served,    \* per viewer: the events route's copy of the state
  net,       \* per viewer: frames on their way
  drops,     \* per viewer: connections lost so far
  view,      \* per viewer: RemoteSessionView
  reply      \* per viewer: the answer of its session rpc, on its way

hostVars   == <<log, start, session, created, switch, prompted, restarts>>
serverVars == <<source, buffer, inbox, served>>
viewerVars == <<view, reply>>
vars == <<hostVars, serverVars, link, net, drops, viewerVars>>

-----------------------------------------------------------------------------
(* The state and its patches. *)

Switching == 0      \* the sentinel "__drive_switching__"
None      == -1     \* no session id yet, or no answer on its way
NoKey     == 0      \* messageId null
Sessions  == 1..created

Roles    == {"user", "agent", "tool"}
Turns    == {"idle", "waiting", "busy"}
Messages == [id : Nat, key : Nat, role : Roles, n : Nat]
States   == [messages : Seq(Messages), turn : Turns, error : BOOLEAN, pending : BOOLEAN]

Initial == [messages |-> <<>>, turn |-> "idle", error |-> FALSE, pending |-> FALSE]

Merge(s, changes) ==
  [f \in DOMAIN s |-> IF f \in DOMAIN changes THEN changes[f] ELSE s[f]]

(* The content of a message says what the agent is doing. *)
TurnOf(s, role) == IF role = "user" THEN s.turn ELSE "busy"

Add(s, key, role, n) ==
  [s EXCEPT !.messages = Append(@, [id |-> Len(@), key |-> key, role |-> role, n |-> n]),
            !.turn     = TurnOf(s, role)]

(* applyPatch: the immutable fold of one patch.  A target that is not there leaves the *)
(* state alone. *)
ApplyPatch(s, op) ==
  CASE op.kind = "add" ->
         [s EXCEPT !.messages = Append(@, op.message), !.turn = TurnOf(s, op.message.role)]
    [] op.kind \in {"append", "tool"} ->
         LET i == SelectInSeq(s.messages, LAMBDA m : m.id = op.target)
         IN  IF i = 0 \/ (s.messages[i].role = "tool") /= (op.kind = "tool")
             THEN s
             ELSE [s EXCEPT !.messages[i].n = IF op.kind = "tool" THEN op.n ELSE @ + op.n,
                            !.turn = IF op.kind = "tool" THEN @
                                     ELSE TurnOf(s, s.messages[i].role)]
    [] op.kind = "reset" -> [s EXCEPT !.messages = <<>>]
    [] op.kind = "session" -> Merge(s, op.changes)

Reset       == [kind |-> "reset"]
Session(c)  == [kind |-> "session", changes |-> c]
AddOp(s, key, role, n) ==
  [kind |-> "add", message |-> [id |-> Len(s.messages), key |-> key, role |-> role, n |-> n]]
AppendOp(m) == [kind |-> "append", target |-> m.id, n |-> 1]
ToolOp(m)   == [kind |-> "tool", target |-> m.id, n |-> m.n + 1]

(* handleTextChunk: walking back over tools and user messages, the message the chunk *)
(* continues, 0 if the first other message found has another messageId. *)
Continued(ms, key) ==
  LET texts == {i \in DOMAIN ms : ms[i].role = "agent"}
      last  == CHOOSE i \in texts : \A j \in texts : j <= i
  IN  IF texts /= {} /\ ms[last].key = key THEN last ELSE 0

-----------------------------------------------------------------------------
(* The wire: patches and states as session/update frames, and their fold. *)

(* turnState and lastTurnError travel as one state_update: idle carries the error, *)
(* running carries the fine turnState and nothing else. *)
StateUpdate(changes) ==
  IF "turn" \notin DOMAIN changes THEN changes
  ELSE IF changes.turn = "idle"
       THEN [f \in DOMAIN changes \union {"error"} |->
               IF f \in DOMAIN changes THEN changes[f] ELSE FALSE]
       ELSE [f \in DOMAIN changes \ {"error"} |-> changes[f]]

WholeMessage(m) == [kind |-> "message", key |-> m.key, role |-> m.role, n |-> m.n]

(* updateFrame: the updates of one patch, against the state after it.  A patch whose *)
(* target is not in that state has no frame. *)
Updates(s, op) ==
  CASE op.kind = "add" -> <<WholeMessage(op.message)>>
    [] op.kind \in {"append", "tool"} ->
         LET i == SelectInSeq(s.messages, LAMBDA m : m.id = op.target)
         IN  IF i = 0 \/ (s.messages[i].role = "tool") /= (op.kind = "tool") THEN <<>>
             ELSE IF op.kind = "tool"
                  THEN <<[WholeMessage(s.messages[i]) EXCEPT !.n = op.n]>>
                  ELSE <<[kind |-> "chunk", key |-> s.messages[i].key]>>
    [] op.kind = "reset" -> <<Reset>>
    [] op.kind = "session" -> <<Session(StateUpdate(op.changes))>>

(* A whole message replaces the one of its role and messageId, or is added; the ids the *)
(* wire makes up for user messages are never stored, so those are always added. *)
ReduceMessage(s, u) ==
  LET i == IF u.role = "user" THEN 0
           ELSE SelectInSeq(s.messages, LAMBDA m : m.role = u.role /\ m.key = u.key)
  IN  IF i = 0 THEN Add(s, u.key, u.role, u.n)
      ELSE [s EXCEPT !.messages[i].n = u.n,
                     !.turn = IF u.role = "tool" THEN @ ELSE "busy"]

ReduceChunk(s, u) ==
  LET i == Continued(s.messages, u.key)
  IN  IF i = 0 THEN Add(s, u.key, "agent", 1)
      ELSE [s EXCEPT !.messages[i].n = @ + 1, !.turn = "busy"]

(* reduce: the fold of one session/update. *)
Reduce(s, u) ==
  CASE u.kind = "message" -> ReduceMessage(s, u)
    [] u.kind = "chunk"   -> ReduceChunk(s, u)
    [] u.kind = "reset"   -> [s EXCEPT !.messages = <<>>]
    [] u.kind = "session" -> Merge(s, u.changes)

(* stateToSessionUpdates and foldSnapshot: what a viewer rebuilds from frame-zero. *)
Rebuilt(s) ==
  LET wholes == [i \in DOMAIN s.messages |-> WholeMessage(s.messages[i])]
      rest   == StateUpdate([turn |-> s.turn, error |-> s.error, pending |-> s.pending])
  IN  Merge(FoldLeft(Reduce, Initial, wholes), rest)

-----------------------------------------------------------------------------
(* The host. *)

host    == log[Len(log)]
Version == Len(log) - start

(* Every change of the state is one patch, emitted with the version it makes. *)
Emit(op) ==
  /\ Len(log) < MaxStates
  /\ log' = Append(log, ApplyPatch(host, op))
  /\ source' = Append(source, [version |-> Version + 1, op |-> op])

EmitBoth(first, second) ==
  /\ Len(log) + 1 < MaxStates
  /\ LET next == ApplyPatch(host, first)
     IN  log' = log \o <<next, ApplyPatch(next, second)>>
  /\ source' = source \o <<[version |-> Version + 1, op |-> first],
                           [version |-> Version + 2, op |-> second]>>

HostStep == UNCHANGED <<start, restarts, buffer, inbox, served, link, net, drops, view>>
InSession == UNCHANGED <<session, created, switch, reply>>

(* A prompt starts the turn and adds the user's message; the turn start is skipped *)
(* when it would change nothing. *)
Prompt ==
  LET message == AddOp(host, NoKey, "user", 1)
  IN  /\ IF host.turn = "waiting" /\ ~host.error
         THEN Emit(message)
         ELSE EmitBoth(Session([turn |-> "waiting", error |-> FALSE]), message)
      /\ prompted' = TRUE
      /\ HostStep /\ InSession

(* The turn ends with its prompt, which may fail, or with a cancel, after which the *)
(* prompt no longer fails; without an error this is nothing on an idle host. *)
TurnEnd(failed) ==
  /\ IF failed THEN prompted ELSE host.turn /= "idle"
  /\ prompted' = FALSE
  /\ Emit(Session([turn |-> "idle", error |-> failed]))
  /\ HostStep /\ InSession

(* Updates that name another session than the present one are dropped; the sentinel *)
(* names none. *)
Listening == session /= Switching

(* A chunk of the agent continues a message or starts one. *)
AgentChunk(key) ==
  LET i == Continued(host.messages, key)
  IN  /\ Listening
      /\ Emit(IF i = 0 THEN AddOp(host, key, "agent", 1) ELSE AppendOp(host.messages[i]))
      /\ UNCHANGED prompted /\ HostStep /\ InSession

FreshKey == Len(log)
ChunkKeys ==
  {FreshKey} \union {m.key : m \in {m \in Range(host.messages) :
                        m.role = "agent" /\ (Interleaves \/ Continued(host.messages, m.key) /= 0)}}

(* A tool call is created or updated. *)
AgentTool ==
  /\ Listening
  /\ \/ Emit(AddOp(host, FreshKey, "tool", 1))
     \/ \E m \in Range(host.messages) : m.role = "tool" /\ Emit(ToolOp(m))
  /\ UNCHANGED prompted /\ HostStep /\ InSession

(* A permission or elicitation dialog opens or closes. *)
Pending ==
  /\ Emit(Session([pending |-> ~host.pending]))
  /\ UNCHANGED prompted /\ HostStep /\ InSession

(* A viewer's session/new or session/load: open dialogs are cancelled, the transcript *)
(* is reset, and the session id flips, which no patch carries. *)
SwitchBegin(v, target) ==
  /\ switch = {} /\ view[v].at > 0 /\ reply[v] = None
  /\ IF host.pending THEN EmitBoth(Session([pending |-> FALSE]), Reset) ELSE Emit(Reset)
  /\ switch' = {[by |-> v, target |-> target, old |-> session]}
  /\ session' = IF target \in Sessions THEN target ELSE Switching
  /\ prompted' = FALSE
  /\ UNCHANGED <<created, reply>>
  /\ HostStep

Targets ==
  (IF Switches = "none" THEN {} ELSE {created + 1}) \union
  (IF Switches = "any" THEN Sessions ELSE {})

(* The agent opens the session; the rpc answers its id to the viewer that asked. *)
SwitchSucceeds ==
  \E w \in switch :
    /\ session' = w.target
    /\ created' = IF w.target > created THEN w.target ELSE created
    /\ Emit(Session([turn |-> "idle", error |-> FALSE]))
    /\ reply' = [reply EXCEPT ![w.by] = w.target]
    /\ switch' = {}
    /\ UNCHANGED prompted /\ HostStep

(* The agent refuses: the id is restored, the transcript is not. *)
SwitchFails ==
  \E w \in switch :
    /\ session' = w.old
    /\ EmitBoth(Reset, Session([turn |-> "idle"]))
    /\ switch' = {}
    /\ UNCHANGED <<created, prompted, reply>>
    /\ HostStep

(* The backend restarts without the session and builds a new host, whose versions *)
(* start from zero. *)
Rebuild ==
  /\ Len(log) < MaxStates
  /\ restarts < MaxRestarts /\ restarts' = restarts + 1
  /\ log' = Append(log, Initial) /\ start' = Len(log) + 1
  /\ session' = created + 1 /\ created' = created + 1
  /\ switch' = {} /\ prompted' = FALSE /\ source' = <<>> /\ buffer' = <<>>
  /\ link' = [v \in Viewers |-> "away"]
  /\ inbox' = [v \in Viewers |-> <<>>] /\ served' = [v \in Viewers |-> Initial]
  /\ net' = [v \in Viewers |-> <<>>]
  /\ UNCHANGED <<drops, view, reply>>

-----------------------------------------------------------------------------
(* The broadcaster and the events route. *)

(* The ring buffer drops its oldest patch when it is over its size. *)
(* Mutant: the buffer is never shifted. *)
KeepAll(patches) == patches

Keep(patches) ==
  SubSeq(patches, IF Len(patches) > BufferSize THEN 2 ELSE 1, Len(patches))

(* Mutant: a subscription without a queue. *)
SubscribedWhenRead(v) == link[v] = "open" /\ inbox[v] = <<>>

Subscribed(v) == link[v] = "open"

(* drain: the next patch of the host goes to the ring buffer and to every subscriber. *)
Dispatch ==
  /\ source /= <<>>
  /\ buffer' = Keep(Append(buffer, Head(source)))
  /\ inbox' = [v \in Viewers |-> IF Subscribed(v) THEN Append(inbox[v], Head(source))
                                 ELSE inbox[v]]
  /\ source' = Tail(source)
  /\ UNCHANGED <<hostVars, served, link, net, drops, viewerVars>>

(* What a subscription replays: the buffered patches of a later version than the one *)
(* it gives, which are the last ones, since the buffer is in order. *)
Replay(patches, version) ==
  LET i == SelectInSeq(patches, LAMBDA p : p.version > version)
  IN  IF i = 0 THEN <<>> ELSE SubSeq(patches, i, Len(patches))

(* GET /events: the state and the subscription are taken in one step, and frame-zero *)
(* is on its way. *)
Connect(v) ==
  /\ link[v] = "away"
  /\ link' = [link EXCEPT ![v] = "open"]
  /\ inbox' = [inbox EXCEPT ![v] = Replay(buffer, Version)]
  /\ served' = [served EXCEPT ![v] = host]
  /\ net' = [net EXCEPT ![v] = <<[kind |-> "snapshot", version |-> Version,
                                  session |-> session, state |-> host]>>]
  /\ UNCHANGED <<hostVars, source, buffer, drops, viewerVars>>

(* The route folds the next patch of the subscription and writes its frame, if any. *)
Serve(v) ==
  /\ inbox[v] /= <<>>
  /\ LET patch == Head(inbox[v])
         after == ApplyPatch(served[v], patch.op)
         frame(u) == [kind |-> "update", version |-> patch.version, update |-> u]
         updates == Updates(after, patch.op)
     IN  /\ served' = [served EXCEPT ![v] = after]
         /\ net' = [net EXCEPT ![v] = @ \o [i \in DOMAIN updates |-> frame(updates[i])]]
  /\ inbox' = [inbox EXCEPT ![v] = Tail(@)]
  /\ UNCHANGED <<hostVars, source, buffer, link, drops, viewerVars>>

(* The connection is lost, with everything still on it. *)
Drop(v) ==
  /\ link[v] = "open" /\ drops[v] < MaxDrops
  /\ link' = [link EXCEPT ![v] = "away"]
  /\ drops' = [drops EXCEPT ![v] = @ + 1]
  /\ inbox' = [inbox EXCEPT ![v] = <<>>]
  /\ served' = [served EXCEPT ![v] = Initial]
  /\ net' = [net EXCEPT ![v] = <<>>]
  /\ UNCHANGED <<hostVars, source, buffer, viewerVars>>

-----------------------------------------------------------------------------
(* RemoteSessionView. *)

Arrives(v, kind) ==
  /\ net[v] /= <<>> /\ Head(net[v]).kind = kind
  /\ net' = [net EXCEPT ![v] = Tail(@)]
  /\ UNCHANGED <<hostVars, serverVars, link, drops, reply>>

(* Mutant: the watermark is counted by the fold. *)
ReplacedCounting(frame) ==
  [state |-> Rebuilt(frame.state), seen |-> Len(frame.state.messages) + 2,
   known |-> frame.session, at |-> start + frame.version]
Replaced(frame) ==
  [state |-> Rebuilt(frame.state), seen |-> frame.version, known |-> frame.session,
   at |-> start + frame.version]

(* Mutant: versions are compared across sessions. *)
NothingMissedByVersion(v, frame) ==
  view[v].at > 0 /\ frame.version <= view[v].seen

(* A reconnect to the same session without a newer version missed nothing. *)
NothingMissed(v, frame) ==
  view[v].at > 0 /\ frame.session = view[v].known /\ frame.version <= view[v].seen

(* Frame-zero replaces the whole state, after a reconnect only if something was missed. *)
TakeSnapshot(v) ==
  /\ Arrives(v, "snapshot")
  /\ view' = IF NothingMissed(v, Head(net[v])) THEN view
             ELSE [view EXCEPT ![v] = Replaced(Head(net[v]))]

(* Mutant: no watermark. *)
NeverStale(v, frame) == FALSE

Stale(v, frame) == frame.version <= view[v].seen

(* applyIncoming: a frame the watermark does not cover is folded, and the server's *)
(* version becomes the watermark. *)
TakeUpdate(v) ==
  /\ Arrives(v, "update")
  /\ LET frame == Head(net[v])
     IN  view' = IF Stale(v, frame) THEN view
                 ELSE [view EXCEPT ![v].state = Reduce(@, frame.update),
                                   ![v].seen = frame.version,
                                   ![v].at = start + frame.version]

(* The answer of the viewer's own session rpc names the session. *)
TakeReply(v) ==
  /\ reply[v] /= None
  /\ view' = [view EXCEPT ![v].known = reply[v]]
  /\ reply' = [reply EXCEPT ![v] = None]
  /\ UNCHANGED <<hostVars, serverVars, link, net, drops>>

-----------------------------------------------------------------------------
Init ==
  /\ log = <<Initial>> /\ start = 1
  /\ session = 1 /\ created = 1 /\ switch = {} /\ prompted = FALSE /\ restarts = 0
  /\ source = <<>> /\ buffer = <<>>
  /\ link = [v \in Viewers |-> "away"]
  /\ inbox = [v \in Viewers |-> <<>>] /\ served = [v \in Viewers |-> Initial]
  /\ net = [v \in Viewers |-> <<>>] /\ drops = [v \in Viewers |-> 0]
  /\ view = [v \in Viewers |-> [state |-> Initial, seen |-> 0, known |-> None, at |-> 0]]
  /\ reply = [v \in Viewers |-> None]

HostNext ==
  \/ Prompt
  \/ \E failed \in BOOLEAN : TurnEnd(failed)
  \/ \E key \in ChunkKeys : AgentChunk(key)
  \/ AgentTool
  \/ Pending
  \/ \E v \in Viewers, target \in Targets : SwitchBegin(v, target)
  \/ SwitchSucceeds
  \/ SwitchFails
  \/ Rebuild

ViewerNext(v) ==
  Connect(v) \/ Serve(v) \/ Drop(v) \/ TakeSnapshot(v) \/ TakeUpdate(v) \/ TakeReply(v)

Next == HostNext \/ Dispatch \/ \E v \in Viewers : ViewerNext(v)

Spec == Init /\ [][Next]_vars

(* The drain loop and the route's read loop run whenever there is something to read, *)
(* a silent or lost connection is aborted and reopened, and an open one delivers. *)
FairSpec ==
  /\ Spec
  /\ WF_vars(Dispatch)
  /\ \A v \in Viewers :
       /\ WF_vars(view[v].at > 0 /\ Connect(v))
       /\ WF_vars(Serve(v))
       /\ WF_vars(TakeSnapshot(v)) /\ WF_vars(TakeUpdate(v))

-----------------------------------------------------------------------------
(* Properties. *)

TypeOK ==
  /\ log \in Seq(States) /\ start \in 1..Len(log)
  /\ session \in Nat /\ created \in Nat /\ restarts \in Nat /\ prompted \in BOOLEAN
  /\ Len(source) <= MaxStates /\ Len(buffer) <= BufferSize
  /\ link \in [Viewers -> {"away", "open"}]
  /\ served \in [Viewers -> States]
  /\ view \in [Viewers -> [state : States, seen : Nat, known : Nat \union {None}, at : Nat]]
  /\ reply \in [Viewers -> Nat \union {None}]

(* What a viewer shows of a state; the error of the last turn, which the wire may lose, *)
(* is the subject of ErrorIsCurrent. *)
Public(s) == [messages |-> s.messages, turn |-> s.turn, pending |-> s.pending]

(* A viewer that has joined shows exactly the state its position in the log names. *)
ViewsAgree ==
  \A v \in Viewers : view[v].at > 0 => Public(view[v].state) = Public(log[view[v].at])

(* The stream keeps what SharedState promises: over drops, overlapping replays and *)
(* switches, what a viewer shows is a state the host really had, and never an older *)
(* one than before. *)
Shared == INSTANCE SharedState WITH
  log  <- [i \in DOMAIN log |-> Public(log[i])],
  at   <- [v \in Viewers |-> view[v].at],
  view <- [v \in Viewers |-> Public(view[v].state)]

SharedStates == Shared!Spec

(* The watermark is the server's version of what is shown ("otherwise every comparison *)
(* with it becomes a lie", remote-session-view.ts:299). *)
WatermarkIsTrue ==
  \A v \in Viewers : view[v].at >= start => view[v].seen = view[v].at - start

(* Taking frame-zero leaves the viewer at the state it describes: what a reconnect *)
(* ignores, the viewer already shows. *)
ReconnectIsCurrent ==
  [][\A v \in Viewers :
       TakeSnapshot(v) => view'[v].at = start + Head(net[v]).version]_vars

(* Once a viewer has joined, every later state of the host is shown or passed by a *)
(* later one. *)
EverythingArrives ==
  \A v \in Viewers, i \in 2..MaxStates :
    (view[v].at > 0 /\ Len(log) >= i) ~> view[v].at >= i

(* A viewer shows no error of the last turn that the host has cleared: turnState and *)
(* lastTurnError "always travel together" (to-session-update.ts:129). *)
ErrorIsCurrent ==
  \A v \in Viewers : view[v].at > 0 /\ view[v].state.error => log[view[v].at].error

(* With nothing left to deliver, a viewer prompts the session the host has. *)
Settled(v) ==
  /\ view[v].at > 0 /\ link[v] = "open" /\ switch = {} /\ reply[v] = None
  /\ source = <<>> /\ inbox[v] = <<>> /\ net[v] = <<>>

ViewersKnowSession == \A v \in Viewers : Settled(v) => view[v].known = session

=============================================================================
