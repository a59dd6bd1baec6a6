---------------------------- MODULE SessionHost ----------------------------
(***************************************************************************)
(* The session host of the backend: the object that owns the ACP client of *)
(* one agent, keeps the SessionState every viewer sees, and serves the     *)
(* rpcs of all viewers at once (packages/backend/src/session-host).        *)
(*                                                                         *)
(* Nothing serialises the rpcs: each awaits the agent and resumes in       *)
(* whatever state the others have left.  A step of this module is one      *)
(* macrotask of the Node event loop with the microtasks it triggers, so a  *)
(* handler is split exactly where the code awaits the agent or a timer.    *)
(*                                                                         *)
(* Versions, patches and their delivery are abstracted here: they are the  *)
(* subject of module PatchStream.                                          *)
(***************************************************************************)
EXTENDS Integers, FiniteSets

CONSTANTS
  Sessions,        \* ACP session ids
  NoSession,       \* currentState.sessionId = null
  Switching,       \* the sentinel "__drive_switching__"
  Remembered,      \* acpSessionIdCache entry of the agent, or NoSession
  Usage,           \* capabilities.usage
  CloseOnTurnEnd,  \* the agent was created with closeOnTurnEnd
  RequestTimeout,  \* a finite permission/elicitation timeout is configured
  AgentV2,         \* the agent sends ACP v2 state_update notifications
  Overlap,         \* viewers start rpcs while a session switch is in flight
  CancelHandles,   \* bound: cancels in flight at once
  MaxTurnSeq,      \* bound: turns and session switches together
  MaxRequests,     \* bound: permission and elicitation requests
  MaxGeneration    \* bound: session starts requested by viewers

ASSUME SessionsAssumption ==
  /\ NoSession \notin Sessions
  /\ Switching \notin Sessions \union {NoSession}
  /\ Remembered \in Sessions \union {NoSession}

ASSUME ConfigurationAssumption ==
  {Usage, CloseOnTurnEnd, RequestTimeout, AgentV2, Overlap} \subseteq BOOLEAN

ASSUME BoundsAssumption == {MaxTurnSeq, MaxRequests, MaxGeneration} \subseteq Nat

VARIABLES
  boot,                \* progress of initSession
  outcome,             \* the SessionInitOutcome it returned
  sessionId,           \* currentState.sessionId
  turnState,           \* idle, waiting, or busy for the other three values
  lastTurnError,       \* currentState.lastTurnError is not null
  status,              \* currentState.status
  transcript,          \* the sessions that contributed to currentState.messages
  pending,             \* currentState.pending: the visible request of each kind
  open,                \* entries of permPending and elicitPending
  nextRequestId,
  turnSeq,
  cancelledTurn,
  turnEnded,           \* onTurnEnded was called
  closeScheduled,      \* closeOnTurnEndScheduled
  quota,               \* the session whose quota currentState.quota shows
  quotaGeneration,
  quotaFetchGeneration,
  fetches,             \* _drive/getQuota calls in flight
  prompts,             \* session/prompt calls in flight
  cancels,             \* session/cancel calls in flight
  switches,            \* session/new and session/load calls in flight
  live,                \* sessions the agent has open
  wire,                \* the transport to the agent
  disposed,
  streamOpen           \* patchController is not null

sessionVars == <<boot, outcome, sessionId, transcript, switches, live>>
turnVars    == <<turnState, lastTurnError, turnSeq, cancelledTurn, turnEnded,
                 closeScheduled, prompts, cancels>>
requestVars == <<pending, open, nextRequestId>>
quotaVars   == <<quota, quotaGeneration, quotaFetchGeneration, fetches>>
lifeVars    == <<status, wire, disposed, streamOpen>>
vars == <<sessionVars, turnVars, requestVars, quotaVars, lifeVars>>

-----------------------------------------------------------------------------

Kinds     == {"permission", "elicitation"}
NoRequest == -1

Ids       == Sessions \union {NoSession, Switching}
Requests  == [id : Nat, kind : Kinds]
Fetches   == [gen : Nat, session : Ids]
Prompts   == [turn : Nat, session : Ids]
Cancels   == [turn : Nat, handle : CancelHandles]
Switches  == [gen : Nat, kind : {"cold", "new", "load"}, target : Ids, old : Ids]

TypeOK ==
  /\ boot \in {"start", "warm", "cold", "ready", "failed"}
  /\ outcome \in {"none", "warm", "cold", "cold-after-warm-failed"}
  /\ sessionId \in Ids
  /\ turnState \in {"idle", "waiting", "busy"}
  /\ lastTurnError \in BOOLEAN
  /\ status \in {"idle", "disconnected"}
  /\ transcript \subseteq Ids
  /\ pending \in [Kinds -> Nat \union {NoRequest}]
  /\ open \subseteq Requests
  /\ nextRequestId \in Nat
  /\ turnSeq \in Nat
  /\ cancelledTurn \in Nat \union {-1}
  /\ turnEnded \in BOOLEAN
  /\ closeScheduled \in BOOLEAN
  /\ quota \in Ids
  /\ quotaGeneration \in Nat
  /\ quotaFetchGeneration \in Nat \union {-1}
  /\ fetches \subseteq Fetches
  /\ prompts \subseteq Prompts
  /\ cancels \subseteq Cancels
  /\ switches \subseteq Switches
  /\ live \subseteq Sessions
  /\ wire \in {"up", "crashed", "closed"}
  /\ disposed \in BOOLEAN
  /\ streamOpen \in BOOLEAN

Init ==
  /\ boot = "start" /\ outcome = "none"
  /\ sessionId = NoSession
  /\ turnState = "idle" /\ lastTurnError = FALSE
  /\ status = "idle"
  /\ transcript = {}
  /\ pending = [k \in Kinds |-> NoRequest]
  /\ open = {} /\ nextRequestId = 0
  /\ turnSeq = 0 /\ cancelledTurn = -1
  /\ turnEnded = FALSE /\ closeScheduled = FALSE
  /\ quota = NoSession
  /\ quotaGeneration = 0 /\ quotaFetchGeneration = -1 /\ fetches = {}
  /\ prompts = {} /\ cancels = {} /\ switches = {}
  /\ live = {Remembered} \ {NoSession}
  /\ wire = "up" /\ disposed = FALSE /\ streamOpen = TRUE

-----------------------------------------------------------------------------
(* Helpers shared by the handlers. *)

(* A viewer's rpc is accepted: doCreate has published the host. *)
Serving == boot = "ready" /\ ~disposed

(* The sessionId filter in front of every message of the agent. *)
PassesFilter(s) == sessionId = NoSession \/ s = sessionId

(* PendingRequests.respond followed by the finally of the handler, which   *)
(* clears the visible slot only when it still shows this very request.     *)
Settle(done) ==
  /\ open' = open \ done
  /\ pending' = [k \in Kinds |->
       IF \E r \in done : r.kind = k /\ r.id = pending[k]
       THEN NoRequest ELSE pending[k]]

(* applyPendingRequest: one slot per kind, an earlier request is overwritten. *)
OpenRequest(k) ==
  /\ open' = open \union {[id |-> nextRequestId, kind |-> k]}
  /\ pending' = [pending EXCEPT ![k] = nextRequestId]
  /\ nextRequestId' = nextRequestId + 1

Visible == {r \in open : pending[r.kind] = r.id}

(* emitTurnEnd(applyTurnEnd(currentState, error)): silent when there is     *)
(* nothing to change.                                                      *)
EndTurn(failed) ==
  LET emits == failed \/ turnState # "idle"
  IN  /\ turnState' = "idle"
      /\ lastTurnError' = IF emits THEN failed ELSE lastTurnError
      /\ turnEnded' = (turnEnded \/ emits)

(* maybeScheduleCloseOnTurnEnd, after the turn end it follows. *)
CleanTurnEnd == pending["permission"] = NoRequest /\ ~lastTurnError'

ScheduleClose ==
  closeScheduled' = (closeScheduled \/ (CloseOnTurnEnd /\ ~disposed /\ CleanTurnEnd))

(* Mutant: a plain in-flight flag instead of a generation. *)
StartQuotaFetchOnce(s, gen) ==
  IF quotaFetchGeneration = -1 /\ Usage
  THEN /\ quotaFetchGeneration' = gen
       /\ fetches' = fetches \union {[gen |-> gen, session |-> s]}
  ELSE UNCHANGED <<quotaFetchGeneration, fetches>>

(* startQuotaFetch(s) at generation gen, the value of quotaGeneration'. *)
StartQuotaFetch(s, gen) ==
  /\ quotaFetchGeneration' = gen
  /\ fetches' = IF quotaFetchGeneration # gen /\ Usage
                THEN fetches \union {[gen |-> gen, session |-> s]}
                ELSE fetches

-----------------------------------------------------------------------------
(* Opening and switching sessions. *)

(* Mutant: the switch forgets turnSeq++. *)
BeginSwitchKeepsTurn(kind, target) ==
  /\ cancelledTurn' = -1
  /\ quotaGeneration' = quotaGeneration + 1
  /\ Settle(Visible)
  /\ transcript' = {}
  /\ sessionId' = target
  /\ switches' = switches \union
       {[gen |-> quotaGeneration + 1, kind |-> kind, target |-> target, old |-> sessionId]}
  /\ UNCHANGED <<turnSeq, turnState, lastTurnError, turnEnded, closeScheduled, prompts, cancels,
                 nextRequestId, quota, quotaFetchGeneration, fetches>>

(* beginSessionSwitchInvalidate, cancelOpenPendingSync, the reset, and the *)
(* flip of sessionId: one macrotask, ended by the call to the agent.       *)
BeginSwitch(kind, target) ==
  /\ turnSeq' = turnSeq + 1
  /\ cancelledTurn' = -1
  /\ quotaGeneration' = quotaGeneration + 1
  /\ Settle(Visible)
  /\ transcript' = {}
  /\ sessionId' = target
  /\ switches' = switches \union
       {[gen |-> quotaGeneration + 1, kind |-> kind, target |-> target, old |-> sessionId]}
  /\ UNCHANGED <<turnState, lastTurnError, turnEnded, closeScheduled, prompts, cancels,
                 nextRequestId, quota, quotaFetchGeneration, fetches>>

(* newSession of a host without a session: only the call to the agent. *)
BeginCold ==
  /\ switches' = switches \union
       {[gen |-> quotaGeneration, kind |-> "cold", target |-> NoSession, old |-> NoSession]}
  /\ UNCHANGED <<sessionId, transcript, turnVars, requestVars, quotaVars>>

(* initSession: warm reattach when a session id is remembered, else cold. *)
BootStart ==
  /\ boot = "start"
  /\ \/ /\ Remembered # NoSession
        /\ boot' = "warm"
        /\ BeginSwitch("load", Remembered)
     \/ /\ Remembered = NoSession
        /\ boot' = "cold"
        /\ BeginCold
  /\ UNCHANGED <<outcome, live, lifeVars>>

(* An rpc of a viewer.  Without Overlap the viewers wait for each other. *)
MaySwitch ==
  /\ Serving
  /\ Overlap \/ switches = {}
  /\ turnSeq < MaxTurnSeq /\ quotaGeneration < MaxGeneration

LoadSession(s) ==
  /\ MaySwitch
  /\ BeginSwitch("load", s)
  /\ live' = live \union {s}
  /\ UNCHANGED <<boot, outcome, lifeVars>>

(* Boot left a session behind, so the rpc always takes the warm branch. *)
NewSession ==
  /\ MaySwitch /\ sessionId # NoSession
  /\ BeginSwitch("new", Switching)
  /\ UNCHANGED <<boot, outcome, live, lifeVars>>

(* The agent answers session/load.  sessionId is not written again. *)
LoadSucceeds(w) ==
  /\ wire = "up" /\ w \in switches /\ w.kind = "load"
  /\ switches' = switches \ {w}
  /\ turnState' = "idle" /\ lastTurnError' = FALSE
  /\ quota' = IF w.target = w.old THEN quota ELSE NoSession
  /\ StartQuotaFetch(w.target, quotaGeneration)
  /\ IF boot = "warm" THEN boot' = "ready" /\ outcome' = "warm" ELSE UNCHANGED <<boot, outcome>>
  /\ UNCHANGED <<sessionId, transcript, live, turnSeq, cancelledTurn, turnEnded, closeScheduled,
                 prompts, cancels, requestVars, quotaGeneration, lifeVars>>

(* The agent answers session/new with a session it has not opened before. *)
NewSucceeds(w, s) ==
  /\ wire = "up" /\ w \in switches /\ w.kind = "new" /\ s \notin live
  /\ switches' = switches \ {w}
  /\ sessionId' = s
  /\ turnState' = "idle" /\ lastTurnError' = FALSE
  /\ quota' = NoSession
  /\ StartQuotaFetch(s, quotaGeneration)
  /\ live' = live \union {s}
  /\ UNCHANGED <<boot, outcome, transcript, turnSeq, cancelledTurn, turnEnded, closeScheduled,
                 prompts, cancels, requestVars, quotaGeneration, lifeVars>>

ColdSucceeds(w, s) ==
  /\ wire = "up" /\ w \in switches /\ w.kind = "cold" /\ s \notin live
  /\ switches' = switches \ {w}
  /\ sessionId' = s
  /\ quotaGeneration' = quotaGeneration + 1
  /\ StartQuotaFetch(s, quotaGeneration + 1)
  /\ live' = live \union {s}
  /\ boot' = "ready"
  /\ outcome' = IF Remembered = NoSession THEN "cold" ELSE "cold-after-warm-failed"
  /\ UNCHANGED <<transcript, turnVars, requestVars, quota, lifeVars>>

(* A call fails because the agent says so, or because the transport was    *)
(* closed under it; on a crashed wire it hangs.                            *)
MayFail == wire \in {"up", "closed"}

(* Mutant: the rollback forgets its second reset. *)
RollbackKeepsTranscript(w) ==
  /\ sessionId' = w.old
  /\ turnState' = "idle"
  /\ UNCHANGED <<transcript, lastTurnError, turnSeq, cancelledTurn, turnEnded, closeScheduled,
                 prompts, cancels, requestVars, quotaVars, live>>

(* Mutant: the rollback restores the whole switch record. *)
RollbackWholeRecord(w) ==
  /\ sessionId' = w
  /\ transcript' = {}
  /\ turnState' = "idle"
  /\ UNCHANGED <<lastTurnError, turnSeq, cancelledTurn, turnEnded, closeScheduled, prompts,
                 cancels, requestVars, quotaVars, live>>

(* rollbackSessionSwitch; during boot initSession goes on with newSession, *)
(* which throws when the host was disposed meanwhile.                      *)
Rollback(w) ==
  /\ sessionId' = w.old
  /\ transcript' = {}
  /\ turnState' = "idle"
  /\ UNCHANGED <<lastTurnError, turnSeq, cancelledTurn, turnEnded, closeScheduled, prompts,
                 cancels, requestVars, quotaVars, live>>

SwitchFails(w) ==
  /\ MayFail /\ w \in switches /\ w.kind # "cold" /\ boot = "ready"
  /\ Rollback(w)
  /\ switches' = switches \ {w}
  /\ UNCHANGED <<boot, outcome, lifeVars>>

WarmFails(w) ==
  /\ MayFail /\ w \in switches /\ boot = "warm"
  /\ Rollback(w)
  /\ boot' = "cold"
  /\ switches' = {[gen |-> quotaGeneration, kind |-> "cold", target |-> NoSession, old |-> NoSession]}
  /\ UNCHANGED <<outcome, lifeVars>>

(* Mutant: dispose answers only what the slots show. *)
DisposeVisible ==
  /\ disposed' = TRUE
  /\ Settle(Visible)
  /\ UNCHANGED nextRequestId

(* dispose, up to its setTimeout(0): every request is answered, including  *)
(* those the slots no longer show.                                         *)
Dispose ==
  /\ disposed' = TRUE
  /\ Settle(open)
  /\ UNCHANGED nextRequestId

(* doCreate catches a cold failure and disposes the host it never published. *)
ColdFails(w) ==
  /\ MayFail /\ w \in switches /\ w.kind = "cold"
  /\ switches' = switches \ {w}
  /\ boot' = "failed"
  /\ Dispose
  /\ UNCHANGED <<outcome, sessionId, transcript, live, turnVars, quotaVars, status, wire, streamOpen>>

(* A WebSocket takes the agent over (ws-agent.ts). *)
DisposeByTakeover ==
  /\ Serving
  /\ Dispose
  /\ UNCHANGED <<sessionVars, turnVars, quotaVars, status, wire, streamOpen>>

DisposeFinish ==
  /\ disposed /\ streamOpen
  /\ wire' = "closed"
  /\ streamOpen' = FALSE
  /\ UNCHANGED <<sessionVars, turnVars, requestVars, quotaVars, status, disposed>>

(* transport.onClose: the process behind the wire died. *)
Crash ==
  /\ wire = "up"
  /\ wire' = "crashed"
  /\ status' = IF disposed THEN status ELSE "disconnected"
  /\ UNCHANGED <<sessionVars, turnVars, requestVars, quotaVars, disposed, streamOpen>>

-----------------------------------------------------------------------------
(* Turns. *)

(* Without Overlap the viewers prompt the session the host shows. *)
Prompt(s) ==
  /\ Serving /\ turnSeq < MaxTurnSeq
  /\ Overlap \/ (switches = {} /\ s = sessionId)
  /\ turnSeq' = turnSeq + 1
  /\ turnState' = "waiting" /\ lastTurnError' = FALSE
  /\ transcript' = transcript \union {s}
  /\ prompts' = prompts \union {[turn |-> turnSeq + 1, session |-> s]}
  /\ UNCHANGED <<boot, outcome, sessionId, switches, live, cancelledTurn, turnEnded,
                 closeScheduled, cancels, requestVars, quotaVars, lifeVars>>

(* Mutant: any turn may end the turn on the state. *)
NoFence(turn) == turn \leq turnSeq

(* The fence: only the newest turn may end the turn on the state. *)
Current(turn) == turn = turnSeq

PromptSucceeds(p) ==
  /\ wire = "up" /\ p \in prompts
  /\ prompts' = prompts \ {p}
  /\ IF Current(p.turn)
     THEN /\ EndTurn(FALSE)
          /\ ScheduleClose
          /\ IF sessionId # NoSession
             THEN StartQuotaFetch(sessionId, quotaGeneration)
             ELSE UNCHANGED <<quotaFetchGeneration, fetches>>
     ELSE UNCHANGED <<turnState, lastTurnError, turnEnded, closeScheduled,
                      quotaFetchGeneration, fetches>>
  /\ UNCHANGED <<turnSeq, cancelledTurn, cancels, quota, quotaGeneration, sessionVars,
                 requestVars, lifeVars>>

PromptFails(p) ==
  /\ MayFail /\ p \in prompts
  /\ prompts' = prompts \ {p}
  /\ IF Current(p.turn)
     THEN EndTurn(p.turn # cancelledTurn)
     ELSE UNCHANGED <<turnState, lastTurnError, turnEnded>>
  /\ UNCHANGED <<turnSeq, cancelledTurn, closeScheduled, cancels, sessionVars, requestVars,
                 quotaVars, lifeVars>>

(* cancel marks the turn, notifies the agent and resumes. *)
Cancel(h) ==
  /\ Serving
  /\ \A c \in cancels : c.handle # h
  /\ cancelledTurn' = turnSeq
  /\ cancels' = cancels \union {[turn |-> turnSeq, handle |-> h]}
  /\ UNCHANGED <<turnState, lastTurnError, turnSeq, turnEnded, closeScheduled, prompts,
                 sessionVars, requestVars, quotaVars, lifeVars>>

CancelResumes(c) ==
  /\ c \in cancels
  /\ cancels' = cancels \ {c}
  /\ IF Current(c.turn)
     THEN EndTurn(FALSE) /\ ScheduleClose
     ELSE UNCHANGED <<turnState, lastTurnError, turnEnded, closeScheduled>>
  /\ UNCHANGED <<turnSeq, cancelledTurn, prompts, sessionVars, requestVars, quotaVars, lifeVars>>

-----------------------------------------------------------------------------
(* What the agent sends on its own. *)

Heard(s) == wire = "up" /\ ~disposed /\ s \in live /\ PassesFilter(s)

(* handleUpdate with a message chunk, a whole message or a tool call.       *)
(* Replayed user text keeps the turn state; everything else makes it busy. *)
AgentContent(s) ==
  /\ Heard(s)
  /\ transcript' = transcript \union {s}
  /\ turnState' \in {turnState, "busy"}
  /\ UNCHANGED <<boot, outcome, sessionId, switches, live, lastTurnError, turnSeq, cancelledTurn,
                 turnEnded, closeScheduled, prompts, cancels, requestVars, quotaVars, lifeVars>>

(* handleUpdate with an ACP v2 state_update: running is a floor unless it   *)
(* carries our finer state, idle carries a clean or a failed stop reason.  *)
AgentStateUpdate(s) ==
  /\ AgentV2 /\ Heard(s)
  /\ \/ /\ turnState' \in {"waiting", "busy"}
        /\ UNCHANGED lastTurnError
     \/ /\ turnState' = "idle"
        /\ lastTurnError' \in BOOLEAN
  /\ UNCHANGED <<turnSeq, cancelledTurn, turnEnded, closeScheduled, prompts, cancels,
                 sessionVars, requestVars, quotaVars, lifeVars>>

(* handleRequestPermission and handleCreateElicitation.  Refused requests   *)
(* (host disposed, other session) and those the policy answers change      *)
(* nothing; an elicitation without a session passes every filter.          *)
AgentRequest(k) ==
  /\ wire = "up" /\ ~disposed /\ nextRequestId < MaxRequests
  /\ k = "permission" => \E s \in live : PassesFilter(s)
  /\ OpenRequest(k)
  /\ UNCHANGED <<sessionVars, turnVars, quotaVars, lifeVars>>

(* requestScopePermission: denied at once while a permission is showing. *)
ScopeRequest ==
  /\ Serving /\ nextRequestId < MaxRequests
  /\ pending["permission"] = NoRequest
  /\ OpenRequest("permission")
  /\ UNCHANGED <<sessionVars, turnVars, quotaVars, lifeVars>>

(* respondPermission and respondElicitation, by exact id. *)
Respond(r) ==
  /\ Serving /\ r \in open
  /\ Settle({r})
  /\ UNCHANGED <<nextRequestId, sessionVars, turnVars, quotaVars, lifeVars>>

(* Mutant: only the request the slot shows has a timer. *)
ExpireVisible(r) ==
  /\ RequestTimeout /\ r \in Visible
  /\ Settle({r})
  /\ UNCHANGED <<nextRequestId, sessionVars, turnVars, quotaVars, lifeVars>>

Expire(r) ==
  /\ RequestTimeout /\ r \in open
  /\ Settle({r})
  /\ UNCHANGED <<nextRequestId, sessionVars, turnVars, quotaVars, lifeVars>>

-----------------------------------------------------------------------------
(* Quota. *)

(* Mutant: whoever settles empties the slot. *)
ReleaseAnySlot(f) ==
  /\ fetches' = fetches \ {f}
  /\ quotaFetchGeneration' = -1

(* The finally of the fetch: only the owner of the slot releases it. *)
ReleaseQuotaSlot(f) ==
  /\ fetches' = fetches \ {f}
  /\ quotaFetchGeneration' =
       IF quotaFetchGeneration = f.gen THEN -1 ELSE quotaFetchGeneration

(* Mutant: the answer is not compared with the current generation. *)
QuotaAnswersStale(f) ==
  /\ wire = "up" /\ f \in fetches
  /\ quota' = IF disposed THEN quota ELSE f.session
  /\ ReleaseQuotaSlot(f)
  /\ UNCHANGED <<quotaGeneration, sessionVars, turnVars, requestVars, lifeVars>>

QuotaAnswers(f) ==
  /\ wire = "up" /\ f \in fetches
  /\ quota' = IF disposed \/ quotaGeneration # f.gen THEN quota ELSE f.session
  /\ ReleaseQuotaSlot(f)
  /\ UNCHANGED <<quotaGeneration, sessionVars, turnVars, requestVars, lifeVars>>

(* The agent refuses, or the five seconds are over. *)
QuotaFails(f) ==
  /\ f \in fetches
  /\ ReleaseQuotaSlot(f)
  /\ UNCHANGED <<quota, quotaGeneration, sessionVars, turnVars, requestVars, lifeVars>>

-----------------------------------------------------------------------------

SessionNext ==
  \/ BootStart
  \/ NewSession
  \/ \E s \in Sessions : LoadSession(s)
  \/ \E w \in switches : LoadSucceeds(w) \/ SwitchFails(w) \/ WarmFails(w) \/ ColdFails(w)
  \/ \E w \in switches, s \in Sessions : NewSucceeds(w, s) \/ ColdSucceeds(w, s)

TurnNext ==
  \/ \E s \in Sessions : Prompt(s)
  \/ \E p \in prompts : PromptSucceeds(p) \/ PromptFails(p)
  \/ \E h \in CancelHandles : Cancel(h)
  \/ \E c \in cancels : CancelResumes(c)

AgentNext == \E s \in Sessions : AgentContent(s) \/ AgentStateUpdate(s)

RequestNext ==
  \/ \E k \in Kinds : AgentRequest(k)
  \/ ScopeRequest
  \/ \E r \in open : Respond(r) \/ Expire(r)

QuotaNext == \E f \in fetches : QuotaAnswers(f) \/ QuotaFails(f)

LifeNext == DisposeByTakeover \/ DisposeFinish \/ Crash

Next == SessionNext \/ TurnNext \/ AgentNext \/ RequestNext \/ QuotaNext \/ LifeNext

Spec == Init /\ [][Next]_vars

(* Timers fire and local continuations run; nothing is assumed of the agent *)
(* or of the viewers.  Boot alone may take two generations of the quota, so *)
(* MaxGeneration is at least 2 where fairness is used; no two fetches of    *)
(* one generation run at a time.                                           *)
Fairness ==
  /\ WF_vars(DisposeFinish)
  /\ \A g \in 1..MaxGeneration : WF_vars(\E f \in fetches : f.gen = g /\ QuotaFails(f))
  /\ \A n \in 0..MaxRequests-1 : WF_vars(\E r \in open : r.id = n /\ Expire(r))

FairSpec == Spec /\ Fairness
-----------------------------------------------------------------------------
(* Properties. *)

(* The question a viewer is shown can still be answered: the visible slot  *)
(* of a kind never outlives its promise, through overwriting, expiry,      *)
(* session switches and dispose (clearPendingRequest, pending-requests.ts). *)
SlotIsOpen ==
  \A k \in Kinds :
    pending[k] # NoRequest => [id |-> pending[k], kind |-> k] \in open

(* dispose leaves no handler of the agent waiting: also the requests that   *)
(* a later one pushed out of the slot are answered (respondAll).           *)
DisposeAnswersAll == disposed => open = {}

(* A request of the agent is shown only while it can be answered, and none  *)
(* outlives the host: the slot and the map of promises agree at every point *)
(* where one of them is read (pending-requests.ts).                        *)
RequestsAreKept == SlotIsOpen /\ DisposeAnswersAll

(* The in-flight slot of the quota fetch is taken exactly while a fetch of  *)
(* the current generation runs: a late answer of an older session neither   *)
(* frees it nor keeps it (startQuotaFetch).                                *)
FetchHoldsSlot ==
  Usage => ((\E f \in fetches : f.gen = quotaGeneration)
              <=> quotaFetchGeneration = quotaGeneration)

(* Outside a switch the quota shown is the quota of the session shown,     *)
(* whatever answers of earlier sessions are still on their way.            *)
QuotaIsOurs == (~Overlap /\ switches = {}) => quota \in {NoSession, sessionId}

(* Outside a switch every message in the transcript belongs to the session *)
(* shown; excepted is the host that fell back from a warm to a cold start, *)
(* whose filter was open while it had no session.                          *)
TranscriptIsOurs ==
  (~Overlap /\ boot = "ready" /\ switches = {} /\ outcome # "cold-after-warm-failed")
    => transcript \subseteq {sessionId}

(* While the newest prompt runs and nobody cancelled it, the viewers see a  *)
(* turn in progress: no older turn, stale cancel or finished switch turns   *)
(* the state idle under it (the turnSeq fence).                            *)
TurnRuns == \E p \in prompts : Current(p.turn) /\ cancelledTurn # p.turn

BusyWhileTurnRuns == (~Overlap /\ ~AgentV2 /\ TurnRuns) => turnState # "idle"

(* A turn error appears only for a prompt of the session shown that nobody  *)
(* cancelled: not for a turn of the session left behind, nor for a cancel.  *)
ErrorIsOurs ==
  [][(~Overlap /\ ~AgentV2 /\ ~lastTurnError /\ lastTurnError') =>
       \E p \in prompts \ prompts' : p.session = sessionId /\ p.turn # cancelledTurn]_vars

(* A session that takes over gets its own quota fetch even while the fetch  *)
(* of the session before it hangs.                                         *)
NewSessionAsksQuota ==
  [][(Usage /\ ~Overlap /\ \E w \in switches \ switches' : sessionId' # w.old
                                                       /\ boot' = "ready")
       => [gen |-> quotaGeneration', session |-> sessionId'] \in fetches']_vars

(* The quota slot is never held for ever: a hanging fetch is given up.      *)
QuotaSlotReleased ==
  \A g \in 1..MaxGeneration :
    (Usage /\ quotaFetchGeneration = g) ~> (quotaFetchGeneration # g)

(* With a timeout configured every request is answered, visible or not.     *)
RequestsExpire ==
  \A n \in 0..MaxRequests-1 :
    (RequestTimeout /\ \E r \in open : r.id = n) ~> ~(\E r \in open : r.id = n)

(* A disposed host ends its patch stream, so no viewer waits on it.         *)
DisposeEndsStream == disposed ~> ~streamOpen

(* What hangs on an agent that may never answer ends all the same: the      *)
(* quota slot, a request nobody sees, the stream of a disposed host.       *)
NothingWaitsForEver == QuotaSlotReleased /\ RequestsExpire /\ DisposeEndsStream

(* The three that the code does not keep; each is a finding.                *)

(* newSession restores the session it left when the agent refuses: with no  *)
(* switch in flight the host is not parked on the sentinel.                *)
SentinelIsTransient == switches = {} => sessionId # Switching

(* The close is scheduled after a turn end (session-host.ts:265). *)
CloseFollowsTurnEnd == closeScheduled => turnEnded

(* A switch answers the open requests of the session it leaves.            *)
SwitchCancelsRequests ==
  [][(boot = "ready" /\ switches' \ switches # {}) => open' = {}]_vars
=============================================================================
