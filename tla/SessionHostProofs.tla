------------------------- MODULE SessionHostProofs -------------------------
(* Proofs about SessionHost for every number of sessions, turns, requests  *)
(* and generations.                                                        *)
EXTENDS SessionHost, TLAPS

-----------------------------------------------------------------------------
(* Helpers keep the types of what they assign. *)

(* Settling requests leaves a well-formed set of open requests and slots. *)
LEMMA SettleType ==
  ASSUME TypeOK, NEW done, Settle(done)
  PROVE  open' \subseteq Requests /\ pending' \in [Kinds -> Nat \union {NoRequest}]
BY DEF TypeOK, Settle, NoRequest

(* A new request gets a well-formed entry and slot. *)
LEMMA OpenRequestType ==
  ASSUME TypeOK, NEW k \in Kinds, OpenRequest(k)
  PROVE  /\ open' \subseteq Requests
         /\ pending' \in [Kinds -> Nat \union {NoRequest}]
         /\ nextRequestId' \in Nat
BY DEF TypeOK, OpenRequest, Requests, NoRequest

(* A turn end assigns Booleans and a turn state. *)
LEMMA EndTurnType ==
  ASSUME TypeOK, NEW failed \in BOOLEAN, EndTurn(failed)
  PROVE  turnState' \in {"idle", "waiting", "busy"} /\ lastTurnError' \in BOOLEAN
         /\ turnEnded' \in BOOLEAN
BY DEF TypeOK, EndTurn

(* A quota fetch is well formed. *)
LEMMA StartQuotaFetchType ==
  ASSUME TypeOK, NEW s \in Ids, NEW gen \in Nat, StartQuotaFetch(s, gen)
  PROVE  quotaFetchGeneration' \in Nat \union {-1} /\ fetches' \subseteq Fetches
BY DEF TypeOK, StartQuotaFetch, Fetches

(* So are the switch records and everything else a switch assigns. *)
LEMMA BeginSwitchType ==
  ASSUME TypeOK, NEW kind \in {"new", "load"}, NEW target \in Ids, BeginSwitch(kind, target)
  PROVE  /\ turnSeq' \in Nat /\ cancelledTurn' \in Nat \union {-1}
         /\ quotaGeneration' \in Nat /\ transcript' \subseteq Ids /\ sessionId' \in Ids
         /\ switches' \subseteq Switches
         /\ open' \subseteq Requests /\ pending' \in [Kinds -> Nat \union {NoRequest}]
<1>1. open' \subseteq Requests /\ pending' \in [Kinds -> Nat \union {NoRequest}]
  BY SettleType DEF BeginSwitch
<1> QED
  BY <1>1 DEF TypeOK, BeginSwitch, Switches

-----------------------------------------------------------------------------
(* Type correctness. *)

(* The initial state is well typed. *)
LEMMA InitType == Init => TypeOK
<1> SUFFICES ASSUME Init
             PROVE  TypeOK
  OBVIOUS
<1>1. /\ lastTurnError \in BOOLEAN /\ turnEnded \in BOOLEAN /\ closeScheduled \in BOOLEAN
      /\ disposed \in BOOLEAN /\ streamOpen \in BOOLEAN
  BY Zenon DEF Init
<1> QED
  BY <1>1, SessionsAssumption DEF Init, TypeOK, Ids, NoRequest

(* Opening, switching and rolling back a session keep the types. *)
LEMMA SessionType ==
  ASSUME TypeOK, SessionNext
  PROVE  TypeOK'
<1> USE SessionsAssumption DEF lifeVars
<1>1. CASE BootStart
  <2>1. CASE Remembered # NoSession /\ boot' = "warm" /\ BeginSwitch("load", Remembered)
    BY <1>1, <2>1, BeginSwitchType DEF BootStart, BeginSwitch, TypeOK, Ids
  <2>2. CASE boot' = "cold" /\ BeginCold
    BY <1>1, <2>2 DEF BootStart, BeginCold, TypeOK, Ids, Switches, turnVars, requestVars, quotaVars
  <2> QED
    BY <1>1, <2>1, <2>2 DEF BootStart
<1>2. CASE NewSession
  BY <1>2, BeginSwitchType DEF NewSession, BeginSwitch, TypeOK, Ids
<1>3. ASSUME NEW s \in Sessions, LoadSession(s)
      PROVE  TypeOK'
  BY <1>3, BeginSwitchType DEF LoadSession, BeginSwitch, TypeOK, Ids
<1>4. ASSUME NEW w \in switches, LoadSucceeds(w)
      PROVE  TypeOK'
  <2>1. w.target \in Ids
    BY DEF TypeOK, Switches
  <2>2. quotaFetchGeneration' \in Nat \union {-1} /\ fetches' \subseteq Fetches
    BY <1>4, <2>1, StartQuotaFetchType DEF LoadSucceeds, TypeOK
  <2>3. lastTurnError' \in BOOLEAN
    BY <1>4, Zenon DEF LoadSucceeds
  <2> QED
    BY <1>4, <2>1, <2>2, <2>3 DEF LoadSucceeds, TypeOK, requestVars, Ids
<1>5. ASSUME NEW w \in switches, SwitchFails(w) \/ WarmFails(w)
      PROVE  TypeOK'
  <2>1. w.old \in Ids
    BY DEF TypeOK, Switches
  <2>2. Rollback(w)
    BY <1>5 DEF SwitchFails, WarmFails
  <2>3. CASE SwitchFails(w)
    BY <2>1, <2>2, <2>3 DEF SwitchFails, Rollback, TypeOK, requestVars, quotaVars
  <2>4. CASE WarmFails(w)
    BY <2>1, <2>2, <2>4 DEF WarmFails, Rollback, TypeOK, requestVars, quotaVars, Switches, Ids
  <2> QED
    BY <1>5, <2>3, <2>4
<1>6. ASSUME NEW w \in switches, ColdFails(w)
      PROVE  TypeOK'
  <2>1. Dispose
    BY <1>6 DEF ColdFails
  <2>2. open' \subseteq Requests /\ pending' \in [Kinds -> Nat \union {NoRequest}]
    BY <2>1, SettleType DEF Dispose
  <2> QED
    BY <1>6, <2>1, <2>2 DEF ColdFails, Dispose, TypeOK, turnVars, quotaVars
<1>7. ASSUME NEW w \in switches, NEW s \in Sessions, NewSucceeds(w, s)
      PROVE  TypeOK'
  <2>1. quotaFetchGeneration' \in Nat \union {-1} /\ fetches' \subseteq Fetches
    BY <1>7, StartQuotaFetchType DEF NewSucceeds, TypeOK, Ids
  <2> QED
    BY <1>7, <2>1 DEF NewSucceeds, TypeOK, requestVars, Ids
<1>8. ASSUME NEW w \in switches, NEW s \in Sessions, ColdSucceeds(w, s)
      PROVE  TypeOK'
  <2>1. quotaGeneration + 1 \in Nat
    BY DEF TypeOK
  <2>2. quotaFetchGeneration' \in Nat \union {-1} /\ fetches' \subseteq Fetches
    BY <1>8, <2>1, StartQuotaFetchType DEF ColdSucceeds, Ids
  <2> QED
    BY <1>8, <2>1, <2>2 DEF ColdSucceeds, TypeOK, turnVars, requestVars, Ids
<1> QED
  BY <1>1, <1>2, <1>3, <1>4, <1>5, <1>6, <1>7, <1>8 DEF SessionNext

(* Prompts and cancels, their answers included, keep the types. *)
LEMMA TurnType ==
  ASSUME TypeOK, TurnNext
  PROVE  TypeOK'
<1> USE DEF sessionVars, requestVars, lifeVars
<1>1. ASSUME NEW s \in Sessions, Prompt(s)
      PROVE  TypeOK'
  <2>1. lastTurnError' \in BOOLEAN
    BY <1>1, Zenon DEF Prompt
  <2>2. prompts' \subseteq Prompts
    BY <1>1 DEF Prompt, Prompts, TypeOK, Ids
  <2> QED
    BY <1>1, <2>1, <2>2 DEF Prompt, TypeOK, Ids, quotaVars
<1>2. ASSUME NEW p \in prompts, PromptSucceeds(p)
      PROVE  TypeOK'
  <2>1. CASE Current(p.turn)
    <3>1. turnState' \in {"idle", "waiting", "busy"} /\ lastTurnError' \in BOOLEAN
          /\ turnEnded' \in BOOLEAN
      BY <1>2, <2>1, EndTurnType DEF PromptSucceeds
    <3>2. closeScheduled' \in BOOLEAN
      BY <1>2, <2>1 DEF PromptSucceeds, ScheduleClose, TypeOK
    <3>3. quotaFetchGeneration' \in Nat \union {-1} /\ fetches' \subseteq Fetches
      BY <1>2, <2>1, StartQuotaFetchType DEF PromptSucceeds, TypeOK
    <3> QED
      BY <1>2, <3>1, <3>2, <3>3 DEF PromptSucceeds, TypeOK
  <2>2. CASE ~Current(p.turn)
    BY <1>2, <2>2 DEF PromptSucceeds, TypeOK
  <2> QED
    BY <2>1, <2>2
<1>3. ASSUME NEW p \in prompts, PromptFails(p)
      PROVE  TypeOK'
  <2>1. turnState' \in {"idle", "waiting", "busy"} /\ lastTurnError' \in BOOLEAN
        /\ turnEnded' \in BOOLEAN
    BY <1>3, EndTurnType DEF PromptFails, TypeOK
  <2> QED
    BY <1>3, <2>1 DEF PromptFails, TypeOK, quotaVars
<1>4. ASSUME NEW h \in CancelHandles, Cancel(h)
      PROVE  TypeOK'
  BY <1>4 DEF Cancel, TypeOK, Cancels, quotaVars
<1>5. ASSUME NEW c \in cancels, CancelResumes(c)
      PROVE  TypeOK'
  <2>1. turnState' \in {"idle", "waiting", "busy"} /\ lastTurnError' \in BOOLEAN
        /\ turnEnded' \in BOOLEAN
    BY <1>5, EndTurnType DEF CancelResumes, TypeOK
  <2>2. closeScheduled' \in BOOLEAN
    BY <1>5 DEF CancelResumes, ScheduleClose, TypeOK
  <2> QED
    BY <1>5, <2>1, <2>2 DEF CancelResumes, TypeOK, quotaVars
<1> QED
  BY <1>1, <1>2, <1>3, <1>4, <1>5 DEF TurnNext

(* So do the notifications of the agent. *)
LEMMA AgentType ==
  ASSUME TypeOK, AgentNext
  PROVE  TypeOK'
<1> USE DEF sessionVars, requestVars, quotaVars, lifeVars
<1>1. ASSUME NEW s \in Sessions, AgentContent(s)
      PROVE  TypeOK'
  BY <1>1 DEF AgentContent, TypeOK, Ids
<1>2. ASSUME NEW s \in Sessions, AgentStateUpdate(s)
      PROVE  TypeOK'
  BY <1>2 DEF AgentStateUpdate, TypeOK
<1> QED
  BY <1>1, <1>2 DEF AgentNext

(* So do the requests of the agent and their answers. *)
LEMMA RequestType ==
  ASSUME TypeOK, RequestNext
  PROVE  TypeOK'
<1> USE DEF sessionVars, turnVars, quotaVars, lifeVars
<1>1. ASSUME NEW k \in Kinds, OpenRequest(k), UNCHANGED <<sessionVars, turnVars, quotaVars, lifeVars>>
      PROVE  TypeOK'
  BY <1>1, OpenRequestType DEF TypeOK
<1>2. ASSUME NEW r \in open, Respond(r) \/ Expire(r)
      PROVE  TypeOK'
  <2>1. Settle({r}) /\ UNCHANGED <<nextRequestId, sessionVars, turnVars, quotaVars, lifeVars>>
    BY <1>2 DEF Respond, Expire
  <2> QED
    BY <2>1, SettleType DEF TypeOK
<1> QED
  BY <1>1, <1>2 DEF RequestNext, AgentRequest, ScopeRequest, Kinds

(* So do the answers to the quota fetches. *)
LEMMA QuotaType ==
  ASSUME TypeOK, QuotaNext
  PROVE  TypeOK'
<1> USE DEF sessionVars, turnVars, requestVars, lifeVars
<1>1. PICK f \in fetches : QuotaAnswers(f) \/ QuotaFails(f)
  BY DEF QuotaNext
<1>2. f.gen \in Nat /\ f.session \in Ids
  BY DEF TypeOK, Fetches
<1>3. ReleaseQuotaSlot(f)
  BY <1>1 DEF QuotaAnswers, QuotaFails
<1>4. quotaFetchGeneration' \in Nat \union {-1} /\ fetches' \subseteq Fetches
  BY <1>3 DEF ReleaseQuotaSlot, TypeOK
<1>5. quota' \in Ids
  BY <1>1, <1>2 DEF QuotaAnswers, QuotaFails, TypeOK
<1> QED
  BY <1>1, <1>4, <1>5 DEF QuotaAnswers, QuotaFails, TypeOK

(* So do dispose, its deferred part and the crash. *)
LEMMA LifeType ==
  ASSUME TypeOK, LifeNext
  PROVE  TypeOK'
<1> USE DEF sessionVars, turnVars, quotaVars
<1>1. CASE DisposeByTakeover
  BY <1>1, SettleType DEF DisposeByTakeover, Dispose, TypeOK
<1>2. CASE DisposeFinish
  <2>1. streamOpen' \in BOOLEAN
    BY <1>2, Zenon DEF DisposeFinish
  <2> QED
    BY <1>2, <2>1 DEF DisposeFinish, TypeOK, requestVars
<1>3. CASE Crash
  BY <1>3 DEF Crash, TypeOK, requestVars
<1> QED
  BY <1>1, <1>2, <1>3 DEF LifeNext

(* Stuttering changes nothing. *)
LEMMA StutterType ==
  ASSUME TypeOK, UNCHANGED vars
  PROVE  TypeOK'
BY DEF TypeOK, vars, sessionVars, turnVars, requestVars, quotaVars, lifeVars

(* Every variable of the host keeps its type for ever, whatever the number *)
(* of sessions, turns, requests and viewers.                               *)
THEOREM TypeCorrect == Spec => []TypeOK
<1>1. ASSUME TypeOK, [Next]_vars
      PROVE  TypeOK'
  BY <1>1, SessionType, TurnType, AgentType, RequestType, QuotaType, LifeType, StutterType DEF Next
<1> QED
  BY <1>1, InitType, PTL DEF Spec

-----------------------------------------------------------------------------
(* Requests: the visible slots and the promises behind them. *)

(* What a step can do to the requests: nothing, answer some, answer all    *)
(* while disposing, or open one on a host that is not disposed.            *)
RequestStep ==
  \/ UNCHANGED <<pending, open, disposed>>
  \/ (\E done : Settle(done)) /\ UNCHANGED disposed
  \/ Dispose
  \/ (\E k \in Kinds : OpenRequest(k)) /\ ~disposed /\ UNCHANGED disposed

(* Every step of the host is one of them. *)
LEMMA StepsAreRequestSteps == [Next]_vars => RequestStep
<1> SUFFICES ASSUME [Next]_vars
             PROVE  RequestStep
  OBVIOUS
<1>1. CASE SessionNext
  <2> USE DEF lifeVars, requestVars
  <2>1. CASE BootStart
    BY <2>1 DEF BootStart, BeginSwitch, BeginCold, RequestStep
  <2>2. CASE NewSession
    BY <2>2 DEF NewSession, BeginSwitch, RequestStep
  <2>3. ASSUME NEW s \in Sessions, LoadSession(s)
        PROVE  RequestStep
    BY <2>3 DEF LoadSession, BeginSwitch, RequestStep
  <2>4. ASSUME NEW w \in switches, LoadSucceeds(w) \/ SwitchFails(w) \/ WarmFails(w)
        PROVE  RequestStep
    BY <2>4 DEF LoadSucceeds, SwitchFails, WarmFails, Rollback, RequestStep
  <2>5. ASSUME NEW w \in switches, ColdFails(w)
        PROVE  RequestStep
    BY <2>5 DEF ColdFails, RequestStep
  <2>6. ASSUME NEW w \in switches, NEW s \in Sessions, NewSucceeds(w, s) \/ ColdSucceeds(w, s)
        PROVE  RequestStep
    BY <2>6 DEF NewSucceeds, ColdSucceeds, RequestStep
  <2> QED
    BY <1>1, <2>1, <2>2, <2>3, <2>4, <2>5, <2>6 DEF SessionNext
<1>2. CASE TurnNext
  BY <1>2 DEF TurnNext, Prompt, PromptSucceeds, PromptFails, Cancel, CancelResumes,
              requestVars, lifeVars, RequestStep
<1>3. CASE AgentNext
  BY <1>3 DEF AgentNext, AgentContent, AgentStateUpdate, requestVars, lifeVars, RequestStep
<1>4. CASE RequestNext
  <2> USE DEF lifeVars
  <2>1. ASSUME NEW k \in Kinds, AgentRequest(k)
        PROVE  RequestStep
    BY <2>1 DEF AgentRequest, RequestStep
  <2>2. CASE ScopeRequest
    BY <2>2 DEF ScopeRequest, Serving, Kinds, RequestStep
  <2>3. ASSUME NEW r \in open, Respond(r) \/ Expire(r)
        PROVE  RequestStep
    BY <2>3 DEF Respond, Expire, RequestStep
  <2> QED
    BY <1>4, <2>1, <2>2, <2>3 DEF RequestNext
<1>5. CASE QuotaNext
  BY <1>5 DEF QuotaNext, QuotaAnswers, QuotaFails, requestVars, lifeVars, RequestStep
<1>6. CASE LifeNext
  BY <1>6 DEF LifeNext, DisposeByTakeover, DisposeFinish, Crash, requestVars, RequestStep
<1>7. CASE UNCHANGED vars
  BY <1>7 DEF vars, requestVars, lifeVars, RequestStep
<1> QED
  BY <1>1, <1>2, <1>3, <1>4, <1>5, <1>6, <1>7 DEF Next

(* Settling requests never leaves a settled one in a slot. *)
LEMMA SettleKeepsSlotOpen ==
  ASSUME TypeOK, SlotIsOpen, NEW done, Settle(done)
  PROVE  SlotIsOpen'
<1> SUFFICES ASSUME NEW k \in Kinds, pending'[k] # NoRequest
             PROVE  [id |-> pending'[k], kind |-> k] \in open'
  BY DEF SlotIsOpen
<1> DEFINE r == [id |-> pending[k], kind |-> k]
<1>1. pending'[k] = pending[k] /\ r \notin done
  BY DEF Settle
<1>2. r \in open
  BY <1>1 DEF SlotIsOpen
<1> QED
  BY <1>1, <1>2 DEF Settle

(* The slots and the promises stay together in every step. *)
LEMMA RequestInvariant ==
  ASSUME TypeOK, SlotIsOpen, DisposeAnswersAll, [Next]_vars
  PROVE  SlotIsOpen' /\ DisposeAnswersAll'
<1>1. RequestStep
  BY StepsAreRequestSteps
<1>2. CASE UNCHANGED <<pending, open, disposed>>
  BY <1>2 DEF SlotIsOpen, DisposeAnswersAll
<1>3. ASSUME NEW done, Settle(done), UNCHANGED disposed
      PROVE  SlotIsOpen' /\ DisposeAnswersAll'
  BY <1>3, SettleKeepsSlotOpen DEF DisposeAnswersAll, Settle
<1>4. CASE Dispose
  BY <1>4, SettleKeepsSlotOpen DEF DisposeAnswersAll, Dispose, Settle
<1>5. ASSUME NEW k \in Kinds, OpenRequest(k), ~disposed, UNCHANGED disposed
      PROVE  SlotIsOpen' /\ DisposeAnswersAll'
  BY <1>5 DEF SlotIsOpen, DisposeAnswersAll, OpenRequest, TypeOK
<1> QED
  BY <1>1, <1>2, <1>3, <1>4, <1>5 DEF RequestStep

(* Both hold in every reachable state. *)
LEMMA RequestsHold == Spec => [](SlotIsOpen /\ DisposeAnswersAll)
<1>1. Init => SlotIsOpen /\ DisposeAnswersAll
  BY DEF Init, SlotIsOpen, DisposeAnswersAll
<1> QED
  BY <1>1, RequestInvariant, TypeCorrect, PTL DEF Spec

(* A question shown to a viewer can always still be answered, for any      *)
(* number of requests and whatever overwrote, expired or cancelled them.   *)
THEOREM SlotsAreOpen == Spec => []SlotIsOpen
BY RequestsHold, PTL

(* Whatever ends a host (a takeover or a failed start) answers every       *)
(* request, and none is opened afterwards.                                 *)
THEOREM DisposeIsComplete == Spec => []DisposeAnswersAll
BY RequestsHold, PTL

(* Both together: no request is shown or left after it was answered.       *)
THEOREM RequestsKept == Spec => []RequestsAreKept
BY RequestsHold, PTL DEF RequestsAreKept

-----------------------------------------------------------------------------
(* The in-flight slot of the quota fetch. *)

(* Inductive: fetches and slot are never ahead of the generation, and at   *)
(* most one fetch belongs to the current one.                              *)
FetchInv ==
  Usage => /\ \A f \in fetches : f.gen \leq quotaGeneration
           /\ \A f, g \in fetches :
                f.gen = quotaGeneration /\ g.gen = quotaGeneration => f = g
           /\ quotaFetchGeneration \leq quotaGeneration
           /\ (\E f \in fetches : f.gen = quotaGeneration)
                <=> quotaFetchGeneration = quotaGeneration

(* What a step can do to the fetches: nothing, open a generation, start a  *)
(* fetch of the resulting generation, or settle one.                       *)
QuotaStep ==
  \/ UNCHANGED <<quotaGeneration, quotaFetchGeneration, fetches>>
  \/ quotaGeneration' = quotaGeneration + 1 /\ UNCHANGED <<quotaFetchGeneration, fetches>>
  \/ /\ quotaGeneration' \in {quotaGeneration, quotaGeneration + 1}
     /\ \E s \in Ids : StartQuotaFetch(s, quotaGeneration')
  \/ (\E f \in fetches : ReleaseQuotaSlot(f)) /\ UNCHANGED quotaGeneration

(* Every step of the host is one of them. *)
LEMMA StepsAreQuotaSteps == TypeOK /\ [Next]_vars => QuotaStep
<1> SUFFICES ASSUME TypeOK, [Next]_vars
             PROVE  QuotaStep
  OBVIOUS
<1>1. CASE SessionNext
  <2>1. CASE BootStart
    BY <2>1 DEF BootStart, BeginSwitch, BeginCold, quotaVars, QuotaStep
  <2>2. CASE NewSession
    BY <2>2 DEF NewSession, BeginSwitch, QuotaStep
  <2>3. ASSUME NEW s \in Sessions, LoadSession(s)
        PROVE  QuotaStep
    BY <2>3 DEF LoadSession, BeginSwitch, QuotaStep
  <2>4. ASSUME NEW w \in switches, LoadSucceeds(w)
        PROVE  QuotaStep
    BY <2>4 DEF LoadSucceeds, TypeOK, Switches, QuotaStep
  <2>5. ASSUME NEW w \in switches, SwitchFails(w) \/ WarmFails(w) \/ ColdFails(w)
        PROVE  QuotaStep
    BY <2>5 DEF SwitchFails, WarmFails, Rollback, ColdFails, quotaVars, QuotaStep
  <2>6. ASSUME NEW w \in switches, NEW s \in Sessions, NewSucceeds(w, s)
        PROVE  QuotaStep
    BY <2>6 DEF NewSucceeds, Ids, QuotaStep
  <2>7. ASSUME NEW w \in switches, NEW s \in Sessions, ColdSucceeds(w, s)
        PROVE  QuotaStep
    BY <2>7 DEF ColdSucceeds, Ids, QuotaStep
  <2> QED
    BY <1>1, <2>1, <2>2, <2>3, <2>4, <2>5, <2>6, <2>7 DEF SessionNext
<1>2. CASE TurnNext
  <2>1. ASSUME NEW p \in prompts, PromptSucceeds(p)
        PROVE  QuotaStep
    BY <2>1 DEF PromptSucceeds, TypeOK, QuotaStep
  <2> QED
    BY <1>2, <2>1 DEF TurnNext, Prompt, PromptFails, Cancel, CancelResumes, quotaVars, QuotaStep
<1>3. CASE AgentNext
  BY <1>3 DEF AgentNext, AgentContent, AgentStateUpdate, quotaVars, QuotaStep
<1>4. CASE RequestNext
  BY <1>4 DEF RequestNext, AgentRequest, ScopeRequest, Respond, Expire, quotaVars, QuotaStep
<1>5. CASE QuotaNext
  BY <1>5 DEF QuotaNext, QuotaAnswers, QuotaFails, QuotaStep
<1>6. CASE LifeNext
  BY <1>6 DEF LifeNext, DisposeByTakeover, DisposeFinish, Crash, quotaVars, QuotaStep
<1>7. CASE UNCHANGED vars
  BY <1>7 DEF vars, quotaVars, QuotaStep
<1> QED
  BY <1>1, <1>2, <1>3, <1>4, <1>5, <1>6, <1>7 DEF Next

(* The strengthening is inductive. *)
LEMMA FetchInvariant ==
  ASSUME TypeOK, FetchInv, [Next]_vars
  PROVE  FetchInv'
<1> SUFFICES ASSUME Usage
             PROVE  FetchInv'
  BY DEF FetchInv
<1>1. QuotaStep
  BY StepsAreQuotaSteps
<1>2. /\ quotaGeneration \in Nat /\ quotaFetchGeneration \in Nat \union {-1}
      /\ \A f \in fetches : f.gen \in Nat
  BY DEF TypeOK, Fetches
<1>3. CASE UNCHANGED <<quotaGeneration, quotaFetchGeneration, fetches>>
  BY <1>3 DEF FetchInv
<1>4. CASE quotaGeneration' = quotaGeneration + 1 /\ UNCHANGED <<quotaFetchGeneration, fetches>>
  BY <1>2, <1>4 DEF FetchInv
<1>5. ASSUME NEW s \in Ids, StartQuotaFetch(s, quotaGeneration'),
             quotaGeneration' \in {quotaGeneration, quotaGeneration + 1}
      PROVE  FetchInv'
  <2> DEFINE gen == quotaGeneration'
  <2>1. gen \in Nat /\ quotaFetchGeneration' = gen
        /\ quotaGeneration \leq gen /\ quotaFetchGeneration \leq gen
    BY <1>2, <1>5 DEF FetchInv, StartQuotaFetch
  <2>2. CASE quotaFetchGeneration = gen
    <3>1. gen = quotaGeneration /\ fetches' = fetches
      BY <1>2, <1>5, <2>2 DEF FetchInv, StartQuotaFetch
    <3> QED
      BY <2>1, <2>2, <3>1 DEF FetchInv
  <2>3. CASE quotaFetchGeneration # gen
    <3>1. fetches' = fetches \union {[gen |-> gen, session |-> s]}
      BY <1>5, <2>3 DEF StartQuotaFetch
    <3>2. \A f \in fetches : f.gen < gen
      BY <1>2, <1>5, <2>1, <2>3 DEF FetchInv
    <3>3. \A f \in fetches' : f.gen \leq gen
                             /\ (f.gen = gen => f = [gen |-> gen, session |-> s])
      BY <1>2, <2>1, <3>1, <3>2
    <3>4. \E f \in fetches' : f.gen = gen
      <4> DEFINE f == [gen |-> gen, session |-> s]
      <4>1. f \in fetches'
        BY <3>1
      <4>2. f.gen = gen
        OBVIOUS
      <4> QED
        BY <4>1, <4>2
    <3> QED
      BY <2>1, <3>3, <3>4 DEF FetchInv
  <2> QED
    BY <2>2, <2>3
<1>6. ASSUME NEW f \in fetches, ReleaseQuotaSlot(f), UNCHANGED quotaGeneration
      PROVE  FetchInv'
  BY <1>2, <1>6 DEF FetchInv, ReleaseQuotaSlot
<1> QED
  BY <1>1, <1>3, <1>4, <1>5, <1>6 DEF QuotaStep

(* And holds in every reachable state. *)
LEMMA FetchHolds == Spec => []FetchInv
<1>1. Init => FetchInv
  BY DEF Init, FetchInv
<1> QED
  BY <1>1, FetchInvariant, TypeCorrect, PTL DEF Spec

(* The slot is held exactly while a fetch of the current generation runs,  *)
(* however many generations have gone by.                                  *)
THEOREM FetchHoldsItsSlot == Spec => []FetchHoldsSlot
<1>1. FetchInv => FetchHoldsSlot
  BY DEF FetchInv, FetchHoldsSlot
<1> QED
  BY <1>1, FetchHolds, PTL

-----------------------------------------------------------------------------
(* What the turnSeq fence guarantees. *)

(* A prompt is identified by its turn, and no turn is ahead of turnSeq. *)
PromptsInv ==
  /\ \A p \in prompts : p.turn \leq turnSeq
  /\ \A p, q \in prompts : p.turn = q.turn => p = q
  /\ boot \in {"start", "warm", "cold"} => prompts = {}

(* A cancel whose turn is still the newest has marked it. *)
CancelsInv ==
  \A c \in cancels : c.turn \leq turnSeq /\ (c.turn = turnSeq => cancelledTurn = turnSeq)

(* The newest turn runs on the session shown, and no switch is under way. *)
CurrentInv ==
  ~Overlap => \A p \in prompts : Current(p.turn) => switches = {} /\ p.session = sessionId

(* Inductive, together with TypeOK. *)
TurnInv == PromptsInv /\ CancelsInv /\ CurrentInv /\ BusyWhileTurnRuns

-----------------------------------------------------------------------------

(* The initial state satisfies it: nothing runs. *)
LEMMA TurnInit == Init => TurnInv
BY DEF Init, TurnInv, PromptsInv, CancelsInv, CurrentInv, BusyWhileTurnRuns, TurnRuns

(* A switch outdates every turn and every cancel. *)
LEMMA BeginSwitchTurn ==
  ASSUME TypeOK, TurnInv, NEW kind, NEW target, BeginSwitch(kind, target),
         boot' \in {"start", "warm", "cold"} => prompts = {}
  PROVE  TurnInv'
<1>1. /\ turnSeq' = turnSeq + 1 /\ turnSeq \in Nat
      /\ UNCHANGED <<prompts, cancels>>
  BY DEF BeginSwitch, TypeOK
<1>2. \A p \in prompts : p.turn \in Nat /\ p.turn < turnSeq'
  BY <1>1 DEF TypeOK, Prompts, TurnInv, PromptsInv
<1>3. \A c \in cancels : c.turn \in Nat /\ c.turn < turnSeq'
  BY <1>1 DEF TypeOK, Cancels, TurnInv, CancelsInv
<1>4. PromptsInv'
  BY <1>1, <1>2 DEF TurnInv, PromptsInv
<1>5. CancelsInv'
  BY <1>1, <1>3 DEF CancelsInv
<1>6. \A p \in prompts' : ~Current(p.turn)'
  BY <1>1, <1>2 DEF Current
<1> QED
  BY <1>4, <1>5, <1>6 DEF TurnInv, CurrentInv, BusyWhileTurnRuns, TurnRuns

(* While a switch is under way no current turn runs, so its end may set    *)
(* the session and the turn state freely.                                  *)
LEMMA EndSwitchTurn ==
  ASSUME TurnInv, NEW w \in switches, UNCHANGED <<prompts, cancels, turnSeq, cancelledTurn>>,
         boot' \in {"start", "warm", "cold"} => prompts = {}
  PROVE  TurnInv'
<1>1. PromptsInv' /\ CancelsInv'
  BY DEF TurnInv, PromptsInv, CancelsInv
<1>2. ~Overlap => \A p \in prompts' : ~Current(p.turn)'
  BY DEF TurnInv, CurrentInv, Current
<1> QED
  BY <1>1, <1>2 DEF TurnInv, CurrentInv, BusyWhileTurnRuns, TurnRuns

(* Opening, switching and rolling back a session keep the invariant. *)
LEMMA SessionTurn ==
  ASSUME TypeOK, TurnInv, SessionNext
  PROVE  TurnInv'
<1> USE DEF turnVars
<1>1. CASE BootStart
  <2>1. prompts = {}
    BY <1>1 DEF BootStart, TurnInv, PromptsInv
  <2>2. CASE BeginSwitch("load", Remembered)
    BY <2>1, <2>2, BeginSwitchTurn
  <2>3. CASE BeginCold
    BY <2>1, <2>3 DEF BeginCold, TurnInv, PromptsInv, CancelsInv, CurrentInv,
                      BusyWhileTurnRuns, TurnRuns
  <2> QED
    BY <1>1, <2>2, <2>3 DEF BootStart
<1>2. CASE NewSession
  BY <1>2, BeginSwitchTurn DEF NewSession, TurnInv, PromptsInv
<1>3. ASSUME NEW s \in Sessions, LoadSession(s)
      PROVE  TurnInv'
  BY <1>3, BeginSwitchTurn DEF LoadSession, TurnInv, PromptsInv
<1>4. ASSUME NEW w \in switches,
             LoadSucceeds(w) \/ SwitchFails(w) \/ WarmFails(w) \/ ColdFails(w)
      PROVE  TurnInv'
  <2>1. UNCHANGED <<prompts, cancels, turnSeq, cancelledTurn>>
    BY <1>4 DEF LoadSucceeds, SwitchFails, WarmFails, Rollback, ColdFails
  <2>2. boot' \in {"start", "warm", "cold"} => prompts = {}
    BY <1>4 DEF LoadSucceeds, SwitchFails, WarmFails, ColdFails, TurnInv, PromptsInv
  <2> QED
    BY <2>1, <2>2, EndSwitchTurn
<1>5. ASSUME NEW w \in switches, NEW s \in Sessions, NewSucceeds(w, s) \/ ColdSucceeds(w, s)
      PROVE  TurnInv'
  <2>1. UNCHANGED <<prompts, cancels, turnSeq, cancelledTurn>>
    BY <1>5 DEF NewSucceeds, ColdSucceeds
  <2>2. boot' \in {"start", "warm", "cold"} => prompts = {}
    BY <1>5 DEF NewSucceeds, ColdSucceeds, TurnInv, PromptsInv
  <2> QED
    BY <2>1, <2>2, EndSwitchTurn
<1> QED
  BY <1>1, <1>2, <1>3, <1>4, <1>5 DEF SessionNext

(* A new prompt is newer than every turn and cancel, and shows itself. *)
LEMMA PromptTurn ==
  ASSUME TypeOK, TurnInv, NEW s \in Sessions, Prompt(s)
  PROVE  TurnInv'
<1> DEFINE new == [turn |-> turnSeq + 1, session |-> s]
<1>1. /\ turnSeq \in Nat /\ turnSeq' = turnSeq + 1
      /\ prompts' = prompts \union {new} /\ turnState' = "waiting"
      /\ UNCHANGED <<boot, sessionId, switches, cancelledTurn, cancels>>
      /\ boot = "ready" /\ (~Overlap => switches = {} /\ s = sessionId)
  BY DEF Prompt, Serving, TypeOK
<1>2. new.turn = turnSeq' /\ new.session = s
  BY <1>1
<1>3. \A p \in prompts : p.turn \in Nat /\ p.turn < turnSeq'
  BY <1>1 DEF TypeOK, Prompts, TurnInv, PromptsInv
<1>4. \A p \in prompts' : p.turn \leq turnSeq' /\ (p.turn = turnSeq' => p = new)
  BY <1>1, <1>2, <1>3
<1>5. PromptsInv'
  <2>1. \A p, q \in prompts' : p.turn = q.turn => p = q
    BY <1>1, <1>2, <1>3 DEF TurnInv, PromptsInv
  <2> QED
    BY <1>1, <1>4, <2>1 DEF PromptsInv
<1>6. CancelsInv'
  BY <1>1 DEF TurnInv, CancelsInv, TypeOK, Cancels
<1>7. CurrentInv'
  BY <1>1, <1>2, <1>4 DEF CurrentInv, Current
<1> QED
  BY <1>1, <1>5, <1>6, <1>7 DEF TurnInv, BusyWhileTurnRuns

(* The answer to a prompt touches the turn state only when it is the       *)
(* newest, and then no turn runs any more.                                 *)
LEMMA PromptEndsTurn ==
  ASSUME TurnInv, NEW p \in prompts, PromptSucceeds(p) \/ PromptFails(p)
  PROVE  TurnInv'
<1>1. /\ prompts' = prompts \ {p}
      /\ UNCHANGED <<boot, sessionId, switches, turnSeq, cancelledTurn, cancels>>
      /\ ~Current(p.turn) => UNCHANGED turnState
  BY DEF PromptSucceeds, PromptFails, sessionVars
<1>2. PromptsInv' /\ CancelsInv' /\ CurrentInv'
  BY <1>1 DEF TurnInv, PromptsInv, CancelsInv, CurrentInv, Current
<1>3. CASE Current(p.turn)
  <2>1. \A q \in prompts' : ~Current(q.turn)'
    BY <1>1, <1>3 DEF TurnInv, PromptsInv, Current
  <2> QED
    BY <1>2, <2>1 DEF TurnInv, BusyWhileTurnRuns, TurnRuns
<1>4. CASE ~Current(p.turn)
  BY <1>1, <1>2, <1>4 DEF TurnInv, BusyWhileTurnRuns, TurnRuns, Current
<1> QED
  BY <1>3, <1>4

(* A cancel marks the newest turn before it can end it. *)
LEMMA CancelTurn ==
  ASSUME TypeOK, TurnInv, NEW h \in CancelHandles, Cancel(h)
  PROVE  TurnInv'
<1>1. /\ cancelledTurn' = turnSeq /\ turnSeq \in Nat
      /\ cancels' = cancels \union {[turn |-> turnSeq, handle |-> h]}
      /\ UNCHANGED <<boot, sessionId, switches, turnSeq, turnState, prompts>>
  BY DEF Cancel, sessionVars, TypeOK
<1>2. CancelsInv'
  BY <1>1 DEF TurnInv, CancelsInv
<1>3. PromptsInv' /\ CurrentInv'
  BY <1>1 DEF TurnInv, PromptsInv, CurrentInv, Current
<1>4. ~TurnRuns'
  BY <1>1 DEF TurnRuns, Current
<1> QED
  BY <1>2, <1>3, <1>4 DEF TurnInv, BusyWhileTurnRuns

(* A resuming cancel ends the newest turn only if it had marked it. *)
LEMMA CancelEndsTurn ==
  ASSUME TurnInv, NEW c \in cancels, CancelResumes(c)
  PROVE  TurnInv'
<1>1. /\ cancels' = cancels \ {c}
      /\ UNCHANGED <<boot, sessionId, switches, turnSeq, cancelledTurn, prompts>>
      /\ ~Current(c.turn) => UNCHANGED turnState
  BY DEF CancelResumes, sessionVars
<1>2. PromptsInv' /\ CancelsInv' /\ CurrentInv'
  BY <1>1 DEF TurnInv, PromptsInv, CancelsInv, CurrentInv, Current
<1>3. CASE Current(c.turn)
  BY <1>1, <1>2, <1>3 DEF TurnInv, CancelsInv, BusyWhileTurnRuns, TurnRuns, Current
<1>4. CASE ~Current(c.turn)
  BY <1>1, <1>2, <1>4 DEF TurnInv, BusyWhileTurnRuns, TurnRuns, Current
<1> QED
  BY <1>3, <1>4

(* The agent's own messages only make the state busier (ACP v1). *)
LEMMA AgentTurn ==
  ASSUME TurnInv, AgentNext
  PROVE  TurnInv'
<1>1. UNCHANGED <<prompts, cancels, turnSeq, cancelledTurn, boot, switches, sessionId>>
      /\ (~AgentV2 => turnState' \in {turnState, "busy"})
  BY DEF AgentNext, AgentContent, AgentStateUpdate, sessionVars
<1>2. PromptsInv' /\ CancelsInv' /\ CurrentInv'
  BY <1>1 DEF TurnInv, PromptsInv, CancelsInv, CurrentInv, Current
<1> QED
  BY <1>1, <1>2 DEF TurnInv, BusyWhileTurnRuns, TurnRuns, Current

(* All other steps leave turns and sessions alone. *)
LEMMA QuietTurn ==
  ASSUME TurnInv, RequestNext \/ QuotaNext \/ LifeNext \/ UNCHANGED vars
  PROVE  TurnInv'
<1>1. UNCHANGED <<turnVars, sessionVars>>
  BY DEF RequestNext, AgentRequest, ScopeRequest, Respond, Expire, QuotaNext, QuotaAnswers,
         QuotaFails, LifeNext, DisposeByTakeover, DisposeFinish, Crash, vars
<1>2. PromptsInv' /\ CancelsInv' /\ CurrentInv'
  BY <1>1 DEF turnVars, sessionVars, TurnInv, PromptsInv, CancelsInv, CurrentInv, Current
<1> QED
  BY <1>1, <1>2 DEF turnVars, TurnInv, BusyWhileTurnRuns, TurnRuns, Current

(* The invariant is inductive. *)
LEMMA TurnStep ==
  ASSUME TypeOK, TurnInv, [Next]_vars
  PROVE  TurnInv'
<1>1. CASE TurnNext
  BY <1>1, PromptTurn, PromptEndsTurn, CancelTurn, CancelEndsTurn DEF TurnNext
<1> QED
  BY <1>1, SessionTurn, AgentTurn, QuietTurn DEF Next

(* And holds in every reachable state. *)
LEMMA TurnHolds == Spec => []TurnInv
BY TurnInit, TurnStep, TypeCorrect, PTL DEF Spec

(* No older turn, stale cancel or finished switch turns the state idle     *)
(* while the newest prompt runs: the turnSeq fence of prompt, cancel and   *)
(* the switches does its work for any number of turns.                     *)
THEOREM FenceProtectsTurn == Spec => []BusyWhileTurnRuns
<1>1. TurnInv => BusyWhileTurnRuns
  BY DEF TurnInv
<1> QED
  BY <1>1, TurnHolds, PTL

(* A turn error is raised only by the prompt that runs on the session      *)
(* shown and was not cancelled.                                            *)
THEOREM ErrorsAreOurs == Spec => ErrorIsOurs
<1> DEFINE Ours == (~Overlap /\ ~AgentV2 /\ ~lastTurnError /\ lastTurnError') =>
                      \E p \in prompts \ prompts' : p.session = sessionId /\ p.turn # cancelledTurn
<1>1. ASSUME TurnInv, Next
      PROVE  Ours
  <2> SUFFICES ASSUME ~Overlap, ~AgentV2, ~lastTurnError, lastTurnError'
               PROVE  \E p \in prompts \ prompts' : p.session = sessionId /\ p.turn # cancelledTurn
    OBVIOUS
  <2>1. \E p \in prompts : PromptFails(p)
    <3>1. CASE SessionNext
      BY <3>1 DEF SessionNext, BootStart, BeginSwitch, BeginCold, NewSession, LoadSession,
                  LoadSucceeds, SwitchFails, WarmFails, Rollback, ColdFails, NewSucceeds,
                  ColdSucceeds, turnVars
    <3>2. CASE TurnNext
      BY <3>2 DEF TurnNext, Prompt, PromptSucceeds, Cancel, CancelResumes, EndTurn
    <3>3. CASE AgentNext
      BY <3>3 DEF AgentNext, AgentContent, AgentStateUpdate
    <3>4. CASE RequestNext
      BY <3>4 DEF RequestNext, AgentRequest, ScopeRequest, Respond, Expire, turnVars
    <3>5. CASE QuotaNext
      BY <3>5 DEF QuotaNext, QuotaAnswers, QuotaFails, turnVars
    <3>6. CASE LifeNext
      BY <3>6 DEF LifeNext, DisposeByTakeover, DisposeFinish, Crash, turnVars
    <3> QED
      BY <1>1, <3>1, <3>2, <3>3, <3>4, <3>5, <3>6 DEF Next
  <2>2. PICK p \in prompts : PromptFails(p)
    BY <2>1
  <2>3. Current(p.turn) /\ p.turn # cancelledTurn /\ p \notin prompts'
    BY <2>2 DEF PromptFails, EndTurn
  <2>4. p.session = sessionId
    BY <1>1, <2>3 DEF TurnInv, CurrentInv
  <2> QED
    BY <2>3, <2>4
<1>2. TurnInv /\ [Next]_vars => [Ours]_vars
  BY <1>1
<1> QED
  BY <1>2, TurnHolds, PTL DEF Spec, ErrorIsOurs
=============================================================================
