--------------------- MODULE SessionHostOwnershipProofs ---------------------
(* Proofs about SessionHost: what a viewer sees belongs to the session     *)
(* shown, once the switch between two sessions is over.                    *)
EXTENDS SessionHostProofs

(* How far the switch record and the session shown agree. *)
SwitchInv(w) ==
  /\ w.kind = "load" => w.target \in Sessions /\ sessionId = w.target
  /\ w.kind = "new"  => sessionId = Switching
  /\ w.kind = "cold" => sessionId = NoSession /\ w.old = NoSession
  /\ boot \notin {"start", "failed"}
  /\ boot = "warm"   => w.kind = "load" /\ w.old = NoSession
  /\ boot = "cold"   => w.kind = "cold"
  /\ boot = "ready"  => w.kind # "cold" /\ w.old \in Sessions

ShownInv == (boot = "ready" /\ switches = {}) => sessionId \in Sessions

(* The quota shown, and a fetch that may still replace it. *)
QuotaInv ==
  /\ boot = "start" => sessionId = NoSession /\ quota = NoSession /\ fetches = {}
  /\ switches = {} => quota \in {NoSession, sessionId}
  /\ \A w \in switches : quota \in {NoSession, w.old}
  /\ \A f \in fetches : /\ f.gen \leq quotaGeneration
                        /\ f.gen = quotaGeneration => switches = {} /\ f.session = sessionId

(* The transcript, and what may still enter it. *)
TranscriptInv ==
  /\ boot = "warm" => Remembered # NoSession
  /\ (Remembered = NoSession /\ boot \in {"start", "cold"}) => live = {} /\ transcript = {}
  /\ \A w \in switches : /\ w.kind = "load" => transcript \subseteq {sessionId}
                         /\ w.kind = "new"  => transcript = {}
  /\ TranscriptIsOurs

(* Inductive, together with TypeOK and TurnInv. *)
OwnershipInv ==
  ~Overlap => /\ \A v, w \in switches : v = w
              /\ \A w \in switches : SwitchInv(w)
              /\ ShownInv
              /\ QuotaInv
              /\ TranscriptInv

-----------------------------------------------------------------------------

(* The initial state satisfies it. *)
LEMMA OwnershipInit == Init => OwnershipInv
BY DEF Init, OwnershipInv, ShownInv, QuotaInv, TranscriptInv, TranscriptIsOurs

(* One viewer at a time: the switch that starts is the only one. *)
LEMMA BeginSwitchOwnership ==
  ASSUME TypeOK, OwnershipInv, ~Overlap, switches = {},
         NEW kind \in {"new", "load"}, NEW target \in Ids, BeginSwitch(kind, target),
         kind = "load" => target \in Sessions, kind = "new" => target = Switching,
         \/ boot = "start" /\ boot' = "warm" /\ kind = "load" /\ Remembered # NoSession
         \/ boot = "ready" /\ boot' = "ready"
  PROVE  OwnershipInv'
<1>w. PICK w : w = [gen |-> quotaGeneration + 1, kind |-> kind, target |-> target,
                    old |-> sessionId]
  OBVIOUS
<1>1. /\ switches' = {w} /\ sessionId' = target /\ transcript' = {}
      /\ quotaGeneration' = quotaGeneration + 1 /\ quotaGeneration \in Nat
      /\ UNCHANGED <<quota, fetches>>
  BY <1>w DEF BeginSwitch, TypeOK
<1>2. w.kind = kind /\ w.target = target /\ w.old = sessionId
  BY <1>w
<1>3. boot = "start" => sessionId = NoSession
  BY DEF OwnershipInv, QuotaInv
<1>4. boot = "ready" => sessionId \in Sessions
  BY DEF OwnershipInv, ShownInv
<1>5. SwitchInv(w)'
  BY <1>1, <1>2, <1>3, <1>4 DEF SwitchInv
<1>6. QuotaInv'
  <2>1. \A f \in fetches' : f.gen < quotaGeneration'
    BY <1>1 DEF OwnershipInv, QuotaInv, TypeOK, Fetches
  <2>2. \A f \in fetches' : f.gen \leq quotaGeneration' /\ f.gen # quotaGeneration'
    BY <1>1, <2>1 DEF TypeOK, Fetches
  <2>3. quota \in {NoSession, sessionId}
    BY DEF OwnershipInv, QuotaInv
  <2> QED
    BY <1>1, <1>2, <2>2, <2>3 DEF QuotaInv
<1>7. TranscriptInv' /\ ShownInv'
  BY <1>1 DEF TranscriptInv, TranscriptIsOurs, ShownInv
<1> QED
  BY <1>1, <1>5, <1>6, <1>7 DEF OwnershipInv

(* A cold start has nothing to show yet. *)
LEMMA BootOwnership ==
  ASSUME TypeOK, OwnershipInv, ~Overlap, BootStart
  PROVE  OwnershipInv'
<1> USE SessionsAssumption
<1>1. switches = {}
  BY DEF BootStart, OwnershipInv, SwitchInv
<1>2. CASE Remembered # NoSession /\ boot' = "warm" /\ BeginSwitch("load", Remembered)
  BY <1>1, <1>2, BeginSwitchOwnership DEF BootStart, Ids
<1>3. CASE Remembered = NoSession /\ boot' = "cold" /\ BeginCold
  <2> DEFINE w == [gen |-> quotaGeneration, kind |-> "cold", target |-> NoSession, old |-> NoSession]
  <2>1. /\ boot = "start" /\ switches' = {w}
        /\ UNCHANGED <<sessionId, transcript, live, quota, quotaGeneration, fetches>>
    BY <1>1, <1>3 DEF BootStart, BeginCold, quotaVars
  <2>2. sessionId = NoSession /\ quota = NoSession /\ fetches = {}
    BY <2>1 DEF OwnershipInv, QuotaInv
  <2>3. SwitchInv(w)'
    BY <1>3, <2>1, <2>2 DEF SwitchInv
  <2>4. QuotaInv'
    BY <1>3, <2>1, <2>2 DEF QuotaInv
  <2>5. TranscriptInv' /\ ShownInv'
    BY <1>3, <2>1 DEF OwnershipInv, TranscriptInv, TranscriptIsOurs, ShownInv
  <2> QED
    BY <2>1, <2>3, <2>4, <2>5 DEF OwnershipInv
<1> QED
  BY <1>2, <1>3 DEF BootStart

(* A switch that succeeds shows its own session; whatever quota or text    *)
(* was there belongs to it or is gone.                                     *)
LEMMA LoadOwnership ==
  ASSUME TypeOK, OwnershipInv, ~Overlap, NEW w \in switches, LoadSucceeds(w)
  PROVE  OwnershipInv'
<1>1. /\ switches' = {} /\ w.kind = "load" /\ w.target \in Sessions /\ sessionId = w.target
      /\ UNCHANGED <<sessionId, transcript, live, quotaGeneration>>
      /\ quota' = IF w.target = w.old THEN quota ELSE NoSession
      /\ StartQuotaFetch(w.target, quotaGeneration)
  BY DEF LoadSucceeds, OwnershipInv, SwitchInv
<1>2. boot' \notin {"start", "warm", "cold"}
  BY DEF LoadSucceeds, OwnershipInv, SwitchInv
<1>3. quota' \in {NoSession, sessionId'}
  BY <1>1 DEF OwnershipInv, QuotaInv
<1>4. \A f \in fetches : f.gen \leq quotaGeneration /\ f.gen # quotaGeneration
  BY DEF OwnershipInv, QuotaInv
<1>5. \A f \in fetches' : f.gen \leq quotaGeneration'
                         /\ (f.gen = quotaGeneration' => f.session = sessionId')
  BY <1>1, <1>4 DEF StartQuotaFetch, TypeOK
<1>6. QuotaInv'
  BY <1>1, <1>2, <1>3, <1>5 DEF QuotaInv
<1>7. transcript' \subseteq {sessionId'}
  BY <1>1 DEF OwnershipInv, TranscriptInv
<1>8. TranscriptInv' /\ ShownInv'
  BY <1>1, <1>2, <1>7 DEF TranscriptInv, TranscriptIsOurs, ShownInv
<1> QED
  BY <1>1, <1>6, <1>8 DEF OwnershipInv

(* A new session starts empty. *)
LEMMA NewOwnership ==
  ASSUME TypeOK, OwnershipInv, ~Overlap, NEW w \in switches, NEW s \in Sessions, NewSucceeds(w, s)
  PROVE  OwnershipInv'
<1>1. /\ switches' = {} /\ w.kind = "new" /\ sessionId' = s /\ quota' = NoSession
      /\ UNCHANGED <<boot, transcript, quotaGeneration>>
      /\ StartQuotaFetch(s, quotaGeneration)
  BY DEF NewSucceeds, OwnershipInv
<1>2. boot \notin {"start", "warm", "cold"} /\ transcript = {}
  BY <1>1 DEF OwnershipInv, SwitchInv, TranscriptInv
<1>3. \A f \in fetches : f.gen \leq quotaGeneration /\ f.gen # quotaGeneration
  BY DEF OwnershipInv, QuotaInv
<1>4. \A f \in fetches' : f.gen \leq quotaGeneration'
                         /\ (f.gen = quotaGeneration' => f.session = sessionId')
  BY <1>1, <1>3 DEF StartQuotaFetch, TypeOK
<1>5. QuotaInv'
  BY <1>1, <1>2, <1>4 DEF QuotaInv
<1>6. TranscriptInv' /\ ShownInv'
  BY <1>1, <1>2 DEF TranscriptInv, TranscriptIsOurs, ShownInv
<1> QED
  BY <1>1, <1>5, <1>6 DEF OwnershipInv

(* So does the first session of a host without a remembered one. *)
LEMMA ColdOwnership ==
  ASSUME TypeOK, OwnershipInv, ~Overlap, NEW w \in switches, NEW s \in Sessions, ColdSucceeds(w, s)
  PROVE  OwnershipInv'
<1>1. /\ switches' = {} /\ w.kind = "cold" /\ sessionId' = s /\ boot' = "ready"
      /\ UNCHANGED <<quota, transcript>>
      /\ quotaGeneration' = quotaGeneration + 1 /\ StartQuotaFetch(s, quotaGeneration + 1)
      /\ outcome' = IF Remembered = NoSession THEN "cold" ELSE "cold-after-warm-failed"
  BY DEF ColdSucceeds, OwnershipInv, quotaVars
<1>2. w.old = NoSession
  BY <1>1 DEF OwnershipInv, SwitchInv
<1>3. quota = NoSession
  BY <1>2 DEF OwnershipInv, QuotaInv
<1>4. \A f \in fetches : f.gen \in Nat /\ quotaGeneration \in Nat /\ f.gen \leq quotaGeneration
  BY DEF OwnershipInv, QuotaInv, TypeOK, Fetches
<1>5. \A f \in fetches' : f.gen \leq quotaGeneration'
                         /\ (f.gen = quotaGeneration' => f.session = sessionId')
  BY <1>1, <1>4 DEF StartQuotaFetch, TypeOK
<1>6. QuotaInv'
  BY <1>1, <1>3, <1>5 DEF QuotaInv
<1>7. Remembered = NoSession => transcript = {}
  <2>1. boot = "cold"
    BY <1>1 DEF OwnershipInv, SwitchInv, TypeOK
  <2> QED
    BY <2>1 DEF OwnershipInv, TranscriptInv
<1>8. TranscriptInv' /\ ShownInv'
  BY <1>1, <1>7 DEF TranscriptInv, TranscriptIsOurs, ShownInv
<1> QED
  BY <1>1, <1>6, <1>8 DEF OwnershipInv

(* A failed switch brings back the session left, and the quota kept is its *)
(* quota; a failed warm start goes on cold, with nothing shown.            *)
LEMMA FailureOwnership ==
  ASSUME TypeOK, OwnershipInv, ~Overlap, NEW w \in switches, SwitchFails(w) \/ WarmFails(w)
  PROVE  OwnershipInv'
<1>1. /\ sessionId' = w.old /\ transcript' = {}
      /\ UNCHANGED <<quota, quotaGeneration, fetches, live>>
  BY DEF SwitchFails, WarmFails, Rollback, quotaVars
<1>2. quota \in {NoSession, w.old}
      /\ \A f \in fetches : f.gen \leq quotaGeneration /\ f.gen # quotaGeneration
  BY DEF OwnershipInv, QuotaInv
<1>3. CASE SwitchFails(w)
  <2>1. boot = "ready" /\ boot' = "ready" /\ switches' = {} /\ w.old \in Sessions
    BY <1>3 DEF SwitchFails, OwnershipInv, SwitchInv
  <2>2. QuotaInv' /\ ShownInv'
    BY <1>1, <1>2, <2>1 DEF QuotaInv, ShownInv
  <2>3. TranscriptInv'
    BY <1>1, <2>1 DEF TranscriptInv, TranscriptIsOurs
  <2> QED
    BY <2>1, <2>2, <2>3 DEF OwnershipInv
<1>4. CASE WarmFails(w)
  <2>v. PICK v : v = [gen |-> quotaGeneration, kind |-> "cold", target |-> NoSession,
                      old |-> NoSession]
    OBVIOUS
  <2>1. boot = "warm" /\ boot' = "cold" /\ switches' = {v} /\ w.old = NoSession
    BY <1>4, <2>v DEF WarmFails, OwnershipInv, SwitchInv
  <2>2. SwitchInv(v)'
    BY <1>1, <2>v, <2>1 DEF SwitchInv
  <2>3. QuotaInv'
    BY <1>1, <1>2, <2>v, <2>1 DEF QuotaInv
  <2>4. Remembered # NoSession
    BY <2>1 DEF OwnershipInv, TranscriptInv
  <2>5. TranscriptInv' /\ ShownInv'
    BY <1>1, <2>v, <2>1, <2>4 DEF TranscriptInv, TranscriptIsOurs, ShownInv
  <2> QED
    BY <2>1, <2>2, <2>3, <2>5 DEF OwnershipInv
<1> QED
  BY <1>3, <1>4

(* A host whose start failed keeps nothing in flight. *)
LEMMA ColdFailureOwnership ==
  ASSUME TypeOK, OwnershipInv, ~Overlap, NEW w \in switches, ColdFails(w)
  PROVE  OwnershipInv'
<1>1. /\ switches' = {} /\ boot' = "failed" /\ w.kind = "cold"
      /\ UNCHANGED <<sessionId, transcript, live, quota, quotaGeneration, fetches>>
  BY DEF ColdFails, quotaVars, OwnershipInv
<1>2. quota = NoSession
      /\ \A f \in fetches : f.gen \leq quotaGeneration /\ f.gen # quotaGeneration
  BY <1>1 DEF OwnershipInv, QuotaInv, SwitchInv
<1> QED
  BY <1>1, <1>2 DEF OwnershipInv, QuotaInv, TranscriptInv, TranscriptIsOurs, ShownInv

(* A prompt writes to the transcript of the session shown (prompt).        *)
LEMMA PromptOwnership ==
  ASSUME OwnershipInv, ~Overlap, NEW s \in Sessions, Prompt(s)
  PROVE  OwnershipInv'
<1>1. /\ boot = "ready" /\ switches = {} /\ s = sessionId
      /\ transcript' = transcript \union {s}
      /\ UNCHANGED <<boot, outcome, sessionId, switches, live, quota, quotaGeneration, fetches>>
  BY DEF Prompt, Serving, quotaVars
<1>2. QuotaInv' /\ ShownInv'
  BY <1>1 DEF OwnershipInv, QuotaInv, ShownInv
<1>3. TranscriptInv'
  BY <1>1 DEF OwnershipInv, TranscriptInv, TranscriptIsOurs
<1> QED
  BY <1>1, <1>2, <1>3 DEF OwnershipInv

(* The fetch at the end of the newest turn asks for the quota of the       *)
(* session shown: no switch has passed the turn (prompt, resumed).         *)
LEMMA PromptEndOwnership ==
  ASSUME TypeOK, TurnInv, OwnershipInv, ~Overlap, NEW p \in prompts, PromptSucceeds(p)
  PROVE  OwnershipInv'
<1>1. UNCHANGED <<boot, outcome, sessionId, switches, live, transcript, quota, quotaGeneration>>
  BY DEF PromptSucceeds, sessionVars
<1>2. QuotaInv'
  <2>1. CASE Current(p.turn) /\ sessionId # NoSession
    <3>1. switches = {} /\ StartQuotaFetch(sessionId, quotaGeneration) /\ boot # "start"
      BY <2>1 DEF PromptSucceeds, TurnInv, CurrentInv, PromptsInv
    <3>2. \A f \in fetches' : f.gen \leq quotaGeneration
                             /\ (f.gen = quotaGeneration => f.session = sessionId)
      BY <3>1 DEF StartQuotaFetch, OwnershipInv, QuotaInv, TypeOK
    <3> QED
      BY <1>1, <3>1, <3>2 DEF OwnershipInv, QuotaInv
  <2>2. CASE ~(Current(p.turn) /\ sessionId # NoSession)
    BY <1>1, <2>2 DEF PromptSucceeds, OwnershipInv, QuotaInv
  <2> QED
    BY <2>1, <2>2
<1> QED
  BY <1>1, <1>2 DEF OwnershipInv, SwitchInv, ShownInv, TranscriptInv, TranscriptIsOurs

(* What the agent sends passes the filter only for the session shown, or   *)
(* for the one being loaded.                                               *)
LEMMA ContentOwnership ==
  ASSUME OwnershipInv, ~Overlap, NEW s \in Sessions, AgentContent(s)
  PROVE  OwnershipInv'
<1> USE SessionsAssumption
<1>1. /\ s \in live /\ (sessionId = NoSession \/ s = sessionId)
      /\ transcript' = transcript \union {s}
      /\ UNCHANGED <<boot, outcome, sessionId, switches, live, quota, quotaGeneration, fetches>>
  BY DEF AgentContent, Heard, PassesFilter, quotaVars
<1>2. ASSUME NEW w \in switches
      PROVE  /\ w.kind = "load" => transcript' \subseteq {sessionId}
             /\ w.kind = "new" => transcript' = {}
  <2>1. SwitchInv(w) /\ (w.kind = "load" => transcript \subseteq {sessionId})
    BY DEF OwnershipInv, TranscriptInv
  <2> QED
    BY <1>1, <2>1 DEF SwitchInv
<1>3. (boot = "ready" /\ switches = {}) => s = sessionId
  BY <1>1 DEF OwnershipInv, ShownInv
<1>4. TranscriptInv'
  BY <1>1, <1>2, <1>3 DEF OwnershipInv, TranscriptInv, TranscriptIsOurs
<1> QED
  BY <1>1, <1>4 DEF OwnershipInv, SwitchInv, ShownInv, QuotaInv

(* An answer counts only in its own generation. *)
LEMMA AnswerOwnership ==
  ASSUME OwnershipInv, ~Overlap, NEW f \in fetches, QuotaAnswers(f) \/ QuotaFails(f)
  PROVE  OwnershipInv'
<1>1. /\ UNCHANGED <<boot, outcome, sessionId, switches, live, transcript, quotaGeneration>>
      /\ fetches' = fetches \ {f}
      /\ quota' = quota \/ (f.gen = quotaGeneration /\ quota' = f.session)
  BY DEF QuotaAnswers, QuotaFails, ReleaseQuotaSlot, sessionVars
<1>2. QuotaInv'
  BY <1>1 DEF OwnershipInv, QuotaInv
<1> QED
  BY <1>1, <1>2 DEF OwnershipInv, SwitchInv, ShownInv, TranscriptInv, TranscriptIsOurs

(* Nothing else touches sessions, transcript or quota. *)
LEMMA QuietOwnership ==
  ASSUME OwnershipInv, ~Overlap, UNCHANGED <<sessionVars, quotaVars>>
  PROVE  OwnershipInv'
BY DEF OwnershipInv, SwitchInv, ShownInv, QuotaInv, TranscriptInv, TranscriptIsOurs,
       sessionVars, quotaVars

-----------------------------------------------------------------------------

(* The invariant is inductive. *)
LEMMA OwnershipStep ==
  ASSUME TypeOK, TurnInv, OwnershipInv, [Next]_vars
  PROVE  OwnershipInv'
<1> SUFFICES ASSUME ~Overlap
             PROVE  OwnershipInv'
  BY DEF OwnershipInv
<1>1. CASE SessionNext
  <2>1. CASE BootStart
    BY <2>1, BootOwnership
  <2>2. CASE NewSession
    BY <2>2, BeginSwitchOwnership DEF NewSession, MaySwitch, Serving, Ids
  <2>3. ASSUME NEW s \in Sessions, LoadSession(s)
        PROVE  OwnershipInv'
    <3>1. switches = {} /\ boot = "ready" /\ boot' = "ready" /\ BeginSwitch("load", s)
      BY <2>3 DEF LoadSession, MaySwitch, Serving
    <3> QED
      BY <3>1, BeginSwitchOwnership DEF Ids
  <2> QED
    BY <1>1, <2>1, <2>2, <2>3, LoadOwnership, NewOwnership, ColdOwnership, FailureOwnership,
       ColdFailureOwnership DEF SessionNext
<1>2. CASE TurnNext
  <2>1. ASSUME NEW p \in prompts, PromptFails(p)
        PROVE  OwnershipInv'
    BY <2>1, QuietOwnership DEF PromptFails
  <2>2. ASSUME NEW h \in CancelHandles, Cancel(h)
        PROVE  OwnershipInv'
    BY <2>2, QuietOwnership DEF Cancel
  <2>3. ASSUME NEW c \in cancels, CancelResumes(c)
        PROVE  OwnershipInv'
    BY <2>3, QuietOwnership DEF CancelResumes
  <2> QED
    BY <1>2, <2>1, <2>2, <2>3, PromptOwnership, PromptEndOwnership DEF TurnNext
<1>3. CASE AgentNext
  <2>1. ASSUME NEW s \in Sessions, AgentStateUpdate(s)
        PROVE  OwnershipInv'
    BY <2>1, QuietOwnership DEF AgentStateUpdate
  <2> QED
    BY <1>3, <2>1, ContentOwnership DEF AgentNext
<1>4. CASE RequestNext
  BY <1>4, QuietOwnership DEF RequestNext, AgentRequest, ScopeRequest, Respond, Expire
<1>5. CASE QuotaNext
  BY <1>5, AnswerOwnership DEF QuotaNext
<1>6. CASE LifeNext
  BY <1>6, QuietOwnership DEF LifeNext, DisposeByTakeover, DisposeFinish, Crash
<1>7. CASE UNCHANGED vars
  BY <1>7, QuietOwnership DEF vars
<1> QED
  BY <1>1, <1>2, <1>3, <1>4, <1>5, <1>6, <1>7 DEF Next

(* And holds in every reachable state. *)
LEMMA OwnershipHolds == Spec => []OwnershipInv
BY OwnershipInit, OwnershipStep, TurnHolds, TypeCorrect, PTL DEF Spec

(* The quota shown outside a switch is the quota of the session shown, for *)
(* any number of sessions and of late answers.                             *)
THEOREM QuotaBelongs == Spec => []QuotaIsOurs
<1>1. OwnershipInv => QuotaIsOurs
  BY DEF OwnershipInv, QuotaInv, QuotaIsOurs
<1> QED
  BY <1>1, OwnershipHolds, PTL

(* Outside a switch the transcript holds nothing of another session.       *)
THEOREM TranscriptBelongs == Spec => []TranscriptIsOurs
<1>1. OwnershipInv => TranscriptIsOurs
  BY DEF OwnershipInv, TranscriptInv, TranscriptIsOurs
<1> QED
  BY <1>1, OwnershipHolds, PTL

(* The session that takes over asks for its quota also while the fetch of  *)
(* the one before it hangs: a slot still held is one of an earlier         *)
(* generation (startQuotaFetch, and the generation a switch takes).        *)
THEOREM NewSessionAsks == Spec => NewSessionAsksQuota
<1> DEFINE Asks ==
      (Usage /\ ~Overlap /\ \E w \in switches \ switches' : sessionId' # w.old /\ boot' = "ready")
        => [gen |-> quotaGeneration', session |-> sessionId'] \in fetches'
<1>1. ASSUME TypeOK, FetchInv, OwnershipInv, Next
      PROVE  Asks
  <2> SUFFICES ASSUME Usage, ~Overlap, NEW w \in switches \ switches', sessionId' # w.old,
                      boot' = "ready"
               PROVE  [gen |-> quotaGeneration', session |-> sessionId'] \in fetches'
    OBVIOUS
  <2>1. SessionNext
    BY <1>1 DEF Next, TurnNext, Prompt, PromptSucceeds, PromptFails, Cancel, CancelResumes,
                AgentNext, AgentContent, AgentStateUpdate, RequestNext, AgentRequest,
                ScopeRequest, Respond, Expire, QuotaNext, QuotaAnswers, QuotaFails, LifeNext,
                DisposeByTakeover, DisposeFinish, Crash, sessionVars
  <2>2. \/ LoadSucceeds(w)
        \/ \E s \in Sessions : NewSucceeds(w, s) \/ ColdSucceeds(w, s)
    <3>1. ~ \E u \in switches : SwitchFails(u) \/ WarmFails(u) \/ ColdFails(u)
      <4>1. ASSUME NEW u \in switches, SwitchFails(u)
            PROVE  FALSE
        BY <4>1 DEF SwitchFails, Rollback
      <4> QED
        BY <4>1 DEF WarmFails, ColdFails
    <3>2. ~BootStart /\ ~NewSession /\ ~ \E s \in Sessions : LoadSession(s)
      BY DEF BootStart, NewSession, LoadSession, BeginSwitch, BeginCold
    <3> QED
      BY <2>1, <3>1, <3>2 DEF SessionNext, LoadSucceeds, NewSucceeds, ColdSucceeds
  <2>3. /\ quotaGeneration \in Nat /\ quotaFetchGeneration \in Nat \union {-1}
        /\ quotaFetchGeneration \leq quotaGeneration
    BY <1>1 DEF TypeOK, FetchInv
  <2>4. quotaFetchGeneration # quotaGeneration
    BY <1>1 DEF FetchInv, OwnershipInv, QuotaInv
  <2>5. CASE LoadSucceeds(w)
    <3>1. sessionId' = w.target
      BY <1>1, <2>5 DEF LoadSucceeds, OwnershipInv, SwitchInv
    <3> QED
      BY <2>4, <2>5, <3>1 DEF LoadSucceeds, StartQuotaFetch
  <2>6. ASSUME NEW s \in Sessions, NewSucceeds(w, s)
        PROVE  [gen |-> quotaGeneration', session |-> sessionId'] \in fetches'
    BY <2>4, <2>6 DEF NewSucceeds, StartQuotaFetch
  <2>7. ASSUME NEW s \in Sessions, ColdSucceeds(w, s)
        PROVE  [gen |-> quotaGeneration', session |-> sessionId'] \in fetches'
    <3>1. quotaFetchGeneration # quotaGeneration + 1
      BY <2>3
    <3> QED
      BY <2>7, <3>1 DEF ColdSucceeds, StartQuotaFetch
  <2> QED
    BY <2>2, <2>5, <2>6, <2>7
<1>2. TypeOK /\ FetchInv /\ OwnershipInv /\ [Next]_vars => [Asks]_vars
  BY <1>1
<1> QED
  BY <1>2, TypeCorrect, FetchHolds, OwnershipHolds, PTL DEF Spec, NewSessionAsksQuota
=============================================================================
