------------------------- MODULE AgentEventsProofs -------------------------
(***************************************************************************)
(* Type correctness of AgentEvents, and StallOncePerTurn, for any number of *)
(* agents, subscriptions and turns.                                        *)
(***************************************************************************)
EXTENDS AgentEvents, FiniteSetTheorems, TLAPS

(* How the last report relates to the lifecycle of a host: it is not ahead of the       *)
(* turns, and a turn that was reported is marked or has lost its start.                 *)
Marked(h, last) ==
  last <= h.turnSeq /\ (last = h.turnSeq => h.stallReported \/ ~h.timed)

AllMarked(hosts, last) == \A a \in Agents : Marked(hosts[a], last[a])

(* The deliveries that wait are counted when the host is there, so they are finitely    *)
(* many.                                                                                *)
IInv == TypeOK /\ IsFiniteSet(waiting) /\ AllMarked(host, stalled)

-----------------------------------------------------------------------------
(* What the turn boundaries of a host do to its lifecycle. *)

LEMMA BegunKeeps ==
  ASSUME NEW h \in TurnLifecycle, NEW n \in Nat, n > 0, NEW last \in Nat, Marked(h, last)
  PROVE  Begun(h, n) \in TurnLifecycle /\ Marked(Begun(h, n), last)
<1>1. Begun(h, n).turnSeq = h.turnSeq + n /\ h.turnSeq \in Nat
  BY DEF TurnLifecycle, Begun
<1>2. h.turnSeq + n \in Nat /\ last < h.turnSeq + n
  BY <1>1 DEF Marked
<1>3. Begun(h, n) \in TurnLifecycle
  BY <1>2 DEF TurnLifecycle, Begun
<1> QED
  BY <1>1, <1>2, <1>3 DEF Marked

LEMMA EndedKeeps ==
  ASSUME NEW h \in TurnLifecycle, NEW failed \in BOOLEAN, NEW last \in Nat, Marked(h, last)
  PROVE  Ended(h, failed) \in TurnLifecycle /\ Marked(Ended(h, failed), last)
  BY DEF TurnLifecycle, Ended, Ends, Marked

LEMMA CloseScheduledKeeps ==
  ASSUME NEW h \in TurnLifecycle, NEW a, NEW last \in Nat, Marked(h, last)
  PROVE  CloseScheduled(h, a) \in TurnLifecycle /\ Marked(CloseScheduled(h, a), last)
<1>1. (h.closeScheduled \/ (a \in Closing /\ ~h.lastTurnError)) \in BOOLEAN
  OBVIOUS
<1> QED
  BY <1>1 DEF TurnLifecycle, CloseScheduled, Marked

-----------------------------------------------------------------------------
(* Deliveries. *)

LEMMA SentType ==
  ASSUME TypeOK, NEW a \in Agents
  PROVE  Sent(a) \in Prompts
  BY DEF TypeOK, Sent, Prompts

LEMMA EventType ==
  ASSUME TypeOK, NEW kind \in Kinds, NEW a \in Agents
  PROVE  Event(kind, a) \in Events
  BY DEF TypeOK, Event, Events, TurnLifecycle

LEMMA HeardType ==
  ASSUME TypeOK, NEW mail \in SUBSET (Events \X Agents)
  PROVE  Heard(mail) \subseteq Agents \X Nat \X Agents \X Switches
<1>1. ASSUME NEW m \in mail
      PROVE  <<m[1].about, m[1].turn, m[2], switching[m[2]]>> \in Agents \X Nat \X Agents \X Switches
  BY <1>1 DEF TypeOK, Events
<1> QED
  BY <1>1 DEF Heard, TurnEnds

LEMMA DroppedType ==
  ASSUME NEW mail \in SUBSET (Events \X Agents)
  PROVE  Dropped(mail) \subseteq Agents \X Nat \X Agents
<1>1. ASSUME NEW m \in mail
      PROVE  <<m[1].about, m[1].turn, m[2]>> \in Agents \X Nat \X Agents
  BY <1>1 DEF Events
<1> QED
  BY <1>1 DEF Dropped, TurnEnds

(* Finitely many events make finitely many deliveries.                      *)
LEMMA AddressedType ==
  ASSUME NEW events \in SUBSET Events, IsFiniteSet(events)
  PROVE  Addressed(events) \in SUBSET (Events \X Agents) /\ IsFiniteSet(Addressed(events))
<1>1. IsFiniteSet(events \X Agents)
  BY FS_Product, AgentsAssumption
<1>2. Addressed(events) \in SUBSET (events \X Agents)
  BY DEF Addressed
<1>3. IsFiniteSet(Addressed(events))
  BY <1>1, <1>2, FS_Subset
<1> QED
  BY <1>2, <1>3

LEMMA SentToCounted ==
  ASSUME NEW mail, IsFiniteSet(mail), NEW s
  PROVE  SentTo(s, mail) \in SUBSET mail /\ Cardinality(SentTo(s, mail)) \in Nat
<1>1. SentTo(s, mail) \in SUBSET mail
  BY DEF SentTo
<1>2. IsFiniteSet(SentTo(s, mail))
  BY <1>1, FS_Subset
<1> QED
  BY <1>1, <1>2, FS_CardinalityType

(* Whatever hosts and reports a handler leaves: the prompts of its events begin new      *)
(* turns, which nobody has reported yet.                                                *)
LEMMA EmitKeeps ==
  ASSUME TypeOK, IsFiniteSet(waiting),
         NEW events \in SUBSET Events, IsFiniteSet(events),
         NEW hosts \in [Agents -> TurnLifecycle], NEW running \in [Agents -> Prompts],
         NEW last \in [Agents -> Nat], AllMarked(hosts, last),
         Emit(events, hosts, running)
  PROVE  /\ host' \in [Agents -> TurnLifecycle] /\ AllMarked(host', last)
         /\ prompt' \in [Agents -> Prompts]
         /\ silent' \subseteq Agents
         /\ heard' \subseteq Agents \X Nat \X Agents \X Switches
         /\ waiting' \subseteq Events \X Agents /\ IsFiniteSet(waiting')
<1> DEFINE mail    == Addressed(events)
           reached == {m \in mail : m[2] \in hosted}
           late    == {m \in mail : m[2] \in live \ hosted}
           Mine(s) == Cardinality(SentTo(s, reached))
<1>1. mail \in SUBSET (Events \X Agents) /\ IsFiniteSet(mail)
  BY AddressedType
<1>2. reached \in SUBSET mail /\ late \in SUBSET mail
  OBVIOUS
<1>3. IsFiniteSet(reached) /\ IsFiniteSet(late)
  BY <1>1, <1>2, FS_Subset
<1>4. /\ host' = [s \in Agents |-> IF Mine(s) > 0 THEN Begun(hosts[s], Mine(s)) ELSE hosts[s]]
      /\ prompt' = [s \in Agents |-> IF Mine(s) > 0 THEN Sent(s) ELSE running[s]]
      /\ silent' = silent \ {m[2] : m \in reached}
      /\ heard' = heard \union Heard(reached)
      /\ waiting' = waiting \union late
  BY DEF Emit
<1>5. \A s \in Agents : Mine(s) \in Nat
  BY <1>3, SentToCounted
<1> HIDE DEF mail, reached, late, Mine
<1>6. ASSUME NEW s \in Agents
      PROVE  host'[s] \in TurnLifecycle /\ Marked(host'[s], last[s]) /\ prompt'[s] \in Prompts
  <2>1. hosts[s] \in TurnLifecycle /\ last[s] \in Nat /\ Marked(hosts[s], last[s])
    BY DEF AllMarked
  <2>2. CASE Mine(s) > 0
    BY <1>4, <1>5, <2>1, <2>2, BegunKeeps, SentType
  <2>3. CASE ~(Mine(s) > 0)
    BY <1>4, <2>1, <2>3
  <2> QED
    BY <2>2, <2>3
<1>7. host' \in [Agents -> TurnLifecycle] /\ prompt' \in [Agents -> Prompts]
  BY <1>4, <1>6
<1>8. heard' \subseteq Agents \X Nat \X Agents \X Switches
  BY <1>1, <1>2, <1>4, HeardType DEF TypeOK
<1>9. waiting' \subseteq Events \X Agents
  BY <1>1, <1>2, <1>4 DEF TypeOK
<1>10. IsFiniteSet(waiting')
  BY <1>3, <1>4, FS_Union
<1> QED
  BY <1>4, <1>6, <1>7, <1>8, <1>9, <1>10 DEF AllMarked, TypeOK

-----------------------------------------------------------------------------
(* One lemma per kind of step. *)

(* A handler that emits events and leaves everything else but the reports alone.         *)
LEMMA EmitStep ==
  ASSUME IInv,
         NEW events \in SUBSET Events, IsFiniteSet(events),
         NEW hosts \in [Agents -> TurnLifecycle], NEW running \in [Agents -> Prompts],
         stalled' \in [Agents -> Nat], AllMarked(hosts, stalled'),
         Emit(events, hosts, running),
         UNCHANGED <<live, hosted, switching, subs, left, refused>>,
         cancels' \subseteq Agents \X Nat, owed' \subseteq Agents \X Nat \X Agents
  PROVE  IInv'
<1>1. /\ host' \in [Agents -> TurnLifecycle] /\ AllMarked(host', stalled')
      /\ prompt' \in [Agents -> Prompts]
      /\ silent' \subseteq Agents
      /\ heard' \subseteq Agents \X Nat \X Agents \X Switches
      /\ waiting' \subseteq Events \X Agents /\ IsFiniteSet(waiting')
  BY EmitKeeps DEF IInv
<1> QED
  BY <1>1 DEF IInv, TypeOK, AllMarked

(* Of one host the lifecycle changes, and its mark stays true.                          *)
LEMMA HostStep ==
  ASSUME IInv, NEW a \in Agents, NEW h \in TurnLifecycle, Marked(h, stalled[a]),
         host' = [host EXCEPT ![a] = h], UNCHANGED stalled
  PROVE  host' \in [Agents -> TurnLifecycle] /\ AllMarked(host', stalled')
<1>1. host \in [Agents -> TurnLifecycle]
  BY DEF IInv, TypeOK
<1> QED
  BY <1>1 DEF IInv, AllMarked

LEMMA SubscribeStep ==
  ASSUME IInv, NEW a \in Agents, NEW s \in Agents, Subscribe(a, s)
  PROVE  IInv'
  BY DEF IInv, TypeOK, AllMarked, Subscribe

LEMMA HostCreatedStep ==
  ASSUME IInv, NEW s \in Agents, HostCreated(s)
  PROVE  IInv'
<1> DEFINE mail == SentTo(s, waiting)
           n    == Cardinality(mail)
<1>1. mail \in SUBSET waiting /\ n \in Nat
  BY SentToCounted DEF IInv
<1>2. mail \in SUBSET (Events \X Agents) /\ IsFiniteSet(waiting')
  <2>1. waiting' \in SUBSET waiting
    BY DEF HostCreated
  <2> QED
    BY <1>1, <2>1, FS_Subset DEF IInv, TypeOK
<1>3. Heard(mail) \subseteq Agents \X Nat \X Agents \X Switches
  BY <1>2, HeardType DEF IInv
<1>4. /\ host' = IF n > 0 THEN [host EXCEPT ![s] = Begun(host[s], n)] ELSE host
      /\ prompt' = IF n > 0 THEN [prompt EXCEPT ![s] = Sent(s)] ELSE prompt
      /\ silent' \subseteq silent
      /\ heard' = heard \union Heard(mail)
      /\ waiting' \subseteq waiting
      /\ hosted' = hosted \union {s} /\ s \in live
      /\ UNCHANGED <<live, switching, cancels, subs, left, owed, refused, stalled>>
  BY DEF HostCreated
<1> HIDE DEF mail, n
<1>5. host' \in [Agents -> TurnLifecycle] /\ AllMarked(host', stalled')
  <2>1. CASE n > 0
    <3>1. Begun(host[s], n) \in TurnLifecycle /\ Marked(Begun(host[s], n), stalled[s])
      BY <1>1, <2>1, BegunKeeps DEF IInv, TypeOK, AllMarked
    <3> QED
      BY <1>4, <2>1, <3>1, HostStep
  <2>2. CASE ~(n > 0)
    BY <1>4, <2>2 DEF IInv, TypeOK, AllMarked
  <2> QED
    BY <2>1, <2>2
<1>6. prompt' \in [Agents -> Prompts]
  BY <1>4, SentType DEF IInv, TypeOK
<1> QED
  BY <1>2, <1>3, <1>4, <1>5, <1>6 DEF IInv, TypeOK

LEMMA HostRefusedStep ==
  ASSUME IInv, NEW s \in Agents, HostRefused(s)
  PROVE  IInv'
<1>1. waiting' \in SUBSET waiting
  BY DEF HostRefused
<1>2. IsFiniteSet(waiting')
  BY <1>1, FS_Subset DEF IInv
<1>3. refused' \subseteq Agents \X Nat \X Agents
  <2>1. SentTo(s, waiting) \in SUBSET (Events \X Agents)
    BY DEF SentTo, IInv, TypeOK
  <2> QED
    BY <2>1, DroppedType DEF IInv, TypeOK, HostRefused
<1> QED
  BY <1>1, <1>2, <1>3 DEF IInv, TypeOK, AllMarked, HostRefused

LEMMA SpendType ==
  ASSUME TypeOK, NEW a \in Agents, NEW act \in {"prompts", "cancels", "switches"}, Spend(a, act)
  PROVE  left' \in [Agents -> [prompts : Nat, cancels : Nat, switches : Nat]]
<1>1. left[a] \in [prompts : Nat, cancels : Nat, switches : Nat]
  BY DEF TypeOK
<1>2. left[a][act] - 1 \in Nat
  BY <1>1 DEF Spend
<1>3. [left[a] EXCEPT ![act] = left[a][act] - 1] \in [prompts : Nat, cancels : Nat, switches : Nat]
  BY <1>1, <1>2
<1> QED
  BY <1>3 DEF TypeOK, Spend

LEMMA PromptStep ==
  ASSUME IInv, NEW a \in Agents, Prompt(a)
  PROVE  IInv'
<1>1. Begun(host[a], 1) \in TurnLifecycle /\ Marked(Begun(host[a], 1), stalled[a])
  BY BegunKeeps DEF IInv, TypeOK, AllMarked
<1>2. host' \in [Agents -> TurnLifecycle] /\ AllMarked(host', stalled')
  BY <1>1, HostStep DEF Prompt
<1>3. prompt' \in [Agents -> Prompts]
  BY SentType DEF IInv, TypeOK, Prompt
<1>4. left' \in [Agents -> [prompts : Nat, cancels : Nat, switches : Nat]]
  BY SpendType DEF IInv, Prompt
<1> QED
  BY <1>2, <1>3, <1>4 DEF IInv, TypeOK, Prompt

LEMMA PromptReturnsStep ==
  ASSUME IInv, NEW a \in Agents, NEW failed \in BOOLEAN, PromptReturns(a, failed)
  PROVE  IInv'
<1> DEFINE error  == failed /\ host[a].turnSeq # host[a].cancelledTurn
           h      == Ended(host[a], error)
           k      == IF failed THEN h ELSE CloseScheduled(h, a)
           events == IF Ends(host[a], error) THEN {Event("turn-ended", a)} ELSE {}
<1>1. host[a] \in TurnLifecycle /\ stalled[a] \in Nat /\ Marked(host[a], stalled[a])
  BY DEF IInv, TypeOK, AllMarked
<1>2. k \in TurnLifecycle /\ Marked(k, stalled[a])
  BY <1>1, EndedKeeps, CloseScheduledKeeps
<1>3. events \in SUBSET Events /\ IsFiniteSet(events)
  BY EventType, FS_EmptySet, FS_Singleton DEF IInv, Kinds
<1>4. NoPrompt \in Prompts
  BY DEF NoPrompt, Prompts, Switches
<1>5. owed' \subseteq Agents \X Nat \X Agents
  <2>1. prompt[a].audience \subseteq Agents /\ host[a].turnSeq \in Nat
    BY <1>1 DEF IInv, TypeOK, Prompts, TurnLifecycle
  <2> QED
    BY <2>1 DEF IInv, TypeOK, PromptReturns
<1>6. /\ Emit(events, [host EXCEPT ![a] = k], [prompt EXCEPT ![a] = NoPrompt])
      /\ UNCHANGED <<live, hosted, switching, cancels, subs, left, refused, stalled>>
  BY DEF PromptReturns
<1> HIDE DEF k, events
<1>7. /\ [host EXCEPT ![a] = k] \in [Agents -> TurnLifecycle]
      /\ [prompt EXCEPT ![a] = NoPrompt] \in [Agents -> Prompts]
      /\ AllMarked([host EXCEPT ![a] = k], stalled')
  BY <1>2, <1>4, <1>6 DEF IInv, TypeOK, AllMarked
<1>8. stalled' \in [Agents -> Nat] /\ cancels' \subseteq Agents \X Nat
  BY <1>6 DEF IInv, TypeOK
<1> QED
  BY <1>3, <1>5, <1>6, <1>7, <1>8, EmitStep

LEMMA CancelBeginsStep ==
  ASSUME IInv, NEW a \in Agents, CancelBegins(a)
  PROVE  IInv'
<1>1. host[a] \in TurnLifecycle /\ Marked(host[a], stalled[a])
  BY DEF IInv, TypeOK, AllMarked
<1> DEFINE h == [host[a] EXCEPT !.cancelledTurn = host[a].turnSeq]
<1>2. h \in TurnLifecycle /\ Marked(h, stalled[a])
  BY <1>1 DEF TurnLifecycle, Marked
<1>3. host' = [host EXCEPT ![a] = h] /\ UNCHANGED stalled
  BY DEF CancelBegins
<1>4. host' \in [Agents -> TurnLifecycle] /\ AllMarked(host', stalled')
  BY <1>2, <1>3, HostStep
<1>5. left' \in [Agents -> [prompts : Nat, cancels : Nat, switches : Nat]]
  BY SpendType DEF IInv, CancelBegins
<1>6. cancels' \subseteq Agents \X Nat
  BY <1>1 DEF IInv, TypeOK, CancelBegins, TurnLifecycle
<1> QED
  BY <1>4, <1>5, <1>6 DEF IInv, TypeOK, CancelBegins

LEMMA CancelReturnsStep ==
  ASSUME IInv, NEW a \in Agents, NEW turn, CancelReturns(a, turn)
  PROVE  IInv'
<1>1. cancels' \subseteq Agents \X Nat /\ owed' \subseteq Agents \X Nat \X Agents
      /\ stalled' = stalled
  BY DEF IInv, TypeOK, CancelReturns
<1>2. CASE turn # host[a].turnSeq
  BY <1>1, <1>2 DEF IInv, TypeOK, AllMarked, CancelReturns
<1>3. CASE turn = host[a].turnSeq
  <2> DEFINE k == CloseScheduled(Ended(host[a], FALSE), a)
  <2>1. host[a] \in TurnLifecycle /\ stalled[a] \in Nat /\ Marked(host[a], stalled[a])
    BY DEF IInv, TypeOK, AllMarked
  <2>2. k \in TurnLifecycle /\ Marked(k, stalled[a])
    BY <2>1, EndedKeeps, CloseScheduledKeeps
  <2>3. CancelledEvents(a) \in SUBSET Events /\ IsFiniteSet(CancelledEvents(a))
    BY EventType, FS_EmptySet, FS_Singleton DEF IInv, Kinds, CancelledEvents
  <2>4. /\ Emit(CancelledEvents(a), [host EXCEPT ![a] = k], prompt)
        /\ UNCHANGED <<live, hosted, switching, subs, left, refused>>
    BY <1>3 DEF CancelReturns
  <2> HIDE DEF k
  <2>5. /\ [host EXCEPT ![a] = k] \in [Agents -> TurnLifecycle]
        /\ AllMarked([host EXCEPT ![a] = k], stalled')
        /\ prompt \in [Agents -> Prompts] /\ stalled' \in [Agents -> Nat]
    BY <1>1, <2>2 DEF IInv, TypeOK, AllMarked
  <2> QED
    BY <1>1, <2>3, <2>4, <2>5, EmitStep
<1> QED
  BY <1>2, <1>3

LEMMA SwitchBeginsStep ==
  ASSUME IInv, NEW a \in Agents, NEW kind \in {"new", "load"}, SwitchBegins(a, kind)
  PROVE  IInv'
<1>1. host[a] \in TurnLifecycle /\ stalled[a] \in Nat /\ Marked(host[a], stalled[a])
  BY DEF IInv, TypeOK, AllMarked
<1> DEFINE h == [host[a] EXCEPT !.turnSeq = host[a].turnSeq + 1, !.cancelledTurn = -1]
<1>2. h \in TurnLifecycle
  <2>1. host[a].turnSeq + 1 \in Nat /\ -1 \in Nat \union {-1}
    BY <1>1 DEF TurnLifecycle
  <2> QED
    BY <1>1, <2>1 DEF TurnLifecycle
<1>3. Marked(h, stalled[a])
  BY <1>1 DEF TurnLifecycle, Marked
<1>4. host' = [host EXCEPT ![a] = h] /\ UNCHANGED stalled
  BY DEF SwitchBegins
<1>5. host' \in [Agents -> TurnLifecycle] /\ AllMarked(host', stalled')
  BY <1>2, <1>3, <1>4, HostStep
<1>6. left' \in [Agents -> [prompts : Nat, cancels : Nat, switches : Nat]]
  BY SpendType DEF IInv, SwitchBegins
<1>7. prompt' \in [Agents -> Prompts] /\ switching' \in [Agents -> Switches]
  BY DEF IInv, TypeOK, SwitchBegins, NoPrompt, Prompts, Switches
<1> QED
  BY <1>5, <1>6, <1>7 DEF IInv, TypeOK, SwitchBegins

LEMMA SwitchEndsStep ==
  ASSUME IInv, NEW a \in Agents, NEW failed \in BOOLEAN, SwitchEnds(a, failed)
  PROVE  IInv'
<1>1. host[a] \in TurnLifecycle /\ Marked(host[a], stalled[a])
  BY DEF IInv, TypeOK, AllMarked
<1> DEFINE error == failed /\ host[a].lastTurnError
           h == [host[a] EXCEPT !.turnState = "idle", !.lastTurnError = error]
<1>2. h \in TurnLifecycle /\ Marked(h, stalled[a])
  <2>1. error \in BOOLEAN
    BY DEF error
  <2> HIDE DEF error
  <2> QED
    BY <1>1, <2>1 DEF TurnLifecycle, Marked
<1>3. host' = [host EXCEPT ![a] = h] /\ UNCHANGED stalled
  BY DEF SwitchEnds
<1>4. host' \in [Agents -> TurnLifecycle] /\ AllMarked(host', stalled')
  BY <1>2, <1>3, HostStep
<1>5. switching' \in [Agents -> Switches]
  BY DEF IInv, TypeOK, SwitchEnds, Switches
<1> QED
  BY <1>4, <1>5 DEF IInv, TypeOK, SwitchEnds

LEMMA SpeaksStep ==
  ASSUME IInv, NEW a \in Agents, AgentSpeaks(a) \/ AgentIsSilent(a)
  PROVE  IInv'
<1>1. CASE AgentSpeaks(a)
  <2>1. host[a] \in TurnLifecycle /\ Marked(host[a], stalled[a])
    BY DEF IInv, TypeOK, AllMarked
  <2> DEFINE h == [host[a] EXCEPT !.turnState = "open"]
  <2>2. h \in TurnLifecycle /\ Marked(h, stalled[a])
    BY <2>1 DEF TurnLifecycle, Marked
  <2>3. host' = [host EXCEPT ![a] = h] /\ UNCHANGED stalled
    BY <1>1 DEF AgentSpeaks
  <2>4. host' \in [Agents -> TurnLifecycle] /\ AllMarked(host', stalled')
    BY <2>2, <2>3, HostStep
  <2> QED
    BY <1>1, <2>4 DEF IInv, TypeOK, AgentSpeaks
<1>2. CASE AgentIsSilent(a)
  BY <1>2 DEF IInv, TypeOK, AllMarked, AgentIsSilent
<1> QED
  BY <1>1, <1>2

(* The reports of a sweep are finitely many, and each marks the turn it is about.        *)
LEMMA SweepStep ==
  ASSUME IInv, StallSweep
  PROVE  IInv'
<1> DEFINE due    == {a \in hosted : Overdue(a)}
           events == {Event("stall-suspected", a) : a \in due}
           hosts  == [a \in Agents |-> [host[a] EXCEPT !.stallReported = @ \/ a \in due]]
<1>1. due \in SUBSET Agents
  BY DEF IInv, TypeOK
<1>2. IsFiniteSet(due)
  BY <1>1, FS_Subset, AgentsAssumption
<1>3. events \in SUBSET Events
  BY <1>1, EventType DEF IInv, Kinds
<1>4. IsFiniteSet(events)
  <2> DEFINE f == [a \in due |-> Event("stall-suspected", a)]
  <2>1. f \in Surjection(due, events)
    BY DEF Surjection
  <2> QED
    BY <1>2, <2>1, FS_Surjection
<1>5. /\ Emit(events, hosts, prompt)
      /\ stalled' = [a \in Agents |-> IF a \in due THEN host[a].turnSeq ELSE stalled[a]]
      /\ UNCHANGED <<live, hosted, switching, cancels, subs, left, owed, refused>>
  BY DEF StallSweep
<1> HIDE DEF events, due
<1>6. ASSUME NEW a \in Agents
      PROVE  /\ [host[a] EXCEPT !.stallReported = host[a].stallReported \/ a \in due] \in TurnLifecycle
             /\ stalled'[a] \in Nat
             /\ Marked([host[a] EXCEPT !.stallReported = host[a].stallReported \/ a \in due], stalled'[a])
  <2>1. host[a] \in TurnLifecycle /\ stalled[a] \in Nat /\ Marked(host[a], stalled[a])
    BY DEF IInv, TypeOK, AllMarked
  <2> DEFINE mark == host[a].stallReported \/ a \in due
             h    == [host[a] EXCEPT !.stallReported = mark]
  <2>2. mark \in BOOLEAN
    OBVIOUS
  <2>3. h.turnSeq = host[a].turnSeq /\ (mark => h.stallReported) /\ h.timed = host[a].timed
    BY <2>1, <2>2 DEF TurnLifecycle
  <2>4. h \in TurnLifecycle /\ h.turnSeq \in Nat
    <3> HIDE DEF mark
    <3> QED
      BY <2>1, <2>2 DEF TurnLifecycle
  <2>5. CASE a \in due
    <3>1. stalled'[a] = host[a].turnSeq /\ mark
      BY <1>5, <2>5
    <3> QED
      BY <2>3, <2>4, <3>1 DEF Marked
  <2>6. CASE a \notin due
    <3>1. stalled'[a] = stalled[a] /\ (host[a].stallReported => h.stallReported)
      BY <1>5, <2>3, <2>6
    <3>2. stalled'[a] \in Nat /\ Marked(h, stalled'[a])
      <4> HIDE DEF h, mark
      <4> QED
        BY <2>1, <2>3, <2>4, <3>1 DEF Marked
    <3> QED
      BY <2>4, <3>2
  <2> QED
    BY <2>5, <2>6
<1>7. hosts \in [Agents -> TurnLifecycle] /\ AllMarked(hosts, stalled')
  BY <1>6 DEF AllMarked
<1>8. stalled' \in [Agents -> Nat]
  BY <1>5, <1>6
<1>9. prompt \in [Agents -> Prompts] /\ cancels' \subseteq Agents \X Nat
      /\ owed' \subseteq Agents \X Nat \X Agents
  BY <1>5 DEF IInv, TypeOK
<1> HIDE DEF hosts
<1> QED
  BY <1>3, <1>4, <1>5, <1>7, <1>8, <1>9, EmitStep

LEMMA GoneStep ==
  ASSUME IInv, NEW a \in Agents, Gone(a)
  PROVE  IInv'
  BY DEF IInv, TypeOK, AllMarked, Gone

-----------------------------------------------------------------------------
LEMMA InitHolds == Init => IInv
  BY AgentsAssumption, BoundsAssumption, FS_EmptySet
     DEF Init, IInv, TypeOK, AllMarked, Marked, TurnLifecycle, Switches, Prompts, NoPrompt

LEMMA IInvCorrect == Spec => []IInv
<1>1. ASSUME IInv, [Next]_vars
      PROVE  IInv'
  <2>1. CASE UNCHANGED vars
    BY <1>1, <2>1 DEF vars, IInv, TypeOK, AllMarked
  <2>2. CASE Next
    BY <1>1, <2>2, SubscribeStep, HostCreatedStep, HostRefusedStep, PromptStep, CancelBeginsStep,
       CancelReturnsStep, SwitchBeginsStep, PromptReturnsStep, SwitchEndsStep, SpeaksStep,
       SweepStep, GoneStep DEF Next, AgentGone, GraceExpires, IInv, TypeOK
  <2> QED
    BY <1>1, <2>1, <2>2
<1> QED
  BY <1>1, InitHolds, PTL DEF Spec

(* The handlers, the sweep and the deliveries keep the shape of the state, for any      *)
(* number of agents and subscriptions.                                                  *)
THEOREM TypeCorrect == Spec => []TypeOK
  BY IInvCorrect, PTL DEF IInv

(* No sweep reports a turn a second time, for any number of agents, turns, cancels and   *)
(* switches, and in whatever order their answers come.                                  *)
THEOREM ReportedOnce == Spec => []StallOncePerTurn
<1>1. IInv => StallOncePerTurn
  BY DEF IInv, TypeOK, AllMarked, Marked, StallOncePerTurn, Overdue
<1> QED
  BY <1>1, IInvCorrect, PTL
=============================================================================
