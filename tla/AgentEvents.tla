---------------------------- MODULE AgentEvents ----------------------------
(***************************************************************************)
(* The events of one agent that become prompts of another: the bus of      *)
(* subscriptions, the turn boundaries of the session hosts that feed it    *)
(* (turn-ended), the sweep that watches for silent turns (stall-suspected),*)
(* the delivery of an event as a prompt of each subscriber, and the timer  *)
(* that closes an agent after its turn (closeOnTurnEnd).                   *)
(*                                                                         *)
(* Of a session host the module keeps what a turn boundary reads and       *)
(* writes; its sessions and requests are the subject of SessionHost, the   *)
(* takeover of its wire of WireOwnership.  A step is one macrotask with    *)
(* its microtasks: an event reaches a subscriber whose host exists in the  *)
(* step that emits it, since getOrCreateHost answers at once.              *)
(***************************************************************************)
EXTENDS Integers, FiniteSets

CONSTANTS
  Agents,
  Pairs,        \* subscriptions somebody asks for: <<target, subscriber>>
  Closing,      \* agents opened with closeOnTurnEnd
  Acts,         \* bound, per agent: prompts, cancels and session switches of its users
  Turns         \* the turns the liveness properties look at

ASSUME AgentsAssumption ==
  IsFiniteSet(Agents) /\ Pairs \subseteq Agents \X Agents /\ Closing \subseteq Agents
ASSUME BoundsAssumption ==
  /\ Acts \in [Agents -> [prompts : Nat, cancels : Nat, switches : Nat]]
  /\ Turns \subseteq Nat

VARIABLES
  live,       \* agents with a connection
  hosted,     \* agents whose session host is in the registry
  host,       \* per agent: the turn lifecycle of its session host
  silent,     \* agents without output for stallSuspectMs since the turn start
  switching,  \* per agent: the session switch in flight
  prompt,     \* per agent: the session/prompt of the newest turn, while in flight
  cancels,    \* session/cancel calls in flight
  subs,       \* the bus: pairs of target and subscriber
  waiting,    \* deliveries that wait for getOrCreateHost: pairs of event and subscriber
  left,       \* per agent: what its users may still do
  owed,       \* history: target, turn and subscriber, for every turn that was answered
  heard,      \* history: target, turn, subscriber and its switch, for every turn end told
  refused,    \* history: target, turn and subscriber, for every turn end no host took
  stalled     \* history, per agent: the last turn reported as stalled, 0 for none

vars == <<live, hosted, host, silent, switching, prompt, cancels, subs, waiting, left,
          owed, heard, refused, stalled>>

-----------------------------------------------------------------------------

Kinds  == {"turn-ended", "stall-suspected"}
Events == [kind : Kinds, about : Agents, turn : Nat]

TurnLifecycle ==
  [turnSeq : Nat, cancelledTurn : Nat \union {-1}, turnState : {"idle", "open"},
   lastTurnError : BOOLEAN, timed : BOOLEAN, stallReported : BOOLEAN,
   closeScheduled : BOOLEAN]

Switches == {"none", "new", "load"}
Prompts  == [running : BOOLEAN, amid : Switches, audience : SUBSET Agents]
NoPrompt == [running |-> FALSE, amid |-> "none", audience |-> {}]

TypeOK ==
  /\ live \subseteq Agents /\ hosted \subseteq live /\ silent \subseteq Agents
  /\ host \in [Agents -> TurnLifecycle]
  /\ switching \in [Agents -> Switches]
  /\ prompt \in [Agents -> Prompts]
  /\ cancels \subseteq Agents \X Nat
  /\ subs \subseteq Pairs
  /\ waiting \subseteq Events \X Agents
  /\ owed \subseteq Agents \X Nat \X Agents
  /\ heard \subseteq Agents \X Nat \X Agents \X Switches
  /\ refused \subseteq Agents \X Nat \X Agents
  /\ left \in [Agents -> [prompts : Nat, cancels : Nat, switches : Nat]]
  /\ stalled \in [Agents -> Nat]

Init ==
  /\ live = Agents /\ hosted = {} /\ silent = {}
  /\ host = [a \in Agents |->
       [turnSeq |-> 0, cancelledTurn |-> -1, turnState |-> "idle", lastTurnError |-> FALSE,
        timed |-> FALSE, stallReported |-> FALSE, closeScheduled |-> FALSE]]
  /\ switching = [a \in Agents |-> "none"]
  /\ prompt = [a \in Agents |-> NoPrompt] /\ cancels = {}
  /\ subs = {} /\ waiting = {}
  /\ left = Acts
  /\ owed = {} /\ heard = {} /\ refused = {} /\ stalled = [a \in Agents |-> 0]

-----------------------------------------------------------------------------
(* The turn boundaries of a host. *)

(* Mutant: stampTurnStart leaves the report of the turn before it. *)
BegunStillReported(h, n) ==
  [h EXCEPT !.turnSeq = @ + n, !.turnState = "open", !.lastTurnError = FALSE, !.timed = TRUE]

(* The synchronous part of n calls of prompt: turnSeq, stampTurnStart, applyTurnStart. *)
Begun(h, n) ==
  [h EXCEPT !.turnSeq = @ + n, !.turnState = "open", !.lastTurnError = FALSE,
            !.timed = TRUE, !.stallReported = FALSE]

(* applyTurnEnd changes nothing on an idle host without an error, and what changes     *)
(* nothing is not announced.                                                           *)
Ends(h, failed) == failed \/ h.turnState = "open"

(* emitTurnEnd: the turn boundary and resetTurnTiming. *)
Ended(h, failed) ==
  IF Ends(h, failed)
  THEN [h EXCEPT !.turnState = "idle", !.lastTurnError = failed,
                 !.timed = FALSE, !.stallReported = FALSE]
  ELSE h

(* maybeScheduleCloseOnTurnEnd, once per host. *)
CloseScheduled(h, a) ==
  [h EXCEPT !.closeScheduled = @ \/ (a \in Closing /\ ~h.lastTurnError)]

-----------------------------------------------------------------------------
(* The bus and the delivery. *)

Event(kind, a)    == [kind |-> kind, about |-> a, turn |-> host[a].turnSeq]
Addressed(events) == {es \in events \X Agents : <<es[1].about, es[2]>> \in subs}
SentTo(s, mail)   == {m \in mail : m[2] = s}

(* The prompt a host sends now, with what the properties ask of it: the switch it falls *)
(* into and the subscribers there are.  It replaces the one in flight: what the agent    *)
(* answers to an older turn is ignored (the turnSeq fence, see SessionHost).            *)
Sent(a) ==
  [running |-> TRUE, amid |-> switching[a], audience |-> {s \in Agents : <<a, s>> \in subs}]

(* What the properties keep of the prompts that deliver events, and of those never sent. *)
TurnEnds(mail) == {m \in mail : m[1].kind = "turn-ended"}
Heard(mail)    == {<<m[1].about, m[1].turn, m[2], switching[m[2]]>> : m \in TurnEnds(mail)}
Dropped(mail)  == {<<m[1].about, m[1].turn, m[2]>> : m \in TurnEnds(mail)}

(* The handler that emits the events leaves the hosts and their prompts as given; each *)
(* event is a prompt of every subscriber that has a host, waits for one that has a     *)
(* connection, and is dropped by the others.                                           *)
Emit(events, hosts, running) ==
  LET mail    == Addressed(events)
      reached == {m \in mail : m[2] \in hosted}
      Mine(s) == Cardinality(SentTo(s, reached))
  IN  /\ host' = [s \in Agents |-> IF Mine(s) > 0 THEN Begun(hosts[s], Mine(s)) ELSE hosts[s]]
      /\ prompt' = [s \in Agents |-> IF Mine(s) > 0 THEN Sent(s) ELSE running[s]]
      /\ silent' = silent \ {m[2] : m \in reached}
      /\ heard' = heard \union Heard(reached)
      /\ waiting' = waiting \union {m \in mail : m[2] \in live \ hosted}

(* POST /subscribe, session_subscribe and notifyOnDone: the target must be registered, *)
(* the subscriber may be anybody.                                                      *)
Subscribe(a, s) ==
  /\ <<a, s>> \in Pairs /\ a \in live
  /\ subs' = subs \union {<<a, s>>}
  /\ UNCHANGED <<live, hosted, host, silent, switching, prompt, cancels, waiting, left,
                 owed, heard, refused, stalled>>

(* getOrCreateHost made the host, for a delivery or for a user; the deliveries that    *)
(* joined it prompt it one after the other.                                            *)
HostCreated(s) ==
  LET mail == SentTo(s, waiting)
      n    == Cardinality(mail)
  IN  /\ s \in live \ hosted
      /\ hosted' = hosted \union {s}
      /\ host' = IF n > 0 THEN [host EXCEPT ![s] = Begun(@, n)] ELSE host
      /\ prompt' = IF n > 0 THEN [prompt EXCEPT ![s] = Sent(s)] ELSE prompt
      /\ silent' = IF n > 0 THEN silent \ {s} ELSE silent
      /\ heard' = heard \union Heard(mail)
      /\ waiting' = waiting \ mail
      /\ UNCHANGED <<live, switching, cancels, subs, left, owed, refused, stalled>>

(* No host comes of it, and the event is logged and dropped.  The connection died     *)
(* meanwhile, or it lives and the creation failed: the owner before it did not close in *)
(* time, initialize timed out or wants a login, session/new was refused.                *)
HostRefused(s) ==
  /\ SentTo(s, waiting) # {}
  /\ waiting' = waiting \ SentTo(s, waiting)
  /\ refused' = refused \union Dropped(SentTo(s, waiting))
  /\ UNCHANGED <<live, hosted, host, silent, switching, prompt, cancels, subs, left,
                 owed, heard, stalled>>

-----------------------------------------------------------------------------
(* Users, agents and timers. *)

Spend(a, act) ==
  /\ left[a][act] > 0
  /\ left' = [left EXCEPT ![a][act] = @ - 1]

(* prompt, of a viewer's rpc or of session_send. *)
Prompt(a) ==
  /\ a \in hosted /\ Spend(a, "prompts")
  /\ host' = [host EXCEPT ![a] = Begun(@, 1)]
  /\ prompt' = [prompt EXCEPT ![a] = Sent(a)]
  /\ silent' = silent \ {a}
  /\ UNCHANGED <<live, hosted, switching, cancels, subs, waiting, owed, heard, refused,
                 stalled>>

(* The agent answers the prompt of the newest turn, or refuses it; a cancelled turn does *)
(* not fail.  A turn begun outside a switch owes its end to those subscribed by then.    *)
PromptReturns(a, failed) ==
  LET turn  == host[a].turnSeq
      error == failed /\ turn # host[a].cancelledTurn
      h     == Ended(host[a], error)
  IN  /\ a \in live /\ prompt[a].running
      /\ Emit(IF Ends(host[a], error) THEN {Event("turn-ended", a)} ELSE {},
              [host EXCEPT ![a] = IF failed THEN h ELSE CloseScheduled(h, a)],
              [prompt EXCEPT ![a] = NoPrompt])
      /\ owed' = IF prompt[a].amid = "none"
                 THEN owed \union ({a} \X {turn} \X prompt[a].audience) ELSE owed
      /\ UNCHANGED <<live, hosted, switching, cancels, subs, left, refused, stalled>>

CancelBegins(a) ==
  /\ a \in hosted /\ Spend(a, "cancels")
  /\ host' = [host EXCEPT ![a].cancelledTurn = host[a].turnSeq]
  /\ cancels' = cancels \union {<<a, host[a].turnSeq>>}
  /\ UNCHANGED <<live, hosted, silent, switching, prompt, subs, waiting, owed, heard, refused,
                 stalled>>

(* Mutant: cancel ends the turn with emit instead of emitTurnEnd. *)
CancelledQuietly(a) == {}

CancelledEvents(a) == IF Ends(host[a], FALSE) THEN {Event("turn-ended", a)} ELSE {}

(* client.cancel, which may fail, is over: the same fence as in prompt. *)
CancelReturns(a, turn) ==
  /\ <<a, turn>> \in cancels
  /\ cancels' = cancels \ {<<a, turn>>}
  /\ IF turn = host[a].turnSeq
     THEN Emit(CancelledEvents(a),
               [host EXCEPT ![a] = CloseScheduled(Ended(@, FALSE), a)], prompt)
     ELSE UNCHANGED <<host, prompt, silent, heard, waiting>>
  /\ UNCHANGED <<live, hosted, switching, subs, left, owed, refused, stalled>>

(* newSession and loadSession: the running turn is fenced off, its timing is not reset. *)
SwitchBegins(a, kind) ==
  /\ a \in hosted /\ switching[a] = "none" /\ Spend(a, "switches")
  /\ switching' = [switching EXCEPT ![a] = kind]
  /\ host' = [host EXCEPT ![a].turnSeq = @ + 1, ![a].cancelledTurn = -1]
  /\ prompt' = [prompt EXCEPT ![a] = NoPrompt]
  /\ UNCHANGED <<live, hosted, silent, cancels, subs, waiting, owed, heard, refused, stalled>>

(* The agent answers, or refuses and rollbackSessionSwitch keeps the error: idle, which *)
(* is announced to nobody.                                                              *)
SwitchEnds(a, failed) ==
  /\ a \in live /\ switching[a] # "none"
  /\ switching' = [switching EXCEPT ![a] = "none"]
  /\ host' = [host EXCEPT ![a].turnState = "idle",
                          ![a].lastTurnError = failed /\ @]
  /\ UNCHANGED <<live, hosted, silent, prompt, cancels, subs, waiting, left, owed, heard,
                 refused, stalled>>

(* Output of the agent opens the turn state, also after a cancel that ended the turn; *)
(* what an agent sends after its answer is left out.                                  *)
AgentSpeaks(a) ==
  /\ a \in hosted /\ prompt[a].running
  /\ host' = [host EXCEPT ![a].turnState = "open"]
  /\ silent' = silent \ {a}
  /\ UNCHANGED <<live, hosted, switching, prompt, cancels, subs, waiting, left, owed,
                 heard, refused, stalled>>

(* Time passes without any. *)
AgentIsSilent(a) ==
  /\ a \in hosted /\ host[a].timed
  /\ silent' = silent \union {a}
  /\ UNCHANGED <<live, hosted, host, switching, prompt, cancels, subs, waiting, left, owed,
                 heard, refused, stalled>>

(* Mutant: no guard on turnStartedAt. *)
OverdueWithoutStart(a) ==
  host[a].turnState = "open" /\ ~host[a].stallReported /\ (host[a].timed => a \in silent)

(* An open turn that was stamped, not reported yet, and silent for too long. *)
Overdue(a) ==
  host[a].turnState = "open" /\ ~host[a].stallReported /\ host[a].timed /\ a \in silent

(* runStallSweep, every half minute over all hosts of the registry. *)
StallSweep ==
  LET due == {a \in hosted : Overdue(a)}
  IN  /\ due # {}
      /\ Emit({Event("stall-suspected", a) : a \in due},
              [a \in Agents |-> [host[a] EXCEPT !.stallReported = @ \/ a \in due]], prompt)
      /\ stalled' = [a \in Agents |-> IF a \in due THEN host[a].turnSeq ELSE stalled[a]]
      /\ UNCHANGED <<live, hosted, switching, cancels, subs, left, owed, refused>>

(* Mutant: the orchestrator forgets unregisterHost. *)
GoneButHosted(a) ==
  /\ live' = live \ {a}
  /\ UNCHANGED <<hosted, host, silent, switching, prompt, cancels, subs, waiting, left, owed,
                 heard, refused, stalled>>

(* The agent crashes or is deleted, and unregisterHost drops the host; its calls hang,  *)
(* and the subscriptions stay.                                                          *)
Gone(a) ==
  /\ live' = live \ {a} /\ hosted' = hosted \ {a}
  /\ UNCHANGED <<host, silent, switching, prompt, cancels, subs, waiting, left, owed, heard,
                 refused, stalled>>

AgentGone(a) == a \in live /\ Gone(a)

(* The grace timer of closeOnTurnEnd: deleteAndKill, whatever the host does by now. *)
GraceExpires(a) == a \in live /\ host[a].closeScheduled /\ Gone(a)

Next ==
  \/ \E a, s \in Agents : Subscribe(a, s)
  \/ \E a \in Agents : HostCreated(a) \/ HostRefused(a)
  \/ \E a \in Agents : Prompt(a) \/ CancelBegins(a)
  \/ \E c \in cancels : CancelReturns(c[1], c[2])
  \/ \E a \in Agents, kind \in {"new", "load"} : SwitchBegins(a, kind)
  \/ \E a \in Agents, failed \in BOOLEAN : PromptReturns(a, failed) \/ SwitchEnds(a, failed)
  \/ \E a \in Agents : AgentSpeaks(a) \/ AgentIsSilent(a)
  \/ StallSweep
  \/ \E a \in Agents : AgentGone(a) \/ GraceExpires(a)

Spec == Init /\ [][Next]_vars

(* A creation that deliveries wait for settles (as WireOwnership assumes of it), and   *)
(* the sweep is an interval timer.  Nothing is assumed of the answers to prompts.      *)
Settles(s) == SentTo(s, waiting) # {} /\ (HostCreated(s) \/ HostRefused(s))

FairSpec ==
  /\ Spec
  /\ \A s \in Agents : WF_vars(Settles(s))
  /\ WF_vars(StallSweep)

-----------------------------------------------------------------------------
(* Properties. *)

(* The next sweep reports no turn a second time, whatever cancels, late output, new    *)
(* prompts and switches did to the two fields it reads (turn-lifecycle.ts).            *)
StallOncePerTurn ==
  \A a \in hosted : Overdue(a) => stalled[a] # host[a].turnSeq

(* A turn that runs in silence is reported, unless it ends, is cancelled, is left or   *)
(* speaks: also the turn that follows a reported one which never ended.                *)
(* (Of turns begun outside a switch.)                                                  *)
RunsSilently(a, t) ==
  /\ a \in hosted \intersect silent /\ host[a].turnSeq = t /\ host[a].cancelledTurn # t
  /\ prompt[a].running /\ prompt[a].amid = "none"

SilenceIsNoticed ==
  \A a \in Agents, t \in Turns :
    RunsSilently(a, t) ~> (stalled[a] = t \/ ~RunsSilently(a, t))

(* Whoever was subscribed when a turn began that is answered as the newest hears of its *)
(* end as a prompt of its own, unless it is gone, or was opening a session, when the    *)
(* prompt goes to the sentinel: also when the turn was cancelled before and the answer *)
(* finds the host idle, or the subscriber's host has yet to be made.  Only a host that *)
(* cannot be made loses the event: that is logged, and the subscriber never told.      *)
(* (Of turns begun outside a switch.)                                                  *)
TurnEndsArrive ==
  \A pair \in Pairs, t \in Turns :
    LET a == pair[1]  s == pair[2]
    IN  <<a, t, s>> \in owed
          ~> (\/ s \notin live
              \/ \E amid \in Switches : <<a, t, s, amid>> \in heard
              \/ <<a, t, s>> \in refused)

=============================================================================
