---------------------------- MODULE LocalSession ----------------------------
(***************************************************************************)
(* The connection of a browser tab that talks ACP to an agent over a       *)
(* WebSocket (view-models/agent-session.svelte.ts): attaching, loading and *)
(* switching sessions, leaving, and the reconnect machine, which tries a   *)
(* living agent first (warm) and creates another one otherwise (cold).     *)
(*                                                                         *)
(* Every asynchronous method is a flow; its pc names the await it is       *)
(* blocked at.  What it does between two awaits is one step, written as a  *)
(* function from the state before to the state after.  Flows share the     *)
(* fields of the view model and are not told of each other.                *)
(*                                                                         *)
(* The transport (acp-wire/src/transport/browser-ws.ts) and the backend's  *)
(* side of the socket (delivery/ws-agent.ts) are reduced to what the tab   *)
(* can see of them.                                                        *)
(***************************************************************************)
EXTENDS Integers, FiniteSets, FiniteSetsExt

CONSTANTS
  Sessions,     \* session ids
  Agents,       \* agent ids: 1 .. n, created in that order
  Sockets,      \* bound: sockets in use at a time, 1 .. n
  Flows,        \* bound: methods in progress at a time, 1 .. n
  MaxAttempts,  \* MAX_RECONNECT_ATTEMPTS
  MaxBreaks,    \* bound: sockets and agents lost
  MaxRefusals,  \* bound: calls refused, failed or never answered
  MaxActs,      \* bound: acts of the user
  Null

ASSUME LocalSessionAssumption ==
  /\ Sessions \subseteq Nat /\ Agents \subseteq Nat /\ Sockets \subseteq Nat /\ Flows \subseteq Nat
  /\ Sessions # {} /\ Agents # {} /\ Sockets # {} /\ IsFiniteSet(Flows)
  /\ MaxAttempts \in Nat \ {0} /\ MaxBreaks \in Nat /\ MaxRefusals \in Nat
  /\ MaxActs \in Nat
  /\ Null \notin Sessions \union Agents \union Sockets \union Flows

VARIABLES
  vm,     \* the fields of the view model
  sock,   \* its WebSockets
  flow,   \* its methods in progress
  agent,  \* the agents of the backend
  mixed,  \* history: since nothing was in progress, two things have been
  used    \* how much of the three bounds above has been used

vars == <<vm, sock, flow, agent, mixed, used>>

Statuses == {"idle", "connecting", "connected", "disconnected", "error"}

\* A history on screen is complete, or blank: emptied and not yet replayed.
View == {"blank", "whole"}

\* A permission on screen was asked over the socket of the tab's client, or over
\* a stray one: methods that overlap may leave a socket open that no field names.
Pending == {"none", "own", "stray"}

NewVm == [
  status |-> "idle", error |-> FALSE, surfaced |-> FALSE,
  agent |-> Null, session |-> Null, client |-> Null, transport |-> Null,
  detached |-> FALSE, tearing |-> FALSE,
  reconnecting |-> FALSE, attempt |-> 0, timer |-> Null,
  bubbles |-> "blank", snapshot |-> "none",
  prompt |-> Null, pending |-> "none"]

NoSocket == [st |-> "free", agent |-> Null, heard |-> FALSE, code |-> "none"]

NoFlow == [kind |-> "none", pc |-> "none", mode |-> "none",
           sock |-> Null, agent |-> Null, prev |-> Null, session |-> Null]

NoAgent == [st |-> "none", session |-> Null, doomed |-> FALSE]

World == [vm |-> vm, sock |-> sock, flow |-> flow, agent |-> agent]

\* What nothing can tell any more is forgotten: a socket that is closed, or
\* whose closing nobody hears of, once nothing refers to it; a timer that has
\* fired; the count of attempts once no loop is running.
Held(w, s) ==
  s \in {w.vm.client, w.vm.transport, w.vm.prompt} \/ \E f \in Flows : w.flow[f].sock = s

Over(w, s) ==
  /\ w.sock[s].st = "closed" \/ (w.sock[s].st = "closing" /\ ~w.sock[s].heard)
  /\ ~Held(w, s)

Busy(fl) == {f \in Flows : fl[f].kind \notin {"none", "closed"}}

Become(w) ==
  /\ flow' = w.flow /\ agent' = w.agent
  /\ mixed' = (Busy(w.flow) # {} /\ (mixed \/ Cardinality(Busy(w.flow)) > 1))
  /\ sock' = [s \in Sockets |-> IF Over(w, s) THEN NoSocket ELSE w.sock[s]]
  /\ vm' = [w.vm EXCEPT
       !.timer = IF @ # Null /\ w.flow[@].pc # "sleeping" THEN Null ELSE @,
       !.attempt = IF \E f \in Flows : w.flow[f].kind = "loop" THEN @ ELSE 0]

FreeSockets == {s \in Sockets : sock[s].st = "free"}
FreeFlows   == {f \in Flows : flow[f].kind = "none"}
FreeAgents  == {a \in Agents : agent[a].st = "none"}
NextSocket  == Min(FreeSockets)
NextFlow    == Min(FreeFlows)
NextAgent   == Min(FreeAgents)

-----------------------------------------------------------------------------
(* Parts of methods, up to their next await *)

(* Mutant: the frozen display is not released. *)
SetStatusStaysFrozen(v, s) == [v EXCEPT !.status = s]

\* The one place where the frozen display is released.
SetStatus(v, s) ==
  [v EXCEPT !.status = s,
            !.snapshot = IF s = "connected" /\ v.status # "connected" THEN "none" ELSE @]

\* renderBubbles
Rendered(v) == IF v.snapshot # "none" THEN v.snapshot ELSE v.bubbles

(* Mutant: the client goes and the permission asked over it is left to wait. *)
DropClientOnly(v) == [v EXCEPT !.client = Null, !.transport = Null]

DropClient(v) == [v EXCEPT !.client = Null, !.transport = Null, !.pending = "none"]

Shut(k, s) ==
  IF s # Null /\ k[s].st \in {"dialing", "open"}
  THEN [k EXCEPT ![s].st = "closing", ![s].code = "own"] ELSE k

Dial(a, heard) == [st |-> "dialing", agent |-> a, heard |-> heard, code |-> "none"]

\* deleteAgent, which nobody waits for
Doom(g, a) == IF a # Null /\ g[a].st # "none" THEN [g EXCEPT ![a].doomed = TRUE] ELSE g

\* keep: "all" keeps the context for the next reconnect, "agent" the agent.
Cleanup(w, keep) ==
  LET a == w.vm.agent
  IN [w EXCEPT
        !.sock  = Shut(@, w.vm.client),
        !.vm    = IF keep = "all" THEN DropClient(@)
                  ELSE [DropClient(@) EXCEPT !.session = Null, !.agent = Null],
        !.agent = IF keep = "nothing" THEN Doom(@, a) ELSE @]

(* Mutant: one attempt more than the bound. *)
SleepOnceMore(w, f) ==
  IF w.vm.attempt <= MaxAttempts
  THEN [w EXCEPT !.vm = [@ EXCEPT !.attempt = w.vm.attempt + 1, !.timer = f],
                 !.flow[f] = [NoFlow EXCEPT !.kind = "loop", !.pc = "sleeping"]]
  ELSE [w EXCEPT !.vm = [SetStatus(@, "disconnected") EXCEPT !.reconnecting = FALSE],
                 !.flow[f] = NoFlow]

\* The loop goes to sleep before its next attempt, or has had enough.
Sleep(w, f) ==
  IF w.vm.attempt < MaxAttempts
  THEN [w EXCEPT !.vm = [@ EXCEPT !.attempt = w.vm.attempt + 1, !.timer = f],
                 !.flow[f] = [NoFlow EXCEPT !.kind = "loop", !.pc = "sleeping"]]
  ELSE [w EXCEPT !.vm = [SetStatus(@, "disconnected") EXCEPT !.reconnecting = FALSE],
                 !.flow[f] = NoFlow]

ScheduleReconnect(w, f) ==
  IF w.vm.reconnecting THEN [w EXCEPT !.flow[f] = NoFlow]
  ELSE Sleep([w EXCEPT !.vm = [SetStatus(@, "disconnected") EXCEPT
                                 !.reconnecting = TRUE, !.attempt = 0]], f)

ClearReconnectTimer(w) ==
  LET t == w.vm.timer
  IN [w EXCEPT !.vm.timer = Null,
               !.flow = IF t # Null /\ @[t].pc = "sleeping" THEN [@ EXCEPT ![t] = NoFlow] ELSE @]

\* The end of an attempt: a manual one is over, a loop looks at the status.
Finish(w, f) ==
  LET done == w.vm.status = "connected"
      v == IF done THEN [w.vm EXCEPT !.attempt = 0] ELSE w.vm
  IN IF w.flow[f].kind # "loop" THEN [w EXCEPT !.flow[f] = NoFlow]
     ELSE IF done THEN [w EXCEPT !.vm = [v EXCEPT !.reconnecting = FALSE], !.flow[f] = NoFlow]
     ELSE Sleep(w, f)

OnReconnectSuccess(w) ==
  IF w.vm.status = "connected"
  THEN [w EXCEPT !.vm = [@ EXCEPT !.attempt = 0, !.error = FALSE, !.surfaced = FALSE]]
  ELSE w

\* attach and loadSession, up to the answer of createAgent
Start(w, f, mode, s, prev) ==
  [w EXCEPT
     !.vm = [SetStatus(@, "connecting") EXCEPT
               !.error = FALSE, !.surfaced = FALSE, !.bubbles = "blank", !.detached = FALSE],
     !.flow[f] = [@ EXCEPT !.pc = "creating", !.mode = mode, !.sock = Null,
                           !.session = s, !.prev = prev]]

ColdReconnect(w, f) ==
  LET v == DropClient(w.vm)
      u == IF v.status \in {"connecting", "connected"} THEN SetStatus(v, "disconnected") ELSE v
      x == [w EXCEPT !.sock = Shut(@, w.vm.client), !.vm = [u EXCEPT !.tearing = TRUE]]
  IN IF v.session = Null
     THEN Finish(OnReconnectSuccess([x EXCEPT !.vm.tearing = FALSE]), f)
     ELSE Start(x, f, "cold", v.session, v.agent)

\* After loadSession, whether it succeeded or not
ColdDone(w, f) ==
  LET p == w.flow[f].prev
      x == [w EXCEPT !.vm.tearing = FALSE, !.agent = IF p # w.vm.agent THEN Doom(@, p) ELSE @]
  IN Finish(OnReconnectSuccess(x), f)

\* The catch of attach and loadSession
ConnectFailed(w, f) ==
  LET x == [w EXCEPT !.vm.error = TRUE, !.vm.surfaced = TRUE]
  IN IF w.flow[f].mode = "cold"
     THEN LET y == Cleanup(x, "all") IN ColdDone([y EXCEPT !.vm = SetStatus(@, "disconnected")], f)
     ELSE Cleanup([x EXCEPT !.vm = SetStatus(@, "error"), !.flow[f] = NoFlow], "nothing")

Freeze(v) == IF v.snapshot = "none" THEN [v EXCEPT !.snapshot = v.bubbles] ELSE v

WarmReconnect(w, f, a, n) ==
  [w EXCEPT
     !.vm = [SetStatus(DropClient(@), "connecting") EXCEPT
               !.detached = FALSE, !.surfaced = FALSE, !.transport = n],
     !.sock[n] = Dial(a, FALSE),
     !.flow[f] = [@ EXCEPT !.pc = "dialing", !.mode = "warm", !.sock = n, !.agent = a]]

WarmFailed(w, f) ==
  IF w.flow[f].kind = "live"
  THEN [w EXCEPT !.vm = [SetStatus(@, "error") EXCEPT !.error = TRUE], !.flow[f] = NoFlow]
  ELSE ColdReconnect(w, f)

\* findReusableAgent, up to its answer
FindReusable(w, f) ==
  IF w.vm.session = Null THEN ColdReconnect(w, f)
  ELSE [w EXCEPT !.flow[f] = [@ EXCEPT !.pc = "listing", !.sock = Null]]

\* closeAndWait, if there is a transport that is not closed yet
Closes(w) == w.vm.transport # Null /\ w.sock[w.vm.transport].st # "closed"

CloseAndWait(w, f) ==
  LET t == w.vm.transport
  IN [w EXCEPT !.sock = Shut(@, t), !.flow[f] = [@ EXCEPT !.pc = "draining", !.sock = t]]

(* Mutant: the display is frozen by a warm attempt only. *)
DoReconnectUnfrozen(w, f) ==
  IF w.vm.session = Null
  THEN Finish([w EXCEPT !.vm = [SetStatus(@, "disconnected") EXCEPT !.reconnecting = FALSE]], f)
  ELSE IF Closes(w) THEN CloseAndWait(w, f)
  ELSE FindReusable([w EXCEPT !.vm = IF @.transport # Null THEN DropClient(@) ELSE @], f)

DoReconnect(w, f) ==
  LET x == [w EXCEPT !.vm = Freeze(@)]
  IN IF w.vm.session = Null
     THEN Finish([w EXCEPT !.vm = [SetStatus(@, "disconnected") EXCEPT !.reconnecting = FALSE]], f)
     ELSE IF Closes(w) THEN CloseAndWait(x, f)
     ELSE FindReusable([x EXCEPT !.vm = IF @.transport # Null THEN DropClient(@) ELSE @], f)

\* The rest of attachToLiveAgent, once nothing is connected
AttachLive(w, f, n) ==
  LET x == [w EXCEPT !.vm = Freeze([@ EXCEPT !.session = w.flow[f].session])]
  IN WarmReconnect(x, f, w.flow[f].agent, n)

-----------------------------------------------------------------------------
(* What the continuations wait for *)

\* The promises a closed socket settles are continued before anything else.
Broken(f) ==
  /\ flow[f].pc \in {"draining", "dialing", "greeting", "asking"}
  /\ flow[f].sock # Null /\ sock[flow[f].sock].st = "closed"

PromptBroken == vm.prompt # Null /\ sock[vm.prompt].st = "closed"

Urgent == PromptBroken \/ \E f \in Flows : Broken(f)

Answers(f) ==
  /\ sock[flow[f].sock].st = "open"
  /\ agent[flow[f].agent].st = "live"

Use(bound) ==
  /\ used[bound] < CASE bound = "breaks" -> MaxBreaks [] bound = "refusals" -> MaxRefusals
                      [] OTHER -> MaxActs
  /\ used' = [used EXCEPT ![bound] = @ + 1]

Free == UNCHANGED used
RefusalIf(c) == IF c THEN Use("refusals") ELSE Free

-----------------------------------------------------------------------------
(* The steps of the flows *)

\* The backoff is over.  A loop whose session was left ends here.
Wake(f) ==
  /\ flow[f].pc = "sleeping" /\ ~Urgent
  /\ IF vm.detached
     THEN Become([World EXCEPT !.vm.reconnecting = FALSE, !.flow[f] = NoFlow])
     ELSE Become(DoReconnect(World, f))
  /\ Free

\* The old socket is closed, or closing it took longer than closeAndWait waits.
Drained(f) ==
  /\ flow[f].pc = "draining"
  /\ \/ Broken(f) /\ Free
     \/ ~Urgent /\ Use("refusals")
  /\ LET x == [World EXCEPT !.vm = DropClient(@)]
     IN IF flow[f].kind = "live"
        THEN FreeSockets # {} /\ Become(AttachLive(x, f, NextSocket))
        ELSE Become(FindReusable(x, f))

Reusable == {a \in Agents : agent[a].st = "live" /\ agent[a].session = vm.session}

\* listAgents answers.  The session it is matched with may be another by now.
Listed(f) ==
  /\ flow[f].pc = "listing" /\ ~Urgent
  /\ \/ /\ vm.session # Null /\ Reusable # {} /\ FreeSockets # {}
        /\ Free
        /\ Become(WarmReconnect(World, f, Min(Reusable), NextSocket))
     \/ /\ RefusalIf(vm.session # Null /\ Reusable # {})
        /\ Become(ColdReconnect(World, f))

\* createAgent answers, or fails; out of agents (a bound), it fails.
Created(f) ==
  /\ flow[f].pc = "creating" /\ ~Urgent
  /\ \/ /\ FreeAgents # {} /\ FreeSockets # {} /\ Free
        /\ LET a == NextAgent
               n == NextSocket
           IN Become([World EXCEPT
                !.agent[a].st = "live", !.sock[n] = Dial(a, TRUE),
                !.vm = [@ EXCEPT !.agent = a, !.transport = n],
                !.flow[f] = [@ EXCEPT !.pc = "dialing", !.sock = n, !.agent = a]])
     \/ /\ RefusalIf(FreeAgents # {} /\ FreeSockets # {})
        /\ Become(ConnectFailed(World, f))

\* The backend takes the socket: the owner before it is told, and a socket to
\* an agent that is gone, or held by a session host in creation, is closed.
Accept(w, s, held) ==
  LET a == w.sock[s].agent
      told == [n \in Sockets |->
        IF n # s /\ w.sock[n].agent = a /\ w.sock[n].st = "open"
        THEN [w.sock[n] EXCEPT !.st = "closing", !.code = "taken"] ELSE w.sock[n]]
      end == IF held THEN "held" ELSE "lost"
  IN [w EXCEPT !.sock =
        [told EXCEPT ![s] =
           IF w.agent[a].st = "live" /\ ~held THEN [w.sock[s] EXCEPT !.st = "open"]
           ELSE [w.sock[s] EXCEPT !.st = "closing", !.code = end]]]

\* waitForOpen returns
Opened(f) ==
  /\ flow[f].pc = "dialing" /\ ~Urgent
  /\ LET s == flow[f].sock
     IN /\ sock[s].st = "dialing"
        /\ \E held \in BOOLEAN :
           /\ (held => agent[sock[s].agent].st = "live") /\ RefusalIf(held)
           /\ LET w == Accept(World, s, held)
              IN IF flow[f].mode = "warm"
                 THEN Become([w EXCEPT
                        !.sock[s].heard = TRUE,
                        !.vm = [@ EXCEPT !.agent = flow[f].agent, !.client = s, !.bubbles = "blank"],
                        !.flow[f] = [@ EXCEPT !.pc = "asking", !.session = vm.session]])
                 ELSE Become([w EXCEPT !.flow[f].pc = "greeting"])

\* waitForOpen throws: the network fails, or somebody closed the socket.
OpenFails(f) ==
  /\ flow[f].pc = "dialing"
  /\ LET s == flow[f].sock
         w == [World EXCEPT !.sock[s] =
                 IF @.st = "dialing" THEN [@ EXCEPT !.st = "closing", !.code = "lost"] ELSE @]
     IN /\ (sock[s].st = "dialing" => ~Urgent) /\ RefusalIf(sock[s].st = "dialing")
        /\ Become(IF flow[f].mode = "warm" THEN WarmFailed(w, f) ELSE ConnectFailed(w, f))

\* createAcpClient: initialize is answered
Greeted(f) ==
  /\ flow[f].pc = "greeting" /\ ~Urgent /\ Answers(f)
  /\ Become([World EXCEPT !.vm.client = flow[f].sock, !.flow[f].pc = "asking"])
  /\ Free

\* initialize is refused, or times out; createAcpClient closes the transport.
GreetFails(f) ==
  /\ flow[f].pc = "greeting"
  /\ (Broken(f) \/ ~Urgent) /\ RefusalIf(~Broken(f) /\ Answers(f))
  /\ Become(ConnectFailed([World EXCEPT !.sock = Shut(@, flow[f].sock)], f))

FreshSessions ==
  LET unused == Sessions \ ({vm.session} \union {agent[a].session : a \in Agents})
  IN IF unused = {} THEN {} ELSE {Min(unused)}

\* The sessions an answer may be about; there is none if a load names no session.
Answer(f) ==
  IF flow[f].mode \in {"attach", "new"} THEN FreshSessions ELSE {flow[f].session} \ {Null}

\* session/new or session/load is answered: the replay is over, its history on
\* screen.  A warm reconnect reads the session again to tell the backend.
Asked(f) ==
  /\ flow[f].pc = "asking" /\ ~Urgent /\ Answers(f)
  /\ \E s \in Answer(f) :
       LET about == IF flow[f].mode = "warm" THEN vm.session ELSE s
           whose == IF flow[f].mode \in {"switch", "new"} THEN vm.agent ELSE flow[f].agent
       IN Become([World EXCEPT
            !.vm = [@ EXCEPT !.bubbles = "whole", !.session = about],
            !.flow[f] = [@ EXCEPT !.pc = "telling", !.session = about, !.agent = whose]])
  /\ Free

\* The agent refuses, or the socket is closed under the request.
AskFails(f) ==
  /\ flow[f].pc = "asking"
  /\ Broken(f) \/ (~Urgent /\ Answers(f))
  /\ RefusalIf(~Broken(f) /\ Answer(f) # {})
  /\ Become(IF flow[f].mode = "warm"
            THEN WarmFailed([World EXCEPT !.vm = DropClient(@), !.sock = Shut(@, flow[f].sock)], f)
            ELSE IF flow[f].mode \in {"switch", "new"}
            THEN [World EXCEPT !.vm = [SetStatus(@, "error") EXCEPT !.error = TRUE], !.flow[f] = NoFlow]
            ELSE ConnectFailed(World, f))

\* notifySessionAttached has ended, one way or the other.
Told(f) ==
  /\ flow[f].pc = "telling" /\ ~Urgent
  /\ \E lost \in BOOLEAN :
     /\ RefusalIf(lost)
     /\ LET a == flow[f].agent
            w == [World EXCEPT
                    !.vm = SetStatus(@, "connected"),
                    !.agent = IF lost \/ a = Null \/ flow[f].session = Null \/ @[a].st # "live" THEN @
                              ELSE [@ EXCEPT ![a].session = flow[f].session]]
        IN Become(IF flow[f].mode = "cold" THEN ColdDone(w, f)
                  ELSE IF flow[f].kind \in {"loop", "manual"} THEN Finish(OnReconnectSuccess(w), f)
                  ELSE [w EXCEPT !.flow[f] = NoFlow])

\* handleUnexpectedClose, from the answer of getAgent on.  hidden: the page is
\* in the background just then.
LostConnection(w, f, crashed, hidden) ==
  LET x == [w EXCEPT !.vm.error = crashed]
  IN IF hidden
     THEN [x EXCEPT !.vm = SetStatus(@, "disconnected"), !.flow[f] = NoFlow]
     ELSE ScheduleReconnect(x, f)

Inquired(f) ==
  /\ flow[f].pc = "inquiring" /\ ~Urgent
  /\ LET known == agent[flow[f].agent].st = "crashed"
     IN \E crashed \in {known, FALSE}, hidden \in BOOLEAN :
          /\ RefusalIf(crashed # known)
          /\ Become(LostConnection(World, f, crashed, hidden))

Step(f) ==
  \/ Wake(f) \/ Drained(f) \/ Listed(f) \/ Created(f) \/ Opened(f) \/ OpenFails(f)
  \/ Greeted(f) \/ GreetFails(f) \/ Asked(f) \/ AskFails(f) \/ Told(f) \/ Inquired(f)

-----------------------------------------------------------------------------
(* Close events *)

HandleUnexpectedClose(w, f, code, hidden) ==
  IF w.vm.surfaced /\ w.vm.error THEN w
  ELSE IF code \in {"taken", "held"}
  THEN [w EXCEPT !.vm = [SetStatus(@, "disconnected") EXCEPT !.error = TRUE]]
  ELSE IF w.vm.agent = Null THEN LostConnection(w, f, FALSE, hidden)
  ELSE [w EXCEPT !.flow[f] =
          [NoFlow EXCEPT !.kind = "closed", !.pc = "inquiring", !.agent = w.vm.agent]]

CloseEvent(s) ==
  /\ sock[s].st = "closing" /\ ~Urgent
  /\ LET w == [World EXCEPT !.sock[s].st = "closed"]
     IN IF sock[s].heard /\ sock[s].code # "released" /\ ~vm.detached /\ ~vm.tearing
        THEN /\ FreeFlows # {}
             /\ \E hidden \in BOOLEAN : Become(HandleUnexpectedClose(w, NextFlow, sock[s].code, hidden))
        ELSE Become(w)
  /\ Free

PromptRejected ==
  /\ PromptBroken
  /\ Become([World EXCEPT !.vm = [SetStatus(@, "error") EXCEPT !.error = TRUE, !.prompt = Null]])
  /\ Free

Events == PromptRejected \/ \E s \in Sockets : CloseEvent(s)

-----------------------------------------------------------------------------
(* The backend, the agents and the network *)

Breaks(s, code) == [World EXCEPT !.sock[s] = [@ EXCEPT !.st = "closing", !.code = code]]

\* The network drops the socket, another client takes the agent, or somebody
\* releases the connection (1000, which onClose passes over).
Drop(s) ==
  /\ sock[s].st = "open" /\ ~Urgent /\ Use("breaks")
  /\ \E code \in {"lost", "taken", "released"} : Become(Breaks(s, code))

Crash(a) ==
  /\ agent[a].st = "live" /\ ~Urgent /\ Use("breaks")
  /\ Become([World EXCEPT
       !.agent[a] = [@ EXCEPT !.st = "crashed", !.session = Null],
       !.sock = [s \in Sockets |-> IF @[s].agent = a /\ @[s].st = "open"
                                   THEN [@[s] EXCEPT !.st = "closing", !.code = "lost"] ELSE @[s]]])

\* A DELETE arrives.  It tells no socket (delivery/ws-agent.ts: not a crash).
Deleted(a) ==
  /\ agent[a].doomed /\ ~Urgent
  /\ Become([World EXCEPT !.agent[a] = [NoAgent EXCEPT !.st = "gone"]])
  /\ Free

PromptAnswered ==
  /\ vm.prompt # Null /\ sock[vm.prompt].st = "open" /\ ~Urgent
  /\ \E refused \in BOOLEAN :
     /\ RefusalIf(refused)
     /\ Become([World EXCEPT !.vm =
          IF refused THEN [SetStatus(@, "error") EXCEPT !.error = TRUE, !.prompt = Null]
          ELSE [@ EXCEPT !.prompt = Null]])

\* An agent asks for a permission, at any time, over any socket it has been
\* greeted on: in a turn, which the tab may know nothing of, or while it loads a
\* session.  An earlier question is cancelled.
Permission ==
  /\ ~Urgent
  /\ \E s \in Sockets :
     /\ sock[s].st = "open" /\ agent[sock[s].agent].st = "live"
     /\ \A f \in Flows : flow[f].pc = "greeting" => flow[f].sock # s
     /\ Become([World EXCEPT !.vm.pending = IF s = vm.client THEN "own" ELSE "stray"])
  /\ Free

-----------------------------------------------------------------------------
(* The user.  While connecting, a modal covers the page (LoadingModal). *)

Act ==
  /\ vm.status # "connecting" /\ ~Urgent
  /\ Use("acts")

Begin(kind) == [World EXCEPT !.flow[NextFlow] = [NoFlow EXCEPT !.kind = kind]]

Attach ==
  /\ Act /\ vm.status # "connected" /\ FreeFlows # {}
  /\ Become(Start(Begin("attach"), NextFlow, "attach", Null, Null))

\* A session is picked, or a new one asked for, beside a running one.
SwitchSession ==
  /\ Act /\ FreeFlows # {}
  /\ \E mode \in {"switch", "new"}, s \in Sessions :
     /\ mode = "new" => s = vm.session
     /\ IF vm.client = Null
        THEN /\ vm.status # "connected"
             /\ Become(IF mode = "switch" THEN Start(Begin("attach"), NextFlow, "load", s, Null)
                       ELSE Start(Begin("attach"), NextFlow, "attach", Null, Null))
        ELSE /\ vm.status = "connected"
             /\ Become([Begin("switch") EXCEPT
                  !.vm = [SetStatus(@, "connecting") EXCEPT
                            !.error = FALSE, !.surfaced = FALSE, !.bubbles = "blank"],
                  !.flow[NextFlow] = [@ EXCEPT !.pc = "asking", !.mode = mode, !.session = s,
                                               !.sock = vm.client,
                                               !.agent = sock[vm.client].agent]])

\* The button is there when disconnected.
Reconnect ==
  /\ Act /\ vm.status = "disconnected" /\ vm.session # Null /\ FreeFlows # {}
  /\ LET w == ClearReconnectTimer(Begin("manual"))
     IN Become(DoReconnect([w EXCEPT !.vm = [@ EXCEPT !.reconnecting = FALSE, !.attempt = 0]], NextFlow))

\* An agent is picked from the list of running ones; by the time it is dialed
\* it may be gone.
AttachToLiveAgent ==
  /\ Act /\ FreeFlows # {} /\ FreeSockets # {}
  /\ \E a \in Agents :
     /\ agent[a].st = "live" /\ agent[a].session # Null
     /\ LET b == Begin("live")
            w == [b EXCEPT !.vm = [@ EXCEPT !.error = FALSE, !.surfaced = FALSE],
                           !.flow[NextFlow] = [@ EXCEPT !.agent = a, !.session = agent[a].session]]
        IN Become(IF Closes(w) THEN CloseAndWait(w, NextFlow)
                  ELSE AttachLive(w, NextFlow, NextSocket))

\* detach ends the agent, leaveRunning does not.
Leave ==
  /\ Act /\ vm.status # "idle"
  /\ \E keep \in {"agent", "nothing"} :
       LET w == ClearReconnectTimer(World)
           x == Cleanup([w EXCEPT !.vm = [@ EXCEPT !.detached = TRUE, !.reconnecting = FALSE,
                                                   !.attempt = 0]], keep)
       IN Become([x EXCEPT !.vm = [SetStatus(@, "idle") EXCEPT !.error = FALSE, !.bubbles = "blank"]])

SendPrompt ==
  /\ Act /\ vm.status = "connected" /\ vm.client # Null /\ vm.session # Null /\ vm.prompt = Null
  /\ Become([World EXCEPT !.vm.prompt = vm.client])

AnswerPermission ==
  /\ vm.pending # "none" /\ ~Urgent
  /\ Become([World EXCEPT !.vm.pending = "none"]) /\ Free

-----------------------------------------------------------------------------
UserNext ==
  Attach \/ SwitchSession \/ Reconnect \/ AttachToLiveAgent \/ Leave \/ SendPrompt

SystemNext ==
  \/ (\E f \in Flows : Step(f)) \/ Events
  \/ \E s \in Sockets : Drop(s)
  \/ \E a \in Agents : Crash(a) \/ Deleted(a)
  \/ PromptAnswered \/ Permission \/ AnswerPermission

\* The page is new, and an agent may have been left running by an earlier
\* visit; or the page has attached already.
Connected(s, a, n) ==
  [NewVm EXCEPT !.status = "connected", !.agent = a, !.session = s,
                !.client = n, !.transport = n, !.bubbles = "whole"]

Init ==
  /\ \E s \in {Min(Sessions), Null}, attached \in BOOLEAN :
       LET a == Min(Agents)
           n == Min(Sockets)
       IN /\ attached => s # Null
          /\ agent = [b \in Agents |-> IF b = a /\ s # Null
                                       THEN [st |-> "live", session |-> s, doomed |-> FALSE]
                                       ELSE NoAgent]
          /\ vm = IF attached THEN Connected(s, a, n) ELSE NewVm
          /\ sock = [m \in Sockets |-> IF attached /\ m = n
                                       THEN [Dial(a, TRUE) EXCEPT !.st = "open"] ELSE NoSocket]
  /\ flow = [f \in Flows |-> NoFlow]
  /\ mixed = FALSE /\ used = [breaks |-> 0, refusals |-> 0, acts |-> 0]

Next == UserNext \/ SystemNext

Spec == Init /\ [][Next]_vars

-----------------------------------------------------------------------------
\* Every field of the view model, every socket, method and agent has its type.
TypeOK ==
  /\ vm.status \in Statuses /\ vm.bubbles \in View /\ vm.snapshot \in View \union {"none"}
  /\ vm.agent \in Agents \union {Null} /\ vm.session \in Sessions \union {Null}
  /\ {vm.client, vm.transport, vm.prompt} \subseteq Sockets \union {Null}
  /\ vm.attempt \in 0 .. MaxAttempts /\ vm.timer \in Flows \union {Null}
  /\ {vm.error, vm.surfaced, vm.detached, vm.tearing, vm.reconnecting, mixed} \subseteq BOOLEAN
  /\ vm.pending \in Pending
  /\ \A s \in Sockets : sock[s].st \in {"free", "dialing", "open", "closing", "closed"}
  /\ \A a \in Agents : agent[a].st \in {"none", "live", "crashed", "gone"}

\* Whatever blocks the tab has somebody who will clear it, however the methods
\* interleave: the modal of "connecting" an attempt under way, #reconnecting
\* (which turns every later close away) a loop, #tearingDown (which deafens
\* onClose) a cold reconnect, and a permission the tab's own client was asked for
\* a client (agent-session.svelte.ts, #resolvePendingPermission wherever #client
\* is reset: also in a warm attempt that fails after the question was put).
NothingIsStranded ==
  /\ vm.status = "connecting" => \E f \in Flows : flow[f].kind # "closed" /\ flow[f].mode # "none"
  /\ vm.reconnecting => \E f \in Flows : flow[f].kind = "loop"
  /\ vm.tearing => \E f \in Flows : flow[f].mode = "cold"
  /\ vm.pending = "own" => vm.client # Null

\* The display frozen for a reconnect is not left over a live session: when
\* connected with a snapshot, an attempt to reconnect is still running (the
\* release is in #setStatus, the freeze at the head of #doReconnect).
FrozenIsReleased ==
  vm.status = "connected" /\ vm.snapshot # "none" =>
    \E f \in Flows : flow[f].kind \in {"loop", "manual", "live"} /\ flow[f].pc # "sleeping"

\* A reconnect that nothing else interferes with never blanks the history on
\* screen, whether it goes warm, cold or from one to the other, succeeds or
\* fails (renderBubbles and the snapshot of #doReconnect).
HistoryKept == [][
  (/\ ~mixed /\ ~mixed' /\ vm.session # Null /\ vm'.session = vm.session
   /\ \E f \in Flows : flow[f].kind \in {"loop", "manual"}
   /\ Rendered(vm) = "whole")
  => Rendered(vm') = "whole"]_vars

\* Losing the agent to another client is terminal: a warm attempt whose socket
\* was closed for a takeover, or because a session host holds the agent, does
\* not go on to a cold one (the comments at #TAKEOVER_CLOSE_CODE and in
\* #warmReconnect: "not cold, there is no point in trying cold").
LostIsTerminal == [][
  \A f \in Flows :
    flow[f].mode = "warm" /\ Broken(f) /\ sock[flow[f].sock].code \in {"taken", "held"}
      => flow'[f].mode # "cold"]_vars
=============================================================================
