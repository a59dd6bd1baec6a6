------------------------- MODULE LocalSessionProofs -------------------------
(***************************************************************************)
(* Proofs about LocalSession, for any number of agents, sessions, sockets  *)
(* and flows and any bounds: type correctness, that what blocks the tab    *)
(* has somebody who clears it, that a frozen display is released, and that *)
(* a reconnect on its own keeps the history on screen.                     *)
(*                                                                         *)
(* The model's operators take a world w and return one, so each is typed   *)
(* first (the lemmas ...Typed), then shown to leave a world that is        *)
(* Settled (the lemmas ...Settles): every flow has the shape its kind and  *)
(* stage demand, and what the view waits for is carried by a flow.         *)
(* Settled alone does not say what a step may show.  For that, Outcome(w)  *)
(* lists what a step of a flow may come to and Turn(w) what any other step *)
(* may; the invariant Hist (without interference a retry is alone, has the *)
(* display frozen, and has replayed the history before it tells the agent) *)
(* follows from those two lists, and HistoryKept from Hist.                *)
(***************************************************************************)
EXTENDS LocalSession, FiniteSetTheorems, WellFoundedInduction, TLAPS

(* The types of the records a world is made of. *)
Kinds == {"none", "attach", "switch", "live", "loop", "manual", "closed"}

Pcs == {"none", "sleeping", "draining", "listing", "creating", "dialing",
        "greeting", "asking", "telling", "inquiring"}

Modes == {"none", "attach", "load", "switch", "new", "warm", "cold"}

VmRec == [
  status : Statuses, error : BOOLEAN, surfaced : BOOLEAN,
  agent : Agents \union {Null}, session : Sessions \union {Null},
  client : Sockets \union {Null}, transport : Sockets \union {Null},
  detached : BOOLEAN, tearing : BOOLEAN,
  reconnecting : BOOLEAN, attempt : 0 .. MaxAttempts, timer : Flows \union {Null},
  bubbles : View, snapshot : View \union {"none"},
  prompt : Sockets \union {Null}, pending : {"none", "own", "stray"}]

SockRec == [st : {"free", "dialing", "open", "closing", "closed"},
            agent : Agents \union {Null}, heard : BOOLEAN,
            code : {"none", "own", "taken", "held", "lost", "released"}]

FlowRec == [kind : Kinds, pc : Pcs, mode : Modes, sock : Sockets \union {Null},
            agent : Agents \union {Null}, prev : Agents \union {Null},
            session : Sessions \union {Null}]

AgentRec == [st : {"none", "live", "crashed", "gone"},
             session : Sessions \union {Null}, doomed : BOOLEAN]

WorldRec == [vm : VmRec, sock : [Sockets -> SockRec],
             flow : [Flows -> FlowRec], agent : [Agents -> AgentRec]]

-----------------------------------------------------------------------------
(* Types: every operator on a world returns a world. *)

LEMMA SetStatusTyped ==
  ASSUME NEW v \in VmRec, NEW s \in Statuses
  PROVE  SetStatus(v, s) \in VmRec
<1>1. [v EXCEPT !.status = s] \in VmRec
  BY DEF VmRec, Statuses
<1>2. \A y \in View \union {"none"} : [v EXCEPT !.status = s, !.snapshot = y] \in VmRec
  BY DEF VmRec, Statuses
<1>3. v.snapshot \in View \union {"none"}
  BY DEF VmRec
<1>4. "none" \in View \union {"none"}
  OBVIOUS
<1>q. QED
  BY <1>2, <1>3, <1>4 DEF SetStatus

LEMMA DropClientTyped ==
  ASSUME NEW v \in VmRec PROVE DropClient(v) \in VmRec
BY DEF DropClient, VmRec

LEMMA FreezeTyped ==
  ASSUME NEW v \in VmRec PROVE Freeze(v) \in VmRec
BY DEF Freeze, VmRec

LEMMA ShutTyped ==
  ASSUME NEW k \in [Sockets -> SockRec], NEW s PROVE Shut(k, s) \in [Sockets -> SockRec]
BY DEF Shut, SockRec

LEMMA DoomTyped ==
  ASSUME NEW g \in [Agents -> AgentRec], NEW a PROVE Doom(g, a) \in [Agents -> AgentRec]
BY DEF Doom, AgentRec

LEMMA NoFlowTyped == NoFlow \in FlowRec
BY DEF NoFlow, FlowRec, Kinds, Pcs, Modes

LEMMA WorldTyped ==
  ASSUME NEW w \in WorldRec
  PROVE  /\ w.vm \in VmRec /\ w.sock \in [Sockets -> SockRec]
         /\ w.flow \in [Flows -> FlowRec] /\ w.agent \in [Agents -> AgentRec]
BY DEF WorldRec

LEMMA VmSet == ASSUME NEW w \in WorldRec, NEW v \in VmRec PROVE [w EXCEPT !.vm = v] \in WorldRec
BY DEF WorldRec

LEMMA FlowSet ==
  ASSUME NEW w \in WorldRec, NEW f, NEW x \in FlowRec PROVE [w EXCEPT !.flow[f] = x] \in WorldRec
BY DEF WorldRec

LEMMA VmFlowSet ==
  ASSUME NEW w \in WorldRec, NEW v \in VmRec, NEW f, NEW x \in FlowRec
  PROVE  [w EXCEPT !.vm = v, !.flow[f] = x] \in WorldRec
BY DEF WorldRec

LEMMA CleanupTyped ==
  ASSUME NEW w \in WorldRec, NEW keep PROVE Cleanup(w, keep) \in WorldRec
<1>1. [DropClient(w.vm) EXCEPT !.session = Null, !.agent = Null] \in VmRec
  <2>1. DropClient(w.vm) \in VmRec
    BY DropClientTyped, WorldTyped
  <2>q. QED BY <2>1 DEF VmRec
<1>2. DropClient(w.vm) \in VmRec
  BY DropClientTyped, WorldTyped
<1>3. Shut(w.sock, w.vm.client) \in [Sockets -> SockRec]
  BY ShutTyped, WorldTyped
<1>4. Doom(w.agent, w.vm.agent) \in [Agents -> AgentRec]
  BY DoomTyped, WorldTyped
<1>q. QED
  BY <1>1, <1>2, <1>3, <1>4 DEF Cleanup, WorldRec

LEMMA AsleepTyped == [NoFlow EXCEPT !.kind = "loop", !.pc = "sleeping"] \in FlowRec
BY DEF NoFlow, FlowRec, Kinds, Pcs, Modes

LEMMA SleepTyped ==
  ASSUME NEW w \in WorldRec, NEW f \in Flows PROVE Sleep(w, f) \in WorldRec
<1>1. w.vm \in VmRec /\ w.vm.attempt \in 0 .. MaxAttempts
  BY WorldTyped DEF VmRec
<1>2. ASSUME w.vm.attempt < MaxAttempts
      PROVE  [w.vm EXCEPT !.attempt = w.vm.attempt + 1, !.timer = f] \in VmRec
  <2>1. w.vm.attempt + 1 \in 0 .. MaxAttempts
    BY <1>1, <1>2, LocalSessionAssumption
  <2>q. QED BY <1>1, <2>1 DEF VmRec
<1>3. [SetStatus(w.vm, "disconnected") EXCEPT !.reconnecting = FALSE] \in VmRec
  <2>1. SetStatus(w.vm, "disconnected") \in VmRec
    BY <1>1, SetStatusTyped DEF Statuses
  <2>q. QED BY <2>1 DEF VmRec
<1>q. QED
  BY <1>2, <1>3, AsleepTyped, NoFlowTyped DEF Sleep, WorldRec

LEMMA ScheduleReconnectTyped ==
  ASSUME NEW w \in WorldRec, NEW f \in Flows PROVE ScheduleReconnect(w, f) \in WorldRec
<1>1. PICK v : v = [SetStatus(w.vm, "disconnected") EXCEPT !.reconnecting = TRUE, !.attempt = 0]
  OBVIOUS
<1>2. v \in VmRec
  <2>1. SetStatus(w.vm, "disconnected") \in VmRec /\ 0 \in 0 .. MaxAttempts
    BY SetStatusTyped, WorldTyped, LocalSessionAssumption DEF Statuses
  <2>q. QED BY <1>1, <2>1 DEF VmRec
<1>3. [w EXCEPT !.vm = v] \in WorldRec
  BY <1>2 DEF WorldRec
<1>4. Sleep([w EXCEPT !.vm = v], f) \in WorldRec
  BY <1>3, SleepTyped
<1>5. [w EXCEPT !.flow[f] = NoFlow] \in WorldRec
  BY NoFlowTyped DEF WorldRec
<1>q. QED
  BY <1>1, <1>4, <1>5 DEF ScheduleReconnect

LEMMA ClearReconnectTimerTyped ==
  ASSUME NEW w \in WorldRec PROVE ClearReconnectTimer(w) \in WorldRec
<1>1. [w.vm EXCEPT !.timer = Null] \in VmRec
  <2>1. w.vm \in VmRec BY WorldTyped
  <2>q. QED BY <2>1 DEF VmRec
<1>q. QED
  BY <1>1, NoFlowTyped DEF ClearReconnectTimer, WorldRec

LEMMA OnReconnectSuccessTyped ==
  ASSUME NEW w \in WorldRec PROVE OnReconnectSuccess(w) \in WorldRec
<1>1. [w.vm EXCEPT !.attempt = 0, !.error = FALSE, !.surfaced = FALSE] \in VmRec
  <2>1. w.vm \in VmRec /\ 0 \in 0 .. MaxAttempts BY WorldTyped, LocalSessionAssumption
  <2>q. QED BY <2>1 DEF VmRec
<1>q. QED
  BY <1>1 DEF OnReconnectSuccess, WorldRec

LEMMA FinishTyped ==
  ASSUME NEW w \in WorldRec, NEW f \in Flows PROVE Finish(w, f) \in WorldRec
<1>1. PICK v : v = IF w.vm.status = "connected" THEN [w.vm EXCEPT !.attempt = 0] ELSE w.vm
  OBVIOUS
<1>2. v \in VmRec /\ [v EXCEPT !.reconnecting = FALSE] \in VmRec
  <2>1. w.vm \in VmRec /\ 0 \in 0 .. MaxAttempts BY WorldTyped, LocalSessionAssumption
  <2>2. v \in VmRec BY <1>1, <2>1, ZenonT(60) DEF VmRec
  <2>q. QED BY <2>2, ZenonT(60) DEF VmRec
<1>3. [w EXCEPT !.flow[f] = NoFlow] \in WorldRec
  BY NoFlowTyped DEF WorldRec
<1>4. [w EXCEPT !.vm = [v EXCEPT !.reconnecting = FALSE], !.flow[f] = NoFlow] \in WorldRec
  BY <1>2, NoFlowTyped DEF WorldRec
<1>q. QED
  BY <1>1, <1>3, <1>4, SleepTyped DEF Finish

LEMMA StartTyped ==
  ASSUME NEW w \in WorldRec, NEW f \in Flows, NEW mode \in Modes,
         NEW s \in Sessions \union {Null}, NEW prev \in Agents \union {Null}
  PROVE  Start(w, f, mode, s, prev) \in WorldRec
<1>1. PICK v : v = [SetStatus(w.vm, "connecting") EXCEPT
                      !.error = FALSE, !.surfaced = FALSE, !.bubbles = "blank", !.detached = FALSE]
  OBVIOUS
<1>2. v \in VmRec
  <2>1. SetStatus(w.vm, "connecting") \in VmRec
    BY SetStatusTyped, WorldTyped DEF Statuses
  <2>q. QED BY <1>1, <2>1 DEF VmRec, View
<1>3. PICK x : x = [w.flow[f] EXCEPT !.pc = "creating", !.mode = mode, !.sock = Null,
                                     !.session = s, !.prev = prev]
  OBVIOUS
<1>4. x \in FlowRec
  <2>1. w.flow[f] \in FlowRec BY WorldTyped
  <2>q. QED BY <1>3, <2>1 DEF FlowRec, Pcs
<1>5. Start(w, f, mode, s, prev) = [w EXCEPT !.vm = v, !.flow[f] = x]
  BY <1>1, <1>3 DEF Start
<1>6. [w EXCEPT !.vm = v, !.flow[f] = x] \in WorldRec
  BY <1>2, <1>4 DEF WorldRec
<1>q. QED
  BY <1>5, <1>6

LEMMA ColdReconnectTyped ==
  ASSUME NEW w \in WorldRec, NEW f \in Flows PROVE ColdReconnect(w, f) \in WorldRec
<1>1. PICK v : v = DropClient(w.vm)
  OBVIOUS
<1>2. PICK u : u = IF v.status \in {"connecting", "connected"} THEN SetStatus(v, "disconnected") ELSE v
  OBVIOUS
<1>3. v \in VmRec /\ u \in VmRec
  BY <1>1, <1>2, DropClientTyped, SetStatusTyped, WorldTyped DEF Statuses
<1>4. [u EXCEPT !.tearing = TRUE] \in VmRec
  <2>1. u \in VmRec BY <1>3
  <2>q. QED BY <2>1 DEF VmRec
<1>5. PICK x : x = [w EXCEPT !.sock = Shut(w.sock, w.vm.client), !.vm = [u EXCEPT !.tearing = TRUE]]
  OBVIOUS
<1>6. x \in WorldRec
  BY <1>4, <1>5, ShutTyped, WorldTyped DEF WorldRec
<1>7. [x EXCEPT !.vm.tearing = FALSE] \in WorldRec
  <2>1. [x.vm EXCEPT !.tearing = FALSE] \in VmRec
    <3>1. x.vm \in VmRec BY <1>6, WorldTyped
    <3>q. QED BY <3>1 DEF VmRec
  <2>q. QED BY <1>6, <2>1 DEF WorldRec
<1>8. v.session \in Sessions \union {Null} /\ v.agent \in Agents \union {Null}
  BY <1>3 DEF VmRec
<1>9. ColdReconnect(w, f) = IF v.session = Null
        THEN Finish(OnReconnectSuccess([x EXCEPT !.vm.tearing = FALSE]), f)
        ELSE Start(x, f, "cold", v.session, v.agent)
  BY <1>1, <1>2, <1>5 DEF ColdReconnect
<1>10. Finish(OnReconnectSuccess([x EXCEPT !.vm.tearing = FALSE]), f) \in WorldRec
  BY <1>7, OnReconnectSuccessTyped, FinishTyped
<1>11. Start(x, f, "cold", v.session, v.agent) \in WorldRec
  BY <1>6, <1>8, StartTyped DEF Modes
<1>q. QED
  BY <1>9, <1>10, <1>11

LEMMA ColdDoneTyped ==
  ASSUME NEW w \in WorldRec, NEW f \in Flows PROVE ColdDone(w, f) \in WorldRec
<1>1. PICK g : g = IF w.flow[f].prev # w.vm.agent THEN Doom(w.agent, w.flow[f].prev) ELSE w.agent
  OBVIOUS
<1>2. g \in [Agents -> AgentRec]
  BY <1>1, DoomTyped, WorldTyped
<1>3. PICK v : v = [w.vm EXCEPT !.tearing = FALSE]
  OBVIOUS
<1>4. v \in VmRec
  <2>1. w.vm \in VmRec BY WorldTyped
  <2>q. QED BY <1>3, <2>1 DEF VmRec
<1>5. PICK x : x = [w EXCEPT !.vm.tearing = FALSE, !.agent = g]
  OBVIOUS
<1>6. x \in WorldRec
  BY <1>2, <1>3, <1>4, <1>5 DEF WorldRec
<1>7. ColdDone(w, f) = Finish(OnReconnectSuccess(x), f)
  BY <1>1, <1>5 DEF ColdDone
<1>q. QED
  BY <1>6, <1>7, OnReconnectSuccessTyped, FinishTyped

LEMMA ConnectFailedTyped ==
  ASSUME NEW w \in WorldRec, NEW f \in Flows PROVE ConnectFailed(w, f) \in WorldRec
<1>1. PICK v : v = [w.vm EXCEPT !.error = TRUE, !.surfaced = TRUE]
  OBVIOUS
<1>2. v \in VmRec
  <2>1. w.vm \in VmRec BY WorldTyped
  <2>q. QED BY <1>1, <2>1 DEF VmRec
<1>3. PICK x : x = [w EXCEPT !.vm.error = TRUE, !.vm.surfaced = TRUE]
  OBVIOUS
<1>4. x \in WorldRec /\ x.vm = v
  BY <1>1, <1>2, <1>3 DEF WorldRec
<1>5. PICK y : y = Cleanup(x, "all")
  OBVIOUS
<1>6. y \in WorldRec
  BY <1>4, <1>5, CleanupTyped
<1>7. [y EXCEPT !.vm = SetStatus(y.vm, "disconnected")] \in WorldRec
  <2>1. SetStatus(y.vm, "disconnected") \in VmRec
    BY <1>6, WorldTyped, SetStatusTyped DEF Statuses
  <2>q. QED BY <1>6, <2>1 DEF WorldRec
<1>8. [x EXCEPT !.vm = SetStatus(x.vm, "error"), !.flow[f] = NoFlow] \in WorldRec
  <2>1. SetStatus(x.vm, "error") \in VmRec
    BY <1>4, WorldTyped, SetStatusTyped DEF Statuses
  <2>q. QED BY <1>4, <2>1, NoFlowTyped DEF WorldRec
<1>9. ConnectFailed(w, f) =
        IF w.flow[f].mode = "cold"
        THEN ColdDone([y EXCEPT !.vm = SetStatus(y.vm, "disconnected")], f)
        ELSE Cleanup([x EXCEPT !.vm = SetStatus(x.vm, "error"), !.flow[f] = NoFlow], "nothing")
  BY <1>3, <1>5 DEF ConnectFailed
<1>q. QED
  BY <1>7, <1>8, <1>9, ColdDoneTyped, CleanupTyped

LEMMA WarmReconnectTyped ==
  ASSUME NEW w \in WorldRec, NEW f \in Flows, NEW a \in Agents \union {Null}, NEW n \in Sockets
  PROVE  WarmReconnect(w, f, a, n) \in WorldRec
<1>1. PICK v : v = [SetStatus(DropClient(w.vm), "connecting") EXCEPT
                      !.detached = FALSE, !.surfaced = FALSE, !.transport = n]
  OBVIOUS
<1>2. v \in VmRec
  <2>1. SetStatus(DropClient(w.vm), "connecting") \in VmRec
    BY DropClientTyped, SetStatusTyped, WorldTyped DEF Statuses
  <2>q. QED BY <1>1, <2>1 DEF VmRec
<1>3. PICK x : x = [w.flow[f] EXCEPT !.pc = "dialing", !.mode = "warm", !.sock = n, !.agent = a]
  OBVIOUS
<1>4. x \in FlowRec
  <2>1. w.flow[f] \in FlowRec BY WorldTyped
  <2>q. QED BY <1>3, <2>1 DEF FlowRec, Pcs, Modes
<1>5. WarmReconnect(w, f, a, n) = [w EXCEPT !.vm = v, !.sock[n] = Dial(a, FALSE), !.flow[f] = x]
  BY <1>1, <1>3 DEF WarmReconnect
<1>6. Dial(a, FALSE) \in SockRec
  BY DEF Dial, SockRec
<1>7. [w EXCEPT !.vm = v, !.sock[n] = Dial(a, FALSE), !.flow[f] = x] \in WorldRec
  BY <1>2, <1>4, <1>6 DEF WorldRec
<1>q. QED
  BY <1>5, <1>7

LEMMA WarmFailedTyped ==
  ASSUME NEW w \in WorldRec, NEW f \in Flows PROVE WarmFailed(w, f) \in WorldRec
<1>1. PICK v : v = [SetStatus(w.vm, "error") EXCEPT !.error = TRUE]
  OBVIOUS
<1>2. v \in VmRec
  <2>1. SetStatus(w.vm, "error") \in VmRec
    BY SetStatusTyped, WorldTyped DEF Statuses
  <2>q. QED BY <1>1, <2>1 DEF VmRec
<1>3. [w EXCEPT !.vm = v, !.flow[f] = NoFlow] \in WorldRec
  BY <1>2, NoFlowTyped DEF WorldRec
<1>q. QED
  BY <1>1, <1>3, ColdReconnectTyped DEF WarmFailed

LEMMA FindReusableTyped ==
  ASSUME NEW w \in WorldRec, NEW f \in Flows PROVE FindReusable(w, f) \in WorldRec
<1>1. [w.flow[f] EXCEPT !.pc = "listing", !.sock = Null] \in FlowRec
  <2>1. w.flow[f] \in FlowRec BY WorldTyped
  <2>q. QED BY <2>1 DEF FlowRec, Pcs
<1>2. [w EXCEPT !.flow[f] = [w.flow[f] EXCEPT !.pc = "listing", !.sock = Null]] \in WorldRec
  BY <1>1 DEF WorldRec
<1>q. QED
  BY <1>2, ColdReconnectTyped DEF FindReusable

LEMMA CloseAndWaitTyped ==
  ASSUME NEW w \in WorldRec, NEW f \in Flows PROVE CloseAndWait(w, f) \in WorldRec
<1>1. [w.flow[f] EXCEPT !.pc = "draining", !.sock = w.vm.transport] \in FlowRec
  <2>1. w.flow[f] \in FlowRec /\ w.vm \in VmRec BY WorldTyped
  <2>2. w.vm.transport \in Sockets \union {Null} BY <2>1 DEF VmRec
  <2>q. QED BY <2>1, <2>2 DEF FlowRec, Pcs
<1>2. Shut(w.sock, w.vm.transport) \in [Sockets -> SockRec]
  BY ShutTyped, WorldTyped
<1>q. QED
  BY <1>1, <1>2 DEF CloseAndWait, WorldRec

LEMMA DoReconnectTyped ==
  ASSUME NEW w \in WorldRec, NEW f \in Flows PROVE DoReconnect(w, f) \in WorldRec
<1>1. PICK x : x = [w EXCEPT !.vm = Freeze(w.vm)]
  OBVIOUS
<1>2. x \in WorldRec
  BY <1>1, FreezeTyped, WorldTyped DEF WorldRec
<1>3. PICK v : v = [SetStatus(w.vm, "disconnected") EXCEPT !.reconnecting = FALSE]
  OBVIOUS
<1>4. v \in VmRec
  <2>1. SetStatus(w.vm, "disconnected") \in VmRec
    BY SetStatusTyped, WorldTyped DEF Statuses
  <2>q. QED BY <1>3, <2>1 DEF VmRec
<1>5. [w EXCEPT !.vm = v] \in WorldRec
  BY <1>4 DEF WorldRec
<1>6. PICK u : u = IF x.vm.transport # Null THEN DropClient(x.vm) ELSE x.vm
  OBVIOUS
<1>7. [x EXCEPT !.vm = u] \in WorldRec
  <2>1. u \in VmRec BY <1>2, <1>6, WorldTyped, DropClientTyped
  <2>q. QED BY <1>2, <2>1 DEF WorldRec
<1>8. DoReconnect(w, f) =
        IF w.vm.session = Null THEN Finish([w EXCEPT !.vm = v], f)
        ELSE IF Closes(w) THEN CloseAndWait(x, f) ELSE FindReusable([x EXCEPT !.vm = u], f)
  BY <1>1, <1>3, <1>6 DEF DoReconnect
<1>q. QED
  BY <1>2, <1>5, <1>7, <1>8, FinishTyped, CloseAndWaitTyped, FindReusableTyped

LEMMA AttachLiveTyped ==
  ASSUME NEW w \in WorldRec, NEW f \in Flows, NEW n \in Sockets
  PROVE  AttachLive(w, f, n) \in WorldRec
<1>1. PICK v : v = [w.vm EXCEPT !.session = w.flow[f].session]
  OBVIOUS
<1>2. w.flow[f].session \in Sessions \union {Null} /\ w.flow[f].agent \in Agents \union {Null}
  <2>1. w.flow[f] \in FlowRec BY WorldTyped
  <2>q. QED BY <2>1 DEF FlowRec
<1>3. v \in VmRec
  <2>1. w.vm \in VmRec BY WorldTyped
  <2>q. QED BY <1>1, <1>2, <2>1 DEF VmRec
<1>4. [w EXCEPT !.vm = Freeze(v)] \in WorldRec
  BY <1>3, FreezeTyped DEF WorldRec
<1>5. AttachLive(w, f, n) = WarmReconnect([w EXCEPT !.vm = Freeze(v)], f, w.flow[f].agent, n)
  BY <1>1 DEF AttachLive
<1>q. QED
  BY <1>2, <1>4, <1>5, WarmReconnectTyped

LEMMA LostConnectionTyped ==
  ASSUME NEW w \in WorldRec, NEW f \in Flows, NEW crashed \in BOOLEAN, NEW hidden
  PROVE  LostConnection(w, f, crashed, hidden) \in WorldRec
<1>1. PICK v : v = [w.vm EXCEPT !.error = crashed]
  OBVIOUS
<1>2. v \in VmRec
  <2>1. w.vm \in VmRec BY WorldTyped
  <2>q. QED BY <1>1, <2>1 DEF VmRec
<1>3. PICK x : x = [w EXCEPT !.vm.error = crashed]
  OBVIOUS
<1>4. x \in WorldRec /\ x.vm = v
  BY <1>1, <1>2, <1>3 DEF WorldRec
<1>5. [x EXCEPT !.vm = SetStatus(x.vm, "disconnected"), !.flow[f] = NoFlow] \in WorldRec
  <2>1. SetStatus(x.vm, "disconnected") \in VmRec
    BY <1>4, WorldTyped, SetStatusTyped DEF Statuses
  <2>q. QED BY <1>4, <2>1, NoFlowTyped DEF WorldRec
<1>q. QED
  BY <1>3, <1>4, <1>5, ScheduleReconnectTyped DEF LostConnection

LEMMA HandleUnexpectedCloseTyped ==
  ASSUME NEW w \in WorldRec, NEW f \in Flows, NEW code, NEW hidden
  PROVE  HandleUnexpectedClose(w, f, code, hidden) \in WorldRec
<1>1. PICK v : v = [SetStatus(w.vm, "disconnected") EXCEPT !.error = TRUE]
  OBVIOUS
<1>2. v \in VmRec
  <2>1. SetStatus(w.vm, "disconnected") \in VmRec
    BY SetStatusTyped, WorldTyped DEF Statuses
  <2>q. QED BY <1>1, <2>1 DEF VmRec
<1>3. [w EXCEPT !.vm = v] \in WorldRec
  BY <1>2 DEF WorldRec
<1>4. PICK x : x = [NoFlow EXCEPT !.kind = "closed", !.pc = "inquiring", !.agent = w.vm.agent]
  OBVIOUS
<1>5. x \in FlowRec
  <2>1. w.vm \in VmRec BY WorldTyped
  <2>2. w.vm.agent \in Agents \union {Null} BY <2>1 DEF VmRec
  <2>q. QED BY <1>4, <2>2 DEF NoFlow, FlowRec, Kinds, Pcs, Modes
<1>6. [w EXCEPT !.flow[f] = x] \in WorldRec
  BY <1>5 DEF WorldRec
<1>q. QED
  BY <1>1, <1>3, <1>4, <1>6, LostConnectionTyped DEF HandleUnexpectedClose

LEMMA AcceptTyped ==
  ASSUME NEW w \in WorldRec, NEW s, NEW held PROVE Accept(w, s, held) \in WorldRec
<1>1. PICK told : told = [n \in Sockets |->
        IF n # s /\ w.sock[n].agent = w.sock[s].agent /\ w.sock[n].st = "open"
        THEN [w.sock[n] EXCEPT !.st = "closing", !.code = "taken"] ELSE w.sock[n]]
  OBVIOUS
<1>2. told \in [Sockets -> SockRec]
  <2>1. w.sock \in [Sockets -> SockRec] BY WorldTyped
  <2>q. QED BY <1>1, <2>1 DEF SockRec
<1>3. PICK x : x = IF w.agent[w.sock[s].agent].st = "live" /\ ~held
                   THEN [w.sock[s] EXCEPT !.st = "open"]
                   ELSE [w.sock[s] EXCEPT !.st = "closing", !.code = IF held THEN "held" ELSE "lost"]
  OBVIOUS
<1>4. s \in Sockets => x \in SockRec
  <2>1. w.sock \in [Sockets -> SockRec] BY WorldTyped
  <2>q. QED BY <1>3, <2>1 DEF SockRec
<1>5. [told EXCEPT ![s] = x] \in [Sockets -> SockRec]
  BY <1>2, <1>4
<1>6. Accept(w, s, held) = [w EXCEPT !.sock = [told EXCEPT ![s] = x]]
  BY <1>1, <1>3 DEF Accept
<1>7. [w EXCEPT !.sock = [told EXCEPT ![s] = x]] \in WorldRec
  BY <1>5 DEF WorldRec
<1>q. QED
  BY <1>6, <1>7

(* Free sockets, flows and agents are taken least first. *)
LEMMA LeastNat ==
  ASSUME NEW T \in SUBSET Nat, T /= {}
  PROVE  \E x \in T : \A y \in T : x <= y
<1> DEFINE Below == {0 .. x : x \in T}
<1>1. Below \subseteq FiniteSubsetsOf(Nat) /\ Below # {}
  <2>1. ASSUME NEW x \in T PROVE 0 .. x \in FiniteSubsetsOf(Nat)
    BY FS_Interval, 0 .. x \subseteq Nat DEF FiniteSubsetsOf
  <2> QED
    BY <2>1
<1>2. PICK X \in Below : \A Y \in Below : <<Y, X>> \notin StrictSubsetOrdering(Nat)
  <2> HIDE DEF Below
  <2> QED
    BY <1>1, FS_StrictSubsetOrderingWellFounded, WFMin
<1>3. PICK x \in T : X = 0 .. x
  OBVIOUS
<1>4. ASSUME NEW y \in T, y < x PROVE FALSE
  <2>1. 0 .. y \subseteq X /\ x \in X /\ x \notin 0 .. y /\ X \subseteq Nat
    BY <1>3, <1>4
  <2> QED
    BY <1>2, <2>1 DEF StrictSubsetOrdering
<1> QED
  BY <1>4

LEMMA MinIs ==
  ASSUME NEW T \in SUBSET Nat, T # {} PROVE Min(T) \in T
  BY LeastNat DEF Min

LEMMA FreeAre ==
  /\ FreeSockets # {} => NextSocket \in Sockets /\ sock[NextSocket].st = "free"
  /\ FreeFlows # {}   => NextFlow \in Flows /\ flow[NextFlow].kind = "none"
  /\ FreeAgents # {}  => NextAgent \in Agents /\ agent[NextAgent].st = "none"
<1>1. FreeSockets \in SUBSET Nat /\ FreeFlows \in SUBSET Nat /\ FreeAgents \in SUBSET Nat
  BY LocalSessionAssumption DEF FreeSockets, FreeFlows, FreeAgents
<1>2. /\ FreeSockets # {} => NextSocket \in FreeSockets
      /\ FreeFlows # {} => NextFlow \in FreeFlows
      /\ FreeAgents # {} => NextAgent \in FreeAgents
  BY <1>1, MinIs DEF NextSocket, NextFlow, NextAgent
<1>q. QED
  BY <1>2 DEF FreeSockets, FreeFlows, FreeAgents

(* The invariant of the first layer: the variables form a world. *)
Typed == World \in WorldRec /\ mixed \in BOOLEAN

LEMMA WorldIs ==
  ASSUME Typed
  PROVE  /\ World.vm = vm /\ World.sock = sock /\ World.flow = flow /\ World.agent = agent
         /\ vm \in VmRec /\ sock \in [Sockets -> SockRec]
         /\ flow \in [Flows -> FlowRec] /\ agent \in [Agents -> AgentRec]
<1>1. World.vm = vm /\ World.sock = sock /\ World.flow = flow /\ World.agent = agent
  BY DEF World
<1>q. QED
  BY <1>1, WorldTyped DEF Typed

LEMMA BecomeTyped ==
  ASSUME NEW w \in WorldRec, Become(w) PROVE Typed'
<1>1. PICK t : t = IF w.vm.timer # Null /\ w.flow[w.vm.timer].pc # "sleeping" THEN Null ELSE w.vm.timer
  OBVIOUS
<1>2. PICK n : n = IF \E f \in Flows : w.flow[f].kind = "loop" THEN w.vm.attempt ELSE 0
  OBVIOUS
<1>3. vm' = [w.vm EXCEPT !.timer = t, !.attempt = n]
  BY <1>1, <1>2 DEF Become
<1>4. w.vm \in VmRec /\ 0 \in 0 .. MaxAttempts
  BY WorldTyped, LocalSessionAssumption
<1>5. t \in Flows \union {Null} /\ n \in 0 .. MaxAttempts
  BY <1>1, <1>2, <1>4 DEF VmRec
<1>6. vm' \in VmRec
  BY <1>3, <1>4, <1>5 DEF VmRec
<1>7. sock' \in [Sockets -> SockRec]
  <2>1. NoSocket \in SockRec /\ w.sock \in [Sockets -> SockRec]
    BY WorldTyped DEF NoSocket, SockRec
  <2>2. sock' = [s \in Sockets |-> IF Over(w, s) THEN NoSocket ELSE w.sock[s]]
    BY DEF Become
  <2>q. QED BY <2>1, <2>2
<1>8. flow' \in [Flows -> FlowRec] /\ agent' \in [Agents -> AgentRec]
  BY WorldTyped DEF Become
<1>9. mixed' \in BOOLEAN
  BY DEF Become
<1>q. QED
  BY <1>6, <1>7, <1>8, <1>9 DEF Typed, World, WorldRec

LEMMA InitTyped == Init => Typed
<1> SUFFICES ASSUME Init PROVE Typed
  OBVIOUS
<1>1. Min(Sessions) \in Sessions /\ Min(Agents) \in Agents /\ Min(Sockets) \in Sockets
  BY MinIs, LocalSessionAssumption
<1>2. PICK s \in {Min(Sessions), Null}, attached \in BOOLEAN :
        /\ agent = [b \in Agents |-> IF b = Min(Agents) /\ s # Null
                                     THEN [st |-> "live", session |-> s, doomed |-> FALSE]
                                     ELSE NoAgent]
        /\ vm = IF attached THEN Connected(s, Min(Agents), Min(Sockets)) ELSE NewVm
        /\ sock = [m \in Sockets |-> IF attached /\ m = Min(Sockets)
                                     THEN [Dial(Min(Agents), TRUE) EXCEPT !.st = "open"] ELSE NoSocket]
  BY DEF Init
<1>3. NewVm \in VmRec
  <2>1. 0 \in 0 .. MaxAttempts BY LocalSessionAssumption
  <2>q. QED BY <2>1 DEF NewVm, VmRec, Statuses, View
<1>4. Connected(s, Min(Agents), Min(Sockets)) \in VmRec
  BY <1>1, <1>2, <1>3 DEF Connected, VmRec, Statuses, View
<1>5. vm \in VmRec
  BY <1>2, <1>3, <1>4
<1>6. sock \in [Sockets -> SockRec]
  <2>1. NoSocket \in SockRec BY DEF NoSocket, SockRec
  <2>2. [Dial(Min(Agents), TRUE) EXCEPT !.st = "open"] \in SockRec BY <1>1 DEF Dial, SockRec
  <2>q. QED BY <1>2, <2>1, <2>2
<1>7. agent \in [Agents -> AgentRec]
  <2>1. NoAgent \in AgentRec BY DEF NoAgent, AgentRec
  <2>2. s # Null => [st |-> "live", session |-> s, doomed |-> FALSE] \in AgentRec
    BY <1>1, <1>2 DEF AgentRec
  <2>q. QED BY <1>2, <2>1, <2>2
<1>8. flow \in [Flows -> FlowRec] /\ mixed \in BOOLEAN
  BY NoFlowTyped DEF Init
<1>q. QED
  BY <1>5, <1>6, <1>7, <1>8 DEF Typed, World, WorldRec

LEMMA FlowIs ==
  ASSUME Typed, NEW f \in Flows
  PROVE  /\ flow[f] \in FlowRec /\ flow[f].kind \in Kinds /\ flow[f].pc \in Pcs
         /\ flow[f].mode \in Modes
         /\ flow[f].sock \in Sockets \union {Null} /\ flow[f].agent \in Agents \union {Null}
         /\ flow[f].session \in Sessions \union {Null}
<1>1. flow[f] \in FlowRec
  BY WorldIs
<1>q. QED
  BY <1>1 DEF FlowRec

LEMMA VmIs ==
  ASSUME Typed
  PROVE  /\ vm \in VmRec /\ vm.status \in Statuses
         /\ vm.agent \in Agents \union {Null} /\ vm.session \in Sessions \union {Null}
         /\ vm.client \in Sockets \union {Null} /\ vm.transport \in Sockets \union {Null}
         /\ vm.snapshot \in View \union {"none"} /\ vm.bubbles \in View
         /\ vm.timer \in Flows \union {Null}
<1>1. vm \in VmRec
  BY WorldIs
<1>q. QED
  BY <1>1 DEF VmRec

LEMMA WakeTyped == ASSUME Typed, NEW f \in Flows, Wake(f) PROVE Typed'
<1>1. [vm EXCEPT !.reconnecting = FALSE] \in VmRec
  <2>1. vm \in VmRec BY VmIs
  <2>q. QED BY <2>1 DEF VmRec
<1>2. [World EXCEPT !.vm.reconnecting = FALSE, !.flow[f] = NoFlow] \in WorldRec
  BY <1>1, WorldIs, NoFlowTyped DEF WorldRec, Typed
<1>3. DoReconnect(World, f) \in WorldRec
  BY DoReconnectTyped DEF Typed
<1>4. \E w \in WorldRec : Become(w)
  BY <1>2, <1>3 DEF Wake
<1>q. QED
  BY <1>4, BecomeTyped

LEMMA DrainedTyped == ASSUME Typed, NEW f \in Flows, Drained(f) PROVE Typed'
<1>1. PICK x : x = [World EXCEPT !.vm = DropClient(vm)]
  OBVIOUS
<1>2. x \in WorldRec
  BY <1>1, VmIs, DropClientTyped DEF WorldRec, Typed
<1>3. \/ FreeSockets # {} /\ Become(AttachLive(x, f, NextSocket))
      \/ Become(FindReusable(x, f))
  BY <1>1, WorldIs DEF Drained
<1>q. QED
  BY <1>2, <1>3, FreeAre, AttachLiveTyped, FindReusableTyped, BecomeTyped

LEMMA ListedTyped == ASSUME Typed, NEW f \in Flows, Listed(f) PROVE Typed'
<1>1. Reusable # {} => Min(Reusable) \in Agents
  <2>1. Reusable \in SUBSET Nat /\ Reusable \subseteq Agents
    BY LocalSessionAssumption DEF Reusable
  <2>q. QED BY <2>1, MinIs
<1>2. \/ Reusable # {} /\ FreeSockets # {} /\ Become(WarmReconnect(World, f, Min(Reusable), NextSocket))
      \/ Become(ColdReconnect(World, f))
  BY DEF Listed
<1>q. QED
  BY <1>1, <1>2, FreeAre, WarmReconnectTyped, ColdReconnectTyped, BecomeTyped DEF Typed

LEMMA CreatedTyped == ASSUME Typed, NEW f \in Flows, Created(f) PROVE Typed'
<1>1. CASE FreeAgents # {} /\ FreeSockets # {} /\ ~Become(ConnectFailed(World, f))
  <2>1. PICK a \in Agents, n \in Sockets : a = NextAgent /\ n = NextSocket
    BY <1>1, FreeAre
  <2>2. PICK v : v = [vm EXCEPT !.agent = a, !.transport = n]
    OBVIOUS
  <2>3. v \in VmRec
    <3>1. vm \in VmRec BY VmIs
    <3>q. QED BY <2>2, <3>1 DEF VmRec
  <2>4. PICK x : x = [flow[f] EXCEPT !.pc = "dialing", !.sock = n, !.agent = a]
    OBVIOUS
  <2>5. x \in FlowRec
    <3>1. flow[f] \in FlowRec BY FlowIs
    <3>q. QED BY <2>4, <3>1 DEF FlowRec, Pcs
  <2>6. [agent[a] EXCEPT !.st = "live"] \in AgentRec /\ Dial(a, TRUE) \in SockRec
    <3>1. agent[a] \in AgentRec BY WorldIs
    <3>q. QED BY <3>1 DEF AgentRec, Dial, SockRec
  <2>7. PICK g : g = [agent[a] EXCEPT !.st = "live"]
    OBVIOUS
  <2>8. Become([World EXCEPT !.agent[a] = g, !.sock[n] = Dial(a, TRUE), !.vm = v, !.flow[f] = x])
    BY <1>1, <2>1, <2>2, <2>4, <2>7, WorldIs DEF Created
  <2>9. [World EXCEPT !.agent[a] = g, !.sock[n] = Dial(a, TRUE), !.vm = v, !.flow[f] = x] \in WorldRec
    BY <2>3, <2>5, <2>6, <2>7 DEF WorldRec, Typed
  <2>q. QED BY <2>8, <2>9, BecomeTyped
<1>2. CASE Become(ConnectFailed(World, f))
  BY <1>2, ConnectFailedTyped, BecomeTyped DEF Typed
<1>q. QED
  BY <1>1, <1>2 DEF Created

LEMMA OpenedTyped == ASSUME Typed, NEW f \in Flows, Opened(f) PROVE Typed'
<1>1. PICK s : s = flow[f].sock
  OBVIOUS
<1>2. s \in Sockets \union {Null}
  BY <1>1, FlowIs
<1>3. PICK held \in BOOLEAN :
        LET w == Accept(World, s, held)
        IN IF flow[f].mode = "warm"
           THEN Become([w EXCEPT
                  !.sock[s].heard = TRUE,
                  !.vm = [@ EXCEPT !.agent = flow[f].agent, !.client = s, !.bubbles = "blank"],
                  !.flow[f] = [@ EXCEPT !.pc = "asking", !.session = vm.session]])
           ELSE Become([w EXCEPT !.flow[f].pc = "greeting"])
  BY <1>1 DEF Opened
<1>4. PICK w : w = Accept(World, s, held)
  OBVIOUS
<1>5. w \in WorldRec /\ w.vm = vm /\ w.flow = flow
  BY <1>4, AcceptTyped DEF Typed, Accept, World
<1>6. PICK v : v = [vm EXCEPT !.agent = flow[f].agent, !.client = s, !.bubbles = "blank"]
  OBVIOUS
<1>7. v \in VmRec
  <2>1. vm \in VmRec /\ flow[f].agent \in Agents \union {Null} BY VmIs, FlowIs
  <2>q. QED BY <1>2, <1>6, <2>1 DEF VmRec, View
<1>8. PICK x : x = [flow[f] EXCEPT !.pc = "asking", !.session = vm.session]
  OBVIOUS
<1>9. x \in FlowRec /\ [flow[f] EXCEPT !.pc = "greeting"] \in FlowRec
  <2>1. flow[f] \in FlowRec /\ vm.session \in Sessions \union {Null} BY VmIs, FlowIs
  <2>q. QED BY <1>8, <2>1 DEF FlowRec, Pcs
<1>10. PICK k : k = [w.sock[s] EXCEPT !.heard = TRUE]
  OBVIOUS
<1>11. s \in Sockets => k \in SockRec
  <2>1. w.sock \in [Sockets -> SockRec] BY <1>5, WorldTyped
  <2>q. QED BY <1>10, <2>1 DEF SockRec
<1>12. [w EXCEPT !.sock[s] = k, !.vm = v, !.flow[f] = x] \in WorldRec
  BY <1>5, <1>7, <1>9, <1>11 DEF WorldRec
<1>13. [w EXCEPT !.flow[f] = [flow[f] EXCEPT !.pc = "greeting"]] \in WorldRec
  BY <1>5, <1>9 DEF WorldRec
<1>14. \/ Become([w EXCEPT !.sock[s] = k, !.vm = v, !.flow[f] = x])
       \/ Become([w EXCEPT !.flow[f] = [flow[f] EXCEPT !.pc = "greeting"]])
  BY <1>3, <1>4, <1>5, <1>6, <1>8, <1>10
<1>q. QED
  BY <1>12, <1>13, <1>14, BecomeTyped

LEMMA OpenFailsTyped == ASSUME Typed, NEW f \in Flows, OpenFails(f) PROVE Typed'
<1>1. PICK s : s = flow[f].sock
  OBVIOUS
<1>2. PICK k : k = IF sock[s].st = "dialing" THEN [sock[s] EXCEPT !.st = "closing", !.code = "lost"]
                   ELSE sock[s]
  OBVIOUS
<1>3. s \in Sockets => k \in SockRec
  <2>1. s \in Sockets => sock[s] \in SockRec BY WorldIs
  <2>q. QED BY <1>2, <2>1 DEF SockRec
<1>4. PICK w : w = [World EXCEPT !.sock[s] = k]
  OBVIOUS
<1>5. w \in WorldRec
  BY <1>3, <1>4, WorldIs DEF WorldRec, Typed
<1>6. Become(IF flow[f].mode = "warm" THEN WarmFailed(w, f) ELSE ConnectFailed(w, f))
  BY <1>1, <1>2, <1>4, WorldIs DEF OpenFails
<1>q. QED
  BY <1>5, <1>6, WarmFailedTyped, ConnectFailedTyped, BecomeTyped

LEMMA GreetedTyped == ASSUME Typed, NEW f \in Flows, Greeted(f) PROVE Typed'
<1>1. PICK v : v = [vm EXCEPT !.client = flow[f].sock]
  OBVIOUS
<1>2. v \in VmRec
  <2>1. vm \in VmRec /\ flow[f].sock \in Sockets \union {Null} BY VmIs, FlowIs
  <2>q. QED BY <1>1, <2>1 DEF VmRec
<1>3. PICK x : x = [flow[f] EXCEPT !.pc = "asking"]
  OBVIOUS
<1>4. x \in FlowRec
  <2>1. flow[f] \in FlowRec BY FlowIs
  <2>q. QED BY <1>3, <2>1 DEF FlowRec, Pcs
<1>5. [World EXCEPT !.vm = v, !.flow[f] = x] \in WorldRec
  BY <1>2, <1>4 DEF WorldRec, Typed
<1>6. Become([World EXCEPT !.vm = v, !.flow[f] = x])
  BY <1>1, <1>3, WorldIs DEF Greeted
<1>q. QED
  BY <1>5, <1>6, BecomeTyped

LEMMA GreetFailsTyped == ASSUME Typed, NEW f \in Flows, GreetFails(f) PROVE Typed'
<1>1. [World EXCEPT !.sock = Shut(sock, flow[f].sock)] \in WorldRec
  BY WorldIs, ShutTyped DEF WorldRec, Typed
<1>2. Become(ConnectFailed([World EXCEPT !.sock = Shut(sock, flow[f].sock)], f))
  BY WorldIs DEF GreetFails
<1>q. QED
  BY <1>1, <1>2, ConnectFailedTyped, BecomeTyped

LEMMA AnswerIs ==
  ASSUME Typed, NEW f \in Flows, NEW s \in Answer(f) PROVE s \in Sessions
<1>1. PICK u : u = Sessions \ ({vm.session} \union {agent[a].session : a \in Agents})
  OBVIOUS
<1>2. u # {} => Min(u) \in u
  BY <1>1, MinIs, LocalSessionAssumption
<1>3. FreshSessions = IF u = {} THEN {} ELSE {Min(u)}
  BY <1>1 DEF FreshSessions
<1>4. flow[f].session \in Sessions \union {Null}
  BY FlowIs
<1>q. QED
  BY <1>1, <1>2, <1>3, <1>4 DEF Answer

LEMMA AskedTyped == ASSUME Typed, NEW f \in Flows, Asked(f) PROVE Typed'
<1>1. PICK s \in Answer(f) :
        LET about == IF flow[f].mode = "warm" THEN vm.session ELSE s
            whose == IF flow[f].mode \in {"switch", "new"} THEN vm.agent ELSE flow[f].agent
        IN Become([World EXCEPT
             !.vm = [@ EXCEPT !.bubbles = "whole", !.session = about],
             !.flow[f] = [@ EXCEPT !.pc = "telling", !.session = about, !.agent = whose]])
  BY DEF Asked
<1>2. PICK about : about = IF flow[f].mode = "warm" THEN vm.session ELSE s
  OBVIOUS
<1>3. PICK whose : whose = IF flow[f].mode \in {"switch", "new"} THEN vm.agent ELSE flow[f].agent
  OBVIOUS
<1>4. about \in Sessions \union {Null} /\ whose \in Agents \union {Null}
  BY <1>2, <1>3, AnswerIs, VmIs, FlowIs
<1>5. PICK v : v = [vm EXCEPT !.bubbles = "whole", !.session = about]
  OBVIOUS
<1>6. v \in VmRec
  <2>1. vm \in VmRec BY VmIs
  <2>q. QED BY <1>4, <1>5, <2>1 DEF VmRec, View
<1>7. PICK x : x = [flow[f] EXCEPT !.pc = "telling", !.session = about, !.agent = whose]
  OBVIOUS
<1>8. x \in FlowRec
  <2>1. flow[f] \in FlowRec BY FlowIs
  <2>q. QED BY <1>4, <1>7, <2>1 DEF FlowRec, Pcs
<1>9. [World EXCEPT !.vm = v, !.flow[f] = x] \in WorldRec
  BY <1>6, <1>8 DEF WorldRec, Typed
<1>10. Become([World EXCEPT !.vm = v, !.flow[f] = x])
  BY <1>1, <1>2, <1>3, <1>5, <1>7, WorldIs
<1>q. QED
  BY <1>9, <1>10, BecomeTyped

LEMMA AskFailsTyped == ASSUME Typed, NEW f \in Flows, AskFails(f) PROVE Typed'
<1>1. PICK x : x = [World EXCEPT !.vm = DropClient(vm), !.sock = Shut(sock, flow[f].sock)]
  OBVIOUS
<1>2. x \in WorldRec
  BY <1>1, VmIs, WorldIs, DropClientTyped, ShutTyped DEF WorldRec, Typed
<1>3. PICK v : v = [SetStatus(vm, "error") EXCEPT !.error = TRUE]
  OBVIOUS
<1>4. v \in VmRec
  <2>1. SetStatus(vm, "error") \in VmRec BY VmIs, SetStatusTyped DEF Statuses
  <2>q. QED BY <1>3, <2>1 DEF VmRec
<1>5. [World EXCEPT !.vm = v, !.flow[f] = NoFlow] \in WorldRec
  BY <1>4, NoFlowTyped DEF WorldRec, Typed
<1>6. \/ Become(WarmFailed(x, f))
      \/ Become([World EXCEPT !.vm = v, !.flow[f] = NoFlow])
      \/ Become(ConnectFailed(World, f))
  BY <1>1, <1>3, WorldIs DEF AskFails
<1>q. QED
  BY <1>2, <1>5, <1>6, WarmFailedTyped, ConnectFailedTyped, BecomeTyped DEF Typed

LEMMA ToldTyped == ASSUME Typed, NEW f \in Flows, Told(f) PROVE Typed'
<1>1. PICK lost \in BOOLEAN :
        LET a == flow[f].agent
            w == [World EXCEPT
                    !.vm = SetStatus(@, "connected"),
                    !.agent = IF lost \/ a = Null \/ flow[f].session = Null \/ @[a].st # "live" THEN @
                              ELSE [@ EXCEPT ![a].session = flow[f].session]]
        IN Become(IF flow[f].mode = "cold" THEN ColdDone(w, f)
                  ELSE IF flow[f].kind \in {"loop", "manual"} THEN Finish(OnReconnectSuccess(w), f)
                  ELSE [w EXCEPT !.flow[f] = NoFlow])
  BY DEF Told
<1>2. PICK g : g = IF lost \/ flow[f].agent = Null \/ flow[f].session = Null
                      \/ agent[flow[f].agent].st # "live" THEN agent
                   ELSE [agent EXCEPT ![flow[f].agent].session = flow[f].session]
  OBVIOUS
<1>3. g \in [Agents -> AgentRec]
  <2>1. agent \in [Agents -> AgentRec] /\ flow[f].session \in Sessions \union {Null}
    BY WorldIs, FlowIs
  <2>q. QED BY <1>2, <2>1 DEF AgentRec
<1>4. PICK w : w = [World EXCEPT !.vm = SetStatus(vm, "connected"), !.agent = g]
  OBVIOUS
<1>5. w \in WorldRec
  <2>1. SetStatus(vm, "connected") \in VmRec BY VmIs, SetStatusTyped DEF Statuses
  <2>q. QED BY <1>3, <1>4, <2>1 DEF WorldRec, Typed
<1>6. [w EXCEPT !.flow[f] = NoFlow] \in WorldRec
  BY <1>5, NoFlowTyped DEF WorldRec
<1>7. \/ Become(ColdDone(w, f)) \/ Become(Finish(OnReconnectSuccess(w), f))
      \/ Become([w EXCEPT !.flow[f] = NoFlow])
  BY <1>1, <1>2, <1>4, WorldIs
<1>q. QED
  BY <1>5, <1>6, <1>7, ColdDoneTyped, FinishTyped, OnReconnectSuccessTyped, BecomeTyped

LEMMA InquiredTyped == ASSUME Typed, NEW f \in Flows, Inquired(f) PROVE Typed'
<1>1. PICK crashed \in BOOLEAN, hidden \in BOOLEAN : Become(LostConnection(World, f, crashed, hidden))
  BY DEF Inquired
<1>q. QED
  BY <1>1, LostConnectionTyped, BecomeTyped DEF Typed

LEMMA CloseEventTyped == ASSUME Typed, NEW s \in Sockets, CloseEvent(s) PROVE Typed'
<1>1. PICK k : k = [sock[s] EXCEPT !.st = "closed"]
  OBVIOUS
<1>2. k \in SockRec
  <2>1. sock[s] \in SockRec BY WorldIs
  <2>q. QED BY <1>1, <2>1 DEF SockRec
<1>3. PICK w : w = [World EXCEPT !.sock[s] = k]
  OBVIOUS
<1>4. w \in WorldRec
  BY <1>2, <1>3 DEF WorldRec, Typed
<1>5. \/ FreeFlows # {} /\ \E hidden \in BOOLEAN :
           Become(HandleUnexpectedClose(w, NextFlow, sock[s].code, hidden))
      \/ Become(w)
  BY <1>1, <1>3, WorldIs DEF CloseEvent
<1>q. QED
  BY <1>4, <1>5, FreeAre, HandleUnexpectedCloseTyped, BecomeTyped

LEMMA EventsTyped == ASSUME Typed, Events PROVE Typed'
<1>1. CASE PromptRejected
  <2>1. PICK v : v = [SetStatus(vm, "error") EXCEPT !.error = TRUE, !.prompt = Null]
    OBVIOUS
  <2>2. v \in VmRec
    <3>1. SetStatus(vm, "error") \in VmRec BY VmIs, SetStatusTyped DEF Statuses
    <3>q. QED BY <2>1, <3>1 DEF VmRec
  <2>3. [World EXCEPT !.vm = v] \in WorldRec
    BY <2>2 DEF WorldRec, Typed
  <2>4. Become([World EXCEPT !.vm = v])
    BY <1>1, <2>1, WorldIs DEF PromptRejected
  <2>q. QED BY <2>3, <2>4, BecomeTyped
<1>q. QED
  BY <1>1, CloseEventTyped DEF Events

LEMMA DropTyped == ASSUME Typed, NEW s \in Sockets, Drop(s) PROVE Typed'
<1>1. PICK code \in {"lost", "taken", "released"} : Become(Breaks(s, code))
  BY DEF Drop
<1>2. [sock[s] EXCEPT !.st = "closing", !.code = code] \in SockRec
  <2>1. sock[s] \in SockRec BY WorldIs
  <2>q. QED BY <2>1 DEF SockRec
<1>3. [World EXCEPT !.sock[s] = [sock[s] EXCEPT !.st = "closing", !.code = code]] \in WorldRec
  BY <1>2 DEF WorldRec, Typed
<1>q. QED
  BY <1>1, <1>3, WorldIs, BecomeTyped DEF Breaks

LEMMA AgentStepTyped ==
  ASSUME Typed, NEW a \in Agents, Crash(a) \/ Deleted(a) PROVE Typed'
<1>1. CASE Crash(a)
  <2>1. PICK g : g = [agent[a] EXCEPT !.st = "crashed", !.session = Null]
    OBVIOUS
  <2>2. PICK k : k = [s \in Sockets |-> IF sock[s].agent = a /\ sock[s].st = "open"
                                   THEN [sock[s] EXCEPT !.st = "closing", !.code = "lost"] ELSE sock[s]]
    OBVIOUS
  <2>3. g \in AgentRec
    <3>1. agent[a] \in AgentRec BY WorldIs
    <3>q. QED BY <2>1, <3>1 DEF AgentRec
  <2>4. k \in [Sockets -> SockRec]
    <3>1. sock \in [Sockets -> SockRec] BY WorldIs
    <3>q. QED BY <2>2, <3>1 DEF SockRec
  <2>5. [World EXCEPT !.agent[a] = g, !.sock = k] \in WorldRec
    BY <2>3, <2>4 DEF WorldRec, Typed
  <2>6. Become([World EXCEPT !.agent[a] = g, !.sock = k])
    BY <1>1, <2>1, <2>2, WorldIs DEF Crash
  <2>q. QED BY <2>5, <2>6, BecomeTyped
<1>2. CASE Deleted(a)
  <2>1. [NoAgent EXCEPT !.st = "gone"] \in AgentRec
    BY DEF NoAgent, AgentRec
  <2>2. [World EXCEPT !.agent[a] = [NoAgent EXCEPT !.st = "gone"]] \in WorldRec
    BY <2>1 DEF WorldRec, Typed
  <2>q. QED BY <1>2, <2>2, BecomeTyped DEF Deleted
<1>q. QED
  BY <1>1, <1>2

LEMMA PromptTyped ==
  ASSUME Typed, PromptAnswered \/ Permission \/ AnswerPermission \/ SendPrompt PROVE Typed'
<1>1. vm \in VmRec /\ SetStatus(vm, "error") \in VmRec /\ vm.client \in Sockets \union {Null}
  BY VmIs, SetStatusTyped DEF Statuses
<1>2. CASE PromptAnswered
  <2>1. PICK v : /\ \/ v = [SetStatus(vm, "error") EXCEPT !.error = TRUE, !.prompt = Null]
                    \/ v = [vm EXCEPT !.prompt = Null]
                 /\ Become([World EXCEPT !.vm = v])
    BY <1>2, WorldIs DEF PromptAnswered
  <2>2. v \in VmRec
    BY <1>1, <2>1, ZenonT(60) DEF VmRec
  <2>3. [World EXCEPT !.vm = v] \in WorldRec
    BY <2>2 DEF WorldRec, Typed
  <2>q. QED BY <2>1, <2>3, BecomeTyped
<1>3. CASE Permission \/ AnswerPermission
  <2>1. PICK b \in {"none", "own", "stray"} : Become([World EXCEPT !.vm = [vm EXCEPT !.pending = b]])
    BY <1>3, WorldIs DEF Permission, AnswerPermission
  <2>2. [vm EXCEPT !.pending = b] \in VmRec
    BY <1>1 DEF VmRec
  <2>3. [World EXCEPT !.vm = [vm EXCEPT !.pending = b]] \in WorldRec
    BY <2>2 DEF WorldRec, Typed
  <2>q. QED BY <2>1, <2>3, BecomeTyped
<1>4. CASE SendPrompt
  <2>1. Become([World EXCEPT !.vm = [vm EXCEPT !.prompt = vm.client]])
    BY <1>4, WorldIs DEF SendPrompt
  <2>2. [vm EXCEPT !.prompt = vm.client] \in VmRec
    BY <1>1 DEF VmRec
  <2>3. [World EXCEPT !.vm = [vm EXCEPT !.prompt = vm.client]] \in WorldRec
    BY <2>2 DEF WorldRec, Typed
  <2>q. QED BY <2>1, <2>3, BecomeTyped
<1>q. QED
  BY <1>2, <1>3, <1>4

LEMMA BeginTyped ==
  ASSUME Typed, FreeFlows # {}, NEW kind \in Kinds PROVE Begin(kind) \in WorldRec
<1>1. [NoFlow EXCEPT !.kind = kind] \in FlowRec
  BY DEF NoFlow, FlowRec, Pcs, Modes
<1>q. QED
  BY <1>1 DEF Begin, WorldRec, Typed

LEMMA AttachTyped == ASSUME Typed, Attach PROVE Typed'
<1>1. Begin("attach") \in WorldRec
  BY BeginTyped DEF Attach, Kinds
<1>2. Start(Begin("attach"), NextFlow, "attach", Null, Null) \in WorldRec
  BY <1>1, FreeAre, StartTyped DEF Attach, Modes
<1>q. QED
  BY <1>2, BecomeTyped DEF Attach

LEMMA SwitchSessionTyped == ASSUME Typed, SwitchSession PROVE Typed'
<1>1. PICK mode \in {"switch", "new"}, s \in Sessions :
        \/ Become(Start(Begin("attach"), NextFlow, "load", s, Null))
        \/ Become(Start(Begin("attach"), NextFlow, "attach", Null, Null))
        \/ /\ vm.client # Null
           /\ Become([Begin("switch") EXCEPT
                  !.vm = [SetStatus(@, "connecting") EXCEPT
                            !.error = FALSE, !.surfaced = FALSE, !.bubbles = "blank"],
                  !.flow[NextFlow] = [@ EXCEPT !.pc = "asking", !.mode = mode, !.session = s,
                                               !.sock = vm.client,
                                               !.agent = sock[vm.client].agent]])
  BY DEF SwitchSession
<1>2. FreeFlows # {} /\ NextFlow \in Flows
  BY FreeAre DEF SwitchSession
<1>3. Begin("attach") \in WorldRec /\ Begin("switch") \in WorldRec
  BY <1>2, BeginTyped DEF Kinds
<1>4. /\ Start(Begin("attach"), NextFlow, "load", s, Null) \in WorldRec
      /\ Start(Begin("attach"), NextFlow, "attach", Null, Null) \in WorldRec
  BY <1>2, <1>3, StartTyped DEF Modes
<1>5. ASSUME vm.client # Null,
             Become([Begin("switch") EXCEPT
                  !.vm = [SetStatus(@, "connecting") EXCEPT
                            !.error = FALSE, !.surfaced = FALSE, !.bubbles = "blank"],
                  !.flow[NextFlow] = [@ EXCEPT !.pc = "asking", !.mode = mode, !.session = s,
                                               !.sock = vm.client,
                                               !.agent = sock[vm.client].agent]])
      PROVE  Typed'
  <2>1. PICK w : w = Begin("switch")
    OBVIOUS
  <2>2. w \in WorldRec /\ w.vm \in VmRec /\ w.flow[NextFlow] \in FlowRec
    BY <1>2, <1>3, <2>1, WorldTyped
  <2>3. PICK v : v = [SetStatus(w.vm, "connecting") EXCEPT
                        !.error = FALSE, !.surfaced = FALSE, !.bubbles = "blank"]
    OBVIOUS
  <2>4. v \in VmRec
    <3>1. SetStatus(w.vm, "connecting") \in VmRec BY <2>2, SetStatusTyped DEF Statuses
    <3>q. QED BY <2>3, <3>1 DEF VmRec, View
  <2>5. vm.client \in Sockets /\ sock[vm.client].agent \in Agents \union {Null}
    <3>1. vm.client \in Sockets BY <1>5, VmIs
    <3>2. sock[vm.client] \in SockRec BY <3>1, WorldIs
    <3>q. QED BY <3>1, <3>2 DEF SockRec
  <2>6. PICK x : x = [w.flow[NextFlow] EXCEPT !.pc = "asking", !.mode = mode, !.session = s,
                        !.sock = vm.client, !.agent = sock[vm.client].agent]
    OBVIOUS
  <2>7. x \in FlowRec
    BY <2>2, <2>5, <2>6 DEF FlowRec, Pcs, Modes
  <2>8. [w EXCEPT !.vm = v, !.flow[NextFlow] = x] \in WorldRec
    BY <2>2, <2>4, <2>7 DEF WorldRec
  <2>9. Become([w EXCEPT !.vm = v, !.flow[NextFlow] = x])
    BY <1>5, <2>1, <2>3, <2>6
  <2>q. QED BY <2>8, <2>9, BecomeTyped
<1>q. QED
  BY <1>1, <1>4, <1>5, BecomeTyped

LEMMA ReconnectTyped == ASSUME Typed, Reconnect PROVE Typed'
<1>1. PICK w : w = ClearReconnectTimer(Begin("manual"))
  OBVIOUS
<1>2. w \in WorldRec /\ NextFlow \in Flows
  BY <1>1, BeginTyped, ClearReconnectTimerTyped, FreeAre DEF Reconnect, Kinds
<1>3. PICK v : v = [w.vm EXCEPT !.reconnecting = FALSE, !.attempt = 0]
  OBVIOUS
<1>4. v \in VmRec
  <2>1. w.vm \in VmRec /\ 0 \in 0 .. MaxAttempts BY <1>2, WorldTyped, LocalSessionAssumption
  <2>q. QED BY <1>3, <2>1 DEF VmRec
<1>5. [w EXCEPT !.vm = v] \in WorldRec
  BY <1>2, <1>4 DEF WorldRec
<1>6. Become(DoReconnect([w EXCEPT !.vm = v], NextFlow))
  BY <1>1, <1>3 DEF Reconnect
<1>q. QED
  BY <1>2, <1>5, <1>6, DoReconnectTyped, BecomeTyped

LEMMA AttachToLiveAgentTyped == ASSUME Typed, AttachToLiveAgent PROVE Typed'
<1>1. PICK a \in Agents :
        LET b == Begin("live")
            w == [b EXCEPT !.vm = [@ EXCEPT !.error = FALSE, !.surfaced = FALSE],
                           !.flow[NextFlow] = [@ EXCEPT !.agent = a, !.session = agent[a].session]]
        IN Become(IF Closes(w) THEN CloseAndWait(w, NextFlow)
                  ELSE AttachLive(w, NextFlow, NextSocket))
  BY DEF AttachToLiveAgent
<1>2. PICK b : b = Begin("live")
  OBVIOUS
<1>3. NextFlow \in Flows /\ NextSocket \in Sockets /\ b \in WorldRec
  BY <1>2, FreeAre, BeginTyped DEF AttachToLiveAgent, Kinds
<1>4. PICK v : v = [b.vm EXCEPT !.error = FALSE, !.surfaced = FALSE]
  OBVIOUS
<1>5. v \in VmRec
  <2>1. b.vm \in VmRec BY <1>3, WorldTyped
  <2>q. QED BY <1>4, <2>1 DEF VmRec
<1>6. PICK x : x = [b.flow[NextFlow] EXCEPT !.agent = a, !.session = agent[a].session]
  OBVIOUS
<1>7. x \in FlowRec
  <2>1. b.flow[NextFlow] \in FlowRec /\ agent[a] \in AgentRec BY <1>3, WorldTyped, WorldIs
  <2>2. agent[a].session \in Sessions \union {Null} BY <2>1 DEF AgentRec
  <2>q. QED BY <1>6, <2>1, <2>2 DEF FlowRec
<1>8. PICK w : w = [b EXCEPT !.vm = v, !.flow[NextFlow] = x]
  OBVIOUS
<1>9. w \in WorldRec
  BY <1>3, <1>5, <1>7, <1>8 DEF WorldRec
<1>10. Become(IF Closes(w) THEN CloseAndWait(w, NextFlow) ELSE AttachLive(w, NextFlow, NextSocket))
  BY <1>1, <1>2, <1>4, <1>6, <1>8
<1>q. QED
  BY <1>3, <1>9, <1>10, CloseAndWaitTyped, AttachLiveTyped, BecomeTyped

LEMMA LeaveTyped == ASSUME Typed, Leave PROVE Typed'
<1>1. PICK w : w = ClearReconnectTimer(World)
  OBVIOUS
<1>2. w \in WorldRec
  BY <1>1, ClearReconnectTimerTyped DEF Typed
<1>3. PICK v : v = [w.vm EXCEPT !.detached = TRUE, !.reconnecting = FALSE, !.attempt = 0]
  OBVIOUS
<1>4. v \in VmRec
  <2>1. w.vm \in VmRec /\ 0 \in 0 .. MaxAttempts BY <1>2, WorldTyped, LocalSessionAssumption
  <2>q. QED BY <1>3, <2>1 DEF VmRec
<1>5. PICK u : u = [w EXCEPT !.vm = v]
  OBVIOUS
<1>6. u \in WorldRec
  BY <1>2, <1>4, <1>5 DEF WorldRec
<1>7. PICK keep : LET x == Cleanup(u, keep)
                  IN Become([x EXCEPT !.vm = [SetStatus(@, "idle") EXCEPT !.error = FALSE,
                                                                          !.bubbles = "blank"]])
  BY <1>1, <1>3, <1>5 DEF Leave
<1>8. PICK x : x = Cleanup(u, keep)
  OBVIOUS
<1>9. x \in WorldRec
  BY <1>6, <1>8, CleanupTyped
<1>10. PICK y : y = [SetStatus(x.vm, "idle") EXCEPT !.error = FALSE, !.bubbles = "blank"]
  OBVIOUS
<1>11. y \in VmRec
  <2>1. SetStatus(x.vm, "idle") \in VmRec BY <1>9, WorldTyped, SetStatusTyped DEF Statuses
  <2>q. QED BY <1>10, <2>1 DEF VmRec, View
<1>12. [x EXCEPT !.vm = y] \in WorldRec
  BY <1>9, <1>11 DEF WorldRec
<1>13. Become([x EXCEPT !.vm = y])
  BY <1>7, <1>8, <1>10
<1>q. QED
  BY <1>12, <1>13, BecomeTyped

LEMMA TypedStep == Typed /\ [Next]_vars => Typed'
<1> SUFFICES ASSUME Typed, [Next]_vars PROVE Typed'
  OBVIOUS
<1>1. CASE \E f \in Flows : Step(f)
  BY <1>1, WakeTyped, DrainedTyped, ListedTyped, CreatedTyped, OpenedTyped, OpenFailsTyped,
     GreetedTyped, GreetFailsTyped, AskedTyped, AskFailsTyped, ToldTyped, InquiredTyped DEF Step
<1>2. CASE SystemNext
  BY <1>1, <1>2, EventsTyped, DropTyped, AgentStepTyped, PromptTyped DEF SystemNext
<1>3. CASE UserNext
  BY <1>3, AttachTyped, SwitchSessionTyped, ReconnectTyped, AttachToLiveAgentTyped, LeaveTyped,
     PromptTyped DEF UserNext
<1>4. CASE UNCHANGED vars
  BY <1>4 DEF Typed, World, vars
<1>q. QED
  BY <1>2, <1>3, <1>4 DEF Next

LEMMA TypedAlways == Spec => []Typed
BY InitTyped, TypedStep, PTL DEF Spec

(* The view-model, the sockets and the agents keep their types, and the reconnect
   counter stays within its bound (#reconnectAttempt of agent-session.svelte.ts). *)
THEOREM TypeCorrect == Spec => []TypeOK
<1>1. Typed => TypeOK
  <2> SUFFICES ASSUME Typed PROVE TypeOK
    OBVIOUS
  <2>1. vm \in VmRec /\ mixed \in BOOLEAN
    BY VmIs DEF Typed
  <2>2. \A s \in Sockets : sock[s].st \in {"free", "dialing", "open", "closing", "closed"}
    <3>1. sock \in [Sockets -> SockRec] BY WorldIs
    <3>q. QED BY <3>1 DEF SockRec
  <2>3. \A a \in Agents : agent[a].st \in {"none", "live", "crashed", "gone"}
    <3>1. agent \in [Agents -> AgentRec] BY WorldIs
    <3>q. QED BY <3>1 DEF AgentRec
  <2>q. QED BY <2>1, <2>2, <2>3 DEF TypeOK, VmRec, Pending
<1>q. QED
  BY <1>1, TypedAlways, PTL

-----------------------------------------------------------------------------
(* Nothing is stranded.  The shape of a flow: which stages a kind of flow    *)
(* passes, and in which mode.                                                *)

Shape(x) ==
  /\ x.mode = "warm" => x.kind \in {"loop", "manual", "live"}
  /\ x.mode = "cold" => x.kind \in {"loop", "manual"}
  /\ x.mode \in {"attach", "load"} => x.kind = "attach"
  /\ x.mode \in {"switch", "new"} => x.kind = "switch"
  /\ x.pc = "none" <=> x.kind = "none"
  /\ x.pc = "inquiring" <=> x.kind = "closed"
  /\ x.pc = "sleeping" => x.kind = "loop"
  /\ x.pc = "listing" => x.kind \in {"loop", "manual"}
  /\ x.pc = "draining" => x.kind \in {"loop", "manual", "live"}
  /\ x.mode = "none" <=> x.pc \in {"none", "sleeping", "draining", "listing", "inquiring"}
  /\ x.pc \in {"creating", "greeting"} => x.mode \in {"attach", "load", "cold"}
  /\ x.pc = "dialing" => x.mode \in {"attach", "load", "cold", "warm"}
  /\ x.pc \in {"dialing", "greeting"} => x.sock \in Sockets

(* What the view waits for rests on a flow, or on a client. *)
Shaped(w) == \A g \in Flows : Shape(w.flow[g])

Attempted(w) ==
  w.vm.status = "connecting" =>
    \E g \in Flows : w.flow[g].kind # "closed" /\ w.flow[g].mode # "none"

Looped(w) == w.vm.reconnecting => \E g \in Flows : w.flow[g].kind = "loop"

Torn(w) == w.vm.tearing => \E g \in Flows : w.flow[g].mode = "cold"

Carried(w) == w.vm.pending = "own" => w.vm.client # Null

Thawed(w) ==
  w.vm.status = "connected" /\ w.vm.snapshot # "none" =>
    \E g \in Flows : /\ w.flow[g].kind \in {"loop", "manual", "live"}
                     /\ w.flow[g].pc \in {"draining", "listing"}

ShapedBut(w, f) == \A g \in Flows : g # f => Shape(w.flow[g])

(* Kept is what holds in the middle of a handler too, Settled at its end. *)
Kept(w) == Shaped(w) /\ Looped(w) /\ Torn(w) /\ Carried(w)

Settled(w) == Kept(w) /\ Attempted(w) /\ Thawed(w)

(* What an operator leaves alone, and what SetStatus and DropClient do. *)
Others(r, w, f) == \A g \in Flows : g # f => r.flow[g] = w.flow[g]

SameView(r, w) ==
  /\ r.vm.snapshot = w.vm.snapshot /\ r.vm.bubbles = w.vm.bubbles
  /\ r.vm.session = w.vm.session

Asleep == [NoFlow EXCEPT !.kind = "loop", !.pc = "sleeping"]

LEMMA RestShapes == Shape(NoFlow) /\ Shape(Asleep)
BY DEF Shape, NoFlow, Asleep

LEMMA SetStatusIs ==
  ASSUME NEW v \in VmRec, NEW s \in Statuses
  PROVE  /\ SetStatus(v, s).status = s
         /\ SetStatus(v, s).snapshot = IF s = "connected" /\ v.status # "connected" THEN "none" ELSE v.snapshot
         /\ SetStatus(v, s).bubbles = v.bubbles /\ SetStatus(v, s).session = v.session
         /\ SetStatus(v, s).tearing = v.tearing /\ SetStatus(v, s).reconnecting = v.reconnecting
         /\ SetStatus(v, s).pending = v.pending /\ SetStatus(v, s).client = v.client
         /\ SetStatus(v, s).agent = v.agent /\ SetStatus(v, s).transport = v.transport
BY DEF SetStatus, VmRec

LEMMA DropClientIs ==
  ASSUME NEW v \in VmRec
  PROVE  /\ DropClient(v).status = v.status /\ DropClient(v).snapshot = v.snapshot
         /\ DropClient(v).bubbles = v.bubbles /\ DropClient(v).session = v.session
         /\ DropClient(v).tearing = v.tearing /\ DropClient(v).reconnecting = v.reconnecting
         /\ DropClient(v).agent = v.agent
         /\ DropClient(v).pending = "none" /\ DropClient(v).client = Null
BY DEF DropClient, VmRec

(* The end of a flow, once nothing rests on it but a loop on itself. *)
Rests(w, f) ==
  /\ w.vm.status = "connecting" =>
       \E g \in Flows \ {f} : w.flow[g].kind # "closed" /\ w.flow[g].mode # "none"
  /\ w.vm.tearing => \E g \in Flows \ {f} : w.flow[g].mode = "cold"
  /\ ShapedBut(w, f) /\ Carried(w)
  /\ w.vm.status = "connected" /\ w.vm.snapshot # "none" =>
       \E g \in Flows \ {f} : /\ w.flow[g].kind \in {"loop", "manual", "live"}
                              /\ w.flow[g].pc \in {"draining", "listing"}

Ended(r, w, f) ==
  Settled(r) /\ Others(r, w, f) /\ SameView(r, w) /\ r.flow[f] \in {NoFlow, Asleep}

LEMMA SleepSettles ==
  ASSUME NEW w \in WorldRec, NEW f \in Flows, Rests(w, f)
  PROVE  Ended(Sleep(w, f), w, f)
<1>1. PICK r : r = Sleep(w, f)
  OBVIOUS
<1>2. w.vm \in VmRec /\ w.flow \in [Flows -> FlowRec]
  BY WorldTyped
<1>3. PICK x : x = Asleep
  OBVIOUS
<1>4. CASE w.vm.attempt < MaxAttempts
  <2>1. PICK v : v = [w.vm EXCEPT !.attempt = w.vm.attempt + 1, !.timer = f]
    OBVIOUS
  <2>2. r = [w EXCEPT !.vm = v, !.flow[f] = x]
    BY <1>1, <1>3, <1>4, <2>1 DEF Sleep, Asleep
  <2>3. r.vm = v /\ r.flow = [w.flow EXCEPT ![f] = x]
    BY <2>2 DEF WorldRec
  <2>4. /\ v.status = w.vm.status /\ v.snapshot = w.vm.snapshot /\ v.bubbles = w.vm.bubbles
        /\ v.session = w.vm.session /\ v.tearing = w.vm.tearing /\ v.pending = w.vm.pending
        /\ v.client = w.vm.client
    BY <1>2, <2>1 DEF VmRec
  <2>5. x.kind = "loop" /\ x.pc = "sleeping" /\ x.mode = "none" /\ Shape(x)
    BY <1>3, RestShapes DEF NoFlow, Asleep
  <2>6. r.flow[f] = x /\ Others(r, w, f)
    BY <1>2, <2>3 DEF Others
  <2>7. Kept(r)
    BY <2>3, <2>4, <2>5, <2>6 DEF Kept, Rests, Others, Shaped, ShapedBut, Looped, Torn, Carried
  <2>8. Attempted(r) /\ Thawed(r)
    BY <2>3, <2>4, <2>5, <2>6 DEF Attempted, Thawed, Rests, Others
  <2>9. SameView(r, w)
    BY <2>3, <2>4 DEF SameView
  <2>q. QED BY <1>1, <1>3, <2>6, <2>7, <2>8, <2>9 DEF Settled, Ended
<1>5. CASE ~(w.vm.attempt < MaxAttempts)
  <2>1. PICK v : v = [SetStatus(w.vm, "disconnected") EXCEPT !.reconnecting = FALSE]
    OBVIOUS
  <2>2. r = [w EXCEPT !.vm = v, !.flow[f] = NoFlow]
    BY <1>1, <1>5, <2>1 DEF Sleep
  <2>3. r.vm = v /\ r.flow = [w.flow EXCEPT ![f] = NoFlow]
    BY <2>2 DEF WorldRec
  <2>4. /\ v.status = "disconnected" /\ v.snapshot = w.vm.snapshot /\ v.bubbles = w.vm.bubbles
        /\ v.session = w.vm.session /\ v.tearing = w.vm.tearing /\ v.pending = w.vm.pending
        /\ v.client = w.vm.client /\ v.reconnecting = FALSE
    <3>1. SetStatus(w.vm, "disconnected") \in VmRec
      BY <1>2, SetStatusTyped DEF Statuses
    <3>2. PICK u \in VmRec : u = SetStatus(w.vm, "disconnected")
      BY <3>1
    <3>3. /\ u.status = "disconnected" /\ u.snapshot = w.vm.snapshot /\ u.bubbles = w.vm.bubbles
          /\ u.session = w.vm.session /\ u.tearing = w.vm.tearing /\ u.pending = w.vm.pending
          /\ u.client = w.vm.client
      BY <1>2, <3>2, SetStatusIs DEF Statuses
    <3>4. v = [u EXCEPT !.reconnecting = FALSE]
      BY <2>1, <3>2
    <3>q. QED BY <3>3, <3>4 DEF VmRec
  <2>6. r.flow[f] = NoFlow /\ Others(r, w, f)
    BY <1>2, <2>3 DEF Others
  <2>7. Kept(r)
    BY <2>3, <2>4, <2>6, RestShapes DEF Kept, Rests, Others, Shaped, ShapedBut, Looped, Torn, Carried
  <2>8. Attempted(r) /\ Thawed(r)
    BY <2>3, <2>4 DEF Attempted, Thawed
  <2>9. SameView(r, w)
    BY <2>3, <2>4 DEF SameView
  <2>q. QED BY <1>1, <1>3, <2>6, <2>7, <2>8, <2>9 DEF Settled, Ended
<1>q. QED
  BY <1>4, <1>5

LEMMA OnReconnectSuccessIs ==
  ASSUME NEW w \in WorldRec
  PROVE  LET r == OnReconnectSuccess(w)
         IN /\ r.flow = w.flow /\ r.vm.status = w.vm.status /\ r.vm.reconnecting = w.vm.reconnecting
            /\ r.vm.tearing = w.vm.tearing /\ r.vm.pending = w.vm.pending
            /\ r.vm.client = w.vm.client /\ SameView(r, w)
<1>1. PICK v : v = [w.vm EXCEPT !.attempt = 0, !.error = FALSE, !.surfaced = FALSE]
  OBVIOUS
<1>2. w.vm \in VmRec
  BY WorldTyped
<1>3. /\ v.status = w.vm.status /\ v.snapshot = w.vm.snapshot /\ v.bubbles = w.vm.bubbles
      /\ v.session = w.vm.session /\ v.tearing = w.vm.tearing /\ v.pending = w.vm.pending
      /\ v.client = w.vm.client /\ v.reconnecting = w.vm.reconnecting
  BY <1>1, <1>2 DEF VmRec
<1>4. PICK r : r = OnReconnectSuccess(w)
  OBVIOUS
<1>5. r \in {w, [w EXCEPT !.vm = v]}
  BY <1>1, <1>4 DEF OnReconnectSuccess
<1>6. r.flow = w.flow /\ r.vm \in {v, w.vm}
  BY <1>5 DEF WorldRec
<1>q. QED
  BY <1>3, <1>4, <1>6 DEF SameView

LEMMA FinishSettles ==
  ASSUME NEW w \in WorldRec, NEW f \in Flows, Rests(w, f), Looped(w)
  PROVE  Ended(Finish(w, f), w, f)
<1>1. PICK r : r = Finish(w, f)
  OBVIOUS
<1>2. w.vm \in VmRec /\ w.flow \in [Flows -> FlowRec]
  BY WorldTyped
<1>3. CASE w.flow[f].kind # "loop"
  <2>1. r = [w EXCEPT !.flow[f] = NoFlow]
    BY <1>1, <1>3 DEF Finish
  <2>2. r.vm = w.vm /\ r.flow = [w.flow EXCEPT ![f] = NoFlow]
    BY <2>1 DEF WorldRec
  <2>3. r.flow[f] = NoFlow /\ Others(r, w, f)
    BY <1>2, <2>2 DEF Others
  <2>4. Kept(r)
    BY <1>3, <2>2, <2>3, RestShapes DEF Kept, Rests, Others, Shaped, ShapedBut, Looped, Torn, Carried
  <2>5. Attempted(r) /\ Thawed(r)
    BY <2>2, <2>3 DEF Attempted, Thawed, Rests, Others
  <2>6. SameView(r, w)
    BY <2>2 DEF SameView
  <2>q. QED BY <1>1, <2>3, <2>4, <2>5, <2>6 DEF Settled, Ended
<1>4. CASE w.flow[f].kind = "loop" /\ w.vm.status = "connected"
  <2>1. PICK u : u = [w.vm EXCEPT !.attempt = 0]
    OBVIOUS
  <2>2. PICK v : v = [u EXCEPT !.reconnecting = FALSE]
    OBVIOUS
  <2>3. r = [w EXCEPT !.vm = v, !.flow[f] = NoFlow]
    BY <1>1, <1>4, <2>1, <2>2 DEF Finish
  <2>4. r.vm = v /\ r.flow = [w.flow EXCEPT ![f] = NoFlow]
    BY <2>3 DEF WorldRec
  <2>5. /\ v.status = w.vm.status /\ v.snapshot = w.vm.snapshot /\ v.bubbles = w.vm.bubbles
        /\ v.session = w.vm.session /\ v.tearing = w.vm.tearing /\ v.pending = w.vm.pending
        /\ v.client = w.vm.client /\ v.reconnecting = FALSE
    BY <1>2, <2>1, <2>2 DEF VmRec
  <2>6. r.flow[f] = NoFlow /\ Others(r, w, f)
    BY <1>2, <2>4 DEF Others
  <2>7. Kept(r)
    BY <2>4, <2>5, <2>6, RestShapes DEF Kept, Rests, Others, Shaped, ShapedBut, Looped, Torn, Carried
  <2>8. Attempted(r) /\ Thawed(r)
    BY <2>4, <2>5, <2>6 DEF Attempted, Thawed, Rests, Others
  <2>9. SameView(r, w)
    BY <2>4, <2>5 DEF SameView
  <2>q. QED BY <1>1, <2>6, <2>7, <2>8, <2>9 DEF Settled, Ended
<1>5. CASE w.flow[f].kind = "loop" /\ w.vm.status # "connected"
  <2>1. r = Sleep(w, f)
    BY <1>1, <1>5 DEF Finish
  <2>q. QED BY <1>1, <2>1, SleepSettles
<1>q. QED
  BY <1>3, <1>4, <1>5

LEMMA ScheduleReconnectSettles ==
  ASSUME NEW w \in WorldRec, NEW f \in Flows, Kept(w), Attempted(w), Thawed(w),
         w.flow[f].kind \in {"none", "closed"}
  PROVE  Ended(ScheduleReconnect(w, f), w, f)
<1>1. PICK r : r = ScheduleReconnect(w, f)
  OBVIOUS
<1>2. w.vm \in VmRec /\ w.flow \in [Flows -> FlowRec]
  BY WorldTyped
<1>3. Shape(w.flow[f]) /\ w.flow[f].mode = "none"
  <2>1. Shape(w.flow[f])
    BY DEF Kept, Shaped
  <2>2. w.flow[f] \in FlowRec
    BY <1>2
  <2>q. QED BY <2>1, <2>2 DEF Shape, FlowRec
<1>4. CASE w.vm.reconnecting
  <2>1. r = [w EXCEPT !.flow[f] = NoFlow]
    BY <1>1, <1>4 DEF ScheduleReconnect
  <2>2. r.vm = w.vm /\ r.flow = [w.flow EXCEPT ![f] = NoFlow]
    BY <2>1 DEF WorldRec
  <2>3. r.flow[f] = NoFlow /\ Others(r, w, f)
    BY <1>2, <2>2 DEF Others
  <2>4. Kept(r)
    BY <1>3, <2>2, <2>3, RestShapes DEF Kept, Others, Shaped, Looped, Torn, Carried
  <2>5. Attempted(r) /\ Thawed(r)
    BY <1>3, <2>2, <2>3 DEF Attempted, Thawed, Others
  <2>6. SameView(r, w)
    BY <2>2 DEF SameView
  <2>q. QED BY <1>1, <2>3, <2>4, <2>5, <2>6 DEF Settled, Ended
<1>5. CASE ~w.vm.reconnecting
  <2>1. PICK u \in VmRec : u = SetStatus(w.vm, "disconnected")
    BY <1>2, SetStatusTyped DEF Statuses
  <2>2. /\ u.status = "disconnected" /\ u.snapshot = w.vm.snapshot /\ u.bubbles = w.vm.bubbles
        /\ u.session = w.vm.session /\ u.tearing = w.vm.tearing /\ u.pending = w.vm.pending
        /\ u.client = w.vm.client
    BY <1>2, <2>1, SetStatusIs DEF Statuses
  <2>3. PICK v : v = [u EXCEPT !.reconnecting = TRUE, !.attempt = 0]
    OBVIOUS
  <2>4. /\ v.status = "disconnected" /\ v.snapshot = w.vm.snapshot /\ v.bubbles = w.vm.bubbles
        /\ v.session = w.vm.session /\ v.tearing = w.vm.tearing /\ v.pending = w.vm.pending
        /\ v.client = w.vm.client /\ v \in VmRec
    <3>1. 0 \in 0 .. MaxAttempts BY LocalSessionAssumption
    <3>q. QED BY <2>1, <2>2, <2>3, <3>1 DEF VmRec
  <2>5. PICK x : x = [w EXCEPT !.vm = v]
    OBVIOUS
  <2>6. x \in WorldRec /\ x.vm = v /\ x.flow = w.flow
    BY <2>4, <2>5 DEF WorldRec
  <2>7. r = Sleep(x, f)
    BY <1>1, <1>5, <2>1, <2>3, <2>5 DEF ScheduleReconnect
  <2>8. Rests(x, f)
    BY <1>3, <2>4, <2>6 DEF Rests, Kept, Shaped, ShapedBut, Torn, Carried
  <2>9. Ended(r, x, f)
    BY <2>6, <2>7, <2>8, SleepSettles
  <2>q. QED BY <1>1, <2>4, <2>6, <2>9 DEF Ended, Others, SameView
<1>q. QED
  BY <1>4, <1>5

LEMMA ColdDoneSettles ==
  ASSUME NEW w \in WorldRec, NEW f \in Flows, Rests([w EXCEPT !.vm.tearing = FALSE], f), Looped(w)
  PROVE  Ended(ColdDone(w, f), w, f)
<1>1. PICK g : g = IF w.flow[f].prev # w.vm.agent THEN Doom(w.agent, w.flow[f].prev) ELSE w.agent
  OBVIOUS
<1>2. g \in [Agents -> AgentRec]
  BY <1>1, DoomTyped, WorldTyped
<1>3. PICK v : v = [w.vm EXCEPT !.tearing = FALSE]
  OBVIOUS
<1>4. w.vm \in VmRec
  BY WorldTyped
<1>5. /\ v.status = w.vm.status /\ v.snapshot = w.vm.snapshot /\ v.bubbles = w.vm.bubbles
      /\ v.session = w.vm.session /\ v.tearing = FALSE /\ v.pending = w.vm.pending
      /\ v.client = w.vm.client /\ v.reconnecting = w.vm.reconnecting /\ v \in VmRec
  BY <1>3, <1>4 DEF VmRec
<1>6. PICK y : y = [w EXCEPT !.vm.tearing = FALSE]
  OBVIOUS
<1>7. y.vm = v /\ y.flow = w.flow
  BY <1>3, <1>6 DEF WorldRec
<1>8. PICK x : x = [w EXCEPT !.vm.tearing = FALSE, !.agent = g]
  OBVIOUS
<1>9. x \in WorldRec /\ x.vm = v /\ x.flow = w.flow
  BY <1>2, <1>3, <1>5, <1>8 DEF WorldRec
<1>10. ColdDone(w, f) = Finish(OnReconnectSuccess(x), f)
  BY <1>1, <1>8 DEF ColdDone
<1>11. PICK z : z = OnReconnectSuccess(x)
  OBVIOUS
<1>12. /\ z \in WorldRec /\ z.flow = w.flow /\ z.vm.status = v.status
       /\ z.vm.reconnecting = v.reconnecting /\ z.vm.tearing = v.tearing
       /\ z.vm.pending = v.pending /\ z.vm.client = v.client /\ SameView(z, x)
  BY <1>9, <1>11, OnReconnectSuccessIs, OnReconnectSuccessTyped
<1>13. z.vm.snapshot = w.vm.snapshot /\ z.vm.bubbles = w.vm.bubbles /\ z.vm.session = w.vm.session
  BY <1>5, <1>9, <1>12 DEF SameView
<1>14. Rests(z, f)
  <2>1. Rests(y, f)
    BY <1>6
  <2>q. QED BY <1>5, <1>7, <1>12, <1>13, <2>1 DEF Rests, ShapedBut, Carried
<1>15. Looped(z)
  BY <1>5, <1>12 DEF Looped
<1>16. Ended(Finish(z, f), z, f)
  BY <1>12, <1>14, <1>15, FinishSettles
<1>17. Others(Finish(z, f), w, f) /\ SameView(Finish(z, f), w)
  BY <1>12, <1>13, <1>16 DEF Ended, Others, SameView
<1>q. QED
  BY <1>10, <1>11, <1>16, <1>17 DEF Ended

(* A flow that goes on, or ends, without a change of what is shown but that *)
(* the history may be emptied behind a frozen display.                      *)
Moved(r, w, f) ==
  /\ Settled(r) /\ Others(r, w, f)
  /\ r.vm.snapshot = w.vm.snapshot /\ r.vm.session = w.vm.session
  /\ r.vm.bubbles \in {w.vm.bubbles, "blank"}
  /\ r.flow[f] \in {NoFlow, Asleep} \/ (r.flow[f].kind = w.flow[f].kind /\ r.flow[f].pc # "telling")

LEMMA EndedMoves == ASSUME NEW r, NEW w, NEW f, Ended(r, w, f) PROVE Moved(r, w, f)
BY DEF Ended, Moved, SameView

LEMMA StartSettles ==
  ASSUME NEW w \in WorldRec, NEW f \in Flows, NEW mode, NEW s, NEW prev,
         ShapedBut(w, f), Looped(w), Carried(w),
         \/ mode = "cold" /\ w.flow[f].kind \in {"loop", "manual"}
         \/ mode \in {"attach", "load"} /\ w.flow[f].kind = "attach" /\ w.flow[f].mode # "cold" /\ Torn(w)
  PROVE  LET r == Start(w, f, mode, s, prev)
         IN Moved(r, w, f) /\ r.flow[f].kind = w.flow[f].kind
<1>1. PICK r : r = Start(w, f, mode, s, prev)
  OBVIOUS
<1>2. w.vm \in VmRec /\ w.flow \in [Flows -> FlowRec] /\ w.flow[f] \in FlowRec
  BY WorldTyped
<1>3. PICK u \in VmRec : u = SetStatus(w.vm, "connecting")
  BY <1>2, SetStatusTyped DEF Statuses
<1>4. /\ u.status = "connecting" /\ u.snapshot = w.vm.snapshot /\ u.session = w.vm.session
      /\ u.tearing = w.vm.tearing /\ u.pending = w.vm.pending /\ u.client = w.vm.client
      /\ u.reconnecting = w.vm.reconnecting
  BY <1>2, <1>3, SetStatusIs DEF Statuses
<1>5. PICK v : v = [u EXCEPT !.error = FALSE, !.surfaced = FALSE, !.bubbles = "blank", !.detached = FALSE]
  OBVIOUS
<1>6. /\ v.status = "connecting" /\ v.snapshot = w.vm.snapshot /\ v.session = w.vm.session
      /\ v.tearing = w.vm.tearing /\ v.pending = w.vm.pending /\ v.client = w.vm.client
      /\ v.reconnecting = w.vm.reconnecting /\ v.bubbles = "blank"
  BY <1>3, <1>4, <1>5 DEF VmRec
<1>7. PICK x : x = [w.flow[f] EXCEPT !.pc = "creating", !.mode = mode, !.sock = Null,
                                     !.session = s, !.prev = prev]
  OBVIOUS
<1>8. x.pc = "creating" /\ x.mode = mode /\ x.kind = w.flow[f].kind
  BY <1>2, <1>7 DEF FlowRec
<1>9. Shape(x) /\ x.kind \notin {"none", "closed"} /\ x.mode # "none"
  BY <1>8 DEF Shape
<1>10. r = [w EXCEPT !.vm = v, !.flow[f] = x]
  BY <1>1, <1>3, <1>5, <1>7 DEF Start
<1>11. r.vm = v /\ r.flow = [w.flow EXCEPT ![f] = x]
  BY <1>10 DEF WorldRec
<1>12. r.flow[f] = x /\ Others(r, w, f)
  BY <1>2, <1>11 DEF Others
<1>13. Shaped(r) /\ Carried(r) /\ Thawed(r) /\ Attempted(r)
  BY <1>6, <1>9, <1>11, <1>12 DEF Others, Shaped, ShapedBut, Carried, Thawed, Attempted
<1>14. Looped(r)
  BY <1>6, <1>8, <1>11, <1>12 DEF Others, Looped
<1>15. Torn(r)
  BY <1>6, <1>8, <1>11, <1>12 DEF Others, Torn
<1>q. QED
  BY <1>1, <1>6, <1>8, <1>11, <1>12, <1>13, <1>14, <1>15 DEF Moved, Settled, Kept

LEMMA ColdReconnectSettles ==
  ASSUME NEW w \in WorldRec, NEW f \in Flows, ShapedBut(w, f), Looped(w),
         w.flow[f].kind \in {"loop", "manual"}
  PROVE  Moved(ColdReconnect(w, f), w, f)
<1>1. PICK v : v = DropClient(w.vm)
  OBVIOUS
<1>2. PICK u : u = IF v.status \in {"connecting", "connected"} THEN SetStatus(v, "disconnected") ELSE v
  OBVIOUS
<1>3. v \in VmRec /\ u \in VmRec /\ w.vm \in VmRec
  BY <1>1, <1>2, DropClientTyped, SetStatusTyped, WorldTyped DEF Statuses
<1>4. /\ v.status = w.vm.status /\ v.snapshot = w.vm.snapshot /\ v.bubbles = w.vm.bubbles
      /\ v.session = w.vm.session /\ v.reconnecting = w.vm.reconnecting /\ v.pending = "none"
  BY <1>1, <1>3, DropClientIs
<1>5. /\ u.status \notin {"connecting", "connected"} /\ u.snapshot = w.vm.snapshot
      /\ u.bubbles = w.vm.bubbles
      /\ u.session = w.vm.session /\ u.reconnecting = w.vm.reconnecting /\ u.pending = "none"
  BY <1>2, <1>3, <1>4, SetStatusIs DEF Statuses
<1>6. PICK z : z = [u EXCEPT !.tearing = TRUE]
  OBVIOUS
<1>7. /\ z \in VmRec /\ z.status = u.status /\ z.snapshot = u.snapshot /\ z.bubbles = u.bubbles
      /\ z.session = u.session /\ z.reconnecting = u.reconnecting /\ z.pending = "none"
  <2>1. u \in VmRec BY <1>3
  <2>q. QED BY <1>5, <1>6, <2>1 DEF VmRec
<1>8. PICK x : x = [w EXCEPT !.sock = Shut(w.sock, w.vm.client), !.vm = z]
  OBVIOUS
<1>9. x \in WorldRec /\ x.vm = z /\ x.flow = w.flow
  BY <1>7, <1>8, ShutTyped, WorldTyped DEF WorldRec
<1>10. ColdReconnect(w, f) = IF v.session = Null
        THEN Finish(OnReconnectSuccess([x EXCEPT !.vm.tearing = FALSE]), f)
        ELSE Start(x, f, "cold", v.session, v.agent)
  BY <1>1, <1>2, <1>6, <1>8 DEF ColdReconnect
<1>11. Moved(Start(x, f, "cold", v.session, v.agent), x, f)
  <2>1. ShapedBut(x, f) /\ Looped(x) /\ Carried(x)
    BY <1>5, <1>7, <1>9 DEF ShapedBut, Looped, Carried
  <2>q. QED BY <1>9, <2>1, StartSettles
<1>12. Moved(Finish(OnReconnectSuccess([x EXCEPT !.vm.tearing = FALSE]), f), x, f)
  <2>1. PICK y : y = [x EXCEPT !.vm.tearing = FALSE]
    OBVIOUS
  <2>2. PICK zz : zz = [z EXCEPT !.tearing = FALSE]
    OBVIOUS
  <2>3. /\ zz \in VmRec /\ zz.status = u.status /\ zz.snapshot = u.snapshot /\ zz.bubbles = u.bubbles
        /\ zz.session = u.session /\ zz.reconnecting = u.reconnecting /\ zz.pending = "none"
        /\ zz.tearing = FALSE
    <3>1. z \in VmRec BY <1>7
    <3>q. QED BY <1>7, <2>2, <3>1 DEF VmRec
  <2>4. y \in WorldRec /\ y.vm = zz /\ y.flow = w.flow
    BY <1>9, <2>1, <2>2, <2>3 DEF WorldRec
  <2>5. PICK o : o = OnReconnectSuccess(y)
    OBVIOUS
  <2>6. /\ o \in WorldRec /\ o.flow = w.flow /\ o.vm.status = u.status
        /\ o.vm.reconnecting = u.reconnecting /\ o.vm.tearing = FALSE
        /\ o.vm.pending = "none" /\ SameView(o, y)
    BY <2>3, <2>4, <2>5, OnReconnectSuccessIs, OnReconnectSuccessTyped
  <2>7. SameView(o, x)
    BY <1>7, <1>9, <2>3, <2>4, <2>6 DEF SameView
  <2>8. Rests(o, f) /\ Looped(o)
    BY <1>5, <2>6 DEF Rests, ShapedBut, Carried, Looped
  <2>9. Ended(Finish(o, f), o, f)
    BY <2>6, <2>8, FinishSettles
  <2>10. Ended(Finish(o, f), x, f)
    BY <1>9, <2>6, <2>7, <2>9 DEF Ended, Others, SameView
  <2>q. QED BY <2>1, <2>5, <2>10, EndedMoves
<1>13. Moved(ColdReconnect(w, f), x, f)
  BY <1>10, <1>11, <1>12
<1>q. QED
  BY <1>5, <1>7, <1>9, <1>13 DEF Moved, Others

LEMMA CleanupIs ==
  ASSUME NEW w \in WorldRec, NEW keep
  PROVE  LET r == Cleanup(w, keep)
         IN /\ r.flow = w.flow /\ r.vm.status = w.vm.status /\ r.vm.snapshot = w.vm.snapshot
            /\ r.vm.bubbles = w.vm.bubbles /\ r.vm.tearing = w.vm.tearing
            /\ r.vm.reconnecting = w.vm.reconnecting /\ r.vm.pending = "none"
            /\ r.vm.session = IF keep = "all" THEN w.vm.session ELSE Null
<1>1. PICK u \in VmRec : u = DropClient(w.vm)
  BY DropClientTyped, WorldTyped
<1>2. /\ u.status = w.vm.status /\ u.snapshot = w.vm.snapshot
      /\ u.bubbles = w.vm.bubbles /\ u.tearing = w.vm.tearing
      /\ u.reconnecting = w.vm.reconnecting /\ u.pending = "none"
      /\ u.session = w.vm.session
  BY <1>1, DropClientIs, WorldTyped
<1>3. PICK v : v = IF keep = "all" THEN u ELSE [u EXCEPT !.session = Null, !.agent = Null]
  OBVIOUS
<1>4. /\ v.status = w.vm.status /\ v.snapshot = w.vm.snapshot
      /\ v.bubbles = w.vm.bubbles /\ v.tearing = w.vm.tearing
      /\ v.reconnecting = w.vm.reconnecting /\ v.pending = "none"
      /\ v.session = IF keep = "all" THEN w.vm.session ELSE Null
  BY <1>1, <1>2, <1>3 DEF VmRec
<1>5. PICK r : r = Cleanup(w, keep)
  OBVIOUS
<1>6. r.flow = w.flow /\ r.vm = v
  BY <1>1, <1>3, <1>5 DEF Cleanup, WorldRec
<1>q. QED
  BY <1>4, <1>5, <1>6

LEMMA ConnectFailedSettles ==
  ASSUME NEW w \in WorldRec, NEW f \in Flows, ShapedBut(w, f), Looped(w), Torn(w),
         w.flow[f].mode = "cold" \/ w.flow[f].kind = "attach"
  PROVE  LET r == ConnectFailed(w, f)
         IN /\ Settled(r) /\ Others(r, w, f) /\ r.flow[f] \in {NoFlow, Asleep}
            /\ w.flow[f].mode = "cold" => Moved(r, w, f)
<1>1. PICK v : v = [w.vm EXCEPT !.error = TRUE, !.surfaced = TRUE]
  OBVIOUS
<1>2. w.vm \in VmRec /\ w.flow \in [Flows -> FlowRec]
  BY WorldTyped
<1>3. /\ v \in VmRec /\ v.status = w.vm.status /\ v.snapshot = w.vm.snapshot
      /\ v.bubbles = w.vm.bubbles /\ v.session = w.vm.session
      /\ v.tearing = w.vm.tearing /\ v.reconnecting = w.vm.reconnecting
  <2>1. w.vm \in VmRec BY <1>2
  <2>q. QED BY <1>1, <2>1 DEF VmRec
<1>4. PICK x : x = [w EXCEPT !.vm.error = TRUE, !.vm.surfaced = TRUE]
  OBVIOUS
<1>5. x \in WorldRec /\ x.vm = v /\ x.flow = w.flow
  BY <1>1, <1>3, <1>4 DEF WorldRec
<1>6. PICK r : r = ConnectFailed(w, f)
  OBVIOUS
<1>7. CASE w.flow[f].mode = "cold"
  <2>1. PICK y : y = Cleanup(x, "all")
    OBVIOUS
  <2>2. /\ y \in WorldRec /\ y.flow = w.flow /\ y.vm.snapshot = w.vm.snapshot
        /\ y.vm.bubbles = w.vm.bubbles /\ y.vm.session = w.vm.session
        /\ y.vm.reconnecting = w.vm.reconnecting /\ y.vm.pending = "none"
    BY <1>3, <1>5, <2>1, CleanupIs, CleanupTyped
  <2>3. PICK u \in VmRec : u = SetStatus(y.vm, "disconnected")
    BY <2>2, WorldTyped, SetStatusTyped DEF Statuses
  <2>4. /\ u.status = "disconnected" /\ u.snapshot = w.vm.snapshot
        /\ u.bubbles = w.vm.bubbles /\ u.session = w.vm.session
        /\ u.reconnecting = w.vm.reconnecting /\ u.pending = "none"
    BY <2>2, <2>3, WorldTyped, SetStatusIs DEF Statuses
  <2>5. PICK z : z = [y EXCEPT !.vm = u]
    OBVIOUS
  <2>6. z \in WorldRec /\ z.vm = u /\ z.flow = w.flow
    BY <2>2, <2>3, <2>5 DEF WorldRec
  <2>7. r = ColdDone(z, f)
    BY <1>4, <1>6, <1>7, <2>1, <2>3, <2>5 DEF ConnectFailed
  <2>8. Rests([z EXCEPT !.vm.tearing = FALSE], f)
    <3>1. PICK o : o = [z EXCEPT !.vm.tearing = FALSE]
      OBVIOUS
    <3>2. PICK t : t = [u EXCEPT !.tearing = FALSE]
      OBVIOUS
    <3>3. o.vm = t /\ o.flow = w.flow
      BY <2>6, <3>1, <3>2 DEF WorldRec
    <3>4. t.status = "disconnected" /\ t.tearing = FALSE /\ t.pending = "none"
      BY <2>3, <2>4, <3>2 DEF VmRec
    <3>5. Rests(o, f)
      BY <3>3, <3>4 DEF Rests, ShapedBut, Carried
    <3>q. QED BY <3>1, <3>5
  <2>9. Looped(z)
    BY <2>4, <2>6 DEF Looped
  <2>10. Ended(r, z, f)
    BY <2>6, <2>7, <2>8, <2>9, ColdDoneSettles
  <2>11. Ended(r, w, f)
    BY <2>4, <2>6, <2>10 DEF Ended, Others, SameView
  <2>q. QED BY <1>6, <2>11, EndedMoves DEF Ended
<1>8. CASE w.flow[f].mode # "cold" /\ w.flow[f].kind = "attach"
  <2>1. PICK u \in VmRec : u = SetStatus(v, "error")
    BY <1>3, SetStatusTyped DEF Statuses
  <2>2. /\ u.status = "error" /\ u.tearing = w.vm.tearing /\ u.reconnecting = w.vm.reconnecting
    BY <1>3, <2>1, SetStatusIs DEF Statuses
  <2>3. PICK z : z = [x EXCEPT !.vm = u, !.flow[f] = NoFlow]
    OBVIOUS
  <2>4. z \in WorldRec /\ z.vm = u /\ z.flow = [w.flow EXCEPT ![f] = NoFlow]
    BY <1>5, <2>1, <2>3, NoFlowTyped DEF WorldRec
  <2>5. r = Cleanup(z, "nothing")
    BY <1>4, <1>5, <1>6, <1>8, <2>1, <2>3 DEF ConnectFailed
  <2>6. /\ r.flow = [w.flow EXCEPT ![f] = NoFlow] /\ r.vm.status = "error"
        /\ r.vm.tearing = w.vm.tearing /\ r.vm.reconnecting = w.vm.reconnecting
        /\ r.vm.pending = "none"
    BY <2>2, <2>4, <2>5, CleanupIs
  <2>7. r.flow[f] = NoFlow /\ Others(r, w, f)
    BY <1>2, <2>6 DEF Others
  <2>8. Kept(r)
    BY <1>8, <2>6, <2>7, RestShapes DEF Kept, Others, Shaped, ShapedBut, Looped, Torn, Carried
  <2>9. Attempted(r) /\ Thawed(r)
    BY <2>6 DEF Attempted, Thawed
  <2>q. QED BY <1>6, <1>8, <2>7, <2>8, <2>9 DEF Settled
<1>q. QED
  BY <1>7, <1>8

LEMMA WarmReconnectSettles ==
  ASSUME NEW w \in WorldRec, NEW f \in Flows, NEW a, NEW n \in Sockets,
         ShapedBut(w, f), Looped(w), Torn(w), w.flow[f].mode = "none",
         w.flow[f].kind \in {"loop", "manual", "live"}
  PROVE  LET r == WarmReconnect(w, f, a, n)
         IN Moved(r, w, f) /\ r.vm.bubbles = w.vm.bubbles /\ r.flow[f].kind = w.flow[f].kind
<1>1. PICK r : r = WarmReconnect(w, f, a, n)
  OBVIOUS
<1>2. w.vm \in VmRec /\ w.flow \in [Flows -> FlowRec] /\ w.flow[f] \in FlowRec
  BY WorldTyped
<1>3. PICK d \in VmRec : d = DropClient(w.vm)
  BY <1>2, DropClientTyped
<1>4. PICK u \in VmRec : u = SetStatus(d, "connecting")
  BY <1>3, SetStatusTyped DEF Statuses
<1>5. /\ d.snapshot = w.vm.snapshot /\ d.session = w.vm.session /\ d.bubbles = w.vm.bubbles
      /\ d.tearing = w.vm.tearing /\ d.pending = "none" /\ d.reconnecting = w.vm.reconnecting
  BY <1>2, <1>3, DropClientIs
<1>6. /\ u.status = "connecting" /\ u.snapshot = w.vm.snapshot /\ u.session = w.vm.session
      /\ u.bubbles = w.vm.bubbles
      /\ u.tearing = w.vm.tearing /\ u.pending = "none" /\ u.reconnecting = w.vm.reconnecting
  BY <1>3, <1>4, <1>5, SetStatusIs DEF Statuses
<1>7. PICK v : v = [u EXCEPT !.detached = FALSE, !.surfaced = FALSE, !.transport = n]
  OBVIOUS
<1>8. /\ v.status = "connecting" /\ v.snapshot = w.vm.snapshot /\ v.session = w.vm.session
      /\ v.bubbles = w.vm.bubbles
      /\ v.tearing = w.vm.tearing /\ v.pending = "none" /\ v.reconnecting = w.vm.reconnecting
  BY <1>4, <1>6, <1>7 DEF VmRec
<1>9. PICK x : x = [w.flow[f] EXCEPT !.pc = "dialing", !.mode = "warm", !.sock = n, !.agent = a]
  OBVIOUS
<1>10. x.pc = "dialing" /\ x.mode = "warm" /\ x.kind = w.flow[f].kind /\ x.sock = n
  BY <1>2, <1>9 DEF FlowRec
<1>11. Shape(x)
  BY <1>10 DEF Shape
<1>12. r = [w EXCEPT !.vm = v, !.sock[n] = Dial(a, FALSE), !.flow[f] = x]
  BY <1>1, <1>3, <1>4, <1>7, <1>9 DEF WarmReconnect
<1>13. r.vm = v /\ r.flow = [w.flow EXCEPT ![f] = x]
  BY <1>12 DEF WorldRec
<1>14. r.flow[f] = x /\ Others(r, w, f)
  BY <1>2, <1>13 DEF Others
<1>15. Shaped(r) /\ Carried(r) /\ Thawed(r) /\ Attempted(r)
  BY <1>8, <1>10, <1>11, <1>13, <1>14 DEF Others, Shaped, ShapedBut, Carried, Thawed, Attempted
<1>16. Looped(r) /\ Torn(r)
  BY <1>8, <1>10, <1>13, <1>14 DEF Others, Looped, Torn
<1>q. QED
  BY <1>1, <1>8, <1>10, <1>13, <1>14, <1>15, <1>16 DEF Moved, Settled, Kept

LEMMA WarmFailedSettles ==
  ASSUME NEW w \in WorldRec, NEW f \in Flows, ShapedBut(w, f), Looped(w), Torn(w), Carried(w),
         w.flow[f].mode = "warm", w.flow[f].kind \in {"loop", "manual", "live"}
  PROVE  Moved(WarmFailed(w, f), w, f)
<1>1. PICK r : r = WarmFailed(w, f)
  OBVIOUS
<1>2. CASE w.flow[f].kind = "live"
  <2>1. w.vm \in VmRec /\ w.flow \in [Flows -> FlowRec]
    BY WorldTyped
  <2>2. PICK u \in VmRec : u = SetStatus(w.vm, "error")
    BY <2>1, SetStatusTyped DEF Statuses
  <2>3. /\ u.status = "error" /\ u.snapshot = w.vm.snapshot /\ u.session = w.vm.session
        /\ u.bubbles = w.vm.bubbles /\ u.client = w.vm.client
        /\ u.tearing = w.vm.tearing /\ u.pending = w.vm.pending /\ u.reconnecting = w.vm.reconnecting
    BY <2>1, <2>2, SetStatusIs DEF Statuses
  <2>4. PICK v : v = [u EXCEPT !.error = TRUE]
    OBVIOUS
  <2>5. /\ v.status = "error" /\ v.snapshot = w.vm.snapshot /\ v.session = w.vm.session
        /\ v.bubbles = w.vm.bubbles /\ v.client = w.vm.client
        /\ v.tearing = w.vm.tearing /\ v.pending = w.vm.pending /\ v.reconnecting = w.vm.reconnecting
    BY <2>2, <2>3, <2>4 DEF VmRec
  <2>6. r = [w EXCEPT !.vm = v, !.flow[f] = NoFlow]
    BY <1>1, <1>2, <2>2, <2>4 DEF WarmFailed
  <2>7. r.vm = v /\ r.flow = [w.flow EXCEPT ![f] = NoFlow]
    BY <2>6 DEF WorldRec
  <2>8. r.flow[f] = NoFlow /\ Others(r, w, f)
    BY <2>1, <2>7 DEF Others
  <2>9. Kept(r)
    BY <1>2, <2>5, <2>7, <2>8, RestShapes DEF Kept, Others, Shaped, ShapedBut, Looped, Torn, Carried
  <2>10. Attempted(r) /\ Thawed(r)
    BY <2>5, <2>7 DEF Attempted, Thawed
  <2>q. QED BY <1>1, <2>5, <2>7, <2>8, <2>9, <2>10 DEF Moved, Settled
<1>3. CASE w.flow[f].kind # "live"
  BY <1>3, ColdReconnectSettles DEF WarmFailed
<1>q. QED
  BY <1>2, <1>3

LEMMA FindReusableSettles ==
  ASSUME NEW w \in WorldRec, NEW f \in Flows, ShapedBut(w, f), Looped(w), Torn(w), Carried(w),
         Attempted(w), w.flow[f].mode = "none", w.flow[f].kind \in {"loop", "manual"}
  PROVE  LET r == FindReusable(w, f)
         IN Moved(r, w, f) /\ (w.vm.session # Null => r.vm.bubbles = w.vm.bubbles)
<1>1. PICK r : r = FindReusable(w, f)
  OBVIOUS
<1>2. CASE w.vm.session = Null
  BY <1>2, ColdReconnectSettles DEF FindReusable
<1>3. CASE w.vm.session # Null
  <2>1. w.flow \in [Flows -> FlowRec] /\ w.flow[f] \in FlowRec
    BY WorldTyped
  <2>2. PICK x : x = [w.flow[f] EXCEPT !.pc = "listing", !.sock = Null]
    OBVIOUS
  <2>3. x.pc = "listing" /\ x.mode = "none" /\ x.kind = w.flow[f].kind
    BY <2>1, <2>2 DEF FlowRec
  <2>4. Shape(x)
    BY <2>3 DEF Shape
  <2>5. r = [w EXCEPT !.flow[f] = x]
    BY <1>1, <1>3, <2>2 DEF FindReusable
  <2>6. r.vm = w.vm /\ r.flow = [w.flow EXCEPT ![f] = x]
    BY <2>5 DEF WorldRec
  <2>7. r.flow[f] = x /\ Others(r, w, f)
    BY <2>1, <2>6 DEF Others
  <2>8. Kept(r)
    BY <2>3, <2>4, <2>6, <2>7 DEF Kept, Others, Shaped, ShapedBut, Looped, Torn, Carried
  <2>9. Attempted(r) /\ Thawed(r)
    BY <2>3, <2>6, <2>7 DEF Attempted, Thawed, Others
  <2>q. QED BY <1>1, <2>3, <2>6, <2>7, <2>8, <2>9 DEF Moved, Settled
<1>q. QED
  BY <1>2, <1>3

LEMMA CloseAndWaitSettles ==
  ASSUME NEW w \in WorldRec, NEW f \in Flows, ShapedBut(w, f), Looped(w), Torn(w), Carried(w),
         Attempted(w), w.flow[f].mode = "none", w.flow[f].kind \in {"loop", "manual", "live"}
  PROVE  LET r == CloseAndWait(w, f)
         IN Moved(r, w, f) /\ r.vm.bubbles = w.vm.bubbles /\ r.flow[f].kind = w.flow[f].kind
<1>1. PICK r : r = CloseAndWait(w, f)
  OBVIOUS
<1>2. w.flow \in [Flows -> FlowRec] /\ w.flow[f] \in FlowRec
  BY WorldTyped
<1>3. PICK x : x = [w.flow[f] EXCEPT !.pc = "draining", !.sock = w.vm.transport]
  OBVIOUS
<1>4. x.pc = "draining" /\ x.mode = "none" /\ x.kind = w.flow[f].kind
  BY <1>2, <1>3 DEF FlowRec
<1>5. Shape(x)
  BY <1>4 DEF Shape
<1>6. r = [w EXCEPT !.sock = Shut(w.sock, w.vm.transport), !.flow[f] = x]
  BY <1>1, <1>3 DEF CloseAndWait
<1>7. r.vm = w.vm /\ r.flow = [w.flow EXCEPT ![f] = x]
  BY <1>6 DEF WorldRec
<1>8. r.flow[f] = x /\ Others(r, w, f)
  BY <1>2, <1>7 DEF Others
<1>9. Kept(r)
  BY <1>4, <1>5, <1>7, <1>8 DEF Kept, Others, Shaped, ShapedBut, Looped, Torn, Carried
<1>10. Attempted(r) /\ Thawed(r)
  BY <1>4, <1>7, <1>8 DEF Attempted, Thawed, Others
<1>q. QED
  BY <1>1, <1>4, <1>7, <1>8, <1>9, <1>10 DEF Moved, Settled

LEMMA DoReconnectSettles ==
  ASSUME NEW w \in WorldRec, NEW f \in Flows, ShapedBut(w, f), Looped(w), Torn(w), Carried(w),
         Attempted(w), w.flow[f].mode = "none", w.flow[f].kind \in {"loop", "manual"}
  PROVE  LET r == DoReconnect(w, f)
         IN /\ Settled(r) /\ Others(r, w, f) /\ r.vm.session = w.vm.session
            /\ r.vm.bubbles = w.vm.bubbles
            /\ \/ r.flow[f] \in {NoFlow, Asleep}
               \/ r.flow[f].kind = w.flow[f].kind /\ r.flow[f].pc # "telling"
            /\ r.vm.snapshot = IF w.vm.session = Null THEN w.vm.snapshot ELSE Rendered(w.vm)
            /\ w.vm.session = Null => r.flow[f] \in {NoFlow, Asleep}
<1>1. PICK r : r = DoReconnect(w, f)
  OBVIOUS
<1>2. w.vm \in VmRec /\ w.flow \in [Flows -> FlowRec]
  BY WorldTyped
<1>3. CASE w.vm.session = Null
  <2>1. PICK u \in VmRec : u = SetStatus(w.vm, "disconnected")
    BY <1>2, SetStatusTyped DEF Statuses
  <2>2. /\ u.status = "disconnected" /\ u.snapshot = w.vm.snapshot /\ u.session = w.vm.session
        /\ u.bubbles = w.vm.bubbles /\ u.client = w.vm.client
        /\ u.tearing = w.vm.tearing /\ u.pending = w.vm.pending
    BY <1>2, <2>1, SetStatusIs DEF Statuses
  <2>3. PICK v : v = [u EXCEPT !.reconnecting = FALSE]
    OBVIOUS
  <2>4. /\ v.status = "disconnected" /\ v.snapshot = w.vm.snapshot /\ v.session = w.vm.session
        /\ v.bubbles = w.vm.bubbles /\ v.client = w.vm.client
        /\ v.tearing = w.vm.tearing /\ v.pending = w.vm.pending
        /\ v.reconnecting = FALSE /\ v \in VmRec
    BY <2>1, <2>2, <2>3 DEF VmRec
  <2>5. PICK x : x = [w EXCEPT !.vm = v]
    OBVIOUS
  <2>6. x \in WorldRec /\ x.vm = v /\ x.flow = w.flow
    BY <2>4, <2>5 DEF WorldRec
  <2>7. r = Finish(x, f)
    BY <1>1, <1>3, <2>1, <2>3, <2>5 DEF DoReconnect
  <2>8. Rests(x, f) /\ Looped(x)
    BY <2>4, <2>6 DEF Rests, Looped, ShapedBut, Torn, Carried
  <2>9. Ended(r, x, f)
    BY <2>6, <2>7, <2>8, FinishSettles
  <2>q. QED BY <1>1, <1>3, <2>4, <2>6, <2>9 DEF Ended, Others, SameView
<1>4. CASE w.vm.session # Null
  <2>1. PICK x : x = [w EXCEPT !.vm = Freeze(w.vm)]
    OBVIOUS
  <2>2. PICK v \in VmRec : v = Freeze(w.vm)
    BY <1>2, FreezeTyped
  <2>3. /\ v.snapshot = Rendered(w.vm) /\ v.status = w.vm.status /\ v.session = w.vm.session
        /\ v.bubbles = w.vm.bubbles /\ v.client = w.vm.client
        /\ v.tearing = w.vm.tearing /\ v.pending = w.vm.pending
        /\ v.reconnecting = w.vm.reconnecting
    BY <1>2, <2>2 DEF Freeze, Rendered, VmRec
  <2>4. x \in WorldRec /\ x.vm = v /\ x.flow = w.flow
    BY <2>1, <2>2 DEF WorldRec
  <2>5. PICK u : u = IF v.transport # Null THEN DropClient(v) ELSE v
    OBVIOUS
  <2>6. /\ u \in VmRec /\ u.snapshot = Rendered(w.vm) /\ u.status = w.vm.status
        /\ u.session = w.vm.session /\ u.bubbles = w.vm.bubbles
        /\ u.tearing = w.vm.tearing /\ u.reconnecting = w.vm.reconnecting
        /\ u.pending = "none" \/ (u.pending = w.vm.pending /\ u.client = w.vm.client)
    BY <2>2, <2>3, <2>5, DropClientIs, DropClientTyped
  <2>7. PICK z : z = [x EXCEPT !.vm = u]
    OBVIOUS
  <2>8. z \in WorldRec /\ z.vm = u /\ z.flow = w.flow
    BY <2>4, <2>6, <2>7 DEF WorldRec
  <2>9. r = IF Closes(w) THEN CloseAndWait(x, f) ELSE FindReusable(z, f)
    BY <1>1, <1>4, <2>1, <2>2, <2>4, <2>5, <2>7 DEF DoReconnect
  <2>10. Moved(CloseAndWait(x, f), x, f) /\ CloseAndWait(x, f).vm.bubbles = x.vm.bubbles
    <3>1. ShapedBut(x, f) /\ Looped(x) /\ Torn(x) /\ Carried(x) /\ Attempted(x)
      BY <2>3, <2>4 DEF ShapedBut, Looped, Torn, Carried, Attempted
    <3>q. QED BY <2>4, <3>1, CloseAndWaitSettles
  <2>11. Moved(FindReusable(z, f), z, f) /\ FindReusable(z, f).vm.bubbles = z.vm.bubbles
    <3>1. ShapedBut(z, f) /\ Looped(z) /\ Torn(z) /\ Carried(z) /\ Attempted(z)
      BY <2>6, <2>8 DEF ShapedBut, Looped, Torn, Carried, Attempted
    <3>2. z.vm.session # Null
      BY <1>4, <2>6, <2>8
    <3>q. QED BY <2>8, <3>1, <3>2, FindReusableSettles
  <2>12. \/ Moved(r, x, f) /\ r.vm.bubbles = x.vm.bubbles
         \/ Moved(r, z, f) /\ r.vm.bubbles = z.vm.bubbles
    BY <2>9, <2>10, <2>11
  <2>q. QED BY <1>1, <1>4, <2>3, <2>4, <2>6, <2>8, <2>12 DEF Moved, Others
<1>q. QED
  BY <1>3, <1>4

LEMMA AttachLiveSettles ==
  ASSUME NEW w \in WorldRec, NEW f \in Flows, NEW n \in Sockets,
         ShapedBut(w, f), Looped(w), Torn(w), w.flow[f].mode = "none", w.flow[f].kind = "live"
  PROVE  LET r == AttachLive(w, f, n)
         IN /\ Settled(r) /\ Others(r, w, f)
            /\ r.flow[f].kind = "live"
<1>1. PICK v : v = [w.vm EXCEPT !.session = w.flow[f].session]
  OBVIOUS
<1>2. w.flow[f].session \in Sessions \union {Null} /\ w.vm \in VmRec
  <2>1. w.flow[f] \in FlowRec BY WorldTyped
  <2>q. QED BY <2>1, WorldTyped DEF FlowRec
<1>3. v \in VmRec /\ v.tearing = w.vm.tearing /\ v.reconnecting = w.vm.reconnecting
  BY <1>1, <1>2 DEF VmRec
<1>4. PICK u \in VmRec : u = Freeze(v)
  BY <1>3, FreezeTyped
<1>5. u.tearing = w.vm.tearing /\ u.reconnecting = w.vm.reconnecting
  BY <1>3, <1>4 DEF Freeze, VmRec
<1>6. PICK x : x = [w EXCEPT !.vm = u]
  OBVIOUS
<1>7. x \in WorldRec /\ x.vm = u /\ x.flow = w.flow
  BY <1>4, <1>6 DEF WorldRec
<1>8. AttachLive(w, f, n) = WarmReconnect(x, f, w.flow[f].agent, n)
  BY <1>1, <1>4, <1>6 DEF AttachLive
<1>9. ShapedBut(x, f) /\ Looped(x) /\ Torn(x)
  BY <1>5, <1>7 DEF ShapedBut, Looped, Torn
<1>10. /\ Moved(WarmReconnect(x, f, w.flow[f].agent, n), x, f)
       /\ WarmReconnect(x, f, w.flow[f].agent, n).flow[f].kind = "live"
  BY <1>7, <1>9, WarmReconnectSettles
<1>q. QED
  BY <1>7, <1>8, <1>10 DEF Moved, Others

LEMMA LostConnectionSettles ==
  ASSUME NEW w \in WorldRec, NEW f \in Flows, NEW crashed \in BOOLEAN, NEW hidden, Settled(w),
         w.flow[f].kind \in {"none", "closed"}
  PROVE  Ended(LostConnection(w, f, crashed, hidden), w, f)
<1>1. PICK v : v = [w.vm EXCEPT !.error = crashed]
  OBVIOUS
<1>2. w.vm \in VmRec /\ w.flow \in [Flows -> FlowRec]
  BY WorldTyped
<1>3. /\ v \in VmRec /\ v.status = w.vm.status /\ v.snapshot = w.vm.snapshot
      /\ v.session = w.vm.session /\ v.bubbles = w.vm.bubbles /\ v.client = w.vm.client
      /\ v.tearing = w.vm.tearing /\ v.pending = w.vm.pending
      /\ v.reconnecting = w.vm.reconnecting
  <2>1. w.vm \in VmRec BY <1>2
  <2>q. QED BY <1>1, <2>1 DEF VmRec
<1>4. PICK x : x = [w EXCEPT !.vm.error = crashed]
  OBVIOUS
<1>5. x \in WorldRec /\ x.vm = v /\ x.flow = w.flow
  BY <1>1, <1>3, <1>4 DEF WorldRec
<1>6. PICK r : r = LostConnection(w, f, crashed, hidden)
  OBVIOUS
<1>7. w.flow[f].mode = "none"
  <2>1. Shape(w.flow[f]) /\ w.flow[f] \in FlowRec
    BY <1>2 DEF Settled, Kept, Shaped
  <2>q. QED BY <2>1 DEF Shape, FlowRec
<1>8. CASE hidden
  <2>1. PICK u \in VmRec : u = SetStatus(v, "disconnected")
    BY <1>3, SetStatusTyped DEF Statuses
  <2>2. /\ u.status = "disconnected" /\ u.snapshot = w.vm.snapshot /\ u.session = w.vm.session
        /\ u.bubbles = w.vm.bubbles /\ u.client = w.vm.client
        /\ u.tearing = w.vm.tearing /\ u.pending = w.vm.pending
        /\ u.reconnecting = w.vm.reconnecting
    BY <1>3, <2>1, SetStatusIs DEF Statuses
  <2>3. r = [x EXCEPT !.vm = u, !.flow[f] = NoFlow]
    BY <1>4, <1>5, <1>6, <1>8, <2>1 DEF LostConnection
  <2>4. r.vm = u /\ r.flow = [w.flow EXCEPT ![f] = NoFlow]
    BY <1>5, <2>3 DEF WorldRec
  <2>5. r.flow[f] = NoFlow /\ Others(r, w, f)
    BY <1>2, <2>4 DEF Others
  <2>6. Kept(r)
    BY <1>7, <2>2, <2>4, <2>5, RestShapes DEF Settled, Kept, Others, Shaped, Looped, Torn, Carried
  <2>7. Attempted(r) /\ Thawed(r) /\ SameView(r, w)
    BY <2>2, <2>4 DEF Attempted, Thawed, SameView
  <2>q. QED BY <1>6, <2>5, <2>6, <2>7 DEF Ended, Settled
<1>9. CASE ~hidden
  <2>1. r = ScheduleReconnect(x, f)
    BY <1>4, <1>6, <1>9 DEF LostConnection
  <2>2. Kept(x) /\ Attempted(x) /\ Thawed(x)
    BY <1>3, <1>5 DEF Settled, Kept, Shaped, Looped, Torn, Carried, Attempted, Thawed
  <2>3. Ended(r, x, f)
    BY <1>5, <2>1, <2>2, ScheduleReconnectSettles
  <2>q. QED BY <1>3, <1>5, <1>6, <2>3 DEF Ended, Others, SameView
<1>q. QED
  BY <1>8, <1>9

LEMMA HandleUnexpectedCloseSettles ==
  ASSUME NEW w \in WorldRec, NEW f \in Flows, NEW code, NEW hidden, Settled(w),
         w.flow[f].kind = "none"
  PROVE  LET r == HandleUnexpectedClose(w, f, code, hidden)
         IN /\ Settled(r) /\ Others(r, w, f) /\ SameView(r, w)
            /\ r.flow[f] = Asleep \/ r.flow[f].kind \in {"none", "closed"}
<1>1. PICK r : r = HandleUnexpectedClose(w, f, code, hidden)
  OBVIOUS
<1>2. w.vm \in VmRec /\ w.flow \in [Flows -> FlowRec] /\ w.flow[f] \in FlowRec
  BY WorldTyped
<1>3. w.flow[f].mode = "none" /\ w.flow[f].pc = "none"
  <2>1. Shape(w.flow[f])
    BY DEF Settled, Kept, Shaped
  <2>q. QED BY <1>2, <2>1 DEF Shape, FlowRec
<1>4. CASE r = w
  BY <1>1, <1>4 DEF Others, SameView
<1>5. CASE r = [w EXCEPT !.vm = [SetStatus(w.vm, "disconnected") EXCEPT !.error = TRUE]]
  <2>1. PICK u \in VmRec : u = SetStatus(w.vm, "disconnected")
    BY <1>2, SetStatusTyped DEF Statuses
  <2>2. /\ u.status = "disconnected" /\ u.snapshot = w.vm.snapshot /\ u.session = w.vm.session
        /\ u.bubbles = w.vm.bubbles /\ u.client = w.vm.client
        /\ u.tearing = w.vm.tearing /\ u.pending = w.vm.pending
        /\ u.reconnecting = w.vm.reconnecting
    BY <1>2, <2>1, SetStatusIs DEF Statuses
  <2>3. PICK v : v = [u EXCEPT !.error = TRUE]
    OBVIOUS
  <2>4. /\ v.status = "disconnected" /\ v.snapshot = w.vm.snapshot /\ v.session = w.vm.session
        /\ v.bubbles = w.vm.bubbles /\ v.client = w.vm.client
        /\ v.tearing = w.vm.tearing /\ v.pending = w.vm.pending
        /\ v.reconnecting = w.vm.reconnecting
    BY <2>1, <2>2, <2>3 DEF VmRec
  <2>5. r = [w EXCEPT !.vm = v]
    BY <1>5, <2>1, <2>3
  <2>6. r.vm = v /\ r.flow = w.flow
    BY <2>5 DEF WorldRec
  <2>7. Settled(r) /\ SameView(r, w)
    BY <2>4, <2>6 DEF Settled, Kept, Shaped, Looped, Torn, Carried, Attempted, Thawed, SameView
  <2>q. QED BY <1>1, <2>6, <2>7 DEF Others
<1>6. CASE r = LostConnection(w, f, FALSE, hidden)
  <2>1. Ended(r, w, f)
    BY <1>6, LostConnectionSettles
  <2>q. QED BY <1>1, <2>1 DEF Ended, NoFlow
<1>7. CASE r = [w EXCEPT !.flow[f] =
                  [NoFlow EXCEPT !.kind = "closed", !.pc = "inquiring", !.agent = w.vm.agent]]
  <2>1. PICK x : x = [NoFlow EXCEPT !.kind = "closed", !.pc = "inquiring", !.agent = w.vm.agent]
    OBVIOUS
  <2>2. x.kind = "closed" /\ x.pc = "inquiring" /\ x.mode = "none"
    BY <2>1 DEF NoFlow
  <2>3. Shape(x)
    BY <2>2 DEF Shape
  <2>4. r = [w EXCEPT !.flow[f] = x]
    BY <1>7, <2>1
  <2>5. r.vm = w.vm /\ r.flow = [w.flow EXCEPT ![f] = x]
    BY <2>4 DEF WorldRec
  <2>6. r.flow[f] = x /\ Others(r, w, f)
    BY <1>2, <2>5 DEF Others
  <2>7. Kept(r)
    BY <1>3, <2>2, <2>3, <2>5, <2>6 DEF Settled, Kept, Others, Shaped, Looped, Torn, Carried
  <2>8. Attempted(r) /\ Thawed(r) /\ SameView(r, w)
    BY <1>3, <2>2, <2>5, <2>6 DEF Settled, Attempted, Thawed, SameView, Others
  <2>q. QED BY <1>1, <2>2, <2>6, <2>7, <2>8 DEF Settled
<1>q. QED
  BY <1>1, <1>4, <1>5, <1>6, <1>7 DEF HandleUnexpectedClose

(* The world a step returns becomes the state. *)
LEMMA BecomeIs ==
  ASSUME NEW w \in WorldRec, Become(w)
  PROVE  /\ flow' = w.flow
         /\ vm'.status = w.vm.status /\ vm'.snapshot = w.vm.snapshot
         /\ vm'.bubbles = w.vm.bubbles /\ vm'.session = w.vm.session
         /\ vm'.tearing = w.vm.tearing /\ vm'.reconnecting = w.vm.reconnecting
         /\ vm'.pending = w.vm.pending /\ vm'.client = w.vm.client
<1>1. PICK t : t = IF w.vm.timer # Null /\ w.flow[w.vm.timer].pc # "sleeping" THEN Null ELSE w.vm.timer
  OBVIOUS
<1>2. PICK n : n = IF \E f \in Flows : w.flow[f].kind = "loop" THEN w.vm.attempt ELSE 0
  OBVIOUS
<1>3. vm' = [w.vm EXCEPT !.timer = t, !.attempt = n] /\ flow' = w.flow
  BY <1>1, <1>2 DEF Become
<1>4. w.vm \in VmRec
  BY WorldTyped
<1>q. QED
  BY <1>3, <1>4 DEF VmRec

LEMMA BecomeSettles ==
  ASSUME NEW w \in WorldRec, Become(w), Settled(w) PROVE Settled(World)'
<1>1. World'.vm = vm' /\ World'.flow = flow'
  BY DEF World
<1>2. Shaped(World)' /\ Looped(World)' /\ Torn(World)' /\ Carried(World)'
  BY <1>1, BecomeIs DEF Settled, Kept, Shaped, Looped, Torn, Carried
<1>3. Attempted(World)' /\ Thawed(World)'
  BY <1>1, BecomeIs DEF Settled, Attempted, Thawed
<1>q. QED
  BY <1>2, <1>3 DEF Settled, Kept

LEMMA InitSettled == Init => Settled(World)
<1> SUFFICES ASSUME Init PROVE Settled(World)
  OBVIOUS
<1>1. Typed
  BY InitTyped
<1>2. /\ vm.status \in {"idle", "connected"} /\ vm.snapshot = "none" /\ vm.tearing = FALSE
      /\ vm.reconnecting = FALSE /\ vm.pending = "none"
  BY DEF Init, Connected, NewVm
<1>3. \A g \in Flows : World.flow[g] = NoFlow
  BY <1>1, WorldIs DEF Init
<1>4. World.vm = vm
  BY <1>1, WorldIs
<1>q. QED
  BY <1>2, <1>3, <1>4, RestShapes DEF Settled, Kept, Shaped, Looped, Torn, Carried, Attempted, Thawed

(* What a step of a flow may come to, as far as the other flows and the     *)
(* display are concerned.                                                   *)
Outcome(w, f) ==
  /\ w \in WorldRec /\ Become(w) /\ Settled(w) /\ Others(w, World, f)
  /\ w.flow[f] \in {NoFlow, Asleep} \/ w.flow[f].kind = flow[f].kind
  /\ flow[f].kind = "closed" => w.flow[f] \in {NoFlow, Asleep} /\ SameView(w, World)
  /\ flow[f].kind \in {"loop", "manual"} =>
       \/ \* an attempt that goes on, or starts again
          /\ w.vm.snapshot = vm.snapshot /\ w.vm.session = vm.session
          /\ w.vm.bubbles \in {vm.bubbles, "blank"}
          /\ flow[f].pc # "sleeping"
          /\ w.flow[f] \in {NoFlow, Asleep} \/ w.flow[f].pc # "telling"
       \/ \* one that begins with a display frozen
          /\ w.vm.snapshot = Rendered(vm) /\ w.vm.session = vm.session
          /\ w.vm.bubbles = vm.bubbles /\ vm.session # Null
          /\ w.flow[f] \in {NoFlow, Asleep} \/ w.flow[f].pc # "telling"
       \/ \* the replay is over
          /\ w.vm.snapshot = vm.snapshot /\ w.vm.bubbles = "whole" /\ flow[f].pc = "asking"
       \/ \* one that succeeds
          /\ w.vm.snapshot \in {vm.snapshot, "none"} /\ w.vm.bubbles = vm.bubbles
          /\ w.vm.session = vm.session /\ flow[f].pc = "telling"
          /\ w.flow[f] \in {NoFlow, Asleep}
       \/ \* one that is given up
          SameView(w, World) /\ w.flow[f] \in {NoFlow, Asleep}

LEMMA FlowShape ==
  ASSUME Typed, Settled(World), NEW f \in Flows
  PROVE  /\ Shape(flow[f]) /\ World.flow = flow /\ World.vm = vm /\ World \in WorldRec
         /\ ShapedBut(World, f) /\ Looped(World) /\ Torn(World) /\ Carried(World)
         /\ Attempted(World) /\ Thawed(World) /\ Kept(World)
<1>1. World.flow = flow /\ World.vm = vm /\ World \in WorldRec
  BY WorldIs DEF Typed
<1>q. QED
  BY <1>1 DEF Settled, Kept, Shaped, ShapedBut

LEMMA WakeOutcome ==
  ASSUME Typed, Settled(World), NEW f \in Flows, Wake(f) PROVE \E w : Outcome(w, f)
<1>1. flow[f].pc = "sleeping" /\ flow[f].kind = "loop" /\ flow[f].mode = "none"
  BY FlowShape DEF Wake, Shape
<1>2. CASE vm.detached
  <2>1. PICK v : v = [vm EXCEPT !.reconnecting = FALSE]
    OBVIOUS
  <2>2. /\ v \in VmRec /\ v.status = vm.status /\ v.snapshot = vm.snapshot
        /\ v.session = vm.session /\ v.bubbles = vm.bubbles /\ v.client = vm.client
        /\ v.tearing = vm.tearing /\ v.pending = vm.pending /\ v.reconnecting = FALSE
    <3>1. vm \in VmRec BY VmIs
    <3>q. QED BY <2>1, <3>1 DEF VmRec
  <2>3. PICK w : w = [World EXCEPT !.vm.reconnecting = FALSE, !.flow[f] = NoFlow]
    OBVIOUS
  <2>4. w \in WorldRec /\ w.vm = v /\ w.flow = [flow EXCEPT ![f] = NoFlow]
    BY <2>1, <2>2, <2>3, WorldIs, NoFlowTyped DEF WorldRec, Typed
  <2>5. w.flow[f] = NoFlow /\ Others(w, World, f)
    BY <2>4, WorldIs DEF Others
  <2>6. Kept(w)
    BY <1>1, <2>2, <2>4, <2>5, FlowShape, RestShapes
       DEF Kept, Others, Shaped, ShapedBut, Looped, Torn, Carried
  <2>7. Attempted(w)
    <3>1. Attempted(World) /\ World.vm = vm /\ World.flow = flow
      BY FlowShape
    <3>q. QED BY <1>1, <2>2, <2>4, <2>5, <3>1 DEF Others, Attempted
  <2>8. Thawed(w)
    <3>1. Thawed(World) /\ World.vm = vm /\ World.flow = flow
      BY FlowShape
    <3>q. QED BY <1>1, <2>2, <2>4, <2>5, <3>1 DEF Others, Thawed
  <2>9. SameView(w, World)
    BY <2>2, <2>4, WorldIs DEF SameView
  <2>10. Become(w)
    BY <1>2, <2>3 DEF Wake
  <2>q. QED BY <1>1, <2>4, <2>5, <2>6, <2>7, <2>8, <2>9, <2>10 DEF Outcome, Settled
<1>3. CASE ~vm.detached
  <2>1. PICK w : w = DoReconnect(World, f)
    OBVIOUS
  <2>2. /\ Settled(w) /\ Others(w, World, f) /\ w.vm.session = vm.session
        /\ w.vm.bubbles = vm.bubbles
        /\ \/ w.flow[f] \in {NoFlow, Asleep}
           \/ w.flow[f].kind = flow[f].kind /\ w.flow[f].pc # "telling"
        /\ w.vm.snapshot = IF vm.session = Null THEN vm.snapshot ELSE Rendered(vm)
        /\ vm.session = Null => w.flow[f] \in {NoFlow, Asleep}
    BY <1>1, <2>1, FlowShape, DoReconnectSettles
  <2>3. w \in WorldRec /\ Become(w)
    BY <1>3, <2>1, FlowShape, DoReconnectTyped DEF Wake
  <2>4. vm.session = Null => SameView(w, World)
    BY <2>2, WorldIs DEF SameView
  <2>q. QED BY <1>1, <2>2, <2>3, <2>4 DEF Outcome
<1>q. QED
  BY <1>2, <1>3

LEMMA MovedOutcome ==
  ASSUME Typed, NEW f \in Flows, NEW x, x.flow = flow, SameView(x, World),
         NEW w \in WorldRec, Become(w), Moved(w, x, f),
         flow[f].pc # "sleeping", flow[f].kind # "closed"
  PROVE  Outcome(w, f)
<1>1. World.flow = flow /\ World.vm = vm
  BY WorldIs
<1>2. Settled(w) /\ Others(w, World, f)
  BY <1>1 DEF Moved, Others
<1>3. /\ w.vm.snapshot = vm.snapshot /\ w.vm.session = vm.session
      /\ w.vm.bubbles \in {vm.bubbles, "blank"}
      /\ w.flow[f] \in {NoFlow, Asleep} \/ (w.flow[f].kind = flow[f].kind /\ w.flow[f].pc # "telling")
  BY <1>1 DEF Moved, SameView
<1>q. QED
  BY <1>2, <1>3 DEF Outcome

LEMMA OtherOutcome ==
  ASSUME NEW f \in Flows, NEW w \in WorldRec, Become(w), Settled(w), Others(w, World, f),
         flow[f].kind \notin {"loop", "manual", "closed"},
         w.flow[f] \in {NoFlow, Asleep} \/ w.flow[f].kind = flow[f].kind
  PROVE  Outcome(w, f)
BY DEF Outcome

LEMMA SameFlows ==
  ASSUME Typed, Settled(World), NEW f \in Flows, NEW x, x.flow = flow,
         x.vm.tearing = vm.tearing, x.vm.reconnecting = vm.reconnecting
  PROVE  ShapedBut(x, f) /\ Looped(x) /\ Torn(x)
<1>1. Shaped(World) /\ Looped(World) /\ Torn(World) /\ World.flow = flow /\ World.vm = vm
  BY WorldIs DEF Settled, Kept
<1>q. QED
  BY <1>1 DEF ShapedBut, Shaped, Looped, Torn

LEMMA DrainedOutcome ==
  ASSUME Typed, Settled(World), NEW f \in Flows, Drained(f) PROVE \E w : Outcome(w, f)
<1>1. flow[f].pc = "draining" /\ flow[f].kind \in {"loop", "manual", "live"} /\ flow[f].mode = "none"
  BY FlowShape DEF Drained, Shape
<1>2. PICK v \in VmRec : v = DropClient(vm)
  BY VmIs, DropClientTyped
<1>3. PICK x : x = [World EXCEPT !.vm = v]
  OBVIOUS
<1>4. x \in WorldRec /\ x.vm = v /\ x.flow = flow
  <2>1. World \in WorldRec /\ World.flow = flow
    BY WorldIs DEF Typed
  <2>q. QED BY <1>2, <1>3, <2>1 DEF WorldRec
<1>5. /\ v.status = vm.status /\ v.snapshot = vm.snapshot /\ v.bubbles = vm.bubbles
      /\ v.session = vm.session /\ v.tearing = vm.tearing /\ v.reconnecting = vm.reconnecting
      /\ v.pending = "none"
  BY <1>2, VmIs, DropClientIs
<1>6. SameView(x, World)
  BY <1>4, <1>5, WorldIs DEF SameView
<1>7. ShapedBut(x, f) /\ Looped(x) /\ Torn(x)
  BY <1>4, <1>5, SameFlows
<1>8. CASE flow[f].kind = "live"
  <2>1. FreeSockets # {} /\ Become(AttachLive(x, f, NextSocket))
    BY <1>2, <1>3, <1>8, WorldIs DEF Drained
  <2>2. NextSocket \in Sockets
    BY <2>1, FreeAre
  <2>3. PICK w \in WorldRec : w = AttachLive(x, f, NextSocket)
    BY <1>4, <2>2, AttachLiveTyped
  <2>4. Settled(w) /\ Others(w, x, f) /\ w.flow[f].kind = "live"
    BY <1>1, <1>4, <1>7, <1>8, <2>2, <2>3, AttachLiveSettles
  <2>5. Others(w, World, f)
    BY <1>4, <2>4, WorldIs DEF Others
  <2>q. QED BY <1>8, <2>1, <2>3, <2>4, <2>5, OtherOutcome
<1>9. CASE flow[f].kind # "live"
  <2>1. Become(FindReusable(x, f))
    BY <1>2, <1>3, <1>9, WorldIs DEF Drained
  <2>2. PICK w \in WorldRec : w = FindReusable(x, f)
    BY <1>4, FindReusableTyped
  <2>3. Carried(x) /\ Attempted(x)
    BY <1>4, <1>5, FlowShape DEF Carried, Attempted
  <2>4. Moved(w, x, f)
    BY <1>1, <1>4, <1>7, <1>9, <2>2, <2>3, FindReusableSettles
  <2>q. QED BY <1>1, <1>4, <1>6, <2>1, <2>2, <2>4, MovedOutcome
<1>q. QED
  BY <1>8, <1>9

LEMMA ListedOutcome ==
  ASSUME Typed, Settled(World), NEW f \in Flows, Listed(f) PROVE \E w : Outcome(w, f)
<1>1. flow[f].pc = "listing" /\ flow[f].kind \in {"loop", "manual"} /\ flow[f].mode = "none"
  BY FlowShape DEF Listed, Shape
<1>2. Reusable # {} => Min(Reusable) \in Agents
  <2>1. Reusable \in SUBSET Nat /\ Reusable \subseteq Agents
    BY LocalSessionAssumption DEF Reusable
  <2>q. QED BY <2>1, MinIs
<1>3. World \in WorldRec /\ World.flow = flow /\ SameView(World, World)
  BY FlowShape DEF SameView
<1>4. ShapedBut(World, f) /\ Looped(World) /\ Torn(World)
  BY FlowShape
<1>5. CASE Reusable # {} /\ FreeSockets # {} /\ Become(WarmReconnect(World, f, Min(Reusable), NextSocket))
  <2>1. Min(Reusable) \in Agents \union {Null} /\ NextSocket \in Sockets
    BY <1>2, <1>5, FreeAre
  <2>2. PICK w \in WorldRec : w = WarmReconnect(World, f, Min(Reusable), NextSocket)
    BY <1>3, <2>1, WarmReconnectTyped
  <2>3. Moved(w, World, f)
    BY <1>1, <1>3, <1>4, <2>1, <2>2, WarmReconnectSettles
  <2>q. QED BY <1>1, <1>3, <1>5, <2>2, <2>3, MovedOutcome
<1>6. CASE Become(ColdReconnect(World, f))
  <2>1. PICK w \in WorldRec : w = ColdReconnect(World, f)
    BY <1>3, ColdReconnectTyped
  <2>2. Moved(w, World, f)
    BY <1>1, <1>3, <1>4, <2>1, ColdReconnectSettles
  <2>q. QED BY <1>1, <1>3, <1>6, <2>1, <2>2, MovedOutcome
<1>q. QED
  BY <1>5, <1>6 DEF Listed

LEMMA ConnectFailedOutcome ==
  ASSUME Typed, Settled(World), NEW f \in Flows, NEW x \in WorldRec, x.vm = vm, x.flow = flow,
         flow[f].mode \in {"attach", "load", "cold"}, Become(ConnectFailed(x, f))
  PROVE  \E w : Outcome(w, f)
<1>1. /\ flow[f].pc # "sleeping" /\ flow[f].kind # "closed"
      /\ flow[f].mode = "cold" \/ flow[f].kind = "attach"
  <2>1. Shape(flow[f]) BY FlowShape
  <2>q. QED BY <2>1 DEF Shape
<1>2. SameView(x, World)
  BY WorldIs DEF SameView
<1>3. ShapedBut(x, f) /\ Looped(x) /\ Torn(x)
  BY SameFlows
<1>4. PICK w \in WorldRec : w = ConnectFailed(x, f)
  BY ConnectFailedTyped
<1>5. /\ Settled(w) /\ Others(w, x, f) /\ w.flow[f] \in {NoFlow, Asleep}
      /\ flow[f].mode = "cold" => Moved(w, x, f)
  BY <1>1, <1>3, <1>4, ConnectFailedSettles
<1>6. CASE flow[f].mode = "cold"
  BY <1>1, <1>2, <1>4, <1>5, <1>6, MovedOutcome
<1>7. CASE flow[f].kind = "attach"
  <2>1. Others(w, World, f)
    BY <1>5, WorldIs DEF Others
  <2>q. QED BY <1>4, <1>5, <1>7, <2>1, OtherOutcome
<1>q. QED
  BY <1>1, <1>6, <1>7

LEMMA CreatedOutcome ==
  ASSUME Typed, Settled(World), NEW f \in Flows, Created(f) PROVE \E w : Outcome(w, f)
<1>1. /\ flow[f].pc = "creating" /\ flow[f].mode \in {"attach", "load", "cold"}
      /\ flow[f].kind \notin {"none", "closed"}
  BY FlowShape DEF Created, Shape
<1>2. CASE FreeAgents # {} /\ FreeSockets # {} /\ ~Become(ConnectFailed(World, f))
  <2>1. PICK a \in Agents, n \in Sockets : a = NextAgent /\ n = NextSocket
    BY <1>2, FreeAre
  <2>2. PICK v : v = [vm EXCEPT !.agent = a, !.transport = n]
    OBVIOUS
  <2>3. /\ v \in VmRec /\ v.status = vm.status /\ v.snapshot = vm.snapshot
        /\ v.session = vm.session /\ v.bubbles = vm.bubbles /\ v.client = vm.client
        /\ v.tearing = vm.tearing /\ v.pending = vm.pending /\ v.reconnecting = vm.reconnecting
    <3>1. vm \in VmRec BY VmIs
    <3>q. QED BY <2>2, <3>1 DEF VmRec
  <2>4. PICK x : x = [flow[f] EXCEPT !.pc = "dialing", !.sock = n, !.agent = a]
    OBVIOUS
  <2>5. x \in FlowRec /\ x.pc = "dialing" /\ x.mode = flow[f].mode /\ x.kind = flow[f].kind /\ x.sock = n
    <3>1. flow[f] \in FlowRec BY FlowIs
    <3>q. QED BY <2>4, <3>1 DEF FlowRec, Pcs
  <2>6. [agent[a] EXCEPT !.st = "live"] \in AgentRec /\ Dial(a, TRUE) \in SockRec
    <3>1. agent[a] \in AgentRec BY WorldIs
    <3>q. QED BY <3>1 DEF AgentRec, Dial, SockRec
  <2>7. PICK g : g = [agent[a] EXCEPT !.st = "live"]
    OBVIOUS
  <2>8. PICK w : w = [World EXCEPT !.agent[a] = g, !.sock[n] = Dial(a, TRUE), !.vm = v, !.flow[f] = x]
    OBVIOUS
  <2>9. Become(w)
    BY <1>2, <2>1, <2>2, <2>4, <2>7, <2>8, WorldIs DEF Created
  <2>10. w \in WorldRec /\ w.vm = v /\ w.flow = [flow EXCEPT ![f] = x]
    <3>1. World \in WorldRec /\ World.flow = flow BY WorldIs DEF Typed
    <3>q. QED BY <2>3, <2>5, <2>6, <2>7, <2>8, <3>1 DEF WorldRec
  <2>11. w.flow[f] = x /\ Others(w, World, f)
    BY <2>10, WorldIs DEF Others
  <2>12. Shape(x)
    <3>1. Shape(flow[f]) BY FlowShape
    <3>q. QED BY <1>1, <2>5, <3>1 DEF Shape
  <2>13. Kept(w)
    BY <2>3, <2>5, <2>10, <2>11, <2>12, FlowShape
       DEF Kept, Others, Shaped, ShapedBut, Looped, Torn, Carried
  <2>14. Attempted(w)
    <3>1. Attempted(World) /\ World.vm = vm /\ World.flow = flow
      BY FlowShape
    <3>q. QED BY <1>1, <2>3, <2>5, <2>10, <2>11, <3>1 DEF Others, Attempted
  <2>15. Thawed(w)
    <3>1. Thawed(World) /\ World.vm = vm /\ World.flow = flow
      BY FlowShape
    <3>q. QED BY <1>1, <2>3, <2>5, <2>10, <2>11, <3>1 DEF Others, Thawed
  <2>16. Moved(w, World, f)
    BY <2>3, <2>5, <2>10, <2>11, <2>13, <2>14, <2>15, WorldIs DEF Moved, Settled
  <2>17. SameView(World, World)
    BY DEF SameView
  <2>q. QED BY <1>1, <2>9, <2>10, <2>16, <2>17, WorldIs, MovedOutcome
<1>3. CASE Become(ConnectFailed(World, f))
  <2>1. World \in WorldRec /\ World.vm = vm /\ World.flow = flow
    BY WorldIs DEF Typed
  <2>q. QED BY <1>1, <1>3, <2>1, ConnectFailedOutcome
<1>q. QED
  BY <1>2, <1>3 DEF Created

LEMMA GoesOn ==
  ASSUME Typed, Settled(World), NEW f \in Flows, NEW w, NEW v, NEW x,
         w.vm = v, w.flow = [flow EXCEPT ![f] = x], Carried(w),
         v.status = vm.status, v.snapshot = vm.snapshot,
         v.tearing = vm.tearing, v.reconnecting = vm.reconnecting,
         Shape(x), x.kind = flow[f].kind, x.mode = flow[f].mode, x.mode # "none"
  PROVE  Settled(w) /\ w.flow[f] = x /\ Others(w, World, f) /\ flow[f].kind # "closed"
<1>1. w.flow[f] = x /\ Others(w, World, f)
  BY WorldIs DEF Others
<1>2. Kept(w)
  BY <1>1, FlowShape DEF Kept, Others, Shaped, ShapedBut, Looped, Torn
<1>3. x.kind # "closed" /\ flow[f].pc \notin {"draining", "listing", "inquiring"}
  <2>1. Shape(flow[f]) BY FlowShape
  <2>q. QED BY <2>1 DEF Shape
<1>4. Attempted(w)
  <2>1. Attempted(World) /\ World.vm = vm /\ World.flow = flow
    BY FlowShape
  <2>q. QED BY <1>1, <1>3, <2>1 DEF Others, Attempted
<1>5. Thawed(w)
  <2>1. Thawed(World) /\ World.vm = vm /\ World.flow = flow
    BY FlowShape
  <2>q. QED BY <1>1, <1>3, <2>1 DEF Others, Thawed
<1>q. QED
  BY <1>1, <1>2, <1>3, <1>4, <1>5 DEF Settled

LEMMA OpenedOutcome ==
  ASSUME Typed, Settled(World), NEW f \in Flows, Opened(f) PROVE \E w : Outcome(w, f)
<1>1. PICK s : s = flow[f].sock
  OBVIOUS
<1>2. /\ flow[f].pc = "dialing" /\ flow[f].mode \in {"attach", "load", "cold", "warm"} /\ s \in Sockets
      /\ flow[f].mode = "warm" => flow[f].kind \in {"loop", "manual", "live"}
  BY <1>1, FlowShape DEF Opened, Shape
<1>3. PICK held \in BOOLEAN :
        LET w == Accept(World, s, held)
        IN IF flow[f].mode = "warm"
           THEN Become([w EXCEPT
                  !.sock[s].heard = TRUE,
                  !.vm = [@ EXCEPT !.agent = flow[f].agent, !.client = s, !.bubbles = "blank"],
                  !.flow[f] = [@ EXCEPT !.pc = "asking", !.session = vm.session]])
           ELSE Become([w EXCEPT !.flow[f].pc = "greeting"])
  BY <1>1 DEF Opened
<1>4. PICK w : w = Accept(World, s, held)
  OBVIOUS
<1>5. w \in WorldRec /\ w.vm = vm /\ w.flow = flow
  BY <1>4, AcceptTyped DEF Typed, Accept, World
<1>6. SameView(World, World) /\ World.flow = flow
  BY WorldIs DEF SameView
<1>7. CASE flow[f].mode = "warm"
  <2>1. PICK v : v = [vm EXCEPT !.agent = flow[f].agent, !.client = s, !.bubbles = "blank"]
    OBVIOUS
  <2>2. /\ v \in VmRec /\ v.status = vm.status /\ v.snapshot = vm.snapshot
        /\ v.session = vm.session /\ v.bubbles = "blank" /\ v.client = s
        /\ v.tearing = vm.tearing /\ v.reconnecting = vm.reconnecting
    <3>1. vm \in VmRec /\ flow[f].agent \in Agents \union {Null} BY VmIs, FlowIs
    <3>q. QED BY <1>2, <2>1, <3>1 DEF VmRec, View
  <2>3. PICK x : x = [flow[f] EXCEPT !.pc = "asking", !.session = vm.session]
    OBVIOUS
  <2>4. x \in FlowRec /\ x.pc = "asking" /\ x.kind = flow[f].kind /\ x.mode = flow[f].mode
    <3>1. flow[f] \in FlowRec /\ vm.session \in Sessions \union {Null} BY VmIs, FlowIs
    <3>q. QED BY <2>3, <3>1 DEF FlowRec, Pcs
  <2>5. PICK k : k = [w.sock[s] EXCEPT !.heard = TRUE]
    OBVIOUS
  <2>6. k \in SockRec
    <3>1. w.sock \in [Sockets -> SockRec] BY <1>5, WorldTyped
    <3>q. QED BY <1>2, <2>5, <3>1 DEF SockRec
  <2>7. PICK r : r = [w EXCEPT !.sock[s] = k, !.vm = v, !.flow[f] = x]
    OBVIOUS
  <2>8. r \in WorldRec /\ r.vm = v /\ r.flow = [flow EXCEPT ![f] = x]
    BY <1>5, <2>2, <2>4, <2>6, <2>7 DEF WorldRec
  <2>9. Become(r)
    BY <1>3, <1>4, <1>5, <1>7, <2>1, <2>3, <2>5, <2>7
  <2>10. Shape(x)
    BY <1>2, <1>7, <2>4 DEF Shape
  <2>11. Carried(r)
    <3>1. v.client # Null BY <1>2, <2>2, LocalSessionAssumption
    <3>q. QED BY <2>8, <3>1 DEF Carried
  <2>12. Settled(r) /\ r.flow[f] = x /\ Others(r, World, f) /\ flow[f].kind # "closed"
    BY <1>7, <2>2, <2>4, <2>8, <2>10, <2>11, GoesOn
  <2>13. Moved(r, World, f)
    BY <2>2, <2>4, <2>8, <2>12, WorldIs DEF Moved
  <2>q. QED BY <1>2, <1>6, <2>8, <2>9, <2>12, <2>13, MovedOutcome
<1>8. CASE flow[f].mode # "warm"
  <2>1. PICK x : x = [flow[f] EXCEPT !.pc = "greeting"]
    OBVIOUS
  <2>2. /\ x \in FlowRec /\ x.pc = "greeting" /\ x.kind = flow[f].kind /\ x.mode = flow[f].mode
        /\ x.sock = s
    <3>1. flow[f] \in FlowRec BY FlowIs
    <3>q. QED BY <1>1, <2>1, <3>1 DEF FlowRec, Pcs
  <2>3. PICK r : r = [w EXCEPT !.flow[f] = x]
    OBVIOUS
  <2>4. r \in WorldRec /\ r.vm = vm /\ r.flow = [flow EXCEPT ![f] = x]
    BY <1>5, <2>2, <2>3 DEF WorldRec
  <2>5. Become(r)
    BY <1>3, <1>4, <1>5, <1>8, <2>1, <2>3
  <2>6. Shape(x)
    <3>1. Shape(flow[f]) BY FlowShape
    <3>q. QED BY <1>2, <1>8, <2>2, <3>1 DEF Shape
  <2>7. Carried(r)
    BY <2>4, FlowShape DEF Carried
  <2>8. Settled(r) /\ r.flow[f] = x /\ Others(r, World, f) /\ flow[f].kind # "closed"
    BY <1>2, <2>2, <2>4, <2>6, <2>7, GoesOn
  <2>9. Moved(r, World, f)
    BY <2>2, <2>4, <2>8, WorldIs DEF Moved
  <2>q. QED BY <1>2, <1>6, <2>4, <2>5, <2>8, <2>9, MovedOutcome
<1>q. QED
  BY <1>7, <1>8

LEMMA WarmFailedOutcome ==
  ASSUME Typed, Settled(World), NEW f \in Flows, NEW x \in WorldRec, x.flow = flow,
         x.vm.tearing = vm.tearing, x.vm.reconnecting = vm.reconnecting,
         SameView(x, World), Carried(x), flow[f].mode = "warm", Become(WarmFailed(x, f))
  PROVE  \E w : Outcome(w, f)
<1>1. flow[f].kind \in {"loop", "manual", "live"} /\ flow[f].pc # "sleeping"
  <2>1. Shape(flow[f]) BY FlowShape
  <2>q. QED BY <2>1 DEF Shape
<1>2. ShapedBut(x, f) /\ Looped(x) /\ Torn(x)
  BY SameFlows
<1>3. PICK w \in WorldRec : w = WarmFailed(x, f)
  BY WarmFailedTyped
<1>4. Moved(w, x, f)
  BY <1>1, <1>2, <1>3, WarmFailedSettles
<1>q. QED
  BY <1>1, <1>3, <1>4, MovedOutcome

LEMMA OpenFailsOutcome ==
  ASSUME Typed, Settled(World), NEW f \in Flows, OpenFails(f) PROVE \E w : Outcome(w, f)
<1>1. PICK s : s = flow[f].sock
  OBVIOUS
<1>2. flow[f].pc = "dialing" /\ flow[f].mode \in {"attach", "load", "cold", "warm"} /\ s \in Sockets
  BY <1>1, FlowShape DEF OpenFails, Shape
<1>3. PICK k : k = IF sock[s].st = "dialing" THEN [sock[s] EXCEPT !.st = "closing", !.code = "lost"]
                   ELSE sock[s]
  OBVIOUS
<1>4. k \in SockRec
  <2>1. sock[s] \in SockRec BY <1>2, WorldIs
  <2>q. QED BY <1>3, <2>1 DEF SockRec
<1>5. PICK x : x = [World EXCEPT !.sock[s] = k]
  OBVIOUS
<1>6. x \in WorldRec /\ x.vm = vm /\ x.flow = flow
  <2>1. World \in WorldRec /\ World.flow = flow /\ World.vm = vm BY WorldIs DEF Typed
  <2>q. QED BY <1>4, <1>5, <2>1 DEF WorldRec
<1>7. Become(IF flow[f].mode = "warm" THEN WarmFailed(x, f) ELSE ConnectFailed(x, f))
  BY <1>1, <1>3, <1>5, WorldIs DEF OpenFails
<1>8. SameView(x, World) /\ Carried(x)
  BY <1>6, FlowShape DEF SameView, Carried
<1>q. QED
  BY <1>2, <1>6, <1>7, <1>8, WarmFailedOutcome, ConnectFailedOutcome

LEMMA GreetedOutcome ==
  ASSUME Typed, Settled(World), NEW f \in Flows, Greeted(f) PROVE \E w : Outcome(w, f)
<1>1. /\ flow[f].pc = "greeting" /\ flow[f].sock \in Sockets
      /\ flow[f].mode \in {"attach", "load", "cold"}
  BY FlowShape DEF Greeted, Shape
<1>2. PICK v : v = [vm EXCEPT !.client = flow[f].sock]
  OBVIOUS
<1>3. /\ v \in VmRec /\ v.status = vm.status /\ v.snapshot = vm.snapshot
      /\ v.session = vm.session /\ v.bubbles = vm.bubbles /\ v.client = flow[f].sock
      /\ v.tearing = vm.tearing /\ v.reconnecting = vm.reconnecting
  <2>1. vm \in VmRec BY VmIs
  <2>q. QED BY <1>1, <1>2, <2>1 DEF VmRec
<1>4. PICK x : x = [flow[f] EXCEPT !.pc = "asking"]
  OBVIOUS
<1>5. x \in FlowRec /\ x.pc = "asking" /\ x.kind = flow[f].kind /\ x.mode = flow[f].mode
  <2>1. flow[f] \in FlowRec BY FlowIs
  <2>q. QED BY <1>4, <2>1 DEF FlowRec, Pcs
<1>6. PICK r : r = [World EXCEPT !.vm = v, !.flow[f] = x]
  OBVIOUS
<1>7. r \in WorldRec /\ r.vm = v /\ r.flow = [flow EXCEPT ![f] = x]
  <2>1. World \in WorldRec /\ World.flow = flow BY WorldIs DEF Typed
  <2>q. QED BY <1>3, <1>5, <1>6, <2>1 DEF WorldRec
<1>8. Become(r)
  BY <1>2, <1>4, <1>6, WorldIs DEF Greeted
<1>9. Shape(x)
  <2>1. Shape(flow[f]) BY FlowShape
  <2>q. QED BY <1>1, <1>5, <2>1 DEF Shape
<1>10. Carried(r)
  <2>1. v.client # Null BY <1>1, <1>3, LocalSessionAssumption
  <2>q. QED BY <1>7, <2>1 DEF Carried
<1>11. Settled(r) /\ r.flow[f] = x /\ Others(r, World, f) /\ flow[f].kind # "closed"
  BY <1>1, <1>3, <1>5, <1>7, <1>9, <1>10, GoesOn
<1>12. Moved(r, World, f)
  BY <1>3, <1>5, <1>7, <1>11, WorldIs DEF Moved
<1>13. SameView(World, World) /\ World.flow = flow
  BY WorldIs DEF SameView
<1>q. QED
  BY <1>1, <1>7, <1>8, <1>11, <1>12, <1>13, MovedOutcome

LEMMA GreetFailsOutcome ==
  ASSUME Typed, Settled(World), NEW f \in Flows, GreetFails(f) PROVE \E w : Outcome(w, f)
<1>1. flow[f].pc = "greeting" /\ flow[f].mode \in {"attach", "load", "cold"}
  BY FlowShape DEF GreetFails, Shape
<1>2. PICK x : x = [World EXCEPT !.sock = Shut(sock, flow[f].sock)]
  OBVIOUS
<1>3. x \in WorldRec /\ x.vm = vm /\ x.flow = flow
  <2>1. World \in WorldRec /\ World.flow = flow /\ World.vm = vm BY WorldIs DEF Typed
  <2>2. Shut(sock, flow[f].sock) \in [Sockets -> SockRec] BY WorldIs, ShutTyped
  <2>q. QED BY <1>2, <2>1, <2>2 DEF WorldRec
<1>4. Become(ConnectFailed(x, f))
  BY <1>2, WorldIs DEF GreetFails
<1>q. QED
  BY <1>1, <1>3, <1>4, ConnectFailedOutcome

LEMMA AskedOutcome ==
  ASSUME Typed, Settled(World), NEW f \in Flows, Asked(f) PROVE \E w : Outcome(w, f)
<1>1. flow[f].pc = "asking" /\ flow[f].mode # "none" /\ flow[f].kind # "closed"
  BY FlowShape DEF Asked, Shape
<1>5. PICK about \in Sessions \union {Null}, whose \in Agents \union {Null} :
        Become([World EXCEPT
          !.vm = [vm EXCEPT !.bubbles = "whole", !.session = about],
          !.flow[f] = [flow[f] EXCEPT !.pc = "telling", !.session = about, !.agent = whose]])
  <2>1. PICK s \in Answer(f) :
          LET about == IF flow[f].mode = "warm" THEN vm.session ELSE s
              whose == IF flow[f].mode \in {"switch", "new"} THEN vm.agent ELSE flow[f].agent
          IN Become([World EXCEPT
               !.vm = [vm EXCEPT !.bubbles = "whole", !.session = about],
               !.flow[f] = [flow[f] EXCEPT !.pc = "telling", !.session = about, !.agent = whose]])
    BY WorldIs DEF Asked
  <2>2. PICK about : about = IF flow[f].mode = "warm" THEN vm.session ELSE s
    OBVIOUS
  <2>3. PICK whose : whose = IF flow[f].mode \in {"switch", "new"} THEN vm.agent ELSE flow[f].agent
    OBVIOUS
  <2>4. about \in Sessions \union {Null} /\ whose \in Agents \union {Null}
    BY <2>2, <2>3, AnswerIs, VmIs, FlowIs
  <2>q. QED BY <2>1, <2>2, <2>3, <2>4
<1>6. PICK v : v = [vm EXCEPT !.bubbles = "whole", !.session = about]
  OBVIOUS
<1>7. /\ v \in VmRec /\ v.status = vm.status /\ v.snapshot = vm.snapshot /\ v.bubbles = "whole"
      /\ v.client = vm.client /\ v.pending = vm.pending
      /\ v.tearing = vm.tearing /\ v.reconnecting = vm.reconnecting
  <2>1. vm \in VmRec BY VmIs
  <2>q. QED BY <1>5, <1>6, <2>1 DEF VmRec, View
<1>8. PICK x : x = [flow[f] EXCEPT !.pc = "telling", !.session = about, !.agent = whose]
  OBVIOUS
<1>9. x \in FlowRec /\ x.pc = "telling" /\ x.kind = flow[f].kind /\ x.mode = flow[f].mode
  <2>1. flow[f] \in FlowRec BY FlowIs
  <2>q. QED BY <1>5, <1>8, <2>1 DEF FlowRec, Pcs
<1>10. PICK r : r = [World EXCEPT !.vm = v, !.flow[f] = x]
  OBVIOUS
<1>11. r \in WorldRec /\ r.vm = v /\ r.flow = [flow EXCEPT ![f] = x]
  <2>1. World \in WorldRec /\ World.flow = flow BY WorldIs DEF Typed
  <2>q. QED BY <1>7, <1>9, <1>10, <2>1 DEF WorldRec
<1>12. Become(r)
  BY <1>5, <1>6, <1>8, <1>10
<1>13. Shape(x)
  <2>1. Shape(flow[f]) BY FlowShape
  <2>q. QED BY <1>1, <1>9, <2>1 DEF Shape
<1>14. Carried(r)
  BY <1>7, <1>11, FlowShape DEF Carried
<1>15. Settled(r) /\ r.flow[f] = x /\ Others(r, World, f) /\ flow[f].kind # "closed"
  <2>1. /\ r.vm = v /\ r.flow = [flow EXCEPT ![f] = x]
        /\ v.status = vm.status /\ v.snapshot = vm.snapshot
        /\ v.tearing = vm.tearing /\ v.reconnecting = vm.reconnecting
        /\ x.kind = flow[f].kind /\ x.mode = flow[f].mode /\ x.mode # "none"
    BY <1>1, <1>7, <1>9, <1>11
  <2>q. QED BY <1>13, <1>14, <2>1, GoesOn
<1>q. QED
  BY <1>1, <1>7, <1>9, <1>11, <1>12, <1>15 DEF Outcome

LEMMA AskFailsOutcome ==
  ASSUME Typed, Settled(World), NEW f \in Flows, AskFails(f) PROVE \E w : Outcome(w, f)
<1>1. /\ flow[f].pc = "asking" /\ flow[f].mode # "none" /\ flow[f].kind # "closed"
      /\ flow[f].mode \in {"switch", "new"} => flow[f].kind = "switch"
  BY FlowShape DEF AskFails, Shape
<1>2. CASE flow[f].mode = "warm"
  <2>1. PICK v \in VmRec : v = DropClient(vm)
    BY VmIs, DropClientTyped
  <2>2. /\ v.snapshot = vm.snapshot /\ v.bubbles = vm.bubbles /\ v.session = vm.session
        /\ v.tearing = vm.tearing /\ v.reconnecting = vm.reconnecting /\ v.pending = "none"
    BY <2>1, VmIs, DropClientIs
  <2>3. PICK x : x = [World EXCEPT !.vm = v, !.sock = Shut(sock, flow[f].sock)]
    OBVIOUS
  <2>4. x \in WorldRec /\ x.vm = v /\ x.flow = flow
    <3>1. World \in WorldRec /\ World.flow = flow BY WorldIs DEF Typed
    <3>2. Shut(sock, flow[f].sock) \in [Sockets -> SockRec] BY WorldIs, ShutTyped
    <3>q. QED BY <2>1, <2>3, <3>1, <3>2 DEF WorldRec
  <2>5. Become(WarmFailed(x, f))
    BY <1>2, <2>1, <2>3, WorldIs DEF AskFails
  <2>6. SameView(x, World) /\ Carried(x)
    BY <2>2, <2>4, WorldIs DEF SameView, Carried
  <2>q. QED BY <1>2, <2>2, <2>4, <2>5, <2>6, WarmFailedOutcome
<1>3. CASE flow[f].mode \in {"switch", "new"}
  <2>1. PICK u \in VmRec : u = SetStatus(vm, "error")
    BY VmIs, SetStatusTyped DEF Statuses
  <2>2. /\ u.status = "error" /\ u.tearing = vm.tearing /\ u.pending = vm.pending
        /\ u.client = vm.client /\ u.reconnecting = vm.reconnecting
    BY <2>1, VmIs, SetStatusIs DEF Statuses
  <2>3. PICK v : v = [u EXCEPT !.error = TRUE]
    OBVIOUS
  <2>4. /\ v \in VmRec /\ v.status = "error" /\ v.tearing = vm.tearing /\ v.pending = vm.pending
        /\ v.client = vm.client /\ v.reconnecting = vm.reconnecting
    BY <2>1, <2>2, <2>3 DEF VmRec
  <2>5. PICK w : w = [World EXCEPT !.vm = v, !.flow[f] = NoFlow]
    OBVIOUS
  <2>6. w \in WorldRec /\ w.vm = v /\ w.flow = [flow EXCEPT ![f] = NoFlow]
    <3>1. World \in WorldRec /\ World.flow = flow BY WorldIs DEF Typed
    <3>q. QED BY <2>4, <2>5, <3>1, NoFlowTyped DEF WorldRec
  <2>7. Become(w)
    BY <1>3, <2>1, <2>3, <2>5, WorldIs DEF AskFails
  <2>8. w.flow[f] = NoFlow /\ Others(w, World, f)
    BY <2>6, WorldIs DEF Others
  <2>9. Kept(w)
    BY <1>1, <1>3, <2>4, <2>6, <2>8, FlowShape, RestShapes
       DEF Kept, Others, Shaped, ShapedBut, Looped, Torn, Carried
  <2>10. Attempted(w) /\ Thawed(w)
    BY <2>4, <2>6 DEF Attempted, Thawed
  <2>q. QED BY <1>1, <1>3, <2>6, <2>7, <2>8, <2>9, <2>10, OtherOutcome DEF Settled
<1>4. CASE flow[f].mode \notin {"warm", "switch", "new"}
  <2>1. flow[f].mode \in {"attach", "load", "cold"}
    BY <1>1, <1>4, FlowIs DEF Modes
  <2>2. Become(ConnectFailed(World, f))
    BY <1>4 DEF AskFails
  <2>q. QED BY <2>1, <2>2, WorldIs, ConnectFailedOutcome DEF Typed
<1>q. QED
  BY <1>2, <1>3, <1>4

LEMMA ToldRests ==
  ASSUME Typed, Settled(World), NEW f \in Flows, flow[f].pc = "telling", NEW y, y.flow = flow,
         y.vm.status = "connected",
         y.vm.snapshot = IF vm.status # "connected" THEN "none" ELSE vm.snapshot,
         y.vm.pending = vm.pending, y.vm.client = vm.client,
         \/ y.vm.tearing = FALSE
         \/ y.vm.tearing = vm.tearing /\ flow[f].mode # "cold"
  PROVE  Rests(y, f)
<1>1. Torn(World) /\ Carried(World) /\ ShapedBut(World, f) /\ World.flow = flow /\ World.vm = vm
  BY FlowShape
<1>2. y.vm.tearing => \E g \in Flows \ {f} : y.flow[g].mode = "cold"
  BY <1>1 DEF Torn
<1>3. ShapedBut(y, f) /\ Carried(y)
  BY <1>1 DEF ShapedBut, Carried
<1>4. y.vm.snapshot # "none" =>
        \E g \in Flows \ {f} : /\ y.flow[g].kind \in {"loop", "manual", "live"}
                               /\ y.flow[g].pc \in {"draining", "listing"}
  <2>1. Thawed(World) /\ World.vm = vm /\ World.flow = flow
    BY FlowShape
  <2>q. QED BY <2>1 DEF Thawed
<1>q. QED
  BY <1>2, <1>3, <1>4 DEF Rests

LEMMA ToldOutcome ==
  ASSUME Typed, Settled(World), NEW f \in Flows, Told(f) PROVE \E w : Outcome(w, f)
<1>1. PICK lost \in BOOLEAN :
        LET a == flow[f].agent
            w == [World EXCEPT
                    !.vm = SetStatus(@, "connected"),
                    !.agent = IF lost \/ a = Null \/ flow[f].session = Null \/ @[a].st # "live" THEN @
                              ELSE [@ EXCEPT ![a].session = flow[f].session]]
        IN Become(IF flow[f].mode = "cold" THEN ColdDone(w, f)
                  ELSE IF flow[f].kind \in {"loop", "manual"} THEN Finish(OnReconnectSuccess(w), f)
                  ELSE [w EXCEPT !.flow[f] = NoFlow])
  BY DEF Told
<1>2. /\ flow[f].pc = "telling" /\ flow[f].kind \notin {"none", "closed"}
      /\ flow[f].mode = "cold" => flow[f].kind \in {"loop", "manual"}
  BY FlowShape DEF Told, Shape
<1>3. PICK g : g = IF lost \/ flow[f].agent = Null \/ flow[f].session = Null
                      \/ agent[flow[f].agent].st # "live" THEN agent
                   ELSE [agent EXCEPT ![flow[f].agent].session = flow[f].session]
  OBVIOUS
<1>4. g \in [Agents -> AgentRec]
  <2>1. agent \in [Agents -> AgentRec] /\ flow[f].session \in Sessions \union {Null}
    BY WorldIs, FlowIs
  <2>q. QED BY <1>3, <2>1 DEF AgentRec
<1>5. PICK v \in VmRec : v = SetStatus(vm, "connected")
  BY VmIs, SetStatusTyped DEF Statuses
<1>6. /\ v.status = "connected" /\ v.bubbles = vm.bubbles /\ v.session = vm.session
      /\ v.snapshot = (IF vm.status # "connected" THEN "none" ELSE vm.snapshot)
      /\ v.tearing = vm.tearing /\ v.pending = vm.pending /\ v.client = vm.client
      /\ v.reconnecting = vm.reconnecting
  BY <1>5, VmIs, SetStatusIs DEF Statuses
<1>7. PICK w : w = [World EXCEPT !.vm = v, !.agent = g]
  OBVIOUS
<1>8. w \in WorldRec /\ w.vm = v /\ w.flow = flow
  <2>1. World \in WorldRec /\ World.flow = flow BY WorldIs DEF Typed
  <2>q. QED BY <1>4, <1>5, <1>7, <2>1 DEF WorldRec
<1>9. Become(IF flow[f].mode = "cold" THEN ColdDone(w, f)
             ELSE IF flow[f].kind \in {"loop", "manual"} THEN Finish(OnReconnectSuccess(w), f)
             ELSE [w EXCEPT !.flow[f] = NoFlow])
  BY <1>1, <1>3, <1>5, <1>7, WorldIs
<1>10. Looped(w)
  BY <1>6, <1>8, SameFlows
<1>11. ASSUME NEW r \in WorldRec, Become(r), Ended(r, w, f), flow[f].kind \in {"loop", "manual"}
       PROVE  Outcome(r, f)
  <2>1. Settled(r) /\ Others(r, World, f) /\ r.flow[f] \in {NoFlow, Asleep}
    BY <1>8, <1>11, WorldIs DEF Ended, Others
  <2>2. /\ r.vm.snapshot \in {vm.snapshot, "none"} /\ r.vm.bubbles = vm.bubbles
        /\ r.vm.session = vm.session
    BY <1>6, <1>8, <1>11 DEF Ended, SameView
  <2>q. QED BY <1>2, <1>11, <2>1, <2>2 DEF Outcome
<1>12. CASE flow[f].mode = "cold"
  <2>1. PICK r \in WorldRec : r = ColdDone(w, f)
    BY <1>8, ColdDoneTyped
  <2>2. Rests([w EXCEPT !.vm.tearing = FALSE], f)
    <3>1. PICK u : u = [v EXCEPT !.tearing = FALSE]
      OBVIOUS
    <3>2. PICK y : y = [w EXCEPT !.vm.tearing = FALSE]
      OBVIOUS
    <3>3. y.vm = u /\ y.flow = flow
      BY <1>8, <3>1, <3>2 DEF WorldRec
    <3>4. /\ u.status = v.status /\ u.snapshot = v.snapshot /\ u.tearing = FALSE
          /\ u.pending = v.pending /\ u.client = v.client
      BY <1>5, <3>1 DEF VmRec
    <3>5. Rests(y, f)
      BY <1>2, <1>6, <3>3, <3>4, ToldRests
    <3>q. QED BY <3>2, <3>5
  <2>3. Ended(r, w, f)
    BY <1>8, <1>10, <2>1, <2>2, ColdDoneSettles
  <2>q. QED BY <1>2, <1>9, <1>11, <1>12, <2>1, <2>3
<1>13. CASE flow[f].mode # "cold" /\ flow[f].kind \in {"loop", "manual"}
  <2>1. PICK y \in WorldRec : y = OnReconnectSuccess(w)
    BY <1>8, OnReconnectSuccessTyped
  <2>2. /\ y.flow = flow /\ y.vm.status = "connected" /\ y.vm.reconnecting = v.reconnecting
        /\ y.vm.tearing = v.tearing /\ y.vm.pending = v.pending
        /\ y.vm.client = v.client /\ SameView(y, w)
    BY <1>6, <1>8, <2>1, OnReconnectSuccessIs
  <2>3. y.vm.snapshot = v.snapshot
    BY <1>8, <2>2 DEF SameView
  <2>4. Rests(y, f)
    BY <1>2, <1>6, <1>13, <2>2, <2>3, ToldRests
  <2>5. Looped(y)
    BY <1>6, <2>2, SameFlows, <1>10, <1>8 DEF Looped
  <2>6. PICK r \in WorldRec : r = Finish(y, f)
    BY FinishTyped
  <2>7. Ended(r, y, f)
    BY <2>4, <2>5, <2>6, FinishSettles
  <2>8. Ended(r, w, f)
    BY <1>8, <2>2, <2>7 DEF Ended, Others, SameView
  <2>q. QED BY <1>9, <1>11, <1>13, <2>1, <2>6, <2>8
<1>14. CASE flow[f].mode # "cold" /\ flow[f].kind \notin {"loop", "manual"}
  <2>1. PICK r : r = [w EXCEPT !.flow[f] = NoFlow]
    OBVIOUS
  <2>2. r \in WorldRec /\ r.vm = v /\ r.flow = [flow EXCEPT ![f] = NoFlow]
    BY <1>8, <2>1, NoFlowTyped DEF WorldRec
  <2>3. r.flow[f] = NoFlow /\ Others(r, World, f)
    BY <2>2, WorldIs DEF Others
  <2>4. Rests(w, f)
    BY <1>2, <1>6, <1>8, <1>14, ToldRests
  <2>5. Kept(r)
    BY <1>8, <1>10, <1>14, <2>2, <2>3, <2>4, RestShapes, WorldIs
       DEF Kept, Others, Rests, Shaped, ShapedBut, Looped, Torn, Carried
  <2>6. Attempted(r) /\ Thawed(r)
    BY <1>6, <1>8, <2>2, <2>3, <2>4, WorldIs DEF Attempted, Thawed, Rests, Others
  <2>7. Become(r)
    BY <1>9, <1>14, <2>1
  <2>q. QED BY <1>2, <1>14, <2>2, <2>3, <2>5, <2>6, <2>7, OtherOutcome DEF Settled
<1>q. QED
  BY <1>12, <1>13, <1>14

LEMMA InquiredOutcome ==
  ASSUME Typed, Settled(World), NEW f \in Flows, Inquired(f) PROVE \E w : Outcome(w, f)
<1>1. PICK crashed \in BOOLEAN, hidden \in BOOLEAN : Become(LostConnection(World, f, crashed, hidden))
  BY DEF Inquired
<1>2. flow[f].kind = "closed" /\ World.flow = flow /\ World \in WorldRec
  BY FlowShape DEF Inquired, Shape
<1>3. PICK w \in WorldRec : w = LostConnection(World, f, crashed, hidden)
  BY <1>2, LostConnectionTyped
<1>4. Ended(w, World, f)
  BY <1>2, <1>3, LostConnectionSettles
<1>q. QED
  BY <1>1, <1>2, <1>3, <1>4 DEF Ended, Outcome

LEMMA StepOutcome ==
  ASSUME Typed, Settled(World), NEW f \in Flows, Step(f) PROVE \E w : Outcome(w, f)
BY WakeOutcome, DrainedOutcome, ListedOutcome, CreatedOutcome, OpenedOutcome, OpenFailsOutcome,
   GreetedOutcome, GreetFailsOutcome, AskedOutcome, AskFailsOutcome, ToldOutcome, InquiredOutcome
   DEF Step

(* What any other step may come to. *)
Turn(w) ==
  /\ w \in WorldRec /\ Become(w) /\ Settled(w)
  /\ \/ \* nothing but a loop that waits, or a close that is looked into
        /\ SameView(w, World)
        /\ \A g \in Flows : \/ w.flow[g] = flow[g]
                            \/ /\ flow[g].kind = "none"
                               /\ w.flow[g] = Asleep \/ w.flow[g].kind \in {"none", "closed"}
     \/ \* the user begins anew
        \E n \in Flows : /\ flow[n].kind = "none" /\ Others(w, World, n)
                         /\ w.flow[n].kind \in {"attach", "switch", "live"}
     \/ \* the user reconnects
        /\ w.vm.snapshot = Rendered(vm) /\ w.vm.bubbles = vm.bubbles /\ w.vm.session = vm.session
        /\ \A g \in Flows : w.flow[g] \in {flow[g], NoFlow, Asleep} \/ w.flow[g].pc # "telling"
     \/ \* the user leaves
        /\ w.vm.session = Null /\ w.vm.snapshot = vm.snapshot
        /\ \A g \in Flows : w.flow[g] \in {flow[g], NoFlow}

LEMMA VmTurn ==
  ASSUME Typed, Settled(World), NEW w \in WorldRec, Become(w), w.flow = flow,
         SameView(w, World), w.vm.status \in {vm.status, "error"}, Carried(w),
         w.vm.tearing = vm.tearing, w.vm.reconnecting = vm.reconnecting
  PROVE  Turn(w)
<1>1. World.flow = flow /\ World.vm = vm
  BY WorldIs
<1>2. Kept(w)
  BY <1>1 DEF Settled, Kept, Shaped, Looped, Torn
<1>3. Attempted(w) /\ Thawed(w)
  BY <1>1 DEF Settled, Attempted, Thawed, SameView
<1>q. QED
  BY <1>2, <1>3 DEF Turn, Settled

LEMMA CloseEventTurn ==
  ASSUME Typed, Settled(World), NEW s \in Sockets, CloseEvent(s) PROVE \E w : Turn(w)
<1>1. PICK k : k = [sock[s] EXCEPT !.st = "closed"]
  OBVIOUS
<1>2. k \in SockRec
  <2>1. sock[s] \in SockRec BY WorldIs
  <2>q. QED BY <1>1, <2>1 DEF SockRec
<1>3. PICK x : x = [World EXCEPT !.sock[s] = k]
  OBVIOUS
<1>4. x \in WorldRec /\ x.vm = vm /\ x.flow = flow
  <2>1. World \in WorldRec /\ World.flow = flow /\ World.vm = vm BY WorldIs DEF Typed
  <2>q. QED BY <1>2, <1>3, <2>1 DEF WorldRec
<1>5. SameView(x, World) /\ Carried(x)
  BY <1>4, WorldIs DEF SameView, Carried, Settled, Kept
<1>6. CASE Become(x)
  BY <1>4, <1>5, <1>6, VmTurn
<1>7. CASE ~Become(x)
  <2>1. PICK hidden \in BOOLEAN : Become(HandleUnexpectedClose(x, NextFlow, sock[s].code, hidden))
    BY <1>1, <1>3, <1>7, WorldIs DEF CloseEvent
  <2>2. NextFlow \in Flows /\ flow[NextFlow].kind = "none"
    <3>1. FreeFlows # {} BY <1>1, <1>3, <1>7, WorldIs DEF CloseEvent
    <3>q. QED BY <3>1, FreeAre
  <2>3. Settled(x)
    BY <1>4, WorldIs DEF Settled, Kept, Shaped, Looped, Torn, Carried, Attempted, Thawed
  <2>4. PICK w \in WorldRec : w = HandleUnexpectedClose(x, NextFlow, sock[s].code, hidden)
    BY <1>4, <2>2, HandleUnexpectedCloseTyped
  <2>5. PICK n \in Flows : n = NextFlow
    BY <2>2
  <2>6. /\ Settled(w) /\ Others(w, x, n) /\ SameView(w, x)
        /\ w.flow[n] = Asleep \/ w.flow[n].kind \in {"none", "closed"}
    BY <1>4, <2>2, <2>3, <2>4, <2>5, HandleUnexpectedCloseSettles
  <2>7. SameView(w, World)
    BY <1>5, <2>6 DEF SameView
  <2>8. \A g \in Flows : \/ w.flow[g] = flow[g]
                         \/ /\ flow[g].kind = "none"
                            /\ w.flow[g] = Asleep \/ w.flow[g].kind \in {"none", "closed"}
    BY <1>4, <2>2, <2>5, <2>6 DEF Others
  <2>q. QED BY <2>1, <2>4, <2>6, <2>7, <2>8 DEF Turn
<1>q. QED
  BY <1>6, <1>7

LEMMA BackendTurn ==
  ASSUME Typed, Settled(World),
         \/ \E s \in Sockets : Drop(s)
         \/ \E a \in Agents : Crash(a) \/ Deleted(a)
  PROVE  \E w : Turn(w)
<1>1. ASSUME NEW w, w \in WorldRec, Become(w), w.vm = vm, w.flow = flow PROVE Turn(w)
  BY <1>1, VmTurn, WorldIs DEF SameView, Carried, Settled, Kept
<1>2. World \in WorldRec /\ World.flow = flow /\ World.vm = vm
  BY WorldIs DEF Typed
<1>3. ASSUME NEW s \in Sockets, Drop(s) PROVE \E w : Turn(w)
  <2>1. PICK code \in {"lost", "taken", "released"} : Become(Breaks(s, code))
    BY <1>3 DEF Drop
  <2>2. PICK k : k = [sock[s] EXCEPT !.st = "closing", !.code = code]
    OBVIOUS
  <2>3. k \in SockRec
    <3>1. sock[s] \in SockRec BY WorldIs
    <3>q. QED BY <2>2, <3>1 DEF SockRec
  <2>4. PICK w : w = [World EXCEPT !.sock[s] = k]
    OBVIOUS
  <2>5. w \in WorldRec /\ w.vm = vm /\ w.flow = flow
    BY <1>2, <2>3, <2>4 DEF WorldRec
  <2>6. Become(w)
    BY <2>1, <2>2, <2>4, WorldIs DEF Breaks
  <2>q. QED BY <1>1, <2>5, <2>6
<1>4. ASSUME NEW a \in Agents, Crash(a) PROVE \E w : Turn(w)
  <2>1. PICK g : g = [agent[a] EXCEPT !.st = "crashed", !.session = Null]
    OBVIOUS
  <2>2. PICK k : k = [s \in Sockets |-> IF sock[s].agent = a /\ sock[s].st = "open"
                                   THEN [sock[s] EXCEPT !.st = "closing", !.code = "lost"] ELSE sock[s]]
    OBVIOUS
  <2>3. g \in AgentRec
    <3>1. agent[a] \in AgentRec BY WorldIs
    <3>q. QED BY <2>1, <3>1 DEF AgentRec
  <2>4. k \in [Sockets -> SockRec]
    <3>1. sock \in [Sockets -> SockRec] BY WorldIs
    <3>q. QED BY <2>2, <3>1 DEF SockRec
  <2>5. PICK w : w = [World EXCEPT !.agent[a] = g, !.sock = k]
    OBVIOUS
  <2>6. w \in WorldRec /\ w.vm = vm /\ w.flow = flow
    BY <1>2, <2>3, <2>4, <2>5 DEF WorldRec
  <2>7. Become(w)
    BY <1>4, <2>1, <2>2, <2>5, WorldIs DEF Crash
  <2>q. QED BY <1>1, <2>6, <2>7
<1>5. ASSUME NEW a \in Agents, Deleted(a) PROVE \E w : Turn(w)
  <2>1. [NoAgent EXCEPT !.st = "gone"] \in AgentRec
    BY DEF NoAgent, AgentRec
  <2>2. PICK w : w = [World EXCEPT !.agent[a] = [NoAgent EXCEPT !.st = "gone"]]
    OBVIOUS
  <2>3. w \in WorldRec /\ w.vm = vm /\ w.flow = flow
    BY <1>2, <2>1, <2>2 DEF WorldRec
  <2>q. QED BY <1>1, <1>5, <2>2, <2>3 DEF Deleted
<1>q. QED
  BY <1>3, <1>4, <1>5

LEMMA PromptTurn ==
  ASSUME Typed, Settled(World),
         PromptRejected \/ PromptAnswered \/ Permission \/ AnswerPermission \/ SendPrompt
  PROVE  \E w : Turn(w)
<1>1. World \in WorldRec /\ World.flow = flow /\ World.vm = vm /\ vm \in VmRec
  BY WorldIs DEF Typed
<1>2. PICK u \in VmRec : u = SetStatus(vm, "error")
  BY VmIs, SetStatusTyped DEF Statuses
<1>3. /\ u.status = "error" /\ u.snapshot = vm.snapshot /\ u.bubbles = vm.bubbles
      /\ u.session = vm.session /\ u.tearing = vm.tearing /\ u.pending = vm.pending
      /\ u.client = vm.client /\ u.reconnecting = vm.reconnecting
  BY <1>2, VmIs, SetStatusIs DEF Statuses
<1>4. Carried(World)
  BY DEF Settled, Kept
<1>5. \E v : /\ Become([World EXCEPT !.vm = v])
             /\ \/ v = [u EXCEPT !.error = TRUE, !.prompt = Null]
                \/ v = [vm EXCEPT !.prompt = Null]
                \/ v = [vm EXCEPT !.prompt = vm.client]
                \/ v = [vm EXCEPT !.pending = "own"] /\ vm.client # Null
                \/ v = [vm EXCEPT !.pending = "stray"]
                \/ v = [vm EXCEPT !.pending = "none"]
  <2>1. CASE PromptRejected
    BY <1>1, <1>2, <2>1 DEF PromptRejected
  <2>2. CASE PromptAnswered
    <3>1. \/ Become([World EXCEPT !.vm = [u EXCEPT !.error = TRUE, !.prompt = Null]])
          \/ Become([World EXCEPT !.vm = [vm EXCEPT !.prompt = Null]])
      BY <1>1, <1>2, <2>2 DEF PromptAnswered
    <3>q. QED BY <3>1
  <2>3. CASE Permission
    <3>1. PICK s \in Sockets :
            Become([World EXCEPT !.vm =
                      [vm EXCEPT !.pending = IF s = vm.client THEN "own" ELSE "stray"]])
      BY <1>1, <2>3 DEF Permission
    <3>2. s # Null
      BY LocalSessionAssumption
    <3>q. QED BY <3>1, <3>2
  <2>4. CASE AnswerPermission
    BY <1>1, <2>4 DEF AnswerPermission
  <2>5. CASE SendPrompt
    BY <1>1, <2>5 DEF SendPrompt
  <2>q. QED BY <2>1, <2>2, <2>3, <2>4, <2>5
<1>6. PICK v : /\ Become([World EXCEPT !.vm = v])
               /\ \/ v = [u EXCEPT !.error = TRUE, !.prompt = Null]
                  \/ v = [vm EXCEPT !.prompt = Null]
                  \/ v = [vm EXCEPT !.prompt = vm.client]
                  \/ v = [vm EXCEPT !.pending = "own"] /\ vm.client # Null
                  \/ v = [vm EXCEPT !.pending = "stray"]
                  \/ v = [vm EXCEPT !.pending = "none"]
  BY <1>5
<1>7. vm.client \in Sockets \union {Null}
  BY VmIs
<1>8. /\ v \in VmRec /\ v.status \in {vm.status, "error"} /\ v.snapshot = vm.snapshot
      /\ v.bubbles = vm.bubbles /\ v.session = vm.session /\ v.tearing = vm.tearing
      /\ v.reconnecting = vm.reconnecting /\ v.client = vm.client
      /\ v.pending = "own" => vm.pending = "own" \/ vm.client # Null
  <2>1. vm \in VmRec BY <1>1
  <2>2. \/ v = [u EXCEPT !.error = TRUE, !.prompt = Null]
        \/ \E p \in Sockets \union {Null} : v = [vm EXCEPT !.prompt = p]
        \/ \E b \in {"none", "own", "stray"} :
             v = [vm EXCEPT !.pending = b] /\ (b = "own" => vm.client # Null)
    BY <1>6, <1>7
  <2>3. CASE v = [u EXCEPT !.error = TRUE, !.prompt = Null]
    <3>1. /\ v \in VmRec /\ v.status = u.status /\ v.snapshot = u.snapshot
          /\ v.bubbles = u.bubbles /\ v.session = u.session /\ v.tearing = u.tearing
          /\ v.reconnecting = u.reconnecting /\ v.client = u.client /\ v.pending = u.pending
      BY <2>3 DEF VmRec
    <3>q. QED BY <1>3, <3>1
  <2>4. CASE \E p \in Sockets \union {Null} : v = [vm EXCEPT !.prompt = p]
    <3>1. /\ v \in VmRec /\ v.status = vm.status /\ v.snapshot = vm.snapshot
          /\ v.bubbles = vm.bubbles /\ v.session = vm.session /\ v.tearing = vm.tearing
          /\ v.reconnecting = vm.reconnecting /\ v.client = vm.client /\ v.pending = vm.pending
      BY <2>1, <2>4 DEF VmRec
    <3>q. QED BY <3>1
  <2>5. ASSUME NEW b \in {"none", "own", "stray"}, v = [vm EXCEPT !.pending = b],
               b = "own" => vm.client # Null
        PROVE  /\ v \in VmRec /\ v.status = vm.status /\ v.snapshot = vm.snapshot
               /\ v.bubbles = vm.bubbles /\ v.session = vm.session /\ v.tearing = vm.tearing
               /\ v.reconnecting = vm.reconnecting /\ v.client = vm.client /\ v.pending = b
    BY <2>1, <2>5 DEF VmRec
  <2>q. QED BY <2>2, <2>3, <2>4, <2>5
<1>9. PICK w : w = [World EXCEPT !.vm = v]
  OBVIOUS
<1>10. w \in WorldRec /\ w.vm = v /\ w.flow = flow
  BY <1>1, <1>8, <1>9 DEF WorldRec
<1>11. SameView(w, World) /\ Carried(w)
  BY <1>1, <1>4, <1>8, <1>10 DEF SameView, Carried
<1>q. QED
  BY <1>6, <1>8, <1>9, <1>10, <1>11, VmTurn

LEMMA BeginIs ==
  ASSUME Typed, Settled(World), FreeFlows # {}, NEW kind \in Kinds \ {"none", "closed"}
  PROVE  LET b == Begin(kind)
         IN /\ b \in WorldRec /\ b.vm = vm /\ NextFlow \in Flows /\ flow[NextFlow].kind = "none"
            /\ b.flow[NextFlow].kind = kind /\ b.flow[NextFlow].mode = "none"
            /\ b.flow[NextFlow].pc = "none"
            /\ Others(b, World, NextFlow) /\ ShapedBut(b, NextFlow)
            /\ Looped(b) /\ Torn(b) /\ Carried(b) /\ Attempted(b)
<1>1. PICK n \in Flows : n = NextFlow /\ flow[n].kind = "none"
  BY FreeAre
<1>2. PICK y : y = [NoFlow EXCEPT !.kind = kind]
  OBVIOUS
<1>3. y.kind = kind /\ y.mode = "none" /\ y.pc = "none"
  BY <1>2 DEF NoFlow
<1>4. PICK b : b = Begin(kind)
  OBVIOUS
<1>5. b \in WorldRec
  BY <1>4, BeginTyped
<1>6. b.vm = vm /\ b.flow = [flow EXCEPT ![n] = y]
  BY <1>1, <1>2, <1>4, WorldIs DEF Begin, World
<1>7. b.flow[n] = y /\ Others(b, World, n)
  BY <1>6, WorldIs DEF Others
<1>8. flow[n].mode = "none"
  <2>1. Shape(flow[n]) /\ flow[n].mode \in Modes BY FlowShape, FlowIs
  <2>q. QED BY <1>1, <2>1 DEF Shape
<1>9. ShapedBut(b, n) /\ Looped(b) /\ Torn(b) /\ Carried(b)
  BY <1>1, <1>6, <1>7, <1>8, FlowShape DEF ShapedBut, Looped, Torn, Carried, Others
<1>10. Attempted(b)
  <2>1. Attempted(World) /\ World.vm = vm /\ World.flow = flow
    BY FlowShape
  <2>q. QED BY <1>6, <1>7, <1>8, <2>1 DEF Attempted, Others
<1>q. QED
  BY <1>1, <1>3, <1>4, <1>5, <1>6, <1>7, <1>9, <1>10

LEMMA AttachedTurn ==
  ASSUME Typed, Settled(World), FreeFlows # {},
         NEW mode \in {"attach", "load"}, NEW s \in Sessions \union {Null},
         Become(Start(Begin("attach"), NextFlow, mode, s, Null))
  PROVE  \E w : Turn(w)
<1>1. PICK b : b = Begin("attach")
  OBVIOUS
<1>2. PICK n \in Flows : n = NextFlow
  BY FreeAre
<1>3. /\ b \in WorldRec /\ b.vm = vm /\ flow[n].kind = "none"
      /\ b.flow[n].kind = "attach" /\ b.flow[n].mode = "none"
      /\ Others(b, World, n) /\ ShapedBut(b, n)
      /\ Looped(b) /\ Torn(b) /\ Carried(b)
  BY <1>1, <1>2, BeginIs DEF Kinds
<1>4. PICK w \in WorldRec : w = Start(b, n, mode, s, Null)
  BY <1>2, <1>3, StartTyped DEF Modes
<1>5. Moved(w, b, n) /\ w.flow[n].kind = "attach"
  BY <1>3, <1>4, StartSettles
<1>6. Others(w, World, n)
  BY <1>3, <1>5 DEF Others, Moved
<1>q. QED
  BY <1>1, <1>2, <1>3, <1>4, <1>5, <1>6 DEF Turn, Moved

LEMMA SwitchSessionTurn ==
  ASSUME Typed, Settled(World), SwitchSession PROVE \E w : Turn(w)
<1>1. FreeFlows # {}
  BY DEF SwitchSession
<1>2. PICK mode \in {"switch", "new"}, s \in Sessions :
        \/ Become(Start(Begin("attach"), NextFlow, "load", s, Null))
        \/ Become(Start(Begin("attach"), NextFlow, "attach", Null, Null))
        \/ /\ vm.client # Null
           /\ Become([Begin("switch") EXCEPT
                  !.vm = [SetStatus(@, "connecting") EXCEPT
                            !.error = FALSE, !.surfaced = FALSE, !.bubbles = "blank"],
                  !.flow[NextFlow] = [@ EXCEPT !.pc = "asking", !.mode = mode, !.session = s,
                                               !.sock = vm.client,
                                               !.agent = sock[vm.client].agent]])
  BY DEF SwitchSession
<1>3. ASSUME vm.client # Null,
             Become([Begin("switch") EXCEPT
                  !.vm = [SetStatus(@, "connecting") EXCEPT
                            !.error = FALSE, !.surfaced = FALSE, !.bubbles = "blank"],
                  !.flow[NextFlow] = [@ EXCEPT !.pc = "asking", !.mode = mode, !.session = s,
                                               !.sock = vm.client,
                                               !.agent = sock[vm.client].agent]])
      PROVE  \E w : Turn(w)
  <2>1. PICK b : b = Begin("switch")
    OBVIOUS
  <2>2. PICK n \in Flows : n = NextFlow
    BY <1>1, FreeAre
  <2>3. /\ b \in WorldRec /\ b.vm = vm /\ flow[n].kind = "none"
        /\ b.flow[n].kind = "switch" /\ b.flow[n].mode = "none"
        /\ Others(b, World, n) /\ ShapedBut(b, n)
        /\ Looped(b) /\ Torn(b) /\ Carried(b)
    BY <1>1, <2>1, <2>2, BeginIs DEF Kinds
  <2>4. b.vm \in VmRec /\ b.flow \in [Flows -> FlowRec] /\ b.flow[n] \in FlowRec
    BY <2>3, WorldTyped
  <2>5. PICK u \in VmRec : u = SetStatus(b.vm, "connecting")
    BY <2>4, SetStatusTyped DEF Statuses
  <2>6. /\ u.status = "connecting" /\ u.tearing = vm.tearing /\ u.pending = vm.pending
        /\ u.client = vm.client /\ u.reconnecting = vm.reconnecting
    BY <2>3, <2>4, <2>5, SetStatusIs DEF Statuses
  <2>7. PICK v : v = [u EXCEPT !.error = FALSE, !.surfaced = FALSE, !.bubbles = "blank"]
    OBVIOUS
  <2>8. /\ v \in VmRec /\ v.status = "connecting" /\ v.tearing = vm.tearing
        /\ v.pending = vm.pending /\ v.client = vm.client /\ v.reconnecting = vm.reconnecting
    BY <2>5, <2>6, <2>7, ZenonT(60) DEF VmRec, View
  <2>9. vm.client \in Sockets /\ sock[vm.client].agent \in Agents \union {Null}
    <3>1. vm.client \in Sockets BY <1>3, VmIs
    <3>2. sock[vm.client] \in SockRec BY <3>1, WorldIs
    <3>q. QED BY <3>1, <3>2 DEF SockRec
  <2>10. PICK x : x = [b.flow[n] EXCEPT !.pc = "asking", !.mode = mode, !.session = s,
                         !.sock = vm.client, !.agent = sock[vm.client].agent]
    OBVIOUS
  <2>11. x \in FlowRec /\ x.pc = "asking" /\ x.mode = mode /\ x.kind = "switch"
    BY <2>3, <2>4, <2>9, <2>10 DEF FlowRec, Pcs, Modes
  <2>12. PICK w : w = [b EXCEPT !.vm = v, !.flow[n] = x]
    OBVIOUS
  <2>13. w \in WorldRec /\ w.vm = v /\ w.flow = [b.flow EXCEPT ![n] = x]
    BY <2>3, <2>8, <2>11, <2>12 DEF WorldRec
  <2>14. Become(w)
    BY <1>3, <2>1, <2>2, <2>5, <2>7, <2>10, <2>12
  <2>15. w.flow[n] = x /\ Others(w, b, n)
    BY <2>4, <2>13 DEF Others
  <2>16. Shape(x)
    BY <2>11 DEF Shape
  <2>17. Kept(w)
    BY <2>3, <2>8, <2>11, <2>13, <2>15, <2>16
       DEF Kept, Others, Shaped, ShapedBut, Looped, Torn, Carried
  <2>18. Attempted(w) /\ Thawed(w)
    BY <2>8, <2>11, <2>13, <2>15 DEF Attempted, Thawed
  <2>19. Others(w, World, n)
    BY <2>3, <2>15 DEF Others
  <2>q. QED BY <2>3, <2>11, <2>13, <2>14, <2>15, <2>17, <2>18, <2>19 DEF Turn, Settled
<1>q. QED
  BY <1>1, <1>2, <1>3, AttachedTurn

LEMMA AttachToLiveAgentTurn ==
  ASSUME Typed, Settled(World), AttachToLiveAgent PROVE \E w : Turn(w)
<1>1. PICK a \in Agents :
        LET b == Begin("live")
            w == [b EXCEPT !.vm = [@ EXCEPT !.error = FALSE, !.surfaced = FALSE],
                           !.flow[NextFlow] = [@ EXCEPT !.agent = a, !.session = agent[a].session]]
        IN Become(IF Closes(w) THEN CloseAndWait(w, NextFlow)
                  ELSE AttachLive(w, NextFlow, NextSocket))
  BY DEF AttachToLiveAgent
<1>2. PICK b : b = Begin("live")
  OBVIOUS
<1>3. FreeFlows # {} /\ NextSocket \in Sockets
  BY FreeAre DEF AttachToLiveAgent
<1>4. PICK n \in Flows : n = NextFlow
  BY <1>3, FreeAre
<1>5. /\ b \in WorldRec /\ b.vm = vm /\ flow[n].kind = "none"
      /\ b.flow[n].kind = "live" /\ b.flow[n].mode = "none"
      /\ Others(b, World, n) /\ ShapedBut(b, n)
      /\ Looped(b) /\ Torn(b) /\ Carried(b) /\ Attempted(b)
  BY <1>2, <1>3, <1>4, BeginIs DEF Kinds
<1>6. b.vm \in VmRec /\ b.flow \in [Flows -> FlowRec] /\ b.flow[n] \in FlowRec
  BY <1>5, WorldTyped
<1>7. PICK v : v = [b.vm EXCEPT !.error = FALSE, !.surfaced = FALSE]
  OBVIOUS
<1>8. /\ v \in VmRec /\ v.status = vm.status /\ v.tearing = vm.tearing
      /\ v.pending = vm.pending /\ v.client = vm.client /\ v.reconnecting = vm.reconnecting
  <2>1. v \in VmRec /\ v.status = b.vm.status /\ v.tearing = b.vm.tearing
        /\ v.pending = b.vm.pending /\ v.client = b.vm.client /\ v.reconnecting = b.vm.reconnecting
    BY <1>6, <1>7 DEF VmRec
  <2>q. QED BY <1>5, <2>1
<1>9. PICK x : x = [b.flow[n] EXCEPT !.agent = a, !.session = agent[a].session]
  OBVIOUS
<1>10. x \in FlowRec /\ x.kind = "live" /\ x.mode = "none"
  <2>1. agent[a] \in AgentRec BY WorldIs
  <2>2. agent[a].session \in Sessions \union {Null} BY <2>1 DEF AgentRec
  <2>q. QED BY <1>5, <1>6, <1>9, <2>2 DEF FlowRec
<1>11. PICK w : w = [b EXCEPT !.vm = v, !.flow[n] = x]
  OBVIOUS
<1>12. w \in WorldRec /\ w.vm = v /\ w.flow = [b.flow EXCEPT ![n] = x]
  BY <1>5, <1>8, <1>10, <1>11 DEF WorldRec
<1>13. Become(IF Closes(w) THEN CloseAndWait(w, n) ELSE AttachLive(w, n, NextSocket))
  BY <1>1, <1>2, <1>4, <1>7, <1>9, <1>11
<1>14. w.flow[n] = x /\ Others(w, b, n)
  BY <1>6, <1>12 DEF Others
<1>15. Others(w, World, n)
  BY <1>5, <1>14 DEF Others
<1>16. ShapedBut(w, n) /\ Looped(w) /\ Torn(w) /\ Carried(w)
  BY <1>5, <1>8, <1>10, <1>12, <1>14 DEF ShapedBut, Looped, Torn, Carried, Others
<1>17. Attempted(w)
  <2>1. Attempted(b) BY <1>5
  <2>q. QED BY <1>5, <1>8, <1>12, <1>14, <2>1 DEF Attempted, Others
<1>18. CASE Closes(w)
  <2>1. PICK r \in WorldRec : r = CloseAndWait(w, n)
    BY <1>12, CloseAndWaitTyped
  <2>2. Moved(r, w, n) /\ r.flow[n].kind = "live"
    BY <1>10, <1>12, <1>14, <1>16, <1>17, <2>1, CloseAndWaitSettles
  <2>3. Settled(r) /\ Others(r, World, n)
    BY <1>15, <2>2 DEF Moved, Others
  <2>q. QED BY <1>5, <1>13, <1>18, <2>1, <2>2, <2>3 DEF Turn
<1>19. CASE ~Closes(w)
  <2>1. PICK r \in WorldRec : r = AttachLive(w, n, NextSocket)
    BY <1>3, <1>12, AttachLiveTyped
  <2>2. Settled(r) /\ Others(r, w, n) /\ r.flow[n].kind = "live"
    BY <1>3, <1>10, <1>12, <1>14, <1>16, <2>1, AttachLiveSettles
  <2>3. Others(r, World, n)
    BY <1>15, <2>2 DEF Others
  <2>q. QED BY <1>5, <1>13, <1>19, <2>1, <2>2, <2>3 DEF Turn
<1>q. QED
  BY <1>18, <1>19

LEMMA ClearReconnectTimerIs ==
  ASSUME NEW w \in WorldRec
  PROVE  LET r == ClearReconnectTimer(w)
         IN /\ r.vm.status = w.vm.status /\ r.vm.snapshot = w.vm.snapshot
            /\ r.vm.bubbles = w.vm.bubbles /\ r.vm.session = w.vm.session
            /\ r.vm.tearing = w.vm.tearing /\ r.vm.pending = w.vm.pending
            /\ r.vm.client = w.vm.client
            /\ \A g \in Flows : \/ r.flow[g] = w.flow[g]
                                \/ w.flow[g].pc = "sleeping" /\ r.flow[g] = NoFlow
<1>1. PICK v : v = [w.vm EXCEPT !.timer = Null]
  OBVIOUS
<1>2. w.vm \in VmRec /\ w.flow \in [Flows -> FlowRec]
  BY WorldTyped
<1>3. /\ v.status = w.vm.status /\ v.snapshot = w.vm.snapshot
      /\ v.bubbles = w.vm.bubbles /\ v.session = w.vm.session
      /\ v.tearing = w.vm.tearing /\ v.pending = w.vm.pending
      /\ v.client = w.vm.client
  <2>1. w.vm \in VmRec BY <1>2
  <2>q. QED BY <1>1, <2>1 DEF VmRec
<1>4. PICK t : t = w.vm.timer
  OBVIOUS
<1>5. PICK k : k = IF t # Null /\ w.flow[t].pc = "sleeping" THEN [w.flow EXCEPT ![t] = NoFlow] ELSE w.flow
  OBVIOUS
<1>6. PICK r : r = ClearReconnectTimer(w)
  OBVIOUS
<1>7. r = [w EXCEPT !.vm.timer = Null, !.flow = k]
  BY <1>4, <1>5, <1>6 DEF ClearReconnectTimer
<1>8. r.vm = v /\ r.flow = k
  BY <1>1, <1>7 DEF WorldRec
<1>9. \A g \in Flows : k[g] = w.flow[g] \/ (w.flow[g].pc = "sleeping" /\ k[g] = NoFlow)
  BY <1>2, <1>5
<1>q. QED
  BY <1>3, <1>6, <1>8, <1>9

LEMMA ReconnectTurn ==
  ASSUME Typed, Settled(World), Reconnect PROVE \E w : Turn(w)
<1>1. FreeFlows # {} /\ vm.session # Null
  BY DEF Reconnect
<1>2. PICK n \in Flows : n = NextFlow
  BY <1>1, FreeAre
<1>3. PICK b : b = Begin("manual")
  OBVIOUS
<1>4. /\ b \in WorldRec /\ b.vm = vm /\ flow[n].kind = "none"
      /\ b.flow[n].kind = "manual" /\ b.flow[n].mode = "none" /\ b.flow[n].pc = "none"
      /\ Others(b, World, n) /\ ShapedBut(b, n)
      /\ Looped(b) /\ Torn(b) /\ Carried(b) /\ Attempted(b)
  BY <1>1, <1>2, <1>3, BeginIs DEF Kinds
<1>5. PICK x \in WorldRec : x = ClearReconnectTimer(b)
  BY <1>4, ClearReconnectTimerTyped
<1>6. /\ x.vm.status = vm.status /\ x.vm.snapshot = vm.snapshot
      /\ x.vm.bubbles = vm.bubbles /\ x.vm.session = vm.session
      /\ x.vm.tearing = vm.tearing /\ x.vm.pending = vm.pending /\ x.vm.client = vm.client
      /\ \A g \in Flows : \/ x.flow[g] = b.flow[g]
                          \/ b.flow[g].pc = "sleeping" /\ x.flow[g] = NoFlow
  BY <1>4, <1>5, ClearReconnectTimerIs
<1>7. PICK v : v = [x.vm EXCEPT !.reconnecting = FALSE, !.attempt = 0]
  OBVIOUS
<1>8. /\ v \in VmRec /\ v.status = vm.status /\ v.snapshot = vm.snapshot
      /\ v.bubbles = vm.bubbles /\ v.session = vm.session
      /\ v.tearing = vm.tearing /\ v.pending = vm.pending /\ v.client = vm.client
      /\ v.reconnecting = FALSE
  <2>1. x.vm \in VmRec /\ 0 \in 0 .. MaxAttempts BY <1>5, WorldTyped, LocalSessionAssumption
  <2>2. /\ v \in VmRec /\ v.status = x.vm.status /\ v.snapshot = x.vm.snapshot
        /\ v.bubbles = x.vm.bubbles /\ v.session = x.vm.session
        /\ v.tearing = x.vm.tearing /\ v.pending = x.vm.pending /\ v.client = x.vm.client
        /\ v.reconnecting = FALSE
    BY <1>7, <2>1 DEF VmRec
  <2>q. QED BY <1>6, <2>2
<1>9. PICK w : w = [x EXCEPT !.vm = v]
  OBVIOUS
<1>10. w \in WorldRec /\ w.vm = v /\ w.flow = x.flow
  BY <1>5, <1>8, <1>9 DEF WorldRec
<1>11. Become(DoReconnect(w, n))
  BY <1>2, <1>3, <1>5, <1>7, <1>9 DEF Reconnect
<1>12. \A g \in Flows : b.flow[g].pc = "sleeping" =>
         /\ g # n
         /\ b.flow[g].mode = "none"
  <2>1. \A g \in Flows : b.flow[g].pc = "sleeping" => g # n
    BY <1>4
  <2>2. \A g \in Flows : g # n => Shape(b.flow[g])
    BY <1>4 DEF ShapedBut
  <2>3. \A g \in Flows : b.flow[g].mode \in Modes
    <3>1. \A g \in Flows : b.flow[g] \in FlowRec BY <1>4, WorldTyped
    <3>q. QED BY <3>1 DEF FlowRec
  <2>q. QED BY <2>1, <2>2, <2>3 DEF Shape
<1>13. w.flow[n] = b.flow[n]
  BY <1>4, <1>6, <1>10, <1>12
<1>14. ShapedBut(w, n) /\ Carried(w) /\ Looped(w)
  BY <1>4, <1>6, <1>8, <1>10, RestShapes DEF ShapedBut, Carried, Looped
<1>15. Torn(w)
  BY <1>4, <1>6, <1>8, <1>10, <1>12 DEF Torn
<1>16. Attempted(w)
  BY <1>4, <1>6, <1>8, <1>10, <1>12 DEF Attempted
<1>17. PICK r \in WorldRec : r = DoReconnect(w, n)
  BY <1>10, DoReconnectTyped
<1>18. /\ Settled(r) /\ Others(r, w, n) /\ r.vm.session = w.vm.session
       /\ r.vm.bubbles = w.vm.bubbles
       /\ r.flow[n] \in {NoFlow, Asleep} \/ (r.flow[n].kind = w.flow[n].kind /\ r.flow[n].pc # "telling")
       /\ r.vm.snapshot = IF w.vm.session = Null THEN w.vm.snapshot ELSE Rendered(w.vm)
  BY <1>4, <1>10, <1>13, <1>14, <1>15, <1>16, <1>17, DoReconnectSettles
<1>19. r.vm.session = vm.session /\ r.vm.bubbles = vm.bubbles /\ r.vm.snapshot = Rendered(vm)
  BY <1>1, <1>8, <1>10, <1>18 DEF Rendered
<1>20. \A g \in Flows : r.flow[g] \in {flow[g], NoFlow, Asleep} \/ r.flow[g].pc # "telling"
  <2>1. \A g \in Flows : g # n => r.flow[g] \in {flow[g], NoFlow}
    BY <1>4, <1>6, <1>10, <1>18, WorldIs DEF Others
  <2>q. QED BY <1>18, <2>1
<1>q. QED
  BY <1>2, <1>11, <1>17, <1>18, <1>19, <1>20 DEF Turn

LEMMA LeaveTurn == ASSUME Typed, Settled(World), Leave PROVE \E w : Turn(w)
<1>1. World \in WorldRec /\ World.vm = vm /\ World.flow = flow
  BY WorldIs DEF Typed
<1>2. PICK a \in WorldRec : a = ClearReconnectTimer(World)
  BY <1>1, ClearReconnectTimerTyped
<1>3. /\ a.vm.status = vm.status /\ a.vm.snapshot = vm.snapshot
      /\ a.vm.bubbles = vm.bubbles /\ a.vm.session = vm.session
      /\ a.vm.tearing = vm.tearing /\ a.vm.pending = vm.pending /\ a.vm.client = vm.client
      /\ \A g \in Flows : a.flow[g] = flow[g] \/ (flow[g].pc = "sleeping" /\ a.flow[g] = NoFlow)
  BY <1>1, <1>2, ClearReconnectTimerIs
<1>4. PICK v : v = [a.vm EXCEPT !.detached = TRUE, !.reconnecting = FALSE, !.attempt = 0]
  OBVIOUS
<1>5. v \in VmRec /\ v.snapshot = vm.snapshot /\ v.tearing = vm.tearing /\ v.reconnecting = FALSE
  <2>1. a.vm \in VmRec /\ 0 \in 0 .. MaxAttempts BY <1>2, WorldTyped, LocalSessionAssumption
  <2>2. v \in VmRec /\ v.snapshot = a.vm.snapshot /\ v.tearing = a.vm.tearing /\ v.reconnecting = FALSE
    BY <1>4, <2>1 DEF VmRec
  <2>q. QED BY <1>3, <2>2
<1>6. PICK u : u = [a EXCEPT !.vm = v]
  OBVIOUS
<1>7. u \in WorldRec /\ u.vm = v /\ u.flow = a.flow
  BY <1>2, <1>5, <1>6 DEF WorldRec
<1>8. PICK keep \in {"agent", "nothing"} :
        LET x == Cleanup(u, keep)
        IN Become([x EXCEPT !.vm = [SetStatus(@, "idle") EXCEPT !.error = FALSE, !.bubbles = "blank"]])
  BY <1>2, <1>4, <1>6 DEF Leave
<1>9. PICK x \in WorldRec : x = Cleanup(u, keep)
  BY <1>7, CleanupTyped
<1>10. /\ x.flow = a.flow /\ x.vm.snapshot = vm.snapshot /\ x.vm.tearing = vm.tearing
       /\ x.vm.reconnecting = FALSE /\ x.vm.pending = "none" /\ x.vm.session = Null /\ x.vm \in VmRec
  BY <1>5, <1>7, <1>8, <1>9, CleanupIs, WorldTyped
<1>11. PICK s \in VmRec : s = SetStatus(x.vm, "idle")
  BY <1>10, SetStatusTyped DEF Statuses
<1>12. /\ s.status = "idle" /\ s.snapshot = vm.snapshot /\ s.tearing = vm.tearing
       /\ s.reconnecting = FALSE /\ s.pending = "none" /\ s.session = Null
  BY <1>10, <1>11, SetStatusIs DEF Statuses
<1>13. PICK y : y = [s EXCEPT !.error = FALSE, !.bubbles = "blank"]
  OBVIOUS
<1>14. /\ y \in VmRec /\ y.status = "idle" /\ y.snapshot = vm.snapshot /\ y.tearing = vm.tearing
       /\ y.reconnecting = FALSE /\ y.pending = "none" /\ y.session = Null
  <2>1. s \in VmRec BY <1>11
  <2>2. /\ y \in VmRec /\ y.status = s.status /\ y.snapshot = s.snapshot /\ y.tearing = s.tearing
        /\ y.reconnecting = s.reconnecting /\ y.pending = s.pending /\ y.session = s.session
    BY <1>13, <2>1 DEF VmRec, View
  <2>q. QED BY <1>12, <2>2
<1>15. PICK w : w = [x EXCEPT !.vm = y]
  OBVIOUS
<1>16. w \in WorldRec /\ w.vm = y /\ w.flow = a.flow
  BY <1>9, <1>10, <1>14, <1>15 DEF WorldRec
<1>17. Become(w)
  BY <1>8, <1>9, <1>11, <1>13, <1>15
<1>18. \A g \in Flows : flow[g].pc = "sleeping" => flow[g].mode = "none"
  <2>1. \A g \in Flows : Shape(flow[g]) /\ flow[g].mode \in Modes BY FlowShape, FlowIs
  <2>q. QED BY <2>1 DEF Shape
<1>19. Torn(w)
  BY <1>1, <1>3, <1>14, <1>16, <1>18 DEF Torn, Settled, Kept
<1>20. Shaped(w) /\ Looped(w) /\ Carried(w) /\ Attempted(w) /\ Thawed(w)
  BY <1>1, <1>3, <1>14, <1>16, RestShapes
     DEF Shaped, Looped, Carried, Attempted, Thawed, Settled, Kept
<1>21. \A g \in Flows : w.flow[g] \in {flow[g], NoFlow}
  BY <1>3, <1>16
<1>q. QED
  BY <1>14, <1>16, <1>17, <1>19, <1>20, <1>21 DEF Turn, Settled, Kept

(* Every step is one of the two. *)
LEMMA StepComesTo ==
  ASSUME Typed, Settled(World), Next
  PROVE  (\E w : Turn(w)) \/ (\E f \in Flows : Step(f) /\ \E w : Outcome(w, f))
<1>1. CASE \E f \in Flows : Step(f)
  BY <1>1, StepOutcome
<1>2. CASE SystemNext /\ ~ \E f \in Flows : Step(f)
  BY <1>2, CloseEventTurn, BackendTurn, PromptTurn DEF SystemNext, Events
<1>3. CASE UserNext
  <2>1. CASE Attach
    <3>1. Null \in Sessions \union {Null}
      OBVIOUS
    <3>q. QED BY <2>1, <3>1, AttachedTurn DEF Attach
  <2>2. CASE SendPrompt
    BY <2>2, PromptTurn
  <2>q. QED
    BY <1>3, <2>1, <2>2, SwitchSessionTurn, ReconnectTurn, AttachToLiveAgentTurn, LeaveTurn DEF UserNext
<1>q. QED
  BY <1>1, <1>2, <1>3 DEF Next

LEMMA SettledStep == Typed /\ Settled(World) /\ [Next]_vars => Settled(World)'
<1> SUFFICES ASSUME Typed, Settled(World), [Next]_vars PROVE Settled(World)'
  OBVIOUS
<1>1. CASE Next
  <2>1. \E w : w \in WorldRec /\ Become(w) /\ Settled(w)
    BY <1>1, StepComesTo DEF Turn, Outcome
  <2>q. QED BY <2>1, BecomeSettles
<1>2. CASE UNCHANGED vars
  <2>1. World' = World
    BY <1>2 DEF vars, World
  <2>q. QED BY <2>1, <1>2 DEF vars, Settled, Kept, Shaped, Shape, Looped, Torn, Carried, Attempted, Thawed, World
<1>q. QED
  BY <1>1, <1>2

LEMMA SettledAlways == Spec => [](Typed /\ Settled(World))
BY InitTyped, InitSettled, TypedStep, SettledStep, PTL DEF Spec

(* Whatever blocks the tab has somebody who clears it: a "connecting" status an
   attempt, #reconnecting a loop, #tearingDown a cold reconnect, a permission shown to
   the user a client that can carry the answer (agent-session.svelte.ts). *)
THEOREM StrandedCorrect == Spec => []NothingIsStranded
<1>1. Typed /\ Settled(World) => NothingIsStranded
  <2> SUFFICES ASSUME Typed, Settled(World) PROVE NothingIsStranded
    OBVIOUS
  <2>1. World.vm = vm /\ World.flow = flow
    BY WorldIs
  <2>q. QED BY <2>1 DEF NothingIsStranded, Settled, Kept, Looped, Torn, Carried, Attempted
<1>q. QED
  BY <1>1, SettledAlways, PTL

(* The display frozen at the head of #doReconnect is not left over a live session: the
   release in #setStatus is never passed by while the status becomes connected. *)
THEOREM FrozenCorrect == Spec => []FrozenIsReleased
<1>1. Typed /\ Settled(World) => FrozenIsReleased
  <2> SUFFICES ASSUME Typed, Settled(World) PROVE FrozenIsReleased
    OBVIOUS
  <2>1. World.vm = vm /\ World.flow = flow
    BY WorldIs
  <2>q. QED BY <2>1 DEF FrozenIsReleased, Settled, Thawed
<1>q. QED
  BY <1>1, SettledAlways, PTL

-----------------------------------------------------------------------------
(* The history on screen.  Without interference (~mixed) the retry is the    *)
(* only flow at work, works behind a frozen display, and tells the agent     *)
(* only once the history was replayed.                                       *)

Retrying(x) == x.kind \in {"loop", "manual"} /\ x.pc # "sleeping"

Alone == \A f, g \in Busy(flow) : f = g

Frozen == \A f \in Flows : Retrying(flow[f]) => vm.snapshot # "none"

Replayed ==
  \A f \in Flows :
    Retrying(flow[f]) /\ flow[f].pc = "telling" /\ vm.session # Null => vm.bubbles = "whole"

Hist == ~mixed => Alone /\ Frozen /\ Replayed

(* A step that ends unmixed began unmixed, and leaves one flow at work. *)
LEMMA Unmixed ==
  ASSUME NEW w, Become(w), ~mixed', NEW f \in Busy(w.flow)
  PROVE  ~mixed /\ \A g \in Busy(w.flow) : g = f
<1>1. PICK B : B = Busy(w.flow)
  OBVIOUS
<1>2. B \subseteq Flows /\ f \in B
  BY <1>1 DEF Busy
<1>3. IsFiniteSet(B) /\ Cardinality(B) \in Nat
  BY <1>2, LocalSessionAssumption, FS_Subset, FS_CardinalityType
<1>4. ~mixed /\ ~(Cardinality(B) > 1)
  BY <1>1, <1>2 DEF Become
<1>5. Cardinality(B) # 0
  BY <1>2, <1>3, FS_EmptySet
<1>6. Cardinality(B) = 1
  BY <1>3, <1>4, <1>5
<1>7. PICK x : B = {x}
  BY <1>3, <1>6, FS_Singleton
<1>q. QED
  BY <1>1, <1>2, <1>4, <1>7

LEMMA BusyIs ==
  ASSUME NEW fl, NEW f \in Flows PROVE f \in Busy(fl) <=> fl[f].kind \notin {"none", "closed"}
BY DEF Busy

LEMMA RestingIs == NoFlow.kind = "none" /\ Asleep.pc = "sleeping" /\ Asleep.kind = "loop"
BY DEF NoFlow, Asleep

LEMMA InitHist == Init => Hist
<1> SUFFICES ASSUME Init PROVE Hist
  OBVIOUS
<1>1. \A f \in Flows : flow[f].kind = "none"
  BY RestingIs DEF Init
<1>q. QED
  BY <1>1 DEF Hist, Alone, Frozen, Replayed, Retrying, Busy

(* What is rendered is the snapshot while there is one. *)
LEMMA RenderedIs ==
  ASSUME Typed
  PROVE  /\ Rendered(vm) # "none"
         /\ vm.snapshot # "none" => Rendered(vm) = vm.snapshot
         /\ vm.snapshot = "none" => Rendered(vm) = vm.bubbles
BY VmIs DEF Rendered, View

(* What is shown before and after a step, and who is at work. *)
Shows(w) ==
  \/ SameView(w, World)
  \/ vm.snapshot # "none" /\ w.vm.snapshot = vm.snapshot
  \/ w.vm.snapshot = Rendered(vm)
  \/ w.vm.snapshot = vm.snapshot /\ w.vm.bubbles = "whole"
  \/ w.vm.snapshot \in {vm.snapshot, "none"} /\ w.vm.bubbles = vm.bubbles /\ vm.bubbles = "whole"
  \/ w.vm.session # vm.session \/ vm.session = Null
  \/ \A f \in Flows : flow[f].kind \notin {"loop", "manual"}

(* What a step must leave for Hist to last. *)
Lasting(w) ==
  ~mixed' =>
    /\ \A f \in Flows : Retrying(w.flow[f]) => w.vm.snapshot # "none"
    /\ \A f \in Flows :
         Retrying(w.flow[f]) /\ w.flow[f].pc = "telling" /\ w.vm.session # Null
           => w.vm.bubbles = "whole"
    /\ ~mixed => Shows(w)

LEMMA OutcomeLasts ==
  ASSUME Typed, Hist, NEW g \in Flows, flow[g].kind # "none", NEW w, Outcome(w, g)
  PROVE  Lasting(w)
<1> SUFFICES ASSUME ~mixed' PROVE Lasting(w)
  BY DEF Lasting
<1>1. Become(w) /\ \A f \in Flows : f # g => w.flow[f] = flow[f]
  BY WorldIs DEF Outcome, Others
<1>2. ASSUME NEW f \in Flows, Retrying(w.flow[f])
      PROVE  ~mixed /\ Alone /\ Frozen /\ Replayed
  <2>1. f \in Busy(w.flow)
    BY <1>2, BusyIs DEF Retrying
  <2>q. QED BY <1>1, <2>1, Unmixed DEF Hist
<1>3. ASSUME flow[g].kind = "closed"
      PROVE  SameView(w, World) /\ w.flow[g] \in {NoFlow, Asleep}
  BY <1>3 DEF Outcome
<1>4. ASSUME NEW f \in Flows, f # g, Retrying(flow[f]), Alone PROVE flow[g].kind = "closed"
  BY <1>4, BusyIs DEF Alone, Retrying
<1>5. ASSUME NEW f \in Flows, Retrying(w.flow[f])
      PROVE  /\ w.vm.snapshot # "none"
             /\ w.flow[f].pc = "telling" /\ w.vm.session # Null => w.vm.bubbles = "whole"
  <2>1. CASE f # g
    <3>1. Retrying(flow[f]) /\ w.flow[f] = flow[f]
      BY <1>1, <1>5, <2>1
    <3>2. SameView(w, World)
      BY <1>2, <1>3, <1>4, <1>5, <2>1, <3>1
    <3>q. QED BY <1>2, <1>5, <3>1, <3>2, WorldIs DEF SameView, Frozen, Replayed
  <2>2. CASE f = g
    <3>1. w.flow[g] \notin {NoFlow, Asleep}
      BY <1>5, <2>2, RestingIs DEF Retrying
    <3>2. w.flow[g].kind = flow[g].kind /\ flow[g].kind \in {"loop", "manual"}
      BY <1>5, <2>2, <3>1 DEF Outcome, Retrying
    <3>3. flow[g].pc # "sleeping" => vm.snapshot # "none"
      BY <1>2, <1>5, <3>2 DEF Frozen, Retrying
    <3>4. \/ /\ w.vm.snapshot = vm.snapshot /\ flow[g].pc # "sleeping" /\ w.flow[g].pc # "telling"
          \/ w.vm.snapshot = Rendered(vm) /\ w.flow[g].pc # "telling"
          \/ w.vm.snapshot = vm.snapshot /\ w.vm.bubbles = "whole" /\ flow[g].pc = "asking"
      BY <3>1, <3>2 DEF Outcome
    <3>q. QED BY <2>2, <3>3, <3>4, RenderedIs
  <2>q. QED BY <2>1, <2>2
<1>6. ASSUME ~mixed PROVE Shows(w)
  <2>1. CASE flow[g].kind = "closed"
    BY <1>3, <2>1 DEF Shows
  <2>2. CASE flow[g].kind \in {"loop", "manual"}
    <3>1. flow[g].pc # "sleeping" => vm.snapshot # "none"
      BY <1>6, <2>2 DEF Hist, Frozen, Retrying
    <3>2. flow[g].pc = "telling" /\ vm.session # Null => vm.bubbles = "whole"
      BY <1>6, <2>2 DEF Hist, Replayed, Retrying
    <3>q. QED BY <2>2, <3>1, <3>2 DEF Outcome, Shows
  <2>3. CASE flow[g].kind \notin {"closed", "loop", "manual"}
    <3>1. g \in Busy(flow)
      BY <2>3, BusyIs
    <3>2. \A f \in Flows : f # g => f \notin Busy(flow)
      BY <1>6, <3>1 DEF Hist, Alone
    <3>3. \A f \in Flows : flow[f].kind \notin {"loop", "manual"}
      BY <2>3, <3>2, BusyIs
    <3>q. QED BY <3>3 DEF Shows
  <2>q. QED BY <2>1, <2>2, <2>3
<1>q. QED
  BY <1>5, <1>6 DEF Lasting

LEMMA TurnLasts == ASSUME Typed, Hist, NEW w, Turn(w) PROVE Lasting(w)
<1> SUFFICES ASSUME ~mixed' PROVE Lasting(w)
  BY DEF Lasting
<1>1. Become(w)
  BY DEF Turn
<1>2. ASSUME NEW f \in Flows, Retrying(w.flow[f])
      PROVE  /\ ~mixed /\ Alone /\ Frozen /\ Replayed
             /\ \A g \in Busy(w.flow) : g = f
  <2>1. f \in Busy(w.flow)
    BY <1>2, BusyIs DEF Retrying
  <2>q. QED BY <1>1, <2>1, Unmixed DEF Hist
<1>3. CASE /\ SameView(w, World)
           /\ \A g \in Flows : \/ w.flow[g] = flow[g]
                               \/ /\ flow[g].kind = "none"
                                  /\ w.flow[g] = Asleep \/ w.flow[g].kind \in {"none", "closed"}
  <2>1. \A f \in Flows : Retrying(w.flow[f]) => w.flow[f] = flow[f]
    BY <1>3, RestingIs DEF Retrying
  <2>q. QED BY <1>2, <1>3, <2>1, WorldIs DEF Lasting, Shows, SameView, Frozen, Replayed
<1>4. CASE \E n \in Flows : /\ flow[n].kind = "none" /\ Others(w, World, n)
                            /\ w.flow[n].kind \in {"attach", "switch", "live"}
  <2>1. PICK n \in Flows : /\ flow[n].kind = "none" /\ Others(w, World, n)
                           /\ w.flow[n].kind \in {"attach", "switch", "live"}
    BY <1>4
  <2>2. n \in Busy(w.flow)
    BY <2>1, BusyIs
  <2>3. \A f \in Flows : f # n => f \notin Busy(w.flow)
    BY <1>1, <2>2, Unmixed
  <2>4. \A f \in Flows : ~Retrying(w.flow[f])
    BY <2>1, <2>3, BusyIs DEF Retrying
  <2>5. \A f \in Flows : flow[f].kind \notin {"loop", "manual"}
    BY <2>1, <2>3, BusyIs, WorldIs DEF Others
  <2>q. QED BY <2>4, <2>5 DEF Lasting, Shows
<1>5. CASE /\ w.vm.snapshot = Rendered(vm) /\ w.vm.bubbles = vm.bubbles /\ w.vm.session = vm.session
           /\ \A g \in Flows : w.flow[g] \in {flow[g], NoFlow, Asleep} \/ w.flow[g].pc # "telling"
  <2>1. w.vm.snapshot # "none"
    BY <1>5, RenderedIs
  <2>2. \A f \in Flows : Retrying(w.flow[f]) /\ w.flow[f].pc = "telling" => w.flow[f] = flow[f]
    BY <1>5, RestingIs DEF Retrying
  <2>q. QED BY <1>2, <1>5, <2>1, <2>2 DEF Lasting, Shows, Replayed
<1>6. CASE /\ w.vm.session = Null /\ w.vm.snapshot = vm.snapshot
           /\ \A g \in Flows : w.flow[g] \in {flow[g], NoFlow}
  <2>1. \A f \in Flows : Retrying(w.flow[f]) => w.flow[f] = flow[f]
    BY <1>6, RestingIs DEF Retrying
  <2>q. QED BY <1>2, <1>6, <2>1 DEF Lasting, Shows, Frozen
<1>q. QED
  BY <1>3, <1>4, <1>5, <1>6 DEF Turn

LEMMA NextLasts ==
  ASSUME Typed, Settled(World), Hist, Next
  PROVE  \E w \in WorldRec : Become(w) /\ Lasting(w)
<1>1. CASE \E w : Turn(w)
  <2>1. PICK w : Turn(w)
    BY <1>1
  <2>q. QED BY <2>1, TurnLasts DEF Turn
<1>2. CASE \E f \in Flows : Step(f) /\ \E w : Outcome(w, f)
  <2>1. PICK f \in Flows : Step(f) /\ \E w : Outcome(w, f)
    BY <1>2
  <2>2. PICK w : Outcome(w, f)
    BY <2>1
  <2>3. flow[f].pc # "none"
    BY <2>1 DEF Step, Wake, Drained, Listed, Created, Opened, OpenFails, Greeted, GreetFails,
                Asked, AskFails, Told, Inquired
  <2>4. flow[f].kind # "none"
    BY <2>3, FlowShape DEF Shape
  <2>q. QED BY <2>2, <2>4, OutcomeLasts DEF Outcome
<1>q. QED
  BY <1>1, <1>2, StepComesTo

LEMMA HistStep == Typed /\ Settled(World) /\ Hist /\ [Next]_vars => Hist'
<1> SUFFICES ASSUME Typed, Settled(World), Hist, [Next]_vars PROVE Hist'
  OBVIOUS
<1>1. CASE Next
  <2>1. PICK w \in WorldRec : Become(w) /\ Lasting(w)
    BY <1>1, NextLasts
  <2>2. flow' = w.flow
    BY <2>1 DEF Become
  <2>3. /\ vm'.snapshot = w.vm.snapshot /\ vm'.bubbles = w.vm.bubbles
        /\ vm'.session = w.vm.session
    BY <2>1, BecomeIs
  <2>4. ASSUME ~mixed' PROVE Alone'
    <3>1. \A f, g \in Busy(w.flow) : f = g
      BY <2>1, <2>4, Unmixed
    <3>q. QED BY <2>2, <3>1 DEF Alone
  <2>5. ASSUME ~mixed' PROVE Frozen' /\ Replayed'
    BY <2>1, <2>2, <2>3, <2>5 DEF Lasting, Frozen, Replayed
  <2>q. QED BY <2>4, <2>5 DEF Hist
<1>2. CASE UNCHANGED vars
  BY <1>2 DEF vars, Hist, Alone, Frozen, Replayed
<1>q. QED
  BY <1>1, <1>2

LEMMA HistAlways == Spec => [](Typed /\ Settled(World) /\ Hist)
BY InitTyped, InitSettled, InitHist, TypedStep, SettledStep, HistStep, PTL DEF Spec

(* A reconnect that nothing interferes with never blanks the history on screen, warm,
   cold or from one to the other, and whether it succeeds or fails (renderBubbles and
   the snapshot of #doReconnect in agent-session.svelte.ts). *)
THEOREM HistoryCorrect == Spec => HistoryKept
<1>1. Typed /\ Settled(World) /\ Hist /\ [Next]_vars =>
        [(/\ ~mixed /\ ~mixed' /\ vm.session # Null /\ vm'.session = vm.session
          /\ \E f \in Flows : flow[f].kind \in {"loop", "manual"}
          /\ Rendered(vm) = "whole")
         => Rendered(vm') = "whole"]_vars
  <2> SUFFICES ASSUME Typed, Settled(World), Hist, Next,
                      ~mixed, ~mixed', vm.session # Null, vm'.session = vm.session,
                      \E f \in Flows : flow[f].kind \in {"loop", "manual"},
                      Rendered(vm) = "whole"
               PROVE  Rendered(vm') = "whole"
    OBVIOUS
  <2>1. PICK w \in WorldRec : Become(w) /\ Lasting(w)
    BY NextLasts
  <2>2. /\ vm'.snapshot = w.vm.snapshot /\ vm'.bubbles = w.vm.bubbles
        /\ vm'.session = w.vm.session
    BY <2>1, BecomeIs
  <2>3. \/ w.vm.snapshot = vm.snapshot /\ w.vm.bubbles = vm.bubbles
        \/ vm.snapshot # "none" /\ w.vm.snapshot = vm.snapshot
        \/ w.vm.snapshot = Rendered(vm)
        \/ w.vm.snapshot = vm.snapshot /\ w.vm.bubbles = "whole"
        \/ w.vm.snapshot \in {vm.snapshot, "none"} /\ w.vm.bubbles = vm.bubbles /\ vm.bubbles = "whole"
    BY <2>1, <2>2, WorldIs DEF Lasting, Shows, SameView
  <2>q. QED BY <2>2, <2>3 DEF Rendered
<1>q. QED
  BY <1>1, HistAlways, PTL DEF Spec, HistoryKept
=============================================================================
