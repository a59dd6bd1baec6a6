------------------------------- MODULE Speech -------------------------------
(***************************************************************************)
(* Reading an answer aloud: the speaker that turns sentences into speech   *)
(* jobs and fetches their audio (view-models/speaker.svelte.ts), the       *)
(* playlist that plays the segments in order and lets the driver pause and *)
(* jump (engines/audio-playlist.svelte.ts), the sink that holds the audio  *)
(* (engines/playable-sink.ts) and the order of the segments                *)
(* (core/src/voice/tts-queue.ts).                                          *)
(*                                                                         *)
(* The play loop is one asynchronous function.  "at" says at which await   *)
(* it is blocked; "top" and "start" are the stretches it runs without an   *)
(* await, during which nothing else happens.  "woken" says that the        *)
(* promise it awaits is resolved and its continuation is queued: only the  *)
(* rejection of an aborted fetch, queued by the same call, can run first.  *)
(***************************************************************************)
EXTENDS Integers, FiniteSets, Sequences, SequencesExt

CONSTANTS
  Bubbles,    \* number of bubbles, in the order in which they first speak
  PerBubble,  \* bound: segments of one bubble
  Composed,   \* the bubbles whose text is translated or narrated first
  Lookahead,  \* LOOKAHEAD: concurrent fetches
  MaxSegments,\* bound: segments enqueued
  MaxEvents,  \* bound: jumps, pauses and stops by the driver, streams that break
  None

ASSUME SpeechAssumption ==
  /\ Bubbles \in Nat \ {0} /\ PerBubble \in Nat \ {0}
  /\ Composed \subseteq 1 .. Bubbles
  /\ Lookahead \in Nat \ {0}
  /\ MaxSegments \in Nat /\ MaxEvents \in Nat
  /\ None \notin (1 .. Bubbles) \X (0 .. PerBubble - 1)

VARIABLES
  allocated, \* OrderAllocator: the next segment index of each bubble
  list,      \* the playlist's items, by position
  item,      \* and their data: state, needsRefetch, fetchEpoch, skipReason
  epoch,     \* segmentEpoch
  cursor,    \* position of the play loop, from 1
  jumpTarget,\* the position arrived at on purpose (0: none)
  transport, \* playing, paused or stopped
  loop,      \* where the play loop is
  jobs,      \* the speaker's jobs, in order
  status,    \* and their status
  ctrl,      \* the number of the abort controller each job holds now
  aborted,   \* the controllers that were aborted
  fetches,   \* the fetches that run
  pending,   \* pendingCount
  sink,      \* the audio the sink holds for each segment
  sinkCtrl,  \* and the abort controller it was given
  steered,   \* history: the driver jumped since the list was last empty
  events     \* counts up to MaxEvents

listVars   == <<list, item, epoch, cursor, jumpTarget>>
loopVars   == <<transport, loop>>
jobVars    == <<jobs, status, ctrl, fetches, pending>>
sinkVars   == <<sink, sinkCtrl, aborted>>
vars == <<allocated, listVars, loopVars, jobVars, sinkVars, steered, events>>

\* An order key: (seq of the bubble, segmentIndex).  It also names the segment.
Keys == (1 .. Bubbles) \X (0 .. PerBubble - 1)

\* compareOrderKey < 0
Before(a, b) == a[1] < b[1] \/ (a[1] = b[1] /\ a[2] < b[2])

ItemStates == {"absent", "reserved", "ready", "playing", "done", "error", "skipped"}
Absent     == [st |-> "absent", needs |-> FALSE, fetch |-> 0, skip |-> "-"]
Places     == {"off", "top", "start", "resume", "resumePlay", "park", "item", "play"}
Off        == [at |-> "off", seg |-> None, woken |-> FALSE, full |-> FALSE, lost |-> FALSE]

TypeOK ==
  /\ allocated \in [1 .. Bubbles -> 0 .. PerBubble]
  /\ list \in Seq(Keys)
  /\ item \in [Keys -> [st : ItemStates, needs : BOOLEAN, fetch : Nat,
                        skip : {"-", "orphan", "timeout"}]]
  /\ epoch \in [Keys -> Nat]
  /\ cursor \in 1 .. Len(list) + 1 /\ jumpTarget \in Nat
  /\ transport \in {"playing", "paused", "stopped"}
  /\ loop \in [at : Places, seg : Keys \union {None}, woken : BOOLEAN, full : BOOLEAN,
               lost : BOOLEAN]
  /\ jobs \in Seq(Keys)
  /\ status \in [Keys -> {"none", "pending", "fetching", "ready", "error", "stale"}]
  /\ ctrl \in [Keys -> Nat] /\ aborted \subseteq Keys \X Nat
  /\ fetches \subseteq [key : Keys, gen : Nat, phase : {"text", "synth"}, sig : Nat]
  /\ pending \in Nat
  /\ sink \in [Keys -> {"none", "loading", "complete", "cut", "broken"}]
  /\ sinkCtrl \in [Keys -> Nat]
  /\ steered \in BOOLEAN
  /\ events \in 0 .. MaxEvents

Init ==
  /\ allocated = [b \in 1 .. Bubbles |-> 0]
  /\ list = <<>> /\ item = [k \in Keys |-> Absent] /\ epoch = [k \in Keys |-> 0]
  /\ cursor = 1 /\ jumpTarget = 0
  /\ transport = "playing" /\ loop = Off
  /\ jobs = <<>> /\ status = [k \in Keys |-> "none"]
  /\ ctrl = [k \in Keys |-> 0] /\ aborted = {} /\ fetches = {} /\ pending = 0
  /\ sink = [k \in Keys |-> "none"] /\ sinkCtrl = [k \in Keys |-> 0]
  /\ steered = FALSE /\ events = 0

(***************************************************************************)
(* The state read by several operations                                    *)
(***************************************************************************)
\* another macrotask may start: the loop is blocked and stays so
Yields == loop.at \notin {"top", "start"}
Idle   == Yields /\ ~loop.woken

\* isComplete of the sink: the stream ended, or its reader gave up on it
Complete(k) == sink[k] \in {"complete", "cut"}

Waiting(k) == item[k].st \in {"reserved", "ready"}   \* pending() of the loop

AtCursor == IF cursor <= Len(list) THEN list[cursor] ELSE None

\* #lastPlayedIndex, as a position
LastPlayed ==
  Max({0} \union {i \in 1 .. Len(list) : item[list[i]].st \in {"done", "playing"}})

Happens == events < MaxEvents /\ events' = events + 1

GoTo(place) == [Off EXCEPT !.at = place]

Current(k) == <<k, ctrl[k]>>

\* #pumpFetchLoop: start the first pending jobs, up to LOOKAHEAD
Pump(js, st, fs) ==
  LET waiting == {i \in 1 .. Len(js) : st[js[i]] = "pending"}
      free    == Lookahead - Cardinality(fs)
      started == {js[i] : i \in {i \in waiting : Cardinality({j \in waiting : j < i}) < free}}
  IN  /\ status' = [k \in Keys |-> IF k \in started THEN "fetching" ELSE st[k]]
      /\ fetches' = fs \union
           {[key |-> k, gen |-> ctrl'[k], phase |-> "text", sig |-> 0] : k \in started}

(***************************************************************************)
(* A new sentence: #enqueue, AudioPlaylist.reserve, and the start of the   *)
(* loop or its wake from the end of the list.                              *)
(***************************************************************************)
\* sorted insert by compareOrderKey
Position(k) == 1 + Cardinality({i \in 1 .. Len(list) : Before(list[i], k)})

\* the cursor keeps pointing at the segment it points at
ShiftedCursor(i) ==
  IF loop.at # "off" /\ (i < cursor \/ (i = cursor /\ cursor <= Len(list)))
    THEN cursor + 1 ELSE cursor

(* Mutant: an insert does not wake the loop that waits at the end. *)
StaysParked == loop

\* the resolver of the wait at the end of the list
Unparked == IF loop.at = "park" THEN [loop EXCEPT !.woken = TRUE] ELSE loop

Reserve(k) ==
  /\ transport' = IF transport = "stopped" THEN "playing" ELSE transport
  /\ list' = InsertAt(list, Position(k), k)
  /\ item' = [item EXCEPT ![k] = [Absent EXCEPT !.st = "reserved", !.fetch = epoch[k]]]
  /\ IF loop.at = "off"
       THEN cursor' = 1 /\ loop' = GoTo("top")
       ELSE /\ cursor' = ShiftedCursor(Position(k))
            /\ loop' = Unparked
  /\ UNCHANGED <<epoch, jumpTarget>>

\* OrderAllocator.next: seq by first appearance, segmentIndex counts up
NextKey(b) == <<b, allocated[b]>>

Enqueue(b) ==
  /\ Idle /\ allocated[b] < PerBubble
  /\ Cardinality({k \in Keys : k[2] < allocated[k[1]]}) < MaxSegments
  /\ b > 1 => allocated[b - 1] > 0
  /\ LET k == NextKey(b)
     IN  /\ allocated' = [allocated EXCEPT ![b] = @ + 1]
         /\ Reserve(k)
         /\ jobs' = Append(jobs, k) /\ pending' = pending + 1
         /\ UNCHANGED ctrl
         /\ Pump(jobs', [status EXCEPT ![k] = "pending"], fetches)
  /\ UNCHANGED <<sinkVars, steered, events>>

(***************************************************************************)
(* Fetching the audio: #fetchJob and its outcome.  The job's controller is *)
(* read at each use, so that a fetch begun before invalidate() sees the    *)
(* controller of the refetch.                                              *)
(***************************************************************************)
Stale(k) == item[k].fetch < epoch[k]

\* markReady, markError, markAbandoned: what becomes of the item
Marked(k, outcome) ==
  IF item[k].st = "absent" \/ Stale(k) THEN item[k]
  ELSE IF outcome = "abandoned" THEN [item[k] EXCEPT !.st = "reserved", !.needs = TRUE]
  ELSE IF item[k].st = "reserved" THEN [item[k] EXCEPT !.st = outcome]
  ELSE item[k]

(* Mutant: the counter is not floored at zero. *)
FewerPendingUnfloored == pending - 1

\* the finally of #fetchJob
FewerPending == IF pending > 0 THEN pending - 1 ELSE 0

Settle(f, outcome, verdict) ==
  LET k == f.key
  IN  /\ item' = [item EXCEPT ![k] = Marked(k, outcome)]
      /\ loop' = IF loop.seg # k THEN loop
                 ELSE [loop EXCEPT !.woken = @ \/ (loop.at = "item" /\ ~Stale(k)),
                                   !.lost  = @ \/ (loop.at = "play" /\ outcome = "ready"
                                                   /\ sink[k] # "none")]
      /\ pending' = FewerPending
      /\ UNCHANGED <<jobs, ctrl>>
      /\ Pump(jobs, IF status[k] = "none" THEN status ELSE [status EXCEPT ![k] = verdict],
              fetches \ {f})
      /\ UNCHANGED <<list, epoch, cursor, jumpTarget, transport, allocated, steered, events>>

\* the catch block of #fetchJob
Caught(f) == IF Current(f.key) \in aborted THEN "abandoned" ELSE "error"

\* The translation or the narration answers, then cacheKeyFor, and synthesize is
\* called with the controller of now.  Only a composed text looks at it before.
TextDone(f) ==
  /\ f.phase = "text"
  /\ IF f.key[1] \in Composed /\ Current(f.key) \in aborted
       THEN Yields /\ Settle(f, "abandoned", "error")
       ELSE /\ Idle
            /\ fetches' = (fetches \ {f}) \union {[f EXCEPT !.phase = "synth", !.sig = ctrl[f.key]]}
            /\ UNCHANGED <<allocated, listVars, loopVars, jobs, status, ctrl, pending, steered, events>>
  /\ UNCHANGED sinkVars

\* narrate answers null, something throws, or the provider is not available
TextFails(f) ==
  /\ Idle /\ f.phase = "text"
  /\ Settle(f, "error", "error") \/ Settle(f, Caught(f), "error")
  /\ UNCHANGED sinkVars

\* synthesize answers; prepareSegment replaces the audio held for the segment
SynthDone(f) ==
  /\ Idle /\ f.phase = "synth" /\ <<f.key, f.sig>> \notin aborted
  /\ sink' = [sink EXCEPT ![f.key] = "loading"]
  /\ sinkCtrl' = [sinkCtrl EXCEPT ![f.key] = ctrl[f.key]]
  /\ aborted' = IF sink[f.key] = "none" THEN aborted
                ELSE aborted \union {<<f.key, sinkCtrl[f.key]>>}
  /\ Settle(f, "ready", "ready")

\* synthesize rejects, because it was aborted or because the provider failed
SynthFails(f) ==
  /\ f.phase = "synth"
  /\ IF <<f.key, f.sig>> \in aborted THEN Yields ELSE Idle
  /\ Settle(f, Caught(f), "error")
  /\ UNCHANGED sinkVars

FetchNext(f) ==
  TextDone(f) \/ TextFails(f) \/ SynthDone(f) \/ SynthFails(f)

\* the background reader of a prepared stream reaches its end
StreamEnds(k) ==
  /\ Idle /\ sink[k] = "loading" /\ <<k, sinkCtrl[k]>> \notin aborted
  /\ sink' = [sink EXCEPT ![k] = "complete"]
  /\ UNCHANGED <<allocated, listVars, loopVars, jobVars, sinkCtrl, aborted, steered, events>>

\* it is aborted, or the connection breaks: an mp3 segment is lost, a pcm one
\* that plays counts as ended
StreamBreaks(k) ==
  /\ Idle /\ sink[k] = "loading"
  /\ IF <<k, sinkCtrl[k]>> \in aborted THEN UNCHANGED events ELSE Happens
  /\ \E end \in {"broken", "cut"} : sink' = [sink EXCEPT ![k] = end]
  /\ UNCHANGED <<allocated, listVars, loopVars, jobVars, sinkCtrl, aborted, steered>>

(***************************************************************************)
(* The play loop                                                           *)
(***************************************************************************)
\* play of the sink; a segment it does not hold throws, which is caught
StartPlay(k, full) ==
  /\ item' = [item EXCEPT ![k].st = "playing"]
  /\ loop' = [Off EXCEPT !.at = "play", !.seg = k, !.full = full, !.woken = (sink[k] = "none")]

\* one turn of the loop, from its head to its next await or continue
LoopPauses ==
  /\ loop.at = "top" /\ transport = "paused"
  /\ loop' = GoTo("resume")
  /\ UNCHANGED <<allocated, listVars, transport, jobVars, sinkVars, steered, events>>

(* Mutant: an orphan is played though a later segment was. *)
OrphansAnywhere == {i \in 1 .. Len(list) : Waiting(list[i])}

\* what was never played, behind nothing that was
Orphans == {i \in 1 .. Len(list) : i > LastPlayed /\ Waiting(list[i])}

(* Mutant: an orphan is left as it is, without a word. *)
SkipInSilence(k, reason) ==
  IF item[k].skip # "-" \/ reason = "orphan" THEN item[k]
  ELSE [item[k] EXCEPT !.st = "skipped", !.skip = reason]

\* #markSkipped: once per item
Skip(k, reason) == IF item[k].skip # "-" THEN item[k]
                   ELSE [item[k] EXCEPT !.st = "skipped", !.skip = reason]

LoopAtEnd ==
  /\ loop.at = "top" /\ transport # "paused" /\ AtCursor = None
  /\ IF Orphans # {}
       THEN /\ cursor' = Min(Orphans) /\ jumpTarget' = Min(Orphans)
            /\ UNCHANGED <<item, loop>>
       ELSE /\ item' = [k \in Keys |-> IF Waiting(k) THEN Skip(k, "orphan") ELSE item[k]]
            /\ loop' = GoTo("park")
            /\ UNCHANGED <<cursor, jumpTarget>>
  /\ UNCHANGED <<allocated, list, epoch, transport, jobVars, sinkVars, steered, events>>

LoopPlays ==
  /\ loop.at = "top" /\ transport # "paused" /\ AtCursor # None
  /\ LET k == AtCursor
     IN  /\ item[k].st = "ready" \/ (item[k].st = "done" /\ cursor = jumpTarget /\ Complete(k))
         /\ StartPlay(k, Complete(k))
  /\ UNCHANGED <<allocated, list, epoch, cursor, jumpTarget, transport, jobVars, sinkVars,
                 steered, events>>

\* an item dropped before is fetched again: owner.refetch
Refetch(k) ==
  /\ item' = [item EXCEPT ![k].needs = FALSE, ![k].fetch = epoch[k]]
  /\ IF status[k] \in {"none", "fetching", "ready"}
       THEN UNCHANGED jobVars
       ELSE /\ ctrl' = [ctrl EXCEPT ![k] = @ + 1]
            /\ pending' = pending + 1
            /\ Pump(jobs, [status EXCEPT ![k] = "pending"], fetches)
            /\ UNCHANGED jobs

LoopWaits ==
  /\ loop.at = "top" /\ transport # "paused" /\ AtCursor # None
  /\ item[AtCursor].st = "reserved"
  /\ loop' = [GoTo("item") EXCEPT !.seg = AtCursor]
  /\ IF item[AtCursor].needs THEN Refetch(AtCursor) ELSE UNCHANGED <<item, jobVars>>
  /\ UNCHANGED <<allocated, list, epoch, cursor, jumpTarget, transport, sinkVars, steered,
                 events>>

\* error, skipped, or done and not returned to: crawl on
LoopCrawls ==
  /\ loop.at = "top" /\ transport # "paused" /\ AtCursor # None
  /\ \/ item[AtCursor].st \in {"error", "skipped", "playing"}
     \/ item[AtCursor].st = "done" /\ ~(cursor = jumpTarget /\ Complete(AtCursor))
  /\ cursor' = cursor + 1
  /\ UNCHANGED <<allocated, list, item, epoch, jumpTarget, loopVars, jobVars, sinkVars, steered,
                 events>>

\* the wait for an item ends
LoopResumesItem ==
  /\ loop.at = "item" /\ loop.woken
  /\ LET k == loop.seg
         again == item[k].st = "reserved" /\ item[k].needs
     IN  \/ /\ AtCursor # k \/ again
            /\ loop' = GoTo("top") /\ UNCHANGED <<item, cursor>>
         \/ /\ AtCursor = k /\ item[k].st = "ready"
            /\ IF transport = "paused"
                 THEN loop' = [GoTo("resumePlay") EXCEPT !.seg = k] /\ UNCHANGED item
                 ELSE StartPlay(k, FALSE)
            /\ UNCHANGED cursor
         \/ /\ AtCursor = k /\ item[k].st # "ready" /\ ~again
            /\ cursor' = cursor + 1 /\ loop' = GoTo("top") /\ UNCHANGED item
  /\ UNCHANGED <<allocated, list, epoch, jumpTarget, transport, jobVars, sinkVars, steered,
                 events>>

\* reserveTimeoutMs
ReserveTimeout ==
  /\ loop.at = "item" /\ ~loop.woken
  /\ IF AtCursor = loop.seg
       THEN item' = [item EXCEPT ![loop.seg] = Skip(loop.seg, "timeout")] /\ cursor' = cursor + 1
       ELSE UNCHANGED <<item, cursor>>
  /\ loop' = GoTo("top")
  /\ UNCHANGED <<allocated, list, epoch, jumpTarget, transport, jobVars, sinkVars, steered,
                 events>>

\* the pause before play ends: the item held is played wherever the cursor is
LoopStarts ==
  /\ loop.at = "start"
  /\ StartPlay(loop.seg, FALSE)
  /\ UNCHANGED <<allocated, list, epoch, cursor, jumpTarget, transport, jobVars, sinkVars,
                 steered, events>>

\* the audio ends; the play of a replaced segment may also never end
PlayEnds ==
  /\ loop.at = "play" /\ ~loop.woken /\ transport # "paused"
  /\ loop.lost \/ sink[loop.seg] # "loading"
  /\ loop' = [loop EXCEPT !.woken = TRUE]
  /\ UNCHANGED <<allocated, listVars, transport, jobVars, sinkVars, steered, events>>

LoopResumesPlay ==
  /\ loop.at = "play" /\ loop.woken
  /\ IF AtCursor = loop.seg
       THEN /\ item' = [item EXCEPT ![loop.seg] =
                 IF loop.full \/ Complete(loop.seg) THEN [@ EXCEPT !.st = "done"]
                 ELSE [@ EXCEPT !.st = "reserved", !.needs = TRUE]]
            /\ cursor' = cursor + 1
       ELSE UNCHANGED <<item, cursor>>
  /\ loop' = GoTo("top")
  /\ UNCHANGED <<allocated, list, epoch, jumpTarget, transport, jobVars, sinkVars, steered,
                 events>>

LoopUnparks ==
  /\ loop.at = "park" /\ loop.woken
  /\ loop' = GoTo("top")
  /\ UNCHANGED <<allocated, listVars, transport, jobVars, sinkVars, steered, events>>

LoopNext ==
  \/ LoopPauses \/ LoopAtEnd \/ LoopPlays \/ LoopWaits \/ LoopCrawls \/ LoopResumesItem
  \/ LoopStarts \/ LoopResumesPlay \/ LoopUnparks

(***************************************************************************)
(* The driver                                                              *)
(***************************************************************************)
Pause ==
  /\ Idle /\ transport = "playing"
  /\ transport' = "paused" /\ Happens
  /\ UNCHANGED <<allocated, listVars, loop, jobVars, sinkVars, steered>>

Resume ==
  /\ Idle /\ transport = "paused"
  /\ transport' = "playing"
  /\ loop' = CASE loop.at = "resume"     -> GoTo("top")
               [] loop.at = "resumePlay" -> [loop EXCEPT !.at = "start"]
               [] OTHER                  -> loop
  /\ UNCHANGED <<allocated, listVars, jobVars, sinkVars, steered, events>>

\* Speaker.invalidate of the segments dropped, and AudioSink.cancel
Invalidate(dropped, cancelled) ==
  LET open == {k \in dropped : status[k] \in {"pending", "fetching", "ready"}}
      idle == Cardinality({k \in dropped : status[k] = "pending"})
      held == {k \in cancelled : sink[k] # "none"}
  IN  /\ status' = [k \in Keys |-> IF k \in open THEN "stale" ELSE status[k]]
      /\ pending' = IF pending > idle THEN pending - idle ELSE 0
      /\ aborted' = aborted \union {Current(k) : k \in open}
                            \union {<<k, sinkCtrl[k]>> : k \in held}
      /\ sink' = [k \in Keys |-> IF k \in held THEN "none" ELSE sink[k]]
      /\ UNCHANGED <<jobs, ctrl, fetches, sinkCtrl>>

\* What #navigate drops: the segment it leaves and, for a way back, the one it
\* goes to, if their audio is not complete; and a target that has none any more.
Here == {AtCursor} \ {None}

Target(n, reset) == {k \in {list[n]} \ Here : reset /\ ~Complete(k)
                                             /\ item[k].st \in {"ready", "playing", "reserved"}}

(* Mutant: the target's audio is cancelled but its item stays as it was. *)
DroppedKeepsTarget(n, reset) ==
       {k \in Here : ~Complete(k) /\ item[k].st \in {"playing", "ready", "reserved"}}
  \union {k \in {list[n]} : ~Complete(k) /\ item[k].st \in {"done", "error"}}

Dropped(n, reset) ==
       {k \in Here : ~Complete(k) /\ item[k].st \in {"playing", "ready", "reserved"}}
  \union Target(n, reset)
  \union {k \in {list[n]} : ~Complete(k) /\ item[k].st \in {"done", "error"}}

Cancelled(n, reset) ==
  {k \in Here : ~Complete(k)} \union {k \in Target(n, reset) : item[k].st # "reserved"}

\* the item of a segment after a jump that drops some
Jumped(k, gone) ==
  IF k \in gone THEN [item[k] EXCEPT !.st = "reserved", !.needs = TRUE]
  ELSE IF k \in Here /\ Complete(k) /\ item[k].st = "playing" THEN [item[k] EXCEPT !.st = "done"]
  ELSE item[k]

\* #navigate; reset is FALSE for next() and TRUE for prev() and the jumps
Navigate(n, reset) ==
  /\ Idle /\ Happens /\ loop.at # "off" /\ n \in 1 .. Len(list)
  /\ LET gone == Dropped(n, reset)
     IN  /\ item' = [k \in Keys |-> Jumped(k, gone)]
         /\ epoch' = [k \in Keys |-> IF k \in gone THEN epoch[k] + 1 ELSE epoch[k]]
         /\ Invalidate(gone, Cancelled(n, reset))
         /\ loop' = IF loop.at \in {"play", "park"} \/ (loop.at = "item" /\ loop.seg \in gone)
                      THEN [loop EXCEPT !.woken = TRUE] ELSE loop
  /\ cursor' = n /\ jumpTarget' = n /\ steered' = TRUE
  /\ UNCHANGED <<allocated, list, transport>>

Skips  == Navigate(cursor + 1, FALSE)
Backs  == Navigate(cursor - 1, TRUE)
\* jumpToBubble: to the first segment of a bubble
JumpToBubble == \E n \in 1 .. Len(list) :
  /\ \A m \in 1 .. n - 1 : list[m][1] # list[n][1]
  /\ Navigate(n, TRUE)

\* AudioPlaylist.stop; "also" leaves the sink with it, "ended" is aborted with it
EmptyList(also, ended) ==
  LET held == {k \in Keys : /\ item[k].st \in {"reserved", "ready", "playing"} \/ k \in also
                            /\ sink[k] # "none"}
  IN  /\ list' = <<>> /\ item' = [k \in Keys |-> Absent]
      /\ cursor' = 1 /\ transport' = "stopped" /\ loop' = Off
      /\ sink' = [k \in Keys |-> IF k \in held THEN "none" ELSE sink[k]]
      /\ aborted' = aborted \union {<<k, sinkCtrl[k]>> : k \in held} \union ended
      /\ steered' = FALSE /\ Happens
      /\ UNCHANGED <<epoch, jumpTarget, sinkCtrl, allocated>>

\* the bubble player stops the playlist; the jobs go on
StopPlaylist ==
  /\ Idle
  /\ EmptyList({}, {})
  /\ UNCHANGED jobVars

\* Speaker.#stopAndClear: stop, mute, a live voice session or another chat
StopAndClear ==
  /\ Idle
  /\ EmptyList(Keys, {Current(k) : k \in {j \in Keys : status[j] \in {"fetching", "pending", "stale"}}})
  /\ jobs' = <<>> /\ status' = [k \in Keys |-> "none"] /\ pending' = 0
  /\ UNCHANGED <<ctrl, fetches>>

DriverNext == Pause \/ Resume \/ Skips \/ Backs \/ JumpToBubble \/ StopPlaylist \/ StopAndClear

Next ==
  \/ \E b \in 1 .. Bubbles : Enqueue(b)
  \/ \E f \in fetches : FetchNext(f)
  \/ \E k \in Keys : StreamEnds(k) \/ StreamBreaks(k)
  \/ LoopNext \/ ReserveTimeout \/ PlayEnds
  \/ DriverNext

Spec == Init /\ [][Next]_vars

\* Microtasks and timers run; a fetch ends one way or the other, and so does a
\* stream; what plays ends, unless its audio was taken away under it.
Liveness ==
  /\ WF_vars(LoopNext \/ ReserveTimeout)
  /\ WF_vars(~loop.lost /\ PlayEnds)
  /\ WF_vars(\E f \in fetches : FetchNext(f))
  /\ WF_vars(\E k \in Keys : StreamEnds(k) \/ StreamBreaks(k))

FairSpec == Spec /\ Liveness

(***************************************************************************)
(* Properties                                                              *)
(***************************************************************************)
\* Nothing is left behind in silence: when the loop waits at the end of the
\* list and the driver has not jumped, every segment was heard, failed or was
\* given up with a reason, however late it arrived and wherever it was inserted
\* (audio-playlist.svelte.ts:683, the orphan scan and what follows it).
ParkedLeavesNothing ==
  ~steered /\ loop.at = "park" /\ ~loop.woken => \A k \in Keys : ~Waiting(k)

\* A segment the playlist calls ready is held by the sink, although jumps
\* cancel audio, fetches are redone and results arrive late
\* (audio-playlist-invariants.ts:63, I4).
ReadyHasAudio == \A k \in Keys : item[k].st = "ready" => sink[k] # "none"

\* Without a jump no segment starts after a later one was heard: a late tail of
\* an earlier bubble is given up rather than heard out of order
\* (audio-playlist.svelte.ts:675, "only an orphan after which nothing played").
PlaysInOrder == [][
  \A k \in Keys :
    ~steered /\ item[k].st # "playing" /\ item'[k].st = "playing" =>
      \A j \in Keys : Before(k, j) => item[j].st \notin {"done", "playing"}]_vars

\* Every segment is heard, fails or is given up, unless the driver leaves the
\* playlist paused or jumps: a late insert wakes the loop that waits at the end,
\* and a fetch that brings nothing is timed out (audio-playlist.svelte.ts:335-348).
EverySegmentSettles ==
  (<>[](transport = "paused")) \/ (<>[]steered) \/ \A k \in Keys : []<>~Waiting(k)

\* "The result of a cancelled fetch will not touch a new reservation"
\* (audio-playlist.svelte.ts:390).  The guard compares epochs that the refetch
\* has made equal again, and the fetch reads the controller of the refetch.
StaleResultIgnored == [][
  \A f \in fetches :
    f.gen < ctrl[f.key] /\ (\A g \in fetches' : g.key # f.key \/ g.gen # f.gen) =>
      item'[f.key] = item[f.key]]_vars
=============================================================================
