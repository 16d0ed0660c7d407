---------------------------- MODULE BridgeMedia ----------------------------
(***************************************************************************)
(* The media path of the loopback bridge, class LocalRtspBridge of         *)
(* src/tools/probe_local_rtsp_bridge.py: packets of the upstream playback  *)
(* are renumbered into one downstream source per track and queued for the  *)
(* client, while the application seeks, or hands over to a prepared        *)
(* playback of the next file.                                              *)
(*                                                                         *)
(* Three threads meet here.  The reader fetches a batch under control_lock *)
(* and processes it after releasing the lock; the application holds the    *)
(* lock over a seek and over the whole handoff, in which it processes the  *)
(* staged packets itself; the sender empties the queue.  The lock is held  *)
(* by the application exactly in the control states LockHeld; the reader   *)
(* takes it for one step.  Whether the client is playing is a matter of    *)
(* BridgeSession.tla: here the reader may run at any time.                 *)
(***************************************************************************)
EXTENDS Integers, Sequences, FiniteSets

CONSTANTS
  Sources,        \* the playbacks, one upstream SSRC each
  First,          \* the one the bridge starts with
  Tracks,         \* configurations: the tracks of the downstream session
  Coded,          \* the tracks with parameter sets in the SDP
  ParameterSets,  \* how many parameter sets such a track has
  Capacity,       \* queue_capacity
  HandoffLimit,   \* HANDOFF_PACKET_LIMIT
  SeqMod, TsMod,  \* 2^16 and 2^32: the width of RTP numbers and timestamps
  ClockRate,      \* ticks of the RTP clock in a second
  FirstSeq, FirstTs,  \* secrets.randbits: where the numbering starts
  FirstClock,     \* where the recorder's RTP clock starts
  Ahead,          \* ticks by which a packet is stamped after the last
  Jumps,          \* how far a seek moves the upstream RTP clock
  None,
  MaxPackets,     \* bound: upstream packets
  MaxCommands     \* bound: seeks and handoffs

ASSUME SourcesAssumption == First \in Sources /\ None \notin Sources
ASSUME NoneAssumption == None \notin Int
ASSUME TracksAssumption == Coded \subseteq Tracks /\ ParameterSets \in Nat \ {0}
ASSUME LimitsAssumption == Capacity \in Nat \ {0} /\ HandoffLimit \in Nat \ {0}
ASSUME NumbersAssumption ==
  /\ SeqMod \in Nat \ {0} /\ FirstSeq \in 0..SeqMod - 1
  /\ TsMod \in Nat \ {0} /\ FirstTs \in 0..TsMod - 1 /\ FirstClock \in 0..TsMod - 1
  /\ ClockRate \in Nat \ {0} /\ Ahead \subseteq Nat /\ Jumps \subseteq Int
ASSUME BoundsAssumption == MaxPackets \in Nat /\ MaxCommands \in Nat

VARIABLES
  (* upstream *)
  pb,             \* state of each playback
  clock, pos,     \* each recorder session's RTP clock, and how often it sought
  upq,            \* packets each playback has received and not handed out
  (* the bridge *)
  playback, prepared, outgoing,
  mapper,         \* per track: RtpContinuityMapper
  reinject,       \* reinject_pending
  pending,        \* pending_rtcp
  queue, expect,  \* queue; number of the next RTP packet at its head, or to come
  stopped,        \* stop_event
  (* the threads *)
  apc,            \* the application
  staged, ready,  \* activate_transition
  work, cur,      \* per processing thread: packets left, and the one in hand
  (* ghosts and bounds *)
  held,           \* tracks the reader was still processing at a discontinuity
  primed,         \* tracks whose parameter sets were queued after it
  announced,      \* the position of playback that it is called for
  overlapped,     \* the reader was processing when the handoff began to
  revisited,      \* a recorder's clock came near timestamps it gave out before
  raised,         \* a playback's close() raised inside prepare_transition
  packets, commands

upstream == <<pb, clock, pos, upq>>
bridge   == <<playback, prepared, outgoing, mapper, reinject, pending, queue, expect, stopped>>
threads  == <<apc, staged, ready, work, cur>>
ghosts   == <<held, primed, announced, overlapped, revisited, raised>>
bounds   == <<packets, commands>>
vars == <<upstream, bridge, threads, ghosts, bounds>>

Processors == {"reader", "app"}
Active == {"playing", "paused"}
LockHeld == {"collect", "mark", "reset", "process"}
QueueClosed == apc \in {"join", "closed"}
Idle == [step |-> "idle", seq |-> 0, ts |-> 0, injected |-> FALSE]

-----------------------------------------------------------------------------
(* RtpContinuityMapper: one upstream source mapped into one downstream     *)
(* source.  jump is pending_discontinuity, report needs_sender_report; at  *)
(* is a ghost, the position of the last packet mapped.                     *)

NewMapper == [next |-> FirstSeq, up |-> None, down |-> None, ssrc |-> None,
              at |-> 0, jump |-> FALSE, report |-> FALSE]

Discontinuity(m) == [m EXCEPT !.jump = TRUE, !.report = TRUE]

(* max(1, round(elapsed * clock_rate)) for an elapsed time of at most 0.25 *)
ArrivalIncrement == 1 .. IF ClockRate < 4 THEN 1 ELSE ClockRate \div 4

Delta(m, u) == (u - m.up) % TsMod
(* mutation: the difference is not taken modulo 2^32 *)
ContinuousUnmasked(m, u) == u - m.up <= 2 * ClockRate

Continuous(m, u) == Delta(m, u) <= 2 * ClockRate

MapTimestamp(m, u, inc) ==
  IF m.down = None THEN FirstTs
  ELSE IF ~m.jump /\ Continuous(m, u) THEN (m.down + Delta(m, u)) % TsMod
  ELSE (m.down + inc) % TsMod

(* mutation: the number is not masked to 16 bits *)
RewriteUnmasked(m, pkt, ts) ==
  [m EXCEPT !.next = m.next + 1, !.up = pkt.ts, !.down = ts,
            !.ssrc = pkt.src, !.at = pkt.pos, !.jump = FALSE]

Rewrite(m, pkt, ts) ==
  [m EXCEPT !.next = (m.next + 1) % SeqMod, !.up = pkt.ts, !.down = ts,
            !.ssrc = pkt.src, !.at = pkt.pos, !.jump = FALSE]

(* translate_rtcp_timestamp returns a timestamp, and rewrite_rtcp the report *)
Translatable(m, sr) ==
  /\ ~m.jump /\ m.down # None
  /\ sr.src = m.ssrc
  /\ Continuous(m, sr.ts)

-----------------------------------------------------------------------------
(* BoundedPacketQueue *)

Item(kind, pkt, seq, ts, m) ==
  [kind |-> kind, track |-> pkt.track, seq |-> seq, ts |-> ts,
   src |-> pkt.src, pos |-> pkt.pos, of |-> m.ssrc, at |-> m.at]

(* where the items are that bear numbers of a track, and how many *)
Numbered(s, t) == {i \in DOMAIN s : s[i].track = t /\ s[i].kind \in {"rtp", "init"}}
Count(s, t) == Cardinality(Numbered(s, t))

Gone(items) == [t \in Tracks |-> (expect[t] + Count(items, t)) % SeqMod]

(* put, of several items in turn: the oldest are dropped at capacity *)
Put(items) ==
  LET all == queue \o items
      over == IF Len(all) > Capacity THEN Len(all) - Capacity ELSE 0
  IN  /\ queue' = IF QueueClosed THEN queue ELSE SubSeq(all, over + 1, Len(all))
      /\ expect' = IF QueueClosed THEN expect ELSE Gone(SubSeq(all, 1, over))

ClearQueue == queue' = <<>> /\ expect' = Gone(queue)

(* _sender_loop takes the oldest packet, for the client *)
Send ==
  /\ ~stopped /\ queue # <<>>
  /\ queue' = Tail(queue) /\ expect' = Gone(<<Head(queue)>>)
  /\ UNCHANGED <<upstream, playback, prepared, outgoing, mapper, reinject, pending,
                 stopped, threads, ghosts, bounds>>

-----------------------------------------------------------------------------
(* Upstream (external): the recorder sends, to a playback that is paused   *)
(* too: what was under way, or more if the reply to a resume was lost.  A  *)
(* sender report bears the timestamp of the moment, between the packets'.  *)
(* After 2^32 ticks, less the two seconds within which timestamps are      *)
(* taken for neighbours, the clock comes near where it started.            *)

Elapsed(ts) == (ts - FirstClock) % TsMod
Around(s, d) == Elapsed(clock[s]) + d + 2 * ClockRate >= TsMod

Produce(s, t, kind, d) ==
  /\ packets < MaxPackets /\ pb[s] \in Active
  /\ packets' = packets + 1
  /\ clock' = [clock EXCEPT ![s] = (@ + d) % TsMod]
  /\ revisited' = (revisited \/ Around(s, d))
  /\ upq' = [upq EXCEPT ![s] = Append(@, [track |-> t, kind |-> kind, src |-> s,
                                          pos |-> pos[s], ts |-> (clock[s] + d) % TsMod])]
  /\ UNCHANGED <<pb, pos, bridge, threads, held, primed, announced, overlapped, raised,
                 commands>>

-----------------------------------------------------------------------------
(* _reader_loop *)

ReaderMay == ~stopped /\ apc \notin LockHeld /\ work["reader"] = <<>>

ReaderReceive ==
  /\ ReaderMay /\ pb[playback] = "playing" /\ upq[playback] # <<>>
  /\ work' = [work EXCEPT !["reader"] = upq[playback]]
  /\ upq' = [upq EXCEPT ![playback] = <<>>]
  /\ UNCHANGED <<pb, clock, pos, bridge, apc, staged, ready, cur, ghosts, bounds>>

(* receive_packets raises: error and stop_event are set, the thread ends *)
ReaderFails ==
  /\ ReaderMay /\ upq[playback] = <<>>
  /\ stopped' = TRUE
  /\ UNCHANGED <<upstream, playback, prepared, outgoing, mapper, reinject, pending,
                 queue, expect, threads, ghosts, bounds>>

(* _process_packet, by the reader or by the application.  For RTP: number  *)
(* and timestamp; then the parameter sets, once after a discontinuity;     *)
(* then the report the bridge generates, the packet, and a report that was *)
(* held back for it.                                                       *)

Number(p, inc) ==
  /\ work[p] # <<>> /\ cur[p].step = "idle"
  /\ LET pkt == Head(work[p])
         m == mapper[pkt.track]
         ts == MapTimestamp(m, pkt.ts, inc)
     IN  /\ pkt.kind = "rtp"
         /\ mapper' = [mapper EXCEPT ![pkt.track] = Rewrite(m, pkt, ts)]
         /\ cur' = [cur EXCEPT ![p] = [Idle EXCEPT !.step = "inject", !.seq = m.next, !.ts = ts]]
  /\ UNCHANGED <<upstream, playback, prepared, outgoing, reinject, pending, queue, expect,
                 stopped, apc, staged, ready, work, ghosts, bounds>>

(* initialization_packets, and the media packet renumbered after them *)
Inject(p) ==
  /\ cur[p].step = "inject"
  /\ LET pkt == Head(work[p])
         t == pkt.track
         c == cur[p]
         seq(i) == (c.seq + i) % SeqMod
     IN  IF t \in reinject
         THEN /\ Put([i \in 1..ParameterSets |->
                        Item("init", pkt, seq(i - 1), c.ts, mapper[t])])
              /\ mapper' = [mapper EXCEPT ![t].next = seq(ParameterSets + 1)]
              /\ cur' = [cur EXCEPT ![p] = [c EXCEPT !.step = "emit", !.injected = TRUE,
                                                     !.seq = seq(ParameterSets)]]
              /\ primed' = primed \cup {t}
         ELSE /\ cur' = [cur EXCEPT ![p].step = "emit"]
              /\ UNCHANGED <<queue, expect, mapper, primed>>
  /\ UNCHANGED <<upstream, playback, prepared, outgoing, reinject, pending, stopped, apc,
                 staged, ready, work, held, announced, overlapped, revisited, raised, bounds>>

Emit(p) ==
  /\ cur[p].step = "emit"
  /\ LET pkt == Head(work[p])
         t == pkt.track
         c == cur[p]
         m == mapper[t]
         generated == IF m.report THEN <<Item("gen", pkt, 0, m.down, m)>> ELSE <<>>
         late == pending[t]
         held_back == IF late # None /\ Translatable(m, late)
                      THEN <<Item("sr", late, 0, late.ts, m)>> ELSE <<>>
     IN  /\ Put(generated \o <<Item("rtp", pkt, c.seq, c.ts, m)>> \o held_back)
         /\ mapper' = [mapper EXCEPT ![t].report = FALSE]
         /\ pending' = [pending EXCEPT ![t] = None]
         /\ reinject' = IF c.injected THEN reinject \ {t} ELSE reinject
  /\ cur' = [cur EXCEPT ![p] = Idle]
  /\ work' = [work EXCEPT ![p] = Tail(@)]
  /\ UNCHANGED <<upstream, playback, prepared, outgoing, stopped, apc, staged, ready,
                 ghosts, bounds>>

(* RTCP: translated, or kept for after the track's next RTP packet *)
Report(p) ==
  /\ work[p] # <<>> /\ cur[p].step = "idle"
  /\ LET pkt == Head(work[p])
         m == mapper[pkt.track]
     IN  /\ pkt.kind = "sr"
         /\ IF Translatable(m, pkt)
            THEN Put(<<Item("sr", pkt, 0, pkt.ts, m)>>) /\ UNCHANGED pending
            ELSE pending' = [pending EXCEPT ![pkt.track] = pkt] /\ UNCHANGED <<queue, expect>>
  /\ work' = [work EXCEPT ![p] = Tail(@)]
  /\ UNCHANGED <<upstream, playback, prepared, outgoing, mapper, reinject, stopped, apc,
                 staged, ready, cur, ghosts, bounds>>

-----------------------------------------------------------------------------
(* The application: seek, and the discontinuity that follows a seek or a   *)
(* handoff, under the lock.                                                *)

Command == apc = "idle" /\ commands < MaxCommands /\ commands' = commands + 1

(* A seek back lets the clock pass its timestamps again, and one by less   *)
(* than two seconds leaves it near them.                                   *)
Reposition(s, d) ==
  /\ pos' = [pos EXCEPT ![s] = @ + 1]
  /\ clock' = [clock EXCEPT ![s] = (@ + d) % TsMod]
  /\ revisited' = (revisited \/ d <= 2 * ClockRate \/ Around(s, d))

(* playback.seek raises when the reply is late or does not come: then the  *)
(* recorder may have moved, and the bridge does not announce it.           *)
Seek(d) ==
  /\ Command
  /\ pb[playback] \in Active
  /\ Reposition(playback, d)
  /\ \/ /\ pb' = [pb EXCEPT ![playback] = "playing"]
        /\ apc' = "mark" /\ announced' = pos[playback] + 1
     \/ UNCHANGED <<pb, apc, announced>>
  /\ UNCHANGED <<upq, bridge, staged, ready, work, cur,
                 held, primed, overlapped, raised, packets>>

(* _begin_discontinuity: every mapper *)
Mark ==
  /\ apc = "mark" /\ apc' = "reset"
  /\ mapper' = [t \in Tracks |-> Discontinuity(mapper[t])]
  /\ held' = {work["reader"][i].track : i \in DOMAIN work["reader"]}
  /\ UNCHANGED <<upstream, playback, prepared, outgoing, reinject, pending, queue, expect,
                 stopped, staged, ready, work, cur, primed, announced, overlapped, revisited, raised,
                 bounds>>

(* mutation: parameter sets that were sent once are not sent again *)
InitializedOnce == Coded \ primed

(* the tracks to which parameter sets must be sent again *)
Initialized == Coded

(* ... then the pending sets, and the queue.  A handoff goes on with the   *)
(* staged packets.                                                         *)
Reset ==
  /\ apc = "reset"
  /\ reinject' = Initialized
  /\ pending' = [t \in Tracks |-> None]
  /\ ClearQueue
  /\ primed' = {}
  /\ IF outgoing = None
     THEN apc' = "idle" /\ UNCHANGED <<work, overlapped>>
     ELSE /\ apc' = "process"
          /\ work' = [work EXCEPT !["app"] = staged]
          /\ overlapped' = (overlapped \/ work["reader"] # <<>>)
  /\ UNCHANGED <<upstream, playback, prepared, outgoing, mapper, stopped, staged, ready, cur,
                 held, announced, revisited, raised, bounds>>

-----------------------------------------------------------------------------
(* prepare_transition: start an incoming file and require that its tracks  *)
(* fit, or close it again; then position and pause it.                     *)

Prepare(s) ==
  /\ Command /\ pb[s] = "new"
  /\ \/ pb' = [pb EXCEPT ![s] = "playing"] /\ apc' = "position" /\ outgoing' = s
     \/ pb' = [pb EXCEPT ![s] = "closed"] /\ UNCHANGED <<apc, outgoing>>
  /\ UNCHANGED <<clock, pos, upq, playback, prepared, mapper, reinject, pending,
                 queue, expect, stopped, staged, ready, work, cur, ghosts, packets>>

(* outgoing holds the local variable playback meanwhile *)
Position(d) ==
  /\ apc = "position" /\ apc' = "idle" /\ outgoing' = None
  /\ \/ /\ pb' = [pb EXCEPT ![outgoing] = "closed"]
        /\ UNCHANGED <<clock, pos, prepared, raised, revisited>>
     \/ /\ Reposition(outgoing, d)
        /\ pb' = [s \in Sources |-> IF s = outgoing THEN "paused"
                                    ELSE IF s = prepared THEN "closed" ELSE pb[s]]
        /\ \/ prepared' = outgoing /\ UNCHANGED raised
           \/ prepared # None /\ raised' = TRUE /\ UNCHANGED prepared
  /\ UNCHANGED <<upq, playback, mapper, reinject, pending, queue, expect, stopped,
                 staged, ready, work, cur, held, primed, announced, overlapped, bounds>>

(* activate_transition: wait, under the lock, for RTP on every track *)
Activate ==
  /\ Command /\ prepared # None
  /\ pb[prepared] = "paused"
  /\ pb' = [pb EXCEPT ![prepared] = "playing"]
  /\ apc' = "collect" /\ staged' = <<>> /\ ready' = {}
  /\ UNCHANGED <<clock, pos, upq, bridge, work, cur, ghosts, packets>>

Newest(s, n) == SubSeq(s, 1 + IF Len(s) > n THEN Len(s) - n ELSE 0, Len(s))

Collect ==
  /\ apc = "collect" /\ ready # Tracks /\ upq[prepared] # <<>>
  /\ LET batch == upq[prepared]
     IN  /\ staged' = Newest(staged \o batch, HandoffLimit)
         /\ ready' = ready \cup {batch[i].track : i \in {j \in DOMAIN batch : batch[j].kind = "rtp"}}
  /\ upq' = [upq EXCEPT ![prepared] = <<>>]
  /\ UNCHANGED <<pb, clock, pos, bridge, apc, work, cur, ghosts, bounds>>

(* mutation: a handoff that timed out forgets the incoming playback *)
ExpireForgets ==
  /\ apc = "collect" /\ ready # Tracks /\ apc' = "idle"
  /\ prepared' = None
  /\ UNCHANGED <<pb, clock, pos, upq, playback, outgoing, mapper, reinject, pending, queue,
                 expect, stopped, staged, ready, work, cur, ghosts, bounds>>

(* The deadline: the incoming playback is given up.  A deadline that       *)
(* passes before the receive asks for a wait of nothing, which raises, and *)
(* so does a broken connection: the playback stays prepared.               *)
Expire ==
  /\ apc = "collect" /\ ready # Tracks /\ apc' = "idle"
  /\ \/ pb' = [pb EXCEPT ![prepared] = "closed"] /\ prepared' = None
     \/ UNCHANGED <<pb, prepared>>
  /\ UNCHANGED <<clock, pos, upq, playback, outgoing, mapper, reinject, pending, queue,
                 expect, stopped, staged, ready, work, cur, ghosts, bounds>>

Switch ==
  /\ apc = "collect" /\ ready = Tracks /\ apc' = "mark"
  /\ outgoing' = playback /\ playback' = prepared /\ prepared' = None
  /\ announced' = pos[prepared]
  /\ UNCHANGED <<upstream, mapper, reinject, pending, queue, expect, stopped, staged, ready,
                 work, cur, held, primed, overlapped, revisited, raised, bounds>>

(* outgoing.close(), the lock released; it may raise, and is closed *)
Retire ==
  /\ apc = "process" /\ work["app"] = <<>> /\ apc' = "idle"
  /\ pb' = [pb EXCEPT ![outgoing] = "closed"] /\ outgoing' = None
  /\ UNCHANGED <<clock, pos, upq, playback, prepared, mapper, reinject, pending, queue,
                 expect, stopped, staged, ready, work, cur, ghosts, bounds>>

(* close: the events and the queue, the threads, and both playbacks *)
Close ==
  /\ apc = "idle" /\ apc' = "join" /\ stopped' = TRUE /\ ClearQueue
  /\ UNCHANGED <<upstream, playback, prepared, outgoing, mapper, reinject, pending, staged,
                 ready, work, cur, ghosts, bounds>>

Closed ==
  /\ apc = "join" /\ work["reader"] = <<>> /\ apc' = "closed"
  /\ pb' = [s \in Sources |-> IF s \in {playback, prepared} THEN "closed" ELSE pb[s]]
  /\ prepared' = None
  /\ UNCHANGED <<clock, pos, upq, playback, outgoing, mapper, reinject, pending, queue,
                 expect, stopped, staged, ready, work, cur, ghosts, bounds>>

-----------------------------------------------------------------------------
Init ==
  /\ pb = [s \in Sources |-> IF s = First THEN "playing" ELSE "new"]
  /\ clock = [s \in Sources |-> FirstClock] /\ pos = [s \in Sources |-> 0]
  /\ upq = [s \in Sources |-> <<>>]
  /\ playback = First /\ prepared = None /\ outgoing = None
  /\ mapper = [t \in Tracks |-> NewMapper]
  /\ reinject = {} /\ pending = [t \in Tracks |-> None]
  /\ queue = <<>> /\ expect = [t \in Tracks |-> FirstSeq] /\ stopped = FALSE
  /\ apc = "idle" /\ staged = <<>> /\ ready = {}
  /\ work = [p \in Processors |-> <<>>] /\ cur = [p \in Processors |-> Idle]
  /\ held = {} /\ primed = {} /\ announced = 0 /\ overlapped = FALSE /\ revisited = FALSE /\ raised = FALSE
  /\ packets = 0 /\ commands = 0

Upstream ==
  \E s \in Sources, t \in Tracks, kind \in {"rtp", "sr"}, d \in Ahead : Produce(s, t, kind, d)

Process(p) == (\E inc \in ArrivalIncrement : Number(p, inc)) \/ Inject(p) \/ Emit(p) \/ Report(p)

Application ==
  \/ \E d \in Jumps : Seek(d) \/ Position(d)
  \/ \E s \in Sources : Prepare(s)
  \/ Mark \/ Reset \/ Activate \/ Collect \/ Expire \/ Switch \/ Retire \/ Close \/ Closed

Next ==
  \/ Upstream \/ ReaderReceive \/ ReaderFails \/ Send \/ Application
  \/ \E p \in Processors : Process(p)

Spec == Init /\ [][Next]_vars
-----------------------------------------------------------------------------
(* The client sees one source per track: across seeks and handoffs the     *)
(* numbers it is sent are consecutive but for what clear and overflow took *)
(* out of the queue, its clock never goes back and never leaps by more     *)
(* than _map_timestamp lets it, and old media never follows new.  The      *)
(* exception is a handoff that began while the reader, outside the lock,   *)
(* still processed a batch of the outgoing playback.                       *)
Older(x, y) == (x.src = y.src /\ x.pos < y.pos) \/ (x.src # playback /\ y.src = playback)

Rank(i, q) == Cardinality({j \in q : j < i})
Adjacent(i, j, q) == i < j /\ ~\E k \in q : i < k /\ k < j

IdentityIsStable ==
  ~overlapped =>
    \A t \in Tracks :
      LET q == Numbered(queue, t)
      IN  /\ \A i \in q : queue[i].seq = (expect[t] + Rank(i, q)) % SeqMod
          /\ \A i, j \in q :
               /\ Adjacent(i, j, q) => (queue[j].ts - queue[i].ts) % TsMod <= 2 * ClockRate
               /\ i < j => ~Older(queue[j], queue[i])
          /\ (\A p \in Processors : cur[p].step = "idle") /\ ~QueueClosed =>
               mapper[t].next = (expect[t] + Count(queue, t)) % SeqMod

(* A decoder can start again after a seek or a handoff: no media of the    *)
(* position that _begin_discontinuity was called for is queued before the  *)
(* track's parameter sets, except on a track of which the reader was still *)
(* processing a packet when it marked the mappers.  It is not called when  *)
(* playback.seek raises, wherever the recorder then plays: a decoder meets *)
(* that position unprepared.                                               *)
Fresh(x) == x.src = playback /\ x.pos = announced /\ x.pos > 0

InitializationPrecedesMedia ==
  \A i \in DOMAIN queue :
    queue[i].kind = "rtp" /\ queue[i].track \in Coded /\ Fresh(queue[i]) =>
      queue[i].track \in primed \cup held

(* A sender report ties the wall clock to the media it came with: one that *)
(* is forwarded is of the same source and position as the packets around   *)
(* it, held back or not, unless the recorder's clock came again within the *)
(* two seconds in which rewrite_rtcp takes timestamps for neighbours.      *)
ReportsMatchMedia ==
  \A i \in DOMAIN queue :
    queue[i].kind = "sr" =>
      queue[i].src = queue[i].of /\ (queue[i].pos = queue[i].at \/ revisited)

(* No recorder session is left behind: a playback that was started is the  *)
(* one playing, the one prepared, in the hands of the call in progress, or *)
(* closed; and close leaves none.  The exception is a prepare_transition   *)
(* that found an earlier playback prepared, whose close() raised.          *)
PlaybacksAreOwned ==
  ~raised => \A s \in Sources :
               pb[s] \in Active => s \in {playback, prepared, outgoing} /\ apc # "closed"
=============================================================================
