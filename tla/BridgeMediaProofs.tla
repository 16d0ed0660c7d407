------------------------- MODULE BridgeMediaProofs -------------------------
(***************************************************************************)
(* What holds of the bridge's media path for every number of playbacks,    *)
(* tracks, parameter sets and packets: playbacks have an owner, the        *)
(* numbers keep their width and the buffers their bounds, a decoder gets   *)
(* its parameter sets before the media of a new position, the client sees  *)
(* one source per track, and a report goes with the media it was sent with.*)
(*                                                                         *)
(* The invariants rest on one another: Ownership of the application and    *)
(* the playbacks, TypeOK of the data, then Primed of where the packets in  *)
(* flight come from, Continuity of their numbers and clock, and Apart of   *)
(* the timestamps of two positions.                                        *)
(***************************************************************************)
EXTENDS BridgeMedia, SequenceTheorems, FiniteSetTheorems, FunctionTheorems, TLAPS

Controls == {"idle", "position", "collect", "mark", "reset", "process", "join", "closed"}
Handing == {"mark", "reset", "process"}

(* Which call of the application holds which playback. *)
Holding ==
  /\ apc \in {"idle", "join", "closed", "collect"} => outgoing = None
  /\ apc \in {"position", "process"} => outgoing # None
  /\ apc = "collect" => prepared # None
  /\ apc \in Handing /\ outgoing # None => prepared = None

(* A playback comes to a place of the bridge only once. *)
Distinct ==
  /\ pb[playback] # "new"
  /\ prepared # None => prepared # playback /\ pb[prepared] # "new"
  /\ apc = "position" => outgoing \notin {playback, prepared} /\ pb[outgoing] # "new"

OwnershipType ==
  /\ pb \in [Sources -> {"new", "playing", "paused", "closed"}]
  /\ playback \in Sources
  /\ prepared \in Sources \cup {None}
  /\ outgoing \in Sources \cup {None}
  /\ apc \in Controls

Ownership == OwnershipType /\ Holding /\ Distinct /\ PlaybacksAreOwned

USE DEF Active, LockHeld, QueueClosed, Handing, Controls

-----------------------------------------------------------------------------
(* Only the application takes a playback, and it gives each one back. *)

LEMMA OwnershipInit == Init => Ownership
BY SourcesAssumption
   DEF Init, Ownership, OwnershipType, Holding, Distinct, PlaybacksAreOwned

(* What the other threads leave alone. *)
Custody == <<pb, playback, prepared, outgoing, apc, raised>>

LEMMA OwnershipStutter == Ownership /\ UNCHANGED Custody => Ownership'
BY DEF Ownership, OwnershipType, Holding, Distinct, PlaybacksAreOwned, Custody

LEMMA OthersKeepCustody ==
  ASSUME Next, ~Application
  PROVE  UNCHANGED Custody
<1>1. CASE Upstream
  BY <1>1 DEF Upstream, Produce, bridge, threads, ghosts, Custody
<1>2. CASE ReaderReceive
  BY <1>2 DEF ReaderReceive, bridge, ghosts, bounds, Custody
<1>3. CASE ReaderFails
  BY <1>3 DEF ReaderFails, upstream, threads, ghosts, bounds, Custody
<1>4. CASE Send
  BY <1>4 DEF Send, upstream, threads, ghosts, bounds, Custody
<1>5. ASSUME NEW p \in Processors, Process(p)
      PROVE  UNCHANGED Custody
  <2>1. CASE \E inc \in ArrivalIncrement : Number(p, inc)
    BY <2>1 DEF Number, upstream, ghosts, bounds, Custody
  <2>2. CASE Inject(p)
    BY <2>2 DEF Inject, upstream, bounds, Custody
  <2>3. CASE Emit(p)
    BY <2>3 DEF Emit, upstream, ghosts, bounds, Custody
  <2>4. CASE Report(p)
    BY <2>4 DEF Report, upstream, ghosts, bounds, Custody
  <2> QED BY <1>5, <2>1, <2>2, <2>3, <2>4 DEF Process
<1> QED BY <1>1, <1>2, <1>3, <1>4, <1>5 DEF Next

LEMMA ApplicationOwnership ==
  ASSUME Ownership, Application
  PROVE  Ownership'
<1> USE SourcesAssumption
        DEF Ownership, OwnershipType, Holding, Distinct, PlaybacksAreOwned
<1>1. ASSUME NEW d \in Jumps, Seek(d)
      PROVE  Ownership'
  BY <1>1 DEF Seek, Command, Reposition, bridge
<1>2. ASSUME NEW s \in Sources, Prepare(s)
      PROVE  Ownership'
  BY <1>2 DEF Prepare, Command, ghosts
<1>3. ASSUME NEW d \in Jumps, Position(d)
      PROVE  Ownership'
  BY <1>3 DEF Position, Reposition
<1>4. CASE Mark
  BY <1>4 DEF Mark, upstream
<1>5. CASE Reset
  BY <1>5 DEF Reset, upstream
<1>6. CASE Activate
  BY <1>6 DEF Activate, Command, bridge, ghosts
<1>7. CASE Collect
  BY <1>7 DEF Collect, bridge, ghosts
<1>8. CASE Expire
  BY <1>8 DEF Expire, ghosts
<1>9. CASE Switch
  BY <1>9 DEF Switch, upstream, ghosts
<1>10. CASE Retire
  BY <1>10 DEF Retire, ghosts
<1>11. CASE Close
  BY <1>11 DEF Close, upstream, ghosts
<1>12. CASE Closed
  BY <1>12 DEF Closed, ghosts
<1> QED
  BY <1>1, <1>2, <1>3, <1>4, <1>5, <1>6, <1>7, <1>8, <1>9, <1>10, <1>11, <1>12
     DEF Application

LEMMA OwnershipNext == Ownership /\ [Next]_vars => Ownership'
<1>1. CASE UNCHANGED vars
  BY <1>1, OwnershipStutter DEF vars, upstream, bridge, threads, ghosts, Custody
<1>2. CASE Next
  BY <1>2, OthersKeepCustody, OwnershipStutter, ApplicationOwnership
<1> QED BY <1>1, <1>2

LEMMA OwnershipInvariant == Spec => []Ownership
BY OwnershipInit, OwnershipNext, PTL DEF Spec

(* PlaybacksAreOwned: whatever files are handed over, a playback that was   *)
(* started is playing, prepared, in the hands of a call, or closed, and     *)
(* close() leaves none behind, unless a close() inside prepare_transition   *)
(* raised.                                                                  *)
THEOREM NoPlaybackIsLost == Spec => []PlaybacksAreOwned
BY OwnershipInvariant, PTL DEF Ownership
-----------------------------------------------------------------------------
(* The data: numbers of 16 and 32 bits, bounded buffers. *)

Seqs == 0 .. SeqMod - 1
Times == 0 .. TsMod - 1

Packet == [track : Tracks, kind : {"rtp", "sr"}, src : Sources, pos : Nat, ts : Times]

QueuedItem ==
  [kind : {"rtp", "sr", "gen", "init"}, track : Tracks, seq : Seqs, ts : Times,
   src : Sources, pos : Nat, of : Sources \cup {None}, at : Nat]

Mapper ==
  [next : Seqs, up : Times \cup {None}, down : Times \cup {None},
   ssrc : Sources \cup {None}, at : Nat, jump : BOOLEAN, report : BOOLEAN]

InHand == [step : {"idle", "inject", "emit"}, seq : Seqs, ts : Times, injected : BOOLEAN]

UpstreamType ==
  /\ clock \in [Sources -> Times]
  /\ pos \in [Sources -> Nat]
  /\ upq \in [Sources -> Seq(Packet)]

MapperType ==
  /\ mapper \in [Tracks -> Mapper]
  /\ \A t \in Tracks : mapper[t].down # None => mapper[t].up # None

QueueType ==
  /\ queue \in Seq(QueuedItem) /\ Len(queue) <= Capacity
  /\ pending \in [Tracks -> Packet \cup {None}]

WorkType ==
  /\ work \in [Processors -> Seq(Packet)]
  /\ cur \in [Processors -> InHand]
  /\ staged \in Seq(Packet) /\ Len(staged) <= HandoffLimit

(* The packet in hand is the first of the batch. *)
HandType ==
  /\ \A p \in Processors :
       /\ cur[p].step # "idle" =>
            /\ work[p] # <<>> /\ Head(work[p]).kind = "rtp"
            /\ mapper[Head(work[p]).track].down # None
       /\ cur[p].injected => cur[p].step = "emit"
  /\ work["app"] # <<>> => apc = "process"

TypeOK == UpstreamType /\ MapperType /\ QueueType /\ WorkType /\ HandType

-----------------------------------------------------------------------------
(* Where a packet may come from: a playback that was started, and not one  *)
(* that has yet to take its turn.                                          *)
Past(x) ==
  /\ pb[x.src] # "new"
  /\ x.pos <= pos[x.src]

Turned(x) ==
  /\ Past(x)
  /\ x.src # prepared
  /\ apc = "position" => x.src # outgoing

Origin ==
  /\ \A s \in Sources : \A i \in DOMAIN upq[s] : upq[s][i].src = s /\ Past(upq[s][i])
  /\ \A i \in DOMAIN staged : Past(staged[i])
  /\ \A p \in Processors : \A i \in DOMAIN work[p] : Turned(work[p][i])
  /\ \A i \in DOMAIN queue : queue[i].kind = "rtp" => Turned(queue[i])

(* Nothing of the new position is about while it is being announced. *)
Between ==
  apc \in {"mark", "reset"} =>
    /\ \A i \in DOMAIN work["reader"] : ~Fresh(work["reader"][i])
    /\ \A i \in DOMAIN queue : queue[i].kind = "rtp" => ~Fresh(queue[i])

Covered == primed \cup held

(* Every track owes its parameter sets or has sent them. *)
Owed ==
  apc \notin {"mark", "reset"} =>
    /\ announced > 0 => Coded \subseteq reinject \cup Covered
    /\ \A p \in Processors :
         LET pkt == Head(work[p])
         IN  /\ cur[p].injected => pkt.track \in Covered
             /\ cur[p].step = "emit" /\ pkt.track \in Coded /\ Fresh(pkt) =>
                  pkt.track \in Covered

(* The reader's packets were noted when the mappers were marked. *)
Noted ==
  apc = "reset" => \A i \in DOMAIN work["reader"] : work["reader"][i].track \in held

Primed == Origin /\ Between /\ Owed /\ Noted /\ InitializationPrecedesMedia
-----------------------------------------------------------------------------
(* What the operators of the media path return. *)

LEMMA ModRange ==
  ASSUME NEW x \in Int, NEW k \in Nat \ {0}
  PROVE  x % k \in 0 .. k - 1
OBVIOUS

LEMMA SeqMasked == ASSUME NEW x \in Int PROVE x % SeqMod \in Seqs
BY ModRange, NumbersAssumption DEF Seqs

LEMMA TimeMasked == ASSUME NEW x \in Int PROVE x % TsMod \in Times
BY ModRange, NumbersAssumption DEF Times

(* Numbering keeps the width of number and timestamp. *)
LEMMA NumberingType ==
  ASSUME NEW m \in Mapper, m.down # None => m.up # None,
         NEW pkt \in Packet, NEW inc \in ArrivalIncrement, NEW ts,
         ts = MapTimestamp(m, pkt.ts, inc)
  PROVE  /\ ts \in Times
         /\ Rewrite(m, pkt, ts) \in Mapper
         /\ Rewrite(m, pkt, ts).up # None
         /\ Rewrite(m, pkt, ts).down # None
<1>1. inc \in Int
  BY NumbersAssumption DEF ArrivalIncrement
<1>2. m.next \in Seqs /\ pkt.ts \in Times /\ pkt.src \in Sources /\ pkt.pos \in Nat
  BY DEF Mapper, Packet
<1>3. (m.next + 1) % SeqMod \in Seqs
  BY <1>2, SeqMasked DEF Seqs
<1>4. ts \in Times
  <2>1. CASE m.down = None
    BY <2>1, NumbersAssumption DEF MapTimestamp, Times
  <2>2. CASE m.down # None
    <3>1. m.down \in Int /\ m.up \in Int
      BY <2>2 DEF Mapper, Times
    <3>2. Delta(m, pkt.ts) \in Int
      BY <3>1, <1>2, TimeMasked DEF Delta, Times
    <3>3. (m.down + Delta(m, pkt.ts)) % TsMod \in Times /\ (m.down + inc) % TsMod \in Times
      BY <3>1, <3>2, <1>1, TimeMasked
    <3> QED BY <2>2, <3>3 DEF MapTimestamp
  <2> QED BY <2>1, <2>2
<1>5. ts # None
  BY <1>4, NumbersAssumption, NoneAssumption DEF Times
<1>6. pkt.ts # None
  BY <1>2, NoneAssumption DEF Times
<1> QED BY <1>2, <1>3, <1>4, <1>5, <1>6 DEF Rewrite, Mapper

(* What is left of a sequence without its first elements. *)
LEMMA SuffixType ==
  ASSUME NEW S, NEW s \in Seq(S), NEW k \in Nat, k <= Len(s)
  PROVE  LET rest == SubSeq(s, k + 1, Len(s))
         IN  /\ rest \in Seq(S) /\ Len(rest) = Len(s) - k
             /\ \A i \in 1 .. Len(rest) : rest[i] = s[i + k] /\ i + k \in DOMAIN s
<1> DEFINE rest == SubSeq(s, k + 1, Len(s))
<1>1. /\ rest \in Seq(S)
      /\ Len(rest) = IF k + 1 <= Len(s) THEN Len(s) - (k + 1) + 1 ELSE 0
      /\ \A i \in 1 .. Len(s) - (k + 1) + 1 : rest[i] = s[k + 1 + i - 1]
  <2>1. \A i \in k + 1 .. Len(s) : s[i] \in S
    OBVIOUS
  <2> QED BY <2>1, SubSeqProperties
<1>2. Len(rest) = Len(s) - k
  BY <1>1
<1>3. \A i \in 1 .. Len(rest) : k + 1 + i - 1 = i + k /\ i + k \in DOMAIN s
  BY <1>2
<1> QED BY <1>1, <1>2, <1>3

(* The queue keeps to its capacity, and holds nothing but what it held and *)
(* what was put.                                                           *)
LEMMA PutType ==
  ASSUME NEW S, queue \in Seq(S), Len(queue) <= Capacity, NEW items \in Seq(S), Put(items)
  PROVE  /\ queue' \in Seq(S)
         /\ Len(queue') <= Capacity
         /\ \A i \in DOMAIN queue' :
              \/ \E j \in DOMAIN queue : queue'[i] = queue[j]
              \/ \E j \in DOMAIN items : queue'[i] = items[j]
<1> DEFINE all == queue \o items
           over == IF Len(all) > Capacity THEN Len(all) - Capacity ELSE 0
           rest == SubSeq(all, over + 1, Len(all))
<1>1. /\ all \in Seq(S)
      /\ Len(all) = Len(queue) + Len(items)
      /\ \A i \in 1 .. Len(all) :
           all[i] = IF i <= Len(queue) THEN queue[i] ELSE items[i - Len(queue)]
  OBVIOUS
<1>2. over \in Nat /\ over <= Len(all) /\ Len(all) - over <= Capacity
  BY <1>1, LimitsAssumption
<1>3. /\ rest \in Seq(S) /\ Len(rest) = Len(all) - over
      /\ \A i \in 1 .. Len(rest) : rest[i] = all[i + over]
  BY <1>1, <1>2, SuffixType
<1>4. CASE queue' = queue
  BY <1>4
<1>5. CASE queue' = rest
  <2> SUFFICES ASSUME NEW i \in DOMAIN queue'
               PROVE  \/ \E j \in DOMAIN queue : queue'[i] = queue[j]
                      \/ \E j \in DOMAIN items : queue'[i] = items[j]
    BY <1>2, <1>3, <1>5
  <2>1. i \in 1 .. Len(rest) /\ i + over \in 1 .. Len(all)
    <3>1. i \in 1 .. Len(rest)
      BY <1>3, <1>5
    <3> QED BY <1>1, <1>2, <1>3, <3>1
  <2>2. queue'[i] = all[i + over]
    BY <1>3, <1>5, <2>1
  <2> HIDE DEF all, over, rest
  <2>3. CASE i + over <= Len(queue)
    BY <1>1, <1>2, <2>1, <2>2, <2>3
  <2>4. CASE i + over > Len(queue)
    <3>1. i + over - Len(queue) \in 1 .. Len(items)
      BY <1>1, <1>2, <2>1, <2>4
    <3>2. queue'[i] = items[i + over - Len(queue)]
      BY <1>1, <1>2, <2>1, <2>2, <2>4
    <3> QED BY <3>1, <3>2
  <2> QED BY <1>2, <2>1, <2>3, <2>4
<1> QED BY <1>4, <1>5 DEF Put

(* The newest packets of a sequence. *)
LEMMA NewestType ==
  ASSUME NEW S, NEW s \in Seq(S), NEW n \in Nat
  PROVE  /\ Newest(s, n) \in Seq(S) /\ Len(Newest(s, n)) <= n
         /\ \A i \in DOMAIN Newest(s, n) : \E j \in DOMAIN s : Newest(s, n)[i] = s[j]
<1> DEFINE over == IF Len(s) > n THEN Len(s) - n ELSE 0
           rest == SubSeq(s, over + 1, Len(s))
<1>1. over \in Nat /\ over <= Len(s) /\ Len(s) - over <= n
  OBVIOUS
<1>2. /\ rest \in Seq(S) /\ Len(rest) = Len(s) - over
      /\ \A i \in 1 .. Len(rest) : rest[i] = s[i + over] /\ i + over \in DOMAIN s
  BY <1>1, SuffixType
<1>3. rest = Newest(s, n)
  <2>1. over + 1 = 1 + over
    BY <1>1
  <2> QED BY <2>1, Zenon DEF Newest
<1> HIDE DEF rest, over
<1>4. ASSUME NEW i \in DOMAIN rest
      PROVE  \E j \in DOMAIN s : rest[i] = s[j]
  <2>1. i \in 1 .. Len(rest)
    BY <1>2
  <2> QED BY <1>2, <2>1, Zenon
<1>5. Len(rest) <= n
  BY <1>1, <1>2
<1> QED BY <1>2, <1>3, <1>4, <1>5, Zenon
-----------------------------------------------------------------------------
(* The types of the data, group by group. *)

LEMMA TypeInit == Init => TypeOK
<1> SUFFICES ASSUME Init PROVE TypeOK
  OBVIOUS
<1>1. 0 \in Times /\ 0 \in Seqs /\ FirstSeq \in Seqs /\ FirstClock \in Times
  BY NumbersAssumption DEF Times, Seqs
<1>2. UpstreamType
  BY <1>1 DEF Init, UpstreamType
<1>3. MapperType
  <2>1. NewMapper \in Mapper /\ NewMapper.down = None
    BY <1>1 DEF NewMapper, Mapper
  <2> QED BY <2>1 DEF Init, MapperType
<1>4. QueueType
  BY LimitsAssumption DEF Init, QueueType
<1>5. WorkType
  <2>1. Idle \in InHand
    BY <1>1 DEF Idle, InHand
  <2> QED BY <2>1, LimitsAssumption DEF Init, WorkType
<1>6. HandType
  BY DEF Init, HandType, Idle, Processors
<1> QED BY <1>2, <1>3, <1>4, <1>5, <1>6 DEF TypeOK

(* The first packet of a batch, and the rest. *)
LEMMA BatchType ==
  ASSUME TypeOK, NEW p \in Processors, work[p] # <<>>
  PROVE  /\ Head(work[p]) \in Packet
         /\ Head(work[p]).track \in Tracks
         /\ Tail(work[p]) \in Seq(Packet)
         /\ 1 \in DOMAIN work[p] /\ Head(work[p]) = work[p][1]
         /\ \A i \in DOMAIN Tail(work[p]) :
              i + 1 \in DOMAIN work[p] /\ Tail(work[p])[i] = work[p][i + 1]
<1>1. work[p] \in Seq(Packet)
  BY DEF TypeOK, WorkType
<1>2. Head(work[p]) \in Packet
  BY <1>1
<1>3. Head(work[p]).track \in Tracks
  BY <1>2 DEF Packet
<1> QED BY <1>1, <1>2, <1>3

LEMMA UpstreamTypeNext ==
  ASSUME OwnershipType, Holding, UpstreamType, [Next]_vars
  PROVE  UpstreamType'
<1> USE DEF UpstreamType
<1>1. ASSUME NEW s \in Sources, NEW t \in Tracks, NEW kind \in {"rtp", "sr"},
             NEW d \in Ahead, Produce(s, t, kind, d)
      PROVE  UpstreamType'
  <2>1. (clock[s] + d) % TsMod \in Times
    <3>1. clock[s] + d \in Int
      BY NumbersAssumption DEF Times
    <3> QED BY <3>1, TimeMasked
  <2>2. [track |-> t, kind |-> kind, src |-> s, pos |-> pos[s],
         ts |-> (clock[s] + d) % TsMod] \in Packet
    BY <2>1 DEF Packet
  <2> QED BY <1>1, <2>1, <2>2 DEF Produce
<1>2. CASE ReaderReceive
  BY <1>2 DEF ReaderReceive, OwnershipType
<1>3. ASSUME NEW d \in Jumps, Seek(d) \/ Position(d)
      PROVE  UpstreamType'
  <2>1. ASSUME NEW s \in Sources, Reposition(s, d)
        PROVE  clock' \in [Sources -> Times] /\ pos' \in [Sources -> Nat]
    <3>1. (clock[s] + d) % TsMod \in Times
      <4>1. clock[s] + d \in Int
        BY NumbersAssumption DEF Times
      <4> QED BY <4>1, TimeMasked
    <3> QED BY <2>1, <3>1 DEF Reposition
  <2>2. CASE Seek(d)
    BY <2>1, <2>2 DEF Seek, OwnershipType
  <2>3. CASE Position(d)
    BY <2>1, <2>3 DEF Position, OwnershipType, Holding
  <2> QED BY <1>3, <2>2, <2>3
<1>4. CASE Collect
  BY <1>4 DEF Collect, OwnershipType, Holding
<1>5. ASSUME NEW p \in Processors, Process(p)
      PROVE  UNCHANGED upstream
  BY <1>5, Zenon DEF Process, Number, Inject, Emit, Report
<1>6. CASE ReaderFails \/ Send \/ Mark \/ Reset \/ Switch \/ Close
  BY <1>6 DEF ReaderFails, Send, Mark, Reset, Switch, Close, upstream
<1>7. CASE (\E s \in Sources : Prepare(s)) \/ Activate \/ Expire \/ Retire \/ Closed
  BY <1>7 DEF Prepare, Activate, Expire, Retire, Closed
<1>8. CASE UNCHANGED vars
  BY <1>8 DEF vars, upstream
<1> QED
  BY <1>1, <1>2, <1>3, <1>4, <1>5, <1>6, <1>7, <1>8 DEF Next, Upstream, Application, upstream

LEMMA MapperTypeNext ==
  ASSUME TypeOK, [Next]_vars
  PROVE  MapperType'
<1> USE DEF MapperType
<1> MapperType
  BY DEF TypeOK
<1>1. ASSUME NEW p \in Processors, NEW inc \in ArrivalIncrement, Number(p, inc)
      PROVE  MapperType'
  <2> DEFINE pkt == Head(work[p])
             ts == MapTimestamp(mapper[pkt.track], pkt.ts, inc)
  <2>1. work[p] # <<>>
    BY <1>1 DEF Number
  <2>2. pkt \in Packet /\ pkt.track \in Tracks
    BY <2>1, BatchType
  <2> DEFINE new == Rewrite(mapper[pkt.track], pkt, ts)
  <2>3. new \in Mapper /\ new.up # None
    BY <2>2, NumberingType
  <2>4. mapper' = [mapper EXCEPT ![pkt.track] = new]
    BY <1>1, Zenon DEF Number
  <2> HIDE DEF new, pkt
  <2> QED BY <2>2, <2>3, <2>4
<1>2. ASSUME NEW p \in Processors, Inject(p)
      PROVE  MapperType'
  <2> DEFINE t == Head(work[p]).track
             next == (cur[p].seq + (ParameterSets + 1)) % SeqMod
  <2>1. t \in Tracks
    <3>1. cur[p].step # "idle"
      BY <1>2 DEF Inject
    <3>2. work[p] # <<>>
      BY <3>1 DEF TypeOK, HandType
    <3> QED BY <3>2, BatchType
  <2>2. next \in Seqs
    <3>1. cur[p] \in InHand
      BY DEF TypeOK, WorkType
    <3>2. cur[p].seq + (ParameterSets + 1) \in Int
      BY <3>1, TracksAssumption DEF InHand, Seqs
    <3> QED BY <3>2, SeqMasked
  <2>3. mapper' \in {mapper, [mapper EXCEPT ![t].next = next]}
    BY <1>2 DEF Inject
  <2> HIDE DEF t, next
  <2> QED BY <2>1, <2>2, <2>3 DEF Mapper
<1>3. ASSUME NEW p \in Processors, Emit(p)
      PROVE  MapperType'
  <2> DEFINE t == Head(work[p]).track
  <2>1. mapper' = [mapper EXCEPT ![t].report = FALSE]
    BY <1>3, Zenon DEF Emit
  <2> HIDE DEF t
  <2>2. ASSUME NEW u \in Tracks
        PROVE  mapper'[u] \in Mapper /\ (mapper'[u].down # None => mapper'[u].up # None)
    <3>1. mapper[u] \in Mapper /\ (mapper[u].down # None => mapper[u].up # None)
      BY <2>2
    <3>2. CASE u # t
      BY <2>1, <2>2, <3>1, <3>2
    <3>3. CASE u = t
      <4>1. mapper'[u] = [mapper[u] EXCEPT !.report = FALSE]
        BY <2>1, <2>2, <3>3
      <4> QED BY <3>1, <4>1 DEF Mapper
    <3> QED BY <3>2, <3>3
  <2>3. mapper' \in [Tracks -> Mapper]
    BY <2>1, <2>2
  <2> QED BY <2>2, <2>3
<1>4. CASE Mark
  BY <1>4 DEF Mark, Discontinuity, Mapper
<1>5. ASSUME UNCHANGED mapper
      PROVE  MapperType'
  BY <1>5
<1>6. ASSUME NEW p \in Processors, Report(p)
      PROVE  UNCHANGED mapper
  BY <1>6 DEF Report
<1>7. CASE Upstream \/ ReaderReceive \/ ReaderFails \/ Send
  BY <1>7 DEF Upstream, Produce, ReaderReceive, ReaderFails, Send, bridge
<1>8. CASE Application /\ ~Mark
  BY <1>8 DEF Application, Seek, Position, Prepare, Reset, Activate, Collect, Expire, Switch,
              Retire, Close, Closed, bridge
<1>9. CASE UNCHANGED vars
  BY <1>9 DEF vars, bridge
<1> QED
  BY <1>1, <1>2, <1>3, <1>4, <1>5, <1>6, <1>7, <1>8, <1>9 DEF Next, Process

(* What is put in the queue is typed. *)
LEMMA ItemType ==
  ASSUME NEW pkt \in Packet, NEW m \in Mapper, NEW seq \in Seqs, NEW ts \in Times,
         NEW kind \in {"rtp", "sr", "gen", "init"}
  PROVE  /\ Item(kind, pkt, seq, ts, m) \in QueuedItem
         /\ Item(kind, pkt, seq, ts, m).kind = kind
         /\ Item(kind, pkt, seq, ts, m).track = pkt.track
         /\ Item(kind, pkt, seq, ts, m).src = pkt.src
         /\ Item(kind, pkt, seq, ts, m).pos = pkt.pos
BY DEF Item, QueuedItem, Packet, Mapper

(* After any step of a processing thread the queue has kept its type, and  *)
(* its media packets are those it had and the one in hand.                 *)
MediaFrom(x, p) ==
  \/ \E j \in DOMAIN queue : x = queue[j]
  \/ /\ cur[p].step = "emit"
     /\ x.src = Head(work[p]).src /\ x.pos = Head(work[p]).pos
     /\ x.track = Head(work[p]).track

QueueKept(p) ==
  /\ queue' \in Seq(QueuedItem) /\ Len(queue') <= Capacity
  /\ \A i \in DOMAIN queue' : queue'[i].kind = "rtp" => MediaFrom(queue'[i], p)

LEMMA ProcessQueue ==
  ASSUME TypeOK, NEW p \in Processors, Process(p)
  PROVE  QueueKept(p)
<1> DEFINE pkt == Head(work[p])
           m == mapper[pkt.track]
<1>1. queue \in Seq(QueuedItem) /\ Len(queue) <= Capacity
  BY DEF TypeOK, QueueType
<1>2. 0 \in Seqs /\ cur[p].seq \in Seqs /\ cur[p].ts \in Times
  BY NumbersAssumption DEF TypeOK, WorkType, InHand, Seqs
<1>3. ASSUME UNCHANGED queue
      PROVE  QueueKept(p)
  BY <1>1, <1>3 DEF QueueKept, MediaFrom
<1>4. ASSUME NEW items \in Seq(QueuedItem), Put(items),
             \A i \in DOMAIN items :
               items[i].kind = "rtp" =>
                 /\ cur[p].step = "emit" /\ items[i].src = pkt.src
                 /\ items[i].pos = pkt.pos /\ items[i].track = pkt.track
      PROVE  QueueKept(p)
  <2>1. /\ queue' \in Seq(QueuedItem) /\ Len(queue') <= Capacity
        /\ \A i \in DOMAIN queue' :
             \/ \E j \in DOMAIN queue : queue'[i] = queue[j]
             \/ \E j \in DOMAIN items : queue'[i] = items[j]
    BY <1>1, <1>4, PutType
  <2> QED BY <1>4, <2>1, Zenon DEF QueueKept, MediaFrom
<1>5. CASE \E inc \in ArrivalIncrement : Number(p, inc)
  BY <1>3, <1>5 DEF Number
<1>6. ASSUME work[p] # <<>>
      PROVE  pkt \in Packet /\ m \in Mapper
  BY <1>6, BatchType DEF TypeOK, MapperType
<1>7. CASE Inject(p)
  <2>1. pkt \in Packet /\ m \in Mapper
    BY <1>6, <1>7 DEF Inject, TypeOK, HandType
  <2> DEFINE set(i) == Item("init", pkt, (cur[p].seq + (i - 1)) % SeqMod, cur[p].ts, m)
             items == [i \in 1 .. ParameterSets |-> set(i)]
  <2>2. ASSUME NEW i \in 1 .. ParameterSets
        PROVE  set(i) \in QueuedItem /\ set(i).kind = "init"
    <3>1. (cur[p].seq + (i - 1)) % SeqMod \in Seqs
      BY <1>2, SeqMasked DEF Seqs
    <3> QED BY <1>2, <2>1, <3>1, ItemType
  <2>3. items \in Seq(QueuedItem) /\ DOMAIN items = 1 .. ParameterSets
    BY <2>2, TracksAssumption, IsASeq
  <2>4. \A i \in DOMAIN items : items[i].kind = "init"
    BY <2>2
  <2>5. UNCHANGED queue \/ Put(items)
    BY <1>7, Zenon DEF Inject
  <2> HIDE DEF items, set
  <2> QED BY <1>3, <1>4, <2>3, <2>4, <2>5
<1>8. CASE Emit(p)
  <2>1. pkt \in Packet /\ m \in Mapper /\ pkt.track \in Tracks /\ m.down # None
    BY <1>6, <1>8, BatchType, Zenon DEF Emit, TypeOK, HandType
  <2> DEFINE late == pending[pkt.track]
             generated == IF m.report THEN <<Item("gen", pkt, 0, m.down, m)>> ELSE <<>>
             media == Item("rtp", pkt, cur[p].seq, cur[p].ts, m)
             heldBack == IF late # None /\ Translatable(m, late)
                         THEN <<Item("sr", late, 0, late.ts, m)>> ELSE <<>>
             items == generated \o <<media>> \o heldBack
  <2>2. /\ generated \in Seq(QueuedItem)
        /\ \A i \in DOMAIN generated : generated[i].kind = "gen"
    <3>1. m.down \in Times
      BY <2>1 DEF Mapper
    <3>2. Item("gen", pkt, 0, m.down, m) \in QueuedItem
          /\ Item("gen", pkt, 0, m.down, m).kind = "gen"
      BY <1>2, <2>1, <3>1, ItemType
    <3> QED BY <3>2
  <2>3. /\ heldBack \in Seq(QueuedItem)
        /\ \A i \in DOMAIN heldBack : heldBack[i].kind = "sr"
    <3>1. CASE late # None
      <4>1. late \in Packet
        BY <2>1, <3>1 DEF TypeOK, QueueType
      <4>2. late.ts \in Times
        BY <4>1 DEF Packet
      <4>3. Item("sr", late, 0, late.ts, m) \in QueuedItem
            /\ Item("sr", late, 0, late.ts, m).kind = "sr"
        BY <1>2, <2>1, <4>1, <4>2, ItemType
      <4> QED BY <4>3
    <3> QED BY <3>1
  <2>4. /\ media \in QueuedItem /\ media.src = pkt.src /\ media.pos = pkt.pos
        /\ media.track = pkt.track
    BY <1>2, <2>1, ItemType
  <2>5. Put(items)
    BY <1>8, Zenon DEF Emit
  <2>6. cur[p].step = "emit"
    BY <1>8 DEF Emit
  <2> HIDE DEF generated, media, heldBack
  <2>7. items \in Seq(QueuedItem)
    BY <2>2, <2>3, <2>4
  <2>8. ASSUME NEW i \in DOMAIN items, items[i].kind = "rtp"
        PROVE  items[i] = media
    <3> DEFINE first == generated \o <<media>>
    <3>1. /\ first \in Seq(QueuedItem) /\ Len(first) = Len(generated) + 1
          /\ \A j \in 1 .. Len(first) : first[j] = IF j <= Len(generated) THEN generated[j]
                                                 ELSE media
      BY <2>2, <2>4
    <3> HIDE DEF first
    <3>2. items = first \o heldBack
      BY DEF first
    <3>3. i \in 1 .. Len(first) + Len(heldBack)
      BY <2>3, <2>8, <3>1, <3>2
    <3>4. CASE i <= Len(first)
      <4>1. items[i] = first[i]
        BY <2>3, <3>1, <3>2, <3>3, <3>4
      <4>2. ASSUME i <= Len(generated)
            PROVE  FALSE
        <5>1. i \in DOMAIN generated
          BY <2>2, <3>3, <4>2
        <5>2. items[i] = generated[i]
          BY <2>2, <3>1, <3>3, <3>4, <4>1, <4>2
        <5> QED BY <2>2, <2>8, <5>1, <5>2
      <4> QED BY <3>1, <3>3, <3>4, <4>1, <4>2, <2>2, <2>3
    <3>5. CASE i > Len(first)
      <4>1. items[i] = heldBack[i - Len(first)] /\ i - Len(first) \in 1 .. Len(heldBack)
        BY <2>3, <3>1, <3>2, <3>3, <3>5
      <4>2. i - Len(first) \in DOMAIN heldBack
        BY <2>3, <4>1
      <4> QED BY <2>3, <2>8, <4>1, <4>2, Zenon
    <3> QED BY <3>1, <3>3, <3>4, <3>5, <2>3
  <2> HIDE DEF items
  <2> QED BY <1>4, <2>4, <2>5, <2>6, <2>7, <2>8
<1>9. CASE Report(p)
  <2>1. work[p] # <<>> /\ pkt.kind = "sr"
    BY <1>9 DEF Report
  <2>2. pkt \in Packet /\ m \in Mapper
    BY <1>6, <2>1
  <2>3. pkt.ts \in Times
    BY <2>2 DEF Packet
  <2> DEFINE item == Item("sr", pkt, 0, pkt.ts, m)
  <2>4. item \in QueuedItem /\ item.kind = "sr"
    BY <1>2, <2>2, <2>3, ItemType
  <2>5. UNCHANGED queue \/ Put(<<item>>)
    BY <1>9, Zenon DEF Report
  <2> HIDE DEF item
  <2>6. <<item>> \in Seq(QueuedItem) /\ \A i \in DOMAIN <<item>> : <<item>>[i] = item
    BY <2>4
  <2> QED BY <1>3, <1>4, <2>4, <2>5, <2>6, Zenon
<1> QED BY <1>5, <1>7, <1>8, <1>9 DEF Process

(* What the other steps take from the queue leaves media it had. *)
LEMMA QueueNext ==
  ASSUME TypeOK, [Next]_vars
  PROVE  /\ queue' \in Seq(QueuedItem) /\ Len(queue') <= Capacity
         /\ \A i \in DOMAIN queue' : queue'[i].kind = "rtp" =>
              \/ \E j \in DOMAIN queue : queue'[i] = queue[j]
              \/ \E p \in Processors : Process(p) /\ MediaFrom(queue'[i], p)
<1>1. queue \in Seq(QueuedItem) /\ Len(queue) <= Capacity
  BY DEF TypeOK, QueueType
<1>2. ASSUME NEW p \in Processors, Process(p)
      PROVE  QueueKept(p)
  BY <1>2, ProcessQueue
<1>3. CASE Send
  <2>1. queue # <<>> /\ queue' = Tail(queue)
    BY <1>3 DEF Send
  <2>2. /\ queue' \in Seq(QueuedItem) /\ Len(queue') <= Capacity
        /\ \A i \in 1 .. Len(queue') : i + 1 \in 1 .. Len(queue) /\ queue'[i] = queue[i + 1]
    <3>1. /\ Tail(queue) \in Seq(QueuedItem) /\ Len(Tail(queue)) = Len(queue) - 1
          /\ \A i \in 1 .. Len(Tail(queue)) : Tail(queue)[i] = queue[i + 1]
      BY <1>1, <2>1, HeadTailProperties
    <3>2. Len(queue) - 1 <= Capacity
      BY <1>1, LimitsAssumption
    <3>3. \A i \in 1 .. Len(queue) - 1 : i + 1 \in 1 .. Len(queue)
      BY <1>1
    <3> QED BY <2>1, <3>1, <3>2, <3>3
  <2>3. DOMAIN queue' = 1 .. Len(queue') /\ DOMAIN queue = 1 .. Len(queue)
    BY <1>1, <2>2
  <2> QED BY <2>2, <2>3, Zenon
<1>4. CASE Reset \/ Close
  <2>1. queue' = <<>>
    BY <1>4 DEF Reset, Close, ClearQueue
  <2>2. queue' \in Seq(QueuedItem) /\ Len(queue') <= Capacity /\ DOMAIN queue' = {}
    BY <2>1, LimitsAssumption
  <2> QED BY <2>2
<1>5. CASE UNCHANGED queue
  BY <1>1, <1>5
<1>6. CASE Upstream \/ ReaderReceive \/ ReaderFails
  BY <1>5, <1>6 DEF Upstream, Produce, ReaderReceive, ReaderFails, bridge
<1>7. CASE Application /\ ~(Reset \/ Close)
  BY <1>5, <1>7
     DEF Application, Seek, Position, Prepare, Mark, Activate, Collect, Expire, Switch,
         Retire, Closed, bridge
<1>8. CASE UNCHANGED vars
  BY <1>5, <1>8 DEF vars, bridge
<1>9. ASSUME NEW p \in Processors, Process(p)
      PROVE  /\ queue' \in Seq(QueuedItem) /\ Len(queue') <= Capacity
             /\ \A i \in DOMAIN queue' : queue'[i].kind = "rtp" =>
                  \E q \in Processors : Process(q) /\ MediaFrom(queue'[i], q)
  BY <1>2, <1>9 DEF QueueKept
<1> QED BY <1>3, <1>4, <1>6, <1>7, <1>8, <1>9, Zenon DEF Next

LEMMA PendingNext ==
  ASSUME TypeOK, [Next]_vars
  PROVE  pending' \in [Tracks -> Packet \cup {None}]
<1>1. pending \in [Tracks -> Packet \cup {None}]
  BY DEF TypeOK, QueueType
<1>2. ASSUME NEW p \in Processors, Report(p)
      PROVE  pending' \in [Tracks -> Packet \cup {None}]
  <2>1. Head(work[p]) \in Packet
    BY <1>2, BatchType DEF Report
  <2>2. pending' \in {pending, [pending EXCEPT ![Head(work[p]).track] = Head(work[p])]}
    BY <1>2, Zenon DEF Report
  <2> QED BY <1>1, <2>1, <2>2
<1>3. ASSUME NEW p \in Processors, Emit(p)
      PROVE  pending' \in [Tracks -> Packet \cup {None}]
  <2>1. pending' = [pending EXCEPT ![Head(work[p]).track] = None]
    BY <1>3, Zenon DEF Emit
  <2> QED BY <1>1, <2>1
<1>4. ASSUME NEW p \in Processors,
             Inject(p) \/ \E inc \in ArrivalIncrement : Number(p, inc)
      PROVE  UNCHANGED pending
  BY <1>4, Zenon DEF Inject, Number
<1>5. CASE Reset
  BY <1>5 DEF Reset
<1>6. CASE Upstream \/ ReaderReceive \/ ReaderFails \/ Send
  BY <1>1, <1>6 DEF Upstream, Produce, ReaderReceive, ReaderFails, Send, bridge
<1>7. CASE Application /\ ~Reset
  BY <1>1, <1>7
     DEF Application, Seek, Position, Prepare, Mark, Activate, Collect, Expire, Switch,
         Retire, Close, Closed, bridge
<1>8. CASE UNCHANGED vars
  BY <1>1, <1>8 DEF vars, bridge
<1> QED BY <1>1, <1>2, <1>3, <1>4, <1>5, <1>6, <1>7, <1>8 DEF Next, Process

(* A step of a processing thread: it takes up the first packet of its      *)
(* batch, goes on with it, or is done with it.                             *)
TakesUp(p) ==
  /\ cur[p].step = "idle" /\ cur'[p].step = "inject" /\ ~cur'[p].injected
  /\ work[p] # <<>> /\ Head(work[p]).kind = "rtp" /\ work' = work

GoesOn(p) ==
  /\ cur[p].step = "inject" /\ cur'[p].step = "emit" /\ work' = work
  /\ cur'[p].injected => primed' = primed \cup {Head(work[p]).track}
  /\ ~cur'[p].injected => Head(work[p]).track \notin reinject

IsDone(p) ==
  /\ work[p] # <<>> /\ work' = [work EXCEPT ![p] = Tail(work[p])]
  /\ cur'[p].step = "idle" /\ ~cur'[p].injected

LEMMA ProcessEffect ==
  ASSUME TypeOK, NEW p \in Processors, Process(p)
  PROVE  /\ cur' \in [Processors -> InHand]
         /\ \A q \in Processors : q # p => cur'[q] = cur[q]
         /\ TakesUp(p) \/ GoesOn(p) \/ IsDone(p)
<1>1. /\ cur \in [Processors -> InHand] /\ cur[p] \in InHand
      /\ work \in [Processors -> Seq(Packet)]
  BY DEF TypeOK, WorkType
<1>2. Idle \in InHand /\ Idle.step = "idle" /\ ~Idle.injected
  BY NumbersAssumption DEF Idle, InHand, Times, Seqs
<1>3. ASSUME NEW new \in InHand, cur' = [cur EXCEPT ![p] = new]
      PROVE  /\ cur' \in [Processors -> InHand] /\ cur'[p] = new
             /\ \A q \in Processors : q # p => cur'[q] = cur[q]
  BY <1>1, <1>3
<1>4. ASSUME NEW inc \in ArrivalIncrement, Number(p, inc)
      PROVE  /\ cur' \in [Processors -> InHand]
             /\ \A q \in Processors : q # p => cur'[q] = cur[q]
             /\ TakesUp(p)
  <2> DEFINE pkt == Head(work[p])
             m == mapper[pkt.track]
             ts == MapTimestamp(m, pkt.ts, inc)
             new == [Idle EXCEPT !.step = "inject", !.seq = m.next, !.ts = ts]
  <2>1. /\ cur[p].step = "idle" /\ work[p] # <<>> /\ pkt.kind = "rtp"
        /\ work' = work /\ cur' = [cur EXCEPT ![p] = new]
    BY <1>4, Zenon DEF Number
  <2>2. pkt \in Packet /\ m \in Mapper /\ (m.down # None => m.up # None)
    BY <2>1, BatchType DEF TypeOK, MapperType
  <2>3. ts \in Times /\ m.next \in Seqs
    BY <2>2, NumberingType DEF Mapper
  <2> HIDE DEF ts, m
  <2>4. new \in InHand /\ new.step = "inject" /\ ~new.injected
    BY <2>3, <1>2 DEF Idle, InHand
  <2> HIDE DEF new
  <2> QED BY <1>3, <2>1, <2>4 DEF TakesUp
<1>5. CASE Inject(p)
  <2> DEFINE t == Head(work[p]).track
             c == cur[p]
             seq == (c.seq + ParameterSets) % SeqMod
             with == [c EXCEPT !.step = "emit", !.injected = TRUE, !.seq = seq]
             without == [c EXCEPT !.step = "emit"]
  <2>1. /\ cur[p].step = "inject" /\ work' = work
        /\ \/ cur' = [cur EXCEPT ![p] = with] /\ primed' = primed \cup {t}
           \/ cur' = [cur EXCEPT ![p].step = "emit"] /\ t \notin reinject
    BY <1>5, Zenon DEF Inject
  <2>2. ~c.injected
    BY <2>1 DEF TypeOK, HandType
  <2>3. seq \in Seqs
    <3>1. c.seq + ParameterSets \in Int
      BY <1>1, TracksAssumption DEF InHand, Seqs
    <3> QED BY <3>1, SeqMasked
  <2> HIDE DEF seq
  <2>4. with \in InHand /\ with.step = "emit" /\ with.injected
    BY <1>1, <2>3 DEF InHand
  <2>5. without \in InHand /\ without.step = "emit" /\ ~without.injected
    BY <1>1, <2>2 DEF InHand
  <2>6. cur' = [cur EXCEPT ![p].step = "emit"] => cur' = [cur EXCEPT ![p] = without]
    BY <1>1
  <2> HIDE DEF with, without
  <2>7. CASE cur' = [cur EXCEPT ![p] = with] /\ primed' = primed \cup {t}
    BY <1>3, <2>1, <2>4, <2>7 DEF GoesOn
  <2>8. CASE cur' = [cur EXCEPT ![p] = without] /\ t \notin reinject
    BY <1>3, <2>1, <2>5, <2>8 DEF GoesOn
  <2> QED BY <2>1, <2>6, <2>7, <2>8
<1>6. CASE Emit(p)
  <2>1. work[p] # <<>>
    BY <1>6 DEF Emit, TypeOK, HandType
  <2>2. cur' = [cur EXCEPT ![p] = Idle] /\ work' = [work EXCEPT ![p] = Tail(work[p])]
    BY <1>6, Zenon DEF Emit
  <2> QED BY <1>2, <1>3, <2>1, <2>2 DEF IsDone
<1>7. CASE Report(p)
  <2>1. /\ cur[p].step = "idle" /\ work[p] # <<>> /\ cur' = cur
        /\ work' = [work EXCEPT ![p] = Tail(work[p])]
    BY <1>7, Zenon DEF Report
  <2>2. ~cur[p].injected
    BY <2>1 DEF TypeOK, HandType
  <2> QED BY <1>1, <2>1, <2>2 DEF IsDone
<1> QED BY <1>4, <1>5, <1>6, <1>7 DEF Process

(* Batches begin with the reader's receive and with the staged packets.    *)
LEMMA OthersKeepWork ==
  ASSUME [Next]_vars, ~ReaderReceive, ~Reset, \A p \in Processors : ~Process(p)
  PROVE  UNCHANGED <<work, cur>>
<1>1. CASE Upstream \/ ReaderFails \/ Send
  BY <1>1 DEF Upstream, Produce, ReaderFails, Send, threads
<1>2. CASE Application
  BY <1>2 DEF Application, Seek, Position, Prepare, Mark, Activate, Collect, Expire, Switch,
              Retire, Close, Closed
<1>3. CASE UNCHANGED vars
  BY <1>3 DEF vars, threads
<1> QED BY <1>1, <1>2, <1>3 DEF Next

LEMMA StagedNext ==
  ASSUME TypeOK, OwnershipType, Holding, [Next]_vars
  PROVE  staged' \in Seq(Packet) /\ Len(staged') <= HandoffLimit
<1>1. staged \in Seq(Packet) /\ Len(staged) <= HandoffLimit
  BY DEF TypeOK, WorkType
<1>2. CASE Collect
  <2>1. staged \o upq[prepared] \in Seq(Packet)
    BY <1>1, <1>2 DEF Collect, TypeOK, UpstreamType, OwnershipType, Holding
  <2>2. staged' = Newest(staged \o upq[prepared], HandoffLimit)
    BY <1>2, Zenon DEF Collect
  <2> QED BY <2>1, <2>2, NewestType, LimitsAssumption
<1>3. CASE Activate
  BY <1>3, LimitsAssumption DEF Activate
<1>4. ASSUME NEW p \in Processors, Process(p)
      PROVE  UNCHANGED staged
  BY <1>4, Zenon DEF Process, Number, Inject, Emit, Report
<1>5. CASE Upstream \/ ReaderReceive \/ ReaderFails \/ Send
  BY <1>1, <1>5 DEF Upstream, Produce, ReaderReceive, ReaderFails, Send, threads
<1>6. CASE Application /\ ~Collect /\ ~Activate
  BY <1>1, <1>6
     DEF Application, Seek, Position, Prepare, Mark, Reset, Expire, Switch, Retire, Close, Closed
<1>7. CASE UNCHANGED vars
  BY <1>1, <1>7 DEF vars, threads
<1> QED BY <1>1, <1>2, <1>3, <1>4, <1>5, <1>6, <1>7 DEF Next

LEMMA WorkTypeNext ==
  ASSUME TypeOK, OwnershipType, Holding, [Next]_vars
  PROVE  WorkType'
<1>1. /\ work \in [Processors -> Seq(Packet)] /\ cur \in [Processors -> InHand]
      /\ staged \in Seq(Packet)
  BY DEF TypeOK, WorkType
<1>2. ASSUME NEW p \in Processors, Process(p)
      PROVE  work' \in [Processors -> Seq(Packet)] /\ cur' \in [Processors -> InHand]
  <2>1. work' = work \/ (work[p] # <<>> /\ work' = [work EXCEPT ![p] = Tail(work[p])])
    BY <1>2, ProcessEffect DEF TakesUp, GoesOn, IsDone
  <2>2. work[p] # <<>> => Tail(work[p]) \in Seq(Packet)
    BY BatchType
  <2>3. work' \in [Processors -> Seq(Packet)]
    BY <1>1, <2>1, <2>2
  <2> QED BY <1>2, <2>3, ProcessEffect
<1>3. ASSUME ReaderReceive
      PROVE  work' \in [Processors -> Seq(Packet)] /\ cur' \in [Processors -> InHand]
  <2>1. upq[playback] \in Seq(Packet)
    BY DEF TypeOK, UpstreamType, OwnershipType
  <2> QED BY <1>1, <1>3, <2>1 DEF ReaderReceive
<1>4. ASSUME Reset
      PROVE  work' \in [Processors -> Seq(Packet)] /\ cur' \in [Processors -> InHand]
  BY <1>1, <1>4 DEF Reset
<1>5. ASSUME UNCHANGED <<work, cur>>
      PROVE  work' \in [Processors -> Seq(Packet)] /\ cur' \in [Processors -> InHand]
  BY <1>1, <1>5
<1>6. work' \in [Processors -> Seq(Packet)] /\ cur' \in [Processors -> InHand]
  BY <1>2, <1>3, <1>4, <1>5, OthersKeepWork
<1> QED BY <1>6, StagedNext DEF WorkType

(* A mapper that has mapped a packet goes on having one to map against. *)
LEMMA NumberDown ==
  ASSUME TypeOK, NEW p \in Processors, NEW inc \in ArrivalIncrement, Number(p, inc),
         NEW t \in Tracks
  PROVE  mapper[t].down # None \/ t = Head(work[p]).track => mapper'[t].down # None
<1> DEFINE pkt == Head(work[p])
           ts == MapTimestamp(mapper[pkt.track], pkt.ts, inc)
           new == Rewrite(mapper[pkt.track], pkt, ts)
<1>1. mapper \in [Tracks -> Mapper] /\ \A u \in Tracks : mapper[u].down # None => mapper[u].up # None
  BY DEF TypeOK, MapperType
<1>2. work[p] # <<>> /\ mapper' = [mapper EXCEPT ![pkt.track] = new]
  BY Zenon DEF Number
<1>3. pkt \in Packet /\ pkt.track \in Tracks
  BY <1>2, BatchType
<1>4. new.down # None
  BY <1>1, <1>3, NumberingType
<1> HIDE DEF new, pkt
<1>5. mapper'[pkt.track] = new /\ (t # pkt.track => mapper'[t] = mapper[t])
  BY <1>1, <1>2, <1>3
<1> QED BY <1>4, <1>5 DEF pkt

LEMMA DownNext ==
  ASSUME TypeOK, [Next]_vars, NEW t \in Tracks, mapper[t].down # None
  PROVE  mapper'[t].down # None
<1>1. mapper \in [Tracks -> Mapper]
  BY DEF TypeOK, MapperType
<1>2. ASSUME NEW p \in Processors, NEW inc \in ArrivalIncrement, Number(p, inc)
      PROVE  mapper'[t].down # None
  BY <1>2, NumberDown
<1>3. ASSUME NEW p \in Processors, Inject(p)
      PROVE  mapper'[t].down # None
  <2> DEFINE next == (cur[p].seq + (ParameterSets + 1)) % SeqMod
  <2>1. mapper' \in {mapper, [mapper EXCEPT ![Head(work[p]).track].next = next]}
    BY <1>3 DEF Inject
  <2> HIDE DEF next
  <2> QED BY <1>1, <2>1 DEF Mapper
<1>4. ASSUME NEW p \in Processors, Emit(p)
      PROVE  mapper'[t].down # None
  <2>1. mapper' = [mapper EXCEPT ![Head(work[p]).track].report = FALSE]
    BY <1>4, Zenon DEF Emit
  <2> QED BY <1>1, <2>1 DEF Mapper
<1>5. CASE Mark
  BY <1>1, <1>5 DEF Mark, Discontinuity, Mapper
<1>6. CASE UNCHANGED mapper
  BY <1>6
<1>7. ASSUME NEW p \in Processors, Report(p)
      PROVE  UNCHANGED mapper
  BY <1>7 DEF Report
<1>8. CASE Upstream \/ ReaderReceive \/ ReaderFails \/ Send
  BY <1>8 DEF Upstream, Produce, ReaderReceive, ReaderFails, Send, bridge
<1>9. CASE Application /\ ~Mark
  BY <1>9 DEF Application, Seek, Position, Prepare, Reset, Activate, Collect, Expire, Switch,
              Retire, Close, Closed, bridge
<1>10. CASE UNCHANGED vars
  BY <1>10 DEF vars, bridge
<1> QED
  BY <1>2, <1>3, <1>4, <1>5, <1>6, <1>7, <1>8, <1>9, <1>10 DEF Next, Process

LEMMA HandTypeNext ==
  ASSUME TypeOK, Ownership, [Next]_vars
  PROVE  HandType'
<1> DEFINE Holds(p) ==
             /\ cur'[p].step # "idle" =>
                  /\ work'[p] # <<>> /\ Head(work'[p]).kind = "rtp"
                  /\ mapper'[Head(work'[p]).track].down # None
             /\ cur'[p].injected => cur'[p].step = "emit"
<1>1. /\ work \in [Processors -> Seq(Packet)] /\ cur \in [Processors -> InHand]
      /\ work["app"] # <<>> => apc = "process"
  BY DEF TypeOK, WorkType, HandType
<1>2. ASSUME NEW p \in Processors
      PROVE  /\ cur[p].step # "idle" =>
                  /\ work[p] # <<>> /\ Head(work[p]).kind = "rtp"
                  /\ Head(work[p]).track \in Tracks
                  /\ mapper[Head(work[p]).track].down # None
             /\ cur[p].injected => cur[p].step = "emit"
  BY BatchType DEF TypeOK, HandType
<1>3. ASSUME NEW p \in Processors, work'[p] = work[p], cur'[p] = cur[p]
      PROVE  Holds(p)
  BY <1>2, <1>3, DownNext
<1>4. ASSUME NEW p \in Processors, Process(p)
      PROVE  /\ \A q \in Processors : Holds(q)
             /\ work'["app"] # <<>> => apc' = "process"
  <2>1. \A q \in Processors : q # p => work'[q] = work[q] /\ cur'[q] = cur[q]
    BY <1>1, <1>4, ProcessEffect DEF TakesUp, GoesOn, IsDone
  <2>2. Holds(p)
    <3>1. CASE TakesUp(p)
      <4>1. Process(p) /\ cur[p].step = "idle" /\ cur'[p].step = "inject"
        BY <1>4, <3>1 DEF TakesUp
      <4>2. PICK inc \in ArrivalIncrement : Number(p, inc)
        <5>1. ~Inject(p) /\ ~Emit(p)
          BY <4>1 DEF Inject, Emit
        <5>2. ~Report(p)
          BY <4>1 DEF Report
        <5> QED BY <4>1, <5>1, <5>2 DEF Process
      <4>3. Head(work[p]).track \in Tracks
        BY <3>1, BatchType DEF TakesUp
      <4> QED BY <3>1, <4>2, <4>3, NumberDown DEF TakesUp
    <3>2. CASE GoesOn(p)
      BY <1>2, <3>2, DownNext DEF GoesOn
    <3>3. CASE IsDone(p)
      BY <3>3 DEF IsDone
    <3> QED BY <1>4, <3>1, <3>2, <3>3, ProcessEffect
  <2>3. work'["app"] # <<>> => work["app"] # <<>>
    BY <1>1, <1>4, ProcessEffect DEF TakesUp, GoesOn, IsDone, Processors
  <2>4. UNCHANGED apc
    BY <1>4, Zenon DEF Process, Number, Inject, Emit, Report
  <2> QED BY <1>1, <1>3, <2>1, <2>2, <2>3, <2>4
<1>5. ASSUME ReaderReceive
      PROVE  /\ \A q \in Processors : Holds(q)
             /\ work'["app"] # <<>> => apc' = "process"
  <2>1. /\ work["reader"] = <<>> /\ work'["app"] = work["app"]
        /\ cur' = cur /\ apc' = apc
    BY <1>1, <1>5 DEF ReaderReceive, ReaderMay, Processors
  <2>2. Holds("reader")
    BY <1>2, <2>1 DEF Processors
  <2>3. Holds("app")
    BY <1>3, <2>1 DEF Processors
  <2> QED BY <1>1, <2>1, <2>2, <2>3 DEF Processors
<1>6. ASSUME Reset
      PROVE  /\ \A q \in Processors : Holds(q)
             /\ work'["app"] # <<>> => apc' = "process"
  <2>1. /\ apc = "reset" /\ cur' = cur /\ work'["reader"] = work["reader"]
        /\ work'["app"] # work["app"] => apc' = "process"
    BY <1>1, <1>6 DEF Reset, Processors
  <2>2. work["app"] = <<>>
    BY <1>1, <2>1
  <2>3. Holds("app")
    BY <1>2, <2>1, <2>2 DEF Processors
  <2>4. Holds("reader")
    BY <1>3, <2>1 DEF Processors
  <2> QED BY <2>1, <2>2, <2>3, <2>4 DEF Processors
<1>7. ASSUME UNCHANGED <<work, cur>>
      PROVE  /\ \A q \in Processors : Holds(q)
             /\ work'["app"] # <<>> => apc = "process"
  BY <1>1, <1>3, <1>7
<1>8. ASSUME ~Reset, \A p \in Processors : ~Process(p), apc = "process", work["app"] # <<>>
      PROVE  apc' = apc
  <2>1. CASE Upstream \/ ReaderReceive \/ ReaderFails \/ Send
    BY <2>1 DEF Upstream, Produce, ReaderReceive, ReaderFails, Send, threads
  <2>2. CASE Application
    BY <1>8, <2>2 DEF Application, Seek, Position, Prepare, Mark, Activate, Collect, Expire,
              Switch, Retire, Close, Closed, Command
  <2>3. CASE UNCHANGED vars
    BY <2>3 DEF vars, threads
  <2> QED BY <1>8, <2>1, <2>2, <2>3 DEF Next
<1>9. (\A q \in Processors : Holds(q)) /\ (work'["app"] # <<>> => apc' = "process")
  BY <1>1, <1>4, <1>5, <1>6, <1>7, <1>8, OthersKeepWork
<1> QED BY <1>9 DEF HandType

LEMMA TypeNext == TypeOK /\ Ownership /\ [Next]_vars => TypeOK'
BY UpstreamTypeNext, MapperTypeNext, QueueNext, PendingNext, WorkTypeNext, HandTypeNext
   DEF TypeOK, QueueType, Ownership

(* Whatever the application does, the numbers and timestamps the bridge    *)
(* sends fit the 16 and 32 bits of their fields, the queue keeps to its    *)
(* capacity and the staged packets to HANDOFF_PACKET_LIMIT, and a thread   *)
(* that processes a packet processes the first of its batch.               *)
THEOREM TypeCorrect == Spec => []TypeOK
BY TypeInit, TypeNext, OwnershipInvariant, PTL DEF Spec

-----------------------------------------------------------------------------
(* Parameter sets before media. *)

LEMMA PrimedInit == Init => Primed
<1> SUFFICES ASSUME Init PROVE Primed
  OBVIOUS
<1>1. Origin
  BY DEF Init, Origin
<1>2. Between /\ Noted
  BY DEF Init, Between, Noted
<1>3. Owed
  <2>1. announced = 0
    BY DEF Init
  <2>2. \A p \in Processors : ~cur[p].injected /\ cur[p].step = "idle"
    BY DEF Init, Idle
  <2> QED BY <2>1, <2>2 DEF Owed
<1>4. InitializationPrecedesMedia
  BY DEF Init, InitializationPrecedesMedia
<1> QED BY <1>1, <1>2, <1>3, <1>4 DEF Primed

(* Once a playback was started it was, and its position only advances. *)
LEMMA PastNext ==
  ASSUME Ownership, UpstreamType, [Next]_vars, NEW s \in Sources, pb[s] # "new"
  PROVE  pb'[s] # "new" /\ pos'[s] \in Nat /\ pos[s] <= pos'[s]
<1> USE DEF Ownership, OwnershipType, Holding
<1>1. pos[s] \in Nat /\ pos \in [Sources -> Nat]
  BY DEF UpstreamType
<1>2. CASE Application
  <2>1. ASSUME NEW d \in Jumps, Seek(d)
        PROVE  pb'[s] # "new" /\ pos'[s] \in {pos[s], pos[s] + 1}
    BY <1>1, <2>1 DEF Seek, Reposition
  <2>2. ASSUME NEW d \in Jumps, Position(d)
        PROVE  pb'[s] # "new" /\ pos'[s] \in {pos[s], pos[s] + 1}
    BY <1>1, <2>2 DEF Position, Reposition
  <2>3. ASSUME NEW r \in Sources, Prepare(r)
        PROVE  pb'[s] # "new" /\ pos'[s] = pos[s]
    BY <2>3 DEF Prepare
  <2>4. CASE Mark \/ Reset \/ Collect \/ Switch \/ Close
    BY <1>1, <2>4 DEF Mark, Reset, Collect, Switch, Close, upstream
  <2>5. CASE Activate \/ Expire \/ Retire \/ Closed
    BY <1>1, <2>5 DEF Activate, Expire, Retire, Closed
  <2> QED BY <1>1, <1>2, <2>1, <2>2, <2>3, <2>4, <2>5 DEF Application
<1>3. CASE Upstream \/ ReaderReceive \/ ReaderFails \/ Send
  <2>1. CASE Upstream
    <3>1. UNCHANGED <<pb, pos>>
      BY <2>1 DEF Upstream, Produce
    <3> QED BY <1>1, <3>1
  <2>2. CASE ReaderReceive \/ ReaderFails \/ Send
    BY <1>1, <2>2 DEF ReaderReceive, ReaderFails, Send, upstream
  <2> QED BY <1>3, <2>1, <2>2
<1>4. ASSUME NEW p \in Processors, Process(p)
      PROVE  UNCHANGED upstream
  BY <1>4, Zenon DEF Process, Number, Inject, Emit, Report
<1>5. CASE UNCHANGED vars
  BY <1>1, <1>5 DEF vars, upstream
<1> QED BY <1>1, <1>2, <1>3, <1>4, <1>5 DEF Next, upstream

(* A playback that had its turn is not one that has yet to take it. *)
LEMMA TurnedNext ==
  ASSUME Ownership, [Next]_vars, NEW s \in Sources, pb[s] # "new",
         s # prepared, apc = "position" => s # outgoing
  PROVE  s # prepared' /\ (apc' = "position" => s # outgoing')
<1> USE SourcesAssumption DEF Ownership, OwnershipType, Holding, Distinct
<1>1. CASE Application
  <2>1. ASSUME NEW r \in Sources, Prepare(r)
        PROVE  s # prepared' /\ (apc' = "position" => s # outgoing')
    BY <2>1 DEF Prepare, Command
  <2>2. CASE \E d \in Jumps : Position(d)
    BY <2>2 DEF Position
  <2>3. CASE \E d \in Jumps : Seek(d)
    BY <2>3 DEF Seek, bridge
  <2>4. CASE Mark \/ Reset \/ Collect \/ Switch \/ Close
    BY <2>4 DEF Mark, Reset, Collect, Switch, Close, bridge
  <2>5. CASE Activate \/ Expire \/ Retire \/ Closed
    BY <2>5 DEF Activate, Expire, Retire, Closed, bridge
  <2> QED BY <1>1, <2>1, <2>2, <2>3, <2>4, <2>5 DEF Application
<1>2. CASE ~Application
  BY <1>2, OthersKeepCustody DEF Custody, vars, upstream, bridge, threads
<1> QED BY <1>1, <1>2

LEMMA OriginNext ==
  ASSUME Ownership, TypeOK, Origin, [Next]_vars
  PROVE  Origin'
<1> USE DEF Past, Turned
<1>1. /\ upq \in [Sources -> Seq(Packet)] /\ pos \in [Sources -> Nat]
      /\ staged \in Seq(Packet) /\ work \in [Processors -> Seq(Packet)]
      /\ queue \in Seq(QueuedItem) /\ UpstreamType /\ OwnershipType
  BY DEF TypeOK, UpstreamType, WorkType, QueueType, Ownership
<1>2. ASSUME NEW s \in Sources, NEW n \in Nat, pb[s] # "new", n <= pos[s]
      PROVE  pb'[s] # "new" /\ n <= pos'[s]
  BY <1>1, <1>2, PastNext
<1>3. ASSUME NEW s \in Sources, NEW n \in Nat, pb[s] # "new", n <= pos[s],
             s # prepared, apc = "position" => s # outgoing
      PROVE  /\ pb'[s] # "new" /\ n <= pos'[s]
             /\ s # prepared' /\ (apc' = "position" => s # outgoing')
  BY <1>2, <1>3, TurnedNext
<1>4. \A x \in Packet \cup QueuedItem : x.src \in Sources /\ x.pos \in Nat
  BY DEF Packet, QueuedItem
<1>5. ASSUME NEW s \in Sources, NEW i \in DOMAIN upq'[s]
      PROVE  /\ upq'[s][i].src = s
             /\ pb'[upq'[s][i].src] # "new" /\ upq'[s][i].pos <= pos'[upq'[s][i].src]
  <2>1. ASSUME NEW j \in DOMAIN upq[s], upq'[s][i] = upq[s][j]
        PROVE  /\ upq'[s][i].src = s
               /\ pb'[upq'[s][i].src] # "new" /\ upq'[s][i].pos <= pos'[upq'[s][i].src]
    <3>1. upq[s][j] \in Packet
      BY <1>1
    <3> QED BY <1>2, <1>4, <2>1, <3>1 DEF Origin
  <2>2. CASE UNCHANGED upq
    BY <2>1, <2>2
  <2>3. ASSUME NEW r \in Sources, NEW t \in Tracks, NEW kind \in {"rtp", "sr"},
               NEW d \in Ahead, Produce(r, t, kind, d)
        PROVE  /\ upq'[s][i].src = s
               /\ pb'[upq'[s][i].src] # "new" /\ upq'[s][i].pos <= pos'[upq'[s][i].src]
    <3> DEFINE pkt == [track |-> t, kind |-> kind, src |-> r, pos |-> pos[r],
                       ts |-> (clock[r] + d) % TsMod]
    <3>1. /\ pb[r] \in Active /\ pb' = pb /\ pos' = pos
          /\ upq' = [upq EXCEPT ![r] = Append(upq[r], pkt)]
      BY <2>3, Zenon DEF Produce
    <3>2. pkt.src = r /\ pkt.pos = pos[r] /\ pos[r] \in Nat
      BY <1>1
    <3> HIDE DEF pkt
    <3>3. CASE s # r
      BY <1>1, <2>1, <3>1, <3>3
    <3>4. CASE s = r /\ i <= Len(upq[s])
      <4>1. i \in DOMAIN upq[s] /\ upq'[s][i] = upq[s][i]
        BY <1>1, <3>1, <3>4
      <4> QED BY <2>1, <4>1
    <3>5. CASE s = r /\ ~(i <= Len(upq[s]))
      <4>1. upq'[s][i] = pkt
        BY <1>1, <3>1, <3>5
      <4> QED BY <3>1, <3>2, <3>5, <4>1
    <3> QED BY <3>3, <3>4, <3>5
  <2>4. CASE ReaderReceive
    <3>1. upq'[s] = upq[s] \/ upq'[s] = <<>>
      BY <1>1, <2>4 DEF ReaderReceive
    <3> QED BY <2>1, <3>1
  <2>5. CASE Collect
    <3>1. upq'[s] = upq[s] \/ upq'[s] = <<>>
      BY <1>1, <2>5 DEF Collect
    <3> QED BY <2>1, <3>1
  <2>6. CASE Application /\ ~Collect
    BY <2>2, <2>6 DEF Application, Seek, Position, Prepare, Mark, Reset, Activate, Expire,
              Switch, Retire, Close, Closed, upstream
  <2>7. CASE ReaderFails \/ Send \/ UNCHANGED vars
    BY <2>2, <2>7 DEF ReaderFails, Send, vars, upstream
  <2>8. ASSUME NEW p \in Processors, Process(p)
        PROVE  UNCHANGED upq
    BY <2>8, Zenon DEF Process, Number, Inject, Emit, Report, upstream
  <2> QED BY <2>2, <2>3, <2>4, <2>5, <2>6, <2>7, <2>8 DEF Next, Upstream
<1>6. ASSUME NEW x \in Packet, Past(x)
      PROVE  pb'[x.src] # "new" /\ x.pos <= pos'[x.src]
  BY <1>2, <1>4, <1>6
<1>7. ASSUME NEW x \in Packet \cup QueuedItem, Turned(x)
      PROVE  /\ pb'[x.src] # "new" /\ x.pos <= pos'[x.src]
             /\ x.src # prepared' /\ (apc' = "position" => x.src # outgoing')
  BY <1>3, <1>4, <1>7
<1>8. ASSUME NEW i \in DOMAIN staged'
      PROVE  pb'[staged'[i].src] # "new" /\ staged'[i].pos <= pos'[staged'[i].src]
  <2>1. CASE UNCHANGED staged
    <3>1. staged[i] \in Packet /\ Past(staged[i])
      BY <1>1, <1>8, <2>1 DEF Origin
    <3> QED BY <1>6, <2>1, <3>1
  <2>2. CASE Collect
    <3> DEFINE batch == upq[prepared]
               all == staged \o batch
    <3>1. batch \in Seq(Packet) /\ prepared \in Sources
      BY <1>1, <2>2 DEF Collect, Ownership, OwnershipType, Holding
    <3>2. staged' = Newest(all, HandoffLimit)
      BY <2>2, Zenon DEF Collect
    <3>3. PICK j \in DOMAIN all : staged'[i] = all[j]
      <4>1. all \in Seq(Packet)
        BY <1>1, <3>1
      <4> HIDE DEF all
      <4> QED BY <1>8, <3>2, <4>1, NewestType, LimitsAssumption
    <3>4. all[j] \in Packet /\ Past(all[j])
      <4>1. CASE j <= Len(staged)
        <5>1. j \in DOMAIN staged /\ all[j] = staged[j]
          BY <1>1, <3>1, <4>1
        <5> QED BY <1>1, <5>1 DEF Origin
      <4>2. CASE ~(j <= Len(staged))
        <5>1. j - Len(staged) \in DOMAIN batch /\ all[j] = batch[j - Len(staged)]
          BY <1>1, <3>1, <4>2
        <5> QED BY <1>1, <3>1, <5>1 DEF Origin
      <4> QED BY <4>1, <4>2
    <3> QED BY <1>6, <3>3, <3>4
  <2>3. CASE Activate
    BY <1>8, <2>3 DEF Activate
  <2>4. CASE Application /\ ~Collect /\ ~Activate
    BY <2>1, <2>4 DEF Application, Seek, Position, Prepare, Mark, Reset, Expire, Switch,
              Retire, Close, Closed
  <2>5. CASE Upstream \/ ReaderReceive \/ ReaderFails \/ Send \/ UNCHANGED vars
    BY <2>1, <2>5 DEF Upstream, Produce, ReaderReceive, ReaderFails, Send, threads, vars
  <2>6. ASSUME NEW p \in Processors, Process(p)
        PROVE  UNCHANGED staged
    BY <2>6, Zenon DEF Process, Number, Inject, Emit, Report
  <2> QED BY <2>1, <2>2, <2>3, <2>4, <2>5, <2>6 DEF Next
<1>9. ASSUME NEW p \in Processors, NEW i \in DOMAIN work'[p]
      PROVE  LET x == work'[p][i]
             IN  /\ pb'[x.src] # "new" /\ x.pos <= pos'[x.src]
                 /\ x.src # prepared' /\ (apc' = "position" => x.src # outgoing')
  <2> DEFINE x == work'[p][i]
  <2>1. ASSUME NEW j \in DOMAIN work[p], x = work[p][j]
        PROVE  /\ pb'[x.src] # "new" /\ x.pos <= pos'[x.src]
               /\ x.src # prepared' /\ (apc' = "position" => x.src # outgoing')
    <3>1. work[p][j] \in Packet /\ Turned(work[p][j])
      BY <1>1 DEF Origin
    <3> QED BY <1>7, <2>1, <3>1
  <2>2. CASE work'[p] = work[p]
    BY <1>9, <2>1, <2>2
  <2>3. CASE ReaderReceive
    <3>1. CASE p = "reader"
      <4>1. work'[p] = upq[playback]
        BY <1>1, <2>3, <3>1 DEF ReaderReceive
      <4>2. x \in Packet /\ x.src = playback /\ Past(x)
        BY <1>1, <1>9, <4>1 DEF Origin, OwnershipType
      <4>3. playback # prepared /\ (apc = "position" => playback # outgoing)
        BY SourcesAssumption DEF Ownership, Distinct, OwnershipType
      <4>4. Turned(x)
        BY <4>2, <4>3
      <4> HIDE DEF x
      <4> QED BY <1>7, <4>2, <4>4 DEF x
    <3>2. CASE p # "reader"
      BY <1>1, <2>2, <2>3, <3>2 DEF ReaderReceive
    <3> QED BY <3>1, <3>2
  <2>4. CASE Reset
    <3>1. CASE outgoing # None /\ p = "app"
      <4>1. work'[p] = staged /\ apc' = "process"
        BY <1>1, <2>4, <3>1 DEF Reset
      <4>2. staged[i] \in Packet /\ Past(staged[i]) /\ x = staged[i]
        BY <1>1, <1>9, <4>1 DEF Origin
      <4>3. prepared' = None
        BY <2>4, <3>1 DEF Reset, Ownership, Holding
      <4> QED BY <1>4, <1>6, <4>1, <4>2, <4>3, SourcesAssumption
    <3>2. CASE ~(outgoing # None /\ p = "app")
      BY <1>1, <2>2, <2>4, <3>2 DEF Reset
    <3> QED BY <3>1, <3>2
  <2>5. ASSUME NEW q \in Processors, Process(q)
        PROVE  /\ pb'[x.src] # "new" /\ x.pos <= pos'[x.src]
               /\ x.src # prepared' /\ (apc' = "position" => x.src # outgoing')
    <3>1. CASE work'[p] = work[p]
      BY <2>2, <3>1
    <3>2. CASE work[p] # <<>> /\ work'[p] = Tail(work[p])
      <4>1. i + 1 \in DOMAIN work[p] /\ x = work[p][i + 1]
        BY <1>9, <3>2, BatchType
      <4> QED BY <2>1, <4>1
    <3>3. work'[p] = work[p] \/ (work[p] # <<>> /\ work'[p] = Tail(work[p]))
      BY <1>1, <2>5, ProcessEffect DEF TakesUp, GoesOn, IsDone
    <3> QED BY <3>1, <3>2, <3>3
  <2> QED BY <2>2, <2>3, <2>4, <2>5, OthersKeepWork
<1>10. ASSUME NEW i \in DOMAIN queue', queue'[i].kind = "rtp"
       PROVE  LET x == queue'[i]
              IN  /\ pb'[x.src] # "new" /\ x.pos <= pos'[x.src]
                  /\ x.src # prepared' /\ (apc' = "position" => x.src # outgoing')
  <2> DEFINE x == queue'[i]
  <2>1. ASSUME NEW j \in DOMAIN queue, x = queue[j]
        PROVE  /\ pb'[x.src] # "new" /\ x.pos <= pos'[x.src]
               /\ x.src # prepared' /\ (apc' = "position" => x.src # outgoing')
    <3>1. queue[j] \in QueuedItem /\ Turned(queue[j])
      BY <1>1, <1>10, <2>1 DEF Origin
    <3> QED BY <1>7, <2>1, <3>1
  <2>2. ASSUME NEW p \in Processors, Process(p), cur[p].step = "emit",
               x.src = Head(work[p]).src, x.pos = Head(work[p]).pos
        PROVE  /\ pb'[x.src] # "new" /\ x.pos <= pos'[x.src]
               /\ x.src # prepared' /\ (apc' = "position" => x.src # outgoing')
    <3>1. work[p] # <<>>
      BY <2>2 DEF TypeOK, HandType
    <3>2. Head(work[p]) \in Packet /\ Turned(Head(work[p]))
      BY <3>1, BatchType DEF Origin
    <3> QED BY <1>7, <2>2, <3>2
  <2> QED BY <1>10, <2>1, <2>2, QueueNext DEF MediaFrom
<1> QED BY <1>5, <1>8, <1>9, <1>10, Zenon DEF Origin

(* What changes while a discontinuity is announced. *)
LEMMA AnnouncingSteps ==
  ASSUME OwnershipType, Next, apc \in {"mark", "reset"}
  PROVE  /\ UNCHANGED <<playback, announced>>
         /\ \/ Mark /\ apc = "mark" /\ apc' = "reset"
            \/ Reset /\ apc = "reset" /\ apc' \notin {"mark", "reset"}
            \/ UNCHANGED <<apc, held>>
         /\ ~ReaderReceive
<1>1. CASE Application
  BY <1>1 DEF Application, Seek, Position, Prepare, Mark, Reset, Activate, Collect, Expire,
              Switch, Retire, Close, Closed, Command, upstream, ReaderReceive, ReaderMay
<1>2. CASE Upstream \/ ReaderReceive \/ ReaderFails \/ Send
  BY <1>2 DEF Upstream, Produce, ReaderReceive, ReaderFails, Send, ReaderMay, upstream,
              bridge, threads, ghosts
<1>3. ASSUME NEW p \in Processors, Process(p)
      PROVE  UNCHANGED <<playback, announced, apc, held, upq, stopped>> /\ ~ReaderReceive
  BY <1>3, Zenon DEF Process, Number, Inject, Emit, Report, upstream, ghosts, ReaderReceive, ReaderMay
<1> QED BY <1>1, <1>2, <1>3 DEF Next

(* What does not change otherwise. *)
LEMMA SteadySteps ==
  ASSUME Next, apc \notin {"mark", "reset"}, apc' \notin {"mark", "reset"}
  PROVE  /\ UNCHANGED <<playback, held, announced>>
         /\ (\A p \in Processors : ~Process(p)) => UNCHANGED <<cur, reinject, primed>>
<1>1. CASE Application
  <2>1. CASE \E d \in Jumps : Position(d)
    BY <2>1 DEF Position
  <2>2. CASE ~\E d \in Jumps : Position(d)
    BY <1>1, <2>2
       DEF Application, Seek, Prepare, Mark, Reset, Activate, Collect, Expire, Switch,
           Retire, Close, Closed, Command, upstream, bridge, threads, ghosts
  <2> QED BY <2>1, <2>2
<1>2. CASE Upstream \/ ReaderReceive \/ ReaderFails \/ Send
  BY <1>2 DEF Upstream, Produce, ReaderReceive, ReaderFails, Send, upstream, bridge,
              threads, ghosts
<1>3. ASSUME NEW p \in Processors, Process(p)
      PROVE  UNCHANGED <<playback, held, announced>>
  BY <1>3, Zenon DEF Process, Number, Inject, Emit, Report, upstream, ghosts
<1> QED BY <1>1, <1>2, <1>3 DEF Next

(* What a processing thread does to the parameter sets owed. *)
LEMMA ProcessOwed ==
  ASSUME NEW p \in Processors, Process(p)
  PROVE  /\ primed \subseteq primed'
         /\ \/ reinject' = reinject
            \/ cur[p].injected /\ reinject' = reinject \ {Head(work[p]).track}
<1>1. CASE \E inc \in ArrivalIncrement : Number(p, inc)
  BY <1>1 DEF Number, ghosts
<1>2. CASE Inject(p)
  <2>1. primed' = primed \/ primed' = primed \cup {Head(work[p]).track}
    BY <1>2, Zenon DEF Inject
  <2>2. reinject' = reinject
    BY <1>2, Zenon DEF Inject
  <2> QED BY <2>1, <2>2
<1>3. CASE Emit(p)
  <2>1. reinject' = IF cur[p].injected THEN reinject \ {Head(work[p]).track} ELSE reinject
    BY <1>3, Zenon DEF Emit
  <2>2. primed' = primed
    BY <1>3 DEF Emit, ghosts
  <2> QED BY <2>1, <2>2
<1>4. CASE Report(p)
  BY <1>4 DEF Report, ghosts
<1> QED BY <1>1, <1>2, <1>3, <1>4 DEF Process

(* A batch loses packets from its front only. *)
LEMMA BatchNext ==
  ASSUME TypeOK, [Next]_vars, ~ReaderReceive, NEW i \in DOMAIN work'["reader"]
  PROVE  \E j \in DOMAIN work["reader"] : work'["reader"][i] = work["reader"][j]
<1>1. work \in [Processors -> Seq(Packet)] /\ "reader" \in Processors
  BY DEF TypeOK, WorkType, Processors
<1>2. CASE work'["reader"] = work["reader"]
  BY <1>2
<1>3. CASE work["reader"] # <<>> /\ work'["reader"] = Tail(work["reader"])
  <2>1. i + 1 \in DOMAIN work["reader"] /\ work'["reader"][i] = work["reader"][i + 1]
    BY <1>1, <1>3, BatchType
  <2> QED BY <2>1
<1>4. ASSUME NEW p \in Processors, Process(p)
      PROVE  \/ work'["reader"] = work["reader"]
             \/ work["reader"] # <<>> /\ work'["reader"] = Tail(work["reader"])
  BY <1>1, <1>4, ProcessEffect DEF TakesUp, GoesOn, IsDone
<1>5. CASE Reset
  BY <1>1, <1>2, <1>5 DEF Reset
<1> QED BY <1>2, <1>3, <1>4, <1>5, OthersKeepWork

LEMMA NotedNext ==
  ASSUME Ownership, TypeOK, Noted, Next
  PROVE  Noted'
<1> SUFFICES ASSUME apc' = "reset", NEW i \in DOMAIN work'["reader"]
             PROVE  work'["reader"][i].track \in held'
  BY DEF Noted
<1>1. CASE Mark
  <2>1. /\ work' = work
        /\ held' = {work["reader"][j].track : j \in DOMAIN work["reader"]}
    BY <1>1 DEF Mark
  <2> QED BY <2>1
<1>2. CASE apc = "reset" /\ held' = held
  <2>1. ~ReaderReceive
    BY <1>2 DEF ReaderReceive, ReaderMay
  <2>2. PICK j \in DOMAIN work["reader"] : work'["reader"][i] = work["reader"][j]
    BY <2>1, BatchNext
  <2> QED BY <1>2, <2>2 DEF Noted
<1>3. CASE apc \notin {"mark", "reset"}
  <2>1. CASE Application
    BY <1>1, <1>3, <2>1 DEF Application, Seek, Position, Prepare, Reset, Activate, Collect,
              Expire, Switch, Retire, Close, Closed, Command
  <2>2. CASE ~Application
    BY <1>3, <2>2, OthersKeepCustody DEF Custody
  <2> QED BY <2>1, <2>2
<1> QED BY <1>1, <1>2, <1>3, AnnouncingSteps DEF Ownership

(* How an announcement begins: it is of a position not seen before, or of  *)
(* a playback that had no turn.                                            *)
LEMMA AnnouncementBegins ==
  ASSUME Ownership, TypeOK, Next, apc \notin {"mark", "reset"}, apc' \in {"mark", "reset"}
  PROVE  /\ UNCHANGED <<queue, work>>
         /\ \/ playback' = playback /\ announced' = pos[playback] + 1
            \/ playback' = prepared /\ prepared \in Sources
<1>1. Application
  BY OthersKeepCustody DEF Custody
<1>2. CASE \E d \in Jumps : Seek(d)
  BY <1>2 DEF Seek, Reposition, Command, bridge, Ownership, OwnershipType, TypeOK, UpstreamType
<1>3. CASE Switch
  BY <1>3 DEF Switch, upstream, Ownership, OwnershipType, Holding
<1> QED
  BY <1>1, <1>2, <1>3 DEF Application, Position, Prepare, Mark, Reset, Activate, Collect,
            Expire, Retire, Close, Closed, Command

LEMMA BetweenNext ==
  ASSUME Ownership, TypeOK, Origin, Between, Next
  PROVE  Between'
<1>1. /\ work["reader"] \in Seq(Packet) /\ queue \in Seq(QueuedItem)
      /\ pos \in [Sources -> Nat] /\ playback \in Sources
  BY DEF TypeOK, WorkType, QueueType, UpstreamType, Processors, Ownership, OwnershipType
<1>2. \A x \in Packet \cup QueuedItem : x.src \in Sources /\ x.pos \in Nat
  BY DEF Packet, QueuedItem
<1>3. CASE apc \notin {"mark", "reset"} /\ apc' \in {"mark", "reset"}
  <2>1. ASSUME NEW x \in Packet \cup QueuedItem, Turned(x)
        PROVE  ~(x.src = playback' /\ x.pos = announced' /\ x.pos > 0)
    <3>1. x.src \in Sources /\ x.pos \in Nat /\ x.pos <= pos[x.src] /\ x.src # prepared
      BY <1>2, <2>1 DEF Turned, Past
    <3> QED BY <1>1, <1>3, <3>1, AnnouncementBegins
  <2>2. ASSUME NEW i \in DOMAIN work'["reader"]
        PROVE  ~Fresh(work["reader"][i])'
    <3>1. work'["reader"] = work["reader"]
      BY <1>3, AnnouncementBegins
    <3>2. work["reader"][i] \in Packet /\ Turned(work["reader"][i])
      BY <1>1, <2>2, <3>1 DEF Origin, Processors
    <3> QED BY <2>1, <3>1, <3>2 DEF Fresh
  <2>3. ASSUME NEW i \in DOMAIN queue', queue'[i].kind = "rtp"
        PROVE  ~Fresh(queue[i])'
    <3>1. queue' = queue
      BY <1>3, AnnouncementBegins
    <3>2. queue[i] \in QueuedItem /\ Turned(queue[i])
      BY <1>1, <2>3, <3>1 DEF Origin
    <3> QED BY <2>1, <3>1, <3>2 DEF Fresh
  <2> QED BY <2>2, <2>3 DEF Between
<1>4. CASE apc \in {"mark", "reset"} /\ apc' \in {"mark", "reset"}
  <2>1. /\ UNCHANGED <<playback, announced>> /\ ~ReaderReceive
        /\ \A i \in DOMAIN work["reader"] : ~Fresh(work["reader"][i])
        /\ \A i \in DOMAIN queue : queue[i].kind = "rtp" => ~Fresh(queue[i])
    BY <1>4, AnnouncingSteps DEF Between, Ownership
  <2>2. ASSUME NEW i \in DOMAIN work'["reader"]
        PROVE  ~Fresh(work["reader"][i])'
    <3>1. PICK j \in DOMAIN work["reader"] : work'["reader"][i] = work["reader"][j]
      BY <2>1, <2>2, BatchNext
    <3> QED BY <2>1, <3>1 DEF Fresh
  <2>3. ASSUME NEW i \in DOMAIN queue', queue'[i].kind = "rtp"
        PROVE  ~Fresh(queue[i])'
    <3>1. ASSUME NEW j \in DOMAIN queue, queue'[i] = queue[j]
          PROVE  ~Fresh(queue[i])'
      BY <2>1, <2>3, <3>1 DEF Fresh
    <3>2. ASSUME NEW p \in Processors, cur[p].step = "emit",
                 queue'[i].src = Head(work[p]).src, queue'[i].pos = Head(work[p]).pos
          PROVE  ~Fresh(queue[i])'
      <4>1. work[p] # <<>>
        BY <3>2 DEF TypeOK, HandType
      <4>2. p = "reader"
        BY <1>4, <4>1 DEF TypeOK, HandType, Processors
      <4>3. 1 \in DOMAIN work["reader"] /\ Head(work[p]) = work["reader"][1]
        BY <4>1, <4>2, BatchType
      <4> QED BY <2>1, <3>2, <4>3 DEF Fresh
    <3> QED BY <2>3, <3>1, <3>2, QueueNext DEF MediaFrom
  <2> QED BY <2>2, <2>3 DEF Between
<1> QED BY <1>3, <1>4 DEF Between

LEMMA OwedNext ==
  ASSUME Ownership, TypeOK, Between, Owed, Noted, Next
  PROVE  Owed'
<1> DEFINE Debt == announced > 0 => Coded \subseteq reinject \cup Covered
           Hand(p) == LET pkt == Head(work[p])
                      IN  /\ cur[p].injected => pkt.track \in Covered
                          /\ cur[p].step = "emit" /\ pkt.track \in Coded /\ Fresh(pkt) =>
                               pkt.track \in Covered
<1> SUFFICES ASSUME apc' \notin {"mark", "reset"}
             PROVE  Debt' /\ \A p \in Processors : Hand(p)'
  BY DEF Owed
<1>1. /\ work \in [Processors -> Seq(Packet)]
      /\ pos \in [Sources -> Nat] /\ playback \in Sources
  BY DEF TypeOK, WorkType, UpstreamType, Ownership, OwnershipType
<1>2. CASE apc \in {"mark", "reset"}
  <2>1. Reset /\ apc = "reset" /\ UNCHANGED <<playback, announced>>
    BY <1>2, AnnouncingSteps DEF Ownership
  <2>2. reinject' = Coded /\ cur' = cur /\ held' = held
    BY <2>1 DEF Reset, Initialized
  <2>3. Debt'
    BY <2>2
  <2>4. Hand("reader")'
    <3>1. work'["reader"] = work["reader"]
      BY <1>1, <2>1 DEF Reset, Processors
    <3>2. CASE work["reader"] = <<>>
      <4>1. cur["reader"].step = "idle" /\ ~cur["reader"].injected
        BY <3>2 DEF TypeOK, HandType, Processors
      <4> QED BY <2>2, <4>1
    <3>3. CASE work["reader"] # <<>>
      <4>1. 1 \in DOMAIN work["reader"] /\ Head(work["reader"]) = work["reader"][1]
        BY <3>3, BatchType DEF Processors
      <4>2. Head(work["reader"]).track \in held
        BY <2>1, <4>1 DEF Noted
      <4> QED BY <2>2, <3>1, <4>2 DEF Covered
    <3> QED BY <3>2, <3>3
  <2>5. Hand("app")'
    <3>1. work["app"] = <<>>
      BY <2>1 DEF TypeOK, HandType
    <3>2. cur["app"].step = "idle" /\ ~cur["app"].injected
      BY <3>1 DEF TypeOK, HandType, Processors
    <3> QED BY <2>2, <3>2
  <2> QED BY <2>3, <2>4, <2>5 DEF Processors
<1>3. CASE apc \notin {"mark", "reset"}
  <2>1. UNCHANGED <<playback, held, announced>>
    BY <1>3, SteadySteps
  <2>2. Debt /\ \A p \in Processors : Hand(p)
    BY <1>3 DEF Owed
  <2>3. ASSUME NEW p \in Processors, work'[p] = work[p], cur'[p] = cur[p],
               primed \subseteq primed'
        PROVE  Hand(p)'
    BY <2>1, <2>2, <2>3 DEF Covered, Fresh
  <2>4. ASSUME NEW p \in Processors, Process(p)
        PROVE  Debt' /\ \A q \in Processors : Hand(q)'
    <3>1. /\ primed \subseteq primed'
          /\ \/ reinject' = reinject
             \/ cur[p].injected /\ reinject' = reinject \ {Head(work[p]).track}
      BY <2>4, ProcessOwed
    <3>2. Debt'
      BY <2>1, <2>2, <3>1 DEF Covered
    <3>3. ASSUME NEW q \in Processors, q # p
          PROVE  Hand(q)'
      BY <1>1, <2>3, <2>4, <3>1, <3>3, ProcessEffect DEF TakesUp, GoesOn, IsDone
    <3>4. Hand(p)'
      <4>1. CASE TakesUp(p)
        BY <4>1 DEF TakesUp
      <4>2. CASE GoesOn(p)
        <5>1. work' = work
          BY <4>2 DEF GoesOn
        <5>2. CASE cur'[p].injected
          BY <4>2, <5>1, <5>2 DEF GoesOn, Covered
        <5>3. CASE ~cur'[p].injected
          <6>1. Head(work[p]).track \notin reinject
            BY <4>2, <5>3 DEF GoesOn
          <6>2. Fresh(Head(work[p])) => announced > 0
            BY DEF Fresh
          <6>3. Fresh(Head(work[p]))' <=> Fresh(Head(work[p]))
            BY <2>1, <5>1 DEF Fresh
          <6> QED BY <2>1, <2>2, <3>1, <5>1, <5>3, <6>1, <6>2, <6>3 DEF Covered
        <5> QED BY <5>2, <5>3
      <4>3. CASE IsDone(p)
        BY <4>3 DEF IsDone
      <4> QED BY <2>4, <4>1, <4>2, <4>3, ProcessEffect
    <3> QED BY <3>2, <3>3, <3>4
  <2>5. CASE \A p \in Processors : ~Process(p)
    <3>1. UNCHANGED <<cur, reinject, primed>>
      BY <1>3, <2>1, <2>5, SteadySteps
    <3>2. Debt'
      BY <2>1, <2>2, <3>1 DEF Covered
    <3>3. ASSUME NEW p \in Processors, work'[p] # work[p]
          PROVE  work[p] = <<>>
      <4>1. ~Reset
        BY <1>3 DEF Reset
      <4>2. ReaderReceive
        BY <2>5, <3>3, <4>1, OthersKeepWork
      <4> QED BY <1>1, <3>3, <4>2 DEF ReaderReceive, ReaderMay
    <3>4. ASSUME NEW p \in Processors
          PROVE  Hand(p)'
      <4>1. CASE work[p] = <<>>
        <5>1. cur[p].step = "idle" /\ ~cur[p].injected
          BY <4>1 DEF TypeOK, HandType
        <5> QED BY <3>1, <5>1
      <4>2. CASE work'[p] = work[p]
        BY <2>3, <3>1, <4>2
      <4> QED BY <3>3, <4>1, <4>2
    <3> QED BY <3>2, <3>4
  <2> QED BY <2>4, <2>5
<1> QED BY <1>2, <1>3

LEMMA MediaNext ==
  ASSUME Ownership, TypeOK, Between, Owed, InitializationPrecedesMedia, Next, Between'
  PROVE  InitializationPrecedesMedia'
<1> SUFFICES ASSUME NEW i \in DOMAIN queue', queue'[i].kind = "rtp",
                    queue'[i].track \in Coded, Fresh(queue[i])'
             PROVE  queue'[i].track \in primed' \cup held'
  BY DEF InitializationPrecedesMedia
<1>1. apc' \notin {"mark", "reset"}
  BY DEF Between
<1>2. apc \notin {"mark", "reset"}
  <2>1. ASSUME apc \in {"mark", "reset"}
        PROVE  DOMAIN queue' = {}
    <3>1. Reset
      BY <1>1, <2>1, AnnouncingSteps DEF Ownership
    <3> QED BY <3>1 DEF Reset, ClearQueue
  <2> QED BY <2>1
<1>3. UNCHANGED <<playback, held, announced>> /\ primed \subseteq primed'
  BY <1>1, <1>2, SteadySteps, ProcessOwed
<1>4. ASSUME NEW j \in DOMAIN queue, queue'[i] = queue[j]
      PROVE  queue'[i].track \in primed' \cup held'
  BY <1>3, <1>4 DEF InitializationPrecedesMedia, Fresh
<1>5. ASSUME NEW p \in Processors, cur[p].step = "emit",
             queue'[i].src = Head(work[p]).src, queue'[i].pos = Head(work[p]).pos,
             queue'[i].track = Head(work[p]).track
      PROVE  queue'[i].track \in primed' \cup held'
  BY <1>2, <1>3, <1>5 DEF Owed, Covered, Fresh
<1> QED BY <1>4, <1>5, QueueNext DEF MediaFrom

LEMMA PrimedStutter == Primed /\ UNCHANGED vars => Primed'
BY DEF Primed, Origin, Between, Owed, Noted, InitializationPrecedesMedia, Past, Turned, Fresh,
       Covered, vars, upstream, bridge, threads, ghosts

LEMMA PrimedNext == Ownership /\ TypeOK /\ Primed /\ [Next]_vars => Primed'
<1>1. ASSUME Ownership, TypeOK, Primed, Next
      PROVE  Primed'
  <2>1. Origin'
    BY <1>1, OriginNext DEF Primed
  <2>2. Between' /\ Noted' /\ Owed'
    BY <1>1, BetweenNext, NotedNext, OwedNext DEF Primed
  <2>3. InitializationPrecedesMedia'
    BY <1>1, <2>2, MediaNext DEF Primed
  <2> QED BY <2>1, <2>2, <2>3 DEF Primed
<1> QED BY <1>1, PrimedStutter

(* Where the packets in flight come from, and what is owed to them, holds  *)
(* throughout.                                                             *)
LEMMA PrimedInvariant == Spec => []Primed
BY PrimedInit, PrimedNext, OwnershipInvariant, TypeCorrect, PTL DEF Spec

(* InitializationPrecedesMedia: for any number of tracks, parameter sets    *)
(* and playbacks, and however the reader, the sender and the application   *)
(* interleave, a decoder that starts again after a seek or a handoff is    *)
(* given the parameter sets before media of the position the bridge         *)
(* announced, but for the tracks the reader was still processing when the  *)
(* mappers were marked.  What a seek that raised leaves is not announced.  *)
THEOREM ParameterSetsFirst == Spec => []InitializationPrecedesMedia
<1>1. Primed => InitializationPrecedesMedia
  BY DEF Primed
<1> QED BY <1>1, PrimedInvariant, PTL
-----------------------------------------------------------------------------
(* One source for the client: where its packets come from, their numbers   *)
(* and their clock.  The reader and the application take turns, unless a   *)
(* handoff overlapped with a batch.                                        *)

Media(i) == queue[i].kind \in {"rtp", "init"}

(* Whose packets are under way: the outgoing playback's, until the queue   *)
(* has been cleared of them.                                               *)
Source == IF apc \in {"mark", "reset"} /\ outgoing # None THEN outgoing ELSE playback

(* The playback the staged packets are of.                                 *)
Staging == apc = "collect" \/ (apc \in {"mark", "reset"} /\ outgoing # None)
Arriving == IF apc = "collect" THEN prepared ELSE playback

InOrder(s) == \A i, j \in DOMAIN s : i < j => s[i].pos <= s[j].pos

Serial ==
  /\ apc = "process" /\ ~overlapped => work["reader"] = <<>>
  /\ QueueClosed => queue = <<>>

(* What has position n comes before all that a playback has yet to hand out. *)
Behind(n, s) == n <= pos[s] /\ \A j \in DOMAIN upq[s] : n <= upq[s][j].pos

Flowing(q, s) == InOrder(q) /\ \A i \in DOMAIN q : q[i].src = s /\ Behind(q[i].pos, s)

(* Positions only advance along the way from the recorder to the client. *)
QueueInOrder ==
  \A i \in DOMAIN queue : Media(i) =>
    /\ queue[i].src = Source /\ Behind(queue[i].pos, Source)
    /\ \A j \in DOMAIN queue : i < j /\ Media(j) => queue[i].pos <= queue[j].pos
    /\ \A p \in Processors : \A j \in DOMAIN work[p] : queue[i].pos <= work[p][j].pos

FlowInv ==
  /\ \A s \in Sources : InOrder(upq[s])
  /\ \A p \in Processors : Flowing(work[p], Source)
  /\ Staging => Flowing(staged, Arriving)
  /\ QueueInOrder

(* The packet in a thread's hand has a number that is not yet queued.      *)
Hand(p, t) == cur[p].step # "idle" /\ Head(work[p]).track = t

Following(t) == (expect[t] + Count(queue, t)) % SeqMod

Sequential(s, n, t) ==
  \A i \in Numbered(s, t) : s[i].seq = (n + Rank(i, Numbered(s, t))) % SeqMod

Numbers(t) ==
  /\ Sequential(queue, expect[t], t)
  /\ ~QueueClosed =>
       /\ \A p \in Processors : Hand(p, t) =>
            cur[p].seq = Following(t) /\ mapper[t].next = (cur[p].seq + 1) % SeqMod
       /\ (\A p \in Processors : ~Hand(p, t)) => mapper[t].next = Following(t)

(* The clock goes on by no more than two seconds from packet to packet,    *)
(* also to the one in hand.                                                *)
Near(new, old) == (new - old) % TsMod <= 2 * ClockRate

Chained(s, t) ==
  \A i, j \in Numbered(s, t) : Adjacent(i, j, Numbered(s, t)) => Near(s[j].ts, s[i].ts)

LastOf(i, s, t) == i \in Numbered(s, t) /\ \A j \in Numbered(s, t) : j <= i

Clock(t) ==
  /\ Chained(queue, t)
  /\ \A p \in Processors : Hand(p, t) => mapper[t].down = cur[p].ts
  /\ \A i \in DOMAIN queue : LastOf(i, queue, t) =>
       /\ \A p \in Processors : Hand(p, t) => Near(cur[p].ts, queue[i].ts)
       /\ (\A p \in Processors : ~Hand(p, t)) => mapper[t].down = queue[i].ts

Continuity ==
  /\ Serial
  /\ ~overlapped => /\ FlowInv
                    /\ expect \in [Tracks -> Seqs]
                    /\ \A t \in Tracks : Numbers(t) /\ Clock(t)
-----------------------------------------------------------------------------
(* Arithmetic of numbers that wrap.                                        *)

(* The only multiple of m strictly between -m and m is zero.               *)
LEMMA NoMultiple ==
  ASSUME NEW m \in Nat \ {0}, NEW k \in Int, -m < m * k, m * k < m
  PROVE  k = 0
<1>1. ASSUME k >= 1 PROVE FALSE
  <2>1. m * k >= m
    BY <1>1, SMT
  <2> QED BY <2>1
<1>2. ASSUME k <= -1 PROVE FALSE
  <2>1. m * k <= -m
    BY <1>2, SMT
  <2> QED BY <2>1
<1> QED BY <1>1, <1>2

(* A number with its quotient and its remainder.                           *)
LEMMA ModUnique ==
  ASSUME NEW m \in Nat \ {0}, NEW q \in Int, NEW r \in 0..m - 1
  PROVE  (m * q + r) % m = r
<1> DEFINE x == m * q + r
           d == x \div m
           e == x % m
<1>1. x \in Int /\ d \in Int /\ e \in 0..m - 1 /\ x = m * d + e
  BY SMT
<1>2. m * (q - d) = e - r
  BY <1>1, SMT
<1>3. q - d = 0
  <2> HIDE DEF x, d, e
  <2>1. q - d \in Int /\ -m < m * (q - d) /\ m * (q - d) < m
    BY <1>1, <1>2
  <2> QED BY <2>1, NoMultiple
<1> QED BY <1>1, <1>2, <1>3

(* A number within the modulus is its own remainder.                       *)
LEMMA ModSmall ==
  ASSUME NEW m \in Nat \ {0}, NEW r \in 0..m - 1
  PROVE  r % m = r
<1>1. m * 0 + r = r
  OBVIOUS
<1> QED BY <1>1, ModUnique

(* A sum may be reduced at once or by and by.                              *)
LEMMA ModAdd ==
  ASSUME NEW m \in Nat \ {0}, NEW a \in Int, NEW b \in Int
  PROVE  ((a % m) + b) % m = (a + b) % m
<1> DEFINE p == a \div m
           c == a % m
           q == (c + b) \div m
           r == (c + b) % m
<1>1. p \in Int /\ c \in 0..m - 1 /\ a = m * p + c
  BY SMT
<1>2. q \in Int /\ r \in 0..m - 1 /\ c + b = m * q + r
  BY <1>1, SMT
<1>3. a + b = m * (p + q) + r
  BY <1>1, <1>2, SMT
<1>4. (m * (p + q) + r) % m = r
  <2> HIDE DEF p, q, r, c
  <2> QED BY <1>1, <1>2, ModUnique
<1> QED BY <1>3, <1>4

(* The distance of a number from one that it was made of.                  *)
LEMMA ModDistance ==
  ASSUME NEW m \in Nat \ {0}, NEW a \in Int, NEW b \in Nat
  PROVE  (((a + b) % m) - a) % m <= b
<1> DEFINE c == (a + b) % m
           r == b % m
<1>0. a + b \in Int /\ -a \in Int
  OBVIOUS
<1>1. (((a + b) % m) + (-a)) % m = ((a + b) + (-a)) % m
  BY <1>0, ModAdd, Zenon
<1>2. (a + b) + (-a) = b /\ c \in Int /\ c + (-a) = c - a
  OBVIOUS
<1>3. r <= b
  <2>1. r \in 0..m - 1 /\ b \div m \in Int /\ b = m * (b \div m) + r
    BY SMT
  <2>2. CASE b < m
    BY <2>2, ModSmall
  <2>3. CASE b >= m
    BY <2>1, <2>3
  <2> QED BY <2>2, <2>3
<1> QED BY <1>1, <1>2, <1>3

-----------------------------------------------------------------------------
(* Where the numbered items of a sequence are, and how many.               *)

(* A set of places moved on by n has as many elements. *)
LEMMA ShiftCount ==
  ASSUME NEW q \in SUBSET Nat, IsFiniteSet(q), NEW n \in Nat
  PROVE  /\ IsFiniteSet({n + i : i \in q})
         /\ Cardinality({n + i : i \in q}) = Cardinality(q)
<1> DEFINE moved == {n + i : i \in q}
           f == [i \in q |-> n + i]
<1>1. f \in [q -> moved]
  OBVIOUS
<1>2. \A i, j \in q : f[i] = f[j] => i = j
  OBVIOUS
<1>3. \A k \in moved : \E i \in q : f[i] = k
  OBVIOUS
<1>4. f \in Bijection(q, moved)
  <2> HIDE DEF f, moved
  <2> QED BY <1>1, <1>2, <1>3, Fun_IsBij
<1>5. ExistsBijection(q, moved)
  BY <1>4, Zenon DEF ExistsBijection
<1> QED BY <1>5, FS_Bijection

(* The places are finitely many places of the sequence. *)
LEMMA NumberedFinite ==
  ASSUME NEW s \in Seq(QueuedItem), NEW t \in Tracks
  PROVE  /\ Numbered(s, t) \in SUBSET (1..Len(s)) /\ IsFiniteSet(Numbered(s, t))
         /\ Count(s, t) \in Nat
         /\ \A i \in Int : Rank(i, Numbered(s, t)) \in Nat
<1>1. Numbered(s, t) \in SUBSET (1..Len(s))
  BY DEF Numbered
<1>2. IsFiniteSet(1..Len(s))
  BY FS_Interval
<1>3. IsFiniteSet(Numbered(s, t))
  BY <1>1, <1>2, FS_Subset
<1>4. ASSUME NEW i \in Int
      PROVE  Rank(i, Numbered(s, t)) \in Nat
  <2> DEFINE before == {j \in Numbered(s, t) : j < i}
  <2>1. before \in SUBSET Numbered(s, t)
    OBVIOUS
  <2>2. IsFiniteSet(before)
    BY <1>3, <2>1, FS_Subset
  <2> QED BY <2>2, FS_CardinalityType DEF Rank
<1> QED BY <1>1, <1>3, <1>4, FS_CardinalityType DEF Count

(* The places of one sequence after another. *)
LEMMA NumberedConcat ==
  ASSUME NEW s \in Seq(QueuedItem), NEW u \in Seq(QueuedItem), NEW t \in Tracks
  PROVE  /\ Numbered(s \o u, t) = Numbered(s, t) \cup {Len(s) + i : i \in Numbered(u, t)}
         /\ Numbered(s, t) \cap {Len(s) + i : i \in Numbered(u, t)} = {}
         /\ \A i \in Numbered(s, t) : i \in 1..Len(s) /\ (s \o u)[i] = s[i]
         /\ \A i \in Numbered(u, t) : i \in 1..Len(u) /\ (s \o u)[Len(s) + i] = u[i]
<1> DEFINE all == s \o u
           moved == {Len(s) + i : i \in Numbered(u, t)}
<1>1. /\ all \in Seq(QueuedItem) /\ Len(all) = Len(s) + Len(u)
      /\ \A i \in 1..Len(s) : all[i] = s[i]
      /\ \A i \in 1..Len(u) : all[Len(s) + i] = u[i]
  OBVIOUS
<1> HIDE DEF all
<1>2. \A i \in Numbered(s, t) : i \in 1..Len(s)
  BY DEF Numbered
<1>3. \A i \in Numbered(u, t) : i \in 1..Len(u)
  BY DEF Numbered
<1>4. Numbered(all, t) = Numbered(s, t) \cup moved
  <2>1. ASSUME NEW k \in Numbered(all, t) PROVE k \in Numbered(s, t) \cup moved
    <3>1. k \in 1..Len(s) + Len(u)
      BY <1>1, <2>1 DEF Numbered
    <3>2. CASE k <= Len(s)
      <4>1. k \in 1..Len(s)
        BY <3>1, <3>2
      <4> QED BY <1>1, <2>1, <4>1 DEF Numbered
    <3>3. CASE k > Len(s)
      <4>1. k - Len(s) \in 1..Len(u) /\ Len(s) + (k - Len(s)) = k
        BY <3>1, <3>3
      <4>2. k - Len(s) \in Numbered(u, t)
        BY <1>1, <2>1, <4>1 DEF Numbered
      <4> QED BY <4>1, <4>2
    <3> QED BY <3>1, <3>2, <3>3
  <2>2. ASSUME NEW k \in Numbered(s, t) PROVE k \in Numbered(all, t)
    BY <1>1, <1>2 DEF Numbered
  <2>3. ASSUME NEW i \in Numbered(u, t) PROVE Len(s) + i \in Numbered(all, t)
    BY <1>1, <1>3 DEF Numbered
  <2> QED BY <2>1, <2>2, <2>3
<1>5. Numbered(s, t) \cap moved = {}
  BY <1>2, <1>3
<1> QED BY <1>1, <1>2, <1>3, <1>4, <1>5 DEF all

(* How many they are, and where each stands among them. *)
LEMMA CountConcat ==
  ASSUME NEW s \in Seq(QueuedItem), NEW u \in Seq(QueuedItem), NEW t \in Tracks
  PROVE  /\ Count(s \o u, t) = Count(s, t) + Count(u, t)
         /\ \A i \in Numbered(s, t) : Rank(i, Numbered(s \o u, t)) = Rank(i, Numbered(s, t))
         /\ \A i \in Numbered(u, t) :
              Rank(Len(s) + i, Numbered(s \o u, t)) = Count(s, t) + Rank(i, Numbered(u, t))
<1> DEFINE a == Numbered(s, t)
           b == Numbered(u, t)
           c == Numbered(s \o u, t)
           n == Len(s)
           moved == {n + i : i \in b}
<1>1. n \in Nat /\ a \in SUBSET (1..n) /\ IsFiniteSet(a)
  <2>1. n \in Nat
    OBVIOUS
  <2>2. a \in SUBSET (1..n) /\ IsFiniteSet(a)
    BY NumberedFinite, Zenon
  <2> QED BY <2>1, <2>2
<1>2. b \in SUBSET Nat /\ IsFiniteSet(b) /\ \A i \in b : i >= 1
  <2>1. b \in SUBSET (1..Len(u)) /\ IsFiniteSet(b)
    BY NumberedFinite, Zenon
  <2> QED BY <2>1
<1>3. c = a \cup moved /\ a \cap moved = {}
  BY NumberedConcat, Zenon
<1>4. Count(s, t) = Cardinality(a) /\ Count(u, t) = Cardinality(b) /\ Count(s \o u, t) = Cardinality(c)
  BY DEF Count
<1> HIDE DEF a, b, c, n
<1>5. ASSUME NEW x \in SUBSET a, NEW y \in SUBSET b
      PROVE  Cardinality(x \cup {n + i : i \in y}) = Cardinality(x) + Cardinality(y)
  <2> DEFINE z == {n + i : i \in y}
  <2>1. IsFiniteSet(x) /\ IsFiniteSet(y)
    BY <1>1, <1>2, FS_Subset
  <2>2. IsFiniteSet(z) /\ Cardinality(z) = Cardinality(y)
    BY <1>1, <1>2, <2>1, ShiftCount
  <2>3. x \cap z = {}
    BY <1>3
  <2>4. Cardinality(x) \in Nat /\ Cardinality(y) \in Nat
    BY <2>1, FS_CardinalityType
  <2> HIDE DEF z
  <2>5. Cardinality(x \cup z) = Cardinality(x) + Cardinality(z) - Cardinality(x \cap z)
    BY <2>1, <2>2, FS_Union
  <2>6. Cardinality(x \cap z) = 0
    BY <2>3, FS_EmptySet
  <2> QED BY <2>2, <2>4, <2>5, <2>6 DEF z
<1>6. Cardinality(c) = Cardinality(a) + Cardinality(b)
  BY <1>3, <1>5
<1>7. ASSUME NEW i \in a PROVE Rank(i, c) = Rank(i, a)
  <2>1. {j \in c : j < i} = {j \in a : j < i}
    BY <1>1, <1>2, <1>3
  <2> QED BY <2>1 DEF Rank
<1>8. ASSUME NEW i \in b PROVE Rank(n + i, c) = Cardinality(a) + Rank(i, b)
  <2> DEFINE y == {j \in b : j < i}
             z == {n + j : j \in y}
  <2>1. {j \in c : j < n + i} = a \cup z
    <3>1. \A j \in a : j < n + i
      BY <1>1, <1>2
    <3>2. \A j \in b : n + j < n + i <=> j < i
      BY <1>1, <1>2
    <3>3. ASSUME NEW k \in c, k < n + i PROVE k \in a \cup z
      <4>1. CASE k \in a
        BY <4>1
      <4>2. ASSUME NEW j \in b, k = n + j PROVE k \in z
        BY <3>2, <3>3, <4>2
      <4> QED BY <1>3, <3>3, <4>1, <4>2
    <3>4. ASSUME NEW j \in y PROVE n + j \in c /\ n + j < n + i
      BY <1>3, <3>2, <3>4
    <3> QED BY <1>3, <3>1, <3>3, <3>4
  <2>2. y \in SUBSET b
    OBVIOUS
  <2>3. Cardinality(a \cup z) = Cardinality(a) + Cardinality(y)
    BY <1>5, <2>2
  <2> QED BY <2>1, <2>3 DEF Rank
<1> QED BY <1>4, <1>6, <1>7, <1>8 DEF a, b, c, n

-----------------------------------------------------------------------------
(* Numbers and clock of a sequence put together of two.                    *)

(* A sequence is what it begins with and what is left. *)
LEMMA Parted ==
  ASSUME NEW S, NEW s \in Seq(S), NEW k \in 0..Len(s)
  PROVE  /\ SubSeq(s, 1, k) \in Seq(S) /\ SubSeq(s, k + 1, Len(s)) \in Seq(S)
         /\ SubSeq(s, 1, k) \o SubSeq(s, k + 1, Len(s)) = s
<1> DEFINE a == SubSeq(s, 1, k)
           b == SubSeq(s, k + 1, Len(s))
<1>1. /\ a \in Seq(S) /\ Len(a) = k
      /\ \A i \in 1..k : a[i] = s[i]
  <2>1. \A i \in 1..k : s[i] \in S
    OBVIOUS
  <2>2. /\ a \in Seq(S) /\ Len(a) = IF 1 <= k THEN k - 1 + 1 ELSE 0
        /\ \A i \in 1..k - 1 + 1 : a[i] = s[1 + i - 1]
    BY <2>1, SubSeqProperties
  <2> QED BY <2>2
<1>2. /\ b \in Seq(S) /\ Len(b) = Len(s) - k
      /\ \A i \in 1..Len(b) : b[i] = s[i + k]
  BY SuffixType
<1> HIDE DEF a, b
<1>3. /\ a \o b \in Seq(S) /\ Len(a \o b) = Len(s)
      /\ \A i \in 1..Len(s) : (a \o b)[i] = IF i <= k THEN a[i] ELSE b[i - k]
  BY <1>1, <1>2
<1>4. \A i \in 1..Len(s) : (a \o b)[i] = s[i]
  BY <1>1, <1>2, <1>3
<1>5. a \o b = s
  BY <1>3, <1>4, SeqEqual
<1> QED BY <1>1, <1>2, <1>5 DEF a, b

(* Numbers that go on in the second where the first stops. *)
LEMMA SequentialConcat ==
  ASSUME NEW s \in Seq(QueuedItem), NEW u \in Seq(QueuedItem), NEW t \in Tracks, NEW n \in Int
  PROVE  Sequential(s \o u, n, t)
           <=> Sequential(s, n, t) /\ Sequential(u, (n + Count(s, t)) % SeqMod, t)
<1> DEFINE all == s \o u
           a == Numbered(s, t)
           b == Numbered(u, t)
           c == Numbered(s \o u, t)
<1>1. /\ c = a \cup {Len(s) + i : i \in b}
      /\ \A i \in a : all[i] = s[i]
      /\ \A i \in b : all[Len(s) + i] = u[i]
  BY NumberedConcat
<1>2. /\ \A i \in a : Rank(i, c) = Rank(i, a)
      /\ \A i \in b : Rank(Len(s) + i, c) = Count(s, t) + Rank(i, b)
  BY CountConcat, Zenon
<1>3. /\ Count(s, t) \in Nat
      /\ \A i \in b : Rank(i, b) \in Nat
  <2>1. b \in SUBSET (1..Len(u))
    BY NumberedFinite, Zenon
  <2>2. \A i \in b : i \in Int
    BY <2>1
  <2> QED BY <2>2, NumberedFinite, Zenon
<1>4. ASSUME NEW i \in b
      PROVE  (n + Rank(Len(s) + i, c)) % SeqMod = (((n + Count(s, t)) % SeqMod) + Rank(i, b)) % SeqMod
  <2>1. n + Rank(Len(s) + i, c) = (n + Count(s, t)) + Rank(i, b)
    BY <1>2, <1>3
  <2>2. n + Count(s, t) \in Int /\ Rank(i, b) \in Int
    BY <1>3
  <2>3. (((n + Count(s, t)) % SeqMod) + Rank(i, b)) % SeqMod = ((n + Count(s, t)) + Rank(i, b)) % SeqMod
    BY <2>2, ModAdd, NumbersAssumption, Zenon
  <2> QED BY <2>1, <2>3, Zenon
<1> HIDE DEF all, a, b, c
<1>5. (\A i \in c : all[i].seq = (n + Rank(i, c)) % SeqMod)
        <=> /\ \A i \in a : all[i].seq = (n + Rank(i, c)) % SeqMod
            /\ \A i \in b : all[Len(s) + i].seq = (n + Rank(Len(s) + i, c)) % SeqMod
  <2> DEFINE m == {Len(s) + i : i \in b}
             P(i) == all[i].seq = (n + Rank(i, c)) % SeqMod
  <2>1. c = a \cup m /\ (\A k \in m : \E i \in b : k = Len(s) + i) /\ \A i \in b : Len(s) + i \in m
    BY <1>1
  <2> HIDE DEF m, P
  <2>2. (\A i \in c : P(i)) <=> (\A i \in a : P(i)) /\ (\A i \in b : P(Len(s) + i))
    BY <2>1, Zenon
  <2> QED BY <2>2 DEF P
<1>6. (\A i \in a : all[i].seq = (n + Rank(i, c)) % SeqMod)
        <=> (\A i \in a : s[i].seq = (n + Rank(i, a)) % SeqMod)
  BY <1>1, <1>2
<1>7. (\A i \in b : all[Len(s) + i].seq = (n + Rank(Len(s) + i, c)) % SeqMod)
        <=> (\A i \in b : u[i].seq = (((n + Count(s, t)) % SeqMod) + Rank(i, b)) % SeqMod)
  <2>1. ASSUME NEW i \in b
        PROVE  all[Len(s) + i].seq = (n + Rank(Len(s) + i, c)) % SeqMod
                 <=> u[i].seq = (((n + Count(s, t)) % SeqMod) + Rank(i, b)) % SeqMod
    BY <1>1, <1>4
  <2> QED BY <2>1, Zenon
<1> QED BY <1>5, <1>6, <1>7, Zenon DEF Sequential, all, a, b, c

(* The clock of what is left goes on as that of the whole. *)
LEMMA ChainedRest ==
  ASSUME NEW s \in Seq(QueuedItem), NEW u \in Seq(QueuedItem), NEW t \in Tracks
  PROVE  /\ Chained(s \o u, t) => Chained(u, t)
         /\ \A i : LastOf(i, u, t) =>
              LastOf(Len(s) + i, s \o u, t) /\ (s \o u)[Len(s) + i] = u[i]
<1> DEFINE all == s \o u
           a == Numbered(s, t)
           b == Numbered(u, t)
           c == Numbered(s \o u, t)
<1>1. /\ c = a \cup {Len(s) + i : i \in b}
      /\ \A i \in a : i \in 1..Len(s)
      /\ \A i \in b : i \in 1..Len(u) /\ all[Len(s) + i] = u[i]
  BY NumberedConcat
<1>2. Len(s) \in Nat /\ Len(u) \in Nat
  OBVIOUS
<1> HIDE DEF all, a, b, c
<1>3. ASSUME Chained(all, t), NEW i \in b, NEW j \in b, Adjacent(i, j, b)
      PROVE  Near(u[j].ts, u[i].ts)
  <2>1. Adjacent(Len(s) + i, Len(s) + j, c)
    <3>1. ASSUME NEW k \in c, Len(s) + i < k, k < Len(s) + j PROVE FALSE
      <4>1. CASE k \in a
        BY <1>1, <1>2, <3>1, <4>1
      <4>2. ASSUME NEW h \in b, k = Len(s) + h PROVE FALSE
        BY <1>1, <1>2, <1>3, <3>1, <4>2 DEF Adjacent
      <4> QED BY <1>1, <3>1, <4>1, <4>2
    <3>2. Len(s) + i < Len(s) + j
      BY <1>1, <1>2, <1>3 DEF Adjacent
    <3> QED BY <3>1, <3>2 DEF Adjacent
  <2>2. Len(s) + i \in c /\ Len(s) + j \in c
    BY <1>1
  <2>3. Near(all[Len(s) + j].ts, all[Len(s) + i].ts)
    BY <1>3, <2>1, <2>2, Zenon DEF Chained, c, all
  <2> QED BY <1>1, <2>3
<1>4. ASSUME NEW i, LastOf(i, u, t)
      PROVE  LastOf(Len(s) + i, all, t) /\ all[Len(s) + i] = u[i]
  <2>1. i \in b /\ \A j \in b : j <= i
    BY <1>4, Zenon DEF LastOf, b
  <2>2. ASSUME NEW k \in c PROVE k <= Len(s) + i
    <3>1. CASE k \in a
      BY <1>1, <1>2, <2>1, <3>1
    <3>2. ASSUME NEW h \in b, k = Len(s) + h PROVE k <= Len(s) + i
      BY <1>1, <1>2, <2>1, <3>2
    <3> QED BY <1>1, <2>2, <3>1, <3>2
  <2>3. Len(s) + i \in c
    BY <1>1, <2>1
  <2> QED BY <1>1, <2>1, <2>2, <2>3, Zenon DEF LastOf, c, all
<1> QED BY <1>3, <1>4, Zenon DEF Chained, b, all

(* The clock of the whole, where the second follows on the first. *)
LEMMA ChainedConcat ==
  ASSUME NEW s \in Seq(QueuedItem), NEW u \in Seq(QueuedItem), NEW t \in Tracks,
         Chained(s, t), Chained(u, t),
         \A i, j : LastOf(i, s, t) /\ j \in Numbered(u, t) => Near(u[j].ts, s[i].ts)
  PROVE  /\ Chained(s \o u, t)
         /\ \A k : LastOf(k, s \o u, t) =>
              \/ Numbered(u, t) = {} /\ LastOf(k, s, t) /\ (s \o u)[k] = s[k]
              \/ \E j \in Numbered(u, t) : (s \o u)[k] = u[j]
<1> DEFINE all == s \o u
           a == Numbered(s, t)
           b == Numbered(u, t)
           c == Numbered(s \o u, t)
           n == Len(s)
<1>1. /\ c = a \cup {n + i : i \in b}
      /\ \A i \in a : i \in 1..n /\ all[i] = s[i]
      /\ \A i \in b : i \in 1..Len(u) /\ all[n + i] = u[i]
  BY NumberedConcat
<1>2. n \in Nat /\ Len(u) \in Nat
  OBVIOUS
<1> HIDE DEF all, a, b, c, n
<1>3. \A k \in c : k \in a \/ \E h \in b : k = n + h
  BY <1>1
<1>4. \A i \in a, h \in b : i < n + h
  BY <1>1, <1>2
<1>5. \A g, h \in b : n + g < n + h <=> g < h
  BY <1>1, <1>2
<1>6. (\A i \in a : i \in c) /\ (\A h \in b : n + h \in c)
  BY <1>1
<1>7. ASSUME NEW i \in c, NEW j \in c, Adjacent(i, j, c)
      PROVE  Near(all[j].ts, all[i].ts)
  <2>1. CASE i \in a /\ j \in a
    <3>1. Adjacent(i, j, a)
      BY <1>6, <1>7, Zenon DEF Adjacent
    <3>2. Near(s[j].ts, s[i].ts)
      BY <2>1, <3>1, Zenon DEF Chained, a
    <3> QED BY <1>1, <2>1, <3>2
  <2>2. ASSUME i \in a, NEW h \in b, j = n + h
        PROVE  Near(all[j].ts, all[i].ts)
    <3>1. ASSUME NEW k \in a PROVE k <= i
      <4>1. k \in c /\ k < n + h
        BY <1>4, <1>6
      <4>2. ~(i < k)
        BY <1>7, <2>2, <4>1, Zenon DEF Adjacent
      <4> QED BY <1>1, <1>2, <2>2, <4>2
    <3>2. LastOf(i, s, t)
      BY <2>2, <3>1, Zenon DEF LastOf, a
    <3>3. Near(u[h].ts, s[i].ts)
      BY <3>2, Zenon DEF b
    <3> QED BY <1>1, <2>2, <3>3
  <2>3. ASSUME NEW g \in b, i = n + g, j \in a
        PROVE  FALSE
    <3>1. j < i /\ i < j
      BY <1>4, <1>7, <2>3 DEF Adjacent
    <3>2. i \in Int /\ j \in Int
      BY <1>1, <1>2, <2>3
    <3> QED BY <3>1, <3>2
  <2>4. ASSUME NEW g \in b, NEW h \in b, i = n + g, j = n + h
        PROVE  Near(all[j].ts, all[i].ts)
    <3>1. g < h /\ \A k \in b : ~(g < k /\ k < h)
      BY <1>5, <1>6, <1>7, <2>4 DEF Adjacent
    <3>2. Near(u[h].ts, u[g].ts)
      BY <3>1, Zenon DEF Chained, Adjacent, b
    <3> QED BY <1>1, <2>4, <3>2
  <2> QED BY <1>3, <2>1, <2>2, <2>3, <2>4
<1>8. ASSUME NEW k, LastOf(k, all, t)
      PROVE  \/ b = {} /\ LastOf(k, s, t) /\ all[k] = s[k]
             \/ \E j \in b : all[k] = u[j]
  <2>1. k \in c /\ \A j \in c : j <= k
    BY <1>8, Zenon DEF LastOf, c, all
  <2>2. ASSUME NEW h \in b, k = n + h
        PROVE  \E j \in b : all[k] = u[j]
    BY <1>1, <2>2
  <2>3. CASE k \in a
    <3>1. ASSUME NEW h \in b PROVE FALSE
      <4>1. n + h <= k /\ k < n + h
        BY <1>4, <1>6, <2>1, <2>3
      <4>2. k \in Int /\ n + h \in Int
        BY <1>1, <1>2, <2>3
      <4> QED BY <4>1, <4>2
    <3>2. LastOf(k, s, t)
      BY <1>6, <2>1, <2>3, Zenon DEF LastOf, a
    <3> QED BY <1>1, <2>3, <3>1, <3>2
  <2> QED BY <1>3, <2>1, <2>2, <2>3
<1> QED BY <1>7, <1>8, Zenon DEF Chained, b, c, all

-----------------------------------------------------------------------------
(* What any step does to the queue: it appends, and takes the oldest away. *)
Moved(items) ==
  LET all == queue \o items
  IN  \E k \in 0..Len(all) :
        queue' = SubSeq(all, k + 1, Len(all)) /\ expect' = Gone(SubSeq(all, 1, k))

(* Counted are the sequences the queue is made of. *)
Counted == queue \in Seq(QueuedItem) /\ expect \in [Tracks -> Seqs]

(* Nothing is numbered in an empty sequence.                               *)
LEMMA EmptyCount ==
  ASSUME NEW t \in Tracks
  PROVE  Numbered(<<>>, t) = {} /\ Count(<<>>, t) = 0
BY FS_EmptySet DEF Numbered, Count

(* Putting items appends them, and takes from the front what is over.      *)
LEMMA PutMoves ==
  ASSUME Counted, NEW items \in Seq(QueuedItem), Put(items), ~QueueClosed
  PROVE  Moved(items)
<1> DEFINE all == queue \o items
           over == IF Len(all) > Capacity THEN Len(all) - Capacity ELSE 0
<1>1. all \in Seq(QueuedItem) /\ over \in 0..Len(all)
  BY LimitsAssumption DEF Counted
<1>2. queue' = SubSeq(all, over + 1, Len(all)) /\ expect' = Gone(SubSeq(all, 1, over))
  BY Zenon DEF Put
<1> QED BY <1>1, <1>2, Zenon DEF Moved

(* Sending and clearing take from the front, and append nothing.           *)
LEMMA TakingMoves ==
  ASSUME Counted, Send \/ ClearQueue \/ UNCHANGED <<queue, expect>>
  PROVE  Moved(<<>>)
<1> DEFINE n == Len(queue)
<1>1. queue \in Seq(QueuedItem) /\ n \in Nat /\ queue \o <<>> = queue
  BY DEF Counted
<1>2. ASSUME NEW k \in 0..n, queue' = SubSeq(queue, k + 1, n), expect' = Gone(SubSeq(queue, 1, k))
      PROVE  Moved(<<>>)
  BY <1>1, <1>2, Zenon DEF Moved
<1>3. CASE Send
  <2>1. queue # <<>> /\ queue' = Tail(queue) /\ expect' = Gone(<<Head(queue)>>)
    BY <1>3 DEF Send
  <2>2. 1 \in 0..n
    BY <1>1, <2>1
  <2>3. Tail(queue) = SubSeq(queue, 1 + 1, n)
    BY <1>1, <2>1
  <2>4. <<Head(queue)>> = SubSeq(queue, 1, 1)
    BY <1>1, <2>1
  <2> QED BY <1>2, <2>1, <2>2, <2>3, <2>4, Zenon
<1>4. CASE ClearQueue
  <2>1. SubSeq(queue, n + 1, n) = <<>> /\ SubSeq(queue, 1, n) = queue /\ n \in 0..n
    BY <1>1
  <2> QED BY <1>2, <1>4, <2>1, Zenon DEF ClearQueue
<1>5. CASE UNCHANGED <<queue, expect>>
  <2>1. SubSeq(queue, 0 + 1, n) = queue /\ SubSeq(queue, 1, 0) = <<>> /\ 0 \in 0..n
    BY <1>1
  <2>2. ASSUME NEW t \in Tracks
        PROVE  (expect[t] + Count(<<>>, t)) % SeqMod = expect[t]
    <3>1. expect[t] \in Seqs /\ Count(<<>>, t) = 0
      BY EmptyCount DEF Counted
    <3>2. expect[t] % SeqMod = expect[t] /\ expect[t] + 0 = expect[t]
      BY <3>1, ModSmall, NumbersAssumption DEF Seqs
    <3> QED BY <3>1, <3>2
  <2>3. Gone(<<>>) = [t \in Tracks |-> expect[t]]
    BY <2>2, Zenon DEF Gone
  <2>4. expect = [t \in Tracks |-> expect[t]]
    BY DEF Counted
  <2> QED BY <1>2, <1>5, <2>1, <2>3, <2>4, Zenon
<1> QED BY <1>3, <1>4, <1>5

(* What was in the queue, or was put, is where it was, but for what is gone. *)
LEMMA MovedPlaces ==
  ASSUME Counted, NEW items \in Seq(QueuedItem), Moved(items)
  PROVE  /\ queue' \in Seq(QueuedItem) /\ expect' \in [Tracks -> Seqs]
         /\ \E k \in Nat : \A i \in DOMAIN queue' :
              /\ i \in Nat
              /\ \/ i + k \in DOMAIN queue /\ queue'[i] = queue[i + k]
                 \/ /\ (i + k) - Len(queue) \in DOMAIN items /\ (i + k) - Len(queue) \in Nat \ {0}
                    /\ queue'[i] = items[(i + k) - Len(queue)]
<1> DEFINE all == queue \o items
<1>1. /\ queue \in Seq(QueuedItem) /\ all \in Seq(QueuedItem)
      /\ Len(all) = Len(queue) + Len(items)
      /\ \A i \in 1..Len(all) : all[i] = IF i <= Len(queue) THEN queue[i] ELSE items[i - Len(queue)]
  BY DEF Counted
<1>2. PICK k \in 0..Len(all) : /\ queue' = SubSeq(all, k + 1, Len(all))
                               /\ expect' = Gone(SubSeq(all, 1, k))
  BY Zenon DEF Moved
<1> HIDE DEF all
<1>3. /\ queue' \in Seq(QueuedItem) /\ Len(queue') = Len(all) - k
      /\ \A i \in 1..Len(queue') : queue'[i] = all[i + k]
  BY <1>1, <1>2, SuffixType
<1>4. expect' \in [Tracks -> Seqs]
  <2>1. SubSeq(all, 1, k) \in Seq(QueuedItem)
    BY <1>1, Parted
  <2>2. ASSUME NEW t \in Tracks
        PROVE  (expect[t] + Count(SubSeq(all, 1, k), t)) % SeqMod \in Seqs
    <3>1. Count(SubSeq(all, 1, k), t) \in Nat
      BY <2>1, NumberedFinite
    <3>2. expect[t] + Count(SubSeq(all, 1, k), t) \in Int
      BY <3>1 DEF Counted, Seqs
    <3> QED BY <3>2, SeqMasked
  <2>3. expect' = [t \in Tracks |-> (expect[t] + Count(SubSeq(all, 1, k), t)) % SeqMod]
    BY <1>2, Zenon DEF Gone
  <2> QED BY <2>2, <2>3
<1>5. ASSUME NEW i \in DOMAIN queue'
      PROVE  /\ i \in Nat
             /\ \/ i + k \in DOMAIN queue /\ queue'[i] = queue[i + k]
                \/ /\ (i + k) - Len(queue) \in DOMAIN items /\ (i + k) - Len(queue) \in Nat \ {0}
                   /\ queue'[i] = items[(i + k) - Len(queue)]
  <2>1. i \in 1..Len(queue') /\ i + k \in 1..Len(all) /\ queue'[i] = all[i + k]
    <3>1. i \in 1..Len(queue')
      BY <1>3, <1>5
    <3>2. Len(all) \in Nat /\ k \in 0..Len(all)
      BY <1>1
    <3> QED BY <1>3, <3>1, <3>2
  <2>2. CASE i + k <= Len(queue)
    BY <1>1, <2>1, <2>2
  <2>3. CASE ~(i + k <= Len(queue))
    BY <1>1, <2>1, <2>3
  <2> QED BY <2>1, <2>2, <2>3
<1>6. k \in Nat
  BY <1>1, <1>2
<1> QED BY <1>3, <1>4, <1>5, <1>6

(* Numbers go on if those of the items do. *)
LEMMA MovedNumbers ==
  ASSUME Counted, NEW items \in Seq(QueuedItem), Moved(items), NEW t \in Tracks,
         Sequential(queue, expect[t], t), Sequential(items, Following(t), t)
  PROVE  /\ Sequential(queue', expect'[t], t)
         /\ Following(t)' = (Following(t) + Count(items, t)) % SeqMod
<1> DEFINE all == queue \o items
           n == expect[t]
<1>1. queue \in Seq(QueuedItem) /\ all \in Seq(QueuedItem) /\ n \in Int
  BY DEF Counted, Seqs
<1>2. PICK k \in 0..Len(all) : /\ queue' = SubSeq(all, k + 1, Len(all))
                               /\ expect' = Gone(SubSeq(all, 1, k))
  BY Zenon DEF Moved
<1> DEFINE gone == SubSeq(all, 1, k)
           rest == SubSeq(all, k + 1, Len(all))
           m == (n + Count(gone, t)) % SeqMod
<1>3. Sequential(all, n, t)
  BY <1>1, SequentialConcat, Zenon DEF Following
<1>4. Count(all, t) = Count(queue, t) + Count(items, t)
  BY <1>1, CountConcat, Zenon
<1>5. expect'[t] = m
  BY <1>2, Zenon DEF Gone
<1> HIDE DEF all, n
<1>6. gone \in Seq(QueuedItem) /\ rest \in Seq(QueuedItem) /\ gone \o rest = all
  BY <1>1, Parted
<1>7. rest = queue'
  BY <1>2
<1> HIDE DEF gone, rest
<1>8. Sequential(rest, m, t)
  BY <1>1, <1>3, <1>6, SequentialConcat, Zenon
<1>9. Count(gone, t) + Count(rest, t) = Count(queue, t) + Count(items, t)
  BY <1>4, <1>6, CountConcat, Zenon
<1>10. /\ Count(gone, t) \in Nat /\ Count(rest, t) \in Nat
       /\ Count(queue, t) \in Nat /\ Count(items, t) \in Nat
  BY <1>1, <1>6, NumberedFinite
<1>11. (m + Count(rest, t)) % SeqMod = (((n + Count(queue, t)) % SeqMod) + Count(items, t)) % SeqMod
  <2> DEFINE g == Count(gone, t)
             r == Count(rest, t)
             q == Count(queue, t)
             i == Count(items, t)
  <2>1. g \in Nat /\ r \in Nat /\ q \in Nat /\ i \in Nat /\ g + r = q + i
    BY <1>9, <1>10
  <2> HIDE DEF g, r, q, i
  <2>2. /\ n + g \in Int /\ n + q \in Int /\ r \in Int /\ i \in Int
        /\ (n + g) + r = (n + q) + i
    BY <1>1, <2>1
  <2>3. (((n + g) % SeqMod) + r) % SeqMod = ((n + g) + r) % SeqMod
    BY <2>2, ModAdd, NumbersAssumption, Zenon
  <2>4. (((n + q) % SeqMod) + i) % SeqMod = ((n + q) + i) % SeqMod
    BY <2>2, ModAdd, NumbersAssumption, Zenon
  <2> QED BY <2>2, <2>3, <2>4, Zenon DEF g, r, q, i
<1>12. Following(t)' = (expect'[t] + Count(queue', t)) % SeqMod
  BY DEF Following, Count, Numbered
<1>13. Following(t) = (n + Count(queue, t)) % SeqMod
  BY DEF Following, n
<1> QED BY <1>5, <1>7, <1>8, <1>11, <1>12, <1>13, Zenon

(* So does the clock, if that of the items does. *)
LEMMA MovedClock ==
  ASSUME Counted, NEW items \in Seq(QueuedItem), Moved(items), NEW t \in Tracks,
         Chained(queue, t), Chained(items, t),
         \A i, j : LastOf(i, queue, t) /\ j \in Numbered(items, t) => Near(items[j].ts, queue[i].ts)
  PROVE  /\ Chained(queue', t)
         /\ \A k : LastOf(k, queue', t) =>
              \/ Numbered(items, t) = {} /\ \E i : LastOf(i, queue, t) /\ queue'[k] = queue[i]
              \/ \E j \in Numbered(items, t) : queue'[k] = items[j]
<1> DEFINE all == queue \o items
<1>1. queue \in Seq(QueuedItem) /\ all \in Seq(QueuedItem)
  BY DEF Counted
<1>2. PICK k \in 0..Len(all) : /\ queue' = SubSeq(all, k + 1, Len(all))
                               /\ expect' = Gone(SubSeq(all, 1, k))
  BY Zenon DEF Moved
<1>3. /\ Chained(all, t)
      /\ \A h : LastOf(h, all, t) =>
           \/ Numbered(items, t) = {} /\ LastOf(h, queue, t) /\ all[h] = queue[h]
           \/ \E j \in Numbered(items, t) : all[h] = items[j]
  BY <1>1, ChainedConcat, Zenon
<1> HIDE DEF all
<1> DEFINE gone == SubSeq(all, 1, k)
           rest == SubSeq(all, k + 1, Len(all))
<1>4. gone \in Seq(QueuedItem) /\ rest \in Seq(QueuedItem) /\ gone \o rest = all
  BY <1>1, Parted
<1>5. rest = queue'
  BY <1>2
<1> HIDE DEF gone, rest
<1>6. Chained(rest, t)
  BY <1>3, <1>4, ChainedRest, Zenon
<1>7. ASSUME NEW h, LastOf(h, rest, t)
      PROVE  \/ Numbered(items, t) = {} /\ \E i : LastOf(i, queue, t) /\ rest[h] = queue[i]
             \/ \E j \in Numbered(items, t) : rest[h] = items[j]
  <2>1. LastOf(Len(gone) + h, all, t) /\ all[Len(gone) + h] = rest[h]
    <3>1. \A i : LastOf(i, rest, t) =>
            LastOf(Len(gone) + i, gone \o rest, t) /\ (gone \o rest)[Len(gone) + i] = rest[i]
      BY <1>4, ChainedRest, Zenon
    <3> QED BY <1>4, <1>7, <3>1, Zenon
  <2> QED BY <1>3, <2>1, Zenon
<1> QED BY <1>5, <1>6, <1>7, Zenon

-----------------------------------------------------------------------------
(* What a processing thread puts.                                          *)

(* A distance that Near allows, however the timestamp was mapped. *)
LEMMA MapNear ==
  ASSUME NEW m \in Mapper, m.down # None, m.up # None, NEW u \in Times, NEW inc \in ArrivalIncrement
  PROVE  Near(MapTimestamp(m, u, inc), m.down)
<1>1. m.down \in Int /\ m.up \in Int /\ u \in Int
  BY DEF Mapper, Times
<1>2. inc \in Nat /\ inc <= 2 * ClockRate
  BY NumbersAssumption DEF ArrivalIncrement
<1>3. Delta(m, u) \in Nat
  BY <1>1, TimeMasked DEF Delta, Times
<1>4. ASSUME NEW d \in Nat, d <= 2 * ClockRate
      PROVE  Near((m.down + d) % TsMod, m.down)
  <2>1. (((m.down + d) % TsMod) - m.down) % TsMod <= d
    BY <1>1, ModDistance, NumbersAssumption
  <2>2. (((m.down + d) % TsMod) - m.down) % TsMod \in Int
    <3>1. m.down + d \in Int
      BY <1>1
    <3>2. ((m.down + d) % TsMod) - m.down \in Int
      BY <1>1, <3>1, TimeMasked DEF Times
    <3> QED BY <3>2, TimeMasked DEF Times
  <2> QED BY <1>4, <2>1, <2>2, NumbersAssumption DEF Near
<1> QED BY <1>2, <1>3, <1>4 DEF MapTimestamp, Continuous

(* The same timestamp is as near as can be. *)
LEMMA SelfNear == ASSUME NEW x \in Times PROVE Near(x, x)
<1>1. x - x = 0 /\ 0 % TsMod = 0
  BY NumbersAssumption, ModSmall DEF Times
<1> QED BY <1>1, NumbersAssumption DEF Near

(* Parameter sets of one track, in a row. *)
LEMMA RowOfSets ==
  ASSUME NEW n \in Nat, NEW items \in Seq(QueuedItem), Len(items) = n, NEW t \in Tracks,
         NEW seq \in Seqs,
         \A i \in 1..n : /\ items[i].kind = "init" /\ items[i].track = t
                         /\ items[i].seq = (seq + (i - 1)) % SeqMod
  PROVE  /\ Sequential(items, seq, t) /\ Count(items, t) = n
         /\ \A u \in Tracks : u # t => Numbered(items, u) = {}
<1>1. Numbered(items, t) = 1..n
  BY DEF Numbered
<1>2. ASSUME NEW i \in 1..n PROVE Rank(i, 1..n) = i - 1
  <2>1. {j \in 1..n : j < i} = 1..i - 1
    BY <1>2
  <2>2. Cardinality(1..i - 1) = i - 1
    <3>1. 1 \in Int /\ i - 1 \in Int /\ i - 1 - 1 + 1 = i - 1 /\ ~(1 > i - 1 /\ i # 1)
      BY <1>2
    <3>2. Cardinality(1..i - 1) = IF 1 > i - 1 THEN 0 ELSE i - 1 - 1 + 1
      BY <3>1, FS_Interval
    <3> QED BY <3>1, <3>2
  <2> QED BY <2>1, <2>2 DEF Rank
<1>3. Cardinality(1..n) = n
  <2>1. Cardinality(1..n) = IF 1 > n THEN 0 ELSE n - 1 + 1
    BY FS_Interval
  <2> QED BY <2>1
<1>4. Sequential(items, seq, t)
  BY <1>1, <1>2 DEF Sequential
<1>5. \A u \in Tracks : u # t => Numbered(items, u) = {}
  BY DEF Numbered
<1> QED BY <1>1, <1>3, <1>4, <1>5 DEF Count

(* One media packet, with or without reports about it. *)
Reports(s) == \A i \in DOMAIN s : s[i].kind \in {"gen", "sr"}
OneTrack(s, t) == \A u \in Tracks : u # t => Numbered(s, u) = {}
OneMedia(s, x) == \A i \in DOMAIN s : s[i].kind \in {"rtp", "init"} => s[i] = x

(* One packet between reports is one number, and one place of the clock.   *)
LEMMA OneAmongReports ==
  ASSUME NEW a \in Seq(QueuedItem), NEW x \in QueuedItem, NEW b \in Seq(QueuedItem),
         NEW t \in Tracks, x.kind = "rtp", x.track = t,
         Reports(a), Reports(b),
         NEW items, items = a \o <<x>> \o b
  PROVE  /\ items \in Seq(QueuedItem)
         /\ Sequential(items, x.seq, t) /\ Count(items, t) = 1 /\ Numbered(items, t) # {}
         /\ OneTrack(items, t) /\ OneMedia(items, x)
<1> DEFINE n == Len(a) + 1
<1>1. /\ items \in Seq(QueuedItem) /\ n \in DOMAIN items /\ items[n] = x /\ n \in Int
      /\ \A i \in DOMAIN items : i # n => \/ \E j \in DOMAIN a : items[i] = a[j]
                                          \/ \E j \in DOMAIN b : items[i] = b[j]
  <2> DEFINE first == a \o <<x>>
  <2>1. /\ first \in Seq(QueuedItem) /\ Len(first) = n /\ n \in Nat /\ first[n] = x
        /\ \A i \in 1..n : i # n => i \in DOMAIN a /\ first[i] = a[i]
    OBVIOUS
  <2>2. items = first \o b
    OBVIOUS
  <2> HIDE DEF first, n
  <2>3. /\ items \in Seq(QueuedItem) /\ Len(items) = n + Len(b)
        /\ \A i \in 1..n + Len(b) : items[i] = IF i <= n THEN first[i] ELSE b[i - n]
    <3>1. /\ first \o b \in Seq(QueuedItem) /\ Len(first \o b) = Len(first) + Len(b)
          /\ \A i \in 1..Len(first) + Len(b) :
               (first \o b)[i] = IF i <= Len(first) THEN first[i] ELSE b[i - Len(first)]
      BY <2>1, ConcatProperties
    <3> QED BY <2>1, <2>2, <3>1
  <2>4. n \in 1..n + Len(b) /\ DOMAIN items = 1..n + Len(b) /\ n >= 1
    BY <2>1, <2>3 DEF n
  <2>5. ASSUME NEW i \in 1..n + Len(b), i # n
        PROVE  \/ \E j \in DOMAIN a : items[i] = a[j]
               \/ \E j \in DOMAIN b : items[i] = b[j]
    <3>1. CASE i <= n
      <4>1. i \in 1..n
        BY <2>1, <2>5, <3>1
      <4>2. i \in DOMAIN a /\ first[i] = a[i] /\ items[i] = first[i]
        BY <2>1, <2>3, <2>5, <3>1, <4>1
      <4> QED BY <4>2
    <3>2. CASE ~(i <= n)
      <4>1. i - n \in DOMAIN b /\ items[i] = b[i - n]
        BY <2>1, <2>3, <2>5, <3>2
      <4> QED BY <4>1
    <3> QED BY <3>1, <3>2
  <2>6. items[n] = x
    BY <2>1, <2>3, <2>4
  <2>7. items \in Seq(QueuedItem) /\ n \in DOMAIN items /\ n \in Int
    BY <2>1, <2>3, <2>4
  <2> QED BY <2>4, <2>5, <2>6, <2>7, Zenon
<1> HIDE DEF n
<1>2. \A i \in DOMAIN items : items[i].kind \in {"rtp", "init"} => i = n
  BY <1>1 DEF Reports
<1>3. Numbered(items, t) = {n}
  BY <1>1, <1>2 DEF Numbered
<1>4. \A u \in Tracks : u # t => Numbered(items, u) = {}
  BY <1>1, <1>2 DEF Numbered
<1>5. Cardinality({n}) = 1
  BY FS_Singleton
<1>6. Rank(n, {n}) = 0
  <2>1. {j \in {n} : j < n} = {}
    BY <1>1
  <2> QED BY <2>1, FS_EmptySet DEF Rank
<1>7. (x.seq + 0) % SeqMod = x.seq
  <2>1. x.seq \in Seqs
    BY DEF QueuedItem
  <2>2. x.seq % SeqMod = x.seq
    BY <2>1, ModSmall, NumbersAssumption, Zenon DEF Seqs
  <2>3. x.seq + 0 = x.seq
    BY <2>1 DEF Seqs
  <2> QED BY <2>2, <2>3
<1>8. Sequential(items, x.seq, t)
  BY <1>1, <1>3, <1>6, <1>7 DEF Sequential
<1>9. Count(items, t) = 1 /\ Numbered(items, t) # {}
  BY <1>3, <1>5 DEF Count
<1>10. \A i \in DOMAIN items : items[i].kind \in {"rtp", "init"} => items[i] = x
  BY <1>1, <1>2
<1> QED BY <1>1, <1>4, <1>8, <1>9, <1>10, Zenon DEF OneTrack, OneMedia

-----------------------------------------------------------------------------
(* What a step of a processing thread does to the numbers of a track: it   *)
(* takes the next for the packet in its hand, bears what it has in hand to *)
(* the queue, or leaves the track alone.                                   *)
Takes(p, t, items) ==
  /\ ~Hand(p, t) /\ Hand(p, t)' /\ items = <<>>
  /\ cur'[p].seq = mapper[t].next /\ mapper'[t].next = (mapper[t].next + 1) % SeqMod
  /\ mapper'[t].down = cur'[p].ts
  /\ mapper[t].down # None => Near(cur'[p].ts, mapper[t].down)

Bears(p, t, items) ==
  /\ Hand(p, t) /\ Sequential(items, cur[p].seq, t)
  /\ mapper'[t].down = mapper[t].down
  /\ \/ /\ Hand(p, t)' /\ cur'[p].ts = cur[p].ts
        /\ cur'[p].seq = (cur[p].seq + Count(items, t)) % SeqMod
        /\ mapper[t].next = (cur[p].seq + 1) % SeqMod =>
             mapper'[t].next = (cur'[p].seq + 1) % SeqMod
     \/ /\ ~Hand(p, t)' /\ Numbered(items, t) # {} /\ Count(items, t) = 1
        /\ mapper'[t].next = mapper[t].next

Passes(p, t, items) ==
  /\ ~Hand(p, t) /\ ~Hand(p, t)' /\ Numbered(items, t) = {}
  /\ mapper'[t].next = mapper[t].next /\ mapper'[t].down = mapper[t].down

(* The media put is the packet in hand, and its parameter sets. *)
Borne(p, items) ==
  \A i \in DOMAIN items : items[i].kind \in {"rtp", "init"} =>
    /\ cur[p].step # "idle" /\ items[i].ts = cur[p].ts
    /\ items[i].src = Head(work[p]).src /\ items[i].pos = Head(work[p]).pos

PutsInTurn(p) ==
  \E items \in Seq(QueuedItem) :
    /\ Put(items) \/ (items = <<>> /\ UNCHANGED <<queue, expect>>)
    /\ Borne(p, items)
    /\ \A t \in Tracks : Takes(p, t, items) \/ Bears(p, t, items) \/ Passes(p, t, items)

(* A step that puts nothing has put the empty sequence.                    *)
LEMMA NothingPut ==
  ASSUME NEW p \in Processors, UNCHANGED <<queue, expect>>,
         \A t \in Tracks : Takes(p, t, <<>>) \/ Bears(p, t, <<>>) \/ Passes(p, t, <<>>)
  PROVE  PutsInTurn(p)
<1>1. <<>> \in Seq(QueuedItem) /\ Borne(p, <<>>)
  BY DEF Borne
<1> QED BY <1>1, Zenon DEF PutsInTurn

(* Number puts nothing, and takes the next number of the track.            *)
LEMMA NumberPuts ==
  ASSUME TypeOK, NEW p \in Processors, NEW inc \in ArrivalIncrement, Number(p, inc)
  PROVE  PutsInTurn(p)
<1> DEFINE pkt == Head(work[p])
           m == mapper[pkt.track]
           ts == MapTimestamp(m, pkt.ts, inc)
           new == Rewrite(m, pkt, ts)
           taken == [Idle EXCEPT !.step = "inject", !.seq = m.next, !.ts = ts]
<1>1. /\ work[p] # <<>> /\ cur[p].step = "idle" /\ work' = work
      /\ mapper' = [mapper EXCEPT ![pkt.track] = new]
      /\ cur' = [cur EXCEPT ![p] = taken]
      /\ UNCHANGED <<queue, expect>>
  BY Zenon DEF Number
<1>2. /\ pkt \in Packet /\ pkt.track \in Tracks /\ m \in Mapper /\ (m.down # None => m.up # None)
      /\ mapper \in [Tracks -> Mapper] /\ cur \in [Processors -> InHand]
  BY <1>1, BatchType DEF TypeOK, MapperType, WorkType
<1>3. m.down # None => Near(ts, m.down)
  <2>1. pkt.ts \in Times
    BY <1>2 DEF Packet
  <2> QED BY <1>2, <2>1, MapNear
<1>4. new.next = (m.next + 1) % SeqMod /\ new.down = ts
  BY <1>2 DEF Rewrite, Mapper
<1>5. taken.step = "inject" /\ taken.seq = m.next /\ taken.ts = ts
  BY DEF Idle
<1> HIDE DEF ts, new, taken
<1>6. cur'[p] = taken /\ mapper'[pkt.track] = new
      /\ \A t \in Tracks : t # pkt.track => mapper'[t] = mapper[t]
  BY <1>1, <1>2
<1>7. Takes(p, pkt.track, <<>>)
  BY <1>1, <1>3, <1>4, <1>5, <1>6 DEF Takes, Hand
<1>8. ASSUME NEW t \in Tracks, t # pkt.track
      PROVE  Passes(p, t, <<>>)
  BY <1>1, <1>6, <1>8, EmptyCount DEF Passes, Hand
<1> QED BY <1>1, <1>7, <1>8, NothingPut

(* Inject bears the parameter sets, under the numbers from that in hand.   *)
LEMMA InjectPuts ==
  ASSUME TypeOK, NEW p \in Processors, Inject(p)
  PROVE  PutsInTurn(p)
<1> DEFINE pkt == Head(work[p])
           t == pkt.track
           m == mapper[t]
           c == cur[p]
           next == (c.seq + (ParameterSets + 1)) % SeqMod
           borne == [c EXCEPT !.step = "emit", !.injected = TRUE,
                              !.seq = (c.seq + ParameterSets) % SeqMod]
           items == [i \in 1..ParameterSets |->
                       Item("init", pkt, (c.seq + (i - 1)) % SeqMod, c.ts, m)]
<1>1. c.step = "inject" /\ work' = work
  BY DEF Inject
<1>2. /\ pkt \in Packet /\ t \in Tracks /\ m \in Mapper
      /\ mapper \in [Tracks -> Mapper] /\ cur \in [Processors -> InHand]
      /\ c.seq \in Seqs /\ c.ts \in Times
  BY <1>1, BatchType DEF TypeOK, MapperType, WorkType, HandType, InHand
<1>3. CASE t \in reinject
  <2>1. /\ Put(items) /\ mapper' = [mapper EXCEPT ![t].next = next]
        /\ cur' = [cur EXCEPT ![p] = borne]
    BY <1>3, Zenon DEF Inject
  <2>2. ASSUME NEW i \in 1..ParameterSets
        PROVE  LET x == Item("init", pkt, (c.seq + (i - 1)) % SeqMod, c.ts, m)
               IN  /\ x \in QueuedItem /\ x.kind = "init" /\ x.track = t /\ x.src = pkt.src
                   /\ x.pos = pkt.pos /\ x.ts = c.ts /\ x.seq = (c.seq + (i - 1)) % SeqMod
    <3>1. (c.seq + (i - 1)) % SeqMod \in Seqs
      BY <1>2, SeqMasked DEF Seqs
    <3>2. Item("init", pkt, (c.seq + (i - 1)) % SeqMod, c.ts, m) \in QueuedItem
      BY <1>2, <3>1, ItemType
    <3> QED BY <3>2 DEF Item
  <2>3. items \in Seq(QueuedItem) /\ Len(items) = ParameterSets /\ DOMAIN items = 1..ParameterSets
    BY <2>2, TracksAssumption, IsASeq
  <2>4. \A i \in 1..ParameterSets :
          /\ items[i].kind = "init" /\ items[i].track = t /\ items[i].src = pkt.src
          /\ items[i].pos = pkt.pos /\ items[i].ts = c.ts
          /\ items[i].seq = (c.seq + (i - 1)) % SeqMod
    BY <2>2
  <2> HIDE DEF items
  <2>5. /\ Sequential(items, c.seq, t) /\ Count(items, t) = ParameterSets
        /\ \A u \in Tracks : u # t => Numbered(items, u) = {}
    <3>1. ParameterSets \in Nat
      BY TracksAssumption
    <3>2. \A i \in 1..ParameterSets : /\ items[i].kind = "init" /\ items[i].track = t
                                      /\ items[i].seq = (c.seq + (i - 1)) % SeqMod
      BY <2>4
    <3> HIDE DEF pkt, t, c
    <3> QED BY <1>2, <2>3, <3>1, <3>2, RowOfSets
  <2>6. borne.step = "emit" /\ borne.ts = c.ts /\ borne.seq = (c.seq + ParameterSets) % SeqMod
    BY <1>2 DEF InHand
  <2>7. next = (((c.seq + ParameterSets) % SeqMod) + 1) % SeqMod
    <3>1. c.seq + ParameterSets \in Int /\ 1 \in Int
          /\ c.seq + (ParameterSets + 1) = (c.seq + ParameterSets) + 1
      BY <1>2, TracksAssumption DEF Seqs
    <3>2. (((c.seq + ParameterSets) % SeqMod) + 1) % SeqMod = ((c.seq + ParameterSets) + 1) % SeqMod
      BY <3>1, ModAdd, NumbersAssumption, Zenon
    <3> QED BY <3>1, <3>2
  <2> HIDE DEF borne, next
  <2>8. /\ cur'[p] = borne /\ mapper'[t].next = next /\ mapper'[t].down = m.down
        /\ \A u \in Tracks : u # t => mapper'[u] = mapper[u]
    BY <1>2, <2>1 DEF Mapper
  <2>9. Bears(p, t, items)
    BY <1>1, <2>5, <2>6, <2>7, <2>8 DEF Bears, Hand
  <2>10. ASSUME NEW u \in Tracks, u # t
         PROVE  Passes(p, u, items)
    BY <1>1, <2>5, <2>8, <2>10 DEF Passes, Hand
  <2>11. Borne(p, items)
    BY <1>1, <2>3, <2>4 DEF Borne
  <2> QED BY <2>1, <2>3, <2>9, <2>10, <2>11, Zenon DEF PutsInTurn
<1>4. CASE t \notin reinject
  <2>1. cur' = [cur EXCEPT ![p].step = "emit"] /\ UNCHANGED <<queue, expect, mapper>>
    BY <1>4, Zenon DEF Inject
  <2>2. cur'[p].step = "emit" /\ cur'[p].seq = c.seq /\ cur'[p].ts = c.ts
    BY <1>2, <2>1 DEF InHand
  <2>3. (c.seq + Count(<<>>, t)) % SeqMod = c.seq /\ Sequential(<<>>, c.seq, t)
    <3>1. Count(<<>>, t) = 0 /\ Numbered(<<>>, t) = {}
      BY <1>2, EmptyCount
    <3>2. c.seq % SeqMod = c.seq /\ c.seq + 0 = c.seq
      BY <1>2, ModSmall, NumbersAssumption DEF Seqs
    <3> QED BY <3>1, <3>2 DEF Sequential
  <2>4. Bears(p, t, <<>>)
    BY <1>1, <2>1, <2>2, <2>3 DEF Bears, Hand
  <2>5. ASSUME NEW u \in Tracks, u # t
        PROVE  Passes(p, u, <<>>)
    BY <1>1, <2>1, <2>5, EmptyCount DEF Passes, Hand
  <2> QED BY <2>1, <2>4, <2>5, NothingPut
<1> QED BY <1>3, <1>4

(* A sender report on its own, whichever kind, is a sequence of reports.     *)
LEMMA OneReport ==
  ASSUME NEW x \in QueuedItem, x.kind \in {"gen", "sr"}
  PROVE  <<x>> \in Seq(QueuedItem) /\ Reports(<<x>>)
<1>1. <<x>> \in Seq(QueuedItem) /\ DOMAIN <<x>> = {1} /\ <<x>>[1] = x
  OBVIOUS
<1> QED BY <1>1 DEF Reports

(* No item at all is a sequence of reports too.                             *)
LEMMA NoReport == <<>> \in Seq(QueuedItem) /\ Reports(<<>>)
<1>1. <<>> \in Seq(QueuedItem) /\ DOMAIN <<>> = {}
  OBVIOUS
<1> QED BY <1>1 DEF Reports

(* Emit bears the packet in hand, among reports.                           *)
LEMMA EmitPuts ==
  ASSUME TypeOK, NEW p \in Processors, Emit(p)
  PROVE  PutsInTurn(p)
<1> DEFINE pkt == Head(work[p])
           t == pkt.track
           m == mapper[t]
           c == cur[p]
           late == pending[t]
           generated == IF m.report THEN <<Item("gen", pkt, 0, m.down, m)>> ELSE <<>>
           media == Item("rtp", pkt, c.seq, c.ts, m)
           heldBack == IF late # None /\ Translatable(m, late)
                       THEN <<Item("sr", late, 0, late.ts, m)>> ELSE <<>>
           items == generated \o <<media>> \o heldBack
<1>1. /\ c.step = "emit" /\ Put(items) /\ mapper' = [mapper EXCEPT ![t].report = FALSE]
      /\ cur' = [cur EXCEPT ![p] = Idle]
  BY Zenon DEF Emit
<1>2. /\ pkt \in Packet /\ t \in Tracks /\ m \in Mapper /\ m.down # None
      /\ mapper \in [Tracks -> Mapper] /\ cur \in [Processors -> InHand]
      /\ c.seq \in Seqs /\ c.ts \in Times /\ 0 \in Seqs
  <2>1. work[p] # <<>> /\ m.down # None
    BY <1>1 DEF TypeOK, HandType
  <2>2. pkt \in Packet /\ t \in Tracks
    BY <2>1, BatchType
  <2>3. mapper \in [Tracks -> Mapper] /\ cur \in [Processors -> InHand]
    BY DEF TypeOK, MapperType, WorkType
  <2>4. c \in InHand /\ 0 \in Seqs
    BY <2>3, NumbersAssumption DEF Seqs
  <2>5. c.seq \in Seqs /\ c.ts \in Times
    BY <2>4 DEF InHand
  <2> QED BY <2>1, <2>2, <2>3, <2>4, <2>5
<1>3. generated \in Seq(QueuedItem) /\ Reports(generated)
  <2>1. m.down \in Times
    BY <1>2 DEF Mapper
  <2>2. Item("gen", pkt, 0, m.down, m) \in QueuedItem /\ Item("gen", pkt, 0, m.down, m).kind = "gen"
    BY <1>2, <2>1, ItemType
  <2>3. <<Item("gen", pkt, 0, m.down, m)>> \in Seq(QueuedItem)
        /\ Reports(<<Item("gen", pkt, 0, m.down, m)>>)
    BY <2>2, OneReport
  <2> QED BY <2>3, NoReport
<1>4. heldBack \in Seq(QueuedItem) /\ Reports(heldBack)
  <2>1. CASE late # None
    <3>1. late \in Packet
      BY <1>2, <2>1 DEF TypeOK, QueueType
    <3>2. late.ts \in Times
      BY <3>1 DEF Packet
    <3>3. Item("sr", late, 0, late.ts, m) \in QueuedItem /\ Item("sr", late, 0, late.ts, m).kind = "sr"
      BY <1>2, <3>1, <3>2, ItemType
    <3>4. <<Item("sr", late, 0, late.ts, m)>> \in Seq(QueuedItem)
          /\ Reports(<<Item("sr", late, 0, late.ts, m)>>)
      BY <3>3, OneReport
    <3> QED BY <3>4, NoReport
  <2>2. CASE late = None
    BY <2>2, NoReport
  <2> QED BY <2>1, <2>2
<1>5. /\ media \in QueuedItem /\ media.kind = "rtp" /\ media.track = t /\ media.src = pkt.src
      /\ media.pos = pkt.pos /\ media.seq = c.seq /\ media.ts = c.ts
  <2>1. media \in QueuedItem
    BY <1>2, ItemType
  <2> QED BY <2>1 DEF Item
<1> HIDE DEF generated, media, heldBack
<1>6. /\ items \in Seq(QueuedItem)
      /\ Sequential(items, c.seq, t) /\ Count(items, t) = 1 /\ Numbered(items, t) # {}
      /\ \A u \in Tracks : u # t => Numbered(items, u) = {}
      /\ \A i \in DOMAIN items : items[i].kind \in {"rtp", "init"} => items[i] = media
  <2>1. t \in Tracks /\ items = generated \o <<media>> \o heldBack
    BY <1>2
  <2>2. media \in QueuedItem /\ media.kind = "rtp" /\ media.track = t
    BY <1>5
  <2> HIDE DEF pkt, t, c, items
  <2>3. /\ items \in Seq(QueuedItem)
        /\ Sequential(items, media.seq, t) /\ Count(items, t) = 1 /\ Numbered(items, t) # {}
        /\ OneTrack(items, t) /\ OneMedia(items, media)
    BY <1>3, <1>4, <2>1, <2>2, OneAmongReports
  <2>4. media.seq = c.seq
    BY <1>5
  <2> QED BY <2>3, <2>4, Zenon DEF OneTrack, OneMedia
<1> HIDE DEF items
<1>7. /\ cur'[p].step = "idle"
      /\ mapper'[t].next = m.next /\ mapper'[t].down = m.down
      /\ \A u \in Tracks : u # t => mapper'[u] = mapper[u]
  BY <1>1, <1>2 DEF Mapper, Idle
<1>8. Bears(p, t, items)
  BY <1>1, <1>6, <1>7 DEF Bears, Hand
<1>9. ASSUME NEW u \in Tracks, u # t
      PROVE  Passes(p, u, items)
  BY <1>6, <1>7, <1>9 DEF Passes, Hand
<1>10. Borne(p, items)
  BY <1>1, <1>5, <1>6 DEF Borne
<1> QED BY <1>1, <1>6, <1>8, <1>9, <1>10, Zenon DEF PutsInTurn

(* Report puts at most a report, which has no number.                      *)
LEMMA ReportPuts ==
  ASSUME TypeOK, NEW p \in Processors, Report(p)
  PROVE  PutsInTurn(p)
<1> DEFINE pkt == Head(work[p])
           m == mapper[pkt.track]
           item == Item("sr", pkt, 0, pkt.ts, m)
<1>1. /\ work[p] # <<>> /\ cur[p].step = "idle" /\ cur' = cur /\ mapper' = mapper
      /\ Put(<<item>>) \/ UNCHANGED <<queue, expect>>
  BY Zenon DEF Report
<1>2. pkt \in Packet /\ m \in Mapper /\ pkt.ts \in Times /\ 0 \in Seqs
  <2>1. pkt \in Packet /\ m \in Mapper
    BY <1>1, BatchType DEF TypeOK, MapperType
  <2> QED BY <2>1, NumbersAssumption DEF Packet, Seqs
<1>3. item \in QueuedItem /\ item.kind = "sr"
  BY <1>2, ItemType
<1> HIDE DEF item
<1>4. /\ <<item>> \in Seq(QueuedItem) /\ Borne(p, <<item>>)
      /\ \A t \in Tracks : Numbered(<<item>>, t) = {} /\ Numbered(<<>>, t) = {}
  BY <1>3 DEF Borne, Numbered
<1>5. ASSUME NEW t \in Tracks, NEW items \in {<<item>>, <<>>}
      PROVE  Passes(p, t, items)
  BY <1>1, <1>4 DEF Passes, Hand
<1>6. CASE Put(<<item>>)
  BY <1>4, <1>5, <1>6 DEF PutsInTurn
<1>7. CASE UNCHANGED <<queue, expect>>
  BY <1>5, <1>7, NothingPut
<1> QED BY <1>1, <1>6, <1>7

(* Any step of a processing thread takes, bears or passes, track by track.  *)
LEMMA ProcessPuts ==
  ASSUME TypeOK, NEW p \in Processors, Process(p)
  PROVE  PutsInTurn(p)
BY NumberPuts, InjectPuts, EmitPuts, ReportPuts DEF Process

-----------------------------------------------------------------------------
(* Numbers and clock, step by step.                                        *)

(* What is put together has one timestamp. *)
LEMMA BorneClock ==
  ASSUME TypeOK, NEW p \in Processors, NEW items \in Seq(QueuedItem), Borne(p, items), NEW t \in Tracks
  PROVE  /\ Chained(items, t)
         /\ \A j \in Numbered(items, t) : items[j].ts = cur[p].ts
<1>1. \A j \in Numbered(items, t) : items[j].ts = cur[p].ts
  BY DEF Borne, Numbered
<1>2. Near(cur[p].ts, cur[p].ts)
  <2>1. cur[p].ts \in Times
    BY DEF TypeOK, WorkType, InHand
  <2> QED BY <2>1, SelfNear
<1> QED BY <1>1, <1>2 DEF Chained

(* Where nothing is numbered, numbers and clock are in order.              *)
LEMMA NoneNumbered ==
  ASSUME NEW s, NEW t, NEW n, Numbered(s, t) = {}
  PROVE  Sequential(s, n, t) /\ Count(s, t) = 0 /\ Chained(s, t)
BY FS_EmptySet DEF Sequential, Count, Chained

(* The number to follow is within the width of a number.                   *)
LEMMA FollowingStays ==
  ASSUME Counted, NEW t \in Tracks
  PROVE  (Following(t) + 0) % SeqMod = Following(t)
<1>1. Following(t) \in Seqs
  <2>1. expect[t] + Count(queue, t) \in Int
    BY NumberedFinite DEF Counted, Seqs
  <2> QED BY <2>1, SeqMasked DEF Following
<1>2. Following(t) % SeqMod = Following(t)
  BY <1>1, ModSmall, NumbersAssumption, Zenon DEF Seqs
<1>3. Following(t) + 0 = Following(t)
  BY <1>1 DEF Seqs
<1> QED BY <1>2, <1>3

(* A step that takes, bears or passes keeps the numbers of the track.      *)
LEMMA StepNumbers ==
  ASSUME TypeOK, Counted, NEW p \in Processors, NEW t \in Tracks, NEW items \in Seq(QueuedItem),
         Moved(items), Borne(p, items), ~QueueClosed, ~QueueClosed',
         \A q \in Processors : q # p => ~Hand(q, t) /\ ~Hand(q, t)',
         Numbers(t), Takes(p, t, items) \/ Bears(p, t, items) \/ Passes(p, t, items)
  PROVE  Numbers(t)'
<1>1. Sequential(queue, expect[t], t) /\ (Hand(p, t) => cur[p].seq = Following(t))
  BY DEF Numbers
<1>2. (Following(t) + 0) % SeqMod = Following(t)
  BY FollowingStays
<1>3. Sequential(items, Following(t), t) /\ (~Bears(p, t, items) => Count(items, t) = 0)
  <2>1. CASE Numbered(items, t) = {}
    BY <2>1, NoneNumbered
  <2>2. CASE Bears(p, t, items)
    BY <1>1, <2>2 DEF Bears
  <2>3. items = <<>> => Numbered(items, t) = {}
    BY EmptyCount
  <2> QED BY <2>1, <2>2, <2>3 DEF Takes, Passes
<1>4. /\ Sequential(queue', expect'[t], t)
      /\ Following(t)' = (Following(t) + Count(items, t)) % SeqMod
  BY <1>1, <1>3, MovedNumbers
<1>5. /\ Hand(p, t)' => cur'[p].seq = Following(t)' /\ mapper'[t].next = (cur'[p].seq + 1) % SeqMod
      /\ ~Hand(p, t)' => mapper'[t].next = Following(t)'
  <2>1. CASE Takes(p, t, items)
    <3>1. mapper[t].next = Following(t)
      BY <2>1 DEF Takes, Numbers
    <3>2. ~Bears(p, t, items)
      BY <2>1 DEF Takes, Bears
    <3> QED BY <1>2, <1>3, <1>4, <2>1, <3>1, <3>2 DEF Takes
  <2>2. CASE Bears(p, t, items)
    <3>1. cur[p].seq = Following(t) /\ mapper[t].next = (cur[p].seq + 1) % SeqMod
      BY <2>2 DEF Bears, Numbers
    <3> QED BY <1>4, <2>2, <3>1 DEF Bears
  <2>3. CASE Passes(p, t, items)
    <3>1. mapper[t].next = Following(t)
      BY <2>3 DEF Passes, Numbers
    <3>2. ~Bears(p, t, items)
      BY <2>3 DEF Passes, Bears
    <3> QED BY <1>2, <1>3, <1>4, <2>3, <3>1, <3>2 DEF Passes
  <2> QED BY <2>1, <2>2, <2>3
<1>6. \A q \in Processors : Hand(q, t)' => q = p
  OBVIOUS
<1> QED BY <1>4, <1>5, <1>6 DEF Numbers

(* It keeps the clock of the track, too.                                   *)
LEMMA StepClock ==
  ASSUME TypeOK, Counted, NEW p \in Processors, NEW t \in Tracks, NEW items \in Seq(QueuedItem),
         Moved(items), Borne(p, items),
         \A q \in Processors : q # p => ~Hand(q, t) /\ ~Hand(q, t)',
         Clock(t), Takes(p, t, items) \/ Bears(p, t, items) \/ Passes(p, t, items)
  PROVE  Clock(t)'
<1>1. /\ Chained(items, t)
      /\ \A j \in Numbered(items, t) : items[j].ts = cur[p].ts
  BY BorneClock
<1>2. ASSUME NEW i, LastOf(i, queue, t)
      PROVE  /\ Hand(p, t) => Near(cur[p].ts, queue[i].ts)
             /\ ~Hand(p, t) => mapper[t].down = queue[i].ts /\ mapper[t].down # None
  <2>1. i \in DOMAIN queue
    BY <1>2 DEF LastOf, Numbered
  <2>2. queue[i].ts \in Times
    <3>1. queue[i] \in QueuedItem
      BY <2>1 DEF Counted
    <3> QED BY <3>1 DEF QueuedItem
  <2>3. queue[i].ts # None
    BY <2>2, NoneAssumption DEF Times
  <2> QED BY <1>2, <2>1, <2>3 DEF Clock
<1>3. \A j \in Numbered(items, t) : Hand(p, t)
  BY EmptyCount DEF Takes, Bears, Passes
<1>4. /\ Chained(queue', t)
      /\ \A k : LastOf(k, queue', t) =>
           \/ Numbered(items, t) = {} /\ \E i : LastOf(i, queue, t) /\ queue'[k] = queue[i]
           \/ \E j \in Numbered(items, t) : queue'[k] = items[j]
  <2>1. \A i, j : LastOf(i, queue, t) /\ j \in Numbered(items, t) => Near(items[j].ts, queue[i].ts)
    BY <1>1, <1>2, <1>3
  <2>2. Chained(queue, t)
    BY DEF Clock
  <2> QED BY <1>1, <2>1, <2>2, MovedClock, Zenon
<1>5. Hand(p, t) => mapper[t].down = cur[p].ts
  BY DEF Clock
<1>6. Hand(p, t)' => mapper'[t].down = cur'[p].ts
  BY <1>5 DEF Takes, Bears, Passes
<1>7. Near(cur[p].ts, cur[p].ts)
  <2>1. cur[p].ts \in Times
    BY DEF TypeOK, WorkType, InHand
  <2> QED BY <2>1, SelfNear
<1>8. ASSUME NEW k, LastOf(k, queue', t)
      PROVE  /\ Hand(p, t)' => Near(cur'[p].ts, queue'[k].ts)
             /\ ~Hand(p, t)' => mapper'[t].down = queue'[k].ts
  <2>1. ASSUME NEW i, LastOf(i, queue, t), queue'[k] = queue[i], Numbered(items, t) = {}
        PROVE  /\ Hand(p, t)' => Near(cur'[p].ts, queue'[k].ts)
               /\ ~Hand(p, t)' => mapper'[t].down = queue'[k].ts
    BY <1>2, <2>1 DEF Takes, Bears, Passes
  <2>2. ASSUME NEW j \in Numbered(items, t), queue'[k] = items[j]
        PROVE  /\ Hand(p, t)' => Near(cur'[p].ts, queue'[k].ts)
               /\ ~Hand(p, t)' => mapper'[t].down = queue'[k].ts
    <3>1. Bears(p, t, items) /\ queue'[k].ts = cur[p].ts
      BY <1>1, <1>3, <2>2 DEF Takes, Passes
    <3> QED BY <1>5, <1>7, <3>1 DEF Bears
  <2> QED BY <1>4, <1>8, <2>1, <2>2
<1>9. \A q \in Processors : Hand(q, t)' => q = p
  OBVIOUS
<1> QED BY <1>4, <1>6, <1>8, <1>9 DEF Clock

(* The other steps take packets away, and number none. *)
LEMMA StillNumbers ==
  ASSUME Counted, NEW t \in Tracks, Moved(<<>>), QueueClosed => QueueClosed', cur' = cur,
         \A p \in Processors : Hand(p, t)' <=> Hand(p, t),
         mapper'[t].next = mapper[t].next, mapper'[t].down = mapper[t].down,
         Numbers(t), Clock(t)
  PROVE  Numbers(t)' /\ Clock(t)'
<1>1. <<>> \in Seq(QueuedItem) /\ Numbered(<<>>, t) = {} /\ Count(<<>>, t) = 0
  BY EmptyCount
<1>2. Sequential(<<>>, Following(t), t) /\ Chained(<<>>, t)
  BY <1>1, NoneNumbered
<1>3. Sequential(queue, expect[t], t) /\ Chained(queue, t)
  BY DEF Numbers, Clock
<1>4. /\ Sequential(queue', expect'[t], t)
      /\ Following(t)' = (Following(t) + Count(<<>>, t)) % SeqMod
  BY <1>1, <1>2, <1>3, MovedNumbers
<1>5. Following(t)' = Following(t)
  BY <1>1, <1>4, FollowingStays
<1>6. /\ Chained(queue', t)
      /\ \A k : LastOf(k, queue', t) => \E i : LastOf(i, queue, t) /\ queue'[k] = queue[i]
  <2>1. \A i, j : LastOf(i, queue, t) /\ j \in Numbered(<<>>, t) => Near(<<>>[j].ts, queue[i].ts)
    BY <1>1
  <2>2. /\ Chained(queue', t)
        /\ \A k : LastOf(k, queue', t) =>
             \/ Numbered(<<>>, t) = {} /\ \E i : LastOf(i, queue, t) /\ queue'[k] = queue[i]
             \/ \E j \in Numbered(<<>>, t) : queue'[k] = <<>>[j]
    BY <1>1, <1>2, <1>3, <2>1, MovedClock, Zenon
  <2> QED BY <1>1, <2>2
<1>7. Numbers(t)'
  BY <1>4, <1>5 DEF Numbers
<1>8. Clock(t)'
  <2>1. \A i : LastOf(i, queue, t) => i \in DOMAIN queue
    BY DEF LastOf, Numbered
  <2> QED BY <1>6, <2>1 DEF Clock
<1> QED BY <1>7, <1>8

(* While no handoff overlapped, the threads take turns. *)
Alone(p) ==
  \A q \in Processors : q # p =>
    /\ work[q] = <<>> /\ cur[q].step = "idle"
    /\ work'[q] = <<>> /\ cur'[q].step = "idle"

(* The other processing thread has nothing in hand, and stays idle.        *)
LEMMA InTurn ==
  ASSUME TypeOK, Serial, ~overlapped, NEW p \in Processors, Process(p)
  PROVE  Alone(p) /\ UNCHANGED <<apc, overlapped, playback, outgoing, prepared, upstream, staged>>
<1>1. work[p] # <<>>
  BY ProcessEffect DEF TypeOK, HandType, TakesUp, GoesOn, IsDone
<1>2. ASSUME NEW q \in Processors, q # p
      PROVE  work[q] = <<>>
  BY <1>1, <1>2 DEF Serial, TypeOK, HandType, Processors
<1>3. ASSUME NEW q \in Processors, q # p
      PROVE  /\ cur[q].step = "idle" /\ cur'[q] = cur[q] /\ work'[q] = work[q]
  BY <1>2, <1>3, ProcessEffect DEF TypeOK, HandType, WorkType, TakesUp, GoesOn, IsDone
<1>4. UNCHANGED <<apc, overlapped, playback, outgoing, prepared, upstream, staged>>
  BY Zenon DEF Process, Number, Inject, Emit, Report, ghosts
<1> QED BY <1>2, <1>3, <1>4 DEF Alone

(* Numbers and clock survive every step of a processing thread.            *)
LEMMA ProcessNumbers ==
  ASSUME TypeOK, Serial, ~overlapped, expect \in [Tracks -> Seqs],
         \A t \in Tracks : Numbers(t) /\ Clock(t),
         NEW p \in Processors, Process(p)
  PROVE  /\ expect' \in [Tracks -> Seqs]
         /\ \A t \in Tracks : (Numbers(t) /\ Clock(t))'
<1>1. Counted
  BY DEF Counted, TypeOK, QueueType
<1>2. PICK items \in Seq(QueuedItem) :
        /\ Put(items) \/ (items = <<>> /\ UNCHANGED <<queue, expect>>)
        /\ Borne(p, items)
        /\ \A t \in Tracks : Takes(p, t, items) \/ Bears(p, t, items) \/ Passes(p, t, items)
  BY ProcessPuts, Zenon DEF PutsInTurn
<1>3. Alone(p) /\ apc' = apc
  BY InTurn
<1>4. \A q \in Processors, t \in Tracks : q # p => ~Hand(q, t) /\ ~Hand(q, t)'
  BY <1>3 DEF Alone, Hand
<1>5. CASE ~QueueClosed
  <2>1. Moved(items)
    BY <1>1, <1>2, <1>5, PutMoves, TakingMoves
  <2>2. ~QueueClosed'
    BY <1>3, <1>5
  <2>3. expect' \in [Tracks -> Seqs]
    BY <1>1, <2>1, MovedPlaces
  <2>4. ASSUME NEW t \in Tracks PROVE Numbers(t)'
    BY <1>1, <1>2, <1>4, <1>5, <2>1, <2>2, StepNumbers
  <2>5. ASSUME NEW t \in Tracks PROVE Clock(t)'
    BY <1>1, <1>2, <1>4, <2>1, StepClock
  <2> QED BY <2>3, <2>4, <2>5
<1>6. CASE QueueClosed
  <2>1. queue = <<>> /\ UNCHANGED <<queue, expect>> /\ QueueClosed'
    BY <1>2, <1>3, <1>6 DEF Serial, Put
  <2>2. ASSUME NEW t \in Tracks PROVE Numbers(t)'
    <3>1. Sequential(queue, expect[t], t)
      BY DEF Numbers
    <3> QED BY <2>1, <3>1 DEF Numbers
  <2>3. ASSUME NEW t \in Tracks PROVE Clock(t)'
    <3>1. Chained(queue, t) /\ (Hand(p, t) => mapper[t].down = cur[p].ts)
      BY DEF Clock
    <3>2. Hand(p, t)' => mapper'[t].down = cur'[p].ts
      BY <1>2, <3>1 DEF Takes, Bears, Passes
    <3>3. \A q \in Processors : Hand(q, t)' => q = p
      BY <1>4
    <3>4. DOMAIN queue' = {}
      BY <2>1
    <3>5. Chained(queue', t)
      BY <2>1, <3>1
    <3> QED BY <3>2, <3>3, <3>4, <3>5 DEF Clock
  <2> QED BY <2>1, <2>2, <2>3
<1> QED BY <1>5, <1>6

(* The threads hold on to what they have in hand. *)
LEMMA HandsKeep ==
  ASSUME TypeOK, [Next]_vars, \A p \in Processors : ~Process(p), NEW p \in Processors, NEW t \in Tracks
  PROVE  cur' = cur /\ (Hand(p, t)' <=> Hand(p, t))
<1>1. cur' = cur
  <2>1. ReaderReceive \/ Reset => cur' = cur
    BY DEF ReaderReceive, Reset
  <2> QED BY <2>1, OthersKeepWork
<1>2. cur[p].step # "idle" => work'[p] = work[p]
  <2>1. work \in [Processors -> Seq(Packet)]
    BY DEF TypeOK, WorkType
  <2>2. CASE ReaderReceive
    BY <2>1, <2>2 DEF ReaderReceive, ReaderMay, TypeOK, HandType
  <2>3. CASE Reset
    BY <2>1, <2>3 DEF Reset, TypeOK, HandType
  <2> QED BY <2>2, <2>3, OthersKeepWork
<1> QED BY <1>1, <1>2 DEF Hand

(* Numbers and clock survive every other step.                             *)
LEMMA OtherNumbers ==
  ASSUME TypeOK, Ownership, Serial, expect \in [Tracks -> Seqs],
         \A t \in Tracks : Numbers(t) /\ Clock(t),
         [Next]_vars, \A p \in Processors : ~Process(p)
  PROVE  /\ expect' \in [Tracks -> Seqs]
         /\ \A t \in Tracks : (Numbers(t) /\ Clock(t))'
<1>1. Counted
  BY DEF Counted, TypeOK, QueueType
<1>2. Send \/ ClearQueue \/ UNCHANGED <<queue, expect>>
  <2>1. CASE Upstream \/ ReaderReceive \/ ReaderFails
    BY <2>1 DEF Upstream, Produce, ReaderReceive, ReaderFails, bridge
  <2>2. CASE Reset \/ Close
    BY <2>2 DEF Reset, Close
  <2>3. CASE Application /\ ~(Reset \/ Close)
    BY <2>3 DEF Application, Seek, Position, Prepare, Mark, Activate, Collect, Expire, Switch,
                Retire, Closed, bridge
  <2>4. CASE UNCHANGED vars
    BY <2>4 DEF vars, bridge
  <2> QED BY <2>1, <2>2, <2>3, <2>4 DEF Next
<1>3. Moved(<<>>)
  BY <1>1, <1>2, TakingMoves
<1>4. <<>> \in Seq(QueuedItem)
  OBVIOUS
<1>5. expect' \in [Tracks -> Seqs]
  BY <1>1, <1>3, <1>4, MovedPlaces
<1>6. QueueClosed => QueueClosed'
  <2>1. CASE Application
    BY <2>1 DEF Application, Seek, Position, Prepare, Mark, Reset, Activate, Collect, Expire,
                Switch, Retire, Close, Closed, Command
  <2>2. CASE ~Application /\ Next
    BY <2>2, OthersKeepCustody DEF Custody
  <2>3. CASE UNCHANGED vars
    BY <2>3 DEF vars, threads
  <2> QED BY <2>1, <2>2, <2>3
<1>7. ASSUME NEW t \in Tracks
      PROVE  mapper'[t].next = mapper[t].next /\ mapper'[t].down = mapper[t].down
  <2>1. CASE Mark
    BY <2>1 DEF Mark, Discontinuity, TypeOK, MapperType, Mapper
  <2>2. CASE Upstream \/ ReaderReceive \/ ReaderFails \/ Send
    BY <2>2 DEF Upstream, Produce, ReaderReceive, ReaderFails, Send, bridge
  <2>3. CASE Application /\ ~Mark
    BY <2>3 DEF Application, Seek, Position, Prepare, Reset, Activate, Collect, Expire, Switch,
                Retire, Close, Closed, bridge
  <2>4. CASE UNCHANGED vars
    BY <2>4 DEF vars, bridge
  <2> QED BY <2>1, <2>2, <2>3, <2>4 DEF Next
<1>8. ASSUME NEW t \in Tracks
      PROVE  (Numbers(t) /\ Clock(t))'
  <2>1. \A p \in Processors : Hand(p, t)' <=> Hand(p, t)
    BY HandsKeep
  <2>2. cur' = cur
    <3>1. "app" \in Processors
      BY DEF Processors
    <3> QED BY <1>8, <3>1, HandsKeep
  <2> QED BY <1>1, <1>3, <1>6, <1>7, <2>1, <2>2, StillNumbers
<1> QED BY <1>5, <1>8

(* Taking turns: the reader has nothing in hand when the staged packets    *)
(* are processed, and nothing is queued once the queue is closed.          *)
LEMMA SerialNext ==
  ASSUME Ownership, TypeOK, Serial, [Next]_vars
  PROVE  Serial' /\ (~overlapped' => ~overlapped)
<1>1. work \in [Processors -> Seq(Packet)] /\ "reader" \in Processors
  BY DEF TypeOK, WorkType, Processors
<1>2. ~overlapped' => ~overlapped
  <2>1. CASE Reset
    BY <2>1 DEF Reset
  <2>2. CASE Application /\ ~Reset
    BY <2>2 DEF Application, Seek, Position, Prepare, Mark, Activate, Collect, Expire, Switch,
                Retire, Close, Closed, Command, ghosts
  <2>3. CASE Upstream \/ ReaderReceive \/ ReaderFails \/ Send
    BY <2>3 DEF Upstream, Produce, ReaderReceive, ReaderFails, Send, ghosts
  <2>4. ASSUME NEW p \in Processors, Process(p) PROVE UNCHANGED overlapped
    BY <2>4, Zenon DEF Process, Number, Inject, Emit, Report, ghosts
  <2>5. CASE UNCHANGED vars
    BY <2>5 DEF vars, ghosts
  <2> QED BY <2>1, <2>2, <2>3, <2>4, <2>5 DEF Next
<1>3. ASSUME apc' = "process", ~overlapped'
      PROVE  work'["reader"] = <<>>
  <2>1. CASE Reset
    <3>1. outgoing # None
      BY <1>3, <2>1 DEF Reset
    <3>2. work["reader"] = <<>> /\ work'["reader"] = work["reader"]
      BY <1>1, <1>3, <2>1, <3>1 DEF Reset
    <3> QED BY <3>2
  <2>2. CASE ~Reset
    <3>1. apc = "process"
      <4>1. CASE Application
        BY <1>3, <2>2, <4>1 DEF Application, Seek, Position, Prepare, Mark, Activate, Collect,
             Expire, Switch, Retire, Close, Closed, Command
      <4>2. CASE ~Application /\ Next
        BY <1>3, <4>2, OthersKeepCustody DEF Custody
      <4>3. CASE UNCHANGED vars
        BY <1>3, <4>3 DEF vars, threads
      <4> QED BY <4>1, <4>2, <4>3
    <3>2. work["reader"] = <<>>
      BY <1>2, <1>3, <3>1 DEF Serial
    <3>3. ~ReaderReceive
      BY <3>1 DEF ReaderReceive, ReaderMay
    <3>4. ASSUME NEW p \in Processors, Process(p)
          PROVE  work'["reader"] = work["reader"]
      <4>1. p = "app" \/ work' = work
        BY <3>2, <3>4, ProcessEffect DEF Processors, TakesUp, GoesOn, IsDone
      <4> QED BY <1>1, <3>4, <4>1, ProcessEffect DEF TakesUp, GoesOn, IsDone
    <3> QED BY <2>2, <3>2, <3>3, <3>4, OthersKeepWork
  <2> QED BY <2>1, <2>2
<1>4. ASSUME QueueClosed'
      PROVE  queue' = <<>>
  <2>1. CASE Close
    BY <2>1 DEF Close, ClearQueue
  <2>2. CASE ~Close
    <3>1. QueueClosed
      <4>1. CASE Application
        BY <1>4, <2>2, <4>1 DEF Application, Seek, Position, Prepare, Mark, Reset, Activate,
             Collect, Expire, Switch, Retire, Closed, Command
      <4>2. CASE ~Application /\ Next
        BY <1>4, <4>2, OthersKeepCustody DEF Custody
      <4>3. CASE UNCHANGED vars
        BY <1>4, <4>3 DEF vars, threads
      <4> QED BY <4>1, <4>2, <4>3
    <3>2. queue = <<>>
      BY <3>1 DEF Serial
    <3>3. ASSUME NEW p \in Processors, Process(p)
          PROVE  queue' = queue
      <4>1. UNCHANGED queue \/ \E items \in Seq(QueuedItem) : Put(items)
        BY <3>3, ProcessPuts DEF PutsInTurn
      <4> QED BY <3>1, <4>1 DEF Put
    <3>4. ~Send /\ ~Reset
      BY <3>1, <3>2 DEF Send, Reset
    <3>5. CASE Application
      BY <2>2, <3>2, <3>4, <3>5 DEF Application, Seek, Position, Prepare, Mark, Activate, Collect,
           Expire, Switch, Retire, Closed, bridge
    <3>6. CASE Upstream \/ ReaderReceive \/ ReaderFails
      BY <3>2, <3>6 DEF Upstream, Produce, ReaderReceive, ReaderFails, bridge
    <3>7. CASE UNCHANGED vars
      BY <3>2, <3>7 DEF vars, bridge
    <3> QED BY <3>2, <3>3, <3>4, <3>5, <3>6, <3>7 DEF Next
  <2> QED BY <2>1, <2>2
<1> QED BY <1>2, <1>3, <1>4 DEF Serial

-----------------------------------------------------------------------------
(* The way from the recorder to the client, step by step.                  *)

(* Packets come from a playback of the bridge.                             *)
LEMMA SourceType ==
  ASSUME Ownership
  PROVE  Source \in Sources /\ (Staging => Arriving \in Sources)
BY DEF Ownership, OwnershipType, Holding, Source, Staging, Arriving

(* The source changes only with the queue that is cleared for a handoff. *)
LEMMA SourceNext ==
  ASSUME Ownership, [Next]_vars, Reset => outgoing = None
  PROVE  Source' = Source
<1> USE SourcesAssumption DEF Ownership, OwnershipType, Holding, Source
<1>1. CASE Reset
  BY <1>1 DEF Reset
<1>2. CASE Switch \/ Mark \/ Collect \/ Close
  BY <1>2 DEF Switch, Mark, Collect, Close, bridge
<1>3. CASE Activate \/ Expire \/ Retire \/ Closed
  BY <1>3 DEF Activate, Expire, Retire, Closed, Command, bridge
<1>4. CASE (\E d \in Jumps : Seek(d) \/ Position(d)) \/ \E s \in Sources : Prepare(s)
  BY <1>4 DEF Seek, Position, Prepare, Command, bridge
<1>5. CASE ~Application /\ Next
  BY <1>5, OthersKeepCustody DEF Custody
<1>6. CASE UNCHANGED vars
  BY <1>6 DEF vars, bridge, threads
<1> QED BY <1>1, <1>2, <1>3, <1>4, <1>5, <1>6 DEF Application

(* What a playback has to hand out is what it had, or was sent just now. *)
LEMMA UpstreamGrows ==
  ASSUME Ownership, TypeOK, [Next]_vars, NEW s \in Sources
  PROVE  /\ pos'[s] \in {pos[s], pos[s] + 1}
         /\ \/ upq'[s] = upq[s]
            \/ upq'[s] = <<>>
            \/ \E x \in Packet : upq'[s] = Append(upq[s], x) /\ x.pos = pos[s]
<1>1. upq \in [Sources -> Seq(Packet)] /\ pos \in [Sources -> Nat] /\ clock \in [Sources -> Times]
  BY DEF TypeOK, UpstreamType
<1>2. CASE Upstream
  <2>1. PICK r \in Sources, t \in Tracks, kind \in {"rtp", "sr"}, d \in Ahead : Produce(r, t, kind, d)
    BY <1>2 DEF Upstream
  <2> DEFINE pkt == [track |-> t, kind |-> kind, src |-> r, pos |-> pos[r],
                     ts |-> (clock[r] + d) % TsMod]
  <2>2. pos' = pos /\ upq' = [upq EXCEPT ![r] = Append(upq[r], pkt)]
    BY <2>1, Zenon DEF Produce
  <2>3. pkt \in Packet /\ pkt.pos = pos[r]
    <3>1. (clock[r] + d) % TsMod \in Times
      <4>1. clock[r] + d \in Int
        BY <1>1, NumbersAssumption DEF Times
      <4> QED BY <4>1, TimeMasked
    <3> QED BY <1>1, <3>1 DEF Packet
  <2> HIDE DEF pkt
  <2> QED BY <1>1, <2>2, <2>3
<1>3. CASE ReaderReceive
  BY <1>1, <1>3 DEF ReaderReceive
<1>4. CASE Collect
  BY <1>1, <1>4 DEF Collect
<1>5. ASSUME NEW d \in Jumps, Seek(d) \/ Position(d)
      PROVE  upq' = upq /\ pos'[s] \in {pos[s], pos[s] + 1}
  BY <1>1, <1>5 DEF Seek, Position, Reposition
<1>6. CASE (\E r \in Sources : Prepare(r)) \/ Activate \/ Expire \/ Retire \/ Closed
  BY <1>6 DEF Prepare, Activate, Expire, Retire, Closed
<1>7. CASE ReaderFails \/ Send \/ Mark \/ Reset \/ Switch \/ Close \/ UNCHANGED vars
  BY <1>7 DEF ReaderFails, Send, Mark, Reset, Switch, Close, vars, upstream
<1>8. ASSUME NEW p \in Processors, Process(p)
      PROVE  UNCHANGED upstream
  BY <1>8, Zenon DEF Process, Number, Inject, Emit, Report
<1> QED BY <1>2, <1>3, <1>4, <1>5, <1>6, <1>7, <1>8 DEF Next, Application, upstream

(* What came before all that a playback has to hand out still does.        *)
LEMMA BehindNext ==
  ASSUME Ownership, TypeOK, [Next]_vars, NEW s \in Sources, NEW n \in Nat, Behind(n, s)
  PROVE  n <= pos'[s] /\ \A j \in DOMAIN upq'[s] : n <= upq'[s][j].pos
<1>1. upq[s] \in Seq(Packet) /\ pos[s] \in Nat
  BY DEF TypeOK, UpstreamType
<1>2. n <= pos'[s]
  BY <1>1, UpstreamGrows DEF Behind
<1>3. ASSUME NEW x \in Packet, upq'[s] = Append(upq[s], x), x.pos = pos[s], NEW j \in DOMAIN upq'[s]
      PROVE  n <= upq'[s][j].pos
  <2>1. CASE j \in DOMAIN upq[s]
    <3>1. upq'[s][j] = upq[s][j]
      BY <1>1, <1>3, <2>1
    <3> QED BY <2>1, <3>1 DEF Behind
  <2>2. CASE j \notin DOMAIN upq[s]
    <3>1. upq'[s][j] = x
      BY <1>1, <1>3, <2>2
    <3> QED BY <1>3, <3>1 DEF Behind
  <2> QED BY <2>1, <2>2
<1>4. upq'[s] = upq[s] \/ upq'[s] = <<>> => \A j \in DOMAIN upq'[s] : n <= upq'[s][j].pos
  BY DEF Behind
<1> QED BY <1>2, <1>3, <1>4, UpstreamGrows

(* The packets a playback has to hand out are in the order of their        *)
(* positions.                                                              *)
LEMMA UpstreamFlow ==
  ASSUME Ownership, TypeOK, Origin, [Next]_vars, \A s \in Sources : InOrder(upq[s])
  PROVE  \A s \in Sources : InOrder(upq'[s])
<1> SUFFICES ASSUME NEW s \in Sources
             PROVE  InOrder(upq'[s])
  OBVIOUS
<1>1. upq[s] \in Seq(Packet) /\ pos[s] \in Nat
  BY DEF TypeOK, UpstreamType
<1>2. \A i \in DOMAIN upq[s] : upq[s][i].pos <= pos[s]
  BY DEF Origin, Past
<1>3. ASSUME NEW x \in Packet, upq'[s] = Append(upq[s], x), x.pos = pos[s]
      PROVE  InOrder(upq'[s])
  <2>1. ASSUME NEW i \in DOMAIN upq'[s], NEW j \in DOMAIN upq'[s], i < j
        PROVE  upq'[s][i].pos <= upq'[s][j].pos
    <3>1. i \in DOMAIN upq[s] /\ upq'[s][i] = upq[s][i]
      BY <1>1, <1>3, <2>1
    <3>2. CASE j \in DOMAIN upq[s]
      <4>1. upq'[s][j] = upq[s][j]
        BY <1>1, <1>3, <3>2
      <4> QED BY <2>1, <3>1, <3>2, <4>1 DEF InOrder
    <3>3. CASE j \notin DOMAIN upq[s]
      <4>1. upq'[s][j] = x
        BY <1>1, <1>3, <2>1, <3>3
      <4> QED BY <1>2, <1>3, <3>1, <4>1
    <3> QED BY <3>2, <3>3
  <2> QED BY <2>1 DEF InOrder
<1>4. upq'[s] = upq[s] \/ upq'[s] = <<>> => InOrder(upq'[s])
  BY DEF InOrder
<1> QED BY <1>3, <1>4, UpstreamGrows

(* What flows goes on flowing if it is left where it is. *)
LEMMA FlowingNext ==
  ASSUME Ownership, TypeOK, [Next]_vars, NEW q \in Seq(Packet), NEW s \in Sources, Flowing(q, s)
  PROVE  \A i \in DOMAIN q :
           q[i].pos <= pos'[s] /\ \A j \in DOMAIN upq'[s] : q[i].pos <= upq'[s][j].pos
<1> SUFFICES ASSUME NEW i \in DOMAIN q
             PROVE  q[i].pos <= pos'[s] /\ \A j \in DOMAIN upq'[s] : q[i].pos <= upq'[s][j].pos
  OBVIOUS
<1>1. q[i] \in Packet
  OBVIOUS
<1>2. q[i].pos \in Nat /\ Behind(q[i].pos, s)
  BY <1>1 DEF Packet, Flowing
<1> QED BY <1>2, BehindNext

(* The batch in the hands of a thread flows from the source of the moment. *)
LEMMA WorkFlow ==
  ASSUME Ownership, TypeOK, Origin, Serial, FlowInv, [Next]_vars, ~overlapped, ~overlapped',
         NEW p \in Processors
  PROVE  Flowing(work[p], Source)'
<1>1. /\ work \in [Processors -> Seq(Packet)] /\ Source \in Sources /\ Flowing(work[p], Source)
      /\ upq \in [Sources -> Seq(Packet)] /\ staged \in Seq(Packet)
  BY SourceType DEF TypeOK, WorkType, UpstreamType, FlowInv
<1>2. CASE work'[p] = work[p] /\ Source' = Source
  <2>1. work[p] \in Seq(Packet)
    BY <1>1
  <2>2. \A i \in DOMAIN work[p] :
          /\ work[p][i].pos <= pos'[Source]
          /\ \A j \in DOMAIN upq'[Source] : work[p][i].pos <= upq'[Source][j].pos
    BY <1>1, <2>1, FlowingNext
  <2> QED BY <1>1, <1>2, <2>2 DEF Flowing, Behind, InOrder
<1>3. CASE work'[p] = <<>>
  BY <1>3 DEF Flowing, InOrder
<1>4. CASE work[p] # <<>> /\ work'[p] = Tail(work[p]) /\ Source' = Source /\ UNCHANGED upstream
  <2>1. \A i \in DOMAIN work'[p] : i \in Int /\ i + 1 \in DOMAIN work[p] /\ work'[p][i] = work[p][i + 1]
    BY <1>1, <1>4, BatchType
  <2>2. \A i, j \in Int : i < j => i + 1 < j + 1
    OBVIOUS
  <2>3. InOrder(work'[p])
    BY <1>1, <2>1, <2>2 DEF InOrder, Flowing
  <2>4. ASSUME NEW i \in DOMAIN work'[p]
        PROVE  /\ work'[p][i].src = Source'
               /\ work'[p][i].pos <= pos'[Source']
               /\ \A j \in DOMAIN upq'[Source'] : work'[p][i].pos <= upq'[Source'][j].pos
    BY <1>1, <1>4, <2>1 DEF Flowing, Behind, upstream
  <2> QED BY <2>3, <2>4 DEF Flowing, Behind
<1>5. CASE ReaderReceive
  <2>1. CASE p = "reader"
    <3>1. Source = playback /\ playback \in Sources /\ Source' = Source
      <4>1. Source' = Source
        BY <1>5, SourceNext DEF ReaderReceive, ReaderMay, Reset
      <4> QED BY <1>5, <4>1 DEF ReaderReceive, ReaderMay, Source, Ownership, OwnershipType
    <3>2. /\ work'[p] = upq[playback] /\ upq'[playback] = <<>> /\ pos' = pos
      BY <1>1, <1>5, <2>1, <3>1 DEF ReaderReceive
    <3>3. /\ InOrder(upq[playback])
          /\ \A i \in DOMAIN upq[playback] :
               upq[playback][i].src = playback /\ upq[playback][i].pos <= pos[playback]
      BY <3>1 DEF FlowInv, Origin, Past
    <3> QED BY <3>1, <3>2, <3>3 DEF Flowing, Behind
  <2>2. CASE p # "reader"
    <3>1. work'[p] = work[p] /\ Source' = Source
      BY <1>1, <1>5, <2>2, SourceNext DEF ReaderReceive, ReaderMay, Reset
    <3> QED BY <1>2, <3>1
  <2> QED BY <2>1, <2>2
<1>6. CASE Reset
  <2>1. CASE outgoing = None
    <3>1. work' = work /\ Source' = Source
      BY <1>6, <2>1, SourceNext DEF Reset
    <3> QED BY <1>2, <3>1
  <2>2. CASE outgoing # None
    <3>1. /\ work' = [work EXCEPT !["app"] = staged] /\ work["reader"] = <<>> /\ UNCHANGED upstream
          /\ apc' = "process" /\ apc = "reset" /\ playback' = playback
      BY <1>6, <2>2 DEF Reset
    <3>2. CASE p = "reader"
      BY <1>1, <1>3, <3>1, <3>2
    <3>3. CASE p = "app"
      <4>1. Staging /\ Arriving = playback /\ Source' = playback
        BY <2>2, <3>1 DEF Staging, Arriving, Source
      <4>2. work'[p] = staged /\ Flowing(staged, playback)
        BY <1>1, <3>1, <3>3, <4>1 DEF FlowInv
      <4> QED BY <3>1, <4>1, <4>2 DEF Flowing, Behind, upstream
    <3> QED BY <3>2, <3>3 DEF Processors
  <2> QED BY <2>1, <2>2
<1>7. ASSUME NEW q \in Processors, Process(q)
      PROVE  Flowing(work[p], Source)'
  <2>1. Source' = Source /\ UNCHANGED upstream
    BY <1>7, InTurn DEF Source
  <2>2. \/ work'[p] = work[p]
        \/ work[p] # <<>> /\ work'[p] = Tail(work[p])
    BY <1>1, <1>7, ProcessEffect DEF TakesUp, GoesOn, IsDone
  <2> QED BY <1>2, <1>4, <2>1, <2>2
<1>8. CASE ~Reset /\ UNCHANGED work
  BY <1>2, <1>8, SourceNext
<1> QED BY <1>5, <1>6, <1>7, <1>8, OthersKeepWork

(* Batches that follow one another, and the newest packets of them. *)
LEMMA FlowingConcat ==
  ASSUME TypeOK, Origin, NEW q \in Seq(Packet), NEW s \in Sources, Flowing(q, s), InOrder(upq[s]),
         NEW n \in Nat
  PROVE  LET new == Newest(q \o upq[s], n)
         IN  InOrder(new) /\ \A i \in DOMAIN new : new[i].src = s /\ new[i].pos <= pos[s]
<1> DEFINE batch == upq[s]
           all == q \o batch
           over == IF Len(all) > n THEN Len(all) - n ELSE 0
           new == Newest(all, n)
<1>1. batch \in Seq(Packet) /\ \A i \in DOMAIN batch : batch[i].src = s /\ batch[i].pos <= pos[s]
  BY DEF TypeOK, UpstreamType, Origin, Past
<1>2. \A i \in DOMAIN q : /\ q[i].src = s /\ q[i].pos <= pos[s]
                          /\ \A j \in DOMAIN batch : q[i].pos <= batch[j].pos
  BY DEF Flowing, Behind
<1>3. InOrder(q) /\ InOrder(batch)
  BY DEF Flowing
<1> HIDE DEF batch
<1>4. /\ all \in Seq(Packet) /\ Len(all) = Len(q) + Len(batch)
      /\ \A i \in 1..Len(q) : all[i] = q[i]
      /\ \A i \in 1..Len(batch) : all[Len(q) + i] = batch[i]
  BY <1>1
<1> HIDE DEF all
<1>5. ASSUME NEW i \in 1..Len(all)
      PROVE  \/ i \in DOMAIN q /\ all[i] = q[i]
             \/ i - Len(q) \in DOMAIN batch /\ all[i] = batch[i - Len(q)] /\ i > Len(q)
  <2>1. CASE i <= Len(q)
    <3>1. i \in 1..Len(q)
      BY <2>1
    <3> QED BY <1>4, <3>1
  <2>2. CASE ~(i <= Len(q))
    <3>1. i - Len(q) \in 1..Len(batch) /\ Len(q) + (i - Len(q)) = i /\ i > Len(q)
      BY <1>1, <1>4, <2>2
    <3> QED BY <1>1, <1>4, <3>1
  <2> QED BY <2>1, <2>2
<1>6. \A i \in 1..Len(all) : all[i].src = s /\ all[i].pos <= pos[s]
  BY <1>1, <1>2, <1>5
<1>7. ASSUME NEW i \in 1..Len(all), NEW j \in 1..Len(all), i < j
      PROVE  all[i].pos <= all[j].pos
  <2>1. CASE i \in DOMAIN q /\ all[i] = q[i]
    <3>1. CASE j \in DOMAIN q /\ all[j] = q[j]
      BY <1>3, <1>7, <2>1, <3>1 DEF InOrder
    <3>2. CASE j - Len(q) \in DOMAIN batch /\ all[j] = batch[j - Len(q)]
      BY <1>2, <2>1, <3>2
    <3> QED BY <1>5, <3>1, <3>2
  <2>2. CASE i - Len(q) \in DOMAIN batch /\ all[i] = batch[i - Len(q)] /\ i > Len(q)
    <3>1. ~(j \in DOMAIN q)
      BY <1>7, <2>2
    <3>2. j - Len(q) \in DOMAIN batch /\ all[j] = batch[j - Len(q)]
      BY <1>5, <3>1
    <3>3. i - Len(q) < j - Len(q)
      BY <1>7
    <3> QED BY <1>3, <2>2, <3>2, <3>3 DEF InOrder
  <2> QED BY <1>5, <2>1, <2>2
<1>8. over \in Nat /\ over <= Len(all)
  BY <1>4
<1>9. new = SubSeq(all, over + 1, Len(all))
  <2>1. over + 1 = 1 + over
    BY <1>8
  <2> QED BY <2>1, Zenon DEF Newest
<1> HIDE DEF over, new
<1>10. \A i \in DOMAIN new : i \in Nat /\ i + over \in 1..Len(all) /\ new[i] = all[i + over]
  BY <1>4, <1>8, <1>9, SuffixType
<1>11. \A i, j \in Nat : i < j => i + over < j + over
  BY <1>8
<1>12. InOrder(new)
  BY <1>7, <1>10, <1>11 DEF InOrder
<1>13. \A i \in DOMAIN new : new[i].src = s /\ new[i].pos <= pos[s]
  BY <1>6, <1>10
<1> QED BY <1>12, <1>13 DEF new, all, batch

(* The staged packets flow from the incoming playback.                     *)
LEMMA StagedFlow ==
  ASSUME Ownership, TypeOK, Origin, FlowInv, [Next]_vars, Staging'
  PROVE  Flowing(staged, Arriving)'
<1> USE SourcesAssumption
<1>1. staged \in Seq(Packet) /\ upq \in [Sources -> Seq(Packet)]
  BY DEF TypeOK, WorkType, UpstreamType
<1>2. CASE Collect
  <2>1. /\ Staging /\ Arriving = prepared /\ prepared \in Sources
        /\ Arriving' = prepared /\ pos' = pos /\ upq'[prepared] = <<>>
        /\ staged' = Newest(staged \o upq[prepared], HandoffLimit)
    BY <1>1, <1>2 DEF Collect, Staging, Arriving, bridge, Ownership, OwnershipType, Holding
  <2>2. Flowing(staged, prepared) /\ InOrder(upq[prepared])
    BY <2>1 DEF FlowInv
  <2>3. /\ InOrder(staged')
        /\ \A i \in DOMAIN staged' : staged'[i].src = prepared /\ staged'[i].pos <= pos[prepared]
    BY <1>1, <2>1, <2>2, FlowingConcat, LimitsAssumption
  <2> QED BY <2>1, <2>3 DEF Flowing, Behind
<1>3. CASE Activate
  BY <1>3 DEF Activate, Flowing, InOrder
<1>4. CASE Staging /\ staged' = staged /\ Arriving' = Arriving
  <2>1. Arriving \in Sources /\ Flowing(staged, Arriving)
    BY <1>4, SourceType DEF FlowInv
  <2>2. \A i \in DOMAIN staged :
          /\ staged[i].pos <= pos'[Arriving]
          /\ \A j \in DOMAIN upq'[Arriving] : staged[i].pos <= upq'[Arriving][j].pos
    BY <1>1, <2>1, FlowingNext
  <2> QED BY <1>4, <2>1, <2>2 DEF Flowing, Behind, InOrder
<1>5. CASE Mark \/ Switch
  BY <1>4, <1>5 DEF Mark, Switch, Staging, Arriving, Ownership, OwnershipType
<1>6. ~Reset /\ ~Retire /\ ~Close /\ ~Closed /\ ~Expire /\ ~(\E s \in Sources : Prepare(s))
      /\ ~(\E d \in Jumps : Seek(d) \/ Position(d))
  BY DEF Reset, Retire, Close, Closed, Expire, Prepare, Seek, Position, Staging, Command, bridge,
         Ownership, Holding
<1>7. CASE Application
  BY <1>2, <1>3, <1>5, <1>6, <1>7 DEF Application
<1>8. CASE ~Application /\ Next
  <2>1. Staging /\ Arriving' = Arriving
    BY <1>8, OthersKeepCustody DEF Custody, Staging, Arriving
  <2>2. staged' = staged
    <3>1. CASE Upstream \/ ReaderReceive \/ ReaderFails \/ Send
      BY <3>1 DEF Upstream, Produce, ReaderReceive, ReaderFails, Send, threads
    <3>2. ASSUME NEW p \in Processors, Process(p) PROVE UNCHANGED staged
      BY <3>2, Zenon DEF Process, Number, Inject, Emit, Report
    <3> QED BY <1>8, <3>1, <3>2 DEF Next
  <2> QED BY <1>4, <2>1, <2>2
<1>9. CASE UNCHANGED vars
  BY <1>4, <1>9 DEF vars, bridge, threads, Staging, Arriving
<1> QED BY <1>7, <1>8, <1>9

(* Media in the queue before a step, seen after it. *)
LEMMA QueuedBefore ==
  ASSUME Ownership, TypeOK, FlowInv, [Next]_vars, NEW i \in DOMAIN queue, Media(i)
  PROVE  /\ queue[i].src = Source /\ queue[i].pos \in Nat
         /\ queue[i].pos <= pos'[Source]
         /\ \A j \in DOMAIN upq'[Source] : queue[i].pos <= upq'[Source][j].pos
         /\ \A j \in DOMAIN queue : i < j /\ Media(j) => queue[i].pos <= queue[j].pos
         /\ \A p \in Processors : \A j \in DOMAIN work[p] : queue[i].pos <= work[p][j].pos
<1>1. queue[i] \in QueuedItem
  BY DEF TypeOK, QueueType
<1>2. queue[i].pos \in Nat
  BY <1>1 DEF QueuedItem
<1>3. /\ queue[i].src = Source /\ Behind(queue[i].pos, Source)
      /\ \A j \in DOMAIN queue : i < j /\ Media(j) => queue[i].pos <= queue[j].pos
      /\ \A p \in Processors : \A j \in DOMAIN work[p] : queue[i].pos <= work[p][j].pos
  BY DEF FlowInv, QueueInOrder
<1>4. queue[i].pos <= pos'[Source] /\ \A j \in DOMAIN upq'[Source] : queue[i].pos <= upq'[Source][j].pos
  BY <1>2, <1>3, SourceType, BehindNext
<1> QED BY <1>2, <1>3, <1>4

(* What a thread puts comes after all that is queued. *)
LEMMA ProcessQueueFlow ==
  ASSUME Ownership, TypeOK, Origin, Serial, Serial', FlowInv, [Next]_vars, ~overlapped,
         expect \in [Tracks -> Seqs], NEW p \in Processors, Process(p)
  PROVE  QueueInOrder'
<1>1. /\ Counted /\ queue \in Seq(QueuedItem) /\ work \in [Processors -> Seq(Packet)]
      /\ Source \in Sources
  BY SourceType DEF Counted, TypeOK, QueueType, WorkType
<1>2. /\ Alone(p) /\ Source' = Source /\ apc' = apc
      /\ pos' = pos /\ upq' = upq
  BY InTurn DEF Source, upstream
<1>3. CASE QueueClosed
  BY <1>2, <1>3 DEF Serial, QueueInOrder
<1>4. CASE ~QueueClosed
  <2> DEFINE pkt == Head(work[p])
  <2>1. PICK items \in Seq(QueuedItem) :
          /\ Put(items) \/ (items = <<>> /\ UNCHANGED <<queue, expect>>)
          /\ Borne(p, items)
    BY ProcessPuts, Zenon DEF PutsInTurn
  <2>2. Moved(items)
    BY <1>1, <1>4, <2>1, PutMoves, TakingMoves
  <2>3. PICK k \in Nat : \A i \in DOMAIN queue' :
          /\ i \in Nat
          /\ \/ i + k \in DOMAIN queue /\ queue'[i] = queue[i + k]
             \/ /\ (i + k) - Len(queue) \in DOMAIN items /\ (i + k) - Len(queue) \in Nat \ {0}
                /\ queue'[i] = items[(i + k) - Len(queue)]
    BY <1>1, <2>2, MovedPlaces
  <2>4. work[p] # <<>>
    BY ProcessEffect DEF TypeOK, HandType, TakesUp, GoesOn, IsDone
  <2>5. /\ 1 \in DOMAIN work[p] /\ pkt = work[p][1] /\ pkt \in Packet
        /\ \A i \in DOMAIN Tail(work[p]) : i + 1 \in DOMAIN work[p] /\ Tail(work[p])[i] = work[p][i + 1]
    BY <2>4, BatchType
  <2>6. Flowing(work[p], Source)
    BY DEF FlowInv
  <2>7. /\ pkt.src = Source /\ pkt.pos \in Nat /\ pkt.pos <= pos[Source]
        /\ \A j \in DOMAIN upq[Source] : pkt.pos <= upq[Source][j].pos
    BY <2>5, <2>6 DEF Flowing, Behind, Packet
  <2>8. \A j \in DOMAIN work[p] : pkt.pos <= work[p][j].pos
    <3>1. ASSUME NEW j \in DOMAIN work[p] PROVE pkt.pos <= work[p][j].pos
      <4>1. j = 1 \/ 1 < j
        BY <1>1
      <4>2. CASE j = 1
        BY <2>5, <2>7, <4>2
      <4>3. CASE 1 < j
        BY <2>5, <2>6, <4>3 DEF Flowing, InOrder
      <4> QED BY <4>1, <4>2, <4>3
    <3> QED BY <3>1
  <2>9. \A q \in Processors : \A j \in DOMAIN work'[q] :
          q = p /\ \E h \in DOMAIN work[p] : work'[q][j] = work[p][h]
    <3>1. ASSUME NEW q \in Processors, q # p PROVE DOMAIN work'[q] = {}
      BY <1>2, <3>1 DEF Alone
    <3>2. work'[p] = work[p] \/ work'[p] = Tail(work[p])
      BY <1>1, ProcessEffect DEF TakesUp, GoesOn, IsDone
    <3> QED BY <2>5, <3>1, <3>2
  <2> HIDE DEF pkt
  <2> DEFINE Old(i) == i + k \in DOMAIN queue /\ Media(i + k) /\ queue'[i] = queue[i + k]
             New(i) == i + k > Len(queue) /\ queue'[i].src = pkt.src /\ queue'[i].pos = pkt.pos
  <2>10. ASSUME NEW i \in DOMAIN queue', Media(i)'
         PROVE  i \in Nat /\ (Old(i) \/ New(i))
    <3>1. i \in Nat
      BY <2>3
    <3>2. CASE i + k \in DOMAIN queue /\ queue'[i] = queue[i + k]
      BY <2>10, <3>1, <3>2 DEF Media
    <3>3. CASE /\ (i + k) - Len(queue) \in DOMAIN items /\ (i + k) - Len(queue) \in Nat \ {0}
               /\ queue'[i] = items[(i + k) - Len(queue)]
      <4>1. items[(i + k) - Len(queue)].kind \in {"rtp", "init"}
        BY <2>10, <3>3 DEF Media
      <4>2. queue'[i].src = pkt.src /\ queue'[i].pos = pkt.pos
        BY <2>1, <3>3, <4>1 DEF Borne, pkt
      <4>3. i + k > Len(queue)
        BY <1>1, <3>1, <3>3
      <4> QED BY <3>1, <4>2, <4>3
    <3> QED BY <2>3, <3>2, <3>3
  <2>11. \A i \in Nat : i + k \in DOMAIN queue => ~(i + k > Len(queue))
    BY <1>1
  <2>12. ASSUME NEW i \in DOMAIN queue', Media(i)'
         PROVE  /\ queue'[i].src = Source /\ queue'[i].pos <= pos[Source]
                /\ \A j \in DOMAIN upq[Source] : queue'[i].pos <= upq[Source][j].pos
                /\ queue'[i].pos <= pkt.pos
                /\ \A j \in DOMAIN work[p] : queue'[i].pos <= work[p][j].pos
    <3>1. CASE Old(i)
      <4>1. /\ queue[i + k].src = Source /\ queue[i + k].pos <= pos'[Source]
            /\ \A j \in DOMAIN upq'[Source] : queue[i + k].pos <= upq'[Source][j].pos
            /\ \A j \in DOMAIN work[p] : queue[i + k].pos <= work[p][j].pos
        BY <3>1, QueuedBefore
      <4> QED BY <1>2, <2>5, <3>1, <4>1 DEF pkt
    <3>2. CASE New(i)
      BY <2>7, <2>8, <3>2
    <3> QED BY <2>10, <2>12, <3>1, <3>2
  <2>13. ASSUME NEW i \in DOMAIN queue', Media(i)', NEW j \in DOMAIN queue', Media(j)', i < j
         PROVE  queue'[i].pos <= queue'[j].pos
    <3>1. CASE New(j)
      BY <2>12, <2>13, <3>1
    <3>2. CASE Old(j)
      <4>1. i \in Nat /\ j \in Nat /\ i + k < j + k
        BY <2>10, <2>13
      <4>2. ~New(i)
        BY <1>1, <3>2, <4>1
      <4>3. Old(i)
        BY <2>10, <2>13, <4>2
      <4> HIDE DEF Media
      <4>4. queue[i + k].pos <= queue[j + k].pos
        BY <3>2, <4>1, <4>3, QueuedBefore
      <4> QED BY <3>2, <4>3, <4>4
    <3> QED BY <2>10, <2>13, <3>1, <3>2
  <2>14. ASSUME NEW i \in DOMAIN queue', Media(i)', NEW q \in Processors, NEW j \in DOMAIN work'[q]
         PROVE  queue'[i].pos <= work'[q][j].pos
    BY <2>9, <2>12, <2>14
  <2> QED BY <1>2, <2>12, <2>13, <2>14 DEF QueueInOrder, Behind
<1> QED BY <1>3, <1>4

(* The others only take packets from the queue, and batches from what has  *)
(* been received since.                                                    *)
LEMMA OtherQueueFlow ==
  ASSUME Ownership, TypeOK, Origin, Serial, FlowInv, [Next]_vars, ~overlapped,
         expect \in [Tracks -> Seqs], \A p \in Processors : ~Process(p)
  PROVE  QueueInOrder'
<1>1. /\ Counted /\ queue \in Seq(QueuedItem) /\ work \in [Processors -> Seq(Packet)]
      /\ Source \in Sources
  BY SourceType DEF Counted, TypeOK, QueueType, WorkType
<1>2. CASE queue' = <<>>
  BY <1>2 DEF QueueInOrder
<1>3. CASE queue' # <<>>
  <2>1. ~Reset
    BY <1>3 DEF Reset, ClearQueue
  <2>2. Source' = Source
    BY <2>1, SourceNext
  <2>3. Send \/ UNCHANGED <<queue, expect>>
    <3>1. CASE Upstream \/ ReaderReceive \/ ReaderFails
      BY <3>1 DEF Upstream, Produce, ReaderReceive, ReaderFails, bridge
    <3>2. ~Close
      BY <1>3 DEF Close, ClearQueue
    <3>3. CASE Application
      BY <2>1, <3>2, <3>3 DEF Application, Seek, Position, Prepare, Mark, Activate, Collect,
                  Expire, Switch, Retire, Closed, bridge
    <3>4. CASE UNCHANGED vars
      BY <3>4 DEF vars, bridge
    <3> QED BY <3>1, <3>3, <3>4 DEF Next
  <2>4. Moved(<<>>)
    BY <1>1, <2>3, TakingMoves
  <2>5. PICK k \in Nat : \A i \in DOMAIN queue' :
          i \in Nat /\ i + k \in DOMAIN queue /\ queue'[i] = queue[i + k]
    <3>1. <<>> \in Seq(QueuedItem) /\ DOMAIN <<>> = {}
      OBVIOUS
    <3>2. \E k \in Nat : \A i \in DOMAIN queue' :
            /\ i \in Nat
            /\ \/ i + k \in DOMAIN queue /\ queue'[i] = queue[i + k]
               \/ /\ (i + k) - Len(queue) \in DOMAIN <<>> /\ (i + k) - Len(queue) \in Nat \ {0}
                  /\ queue'[i] = <<>>[(i + k) - Len(queue)]
      BY <1>1, <2>4, <3>1, MovedPlaces
    <3> QED BY <3>1, <3>2
  <2>6. \A p \in Processors : work'[p] = work[p] \/ (p = "reader" /\ ReaderReceive)
    BY <1>1, <2>1, OthersKeepWork DEF ReaderReceive
  <2>7. ASSUME NEW i \in DOMAIN queue', Media(i)'
        PROVE  /\ i + k \in DOMAIN queue /\ Media(i + k) /\ queue'[i] = queue[i + k]
               /\ queue[i + k].src = Source /\ queue[i + k].pos <= pos'[Source]
               /\ \A j \in DOMAIN upq'[Source] : queue[i + k].pos <= upq'[Source][j].pos
               /\ \A j \in DOMAIN queue : i + k < j /\ Media(j) => queue[i + k].pos <= queue[j].pos
               /\ \A p \in Processors : \A j \in DOMAIN work[p] : queue[i + k].pos <= work[p][j].pos
    <3>1. i + k \in DOMAIN queue /\ Media(i + k) /\ queue'[i] = queue[i + k]
      BY <2>5, <2>7 DEF Media
    <3> QED BY <3>1, QueuedBefore
  <2>8. ASSUME NEW i \in DOMAIN queue', Media(i)', NEW j \in DOMAIN queue', Media(j)', i < j
        PROVE  queue'[i].pos <= queue'[j].pos
    <3>1. i + k < j + k
      BY <2>5, <2>8
    <3> QED BY <2>7, <2>8, <3>1
  <2>9. ASSUME NEW i \in DOMAIN queue', Media(i)', NEW p \in Processors, NEW j \in DOMAIN work'[p]
        PROVE  queue'[i].pos <= work'[p][j].pos
    <3>1. CASE work'[p] = work[p]
      BY <2>7, <2>9, <3>1
    <3>2. CASE p = "reader" /\ ReaderReceive
      <4>1. work'[p] = upq[playback] /\ Source = playback
        BY <1>1, <3>2 DEF ReaderReceive, ReaderMay, Source
      <4>2. Behind(queue[i + k].pos, Source)
        BY <2>7, <2>9 DEF FlowInv, QueueInOrder
      <4>3. queue'[i] = queue[i + k]
        BY <2>7, <2>9
      <4> QED BY <2>9, <4>1, <4>2, <4>3 DEF Behind
    <3> QED BY <2>6, <3>1, <3>2
  <2> QED BY <2>2, <2>7, <2>8, <2>9 DEF QueueInOrder, Behind
<1> QED BY <1>2, <1>3

-----------------------------------------------------------------------------
(* Together. *)

(* Nothing is queued or under way to begin with, and the numbers start     *)
(* where the mappers do.                                                   *)
LEMMA ContinuityInit == Init => Continuity
<1> SUFFICES ASSUME Init PROVE Continuity
  OBVIOUS
<1>1. /\ queue = <<>> /\ \A p \in Processors : work[p] = <<>> /\ cur[p].step = "idle"
      /\ expect = [t \in Tracks |-> FirstSeq] /\ \A t \in Tracks : mapper[t].next = FirstSeq
  BY DEF Init, Idle, NewMapper
<1>2. /\ apc = "idle" /\ \A s \in Sources : upq[s] = <<>>
  BY DEF Init
<1>3. Serial
  BY <1>1, <1>2 DEF Serial, Processors
<1>4. FlowInv
  <2>1. \A s \in Sources : InOrder(upq[s])
    BY <1>2 DEF InOrder
  <2>2. \A p \in Processors : Flowing(work[p], Source)
    BY <1>1 DEF Flowing, InOrder
  <2>3. ~Staging
    BY <1>2 DEF Staging
  <2>4. QueueInOrder
    BY <1>1 DEF QueueInOrder
  <2> QED BY <2>1, <2>2, <2>3, <2>4 DEF FlowInv
<1>5. expect \in [Tracks -> Seqs]
  BY <1>1, NumbersAssumption DEF Seqs
<1>6. ASSUME NEW t \in Tracks
      PROVE  Numbers(t) /\ Clock(t)
  <2>1. Numbered(queue, t) = {} /\ DOMAIN queue = {}
    BY <1>1 DEF Numbered
  <2>2. Count(queue, t) = 0
    BY <2>1, FS_EmptySet DEF Count
  <2>3. Following(t) = FirstSeq
    <3>1. FirstSeq \in 0 .. SeqMod - 1 /\ SeqMod \in Nat \ {0} /\ FirstSeq + 0 = FirstSeq
      BY NumbersAssumption
    <3>2. FirstSeq % SeqMod = FirstSeq
      BY <3>1, ModSmall
    <3> QED BY <1>1, <2>2, <3>1, <3>2, Zenon DEF Following
  <2>4. \A p \in Processors : ~Hand(p, t)
    BY <1>1 DEF Hand
  <2>5. Numbers(t)
    BY <1>1, <2>1, <2>3, <2>4 DEF Numbers, Sequential
  <2>6. Clock(t)
    BY <2>1, <2>4 DEF Clock, Chained
  <2> QED BY <2>5, <2>6
<1> QED BY <1>3, <1>4, <1>5, <1>6 DEF Continuity

(* Every step keeps the order, the numbers and the clock.                  *)
LEMMA ContinuityNext ==
  ASSUME Ownership, TypeOK, Origin, Continuity, [Next]_vars
  PROVE  Continuity'
<1>1. Serial' /\ (~overlapped' => ~overlapped)
  BY SerialNext DEF Continuity
<1> SUFFICES ASSUME ~overlapped'
             PROVE  /\ FlowInv'
                    /\ expect' \in [Tracks -> Seqs]
                    /\ \A t \in Tracks : (Numbers(t) /\ Clock(t))'
  BY <1>1 DEF Continuity
<1>2. /\ Serial /\ ~overlapped /\ FlowInv /\ expect \in [Tracks -> Seqs]
      /\ \A t \in Tracks : Numbers(t) /\ Clock(t)
  BY <1>1 DEF Continuity
<1>3. \A s \in Sources : InOrder(upq'[s])
  BY <1>2, UpstreamFlow DEF FlowInv
<1>4. \A p \in Processors : Flowing(work[p], Source)'
  BY <1>2, WorkFlow
<1>5. Staging' => Flowing(staged, Arriving)'
  BY <1>2, StagedFlow
<1>6. ASSUME QueueInOrder'
      PROVE  FlowInv'
  BY <1>3, <1>4, <1>5, <1>6 DEF FlowInv, InOrder
<1>7. ASSUME NEW p \in Processors, Process(p)
      PROVE  /\ FlowInv'
             /\ expect' \in [Tracks -> Seqs]
             /\ \A t \in Tracks : (Numbers(t) /\ Clock(t))'
  <2>1. QueueInOrder'
    BY <1>1, <1>2, <1>7, ProcessQueueFlow
  <2>2. /\ expect' \in [Tracks -> Seqs]
        /\ \A t \in Tracks : (Numbers(t) /\ Clock(t))'
    BY <1>2, <1>7, ProcessNumbers
  <2> QED BY <1>6, <2>1, <2>2
<1>8. CASE \A p \in Processors : ~Process(p)
  <2>1. QueueInOrder'
    BY <1>2, <1>8, OtherQueueFlow
  <2>2. /\ expect' \in [Tracks -> Seqs]
        /\ \A t \in Tracks : (Numbers(t) /\ Clock(t))'
    BY <1>2, <1>8, OtherNumbers
  <2> QED BY <1>6, <2>1, <2>2
<1> QED BY <1>7, <1>8

(* What the client is sent. *)
LEMMA ContinuityStable ==
  ASSUME Ownership, TypeOK, Continuity
  PROVE  IdentityIsStable
<1> SUFFICES ASSUME ~overlapped, NEW t \in Tracks
             PROVE  LET q == Numbered(queue, t)
                    IN  /\ \A i \in q : queue[i].seq = (expect[t] + Rank(i, q)) % SeqMod
                        /\ \A i, j \in q :
                             /\ Adjacent(i, j, q) =>
                                  (queue[j].ts - queue[i].ts) % TsMod <= 2 * ClockRate
                             /\ i < j => ~Older(queue[j], queue[i])
                        /\ (\A p \in Processors : cur[p].step = "idle") /\ ~QueueClosed =>
                             mapper[t].next = (expect[t] + Count(queue, t)) % SeqMod
  BY Zenon DEF IdentityIsStable
<1>1. FlowInv /\ Numbers(t) /\ Clock(t)
  BY DEF Continuity
<1>2. \A i \in Numbered(queue, t) :
        queue[i].seq = (expect[t] + Rank(i, Numbered(queue, t))) % SeqMod
  BY <1>1, Zenon DEF Numbers, Sequential
<1>3. ASSUME NEW i \in Numbered(queue, t), NEW j \in Numbered(queue, t),
             Adjacent(i, j, Numbered(queue, t))
      PROVE  (queue[j].ts - queue[i].ts) % TsMod <= 2 * ClockRate
  BY <1>1, <1>3, Zenon DEF Clock, Chained, Near
<1>4. ASSUME NEW i \in Numbered(queue, t), NEW j \in Numbered(queue, t), i < j
      PROVE  ~Older(queue[j], queue[i])
  <2>1. i \in DOMAIN queue /\ j \in DOMAIN queue /\ Media(i) /\ Media(j)
    BY DEF Numbered, Media
  <2>2. queue[i].src = Source /\ queue[j].src = Source /\ queue[i].pos <= queue[j].pos
    BY <1>1, <1>4, <2>1 DEF FlowInv, QueueInOrder
  <2>3. queue[i].pos \in Nat /\ queue[j].pos \in Nat
    <3>1. queue \in Seq(QueuedItem) /\ \A x \in QueuedItem : x.pos \in Nat
      BY DEF TypeOK, QueueType, QueuedItem
    <3> QED BY <2>1, <3>1
  <2> QED BY <2>2, <2>3 DEF Older
<1>5. ASSUME \A p \in Processors : cur[p].step = "idle", ~QueueClosed
      PROVE  mapper[t].next = (expect[t] + Count(queue, t)) % SeqMod
  <2>1. \A p \in Processors : ~Hand(p, t)
    BY <1>5 DEF Hand
  <2> QED BY <1>1, <1>5, <2>1, Zenon DEF Numbers, Following
<1> QED BY <1>2, <1>3, <1>4, <1>5, Zenon

(* IdentityIsStable: for any width of the numbers, any capacity of the     *)
(* queue and any sequence of seeks and handoffs, the client sees one       *)
(* source per track: the numbers it is sent are consecutive but for what   *)
(* clear and overflow took out of the queue, its clock goes on by at most  *)
(* two seconds from packet to packet, and old media never follows new,     *)
(* unless a handoff began while the reader was still processing a batch.   *)
THEOREM SourceIsStable == Spec => []IdentityIsStable
<1>1. Ownership /\ TypeOK /\ Primed /\ Continuity /\ [Next]_vars => Continuity'
  BY ContinuityNext DEF Primed
<1>2. Spec => []Continuity
  BY <1>1, ContinuityInit, OwnershipInvariant, TypeCorrect, PrimedInvariant, PTL DEF Spec
<1>3. Ownership /\ TypeOK /\ Continuity => IdentityIsStable
  BY ContinuityStable
<1> QED BY <1>2, <1>3, OwnershipInvariant, TypeCorrect, PTL
-----------------------------------------------------------------------------
(* Reports and media: how far apart the timestamps of two positions are.   *)

(* A packet of playback s at position n with timestamp ts is about, or was *)
(* the last a mapper mapped.                                               *)
In(q, s, n, ts) == \E i \in DOMAIN q : q[i].src = s /\ q[i].pos = n /\ q[i].ts = ts

Sent(s, n, ts) ==
  \/ \E r \in Sources : In(upq[r], s, n, ts)
  \/ In(staged, s, n, ts)
  \/ \E p \in Processors : In(work[p], s, n, ts)
  \/ \E t \in Tracks : pending[t] # None /\ In(<<pending[t]>>, s, n, ts)
  \/ \E t \in Tracks : mapper[t].ssrc = s /\ mapper[t].at = n /\ mapper[t].up = ts

(* The clock of its session has come so far, and farther than two seconds  *)
(* if the session has since moved on.                                      *)
Reached(s, n, ts) ==
  /\ n <= pos[s] /\ Elapsed(ts) <= Elapsed(clock[s])
  /\ n < pos[s] => Elapsed(ts) + 2 * ClockRate < Elapsed(clock[s])
  /\ Elapsed(ts) + 2 * ClockRate < TsMod

Apart ==
  ~revisited =>
    \A s \in Sources, n \in Nat, ts \in Times :
      Sent(s, n, ts) =>
        /\ Reached(s, n, ts)
        /\ \A k \in Nat, u \in Times :
             Sent(s, k, u) /\ n < k => Elapsed(ts) + 2 * ClockRate < Elapsed(u)

(* A difference of two numbers within the modulus. *)
LEMMA ModCase ==
  ASSUME NEW m \in Nat \ {0}, NEW a \in 0..m - 1, NEW b \in 0..m - 1
  PROVE  (a - b) % m = IF a >= b THEN a - b ELSE a - b + m
<1>1. CASE a >= b
  <2>1. a - b \in 0..m - 1
    BY <1>1
  <2> QED BY <1>1, <2>1, ModSmall
<1>2. CASE a < b
  <2>1. a - b + m \in 0..m - 1 /\ m * (-1) + (a - b + m) = a - b /\ -1 \in Int
    BY <1>2
  <2>2. (m * (-1) + (a - b + m)) % m = a - b + m
    BY <2>1, ModUnique
  <2> QED BY <1>2, <2>1, <2>2
<1> QED BY <1>1, <1>2

(* A clock that does not come round goes on by what it is moved. *)
LEMMA ElapsedAdvance ==
  ASSUME NEW c \in Times, NEW d \in Nat, Elapsed(c) + d + 2 * ClockRate < TsMod
  PROVE  /\ Elapsed((c + d) % TsMod) = Elapsed(c) + d
         /\ (c + d) % TsMod \in Times
<1>1. /\ TsMod \in Nat \ {0} /\ FirstClock \in Int /\ ClockRate \in Nat
      /\ c \in Int /\ -FirstClock \in Int
  BY NumbersAssumption DEF Times
<1>2. Elapsed(c) \in Times /\ (c + d) % TsMod \in Times
  <2>1. c - FirstClock \in Int /\ c + d \in Int
    BY <1>1
  <2> QED BY <2>1, TimeMasked DEF Elapsed
<1>3. Elapsed(c) + d \in 0..TsMod - 1
  BY <1>1, <1>2 DEF Times
<1>4. (((c + d) % TsMod) + (-FirstClock)) % TsMod = ((c + d) + (-FirstClock)) % TsMod
  <2>1. c + d \in Int
    BY <1>1
  <2> QED BY <1>1, <2>1, ModAdd, Zenon
<1>5. (((c - FirstClock) % TsMod) + d) % TsMod = ((c - FirstClock) + d) % TsMod
  <2>1. c - FirstClock \in Int /\ d \in Int
    BY <1>1
  <2> QED BY <1>1, <2>1, ModAdd, Zenon
<1>6. (Elapsed(c) + d) % TsMod = Elapsed(c) + d
  BY <1>1, <1>3, ModSmall, Zenon
<1>7. /\ (c + d) + (-FirstClock) = (c - FirstClock) + d
      /\ ((c + d) % TsMod) + (-FirstClock) = ((c + d) % TsMod) - FirstClock
  BY <1>1, <1>2 DEF Times
<1> QED BY <1>2, <1>4, <1>5, <1>6, <1>7, Zenon DEF Elapsed

(* Timestamps that are apart are not taken for neighbours. *)
LEMMA ApartIsNotContinuous ==
  ASSUME NEW u \in Times, NEW v \in Times,
         Elapsed(u) + 2 * ClockRate < TsMod, Elapsed(v) + 2 * ClockRate < TsMod,
         \/ Elapsed(u) + 2 * ClockRate < Elapsed(v)
         \/ Elapsed(v) + 2 * ClockRate < Elapsed(u)
  PROVE  ~((u - v) % TsMod <= 2 * ClockRate)
<1>1. /\ TsMod \in Nat \ {0} /\ FirstClock \in 0..TsMod - 1 /\ ClockRate \in Nat
      /\ u \in 0..TsMod - 1 /\ v \in 0..TsMod - 1
  BY NumbersAssumption DEF Times
<1>2. /\ (u - FirstClock) % TsMod =
           IF u >= FirstClock THEN u - FirstClock ELSE u - FirstClock + TsMod
      /\ (v - FirstClock) % TsMod =
           IF v >= FirstClock THEN v - FirstClock ELSE v - FirstClock + TsMod
      /\ (u - v) % TsMod = IF u >= v THEN u - v ELSE u - v + TsMod
  BY <1>1, ModCase
<1> DEFINE a == (u - FirstClock) % TsMod
           b == (v - FirstClock) % TsMod
           c == (u - v) % TsMod
<1>3. /\ a + 2 * ClockRate < TsMod /\ b + 2 * ClockRate < TsMod
      /\ a + 2 * ClockRate < b \/ b + 2 * ClockRate < a
  BY DEF Elapsed
<1>4. /\ a = IF u >= FirstClock THEN u - FirstClock ELSE u - FirstClock + TsMod
      /\ b = IF v >= FirstClock THEN v - FirstClock ELSE v - FirstClock + TsMod
      /\ c = IF u >= v THEN u - v ELSE u - v + TsMod
  BY <1>2
<1> HIDE DEF a, b, c
<1>5. ~(c <= 2 * ClockRate)
  BY <1>1, <1>3, <1>4
<1> QED BY <1>5 DEF c
(* What was sent just now. *)
Produced(s, n, ts) ==
  \E t \in Tracks, kind \in {"rtp", "sr"}, d \in Ahead :
    Produce(s, t, kind, d) /\ n = pos[s] /\ ts = (clock[s] + d) % TsMod

(* The buffers of the playbacks. *)
LEMMA UpstreamSent ==
  ASSUME TypeOK, Next, NEW r \in Sources, NEW s \in Sources, NEW n \in Nat, NEW ts \in Times,
         In(upq'[r], s, n, ts)
  PROVE  Sent(s, n, ts) \/ Produced(s, n, ts)
<1>1. upq \in [Sources -> Seq(Packet)]
  BY DEF TypeOK, UpstreamType
<1>2. CASE upq'[r] = upq[r]
  BY <1>2 DEF Sent
<1>3. CASE upq'[r] = <<>>
  BY <1>3 DEF In
<1>4. ASSUME NEW w \in Sources, NEW t \in Tracks, NEW kind \in {"rtp", "sr"},
             NEW d \in Ahead, Produce(w, t, kind, d)
      PROVE  Sent(s, n, ts) \/ Produced(s, n, ts)
  <2> DEFINE pkt == [track |-> t, kind |-> kind, src |-> w, pos |-> pos[w],
                     ts |-> (clock[w] + d) % TsMod]
  <2>1. upq' = [upq EXCEPT ![w] = Append(upq[w], pkt)]
    BY <1>4, Zenon DEF Produce
  <2>2. pkt.src = w /\ pkt.pos = pos[w] /\ pkt.ts = (clock[w] + d) % TsMod
    OBVIOUS
  <2> HIDE DEF pkt
  <2>3. CASE w # r
    BY <1>1, <1>2, <2>1, <2>3
  <2>4. CASE w = r
    <3>1. upq'[r] = Append(upq[r], pkt) /\ upq[r] \in Seq(Packet)
      BY <1>1, <2>1, <2>4
    <3>2. PICK i \in DOMAIN upq'[r] :
                 upq'[r][i].src = s /\ upq'[r][i].pos = n /\ upq'[r][i].ts = ts
      BY DEF In
    <3>3. (i \in DOMAIN upq[r] /\ upq'[r][i] = upq[r][i]) \/ upq'[r][i] = pkt
      BY <3>1, <3>2
    <3>4. CASE i \in DOMAIN upq[r] /\ upq'[r][i] = upq[r][i]
      <4>1. In(upq[r], s, n, ts)
        BY <3>2, <3>4 DEF In
      <4> QED BY <4>1 DEF Sent
    <3>5. CASE upq'[r][i] = pkt
      <4>1. s = w /\ n = pos[w] /\ ts = (clock[w] + d) % TsMod
        BY <2>2, <3>2, <3>5
      <4> QED BY <1>4, <4>1 DEF Produced
    <3> QED BY <3>3, <3>4, <3>5
  <2> QED BY <2>3, <2>4
<1>5. CASE ReaderReceive
  <2>1. upq'[r] = upq[r] \/ upq'[r] = <<>>
    BY <1>1, <1>5 DEF ReaderReceive
  <2> QED BY <1>2, <1>3, <2>1
<1>6. CASE Collect
  <2>1. upq'[r] = upq[r] \/ upq'[r] = <<>>
    BY <1>1, <1>6 DEF Collect
  <2> QED BY <1>2, <1>3, <2>1
<1>7. CASE Application /\ ~Collect
  BY <1>2, <1>7 DEF Application, Seek, Position, Prepare, Mark, Reset, Activate, Expire,
            Switch, Retire, Close, Closed, upstream
<1>8. CASE ReaderFails \/ Send
  BY <1>2, <1>8 DEF ReaderFails, Send, upstream
<1>9. ASSUME NEW p \in Processors, Process(p)
      PROVE  upq' = upq
  BY <1>9, Zenon DEF Process, Number, Inject, Emit, Report, upstream
<1> QED BY <1>2, <1>4, <1>5, <1>6, <1>7, <1>8, <1>9 DEF Next, Upstream

(* The staged packets. *)
LEMMA StagedSent ==
  ASSUME Ownership, TypeOK, Next, NEW s, NEW n, NEW ts, In(staged', s, n, ts)
  PROVE  Sent(s, n, ts)
<1>1. CASE staged' = staged
  BY <1>1 DEF Sent
<1>2. CASE Collect
  <2> DEFINE all == staged \o upq[prepared]
  <2>1. staged \in Seq(Packet) /\ upq[prepared] \in Seq(Packet) /\ prepared \in Sources
    BY <1>2 DEF Collect, Ownership, OwnershipType, Holding, TypeOK, UpstreamType, WorkType
  <2>2. staged' = Newest(all, HandoffLimit)
    BY <1>2, Zenon DEF Collect
  <2>3. PICK i \in DOMAIN staged' :
               staged'[i].src = s /\ staged'[i].pos = n /\ staged'[i].ts = ts
    BY DEF In
  <2>4. PICK j \in DOMAIN all : staged'[i] = all[j]
    <3>1. all \in Seq(Packet)
      BY <2>1
    <3> HIDE DEF all
    <3> QED BY <2>2, <2>3, <3>1, NewestType, LimitsAssumption
  <2>5. CASE j <= Len(staged)
    <3>1. j \in DOMAIN staged /\ all[j] = staged[j]
      BY <2>1, <2>5
    <3>2. In(staged, s, n, ts)
      BY <2>3, <2>4, <3>1 DEF In
    <3> QED BY <3>2 DEF Sent
  <2>6. CASE ~(j <= Len(staged))
    <3>1. j - Len(staged) \in DOMAIN upq[prepared] /\ all[j] = upq[prepared][j - Len(staged)]
      BY <2>1, <2>6
    <3>2. In(upq[prepared], s, n, ts)
      BY <2>3, <2>4, <3>1, Zenon DEF In
    <3> QED BY <2>1, <3>2 DEF Sent
  <2> QED BY <2>5, <2>6
<1>3. CASE Activate
  <2>1. staged' = <<>>
    BY <1>3 DEF Activate
  <2> QED BY <2>1 DEF In
<1>4. CASE Application /\ ~Collect /\ ~Activate
  BY <1>1, <1>4 DEF Application, Seek, Position, Prepare, Mark, Reset, Expire, Switch,
            Retire, Close, Closed
<1>5. CASE Upstream \/ ReaderReceive \/ ReaderFails \/ Send
  BY <1>1, <1>5 DEF Upstream, Produce, ReaderReceive, ReaderFails, Send, threads
<1>6. ASSUME NEW p \in Processors, Process(p)
      PROVE  staged' = staged
  BY <1>6, Zenon DEF Process, Number, Inject, Emit, Report
<1> QED BY <1>1, <1>2, <1>3, <1>4, <1>5, <1>6 DEF Next

(* The batches. *)
LEMMA WorkSent ==
  ASSUME Ownership, TypeOK, Next, NEW p \in Processors, NEW s, NEW n, NEW ts,
         In(work'[p], s, n, ts)
  PROVE  Sent(s, n, ts)
<1>1. work \in [Processors -> Seq(Packet)] /\ playback \in Sources
  BY DEF TypeOK, WorkType, Ownership, OwnershipType
<1>2. CASE work'[p] = work[p]
  BY <1>2 DEF Sent
<1>3. CASE ReaderReceive
  <2>1. work'[p] = work[p] \/ work'[p] = upq[playback]
    BY <1>1, <1>3 DEF ReaderReceive
  <2> QED BY <1>1, <2>1 DEF Sent
<1>4. CASE Reset
  <2>1. work'[p] = work[p] \/ work'[p] = staged
    BY <1>1, <1>4 DEF Reset
  <2> QED BY <2>1 DEF Sent
<1>5. ASSUME NEW q \in Processors, Process(q)
      PROVE  Sent(s, n, ts)
  <2>1. work'[p] = work[p] \/ (work[p] # <<>> /\ work'[p] = Tail(work[p]))
    BY <1>1, <1>5, ProcessEffect DEF TakesUp, GoesOn, IsDone
  <2>2. CASE work[p] # <<>> /\ work'[p] = Tail(work[p])
    <3>1. PICK i \in DOMAIN work'[p] :
                 work'[p][i].src = s /\ work'[p][i].pos = n /\ work'[p][i].ts = ts
      BY DEF In
    <3>2. i + 1 \in DOMAIN work[p] /\ work'[p][i] = work[p][i + 1]
      BY <2>2, <3>1, BatchType
    <3>3. In(work[p], s, n, ts)
      BY <3>1, <3>2, Zenon DEF In
    <3> QED BY <3>3 DEF Sent
  <2> QED BY <1>2, <2>1, <2>2
<1> QED BY <1>2, <1>3, <1>4, <1>5, OthersKeepWork

(* The packet in hand was sent. *)
LEMMA HeadSent ==
  ASSUME TypeOK, NEW p \in Processors, work[p] # <<>>
  PROVE  Sent(Head(work[p]).src, Head(work[p]).pos, Head(work[p]).ts)
<1>1. 1 \in DOMAIN work[p] /\ Head(work[p]) = work[p][1]
  BY BatchType
<1>2. In(work[p], Head(work[p]).src, Head(work[p]).pos, Head(work[p]).ts)
  BY <1>1, Zenon DEF In
<1> QED BY <1>2, Zenon DEF Sent

(* The reports held back. *)
LEMMA PendingSent ==
  ASSUME TypeOK, Next, NEW t \in Tracks, NEW s, NEW n, NEW ts,
         pending'[t] # None, In(<<pending'[t]>>, s, n, ts)
  PROVE  Sent(s, n, ts)
<1>1. pending \in [Tracks -> Packet \cup {None}]
  BY DEF TypeOK, QueueType
<1>2. CASE pending'[t] = pending[t]
  BY <1>2 DEF Sent
<1>3. ASSUME NEW p \in Processors, Report(p)
      PROVE  Sent(s, n, ts)
  <2> DEFINE pkt == Head(work[p])
  <2>1. work[p] # <<>> /\ pending' \in {pending, [pending EXCEPT ![pkt.track] = pkt]}
    BY <1>3, Zenon DEF Report
  <2>2. Sent(pkt.src, pkt.pos, pkt.ts) /\ pkt.track \in Tracks
    BY <2>1, HeadSent, BatchType
  <2> HIDE DEF pkt
  <2>3. pending'[t] = pending[t] \/ pending'[t] = pkt
    BY <1>1, <2>1, <2>2
  <2>4. CASE pending'[t] = pkt
    <3>1. pkt.src = s /\ pkt.pos = n /\ pkt.ts = ts
      BY <2>4 DEF In
    <3> QED BY <2>2, <3>1
  <2> QED BY <1>2, <2>3, <2>4
<1>4. ASSUME NEW p \in Processors, Emit(p)
      PROVE  Sent(s, n, ts)
  <2>1. pending' = [pending EXCEPT ![Head(work[p]).track] = None]
    BY <1>4, Zenon DEF Emit
  <2> QED BY <1>1, <1>2, <2>1
<1>5. ASSUME NEW p \in Processors,
             Inject(p) \/ \E inc \in ArrivalIncrement : Number(p, inc)
      PROVE  pending' = pending
  BY <1>5, Zenon DEF Inject, Number
<1>6. CASE Reset
  BY <1>6 DEF Reset
<1>7. CASE Upstream \/ ReaderReceive \/ ReaderFails \/ Send
  BY <1>2, <1>7 DEF Upstream, Produce, ReaderReceive, ReaderFails, Send, bridge
<1>8. CASE Application /\ ~Reset
  BY <1>2, <1>8
     DEF Application, Seek, Position, Prepare, Mark, Activate, Collect, Expire, Switch,
         Retire, Close, Closed, bridge
<1> QED BY <1>2, <1>3, <1>4, <1>5, <1>6, <1>7, <1>8 DEF Next, Process

(* What the mappers mapped last. *)
LEMMA MappedSent ==
  ASSUME TypeOK, Next, NEW t \in Tracks, NEW s, NEW n, NEW ts,
         mapper'[t].ssrc = s, mapper'[t].at = n, mapper'[t].up = ts
  PROVE  Sent(s, n, ts)
<1>1. mapper \in [Tracks -> Mapper]
  BY DEF TypeOK, MapperType
<1>2. CASE mapper'[t].ssrc = mapper[t].ssrc /\ mapper'[t].at = mapper[t].at
           /\ mapper'[t].up = mapper[t].up
  BY <1>2 DEF Sent
<1>3. ASSUME NEW p \in Processors, NEW inc \in ArrivalIncrement, Number(p, inc)
      PROVE  Sent(s, n, ts)
  <2> DEFINE pkt == Head(work[p])
             new == Rewrite(mapper[pkt.track], pkt, MapTimestamp(mapper[pkt.track], pkt.ts, inc))
  <2>1. work[p] # <<>> /\ mapper' = [mapper EXCEPT ![pkt.track] = new]
    BY <1>3, Zenon DEF Number
  <2>2. Sent(pkt.src, pkt.pos, pkt.ts) /\ pkt.track \in Tracks
    BY <2>1, HeadSent, BatchType
  <2>3. new.ssrc = pkt.src /\ new.at = pkt.pos /\ new.up = pkt.ts
    BY <1>1, <2>2 DEF Rewrite, Mapper
  <2> HIDE DEF pkt, new
  <2>4. mapper'[t] = mapper[t] \/ mapper'[t] = new
    BY <1>1, <2>1, <2>2
  <2>5. CASE mapper'[t] = new
    BY <2>2, <2>3, <2>5
  <2> QED BY <1>2, <2>4, <2>5
<1>4. ASSUME NEW p \in Processors, Inject(p)
      PROVE  Sent(s, n, ts)
  <2> DEFINE u == Head(work[p]).track
             next == (cur[p].seq + (ParameterSets + 1)) % SeqMod
  <2>1. mapper' \in {mapper, [mapper EXCEPT ![u].next = next]}
    BY <1>4 DEF Inject
  <2> HIDE DEF u, next
  <2> QED BY <1>1, <1>2, <2>1 DEF Mapper
<1>5. ASSUME NEW p \in Processors, Emit(p)
      PROVE  Sent(s, n, ts)
  <2> DEFINE u == Head(work[p]).track
  <2>1. mapper' = [mapper EXCEPT ![u].report = FALSE]
    BY <1>5, Zenon DEF Emit
  <2> HIDE DEF u
  <2> QED BY <1>1, <1>2, <2>1 DEF Mapper
<1>6. CASE Mark
  BY <1>1, <1>2, <1>6 DEF Mark, Discontinuity, Mapper
<1>7. ASSUME NEW p \in Processors, Report(p)
      PROVE  mapper' = mapper
  BY <1>7 DEF Report
<1>8. CASE Upstream \/ ReaderReceive \/ ReaderFails \/ Send
  BY <1>2, <1>8 DEF Upstream, Produce, ReaderReceive, ReaderFails, Send, bridge
<1>9. CASE Application /\ ~Mark
  BY <1>2, <1>9 DEF Application, Seek, Position, Prepare, Reset, Activate, Collect, Expire,
            Switch, Retire, Close, Closed, bridge
<1> QED BY <1>2, <1>3, <1>4, <1>5, <1>6, <1>7, <1>8, <1>9 DEF Next, Process

(* Nothing is about that was not, but for what was sent just now. *)
LEMMA SentNext ==
  ASSUME Ownership, TypeOK, Next, NEW s \in Sources, NEW n \in Nat, NEW ts \in Times,
         Sent(s, n, ts)'
  PROVE  Sent(s, n, ts) \/ Produced(s, n, ts)
<1>1. \/ \E r \in Sources : In(upq'[r], s, n, ts)
      \/ In(staged', s, n, ts)
      \/ \E p \in Processors : In(work'[p], s, n, ts)
      \/ \E t \in Tracks : pending'[t] # None /\ In(<<pending'[t]>>, s, n, ts)
      \/ \E t \in Tracks : mapper'[t].ssrc = s /\ mapper'[t].at = n /\ mapper'[t].up = ts
  BY DEF Sent, In
<1> QED BY <1>1, UpstreamSent, StagedSent, WorkSent, PendingSent, MappedSent
(* How the clock and the position of a session go on, unless the clock     *)
(* comes near where it has been.                                           *)
GoesBy(s) ==
  \/ pos'[s] = pos[s] /\ Elapsed(clock'[s]) >= Elapsed(clock[s])
  \/ pos'[s] = pos[s] + 1 /\ Elapsed(clock'[s]) > Elapsed(clock[s]) + 2 * ClockRate

(* A packet gets the timestamp of the clock. *)
LEMMA ProducedNow ==
  ASSUME TypeOK, ~revisited', NEW s \in Sources, NEW n, NEW ts, Produced(s, n, ts)
  PROVE  /\ ~revisited /\ n = pos[s] /\ pos' = pos /\ ts = clock'[s]
         /\ Elapsed(ts) >= Elapsed(clock[s]) /\ Elapsed(ts) + 2 * ClockRate < TsMod
         /\ \A r \in Sources : r # s => clock'[r] = clock[r]
<1>1. clock \in [Sources -> Times]
  BY DEF TypeOK, UpstreamType
<1>2. PICK t \in Tracks, kind \in {"rtp", "sr"}, d \in Ahead :
             Produce(s, t, kind, d) /\ n = pos[s] /\ ts = (clock[s] + d) % TsMod
  BY DEF Produced
<1>3. /\ clock' = [clock EXCEPT ![s] = (@ + d) % TsMod] /\ pos' = pos
      /\ revisited' = (revisited \/ Around(s, d))
  BY <1>2, Zenon DEF Produce
<1>4. ~revisited /\ ~Around(s, d)
  BY <1>3
<1>5. d \in Nat /\ clock[s] \in Times /\ Elapsed(clock[s]) \in Int
  <2>1. d \in Nat /\ clock[s] \in Times
    BY <1>1, NumbersAssumption
  <2>2. clock[s] - FirstClock \in Int
    BY <2>1, NumbersAssumption DEF Times
  <2>3. Elapsed(clock[s]) \in Times
    BY <2>2, TimeMasked DEF Elapsed
  <2> QED BY <2>1, <2>3, NumbersAssumption DEF Times
<1>6. Elapsed(clock[s]) + d + 2 * ClockRate < TsMod
  BY <1>4, <1>5, NumbersAssumption DEF Around
<1>7. Elapsed(ts) = Elapsed(clock[s]) + d
  BY <1>2, <1>5, <1>6, ElapsedAdvance
<1> QED BY <1>1, <1>2, <1>3, <1>4, <1>5, <1>6, <1>7, NumbersAssumption

(* A seek forward by more than two seconds, the clock not gone round. *)
LEMMA RepositionGoesBy ==
  ASSUME TypeOK, ~revisited', NEW s \in Sources, NEW d \in Jumps, Reposition(s, d),
         NEW r \in Sources
  PROVE  ~revisited /\ GoesBy(r)
<1>1. clock \in [Sources -> Times] /\ pos \in [Sources -> Nat]
  BY DEF TypeOK, UpstreamType
<1>2. /\ clock' = [clock EXCEPT ![s] = (@ + d) % TsMod] /\ pos' = [pos EXCEPT ![s] = @ + 1]
      /\ revisited' = (revisited \/ d <= 2 * ClockRate \/ Around(s, d))
  BY Zenon DEF Reposition
<1>3. ~revisited /\ ~(d <= 2 * ClockRate) /\ ~Around(s, d)
  BY <1>2
<1>4. ASSUME NEW x \in Sources
      PROVE  Elapsed(clock[x]) \in Int
  <2>1. clock[x] - FirstClock \in Int
    BY <1>1, NumbersAssumption DEF Times
  <2>2. Elapsed(clock[x]) \in Times
    BY <2>1, TimeMasked DEF Elapsed
  <2> QED BY <2>2, NumbersAssumption DEF Times
<1>5. d \in Nat
  BY <1>3, NumbersAssumption
<1>6. Elapsed(clock[s]) + d + 2 * ClockRate < TsMod
  BY <1>3, <1>4, <1>5, NumbersAssumption DEF Around
<1>7. Elapsed((clock[s] + d) % TsMod) = Elapsed(clock[s]) + d
  BY <1>1, <1>5, <1>6, ElapsedAdvance
<1>8. CASE r = s
  <2>1. clock'[r] = (clock[s] + d) % TsMod /\ pos'[r] = pos[r] + 1
    BY <1>1, <1>2, <1>8
  <2>2. Elapsed(clock'[r]) = Elapsed(clock[r]) + d
    BY <1>7, <1>8, <2>1
  <2> QED BY <1>3, <1>4, <1>5, <2>1, <2>2, NumbersAssumption DEF GoesBy
<1>9. CASE r # s
  <2>1. clock'[r] = clock[r] /\ pos'[r] = pos[r]
    BY <1>1, <1>2, <1>9
  <2> QED BY <1>3, <1>4, <2>1 DEF GoesBy
<1> QED BY <1>8, <1>9

(* Any step. *)
LEMMA ClockGoesBy ==
  ASSUME Ownership, TypeOK, Next, ~revisited', NEW r \in Sources
  PROVE  ~revisited /\ GoesBy(r)
<1>1. clock \in [Sources -> Times] /\ pos \in [Sources -> Nat] /\ Elapsed(clock[r]) \in Int
  <2>1. clock \in [Sources -> Times] /\ pos \in [Sources -> Nat]
    BY DEF TypeOK, UpstreamType
  <2>2. clock[r] - FirstClock \in Int
    BY <2>1, NumbersAssumption DEF Times
  <2>3. Elapsed(clock[r]) \in Times
    BY <2>2, TimeMasked DEF Elapsed
  <2> QED BY <2>1, <2>3, NumbersAssumption DEF Times
<1>2. ASSUME UNCHANGED <<clock, pos, revisited>>
      PROVE  ~revisited /\ GoesBy(r)
  BY <1>1, <1>2 DEF GoesBy
<1>3. CASE Upstream
  <2>1. PICK s \in Sources, t \in Tracks, kind \in {"rtp", "sr"}, d \in Ahead :
               Produce(s, t, kind, d)
    BY <1>3 DEF Upstream
  <2>2. Produced(s, pos[s], (clock[s] + d) % TsMod)
    BY <2>1 DEF Produced
  <2>3. /\ ~revisited /\ pos' = pos
        /\ Elapsed(clock'[s]) >= Elapsed(clock[s])
        /\ \A x \in Sources : x # s => clock'[x] = clock[x]
    BY <2>2, ProducedNow
  <2>4. Elapsed(clock'[r]) >= Elapsed(clock[r])
    BY <1>1, <2>3
  <2> QED BY <2>3, <2>4 DEF GoesBy
<1>4. ASSUME NEW d \in Jumps, Seek(d)
      PROVE  ~revisited /\ GoesBy(r)
  <2>1. Reposition(playback, d) /\ playback \in Sources
    BY <1>4 DEF Seek, Ownership, OwnershipType
  <2> QED BY <2>1, RepositionGoesBy
<1>5. ASSUME NEW d \in Jumps, Position(d)
      PROVE  ~revisited /\ GoesBy(r)
  <2>1. outgoing \in Sources
    BY <1>5 DEF Position, Ownership, OwnershipType, Holding
  <2>2. Reposition(outgoing, d) \/ UNCHANGED <<clock, pos, revisited>>
    BY <1>5 DEF Position
  <2> QED BY <1>2, <2>1, <2>2, RepositionGoesBy
<1>6. CASE \E s \in Sources : Prepare(s)
  BY <1>2, <1>6 DEF Prepare, ghosts
<1>7. CASE Mark \/ Reset \/ Activate \/ Collect \/ Expire \/ Switch \/ Retire \/ Close \/ Closed
  BY <1>2, <1>7 DEF Mark, Reset, Activate, Collect, Expire, Switch, Retire, Close, Closed,
            upstream, ghosts
<1>8. CASE ReaderReceive \/ ReaderFails \/ Send
  BY <1>2, <1>8 DEF ReaderReceive, ReaderFails, Send, upstream, ghosts
<1>9. ASSUME NEW p \in Processors, Process(p)
      PROVE  UNCHANGED <<clock, pos, revisited>>
  BY <1>9, Zenon DEF Process, Number, Inject, Emit, Report, upstream, ghosts
<1> QED BY <1>2, <1>3, <1>4, <1>5, <1>6, <1>7, <1>8, <1>9 DEF Next, Application

(* Nothing is about to begin with. *)
LEMMA ApartInit == Init => Apart
<1> SUFFICES ASSUME Init, NEW s \in Sources, NEW n \in Nat, NEW ts \in Times, Sent(s, n, ts)
             PROVE  FALSE
  BY DEF Apart
<1>1. /\ \A r \in Sources : upq[r] = <<>>
      /\ staged = <<>> /\ \A p \in Processors : work[p] = <<>>
      /\ \A t \in Tracks : pending[t] = None /\ mapper[t].ssrc = None
  BY DEF Init, NewMapper
<1>2. s # None /\ ~In(<<>>, s, n, ts)
  BY SourcesAssumption DEF In
<1>3. /\ \A r \in Sources : ~In(upq[r], s, n, ts)
      /\ ~In(staged, s, n, ts) /\ \A p \in Processors : ~In(work[p], s, n, ts)
  BY <1>1, <1>2
<1> QED BY <1>1, <1>2, <1>3, Zenon DEF Sent

(* Timestamps of two positions stay apart. *)
LEMMA ApartNext ==
  ASSUME Ownership, TypeOK, Apart, Next
  PROVE  Apart'
<1> SUFFICES ASSUME ~revisited', NEW s \in Sources, NEW n \in Nat, NEW ts \in Times,
                    Sent(s, n, ts)'
             PROVE  /\ Reached(s, n, ts)'
                    /\ \A k \in Nat, u \in Times :
                         Sent(s, k, u)' /\ n < k => Elapsed(ts) + 2 * ClockRate < Elapsed(u)
  BY Zenon DEF Apart, Elapsed
<1>1. ~revisited /\ GoesBy(s) /\ pos[s] \in Nat /\ clock[s] \in Times /\ clock'[s] \in Times
  <2>1. UpstreamType'
    BY UpstreamTypeNext DEF Ownership, TypeOK
  <2> QED BY <2>1, ClockGoesBy DEF TypeOK, UpstreamType
<1>2. \A x \in Times : Elapsed(x) \in Int
  <2> SUFFICES ASSUME NEW x \in Times PROVE Elapsed(x) \in Int
    OBVIOUS
  <2>1. x - FirstClock \in Int
    BY NumbersAssumption DEF Times
  <2>2. Elapsed(x) \in Times
    BY <2>1, TimeMasked DEF Elapsed
  <2> QED BY <2>2, NumbersAssumption DEF Times
<1>3. Elapsed(clock[s]) \in Int /\ Elapsed(clock'[s]) \in Int /\ Elapsed(ts) \in Int
      /\ 2 * ClockRate \in Nat /\ TsMod \in Nat
  BY <1>1, <1>2, NumbersAssumption
<1>4. ASSUME NEW k \in Nat, NEW u \in Times, Sent(s, k, u)
      PROVE  /\ Reached(s, k, u)
             /\ \A j \in Nat, v \in Times :
                  Sent(s, j, v) /\ k < j => Elapsed(u) + 2 * ClockRate < Elapsed(v)
  BY <1>1, <1>4, Zenon DEF Apart
<1>5. ASSUME NEW k \in Nat, NEW u \in Times, Produced(s, k, u)
      PROVE  /\ k = pos[s] /\ pos'[s] = pos[s] /\ u = clock'[s]
             /\ Elapsed(u) >= Elapsed(clock[s]) /\ Elapsed(u) + 2 * ClockRate < TsMod
  BY <1>5, ProducedNow
<1>6. ASSUME NEW k \in Nat, NEW u \in Times, Sent(s, k, u)'
      PROVE  Sent(s, k, u) \/ Produced(s, k, u)
  BY <1>6, SentNext
<1>7. Reached(s, n, ts)'
  <2>1. SUFFICES /\ n <= pos'[s] /\ Elapsed(ts) <= Elapsed(clock'[s])
                 /\ n < pos'[s] => Elapsed(ts) + 2 * ClockRate < Elapsed(clock'[s])
                 /\ Elapsed(ts) + 2 * ClockRate < TsMod
    BY Zenon DEF Reached, Elapsed
  <2>2. CASE Sent(s, n, ts)
    <3>1. Reached(s, n, ts)
      BY <1>4, <2>2
    <3>2. /\ n <= pos[s] /\ Elapsed(ts) <= Elapsed(clock[s])
          /\ n < pos[s] => Elapsed(ts) + 2 * ClockRate < Elapsed(clock[s])
          /\ Elapsed(ts) + 2 * ClockRate < TsMod
      BY <3>1, Zenon DEF Reached
    <3>3. \/ pos'[s] = pos[s] /\ Elapsed(clock'[s]) >= Elapsed(clock[s])
          \/ pos'[s] = pos[s] + 1 /\ Elapsed(clock'[s]) > Elapsed(clock[s]) + 2 * ClockRate
      BY <1>1, Zenon DEF GoesBy
    <3> QED BY <1>1, <1>3, <3>2, <3>3
  <2>3. CASE Produced(s, n, ts)
    BY <1>1, <1>3, <1>5, <2>3
  <2> QED BY <1>6, <2>2, <2>3
<1>8. ASSUME NEW k \in Nat, NEW u \in Times, Sent(s, k, u)', n < k
      PROVE  Elapsed(ts) + 2 * ClockRate < Elapsed(u)
  <2>1. Elapsed(u) \in Int
    BY <1>2
  <2>2. CASE Sent(s, n, ts) /\ Sent(s, k, u)
    BY <1>4, <1>8, <2>2
  <2>3. CASE Sent(s, n, ts) /\ Produced(s, k, u)
    <3>1. Reached(s, n, ts)
      BY <1>4, <2>3
    <3>2. n < pos[s] => Elapsed(ts) + 2 * ClockRate < Elapsed(clock[s])
      BY <3>1, Zenon DEF Reached
    <3>3. k = pos[s] /\ Elapsed(u) >= Elapsed(clock[s])
      BY <1>5, <2>3
    <3> QED BY <1>3, <1>8, <2>1, <3>2, <3>3
  <2>4. CASE Produced(s, n, ts) /\ Sent(s, k, u)
    <3>1. Reached(s, k, u)
      BY <1>4, <2>4
    <3>2. k <= pos[s]
      BY <3>1, Zenon DEF Reached
    <3> QED BY <1>1, <1>5, <1>8, <2>4, <3>2
  <2>5. CASE Produced(s, n, ts) /\ Produced(s, k, u)
    BY <1>1, <1>5, <1>8, <2>5
  <2> QED BY <1>6, <1>8, <2>2, <2>3, <2>4, <2>5
<1> QED BY <1>7, <1>8
-----------------------------------------------------------------------------
(* The reports that are queued. *)

(* A report that was queued already, or that a thread put: the one in its  *)
(* hand or one held back, translated.                                      *)
ReportFrom(x, p) ==
  \/ \E j \in DOMAIN queue : x = queue[j]
  \/ \E y \in Packet, t \in Tracks :
       /\ (y = pending[t] /\ y # None) \/ (work[p] # <<>> /\ y = Head(work[p]))
       /\ Translatable(mapper[t], y)
       /\ x.src = y.src /\ x.pos = y.pos /\ x.of = mapper[t].ssrc /\ x.at = mapper[t].at

(* What a sequence of two parts holds. *)
LEMMA Joined ==
  ASSUME NEW S, NEW a \in Seq(S), NEW b \in Seq(S)
  PROVE  /\ a \o b \in Seq(S) /\ Len(a \o b) = Len(a) + Len(b)
         /\ \A i \in 1 .. Len(a) + Len(b) :
              (a \o b)[i] = IF i <= Len(a) THEN a[i] ELSE b[i - Len(a)]
OBVIOUS

(* What a sequence of three parts holds. *)
LEMMA ThreeParts ==
  ASSUME NEW S, NEW a \in Seq(S), NEW x \in S, NEW b \in Seq(S), NEW i \in DOMAIN (a \o <<x>> \o b)
  PROVE  \/ \E j \in DOMAIN a : (a \o <<x>> \o b)[i] = a[j]
         \/ (a \o <<x>> \o b)[i] = x
         \/ \E j \in DOMAIN b : (a \o <<x>> \o b)[i] = b[j]
<1> DEFINE first == a \o <<x>>
<1>1. /\ first \in Seq(S) /\ Len(first) = Len(a) + 1
      /\ \A j \in 1 .. Len(first) : first[j] = IF j <= Len(a) THEN a[j] ELSE x
  <2>1. <<x>> \in Seq(S) /\ Len(<<x>>) = 1 /\ <<x>>[1] = x /\ Len(a) \in Nat
    OBVIOUS
  <2>2. /\ first \in Seq(S) /\ Len(first) = Len(a) + Len(<<x>>)
        /\ \A j \in 1 .. Len(a) + Len(<<x>>) :
             first[j] = IF j <= Len(a) THEN a[j] ELSE <<x>>[j - Len(a)]
    BY <2>1, Joined, Zenon
  <2> HIDE DEF first
  <2>3. ASSUME NEW j \in 1 .. Len(a) + 1, j > Len(a)
        PROVE  j - Len(a) = 1
    BY <2>1, <2>3
  <2> QED BY <2>1, <2>2, <2>3
<1>2. i \in 1 .. Len(first) + Len(b) /\ a \o <<x>> \o b = first \o b
  BY <1>1
<1> HIDE DEF first
<1>3. (first \o b)[i] = IF i <= Len(first) THEN first[i] ELSE b[i - Len(first)]
  BY <1>1, <1>2
<1>4. CASE i <= Len(first)
  <2>1. i <= Len(a) => i \in DOMAIN a
    BY <1>1, <1>2
  <2> QED BY <1>1, <1>2, <1>3, <1>4, <2>1
<1>5. CASE i > Len(first)
  <2>1. i - Len(first) \in DOMAIN b
    BY <1>1, <1>2, <1>5
  <2> QED BY <1>1, <1>2, <1>3, <1>5, <2>1
<1> QED BY <1>1, <1>2, <1>4, <1>5

(* A translated report bears what it was translated with. *)
LEMMA TranslatedFrom ==
  ASSUME NEW p \in Processors, NEW y \in Packet, NEW t \in Tracks,
         (y = pending[t] /\ y # None) \/ (work[p] # <<>> /\ y = Head(work[p])),
         Translatable(mapper[t], y)
  PROVE  ReportFrom(Item("sr", y, 0, y.ts, mapper[t]), p)
BY Zenon DEF ReportFrom, Item

(* Every step of a processing thread. *)
LEMMA ProcessReports ==
  ASSUME TypeOK, NEW p \in Processors, Process(p),
         NEW i \in DOMAIN queue', queue'[i].kind = "sr"
  PROVE  ReportFrom(queue'[i], p)
<1> DEFINE pkt == Head(work[p])
           t == pkt.track
           m == mapper[t]
<1>1. queue \in Seq(QueuedItem) /\ Len(queue) <= Capacity
  BY DEF TypeOK, QueueType
<1>2. CASE UNCHANGED queue
  BY <1>2 DEF ReportFrom
<1>3. ASSUME NEW items \in Seq(QueuedItem), Put(items),
             \A j \in DOMAIN items : items[j].kind = "sr" => ReportFrom(items[j], p)
      PROVE  ReportFrom(queue'[i], p)
  <2>1. \/ \E j \in DOMAIN queue : queue'[i] = queue[j]
        \/ \E j \in DOMAIN items : queue'[i] = items[j]
    BY <1>1, <1>3, PutType
  <2> QED BY <1>3, <2>1 DEF ReportFrom
<1>4. CASE \E inc \in ArrivalIncrement : Number(p, inc)
  BY <1>2, <1>4 DEF Number
<1>5. 0 \in Seqs /\ cur[p].seq \in Seqs /\ cur[p].ts \in Times
  BY NumbersAssumption DEF TypeOK, WorkType, InHand, Seqs
<1>6. ASSUME work[p] # <<>>
      PROVE  pkt \in Packet /\ t \in Tracks /\ m \in Mapper
  BY <1>6, BatchType DEF TypeOK, MapperType
<1>7. CASE Inject(p)
  <2>1. pkt \in Packet /\ m \in Mapper
    BY <1>6, <1>7 DEF Inject, TypeOK, HandType
  <2> DEFINE set(j) == Item("init", pkt, (cur[p].seq + (j - 1)) % SeqMod, cur[p].ts, m)
             items == [j \in 1 .. ParameterSets |-> set(j)]
  <2>2. ASSUME NEW j \in 1 .. ParameterSets
        PROVE  set(j) \in QueuedItem /\ set(j).kind = "init"
    <3>1. (cur[p].seq + (j - 1)) % SeqMod \in Seqs
      BY <1>5, SeqMasked DEF Seqs
    <3> QED BY <1>5, <2>1, <3>1, ItemType
  <2>3. items \in Seq(QueuedItem) /\ DOMAIN items = 1 .. ParameterSets
    BY <2>2, TracksAssumption, IsASeq
  <2>4. \A j \in DOMAIN items : items[j].kind # "sr"
    BY <2>2
  <2>5. UNCHANGED queue \/ Put(items)
    BY <1>7, Zenon DEF Inject
  <2> HIDE DEF items, set
  <2> QED BY <1>2, <1>3, <2>3, <2>4, <2>5
<1>8. CASE Emit(p)
  <2>1. pkt \in Packet /\ m \in Mapper /\ t \in Tracks /\ m.down # None
    BY <1>6, <1>8, BatchType, Zenon DEF Emit, TypeOK, HandType
  <2> DEFINE late == pending[t]
             generated == IF m.report THEN <<Item("gen", pkt, 0, m.down, m)>> ELSE <<>>
             media == Item("rtp", pkt, cur[p].seq, cur[p].ts, m)
             heldBack == IF late # None /\ Translatable(m, late)
                         THEN <<Item("sr", late, 0, late.ts, m)>> ELSE <<>>
  <2>2. /\ generated \in Seq(QueuedItem)
        /\ \A j \in DOMAIN generated : generated[j].kind = "gen"
    <3>1. m.down \in Times
      BY <2>1 DEF Mapper
    <3>2. Item("gen", pkt, 0, m.down, m) \in QueuedItem
          /\ Item("gen", pkt, 0, m.down, m).kind = "gen"
      BY <1>5, <2>1, <3>1, ItemType
    <3> QED BY <3>2
  <2>3. /\ heldBack \in Seq(QueuedItem)
        /\ \A j \in DOMAIN heldBack : ReportFrom(heldBack[j], p)
    <3>1. CASE late # None /\ Translatable(m, late)
      <4>1. late \in Packet
        BY <2>1, <3>1 DEF TypeOK, QueueType
      <4>2. late.ts \in Times
        BY <4>1 DEF Packet
      <4>3. Item("sr", late, 0, late.ts, m) \in QueuedItem
        BY <1>5, <2>1, <4>1, <4>2, ItemType
      <4>4. ReportFrom(Item("sr", late, 0, late.ts, m), p)
        BY <2>1, <3>1, <4>1, TranslatedFrom
      <4> QED BY <3>1, <4>3, <4>4
    <3>2. CASE ~(late # None /\ Translatable(m, late))
      BY <3>2
    <3> QED BY <3>1, <3>2, Zenon
  <2>4. media \in QueuedItem /\ media.kind = "rtp"
    BY <1>5, <2>1, ItemType
  <2>5. Put(generated \o <<media>> \o heldBack)
    BY <1>8, Zenon DEF Emit
  <2> HIDE DEF generated, media, heldBack
  <2>6. generated \o <<media>> \o heldBack \in Seq(QueuedItem)
    BY <2>2, <2>3, <2>4
  <2>7. ASSUME NEW j \in DOMAIN (generated \o <<media>> \o heldBack),
               (generated \o <<media>> \o heldBack)[j].kind = "sr"
        PROVE  ReportFrom((generated \o <<media>> \o heldBack)[j], p)
    <3> DEFINE x == (generated \o <<media>> \o heldBack)[j]
    <3>1. \/ \E k \in DOMAIN generated : x = generated[k]
          \/ x = media
          \/ \E k \in DOMAIN heldBack : x = heldBack[k]
      BY <2>2, <2>3, <2>4, ThreeParts
    <3>2. x.kind = "sr"
      BY <2>7
    <3> HIDE DEF x
    <3>3. ReportFrom(x, p)
      BY <2>2, <2>3, <2>4, <3>1, <3>2
    <3> QED BY <3>3 DEF x
  <2> QED BY <1>3, <2>5, <2>6, <2>7
<1>9. CASE Report(p)
  <2>1. work[p] # <<>> /\ pkt \in Packet /\ m \in Mapper /\ t \in Tracks
    BY <1>6, <1>9 DEF Report
  <2>2. pkt.ts \in Times
    BY <2>1 DEF Packet
  <2> DEFINE item == Item("sr", pkt, 0, pkt.ts, m)
  <2>3. item \in QueuedItem
    BY <1>5, <2>1, <2>2, ItemType
  <2>4. UNCHANGED queue \/ (Translatable(m, pkt) /\ Put(<<item>>))
    BY <1>9, Zenon DEF Report
  <2>5. ASSUME Translatable(m, pkt), Put(<<item>>)
        PROVE  ReportFrom(queue'[i], p)
    <3>1. ReportFrom(item, p)
      BY <2>1, <2>5, TranslatedFrom
    <3> HIDE DEF item
    <3>2. <<item>> \in Seq(QueuedItem) /\ \A j \in DOMAIN <<item>> : <<item>>[j] = item
      BY <2>3
    <3> QED BY <1>3, <2>5, <3>1, <3>2
  <2> QED BY <1>2, <2>4, <2>5
<1> QED BY <1>4, <1>7, <1>8, <1>9 DEF Process

(* The other steps queue nothing. *)
LEMMA QueueShrinks ==
  ASSUME TypeOK, Next, \A p \in Processors : ~Process(p), NEW i \in DOMAIN queue'
  PROVE  \E j \in DOMAIN queue : queue'[i] = queue[j]
<1>1. queue \in Seq(QueuedItem)
  BY DEF TypeOK, QueueType
<1>2. CASE Send
  <2>1. queue # <<>> /\ queue' = Tail(queue)
    BY <1>2 DEF Send
  <2>2. i + 1 \in DOMAIN queue /\ queue'[i] = queue[i + 1]
    BY <1>1, <2>1, HeadTailProperties
  <2> QED BY <2>2
<1>3. CASE Reset \/ Close
  BY <1>3 DEF Reset, Close, ClearQueue
<1>4. CASE UNCHANGED queue
  BY <1>4
<1>5. CASE Upstream \/ ReaderReceive \/ ReaderFails
  BY <1>4, <1>5 DEF Upstream, Produce, ReaderReceive, ReaderFails, bridge
<1>6. CASE Application /\ ~(Reset \/ Close)
  BY <1>4, <1>6
     DEF Application, Seek, Position, Prepare, Mark, Activate, Collect, Expire, Switch,
         Retire, Closed, bridge
<1> QED BY <1>2, <1>3, <1>5, <1>6 DEF Next

(* A report is forwarded with media of its own position. *)
LEMMA ReportsNext ==
  ASSUME Ownership, TypeOK, Apart, ReportsMatchMedia, Next
  PROVE  ReportsMatchMedia'
<1> SUFFICES ASSUME NEW i \in DOMAIN queue', queue'[i].kind = "sr"
             PROVE  /\ queue'[i].src = queue'[i].of
                    /\ queue'[i].pos = queue'[i].at \/ revisited'
  BY DEF ReportsMatchMedia
<1>1. revisited => revisited'
  BY SourcesAssumption, ClockGoesBy DEF Ownership, OwnershipType
<1>2. ASSUME NEW j \in DOMAIN queue, queue'[i] = queue[j]
      PROVE  queue'[i].src = queue'[i].of /\ (queue'[i].pos = queue'[i].at \/ revisited')
  BY <1>1, <1>2 DEF ReportsMatchMedia
<1>3. ASSUME NEW p \in Processors, NEW y \in Packet, NEW t \in Tracks,
             (y = pending[t] /\ y # None) \/ (work[p] # <<>> /\ y = Head(work[p])),
             Translatable(mapper[t], y),
             queue'[i].src = y.src, queue'[i].pos = y.pos,
             queue'[i].of = mapper[t].ssrc, queue'[i].at = mapper[t].at
      PROVE  queue'[i].src = queue'[i].of /\ (queue'[i].pos = queue'[i].at \/ revisited')
  <2> DEFINE m == mapper[t]
  <2>1. /\ y.src \in Sources /\ y.pos \in Nat /\ y.ts \in Times
        /\ m.up \in Times /\ m.at \in Nat
        /\ y.src = m.ssrc /\ Delta(m, y.ts) <= 2 * ClockRate
    <3>1. /\ m \in Mapper /\ (m.down # None => m.up # None)
      BY DEF TypeOK, MapperType
    <3>2. m.down # None /\ y.src = m.ssrc /\ Delta(m, y.ts) <= 2 * ClockRate
      BY <1>3, Zenon DEF Translatable, Continuous
    <3> QED BY <3>1, <3>2 DEF Mapper, Packet
  <2>2. Sent(y.src, y.pos, y.ts)
    <3>1. CASE y = pending[t] /\ y # None
      <4>1. In(<<pending[t]>>, y.src, y.pos, y.ts)
        BY <3>1 DEF In
      <4> QED BY <3>1, <4>1, Zenon DEF Sent
    <3>2. CASE work[p] # <<>> /\ y = Head(work[p])
      BY <3>2, HeadSent
    <3> QED BY <1>3, <3>1, <3>2
  <2>3. Sent(y.src, m.at, m.up)
    BY <2>1, Zenon DEF Sent
  <2>4. ASSUME ~revisited
        PROVE  y.pos = m.at
    <3>1. /\ Reached(y.src, y.pos, y.ts) /\ Reached(y.src, m.at, m.up)
          /\ y.pos < m.at => Elapsed(y.ts) + 2 * ClockRate < Elapsed(m.up)
          /\ m.at < y.pos => Elapsed(m.up) + 2 * ClockRate < Elapsed(y.ts)
      BY <2>1, <2>2, <2>3, <2>4, Zenon DEF Apart
    <3>2. /\ Elapsed(y.ts) + 2 * ClockRate < TsMod
          /\ Elapsed(m.up) + 2 * ClockRate < TsMod
      BY <3>1, Zenon DEF Reached
    <3>3. (y.ts - m.up) % TsMod <= 2 * ClockRate
      BY <2>1 DEF Delta
    <3>4. ~(y.pos < m.at) /\ ~(m.at < y.pos)
      BY <2>1, <3>1, <3>2, <3>3, ApartIsNotContinuous
    <3> QED BY <2>1, <3>4
  <2> QED BY <1>1, <1>3, <2>1, <2>4
<1>4. CASE \E p \in Processors : Process(p)
  <2>1. PICK p \in Processors : Process(p)
    BY <1>4
  <2>2. ReportFrom(queue'[i], p)
    BY <2>1, ProcessReports
  <2> QED BY <1>2, <1>3, <2>2, Zenon DEF ReportFrom
<1>5. CASE \A p \in Processors : ~Process(p)
  BY <1>2, <1>5, QueueShrinks
<1> QED BY <1>4, <1>5

(* Where nothing happens all of it stays. *)
LEMMA ReportsStutter ==
  ASSUME Apart, ReportsMatchMedia, UNCHANGED vars
  PROVE  Apart' /\ ReportsMatchMedia'
<1>1. UNCHANGED <<clock, pos, upq, staged, work, pending, mapper, queue, revisited>>
  BY DEF vars, upstream, bridge, threads, ghosts
<1>2. ReportsMatchMedia'
  BY <1>1 DEF ReportsMatchMedia
<1>3. ASSUME NEW s, NEW n, NEW ts
      PROVE  Sent(s, n, ts)' = Sent(s, n, ts)
  BY <1>1, Zenon DEF Sent, In
<1>4. ASSUME NEW s, NEW n, NEW ts
      PROVE  Reached(s, n, ts)' = Reached(s, n, ts)
  BY <1>1, Zenon DEF Reached, Elapsed
<1>5. \A ts : Elapsed(ts)' = Elapsed(ts)
  BY DEF Elapsed
<1>6. Apart'
  <2>1. SUFFICES ASSUME ~revisited, NEW s \in Sources, NEW n \in Nat, NEW ts \in Times,
                        Sent(s, n, ts)'
                 PROVE  /\ Reached(s, n, ts)'
                        /\ \A k \in Nat, u \in Times :
                             Sent(s, k, u)' /\ n < k
                               => Elapsed(ts) + 2 * ClockRate < Elapsed(u)
    BY <1>1, Zenon DEF Apart, Elapsed
  <2>2. Sent(s, n, ts) /\ \A k \in Nat, u \in Times : Sent(s, k, u)' => Sent(s, k, u)
    BY <1>3, <2>1, Zenon
  <2>3. /\ Reached(s, n, ts)
        /\ \A k \in Nat, u \in Times :
             Sent(s, k, u) /\ n < k => Elapsed(ts) + 2 * ClockRate < Elapsed(u)
    BY <2>1, <2>2, Zenon DEF Apart
  <2> QED BY <1>4, <2>2, <2>3, Zenon
<1> QED BY <1>2, <1>6

(* ReportsMatchMedia: however long a report is held back, whatever seeks   *)
(* and handoffs come in between, and wherever the recorder's clock wraps,  *)
(* it is forwarded only with media of its own playback and position,       *)
(* unless a clock came again within two seconds of where it had been.      *)
THEOREM ReportsAreOfTheirMedia == Spec => []ReportsMatchMedia
<1>1. Init => Apart /\ ReportsMatchMedia
  BY ApartInit DEF Init, ReportsMatchMedia
<1>2. Ownership /\ TypeOK /\ Apart /\ ReportsMatchMedia /\ [Next]_vars
        => Apart' /\ ReportsMatchMedia'
  BY ApartNext, ReportsNext, ReportsStutter
<1> QED BY <1>1, <1>2, OwnershipInvariant, TypeCorrect, PTL DEF Spec
=============================================================================
