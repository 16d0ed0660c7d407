--------------------------- MODULE BridgeSession ---------------------------
(***************************************************************************)
(* The downstream side of the loopback bridge, class LocalRtspBridge of    *)
(* src/tools/probe_local_rtsp_bridge.py: the accept thread that serves one *)
(* client after the other, the reader of the upstream playback, the sender *)
(* of frames, and the application that seeks, hands over to another        *)
(* playback and closes the bridge.  They share play_event, stop_event,     *)
(* control_lock, upstream_paused and the attribute client.  What a packet  *)
(* is made into is BridgeMedia.tla: here a packet is a count.              *)
(*                                                                         *)
(* The reader and the accept thread hold control_lock for one exchange     *)
(* with the recorder, which is one step; only a handoff keeps it longer.   *)
(* The attribute error is written, and read by nobody: it is left out.     *)
(* A second connection waits in the backlog of the server socket, because  *)
(* _client_loop runs in the accept thread: the branch of _accept_loop that *)
(* answers 453 cannot be reached.                                          *)
(***************************************************************************)
EXTENDS Naturals, FiniteSets

CONSTANTS
  Clients,        \* the connections, numbered in the order they are made
  MaxRequests,    \* bound: requests of all clients
  MaxCommands,    \* bound: seeks and handoffs
  MaxQueued       \* packets in the queue

ASSUME ClientsAssumption == Clients \subseteq Nat \ {0} /\ IsFiniteSet(Clients)
ASSUME BoundsAssumption == MaxRequests \in Nat /\ MaxCommands \in Nat /\ MaxQueued \in Nat \ {0}

VARIABLES
  (* the clients *)
  conn,           \* each connection: "none", "open", "left" by the client, "closed"
  backlog,        \* those not accepted yet
  req,            \* the request a client waits for, or "none" (it goes with
                  \* the connection)
  phase,          \* what a client has been told: "new", "playing" or "paused"
  late,           \* frames it was sent since it was told not "playing"
  (* the bridge *)
  client,         \* self.client, or Nobody
  channels,       \* the kinds of numbers in self.channels
  play, stop, upstreamPaused,
  up,             \* state of self.playback, or "failed"
  queued,
  (* the threads *)
  accept, serving, escaping,   \* the accept thread and its local connection
  reader,
  sender, target,              \* the sender and its local connection
  app,
  (* ghosts and bounds *)
  failed,         \* the recorder has failed a playback, or an exchange
  moved,          \* a seek or a handoff set a paused upstream going
  raced,          \* PAUSE took the lock between the reader's test and its receive
  mistaken,       \* what clients got wrong in a way that nothing catches
  requests, commands

clientVars == <<conn, backlog, req, phase, late, requests>>
eventVars  == <<play, stop>>
upVars     == <<upstreamPaused, up, failed>>
acceptVars == <<accept, serving, escaping>>
senderVars == <<sender, target>>
ghosts     == <<moved, raced, mistaken>>
vars == <<clientVars, eventVars, upVars, acceptVars, senderVars, ghosts,
          client, channels, queued, reader, app, commands>>

Nobody == 0
Methods == {"SETUP", "PLAY", "PAUSE", "TEARDOWN"}
Channels == {"byte", "wide"}  \* a number that fits the header of a frame, or not
Closing == app \in {"shutdown", "join", "closed"}
Locked == app = "handoff"

-----------------------------------------------------------------------------
(* The clients (external): one request at a time, as _client_request.      *)
(* DESCRIBE, OPTIONS and unknown methods change nothing.                   *)

Connect(c) ==
  /\ conn[c] = "none" /\ \A d \in Clients : d < c => conn[d] # "none"
  /\ app \notin {"join", "closed"}
  /\ conn' = [conn EXCEPT ![c] = "open"] /\ backlog' = backlog \cup {c}
  /\ UNCHANGED <<req, phase, late, requests, eventVars, upVars, acceptVars, senderVars,
                 ghosts, client, channels, queued, reader, app, commands>>

Ask(c, m) ==
  /\ requests < MaxRequests /\ requests' = requests + 1
  /\ conn[c] = "open" /\ req[c] = "none" /\ req' = [req EXCEPT ![c] = m]
  /\ UNCHANGED <<conn, backlog, phase, late, eventVars, upVars, acceptVars, senderVars,
                 ghosts, client, channels, queued, reader, app, commands>>

Leave(c) ==
  /\ conn[c] = "open" /\ conn' = [conn EXCEPT ![c] = "left"]
  /\ UNCHANGED <<backlog, req, phase, late, requests, eventVars, upVars, acceptVars,
                 senderVars, ghosts, client, channels, queued, reader, app, commands>>

-----------------------------------------------------------------------------
(* _accept_loop; stop_event may be set while it waits for a connection *)

Accept(c) ==
  /\ accept = "accept"
  /\ c \in backlog /\ \A d \in backlog : c <= d
  /\ backlog' = backlog \ {c}
  /\ client' = c /\ serving' = c /\ accept' = "serve"
  /\ UNCHANGED <<conn, req, phase, late, requests, eventVars, upVars, escaping, senderVars,
                 ghosts, channels, queued, reader, app, commands>>

AcceptEnds ==
  /\ accept = "accept" /\ stop /\ accept' = "ended"
  /\ UNCHANGED <<clientVars, eventVars, upVars, serving, escaping, senderVars, ghosts, client,
                 channels, queued, reader, app, commands>>

(* _client_loop: a request, the end of the connection, or stop_event *)
Requested == accept = "serve" /\ ~stop /\ req[serving] # "none" /\ conn[serving] # "closed"

Serve ==
  /\ Requested
  /\ accept' = CASE req[serving] = "PLAY"  -> IF upstreamPaused THEN "resume" ELSE "reply"
                 [] req[serving] = "PAUSE" -> "pause"
                 [] OTHER                  -> "reply"
  /\ IF req[serving] = "SETUP"
     THEN \E k \in Channels :
            /\ channels' \in {{k}, channels \cup {k}}
            /\ mistaken' = mistaken \cup (IF k = "wide" THEN {"channel"} ELSE {})
     ELSE UNCHANGED <<channels, mistaken>>
  /\ play' = (play /\ req[serving] \notin {"PAUSE", "TEARDOWN"})
  /\ UNCHANGED <<clientVars, stop, upVars, serving, escaping, senderVars, moved, raced, client,
                 queued, reader, app, commands>>

(* A SETUP of a track the bridge does not have, or not over TCP, raises a  *)
(* RuntimeError, as the end of the connection does: _accept_loop catches it.*)
ServeEnds ==
  /\ accept = "serve" /\ accept' = "finally"
  /\ \/ Requested /\ req[serving] = "SETUP"
     \/ stop \/ conn[serving] = "closed" \/ (conn[serving] = "left" /\ req[serving] = "none")
  /\ UNCHANGED <<clientVars, play, stop, upVars, serving, escaping, senderVars, ghosts, client,
                 channels, queued, reader, app, commands>>

(* An exception of the playback is a DahuaError, and what cannot be read   *)
(* of a request a ValueError: _accept_loop catches neither, and the thread *)
(* ends after its finally clause.                                          *)
Escape == accept' = "finally" /\ escaping' = TRUE

(* Any request may be malformed: its first line is not of three words, or  *)
(* the channels of a SETUP are not numbers.                                *)
ServeRaises ==
  /\ Requested
  /\ Escape
  /\ mistaken' = mistaken \cup {"request"}
  /\ UNCHANGED <<clientVars, eventVars, upVars, serving, senderVars, moved, raced, client,
                 channels, queued, reader, app, commands>>

(* mutation: upstream_paused is not reset *)
ResumeStillPaused ==
  /\ accept = "resume" /\ ~Locked
  /\ IF up = "paused"
     THEN up' = "playing" /\ accept' = "reply" /\ UNCHANGED <<escaping, upstreamPaused>>
     ELSE Escape /\ UNCHANGED <<up, upstreamPaused>>
  /\ UNCHANGED <<clientVars, eventVars, failed, serving, senderVars, ghosts, client, channels,
                 queued, reader, app, commands>>

Resume ==
  /\ accept = "resume" /\ ~Locked
  /\ IF up = "paused"
     THEN up' = "playing" /\ upstreamPaused' = FALSE /\ accept' = "reply" /\ UNCHANGED escaping
     ELSE Escape /\ UNCHANGED <<up, upstreamPaused>>
  /\ UNCHANGED <<clientVars, eventVars, failed, serving, senderVars, ghosts, client, channels,
                 queued, reader, app, commands>>

Pause ==
  /\ accept = "pause" /\ ~Locked
  /\ raced' = (raced \/ reader = "receive")
  /\ IF up = "playing"
     THEN up' = "paused" /\ upstreamPaused' = TRUE /\ accept' = "reply" /\ UNCHANGED escaping
     ELSE Escape /\ UNCHANGED <<up, upstreamPaused>>
  /\ UNCHANGED <<clientVars, eventVars, failed, serving, senderVars, moved, mistaken, client,
                 channels, queued, reader, app, commands>>

(* The recorder refuses, or its reply does not come; the playback is what  *)
(* it was to the bridge.                                                   *)
ExchangeFails ==
  /\ accept \in {"resume", "pause"} /\ ~Locked
  /\ Escape /\ failed' = TRUE
  /\ UNCHANGED <<clientVars, eventVars, upstreamPaused, up, serving, senderVars, ghosts, client,
                 channels, queued, reader, app, commands>>

(* _send_response; it raises if the client has gone, or does not read for  *)
(* the 0.2 s of the connection's timeout.                                  *)
Reply ==
  /\ accept = "reply" /\ conn[serving] # "closed"
  /\ accept' = CASE req[serving] = "PLAY"     -> "set"
                 [] req[serving] = "TEARDOWN" -> "finally"
                 [] OTHER                     -> "serve"
  /\ phase' = [phase EXCEPT ![serving] = CASE req[serving] = "PLAY"  -> "playing"
                                           [] req[serving] = "SETUP" -> @
                                           [] OTHER                  -> "paused"]
  /\ late' = [late EXCEPT ![serving] = 0]
  /\ req' = [req EXCEPT ![serving] = "none"]
  /\ UNCHANGED <<conn, backlog, requests, eventVars, upVars, serving, escaping, senderVars,
                 ghosts, client, channels, queued, reader, app, commands>>

ReplyFails ==
  /\ accept = "reply" /\ accept' = "finally"
  /\ UNCHANGED <<clientVars, play, stop, upVars, serving, escaping, senderVars, ghosts, client,
                 channels, queued, reader, app, commands>>

SetPlay ==
  /\ accept = "set" /\ accept' = "serve" /\ play' = TRUE
  /\ UNCHANGED <<clientVars, stop, upVars, serving, escaping, senderVars, ghosts, client,
                 channels, queued, reader, app, commands>>

(* mutation: the next client inherits play_event *)
FinallyStillPlaying ==
  /\ accept = "finally" /\ accept' = "release"
  /\ UNCHANGED <<clientVars, eventVars, upVars, serving, escaping, senderVars, ghosts, client,
                 channels, queued, reader, app, commands>>

Finally ==
  /\ accept = "finally" /\ accept' = "release" /\ play' = FALSE
  /\ UNCHANGED <<clientVars, stop, upVars, serving, escaping, senderVars, ghosts, client,
                 channels, queued, reader, app, commands>>

Release ==
  /\ accept = "release" /\ accept' = IF escaping THEN "dead" ELSE "accept"
  /\ conn' = [conn EXCEPT ![serving] = "closed"]
  /\ client' = Nobody /\ serving' = Nobody
  /\ req' = [req EXCEPT ![serving] = "none"]
  /\ phase' = [phase EXCEPT ![serving] = "new"] /\ late' = [late EXCEPT ![serving] = 0]
  /\ UNCHANGED <<backlog, requests, eventVars, upVars, escaping, senderVars,
                 ghosts, channels, queued, reader, app, commands>>

-----------------------------------------------------------------------------
(* _reader_loop: waits for play_event, then for the lock *)

ReaderWakes ==
  /\ reader = "wait" /\ play /\ ~stop /\ reader' = "receive"
  /\ UNCHANGED <<clientVars, eventVars, upVars, acceptVars, senderVars, ghosts, client,
                 channels, queued, app, commands>>

ReaderEnds ==
  /\ reader = "wait" /\ stop /\ reader' = "ended"
  /\ UNCHANGED <<clientVars, eventVars, upVars, acceptVars, senderVars, ghosts, client,
                 channels, queued, app, commands>>

ReaderReceives ==
  /\ reader = "receive" /\ ~Locked /\ up = "playing" /\ reader' = "wait"
  /\ queued' = IF queued < MaxQueued /\ ~Closing THEN queued + 1 ELSE queued
  /\ UNCHANGED <<clientVars, eventVars, upVars, acceptVars, senderVars, ghosts, client,
                 channels, app, commands>>

ReaderRaises ==
  /\ reader = "receive" /\ ~Locked /\ up # "playing" /\ reader' = "ended"
  /\ stop' = TRUE
  /\ UNCHANGED <<clientVars, play, upVars, acceptVars, senderVars, ghosts, client, channels,
                 queued, app, commands>>

-----------------------------------------------------------------------------
(* _sender_loop: a packet, the connection and the tests; then the frame.   *)
(* The channel of the packet's track must fit into one byte of its header: *)
(* bytes() raises a ValueError otherwise, outside of the try statement.    *)

SenderAgain == sender' = "get" /\ target' = Nobody

SenderTakes ==
  /\ sender = "get" /\ ~stop /\ queued > 0 /\ queued' = queued - 1
  /\ IF client # Nobody /\ channels # {} /\ play
     THEN \/ "byte" \in channels /\ sender' = "send" /\ target' = client
          \/ "wide" \in channels /\ sender' = "dead" /\ UNCHANGED target
     ELSE UNCHANGED senderVars
  /\ UNCHANGED <<clientVars, eventVars, upVars, acceptVars, ghosts, client, channels, reader,
                 app, commands>>

SenderSends ==
  /\ sender = "send" /\ conn[target] # "closed" /\ SenderAgain
  /\ late' = [late EXCEPT ![target] = IF phase[target] = "playing" THEN @ ELSE @ + 1]
  /\ UNCHANGED <<conn, backlog, req, phase, requests, eventVars, upVars, acceptVars,
                 ghosts, client, channels, queued, reader, app, commands>>

(* the connection has gone, or took longer than its timeout of 0.2 s *)
SenderFails ==
  /\ sender = "send" /\ SenderAgain /\ play' = FALSE
  /\ UNCHANGED <<clientVars, stop, upVars, acceptVars, ghosts, client, channels,
                 queued, reader, app, commands>>

(* mutation: the sender looks at stop_event only when it has a packet *)
SenderEndsLoaded ==
  /\ sender = "get" /\ stop /\ queued > 0 /\ sender' = "ended"
  /\ UNCHANGED <<clientVars, eventVars, upVars, acceptVars, target, ghosts, client, channels,
                 queued, reader, app, commands>>

SenderEnds ==
  /\ sender = "get" /\ stop /\ sender' = "ended"
  /\ UNCHANGED <<clientVars, eventVars, upVars, acceptVars, target, ghosts, client, channels,
                 queued, reader, app, commands>>

-----------------------------------------------------------------------------
(* The application.  A seek, and a handoff that succeeds, leave a playback *)
(* that plays, whatever upstream_paused says, and clear the queue.         *)

Command == app = "idle" /\ commands < MaxCommands /\ commands' = commands + 1
SetGoing == up' = "playing" /\ moved' = (moved \/ upstreamPaused)

Seek ==
  /\ Command /\ up \in {"playing", "paused"} /\ SetGoing /\ queued' = 0
  /\ UNCHANGED <<clientVars, eventVars, upstreamPaused, failed, acceptVars, senderVars, raced,
                 mistaken, client, channels, reader, app>>

BeginHandoff ==
  /\ Command /\ app' = "handoff"
  /\ UNCHANGED <<clientVars, eventVars, upVars, acceptVars, senderVars, ghosts, client,
                 channels, queued, reader>>

(* mutation: a handoff has no deadline, and waits for a playback that plays *)
EndHandoffUntimed ==
  /\ app = "handoff" /\ up = "playing"
  /\ SetGoing /\ app' = "idle" /\ queued' \in 1..MaxQueued
  /\ UNCHANGED <<clientVars, eventVars, upstreamPaused, failed, acceptVars, senderVars, raced,
                 mistaken, client, channels, reader, commands>>

EndHandoff ==
  /\ app = "handoff" /\ app' = "idle"
  /\ \/ SetGoing /\ queued' \in 1..MaxQueued
     \/ UNCHANGED <<up, moved, queued>>
  /\ UNCHANGED <<clientVars, eventVars, upstreamPaused, failed, acceptVars, senderVars, raced,
                 mistaken, client, channels, reader, commands>>

Close ==
  /\ app = "idle" /\ app' = "shutdown"
  /\ stop' = TRUE /\ play' = FALSE /\ queued' = 0
  /\ UNCHANGED <<clientVars, upVars, acceptVars, senderVars, ghosts, client, channels,
                 reader, commands>>

(* The client's connection and the listening socket, with its backlog *)
Shutdown ==
  /\ app = "shutdown" /\ app' = "join" /\ client' = Nobody
  /\ conn' = [c \in Clients |-> IF c = client \/ c \in backlog THEN "closed" ELSE conn[c]]
  /\ req' = [c \in Clients |-> IF c \in backlog THEN "none" ELSE req[c]]
  /\ backlog' = {}
  /\ UNCHANGED <<phase, late, requests, eventVars, upVars, acceptVars, senderVars, ghosts,
                 channels, queued, reader, commands>>

Ended == accept \in {"ended", "dead"} /\ reader = "ended" /\ sender \in {"ended", "dead"}

(* The joins, each of at most two seconds, and playback.close() *)
Join ==
  /\ app = "join" /\ app' = "closed" /\ up' = "closed"
  /\ UNCHANGED <<clientVars, eventVars, upstreamPaused, failed, acceptVars, senderVars, ghosts,
                 client, channels, queued, reader, commands>>

UpstreamFails ==
  /\ up \in {"playing", "paused"} /\ up' = "failed" /\ failed' = TRUE
  /\ UNCHANGED <<clientVars, eventVars, upstreamPaused, acceptVars, senderVars, ghosts, client,
                 channels, queued, reader, app, commands>>

-----------------------------------------------------------------------------
Init ==
  /\ conn = [c \in Clients |-> "none"] /\ backlog = {}
  /\ req = [c \in Clients |-> "none"]
  /\ phase = [c \in Clients |-> "new"] /\ late = [c \in Clients |-> 0]
  /\ client = Nobody /\ channels = {}
  /\ play = FALSE /\ stop = FALSE
  /\ upstreamPaused = FALSE /\ up = "playing" /\ failed = FALSE /\ queued = 0
  /\ accept = "accept" /\ serving = Nobody /\ escaping = FALSE
  /\ reader = "wait" /\ sender = "get" /\ target = Nobody /\ app = "idle"
  /\ moved = FALSE /\ raced = FALSE /\ mistaken = {}
  /\ requests = 0 /\ commands = 0

ClientStep ==
  \E c \in Clients : Connect(c) \/ Leave(c) \/ \E m \in Methods : Ask(c, m)

AcceptStep ==
  \/ \E c \in Clients : Accept(c)
  \/ AcceptEnds \/ Serve \/ ServeEnds \/ ServeRaises \/ Resume \/ Pause \/ ExchangeFails
  \/ Reply \/ ReplyFails \/ SetPlay \/ Finally \/ Release

ReaderStep == ReaderWakes \/ ReaderEnds \/ ReaderReceives \/ ReaderRaises
SenderStep == SenderTakes \/ SenderSends \/ SenderFails \/ SenderEnds

Next ==
  \/ ClientStep \/ AcceptStep \/ ReaderStep \/ SenderStep
  \/ Seek \/ BeginHandoff \/ EndHandoff \/ Close \/ Shutdown \/ Join \/ UpstreamFails

Spec == Init /\ [][Next]_vars

(* The threads keep running, a handoff ends by its timeout, and a join by  *)
(* its own.  Clients and the application may stop anywhere else.           *)
FairSpec ==
  /\ Spec
  /\ WF_vars(AcceptStep) /\ WF_vars(ReaderStep) /\ WF_vars(SenderStep)
  /\ WF_vars(EndHandoff) /\ WF_vars(Shutdown) /\ WF_vars(Join)

-----------------------------------------------------------------------------
(* What ends a thread while the bridge runs.  The accept thread dies only  *)
(* of an upstream that failed, that was paused a second time, or that a    *)
(* seek or a handoff set going while upstream_paused said it was paused;   *)
(* or of a request that it cannot read.  The reader ends only of an        *)
(* upstream that failed or of a PAUSE that overtook it between its test of *)
(* play_event and its receive, and then sets stop_event.  And the sender   *)
(* dies only after a SETUP asked for a channel that no frame can bear.     *)
(* Nothing else that clients do, in any order, ends a thread.              *)
ThreadsEndForAReason ==
  /\ accept = "dead" /\ ~Closing => failed \/ moved \/ up = "paused" \/ "request" \in mistaken
  /\ reader = "ended" /\ ~Closing => stop /\ (failed \/ raced)
  /\ sender = "dead" => "channel" \in mistaken

(* Frames go to a client that has been told it plays: none before the      *)
(* answer to its own PLAY, whatever an earlier client did, and at most one *)
(* after the answer to its PAUSE or TEARDOWN, the one the sender already   *)
(* had in hand.                                                            *)
FramesOnlyToPlayers ==
  \A c \in Clients : late[c] <= IF phase[c] = "new" THEN 0 ELSE 1

(* A request of the client being served is answered, or its connection     *)
(* closed: no thread waits for ever for control_lock.                      *)
Waiting == serving # Nobody /\ req[serving] # "none" /\ conn[serving] = "open"
ServedAreAnswered == Waiting ~> ~Waiting

(* Once stop_event is set, by close() or by the reader, every thread ends. *)
AllThreadsEnd == stop ~> Ended
=============================================================================
