------------------------- MODULE BridgeSessionProofs -------------------------
(* Theorems about BridgeSession, for any connections and any number of     *)
(* requests, seeks, handoffs and packets.                                  *)
EXTENDS BridgeSession, TLAPS

ServingPlaces == {"serve", "resume", "pause", "reply", "set", "finally", "release"}

ClientTypes ==
  /\ conn \in [Clients -> {"none", "open", "left", "closed"}]
  /\ backlog \subseteq Clients
  /\ req \in [Clients -> Methods \cup {"none"}]
  /\ phase \in [Clients -> {"new", "playing", "paused"}]
  /\ late \in [Clients -> Nat]
  /\ requests \in Nat

BridgeTypes ==
  /\ client \in Clients \cup {Nobody}
  /\ up \in {"playing", "paused", "failed", "closed"}
  /\ queued \in Nat
  /\ accept \in ServingPlaces \cup {"accept", "ended", "dead"}
  /\ serving \in Clients \cup {Nobody}
  /\ reader \in {"wait", "receive", "ended"}
  /\ sender \in {"get", "send", "ended", "dead"} /\ target \in Clients \cup {Nobody}
  /\ app \in {"idle", "handoff", "shutdown", "join", "closed"}
  /\ commands \in Nat

EventTypes ==
  /\ channels \subseteq Channels /\ play \in BOOLEAN /\ stop \in BOOLEAN
  /\ upstreamPaused \in BOOLEAN /\ failed \in BOOLEAN /\ escaping \in BOOLEAN
  /\ moved \in BOOLEAN /\ raced \in BOOLEAN /\ mistaken \subseteq {"request", "channel"}

TypeOK == ClientTypes /\ BridgeTypes /\ EventTypes

(* The accept thread and the connection it serves, which is no longer one  *)
(* of the backlog.                                                         *)
AcceptInv ==
  /\ \A c \in backlog : conn[c] # "none"
  /\ serving # Nobody => conn[serving] # "none" /\ serving \notin backlog
  /\ serving # Nobody <=> accept \in ServingPlaces
  /\ client # Nobody => client = serving
  /\ accept \in {"resume", "pause", "reply"} => req[serving] # "none"
  /\ accept = "resume" => req[serving] = "PLAY" /\ upstreamPaused
  /\ accept = "pause" => req[serving] = "PAUSE"
  /\ escaping => accept \in {"finally", "release", "dead"}
  /\ accept = "dead" => escaping

(* The state of the upstream, and what upstream_paused says of it.         *)
UpInv ==
  /\ up = "paused" => upstreamPaused
  /\ up = "playing" /\ upstreamPaused => moved
  /\ up = "failed" => failed
  /\ up = "closed" => app = "closed"
  /\ escaping /\ ~Closing => failed \/ moved \/ up = "paused" \/ "request" \in mistaken

(* play_event is set only for the client that has been told it plays, and  *)
(* while the upstream plays or has been lost.                              *)
PlayInv ==
  /\ play => accept \in {"serve", "resume", "reply", "set", "finally"} /\ phase[serving] = "playing"
  /\ play /\ accept = "reply" => req[serving] \in {"PLAY", "SETUP"}
  /\ play => up # "paused"
  /\ accept = "reply" /\ req[serving] = "PLAY" => up # "paused"
  /\ accept = "set" => up # "paused" /\ phase[serving] = "playing"

(* The reader: it is in a receive with the upstream paused only when PAUSE *)
(* overtook it.                                                            *)
ReaderInv ==
  /\ reader = "receive" /\ up = "paused" => raced
  /\ stop /\ ~Closing => failed \/ raced
  /\ reader = "ended" => stop

(* A channel that no frame can bear is there because a SETUP asked for it, *)
(* and only then may the sender have met one.                              *)
ChannelInv ==
  /\ "wide" \in channels => "channel" \in mistaken
  /\ sender = "dead" => "channel" \in mistaken

(* The frame in the sender's hand: its client plays, or has been told only *)
(* just now that it does not.                                              *)
FrameInv ==
  /\ sender = "send" => target # Nobody
  /\ sender = "send" /\ conn[target] # "closed" =>
       phase[target] = "playing" \/ (phase[target] = "paused" /\ late[target] = 0)
  /\ FramesOnlyToPlayers

IInv == TypeOK /\ AcceptInv /\ UpInv /\ PlayInv /\ ReaderInv /\ ChannelInv /\ FrameInv

-----------------------------------------------------------------------------
(* Every step keeps the types, of the clients' state, ...                  *)
LEMMA ClientTypesStep ==
  ASSUME TypeOK, AcceptInv, FrameInv, [Next]_vars PROVE ClientTypes'
<1> USE DEF TypeOK, ClientTypes, clientVars, eventVars, upVars, acceptVars, senderVars, ghosts
<1>1. ASSUME NEW c \in Clients, Connect(c) PROVE ClientTypes' BY <1>1 DEF Connect
<1>2. ASSUME NEW c \in Clients, Leave(c) PROVE ClientTypes' BY <1>2 DEF Leave
<1>3. ASSUME NEW c \in Clients, NEW m \in Methods, Ask(c, m) PROVE ClientTypes' BY <1>3 DEF Ask
<1>4. ASSUME NEW c \in Clients, Accept(c) PROVE ClientTypes' BY <1>4 DEF Accept
<1>5. CASE AcceptEnds BY <1>5 DEF AcceptEnds
<1>6. CASE Serve BY <1>6 DEF Serve, Requested, Channels
<1>7. CASE ServeEnds BY <1>7 DEF ServeEnds
<1>8. CASE ServeRaises BY <1>8 DEF ServeRaises, Requested, Escape
<1>9. CASE Resume BY <1>9 DEF Resume, Escape
<1>10. CASE Pause BY <1>10 DEF Pause, Escape
<1>11. CASE ExchangeFails BY <1>11 DEF ExchangeFails, Escape
<1>12. CASE Reply
  <2>1. serving \in Clients
    BY <1>12 DEF Reply, AcceptInv, ServingPlaces, BridgeTypes
  <2>2. phase' \in [Clients -> {"new", "playing", "paused"}]
    BY <1>12, <2>1 DEF Reply
  <2>3. late' \in [Clients -> Nat]
    BY <1>12, <2>1 DEF Reply
  <2>4. req' \in [Clients -> Methods \cup {"none"}]
    BY <1>12, <2>1 DEF Reply
  <2>5. QED BY <1>12, <2>2, <2>3, <2>4 DEF Reply
<1>13. CASE ReplyFails BY <1>13 DEF ReplyFails
<1>14. CASE SetPlay BY <1>14 DEF SetPlay
<1>15. CASE Finally BY <1>15 DEF Finally
<1>16. CASE Release BY <1>16 DEF Release
<1>17. CASE ReaderWakes BY <1>17 DEF ReaderWakes
<1>18. CASE ReaderEnds BY <1>18 DEF ReaderEnds
<1>19. CASE ReaderReceives BY <1>19 DEF ReaderReceives
<1>20. CASE ReaderRaises BY <1>20 DEF ReaderRaises
<1>21. CASE SenderTakes BY <1>21 DEF SenderTakes
<1>22. CASE SenderSends
  <2>1. late' \in [Clients -> Nat]
    BY <1>22 DEF SenderSends, FrameInv, BridgeTypes
  <2>2. QED BY <1>22, <2>1 DEF SenderSends, SenderAgain
<1>23. CASE SenderFails BY <1>23 DEF SenderFails, SenderAgain
<1>24. CASE SenderEnds BY <1>24 DEF SenderEnds
<1>25. CASE Seek BY <1>25 DEF Seek, Command, SetGoing
<1>26. CASE BeginHandoff BY <1>26 DEF BeginHandoff, Command
<1>27. CASE EndHandoff BY <1>27 DEF EndHandoff, SetGoing
<1>28. CASE Close BY <1>28 DEF Close
<1>29. CASE Shutdown BY <1>29 DEF Shutdown
<1>30. CASE Join BY <1>30 DEF Join
<1>31. CASE UpstreamFails BY <1>31 DEF UpstreamFails
<1>32. CASE UNCHANGED vars BY <1>32 DEF vars
<1>33. QED
  BY <1>1, <1>2, <1>3, <1>4, <1>5, <1>6, <1>7, <1>8, <1>9, <1>10, <1>11, <1>12, <1>13, <1>14, <1>15, <1>16, <1>17, <1>18,
     <1>19, <1>20, <1>21, <1>22, <1>23, <1>24, <1>25, <1>26, <1>27, <1>28, <1>29, <1>30, <1>31, <1>32
     DEF Next, ClientStep, AcceptStep, ReaderStep, SenderStep

(* ... of the bridge's, ...                                                *)
LEMMA BridgeTypesStep ==
  ASSUME TypeOK, [Next]_vars PROVE BridgeTypes'
<1> USE BoundsAssumption DEF TypeOK, BridgeTypes, ServingPlaces, clientVars, eventVars, upVars, acceptVars, senderVars, ghosts
<1>1. ASSUME NEW c \in Clients, Connect(c) PROVE BridgeTypes' BY <1>1 DEF Connect
<1>2. ASSUME NEW c \in Clients, Leave(c) PROVE BridgeTypes' BY <1>2 DEF Leave
<1>3. ASSUME NEW c \in Clients, NEW m \in Methods, Ask(c, m) PROVE BridgeTypes' BY <1>3 DEF Ask
<1>4. ASSUME NEW c \in Clients, Accept(c) PROVE BridgeTypes' BY <1>4 DEF Accept
<1>5. CASE AcceptEnds BY <1>5 DEF AcceptEnds
<1>6. CASE Serve BY <1>6 DEF Serve, Requested, Channels
<1>7. CASE ServeEnds BY <1>7 DEF ServeEnds
<1>8. CASE ServeRaises BY <1>8 DEF ServeRaises, Requested, Escape
<1>9. CASE Resume BY <1>9 DEF Resume, Escape
<1>10. CASE Pause BY <1>10 DEF Pause, Escape
<1>11. CASE ExchangeFails BY <1>11 DEF ExchangeFails, Escape
<1>12. CASE Reply BY <1>12 DEF Reply
<1>13. CASE ReplyFails BY <1>13 DEF ReplyFails
<1>14. CASE SetPlay BY <1>14 DEF SetPlay
<1>15. CASE Finally BY <1>15 DEF Finally
<1>16. CASE Release BY <1>16 DEF Release
<1>17. CASE ReaderWakes BY <1>17 DEF ReaderWakes
<1>18. CASE ReaderEnds BY <1>18 DEF ReaderEnds
<1>19. CASE ReaderReceives BY <1>19 DEF ReaderReceives
<1>20. CASE ReaderRaises BY <1>20 DEF ReaderRaises
<1>21. CASE SenderTakes BY <1>21 DEF SenderTakes
<1>22. CASE SenderSends BY <1>22 DEF SenderSends, SenderAgain
<1>23. CASE SenderFails BY <1>23 DEF SenderFails, SenderAgain
<1>24. CASE SenderEnds BY <1>24 DEF SenderEnds
<1>25. CASE Seek BY <1>25 DEF Seek, Command, SetGoing
<1>26. CASE BeginHandoff BY <1>26 DEF BeginHandoff, Command
<1>27. CASE EndHandoff BY <1>27 DEF EndHandoff, SetGoing
<1>28. CASE Close BY <1>28 DEF Close
<1>29. CASE Shutdown BY <1>29 DEF Shutdown
<1>30. CASE Join BY <1>30 DEF Join
<1>31. CASE UpstreamFails BY <1>31 DEF UpstreamFails
<1>32. CASE UNCHANGED vars BY <1>32 DEF vars
<1>33. QED
  BY <1>1, <1>2, <1>3, <1>4, <1>5, <1>6, <1>7, <1>8, <1>9, <1>10, <1>11, <1>12, <1>13, <1>14, <1>15, <1>16, <1>17, <1>18,
     <1>19, <1>20, <1>21, <1>22, <1>23, <1>24, <1>25, <1>26, <1>27, <1>28, <1>29, <1>30, <1>31, <1>32
     DEF Next, ClientStep, AcceptStep, ReaderStep, SenderStep

(* ... and of the events and flags.                                        *)
LEMMA EventTypesStep ==
  ASSUME TypeOK, [Next]_vars PROVE EventTypes'
<1> USE DEF TypeOK, EventTypes, clientVars, eventVars, upVars, acceptVars, senderVars, ghosts
<1>1. ASSUME NEW c \in Clients, Connect(c) PROVE EventTypes' BY <1>1 DEF Connect
<1>2. ASSUME NEW c \in Clients, Leave(c) PROVE EventTypes' BY <1>2 DEF Leave
<1>3. ASSUME NEW c \in Clients, NEW m \in Methods, Ask(c, m) PROVE EventTypes' BY <1>3 DEF Ask
<1>4. ASSUME NEW c \in Clients, Accept(c) PROVE EventTypes' BY <1>4 DEF Accept
<1>5. CASE AcceptEnds BY <1>5 DEF AcceptEnds
<1>6. CASE Serve BY <1>6 DEF Serve, Requested, Channels
<1>7. CASE ServeEnds BY <1>7 DEF ServeEnds
<1>8. CASE ServeRaises BY <1>8 DEF ServeRaises, Requested, Escape
<1>9. CASE Resume BY <1>9 DEF Resume, Escape
<1>10. CASE Pause BY <1>10 DEF Pause, Escape
<1>11. CASE ExchangeFails BY <1>11 DEF ExchangeFails, Escape
<1>12. CASE Reply BY <1>12 DEF Reply
<1>13. CASE ReplyFails BY <1>13 DEF ReplyFails
<1>14. CASE SetPlay BY <1>14 DEF SetPlay
<1>15. CASE Finally BY <1>15 DEF Finally
<1>16. CASE Release BY <1>16 DEF Release
<1>17. CASE ReaderWakes BY <1>17 DEF ReaderWakes
<1>18. CASE ReaderEnds BY <1>18 DEF ReaderEnds
<1>19. CASE ReaderReceives BY <1>19 DEF ReaderReceives
<1>20. CASE ReaderRaises BY <1>20 DEF ReaderRaises
<1>21. CASE SenderTakes BY <1>21 DEF SenderTakes
<1>22. CASE SenderSends BY <1>22 DEF SenderSends, SenderAgain
<1>23. CASE SenderFails BY <1>23 DEF SenderFails, SenderAgain
<1>24. CASE SenderEnds BY <1>24 DEF SenderEnds
<1>25. CASE Seek BY <1>25 DEF Seek, Command, SetGoing
<1>26. CASE BeginHandoff BY <1>26 DEF BeginHandoff, Command
<1>27. CASE EndHandoff BY <1>27 DEF EndHandoff, SetGoing
<1>28. CASE Close BY <1>28 DEF Close
<1>29. CASE Shutdown BY <1>29 DEF Shutdown
<1>30. CASE Join BY <1>30 DEF Join
<1>31. CASE UpstreamFails BY <1>31 DEF UpstreamFails
<1>32. CASE UNCHANGED vars BY <1>32 DEF vars
<1>33. QED
  BY <1>1, <1>2, <1>3, <1>4, <1>5, <1>6, <1>7, <1>8, <1>9, <1>10, <1>11, <1>12, <1>13, <1>14, <1>15, <1>16, <1>17, <1>18,
     <1>19, <1>20, <1>21, <1>22, <1>23, <1>24, <1>25, <1>26, <1>27, <1>28, <1>29, <1>30, <1>31, <1>32
     DEF Next, ClientStep, AcceptStep, ReaderStep, SenderStep


-----------------------------------------------------------------------------
(* The accept thread serves one connection, and no request changes under   *)
(* it before it is answered.                                               *)
LEMMA AcceptInvStep ==
  ASSUME TypeOK, AcceptInv, [Next]_vars PROVE AcceptInv'
<1> USE ClientsAssumption DEF TypeOK, ClientTypes, BridgeTypes, ServingPlaces, Nobody, AcceptInv, clientVars, eventVars, upVars, acceptVars, senderVars, ghosts
<1>1. ASSUME NEW c \in Clients, Connect(c) PROVE AcceptInv' BY <1>1 DEF Connect
<1>2. ASSUME NEW c \in Clients, Leave(c) PROVE AcceptInv' BY <1>2 DEF Leave
<1>3. ASSUME NEW c \in Clients, NEW m \in Methods, Ask(c, m) PROVE AcceptInv' BY <1>3 DEF Ask
<1>4. ASSUME NEW c \in Clients, Accept(c) PROVE AcceptInv' BY <1>4 DEF Accept
<1>5. CASE AcceptEnds BY <1>5 DEF AcceptEnds
<1>6. CASE Serve BY <1>6 DEF Serve, Requested, Channels
<1>7. CASE ServeEnds BY <1>7 DEF ServeEnds
<1>8. CASE ServeRaises BY <1>8 DEF ServeRaises, Requested, Escape
<1>9. CASE Resume BY <1>9 DEF Resume, Escape
<1>10. CASE Pause BY <1>10 DEF Pause, Escape
<1>11. CASE ExchangeFails BY <1>11 DEF ExchangeFails, Escape
<1>12. CASE Reply BY <1>12 DEF Reply
<1>13. CASE ReplyFails BY <1>13 DEF ReplyFails
<1>14. CASE SetPlay BY <1>14 DEF SetPlay
<1>15. CASE Finally BY <1>15 DEF Finally
<1>16. CASE Release BY <1>16 DEF Release
<1>17. CASE ReaderWakes BY <1>17 DEF ReaderWakes
<1>18. CASE ReaderEnds BY <1>18 DEF ReaderEnds
<1>19. CASE ReaderReceives BY <1>19 DEF ReaderReceives
<1>20. CASE ReaderRaises BY <1>20 DEF ReaderRaises
<1>21. CASE SenderTakes BY <1>21 DEF SenderTakes
<1>22. CASE SenderSends BY <1>22 DEF SenderSends, SenderAgain
<1>23. CASE SenderFails BY <1>23 DEF SenderFails, SenderAgain
<1>24. CASE SenderEnds BY <1>24 DEF SenderEnds
<1>25. CASE Seek BY <1>25 DEF Seek, Command, SetGoing
<1>26. CASE BeginHandoff BY <1>26 DEF BeginHandoff, Command
<1>27. CASE EndHandoff BY <1>27 DEF EndHandoff, SetGoing
<1>28. CASE Close BY <1>28 DEF Close
<1>29. CASE Shutdown BY <1>29 DEF Shutdown
<1>30. CASE Join BY <1>30 DEF Join
<1>31. CASE UpstreamFails BY <1>31 DEF UpstreamFails
<1>32. CASE UNCHANGED vars BY <1>32 DEF vars
<1>33. QED
  BY <1>1, <1>2, <1>3, <1>4, <1>5, <1>6, <1>7, <1>8, <1>9, <1>10, <1>11, <1>12, <1>13, <1>14, <1>15, <1>16, <1>17, <1>18,
     <1>19, <1>20, <1>21, <1>22, <1>23, <1>24, <1>25, <1>26, <1>27, <1>28, <1>29, <1>30, <1>31, <1>32
     DEF Next, ClientStep, AcceptStep, ReaderStep, SenderStep

(* The upstream, and the ways in which the accept thread may meet it in a  *)
(* state that raises.                                                      *)
LEMMA UpInvStep ==
  ASSUME TypeOK, AcceptInv, UpInv, [Next]_vars PROVE UpInv'
<1> USE DEF TypeOK, ClientTypes, BridgeTypes, ServingPlaces, Nobody, AcceptInv, UpInv, Closing, Locked, clientVars, eventVars, upVars, acceptVars, senderVars, ghosts
<1>1. ASSUME NEW c \in Clients, Connect(c) PROVE UpInv' BY <1>1 DEF Connect
<1>2. ASSUME NEW c \in Clients, Leave(c) PROVE UpInv' BY <1>2 DEF Leave
<1>3. ASSUME NEW c \in Clients, NEW m \in Methods, Ask(c, m) PROVE UpInv' BY <1>3 DEF Ask
<1>4. ASSUME NEW c \in Clients, Accept(c) PROVE UpInv' BY <1>4 DEF Accept
<1>5. CASE AcceptEnds BY <1>5 DEF AcceptEnds
<1>6. CASE Serve BY <1>6 DEF Serve, Requested, Channels
<1>7. CASE ServeEnds BY <1>7 DEF ServeEnds
<1>8. CASE ServeRaises BY <1>8 DEF ServeRaises, Requested, Escape
<1>9. CASE Resume BY <1>9 DEF Resume, Escape
<1>10. CASE Pause BY <1>10 DEF Pause, Escape
<1>11. CASE ExchangeFails BY <1>11 DEF ExchangeFails, Escape
<1>12. CASE Reply BY <1>12 DEF Reply
<1>13. CASE ReplyFails BY <1>13 DEF ReplyFails
<1>14. CASE SetPlay BY <1>14 DEF SetPlay
<1>15. CASE Finally BY <1>15 DEF Finally
<1>16. CASE Release BY <1>16 DEF Release
<1>17. CASE ReaderWakes BY <1>17 DEF ReaderWakes
<1>18. CASE ReaderEnds BY <1>18 DEF ReaderEnds
<1>19. CASE ReaderReceives BY <1>19 DEF ReaderReceives
<1>20. CASE ReaderRaises BY <1>20 DEF ReaderRaises
<1>21. CASE SenderTakes BY <1>21 DEF SenderTakes
<1>22. CASE SenderSends BY <1>22 DEF SenderSends, SenderAgain
<1>23. CASE SenderFails BY <1>23 DEF SenderFails, SenderAgain
<1>24. CASE SenderEnds BY <1>24 DEF SenderEnds
<1>25. CASE Seek BY <1>25 DEF Seek, Command, SetGoing
<1>26. CASE BeginHandoff BY <1>26 DEF BeginHandoff, Command
<1>27. CASE EndHandoff BY <1>27 DEF EndHandoff, SetGoing
<1>28. CASE Close BY <1>28 DEF Close
<1>29. CASE Shutdown BY <1>29 DEF Shutdown
<1>30. CASE Join BY <1>30 DEF Join
<1>31. CASE UpstreamFails BY <1>31 DEF UpstreamFails
<1>32. CASE UNCHANGED vars BY <1>32 DEF vars
<1>33. QED
  BY <1>1, <1>2, <1>3, <1>4, <1>5, <1>6, <1>7, <1>8, <1>9, <1>10, <1>11, <1>12, <1>13, <1>14, <1>15, <1>16, <1>17, <1>18,
     <1>19, <1>20, <1>21, <1>22, <1>23, <1>24, <1>25, <1>26, <1>27, <1>28, <1>29, <1>30, <1>31, <1>32
     DEF Next, ClientStep, AcceptStep, ReaderStep, SenderStep

(* play_event.                                                             *)
LEMMA PlayInvStep ==
  ASSUME TypeOK, AcceptInv, UpInv, PlayInv, [Next]_vars PROVE PlayInv'
<1> USE ClientsAssumption DEF TypeOK, ClientTypes, BridgeTypes, ServingPlaces, Nobody, AcceptInv, UpInv, PlayInv, Closing, clientVars, eventVars, upVars, acceptVars, senderVars, ghosts
<1>1. ASSUME NEW c \in Clients, Connect(c) PROVE PlayInv' BY <1>1 DEF Connect
<1>2. ASSUME NEW c \in Clients, Leave(c) PROVE PlayInv' BY <1>2 DEF Leave
<1>3. ASSUME NEW c \in Clients, NEW m \in Methods, Ask(c, m) PROVE PlayInv' BY <1>3 DEF Ask
<1>4. ASSUME NEW c \in Clients, Accept(c) PROVE PlayInv' BY <1>4 DEF Accept
<1>5. CASE AcceptEnds BY <1>5 DEF AcceptEnds
<1>6. CASE Serve
  <2>1. /\ accept = "serve" /\ UNCHANGED <<phase, req, serving, up>>
        /\ play' => play /\ req[serving] \notin {"PAUSE", "TEARDOWN"}
    BY <1>6 DEF Serve, Requested
  <2>2. /\ accept' = "resume" => upstreamPaused /\ req[serving] = "PLAY"
        /\ accept' = "pause" => req[serving] = "PAUSE"
        /\ accept' = "reply" => req[serving] # "PAUSE" /\ (req[serving] = "PLAY" => ~upstreamPaused)
        /\ accept' \in {"resume", "pause", "reply"}
    BY <1>6 DEF Serve, Requested
  <2>3. req[serving] \in Methods
    <3>1. serving \in Clients
      BY <2>1
    <3>2. QED BY <1>6, <3>1 DEF Serve, Requested
  <2>4. QED BY <2>1, <2>2, <2>3 DEF Methods
<1>7. CASE ServeEnds BY <1>7 DEF ServeEnds
<1>8. CASE ServeRaises BY <1>8 DEF ServeRaises, Requested, Escape
<1>9. CASE Resume BY <1>9 DEF Resume, Escape
<1>10. CASE Pause
  <2>1. /\ accept = "pause" /\ accept' \in {"reply", "finally"} /\ UNCHANGED <<phase, req, serving, play>>
        /\ req[serving] = "PAUSE"
    BY <1>10 DEF Pause, Escape
  <2>2. ~play /\ ~play'
    BY <2>1
  <2>3. QED BY <2>1, <2>2
<1>11. CASE ExchangeFails BY <1>11 DEF ExchangeFails, Escape
<1>12. CASE Reply BY <1>12 DEF Reply
<1>13. CASE ReplyFails BY <1>13 DEF ReplyFails
<1>14. CASE SetPlay BY <1>14 DEF SetPlay
<1>15. CASE Finally BY <1>15 DEF Finally
<1>16. CASE Release BY <1>16 DEF Release
<1>17. CASE ReaderWakes BY <1>17 DEF ReaderWakes
<1>18. CASE ReaderEnds BY <1>18 DEF ReaderEnds
<1>19. CASE ReaderReceives BY <1>19 DEF ReaderReceives
<1>20. CASE ReaderRaises BY <1>20 DEF ReaderRaises
<1>21. CASE SenderTakes BY <1>21 DEF SenderTakes
<1>22. CASE SenderSends BY <1>22 DEF SenderSends, SenderAgain
<1>23. CASE SenderFails BY <1>23 DEF SenderFails, SenderAgain
<1>24. CASE SenderEnds BY <1>24 DEF SenderEnds
<1>25. CASE Seek BY <1>25 DEF Seek, Command, SetGoing
<1>26. CASE BeginHandoff BY <1>26 DEF BeginHandoff, Command
<1>27. CASE EndHandoff BY <1>27 DEF EndHandoff, SetGoing
<1>28. CASE Close BY <1>28 DEF Close
<1>29. CASE Shutdown BY <1>29 DEF Shutdown
<1>30. CASE Join BY <1>30 DEF Join
<1>31. CASE UpstreamFails BY <1>31 DEF UpstreamFails
<1>32. CASE UNCHANGED vars BY <1>32 DEF vars
<1>33. QED
  BY <1>1, <1>2, <1>3, <1>4, <1>5, <1>6, <1>7, <1>8, <1>9, <1>10, <1>11, <1>12, <1>13, <1>14, <1>15, <1>16, <1>17, <1>18,
     <1>19, <1>20, <1>21, <1>22, <1>23, <1>24, <1>25, <1>26, <1>27, <1>28, <1>29, <1>30, <1>31, <1>32
     DEF Next, ClientStep, AcceptStep, ReaderStep, SenderStep

(* The reader, and who sets stop_event.                                    *)
LEMMA ReaderInvStep ==
  ASSUME TypeOK, UpInv, PlayInv, ReaderInv, [Next]_vars PROVE ReaderInv'
<1> USE DEF TypeOK, ClientTypes, BridgeTypes, ServingPlaces, Nobody, UpInv, PlayInv, ReaderInv, Closing, clientVars, eventVars, upVars, acceptVars, senderVars, ghosts
<1>1. ASSUME NEW c \in Clients, Connect(c) PROVE ReaderInv' BY <1>1 DEF Connect
<1>2. ASSUME NEW c \in Clients, Leave(c) PROVE ReaderInv' BY <1>2 DEF Leave
<1>3. ASSUME NEW c \in Clients, NEW m \in Methods, Ask(c, m) PROVE ReaderInv' BY <1>3 DEF Ask
<1>4. ASSUME NEW c \in Clients, Accept(c) PROVE ReaderInv' BY <1>4 DEF Accept
<1>5. CASE AcceptEnds BY <1>5 DEF AcceptEnds
<1>6. CASE Serve BY <1>6 DEF Serve, Requested, Channels
<1>7. CASE ServeEnds BY <1>7 DEF ServeEnds
<1>8. CASE ServeRaises BY <1>8 DEF ServeRaises, Requested, Escape
<1>9. CASE Resume BY <1>9 DEF Resume, Escape
<1>10. CASE Pause BY <1>10 DEF Pause, Escape
<1>11. CASE ExchangeFails BY <1>11 DEF ExchangeFails, Escape
<1>12. CASE Reply BY <1>12 DEF Reply
<1>13. CASE ReplyFails BY <1>13 DEF ReplyFails
<1>14. CASE SetPlay BY <1>14 DEF SetPlay
<1>15. CASE Finally BY <1>15 DEF Finally
<1>16. CASE Release BY <1>16 DEF Release
<1>17. CASE ReaderWakes BY <1>17 DEF ReaderWakes
<1>18. CASE ReaderEnds BY <1>18 DEF ReaderEnds
<1>19. CASE ReaderReceives BY <1>19 DEF ReaderReceives
<1>20. CASE ReaderRaises BY <1>20 DEF ReaderRaises
<1>21. CASE SenderTakes BY <1>21 DEF SenderTakes
<1>22. CASE SenderSends BY <1>22 DEF SenderSends, SenderAgain
<1>23. CASE SenderFails BY <1>23 DEF SenderFails, SenderAgain
<1>24. CASE SenderEnds BY <1>24 DEF SenderEnds
<1>25. CASE Seek BY <1>25 DEF Seek, Command, SetGoing
<1>26. CASE BeginHandoff BY <1>26 DEF BeginHandoff, Command
<1>27. CASE EndHandoff BY <1>27 DEF EndHandoff, SetGoing
<1>28. CASE Close BY <1>28 DEF Close
<1>29. CASE Shutdown BY <1>29 DEF Shutdown
<1>30. CASE Join BY <1>30 DEF Join
<1>31. CASE UpstreamFails BY <1>31 DEF UpstreamFails
<1>32. CASE UNCHANGED vars BY <1>32 DEF vars
<1>33. QED
  BY <1>1, <1>2, <1>3, <1>4, <1>5, <1>6, <1>7, <1>8, <1>9, <1>10, <1>11, <1>12, <1>13, <1>14, <1>15, <1>16, <1>17, <1>18,
     <1>19, <1>20, <1>21, <1>22, <1>23, <1>24, <1>25, <1>26, <1>27, <1>28, <1>29, <1>30, <1>31, <1>32
     DEF Next, ClientStep, AcceptStep, ReaderStep, SenderStep

(* The channels, and what the sender makes of them.                        *)
LEMMA ChannelInvStep ==
  ASSUME EventTypes, ChannelInv, [Next]_vars PROVE ChannelInv'
<1> USE DEF ChannelInv
<1>1. CASE Serve BY <1>1 DEF Serve, senderVars
<1>2. CASE ServeRaises BY <1>2 DEF ServeRaises, senderVars
<1>3. CASE SenderStep
  BY <1>3 DEF SenderStep, SenderTakes, SenderSends, SenderFails, SenderEnds, SenderAgain, senderVars, ghosts
<1>4. ASSUME ~(Serve \/ ServeRaises \/ SenderStep)
      PROVE UNCHANGED <<channels, sender, mistaken>>
  <2> USE <1>4 DEF senderVars, ghosts
  <2>1. CASE ClientStep BY <2>1 DEF ClientStep, Connect, Leave, Ask
  <2>2. CASE AcceptStep
    BY <2>2 DEF AcceptStep, Accept, AcceptEnds, ServeEnds, Resume, Pause, ExchangeFails, Reply, ReplyFails,
       SetPlay, Finally, Release
  <2>3. CASE ReaderStep BY <2>3 DEF ReaderStep, ReaderWakes, ReaderEnds, ReaderReceives, ReaderRaises
  <2>4. CASE Seek \/ BeginHandoff \/ EndHandoff BY <2>4 DEF Seek, BeginHandoff, EndHandoff
  <2>5. CASE Close \/ Shutdown \/ Join \/ UpstreamFails BY <2>5 DEF Close, Shutdown, Join, UpstreamFails
  <2>6. CASE UNCHANGED vars BY <2>6 DEF vars
  <2>7. QED BY <2>1, <2>2, <2>3, <2>4, <2>5, <2>6 DEF Next
<1>5. QED BY <1>1, <1>2, <1>3, <1>4

(* The frame in the sender's hand.                                         *)
LEMMA FrameInvStep ==
  ASSUME TypeOK, AcceptInv, PlayInv, FrameInv, [Next]_vars PROVE FrameInv'
<1> USE ClientsAssumption DEF TypeOK, ClientTypes, BridgeTypes, ServingPlaces, Nobody, AcceptInv, PlayInv, FrameInv, FramesOnlyToPlayers, clientVars, eventVars, upVars, acceptVars, senderVars, ghosts
<1>1. ASSUME NEW c \in Clients, Connect(c) PROVE FrameInv' BY <1>1 DEF Connect
<1>2. ASSUME NEW c \in Clients, Leave(c) PROVE FrameInv' BY <1>2 DEF Leave
<1>3. ASSUME NEW c \in Clients, NEW m \in Methods, Ask(c, m) PROVE FrameInv' BY <1>3 DEF Ask
<1>4. ASSUME NEW c \in Clients, Accept(c) PROVE FrameInv' BY <1>4 DEF Accept
<1>5. CASE AcceptEnds BY <1>5 DEF AcceptEnds
<1>6. CASE Serve BY <1>6 DEF Serve, Requested, Channels
<1>7. CASE ServeEnds BY <1>7 DEF ServeEnds
<1>8. CASE ServeRaises BY <1>8 DEF ServeRaises, Requested, Escape
<1>9. CASE Resume BY <1>9 DEF Resume, Escape
<1>10. CASE Pause BY <1>10 DEF Pause, Escape
<1>11. CASE ExchangeFails BY <1>11 DEF ExchangeFails, Escape
<1>12. CASE Reply BY <1>12 DEF Reply
<1>13. CASE ReplyFails BY <1>13 DEF ReplyFails
<1>14. CASE SetPlay BY <1>14 DEF SetPlay
<1>15. CASE Finally BY <1>15 DEF Finally
<1>16. CASE Release BY <1>16 DEF Release
<1>17. CASE ReaderWakes BY <1>17 DEF ReaderWakes
<1>18. CASE ReaderEnds BY <1>18 DEF ReaderEnds
<1>19. CASE ReaderReceives BY <1>19 DEF ReaderReceives
<1>20. CASE ReaderRaises BY <1>20 DEF ReaderRaises
<1>21. CASE SenderTakes BY <1>21 DEF SenderTakes
<1>22. CASE SenderSends BY <1>22 DEF SenderSends, SenderAgain
<1>23. CASE SenderFails BY <1>23 DEF SenderFails, SenderAgain
<1>24. CASE SenderEnds BY <1>24 DEF SenderEnds
<1>25. CASE Seek BY <1>25 DEF Seek, Command, SetGoing
<1>26. CASE BeginHandoff BY <1>26 DEF BeginHandoff, Command
<1>27. CASE EndHandoff BY <1>27 DEF EndHandoff, SetGoing
<1>28. CASE Close BY <1>28 DEF Close
<1>29. CASE Shutdown BY <1>29 DEF Shutdown
<1>30. CASE Join BY <1>30 DEF Join
<1>31. CASE UpstreamFails BY <1>31 DEF UpstreamFails
<1>32. CASE UNCHANGED vars BY <1>32 DEF vars
<1>33. QED
  BY <1>1, <1>2, <1>3, <1>4, <1>5, <1>6, <1>7, <1>8, <1>9, <1>10, <1>11, <1>12, <1>13, <1>14, <1>15, <1>16, <1>17, <1>18,
     <1>19, <1>20, <1>21, <1>22, <1>23, <1>24, <1>25, <1>26, <1>27, <1>28, <1>29, <1>30, <1>31, <1>32
     DEF Next, ClientStep, AcceptStep, ReaderStep, SenderStep

-----------------------------------------------------------------------------
(* IInv is an inductive invariant.                                         *)
LEMMA Invariance == Spec => []IInv
<1>1. Init => TypeOK
  <2>1. Init => ClientTypes
    BY DEF Init, ClientTypes
  <2>2. Init => BridgeTypes
    BY DEF Init, BridgeTypes, ServingPlaces, Nobody
  <2>3. Init => EventTypes
    BY DEF Init, EventTypes
  <2>4. QED BY <2>1, <2>2, <2>3 DEF TypeOK
<1>2. Init => AcceptInv /\ UpInv /\ PlayInv /\ ReaderInv /\ ChannelInv /\ FrameInv
  BY DEF Init, AcceptInv, ServingPlaces, UpInv, PlayInv, ReaderInv, ChannelInv, FrameInv, FramesOnlyToPlayers
<1>3. IInv /\ [Next]_vars => IInv'
  BY ClientTypesStep, BridgeTypesStep, EventTypesStep, AcceptInvStep, UpInvStep, PlayInvStep, ReaderInvStep,
     ChannelInvStep, FrameInvStep DEF IInv, TypeOK
<1>4. QED BY <1>1, <1>2, <1>3, PTL DEF Spec, IInv

(* Whatever the clients do, and however seeks and handoffs fall between    *)
(* their requests, the accept thread, the reader and the sender end for    *)
(* the reasons that ThreadsEndForAReason names, a request or a channel     *)
(* that nothing catches among them, and for no other.                      *)
THEOREM ThreadsDoNotJustDie == Spec => []ThreadsEndForAReason
<1>1. IInv => ThreadsEndForAReason
  BY DEF IInv, AcceptInv, UpInv, ReaderInv, ChannelInv, ThreadsEndForAReason
<1>2. QED BY <1>1, Invariance, PTL

(* However many clients follow each other, none is sent a frame before it  *)
(* is told it plays, nor more than one after it is told it does not.       *)
THEOREM FramesFollowPlay == Spec => []FramesOnlyToPlayers
<1>1. IInv => FramesOnlyToPlayers
  BY DEF IInv, FrameInv
<1>2. QED BY <1>1, Invariance, PTL

(* The variables hold what they are meant to hold.                         *)
THEOREM TypeCorrect == Spec => []TypeOK
<1>1. IInv => TypeOK
  BY DEF IInv
<1>2. QED BY <1>1, Invariance, PTL

(* play_event is never left over.  While it is set, a client is being      *)
(* served that has been told it plays, and the upstream, whatever earlier  *)
(* clients, seeks and handoffs did to it, is not paused: an answered PLAY  *)
(* is not one that nothing can follow.                                     *)
PlayIsForSomebody == play => serving # Nobody /\ phase[serving] = "playing" /\ up # "paused"

THEOREM PlayIsNeverLeftOver == Spec => []PlayIsForSomebody
<1>1. IInv => PlayIsForSomebody
  BY DEF IInv, AcceptInv, ServingPlaces, PlayInv, PlayIsForSomebody
<1>2. QED BY <1>1, Invariance, PTL
=============================================================================
