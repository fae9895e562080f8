------------------------ MODULE SyslogServerProofs --------------------------
(***************************************************************************)
(* Theorems about SyslogServer, for every set of clients, every ring       *)
(* capacity and connection cap, and both builds.                           *)
(***************************************************************************)
EXTENDS SyslogServer, SequenceTheorems, FiniteSetTheorems, TLAPS

-----------------------------------------------------------------------------
(* Facts about the operators. *)

\* Capacity is config.ring_capacity.max(1), hence positive.
LEMMA CapacityType == Capacity \in Nat \ {0}
  BY ServerAssumption DEF Capacity

\* The threads are pairwise different.
LEMMA ThreadFacts ==
  /\ Udp \in Sources /\ Udp \in Threads /\ Acceptor \in Threads
  /\ Acceptor \notin Sources /\ Udp # Acceptor
  /\ Udp \notin Conns /\ Acceptor \notin Conns
  /\ Conns \subseteq Sources /\ Sources \subseteq Threads
  /\ \A s \in Sources : s = Udp \/ s \in Conns
  BY ServerAssumption DEF Threads, Sources

\* The messages a chunk yields are numbered after the last one decoded.
LEMMA FreshFacts ==
  ASSUME NEW s \in Sources, NEW k \in Nat, made \in [Sources -> Nat]
  PROVE  /\ Fresh(s, k) \in Seq(Ring!Messages)
         /\ Len(Fresh(s, k)) = k
         /\ \A i \in 1 .. k : Fresh(s, k)[i] = Message(s, made[s] + i)
  <1>1. made[s] \in Nat
    OBVIOUS
  <1>2. \A i \in 1 .. k : Message(s, made[s] + i) \in Ring!Messages
    BY <1>1 DEF Message, Ring!Messages
  <1>3. Fresh(s, k) \in [1 .. k -> Ring!Messages]
    BY <1>2 DEF Fresh
  <1>4. Fresh(s, k) \in Seq(Ring!Messages)
    BY <1>3, SeqDef
  <1> QED
    BY <1>3, <1>4, LenProperties DEF Fresh

\* fetch_add on the counter a result selects keeps the counters well typed.
LEMMA BumpType ==
  ASSUME NEW st \in Stats, NEW r \in {"ok", "full", "disconnected"}
  PROVE  /\ Bump(st, r) \in Stats
         /\ Bump(st, r).delivered =
              IF r = "ok" THEN st.delivered + 1 ELSE st.delivered
  <1>1. CASE r = "ok"
    BY <1>1 DEF Bump, Stats
  <1>2. CASE r = "full"
    BY <1>2 DEF Bump, Stats
  <1>3. CASE r = "disconnected"
    BY <1>3 DEF Bump, Stats
  <1> QED
    BY <1>1, <1>2, <1>3
\* Counting a rejected connection keeps the counters well typed.
LEMMA RejectedType ==
  ASSUME NEW st \in Stats
  PROVE  [st EXCEPT !.rejected_connections = @ + 1] \in Stats
  BY DEF Stats

-----------------------------------------------------------------------------
(* Types and control state are an inductive invariant by themselves.       *)

\* Next, spelled out as the list of steps the proofs go through.
LEMMA NextCases ==
  ASSUME Next
  PROVE  \/ DatagramArrives
         \/ \E c \in Conns : PeerConnects(c) \/ PeerLeaves(c)
         \/ \E s \in Sources : TrySend(s) \/ Count(s)
         \/ UdpCheck \/ UdpRecv \/ UdpIdle \/ UdpError
         \/ AcceptCheck \/ AcceptIdle \/ AcceptError \/ AcceptBump \/ AcceptUnbump
         \/ \E c \in Conns : AcceptConn(c) \/ AcceptSpawn(c) \/ AcceptReject(c)
         \/ \E c \in Conns : ConnCheck(c) \/ ConnEnd(c) \/ ConnWouldBlock(c)
                               \/ ConnFlush(c) \/ ConnExit(c)
         \/ \E c \in Conns, k \in Nat :
              ConnTooLarge(c, k) \/ \E p \in BOOLEAN : ConnRead(c, k, p)
         \/ Recv \/ DropReceiver
         \/ \E how \in {"joining", "dropping"} : Shutdown(how)
         \/ UNCHANGED vars
  <1> USE ThreadFacts
  <1>1. CASE Environment
    BY <1>1 DEF Environment
  <1>2. CASE UdpThread
    BY <1>2 DEF UdpThread
  <1>3. CASE AcceptThread
    BY <1>3 DEF AcceptThread
  <1>4. ASSUME NEW c \in Conns, ConnThread(c)
        PROVE  \/ \E s \in Sources : TrySend(s) \/ Count(s)
               \/ ConnCheck(c) \/ ConnEnd(c) \/ ConnWouldBlock(c)
               \/ ConnFlush(c) \/ ConnExit(c)
    BY <1>4 DEF ConnThread
  <1>5. ASSUME NEW c \in Conns, Receive(c)
        PROVE  \E k \in Nat :
                 ConnTooLarge(c, k) \/ \E p \in BOOLEAN : ConnRead(c, k, p)
    BY <1>5, ServerAssumption DEF Receive
  <1>6. CASE Terminated
    BY <1>6 DEF Terminated
  <1> QED
    BY <1>1, <1>2, <1>3, <1>4, <1>5, <1>6 DEF Next

\* Every step of a server thread, of the owner or of the network keeps the types
\* of all variables but live.
LEMMA TypeStep ==
  ASSUME Typed, ControlOK, [Next]_vars
  PROVE  Typed' /\ ControlOK'
  <1> USE ThreadFacts, ServerAssumption DEF vars, netVars, chanVars, connVars
  <1>1. ASSUME DatagramArrives PROVE Typed' /\ ControlOK'
    <2>1. udpQ' \in Seq(Nat) /\ kdrops' \in Nat
      <3>1. CASE Len(udpQ) < SocketQueue
        <4>1. udpQ' = Append(udpQ, kdrops) /\ kdrops' = kdrops
          BY <1>1, <3>1 DEF DatagramArrives
        <4>2. udpQ \in Seq(Nat) /\ kdrops \in Nat
          BY DEF Typed
        <4> QED
          BY <4>1, <4>2, AppendProperties
      <3>2. CASE ~(Len(udpQ) < SocketQueue)
        BY <1>1, <3>2 DEF DatagramArrives, Typed
      <3> QED
        BY <3>1, <3>2
    <2> QED
      BY <1>1, <2>1 DEF DatagramArrives, Typed, ControlOK, PcValues
  <1>2. ASSUME NEW c \in Conns, PeerConnects(c) PROVE Typed' /\ ControlOK'
    BY <1>2 DEF PeerConnects, Typed, ControlOK, PcValues
  <1>3. ASSUME NEW c \in Conns, PeerLeaves(c) PROVE Typed' /\ ControlOK'
    BY <1>3 DEF PeerLeaves, Typed, ControlOK, PcValues
  <1>4. ASSUME NEW s \in Sources, TrySend(s) PROVE Typed' /\ ControlOK'
    <2>1. todo[s] \in Seq(Ring!Messages) /\ todo[s] # <<>>
      BY <1>4 DEF TrySend, Typed, ControlOK
    <2>2. Head(todo[s]) \in Ring!Messages /\ Tail(todo[s]) \in Seq(Ring!Messages)
      BY <2>1, HeadTailProperties
    <2>3. Outcome(Len(ring) >= Capacity) \in {"ok", "full", "disconnected"}
      BY DEF Outcome
    <2>4. ring' \in Seq(Ring!Messages)
      BY <1>4, <2>2 DEF TrySend, Typed
    <2> QED
      BY <1>4, <2>2, <2>3, <2>4 DEF TrySend, Typed, ControlOK, PcValues
  <1>5. ASSUME NEW s \in Sources, Count(s) PROVE Typed' /\ ControlOK'
    <2>1. res[s] \in {"ok", "full", "disconnected"}
      BY <1>5 DEF Count, Typed, ControlOK
    <2>2. stats' \in Stats
      BY <1>5, <2>1, BumpType DEF Count, Typed
    <2>3. /\ AfterDeliver(s) \in {"send", "check", "exit"}
          /\ AfterDeliver(s) = "exit" => s \in Conns
          /\ AfterDeliver(s) = "send" <=> todo[s] # <<>>
      BY DEF AfterDeliver
    <2>4. Typed'
      BY <1>5, <2>2, <2>3 DEF Count, Typed, PcValues
    <2> QED
      BY <1>5, <2>3, <2>4 DEF Count, Typed, ControlOK, PcValues
  <1>6. ASSUME UdpCheck PROVE Typed' /\ ControlOK'
    BY <1>6 DEF UdpCheck, Typed, ControlOK, PcValues
  <1>7. ASSUME UdpRecv PROVE Typed' /\ ControlOK'
    <2>1. udpQ \in Seq(Nat) /\ udpQ # <<>>
      BY <1>7 DEF UdpRecv, Typed
    <2>2. Head(udpQ) \in Nat /\ Tail(udpQ) \in Seq(Nat)
      BY <2>1, HeadTailProperties
    <2>3. stats' \in Stats
      BY <1>7, <2>2 DEF UdpRecv, Typed, Stats
    <2>4. Fresh(Udp, 1) \in Seq(Ring!Messages) /\ Fresh(Udp, 1) # <<>>
      BY FreshFacts, EmptySeq DEF Typed
    <2> QED
      <3>1. Typed'
        <4>1. udpQ' = Tail(udpQ) /\ made' = [made EXCEPT ![Udp] = @ + 1]
          BY <1>7 DEF UdpRecv
        <4>3. made' \in [Sources -> Nat]
          BY <4>1 DEF Typed
        <4>2. todo' \in [Sources -> Seq(Ring!Messages)] /\ pc' \in [Threads -> PcValues]
          BY <1>7, <2>4 DEF UdpRecv, Typed, PcValues
        <4> QED
          BY <1>7, <2>2, <2>3, <4>1, <4>2, <4>3 DEF UdpRecv, Typed
      <3>2. ControlOK'
        BY <1>7, <2>4, ZenonT(30) DEF UdpRecv, Typed, ControlOK
      <3> QED
        BY <3>1, <3>2
  <1>8. ASSUME UdpIdle PROVE Typed' /\ ControlOK'
    BY <1>8 DEF UdpIdle, Typed, ControlOK, PcValues
  <1>9. ASSUME UdpError PROVE Typed' /\ ControlOK'
    BY <1>9 DEF UdpError, Typed, ControlOK, PcValues
  <1>10. ASSUME AcceptCheck PROVE Typed' /\ ControlOK'
    <2>1. /\ peer' \in [Conns -> {"absent", "queued", "accepted", "open", "gone",
                                   "rejected", "reset"}]
          /\ \A c \in Conns : peer'[c] \in {"open", "gone"}
                               <=> peer[c] \in {"open", "gone"}
      BY <1>10 DEF AcceptCheck, ResetBacklog, Typed
    <2> QED
      BY <1>10, <2>1 DEF AcceptCheck, Typed, ControlOK, PcValues
  <1>11. ASSUME NEW c \in Conns, AcceptConn(c) PROVE Typed' /\ ControlOK'
    BY <1>11 DEF AcceptConn, Backlog, Typed, ControlOK, PcValues
  <1>12. ASSUME AcceptIdle PROVE Typed' /\ ControlOK'
    BY <1>12 DEF AcceptIdle, Typed, ControlOK, PcValues
  <1>13. ASSUME AcceptError PROVE Typed' /\ ControlOK'
    <2>1. /\ peer' \in [Conns -> {"absent", "queued", "accepted", "open", "gone",
                                   "rejected", "reset"}]
          /\ \A c \in Conns : peer'[c] \in {"open", "gone"}
                               <=> peer[c] \in {"open", "gone"}
      BY <1>13 DEF AcceptError, ResetBacklog, Typed
    <2> QED
      BY <1>13, <2>1 DEF AcceptError, Typed, ControlOK, PcValues
  <1>14. ASSUME AcceptBump PROVE Typed' /\ ControlOK'
    BY <1>14 DEF AcceptBump, Typed, ControlOK, PcValues
  <1>15. ASSUME NEW c \in Conns, AcceptSpawn(c) PROVE Typed' /\ ControlOK'
    <2>1. Typed'
      <3>1. pc' \in [Threads -> PcValues]
        BY <1>15 DEF AcceptSpawn, Typed, PcValues
      <3>2. peer' \in [Conns -> {"absent", "queued", "accepted", "open", "gone",
                                "rejected", "reset"}]
        BY <1>15 DEF AcceptSpawn, Typed
      <3>3. UNCHANGED <<stop, rxOpen, ring, stats, todo, res, made, partial, leaving, udpQ,
                        kdrops, owner, consumed, discarded, faults>>
        BY <1>15 DEF AcceptSpawn, chanVars, connVars
      <3> QED  BY <3>1, <3>2, <3>3, Zenon DEF Typed
    <2>2. /\ pc[Acceptor] = "spawn" /\ peer[c] = "accepted" /\ UNCHANGED <<todo, res>>
          /\ pc'[Acceptor] = "check" /\ pc'[c] = "check" /\ peer'[c] = "open"
          /\ \A u \in Threads : u # Acceptor /\ u # c => pc'[u] = pc[u]
          /\ \A d \in Conns : d # c => peer'[d] = peer[d]
      BY <1>15, SMTT(30) DEF AcceptSpawn, Typed
    <2>3. pc[c] = "idle"
      BY <2>2, SMTT(30) DEF ControlOK
    <2>4. ControlOK'
      BY <2>2, <2>3, SMTT(30) DEF ControlOK
    <2> QED  BY <2>1, <2>4
  <1>16. ASSUME AcceptUnbump PROVE Typed' /\ ControlOK'
    BY <1>16 DEF AcceptUnbump, Typed, ControlOK, PcValues
  <1>17. ASSUME NEW c \in Conns, AcceptReject(c) PROVE Typed' /\ ControlOK'
    <2>1. stats' \in Stats
      BY <1>17, RejectedType DEF AcceptReject, Typed
    <2> QED
      <3>1. Typed'
        BY <1>17, <2>1, SMTT(30) DEF AcceptReject, Typed, PcValues
      <3>2. ControlOK'
        BY <1>17, SMTT(30) DEF AcceptReject, Typed, ControlOK
      <3> QED  BY <3>1, <3>2
  <1>18. ASSUME NEW c \in Conns, ConnCheck(c) PROVE Typed' /\ ControlOK'
    BY <1>18 DEF ConnCheck, Typed, ControlOK, PcValues
  <1>19. ASSUME NEW c \in Conns, NEW k \in Nat, NEW p \in BOOLEAN, ConnRead(c, k, p) PROVE Typed' /\ ControlOK'
    <2>1. /\ Fresh(c, k) \in Seq(Ring!Messages)
          /\ Fresh(c, k) = <<>> <=> k = 0
      BY FreshFacts, EmptySeq DEF Typed
    <2> QED
      <3>1. Typed'
        BY <1>19, <2>1, SMTT(30) DEF ConnRead, Typed, PcValues
      <3>2. ControlOK'
        BY <1>19, <2>1, SMTT(30) DEF ConnRead, Typed, ControlOK
      <3> QED  BY <3>1, <3>2
  <1>20. ASSUME NEW c \in Conns, NEW k \in Nat, ConnTooLarge(c, k) PROVE Typed' /\ ControlOK'
    <2>1. /\ Fresh(c, k) \in Seq(Ring!Messages)
          /\ Fresh(c, k) = <<>> <=> k = 0
      BY FreshFacts, EmptySeq DEF Typed
    <2> QED
      BY <1>20, <2>1 DEF ConnTooLarge, Typed, ControlOK, PcValues
  <1>21. ASSUME NEW c \in Conns, ConnEnd(c) PROVE Typed' /\ ControlOK'
    BY <1>21 DEF ConnEnd, Typed, ControlOK, PcValues
  <1>22. ASSUME NEW c \in Conns, ConnWouldBlock(c) PROVE Typed' /\ ControlOK'
    BY <1>22 DEF ConnWouldBlock, Typed, ControlOK, PcValues
  <1>23. ASSUME NEW c \in Conns, ConnFlush(c) PROVE Typed' /\ ControlOK'
    <2>1. Fresh(c, 1) \in Seq(Ring!Messages)
      BY FreshFacts DEF Typed
    <2>2. todo[c] \o Fresh(c, 1) \in Seq(Ring!Messages)
      BY <2>1, ConcatProperties DEF Typed
    <2>3. todo' \in [Sources -> Seq(Ring!Messages)]
      BY <1>23, <2>2 DEF ConnFlush, Typed
    <2> QED
      BY <1>23, <2>3 DEF ConnFlush, Typed, ControlOK, PcValues
  <1>24. ASSUME NEW c \in Conns, ConnExit(c) PROVE Typed' /\ ControlOK'
    BY <1>24 DEF ConnExit, Typed, ControlOK, PcValues
  <1>25. ASSUME Recv PROVE Typed' /\ ControlOK'
    BY <1>25 DEF Recv, Typed, ControlOK, PcValues
  <1>26. ASSUME NEW how \in {"joining", "dropping"}, Shutdown(how) PROVE Typed' /\ ControlOK'
    BY <1>26 DEF Shutdown, Typed, ControlOK, PcValues
  <1>27. ASSUME DropReceiver PROVE Typed' /\ ControlOK'
    <2>1. /\ ring' \in Seq(Ring!Messages)
          /\ discarded' \in Nat
          /\ owner' \in {"running", "joining", "dropping", "stopped", "dropped"}
      BY <1>27, EmptySeq, LenProperties DEF DropReceiver, Typed
    <2> QED
      BY <1>27, <2>1 DEF DropReceiver, Typed, ControlOK, PcValues
  <1>28. ASSUME UNCHANGED vars PROVE Typed' /\ ControlOK'
    BY <1>28 DEF Typed, ControlOK, PcValues
  <1> QED
    BY NextCases, <1>1, <1>2, <1>3, <1>4, <1>5, <1>6, <1>7, <1>8, <1>9, <1>10, <1>11, <1>12, <1>13, <1>14, <1>15, <1>16, <1>17, <1>18, <1>19, <1>20, <1>21, <1>22, <1>23, <1>24, <1>25, <1>26, <1>27, <1>28
-----------------------------------------------------------------------------
(* Connection slots. *)

\* The running connection threads are finitely many.
LEMMA ActiveFinite ==
  IsFiniteSet(Active) /\ Cardinality(Active) \in Nat
  <1>1. Active \subseteq Conns
    BY DEF Active
  <1> QED
    BY <1>1, ServerAssumption, FS_Subset, FS_CardinalityType

\* A step that starts or ends no connection thread and leaves live and the
\* acceptor's claim alone keeps the slot accounting.
LEMMA SlotsUntouched ==
  ASSUME LiveCount, SlotsOK, live' = live, Active' = Active,
         pc'[Acceptor] \in {"spawn", "unbump"} \/ pc[Acceptor] \in {"spawn", "unbump"}
           => pc'[Acceptor] = pc[Acceptor]
  PROVE  LiveCount' /\ SlotsOK'
  BY DEF LiveCount, SlotsOK, Claimed

\* The slot accounting survives every step: a slot is taken before the thread
\* that will hold it is spawned and given back by that thread only.
LEMMA SlotsStep ==
  ASSUME Typed, ControlOK, LiveCount, SlotsOK, [Next]_vars
  PROVE  LiveCount' /\ SlotsOK'
  <1> USE ThreadFacts, ServerAssumption, ActiveFinite DEF vars, netVars, chanVars, connVars
  <1>1. ASSUME DatagramArrives PROVE LiveCount' /\ SlotsOK'
    BY <1>1, SlotsUntouched DEF DatagramArrives, Active, Typed, ControlOK
  <1>2. ASSUME NEW c \in Conns, PeerConnects(c) PROVE LiveCount' /\ SlotsOK'
    BY <1>2, SlotsUntouched DEF PeerConnects, Active, Typed, ControlOK
  <1>3. ASSUME NEW c \in Conns, PeerLeaves(c) PROVE LiveCount' /\ SlotsOK'
    BY <1>3, SlotsUntouched DEF PeerLeaves, Active, Typed, ControlOK
  <1>4. ASSUME NEW s \in Sources, TrySend(s) PROVE LiveCount' /\ SlotsOK'
    BY <1>4, SlotsUntouched DEF TrySend, Active, Typed, ControlOK
  <1>5. ASSUME NEW s \in Sources, Count(s) PROVE LiveCount' /\ SlotsOK'
    BY <1>5, SlotsUntouched DEF Count, Active, Typed, ControlOK, AfterDeliver
  <1>6. ASSUME UdpCheck PROVE LiveCount' /\ SlotsOK'
    BY <1>6, SlotsUntouched DEF UdpCheck, Active, Typed, ControlOK
  <1>7. ASSUME UdpRecv PROVE LiveCount' /\ SlotsOK'
    BY <1>7, SlotsUntouched DEF UdpRecv, Active, Typed, ControlOK
  <1>8. ASSUME UdpIdle PROVE LiveCount' /\ SlotsOK'
    BY <1>8, SlotsUntouched DEF UdpIdle, Active, Typed, ControlOK
  <1>9. ASSUME UdpError PROVE LiveCount' /\ SlotsOK'
    BY <1>9, SlotsUntouched DEF UdpError, Active, Typed, ControlOK
  <1>10. ASSUME AcceptCheck PROVE LiveCount' /\ SlotsOK'
    BY <1>10, SlotsUntouched DEF AcceptCheck, Active, Typed, ControlOK
  <1>11. ASSUME NEW c \in Conns, AcceptConn(c) PROVE LiveCount' /\ SlotsOK'
    BY <1>11, SlotsUntouched DEF AcceptConn, Active, Typed, ControlOK
  <1>12. ASSUME AcceptIdle PROVE LiveCount' /\ SlotsOK'
    BY <1>12, SlotsUntouched DEF AcceptIdle, Active, Typed, ControlOK
  <1>13. ASSUME AcceptError PROVE LiveCount' /\ SlotsOK'
    BY <1>13, SlotsUntouched DEF AcceptError, Active, Typed, ControlOK
  <1>14. ASSUME NEW c \in Conns, AcceptReject(c) PROVE LiveCount' /\ SlotsOK'
    BY <1>14, SlotsUntouched DEF AcceptReject, Active, Typed, ControlOK
  <1>15. ASSUME NEW c \in Conns, ConnCheck(c) PROVE LiveCount' /\ SlotsOK'
    BY <1>15, SlotsUntouched DEF ConnCheck, Active, Typed, ControlOK
  <1>16. ASSUME NEW c \in Conns, NEW k \in Nat, NEW p \in BOOLEAN, ConnRead(c, k, p) PROVE LiveCount' /\ SlotsOK'
    BY <1>16, SlotsUntouched DEF ConnRead, Active, Typed, ControlOK
  <1>17. ASSUME NEW c \in Conns, NEW k \in Nat, ConnTooLarge(c, k) PROVE LiveCount' /\ SlotsOK'
    BY <1>17, SlotsUntouched DEF ConnTooLarge, Active, Typed, ControlOK
  <1>18. ASSUME NEW c \in Conns, ConnEnd(c) PROVE LiveCount' /\ SlotsOK'
    BY <1>18, SlotsUntouched DEF ConnEnd, Active, Typed, ControlOK
  <1>19. ASSUME NEW c \in Conns, ConnWouldBlock(c) PROVE LiveCount' /\ SlotsOK'
    BY <1>19, SlotsUntouched DEF ConnWouldBlock, Active, Typed, ControlOK
  <1>20. ASSUME NEW c \in Conns, ConnFlush(c) PROVE LiveCount' /\ SlotsOK'
    BY <1>20, SlotsUntouched DEF ConnFlush, Active, Typed, ControlOK
  <1>21. ASSUME Recv PROVE LiveCount' /\ SlotsOK'
    BY <1>21, SlotsUntouched DEF Recv, Active, Typed, ControlOK
  <1>22. ASSUME NEW how \in {"joining", "dropping"}, Shutdown(how) PROVE LiveCount' /\ SlotsOK'
    BY <1>22, SlotsUntouched DEF Shutdown, Active, Typed, ControlOK
  <1>23. ASSUME DropReceiver PROVE LiveCount' /\ SlotsOK'
    BY <1>23, SlotsUntouched DEF DropReceiver, Active, Typed, ControlOK
  <1>24. ASSUME AcceptBump PROVE LiveCount' /\ SlotsOK'
    <2>1. Active' = Active
      BY <1>24 DEF AcceptBump, Active, Typed
    <2> QED
      BY <1>24, <2>1 DEF AcceptBump, LiveCount, SlotsOK, Claimed, Typed
  <1>25. ASSUME NEW c \in Conns, AcceptSpawn(c) PROVE LiveCount' /\ SlotsOK'
    <2>1. Active' = Active \cup {c} /\ c \notin Active
      <3>1. pc[c] = "idle"
        BY <1>25 DEF AcceptSpawn, Typed, ControlOK
      <3>2. \A d \in Conns : pc'[d] = IF d = c THEN "check" ELSE pc[d]
        BY <1>25 DEF AcceptSpawn, Typed
      <3> QED
        BY <3>1, <3>2 DEF Active
    <2>2. Cardinality(Active') = Cardinality(Active) + 1
      BY <2>1, FS_AddElement
    <2> QED
      BY <1>25, <2>2 DEF AcceptSpawn, LiveCount, SlotsOK, Claimed, Typed
  <1>26. ASSUME AcceptUnbump PROVE LiveCount' /\ SlotsOK'
    <2>1. Active' = Active
      BY <1>26 DEF AcceptUnbump, Active, Typed
    <2> QED
      BY <1>26, <2>1 DEF AcceptUnbump, LiveCount, SlotsOK, Claimed, Typed
  <1>27. ASSUME NEW c \in Conns, ConnExit(c) PROVE LiveCount' /\ SlotsOK'
    <2>1. Active' = Active \ {c} /\ c \in Active
      BY <1>27 DEF ConnExit, Active, Typed, ControlOK
    <2>2. Cardinality(Active') = Cardinality(Active) - 1
      BY <2>1, FS_RemoveElement
    <2>3. pc'[Acceptor] = pc[Acceptor] /\ live' = live - 1
      BY <1>27 DEF ConnExit, Typed
    <2> QED
      BY <2>2, <2>3 DEF LiveCount, SlotsOK, Claimed
  <1>28. ASSUME UNCHANGED vars PROVE LiveCount' /\ SlotsOK'
    BY <1>28, SlotsUntouched DEF Active
  <1> QED
    BY NextCases, <1>1, <1>2, <1>3, <1>4, <1>5, <1>6, <1>7, <1>8, <1>9,
       <1>10, <1>11, <1>12, <1>13, <1>14, <1>15, <1>16, <1>17, <1>18, <1>19,
       <1>20, <1>21, <1>22, <1>23, <1>24, <1>25, <1>26, <1>27, <1>28
-----------------------------------------------------------------------------
(* The theorems on the connection slots. *)

SlotInv == Typed /\ ControlOK /\ LiveCount /\ SlotsOK

\* The invariant about connection slots (fetch_add and fetch_sub of live in
\* tcp_accept_loop) holds in every reachable state.
LEMMA SlotInvInductive == Spec => []SlotInv
  <1>1. Init => SlotInv
    <2> SUFFICES ASSUME Init PROVE SlotInv
      OBVIOUS
    <2> USE ThreadFacts, ServerAssumption DEF Init
    <2>1. Typed
      BY EmptySeq DEF Typed, PcValues, Stats
    <2>2. ControlOK
      BY DEF ControlOK
    <2>3. Active = {}
      BY DEF Active, Threads
    <2>4. Cardinality(Active) = 0
      BY <2>3, FS_EmptySet
    <2>5. pc[Acceptor] = "check"
      OBVIOUS
    <2> QED
      BY <2>1, <2>2, <2>4, <2>5 DEF SlotInv, LiveCount, SlotsOK, Claimed
  <1>2. SlotInv /\ [Next]_vars => SlotInv'
    BY TypeStep, SlotsStep DEF SlotInv
  <1> QED
    BY <1>1, <1>2, PTL DEF Spec

\* Every variable keeps its type in every reachable state; the live counter of
\* tcp_accept_loop never goes below zero.
THEOREM TypeCorrect == Spec => []TypeOK
  <1>1. SlotInv => TypeOK
    BY ActiveFinite DEF SlotInv, TypeOK, LiveCount, Claimed
  <1> QED
    BY <1>1, SlotInvInductive, PTL

\* live is exactly the running connection threads plus the acceptor's claim.
THEOREM SlotsExact == Spec => []LiveCount
  <1>1. SlotInv => LiveCount
    BY DEF SlotInv
  <1> QED
    BY <1>1, SlotInvInductive, PTL

\* Never more than max_connections connection threads run.
THEOREM CapHolds == Spec => []ConnectionCap
  <1>1. SlotInv => ConnectionCap
    BY ActiveFinite, ServerAssumption DEF SlotInv, SlotsOK, ConnectionCap
  <1> QED
    BY <1>1, SlotInvInductive, PTL

\* Only the fetch_add on live moves the acceptor from "bump" to "unbump".
LEMMA OnlyBumpRejects ==
  ASSUME Typed, ControlOK, Next, pc[Acceptor] = "bump", pc'[Acceptor] = "unbump"
  PROVE  AcceptBump
  <1> USE ThreadFacts DEF vars, Typed
  <1>1. ASSUME DatagramArrives \/ UdpCheck \/ UdpRecv \/ UdpIdle \/ UdpError
        PROVE  FALSE
    BY <1>1 DEF DatagramArrives, UdpCheck, UdpRecv, UdpIdle, UdpError
  <1>2. ASSUME NEW c \in Conns, PeerConnects(c) \/ PeerLeaves(c)
        PROVE  FALSE
    BY <1>2 DEF PeerConnects, PeerLeaves
  <1>3. ASSUME NEW s \in Sources, TrySend(s) \/ Count(s)
        PROVE  FALSE
    BY <1>3 DEF TrySend, Count
  <1>4. ASSUME AcceptCheck \/ AcceptIdle \/ AcceptError \/ AcceptUnbump
        PROVE  FALSE
    BY <1>4 DEF AcceptCheck, AcceptIdle, AcceptError, AcceptUnbump
  <1>5. ASSUME NEW c \in Conns, AcceptConn(c) \/ AcceptSpawn(c) \/ AcceptReject(c)
        PROVE  FALSE
    BY <1>5 DEF AcceptConn, AcceptSpawn, AcceptReject
  <1>6. ASSUME NEW c \in Conns, ConnCheck(c) \/ ConnEnd(c) \/ ConnWouldBlock(c)
                                 \/ ConnFlush(c) \/ ConnExit(c)
        PROVE  FALSE
    BY <1>6 DEF ConnCheck, ConnEnd, ConnWouldBlock, ConnFlush, ConnExit
  <1>7. ASSUME NEW c \in Conns, NEW k \in Nat, NEW p \in BOOLEAN,
               ConnTooLarge(c, k) \/ ConnRead(c, k, p)
        PROVE  FALSE
    BY <1>7 DEF ConnTooLarge, ConnRead
  <1>8. ASSUME Recv \/ DropReceiver \/ UNCHANGED vars
        PROVE  FALSE
    BY <1>8 DEF Recv, DropReceiver
  <1>9. ASSUME NEW how \in {"joining", "dropping"}, Shutdown(how)
        PROVE  FALSE
    BY <1>9 DEF Shutdown
  <1> QED
    BY NextCases, <1>1, <1>2, <1>3, <1>4, <1>5, <1>6, <1>7, <1>8, <1>9

\* A client is turned away only while the cap is really used up.
THEOREM RejectionJustified == Spec => RejectsOnlyWhenFull
  <1>1. SlotInv /\ [Next]_vars
          => [pc[Acceptor] = "bump" /\ pc'[Acceptor] = "unbump"
                => Cardinality(Active) >= MaxConnections]_vars
    <2> SUFFICES ASSUME SlotInv, Next, pc[Acceptor] = "bump", pc'[Acceptor] = "unbump"
                 PROVE  Cardinality(Active) >= MaxConnections
      OBVIOUS
    <2>1. AcceptBump
      BY OnlyBumpRejects DEF SlotInv
    <2>2. live >= MaxConnections
      BY <2>1, ThreadFacts DEF AcceptBump, SlotInv, Typed
    <2>3. live = Cardinality(Active)
      BY ActiveFinite DEF SlotInv, LiveCount, Claimed
    <2> QED
      BY <2>2, <2>3
  <1> QED
    BY <1>1, SlotInvInductive, PTL DEF Spec, RejectsOnlyWhenFull
-----------------------------------------------------------------------------
(* The path of a message.  For it the steps fall into six kinds: try_send, *)
(* its counting, a receive, the drop of the receiver, decoding k new       *)
(* messages, and everything else.                                          *)

CountersKept ==
  /\ stats'.delivered = stats.delivered
  /\ stats'.dropped_full = stats.dropped_full
  /\ stats'.dropped_disconnected = stats.dropped_disconnected

ChannelKept ==
  /\ UNCHANGED <<ring, rxOpen, consumed, discarded, res>>
  /\ CountersKept
  /\ OwnerOpen' = OwnerOpen

Decodes(s, k) ==
  /\ ChannelKept
  /\ made' = [made EXCEPT ![s] = @ + k]
  /\ todo' = [todo EXCEPT ![s] = @ \o Fresh(s, k)]

Elsewhere == ChannelKept /\ UNCHANGED <<made, todo>>

\* What a step can do to the channel and its counters: most leave both alone.
LEMMA StepKinds ==
  ASSUME Typed, ControlOK, [Next]_vars
  PROVE  \/ \E s \in Sources : TrySend(s) \/ Count(s)
         \/ Recv \/ DropReceiver
         \/ \E s \in Sources, k \in Nat : Decodes(s, k)
         \/ Elsewhere
  <1> USE ThreadFacts DEF vars, chanVars, netVars, connVars, ChannelKept, CountersKept, OwnerOpen
  <1>1. ASSUME DatagramArrives \/ UdpCheck \/ UdpIdle \/ UdpError
        PROVE  Elsewhere
    BY <1>1 DEF DatagramArrives, UdpCheck, UdpIdle, UdpError, Elsewhere
  <1>2. ASSUME NEW c \in Conns, PeerConnects(c) \/ PeerLeaves(c)
        PROVE  Elsewhere
    BY <1>2 DEF PeerConnects, PeerLeaves, Elsewhere
  <1>3. ASSUME UdpRecv
        PROVE  Decodes(Udp, 1)
    <2>1. todo[Udp] = <<>>
      BY <1>3 DEF UdpRecv, ControlOK
    <2>2. <<>> \o Fresh(Udp, 1) = Fresh(Udp, 1)
      BY FreshFacts, ConcatEmptySeq DEF Typed
    <2>3. CountersKept
      BY <1>3 DEF UdpRecv, Typed, Stats
    <2> QED
      BY <1>3, <2>1, <2>2, <2>3 DEF UdpRecv, Decodes
  <1>4. ASSUME AcceptCheck \/ AcceptIdle \/ AcceptError \/ AcceptUnbump \/ AcceptBump
        PROVE  Elsewhere
    BY <1>4 DEF AcceptCheck, AcceptIdle, AcceptError, AcceptUnbump, AcceptBump, Elsewhere
  <1>5. ASSUME NEW c \in Conns, AcceptConn(c) \/ AcceptSpawn(c)
        PROVE  Elsewhere
    BY <1>5 DEF AcceptConn, AcceptSpawn, Elsewhere
  <1>6. ASSUME NEW c \in Conns, AcceptReject(c)
        PROVE  Elsewhere
    <2>1. CountersKept
      BY <1>6 DEF AcceptReject, Typed, Stats
    <2> QED
      BY <1>6, <2>1 DEF AcceptReject, Elsewhere
  <1>7. ASSUME NEW c \in Conns, ConnCheck(c) \/ ConnEnd(c) \/ ConnWouldBlock(c) \/ ConnExit(c)
        PROVE  Elsewhere
    BY <1>7 DEF ConnCheck, ConnEnd, ConnWouldBlock, ConnExit, Elsewhere
  <1>8. ASSUME NEW c \in Conns, NEW k \in Nat, NEW p \in BOOLEAN,
               ConnTooLarge(c, k) \/ ConnRead(c, k, p)
        PROVE  Decodes(c, k)
    <2>1. todo[c] = <<>>
      BY <1>8 DEF ConnTooLarge, ConnRead, ControlOK
    <2>2. <<>> \o Fresh(c, k) = Fresh(c, k)
      BY FreshFacts, ConcatEmptySeq DEF Typed
    <2> QED
      BY <1>8, <2>1, <2>2 DEF ConnTooLarge, ConnRead, Decodes
  <1>9. ASSUME NEW c \in Conns, ConnFlush(c)
        PROVE  Decodes(c, 1) \/ Elsewhere
    BY <1>9 DEF ConnFlush, Typed, Decodes, Elsewhere
  <1>10. ASSUME NEW how \in {"joining", "dropping"}, Shutdown(how)
         PROVE  Elsewhere
    BY <1>10 DEF Shutdown, Elsewhere
  <1>11. ASSUME UNCHANGED vars
         PROVE  Elsewhere
    BY <1>11 DEF Elsewhere
  <1> QED
    BY NextCases, <1>1, <1>2, <1>3, <1>4, <1>5, <1>6, <1>7, <1>8, <1>9, <1>10, <1>11

\* The sources are finitely many, and so are those between send and count.
LEMMA GapsFinite ==
  /\ IsFiniteSet(InGap) /\ Cardinality(InGap) \in Nat
  /\ IsFiniteSet(RefusedGap) /\ Cardinality(RefusedGap) \in Nat
  <1>1. IsFiniteSet(Sources)
    BY ServerAssumption, FS_AddElement DEF Sources
  <1>2. InGap \subseteq Sources /\ RefusedGap \subseteq Sources
    BY DEF InGap, RefusedGap
  <1> QED
    BY <1>1, <1>2, FS_Subset, FS_CardinalityType

\* What a try_send does to the two gap sets.
LEMMA TrySendGaps ==
  ASSUME Typed, ControlOK, NEW s \in Sources, TrySend(s)
  PROVE  /\ res'[s] = Outcome(Len(ring) >= Capacity)
         /\ Cardinality(InGap') =
              IF res'[s] = "ok" THEN Cardinality(InGap) + 1 ELSE Cardinality(InGap)
         /\ Cardinality(RefusedGap') =
              IF res'[s] = "ok" THEN Cardinality(RefusedGap) ELSE Cardinality(RefusedGap) + 1
  <1>1. res[s] = "none"
    BY ThreadFacts DEF TrySend, ControlOK, Typed
  <1>2. /\ res' = [res EXCEPT ![s] = Outcome(Len(ring) >= Capacity)]
        /\ Outcome(Len(ring) >= Capacity) \in {"ok", "full", "disconnected"}
    BY DEF TrySend, Outcome
  <1>3. res'[s] = Outcome(Len(ring) >= Capacity)
    BY <1>2 DEF Typed
  <1>4. s \notin InGap /\ s \notin RefusedGap
    BY <1>1 DEF InGap, RefusedGap
  <1>5. CASE res'[s] = "ok"
    <2>1. InGap' = InGap \cup {s} /\ RefusedGap' = RefusedGap
      BY <1>1, <1>2, <1>5 DEF InGap, RefusedGap, Typed
    <2> QED
      BY <1>3, <1>4, <1>5, <2>1, GapsFinite, FS_AddElement
  <1>6. CASE res'[s] # "ok"
    <2>1. InGap' = InGap /\ RefusedGap' = RefusedGap \cup {s}
      BY <1>1, <1>2, <1>6 DEF InGap, RefusedGap, Typed
    <2> QED
      BY <1>3, <1>4, <1>6, <2>1, GapsFinite, FS_AddElement
  <1> QED
    BY <1>5, <1>6

\* Counting a message closes its gap and moves the matching counter.
LEMMA CountGaps ==
  ASSUME Typed, ControlOK, NEW s \in Sources, Count(s)
  PROVE  /\ stats'.delivered + Cardinality(InGap') = stats.delivered + Cardinality(InGap)
         /\ Refused' = Refused
  <1>1. res[s] \in {"ok", "full", "disconnected"}
    BY ThreadFacts DEF Count, ControlOK, Typed
  <1>2. res' = [res EXCEPT ![s] = "none"] /\ stats' = Bump(stats, res[s]) /\ stats \in Stats
    BY DEF Count, Typed
  <1>3. /\ stats.delivered \in Nat
        /\ stats.dropped_full \in Nat
        /\ stats.dropped_disconnected \in Nat
    BY <1>2 DEF Stats
  <1>4. CASE res[s] = "ok"
    <2>1. InGap' = InGap \ {s} /\ s \in InGap /\ RefusedGap' = RefusedGap
      BY <1>2, <1>4 DEF InGap, RefusedGap, Typed
    <2>2. /\ stats'.delivered = stats.delivered + 1
          /\ stats'.dropped_full = stats.dropped_full
          /\ stats'.dropped_disconnected = stats.dropped_disconnected
      BY <1>2, <1>4 DEF Bump, Stats
    <2>3. Cardinality(InGap') = Cardinality(InGap) - 1
      BY <2>1, GapsFinite, FS_RemoveElement
    <2> QED
      BY <1>3, <2>1, <2>2, <2>3, GapsFinite DEF Refused
  <1>5. CASE res[s] # "ok"
    <2>1. InGap' = InGap /\ RefusedGap' = RefusedGap \ {s} /\ s \in RefusedGap
      BY <1>1, <1>2, <1>5 DEF InGap, RefusedGap, Typed
    <2>2. /\ stats'.delivered = stats.delivered
          /\ stats'.dropped_full + stats'.dropped_disconnected
               = stats.dropped_full + stats.dropped_disconnected + 1
      BY <1>1, <1>2, <1>3, <1>5 DEF Bump, Stats
    <2>3. Cardinality(RefusedGap') = Cardinality(RefusedGap) - 1
      BY <2>1, GapsFinite, FS_RemoveElement
    <2>4. stats' \in Stats
      BY <1>1, <1>2, BumpType
    <2>5. stats'.dropped_full \in Nat /\ stats'.dropped_disconnected \in Nat
      BY <2>4 DEF Stats
    <2> QED
      BY <1>3, <2>1, <2>2, <2>3, <2>5, GapsFinite DEF Refused
  <1> QED
    BY <1>4, <1>5

\* Nothing enters or leaves the ring uncounted, and it never overflows.
LEMMA ConservationStep ==
  ASSUME Typed, ControlOK, DeliveredExact, RingBound, [Next]_vars
  PROVE  DeliveredExact' /\ RingBound'
  <1> USE CapacityType, GapsFinite
  <1>0. /\ ring \in Seq(Ring!Messages) /\ Len(ring) \in Nat
        /\ consumed \in Nat /\ discarded \in Nat /\ stats.delivered \in Nat
    BY LenProperties DEF Typed, Stats
  <1>1. ASSUME NEW s \in Sources, TrySend(s) PROVE DeliveredExact' /\ RingBound'
    <2>1. todo[s] # <<>> /\ todo[s] \in Seq(Ring!Messages)
      BY <1>1, ThreadFacts DEF TrySend, Typed, ControlOK
    <2>2. Head(todo[s]) \in Ring!Messages
      BY <2>1, HeadTailProperties
    <2>3. UNCHANGED <<consumed, discarded, stats>>
      BY <1>1 DEF TrySend
    <2>4. CASE res'[s] = "ok"
      <3>1. ring' = Append(ring, Head(todo[s])) /\ Len(ring) < Capacity
        <4>1. Outcome(Len(ring) >= Capacity) = "ok"
          BY <1>1, <2>4, TrySendGaps
        <4>2. ring' = Append(ring, Head(todo[s]))
          BY <1>1, <4>1 DEF TrySend
        <4>3. ~(Len(ring) >= Capacity)
          BY <4>1 DEF Outcome
        <4> QED
          BY <1>0, <4>2, <4>3
      <3>2. Len(ring') = Len(ring) + 1
        BY <1>0, <2>2, <3>1, AppendProperties
      <3> QED
        <4>1. Cardinality(InGap') = Cardinality(InGap) + 1
          BY <1>1, <2>4, TrySendGaps
        <4> QED
          BY <1>0, <2>3, <3>1, <3>2, <4>1 DEF DeliveredExact, RingBound
    <2>5. CASE res'[s] # "ok"
      <3>1. ring' = ring
        BY <1>1, <2>5, TrySendGaps DEF TrySend
      <3> QED
        BY <1>1, <2>3, <2>5, <3>1, TrySendGaps DEF DeliveredExact, RingBound
    <2> QED
      BY <2>4, <2>5
  <1>2. ASSUME NEW s \in Sources, Count(s) PROVE DeliveredExact' /\ RingBound'
    <2>1. UNCHANGED <<ring, consumed, discarded>>
      BY <1>2 DEF Count, chanVars
    <2> QED
      BY <1>2, <2>1, CountGaps DEF DeliveredExact, RingBound
  <1>3. ASSUME Recv PROVE DeliveredExact' /\ RingBound'
    <2>1. /\ ring # <<>> /\ ring' = Tail(ring) /\ consumed' = consumed + 1
          /\ UNCHANGED <<discarded, stats, res>>
      BY <1>3 DEF Recv
    <2>2. Len(ring') = Len(ring) - 1
      BY <1>0, <2>1, HeadTailProperties
    <2> QED
      BY <1>0, <2>1, <2>2 DEF DeliveredExact, RingBound, InGap
  <1>4. ASSUME DropReceiver PROVE DeliveredExact' /\ RingBound'
    <2>1. /\ ring' = <<>> /\ discarded' = discarded + Len(ring)
          /\ UNCHANGED <<consumed, stats, res>>
      BY <1>4 DEF DropReceiver
    <2>2. Len(ring') = 0
      BY <2>1, EmptySeq
    <2> QED
      BY <1>0, <2>1, <2>2 DEF DeliveredExact, RingBound, InGap
  <1>5. ASSUME ChannelKept PROVE DeliveredExact' /\ RingBound'
    BY <1>5 DEF ChannelKept, CountersKept, DeliveredExact, RingBound, InGap
  <1> QED
    BY StepKinds, <1>1, <1>2, <1>3, <1>4, <1>5 DEF Decodes, Elsewhere

FlowInv == Typed /\ ControlOK /\ DeliveredExact /\ RingBound

\* The invariant about the flow of messages through deliver and the ring holds
\* in every reachable state.
LEMMA FlowInvInductive == Spec => []FlowInv
  <1>1. Init => DeliveredExact /\ RingBound
    <2> SUFFICES ASSUME Init PROVE DeliveredExact /\ RingBound
      OBVIOUS
    <2>1. InGap = {}
      BY DEF Init, InGap
    <2>2. Cardinality(InGap) = 0
      BY <2>1, FS_EmptySet
    <2> QED
      BY <2>2, CapacityType DEF Init, DeliveredExact, RingBound
  <1>2. FlowInv /\ [Next]_vars => FlowInv'
    BY TypeStep, ConservationStep DEF FlowInv
  <1>3. SlotInv => Typed /\ ControlOK
    BY DEF SlotInv
  <1>4. Typed /\ ControlOK /\ DeliveredExact /\ RingBound => FlowInv
    BY DEF FlowInv
  <1> QED
    BY <1>1, <1>2, <1>3, <1>4, SlotInvInductive, PTL DEF Spec

\* The ring never holds more than its capacity.
THEOREM RingStaysBounded == Spec => []RingBound
  <1>1. FlowInv => RingBound
    BY DEF FlowInv
  <1> QED
    BY <1>1, FlowInvInductive, PTL

\* Received, buffered and discarded messages are exactly the delivered counter
\* plus the threads between try_send and fetch_add.
THEOREM DeliveredIsExact == Spec => []DeliveredExact
  <1>1. FlowInv => DeliveredExact
    BY DEF FlowInv
  <1> QED
    BY <1>1, FlowInvInductive, PTL
-----------------------------------------------------------------------------
(* The server implements the abstract ring. *)

\* Decoding appends the next numbers and offers nothing yet.
LEMMA DecodesFacts ==
  ASSUME Typed, TodoIsLatest, NEW s \in Sources, NEW k \in Nat, Decodes(s, k)
  PROVE  TodoIsLatest' /\ Offered' = Offered
  <1>1. /\ todo \in [Sources -> Seq(Ring!Messages)]
        /\ made \in [Sources -> Nat]
    BY DEF Typed
  <1>2. /\ todo' = [todo EXCEPT ![s] = @ \o Fresh(s, k)]
        /\ made' = [made EXCEPT ![s] = @ + k]
    BY DEF Decodes
  <1>3. /\ Fresh(s, k) \in Seq(Ring!Messages)
        /\ Len(Fresh(s, k)) = k
        /\ \A i \in 1 .. k : Fresh(s, k)[i] = Message(s, made[s] + i)
    BY <1>1, FreshFacts
  <1>4. Len(todo[s]) \in Nat /\ made[s] \in Nat
    BY <1>1, LenProperties
  <1>5. /\ Len(todo'[s]) = Len(todo[s]) + k
        /\ made'[s] = made[s] + k
        /\ \A i \in 1 .. Len(todo[s]) + k : todo'[s][i] =
             IF i <= Len(todo[s]) THEN todo[s][i] ELSE Fresh(s, k)[i - Len(todo[s])]
    <2>1. todo'[s] = todo[s] \o Fresh(s, k) /\ made'[s] = made[s] + k
      BY <1>1, <1>2
    <2>2. todo[s] \in Seq(Ring!Messages)
      BY <1>1
    <2> DEFINE f == Fresh(s, k)
               g == todo[s]
    <2>3. /\ Len(g \o f) = Len(g) + Len(f)
          /\ \A i \in 1 .. Len(g) + Len(f) :
               (g \o f)[i] = IF i <= Len(g) THEN g[i] ELSE f[i - Len(g)]
      <3> HIDE DEF f, g
      <3>1. f \in Seq(Ring!Messages) /\ g \in Seq(Ring!Messages)
        BY <1>3, <2>2 DEF f, g
      <3> QED
        BY <3>1, ConcatProperties
    <2> QED
      BY <1>3, <2>1, <2>3
  <1>6. \A r \in Sources : r # s => todo'[r] = todo[r] /\ made'[r] = made[r]
    BY <1>1, <1>2
  <1>7. ASSUME NEW i \in 1 .. Len(todo'[s])
        PROVE  todo'[s][i] = Message(s, made'[s] - Len(todo'[s]) + i)
    <2>1. CASE i <= Len(todo[s])
      <3>1. todo'[s][i] = Message(s, made[s] - Len(todo[s]) + i)
        BY <1>4, <1>5, <1>7, <2>1 DEF TodoIsLatest
      <3>2. made'[s] - Len(todo'[s]) + i = made[s] - Len(todo[s]) + i
        BY <1>4, <1>5, <1>7
      <3> QED
        BY <3>1, <3>2
    <2>2. CASE i > Len(todo[s])
      <3>1. todo'[s][i] = Message(s, made[s] + (i - Len(todo[s])))
        <4>1. i \in 1 .. Len(todo[s]) + k /\ ~(i <= Len(todo[s]))
          BY <1>4, <1>5, <1>7, <2>2
        <4>2. i - Len(todo[s]) \in 1 .. k
          BY <1>4, <4>1
        <4>3. todo'[s][i] = Fresh(s, k)[i - Len(todo[s])]
          BY <1>5, <4>1
        <4> QED
          BY <1>3, <4>2, <4>3
      <3>2. made'[s] - Len(todo'[s]) + i = made[s] + (i - Len(todo[s]))
        BY <1>4, <1>5, <1>7
      <3> QED
        BY <3>1, <3>2
    <2> QED
      BY <1>4, <1>5, <1>7, <2>1, <2>2
  <1>8. TodoIsLatest'
    <2> SUFFICES ASSUME NEW r \in Sources
                 PROVE  /\ Len(todo'[r]) <= made'[r]
                        /\ \A i \in 1 .. Len(todo'[r]) :
                             todo'[r][i] = Message(r, made'[r] - Len(todo'[r]) + i)
      BY DEF TodoIsLatest
    <2>1. CASE r = s
      BY <1>4, <1>5, <1>7, <2>1 DEF TodoIsLatest
    <2>2. CASE r # s
      BY <1>6, <2>2 DEF TodoIsLatest
    <2> QED
      BY <2>1, <2>2
  <1>9. \A r \in Sources : made'[r] - Len(todo'[r]) = made[r] - Len(todo[r])
    <2> TAKE r \in Sources
    <2>1. CASE r = s
      BY <1>4, <1>5, <2>1
    <2>2. CASE r # s
      BY <1>6, <2>2
    <2> QED
      BY <2>1, <2>2
  <1> QED
    BY <1>8, <1>9 DEF Offered

\* A try_send hands over the oldest message that is still to be sent.
LEMMA TrySendFacts ==
  ASSUME Typed, ControlOK, TodoIsLatest, NEW s \in Sources, TrySend(s)
  PROVE  /\ TodoIsLatest'
         /\ Head(todo[s]) = Message(s, Offered[s] + 1)
         /\ Offered' = [Offered EXCEPT ![s] = @ + 1]
  <1>1. /\ todo \in [Sources -> Seq(Ring!Messages)]
        /\ made \in [Sources -> Nat]
    BY DEF Typed
  <1>2. todo[s] # <<>> /\ todo' = [todo EXCEPT ![s] = Tail(@)] /\ made' = made
    BY ThreadFacts DEF TrySend, ControlOK
  <1>3. Len(todo[s]) \in Nat \ {0} /\ made[s] \in Nat /\ Len(todo[s]) <= made[s]
    BY <1>1, <1>2, EmptySeq DEF TodoIsLatest
  <1>4. /\ Len(todo'[s]) = Len(todo[s]) - 1
        /\ \A i \in 1 .. Len(todo'[s]) : todo'[s][i] = todo[s][i + 1]
    BY <1>1, <1>2, HeadTailProperties
  <1>5. \A r \in Sources : r # s => todo'[r] = todo[r]
    BY <1>1, <1>2
  <1>6. Head(todo[s]) = Message(s, Offered[s] + 1)
    <2>1. Head(todo[s]) = todo[s][1]
      BY <1>1, <1>2
    <2>2. todo[s][1] = Message(s, made[s] - Len(todo[s]) + 1)
      BY <1>3 DEF TodoIsLatest
    <2> QED
      BY <2>1, <2>2 DEF Offered
  <1>7. ASSUME NEW i \in 1 .. Len(todo'[s])
        PROVE  todo'[s][i] = Message(s, made'[s] - Len(todo'[s]) + i)
    <2>1. todo'[s][i] = Message(s, made[s] - Len(todo[s]) + (i + 1))
      BY <1>3, <1>4, <1>7 DEF TodoIsLatest
    <2>2. made'[s] - Len(todo'[s]) + i = made[s] - Len(todo[s]) + (i + 1)
      BY <1>2, <1>3, <1>4, <1>7
    <2> QED
      BY <2>1, <2>2
  <1>8. TodoIsLatest'
    BY <1>2, <1>3, <1>4, <1>5, <1>7 DEF TodoIsLatest
  <1>9. Offered' = [Offered EXCEPT ![s] = @ + 1]
    <2>1. made'[s] - Len(todo'[s]) = made[s] - Len(todo[s]) + 1
      BY <1>2, <1>3, <1>4
    <2> QED
      <3>1. \A r \in Sources : Offered'[r] = [Offered EXCEPT ![s] = @ + 1][r]
        <4> TAKE r \in Sources
        <4>1. CASE r = s
          BY <2>1, <4>1 DEF Offered
        <4>2. CASE r # s
          BY <1>2, <1>5, <4>2 DEF Offered
        <4> QED
          BY <4>1, <4>2
      <3> QED
        BY <3>1 DEF Offered
  <1> QED
    BY <1>6, <1>8, <1>9

MapInv == Typed /\ ControlOK /\ TodoIsLatest /\ OwnerOK

\* Every step of the server is a step of the abstract ring, or none.
LEMMA StepSimulation ==
  ASSUME MapInv, [Next]_vars
  PROVE  /\ TodoIsLatest' /\ OwnerOK'
         /\ [Ring!RingNext]_(Ring!ringVars)
  <1> USE DEF MapInv
  <1>0. Len(ring) \in Nat
    BY LenProperties DEF Typed
  <1>1. ASSUME NEW s \in Sources, TrySend(s)
        PROVE  TodoIsLatest' /\ OwnerOK' /\ (Ring!Accept(s) \/ Ring!Refuse(s))
    <2>1. UNCHANGED <<rxOpen, owner, stats>>
      BY <1>1 DEF TrySend
    <2>2. OwnerOK'
      BY <2>1 DEF OwnerOK, OwnerOpen
    <2>3. stats.dropped_full \in Nat /\ stats.dropped_disconnected \in Nat
      BY DEF Typed, Stats
    <2>4. CASE res'[s] = "ok"
      <3>1. Outcome(Len(ring) >= Capacity) = "ok"
        BY <1>1, <2>4, TrySendGaps
      <3>2. ring' = Append(ring, Head(todo[s]))
        BY <1>1, <3>1 DEF TrySend
      <3>3. rxOpen /\ ~(Len(ring) >= Capacity)
        BY <3>1 DEF Outcome
      <3>4. Refused' = Refused
        BY <1>1, <2>1, <2>4, TrySendGaps DEF Refused
      <3>5. Ring!Accept(s)
        BY <1>0, <1>1, <2>1, <3>2, <3>3, <3>4, TrySendFacts, CapacityType
           DEF Ring!Accept, Ring!Message, Message
      <3> QED
        BY <1>1, <2>2, <3>5, TrySendFacts
    <2>5. CASE res'[s] # "ok"
      <3>1. Outcome(Len(ring) >= Capacity) # "ok"
        BY <1>1, <2>5, TrySendGaps
      <3>2. ring' = ring
        BY <1>1, <3>1 DEF TrySend
      <3>3. ~rxOpen \/ Len(ring) >= Capacity
        BY <3>1 DEF Outcome
      <3>4. Refused' = Refused + 1
        BY <1>1, <2>1, <2>3, <2>5, TrySendGaps, GapsFinite DEF Refused
      <3>5. Ring!Refuse(s)
        BY <1>1, <2>1, <3>2, <3>3, <3>4, TrySendFacts DEF Ring!Refuse
      <3> QED
        BY <1>1, <2>2, <3>5, TrySendFacts
    <2> QED
      BY <2>4, <2>5
  <1>2. ASSUME NEW s \in Sources, Count(s)
        PROVE  TodoIsLatest' /\ OwnerOK' /\ UNCHANGED Ring!ringVars
    <2>1. UNCHANGED <<ring, rxOpen, owner, made, todo>>
      BY <1>2 DEF Count, chanVars
    <2> QED
      BY <1>2, <2>1, CountGaps
         DEF TodoIsLatest, OwnerOK, OwnerOpen, Offered, Ring!ringVars
  <1>3. ASSUME Recv
        PROVE  TodoIsLatest' /\ OwnerOK' /\ Ring!Take
    <2>1. UNCHANGED <<rxOpen, owner, made, todo, stats, res>>
      BY <1>3 DEF Recv
    <2>2. TodoIsLatest' /\ OwnerOK' /\ Offered' = Offered /\ Refused' = Refused
      BY <2>1 DEF TodoIsLatest, OwnerOK, OwnerOpen, Offered, Refused, RefusedGap
    <2> QED
      BY <1>3, <2>1, <2>2 DEF Recv, OwnerOK, OwnerOpen, Ring!Take
  <1>4. ASSUME DropReceiver
        PROVE  TodoIsLatest' /\ OwnerOK' /\ Ring!Close
    <2>1. UNCHANGED <<made, todo, stats, res>>
      BY <1>4 DEF DropReceiver
    <2>2. TodoIsLatest' /\ Offered' = Offered /\ Refused' = Refused
      BY <2>1 DEF TodoIsLatest, Offered, Refused, RefusedGap
    <2>3. OwnerOpen /\ ~OwnerOpen' /\ ~rxOpen' /\ ring' = <<>>
      BY <1>4 DEF DropReceiver, OwnerOpen
    <2> QED
      BY <2>2, <2>3 DEF OwnerOK, Ring!Close, Typed
  <1>5. ASSUME NEW s \in Sources, NEW k \in Nat, Decodes(s, k)
        PROVE  TodoIsLatest' /\ OwnerOK' /\ UNCHANGED Ring!ringVars
    <2>1. ChannelKept
      BY <1>5 DEF Decodes
    <2>2. OwnerOK' /\ Refused' = Refused
      BY <2>1 DEF ChannelKept, CountersKept, OwnerOK, Refused, RefusedGap
    <2> QED
      BY <1>5, <2>1, <2>2, DecodesFacts DEF ChannelKept, Ring!ringVars
  <1>6. ASSUME Elsewhere
        PROVE  TodoIsLatest' /\ OwnerOK' /\ UNCHANGED Ring!ringVars
    <2>1. ChannelKept /\ UNCHANGED <<made, todo>>
      BY <1>6 DEF Elsewhere
    <2>2. TodoIsLatest' /\ OwnerOK' /\ Refused' = Refused /\ Offered' = Offered
      BY <2>1 DEF ChannelKept, CountersKept, OwnerOK, Refused, RefusedGap,
                  TodoIsLatest, Offered
    <2> QED
      BY <2>1, <2>2 DEF ChannelKept, Ring!ringVars
  <1> QED
    BY StepKinds, <1>1, <1>2, <1>3, <1>4, <1>5, <1>6 DEF Ring!RingNext

\* The initial state is an initial state of the ring.
LEMMA InitMaps == Init => MapInv /\ Ring!RingInit
  <1> SUFFICES ASSUME Init PROVE TodoIsLatest /\ OwnerOK /\ Ring!RingInit
                           /\ Typed /\ ControlOK
    BY DEF MapInv
  <1> USE ThreadFacts, ServerAssumption
  <1>1. Typed
    BY EmptySeq DEF Init, Typed, PcValues, Stats
  <1>2. ControlOK
    BY DEF Init, ControlOK
  <1>3. TodoIsLatest /\ OwnerOK
    BY DEF Init, TodoIsLatest, OwnerOK, OwnerOpen
  <1>4. RefusedGap = {}
    BY DEF Init, RefusedGap
  <1>5. Refused = 0
    BY <1>4, FS_EmptySet DEF Init, Refused
  <1>6. Offered = [s \in Sources |-> 0]
    BY DEF Init, Offered
  <1> QED
    BY <1>1, <1>2, <1>3, <1>5, <1>6 DEF Init, Ring!RingInit

\* The invariant behind the refinement holds in every reachable state.
LEMMA MapInvInductive == Spec => []MapInv
  <1>1. MapInv /\ [Next]_vars => MapInv'
    BY TypeStep, StepSimulation DEF MapInv
  <1> QED
    BY <1>1, InitMaps, PTL DEF Spec

\* The receiver threads, their counters and the channel together implement the
\* bounded per-source-FIFO ring of IngestRing.
THEOREM ServerImplementsRing == Spec => ImplementsRing
  <1>1. MapInv /\ [Next]_vars => [Ring!RingNext]_(Ring!ringVars)
    BY StepSimulation
  <1> QED
    BY <1>1, InitMaps, MapInvInductive, PTL DEF Spec, ImplementsRing, Ring!RingSpec
-----------------------------------------------------------------------------
(* Every message is accounted for.  A try_send adds one message to Handled *)
(* and one to a gap; counting it only moves it from the gap to a counter;  *)
(* no other step touches either side.                                      *)

AccountInv == MapInv /\ IsFiniteSet(Handled) /\ AllAccounted

\* A message is handled when its thread has offered it.
LEMMA HandledMember ==
  ASSUME NEW s \in Sources, NEW n
  PROVE  Message(s, n) \in Handled <=> n \in 1 .. Offered[s]
  <1>1. ASSUME NEW r \in Sources, NEW m, Message(s, n) = Message(r, m)
        PROVE  s = r /\ n = m
    BY <1>1 DEF Message
  <1>2. ASSUME Message(s, n) \in Handled PROVE n \in 1 .. Offered[s]
    <2>1. PICK r \in Sources : Message(s, n) \in {Message(r, m) : m \in 1 .. Offered[r]}
      BY <1>2, Zenon DEF Handled
    <2>2. PICK m \in 1 .. Offered[r] : Message(s, n) = Message(r, m)
      BY <2>1, Zenon
    <2> QED
      BY <1>1, <2>2, Zenon
  <1>3. ASSUME n \in 1 .. Offered[s] PROVE Message(s, n) \in Handled
    <2>1. Message(s, n) \in {Message(s, m) : m \in 1 .. Offered[s]}
      BY <1>3, Zenon
    <2>2. {Message(s, m) : m \in 1 .. Offered[s]}
            \in {{Message(r, m) : m \in 1 .. Offered[r]} : r \in Sources}
      BY Zenon
    <2> QED
      BY <2>1, <2>2, Zenon DEF Handled
  <1> QED
    BY <1>2, <1>3

\* A try_send adds exactly its message to the handled ones.
LEMMA TrySendHandles ==
  ASSUME MapInv, NEW s \in Sources, TrySend(s)
  PROVE  /\ Message(s, Offered[s] + 1) \notin Handled
         /\ Handled' = Handled \cup {Message(s, Offered[s] + 1)}
  <1>1. Offered' = [Offered EXCEPT ![s] = @ + 1]
    BY TrySendFacts DEF MapInv
  <1>2. Offered \in [Sources -> Nat]
    <2>1. ASSUME NEW r \in Sources PROVE made[r] - Len(todo[r]) \in Nat
      <3>1. made[r] \in Nat /\ Len(todo[r]) \in Nat
        BY LenProperties DEF MapInv, Typed
      <3>2. Len(todo[r]) <= made[r]
        BY DEF MapInv, TodoIsLatest
      <3> QED
        BY <3>1, <3>2
    <2> QED
      BY <2>1 DEF Offered
  <1>3. Message(s, Offered[s] + 1) \notin Handled
    BY <1>2, HandledMember
  <1>4. 1 .. Offered'[s] = (1 .. Offered[s]) \cup {Offered[s] + 1}
    BY <1>1, <1>2
  <1>5. \A r \in Sources : r # s => Offered'[r] = Offered[r]
    BY <1>1, <1>2
  <1>6. Handled' = UNION {{Message(r, n) : n \in 1 .. Offered'[r]} : r \in Sources}
    BY DEF Handled, Message
  <1>7. ASSUME NEW x \in Handled' PROVE x \in Handled \cup {Message(s, Offered[s] + 1)}
    <2>1. PICK r \in Sources : x \in {Message(r, n) : n \in 1 .. Offered'[r]}
      BY <1>6, <1>7, Zenon
    <2>2. PICK n \in 1 .. Offered'[r] : x = Message(r, n)
      BY <2>1, Zenon
    <2>3. CASE n \in 1 .. Offered[r]
      BY <2>2, <2>3, HandledMember
    <2>4. CASE n \notin 1 .. Offered[r]
      BY <1>4, <1>5, <2>2, <2>4, Zenon
    <2> QED
      BY <2>3, <2>4
  <1>8. ASSUME NEW x \in Handled \cup {Message(s, Offered[s] + 1)} PROVE x \in Handled'
    <2>0. ASSUME NEW r \in Sources, x \in {Message(r, n) : n \in 1 .. Offered'[r]}
          PROVE  x \in Handled'
      <3>1. {Message(r, n) : n \in 1 .. Offered'[r]}
              \in {{Message(t, n) : n \in 1 .. Offered'[t]} : t \in Sources}
        BY Zenon
      <3> QED
        BY <1>6, <2>0, <3>1, Zenon
    <2>1. CASE x = Message(s, Offered[s] + 1)
      <3>1. x \in {Message(s, n) : n \in 1 .. Offered'[s]}
        BY <1>4, <2>1, Zenon
      <3> QED
        BY <2>0, <3>1
    <2>2. CASE x \in Handled
      <3>1. PICK r \in Sources : x \in {Message(r, n) : n \in 1 .. Offered[r]}
        BY <2>2, Zenon DEF Handled
      <3>2. 1 .. Offered[r] \subseteq 1 .. Offered'[r]
        BY <1>4, <1>5, Zenon
      <3> QED
        <4>1. x \in {Message(r, n) : n \in 1 .. Offered'[r]}
          BY <3>1, <3>2, Zenon
        <4> QED
          BY <2>0, <4>1
    <2> QED
      BY <1>8, <2>1, <2>2
  <1> QED
    BY <1>3, <1>7, <1>8, Zenon

\* Every step keeps the books.
LEMMA AccountStep ==
  ASSUME AccountInv, [Next]_vars
  PROVE  IsFiniteSet(Handled') /\ AllAccounted'
  <1> USE GapsFinite DEF AccountInv
  <1>0. /\ Typed /\ ControlOK
        /\ stats.delivered \in Nat /\ stats.dropped_full \in Nat
        /\ stats.dropped_disconnected \in Nat
    BY DEF MapInv, Typed, Stats
  <1>1. ASSUME NEW s \in Sources, TrySend(s)
        PROVE  IsFiniteSet(Handled') /\ AllAccounted'
    <2>1. IsFiniteSet(Handled') /\ Cardinality(Handled') = Cardinality(Handled) + 1
      BY <1>1, TrySendHandles, FS_AddElement
    <2>2. UNCHANGED stats
      BY <1>1 DEF TrySend
    <2>3. Cardinality(InGap') + Cardinality(RefusedGap')
            = Cardinality(InGap) + Cardinality(RefusedGap) + 1
      BY <1>0, <1>1, TrySendGaps
    <2>4. Cardinality(InGap') \in Nat /\ Cardinality(RefusedGap') \in Nat
      BY <1>0, <1>1, TrySendGaps
    <2> QED
      BY <1>0, <2>1, <2>2, <2>3, <2>4 DEF AllAccounted, Refused
  <1>2. ASSUME NEW s \in Sources, Count(s)
        PROVE  IsFiniteSet(Handled') /\ AllAccounted'
    <2>1. Handled' = Handled
      BY <1>2 DEF Count, Handled, Offered, Message
    <2> QED
      BY <1>0, <1>2, <2>1, CountGaps DEF AllAccounted
  <1>3. ASSUME Offered' = Offered, UNCHANGED res, CountersKept
        PROVE  IsFiniteSet(Handled') /\ AllAccounted'
    BY <1>3 DEF CountersKept, AllAccounted, Handled, Message, InGap, Refused, RefusedGap
  <1>4. ASSUME Recv \/ DropReceiver
        PROVE  Offered' = Offered /\ UNCHANGED res /\ CountersKept
    BY <1>4 DEF Recv, DropReceiver, Offered, CountersKept
  <1>5. ASSUME NEW s \in Sources, NEW k \in Nat, Decodes(s, k)
        PROVE  Offered' = Offered /\ UNCHANGED res /\ CountersKept
    BY <1>5, DecodesFacts DEF MapInv, Decodes, ChannelKept
  <1>6. ASSUME Elsewhere
        PROVE  Offered' = Offered /\ UNCHANGED res /\ CountersKept
    BY <1>6 DEF Elsewhere, ChannelKept, Offered
  <1> QED
    BY <1>0, StepKinds, <1>1, <1>2, <1>3, <1>4, <1>5, <1>6

\* Every message that left a receiver thread is in exactly one of the three
\* counters of deliver or between its try_send and its fetch_add, whatever the
\* number of connections and however their steps interleave.
THEOREM EveryMessageAccounted == Spec => []AllAccounted
  <1>1. Init => IsFiniteSet(Handled) /\ AllAccounted
    <2> SUFFICES ASSUME Init PROVE IsFiniteSet(Handled) /\ AllAccounted
      OBVIOUS
    <2>1. Offered = [s \in Sources |-> 0]
      BY DEF Init, Offered
    <2>2. Handled = {}
      <3>1. 1 .. 0 = {}
        OBVIOUS
      <3> QED
        BY <2>1, <3>1, Zenon DEF Handled
    <2>3. InGap = {} /\ RefusedGap = {}
      BY DEF Init, InGap, RefusedGap
    <2> QED
      BY <2>2, <2>3, FS_EmptySet DEF Init, AllAccounted, Refused
  <1>2. AccountInv /\ MapInv' /\ [Next]_vars => AccountInv'
    BY AccountStep DEF AccountInv
  <1>3. MapInv /\ IsFiniteSet(Handled) /\ AllAccounted => AccountInv
    BY DEF AccountInv
  <1>4. AccountInv => AllAccounted
    BY DEF AccountInv
  <1> QED
    BY <1>1, <1>2, <1>3, <1>4, MapInvInductive, PTL DEF Spec
=============================================================================
