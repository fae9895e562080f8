---------------------------- MODULE SyslogServer ----------------------------
(***************************************************************************)
(* The UDP and TCP receivers of tpt-syslog-server and the bounded ring     *)
(* they feed.  The threads are the UDP receiver, the TCP acceptor, one     *)
(* thread per accepted connection, and the owner of the SyslogServer       *)
(* value, who receives messages and shuts the server down.  Each access to *)
(* a shared atomic or to the channel is a step of its own, so every        *)
(* interleaving of the threads between those accesses is a behaviour.      *)
(* What a chunk of bytes decodes to is left open here; TcpDecoder models   *)
(* the decoder itself.                                                     *)
(***************************************************************************)
EXTENDS Integers, Sequences, FiniteSets

CONSTANTS
  Udp, Acceptor,   \* the two threads SyslogServer::new spawns
  Conns,           \* the TCP clients; a connection thread is named after its client
  RingCapacity,    \* config.ring_capacity
  MaxConnections,  \* config.max_connections
  Linux,           \* which of the two cfg(target_os) variants is built
  SocketQueue,     \* datagrams the kernel holds for the UDP socket
  MaxDatagrams,    \* bound: datagrams sent to the server
  MaxFrames,       \* bound: frames one connection carries
  MaxFaults        \* bound: hard errors the sockets report

ASSUME ServerAssumption ==
  /\ Udp # Acceptor
  /\ Udp \notin Conns
  /\ Acceptor \notin Conns
  /\ IsFiniteSet(Conns)
  /\ RingCapacity \in Nat
  /\ MaxConnections \in Nat
  /\ Linux \in BOOLEAN
  /\ SocketQueue \in Nat \ {0}
  /\ MaxDatagrams \in Nat
  /\ MaxFrames \in Nat
  /\ MaxFaults \in Nat

VARIABLES
  stop,            \* the AtomicBool shared by all threads
  rxOpen,          \* the Receiver has not been dropped
  ring,            \* contents of the sync_channel
  stats,           \* the counters of Stats
  live,            \* the AtomicUsize of tcp_accept_loop
  pc,              \* where each thread is
  todo,            \* messages each thread has decoded and not yet sent
  res,             \* result of the thread's last try_send, until it is counted
  made,            \* messages each thread has decoded so far
  partial,         \* the connection's decoder holds an unfinished frame
  leaving,         \* the connection has left its read loop
  peer,            \* each client's view of its connection
  udpQ,            \* datagrams queued in the kernel, with the drop count they carry
  kdrops,          \* datagrams the kernel has dropped
  owner,           \* where the owner of the server is
  consumed,        \* messages the owner has received
  discarded,       \* messages lost in the ring when the receiver was dropped
  faults           \* hard socket errors so far

netVars   == <<peer, udpQ, kdrops, faults>>
chanVars  == <<rxOpen, ring, consumed, discarded>>
connVars  == <<partial, leaving>>
vars == <<stop, chanVars, stats, live, pc, todo, res, made, connVars,
          netVars, owner>>

Threads == Conns \cup {Udp, Acceptor}
Sources == Conns \cup {Udp}

\* config.ring_capacity.max(1)
Capacity == IF RingCapacity = 0 THEN 1 ELSE RingCapacity

\* What the abstract ring sees of a source: it has offered what it decoded except
\* for what it still has to send.
Offered == [s \in Sources |-> made[s] - Len(todo[s])]

\* The sources whose last message was refused and is not counted yet.
RefusedGap == {s \in Sources : res[s] \in {"full", "disconnected"}}

Refused == stats.dropped_full + stats.dropped_disconnected + Cardinality(RefusedGap)

Ring == INSTANCE IngestRing
          WITH q <- ring, open <- rxOpen, offered <- Offered, refused <- Refused

Message(s, n) == [src |-> s, n |-> n]

\* The next k messages of thread s.
Fresh(s, k) == [i \in 1 .. k |-> Message(s, made[s] + i)]

Stats == [delivered : Nat, dropped_full : Nat, dropped_disconnected : Nat,
          kernel_overflow : Nat, rejected_connections : Nat]

-----------------------------------------------------------------------------
(* SyslogServer::new *)

Init ==
  /\ stop = FALSE
  /\ rxOpen = TRUE
  /\ ring = <<>>
  /\ stats = [delivered |-> 0, dropped_full |-> 0, dropped_disconnected |-> 0,
              kernel_overflow |-> 0, rejected_connections |-> 0]
  /\ live = 0
  /\ pc = [t \in Threads |-> IF t \in Conns THEN "idle" ELSE "check"]
  /\ todo = [s \in Sources |-> <<>>]
  /\ res = [s \in Sources |-> "none"]
  /\ made = [s \in Sources |-> 0]
  /\ partial = [c \in Conns |-> FALSE]
  /\ leaving = [c \in Conns |-> FALSE]
  /\ peer = [c \in Conns |-> "absent"]
  /\ udpQ = <<>>
  /\ kdrops = 0
  /\ owner = "running"
  /\ consumed = 0
  /\ discarded = 0
  /\ faults = 0

-----------------------------------------------------------------------------
(* The network and the clients.  A datagram reaches the socket's queue or, *)
(* when it is full, is dropped by the kernel, which stamps every datagram  *)
(* it queues with the drops so far (SO_RXQ_OVFL).                          *)

DatagramArrives ==
  /\ pc[Udp] # "done"
  /\ made[Udp] + Len(udpQ) + kdrops < MaxDatagrams
  /\ IF Len(udpQ) < SocketQueue
       THEN udpQ' = Append(udpQ, kdrops) /\ kdrops' = kdrops
       ELSE udpQ' = udpQ /\ kdrops' = kdrops + 1
  /\ UNCHANGED <<stop, chanVars, stats, live, pc, todo, res, made, connVars, peer, faults, owner>>

PeerConnects(c) ==
  /\ peer[c] = "absent"
  /\ pc[Acceptor] # "done"
  /\ peer' = [peer EXCEPT ![c] = "queued"]
  /\ UNCHANGED <<stop, chanVars, stats, live, pc, todo, res, made, connVars, udpQ, kdrops, faults, owner>>

\* The client closes its connection, or it breaks.
PeerLeaves(c) ==
  /\ peer[c] = "open"
  /\ peer' = [peer EXCEPT ![c] = "gone"]
  /\ UNCHANGED <<stop, chanVars, stats, live, pc, todo, res, made, connVars, udpQ, kdrops, faults, owner>>

-----------------------------------------------------------------------------
(* deliver, split where other threads can run: between try_send and the    *)
(* fetch_add of the counter its result selects.                            *)

Outcome(full) ==
  IF ~rxOpen THEN "disconnected" ELSE IF full THEN "full" ELSE "ok"

\* Mutation: the frames of a chunk are popped from the end.
TrySendNewest(t) ==
  LET r == Outcome(Len(ring) >= Capacity)
      n == Len(todo[t]) IN
  /\ pc[t] = "send"
  /\ pc' = [pc EXCEPT ![t] = "count"]
  /\ todo' = [todo EXCEPT ![t] = SubSeq(@, 1, n - 1)]
  /\ res' = [res EXCEPT ![t] = r]
  /\ ring' = IF r = "ok" THEN Append(ring, todo[t][n]) ELSE ring
  /\ UNCHANGED <<stop, rxOpen, consumed, discarded, stats, live, made, connVars, netVars, owner>>

TrySend(t) ==
  LET r == Outcome(Len(ring) >= Capacity) IN
  /\ pc[t] = "send"
  /\ pc' = [pc EXCEPT ![t] = "count"]
  /\ todo' = [todo EXCEPT ![t] = Tail(@)]
  /\ res' = [res EXCEPT ![t] = r]
  /\ ring' = IF r = "ok" THEN Append(ring, Head(todo[t])) ELSE ring
  /\ UNCHANGED <<stop, rxOpen, consumed, discarded, stats, live, made, connVars, netVars, owner>>

\* Where a thread goes once its message is counted: to the next message, out of
\* a connection that has left its loop, or back to the top of the loop.
AfterDeliver(t) ==
  IF todo[t] # <<>> THEN "send"
  ELSE IF t \in Conns /\ leaving[t] THEN "exit" ELSE "check"

\* The counter that the result r of a try_send selects goes up.
Bump(st, r) ==
  IF r = "ok" THEN [st EXCEPT !.delivered = @ + 1]
  ELSE IF r = "full" THEN [st EXCEPT !.dropped_full = @ + 1]
  ELSE [st EXCEPT !.dropped_disconnected = @ + 1]

\* Mutation: a message that found the ring full is counted as delivered.
CountAllDelivered(t) ==
  /\ pc[t] = "count"
  /\ stats' = Bump(stats, IF res[t] = "full" THEN "ok" ELSE res[t])
  /\ res' = [res EXCEPT ![t] = "none"]
  /\ pc' = [pc EXCEPT ![t] = AfterDeliver(t)]
  /\ UNCHANGED <<stop, chanVars, live, todo, made, connVars, netVars, owner>>

Count(t) ==
  /\ pc[t] = "count"
  /\ stats' = Bump(stats, res[t])
  /\ res' = [res EXCEPT ![t] = "none"]
  /\ pc' = [pc EXCEPT ![t] = AfterDeliver(t)]
  /\ UNCHANGED <<stop, chanVars, live, todo, made, connVars, netVars, owner>>

-----------------------------------------------------------------------------
(* udp_recv_loop and udp_recv_loop_linux.  The thread owns the socket, so  *)
(* its queue goes with it.                                                 *)

UdpCheck ==
  /\ pc[Udp] = "check"
  /\ pc' = [pc EXCEPT ![Udp] = IF stop THEN "done" ELSE "recv"]
  /\ udpQ' = IF stop THEN <<>> ELSE udpQ
  /\ UNCHANGED <<stop, chanVars, stats, live, todo, res, made, connVars,
                 peer, kdrops, faults, owner>>

UdpRecv ==
  /\ pc[Udp] = "recv"
  /\ udpQ # <<>>
  /\ udpQ' = Tail(udpQ)
  /\ todo' = [todo EXCEPT ![Udp] = Fresh(Udp, 1)]
  /\ made' = [made EXCEPT ![Udp] = @ + 1]
  /\ stats' = [stats EXCEPT !.kernel_overflow =
                 IF Linux /\ Head(udpQ) > 0 THEN Head(udpQ) ELSE @]
  /\ pc' = [pc EXCEPT ![Udp] = "send"]
  /\ UNCHANGED <<stop, chanVars, live, res, connVars, peer, kdrops,
                 faults, owner>>

\* The receive times out or would block; the thread sleeps and looks again.
UdpIdle ==
  /\ pc[Udp] = "recv"
  /\ udpQ = <<>>
  /\ pc' = [pc EXCEPT ![Udp] = "check"]
  /\ UNCHANGED <<stop, chanVars, stats, live, todo, res, made, connVars,
                 netVars, owner>>

\* Any other error: the Linux loop goes on, the portable one ends.
UdpError ==
  /\ pc[Udp] = "recv"
  /\ faults < MaxFaults
  /\ faults' = faults + 1
  /\ pc' = [pc EXCEPT ![Udp] = IF Linux THEN "check" ELSE "done"]
  /\ udpQ' = IF Linux THEN udpQ ELSE <<>>
  /\ UNCHANGED <<stop, chanVars, stats, live, todo, res, made, connVars,
                 peer, kdrops, owner>>

UdpThread == UdpCheck \/ UdpRecv \/ UdpIdle \/ TrySend(Udp) \/ Count(Udp)

-----------------------------------------------------------------------------
(* tcp_accept_loop.  The thread owns the listener: clients still waiting   *)
(* in its backlog are reset when it ends.  The stream it is deciding about *)
(* is that of the one client whose state is "accepted".                    *)

Backlog == {c \in Conns : peer[c] = "queued"}

ResetBacklog == [c \in Conns |-> IF peer[c] = "queued" THEN "reset" ELSE peer[c]]

\* Mutation: the acceptor does not look at the shutdown flag.
AcceptCheckIgnoresStop ==
  /\ pc[Acceptor] = "check"
  /\ pc' = [pc EXCEPT ![Acceptor] = "accept"]
  /\ UNCHANGED <<stop, chanVars, stats, live, todo, res, made, connVars,
                 netVars, owner>>

AcceptCheck ==
  /\ pc[Acceptor] = "check"
  /\ pc' = [pc EXCEPT ![Acceptor] = IF stop THEN "done" ELSE "accept"]
  /\ peer' = IF stop THEN ResetBacklog ELSE peer
  /\ UNCHANGED <<stop, chanVars, stats, live, todo, res, made, connVars,
                 udpQ, kdrops, faults, owner>>

AcceptConn(c) ==
  /\ pc[Acceptor] = "accept"
  /\ c \in Backlog
  /\ peer' = [peer EXCEPT ![c] = "accepted"]
  /\ pc' = [pc EXCEPT ![Acceptor] = "bump"]
  /\ UNCHANGED <<stop, chanVars, stats, live, todo, res, made, connVars, udpQ,
                 kdrops, faults, owner>>

AcceptIdle ==
  /\ pc[Acceptor] = "accept"
  /\ Backlog = {}
  /\ pc' = [pc EXCEPT ![Acceptor] = "check"]
  /\ UNCHANGED <<stop, chanVars, stats, live, todo, res, made, connVars,
                 netVars, owner>>

AcceptError ==
  /\ pc[Acceptor] = "accept"
  /\ faults < MaxFaults
  /\ faults' = faults + 1
  /\ pc' = [pc EXCEPT ![Acceptor] = "done"]
  /\ peer' = ResetBacklog
  /\ UNCHANGED <<stop, chanVars, stats, live, todo, res, made, connVars,
                 udpQ, kdrops, owner>>

\* Mutation: one connection too many passes the cap.
AcceptBumpOffByOne ==
  /\ pc[Acceptor] = "bump"
  /\ live' = live + 1
  /\ pc' = [pc EXCEPT ![Acceptor] =
              IF live > MaxConnections THEN "unbump" ELSE "spawn"]
  /\ UNCHANGED <<stop, chanVars, stats, todo, res, made, connVars,
                 netVars, owner>>

\* Mutation: the decision takes the counter after the increment.
AcceptBumpEager ==
  /\ pc[Acceptor] = "bump"
  /\ live' = live + 1
  /\ pc' = [pc EXCEPT ![Acceptor] =
              IF live' >= MaxConnections THEN "unbump" ELSE "spawn"]
  /\ UNCHANGED <<stop, chanVars, stats, todo, res, made, connVars,
                 netVars, owner>>

\* live.fetch_add(1), and the decision on the value it returned.
AcceptBump ==
  /\ pc[Acceptor] = "bump"
  /\ live' = live + 1
  /\ pc' = [pc EXCEPT ![Acceptor] =
              IF live >= MaxConnections THEN "unbump" ELSE "spawn"]
  /\ UNCHANGED <<stop, chanVars, stats, todo, res, made, connVars,
                 netVars, owner>>

AcceptSpawn(c) ==
  /\ pc[Acceptor] = "spawn"
  /\ peer[c] = "accepted"
  /\ pc' = [pc EXCEPT ![Acceptor] = "check", ![c] = "check"]
  /\ peer' = [peer EXCEPT ![c] = "open"]
  /\ UNCHANGED <<stop, chanVars, stats, live, todo, res, made, connVars,
                 udpQ, kdrops, faults, owner>>

\* Mutation: the surplus connection keeps its slot.
AcceptUnbumpLeaks ==
  /\ pc[Acceptor] = "unbump"
  /\ live' = live
  /\ pc' = [pc EXCEPT ![Acceptor] = "reject"]
  /\ UNCHANGED <<stop, chanVars, stats, todo, res, made, connVars,
                 netVars, owner>>

AcceptUnbump ==
  /\ pc[Acceptor] = "unbump"
  /\ live' = live - 1
  /\ pc' = [pc EXCEPT ![Acceptor] = "reject"]
  /\ UNCHANGED <<stop, chanVars, stats, todo, res, made, connVars,
                 netVars, owner>>

\* Mutation: the surplus stream is kept open.
AcceptRejectKeepsStream(c) ==
  /\ pc[Acceptor] = "reject"
  /\ peer[c] = "accepted"
  /\ stats' = [stats EXCEPT !.rejected_connections = @ + 1]
  /\ pc' = [pc EXCEPT ![Acceptor] = "check"]
  /\ UNCHANGED <<stop, chanVars, live, todo, res, made, connVars, netVars,
                 owner>>

\* The rejection is counted, then the stream is dropped.
AcceptReject(c) ==
  /\ pc[Acceptor] = "reject"
  /\ peer[c] = "accepted"
  /\ stats' = [stats EXCEPT !.rejected_connections = @ + 1]
  /\ peer' = [peer EXCEPT ![c] = "rejected"]
  /\ pc' = [pc EXCEPT ![Acceptor] = "check"]
  /\ UNCHANGED <<stop, chanVars, live, todo, res, made, connVars, udpQ,
                 kdrops, faults, owner>>

AcceptThread ==
  \/ AcceptCheck \/ AcceptIdle \/ AcceptBump \/ AcceptUnbump
  \/ \E c \in Conns : AcceptConn(c) \/ AcceptSpawn(c) \/ AcceptReject(c)

-----------------------------------------------------------------------------
(* tcp_conn_loop *)

ConnCheck(c) ==
  /\ pc[c] = "check"
  /\ pc' = [pc EXCEPT ![c] = IF stop THEN "flush" ELSE "read"]
  /\ UNCHANGED <<stop, chanVars, stats, live, todo, res, made, connVars,
                 netVars, owner>>

\* A chunk that completes k frames and leaves an unfinished one (p) or not.
\* Only a chunk that completes a frame can leave the decoder empty.
ConnRead(c, k, p) ==
  /\ pc[c] = "read"
  /\ peer[c] = "open"
  /\ k > 0 \/ p
  /\ made[c] + k + (IF p THEN 1 ELSE 0) <= MaxFrames
  /\ todo' = [todo EXCEPT ![c] = Fresh(c, k)]
  /\ made' = [made EXCEPT ![c] = @ + k]
  /\ partial' = [partial EXCEPT ![c] = p]
  /\ pc' = [pc EXCEPT ![c] = IF k = 0 THEN "check" ELSE "send"]
  /\ UNCHANGED <<stop, chanVars, stats, live, res, leaving, netVars, owner>>

\* Mutation: the frames decoded before the oversized one are forgotten.
ConnTooLargeForgets(c, k) ==
  /\ pc[c] = "read"
  /\ peer[c] = "open"
  /\ made[c] + k <= MaxFrames
  /\ made' = [made EXCEPT ![c] = @ + k]
  /\ partial' = [partial EXCEPT ![c] = FALSE]
  /\ pc' = [pc EXCEPT ![c] = "flush"]
  /\ UNCHANGED <<stop, chanVars, stats, live, todo, res, leaving, netVars,
                 owner>>

\* A chunk that completes k frames and then breaks the size ceiling: the decoder
\* is emptied and the loop left with the k frames still to be delivered.
ConnTooLarge(c, k) ==
  /\ pc[c] = "read"
  /\ peer[c] = "open"
  /\ made[c] + k <= MaxFrames
  /\ todo' = [todo EXCEPT ![c] = Fresh(c, k)]
  /\ made' = [made EXCEPT ![c] = @ + k]
  /\ partial' = [partial EXCEPT ![c] = FALSE]
  /\ pc' = [pc EXCEPT ![c] = "flush"]
  /\ UNCHANGED <<stop, chanVars, stats, live, res, leaving, netVars, owner>>

\* End of file or an error other than WouldBlock.
ConnEnd(c) ==
  /\ pc[c] = "read"
  /\ peer[c] = "gone"
  /\ pc' = [pc EXCEPT ![c] = "flush"]
  /\ UNCHANGED <<stop, chanVars, stats, live, todo, res, made, connVars,
                 netVars, owner>>

\* WouldBlock.  An accepted stream inherits the listener's non-blocking mode
\* except on Linux, where the read blocks until the client does something.
ConnWouldBlock(c) ==
  /\ ~Linux
  /\ pc[c] = "read"
  /\ peer[c] = "open"
  /\ pc' = [pc EXCEPT ![c] = "check"]
  /\ UNCHANGED <<stop, chanVars, stats, live, todo, res, made, connVars,
                 netVars, owner>>

\* Mutation: with nothing left to deliver the thread goes back to its loop.
ConnFlushLoops(c) ==
  /\ pc[c] = "flush"
  /\ todo' = [todo EXCEPT ![c] = IF partial[c] THEN @ \o Fresh(c, 1) ELSE @]
  /\ made' = [made EXCEPT ![c] = IF partial[c] THEN @ + 1 ELSE @]
  /\ partial' = [partial EXCEPT ![c] = FALSE]
  /\ leaving' = [leaving EXCEPT ![c] = TRUE]
  /\ pc' = [pc EXCEPT ![c] = IF todo'[c] = <<>> THEN "check" ELSE "send"]
  /\ UNCHANGED <<stop, chanVars, stats, live, res, netVars, owner>>

\* decoder.flush: an unfinished frame becomes the connection's last message.
ConnFlush(c) ==
  /\ pc[c] = "flush"
  /\ todo' = [todo EXCEPT ![c] = IF partial[c] THEN @ \o Fresh(c, 1) ELSE @]
  /\ made' = [made EXCEPT ![c] = IF partial[c] THEN @ + 1 ELSE @]
  /\ partial' = [partial EXCEPT ![c] = FALSE]
  /\ leaving' = [leaving EXCEPT ![c] = TRUE]
  /\ pc' = [pc EXCEPT ![c] = IF todo'[c] = <<>> THEN "exit" ELSE "send"]
  /\ UNCHANGED <<stop, chanVars, stats, live, res, netVars, owner>>

\* Mutation: the slot is given back twice.
ConnExitTwice(c) ==
  /\ pc[c] = "exit"
  /\ live' = live - 2
  /\ pc' = [pc EXCEPT ![c] = "done"]
  /\ peer' = [peer EXCEPT ![c] = "gone"]
  /\ UNCHANGED <<stop, chanVars, stats, todo, res, made, connVars, udpQ,
                 kdrops, faults, owner>>

\* The thread drops its stream and gives its slot back.
ConnExit(c) ==
  /\ pc[c] = "exit"
  /\ live' = live - 1
  /\ pc' = [pc EXCEPT ![c] = "done"]
  /\ peer' = [peer EXCEPT ![c] = "gone"]
  /\ UNCHANGED <<stop, chanVars, stats, todo, res, made, connVars, udpQ,
                 kdrops, faults, owner>>

ConnThread(c) ==
  \/ ConnCheck(c) \/ ConnEnd(c) \/ ConnWouldBlock(c) \/ ConnFlush(c)
  \/ ConnExit(c) \/ TrySend(c) \/ Count(c)

-----------------------------------------------------------------------------
(* The owner: recv_timeout and try_recv, stop, and Drop.                   *)

Recv ==
  /\ owner = "running"
  /\ ring # <<>>
  /\ ring' = Tail(ring)
  /\ consumed' = consumed + 1
  /\ UNCHANGED <<stop, rxOpen, discarded, stats, live, pc, todo, res, made,
                 connVars, netVars, owner>>

\* stop() raises the flag and joins the handles; a plain drop only raises it.
Shutdown(how) ==
  /\ owner = "running"
  /\ how \in {"joining", "dropping"}
  /\ stop' = TRUE
  /\ owner' = how
  /\ UNCHANGED <<chanVars, stats, live, pc, todo, res, made, connVars,
                 netVars>>

\* The fields of the server are dropped, the receiver and its messages with
\* them; stop() gets here once both joined threads have ended.
DropReceiver ==
  /\ \/ owner = "dropping" /\ owner' = "dropped"
     \/ /\ owner = "joining"
        /\ pc[Udp] = "done"
        /\ pc[Acceptor] = "done"
        /\ owner' = "stopped"
  /\ rxOpen' = FALSE
  /\ ring' = <<>>
  /\ discarded' = discarded + Len(ring)
  /\ UNCHANGED <<stop, consumed, stats, live, pc, todo, res, made, connVars, netVars>>

\* The server is gone and so are all its threads.
Terminated ==
  /\ owner \in {"stopped", "dropped"}
  /\ \A t \in Threads : pc[t] \in {"idle", "done"}
  /\ UNCHANGED vars

-----------------------------------------------------------------------------

Environment ==
  \/ DatagramArrives
  \/ \E c \in Conns : PeerConnects(c) \/ PeerLeaves(c)

Receive(c) ==
  \E k \in 0 .. MaxFrames :
    ConnTooLarge(c, k) \/ \E p \in BOOLEAN : ConnRead(c, k, p)

Next ==
  \/ Environment
  \/ UdpThread \/ UdpError
  \/ AcceptThread \/ AcceptError
  \/ \E c \in Conns : ConnThread(c) \/ Receive(c)
  \/ Recv
  \/ \E how \in {"joining", "dropping"} : Shutdown(how)
  \/ DropReceiver
  \/ Terminated

Spec == Init /\ [][Next]_vars

\* Every thread that can take a step of its own takes it in the end; the owner
\* finishes what it started.  Nothing is assumed of the network, of the clients
\* or of how often the owner receives.
Fairness ==
  /\ WF_vars(UdpThread)
  /\ WF_vars(AcceptThread)
  /\ \A c \in Conns : WF_vars(ConnThread(c))
  /\ WF_vars(DropReceiver)

FairSpec == Spec /\ Fairness

-----------------------------------------------------------------------------
(* Properties *)

PcValues == {"idle", "check", "recv", "send", "count", "accept", "bump", "spawn",
             "unbump", "reject", "read", "flush", "exit", "done"}

\* The types of all variables but the counter of live connections.
Typed ==
  /\ stop \in BOOLEAN
  /\ rxOpen \in BOOLEAN
  /\ ring \in Seq(Ring!Messages)
  /\ stats \in Stats
  /\ pc \in [Threads -> PcValues]
  /\ todo \in [Sources -> Seq(Ring!Messages)]
  /\ res \in [Sources -> {"none", "ok", "full", "disconnected"}]
  /\ made \in [Sources -> Nat]
  /\ partial \in [Conns -> BOOLEAN]
  /\ leaving \in [Conns -> BOOLEAN]
  /\ peer \in [Conns -> {"absent", "queued", "accepted", "open", "gone",
                         "rejected", "reset"}]
  /\ udpQ \in Seq(Nat)
  /\ kdrops \in Nat
  /\ owner \in {"running", "joining", "dropping", "stopped", "dropped"}
  /\ consumed \in Nat
  /\ discarded \in Nat
  /\ faults \in Nat

\* The type of every variable; in particular live never wraps below zero
\* (AtomicUsize::fetch_sub in tcp_accept_loop and its connection closures).
TypeOK == Typed /\ live \in Nat

\* How the control state of a thread goes with the data it owns: which loop it is
\* in, when it has messages to send, and that a connection thread exists exactly
\* for a client that was let in.
ControlOK ==
  /\ pc[Udp] \in {"check", "recv", "send", "count", "done"}
  /\ pc[Acceptor] \in {"check", "accept", "bump", "spawn", "unbump", "reject", "done"}
  /\ \A c \in Conns :
       pc[c] \in {"idle", "check", "read", "send", "count", "flush", "exit", "done"}
  /\ \A s \in Sources :
       /\ pc[s] = "send" => todo[s] # <<>>
       /\ todo[s] # <<>> => pc[s] \in {"send", "count", "flush"}
       /\ pc[s] = "count" <=> res[s] # "none"
  /\ \A c \in Conns : pc[c] = "idle" <=> peer[c] \notin {"open", "gone"}

\* The receiver lives until the owner has dropped the server.
OwnerOpen == owner \in {"running", "joining", "dropping"}

OwnerOK == rxOpen <=> OwnerOpen

\* What a thread still has to send is exactly the newest messages it decoded, in
\* the order it decoded them.
TodoIsLatest ==
  \A s \in Sources :
    /\ Len(todo[s]) <= made[s]
    /\ \A i \in 1 .. Len(todo[s]) :
         todo[s][i] = Message(s, made[s] - Len(todo[s]) + i)

\* The ring holds at most config.ring_capacity.max(1) messages, however many
\* threads send at once.
RingBound == Len(ring) <= Capacity

Active == {c \in Conns : pc[c] \notin {"idle", "done"}}

\* The slot the acceptor has taken and not yet handed over or given back.
Claimed == IF pc[Acceptor] \in {"spawn", "unbump"} THEN 1 ELSE 0

\* The live counter is exactly the connection threads that run plus the slot the
\* acceptor is deciding about: no path through the two loops leaks a slot.
LiveCount == live = Cardinality(Active) + Claimed

\* The threads that run and the one about to be spawned fit the cap.
SlotsOK ==
  Cardinality(Active) + (IF pc[Acceptor] = "spawn" THEN 1 ELSE 0) <= MaxConnections

\* At no time do more than max_connections connection threads run.
ConnectionCap == Cardinality(Active) <= MaxConnections

InGap == {s \in Sources : res[s] = "ok"}

\* The delivered counter lags the ring by exactly the threads between try_send
\* and fetch_add; nothing that entered the ring is lost or counted twice.
DeliveredExact ==
  consumed + Len(ring) + discarded = stats.delivered + Cardinality(InGap)

\* The messages that left their thread through a try_send.
Handled == UNION {{Message(s, n) : n \in 1 .. Offered[s]} : s \in Sources}

\* Every message a receiver decoded is still to be sent, between send and
\* count, or in exactly one of the three delivery counters.
AllAccounted ==
  Cardinality(Handled) = stats.delivered + Cardinality(InGap) + Refused

\* A client is turned away only while max_connections connection threads run.
RejectsOnlyWhenFull ==
  [][pc[Acceptor] = "bump" /\ pc'[Acceptor] = "unbump"
       => Cardinality(Active) >= MaxConnections]_vars

\* The server implements the abstract ring: messages of one source enter in
\* order and are refused only when the ring is full or the receiver is gone.
ImplementsRing == Ring!RingSpec

\* stop() returns, whatever the clients do.
StopReturns == owner = "joining" ~> owner = "stopped"

\* Ended, or never started.
Over(t) == pc[t] \in {"idle", "done"}

\* Once the flag is raised every thread ends, but for a connection thread on Linux
\* whose client stays connected and silent: its read never returns.
ShutdownSettles ==
  stop ~> \A t \in Threads :
            Over(t) \/ (Linux /\ t \in Conns /\ pc[t] = "read" /\ peer[t] = "open")

\* A client in the backlog is served or rejected, unless the server is being
\* shut down or a socket has failed.
BacklogServed ==
  \A c \in Conns :
    peer[c] = "queued" ~> \/ peer[c] \in {"open", "gone", "rejected"}
                          \/ stop
                          \/ faults > 0
=============================================================================
