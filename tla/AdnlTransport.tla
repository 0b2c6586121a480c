---------------------------- MODULE AdnlTransport ----------------------------
(***************************************************************************)
(* ADNL nodes (adnl_transport.rs): the two mutexes of a node, taken step   *)
(* by step by the tasks that call connect_peer, send_datagram and          *)
(* recv_datagram, and the datagrams between nodes.                         *)
(*                                                                         *)
(* A node is its abstract address; addresses are ordered.  A lock is held  *)
(* between two steps only where a call holds one lock and waits for the    *)
(* other, so the holders can be read off the tasks.  Encryption is what    *)
(* the keys make of it: a packet opens under the secret it was sealed      *)
(* with, unless it was damaged on the way.  The endpoint a session records *)
(* is never read again (send_datagram uses its argument) and is left out.  *)
(***************************************************************************)
EXTENDS Integers

CONSTANTS
    Nodes,   \* abstract addresses
    Tasks,   \* the tasks that share the nodes' transports
    Home     \* the node each task runs on

ASSUME NodesAssumption == Nodes \subseteq Int
ASSUME HomeAssumption  == Home \in [Tasks -> Nodes]

\* X25519: both ends compute the same secret, no other pair does.
SharedSecret(a, b) == {a, b}

derive_channel_id(secret, first, second) == <<secret, first, second>>

\* (Slip: the two addresses are hashed in the caller's order.)
ChannelIdUnordered(me, peer) == derive_channel_id(SharedSecret(me, peer), me, peer)

\* The lower address is hashed first, so that both ends get the same id.
ChannelId(me, peer) ==
    IF me < peer
    THEN derive_channel_id(SharedSecret(me, peer), me, peer)
    ELSE derive_channel_id(SharedSecret(me, peer), peer, me)

Channels == {ChannelId(a, b) : a \in Nodes, b \in Nodes}

\* An address is a hash of its own, never that of a channel.
AddressId(n) == <<{}, n, n>>

\* A FullPacket starts with the recipient's address, a FastPacket with the id
\* of its channel; "intact" tells whether it decodes, "long" whether it has at
\* least the 32 bytes of a header.
FullPackets == [kind : {"full"}, header : {AddressId(n) : n \in Nodes}, from : Nodes, to : Nodes, intact : BOOLEAN, long : BOOLEAN]
FastPackets == [kind : {"fast"}, header : Channels, from : Nodes, to : Nodes, intact : BOOLEAN, long : BOOLEAN]
Packets     == FullPackets \cup FastPackets
NoPacket    == [kind |-> "none"]

VARIABLES
    sessions,   \* per node: the peers it has a session with
    channels,   \* per node: channel_to_peer, as pairs
    task,       \* where each task is in its call
    wire        \* datagrams sent so far: each may arrive any number of times

adnlVars == <<sessions, channels, task, wire>>

Idle(result) == [pc |-> "idle", op |-> "none", peer |-> 0, packet |-> NoPacket, result |-> result]

\* bind: no sessions.  A FullPacket may be under way to any node; who sealed
\* it makes no difference.
AdnlInit ==
    /\ sessions = [n \in Nodes |-> {}]
    /\ channels = [n \in Nodes |-> {}]
    /\ task = [t \in Tasks |-> Idle("ok")]
    /\ wire = {[kind |-> "full", header |-> AddressId(n), from |-> n, to |-> n,
               intact |-> TRUE, long |-> TRUE] : n \in Nodes}

Is(t, pc) == task[t].pc = pc

\* Which lock is held between steps: sessions by a connect_peer that waits for
\* channel_to_peer, channel_to_peer by a recv_datagram that waits for sessions.
SessionsFree(n) == \A t \in Tasks : Home[t] = n => ~Is(t, "insert")
ChannelsFree(n) == \A t \in Tasks : Home[t] = n => ~Is(t, "fetch")

Return(t, result) == task' = [task EXCEPT ![t] = Idle(result)]
Goto(t, pc)       == task' = [task EXCEPT ![t].pc = pc]

\* Where a connect_peer goes on: back to its caller, which may be send_datagram.
Connected(t) == IF task[t].op = "send" THEN Goto(t, "transmit") ELSE Return(t, "ok")

CallConnect(t, op, peer) ==
    /\ Is(t, "idle") /\ peer # Home[t]
    /\ task' = [task EXCEPT ![t] = [pc |-> "connect", op |-> op, peer |-> peer,
                                    packet |-> NoPacket, result |-> "ok"]]
    /\ UNCHANGED <<sessions, channels, wire>>

\* connect_peer with a session on file: the lock is taken and dropped.
FindSession(t) ==
    /\ Is(t, "connect") /\ SessionsFree(Home[t])
    /\ task[t].peer \in sessions[Home[t]]
    /\ Connected(t)
    /\ UNCHANGED <<sessions, channels, wire>>

\* (Slip: the lock is taken, but the session is never entered.)
CreateSessionLate(t) ==
    /\ Is(t, "connect") /\ SessionsFree(Home[t])
    /\ task[t].peer \notin sessions[Home[t]]
    /\ Goto(t, "insert")
    /\ UNCHANGED <<sessions, channels, wire>>

\* connect_peer without one: the session is entered and the lock kept.
CreateSession(t) ==
    /\ Is(t, "connect") /\ SessionsFree(Home[t])
    /\ task[t].peer \notin sessions[Home[t]]
    /\ sessions' = [sessions EXCEPT ![Home[t]] = @ \cup {task[t].peer}]
    /\ Goto(t, "insert")
    /\ UNCHANGED <<channels, wire>>

\* ... until the channel is entered under the second lock.
InsertChannel(t) ==
    LET n == Home[t] IN
    /\ Is(t, "insert") /\ ChannelsFree(n)
    /\ channels' = [channels EXCEPT ![n] = @ \cup {<<ChannelId(n, task[t].peer), task[t].peer>>}]
    /\ Connected(t)
    /\ UNCHANGED <<sessions, wire>>

\* The rest of send_datagram: seal with the session's secret, send_to, which may
\* fail.
Transmit(t) ==
    /\ Is(t, "transmit")
    /\ \/ /\ wire' = wire \cup {[kind |-> "fast", header |-> ChannelId(Home[t], task[t].peer),
                                 from |-> Home[t], to |-> task[t].peer,
                                 intact |-> TRUE, long |-> TRUE]}
          /\ Return(t, "ok")
       \/ Return(t, "refused") /\ UNCHANGED wire
    /\ UNCHANGED <<sessions, channels>>

\* What the link may hand to a socket: a packet sent, or a damaged copy of it.
Arriving(n) == UNION {{q, [q EXCEPT !.intact = FALSE],
                    [q EXCEPT !.intact = FALSE, !.long = FALSE]} : q \in {x \in wire : x.to = n}}

\* recv_datagram up to the first lock: too short, a FullPacket for this node,
\* or (also when a FullPacket does not decode) a look at the channels.
Recv(t, p) ==
    /\ Is(t, "idle") /\ p \in Arriving(Home[t])
    /\ \/ ~p.long /\ Return(t, "refused")
       \/ p.long /\ p.header = AddressId(Home[t]) /\ p.intact /\ Return(t, "ok")
       \/ /\ p.long /\ ~(p.header = AddressId(Home[t]) /\ p.intact)
          /\ task' = [task EXCEPT ![t] = [pc |-> "lookup", op |-> "recv", peer |-> 0,
                                          packet |-> p, result |-> "ok"]]
    /\ UNCHANGED <<sessions, channels, wire>>

PeersOf(n, header) == {e[2] : e \in {x \in channels[n] : x[1] = header}}

\* No such channel: the lock is dropped and the packet refused.
UnknownChannel(t) ==
    /\ Is(t, "lookup") /\ ChannelsFree(Home[t])
    /\ PeersOf(Home[t], task[t].packet.header) = {}
    /\ Return(t, "refused")
    /\ UNCHANGED <<sessions, channels, wire>>

\* The channel is known: its lock is kept while the session is fetched.
KnownChannel(t) ==
    /\ Is(t, "lookup") /\ ChannelsFree(Home[t])
    /\ \E p \in PeersOf(Home[t], task[t].packet.header) :
          task' = [task EXCEPT ![t].pc = "fetch", ![t].peer = p]
    /\ UNCHANGED <<sessions, channels, wire>>

\* The session is fetched under both locks; the packet must open under its
\* secret.
FetchSession(t) ==
    LET n == Home[t]
        peer == task[t].peer
        p == task[t].packet
    IN
    /\ Is(t, "fetch") /\ SessionsFree(n)
    /\ IF peer \in sessions[n] /\ p.intact /\ p.header = ChannelId(n, peer)
       THEN Return(t, "ok") ELSE Return(t, "refused")
    /\ UNCHANGED <<sessions, channels, wire>>

AdnlNext == \E t \in Tasks :
    \/ \E op \in {"connect", "send"}, peer \in Nodes : CallConnect(t, op, peer)
    \/ FindSession(t) \/ CreateSession(t) \/ InsertChannel(t) \/ Transmit(t)
    \/ \E p \in Arriving(Home[t]) : Recv(t, p)
    \/ UnknownChannel(t) \/ KnownChannel(t) \/ FetchSession(t)

AdnlSpec == AdnlInit /\ [][AdnlNext]_adnlVars

-----------------------------------------------------------------------------
Pcs     == {"idle", "connect", "insert", "transmit", "lookup", "fetch"}
Results == {"ok", "refused"}

AdnlTypeOK ==
    /\ sessions \in [Nodes -> SUBSET Nodes]
    /\ channels \in [Nodes -> SUBSET (Channels \X Nodes)]
    /\ task \in [Tasks -> [pc : Pcs, op : {"none", "connect", "send", "recv"},
                           peer : Nodes \cup {0}, packet : Packets \cup {NoPacket},
                           result : Results]]
    /\ wire \subseteq Packets

(* A channel recv_datagram finds always has its session: connect_peer enters
   the session first and keeps other tasks from seeing the step between. *)
ChannelsHaveSessions ==
    \A n \in Nodes : \A e \in channels[n] : e[2] \in sessions[n] /\ e[1] = ChannelId(n, e[2])

\* Two tasks of a node wait for the lock the other one holds.
WaitCycle(n) ==
    /\ \E t \in Tasks : Home[t] = n /\ Is(t, "insert")
    /\ \E t \in Tasks : Home[t] = n /\ Is(t, "fetch")

Registered(n) == {e[2] : e \in channels[n]}

(* connect_peer "establishes or returns an active channel" (its comment): no
   task is left holding one of the two locks of a node and waiting for the
   other, held by a task that waits for the first.  connect_peer and
   recv_datagram take the locks in opposite orders. *)
NoWaitCycle == \A n \in Nodes : ~WaitCycle(n)

(* Two nodes that have a session with each other understand each other: an
   intact packet sent on the channel of one is never refused by the other once
   that has the channel registered. *)
PeersAgreeOnChannel ==
    [][\A t \in Tasks :
          (task[t].pc \in {"lookup", "fetch"} /\ task'[t].result = "refused")
          => LET p == task[t].packet IN
             \/ ~p.intact
             \/ p.from \notin Registered(Home[t])
             \/ p.header # ChannelId(p.from, Home[t])]_adnlVars
=============================================================================
