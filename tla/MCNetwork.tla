------------------------------ MODULE MCNetwork ------------------------------
(***************************************************************************)
(* The network stack for TLC: an RLDP transfer, the tasks of an ADNL node  *)
(* and DHT clients.  The three share no state, so their interleavings with *)
(* each other add nothing: a behaviour is one of one of them.              *)
(***************************************************************************)
EXTENDS Rldp, AdnlTransport, Dht

CONSTANT Parts  \* the components an instance looks at

VARIABLE focus  \* the component this behaviour is about

netVars == <<focus, rldpVars, adnlVars, dhtVars>>

\* Tasks a and b share node 1, task c runs on node 2, node 3 is only a peer.
MCHome == [t \in Tasks |-> IF t = "c" THEN 2 ELSE 1]

\* Ids and keys of three bits.  Node 100 knows everybody, the others know it.
MCBits(b0, b1, b2) == [i \in 0 .. 2 |-> IF i = 0 THEN b0 ELSE IF i = 1 THEN b1 ELSE b2]
MCHub == MCBits(1, 0, 0)
MCClients == {MCBits(0, 0, 0), MCBits(1, 0, 1)}
MCFaulty == {MCBits(1, 1, 0)}
MCForged == {MCBits(0, 1, 1)}  \* nobody's id
MCIds == MCClients \cup MCFaulty \cup {MCHub}
MCKeys == {MCBits(0, 0, 1), MCBits(1, 0, 1)}
MCBootstrap == [n \in Ids |-> IF n = MCHub
                               THEN <<MCBits(0, 0, 0), MCBits(1, 0, 1), MCBits(1, 1, 0)>>
                               ELSE <<MCHub>>]

\* One that never expires here, one not signed by its owner, and one of another
\* key that does expire.
MCRecords ==
    {[key |-> MCBits(1, 0, 1), expiry |-> 2, genuine |-> TRUE],
     [key |-> MCBits(1, 0, 1), expiry |-> 2, genuine |-> FALSE],
     [key |-> MCBits(0, 0, 1), expiry |-> 1, genuine |-> TRUE]}

NetInit ==
    /\ focus \in Parts
    /\ RldpInit /\ AdnlInit /\ DhtInit
    /\ focus # "rldp" => driver = "adnl" /\ session

NetNext ==
    \/ focus = "rldp" /\ RldpNext /\ UNCHANGED <<focus, adnlVars, dhtVars>>
    \/ focus = "adnl" /\ AdnlNext /\ UNCHANGED <<focus, rldpVars, dhtVars>>
    \/ focus = "dht" /\ DhtNext /\ UNCHANGED <<focus, rldpVars, adnlVars>>

\* send_rldp waits at most its timeout for each datagram, and the link delivers
\* finitely many.  Transport calls end, with an answer or an error, so as long as
\* an operation is under way some operation moves.
SenderStep == SendRound \/ WaitEnds \/ RoundsExhausted
NetFairness ==
    /\ WF_netVars(focus = "rldp" /\ SenderStep /\ UNCHANGED <<focus, adnlVars, dhtVars>>)
    /\ []<>(\A n \in Clients : op[n].kind = "idle") \/ []<><<op' # op>>_netVars

NetSpec == NetInit /\ [][NetNext]_netVars /\ NetFairness

-----------------------------------------------------------------------------
NetTypeOK == RldpTypeOK /\ AdnlTypeOK /\ DhtTypeOK

(* send_rldp always returns - success, timeout or error - whatever is lost. *)
SenderReturns ==
    (focus = "rldp") ~> (focus = "rldp" /\ sender.status \in {"ok", "timeout", "error"})
=============================================================================
