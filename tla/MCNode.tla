------------------------------- MODULE MCNode -------------------------------
(***************************************************************************)
(* The parts of a node around its ledger, for TLC: the network stack, the  *)
(* commit journal and the cell counts of its storage, and a payment        *)
(* channel.  They share no state, so their interleavings with each other   *)
(* add nothing: a behaviour is one of one of them.                         *)
(***************************************************************************)
EXTENDS MCNetwork, MCCommitJournal, MCCellStore, PaymentChannel

ASSUME NodePartsAssumption ==
    Parts \subseteq {"rldp", "adnl", "dht", "journal", "cells", "channel"}

storageVars == <<journalVars, cellVars>>
nodeVars    == <<netVars, storageVars, channelVars>>

NodeInit == NetInit /\ JournalInit /\ CellInit /\ ChannelInit

NodeNext ==
    \/ NetNext /\ UNCHANGED <<storageVars, channelVars>>
    \/ focus = "journal" /\ JournalNext /\ UNCHANGED <<netVars, cellVars, channelVars>>
    \/ focus = "cells" /\ CellNext /\ UNCHANGED <<netVars, journalVars, channelVars>>
    \/ focus = "channel" /\ ChannelNext /\ UNCHANGED <<netVars, storageVars>>

\* That of NetSpec, and a restarted node runs open() to its end.
NodeFairness ==
    /\ NetFairness
    /\ WF_nodeVars(focus = "journal" /\ RecoveryStep /\ UNCHANGED <<netVars, cellVars, channelVars>>)

NodeSpec == NodeInit /\ [][NodeNext]_nodeVars /\ NodeFairness

-----------------------------------------------------------------------------
(* A node that crashed comes back, however often recover() is cut short:
   RecoveryCompletes, in the behaviours that are about the journal. *)
NodeRecovers == focus = "journal" => RecoveryCompletes
=============================================================================
