------------------------------- MODULE MCLedger -------------------------------
(***************************************************************************)
(* The ledger's rules for TLC: message delivery, block synchronisation,    *)
(* accounts, staking, shard transitions, routing and contract execution.   *)
(* They share no state under src/, so a behaviour is one of one of them.   *)
(***************************************************************************)
EXTENDS MessageDelivery, BlockSync, AccountLifecycle, Staking, ShardPipeline, Router, Interpreter

CONSTANT Parts  \* the components an instance looks at
ASSUME LedgerPartsAssumption ==
    Parts \subseteq {"delivery", "sync", "account", "staking", "shards", "router", "vm"}

VARIABLE focus  \* the component this behaviour is about

ledgerVars ==
    <<focus, deliveryVars, index, accountVars, stakingVars, shardVars, routerVars, vmVars>>

-----------------------------------------------------------------------------
(* Messages: two of a lane in order, two of a lane with one created_lt, a   *)
(* tie between lanes, unsorted currencies, both external kinds.             *)

Msg(kind, lane, lt, amount, currencies) ==
    [kind |-> kind, lane |-> lane, lt |-> lt, amount |-> amount, currencies |-> currencies]

MCMessages ==
    {Msg("Internal", 1, 1, 1, <<>>), Msg("Internal", 1, 2, 0, <<1, 2>>), Msg("Internal", 1, 2, 1, <<>>),
     Msg("Internal", 2, 2, 1, <<>>), Msg("Internal", 2, 2, 1, <<2, 1>>),
     Msg("ExternalInbound", 3, 1, 0, <<>>), Msg("ExternalInbound", 3, 1, 1, <<>>),
     Msg("ExternalOutbound", 4, 1, 1, <<>>)}

-----------------------------------------------------------------------------
(* Blocks: a masterchain of three, two shards, a block and its rival, a     *)
(* split commit with a successor in its shard and one in a child, a merge   *)
(* with the right and with a wrong sequence number, and shard               *)
(* configurations for and against them.                                     *)

Hd(shard, seq, prev, master) ==
    [shard |-> shard, seq |-> seq, prev |-> prev, prev2 |-> ZERO, master |-> master,
     start |-> seq, end |-> seq, utime |-> seq,
     flags |-> [announced |-> {}, mergeResult |-> FALSE, reserved |-> FALSE]]

Merged(h, prev2) == [h EXCEPT !.prev2 = prev2, !.flags.mergeResult = TRUE]

MCHeader ==
    [h \in {"zero", "m0", "m1", "m2", "a0", "b0", "a1", "a1x", "b1", "ab", "abx", "b2", "bc"} |->
        CASE h \in {"zero", "m0"} -> Hd(9, 0, ZERO, ZERO)
          [] h = "m1"  -> Hd(9, 1, "m0", ZERO)
          [] h = "m2"  -> Hd(9, 2, "m1", ZERO)
          [] h = "a0"  -> Hd(1, 0, ZERO, ZERO)
          [] h = "b0"  -> Hd(2, 0, ZERO, ZERO)
          [] h = "a1"  -> Hd(1, 1, "a0", "m0")
          [] h = "a1x" -> Hd(1, 1, "a0", "m1")
          [] h = "b1"  -> [Hd(2, 1, "b0", "m0") EXCEPT !.flags.announced = {"SPLIT_COMMIT"}]
          [] h = "b2"  -> Hd(2, 2, "b1", "m1")
          [] h = "bc"  -> Hd(3, 2, "b1", "m1")
          [] h = "ab"  -> Merged(Hd(0, 2, "b0", "m1"), "a1")
          [] h = "abx" -> Merged(Hd(0, 1, "b0", "m0"), "a1")]

Names(hs) ==
    {[i \in DOMAIN hs |-> [shard |-> MCHeader[hs[i]].shard, hash |-> hs[i], seq |-> MCHeader[hs[i]].seq]]}

Cand(h, extra, proof) == [hash |-> h, extra |-> extra, proof |-> proof, rootsMatch |-> TRUE]

MCAnchors == {Cand("m0", Names(<<>>), NoProof), Cand("a0", {}, ZERO), Cand("b0", {}, ZERO)}

MCCandidates ==
    {Cand("m1", Names(<<"a1", "b1">>), NoProof), Cand("m1", Names(<<"a1", "a1x", "b1">>), NoProof),
     Cand("m1", Names(<<"a1x">>), NoProof), Cand("m2", Names(<<"ab", "b2", "bc">>), NoProof),
     Cand("m2", Names(<<"abx", "a1">>), NoProof),
     Cand("a1", {}, "m1"), Cand("a1", {}, "m2"), Cand("a1x", {}, "m1"), Cand("b1", {}, "m1"),
     Cand("ab", {}, "m2"), Cand("abx", {}, "m2"), Cand("b2", {}, "m2"), Cand("bc", {}, "m2"),
     [Cand("a1", {}, "m1") EXCEPT !.rootsMatch = FALSE]}

-----------------------------------------------------------------------------
(* Stake: a cap past U64, ties, load factors at and outside their range.    *)

Offer(key, stake, factor) == [key |-> key, stake |-> stake, factor |-> factor]

MCOffers ==
    {Offer(1, 250, 1000), Offer(1, 100, 100), Offer(2, 20, 1000), Offer(2, 30, 1000),
     Offer(2, 250, 150), Offer(3, 100, 250), Offer(3, 0, 100), Offer(3, 30, 90)}

(* Shards: two to begin with, an account and messages for both halves.      *)

MCGenesis == {<<0>>, <<1>>}
MCOwners  == {<<1, 1>>}
MCPending == {[id |-> 1, dest |-> <<0, 1>>, lt |-> 2], [id |-> 2, dest |-> <<1, 0>>, lt |-> 1]}

-----------------------------------------------------------------------------
(* Programs. *)

Ins(op, a, b) == [op |-> op, a |-> a, b |-> b]
Op(op)        == Ins(op, 0, 0)
Ref(op)       == Ins(op, "sub", 0)
PushInt(n)    == Ins("PUSHINT", n, 0)
PushBytes(n)  == Ins("PUSHBYTES", n, 0)

Prog(main, sub, handler, limit) ==
    [code |-> [main |-> main, sub |-> sub], handler |-> handler, limit |-> limit]

\* Operands for an instruction to find: none, too few, of each kind, at the limits.
Operands ==
    {<<>>, <<PushInt(0)>>, <<PushInt(-4), PushInt(-1)>>, <<PushInt(3), PushInt(1)>>,
     <<PushInt(2), PushInt(0)>>, <<PushInt(4), PushInt(1), PushInt(2)>>,
     <<PushBytes(2), PushInt(0), PushInt(1)>>, <<PushBytes(1), PushInt(-1), PushInt(3)>>,
     <<PushBytes(1), PushBytes(2), PushInt(4)>>, <<PushBytes(1), PushBytes(1)>>,
     <<Op("NEWC")>>, <<Op("NEWC"), PushInt(4)>>, <<Op("NEWC"), PushBytes(1)>>,
     <<Op("NEWC"), Op("NEWC"), Op("ENDC")>>, <<Op("NEWC"), Op("ENDC"), Op("CTOS")>>}

Instructions ==
    {Op(o) : o \in {"NOP", "DROP", "DUP", "SWAP", "OVER", "ROT", "NIP", "TUCK"}
                   \cup (DOMAIN Typed \ {"DIV", "SHL", "SHR"}) \cup PayLateOps}
    \cup {Ins(o, a, 0) : o \in {"PICK", "ROLL"}, a \in 0..2}
    \cup {Ins("BLKSWAP", a, b) : a \in 0..2, b \in 0..1}
    \cup {Ins(o, width, flavour) : o \in {"DIV", "SHL", "SHR"}, width \in {1, IntBits}, flavour \in 0..2}

\* Calls, nested and conditional, jumps, loops, branches out of the code, exceptions.
Mains ==
    {<<Ref("CALLREF"), Op("RET")>>, <<Ref("CALLREF"), Ref("CALLREF"), Op("NOP")>>,
     <<PushInt(0), Ref("CALLREF"), Op("NOP")>>,
     <<PushInt(1), PushInt(0), Ref("IFNOTCALLREF"), Ref("IFCALLREF"), PushInt(0), Ref("IFJMPREF"),
       PushInt(1), Ref("IFNOTJMPREF"), Ref("JMPREF")>>,
     <<PushInt(4), Ins("IFELSE", 0, 1), PushInt(1), PushInt(0), Ins("UNTIL", -2, 0),
       Ins("REPEAT", 0, -1), Ins("REPEAT", 1, -2)>>,
     <<Ins("IFELSE", -2, 9), PushInt(0)>>, <<PushInt(1), Ins("IFELSE", -3, 9)>>,
     <<Ins("CALLREF", "none", 0)>>, <<Ins("THROW", "AbsentNode", 0)>>,
     <<Ref("CALLREF"), Ins("BAD", 1, 0)>>, <<Ref("CALLREF"), Ins("BAD", 0, 0)>>}

Subs ==
    {<<>>, <<Op("RET")>>, <<Op("IFRET"), Op("RET")>>, <<PushInt(0), Op("IFRET")>>,
     <<PushInt(1), Ref("CALLREF"), Op("RET")>>,
     <<Op("IFRET"), PushInt(1), Ref("CALLREF"), Op("RET")>>}

Handlers ==
    {<<Op("DROP"), Op("RET")>>, <<Op("CONCAT")>>, <<Op("DUP"), Ins("THROW", "TypeMismatch", 0)>>}

Straight ==
    {Prog(o \o <<i>>, <<Op("RET")>>, {}, limit) : o \in Operands, i \in Instructions, limit \in {25, 5000}}
Flows  == {Prog(m, s, {}, 30) : m \in Mains, s \in Subs}
Caught == {Prog(m, h, {[code |-> "sub", pc |-> 0]}, 13) : m \in Mains, h \in Subs \cup Handlers}

MCPrograms == Straight \cup Flows \cup Caught

-----------------------------------------------------------------------------
LedgerInit ==
    /\ focus \in Parts
    /\ DeliveryInit /\ SyncInit /\ AccountInit /\ StakingInit /\ ShardInit
    /\ focus # "router" => request = CHOOSE r \in Requests : TRUE
    /\ focus # "vm" => program = CHOOSE p \in Programs : TRUE
    /\ RouterInit /\ VmInit

LedgerNext ==
    \/ /\ focus = "delivery" /\ DeliveryNext
       /\ UNCHANGED <<focus, index, accountVars, stakingVars, shardVars, routerVars, vmVars>>
    \/ /\ focus = "sync" /\ SyncNext
       /\ UNCHANGED <<focus, deliveryVars, accountVars, stakingVars, shardVars, routerVars, vmVars>>
    \/ /\ focus = "account" /\ AccountNext
       /\ UNCHANGED <<focus, deliveryVars, index, stakingVars, shardVars, routerVars, vmVars>>
    \/ /\ focus = "staking" /\ StakingNext
       /\ UNCHANGED <<focus, deliveryVars, index, accountVars, shardVars, routerVars, vmVars>>
    \/ /\ focus = "shards" /\ ShardNext
       /\ UNCHANGED <<focus, deliveryVars, index, accountVars, stakingVars, routerVars, vmVars>>
    \/ /\ focus = "router" /\ RouterNext
       /\ UNCHANGED <<focus, deliveryVars, index, accountVars, stakingVars, shardVars, vmVars>>
    \/ /\ focus = "vm" /\ VmNext
       /\ UNCHANGED <<focus, deliveryVars, index, accountVars, stakingVars, shardVars, routerVars>>

\* run loops until step says it is done.
VmFairness ==
    WF_ledgerVars(/\ focus = "vm" /\ VmNext
                  /\ UNCHANGED <<focus, deliveryVars, index, accountVars, stakingVars, shardVars, routerVars>>)

LedgerSpec == LedgerInit /\ [][LedgerNext]_ledgerVars /\ VmFairness

-----------------------------------------------------------------------------
LedgerTypeOK ==
    CASE focus = "delivery" -> DeliveryTypeOK
      [] focus = "sync"     -> SyncTypeOK
      [] focus = "account"  -> AccountTypeOK
      [] focus = "staking"  -> StakingTypeOK
      [] focus = "shards"   -> ShardTypeOK
      [] focus = "router"   -> RouterTypeOK
      [] focus = "vm"       -> VmTypeOK

(* RunStopsOrSpins, of the machines that run. *)
ExecutionEndsOrSpins == focus = "vm" => RunStopsOrSpins
=============================================================================
