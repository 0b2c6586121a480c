-------------------------------- MODULE Router --------------------------------
(***************************************************************************)
(* Slow-path hypercube routing (router.rs): the canonical route of an      *)
(* internal message between two shards, its fee, and the check a block     *)
(* makes of a route that somebody else supplies.  A shard is its           *)
(* workchain and the sequence of its prefix bits.                          *)
(***************************************************************************)
EXTENDS Integers, Sequences, FiniteSets

CONSTANTS
    MaxRoutePrefix,  \* the longest prefix tried
    Amounts,         \* values a message may carry
    HopFees,         \* fees per hop
    MaxFee           \* u128::MAX, scaled

RouteShards == [workchain : {0, 1}, prefix : UNION {[1..n -> {0, 1}] : n \in 0..MaxRoutePrefix}]

ASSUME RouterAssumption == MaxRoutePrefix \in Nat /\ MaxFee \in Nat /\ Amounts \subseteq Nat /\ HopFees \subseteq Nat

VARIABLES
    request,  \* the message to route: [type, source, destination, amount, fee, inShards]
    plan      \* the answer: hops, transit fee and remaining value, or a refusal

routerVars == <<request, plan>>

Refused == [hops |-> <<>>, fee |-> 0, remaining |-> 0, ok |-> FALSE]

-----------------------------------------------------------------------------
Differing(s, t) == {i \in DOMAIN s.prefix : s.prefix[i] # t.prefix[i]}

\* (Slip: bits are changed from the least significant one.)
AfterFlipsBackwards(s, t, n) ==
    LET d == Differing(s, t)
    IN [s EXCEPT !.prefix = [i \in DOMAIN @ |-> IF i \in d /\ Cardinality({j \in d : j >= i}) <= n THEN t.prefix[i] ELSE @[i]]]

\* Where the message is once the n most significant differing bits are changed.
AfterFlips(s, t, n) ==
    LET d == Differing(s, t)
    IN [s EXCEPT !.prefix = [i \in DOMAIN @ |-> IF i \in d /\ Cardinality({j \in d : j <= i}) <= n THEN t.prefix[i] ELSE @[i]]]

Hops(s, t) ==
    [n \in 1..Cardinality(Differing(s, t)) |->
        [from |-> AfterFlips(s, t, n - 1), to |-> AfterFlips(s, t, n)]]

\* plan_hypercube_route: checked_mul, then checked_sub.
plan_hypercube_route(r) ==
    LET fee == r.fee * Len(Hops(r.source, r.destination))
    IN IF /\ r.type = "Internal" /\ r.inShards
          /\ r.source.workchain = r.destination.workchain
          /\ Len(r.source.prefix) = Len(r.destination.prefix)
          /\ fee <= MaxFee /\ fee <= r.amount
       THEN [hops |-> Hops(r.source, r.destination), fee |-> fee, remaining |-> r.amount - fee, ok |-> TRUE]
       ELSE Refused

are_neighbors(s, t) ==
    /\ s.workchain = t.workchain /\ Len(s.prefix) = Len(t.prefix)
    /\ Cardinality(Differing(s, t)) = 1

\* validate_hypercube_route
RouteValid(hops, s, t) ==
    /\ \A i \in DOMAIN hops : are_neighbors(hops[i].from, hops[i].to)
    /\ \A i \in DOMAIN hops : hops[i].from = IF i = 1 THEN s ELSE hops[i - 1].to
    /\ t = IF hops = <<>> THEN s ELSE hops[Len(hops)].to

-----------------------------------------------------------------------------
Requests == [type : {"Internal", "ExternalInbound"}, source : RouteShards, destination : RouteShards,
             amount : Amounts, fee : HopFees, inShards : BOOLEAN]

RouterInit == request \in Requests /\ plan = Refused

Route == plan' = plan_hypercube_route(request) /\ UNCHANGED request

RouterNext == Route

RouterSpec == RouterInit /\ [][RouterNext]_routerVars

-----------------------------------------------------------------------------
RouterTypeOK == request \in Requests /\ plan.ok \in BOOLEAN /\ plan.fee \in 0..MaxFee

(* A planned route passes the check of supplied routes, has one hop for     *)
(* each differing bit, changes them from the most significant down, so it   *)
(* never returns to a shard, and its fee and the remaining value make up    *)
(* the amount; the check accepts no direct step in the place of several.    *)
RouteIsCanonical ==
    plan.ok =>
        /\ RouteValid(plan.hops, request.source, request.destination)
        /\ Len(plan.hops) = Cardinality(Differing(request.source, request.destination))
        /\ \A i, j \in DOMAIN plan.hops : i < j =>
               \A a \in Differing(plan.hops[i].from, plan.hops[i].to),
                  b \in Differing(plan.hops[j].from, plan.hops[j].to) : a < b
        /\ plan.fee + plan.remaining = request.amount
        /\ Len(plan.hops) > 1 =>
               ~RouteValid(<<[from |-> request.source, to |-> request.destination]>>, request.source, request.destination)
=============================================================================
