--------------------------- MODULE AccountLifecycle ---------------------------
(***************************************************************************)
(* An account (account.rs): its four lifecycle states, the transitions     *)
(* validate_transition_with_delta accepts, and its stored record.          *)
(*                                                                         *)
(* Code, data, storage statistics and the hash of a frozen account's       *)
(* storage are one field, "body".  A record is the sequence of its fields, *)
(* each of a fixed width; a read may see any number of whole fields.       *)
(***************************************************************************)
EXTENDS Integers, Sequences, Sums

CONSTANTS
    MaxBalance,  \* u128::MAX, scaled
    MaxLt,       \* bound: logical times
    Bodies       \* what code, data and storage hash to

ASSUME AccountAssumption == MaxBalance \in Nat /\ MaxLt \in Nat

VARIABLES
    account,     \* the account as the ledger holds it
    record,      \* its stored record
    applied,     \* transitions accepted since Init: [lt, delta, type]
    loaded       \* what the last read of the record gave

accountVars == <<account, record, applied, loaded>>

Balances == 0..MaxBalance
Times    == 0..MaxLt

Uninitialized == [type |-> "Uninitialized"]
Destroyed     == [type |-> "Destroyed"]
HeldAccounts  == [type : {"Active", "Frozen"}, balance : Balances, lt : Times, body : Bodies]
Accounts      == {Uninitialized, Destroyed} \cup HeldAccounts

IsHeld(a) == a.type \in {"Active", "Frozen"}

balance_nanos(a) == IF IsHeld(a) THEN a.balance ELSE 0

-----------------------------------------------------------------------------
(* The stored record. *)

Tag == [Uninitialized |-> 0, Active |-> 1, Frozen |-> 2, Destroyed |-> 3]

ToBytes(a) ==
    IF IsHeld(a) THEN <<Tag[a.type], a.balance, a.lt, a.body>> ELSE <<Tag[a.type]>>

Unreadable == [type |-> "Unreadable"]

\* Whatever follows a record is left to the caller.
FromBytes(bytes) ==
    IF bytes = <<>> THEN Unreadable
    ELSE CASE bytes[1] = 0 -> Uninitialized
           [] bytes[1] = 3 -> Destroyed
           [] bytes[1] \in {1, 2} /\ Len(bytes) >= 4 ->
                [type |-> IF bytes[1] = 1 THEN "Active" ELSE "Frozen",
                 balance |-> bytes[2], lt |-> bytes[3], body |-> bytes[4]]
           [] OTHER -> Unreadable

-----------------------------------------------------------------------------
(* Transitions. *)

\* (Slip: thawing compares the new logical time with itself only.)
LtFollowsOnThaw(a, next, lt) == (a.type = "Active" => a.lt < lt) /\ next.lt = lt

LtFollows(a, next, lt) == a.lt < lt /\ next.lt = lt

\* validate_transition: an initialization may carry any logical time, a
\* destruction carries none.
TransitionValid(a, next, lt) ==
    \/ a.type = "Uninitialized" /\ next.type = "Active" /\ next.lt = lt
    \/ a.type = "Uninitialized" /\ next.type = "Uninitialized"
    \/ IsHeld(a) /\ IsHeld(next) /\ LtFollows(a, next, lt)
    \/ IsHeld(a) /\ next.type = "Destroyed"

\* saturating_add on a credit, an error on an overdraft.
Underflows(a, delta) == delta < 0 /\ -delta > balance_nanos(a)

NextBalance(a, delta) ==
    IF balance_nanos(a) + delta > MaxBalance THEN MaxBalance ELSE balance_nanos(a) + delta

\* validate_transition_with_delta
TransitionWithDeltaValid(a, next, lt, delta) ==
    /\ TransitionValid(a, next, lt)
    /\ ~Underflows(a, delta)
    /\ IsHeld(next) => next.balance = NextBalance(a, delta)

Deltas == (-MaxBalance)..MaxBalance

-----------------------------------------------------------------------------
AccountInit ==
    /\ account = Uninitialized /\ record = ToBytes(Uninitialized)
    /\ applied = <<>> /\ loaded = Uninitialized

\* A transaction proposes the account's next state.
Transact(next, lt, delta) ==
    /\ TransitionWithDeltaValid(account, next, lt, delta)
    /\ account' = next
    /\ applied' = IF next = account THEN applied
                  ELSE Append(applied, [lt |-> lt, delta |-> delta, type |-> next.type])
    /\ UNCHANGED <<record, loaded>>

Save ==
    /\ record' = ToBytes(account)
    /\ UNCHANGED <<account, applied, loaded>>

\* The first n fields of the record are read, followed by another record.
Load(n) ==
    /\ loaded' = FromBytes(SubSeq(record, 1, n))
    /\ UNCHANGED <<account, record, applied>>

AccountNext ==
    \/ \E next \in Accounts, lt \in Times, delta \in Deltas : Transact(next, lt, delta)
    \/ Save
    \/ \E n \in 0..Len(record) : Load(n)

AccountSpec == AccountInit /\ [][AccountNext]_accountVars

-----------------------------------------------------------------------------
AccountTypeOK ==
    /\ account \in Accounts
    /\ record \in {ToBytes(a) : a \in Accounts}
    /\ applied \in Seq([lt : Times, delta : Deltas, type : {"Active", "Frozen", "Destroyed"}])
    /\ loaded \in Accounts \cup {Unreadable}

\* The sum of the deltas of a history.
Credited(history) == SumTo([i \in 1..Len(history) |-> history[i].delta], Len(history))

(* The history of an account, freezes and thaws included: logical time      *)
(* grows with every transition up to a destruction, nothing follows a       *)
(* destruction, the balance never exceeds what was credited, and a record   *)
(* read in full is one the account once had while a cut one is refused.     *)
AccountHistorySound ==
    /\ \A i, j \in DOMAIN applied : i < j =>
           /\ applied[i].type # "Destroyed"
           /\ applied[j].type # "Destroyed" => applied[i].lt < applied[j].lt
    /\ IsHeld(account) => account.balance <= Credited(applied)
    /\ IsHeld(loaded) =>
           \E i \in DOMAIN applied : applied[i].lt = loaded.lt /\ applied[i].type = loaded.type
=============================================================================
