# A TLA+ verification project for Open Network X

Open Network X is a blockchain node and protocol library in Rust: a masterchain
with dynamically split and merged shardchains, a BFT consensus per shard, a
bag-of-cells state, message routing between shards, payment channels, and a
network stack of its own (ADNL, RLDP, DHT). This directory models the parts of
it that carry state through several steps, several actors, or a crash, checks
them with TLC on small instances and proves every safety property that TLC
checks with TLAPS, for every value of the constants. Eight further runs show where
the code departs from a sentence of its documentation or comments.

Paths below are relative to the repository; `P/` is `crates/protocol/` and
`N/` is `crates/node/`.

## 1. Inventory

| Component | State it keeps | Operations | What makes it correct |
|---|---|---|---|
| Consensus engine, `P/onx-consensus/src/engine.rs` | round, step, proposal, votes by phase, finalized block, start of the round | `receive_proposal`, `receive_vote`, `on_timeout` | engines of one height never finalize different blocks; a finalized block has its three quorums; somebody finalizes |
| Commit journal, `P/onx-state-model/src/storage.rs` | files of four column families, `.tmp` files, `.commit-journal` | `open`, `commit`, `recover`; readers | a batch is all-or-nothing, whatever it was cut short by |
| Reference-counted cells, `storage.rs` | a count in every cell record, a root per shard | `put_cell`, `put_boc`, `retain_cell_root`, `release_cell_root`, `commit_block` | no cell in use is removed, letting go never fails, nothing unused stays |
| Payment channels, `P/onx-payment-channels/src` | arbiter (latest state, challenge start, settled), daemon's map, watcher's clone | exchange, cooperative settlement, dispute, finalize, `run_flow`, watcher | pay-outs are signed and covered, newest state wins, windows are honoured |
| State model, `P/onx-state-model/src/{account,cell,boc,tree}.rs` | account status and logical time; cells | `validate_transition`, encodings, proofs | destroyed accounts stay destroyed, logical time grows |
| Election and stake, `P/onx-consensus/src/{election,lib}.rs` | none (pure) | `run_election`, `calculate_actual_stake`, `calculate_late_reward` | locked and refunded stake add up to what was proposed; caps hold |
| Messages, `P/onx-transactions/src` | lanes per sender and receiver, processed hashes | `enqueue`, `pop_next`, `admit`, `prune`, routing | per-pair order, no message delivered twice, routes end |
| Blocks and synchronisation, `P/onx-blocks/src` | index of known blocks | `insert_trusted`, `import_batch`, `import_reverse_batch`, successor rules | a batch enters whole or not at all, the index stays connected |
| Sharding pipeline, `P/onx-sharding/src` | shard layout, prepare marks | split and merge triggers, prepare, commit | shards partition the account space, commits follow a prepare |
| RLDP, `N/onx-networking/src/rldp.rs` | sender's window, receiver's chunks | send rounds, ACK, reassembly | a reported success is a delivery, the sender always returns, no symbol is left behind |
| ADNL transport, `N/onx-networking/src/adnl_transport.rs` | sessions, channel table behind two locks | `connect_peer`, `send_datagram`, `recv_datagram` | the two locks do not block each other, both ends agree on the channel |
| DHT, `N/onx-networking/src/dht_daemon.rs` | k-buckets, records | lookups, `store`, `handle_rpc`, expiry | lookups end, no expired or forged record is returned |
| Execution, `P/onx-execution/src` | stack, gas, control registers | `step`, `run` | execution ends, gas bounds it |
| Economics, `P/onx-economics/src` | none (pure) | fees, emission, slashing | sums are conserved |
| Node daemon, `N/onxd/src/lib.rs` | engine, storage, sockets | start, 10 ms loop, stop | `on_timeout` keeps being called |
| Encodings and signatures, `P/onx-data-structures`, `P/onx-primitives` | none | codecs, hashes, Ed25519 | round trips |
| System contracts, RPC, telemetry, CLI, genesis | request-level only | | |

**How they interact.** `onxd` opens `StateStorage` (which recovers the journal),
builds one `ConsensusEngine` and calls its `on_timeout` every 10 ms. Proposals
and votes reach an engine over a multicast the engine knows nothing about; a
finalized block would be imported through `onx-blocks` and committed by
`commit_block`. `commit_block` builds a batch from the cell counts and hands it
to `commit`, which journals and applies it: the cell model therefore relies on
the journal model for the atomicity of each of its actions. A payment channel's
daemon owns its arbiter and mirrors its latest state; the watcher owns a clone of
both. `RldpSender` and `RldpReceiver` run over `send_datagram` and `recv_datagram`
of an ADNL node, which several tasks may share; the DHT daemon has a transport of
its own. Nothing in the repository yet moves messages between shards, imports
finalized blocks or runs contracts on behalf of a node: those crates are used by
their tests, and the models of their callers follow the types' own comments.

**What is hard.** Vote and proposal order under a network that loses, duplicates
and reorders; equivocating leaders; view changes racing late votes; crashes
between any two file-system calls, during recovery too; counts on shared
subtrees; old signed states sent again; a timeout that races an ACK; two locks
taken in both orders; records that expire while somebody asks for them; stale
references to another shard's queue; splits, merges, caps and shares at their
boundaries; exceptions raised inside exception handlers. `PROJECT.json` lists each hazard at its line, with the
property that watches it or the reason there is none.

## 2. Modules

| Module | Models | Kind |
|---|---|---|
| `RoundFinality` | what the engines of one height promise together | abstract specification |
| `ConsensusEngine` | `engine.rs`: one engine per honest validator, Byzantine validators, unreliable multicast, clock | component |
| `MCConsensus` | stakes and timeouts for TLC | instance |
| `ConsensusEngine_proofs` | | proofs |
| `WriteBatch` | a `Batch` as the journal's lines and what applying them leaves | operators |
| `AtomicStore` | "all-or-nothing across the column families" | abstract specification |
| `CommitJournal` | `open`, `commit`, `recover`, call by call, with crashes and I/O errors | component |
| `MCCommitJournal` | two block commitments of one shard | instance |
| `CommitJournal_proofs` | | proofs |
| `CellStore` | counts, shards' roots and clients' roots | component |
| `MCCellStore` | two trees that share a subtree | instance |
| `CellStore_proofs` | | proofs |
| `PaymentChannel` | arbiter, daemon, watcher | component |
| `PaymentChannel_proofs` | | proofs |
| `Rldp` | `rldp.rs`: one transfer, sender and receiver, over an unreliable link | component |
| `AdnlTransport` | `adnl_transport.rs`: sessions, channels and the two locks of a node with several tasks | component |
| `Dht` | `dht_daemon.rs`: routing tables, records, lookups and stores call by call | component |
| `MCNetwork` | the three for TLC | instance |
| `MCNode` | the three, journal, cells and channel, side by side | instance |
| `Network_proofs` | the three and their composition | proofs |
| `Sums` | loops that add up, powers of two | operators |
| `MessageDelivery` | `admission.rs`, `output_queue.rs`, `processed.rs`: one origin, one destination | composition |
| `BlockSync` | `sync.rs` with `validity.rs`, `flags.rs`, `masterchain.rs` | component |
| `AccountLifecycle` | `account.rs`: transitions and the byte form | component |
| `Staking` | `election.rs`, `slashing.rs`, stake cap, rewards, fee split | component |
| `ShardPipeline` | `onx-sharding`: triggers, prepare, commit, split, merge | component |
| `Router` | `router.rs`: canonical hypercube routes | operators |
| `Interpreter` | `onx-execution`: gas, stack, control flow, exceptions | component |
| `MCLedger` | the seven for TLC | instance |
| `DataLemmas` | induction over intervals, recursive functions, sums, places in an order | lemmas |
| `Interpreter_proofs` | | proofs |
| `Ledger_proofs` | the other six and the composition of the seven | proofs |

Definitions marked as slips, next to the definition they deform, are plausible
coding errors. Put in the place of the original they make the named property
fail, which shows that the property depends on that line of the code.

### Consensus

Each handler's early returns are the conjuncts of its action; a message the
handler refuses changes nothing. `receive_vote` is three actions, by what the
counted vote completes: nothing (`ReceiveVote`), the PreVote or PreCommit quorum
(`AdvancePhase`), the Commit quorum (`Finalize`). `OnTimeout` compares the age of
the *round* with the deadline of the *step*, as the code does. `Propose` and
`CastVote` are the callers, taken from `tests/engine_integration.rs`: a leader
signs one proposal per round, a validator signs, for the proposal its engine
holds, every phase its engine has reached.

The network is the set of everything ever signed: a message may be delivered
late, repeatedly, in any order or never. A signature verifies iff its owner made
it; a Byzantine owner has made all of them, so equivocation needs no action.

Stake is counted as a set of units, which turns `vote_stake` into a cardinality
and the quorum test `3 * stake >= 2 * total` into a fact about finite sets that
can be proved. The saturating u64 sum is assumed not to saturate.

### Journal

`commit` writes all lines to `.commit-journal`, syncs it, then runs the same
`recover` that `open` runs after a crash: a `D` line removes a file and ignores
errors, a `P` line writes a `.tmp` file and renames it. Each of these calls is
one action, so a `Crash` may fall between any two, in recovery too. `JournalNext` takes
the journal write to be all-or-nothing; `FaultyNext` adds the torn write and I/O
errors, each with the early return the code takes, one of which is a success: a
journal that cannot be read as text is skipped (`SkipJournal`).

### Cells

One action is one batch. `Raise` counts every cell of a tree once; `Lower`
descends only below a cell whose last reference it takes; `commit_block` raises
the new root before it lowers the old one, both against the puts pending in the
batch, and removals are journalled ahead of puts. A cell is a node of a graph:
`Children` is any function, and `Tree` and `Falling` are the least closed sets,
which needs no recursion.

### Channels

A state is its sequence and two balances. Any state both parties have signed may
be presented at any later time to any entry point: exchange, cooperative
settlement, dispute, `run_flow`. `run_flow` finalizes as of a due time it computes,
so it settles at once. The watcher is a clone taken when it is spawned.
`highest` is a history variable.

### RLDP

The link is the set of all frames ever put on it; it starts with leftovers of an
earlier transfer between the same nodes. `SendRound` is one turn of `next_round`
with its sends, `Inspected` the number of symbols that turn looks at; `SendFails`
and `AckSendFails` are the `?` after `send_datagram`. An ACK crosses the wire only if
the lengths `encode` writes and `decode` asks for agree (`AckDecodes`). Since they do
not, `driver` has two values: `"adnl"` is `send_rldp` and `recv_rldp`, `"direct"` is the
caller of `tests/rldp_lossy.rs`, which hands ACKs over without the codec. Without
the second, everything said about ACKs would hold for want of any. The receiver
calls `recv_rldp` once: a caller that starts another receiver for the frames still
on the link is not modelled.

### ADNL

A task of a node is at a program counter between two lock operations of
`connect_peer`, `send_datagram` or `recv_datagram`. `sessions` is held from the entry
of a session to that of its channel; `SessionsFree` and `ChannelsFree` say when a lock
can be taken. `send_to` may fail, and what it failed to send is not on the link. Encryption is modelled by who can read what: a packet carries the
channel id its sender computed, and the receiver looks that id up.

### DHT

A call is handled at the peer in one step and its answer applied at the caller in
a later one, so time passes and other calls change both nodes in between. Peers
fail, and the faulty ones answer anything, with contacts that are nobody's too
(`Forged`, ids without the key that hashes to them): `add_contact` keeps those out of
the table, but `find_node` still takes them into its list and asks them. An id stands
for one contact; several with the same id and different keys or endpoints, which
the list would keep apart, are one here. The lists of a lookup are sets: the code
sorts them by XOR distance, which determines them. An id is its bits, the most
significant one first; a distance is the bits in which two ids differ, compared
from the front, and `bucket_index` is the first of them.

### Messages, routes

`MessageDelivery` follows one origin and one destination. The destination works
through the origin's queue as the last masterchain reference shows it (`ref`, `view`),
possibly twice (`Reload`); the origin removes what was processed; the destination
prunes what the masterchain shows removed. `prune` itself takes any hash and nothing
under `crates/` calls it: that a caller waits for the removal (`RemovalConfirmed`) is
the obligation in its comment, which `AtMostOnce` rests on. `before` records in which
order messages joined a lane. `Router` computes one plan per request and compares it with the
check that supplied routes have to pass.

### Blocks

`ImportBatch` is the whole of `import_batch`: every candidate is checked against the
index with the earlier candidates of the batch (`Staged`), and the index changes
only if all pass. `BodyFollows` is the successor check up to its last rule, the
parents' commit flags. A hash is a name, `Header` the block behind it.

### Accounts, stake

`Transact` is `validate_transition_with_delta` with its caller, `Save` and `Load` the byte
form, cut short at any field. `Staking` takes candidates through `run_election`, any
number of slashes, rewards for any subset and a fee, with 64-bit sums at a small
width `U64` so that the cast of the cap can overflow. A place in the election is the
number of candidates ahead, and a validator's id its place, so nothing is sorted;
rewards are paid in that order, the remainder one unit each from the front.

### Shards

A shard is its prefix. A block adds a load sample; `Prepare` announces, `Split` and
`Merge` replace shards exactly `PrepareLead` blocks later with at most one rotation in
between, and `Lapse` drops an announcement whose block has gone by. There is one
workchain, so the workchains `common_parent` compares are equal.

### Interpreter

One step of `run`: an instruction with its cost, operands, failures and pushes, the
fall off the end of the code, or an exception with its handler. `Decoded` is what
reading an instruction's immediate operands lets through. Values keep what
control flow and overflow can tell apart: integers of `IntBits` bits, lengths of
byte strings, kinds of the rest.

## 3. Runs

| Run | Instance | Shows |
|---|---|---|
| `consensus_safety` | 3 validators with stakes 2, 3, 2, the leader of round 0 Byzantine, 2 blocks, 2 rounds, 2 clock values | `TypeOK`, `SameRoundAgreement`, `NoHonestEquivocation`, `CountedVotesAreCurrent`, `FinalityHasQuorumChain`, and that the engines implement `RoundFinality` |
| `consensus_liveness` | the same, one block | `SomeEngineFinalizes` |
| `consensus_fork` | stakes 2, 3, 1 | **violated**: `NoForkDivergence` |
| `node` | see below | network: `NetTypeOK`; RLDP: `SuccessMeansDelivered`, `NoSymbolStarves`, `SenderReturns`; ADNL: `ChannelsHaveSessions`, `PeersAgreeOnChannel`; DHT: `NoStaleAnswer`, `RoutingTableSound`, `OperationsEnd`; journal: `JournalTypeOK`, `NoStrayTmp`, `ImplementsAtomicStore`, `NodeRecovers`; cells: `CellTypeOK`, `HeldTreesStored`, `HeldRootsCanBeReleased`; channels: `ChannelTypeOK`, `AllocationIsCovered`, `MirrorFollowsArbiter`, `NoRollbackBeforeSettlement` |
| `journal_torn_write` | with torn writes and I/O errors, 1 crash | **violated**: `FamiliesAgree` |
| `cell_leak` | cells as in `node` | **violated**: `StaleTreesCollected` |
| `channel_replay` | 2 sequence numbers | **violated**: `SettledStateIsHighest` |
| `adnl_locks` | ADNL as in `node` | **violated**: `NoWaitCycle` |
| `rldp_ack` | RLDP as in `node` | **violated**: `CeasesOnFullAck` |
| `ledger` | see below | `LedgerTypeOK`; messages: `AtMostOnce`, `LaneOrder`; blocks: `IndexIsConnected`, `OneBlockPerProof`; `AccountHistorySound`; `StakesAccounted`; shards: `ShardsPartition`, `NothingLost`; `RouteIsCanonical`; execution: `SuccessMeansReturned`, `ExecutionEndsOrSpins` |
| `split_successor` | blocks as in `ledger` | **violated**: `ShardsContinue` |
| `stale_return` | programs as in `ledger` | **violated**: `ReturnResumesCaller` |

`MCNode` and `MCLedger` each put several components side by side. These share no
state, so interleaving them adds nothing: `focus` is chosen once and a behaviour is
one of the chosen component; `Parts` names those an instance chooses from, all of
them in the passing runs. The states of the run are the sum of the components'
states, and each property speaks of its own component.

**Why the bounds are enough to be interesting.** With three
validators of unequal stake two different pairs are quorums and the third pair is
not; in the fork run one pair has exactly two thirds of the stake, the boundary
of the test. Two
blocks let a Byzantine leader equivocate, two rounds let a view change happen
between any two steps. Block hashes are symmetric because they are only compared
for equality; no temporal property is checked together with a symmetric set except
the refinement, which is a safety property.

*node.* The journal: three files, three batches and three crashes, which let
recovery be cut short, restarted and cut short again. Cells: a graph of four, in
which a leaf is both a child and a grandchild of one root and the subtree is shared
by two roots, with two shards and two clients; a count of 4 is what all holders
together reach, so that a block commitment also meets a full count. The channel: a
deposit of 1, three sequence numbers, times 0 to 3 and a window of 1; `MaxSum` equals
the deposit but a state may hold twice that, so states that exceed the deposit are
signed and presented.

*node, the network.* Three symbols, three packets a round and two copies each, so that a
round has room for two and the second gets one copy only; three rounds; leftovers
of two symbols and an ACK of an earlier transfer, and four ACKs, so that all
symbols and a repeated one are acknowledged. Two tasks share one ADNL node and a
third runs on another, with a third node as a peer: the least at which two tasks
connect and receive at once. Four DHT nodes, one faulty, of which two run two
operations in all; three ids share a distance bucket of size two, so a contact is
evicted; one id is forged; of three records one does not expire, one is unsigned and
one, under another key, expires while an operation runs.

*ledger.* Messages: two in order and a tie within a lane, which may also be queued
out of order once the lane has run empty, a tie between lanes,
unsorted currencies, both external kinds. Blocks: a masterchain of three, two
shards, two rivals, a split commit with a successor in its own shard and one in a
child, a merge with a right and a
wrong number, in batches of two. Accounts: balance up to 1 and times up to 2,
where saturation and equality of times happen. Stake: three candidates for two
seats with ties, a cap past `U64`, load factors at and outside their range, two
slashes. Shards: depth 2, load windows and lead of one block instead of 256, 1024
and 8 (the rules compare with these constants and nothing else), four blocks, one
rotation. Routes: all pairs of prefixes up to two bits in two workchains. Programs:
every instruction after fifteen stacks of operands, and nested calls, jumps, loops,
branches out of the code and exceptions against several subroutines and handlers,
some of which start with an instruction that pops before it pays.

Deadlock is not checked where the system really may stop: every engine finalized
or out of rounds, a channel with nothing left to present, a cell store whose
counts are full, a transfer or an execution that ended, bounds on blocks,
operations and offers.

### Fairness

*Consensus* (`FairSpec`). `on_timeout` and the clock are weakly fair because
`onxd` calls the engine every 10 ms. Honest callers eventually sign what their
engine lets them sign. Delivery of each honest message is weakly fair per
receiver, that is, messages keep being redelivered: the engine drops a vote that
comes before its proposal or phase and asks for nothing again, so a network that
delivers each vote once would not do. Nothing is assumed of Byzantine validators.
The last round modelled is not cut short (`MaxRound`), which stands for the usual
eventually-long-enough round.

*Journal* (`NodeFairness`). `RecoveryStep`, that is `Open` or a call of the replay, is
weakly fair: sequential code that waits for nobody. `Crash` has no fairness and is
bounded by `MaxCrashes`.

*Network* (`NetFairness`). `send_rldp` is sequential code whose every wait has a
timeout, so one of its steps that is possible is taken: weak fairness of sending a
round, of the end of the wait and of giving up. Nothing is assumed of the link or
the receiver. While a DHT operation is under way some operation moves on, because
`DhtTransport::call` returns an answer or an error. That is weaker than fairness of
each client by itself, and enough as an instance bounds the operations; it is
written with the idle state in place of ENABLED.

*Execution* (`VmFairness`). `run` is a loop that waits for nobody.

## 4. Proofs

All theorems are about the modules the runs check, with the constants
unconstrained but for the named assumptions.

**Consensus** (`ConsensusEngine_proofs`). Assumptions: a non-empty validator set
with some stake, and less than a third of the stake Byzantine. `Agreement`,
`HonestVotesOnce`, `VotesStayCurrent`, `QuorumChain`, `TypeCorrect`, and
`Refinement` (the engines implement `RoundFinality`). Agreement is not inductive:
it speaks of finalized blocks, and why they agree lies in votes signed long
before. `IInv` adds that an engine without a proposal is at the start of its
round, that what a validator signed in its current round is its engine's
proposal, that an engine past a phase still holds the quorum that let it pass,
and that a finalized engine stays where it finalized. The argument is quorum
intersection: two sets with two thirds of the stake share more than the Byzantine
stake (`QuorumIntersection`, from the cardinality of a union of units), so they
share an honest validator, who signed one block only.

**Journal** (`CommitJournal_proofs`). `Atomicity` (the journal implements
`AtomicStore` under the mapping "the journal laid over the files"), `TmpFilesGo`,
`TypeCorrect`, for any batches and any number of crashes. The invariant's core is
`ReplayIsIdempotent`: from the line recovery is at, laying the rest of the batch
over the files gives what the whole batch gives. `OverlayStep` and
`OverlayAbsorbs` say what a line and a repetition do to an overlay. Every call of
the replay is then a stutter of the abstract store, and the commit point is the
write of the journal.

**Cells** (`CellStore_proofs`). `HeldTreesSurvive` and `ReleasesSucceed`, for
every graph of cells. The invariant is `CountsCoverHolders`: a stored count is at
least the number of holders of trees the cell is in. Equality does not hold
(section 5), which is why the invariant is an inequality.

**Channels** (`PaymentChannel_proofs`). `PayoutsAreCovered`, `MirrorIsCurrent` and
`NoRollback`; the conjunction of the three with the type invariant is inductive.
`TypeCorrect` here and in `CellStore_proofs` is a consequence of the same invariants.

**Data** (`DataLemmas`). The library's induction theorems take an operator as a
parameter, which the provers cannot instantiate. The lemmas here take sets and
functions instead: `IntervalInduction` takes the set of the numbers that have a
property, `RecursionExists` says that a function defined step by step up to `n` exists
and stays in a set its steps stay in, from which `SumTo` and `TwoTo` get their
equations. `EveryPlaceTaken` is about a finite set under a strict order: the number of
elements before one is its place, and every place is taken once. Sorting by
distance (DHT), by logical time (pending messages), by stake (election) and the
order of bits (routes) all rest on it or on its special case for integers, `Ranks`.

**RLDP** (`Network_proofs`). For every number of symbols, redundancy, packets and
rounds. `SuccessIsDelivery` rests on `AcksAreTrue` (an ACK of this transfer lists
symbols the receiver has) and on the sender's set growing only by such lists, so a
complete set means a receiver that had everything, and such a receiver returned in
the same step. `RotationReachesAll` needs more than its statement: `RotationIsFair`
bounds, for each symbol, the rounds since it was last sent by the distance the
cursor has still to go to it. A round moves the cursor by the least number of
symbols that fills it; that this least number exists is the well-foundedness of
the naturals.

**ADNL** (`Network_proofs`). For any number of nodes and tasks. `SessionsFirst` needs
to know what a task is in the middle of: `OneInsertAtATime` says that at most one task
of a node is between its two entries, with a session whose channel is not registered
yet, `FetchedIsKnown` that a task that fetches a session found its channel.
`ChannelIsSymmetric` is why both ends compute one id; `PeersUnderstandEachOther` is an
action property on top of the invariant. Freedom from deadlock is not proved because
it does not hold (finding 6).

**DHT** (`Network_proofs`). For every finite set of ids of any width, any bucket
size, any faulty peers, forged ids and records (`DhtAssumption`). `AnswersAreFresh` and
`TablesAreSound`. `DhtInv` says that a node's table has each contact once and in the
bucket of its distance, that stored records are genuine and under their own key,
and that an operation under way has a target of its kind, which is what ties the
reply a client waits for to the record it will check. A table changes by a list of
contacts; that the whole list leaves it sound is `RecursionExists` with the sound
tables as the set. `Closer` is shown to order the ids strictly, so `Sorted` lists
each of them once.

**Messages** (`Ledger_proofs`). For every set of messages. At-most-once
needs to know that what was executed is remembered while the reference can still
show it (`Remembered`) and that nothing is queued twice (`Provenance`); lane order
needs that of two messages of a lane the earlier one was executed or has the lower
logical time, and that with the later one it is in the queue and in every older
picture of it, or was executed (`Predecessors`). A lane loses its last logical time
only with its last message, which was executed by then: so the order in which
messages are enqueued survives pruning, while the order of their logical times is
left to those who enqueue them (section 5, observations).

**Blocks** (`Ledger_proofs`). For every set of headers and batches of every
length: parents are there, the sequence number is one more than the largest of
theirs, no parent ends after the block starts. What a candidate was checked against is staged before it and still there
at the end, so no induction over the batch is needed. `OneBlockPerMasterProof` uses
that configurations are sorted strictly, hence name a shard once
(`MasterchainBlockExtra::validate`).

**Accounts** (`Ledger_proofs`). `HistoryHolds`, for every bound on balances and times
and histories of any length. The property compares entries of the history;
`AccountInv` ties its last entry to the account, bounds the balance by the sum of the
credits, and says that the stored record is the byte form of a state in the history.
Cutting the record short at any field gives that state or an error
(`FromBytes` of a prefix of `ToBytes`).

**Shards** (`Ledger_proofs`). For every depth and every genesis that is a
partition: a split replaces a prefix by its two extensions, a merge two prefixes
that differ in the last bit only by their common front (`PartitionHolds`).
`NothingIsLost` needs more: `DataInv` says each shard holds of all accounts created and
messages arrived exactly those it contains, and each message at one place. A merge
sorts the two queues; that sorting moves messages and neither drops nor repeats
one is `EveryPlaceTaken`.

**Routes** (`Ledger_proofs`). `RoutesAreCanonical`, for prefixes of every length. The
k-th hop changes the k-th differing bit, so a bit's rank among them tells when it is
changed, and after all of them the prefix is the destination. `RoutesAreShortest` goes
beyond what TLC checks: by induction over its hops, a route of any length that passes
the check has changed at most one bit per hop, so none is shorter than the planned one.

**Stake** (`Ledger_proofs`). `StakesAreAccounted`, for every set of offers and every
configuration. Floor shares add up to at most the reward and miss it by less than
one unit per validator, so the remainder that is handed out from the front is at
most their number (`SumTo` is compared through its steps). That the elected have the
most stake is the monotonicity of places. That no cap is lost to the cast holds
under the premise the property states.

**Execution** (`Interpreter_proofs`). `SuccessIsReturned` and `VmTypeCorrect`, for every
program whose instructions decode and any integer width of at least three bits (with
fewer, 2 is no integer; the code has 128). `RET` reports success when `c0` is empty and
does not look at the call stack, and after a fall off the end the two disagree. The
invariant (`Sound`) is therefore `OpenCallsCanReturn`: `c0` may be stale, but it is never
empty while a call is open, because only `RET` empties it and does so with the stack.
Instruction by instruction: what paying, popping and pushing keep (`Paid`, `Popped`,
`Took`, `Kept`), then that only calls, returns and exceptions touch the call stack and
`c0`. The type invariant says more than types: it
bounds byte strings by the gas limit, since every instruction that lengthens one pays
for it, and keeps `pc` within the code through every branch.

**Composition.** `NetInductive` and `LedgerInductive` combine the invariants for the
specifications `NetSpec` and `LedgerSpec`: whichever component moves, the variables of
the others stand still. In the run `node` the same holds of the network, the journal,
the cells and the channel, each of which has its theorems by itself. `NetworkIsSafe` and `LedgerIsSafe` are their safety properties,
`NetTypeCorrect` and `LedgerTypeCorrect` their type invariants.

**Assumptions added for proofs**, all of which TLC evaluates on its instances: ids
and keys are bit strings of one width, records have a key and a natural expiry;
amounts, times, fees and bounds are natural numbers; `U64` is positive and offers are
below it; programs hold instructions with operands the decoder lets through (`THROW`
with one of the kinds it knows; any other byte is the instruction `BAD`), have a `main`
and handlers inside their code. They are what the types and checks of the code give.

Only model-checked: all liveness (`SomeEngineFinalizes`, `NodeRecovers`,
`SenderReturns`, `OperationsEnd`, `ExecutionEndsOrSpins`), as fairness is beyond the prover, and
the violations. Every invariant and action property of a passing run, and both
refinements, are proved.

## 5. Findings

1. **Forks across rounds** (`consensus_fork`). `on_timeout` discards proposal and
   votes, and no later round is tied to a block that already has a Commit quorum,
   so two engines of one height can finalize different blocks in rounds 0 and 1.
   `docs/planning/development-tasks.md:395` asks for none. What *is* guaranteed is
   agreement within a round, which is proved.
2. **Torn journal** (`journal_torn_write`). The journal carries neither length nor
   checksum; a crash inside its write leaves a prefix that recovery applies.
   `storage.rs:3` says all-or-nothing.
3. **Leaked references** (`cell_leak`). Counting up visits a whole tree, counting
   down stops at the first shared cell, so a root held twice and released twice
   leaves its inner cells counted for ever.
4. **Old state settles** (`channel_replay`). `cooperative_settle` does not look at
   sequence numbers; `docs/specification/payment-channels.md:21` says settlement
   accepts only a higher one.
5. **ACKs never decode** (`rldp_ack`). `ACK_HEADER_LEN` is 44, the header `encode`
   writes has 42 bytes, and `decode` wants the exact length: every ACK is refused,
   and `send_rldp` of a payload that arrived in full ends with a timeout.
   `docs/specification/networking-adnl.md:80` says the ACK makes the sender cease.
6. **Two locks, two orders** (`adnl_locks`). `connect_peer` holds `sessions` and locks
   `channel_to_peer`; `recv_datagram` does the reverse. A task that connects to a new
   peer and one that receives on a known channel of the same node can wait for each
   other for ever, where `adnl_transport.rs:333` says a channel is established or
   returned. `tests/adnl_loopback.rs` connects every peer before it shares a node.
7. **Nothing follows a split or merge** (`split_successor`).
   `validate_block_successor` refuses every block one of whose parents carries
   `SPLIT_COMMIT` or `MERGE_COMMIT`. `docs/specification/blocks.md:67` and `:69` say the
   next blocks belong to the children, or to the merged shard; `:124` forbids only
   an ordinary successor.
8. **Stale return register** (`stale_return`). Code that runs off its end pops the
   call stack and leaves `c0`; a later `RET` of the caller goes there and not to the
   top of the call stack, as `docs/specification/tvm-instruction-set.md:181` has it.
   What *is* proved is that success is never reported with a call open.

Observations that no run states as a violation: for lack of a sentence they
contradict, or because a property names them in its statement or its premise:

- *A handler that pays nothing.* CONCAT, BYTEEQ and STBYTES pop before they pay, and
  entering a handler is free: a handler that starts with one of them pops the
  exception's code, raises again and is entered again, for ever.
  `docs/specification/execution.md:40` calls execution a total function and `:26` bounds it
  by gas, which is not so for these programs. They are among those of the run
  `ledger`, and `ExecutionEndsOrSpins` says in its second alternative (`Spinning`) that
  this is what happens to them, and the only way not to end.
- *An emptied lane forgets.* `pop_next` removes a lane with its last message, so
  `enqueue` has nothing to compare a later message of the pair with and takes one of an
  older logical time. `docs/specification/transactions.md:70` asks for "the exact
  generation sequence order (lt_1 < lt_2 implies delivered lt_1 before lt_2)".
  `LaneOrder` says that messages are executed in the order in which they were
  enqueued, across pruned lanes and with such messages; that this is also the order of
  their logical times is up to the caller, whose account's logical time grows.

- *RLDP capacity.* `NoSymbolStarves` is also the limit of a transfer: a symbol may
  stay unsent while rounds times symbols per round is below their number. The
  default configuration (3 copies, 128 packets a round, 20 rounds) sends 43 symbols
  a round, 860 in all, below the 1024 of a payload of 1 MB
  (`docs/planning/development-tasks.md:179`).
- *RLDP receiver.* `recv_rldp` has no timeout, and a leftover frame of an earlier
  transfer decides which transfer it waits for.
- *DHT.* `store` gives up at the first peer that fails, leaving the record on some;
  an older record replaces a newer one of its key.
- *Blocks.* A successor's shard is not compared with its parent's; two masterchain
  blocks of one number are both held.
- *Accounts.* A credit to an account that stays uninitialized is accepted and
  vanishes; destruction looks neither at time nor at balance.
- *Stake.* The cap is cast to 64 bits after it is computed at 128, so a minimum
  above 2^64 / 10 can lower it; `StakesAccounted` excludes that case by its premise.
- *Execution.* DIVMOD of the least integer by -1, and SUBBYTES
  with a negative bound, panic; REPEAT reads its count again from the stack.

## 6. Not modelled

- Power failure and unsynced renames: the crash modelled is the death of the
  process. The journal is the only file the code syncs.
- Readers of the storage: they take no lock and change nothing, and neither a
  document nor a caller asks them for a snapshot.
- Encodings, hashes and signatures: abstracted to identity of what was signed or
  stored, except where a length or a field decides (ACK frames, account records).
  Stake sums above 2^64 in the engine.
- `dictionary.rs`: a pure tree algorithm over bit strings, which no
  instruction of the interpreter uses yet and its unit tests reach well.
- `BftQuorumTracker`, `calculate_late_reward`, `is_block_irrevocably_final`,
  `evaluate_candidate_block_header`, `calculate_storage_fee`: formulas that only
  tests and a fuzz target call.
- RPC, telemetry, CLI, genesis tooling, system contracts: request parsing,
  counters, file formats and thin wrappers without state.
- What the repository does not have: the mover of messages between shards, the
  import of finalized blocks, the caller of the interpreter. Where a model needs
  one it is marked external.

## 7. Plan

Done, in order of how much hangs on them: consensus, journal, cells and channels;
RLDP, ADNL and the DHT; messages, blocks, shards; accounts, stake, routes and
execution; the theorems of section 4.

Left:

1. Refinements that say more than the invariants: an abstract FIFO per pair of
   shards which `MessageDelivery` implements, a set of accounts and messages which
   `ShardPipeline` leaves as it is through every split and merge.
2. The composition of finalization, import and `commit_block`, once `onxd` has it.
3. Action properties of the engine and the channel (a finalized block is final, a
   settled channel stays settled) where they do not follow from one guard.
