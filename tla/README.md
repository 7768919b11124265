# TLA+ models of the wagerr budget governance engine

This directory holds TLA+ models of the masternode budget system in
`src/src/masternode-budget.cpp` and `src/src/rpcmasternode-budget.cpp`, and
of the active-masternode status machine in `src/src/activemasternode.cpp`. It
also holds the TLC configurations that check the models. This README describes:

- the parts of the system and how they interact;
- which module models which part;
- what each TLC run checks and what it showed;
- which bounds and fairness assumptions are used;
- what is left out, and why.

`PROJECT.json` holds the machine-readable version of the same information:
- components;
- runs;
- mutants;
- the definition-to-source map;
- findings;
- hazards.

## 1. The system

Each node runs one `CBudgetManager` (the global `budget`), plus the maps
declared next to it. Masternodes use it to agree on how each payment cycle's
share of block rewards is spent.

| Part | State | Operations (source) |
|------|-------|---------------------|
| Proposal registry | `mapProposals`: hash → proposal. A proposal holds its signer `vin`, start, end, amount and `mapVotes`: collateral txid → `CBudgetVote`. | `AddProposal` 438, `UpdateProposal` 1033, `CBudgetProposal::IsValid` 1112, `AddOrUpdateVote` 1143, `CleanAndRemove` 1152, tallies 1185–1222 |
| Finalized-budget registry | `mapFinalizedBudgets`: hash → budget. A budget holds its start, a payment list, `mapVotes` and `fAutoChecked`. | `AddFinalizedBudget` 423, `UpdateFinalizedBudget` 1056, `IsValid` 1573, `AutoCheck` 1443, `SubmitVote` 1622 |
| Seen caches | `mapSeenMasternodeBudgetProposals` / `…Votes`, `mapSeenFinalizedBudgets` / `…Votes`. The broadcast entries carry `fInvalid`. | They deduplicate gossip and are the source that `Sync` serves from. |
| Orphan queue | `mapOrphanMasternodeBudgetVotes` and `mapOrphanFinalizedBudgetVotes`, one vote per target hash, and `askedForSourceProposalOrBudget`. | `UpdateProposal` / `UpdateFinalizedBudget` with a peer; `CheckOrphanVotes` 35 |
| Rate limit | `CMasternode::nVotedTimes`. | Checked and incremented in `ProcessMessage`; `DecrementVotedTimes` runs every 6 blocks. |
| Message handlers | — | `ProcessMessage` 791: `mnvs`, `mprop`, `mvote`, `fbs`, `fbvote` |
| Upkeep | `nSubmittedFinalBudget`. | `NewBlock` 761, which in order runs `CheckAndRemove` (which itself calls `AutoCheck`), `SubmitFinalBudget` in "suggest" mode, `ResignInvalidProposals` / `CheckSignatureValidity`, and every 6th block `DecrementVotedTimes` plus `CleanAndRemove` on every item. |
| Allocation | — | `GetBudget` 640 (greedy, in hash order, against `GetTotalBudget` 744) |
| Payout | — | `FillBlockPayee` 478, `IsBudgetPaymentBlock` 562, `IsTransactionValid` 577 |
| Persistence | `budget.dat` | `CBudgetDB::Write` 276, `Read` 308, `DumpBudgets` 394 |
| Operator RPC | — | `mnbudget` commands vote, vote-many, projection, show and check; `mnfinalbudget` command vote |
| Active masternode | status enum | `CActiveMasternode::ManageStatus` (`activemasternode.cpp`) |

How the parts interact:

- Peers gossip proposals, votes, budgets and budget votes.
- Each handler takes its steps in this order:
  1. deduplicates against the seen map;
  2. checks the signature (the signer must be a known masternode);
  3. checks validity;
  4. records the message as seen;
  5. if the signer is under its action limit, applies the message, relays it and re-applies any orphans.
- A vote for an unknown target is queued as that target's orphan, and the target is requested once.
- On every block, `NewBlock` does the following:
  - prunes invalid items;
  - lets a masternode vote automatically for a finalized budget that matches its own `GetBudget`;
  - in suggest mode, builds and broadcasts the node's own finalized budget;
  - re-signs or flags proposals;
  - every 6th block, drops votes from masternodes that left.
- `GetBudget` is the deterministic function that all nodes must agree on.

### Hard behaviours

- Gossip arrives in any order, duplicated, or not at all. In particular, votes can arrive before their target, which exercises the orphan queue.
- Masternodes leave and rejoin the list. This affects `SignatureValid` and `CleanAndRemove`.
- The rate limit and the initial-sync bypass.
- The node's own actions interleave with gossip:
  - AutoCheck, SubmitFinalBudget, re-signing;
  - RPC votes.
- Boundary arithmetic at the cap: partial payouts, the subsidy decline, and signed amounts.
- Concurrency: `NewBlock` runs without `cs_budget`, while `ProcessMessage` holds it. `BudgetUpkeep` models the two threads interleaving; `BudgetNode` keeps `NewBlock` atomic.
- Between nodes: relays may be lost, each orphan's source is requested only once, and a peer's second `mnvs` request is refused.

### What makes each part correct

- **Allocation:** the result equals the greedy reference; it never exceeds the cap; each allotment lies between 0 and the amount requested.
- **Registries:** every held item is valid at the tip; only one vote per voter is counted.
- **Orphans:** a vote that arrives early ends up as if it had arrived late; no orphan waits for a target the node already holds (the node's own budget from `SubmitFinalBudget` is an exception until the next `CheckOrphanVotes`).
- **Upkeep:**
  - AutoCheck votes only on an exact match;
  - the node relays only valid budgets;
  - re-signing touches only stale items;
  - active removal of proposals with net-negative support.
- **Serving:** everything the node counts is in the seen maps that `Sync` serves from.

## 2. Modules

| Module | Models | Composition |
|--------|--------|-------------|
| `BudgetCommon` | The pure operators: `NextCycleStart`, `GetTotalBudget` (RECURSIVE `Decline`), both `IsValid`s, the proposal's payment-cycle getters and the `nBlockEnd` its broadcast constructor computes (`ProposalEnd`), `TotalPayout`, the `GetBudget` filter, and the greedy loop `Allot` (RECURSIVE). | Extended by the modules below. |
| `BudgetAllocation` | One `GetBudget` call on every bounded input the manager can hold. | Extends `BudgetCommon`. |
| `MCBudgetAllocation` | The proposal order used by TLC, as a sequence constant. | Extends `BudgetAllocation`. |
| `BudgetNode` | One node's `CBudgetManager`. | Extends `BudgetCommon`. |
| `MCBudgetNode` | The data of the node runs: proposals, budgets, txids (distinct, or shared by two collaterals), and the vote bound. | Extends `BudgetNode`. |
| `VoteRegister` | What the vote maps promise: for each live target, at most one vote per voter, the last one applied. | Abstract; `BudgetNode` instantiates it as `PropRegister`. |
| `BudgetSync` | The network: several nodes exchanging items, votes and `mnvs` requests over lossy relays, with the orphan slot, the single request for an orphan's source, the `mnvs` handler and `Sync`. | Stand-alone. |
| `MCBudgetSync` | Two nodes, one voter, one proposal and one finalized budget. | Extends `BudgetSync`. |
| `BudgetPayout` | Two nodes that receive finalized budgets and their votes in any order, build blocks with `FillBlockPayee`, judge every block with `IsBudgetPaymentBlock` / `IsTransactionValid`, and prune with `CheckAndRemove` on each block. | Extends `BudgetCommon` (uses `FinalizedIsValid`). |
| `MCBudgetPayout` | Two budgets for the cycle at 8, their payments, the hash order and each node's enabled-masternode count. | Extends `BudgetPayout`. |
| `BudgetPersist` | `budget.dat` across `CBudgetDB::Write`, `Read`, `DumpBudgets`, crashes, restarts and on-disk corruption of one node. | Extends `BudgetCommon`. |
| `MCBudgetPersist` | Two budgets. | Extends `BudgetPersist`. |
| `ActiveMasternode` | `CActiveMasternode::ManageStatus` and the calls it makes, against the chain download, confirmations, wallet locking, ping ageing, list expiry and cold-wallet starts. | Stand-alone. |
| `MCActiveMasternode` | Two wallet coins (one named in masternode.conf) and one cold collateral. | Extends `ActiveMasternode`. |
| `BudgetUpkeep` | `NewBlock` as its separate steps on the block-processing thread, interleaved with the `mprop` handler, over the keys of the maps those steps touch. | Stand-alone. |
| `MCBudgetUpkeep` | Two proposals, this node's own finalized budget and a peer's. | Extends `BudgetUpkeep`. |

### How `BudgetNode` corresponds to the code

**Variables.** Each variable is one map or global of the code, named in its comment. Hashes are modelled as follows:
- A proposal is its hash, a model value. `PStart`, `PEnd` and `PAmount` give its content.
- A finalized budget is the record `[start, pay]`, with `pay` a sequence of `[prop, amount]`.
- Names, URLs and payees are folded into the hash.

**Signatures.** A message's signature is valid when its signer is in `mnodes`. A message with a forged signature changes nothing, so it is not an action.

**Actions.** The four gossip handlers are `RecvProposal`, `RecvVote`, `RecvFinal` and `RecvFinalVote`. Each one keeps the handler's branches in the code's order:
- dedup;
- the signature and validity guards;
- the seen insert;
- the rate-limit branch;
- the add;
- `CheckOrphanVotes`.

Three parts of a handler are left to other modules or abstracted:
- The relay is modelled in `BudgetSync`.
- The signature check is reduced to the signer being in `mnodes`.
- The `mnvs` request for an orphan's source is recorded in `asked` only.

`RecvProposal` adds through `AddProposal`. For a proposal already held, the log line of `AddProposal` (443) indexes `mapFinalizedBudgets` with the proposal hash. That inserts a default `CFinalizedBudget`, whose key the variable `defaults` records. The entry is never valid, and no seen map holds it. The next `CheckAndRemove` (in `NewBlock` or `RpcCheck`) erases it. `NewBlock` is atomic here, so this node never meets the entry inside `ResignInvalidProposals`; `BudgetUpkeep` shows what happens when it does.

`RecvFinalVote` stores through `UpdateFinalizedBudget(m, f)`, the manager's method with a peer: the vote is added to a held budget, or becomes its orphan and the peer is asked once.

`NewBlock` is a single action composed of step operators on a record of the state. The steps follow the code's order: `CheckAndRemove(AutoCheck)`, then `SubmitFinalBudget`, then `ResignInvalidProposals`, then the periodic cleanup. Two inputs are nondeterministic:
- `rand()` in AutoCheck, as a choice over `SUBSET` of the held budgets, on mainnet only;
- the masternode rank.

**The re-signing behaviour.** `CheckSignatureValidity` and `ResignInvalidProposals` rebuild each broadcast with copy constructors that do not copy `vchSig`. So in the model, every held item fails `SignatureValid`.

**Environment actions.**
- `MnLeave` and `MnJoin` (for the masternodes in `Transient`).
- `SyncDone`, which models `IsSyncingMasternodeAssets` becoming false.

**Operator RPCs** (enabled by `OperatorActive`): `RpcVote`, `RpcVoteMany`, `RpcFinalVote`, `RpcFinalVoteMany`, `RpcCheck` and `RpcProjection`. A locally signed vote goes through `UpdateProposal(vote, NULL)`. For an unknown proposal it is dropped, not queued; finalized-budget votes go the same way through `UpdateFinalizedBudget(vote, NULL)` (`LocalFVotes`). The vote bound of the pass run admits one finalized-budget vote, so `RpcFinalVoteMany` only adds states when one of the two masternodes is out of the list.

**History variable.** `autoVoted` records the pairs ⟨budget, own `GetBudget`⟩ at each AutoCheck vote. No action reads it.

**Refinement.** `PropRegister == INSTANCE VoteRegister WITH …` maps the node onto the abstract register:
- the live targets are `DOMAIN proposals`;
- the members are `mnodes`;
- `PropReg[p][m]` is the choice stored under `TxOf[m]` in `proposals[p].votes` when that entry's `vin` is `m`, and no vote otherwise.

`PropVotesRefine == PropRegister!Spec` is checked as a temporal property. Each node step must be an abstract step:
- a vote changes only its voter's entry;
- a proposal arrives with no vote, or with the single orphan waiting for it;
- removal and `CleanAndRemove` erase only dropped targets or voters who left the list.

### How `BudgetPayout` corresponds to the code

- `held[n]` is the key set of `mapFinalizedBudgets` at node `n`, `votes[n][f]` the voters in that budget's `mapVotes`. `chain` holds the budget output of each block built; `verdict` what each node judged the last block.
- `RecvFinal` / `RecvVote` are the adds of the `fbs` / `fbvote` handlers (dedup, signature and rate limit are in `BudgetNode`).
- `BuildBlock(b)` is one block: `FillBlockPayee` at the builder (a `FoldLeft` of `FillStep` over the budgets in hash order), then every node's `IsBudgetPaymentBlock` and `IsTransactionValid` on its view before the block, then `NewBlock`'s `CheckAndRemove` at the new tip on every node.
- `CFinalizedBudget::IsTransactionValid` has its output check commented out, so `FinalTxValid` is `TRUE`. A node's verdict therefore depends only on its vote counts and enabled-masternode count, never on the block, and no property is stated on it.

### How `BudgetPersist` corresponds to the code

- The file is a record: kind (absent, ours, another network's, an older format), size, the budgets its payload holds and the payload the trailing checksum was computed over (`{}` when the bytes read as a checksum belong to no payload, i.e. a truncated file).
- `ReadFile` is `CBudgetDB::Read` in its order of early returns; `Loaded` is what the read leaves in the manager (the `CheckAndRemove` after a successful read).
- `DumpBudgets` reads into a temporary manager (whose `CheckAndRemove` prunes it), then writes unless the file is foreign or corrupt; the write completes, fails to open, is torn by an exception, or is torn by a crash.
- `Crash`, `Restart` (load into the live manager) and `Corrupt` are environment actions. `AutoCheck`, which the two `CheckAndRemove` calls also run, is modelled in `BudgetNode`.

### How `BudgetSync` corresponds to the code

- Per node `n`:
  - `held[n]` is the keys of `mapProposals` and `mapFinalizedBudgets`;
  - `seenV[n]` is the seen-vote maps;
  - `counted[n][t]` is the voters in target `t`'s `mapVotes`;
  - `orphan[n][t]` is the one orphan slot of `t`;
  - `asked[n]` is `askedForSourceProposalOrBudget`;
  - `fulfilled[n]` is the peers whose `mnvs` request `n` has served;
  - `synced[n]` is the peers `n` has sent its full sync request to.
- `msgs` is the set of messages in flight; each has a sender and a receiver.
- The handlers are:
  - `RecvItem`: `mprop` and `fbs`;
  - `RecvVote`: `mvote` and `fbvote`, including `UpdateProposal`'s orphan branch and its single `mnvs`;
  - `RecvSyncRequest`: `mnvs`.
- `Receive(msg)` takes one message out of `msgs` and runs whichever handler fits it.
- `Submit` is the node's own item. It covers the RPC proposal submit and `SubmitFinalBudget`. Neither calls `CheckOrphanVotes`.
- `Cast` is a locally signed vote, signed at the node that holds the masternode's key (`Home`). The RPC signs for any hash it is given, held or not.
- Accepting an item runs `CheckOrphanVotes`, which applies the orphan of every held target, including one added by `Submit`.
- `RequestSync` is the budget stage of masternode-sync asking one peer for everything. That code is not in this tree, so this action is modelled from the spec.
- A relay (`Relay`) reaches any subset of the peers: an inv whose fetch fails is a lost message.
- Signatures, validity and the rate limit are left to `BudgetNode`.
- `Sync(n, scope, hit)` returns what is pushed to the peer:
  - held proposals that match the scope;
  - finalized budgets and all votes, if the scope is zero or `hit` holds.

  The last three loops of `CBudgetManager::Sync` compare `(*it1).first` after `it1` has reached `end()`. That is undefined behaviour, so its outcome `hit` is a free choice.

### How `ActiveMasternode` corresponds to the code

- `status`, `vin`, `locked` (the wallet's locked coins), `walletLocked`, `entry` (this node's entry in the masternode list, or `NoEntry`), `pingFresh` (whether it was pinged recently), `lockCount` (wallet locks so far), `ibd`, `age` (confirmations per coin) and `conf` (whether `-masternodeprivkey` and the port are valid; chosen in `Init`).
- `ManageStatus(addrOk, connectOk)` is one call: the download early return, the hot/cold check from `INITIAL`/`SYNC_IN_PROCESS`, the register branch (wallet locked, no usable coin, address or connection failure, `INPUT_TOO_NEW`, else `LockCoin`, `SetKey`, `Register`), and the final `SendMasternodePing`. `addrOk`/`connectOk` are the external address lookup and the `ConnectNode` result.
- `SelectCoinsMasternode` unlocks the masternode.conf outputs, lists the unlocked coins of 10000 and locks the conf outputs back (`RelockConf`).
- `ColdStart` is a remote start of a cold collateral through `EnableHotColdMasterNode`.

### How `BudgetUpkeep` corresponds to the code

`NewBlock` (`masternode-budget.cpp` 761) takes neither `cs_budget` nor the manager's `cs`, while `ProcessMessage` holds `cs_budget`. So a handler can run between two of `NewBlock`'s calls. `BudgetNode` keeps `NewBlock` atomic; `BudgetUpkeep` splits it.

- State: the keys of `mapProposals` (`props`), of `mapSeenMasternodeBudgetProposals` (`seen`) and of `mapFinalizedBudgets` (`finals`), the seen entries marked `fInvalid` (`flagged`), where the thread is in `NewBlock` (`pc`), whether this masternode's `nVotedTimes` leaves room for another item (`room`), and the blocks connected (`blocks`).
- A key of `finals` that is a proposal hash is the default `CFinalizedBudget` that `AddProposal`'s log line creates with `mapFinalizedBudgets[prop.GetHash()]` (line 443). Its `nBlockStart` is 0 and its name empty, so `IsValid` fails.
- `RecvProposal(p, mayAct, mine)` is the `mprop` handler: the seen-not-invalid early return, the seen replacement, and, unless rate limited, `AddProposal` and the charge of the signer (which may use up this node's room when the signer is this node).
- `CheckAndRemove(gone)`, `SubmitFinalBudget(submit)`, `ResignProposals(top, r)` (the early returns, `CheckSignatureValidity` and the proposal loop), `ResignFinals` (the finalized-budget loop) and `Periodic` are the steps of `NewBlock`, in that order. Heights, votes and amounts are modelled in `BudgetNode`; here they appear as the inputs `gone`, `submit`, `top` and `r`.
- `ResignFinals` on an invalid budget is a step that changes nothing: the code's `continue` does not advance `it2`, so the loop re-tests the same entry until the counter check returns.

## 3. Runs

| Run | Config | Expect | Checks |
|-----|--------|--------|--------|
| `budget_allocation` | `MCBudgetAllocation.cfg` | pass | `TypeOK`, `MatchesReference`, `WithinCap`, `PaidCyclesCounted` (512 000 states) |
| `allocation_negative_amount` | `MCBudgetAllocationNegative.cfg` | violation | `PaidWithinCap` |
| `budget_node` | `MCBudgetNode.cfg` | pass | `TypeOK`, `RegistriesValid`, `StoredItemsServed`, `PropVotesRefine` (383 334 states, about 1.5 min) |
| `node_orphan_vote_lost` | `MCBudgetNodeOrphanLost.cfg` | violation | `SeenVotesCounted` |
| `node_auto_vote_prefix` | `MCBudgetNodeAutoPrefix.cfg` | violation | `AutoVoteExact` |
| `node_vote_key_collision` | `MCBudgetNodeSharedTx.cfg` | violation | `PropVotesRefine` (refinement) |
| `budget_payout` | `MCBudgetPayout.cfg` | pass | `TypeOK`, `PaysBestBudget` (62 098 states) |
| `payout_early_erase` | `MCBudgetPayoutEarlyErase.cfg` | violation | `NoEarlyErase` (action property) |
| `budget_persist` | `MCBudgetPersist.cfg` | pass | `TypeOK`, `HeldValid`, `LoadRestoresLastDump` (3 517 states) |
| `active_masternode` | `MCActiveMasternode.cfg` | pass | `TypeOK`, `StartedMature`, `EventuallyStarted` (2 104 states) |
| `budget_sync` | `MCBudgetSync.cfg` | pass | `TypeOK`, `FullSyncDelivers` (liveness; 343 761 states, about 1 min) |
| `upkeep_resign_spin` | `MCBudgetUpkeep.cfg` | violation | `NewBlockReturns` (liveness) |

What the passing runs show:

- **Allocation.** `GetBudget` equals the greedy reference and stays within the cap. Every proposal it pays is paid for a cycle that lies within the proposal's `GetTotalPaymentCount` cycles, and `GetRemainingPaymentCount` still shows a payment left at that tip: the half cycle the broadcast adds to `nBlockEnd` and the getters subtract again agrees with the span filter of `GetBudget`.
- **Payout.** With budgets and votes arriving at two nodes in any order, every block pays the payment of the most-voted covering budget with the lowest hash, or nothing when no covering budget has a vote.
- **Persistence.** Through torn writes, failed opens, crashes, foreign and old-format files and on-disk corruption, a restart loads exactly the still-valid budgets of the last completed dump or nothing, and no held budget is ever invalid at the tip.
- **Vote maps.** When every masternode has its own collateral transaction, the proposal vote maps implement the one-vote-per-voter register: no handler, upkeep step or RPC erases or changes another voter's vote. The bound lets both masternodes vote on one proposal, with leaves, rejoins and cleanups between the votes.
- **Registries.** Every held proposal and budget is valid at the tip. The default budgets that `AddProposal` inserts stand only under proposals still held. Everything counted, apart from those default entries, is in the seen maps that `Sync` serves from.
- **Sync.** Relays may be lost to any peer, and orphan requests may come first. Still, a node whose `mnvs` requests are never refused (a local peer) eventually holds every proposal and finalized budget its peer held when the peer received its full request. This holds under fair message delivery.
- **Active masternode.** `STARTED` is only reached with a collateral that is mature (or a cold one), and a node with a valid key and port reaches `STARTED` under the fairness below.

What the violations show. Each one is also listed in `findings` in `PROJECT.json`.

- **Negative amounts.** A proposal with a negative `nAmount` passes `IsValid`. It then lowers `nBudgetAllocated`, so the other proposals are paid 40 against a cap of 30.
- **Lost orphan votes.** Two early votes for one proposal share one orphan slot. The first vote is recorded as seen, so it is dropped as a duplicate forever and never counted. Spec §8 says an early vote ends as if it had arrived late.
- **Prefix votes.** In "auto" mode, AutoCheck votes as soon as the first payment matches.
- **Vote key collision.** Two masternodes have collaterals that are outputs of one transaction. Both vote on a proposal, and `mapVotes` keys both votes by `vin.prevout.GetHash()`. So the second vote replaces the first. The register allows only a voter's own vote to replace it, so the refinement fails.
- **`NewBlock` hangs.** The trace:
  1. At block 2 this node is not in the top ranks, so `CheckSignatureValidity` flags the seen entry of the held proposal `p2`.
  2. At block 3 `CheckAndRemove` runs.
  3. A peer relays `p2` again. Its seen entry is flagged, so the handler accepts it, and `AddProposal` inserts the default budget under `p2`'s hash.
  4. `SubmitFinalBudget` runs, then the proposal loop of `ResignInvalidProposals` with room left.
  5. The finalized-budget loop reaches the default budget and spins for ever.

  The block-processing thread never returns from `NewBlock`. Spec §5 says a local mutation runs to completion. Only a handler charging this node's own counter past the cap could end the loop.
- **Early erase.** `CFinalizedBudget::IsValid` fails once the budget's start is behind the tip, and `CheckAndRemove` runs on every block, so a budget with three payments is erased after its second block and its third payment is never built.
Several behaviours that earlier runs showed are kept in `PROJECT.json` as hazards rather than runs:
- `IsValid` tests `yeas + nays`, so a proposal with net-negative support is never pruned.
- `SubmitFinalBudget` relays and votes for its own budget even when `IsValid` fails (line 247).
- The lost `vchSig` makes `ResignInvalidProposals` flag or re-sign every proposal at every block (line 180).
- `DumpBudgets` runs `AutoCheck` again on fresh copies and re-votes (line 400).

`BudgetNode` still models each of these paths as the code has it.

### Mutants

Each passing property is broken by a plausible bug in the code it is about:

| Property | Mutated definition | Mutation |
|----------|--------------------|----------|
| `MatchesReference` | `Allot` | No partial payout |
| `WithinCap` | `Allot` | The cap test is dropped |
| `PaidCyclesCounted` | `Qualifies` | The proposal need only reach the cycle's first block |
| `RegistriesValid` | `CheckAndRemove` | Judges validity at the previous tip |
| `StoredItemsServed` | `SubmitVote` | Forgets the seen insert |
| `TypeOK` (allocation) | `Allot` | Remainder computed with its operands swapped |
| `TypeOK` (node) | `AddOrUpdateVote` | Keyed by the voter instead of its collateral txid |
| `TypeOK` (payout) | `FillStep` | Pays the budget hash instead of the proposal |
| `PaysBestBudget` | `FillStep` | `>=` instead of `>`: ties go to the last hash |
| `TypeOK` (persist) | `ReadFile` | No clamp of the data size |
| `HeldValid` | `Loaded` | No `CheckAndRemove` after the read |
| `LoadRestoresLastDump` | `ReadFile` | Checksum not compared |
| `TypeOK` (active) | `LockCollateral` | Locks the list entry's vin (possibly `NoEntry`) instead of the chosen coin |
| `StartedMature` | `InputTooNew` | Age never checked |
| `EventuallyStarted` | `InputTooNew` | Off by one: a coin at exactly the minimum is too new forever |
| `PropVotesRefine` | `CleanAndRemove` | Test inverted: keeps the votes of masternodes that left, erases the others |
| `TypeOK` (sync) | `CheckOrphanVotes` | Applies every slot without testing that it holds a vote |
| `FullSyncDelivers` | `Sync` | The finalized-budget loops send only on a matching scope |

### Bounds

**Allocation run.**
- Scaled constants: a 4-block cycle, subsidy 300 with a decline every 10 blocks, so the cap is 30 for the cycle at block 8 and 20 for the cycle at 12.
- Tips 5 and 9, so both cycles occur.
- Three proposals, whose amounts of 10–30 reach the full, partial and zero branches.
- Vote counts that both pass and fail the `enabled/10` threshold.
- Ends 10 and 14, the `nBlockEnd` of a proposal from block 4 with one or two payments (`MCEnds`), so a two-payment proposal is paid for its last cycle (8) at tip 5 and is past its end at tip 9, and a one-payment one is past its end at both.

**Node runs.**
- Two masternodes: `m1` is this node; `m2` may leave and rejoin.
- Two proposals. `p2` expires at block 8, so `CheckAndRemove` has something to prune.
- Blocks 7 and 8:
  - with `SubmitWindow` = 4, block 7 lies within the window of the cycle starting at 8 and block 8 within that of the cycle at 12, so `SubmitFinalBudget` runs at both;
  - `p1` ends at 16 (`MCPEndLater`), so the budget for the cycle at 12 is not empty;
  - block 8 is a multiple of `DecrementEvery` = 2 (the code uses 6), so the periodic cleanup runs.
- `VoteCap` = 1 with increment 1, so the rate limit is reached.
- A state constraint `VoteBound` caps how many distinct votes reach the node. The pass run allows 2 proposal votes and 1 budget vote, and its second constraint `OneProposalVoted` keeps them on one proposal, so both masternodes can vote on one proposal, which is what the refinement is about. A re-vote needs a second vote time; with it the run grows to 1.4 million states and takes about 8 minutes. `AddOrUpdateVote` overwrites the voter's entry whatever the time, so a re-vote is the same map step as a first vote. Each violation run raises the bound to what its scenario needs, for example 2 votes for the orphan overwrite.
- `TxOf` gives each masternode its own collateral transaction, except in `MCBudgetNodeSharedTx.cfg`, where `m1` and `m2` share `t1`.

**Upkeep run.** Two proposals, this node's budget and a peer's, and three blocks: one block to flag a proposal, one in which it is re-accepted, and one to spare. Every step's inputs are free choices. `CHECK_DEADLOCK FALSE`: after the last block the node only waits for messages.

**Payout run.** Two nodes, two voters, two budgets for the cycle at 8 (`fA` pays two blocks, `fB` one), tips 6 to 10 so blocks before, inside and after the window are built. `n1` counts 10 enabled masternodes and `n2` 25, so the 5% and 10% thresholds differ between them. The early-erase run gives `fA` three payments.

**Persistence run.** Two budgets starting at 8 and 12, tips 6 to 12 so both become valid and the first expires; A header of 1 unit and a checksum of 2 make a file shorter than a checksum reachable.

**Active masternode run.** Two wallet coins (`c2` in masternode.conf) and a cold collateral, `MinConf` = 2 so a coin is first too new and then mature, and one wallet lock/unlock (`MaxLocks` = 1).

**Sync run.** Two nodes `a` and `b`, one voter whose key is at `b`, one proposal and one finalized budget. Each node may submit once per item, `b` may cast a vote on each target whether or not it holds it, and sends its full sync request to each peer once. So `msgs` is finite and the state space closes without a constraint.
- `LocalPeers = {a}`: `a`'s requests are always served. `b`'s second request is refused, which covers both branches of the `mnvs` handler.
- Two nodes suffice for the full request: the asking node and the one serving it. Orphan requests reach the peer before or after the full request.
- More data multiplies the relay subsets: a run with two proposals and two voters did not finish in 15 minutes.
- `CHECK_DEADLOCK FALSE`: once every message is consumed and every item and vote is out, the network really is quiet.

These bounds are enough for each guard of each action to take both of its outcomes; the coverage statistics of the pass run show every action firing.

### Fairness

Three modules check liveness: `ActiveMasternode`, `BudgetSync` and `BudgetUpkeep`. The fairness of `ActiveMasternode` is weak fairness on `ManageStatus(TRUE, TRUE)` (the node calls `ManageStatus` on a timer, and the address lookup and connection eventually succeed), on `IBDDone` and `Confirm` (the chain keeps growing) and on `UnlockWallet` (the operator unlocks the wallet to start a masternode). The environment's `Expire`, `LockWallet` and `ColdStart` carry no fairness. `BudgetSync` assumes weak fairness on receiving some message in flight. Each peer's messages are handled by the node's message-handling thread, which keeps draining every connection's receive queue. Every variable of `BudgetSync` only grows and each step consumes its message, so the model has no cycle of steps. This fairness therefore makes every message in flight processed eventually, although a relay may be lost before it is sent. `BudgetUpkeep` assumes weak fairness on the steps of `NewBlock`: the block-processing thread keeps running a `NewBlock` it has started. The handler carries none, since the network may fall silent. The other budget modules check safety only and carry no fairness.

## 4. Not modelled yet, and the plan

1. **Convergence and agreement.** `BudgetSync` could state that the nodes' vote sets converge and that `GetBudget` agrees once they do. The convergence fails by design: relays are lossy, each peer is asked once, and nothing resyncs later. A useful form would need the periodic re-sync of masternode-sync, which is not in this tree.
2. **Rate limit.** A run with the seen-before-limit hazard and a property that bounds the counter.
3. **Orphan resolution.** An orphan is resolved only if the one peer it was asked from holds the target, or some later relay brings it. The vote may come from a node that signed it for a hash it does not hold, so no pass run states that orphans resolve. A scoped answer also hinges on `Sync` reading an `end()` iterator (line 1017), undefined behaviour. Both are recorded as hazards.

Also left out:
- the RPC commands `prepare`, `submit` and `suggest`. They call constructors and fee-transaction checks that `masternode-budget.cpp` does not define; the two files come from different revisions;
- in `ActiveMasternode`, the explicit-outpoint `Register` overload (called from RPC code outside this tree) and `GetStatus`, which only formats text; the recovery of a node whose list entry expired depends on `CWallet::AvailableCoins` skipping locked coins (wallet code outside this tree) and is recorded as a hazard;
- zerocoin, secp256k1, the Qt dialog and darksend, which lie outside the governance core.
