# TLA+ model of the agent-shield program

This directory holds a TLC-checkable model of the Solana/Anchor program
`src/programs/agent-shield/src`. The program guards an AI agent's trading. The
owner of a **vault** writes a **policy**. A registered **agent** asks for
permission to spend (`validate_and_authorize`) and later reports the result
(`finalize_session`). The program enforces a rolling 24-hour spending cap,
token and protocol allow-lists, a transaction size limit, a leverage limit and
a position ceiling, and charges fees on success.

## The system

| Part | Source | State | Operations |
|---|---|---|---|
| AgentVault | `state/vault.rs`, `state/mod.rs` | agent key, status (Active/Frozen; `Closed` exists but is never assigned), counters `total_transactions`, `total_volume`, `open_positions`, `total_fees_collected` | written by every lifecycle instruction and by `finalize_session` |
| PolicyConfig | `state/policy.rs` | cap, max tx size, allowed tokens/protocols, max leverage, can_open_positions, max_concurrent_positions, developer_fee_rate | `is_token_allowed`, `is_protocol_allowed`, `is_leverage_within_limit` |
| SpendTracker | `state/tracker.rs` | `rolling_spends` (≤ MAX_SPEND_ENTRIES), `recent_transactions` (ring of MAX_RECENT_TRANSACTIONS) | `get_rolling_spend` (prunes, then sums), `record_spend` (prunes, rejects if full, pushes), `record_transaction` (evicts index 0 when full) |
| SessionAuthority | `state/session.rs` | one PDA per (vault, agent): authorized amount/token/protocol/action, expiry slot | `is_expired`, `calculate_expiry` |
| Lifecycle | `instructions/{initialize_vault,register_agent,update_policy,revoke_agent,reactivate_vault,close_vault}.rs` | vault, policy, tracker | owner-signed instructions |
| Admission | `instructions/validate_and_authorize.rs` | tracker, session | agent-signed: checks every policy rule, books the spend, creates the session |
| Settlement | `instructions/finalize_session.rs` | vault, tracker, session, token balances | agent (before expiry) or anyone (after it): fees, counters, audit record, closes the session |
| Custody | `instructions/{deposit_funds,withdraw_funds}.rs` | the vault's token accounts | owner-signed SPL transfers |
| Events, errors | `events.rs`, `errors.rs` | none | logging and error codes only |

How the parts interact:
- A session is the only link between admission and settlement. Spend is booked
  at admission. Counters, fees and positions move only at settlement.
- The session PDA's address depends only on the vault key and the agent key.
  Nothing ties a session to the agent currently registered, or to this
  particular life of the vault account.
- Every Solana instruction is atomic: if any `require!`, checked operation or
  transfer fails, the whole instruction changes nothing, the prune inside
  `get_rolling_spend` included.

## Modules

- **`Policy.tla`** holds the policy predicates and the bounds that
  `initialize_vault` and `update_policy` check. Token and protocol lists are
  sets, because the code only ever uses `contains` on them.
- **`Session.tla`** holds `IsExpired` and `CalculateExpiry`.
- **`SpendTracker.tla`** models the tracker's three methods as pure operators
  on sequences:
  - `Prune` is `retain(timestamp >= now - W)`.
  - `TokenSpend` is the checked fold.
  - `GetRollingSpend` returns the pruned ledger, the total and whether the
    u64 overflowed.
  - `RecordSpend` returns whether it succeeded and the new ledger.
  - `RecordTransaction` is the ring buffer.
  - The operators whose names end in `Strict`, `EvictOldest` or `Late` are
    mutants (plausible bugs), defined for the mutation runs.
- **`AgentShield.tla`** is the whole program with one vault.
  - Variables: `vault`, `policy`, `tracker` (each a record, or `Absent` when
    the account does not exist), `sessions` (agent → session or `Absent`),
    `balance` (token → amount in the vault's token account), `slot` and `now`
    (the Clock sysvar).
  - One action per instruction: `InitializeVault`, `RegisterAgent`,
    `UpdatePolicy`, `ValidateAndAuthorize`, `FinalizeSession`, `RevokeAgent`,
    `ReactivateVault`, `CloseVault`, `DepositFunds`, `WithdrawFunds`. `Tick`
    advances the clock.
  - Each action is the handler's success path. Its guard is every account
    constraint and `require!` in code order, plus the checked arithmetic and
    the transfers. Its effect is every assignment.
  - Ghost variables exist only for the properties:
    - `booked` lists the spends booked in the latest admission's window, each
      with the cap in force when it was booked.
    - `audit` holds the last MAX_RECENT_TRANSACTIONS settlements, with the
      payer and expiry of each.
    - `incarnation` counts how many times the vault PDA has been initialized.
  - Account types: `AgentVaults`, `PolicyConfigs`, `SpendTrackers`,
    `SessionRecs`, `SpendEntries` and `TxRecords` mirror the structs in
    `state/*.rs`, keeping only the fields the model uses. `TypeOK` is stated
    over them.
  - `FinalizeSession` is split into named helpers:
    - `MayFinalize`: who may settle.
    - `EffectiveSuccess`: the outcome after expiry.
    - `Fee`: the checked multiply-then-divide.
    - `FeeTransfersSucceed`: the two SPL transfers.
    - `SettledVault`: the checked counter updates.
- **`AccountSpace.tla`** gives two sizes for each account.
  - The bytes it occupies: the Borsh encoding of its struct's fields plus
    Anchor's 8-byte discriminator. A Pubkey is 32 bytes, an integer its
    width, a bool or a unit-only enum 1 byte, and a Vec a 4-byte length plus
    its elements.
  - The bytes it is given: the `SIZE` constant as written in `state/*.rs`,
    at the model's capacities.
  - Anchor allocates `space = X::SIZE` once, at `init`, and the program
    never reallocates.
- **`RollingBudget.tla`** is the abstract specification of the spend ledger,
  taken from spec.md §3 and §4.2.
  - `live` holds exactly the spends of the trailing window.
  - A spend is admitted only if its token's live total plus the amount stays
    within the cap in force.
  - Time only removes spends that are older than the window.
  - Closing forgets the budget.
  - It has no pruning, no capacity and no storage. An implementation may
    refuse a spend, but may never admit one this spec forbids or forget a live
    one.
- **`SessionCapability.tla`** is the abstract specification of sessions,
  taken from spec.md §4.3, §4.5 and §5.
  - `grant` maps each agent to at most one capability.
  - A grant is written once. Its fields stay fixed while it is held, and it
    expires `EXPIRY` slots after it was granted.
  - `Settle` consumes a grant exactly once and records it in `settled`.
    Up to the expiry slot only the holder may settle. After it, the
    outcome is failure, whoever settles.
  - `Forget` clears the record when the vault's log starts afresh.
- **`SpendTrackerCheck.tla`** checks the three tracker operators against
  reference definitions written from spec.md §4.2 and §5. The references use
  set sums, sorted live indices and "the last N records", and share no
  operator with `SpendTracker.tla`. Its initial states are every ledger the
  program can store: entries in time order, none in the future, dead ones
  possibly still present. They are combined with every ring and every clock
  value.
- **`MC_AgentShield.tla`** gives the model values and the sets of
  `update_policy` argument records that the configs use.

## Runs

| Run | cfg | Expect | Checks | What it shows |
|---|---|---|---|---|
| ledger | `AgentShield_ledger.cfg` | pass | TypeOK, SpendWithinCap, LedgerKeepsLiveSpends | Clock jumps across window boundaries, cap and token updates, a full tracker: every booking keeps its token's window sum within the cap, and the tracker never drops a live spend (its live entries are a suffix of `rolling_spends`). |
| settle | `AgentShield_settle.cfg` | pass | AuditLogIsRecentHistory, SettlementAuthority, AccountsFitTheirSpace | Two agents, revoke/rotate, fees, deposits, withdrawals, expiry: the audit ring always holds exactly the last settlements in order; a session settled at or before its expiry slot was settled by its own agent, and one settled after it is recorded as failed. The run reaches a full ledger, a full ring and full allow-lists at once, and every account still fits the space its `SIZE` allocated. |
| live | `AgentShield_live.cfg` | pass | SessionEventuallySettled | Under the fairness below, every session is eventually closed unless its vault was closed. |
| livefees | `AgentShield_livefees.cfg` | pass | SessionEventuallySettled | The same liveness with positions, fees, deposits and withdrawals. A success report can fail here (a fee transfer, a ClosePosition underflow), and the crank still closes every session, because the failure path does none of those steps. |
| budget | `AgentShield_budget.cfg` | pass | BudgetRefined | Refinement: `AgentShield` implements `RollingBudget` (see below). Covers cap changes, a full ledger, and the vault being closed and re-created once. |
| tracker | `SpendTrackerCheck.cfg` | pass | RollingSpendMatchesSpec, RecordSpendMatchesSpec, RecordTransactionMatchesSpec | Checked on 33 852 inputs. `get_rolling_spend` sums exactly the live entries of a token, boundary included, and fails on u64 overflow exactly when that sum overflows. `record_spend` fails exactly when the live entries fill the ledger, and otherwise keeps the live entries in order and appends the new one. `record_transaction` keeps the newest records, oldest first. |
| capability | `AgentShield_capability.cfg` | pass | CapabilityRefined | Refinement: `AgentShield` implements `SessionCapability` (see below), with two agents, revoke/rotate, fees and expiry. |
| stranded | `AgentShield_stranded.cfg` | violation | SessionAlwaysSettled | `close_vault` with a session outstanding strands it. |
| positions | `AgentShield_positions.cfg` | violation | PositionsWithinLimit | Revoke + reactivate with a new agent admits a second OpenPosition: `open_positions` 2 > ceiling 1. |
| closefunds | `AgentShield_closefunds.cfg` | violation | ClosedVaultHoldsNoFunds | `close_vault` leaves tokens in the vault's token account, although `lib.rs` says it withdraws them. |
| stale | `AgentShield_stale.cfg` | violation | SettlementsBelongToVault | A session from a closed vault is settled into the vault re-initialized at the same address. |
| killswitch | `AgentShield_killswitch.cfg` | violation | FrozenVaultRecordsNoAgentAction | `lib.rs` calls `revoke_agent` a kill switch that prevents all agent actions. Yet the revoked agent still settles its outstanding session as a success in the frozen vault. In the trace, a zero-fee Swap moves `total_transactions` and `total_volume`. |

### Refinement

`AgentShield.tla` defines `Budget == INSTANCE RollingBudget WITH ...`, and the
`budget` run checks `BudgetRefined == Budget!Spec` as a PROPERTY. The
refinement mapping is:
- `live <- BudgetLive`: the tracker's `rolling_spends` filtered to the window
  of the current `now` (`<<>>` when there is no tracker).
- `cap <- BudgetCap`: the policy's `daily_spending_cap`, or `Absent`.
- `NoCap <- Absent` and `WINDOW <- ROLLING_WINDOW_SECONDS`.

The code prunes only when it reads or writes the ledger, while the mapping
prunes on every step. So the refinement shows that pruning lazily loses
nothing:
- Every `validate_and_authorize` is a `Spend` the budget allows.
- Every `Tick` is an `Advance`.
- `update_policy` is a `SetCap`, `initialize_vault` an `Open`, and
  `close_vault` a `Close`.
- Every other step is a stutter.

A strict prune (`>` for `>=`) is refuted: the code forgets an entry exactly
one window old that the budget still counts.

`AgentShield.tla` also defines `Capability == INSTANCE SessionCapability
WITH ...`, and the `capability` run checks `CapabilityRefined ==
Capability!Spec`. The mapping is:
- `grant <- CapGrants`: each agent's session PDA, reduced to its agent,
  amount, token, protocol, action type and expiry slot (`Absent` when there
  is none).
- `settled <- CapSettled`: the newest record of the audit ghost, with its
  session's fields, payer and effective success (`None` when the log is
  empty).
- `EXPIRY <- SESSION_EXPIRY_SLOTS`.

How the steps map:
- `validate_and_authorize` is a `Grant`, and `finalize_session` a `Settle`.
- `initialize_vault` is a `Forget`: the new vault's log starts empty. The
  sessions of an earlier life of the vault stay granted, which is what the
  `stale` run shows. The `capability` run creates the vault once, so its
  `Forget` is never taken there; only the first `initialize_vault` maps to
  a stutter.
- `Tick` is a `Tick`.
- Every other step is a stutter, so no instruction other than these may
  touch a session.

A finalize that records the success the caller reported, instead of forcing
failure after expiry, is refuted.

The five violations are listed as findings in `PROJECT.json`.

Every property of a passing run has a mutant in `PROJECT.json` that TLC
refutes:
- `GetRollingSpend` summing over a strict prune breaks SpendWithinCap.
- `RecordSpend` evicting the oldest entry instead of failing breaks
  LedgerKeepsLiveSpends.
- `RecordTransaction` evicting one entry late breaks AuditLogIsRecentHistory.
- `MayFinalize` without the payer check breaks SettlementAuthority.
- `MayFinalize` without the permissionless path breaks
  SessionEventuallySettled, in both live runs.
- A strict `Prune` breaks BudgetRefined.
- `EffectiveSuccess` returning the reported success after expiry breaks
  CapabilityRefined.
- The same three tracker mutants break the three reference properties of
  the `tracker` run.
- An off-by-one token-list bound breaks TypeOK in the `ledger` run.
- A tracker `SIZE` without the 4-byte length prefix of
  `recent_transactions` breaks AccountsFitTheirSpace. It only fails once
  the ledger and the ring are both full.

## Bounds and why they suffice

The code's constants are scaled down so that every boundary is reachable:

| Constant | Model | Code |
|---|---|---|
| `ROLLING_WINDOW_SECONDS` | 1 | 86 400 |
| `SESSION_EXPIRY_SLOTS` | 1 | 20 |
| `MAX_SPEND_ENTRIES` | 2 (ledger) or 3 (settle) | 100 |
| `MAX_RECENT_TRANSACTIONS` | 2 | 50 |
| u64 maximum | 4 | 2^64 − 1 |
| u8 maximum | 2 | 255 |
| `FEE_RATE_DENOMINATOR` | 4 | 1 000 000 |
| protocol fee rate | 2 | 20 |
| `MAX_DEVELOPER_FEE_RATE` | 3 | 50 |
| `MAX_ALLOWED_TOKENS` and `MAX_ALLOWED_PROTOCOLS` | 1 | 10 |

What the bounds reach:
- With amounts {1,2}, a cap of 3 and a transaction limit of 2, admissions
  succeed, hit the cap and overflow the u64.
- Fees are non-zero and can exceed the balance.
- The ledger fills, and the ring evicts.
- A session's admission, its expiry and a late agent finalize all happen
  within `MaxSlot`. Sessions are only granted while their expiry slot is
  still below `MaxSlot` (`SessionCanExpire`, a model bound).
- The timestamp may jump by any amount up to `MaxTime`, so entries exactly on
  the window edge, and entries just past it, both occur.
- `MaxIncarnations` bounds how many times the vault may be re-created: twice
  where re-creation matters (live, budget, stale), once elsewhere.
- `MaxBalance` bounds deposits.

Both sides of AccountsFitTheirSpace are linear in the capacities. The
per-element sizes it compares do not depend on them. So an account that
fits at the model's capacities also fits at the code's. At the code's
constants the tracker is 9 349 bytes, within Solana's 10 240-byte limit for
an account created by `init`. Allow-lists are sets in the model. The code
bounds the length of the `Vec` it stores, duplicates included, so a list
with duplicates is no longer than the bound either.

Each policy update set (`MC_LedgerUpdates`, `MC_SettleUpdates`) contains a
change that must fail: two tokens against a limit of 1, or a fee rate above
the ceiling.

All runs set `CHECK_DEADLOCK FALSE`. The model's clock stops at `MaxSlot`/
`MaxTime`, and after the last permitted `initialize_vault` a closed vault
admits no instruction at all. Such a final state is where the bounded model
ends, not a deadlock of the program.

## Fairness

Nobody is obliged to send any instruction, so there is no fairness on owner
or agent actions. `Spec` assumes only two things:
- `WF(Tick)`: the cluster keeps producing slots.
- Weak fairness of `FinalizeSession` by the crank, for each agent's session.
  The crank only ever does anything once the session has expired. Cleanup of
  expired sessions is permissionless and described as a crank's job in
  `finalize_session.rs`.

## Not modelled

- Events (logging only) and error codes: a failed instruction is simply a
  disabled action.
- The SPL token program and address derivations (ATA, treasury address, fee
  destination): every caller passes correct accounts, and a transfer succeeds
  exactly when the balance suffices.
- The owner's own token balance.
- `vault_id`, `owner`, `bump` and `created_at`: they are constant for a vault.
- The saturating add in `calculate_expiry`: it is not reached below
  `MaxSlot`.

## Plan for later work

Done so far:
- Sitting 1 built the core model.
- Sitting 2 added the rolling-budget refinement (item 2 of the original
  plan), the reference check of the tracker (item 3), the `livefees` run,
  and the struct-typed `TypeOK`.
- Sitting 3 added the capability refinement (item 1 of the previous plan)
  and the kill-switch run.
- Sitting 4 added the account-space check (`AccountSpace.tla`,
  AccountsFitTheirSpace).

Still to do:
1. Fee arithmetic over bounded amounts and rates at the code's real
   denominator (spec §5's example: 1 000 000 × 20 / 1 000 000). This would be
   a pure-operator check of `Fee`.
2. The counters `total_transactions` and `total_volume` against a full
   settlement history, in a run small enough to keep that history.
3. Larger bounds for the positions and rotation runs (three agents, a
   ceiling of 2).

Hazards left without a property, and why (see `PROJECT.json`):
- The settle-time fee rate is what the spec specifies.
- Fee truncation for small amounts is the specified formula.
- Counters after an expired position session track reported outcomes only;
  the downstream protocol call is outside the program.
