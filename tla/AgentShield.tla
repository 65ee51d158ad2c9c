----------------------------- MODULE AgentShield ----------------------------
(***************************************************************************)
(* The agent-shield program: one vault with its PolicyConfig, SpendTracker *)
(* and per-agent SessionAuthority accounts, the vault's token balances and *)
(* the cluster clock.  Every instruction of lib.rs is one action.  A       *)
(* Solana instruction is atomic: an instruction that fails any require!    *)
(* (or a checked operation, or a token transfer) changes nothing, so each  *)
(* action is the instruction's success path and its guard is the          *)
(* conjunction of every check on that path, in the code's order.          *)
(* Anchor account constraints (`init`, `has_one`, `close`) are part of the *)
(* guard and effect: a closed account is Absent.                           *)
(***************************************************************************)
EXTENDS Integers, Sequences, FiniteSets, Policy, Session, SpendTracker, AccountSpace
LOCAL INSTANCE SequencesExt

CONSTANTS
  Owner,            \* the vault owner's key
  Agents,           \* agent keys the owner may register
  Crank,            \* any other signer (permissionless cleanup)
  NoAgent,          \* Pubkey::default()
  None,             \* an omitted Option argument
  Absent,           \* an account that does not exist
  Tokens,           \* token mints
  Protocols,        \* target program ids
  ActionTypes,      \* a subset of ActionType
  FEE_RATE_DENOMINATOR, PROTOCOL_FEE_RATE,   \* state/mod.rs
  U8_MAX,           \* largest u8 of the model (open_positions)
  \* Inputs the model enumerates.
  Amounts, Caps, TxSizes, TokenSets, ProtocolSets, Leverages, MaxLeverages,
  MaxPositions, DevFeeRates, DepositAmounts,
  PolicyUpdates,    \* update_policy argument records, a field None when omitted
  \* Bounds of the model.
  MaxSlot, MaxTime, MaxIncarnations, MaxBalance

ActionType == {"Swap", "OpenPosition", "ClosePosition", "IncreasePosition",
               "DecreasePosition", "Deposit", "Withdraw"}
ASSUME ActionTypes \subseteq ActionType
ASSUME TokenSets \subseteq SUBSET Tokens /\ ProtocolSets \subseteq SUBSET Protocols
ASSUME FEE_RATE_DENOMINATOR \in Nat \ {0} /\ PROTOCOL_FEE_RATE \in Nat

VARIABLES
  vault,        \* AgentVault, or Absent
  policy,       \* PolicyConfig, or Absent
  tracker,      \* SpendTracker, or Absent
  sessions,     \* agent -> SessionAuthority at PDA [session, vault, agent], or Absent
  balance,      \* token -> amount held by the vault's associated token account
  slot,         \* Clock::slot
  now,          \* Clock::unix_timestamp
  \* History, for the properties only:
  booked,       \* the reference ledger: spends booked in the window of the latest
                \* admission, each with the cap in force when it was booked
  audit,        \* the reference audit log: the last MAX_RECENT_TRANSACTIONS
                \* settlements, each with who settled it and when it expired
  incarnation   \* how many times the vault PDA has been initialized

vars == <<vault, policy, tracker, sessions, balance, slot, now,
          booked, audit, incarnation>>

Active == "Active"
Frozen == "Frozen"
Closed == "Closed"

-----------------------------------------------------------------------------
(* Helpers translated from the handlers.                                   *)

\* An Option argument: None leaves the stored value.
Opt(arg, old) == IF arg = None THEN old ELSE arg

\* Protocol and developer fee of finalize_session: checked_mul then
\* checked_div.  `overflow` is the checked_mul failure.
Fee(amount, rate) ==
  [fee |-> (amount * rate) \div FEE_RATE_DENOMINATOR,
   overflow |-> amount * rate > U64_MAX]

\* The change of open_positions a successful settlement makes.
PositionDelta(actionType) ==
  CASE actionType = "OpenPosition"  -> 1
    [] actionType = "ClosePosition" -> -1
    [] OTHER                        -> 0

\* Mutant: the payer check dropped; any signer settles a live session.
MayFinalizeAnyone(session, payer, currentSlot) ==
  IsExpired(session, currentSlot) \/ session.authorized

\* Mutant: no permissionless path; only the session's agent may finalize.
MayFinalizeAgentOnly(session, payer, currentSlot) ==
  payer = session.agent /\ session.authorized

\* finalize_session's authorization: a live session may only be finalized by
\* its own agent and only while authorized; an expired one by anyone.
MayFinalize(session, payer, currentSlot) ==
  IsExpired(session, currentSlot) \/
  (payer = session.agent /\ session.authorized)

\* The fee transfers of a successful settlement: the protocol fee, then the
\* developer fee, each an SPL transfer out of the vault's token account,
\* which fails when the account holds less.
FeeTransfersSucceed(held, pf, df) == held >= pf + df

\* The vault after a successful settlement: the developer fee is added to
\* total_fees_collected, then the transaction, volume and position counters
\* move.  Each is a checked operation; the caller checks the bounds.
SettledVault(v, s, df) ==
  [v EXCEPT !.total_fees_collected = @ + df,
            !.total_transactions = @ + 1,
            !.total_volume = @ + s.authorized_amount,
            !.open_positions = @ + PositionDelta(s.action_type)]

\* Mutant: the caller's report is taken even after expiry.
EffectiveSuccessAsReported(session, success, currentSlot) == success

\* `let success = if is_expired { false } else { success }`
EffectiveSuccess(session, success, currentSlot) ==
  IF IsExpired(session, currentSlot) THEN FALSE ELSE success

\* Model bound: a session is only granted if the model's clock can still
\* reach the slot at which it expires.
SessionCanExpire(currentSlot) == CalculateExpiry(currentSlot) < MaxSlot

\* History helpers (not code): the 24h window of the spec, counted with both
\* ends included, and the last n elements of a sequence.
InWindow(entry, t) == t - ROLLING_WINDOW_SECONDS <= entry.timestamp
LastN(seq, n) == IF Len(seq) <= n THEN seq ELSE SubSeq(seq, Len(seq) - n + 1, Len(seq))

-----------------------------------------------------------------------------
Init ==
  /\ vault = Absent /\ policy = Absent /\ tracker = Absent
  /\ sessions = [a \in Agents |-> Absent]
  /\ balance = [t \in Tokens |-> 0]
  /\ slot = 0 /\ now = 0
  /\ booked = <<>> /\ audit = <<>> /\ incarnation = 0

\* initialize_vault: `init` of the vault, policy and tracker PDAs.
InitializeVault(cap, maxTx, tokens, protocols, maxLev, maxPos, feeRate) ==
  /\ vault = Absent
  /\ incarnation < MaxIncarnations
  /\ TokensWithinBound(tokens)
  /\ ProtocolsWithinBound(protocols)
  /\ FeeRateWithinBound(feeRate)
  /\ vault' = [agent |-> NoAgent, status |-> Active,
               total_transactions |-> 0, total_volume |-> 0,
               open_positions |-> 0, total_fees_collected |-> 0]
  /\ policy' = [daily_spending_cap |-> cap, max_transaction_size |-> maxTx,
                allowed_tokens |-> tokens, allowed_protocols |-> protocols,
                max_leverage_bps |-> maxLev, can_open_positions |-> TRUE,
                max_concurrent_positions |-> maxPos,
                developer_fee_rate |-> feeRate]
  /\ tracker' = [rolling_spends |-> <<>>, recent_transactions |-> <<>>]
  /\ booked' = <<>> /\ audit' = <<>>
  /\ incarnation' = incarnation + 1
  /\ UNCHANGED <<sessions, balance, slot, now>>

\* register_agent
RegisterAgent(agent) ==
  /\ vault # Absent
  /\ vault.status # Closed
  /\ vault.agent = NoAgent
  /\ agent # NoAgent
  /\ agent # Owner
  /\ vault' = [vault EXCEPT !.agent = agent]
  /\ UNCHANGED <<policy, tracker, sessions, balance, slot, now,
                 booked, audit, incarnation>>

\* update_policy: every field optional (None leaves it); a bound violated by
\* any supplied field fails the whole instruction, so nothing is applied.
UpdatePolicy(u) ==
  /\ vault # Absent
  /\ vault.status # Closed
  /\ u.allowed_tokens # None => TokensWithinBound(u.allowed_tokens)
  /\ u.allowed_protocols # None => ProtocolsWithinBound(u.allowed_protocols)
  /\ u.developer_fee_rate # None => FeeRateWithinBound(u.developer_fee_rate)
  /\ policy' = [f \in DOMAIN policy |-> Opt(u[f], policy[f])]
  /\ UNCHANGED <<vault, tracker, sessions, balance, slot, now,
                 booked, audit, incarnation>>

\* validate_and_authorize, checks in the handler's order.  The agent signs;
\* the vault constraint requires it to be the registered agent and `init`
\* of the session PDA requires no session of this agent to exist.  Spend is
\* booked and the session written in the same instruction.
ValidateAndAuthorize(agent, actionType, mint, amount, protocol, leverage) ==
  LET rolling == GetRollingSpend(tracker.rolling_spends, mint, now)
      newTotal == rolling.total + amount
      record == RecordSpend(rolling.spends, mint, amount, now)
  IN /\ vault # Absent
     /\ vault.agent = agent
     /\ sessions[agent] = Absent
     /\ SessionCanExpire(slot)
     /\ vault.status = Active
     /\ amount > 0
     /\ IsTokenAllowed(policy, mint)
     /\ IsProtocolAllowed(policy, protocol)
     /\ amount <= policy.max_transaction_size
     /\ ~rolling.overflow
     /\ newTotal <= U64_MAX
     /\ newTotal <= policy.daily_spending_cap
     /\ leverage # None => IsLeverageWithinLimit(policy, leverage)
     /\ actionType = "OpenPosition" =>
          /\ policy.can_open_positions
          /\ vault.open_positions < policy.max_concurrent_positions
     /\ record.ok
     /\ tracker' = [tracker EXCEPT !.rolling_spends = record.spends]
     /\ sessions' = [sessions EXCEPT ![agent] =
                       [agent |-> agent, authorized |-> TRUE,
                        authorized_amount |-> amount, authorized_token |-> mint,
                        authorized_protocol |-> protocol,
                        action_type |-> actionType,
                        expires_at_slot |-> CalculateExpiry(slot),
                        incarnation |-> incarnation]]
     /\ booked' = Append(SelectSeq(booked, LAMBDA b : InWindow(b.entry, now)),
                         [entry |-> Last(record.spends),
                          cap |-> policy.daily_spending_cap])
     /\ UNCHANGED <<vault, policy, balance, slot, now, audit, incarnation>>

\* finalize_session, signed by `payer`, for the session of `agent`.  The
\* vault, policy and tracker accounts must exist.  On effective success both
\* fees are moved out of the vault's token account (each transfer needs the
\* balance) and the counters are advanced with checked arithmetic; in every
\* case an audit record is pushed and the session is closed.
FinalizeSession(payer, agent, success) ==
  LET s == sessions[agent]
      ok == EffectiveSuccess(s, success, slot)
      pf == Fee(s.authorized_amount, PROTOCOL_FEE_RATE)
      df == Fee(s.authorized_amount, policy.developer_fee_rate)
      tok == s.authorized_token
      settled == SettledVault(vault, s, df.fee)
      record == [action_type |-> s.action_type, token_mint |-> tok,
                 amount |-> s.authorized_amount,
                 protocol |-> s.authorized_protocol,
                 success |-> ok, slot |-> slot]
  IN /\ s # Absent
     /\ vault # Absent
     /\ MayFinalize(s, payer, slot)
     /\ ok =>
          /\ ~pf.overflow /\ ~df.overflow
          /\ FeeTransfersSucceed(balance[tok], pf.fee, df.fee)
          /\ settled.total_fees_collected <= U64_MAX
          /\ settled.total_transactions <= U64_MAX
          /\ settled.total_volume <= U64_MAX
          /\ settled.open_positions \in 0..U8_MAX
     /\ vault' = IF ok THEN settled ELSE vault
     /\ balance' = IF ok THEN [balance EXCEPT ![tok] = @ - pf.fee - df.fee]
                         ELSE balance
     /\ tracker' = [tracker EXCEPT !.recent_transactions =
                      RecordTransaction(@, record)]
     /\ sessions' = [sessions EXCEPT ![agent] = Absent]
     /\ audit' = LastN(Append(audit, [record |-> record, agent |-> s.agent,
                                     payer |-> payer,
                                     expires_at_slot |-> s.expires_at_slot,
                                     incarnation |-> s.incarnation]),
                      MAX_RECENT_TRANSACTIONS)
     /\ UNCHANGED <<policy, slot, now, booked, incarnation>>

\* revoke_agent: the kill switch freezes the vault and clears the agent key.
RevokeAgent ==
  /\ vault # Absent
  /\ vault.status # Closed
  /\ vault' = [vault EXCEPT !.status = Frozen, !.agent = NoAgent]
  /\ UNCHANGED <<policy, tracker, sessions, balance, slot, now,
                 booked, audit, incarnation>>

\* reactivate_vault, optionally rotating the agent key.
ReactivateVault(newAgent) ==
  /\ vault # Absent
  /\ vault.status = Frozen
  /\ newAgent # None => newAgent # NoAgent /\ newAgent # Owner
  /\ vault' = [vault EXCEPT !.status = Active,
                            !.agent = Opt(newAgent, vault.agent)]
  /\ UNCHANGED <<policy, tracker, sessions, balance, slot, now,
                 booked, audit, incarnation>>

\* close_vault: `close = owner` on the vault, policy and tracker accounts.
\* Nothing is said about the sessions or the vault's token accounts.
CloseVault ==
  /\ vault # Absent
  /\ vault.status # Closed
  /\ vault.open_positions = 0
  /\ vault' = Absent /\ policy' = Absent /\ tracker' = Absent
  /\ UNCHANGED <<sessions, balance, slot, now, booked, audit, incarnation>>

\* deposit_funds: an SPL transfer from the owner into the vault's account.
DepositFunds(mint, amount) ==
  /\ vault # Absent
  /\ vault.status # Closed
  /\ balance[mint] + amount <= MaxBalance
  /\ balance' = [balance EXCEPT ![mint] = @ + amount]
  /\ UNCHANGED <<vault, policy, tracker, sessions, slot, now,
                 booked, audit, incarnation>>

\* withdraw_funds: allowed while Active or Frozen.
WithdrawFunds(mint, amount) ==
  /\ vault # Absent
  /\ vault.status # Closed
  /\ balance[mint] >= amount
  /\ balance' = [balance EXCEPT ![mint] = @ - amount]
  /\ UNCHANGED <<vault, policy, tracker, sessions, slot, now,
                 booked, audit, incarnation>>

\* The cluster advances a slot; the unix timestamp never goes back and may
\* jump by any number of seconds (slots are skipped, or far apart).
Tick ==
  /\ slot < MaxSlot
  /\ slot' = slot + 1
  /\ now' \in now..MaxTime
  /\ UNCHANGED <<vault, policy, tracker, sessions, balance,
                 booked, audit, incarnation>>

-----------------------------------------------------------------------------
Payers == Agents \cup {Crank}
OptionSet(S) == S \cup {None}

Next ==
  \/ \E cap \in Caps, maxTx \in TxSizes, tokens \in TokenSets,
        protocols \in ProtocolSets, maxLev \in MaxLeverages,
        maxPos \in MaxPositions, feeRate \in DevFeeRates :
       InitializeVault(cap, maxTx, tokens, protocols, maxLev, maxPos, feeRate)
  \/ \E a \in Agents \cup {Owner} : RegisterAgent(a)
  \/ \E u \in PolicyUpdates : UpdatePolicy(u)
  \/ \E a \in Agents, act \in ActionTypes, t \in Tokens, amt \in Amounts,
        p \in Protocols, lev \in OptionSet(Leverages) :
       ValidateAndAuthorize(a, act, t, amt, p, lev)
  \/ \E payer \in Payers, a \in Agents, ok \in BOOLEAN :
       FinalizeSession(payer, a, ok)
  \/ RevokeAgent
  \/ \E a \in OptionSet(Agents \cup {Owner}) : ReactivateVault(a)
  \/ CloseVault
  \/ \E t \in Tokens, amt \in DepositAmounts : DepositFunds(t, amt)
  \/ \E t \in Tokens, amt \in DepositAmounts : WithdrawFunds(t, amt)
  \/ Tick

\* Nobody is obliged to send any instruction; only the permissionless
\* cleanup of an expired session is assumed to happen (a crank watches for
\* expired sessions), and the cluster keeps producing slots.
Fairness ==
  /\ WF_vars(Tick)
  /\ \A a \in Agents : WF_vars(\E ok \in BOOLEAN : FinalizeSession(Crank, a, ok))

Spec == Init /\ [][Next]_vars /\ Fairness

-----------------------------------------------------------------------------
(* Refinement: the tracker, policy cap and clock implement RollingBudget.  *)
(* The budget's live spends are the tracker's entries that are still in    *)
(* the window of the current time.  The code prunes only when it reads or  *)
(* writes the ledger; the mapping prunes on every step.                    *)

BudgetLive ==
  IF tracker = Absent THEN <<>>
  ELSE SelectSeq(tracker.rolling_spends, LAMBDA e : InWindow(e, now))
BudgetCap == IF policy = Absent THEN Absent ELSE policy.daily_spending_cap

Budget == INSTANCE RollingBudget
            WITH live <- BudgetLive, cap <- BudgetCap, NoCap <- Absent,
                 WINDOW <- ROLLING_WINDOW_SECONDS

-----------------------------------------------------------------------------
(* Refinement: sessions and settlements implement SessionCapability.  A    *)
(* grant is a session's authorized parameters and expiry; the latest       *)
(* settlement is read from the newest entry of the audit history.          *)

CapGrant(s) ==
  [agent |-> s.agent, amount |-> s.authorized_amount,
   token |-> s.authorized_token, protocol |-> s.authorized_protocol,
   action |-> s.action_type, expires_at_slot |-> s.expires_at_slot]
CapGrants ==
  [a \in Agents |-> IF sessions[a] = Absent THEN Absent ELSE CapGrant(sessions[a])]
CapSettled ==
  IF audit = <<>> THEN None
  ELSE LET r == Last(audit)
       IN [grant |-> [agent |-> r.agent, amount |-> r.record.amount,
                      token |-> r.record.token_mint,
                      protocol |-> r.record.protocol,
                      action |-> r.record.action_type,
                      expires_at_slot |-> r.expires_at_slot],
           payer |-> r.payer, success |-> r.record.success]

Capability == INSTANCE SessionCapability
                WITH grant <- CapGrants, settled <- CapSettled,
                     EXPIRY <- SESSION_EXPIRY_SLOTS

-----------------------------------------------------------------------------
(* Properties.                                                             *)

\* The account types (state/*.rs), with the fields the model keeps.  The
\* owner, vault_id, bump, created_at and fee_destination are fixed for the
\* life of a vault and left out; Vec fields are bounded sequences or sets.
SpendEntries == [token_mint : Tokens, amount_spent : Amounts, timestamp : 0..MaxTime]
TxRecords == [action_type : ActionTypes, token_mint : Tokens, amount : Amounts,
              protocol : Protocols, success : BOOLEAN, slot : 0..MaxSlot]
SessionRecs == [agent : Agents, authorized : BOOLEAN, authorized_amount : Amounts,
                authorized_token : Tokens, authorized_protocol : Protocols,
                action_type : ActionTypes, expires_at_slot : Nat,
                incarnation : 1..MaxIncarnations]
AgentVaults == [agent : Agents \cup {NoAgent}, status : {Active, Frozen, Closed},
                total_transactions : 0..U64_MAX, total_volume : 0..U64_MAX,
                open_positions : 0..U8_MAX, total_fees_collected : 0..U64_MAX]
PolicyConfigs ==
  {p \in [daily_spending_cap : 0..U64_MAX, max_transaction_size : 0..U64_MAX,
          allowed_tokens : SUBSET Tokens, allowed_protocols : SUBSET Protocols,
          max_leverage_bps : Nat, can_open_positions : BOOLEAN,
          max_concurrent_positions : 0..U8_MAX,
          developer_fee_rate : 0..MAX_DEVELOPER_FEE_RATE] :
     /\ Cardinality(p.allowed_tokens) <= MAX_ALLOWED_TOKENS
     /\ Cardinality(p.allowed_protocols) <= MAX_ALLOWED_PROTOCOLS}
SpendTrackers ==
  {t \in [rolling_spends : Seq(SpendEntries), recent_transactions : Seq(TxRecords)] :
     /\ Len(t.rolling_spends) <= MAX_SPEND_ENTRIES
     /\ Len(t.recent_transactions) <= MAX_RECENT_TRANSACTIONS}

TypeOK ==
  /\ vault \in AgentVaults \cup {Absent}
  /\ policy \in PolicyConfigs \cup {Absent}
  /\ tracker \in SpendTrackers \cup {Absent}
  /\ (vault = Absent) = (policy = Absent) /\ (vault = Absent) = (tracker = Absent)
  /\ sessions \in [Agents -> SessionRecs \cup {Absent}]
  /\ balance \in [Tokens -> 0..MaxBalance]
  /\ slot \in 0..MaxSlot /\ now \in 0..MaxTime

\* The rolling cap holds at every booking: when validate_and_authorize books
\* a spend, the spends of that token booked up to and including it within
\* the 24h window ending at its timestamp (both ends included) sum to at
\* most the cap in force then.  A prune that drops a live entry, or a sum
\* over the wrong entries, lets a later admission exceed the cap.
WindowSum(i) ==
  LET b == booked[i].entry
      counted(j) == /\ booked[j].entry.token_mint = b.token_mint
                    /\ InWindow(booked[j].entry, b.timestamp)
  IN FoldLeft(LAMBDA acc, j : acc + booked[j].entry.amount_spent, 0,
              SelectSeq([j \in 1..i |-> j], counted))
SpendWithinCap ==
  \A i \in 1..Len(booked) : WindowSum(i) <= booked[i].cap

\* The ledger never loses a live spend: the spends booked within the current
\* window are, in booking order, the newest entries of rolling_spends.
\* record_spend must fail when full rather than evict the oldest live entry.
LedgerKeepsLiveSpends ==
  tracker # Absent =>
    LET live == SelectSeq(booked, LAMBDA b : InWindow(b.entry, now))
    IN IsSuffix([k \in 1..Len(live) |-> live[k].entry], tracker.rolling_spends)

\* validate_and_authorize, update_policy, initialize_vault, close_vault and
\* the clock together implement the rolling budget: every admission is one
\* the budget allows against the spends still in the window, and no step of
\* the code (prune, full ledger, close) forgets or invents a live spend.
BudgetRefined == Budget!Spec

\* validate_and_authorize and finalize_session implement the session
\* capability: a session is created only where none exists, for its own
\* agent, a positive amount and an expiry SESSION_EXPIRY_SLOTS ahead; it is never
\* changed while outstanding; and it is closed only by a settlement that the
\* audit log records, made by its agent before expiry and a failure after.
CapabilityRefined == Capability!Spec

\* The audit ring buffer holds exactly the last MAX_RECENT_TRANSACTIONS
\* settlements, oldest first (record_transaction evicts index 0).
AuditLogIsRecentHistory ==
  tracker # Absent =>
    tracker.recent_transactions = [i \in 1..Len(audit) |-> audit[i].record]

\* finalize_session's time-gated authority: a session settled before its
\* expiry slot was settled by its own agent, and one settled after it is
\* recorded as failed whatever the caller reported.
SettlementAuthority ==
  \A i \in 1..Len(audit) :
    LET r == audit[i]
    IN /\ r.record.slot <= r.expires_at_slot => r.payer = r.agent
       /\ r.record.slot > r.expires_at_slot => ~r.record.success

\* Every session is eventually settled, unless the vault it belongs to has
\* been closed: the permissionless cleanup of an expired session cannot be
\* blocked by a checked operation, a balance or a policy.
SessionEventuallySettled ==
  \A a \in Agents : sessions[a] # Absent ~> (sessions[a] = Absent \/ vault = Absent)

\* Every session is eventually settled: the spec's "an agent crash or
\* downstream failure cannot permanently strand" a session (finalize_session
\* cleanup path).  close_vault does not check for outstanding sessions.
SessionAlwaysSettled ==
  \A a \in Agents : sessions[a] # Absent ~> sessions[a] = Absent

\* open_positions never exceeds max_concurrent_positions (checked by
\* validate_and_authorize for OpenPosition), in a model where the owner
\* never lowers that ceiling.
PositionsWithinLimit ==
  vault # Absent => vault.open_positions <= policy.max_concurrent_positions

\* lib.rs documents close_vault as "Withdraws all remaining funds and closes
\* all PDAs": once the vault is closed it holds no tokens.
ClosedVaultHoldsNoFunds ==
  vault = Absent => \A t \in Tokens : balance[t] = 0

\* Every settlement recorded in a vault's audit log and counters comes from a
\* session that vault granted, not from one of an earlier vault at the same
\* address (closed and re-initialized).
SettlementsBelongToVault ==
  \A i \in 1..Len(audit) : audit[i].incarnation = incarnation

\* lib.rs documents revoke_agent as a kill switch that "immediately freezes
\* the vault, preventing all agent actions": while the vault is frozen, no
\* step records an agent action in its counters (transactions, volume,
\* positions, fees).
FrozenVaultRecordsNoAgentAction ==
  [][vault # Absent /\ vault.status = Frozen /\ vault' # Absent =>
       /\ vault'.total_transactions = vault.total_transactions
       /\ vault'.total_volume = vault.total_volume
       /\ vault'.open_positions = vault.open_positions
       /\ vault'.total_fees_collected = vault.total_fees_collected]_vars

\* Anchor gives each account its space once, at `init`, from the SIZE
\* constants (initialize_vault, validate_and_authorize), and nothing
\* reallocates it.  Every account the program holds, after any sequence of
\* policy updates, bookings and audit records, still serializes into that
\* space; otherwise the instruction that grew it would fail at exit.
AccountsFitTheirSpace ==
  /\ vault # Absent => AgentVaultBytes <= AgentVaultSIZE
  /\ policy # Absent => PolicyConfigBytes(policy) <= PolicyConfigSIZE
  /\ tracker # Absent => SpendTrackerBytes(tracker) <= SpendTrackerSIZE
  /\ \A a \in Agents : sessions[a] # Absent =>
       SessionAuthorityBytes <= SessionAuthoritySIZE
=============================================================================
