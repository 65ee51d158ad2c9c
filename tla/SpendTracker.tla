---------------------------- MODULE SpendTracker ----------------------------
(***************************************************************************)
(* SpendTracker (state/tracker.rs): the rolling 24h spend ledger and the   *)
(* audit ring buffer of one vault, as pure operators on its two vectors.   *)
(* A SpendEntry is [token_mint, amount_spent, timestamp]; a                *)
(* TransactionRecord keeps the fields the audit properties tell apart.     *)
(***************************************************************************)
EXTENDS Integers, Sequences
LOCAL INSTANCE SequencesExt

CONSTANTS
  ROLLING_WINDOW_SECONDS,   \* state/mod.rs: 86_400
  MAX_SPEND_ENTRIES,        \* state/mod.rs: 100
  MAX_RECENT_TRANSACTIONS,  \* state/mod.rs: 50
  U64_MAX                   \* largest u64 of the model's arithmetic

ASSUME ROLLING_WINDOW_SECONDS \in Nat /\ U64_MAX \in Nat
ASSUME MAX_SPEND_ENTRIES \in Nat \ {0} /\ MAX_RECENT_TRANSACTIONS \in Nat \ {0}

\* Mutant: a strict comparison, so an entry exactly one window old is dropped.
PruneStrict(spends, now) ==
  SelectSeq(spends, LAMBDA e : e.timestamp > now - ROLLING_WINDOW_SECONDS)

\* The `retain` both get_rolling_spend and record_spend start with: keep the
\* entries whose timestamp is at or after now - ROLLING_WINDOW_SECONDS.
Prune(spends, now) ==
  SelectSeq(spends, LAMBDA e : e.timestamp >= now - ROLLING_WINDOW_SECONDS)

\* The try_fold of get_rolling_spend: the sum of this token's amounts.  The
\* fold's checked_add fails exactly when this sum exceeds U64_MAX, because
\* every partial sum of non-negative amounts is at most the total.
TokenSpend(spends, mint) ==
  FoldLeft(LAMBDA acc, e : acc + e.amount_spent, 0,
           SelectSeq(spends, LAMBDA e : e.token_mint = mint))

\* Mutant: the sum leaves out the entries exactly one window old, although
\* the prune keeps them.
GetRollingSpendStrict(spends, mint, now) ==
  LET live == Prune(spends, now)
  IN [spends |-> live, total |-> TokenSpend(PruneStrict(live, now), mint),
      overflow |-> TokenSpend(live, mint) > U64_MAX]

\* get_rolling_spend: prune, then sum.  Returns the pruned vector (the prune
\* is a mutation) and the total; `overflow` is the Overflow error.
GetRollingSpend(spends, mint, now) ==
  LET live == Prune(spends, now)
  IN [spends |-> live, total |-> TokenSpend(live, mint),
      overflow |-> TokenSpend(live, mint) > U64_MAX]

\* Mutant: when the pruned ledger is full, evict its oldest entry instead of
\* failing with TooManySpendEntries.
RecordSpendEvictOldest(spends, mint, amount, now) ==
  LET live == Prune(spends, now)
      entry == [token_mint |-> mint, amount_spent |-> amount, timestamp |-> now]
  IN [ok |-> TRUE,
      spends |-> IF Len(live) < MAX_SPEND_ENTRIES THEN Append(live, entry)
                 ELSE Append(Tail(live), entry)]

\* record_spend: prune, fail with TooManySpendEntries when the window is
\* still full, otherwise append.  `ok` is FALSE on the error.
RecordSpend(spends, mint, amount, now) ==
  LET live == Prune(spends, now)
  IN IF Len(live) < MAX_SPEND_ENTRIES
     THEN [ok |-> TRUE,
           spends |-> Append(live, [token_mint |-> mint,
                                    amount_spent |-> amount,
                                    timestamp |-> now])]
     ELSE [ok |-> FALSE, spends |-> spends]

\* Mutant: evict only once the ring holds more than its capacity.
RecordTransactionLate(txs, record) ==
  IF Len(txs) > MAX_RECENT_TRANSACTIONS
  THEN Append(Tail(txs), record)
  ELSE Append(txs, record)

\* record_transaction: evict index 0 when the ring is full, then push.
RecordTransaction(txs, record) ==
  IF Len(txs) >= MAX_RECENT_TRANSACTIONS
  THEN Append(Tail(txs), record)
  ELSE Append(txs, record)
=============================================================================
