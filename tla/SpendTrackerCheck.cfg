\* The tracker operators against their references: two mints, amounts 1
\* and 3 (so sums overflow a u64 of 4), timestamps 0..3 across a window of
\* one second, a three-entry ledger and a two-record ring.
SPECIFICATION Spec
CONSTANTS
  Tokens = {t1, t2}
  Amounts = {1, 3}
  MaxTime = 3
  Records = {r1, r2, r3}
  ROLLING_WINDOW_SECONDS = 1
  MAX_SPEND_ENTRIES = 3
  MAX_RECENT_TRANSACTIONS = 2
  U64_MAX = 4
INVARIANTS
  RollingSpendMatchesSpec
  RecordSpendMatchesSpec
  RecordTransactionMatchesSpec
