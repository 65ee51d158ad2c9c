\* The tracker, the policy cap and the clock implement RollingBudget: one
\* agent, two mints, the vault closed and re-created once.
SPECIFICATION Spec
CONSTANTS
  Owner = Owner
  Crank = Crank
  NoAgent = NoAgent
  None = None
  Absent = Absent
  t1 = t1
  t2 = t2
  p1 = p1
  Agents = {a1}
  Tokens = {t1, t2}
  Protocols = {p1}
  ActionTypes <- MC_SwapOnly
  PolicyUpdates <- MC_LedgerUpdates
  MAX_ALLOWED_TOKENS = 1
  MAX_ALLOWED_PROTOCOLS = 1
  MAX_DEVELOPER_FEE_RATE = 3
  SESSION_EXPIRY_SLOTS = 1
  ROLLING_WINDOW_SECONDS = 1
  MAX_SPEND_ENTRIES = 2
  MAX_RECENT_TRANSACTIONS = 2
  U64_MAX = 4
  U8_MAX = 2
  FEE_RATE_DENOMINATOR = 4
  PROTOCOL_FEE_RATE = 2
  Amounts = {1, 2}
  Caps = {3}
  TxSizes = {2}
  TokenSets = {{t1}}
  ProtocolSets = {{p1}}
  Leverages = {1}
  MaxLeverages = {0}
  MaxPositions = {1}
  DevFeeRates = {0}
  DepositAmounts = {}
  MaxSlot = 3
  MaxTime = 2
  MaxIncarnations = 2
  MaxBalance = 0
PROPERTIES
  BudgetRefined
CHECK_DEADLOCK FALSE
