\* The position ceiling across an agent rotation: the owner never changes
\* max_concurrent_positions (1), yet two OpenPosition sessions can be live at
\* once, one of the revoked agent and one of its successor.
SPECIFICATION Spec
CONSTANTS
  Owner = Owner
  Crank = Crank
  NoAgent = NoAgent
  None = None
  Absent = Absent
  t1 = t1
  t2 = t2
  p1 = p1
  Agents = {a1, a2}
  Tokens = {t1}
  Protocols = {p1}
  ActionTypes <- MC_ActionTypes
  PolicyUpdates <- MC_SettleUpdates
  MAX_ALLOWED_TOKENS = 1
  MAX_ALLOWED_PROTOCOLS = 1
  MAX_DEVELOPER_FEE_RATE = 3
  SESSION_EXPIRY_SLOTS = 1
  ROLLING_WINDOW_SECONDS = 1
  MAX_SPEND_ENTRIES = 3
  MAX_RECENT_TRANSACTIONS = 2
  U64_MAX = 4
  U8_MAX = 2
  FEE_RATE_DENOMINATOR = 4
  PROTOCOL_FEE_RATE = 2
  Amounts = {1, 2}
  Caps = {3}
  TxSizes = {2}
  TokenSets = {{t1}}
  ProtocolSets = {{p1}}
  Leverages = {1}
  MaxLeverages = {0}
  MaxPositions = {1}
  DevFeeRates = {0}
  DepositAmounts = {}
  MaxSlot = 2
  MaxTime = 0
  MaxIncarnations = 1
  MaxBalance = 0
INVARIANT
  PositionsWithinLimit
CHECK_DEADLOCK FALSE
