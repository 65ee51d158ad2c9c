\* The session capability: the bounds of the settle run, under which
\* sessions are granted, rotated, settled by agents and by the crank, and
\* expire.
SPECIFICATION Spec
CONSTANTS
  Owner = Owner
  Crank = Crank
  NoAgent = NoAgent
  None = None
  Absent = Absent
  t1 = t1
  t2 = t2
  p1 = p1
  Agents = {a1, a2}
  Tokens = {t1}
  Protocols = {p1}
  ActionTypes <- MC_ActionTypes
  PolicyUpdates <- MC_SettleUpdates
  MAX_ALLOWED_TOKENS = 1
  MAX_ALLOWED_PROTOCOLS = 1
  MAX_DEVELOPER_FEE_RATE = 3
  SESSION_EXPIRY_SLOTS = 1
  ROLLING_WINDOW_SECONDS = 1
  MAX_SPEND_ENTRIES = 3
  MAX_RECENT_TRANSACTIONS = 2
  U64_MAX = 4
  U8_MAX = 2
  FEE_RATE_DENOMINATOR = 4
  PROTOCOL_FEE_RATE = 2
  Amounts = {1, 2}
  Caps = {3}
  TxSizes = {2}
  TokenSets = {{t1}}
  ProtocolSets = {{p1}}
  Leverages = {1}
  MaxLeverages = {0}
  MaxPositions = {1}
  DevFeeRates = {0, 3}
  DepositAmounts = {2}
  MaxSlot = 2
  MaxTime = 0
  MaxIncarnations = 1
  MaxBalance = 2
PROPERTIES
  CapabilityRefined
CHECK_DEADLOCK FALSE
