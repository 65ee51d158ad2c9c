\* revoke_agent as a kill switch: one agent, swaps only; the agent is
\* revoked while its session is outstanding.
SPECIFICATION Spec
CONSTANTS
  Owner = Owner
  Crank = Crank
  NoAgent = NoAgent
  None = None
  Absent = Absent
  t1 = t1
  t2 = t2
  p1 = p1
  Agents = {a1}
  Tokens = {t1}
  Protocols = {p1}
  ActionTypes <- MC_SwapOnly
  PolicyUpdates <- MC_SettleUpdates
  MAX_ALLOWED_TOKENS = 1
  MAX_ALLOWED_PROTOCOLS = 1
  MAX_DEVELOPER_FEE_RATE = 3
  SESSION_EXPIRY_SLOTS = 1
  ROLLING_WINDOW_SECONDS = 1
  MAX_SPEND_ENTRIES = 3
  MAX_RECENT_TRANSACTIONS = 2
  U64_MAX = 4
  U8_MAX = 2
  FEE_RATE_DENOMINATOR = 4
  PROTOCOL_FEE_RATE = 2
  Amounts = {1, 2}
  Caps = {3}
  TxSizes = {2}
  TokenSets = {{t1}}
  ProtocolSets = {{p1}}
  Leverages = {1}
  MaxLeverages = {0}
  MaxPositions = {1}
  DevFeeRates = {0, 3}
  DepositAmounts = {2}
  MaxSlot = 2
  MaxTime = 0
  MaxIncarnations = 1
  MaxBalance = 2
PROPERTY
  FrozenVaultRecordsNoAgentAction
CHECK_DEADLOCK FALSE
