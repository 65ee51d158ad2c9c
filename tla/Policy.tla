------------------------------- MODULE Policy -------------------------------
(***************************************************************************)
(* PolicyConfig (state/policy.rs): the owner-authored rule set of a vault  *)
(* and its predicates.  allowed_tokens / allowed_protocols are Vec<Pubkey> *)
(* used only through `contains`, so they are modelled as sets; the length  *)
(* bound of the Vec is checked on the set given as input.                  *)
(***************************************************************************)
EXTENDS Naturals, FiniteSets

CONSTANTS
  MAX_ALLOWED_TOKENS,      \* state/mod.rs: 10
  MAX_ALLOWED_PROTOCOLS,   \* state/mod.rs: 10
  MAX_DEVELOPER_FEE_RATE   \* state/mod.rs: 50 (parts per FEE_RATE_DENOMINATOR)

ASSUME MAX_ALLOWED_TOKENS \in Nat /\ MAX_ALLOWED_PROTOCOLS \in Nat
ASSUME MAX_DEVELOPER_FEE_RATE \in Nat

\* PolicyConfig::is_token_allowed
IsTokenAllowed(policy, mint) == mint \in policy.allowed_tokens

\* PolicyConfig::is_protocol_allowed
IsProtocolAllowed(policy, programId) == programId \in policy.allowed_protocols

\* PolicyConfig::is_leverage_within_limit
IsLeverageWithinLimit(policy, leverageBps) == leverageBps <= policy.max_leverage_bps

\* (An off-by-one form of TokensWithinBound, used as a mutant.)
TokensWithinBoundLoose(tokens) == Cardinality(tokens) <= MAX_ALLOWED_TOKENS + 1

\* The bounds every write of a policy re-validates (initialize_vault and
\* update_policy): list lengths and the developer fee ceiling.
TokensWithinBound(tokens) == Cardinality(tokens) <= MAX_ALLOWED_TOKENS
ProtocolsWithinBound(protocols) == Cardinality(protocols) <= MAX_ALLOWED_PROTOCOLS
FeeRateWithinBound(rate) == rate <= MAX_DEVELOPER_FEE_RATE
=============================================================================
