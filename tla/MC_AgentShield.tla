--------------------------- MODULE MC_AgentShield ---------------------------
(***************************************************************************)
(* Model-checking instance of AgentShield.  The program's constants are    *)
(* scaled down in the cfg files so that their boundaries are reached       *)
(* within a few steps: a 1-second window, a 2-entry ledger and audit ring, *)
(* a 1-slot session lifetime, and a u64 of 4 so that every checked_add can *)
(* overflow.  The fee rates keep the program's order (protocol < developer *)
(* maximum < denominator) so that a small amount pays no fee and a larger  *)
(* one pays both.                                                          *)
(***************************************************************************)
EXTENDS AgentShield

CONSTANTS t1, t2, p1

\* Swap stands for every action type that leaves open_positions unchanged.
MC_ActionTypes == {"Swap", "OpenPosition", "ClosePosition"}
MC_SwapOnly == {"Swap"}

\* An update_policy call that supplies no field.
NoChange ==
  [daily_spending_cap |-> None, max_transaction_size |-> None,
   allowed_tokens |-> None, allowed_protocols |-> None,
   max_leverage_bps |-> None, can_open_positions |-> None,
   max_concurrent_positions |-> None, developer_fee_rate |-> None]

\* update_policy calls for the ledger run: switching the whitelisted token
\* (so that the ledger holds spends of two mints), lowering and restoring the
\* cap, and a call that must fail as a whole: two tokens (over
\* MAX_ALLOWED_TOKENS) together with a cap change.
MC_LedgerUpdates ==
  { [NoChange EXCEPT !.allowed_tokens = {t1}],
    [NoChange EXCEPT !.allowed_tokens = {t2}],
    [NoChange EXCEPT !.daily_spending_cap = 2],
    [NoChange EXCEPT !.daily_spending_cap = 3],
    [NoChange EXCEPT !.allowed_tokens = {t1, t2}, !.daily_spending_cap = 2] }

\* update_policy calls for the settlement runs: toggling position opening and
\* the developer fee, and a fee over MAX_DEVELOPER_FEE_RATE together with a
\* change to position opening, which must fail as a whole.
MC_SettleUpdates ==
  { [NoChange EXCEPT !.can_open_positions = FALSE],
    [NoChange EXCEPT !.can_open_positions = TRUE],
    [NoChange EXCEPT !.developer_fee_rate = 0],
    [NoChange EXCEPT !.developer_fee_rate = 3],
    [NoChange EXCEPT !.developer_fee_rate = 4, !.can_open_positions = FALSE] }
=============================================================================
