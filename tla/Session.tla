------------------------------- MODULE Session ------------------------------
(***************************************************************************)
(* SessionAuthority (state/session.rs): the single-use capability created  *)
(* by validate_and_authorize and consumed by finalize_session.             *)
(***************************************************************************)
EXTENDS Naturals

CONSTANT SESSION_EXPIRY_SLOTS   \* state/mod.rs: 20

ASSUME SESSION_EXPIRY_SLOTS \in Nat

\* SessionAuthority::is_expired
IsExpired(session, currentSlot) == currentSlot > session.expires_at_slot

\* SessionAuthority::calculate_expiry.  The saturating add only matters at
\* slot 2^64 - 20, which the model's slot bound never approaches.
CalculateExpiry(currentSlot) == currentSlot + SESSION_EXPIRY_SLOTS
=============================================================================
