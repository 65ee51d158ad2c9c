---------------------------- MODULE AccountSpace -----------------------------
(***************************************************************************)
(* The bytes each account occupies and the bytes it is given.             *)
(* Anchor allocates an account once, at `init`, with `space = X::SIZE`,    *)
(* and this program never reallocates one: every later write must          *)
(* serialize into that space.  The encoded size of an account is taken    *)
(* from its struct's fields under Borsh (a Pubkey is 32 bytes, an integer  *)
(* its width, a bool or a unit enum 1 byte, a Vec a 4-byte length and its  *)
(* elements) plus Anchor's 8-byte discriminator.  The allocated size is    *)
(* the SIZE constant as the code writes it, at the model's capacities.     *)
(***************************************************************************)
EXTENDS Naturals, Sequences, FiniteSets, Policy, SpendTracker

\* Borsh widths.
PUBKEY == 32
U64 == 8
I64 == 8
U16 == 2
U8 == 1
BOOL == 1
ENUM == 1              \* VaultStatus and ActionType have only unit variants
VEC_PREFIX == 4
DISCRIMINATOR == 8

VecBytes(n, elem) == VEC_PREFIX + n * elem

-----------------------------------------------------------------------------
(* Encoded sizes, from the struct definitions.                             *)

SpendEntryBytes == PUBKEY + U64 + I64

TransactionRecordBytes == I64 + ENUM + PUBKEY + U64 + PUBKEY + BOOL + U64

\* owner, agent, fee_destination, vault_id, status, bump, created_at,
\* total_transactions, total_volume, open_positions, total_fees_collected
AgentVaultBytes ==
  DISCRIMINATOR + 3 * PUBKEY + U64 + ENUM + U8 + I64 + U64 + U64 + U8 + U64

\* vault, cap, max tx, the two lists, leverage, can_open, max positions,
\* developer fee rate, bump
PolicyConfigBytes(p) ==
  DISCRIMINATOR + PUBKEY + U64 + U64
    + VecBytes(Cardinality(p.allowed_tokens), PUBKEY)
    + VecBytes(Cardinality(p.allowed_protocols), PUBKEY)
    + U16 + BOOL + U8 + U16 + U8

SpendTrackerBytes(t) ==
  DISCRIMINATOR + PUBKEY
    + VecBytes(Len(t.rolling_spends), SpendEntryBytes)
    + VecBytes(Len(t.recent_transactions), TransactionRecordBytes)
    + U8

\* vault, agent, authorized, amount, token, protocol, action_type,
\* expires_at_slot, bump
SessionAuthorityBytes ==
  DISCRIMINATOR + PUBKEY + PUBKEY + BOOL + U64 + PUBKEY + PUBKEY + ENUM
    + U64 + U8

-----------------------------------------------------------------------------
(* The SIZE constants, as written in state/*.rs.                           *)

SpendEntrySIZE == 32 + 8 + 8

TransactionRecordSIZE == 8 + 1 + 32 + 8 + 32 + 1 + 8

AgentVaultSIZE == 8 + 32 + 32 + 32 + 8 + 1 + 1 + 8 + 8 + 8 + 1 + 8

PolicyConfigSIZE ==
  8 + 32 + 8 + 8 + (4 + 32 * MAX_ALLOWED_TOKENS)
    + (4 + 32 * MAX_ALLOWED_PROTOCOLS) + 2 + 1 + 1 + 2 + 1

\* A SIZE that forgets the length prefix of recent_transactions.
SpendTrackerSIZENoRingPrefix ==
  8 + 32 + (4 + SpendEntrySIZE * MAX_SPEND_ENTRIES)
    + (TransactionRecordSIZE * MAX_RECENT_TRANSACTIONS) + 1

SpendTrackerSIZE ==
  8 + 32 + (4 + SpendEntrySIZE * MAX_SPEND_ENTRIES)
    + (4 + TransactionRecordSIZE * MAX_RECENT_TRANSACTIONS) + 1

SessionAuthoritySIZE == 8 + 32 + 32 + 1 + 8 + 32 + 32 + 1 + 8 + 1
=============================================================================
