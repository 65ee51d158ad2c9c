-------------------------- MODULE SpendTrackerCheck --------------------------
(***************************************************************************)
(* The SpendTracker operators against reference definitions, for every    *)
(* ledger and ring the program can hold within the bounds.  The references *)
(* are written from spec.md sections 4.2 and 5, with sets of indices and   *)
(* sums over sets, and share no operator with state/tracker.rs's model.    *)
(* The state is the input: the ledger and ring at rest and the clock.      *)
(* Ledger entries were appended in time order, none in the future, and     *)
(* dead ones may still be stored.                                          *)
(***************************************************************************)
EXTENDS Integers, Sequences, FiniteSets, SpendTracker
LOCAL INSTANCE SequencesExt

CONSTANTS
  Tokens,    \* token mints
  Amounts,   \* spend amounts
  MaxTime,   \* timestamps range over 0..MaxTime
  Records    \* audit records, as model values

VARIABLES
  ledger,    \* SpendTracker::rolling_spends
  ring,      \* SpendTracker::recent_transactions
  now        \* Clock::unix_timestamp

cvars == <<ledger, ring, now>>

Entries == [token_mint : Tokens, amount_spent : Amounts, timestamp : 0..MaxTime]

\* The ledgers the program can store at time t.
Ledgers(t) ==
  {s \in BoundedSeq(Entries, MAX_SPEND_ENTRIES) :
     \A i \in DOMAIN s : /\ s[i].timestamp <= t
                         /\ i > 1 => s[i-1].timestamp <= s[i].timestamp}

Init ==
  /\ now \in 0..MaxTime
  /\ ledger \in Ledgers(now)
  /\ ring \in BoundedSeq(Records, MAX_RECENT_TRANSACTIONS)

Next == UNCHANGED cvars

Spec == Init /\ [][Next]_cvars

-----------------------------------------------------------------------------
(* References.                                                             *)

\* Indices of the entries still in the window, boundary included (spec 5).
LiveIdx == {i \in DOMAIN ledger : ledger[i].timestamp >= now - ROLLING_WINDOW_SECONDS}

\* The live entries, in stored order.
RefLive ==
  LET idx == SetToSortSeq(LiveIdx, LAMBDA a, b : a < b)
  IN [k \in DOMAIN idx |-> ledger[idx[k]]]

\* The sum of the live amounts of a token.
RefSpent(t) ==
  MapThenSumSet(LAMBDA i : ledger[i].amount_spent,
                {i \in LiveIdx : ledger[i].token_mint = t})

\* The ring after one push: the newest MAX_RECENT_TRANSACTIONS records of
\* the stored ones followed by the new one, oldest first.
RefRing(r) ==
  LET all == Append(ring, r)
      n == Len(all)
  IN [k \in 1..Min({n, MAX_RECENT_TRANSACTIONS}) |->
        all[n - Min({n, MAX_RECENT_TRANSACTIONS}) + k]]

-----------------------------------------------------------------------------
(* Properties.                                                             *)

\* get_rolling_spend returns the sum of the token's live amounts, fails
\* with Overflow exactly when that sum exceeds u64, and leaves exactly the
\* live entries stored (its prune is a mutation).
RollingSpendMatchesSpec ==
  \A t \in Tokens :
    LET r == GetRollingSpend(ledger, t, now)
    IN /\ r.total = RefSpent(t)
       /\ r.overflow = (RefSpent(t) > U64_MAX)
       /\ r.spends = RefLive

\* record_spend fails with TooManySpendEntries exactly when the live
\* entries fill the ledger, never because dead entries do; otherwise it
\* stores the live entries followed by the new one.
RecordSpendMatchesSpec ==
  \A t \in Tokens, a \in Amounts :
    LET r == RecordSpend(ledger, t, a, now)
    IN /\ r.ok = (Cardinality(LiveIdx) < MAX_SPEND_ENTRIES)
       /\ r.ok => r.spends = Append(RefLive, [token_mint |-> t,
                                              amount_spent |-> a,
                                              timestamp |-> now])

\* record_transaction keeps the newest MAX_RECENT_TRANSACTIONS records,
\* oldest first.
RecordTransactionMatchesSpec ==
  \A r \in Records : RecordTransaction(ring, r) = RefRing(r)
=============================================================================
