---------------------------- MODULE RollingBudget ----------------------------
(***************************************************************************)
(* What the rolling spend ledger promises (spec.md sections 3 and 4.2),     *)
(* with no pruning, no capacity and no storage.                            *)
(* - `live` holds exactly the spends of the trailing window, oldest first.  *)
(* - A spend of a token is admitted only if that token's live spends plus  *)
(*   the new amount stay within the cap in force.                           *)
(* - Entries leave the window only as time passes.                         *)
(* - Closing the budget forgets it.                                         *)
(* An implementation may refuse any spend (capacity, other checks); it may *)
(* never admit one this specification forbids, nor forget a live one.      *)
(***************************************************************************)
EXTENDS Integers, Sequences
LOCAL INSTANCE SequencesExt

CONSTANTS
  Tokens,    \* token mints
  Amounts,   \* the amounts a spend may book
  WINDOW,    \* length of the trailing window, in seconds
  NoCap      \* the budget does not exist (no vault)

VARIABLES
  live,      \* the spends within the window ending at `now`, oldest first
  now,       \* the current time
  cap        \* the cap in force, or NoCap

bvars == <<live, now, cap>>

\* An entry counts while its timestamp is at or after now - WINDOW: "an
\* entry exactly at now - 86400 is included, one unit older is excluded".
Counts(e, t) == t - WINDOW <= e.timestamp

\* The amount of `token` spent within the window.
Spent(token) ==
  FoldLeft(LAMBDA acc, e : acc + e.amount_spent, 0,
           SelectSeq(live, LAMBDA e : e.token_mint = token))

Init == live = <<>> /\ now = 0 /\ cap = NoCap

\* A budget comes into being with a cap and no spends.
Open ==
  /\ cap = NoCap /\ cap' # NoCap
  /\ UNCHANGED <<live, now>>

\* The owner changes the cap; spends already booked stay booked.
SetCap ==
  /\ cap # NoCap /\ cap' # NoCap
  /\ UNCHANGED <<live, now>>

\* A spend is booked at the current time if it keeps its token within cap.
Spend ==
  \E t \in Tokens, amount \in Amounts :
    /\ cap # NoCap
    /\ Spent(t) + amount <= cap
    /\ live' = Append(live, [token_mint |-> t, amount_spent |-> amount,
                             timestamp |-> now])
    /\ UNCHANGED <<now, cap>>

\* Time moves forward; exactly the spends older than the window leave it.
Advance ==
  /\ now' >= now
  /\ live' = SelectSeq(live, LAMBDA e : Counts(e, now'))
  /\ UNCHANGED cap

\* The budget is closed and everything it held is forgotten.
Close ==
  /\ cap # NoCap /\ cap' = NoCap
  /\ live' = <<>>
  /\ UNCHANGED now

Next == Open \/ SetCap \/ Spend \/ Advance \/ Close

Spec == Init /\ [][Next]_bvars
=============================================================================
