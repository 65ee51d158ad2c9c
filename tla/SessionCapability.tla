-------------------------- MODULE SessionCapability --------------------------
(***************************************************************************)
(* What the session capability promises (spec.md 4.3, 4.5 and 5), without  *)
(* accounts, fees or counters.                                             *)
(* - Each agent holds at most one grant.                                   *)
(* - A grant is written once: its fields never change while it is held,    *)
(*   and it expires a fixed number of slots after it was granted.          *)
(* - A grant is consumed exactly once, by a settlement that names it.      *)
(* - A settlement before the grant's expiry is made by its holder; one     *)
(*   after it is a failure, whoever makes it.                              *)
(* `settled` is the latest settlement the vault has recorded; the record   *)
(* is forgotten when the vault's log starts afresh.                        *)
(***************************************************************************)
EXTENDS Naturals

CONSTANTS
  Agents,    \* agent keys
  EXPIRY,    \* slots a grant lives
  None,      \* no settlement recorded
  Absent     \* no grant held

VARIABLES
  grant,     \* agent -> the grant it holds, or Absent
  settled,   \* [grant, payer, success] of the latest settlement, or None
  slot       \* the cluster's slot

capvars == <<grant, settled, slot>>

Init ==
  /\ grant = [a \in Agents |-> Absent]
  /\ settled = None
  /\ slot = 0

\* Agent a, holding nothing, is granted a capability for a positive amount
\* that expires EXPIRY slots from now.  No other grant changes.
Grant(a) ==
  /\ grant[a] = Absent
  /\ grant'[a] # Absent
  /\ grant'[a].agent = a
  /\ grant'[a].amount > 0
  /\ grant'[a].expires_at_slot = slot + EXPIRY
  /\ grant' = [grant EXCEPT ![a] = grant'[a]]
  /\ UNCHANGED <<settled, slot>>

\* The grant of agent a is consumed and the settlement records it.  Up to
\* its expiry slot only the holder may settle; after it the outcome is
\* failure.
Settle(a) ==
  /\ grant[a] # Absent
  /\ grant' = [grant EXCEPT ![a] = Absent]
  /\ settled' # None
  /\ settled'.grant = grant[a]
  /\ slot <= grant[a].expires_at_slot => settled'.payer = a
  /\ slot > grant[a].expires_at_slot => ~settled'.success
  /\ UNCHANGED slot

\* The vault's log starts afresh (the vault is created again).
Forget ==
  /\ settled' = None
  /\ UNCHANGED <<grant, slot>>

\* One slot passes.
Tick ==
  /\ slot' = slot + 1
  /\ UNCHANGED <<grant, settled>>

Next == (\E a \in Agents : Grant(a) \/ Settle(a)) \/ Forget \/ Tick

Spec == Init /\ [][Next]_capvars
=============================================================================
