----------------------------- MODULE Committee ------------------------------
(***************************************************************************)
(* What the multi-signature contract promises its clients: a committee of   *)
(* seated owners votes on applications, an application for which a quorum   *)
(* of votes stands is approved, and only approved calls take effect.        *)
(***************************************************************************)
EXTENDS Integers

CONSTANTS
  Accounts,      \* externally owned accounts
  Hashes,        \* what can be applied for: a caller and a called contract
  OwnerHash,     \* for each account, the hash under which it may reseat the committee
  InitialSeats,  \* the owners the committee starts with, by seat
  Quorums        \* the sets of accounts whose votes approve an application

VARIABLES
  seats,    \* the owner in each seat
  applied,  \* the hashes that have an application
  votes,    \* the owners whose vote for a hash stands
  calls     \* the approved calls made under a hash

vars == <<seats, applied, votes, calls>>

Init ==
  /\ seats = InitialSeats
  /\ applied = {}
  /\ votes = [h \in Hashes |-> {}]
  /\ calls = [h \in Hashes |-> 0]

Seated(o) == \E i \in DOMAIN seats : seats[i] = o
Approved(h) == h \in applied /\ votes[h] \in Quorums

Apply(h) ==
  /\ applied' = applied \cup {h}
  /\ UNCHANGED <<seats, votes, calls>>

Vote(o, h) ==
  /\ Seated(o) /\ h \in applied
  /\ votes' = [votes EXCEPT ![h] = @ \cup {o}]
  /\ UNCHANGED <<seats, applied, calls>>

Withdraw(o, h) ==
  /\ Seated(o) /\ h \in applied
  /\ votes' = [votes EXCEPT ![h] = @ \ {o}]
  /\ UNCHANGED <<seats, applied, calls>>

Reseat(o, i, successor) ==
  /\ Seated(o) /\ Approved(OwnerHash[o])
  /\ seats' = [seats EXCEPT ![i] = successor]
  /\ UNCHANGED <<applied, votes, calls>>

Call(h) ==
  /\ Approved(h)
  /\ calls' = [calls EXCEPT ![h] = @ + 1]
  /\ UNCHANGED <<seats, applied, votes>>

Next ==
  \/ \E h \in Hashes : Apply(h) \/ Call(h)
  \/ \E o \in Accounts, h \in Hashes : Vote(o, h) \/ Withdraw(o, h)
  \/ \E o, successor \in Accounts, i \in DOMAIN seats : Reseat(o, i, successor)

Spec == Init /\ [][Next]_vars
=============================================================================
