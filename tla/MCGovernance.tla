---------------------------- MODULE MCGovernance -----------------------------
(* What governs the contracts, for TLC: the owners' approvals and the prices *)
(* of the oracle, which share no state, side by side: a behaviour is one of  *)
(* one of them, so that their states add up.                                 *)
EXTENDS MultiSignature, BscPledgeOracle

CONSTANTS o1, o2, o3, pool, chainlink

TwoOwners == <<o1, o2>>
SomeAnswers == {-1, 3, 5}   \* a cfg has no negative numbers

VARIABLE part

governanceVars == <<vars, oracleVars, part>>

GovernanceInit ==
  /\ part \in {"approvals", "oracle"} /\ Init /\ OracleInit
  /\ part = "approvals" => answer = [a \in Aggregators |-> 3]

GovernanceNext ==
  /\ UNCHANGED part
  /\ \/ part = "approvals" /\ Next /\ UNCHANGED oracleVars
     \/ part = "oracle" /\ OracleNext /\ UNCHANGED vars

GovernanceSpec == GovernanceInit /\ [][GovernanceNext]_governanceVars
=============================================================================
