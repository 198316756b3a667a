---------------------------- MODULE MCPledgePool ----------------------------
(* Instances of PledgePool for TLC: the pools that may be created.          *)
EXTENDS PledgePool, TLC

CONSTANTS busd, btc, spA, jpA, spB, jpB

Symmetry == Permutations(Users)

\* Prices with an exact ratio at BaseDecimal: btc at half of busd or at double.
ExactPrices == [t \in Tokens |-> IF t = btc THEN {1, 4} ELSE {2}]

\* Settled after time 1 and ended after time 2, at 150% when BaseDecimal is 4,
\* with a quarter of the loan as interest.
poolA == [settleTime |-> 1, endTime |-> 2, interestRate |-> 1, maxSupply |-> 5,
          martgageRate |-> 6, lendToken |-> busd, borrowToken |-> btc,
          spCoin |-> spA, jpCoin |-> jpA, autoLiquidateThreshold |-> 1]
\* The mirror image: lends what poolA takes as collateral.
poolB == [poolA EXCEPT !.lendToken = btc, !.borrowToken = busd,
                       !.spCoin = spB, !.jpCoin = jpB]
\* Both tokens at the same price, so that either pool makes a loan.
ParPrices == [t \in Tokens |-> {2}]
\* Prices whose ratio BaseDecimal truncates, and prices the oracle has not set.
RoughPrices == [t \in Tokens |-> IF t = btc THEN {0, 2, 5} ELSE {0, 3}]
OnePool == {poolA}
LargePool == {[poolA EXCEPT !.maxSupply = 8, !.interestRate = 6]}
\* Two pools that share the debt coins too.
SharedPools == {poolA, [poolA EXCEPT !.maxSupply = 3]}
MirroredPools == {poolA, poolB}
=============================================================================
