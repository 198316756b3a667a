----------------------------- MODULE PledgeMath -----------------------------
(***************************************************************************)
(* The fixed-point arithmetic of PledgePool.sol: every division truncates,  *)
(* as SafeMath's does, and a division by zero or a negative difference      *)
(* reverts the transaction, so each partial computation comes with a        *)
(* predicate that says when it is defined.                                  *)
(***************************************************************************)
EXTENDS Integers

CONSTANTS
  CalDecimal,   \* 1e18, the unit of a user's share and of a price ratio
  BaseDecimal,  \* 1e8, the unit of a rate or a fee
  BaseYear      \* 365 days, the unit of the interest period

ASSUME UnitsAssumption ==
  /\ CalDecimal \in Nat \ {0}
  /\ BaseDecimal \in Nat \ {0}
  /\ BaseYear \in Nat \ {0}

\* A user's share of the pool's supply, and what a share of a total is worth.
userShare(stake, supply) == (stake * CalDecimal) \div supply
Portion(total, share) == (total * share) \div CalDecimal

\* What a stake entitles to out of a total, in the two truncating steps of the code.
Entitled(total, stake, supply) == Portion(total, userShare(stake, supply))

\* The value of an amount of borrowToken in lendToken, at the prices
\* p0 of lendToken and p1 of borrowToken.
totalValue(amount, p0, p1) == (amount * ((p1 * CalDecimal) \div p0)) \div CalDecimal

\* The loan that value supports at the pool's mortgage rate.
actualValue(amount, p0, p1, rate) == (totalValue(amount, p0, p1) * BaseDecimal) \div rate

\* borrowToken per lendToken at the coarse precision of BaseDecimal.
priceRatio(p0, p1) == (p1 * BaseDecimal) \div p0

\* The divisions of settle() that would revert it.
SettleDefined(lend, borrow, p0, p1, rate) ==
  /\ p0 > 0
  /\ rate > 0
  /\ \/ lend > actualValue(borrow, p0, p1, rate)
     \/ priceRatio(p0, p1) > 0

\* A faulty settlement lends every deposit, whatever the collateral is worth.
SettleAll(lend, borrow, p0, p1, rate) ==
  IF lend > actualValue(borrow, p0, p1, rate)
  THEN [lend |-> lend, borrow |-> borrow]
  ELSE [lend |-> lend, borrow |-> (lend * rate) \div priceRatio(p0, p1)]

\* The lend and borrow amounts that settle() matches.
SettleAmounts(lend, borrow, p0, p1, rate) ==
  IF lend > actualValue(borrow, p0, p1, rate)
  THEN [lend |-> actualValue(borrow, p0, p1, rate), borrow |-> borrow]
  ELSE [lend |-> lend, borrow |-> (lend * rate) \div priceRatio(p0, p1)]

\* Interest on a settled loan over the pool's term; 1e16 is BaseDecimal squared.
timeRatio(pool) == ((pool.endTime - pool.settleTime) * BaseDecimal) \div BaseYear
interest(pool, settled) ==
  (timeRatio(pool) * (pool.interestRate * settled)) \div (BaseDecimal * BaseDecimal)
lendAmount(pool, settled) == settled + interest(pool, settled)

\* What the pool asks the router for: the loan, its interest and the lend fee.
sellAmount(owed, fee) == (owed * (fee + BaseDecimal)) \div BaseDecimal

\* The part of an amount redeemFees() sends to the fee address.
feeOf(amount, ratio) == (amount * ratio) \div BaseDecimal

\* The jp supply a settled loan stands for.
totalJpAmount(settled, rate) == (settled * rate) \div BaseDecimal

\* The test of checkoutLiquidate(): the collateral no longer covers the loan
\* and the threshold.
belowThreshold(data, pool, p0, p1) ==
  totalValue(data.settleAmountBorrow, p0, p1)
    < (data.settleAmountLend * (BaseDecimal + pool.autoLiquidateThreshold)) \div BaseDecimal
=============================================================================
