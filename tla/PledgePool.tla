----------------------------- MODULE PledgePool -----------------------------
(***************************************************************************)
(* The lending contract PledgePool.sol: pools that collect deposits until   *)
(* their settle time, are settled against an oracle price, run to their end *)
(* or to liquidation, and pay lenders and borrowers out of the one balance  *)
(* the contract holds in each token.                                        *)
(*                                                                          *)
(* One action is one transaction: it either takes the whole effect of the   *)
(* function or, when a require or an arithmetic check fails, is no step.    *)
(* Functions under validCall are taken by an approved caller (approval is   *)
(* the business of MultiSignature); depositBorrow, which the contract's     *)
(* event and bindings name and its source lacks, exists when BorrowDeposits *)
(* is TRUE.                                                                 *)
(***************************************************************************)
EXTENDS PledgeMath, Sequences, FiniteSetsExt

CONSTANTS
  Users,           \* externally owned accounts
  Tokens,          \* ERC20 tokens that pools lend and take as collateral
  DebtCoins,       \* sp and jp token contracts
  Addresses,       \* candidates for the swap router and the fee address
  Terms,           \* arguments createPoolInfo may be called with
  Prices,          \* the prices the oracle may report for each token
  Amounts,         \* amounts a user may deposit
  Fees,            \* fees setFee may be given
  MinAmounts,      \* values setMinAmount may be given
  Costs,           \* the collateral a swap may take, in amounts of borrowToken
  Slippage,        \* how far a swap's proceeds may be from the ordered amount
  BorrowDeposits,  \* whether collateral can be deposited
  MaxPledge,       \* bound on a pool's collateral
  MaxTime,         \* bound on the block time explored
  MaxPools         \* bound on the number of pools

ASSUME PoolAssumption ==
  /\ IsFiniteSet(Users)
  /\ Amounts \subseteq Nat /\ Prices \in [Tokens -> SUBSET Nat]
  /\ Fees \subseteq Nat /\ MinAmounts \subseteq Nat /\ Costs \subseteq Nat \ {0}
  /\ Slippage \in Nat /\ MaxPledge \in Nat /\ MaxTime \in Nat /\ MaxPools \in Nat
  /\ BorrowDeposits \in BOOLEAN
  /\ Addresses # {} /\ MinAmounts # {}
  /\ Terms \subseteq [settleTime : Nat, endTime : Nat, interestRate : Nat, maxSupply : Nat,
                      martgageRate : Nat, lendToken : Tokens, borrowToken : Tokens,
                      spCoin : DebtCoins, jpCoin : DebtCoins, autoLiquidateThreshold : Nat]

VARIABLES
  now,             \* block.timestamp
  globalPaused, lendFee, borrowFee, minAmount, swapRouter, feeAddress,
  announced,       \* the address the last SetSwapRouterAddress / SetFeeAddress event named
  poolBaseInfo, poolDataInfo,
  userLendInfo, userBorrowInfo,
  debt,            \* balances of the sp and jp coins
  balance,         \* the contract's balance in each token
  price            \* what the oracle reports for each token

settings == <<globalPaused, lendFee, borrowFee, minAmount, swapRouter, feeAddress, announced>>
books == <<userLendInfo, userBorrowInfo, debt>>
vars == <<now, settings, poolBaseInfo, poolDataInfo, books, balance, price>>

PoolState == {"MATCH", "EXECUTION", "FINISH", "LIQUIDATION", "UNDONE"}
Pids == 1..MaxPools
Created == 1..Len(poolBaseInfo)

PoolBaseInfo ==
  [settleTime : Nat, endTime : Nat, interestRate : Nat, maxSupply : Nat,
   lendSupply : Nat, borrowSupply : Nat, martgageRate : Nat,
   lendToken : Tokens, borrowToken : Tokens, state : PoolState,
   spCoin : DebtCoins, jpCoin : DebtCoins, autoLiquidateThreshold : Nat]
PoolDataInfo ==
  [settleAmountLend : Nat, settleAmountBorrow : Nat, finishAmountLend : Nat,
   finishAmountBorrow : Nat, liquidationAmounLend : Nat, liquidationAmounBorrow : Nat]
UserInfo == [stakeAmount : Nat, refundAmount : Nat, hasNoRefund : BOOLEAN, hasNoClaim : BOOLEAN]

\* The zero value of a mapping's entry.
noInfo == [stakeAmount |-> 0, refundAmount |-> 0, hasNoRefund |-> FALSE, hasNoClaim |-> FALSE]

-----------------------------------------------------------------------------
(* Initial state: the constructor has run and the oracle has been fed.      *)

Init ==
  /\ now = 0
  /\ globalPaused = FALSE
  /\ lendFee = 0 /\ borrowFee = 0
  /\ minAmount \in MinAmounts
  /\ swapRouter \in Addresses /\ feeAddress \in Addresses
  /\ announced = [swapRouter |-> swapRouter, feeAddress |-> feeAddress]
  /\ poolBaseInfo = <<>> /\ poolDataInfo = <<>>
  /\ userLendInfo = [u \in Users |-> [pid \in Pids |-> noInfo]]
  /\ userBorrowInfo = [u \in Users |-> [pid \in Pids |-> noInfo]]
  /\ debt = [c \in DebtCoins |-> [u \in Users |-> 0]]
  /\ balance = [t \in Tokens |-> 0]
  /\ price \in [Tokens -> UNION {Prices[t] : t \in Tokens}]
  /\ \A t \in Tokens : price[t] \in Prices[t]

-----------------------------------------------------------------------------
(* Modifiers and internal functions.                                        *)

notPause == ~globalPaused
timeBefore(pid) == now < poolBaseInfo[pid].settleTime
timeAfter(pid) == now > poolBaseInfo[pid].settleTime
inState(pid, states) == poolBaseInfo[pid].state \in states
stateMatch(pid) == inState(pid, {"MATCH"})
stateUndone(pid) == inState(pid, {"UNDONE"})
stateFinishLiquidation(pid) == inState(pid, {"FINISH", "LIQUIDATION"})
stateNotMatchUndone(pid) == inState(pid, {"EXECUTION", "FINISH", "LIQUIDATION"})

\* An ERC20 transfer out of the contract reverts when the balance is short.
_redeem(token, amount) ==
  /\ balance[token] >= amount
  /\ balance' = [balance EXCEPT ![token] = @ - amount]

getPayableAmount(token, amount) ==
  balance' = [balance EXCEPT ![token] = @ + amount]

mint(coin, u, amount) == debt' = [debt EXCEPT ![coin][u] = @ + amount]
burn(coin, u, amount) ==
  /\ debt[coin][u] >= amount
  /\ debt' = [debt EXCEPT ![coin][u] = @ - amount]

\* lendToken's price, then borrowToken's.
getUnderlyingPriceView(pid) ==
  <<price[poolBaseInfo[pid].lendToken], price[poolBaseInfo[pid].borrowToken]>>

-----------------------------------------------------------------------------
(* Administration, each call approved by the multi-signature.               *)

setFee(newLendFee, newBorrowFee) ==
  /\ lendFee' = newLendFee /\ borrowFee' = newBorrowFee
  /\ UNCHANGED <<now, globalPaused, minAmount, swapRouter, feeAddress, announced,
                 poolBaseInfo, poolDataInfo, books, balance, price>>

\* Emits the event and assigns nothing.
setSwapRouterAddress(newRouter) ==
  /\ announced' = [announced EXCEPT !.swapRouter = newRouter]
  /\ UNCHANGED <<now, globalPaused, lendFee, borrowFee, minAmount, swapRouter, feeAddress,
                 poolBaseInfo, poolDataInfo, books, balance, price>>

\* Emits the event and assigns nothing.
setFeeAddress(newFeeAddress) ==
  /\ announced' = [announced EXCEPT !.feeAddress = newFeeAddress]
  /\ UNCHANGED <<now, globalPaused, lendFee, borrowFee, minAmount, swapRouter, feeAddress,
                 poolBaseInfo, poolDataInfo, books, balance, price>>

setMinAmount(newMinAmount) ==
  /\ minAmount' = newMinAmount
  /\ UNCHANGED <<now, globalPaused, lendFee, borrowFee, swapRouter, feeAddress, announced,
                 poolBaseInfo, poolDataInfo, books, balance, price>>

setPause ==
  /\ globalPaused' = ~globalPaused
  /\ UNCHANGED <<now, lendFee, borrowFee, minAmount, swapRouter, feeAddress, announced,
                 poolBaseInfo, poolDataInfo, books, balance, price>>

\* A new pool starts empty and in MATCH.
newPool(terms) ==
  [settleTime |-> terms.settleTime, endTime |-> terms.endTime,
   interestRate |-> terms.interestRate, maxSupply |-> terms.maxSupply,
   lendSupply |-> 0, borrowSupply |-> 0, martgageRate |-> terms.martgageRate,
   lendToken |-> terms.lendToken, borrowToken |-> terms.borrowToken, state |-> "MATCH",
   spCoin |-> terms.spCoin, jpCoin |-> terms.jpCoin,
   autoLiquidateThreshold |-> terms.autoLiquidateThreshold]

createPoolInfo(terms) ==
  /\ Len(poolBaseInfo) < MaxPools
  /\ price[terms.lendToken] > 0 /\ price[terms.borrowToken] > 0
  /\ terms.endTime > terms.settleTime
  /\ poolBaseInfo' = Append(poolBaseInfo, newPool(terms))
  /\ poolDataInfo' = Append(poolDataInfo,
       [settleAmountLend |-> 0, settleAmountBorrow |-> 0, finishAmountLend |-> 0,
        finishAmountBorrow |-> 0, liquidationAmounLend |-> 0, liquidationAmounBorrow |-> 0])
  /\ UNCHANGED <<now, settings, books, balance, price>>

-----------------------------------------------------------------------------
(* The lender's side.                                                       *)

\* A faulty staked: a second deposit replaces the first.
stakedAnew(info, amount) ==
  [info EXCEPT !.hasNoClaim = FALSE, !.hasNoRefund = FALSE, !.stakeAmount = amount]

\* A deposit's effect on the depositor's entry: both flags start over.
staked(info, amount) ==
  [info EXCEPT !.hasNoClaim = FALSE, !.hasNoRefund = FALSE, !.stakeAmount = @ + amount]

depositLend(u, pid, amount) ==
  LET pool == poolBaseInfo[pid]
  IN  /\ notPause /\ timeBefore(pid) /\ stateMatch(pid)
      /\ pool.lendSupply + amount <= pool.maxSupply
      /\ amount > minAmount
      /\ getPayableAmount(pool.lendToken, amount)
      /\ userLendInfo' = [userLendInfo EXCEPT ![u][pid] = staked(@, amount)]
      /\ poolBaseInfo' = [poolBaseInfo EXCEPT ![pid].lendSupply = @ + amount]
      /\ UNCHANGED <<now, settings, poolDataInfo, userBorrowInfo, debt, price>>

\* What a lender gets back of the deposits settle() did not match.
lendRefund(u, pid) ==
  LET pool == poolBaseInfo[pid]
  IN  Entitled(pool.lendSupply - poolDataInfo[pid].settleAmountLend,
               userLendInfo[u][pid].stakeAmount, pool.lendSupply)

\* A faulty spAmount: a share of the deposits, matched or not.
spAmountUnsettled(u, pid) == userLendInfo[u][pid].stakeAmount

\* The sp a lender may claim.
spAmount(u, pid) ==
  Entitled(poolDataInfo[pid].settleAmountLend,
           userLendInfo[u][pid].stakeAmount, poolBaseInfo[pid].lendSupply)

\* Faulty refunds: one does not record that it was paid, one subtracts.
refundedAgain(info, amount) == [info EXCEPT !.refundAmount = @ + amount]
refundedLess(info, amount) == [info EXCEPT !.hasNoRefund = TRUE, !.refundAmount = @ - amount]

\* A refund's effect on the user's entry.
refunded(info, amount) == [info EXCEPT !.hasNoRefund = TRUE, !.refundAmount = @ + amount]

refundLend(u, pid) ==
  LET pool == poolBaseInfo[pid]
  IN  /\ notPause /\ timeAfter(pid) /\ stateNotMatchUndone(pid)
      /\ userLendInfo[u][pid].stakeAmount > 0
      /\ pool.lendSupply > poolDataInfo[pid].settleAmountLend
      /\ ~userLendInfo[u][pid].hasNoRefund
      /\ _redeem(pool.lendToken, lendRefund(u, pid))
      /\ userLendInfo' = [userLendInfo EXCEPT ![u][pid] = refunded(@, lendRefund(u, pid))]
      /\ UNCHANGED <<now, settings, poolBaseInfo, poolDataInfo, userBorrowInfo, debt, price>>

claimLend(u, pid) ==
  /\ notPause /\ timeAfter(pid) /\ stateNotMatchUndone(pid)
  /\ userLendInfo[u][pid].stakeAmount > 0
  /\ ~userLendInfo[u][pid].hasNoClaim
  /\ mint(poolBaseInfo[pid].spCoin, u, spAmount(u, pid))
  /\ userLendInfo' = [userLendInfo EXCEPT ![u][pid].hasNoClaim = TRUE]
  /\ UNCHANGED <<now, settings, poolBaseInfo, poolDataInfo, userBorrowInfo, balance, price>>

\* What burning an amount of sp pays, by the pool's final state.
lendPayout(pid, amount) ==
  LET data == poolDataInfo[pid]
      final == IF inState(pid, {"FINISH"}) THEN data.finishAmountLend
                                           ELSE data.liquidationAmounLend
  IN  Entitled(final, amount, data.settleAmountLend)

\* The time a final state asks for before it pays.
payoutTime(pid) ==
  IF inState(pid, {"FINISH"}) THEN now > poolBaseInfo[pid].endTime ELSE timeAfter(pid)

withdrawLend(u, pid, amount) ==
  LET pool == poolBaseInfo[pid]
  IN  /\ notPause /\ stateFinishLiquidation(pid)
      /\ amount > 0
      /\ burn(pool.spCoin, u, amount)
      /\ poolDataInfo[pid].settleAmountLend > 0
      /\ payoutTime(pid)
      /\ _redeem(pool.lendToken, lendPayout(pid, amount))
      /\ UNCHANGED <<now, settings, poolBaseInfo, poolDataInfo,
                     userLendInfo, userBorrowInfo, price>>

\* A faulty withdrawal sets the claim's flag.
withdrawnAsClaim(info) == [info EXCEPT !.hasNoClaim = TRUE]

\* An emergency withdrawal's effect on the user's entry.
withdrawn(info) == [info EXCEPT !.hasNoRefund = TRUE]

emergencyLendWithdrawal(u, pid) ==
  LET pool == poolBaseInfo[pid]
      lendInfo == userLendInfo[u][pid]
  IN  /\ notPause /\ stateUndone(pid)
      /\ pool.lendSupply > 0
      /\ lendInfo.stakeAmount > 0
      /\ ~lendInfo.hasNoRefund
      /\ _redeem(pool.lendToken, lendInfo.stakeAmount)
      /\ userLendInfo' = [userLendInfo EXCEPT ![u][pid] = withdrawn(@)]
      /\ UNCHANGED <<now, settings, poolBaseInfo, poolDataInfo, userBorrowInfo, debt, price>>

-----------------------------------------------------------------------------
(* The borrower's side.                                                     *)

\* External: the source has the event and the bindings of this function but
\* not its body; it is taken to mirror depositLend, without a supply limit.
depositBorrow(u, pid, amount) ==
  LET pool == poolBaseInfo[pid]
  IN  /\ BorrowDeposits
      /\ notPause /\ timeBefore(pid) /\ stateMatch(pid)
      /\ amount > 0 /\ pool.borrowSupply + amount <= MaxPledge
      /\ getPayableAmount(pool.borrowToken, amount)
      /\ userBorrowInfo' = [userBorrowInfo EXCEPT ![u][pid] = staked(@, amount)]
      /\ poolBaseInfo' = [poolBaseInfo EXCEPT ![pid].borrowSupply = @ + amount]
      /\ UNCHANGED <<now, settings, poolDataInfo, userLendInfo, debt, price>>

\* The collateral a borrower gets back that settle() did not need.
borrowRefund(u, pid) ==
  LET pool == poolBaseInfo[pid]
  IN  Entitled(pool.borrowSupply - poolDataInfo[pid].settleAmountBorrow,
               userBorrowInfo[u][pid].stakeAmount, pool.borrowSupply)

refundBorrow(u, pid) ==
  LET pool == poolBaseInfo[pid]
  IN  /\ notPause /\ timeAfter(pid) /\ stateNotMatchUndone(pid)
      /\ pool.borrowSupply > poolDataInfo[pid].settleAmountBorrow
      /\ userBorrowInfo[u][pid].stakeAmount > 0
      /\ ~userBorrowInfo[u][pid].hasNoRefund
      /\ _redeem(pool.borrowToken, borrowRefund(u, pid))
      /\ userBorrowInfo' = [userBorrowInfo EXCEPT ![u][pid] = refunded(@, borrowRefund(u, pid))]
      /\ UNCHANGED <<now, settings, poolBaseInfo, poolDataInfo, userLendInfo, debt, price>>

poolJp(pid) ==
  totalJpAmount(poolDataInfo[pid].settleAmountLend, poolBaseInfo[pid].martgageRate)

\* The jp and the part of the loan a borrower may claim.
jpAmount(u, pid) ==
  Entitled(poolJp(pid), userBorrowInfo[u][pid].stakeAmount, poolBaseInfo[pid].borrowSupply)

\* A faulty borrowAmount: lends out all of the deposits.
borrowAmountUnsettled(u, pid) ==
  Entitled(poolBaseInfo[pid].lendSupply,
           userBorrowInfo[u][pid].stakeAmount, poolBaseInfo[pid].borrowSupply)

borrowAmount(u, pid) ==
  Entitled(poolDataInfo[pid].settleAmountLend,
           userBorrowInfo[u][pid].stakeAmount, poolBaseInfo[pid].borrowSupply)

claimBorrow(u, pid) ==
  LET pool == poolBaseInfo[pid]
  IN  /\ notPause /\ timeAfter(pid) /\ stateNotMatchUndone(pid)
      /\ userBorrowInfo[u][pid].stakeAmount > 0
      /\ ~userBorrowInfo[u][pid].hasNoClaim
      /\ mint(pool.jpCoin, u, jpAmount(u, pid))
      /\ _redeem(pool.lendToken, borrowAmount(u, pid))
      /\ userBorrowInfo' = [userBorrowInfo EXCEPT ![u][pid].hasNoClaim = TRUE]
      /\ UNCHANGED <<now, settings, poolBaseInfo, poolDataInfo, userLendInfo, price>>

\* What burning an amount of jp pays, by the pool's final state.
borrowPayout(pid, amount) ==
  LET data == poolDataInfo[pid]
      final == IF inState(pid, {"FINISH"}) THEN data.finishAmountBorrow
                                           ELSE data.liquidationAmounBorrow
  IN  Entitled(final, amount, poolJp(pid))

withdrawBorrow(u, pid, amount) ==
  LET pool == poolBaseInfo[pid]
  IN  /\ notPause /\ stateFinishLiquidation(pid)
      /\ amount > 0
      /\ burn(pool.jpCoin, u, amount)
      /\ poolJp(pid) > 0
      /\ payoutTime(pid)
      /\ _redeem(pool.borrowToken, borrowPayout(pid, amount))
      /\ UNCHANGED <<now, settings, poolBaseInfo, poolDataInfo,
                     userLendInfo, userBorrowInfo, price>>

emergencyBorrowWithdrawal(u, pid) ==
  LET pool == poolBaseInfo[pid]
      borrowInfo == userBorrowInfo[u][pid]
  IN  /\ notPause /\ stateUndone(pid)
      /\ pool.borrowSupply > 0
      /\ borrowInfo.stakeAmount > 0
      /\ ~borrowInfo.hasNoRefund
      /\ _redeem(pool.borrowToken, borrowInfo.stakeAmount)
      /\ userBorrowInfo' = [userBorrowInfo EXCEPT ![u][pid] = withdrawn(@)]
      /\ UNCHANGED <<now, settings, poolBaseInfo, poolDataInfo, userLendInfo, debt, price>>

-----------------------------------------------------------------------------
(* Settlement, finish and liquidation, each call approved.                  *)

\* A faulty test lets a pool execute with one side empty.
eitherSide(pool) == pool.lendSupply > 0 \/ pool.borrowSupply > 0
bothSides(pool) == pool.lendSupply > 0 /\ pool.borrowSupply > 0

\* Both sides have supply: match them at the oracle's prices.
settleMatched(pid) ==
  LET pool == poolBaseInfo[pid]
      p == getUnderlyingPriceView(pid)
      matched == SettleAmounts(pool.lendSupply, pool.borrowSupply, p[1], p[2], pool.martgageRate)
  IN  /\ bothSides(pool)
      /\ SettleDefined(pool.lendSupply, pool.borrowSupply, p[1], p[2], pool.martgageRate)
      /\ poolDataInfo' = [poolDataInfo EXCEPT ![pid] =
                          [@ EXCEPT !.settleAmountLend = matched.lend,
                                    !.settleAmountBorrow = matched.borrow]]
      /\ poolBaseInfo' = [poolBaseInfo EXCEPT ![pid].state = "EXECUTION"]

\* One side is empty: nothing to match.
settleUnmatched(pid) ==
  LET pool == poolBaseInfo[pid]
  IN  /\ ~bothSides(pool)
      /\ poolDataInfo' = [poolDataInfo EXCEPT ![pid] =
                          [@ EXCEPT !.settleAmountLend = pool.lendSupply,
                                    !.settleAmountBorrow = pool.borrowSupply]]
      /\ poolBaseInfo' = [poolBaseInfo EXCEPT ![pid].state = "UNDONE"]

\* A faulty settle may be called again.
settleAgain(pid) ==
  /\ timeAfter(pid)
  /\ settleMatched(pid) \/ settleUnmatched(pid)
  /\ UNCHANGED <<now, settings, books, balance, price>>

settle(pid) ==
  /\ timeAfter(pid) /\ stateMatch(pid)
  /\ settleMatched(pid) \/ settleUnmatched(pid)
  /\ UNCHANGED <<now, settings, books, balance, price>>

\* What the router may do with an order to obtain "wanted" of lendToken:
\* take some borrowToken and return an amount within Slippage of the order.
\* A zero order becomes a zero swap, which the router refuses.
swapProceeds(wanted) ==
  IF wanted = 0 THEN {} ELSE {got \in 0..(wanted + Slippage) : got + Slippage >= wanted}

\* The loan with interest a pool owes its lenders, and the order that raises it.
owedToLenders(pid) == lendAmount(poolBaseInfo[pid], poolDataInfo[pid].settleAmountLend)

\* The balance after a swap of "sold" borrowToken for "got" lendToken, and the
\* fees on both sides; what exceeds the debt to the lenders is a fee too.
sellCollateral(pid, sold, got, kept, fee) ==
  LET pool == poolBaseInfo[pid]
      swapped == [balance EXCEPT ![pool.borrowToken] = @ - sold]
      paid == [swapped EXCEPT ![pool.lendToken] = @ + kept]
  IN  /\ got \in swapProceeds(sellAmount(owedToLenders(pid), lendFee))
      /\ balance[pool.borrowToken] >= sold
      /\ sold <= poolDataInfo[pid].settleAmountBorrow
      /\ fee <= poolDataInfo[pid].settleAmountBorrow - sold
      /\ paid[pool.borrowToken] >= fee
      /\ balance' = [paid EXCEPT ![pool.borrowToken] = @ - fee]

\* A faulty keptOf counts the surplus it pays out as a fee.
keptAll(pid, got) == got

\* What stays with the lenders of a swap's proceeds.
keptOf(pid, got) == IF got > owedToLenders(pid) THEN owedToLenders(pid) ELSE got

\* The collateral left by a swap, and the borrow fee on it.
remaining(pid, sold) == poolDataInfo[pid].settleAmountBorrow - sold

finish(pid, sold, got) ==
  LET kept == keptOf(pid, got)
      fee == feeOf(remaining(pid, sold), borrowFee)
  IN  /\ now > poolBaseInfo[pid].endTime
      /\ inState(pid, {"EXECUTION"})
      /\ got >= owedToLenders(pid)
      /\ sellCollateral(pid, sold, got, kept, fee)
      /\ poolDataInfo' = [poolDataInfo EXCEPT ![pid] =
                          [@ EXCEPT !.finishAmountLend = kept,
                                    !.finishAmountBorrow = remaining(pid, sold) - fee]]
      /\ poolBaseInfo' = [poolBaseInfo EXCEPT ![pid].state = "FINISH"]
      /\ UNCHANGED <<now, settings, books, price>>

checkoutLiquidate(pid) ==
  LET p == getUnderlyingPriceView(pid)
  IN  belowThreshold(poolDataInfo[pid], poolBaseInfo[pid], p[1], p[2])

\* Does not consult checkoutLiquidate, and accepts any proceeds.
liquidate(pid, sold, got) ==
  LET kept == keptOf(pid, got)
      fee == feeOf(remaining(pid, sold), borrowFee)
  IN  /\ timeAfter(pid)
      /\ inState(pid, {"EXECUTION"})
      /\ sellCollateral(pid, sold, got, kept, fee)
      /\ poolDataInfo' = [poolDataInfo EXCEPT ![pid] =
                          [@ EXCEPT !.liquidationAmounLend = kept,
                                    !.liquidationAmounBorrow = remaining(pid, sold) - fee]]
      /\ poolBaseInfo' = [poolBaseInfo EXCEPT ![pid].state = "LIQUIDATION"]
      /\ UNCHANGED <<now, settings, books, price>>

-----------------------------------------------------------------------------
(* The chain and the oracle around the contract.                            *)

Tick ==
  /\ now < MaxTime
  /\ now' = now + 1
  /\ UNCHANGED <<settings, poolBaseInfo, poolDataInfo, books, balance, price>>

setPrice(t, p) ==
  /\ price' = [price EXCEPT ![t] = p]
  /\ UNCHANGED <<now, settings, poolBaseInfo, poolDataInfo, books, balance>>

Administer ==
  \/ \E l, b \in Fees : setFee(l, b)
  \/ \E a \in Addresses : setSwapRouterAddress(a) \/ setFeeAddress(a)
  \/ \E m \in MinAmounts : setMinAmount(m)
  \/ setPause
  \/ \E terms \in Terms : createPoolInfo(terms)

Lend(u, pid) ==
  \/ \E a \in Amounts : depositLend(u, pid, a)
  \/ refundLend(u, pid)
  \/ claimLend(u, pid)
  \/ \E a \in 1..debt[poolBaseInfo[pid].spCoin][u] : withdrawLend(u, pid, a)
  \/ emergencyLendWithdrawal(u, pid)

Borrow(u, pid) ==
  \/ \E a \in Amounts : depositBorrow(u, pid, a)
  \/ refundBorrow(u, pid)
  \/ claimBorrow(u, pid)
  \/ \E a \in 1..debt[poolBaseInfo[pid].jpCoin][u] : withdrawBorrow(u, pid, a)
  \/ emergencyBorrowWithdrawal(u, pid)

Operate(pid) ==
  \/ settle(pid)
  \/ \E sold \in Costs :
       \E got \in swapProceeds(sellAmount(owedToLenders(pid), lendFee)) :
         finish(pid, sold, got) \/ liquidate(pid, sold, got)

Next ==
  \/ Administer
  \/ \E u \in Users, pid \in Created : Lend(u, pid) \/ Borrow(u, pid)
  \/ \E pid \in Created : Operate(pid)
  \/ Tick
  \/ \E t \in Tokens : \E p \in Prices[t] : setPrice(t, p)

Spec == Init /\ [][Next]_vars

-----------------------------------------------------------------------------
(* Properties.                                                              *)

\* Type correctness: every variable of the contract holds a value of its type.
TypeOK ==
  /\ now \in 0..MaxTime
  /\ globalPaused \in BOOLEAN
  /\ lendFee \in Nat /\ borrowFee \in Nat /\ minAmount \in Nat
  /\ swapRouter \in Addresses /\ feeAddress \in Addresses
  /\ announced \in [swapRouter : Addresses, feeAddress : Addresses]
  /\ poolBaseInfo \in Seq(PoolBaseInfo) /\ Len(poolBaseInfo) <= MaxPools
  /\ poolDataInfo \in Seq(PoolDataInfo) /\ Len(poolDataInfo) = Len(poolBaseInfo)
  /\ userLendInfo \in [Users -> [Pids -> UserInfo]]
  /\ userBorrowInfo \in [Users -> [Pids -> UserInfo]]
  /\ debt \in [DebtCoins -> [Users -> Nat]]
  /\ balance \in [Tokens -> Nat]
  /\ price \in [Tokens -> Nat]

\* What each user has staked in a pool, and what of it was not taken back.
stakes(book, pid) == [u \in Users |-> book[u][pid].stakeAmount]
stakesLeft(book, pid) ==
  [u \in Users |-> IF book[u][pid].hasNoRefund THEN 0 ELSE book[u][pid].stakeAmount]

\* What each user may still claim from an executed pool, by the flags.
spDue(pid) ==
  [u \in Users |-> IF userLendInfo[u][pid].hasNoClaim THEN 0 ELSE spAmount(u, pid)]
jpDue(pid) ==
  [u \in Users |-> IF userBorrowInfo[u][pid].hasNoClaim THEN 0 ELSE jpAmount(u, pid)]
loansDue(pid) ==
  [u \in Users |-> IF userBorrowInfo[u][pid].hasNoClaim THEN 0 ELSE borrowAmount(u, pid)]

\* What each user may still be refunded by an executed pool.
lendRefundsDue(pid) ==
  [u \in Users |-> IF userLendInfo[u][pid].hasNoRefund THEN 0 ELSE lendRefund(u, pid)]
borrowRefundsDue(pid) ==
  [u \in Users |-> IF \/ userBorrowInfo[u][pid].hasNoRefund
                      \/ poolBaseInfo[pid].borrowSupply <= poolDataInfo[pid].settleAmountBorrow
                   THEN 0 ELSE borrowRefund(u, pid)]

\* The sp and jp of a pool that are in circulation or still to be claimed.
spOutstanding(pid) ==
  SumFunction(debt[poolBaseInfo[pid].spCoin]) + SumFunction(spDue(pid))
jpOutstanding(pid) ==
  SumFunction(debt[poolBaseInfo[pid].jpCoin]) + SumFunction(jpDue(pid))

\* What all the sp, and all the jp, of a pool would be redeemed for; while the
\* pool executes, no sp can be and all matched collateral is still there.
spRedeemable(pid) ==
  IF stateFinishLiquidation(pid) /\ poolDataInfo[pid].settleAmountLend > 0
  THEN lendPayout(pid, spOutstanding(pid)) ELSE 0
jpRedeemable(pid) ==
  IF inState(pid, {"EXECUTION"}) THEN poolDataInfo[pid].settleAmountBorrow
  ELSE IF poolJp(pid) > 0 THEN borrowPayout(pid, jpOutstanding(pid)) ELSE 0

\* What a pool must still be able to pay in its lendToken: the deposits while
\* matching or undone; afterwards the refunds, the loans not yet collected,
\* and what the sp is redeemed for.
lendOwed(pid) ==
  IF stateNotMatchUndone(pid)
  THEN SumFunction(lendRefundsDue(pid)) + SumFunction(loansDue(pid)) + spRedeemable(pid)
  ELSE SumFunction(stakesLeft(userLendInfo, pid))

\* The same in its borrowToken.
borrowOwed(pid) ==
  IF stateNotMatchUndone(pid) THEN SumFunction(borrowRefundsDue(pid)) + jpRedeemable(pid)
                              ELSE SumFunction(stakesLeft(userBorrowInfo, pid))

\* What a pool owes in a token, and what all pools do.
owedBy(pid, t) == (IF poolBaseInfo[pid].lendToken = t THEN lendOwed(pid) ELSE 0)
                  + (IF poolBaseInfo[pid].borrowToken = t THEN borrowOwed(pid) ELSE 0)
owed(t) == SumFunction([pid \in Created |-> owedBy(pid, t)])

\* createPoolInfo takes the debt coins it is given; the books of two pools are
\* apart only when no coin serves both, or serves one pool as sp and as jp.
OwnCoins ==
  \A p, q \in Created :
    /\ poolBaseInfo[p].spCoin # poolBaseInfo[q].jpCoin
    /\ p # q => /\ poolBaseInfo[p].spCoin # poolBaseInfo[q].spCoin
                /\ poolBaseInfo[p].jpCoin # poolBaseInfo[q].jpCoin

\* Solvency: whatever order users and the operator act in, the one balance
\* per token covers what every pool that shares the token still owes, so no
\* refund, claim or withdrawal can fail for lack of funds or be paid out of
\* another pool's deposits.
Solvent == OwnCoins => \A t \in Tokens : balance[t] >= owed(t)

\* No lender takes out more than was put in before the pool earns: the refund
\* already taken and the sp entitlement together stay within the stake, and a
\* borrower's refund and share of the matched collateral within the pledge.
NobodyOverpaid ==
  \A u \in Users, pid \in Created : stateNotMatchUndone(pid) =>
    LET lent == userLendInfo[u][pid]
        pledged == userBorrowInfo[u][pid]
    IN  /\ lent.refundAmount + spAmount(u, pid) <= lent.stakeAmount
        /\ pledged.refundAmount
             + Entitled(poolDataInfo[pid].settleAmountBorrow, pledged.stakeAmount,
                        poolBaseInfo[pid].borrowSupply) <= pledged.stakeAmount

\* The supply a pool divides by is the sum of the stakes it divides, however
\* deposits interleave; otherwise shares would not add up to one.
StakesAddUp ==
  \A pid \in Created :
    /\ poolBaseInfo[pid].lendSupply = SumFunction(stakes(userLendInfo, pid))
    /\ poolBaseInfo[pid].borrowSupply = SumFunction(stakes(userBorrowInfo, pid))

\* A pool's sp never exceeds the settled loan it is redeemed against, and its
\* jp never exceeds the total jp, over any order of claims and burns.
DebtBacked ==
  OwnCoins => \A pid \in Created : stateNotMatchUndone(pid) =>
    /\ spOutstanding(pid) <= poolDataInfo[pid].settleAmountLend
    /\ jpOutstanding(pid) <= poolJp(pid)

\* A finished pool keeps for its lenders exactly the loan and its interest; a
\* liquidated one keeps no more than that, the surplus being the fee.
LendersKeepLoanAndInterest ==
  \A pid \in Created :
    /\ inState(pid, {"FINISH"}) => poolDataInfo[pid].finishAmountLend = owedToLenders(pid)
    /\ inState(pid, {"LIQUIDATION"}) => poolDataInfo[pid].liquidationAmounLend <= owedToLenders(pid)

\* Settlement matches a loan the collateral covers: the loan is within the
\* deposits and, at the oracle's prices and the mortgage rate, is worth no
\* more than the matched collateral and one unit lost to truncation; when the
\* price ratio is exact at BaseDecimal, that collateral is within the pledges.
settledSoundly(pid) ==
  LET pool == poolBaseInfo[pid]
      data == poolDataInfo'[pid]
      p == getUnderlyingPriceView(pid)
  IN  /\ data.settleAmountLend <= pool.lendSupply
      /\ data.settleAmountLend * pool.martgageRate * p[1]
           <= (data.settleAmountBorrow + 1) * p[2] * BaseDecimal
      /\ (p[2] * BaseDecimal) % p[1] = 0 => data.settleAmountBorrow <= pool.borrowSupply
SettlesSoundly ==
  [][\A pid \in Created :
       stateMatch(pid) /\ poolBaseInfo'[pid].state = "EXECUTION" => settledSoundly(pid)]_vars

\* A step that keeps the stake of a user's entry and the payments it records.
keepsFlags(old, new) ==
  /\ new.stakeAmount = old.stakeAmount
  /\ old.hasNoRefund => new.hasNoRefund
  /\ old.hasNoClaim => new.hasNoClaim
finalStep(pid) ==
  /\ poolBaseInfo'[pid] = [poolBaseInfo[pid] EXCEPT !.state = poolBaseInfo'[pid].state]
  /\ poolBaseInfo'[pid].state # "MATCH"
  /\ poolDataInfo'[pid].settleAmountLend = poolDataInfo[pid].settleAmountLend
  /\ poolDataInfo'[pid].settleAmountBorrow = poolDataInfo[pid].settleAmountBorrow
  /\ \A u \in Users : /\ keepsFlags(userLendInfo[u][pid], userLendInfo'[u][pid])
                       /\ keepsFlags(userBorrowInfo[u][pid], userBorrowInfo'[u][pid])

\* Once a pool has left MATCH the figures that entitlements are computed from
\* are final: supplies, stakes and settled amounts never change, and a flag
\* that records a payment is never taken back.
SettlementIsFinal ==
  [][\A pid \in Created : ~stateMatch(pid) => finalStep(pid)]_vars

\* As the source stands nobody can pledge collateral, so no pool ever makes a
\* loan: each stays in MATCH or is settled to UNDONE.
NoLoanWithoutCollateral ==
  ~BorrowDeposits => \A pid \in Created : inState(pid, {"MATCH", "UNDONE"})

\* Where there are no loans the contract holds to the unit what it owes: the
\* deposits of every pool, less the stakes already taken back.
HoldsExactlyStakes ==
  ~BorrowDeposits => \A t \in Tokens : balance[t] = owed(t)
=============================================================================
