------------------------ MODULE PledgeSolvencyProofs ------------------------
(***************************************************************************)
(* The money of PledgePool: stakes add up to supplies, entitlements to what *)
(* is divided, debt coins to settled loans, and what all pools owe in a     *)
(* token to no more than the contract holds of it.                          *)
(***************************************************************************)
EXTENDS PledgePoolProofs

-----------------------------------------------------------------------------
(* The inductive invariant of the books.                                    *)

\* Nothing is recorded about a pool before it is created.
UncreatedBlank ==
  \A u \in Users, pid \in Pids \ Created :
    userLendInfo[u][pid] = noInfo /\ userBorrowInfo[u][pid] = noInfo

\* A user's entry that records no payment.
unpaid(info) == ~info.hasNoRefund /\ ~info.hasNoClaim /\ info.refundAmount = 0

\* What an executed pool has refunded a user is the user's refund, once.
RefundedOnce(u, pid) ==
  /\ userLendInfo[u][pid].refundAmount =
       IF userLendInfo[u][pid].hasNoRefund THEN lendRefund(u, pid) ELSE 0
  /\ userBorrowInfo[u][pid].refundAmount =
       IF userBorrowInfo[u][pid].hasNoRefund THEN borrowRefund(u, pid) ELSE 0
  /\ userBorrowInfo[u][pid].hasNoRefund =>
       poolBaseInfo[pid].borrowSupply > poolDataInfo[pid].settleAmountBorrow

\* The books of one pool: the stakes add up; while it collects deposits it has
\* matched and paid nothing; once it executes it has both sides, its loan is
\* within the deposits, and it has refunded nobody twice.
BooksAt(pid) ==
  /\ poolBaseInfo[pid].lendSupply = SumFunction(stakes(userLendInfo, pid))
  /\ poolBaseInfo[pid].borrowSupply = SumFunction(stakes(userBorrowInfo, pid))
  /\ stateMatch(pid) =>
       /\ poolDataInfo[pid].settleAmountBorrow = 0
       /\ \A u \in Users : unpaid(userLendInfo[u][pid]) /\ unpaid(userBorrowInfo[u][pid])
  /\ stateNotMatchUndone(pid) =>
       /\ bothSides(poolBaseInfo[pid])
       /\ poolDataInfo[pid].settleAmountLend <= poolBaseInfo[pid].lendSupply
       /\ \A u \in Users : RefundedOnce(u, pid)

\* Only the coins of executed pools have ever been minted.
IdleCoins ==
  \A c \in DebtCoins :
    (\A pid \in Created : stateNotMatchUndone(pid) =>
       c # poolBaseInfo[pid].spCoin /\ c # poolBaseInfo[pid].jpCoin)
      => \A u \in Users : debt[c][u] = 0

Books == IInv /\ UncreatedBlank /\ IdleCoins /\ \A pid \in Created : BooksAt(pid)

-----------------------------------------------------------------------------
(* What a step does to the mappings, entry by entry.                        *)

OtherLendEntriesKept(u, pid) ==
  \A v \in Users, q \in Pids : ~(v = u /\ q = pid) => userLendInfo'[v][q] = userLendInfo[v][q]
OtherBorrowEntriesKept(u, pid) ==
  \A v \in Users, q \in Pids : ~(v = u /\ q = pid) => userBorrowInfo'[v][q] = userBorrowInfo[v][q]

\* The pools other than pid keep their records.
OtherPoolsKept(pid) ==
  /\ Created' = Created
  /\ \A q \in Created : q # pid => /\ poolBaseInfo'[q] = poolBaseInfo[q]
                                   /\ poolDataInfo'[q] = poolDataInfo[q]

\* User u's balance of coin c grows by d.
DebtMoves(c, u, d) ==
  /\ debt'[c][u] = debt[c][u] + d
  /\ \A v \in Users : v # u => debt'[c][v] = debt[c][v]
  /\ \A x \in DebtCoins : x # c => debt'[x] = debt[x]

\* The contract's balance grows by dl in pid's lendToken and db in its borrowToken.
BalanceMoves(pid, dl, db) ==
  \A t \in Tokens : balance'[t] = balance[t]
                      + (IF poolBaseInfo[pid].lendToken = t THEN dl ELSE 0)
                      + (IF poolBaseInfo[pid].borrowToken = t THEN db ELSE 0)

\* One entry of the lenders' mapping is assigned.
LEMMA LendEntrySet ==
  ASSUME TypeOK, NEW u \in Users, NEW pid \in Pids, NEW e,
         userLendInfo' = [userLendInfo EXCEPT ![u][pid] = e]
  PROVE  userLendInfo'[u][pid] = e /\ OtherLendEntriesKept(u, pid)
<1>1. userLendInfo \in [Users -> [Pids -> UserInfo]]
  BY DEF TypeOK
<1>2. \A v \in Users, q \in Pids :
        userLendInfo'[v][q] = IF v = u /\ q = pid THEN e ELSE userLendInfo[v][q]
  BY <1>1, EntryAt
<1> QED
  BY <1>2 DEF OtherLendEntriesKept

\* One entry of the borrowers' mapping is assigned.
LEMMA BorrowEntrySet ==
  ASSUME TypeOK, NEW u \in Users, NEW pid \in Pids, NEW e,
         userBorrowInfo' = [userBorrowInfo EXCEPT ![u][pid] = e]
  PROVE  userBorrowInfo'[u][pid] = e /\ OtherBorrowEntriesKept(u, pid)
<1>1. userBorrowInfo \in [Users -> [Pids -> UserInfo]]
  BY DEF TypeOK
<1>2. \A v \in Users, q \in Pids :
        userBorrowInfo'[v][q] = IF v = u /\ q = pid THEN e ELSE userBorrowInfo[v][q]
  BY <1>1, EntryAt
<1> QED
  BY <1>2 DEF OtherBorrowEntriesKept

\* The fields of an entry after a deposit, a refund, an emergency withdrawal
\* and a claim.
LEMMA StakedFields ==
  ASSUME NEW info \in UserInfo, NEW x \in Nat
  PROVE  /\ staked(info, x).stakeAmount = info.stakeAmount + x
         /\ staked(info, x).refundAmount = info.refundAmount
         /\ staked(info, x).hasNoRefund = FALSE
         /\ staked(info, x).hasNoClaim = FALSE
  BY DEF UserInfo, staked

\* A refund adds its amount and marks the entry; the stake and the claim stay.
LEMMA RefundedFields ==
  ASSUME NEW info \in UserInfo, NEW x \in Nat
  PROVE  /\ refunded(info, x).stakeAmount = info.stakeAmount
         /\ refunded(info, x).refundAmount = info.refundAmount + x
         /\ refunded(info, x).hasNoRefund = TRUE
         /\ refunded(info, x).hasNoClaim = info.hasNoClaim
  BY DEF UserInfo, refunded

\* An emergency withdrawal marks the entry and leaves the stake on record.
LEMMA WithdrawnFields ==
  ASSUME NEW info \in UserInfo
  PROVE  /\ withdrawn(info).stakeAmount = info.stakeAmount
         /\ withdrawn(info).hasNoRefund = TRUE
  BY DEF UserInfo, withdrawn

\* A claim marks the entry and nothing else.
LEMMA ClaimedFields ==
  ASSUME NEW info \in UserInfo, NEW e, e = [info EXCEPT !.hasNoClaim = TRUE]
  PROVE  /\ e.stakeAmount = info.stakeAmount
         /\ e.refundAmount = info.refundAmount
         /\ e.hasNoRefund = info.hasNoRefund
         /\ e.hasNoClaim = TRUE
  BY DEF UserInfo

\* A transfer out of the contract, a transfer into it.
LEMMA RedeemMoves ==
  ASSUME TypeOK, NEW t \in Tokens, NEW amount \in Nat, _redeem(t, amount)
  PROVE  \A x \in Tokens : balance'[x] = IF x = t THEN balance[x] - amount ELSE balance[x]
  BY DEF TypeOK, _redeem

\* A transfer into the contract adds the amount to that token's balance only.
LEMMA PayableMoves ==
  ASSUME TypeOK, NEW t \in Tokens, NEW amount \in Nat, getPayableAmount(t, amount)
  PROVE  \A x \in Tokens : balance'[x] = IF x = t THEN balance[x] + amount ELSE balance[x]
  BY DEF TypeOK, getPayableAmount

\* Minting adds to one user's balance of one coin.
LEMMA MintMoves ==
  ASSUME TypeOK, NEW c \in DebtCoins, NEW u \in Users, NEW amount \in Nat, mint(c, u, amount)
  PROVE  DebtMoves(c, u, amount)
  BY DEF TypeOK, mint, DebtMoves

\* Burning takes from one user's balance of one coin, which holds enough.
LEMMA BurnMoves ==
  ASSUME TypeOK, NEW c \in DebtCoins, NEW u \in Users, NEW amount \in Nat, burn(c, u, amount)
  PROVE  DebtMoves(c, u, -amount)
<1>1. /\ debt' = [debt EXCEPT ![c][u] = @ - amount]
      /\ debt[c][u] \in Nat
  BY DEF burn, TypeOK
<1>2. debt[c][u] + (-amount) = debt[c][u] - amount
  BY <1>1, SMT
<1> QED
  BY <1>1, <1>2 DEF TypeOK, DebtMoves

-----------------------------------------------------------------------------
(* What each transaction of a user does.                                    *)

\* An entry, its pool and their figures are typed, and tokens and coins known.
LEMMA PoolFigures ==
  ASSUME IInv, NEW pid \in Created
  PROVE  /\ TypeOK /\ pid \in Pids
         /\ poolBaseInfo[pid] \in PoolBaseInfo /\ poolDataInfo[pid] \in PoolDataInfo
         /\ poolBaseInfo[pid].lendSupply \in Nat /\ poolBaseInfo[pid].borrowSupply \in Nat
         /\ poolBaseInfo[pid].lendToken \in Tokens /\ poolBaseInfo[pid].borrowToken \in Tokens
         /\ poolBaseInfo[pid].spCoin \in DebtCoins /\ poolBaseInfo[pid].jpCoin \in DebtCoins
         /\ poolDataInfo[pid].settleAmountLend \in Nat
         /\ poolDataInfo[pid].settleAmountBorrow \in Nat
         /\ poolDataInfo[pid].finishAmountLend \in Nat
         /\ poolDataInfo[pid].finishAmountBorrow \in Nat
         /\ poolDataInfo[pid].liquidationAmounLend \in Nat
         /\ poolDataInfo[pid].liquidationAmounBorrow \in Nat
         /\ poolJp(pid) \in Nat
         /\ \A u \in Users :
              /\ userLendInfo[u][pid] \in UserInfo /\ userBorrowInfo[u][pid] \in UserInfo
              /\ userLendInfo[u][pid].stakeAmount \in Nat
              /\ userBorrowInfo[u][pid].stakeAmount \in Nat
         /\ \A t \in Tokens : balance[t] \in Nat
<1>1. TypeOK /\ pid \in Pids
      /\ poolBaseInfo[pid] \in PoolBaseInfo /\ poolDataInfo[pid] \in PoolDataInfo
  BY PoolTyped DEF IInv
<1>2. /\ poolBaseInfo[pid].lendSupply \in Nat /\ poolBaseInfo[pid].borrowSupply \in Nat
      /\ poolBaseInfo[pid].lendToken \in Tokens /\ poolBaseInfo[pid].borrowToken \in Tokens
      /\ poolBaseInfo[pid].spCoin \in DebtCoins /\ poolBaseInfo[pid].jpCoin \in DebtCoins
      /\ poolBaseInfo[pid].martgageRate \in Nat
  BY <1>1 DEF PoolBaseInfo
<1>3. /\ poolDataInfo[pid].settleAmountLend \in Nat
      /\ poolDataInfo[pid].settleAmountBorrow \in Nat
      /\ poolDataInfo[pid].finishAmountLend \in Nat
      /\ poolDataInfo[pid].finishAmountBorrow \in Nat
      /\ poolDataInfo[pid].liquidationAmounLend \in Nat
      /\ poolDataInfo[pid].liquidationAmounBorrow \in Nat
  BY <1>1 DEF PoolDataInfo
<1>4. poolJp(pid) \in Nat
  BY <1>2, <1>3, JpNat DEF poolJp
<1>5. \A u \in Users : userLendInfo[u][pid] \in UserInfo /\ userBorrowInfo[u][pid] \in UserInfo
  BY <1>1 DEF TypeOK
<1>6. \A u \in Users : /\ userLendInfo[u][pid].stakeAmount \in Nat
                       /\ userBorrowInfo[u][pid].stakeAmount \in Nat
  BY <1>5 DEF UserInfo
<1>7. \A t \in Tokens : balance[t] \in Nat
  BY <1>1 DEF TypeOK
<1> QED
  BY <1>1, <1>2, <1>3, <1>4, <1>5, <1>6, <1>7

\* What the users of an executed pool are entitled to, as amounts.
LEMMA DuesNat ==
  ASSUME IInv, NEW pid \in Created, BooksAt(pid), stateNotMatchUndone(pid), NEW u \in Users
  PROVE  /\ lendRefund(u, pid) \in Nat /\ spAmount(u, pid) \in Nat
         /\ jpAmount(u, pid) \in Nat /\ borrowAmount(u, pid) \in Nat
         /\ poolBaseInfo[pid].borrowSupply > poolDataInfo[pid].settleAmountBorrow
              => borrowRefund(u, pid) \in Nat
<1> DEFINE ls == poolBaseInfo[pid].lendSupply
           bs == poolBaseInfo[pid].borrowSupply
           sl == poolDataInfo[pid].settleAmountLend
           sb == poolDataInfo[pid].settleAmountBorrow
           ul == userLendInfo[u][pid].stakeAmount
           ub == userBorrowInfo[u][pid].stakeAmount
<1>1. /\ ls \in Nat /\ bs \in Nat /\ sl \in Nat /\ sb \in Nat /\ poolJp(pid) \in Nat
      /\ ul \in Nat /\ ub \in Nat
  BY PoolFigures
<1>2. ls > 0 /\ bs > 0 /\ sl <= ls
  BY DEF BooksAt, bothSides
<1> HIDE DEF ls, bs, sl, sb, ul, ub
<1>3. ls \in Nat \ {0} /\ bs \in Nat \ {0} /\ ls - sl \in Nat /\ (bs > sb => bs - sb \in Nat)
  BY <1>1, <1>2, SMT
<1>4. Entitled(ls - sl, ul, ls) \in Nat /\ Entitled(sl, ul, ls) \in Nat
  BY <1>1, <1>3, EntitledBounded
<1>5. Entitled(poolJp(pid), ub, bs) \in Nat /\ Entitled(sl, ub, bs) \in Nat
  BY <1>1, <1>3, EntitledBounded
<1>6. bs > sb => Entitled(bs - sb, ub, bs) \in Nat
  BY <1>1, <1>3, EntitledBounded
<1> QED
  BY <1>4, <1>5, <1>6
  DEF lendRefund, spAmount, jpAmount, borrowAmount, borrowRefund, ls, bs, sl, sb, ul, ub

\* refundLend() pays the lender's share of what was not lent, once.
LEMMA RefundLendEffect ==
  ASSUME Books, NEW u \in Users, NEW pid \in Created, refundLend(u, pid)
  PROVE  /\ stateNotMatchUndone(pid)
         /\ ~userLendInfo[u][pid].hasNoRefund
         /\ lendRefund(u, pid) \in Nat
         /\ UNCHANGED <<poolBaseInfo, poolDataInfo, userBorrowInfo, debt>>
         /\ OtherLendEntriesKept(u, pid)
         /\ userLendInfo'[u][pid].stakeAmount = userLendInfo[u][pid].stakeAmount
         /\ userLendInfo'[u][pid].refundAmount
              = userLendInfo[u][pid].refundAmount + lendRefund(u, pid)
         /\ userLendInfo'[u][pid].hasNoRefund = TRUE
         /\ userLendInfo'[u][pid].hasNoClaim = userLendInfo[u][pid].hasNoClaim
         /\ BalanceMoves(pid, -lendRefund(u, pid), 0)
<1> DEFINE x == lendRefund(u, pid)
           e == refunded(userLendInfo[u][pid], x)
<1>1. /\ stateNotMatchUndone(pid) /\ ~userLendInfo[u][pid].hasNoRefund
      /\ _redeem(poolBaseInfo[pid].lendToken, x)
      /\ userLendInfo' = [userLendInfo EXCEPT ![u][pid] = e]
      /\ UNCHANGED <<poolBaseInfo, poolDataInfo, userBorrowInfo, debt>>
  BY DEF refundLend
<1>2. x \in Nat
  BY <1>1, DuesNat DEF Books
<1>3. /\ TypeOK /\ pid \in Pids /\ userLendInfo[u][pid] \in UserInfo
      /\ poolBaseInfo[pid].lendToken \in Tokens
      /\ \A t \in Tokens : balance[t] \in Nat
  BY PoolFigures DEF Books
<1> HIDE DEF x
<1>4. /\ e.stakeAmount = userLendInfo[u][pid].stakeAmount
      /\ e.refundAmount = userLendInfo[u][pid].refundAmount + x
      /\ e.hasNoRefund = TRUE /\ e.hasNoClaim = userLendInfo[u][pid].hasNoClaim
  BY <1>2, <1>3, RefundedFields
<1> HIDE DEF e
<1>5. userLendInfo'[u][pid] = e /\ OtherLendEntriesKept(u, pid)
  BY <1>1, <1>3, LendEntrySet
<1>6. BalanceMoves(pid, -x, 0)
  <2>1. \A t \in Tokens : balance'[t] = IF t = poolBaseInfo[pid].lendToken
                                        THEN balance[t] - x ELSE balance[t]
    BY <1>1, <1>2, <1>3, RedeemMoves
  <2> QED
    BY <1>2, <1>3, <2>1, SMT DEF BalanceMoves
<1> QED
  BY <1>1, <1>2, <1>4, <1>5, <1>6 DEF x

\* claimLend() mints the lender's sp, once.
LEMMA ClaimLendEffect ==
  ASSUME Books, NEW u \in Users, NEW pid \in Created, claimLend(u, pid)
  PROVE  /\ stateNotMatchUndone(pid)
         /\ ~userLendInfo[u][pid].hasNoClaim
         /\ spAmount(u, pid) \in Nat
         /\ UNCHANGED <<poolBaseInfo, poolDataInfo, userBorrowInfo>>
         /\ OtherLendEntriesKept(u, pid)
         /\ userLendInfo'[u][pid].stakeAmount = userLendInfo[u][pid].stakeAmount
         /\ userLendInfo'[u][pid].refundAmount = userLendInfo[u][pid].refundAmount
         /\ userLendInfo'[u][pid].hasNoRefund = userLendInfo[u][pid].hasNoRefund
         /\ userLendInfo'[u][pid].hasNoClaim = TRUE
         /\ DebtMoves(poolBaseInfo[pid].spCoin, u, spAmount(u, pid))
         /\ BalanceMoves(pid, 0, 0)
<1> DEFINE e == [userLendInfo[u][pid] EXCEPT !.hasNoClaim = TRUE]
<1>1. /\ stateNotMatchUndone(pid) /\ ~userLendInfo[u][pid].hasNoClaim
      /\ mint(poolBaseInfo[pid].spCoin, u, spAmount(u, pid))
      /\ userLendInfo' = [userLendInfo EXCEPT ![u][pid] = e]
      /\ UNCHANGED <<poolBaseInfo, poolDataInfo, userBorrowInfo, balance>>
  BY DEF claimLend
<1>2. spAmount(u, pid) \in Nat
  BY <1>1, DuesNat DEF Books
<1>3. /\ TypeOK /\ pid \in Pids /\ userLendInfo[u][pid] \in UserInfo
      /\ poolBaseInfo[pid].spCoin \in DebtCoins
      /\ \A t \in Tokens : balance[t] \in Nat
  BY PoolFigures DEF Books
<1>4. /\ e.stakeAmount = userLendInfo[u][pid].stakeAmount
      /\ e.refundAmount = userLendInfo[u][pid].refundAmount
      /\ e.hasNoRefund = userLendInfo[u][pid].hasNoRefund /\ e.hasNoClaim = TRUE
  BY <1>3, ClaimedFields
<1> HIDE DEF e
<1>5. userLendInfo'[u][pid] = e /\ OtherLendEntriesKept(u, pid)
  BY <1>1, <1>3, LendEntrySet
<1>6. DebtMoves(poolBaseInfo[pid].spCoin, u, spAmount(u, pid))
  BY <1>1, <1>2, <1>3, MintMoves
<1>7. BalanceMoves(pid, 0, 0)
  BY <1>1, <1>3, SMT DEF BalanceMoves
<1> QED
  BY <1>1, <1>2, <1>4, <1>5, <1>6, <1>7

\* withdrawLend() burns sp for their part of what the pool kept for lenders.
LEMMA WithdrawLendEffect ==
  ASSUME Books, NEW u \in Users, NEW pid \in Created, NEW amount \in Nat,
         withdrawLend(u, pid, amount)
  PROVE  /\ stateFinishLiquidation(pid)
         /\ poolDataInfo[pid].settleAmountLend > 0
         /\ lendPayout(pid, amount) \in Nat
         /\ amount <= debt[poolBaseInfo[pid].spCoin][u]
         /\ UNCHANGED <<poolBaseInfo, poolDataInfo, userLendInfo, userBorrowInfo>>
         /\ DebtMoves(poolBaseInfo[pid].spCoin, u, -amount)
         /\ BalanceMoves(pid, -lendPayout(pid, amount), 0)
<1> DEFINE x == lendPayout(pid, amount)
           sl == poolDataInfo[pid].settleAmountLend
<1>1. /\ stateFinishLiquidation(pid) /\ sl > 0
      /\ burn(poolBaseInfo[pid].spCoin, u, amount)
      /\ _redeem(poolBaseInfo[pid].lendToken, x)
      /\ UNCHANGED <<poolBaseInfo, poolDataInfo, userLendInfo, userBorrowInfo>>
  BY DEF withdrawLend
<1>2. /\ TypeOK /\ poolBaseInfo[pid].lendToken \in Tokens /\ poolBaseInfo[pid].spCoin \in DebtCoins
      /\ poolDataInfo[pid].finishAmountLend \in Nat
      /\ poolDataInfo[pid].liquidationAmounLend \in Nat
      /\ sl \in Nat
      /\ \A t \in Tokens : balance[t] \in Nat
  BY PoolFigures DEF Books
<1>3. sl \in Nat \ {0}
  BY <1>1, <1>2, SMT
<1>4. x \in Nat
  BY <1>2, <1>3, EntitledBounded DEF lendPayout
<1>5. amount <= debt[poolBaseInfo[pid].spCoin][u]
  <2>1. debt[poolBaseInfo[pid].spCoin][u] >= amount /\ debt[poolBaseInfo[pid].spCoin][u] \in Nat
    BY <1>1, <1>2 DEF burn, TypeOK
  <2> QED
    BY <2>1, SMT
<1>6. DebtMoves(poolBaseInfo[pid].spCoin, u, -amount)
  BY <1>1, <1>2, BurnMoves
<1> HIDE DEF x
<1>7. BalanceMoves(pid, -x, 0)
  <2>1. \A t \in Tokens : balance'[t] = IF t = poolBaseInfo[pid].lendToken
                                        THEN balance[t] - x ELSE balance[t]
    BY <1>1, <1>2, <1>4, RedeemMoves
  <2> QED
    BY <1>2, <1>4, <2>1, SMT DEF BalanceMoves
<1> QED
  BY <1>1, <1>4, <1>5, <1>6, <1>7 DEF x

\* emergencyLendWithdrawal() pays an undone pool's lender the stake, once.
LEMMA EmergencyLendEffect ==
  ASSUME Books, NEW u \in Users, NEW pid \in Created, emergencyLendWithdrawal(u, pid)
  PROVE  /\ stateUndone(pid)
         /\ ~userLendInfo[u][pid].hasNoRefund
         /\ UNCHANGED <<poolBaseInfo, poolDataInfo, userBorrowInfo, debt>>
         /\ OtherLendEntriesKept(u, pid)
         /\ userLendInfo'[u][pid].stakeAmount = userLendInfo[u][pid].stakeAmount
         /\ userLendInfo'[u][pid].hasNoRefund = TRUE
         /\ BalanceMoves(pid, -userLendInfo[u][pid].stakeAmount, 0)
<1> DEFINE x == userLendInfo[u][pid].stakeAmount
           e == withdrawn(userLendInfo[u][pid])
<1>1. /\ stateUndone(pid) /\ ~userLendInfo[u][pid].hasNoRefund
      /\ _redeem(poolBaseInfo[pid].lendToken, x)
      /\ userLendInfo' = [userLendInfo EXCEPT ![u][pid] = e]
      /\ UNCHANGED <<poolBaseInfo, poolDataInfo, userBorrowInfo, debt>>
  BY DEF emergencyLendWithdrawal
<1>2. /\ TypeOK /\ pid \in Pids /\ userLendInfo[u][pid] \in UserInfo
      /\ poolBaseInfo[pid].lendToken \in Tokens
      /\ x \in Nat
      /\ \A t \in Tokens : balance[t] \in Nat
  BY PoolFigures DEF Books
<1>3. e.stakeAmount = userLendInfo[u][pid].stakeAmount /\ e.hasNoRefund = TRUE
  BY <1>2, WithdrawnFields
<1> HIDE DEF e
<1>4. userLendInfo'[u][pid] = e /\ OtherLendEntriesKept(u, pid)
  BY <1>1, <1>2, LendEntrySet
<1> HIDE DEF x
<1>5. BalanceMoves(pid, -x, 0)
  <2>1. \A t \in Tokens : balance'[t] = IF t = poolBaseInfo[pid].lendToken
                                        THEN balance[t] - x ELSE balance[t]
    BY <1>1, <1>2, RedeemMoves
  <2> QED
    BY <1>2, <2>1, SMT DEF BalanceMoves
<1> QED
  BY <1>1, <1>3, <1>4, <1>5 DEF x

\* refundBorrow() pays the borrower's share of the collateral that was not
\* matched, once.
LEMMA RefundBorrowEffect ==
  ASSUME Books, NEW u \in Users, NEW pid \in Created, refundBorrow(u, pid)
  PROVE  /\ stateNotMatchUndone(pid)
         /\ ~userBorrowInfo[u][pid].hasNoRefund
         /\ poolBaseInfo[pid].borrowSupply > poolDataInfo[pid].settleAmountBorrow
         /\ borrowRefund(u, pid) \in Nat
         /\ UNCHANGED <<poolBaseInfo, poolDataInfo, userLendInfo, debt>>
         /\ OtherBorrowEntriesKept(u, pid)
         /\ userBorrowInfo'[u][pid].stakeAmount = userBorrowInfo[u][pid].stakeAmount
         /\ userBorrowInfo'[u][pid].refundAmount
              = userBorrowInfo[u][pid].refundAmount + borrowRefund(u, pid)
         /\ userBorrowInfo'[u][pid].hasNoRefund = TRUE
         /\ userBorrowInfo'[u][pid].hasNoClaim = userBorrowInfo[u][pid].hasNoClaim
         /\ BalanceMoves(pid, 0, -borrowRefund(u, pid))
<1> DEFINE x == borrowRefund(u, pid)
           e == refunded(userBorrowInfo[u][pid], x)
<1>1. /\ stateNotMatchUndone(pid) /\ ~userBorrowInfo[u][pid].hasNoRefund
      /\ poolBaseInfo[pid].borrowSupply > poolDataInfo[pid].settleAmountBorrow
      /\ _redeem(poolBaseInfo[pid].borrowToken, x)
      /\ userBorrowInfo' = [userBorrowInfo EXCEPT ![u][pid] = e]
      /\ UNCHANGED <<poolBaseInfo, poolDataInfo, userLendInfo, debt>>
  BY DEF refundBorrow
<1>2. x \in Nat
  BY <1>1, DuesNat DEF Books
<1>3. /\ TypeOK /\ pid \in Pids /\ userBorrowInfo[u][pid] \in UserInfo
      /\ poolBaseInfo[pid].borrowToken \in Tokens
      /\ \A t \in Tokens : balance[t] \in Nat
  BY PoolFigures DEF Books
<1> HIDE DEF x
<1>4. /\ e.stakeAmount = userBorrowInfo[u][pid].stakeAmount
      /\ e.refundAmount = userBorrowInfo[u][pid].refundAmount + x
      /\ e.hasNoRefund = TRUE /\ e.hasNoClaim = userBorrowInfo[u][pid].hasNoClaim
  BY <1>2, <1>3, RefundedFields
<1> HIDE DEF e
<1>5. userBorrowInfo'[u][pid] = e /\ OtherBorrowEntriesKept(u, pid)
  BY <1>1, <1>3, BorrowEntrySet
<1>6. BalanceMoves(pid, 0, -x)
  <2>1. \A t \in Tokens : balance'[t] = IF t = poolBaseInfo[pid].borrowToken
                                        THEN balance[t] - x ELSE balance[t]
    BY <1>1, <1>2, <1>3, RedeemMoves
  <2> QED
    BY <1>2, <1>3, <2>1, SMT DEF BalanceMoves
<1> QED
  BY <1>1, <1>2, <1>4, <1>5, <1>6 DEF x

\* A borrower's claim mints jp and pays the borrower's part of the loan.
LEMMA ClaimBorrowEffect ==
  ASSUME Books, NEW u \in Users, NEW pid \in Created, claimBorrow(u, pid)
  PROVE  /\ stateNotMatchUndone(pid)
         /\ ~userBorrowInfo[u][pid].hasNoClaim
         /\ jpAmount(u, pid) \in Nat /\ borrowAmount(u, pid) \in Nat
         /\ UNCHANGED <<poolBaseInfo, poolDataInfo, userLendInfo>>
         /\ OtherBorrowEntriesKept(u, pid)
         /\ userBorrowInfo'[u][pid].stakeAmount = userBorrowInfo[u][pid].stakeAmount
         /\ userBorrowInfo'[u][pid].refundAmount = userBorrowInfo[u][pid].refundAmount
         /\ userBorrowInfo'[u][pid].hasNoRefund = userBorrowInfo[u][pid].hasNoRefund
         /\ userBorrowInfo'[u][pid].hasNoClaim = TRUE
         /\ DebtMoves(poolBaseInfo[pid].jpCoin, u, jpAmount(u, pid))
         /\ BalanceMoves(pid, -borrowAmount(u, pid), 0)
<1> DEFINE x == borrowAmount(u, pid)
           e == [userBorrowInfo[u][pid] EXCEPT !.hasNoClaim = TRUE]
<1>1. /\ stateNotMatchUndone(pid) /\ ~userBorrowInfo[u][pid].hasNoClaim
      /\ mint(poolBaseInfo[pid].jpCoin, u, jpAmount(u, pid))
      /\ _redeem(poolBaseInfo[pid].lendToken, x)
      /\ userBorrowInfo' = [userBorrowInfo EXCEPT ![u][pid] = e]
      /\ UNCHANGED <<poolBaseInfo, poolDataInfo, userLendInfo>>
  BY DEF claimBorrow
<1>2. jpAmount(u, pid) \in Nat /\ x \in Nat
  BY <1>1, DuesNat DEF Books
<1>3. /\ TypeOK /\ pid \in Pids /\ userBorrowInfo[u][pid] \in UserInfo
      /\ poolBaseInfo[pid].jpCoin \in DebtCoins /\ poolBaseInfo[pid].lendToken \in Tokens
      /\ \A t \in Tokens : balance[t] \in Nat
  BY PoolFigures DEF Books
<1>4. /\ e.stakeAmount = userBorrowInfo[u][pid].stakeAmount
      /\ e.refundAmount = userBorrowInfo[u][pid].refundAmount
      /\ e.hasNoRefund = userBorrowInfo[u][pid].hasNoRefund /\ e.hasNoClaim = TRUE
  BY <1>3, ClaimedFields
<1> HIDE DEF e
<1>5. userBorrowInfo'[u][pid] = e /\ OtherBorrowEntriesKept(u, pid)
  BY <1>1, <1>3, BorrowEntrySet
<1>6. DebtMoves(poolBaseInfo[pid].jpCoin, u, jpAmount(u, pid))
  BY <1>1, <1>2, <1>3, MintMoves
<1> HIDE DEF x
<1>7. BalanceMoves(pid, -x, 0)
  <2>1. \A t \in Tokens : balance'[t] = IF t = poolBaseInfo[pid].lendToken
                                        THEN balance[t] - x ELSE balance[t]
    BY <1>1, <1>2, <1>3, RedeemMoves
  <2> QED
    BY <1>2, <1>3, <2>1, SMT DEF BalanceMoves
<1> QED
  BY <1>1, <1>2, <1>4, <1>5, <1>6, <1>7 DEF x

\* withdrawBorrow() burns jp for their part of the collateral that is left.
LEMMA WithdrawBorrowEffect ==
  ASSUME Books, NEW u \in Users, NEW pid \in Created, NEW amount \in Nat,
         withdrawBorrow(u, pid, amount)
  PROVE  /\ stateFinishLiquidation(pid)
         /\ poolJp(pid) > 0
         /\ borrowPayout(pid, amount) \in Nat
         /\ amount <= debt[poolBaseInfo[pid].jpCoin][u]
         /\ UNCHANGED <<poolBaseInfo, poolDataInfo, userLendInfo, userBorrowInfo>>
         /\ DebtMoves(poolBaseInfo[pid].jpCoin, u, -amount)
         /\ BalanceMoves(pid, 0, -borrowPayout(pid, amount))
<1> DEFINE x == borrowPayout(pid, amount)
<1>1. /\ stateFinishLiquidation(pid) /\ poolJp(pid) > 0
      /\ burn(poolBaseInfo[pid].jpCoin, u, amount)
      /\ _redeem(poolBaseInfo[pid].borrowToken, x)
      /\ UNCHANGED <<poolBaseInfo, poolDataInfo, userLendInfo, userBorrowInfo>>
  BY DEF withdrawBorrow
<1>2. /\ TypeOK /\ poolBaseInfo[pid].borrowToken \in Tokens
      /\ poolBaseInfo[pid].jpCoin \in DebtCoins
      /\ poolDataInfo[pid].finishAmountBorrow \in Nat
      /\ poolDataInfo[pid].liquidationAmounBorrow \in Nat
      /\ poolJp(pid) \in Nat
      /\ \A t \in Tokens : balance[t] \in Nat
  BY PoolFigures DEF Books
<1>3. poolJp(pid) \in Nat \ {0}
  BY <1>1, <1>2, SMT
<1>4. x \in Nat
  BY <1>2, <1>3, EntitledBounded DEF borrowPayout
<1>5. amount <= debt[poolBaseInfo[pid].jpCoin][u]
  <2>1. debt[poolBaseInfo[pid].jpCoin][u] >= amount /\ debt[poolBaseInfo[pid].jpCoin][u] \in Nat
    BY <1>1, <1>2 DEF burn, TypeOK
  <2> QED
    BY <2>1, SMT
<1>6. DebtMoves(poolBaseInfo[pid].jpCoin, u, -amount)
  BY <1>1, <1>2, BurnMoves
<1> HIDE DEF x
<1>7. BalanceMoves(pid, 0, -x)
  <2>1. \A t \in Tokens : balance'[t] = IF t = poolBaseInfo[pid].borrowToken
                                        THEN balance[t] - x ELSE balance[t]
    BY <1>1, <1>2, <1>4, RedeemMoves
  <2> QED
    BY <1>2, <1>4, <2>1, SMT DEF BalanceMoves
<1> QED
  BY <1>1, <1>4, <1>5, <1>6, <1>7 DEF x

\* emergencyBorrowWithdrawal() pays an undone pool's borrower the stake, once.
LEMMA EmergencyBorrowEffect ==
  ASSUME Books, NEW u \in Users, NEW pid \in Created, emergencyBorrowWithdrawal(u, pid)
  PROVE  /\ stateUndone(pid)
         /\ poolBaseInfo[pid].borrowSupply > 0
         /\ ~userBorrowInfo[u][pid].hasNoRefund
         /\ UNCHANGED <<poolBaseInfo, poolDataInfo, userLendInfo, debt>>
         /\ OtherBorrowEntriesKept(u, pid)
         /\ userBorrowInfo'[u][pid].stakeAmount = userBorrowInfo[u][pid].stakeAmount
         /\ userBorrowInfo'[u][pid].hasNoRefund = TRUE
         /\ BalanceMoves(pid, 0, -userBorrowInfo[u][pid].stakeAmount)
<1> DEFINE x == userBorrowInfo[u][pid].stakeAmount
           e == withdrawn(userBorrowInfo[u][pid])
<1>1. /\ stateUndone(pid) /\ ~userBorrowInfo[u][pid].hasNoRefund
      /\ poolBaseInfo[pid].borrowSupply > 0
      /\ _redeem(poolBaseInfo[pid].borrowToken, x)
      /\ userBorrowInfo' = [userBorrowInfo EXCEPT ![u][pid] = e]
      /\ UNCHANGED <<poolBaseInfo, poolDataInfo, userLendInfo, debt>>
  BY DEF emergencyBorrowWithdrawal
<1>2. /\ TypeOK /\ pid \in Pids /\ userBorrowInfo[u][pid] \in UserInfo
      /\ poolBaseInfo[pid].borrowToken \in Tokens
      /\ x \in Nat
      /\ \A t \in Tokens : balance[t] \in Nat
  BY PoolFigures DEF Books
<1>3. e.stakeAmount = userBorrowInfo[u][pid].stakeAmount /\ e.hasNoRefund = TRUE
  BY <1>2, WithdrawnFields
<1> HIDE DEF e
<1>4. userBorrowInfo'[u][pid] = e /\ OtherBorrowEntriesKept(u, pid)
  BY <1>1, <1>2, BorrowEntrySet
<1> HIDE DEF x
<1>5. BalanceMoves(pid, 0, -x)
  <2>1. \A t \in Tokens : balance'[t] = IF t = poolBaseInfo[pid].borrowToken
                                        THEN balance[t] - x ELSE balance[t]
    BY <1>1, <1>2, RedeemMoves
  <2> QED
    BY <1>2, <2>1, SMT DEF BalanceMoves
<1> QED
  BY <1>1, <1>3, <1>4, <1>5 DEF x

\* One pool's record is replaced.
LEMMA PoolSet ==
  ASSUME TypeOK, NEW pid \in Created, NEW v, poolBaseInfo' = [poolBaseInfo EXCEPT ![pid] = v]
  PROVE  /\ Created' = Created /\ poolBaseInfo'[pid] = v
         /\ \A q \in Created : q # pid => poolBaseInfo'[q] = poolBaseInfo[q]
<1>1. poolBaseInfo \in Seq(PoolBaseInfo) /\ pid \in 1..Len(poolBaseInfo)
  BY DEF TypeOK, Created
<1>2. Len(poolBaseInfo') = Len(poolBaseInfo)
  BY <1>1, SMT
<1>3. Created' = Created
  BY <1>2 DEF Created
<1> QED
  BY <1>1, <1>3, SMT DEF Created

\* One pool's figures are replaced.
LEMMA DataSet ==
  ASSUME TypeOK, NEW pid \in Created, NEW v, poolDataInfo' = [poolDataInfo EXCEPT ![pid] = v]
  PROVE  /\ poolDataInfo'[pid] = v
         /\ \A q \in Created : q # pid => poolDataInfo'[q] = poolDataInfo[q]
<1>1. poolDataInfo \in Seq(PoolDataInfo) /\ pid \in 1..Len(poolDataInfo)
  BY DEF TypeOK, Created
<1> QED
  BY <1>1, SMT DEF TypeOK, Created

\* What a deposit changes of a pool's record is the supply it is added to.
SameTerms(p, q) ==
  /\ p.lendToken = q.lendToken /\ p.borrowToken = q.borrowToken
  /\ p.spCoin = q.spCoin /\ p.jpCoin = q.jpCoin

\* depositLend() adds the amount to the stake, the supply and the balance, and
\* clears both flags.
LEMMA DepositLendEffect ==
  ASSUME Books, NEW u \in Users, NEW pid \in Created, NEW amount \in Amounts,
         depositLend(u, pid, amount)
  PROVE  /\ stateMatch(pid) /\ stateMatch(pid)'
         /\ amount \in Nat
         /\ OtherPoolsKept(pid) /\ SameTerms(poolBaseInfo'[pid], poolBaseInfo[pid])
         /\ poolBaseInfo'[pid].lendSupply = poolBaseInfo[pid].lendSupply + amount
         /\ poolBaseInfo'[pid].borrowSupply = poolBaseInfo[pid].borrowSupply
         /\ UNCHANGED <<poolDataInfo, userBorrowInfo, debt>>
         /\ OtherLendEntriesKept(u, pid)
         /\ userLendInfo'[u][pid].stakeAmount = userLendInfo[u][pid].stakeAmount + amount
         /\ userLendInfo'[u][pid].refundAmount = userLendInfo[u][pid].refundAmount
         /\ userLendInfo'[u][pid].hasNoRefund = FALSE
         /\ userLendInfo'[u][pid].hasNoClaim = FALSE
         /\ BalanceMoves(pid, amount, 0)
<1> DEFINE e == staked(userLendInfo[u][pid], amount)
           pool == [poolBaseInfo[pid] EXCEPT !.lendSupply = @ + amount]
<1>1. /\ stateMatch(pid)
      /\ getPayableAmount(poolBaseInfo[pid].lendToken, amount)
      /\ userLendInfo' = [userLendInfo EXCEPT ![u][pid] = e]
      /\ poolBaseInfo' = [poolBaseInfo EXCEPT ![pid] = pool]
      /\ UNCHANGED <<poolDataInfo, userBorrowInfo, debt>>
  BY DEF depositLend
<1>2. amount \in Nat
  BY PoolAssumption
<1>3. /\ TypeOK /\ pid \in Pids /\ userLendInfo[u][pid] \in UserInfo
      /\ poolBaseInfo[pid] \in PoolBaseInfo
      /\ poolBaseInfo[pid].lendToken \in Tokens
      /\ \A t \in Tokens : balance[t] \in Nat
  BY PoolFigures DEF Books
<1>4. /\ e.stakeAmount = userLendInfo[u][pid].stakeAmount + amount
      /\ e.refundAmount = userLendInfo[u][pid].refundAmount
      /\ e.hasNoRefund = FALSE /\ e.hasNoClaim = FALSE
  BY <1>2, <1>3, StakedFields
<1> HIDE DEF e
<1>5. userLendInfo'[u][pid] = e /\ OtherLendEntriesKept(u, pid)
  BY <1>1, <1>3, LendEntrySet
<1>6. /\ pool.state = poolBaseInfo[pid].state
      /\ SameTerms(pool, poolBaseInfo[pid])
      /\ pool.lendSupply = poolBaseInfo[pid].lendSupply + amount
      /\ pool.borrowSupply = poolBaseInfo[pid].borrowSupply
  BY <1>3 DEF PoolBaseInfo, SameTerms
<1> HIDE DEF pool
<1>7. poolBaseInfo'[pid] = pool /\ OtherPoolsKept(pid)
  BY <1>1, <1>3, PoolSet DEF OtherPoolsKept
<1>8. stateMatch(pid)'
  BY <1>1, <1>6, <1>7 DEF stateMatch, inState
<1>9. BalanceMoves(pid, amount, 0)
  <2>1. \A t \in Tokens : balance'[t] = IF t = poolBaseInfo[pid].lendToken
                                        THEN balance[t] + amount ELSE balance[t]
    BY <1>1, <1>2, <1>3, PayableMoves
  <2> QED
    BY <1>2, <1>3, <2>1, SMT DEF BalanceMoves
<1> QED
  BY <1>1, <1>2, <1>4, <1>5, <1>6, <1>7, <1>8, <1>9

\* depositBorrow() does the same on the borrowers' side.
LEMMA DepositBorrowEffect ==
  ASSUME Books, NEW u \in Users, NEW pid \in Created, NEW amount \in Amounts,
         depositBorrow(u, pid, amount)
  PROVE  /\ stateMatch(pid) /\ stateMatch(pid)'
         /\ amount \in Nat /\ BorrowDeposits
         /\ OtherPoolsKept(pid) /\ SameTerms(poolBaseInfo'[pid], poolBaseInfo[pid])
         /\ poolBaseInfo'[pid].lendSupply = poolBaseInfo[pid].lendSupply
         /\ poolBaseInfo'[pid].borrowSupply = poolBaseInfo[pid].borrowSupply + amount
         /\ UNCHANGED <<poolDataInfo, userLendInfo, debt>>
         /\ OtherBorrowEntriesKept(u, pid)
         /\ userBorrowInfo'[u][pid].stakeAmount = userBorrowInfo[u][pid].stakeAmount + amount
         /\ userBorrowInfo'[u][pid].refundAmount = userBorrowInfo[u][pid].refundAmount
         /\ userBorrowInfo'[u][pid].hasNoRefund = FALSE
         /\ userBorrowInfo'[u][pid].hasNoClaim = FALSE
         /\ BalanceMoves(pid, 0, amount)
<1> DEFINE e == staked(userBorrowInfo[u][pid], amount)
           pool == [poolBaseInfo[pid] EXCEPT !.borrowSupply = @ + amount]
<1>1. /\ stateMatch(pid) /\ BorrowDeposits
      /\ getPayableAmount(poolBaseInfo[pid].borrowToken, amount)
      /\ userBorrowInfo' = [userBorrowInfo EXCEPT ![u][pid] = e]
      /\ poolBaseInfo' = [poolBaseInfo EXCEPT ![pid] = pool]
      /\ UNCHANGED <<poolDataInfo, userLendInfo, debt>>
  BY DEF depositBorrow
<1>2. amount \in Nat
  BY PoolAssumption
<1>3. /\ TypeOK /\ pid \in Pids /\ userBorrowInfo[u][pid] \in UserInfo
      /\ poolBaseInfo[pid] \in PoolBaseInfo
      /\ poolBaseInfo[pid].borrowToken \in Tokens
      /\ \A t \in Tokens : balance[t] \in Nat
  BY PoolFigures DEF Books
<1>4. /\ e.stakeAmount = userBorrowInfo[u][pid].stakeAmount + amount
      /\ e.refundAmount = userBorrowInfo[u][pid].refundAmount
      /\ e.hasNoRefund = FALSE /\ e.hasNoClaim = FALSE
  BY <1>2, <1>3, StakedFields
<1> HIDE DEF e
<1>5. userBorrowInfo'[u][pid] = e /\ OtherBorrowEntriesKept(u, pid)
  BY <1>1, <1>3, BorrowEntrySet
<1>6. /\ pool.state = poolBaseInfo[pid].state
      /\ SameTerms(pool, poolBaseInfo[pid])
      /\ pool.lendSupply = poolBaseInfo[pid].lendSupply
      /\ pool.borrowSupply = poolBaseInfo[pid].borrowSupply + amount
  BY <1>3 DEF PoolBaseInfo, SameTerms
<1> HIDE DEF pool
<1>7. poolBaseInfo'[pid] = pool /\ OtherPoolsKept(pid)
  BY <1>1, <1>3, PoolSet DEF OtherPoolsKept
<1>8. stateMatch(pid)'
  BY <1>1, <1>6, <1>7 DEF stateMatch, inState
<1>9. BalanceMoves(pid, 0, amount)
  <2>1. \A t \in Tokens : balance'[t] = IF t = poolBaseInfo[pid].borrowToken
                                        THEN balance[t] + amount ELSE balance[t]
    BY <1>1, <1>2, <1>3, PayableMoves
  <2> QED
    BY <1>2, <1>3, <2>1, SMT DEF BalanceMoves
<1> QED
  BY <1>1, <1>2, <1>4, <1>5, <1>6, <1>7, <1>8, <1>9

-----------------------------------------------------------------------------
(* What settlement and the sale of the collateral do.                       *)

\* Settlement changes the state and the two settled amounts of one pool.
LEMMA SettleEffect ==
  ASSUME Books, NEW pid \in Created, settle(pid)
  PROVE  LET pool == poolBaseInfo[pid]
             data == poolDataInfo'[pid]
         IN  /\ stateMatch(pid) /\ OtherPoolsKept(pid) /\ UNCHANGED <<books, balance, price>>
             /\ \/ /\ bothSides(pool)
                   /\ poolBaseInfo'[pid] = [pool EXCEPT !.state = "EXECUTION"]
                   /\ data.settleAmountLend \in Nat /\ data.settleAmountBorrow \in Nat
                   /\ data.settleAmountLend <= pool.lendSupply
                   /\ price[pool.lendToken] > 0
                   /\ (price[pool.borrowToken] * BaseDecimal) % price[pool.lendToken] = 0
                        => data.settleAmountBorrow <= pool.borrowSupply
                \/ /\ ~bothSides(pool)
                   /\ poolBaseInfo'[pid] = [pool EXCEPT !.state = "UNDONE"]
                   /\ data.settleAmountLend = pool.lendSupply
                   /\ data.settleAmountBorrow = pool.borrowSupply
<1> DEFINE pool == poolBaseInfo[pid]
           p0 == price[pool.lendToken]
           p1 == price[pool.borrowToken]
           m == SettleAmounts(pool.lendSupply, pool.borrowSupply, p0, p1, pool.martgageRate)
           data(l, b) == [poolDataInfo[pid] EXCEPT !.settleAmountLend = l, !.settleAmountBorrow = b]
<1>0. /\ TypeOK /\ pool \in PoolBaseInfo /\ poolDataInfo[pid] \in PoolDataInfo
      /\ pool.lendToken \in Tokens /\ pool.borrowToken \in Tokens
      /\ pool.lendSupply \in Nat /\ pool.borrowSupply \in Nat
  BY PoolFigures DEF Books
<1>1. pool.martgageRate \in Nat /\ p0 \in Nat /\ p1 \in Nat
  BY <1>0 DEF PoolBaseInfo, TypeOK
<1>2. stateMatch(pid) /\ UNCHANGED <<books, balance, price>>
  BY DEF settle
<1>3. ASSUME NEW st, NEW l, NEW b,
             poolDataInfo' = [poolDataInfo EXCEPT ![pid] = data(l, b)],
             poolBaseInfo' = [poolBaseInfo EXCEPT ![pid].state = st]
      PROVE  /\ OtherPoolsKept(pid) /\ poolBaseInfo'[pid] = [pool EXCEPT !.state = st]
             /\ poolDataInfo'[pid].settleAmountLend = l
             /\ poolDataInfo'[pid].settleAmountBorrow = b
  <2> DEFINE d == data(l, b)
             q == [pool EXCEPT !.state = st]
  <2>1. d.settleAmountLend = l /\ d.settleAmountBorrow = b
    BY <1>0 DEF PoolDataInfo
  <2>2. /\ poolDataInfo' = [poolDataInfo EXCEPT ![pid] = d]
        /\ poolBaseInfo' = [poolBaseInfo EXCEPT ![pid] = q]
    BY <1>3
  <2> HIDE DEF d, q
  <2>3. poolBaseInfo'[pid] = q /\ OtherPoolsKept(pid) /\ poolDataInfo'[pid] = d
    BY <1>0, <2>2, PoolSet, DataSet DEF OtherPoolsKept
  <2> QED
    BY <2>1, <2>3 DEF q
<1>4. CASE settleMatched(pid)
  <2>1. /\ bothSides(pool)
        /\ SettleDefined(pool.lendSupply, pool.borrowSupply, p0, p1, pool.martgageRate)
        /\ poolDataInfo' = [poolDataInfo EXCEPT ![pid] = data(m.lend, m.borrow)]
        /\ poolBaseInfo' = [poolBaseInfo EXCEPT ![pid].state = "EXECUTION"]
    BY <1>4 DEF settleMatched, getUnderlyingPriceView
  <2>2. /\ m.lend \in Nat /\ m.borrow \in Nat /\ m.lend <= pool.lendSupply
        /\ (p1 * BaseDecimal) % p0 = 0 => m.borrow <= pool.borrowSupply
    BY <1>0, <1>1, <2>1, SettlementSound
  <2>3. p0 > 0
    BY <2>1 DEF SettleDefined
  <2> HIDE DEF m, data
  <2>4. /\ OtherPoolsKept(pid) /\ poolBaseInfo'[pid] = [pool EXCEPT !.state = "EXECUTION"]
        /\ poolDataInfo'[pid].settleAmountLend = m.lend
        /\ poolDataInfo'[pid].settleAmountBorrow = m.borrow
    BY <1>3, <2>1
  <2> QED
    BY <1>2, <2>1, <2>2, <2>3, <2>4
<1>5. CASE settleUnmatched(pid)
  <2> DEFINE l == pool.lendSupply
             b == pool.borrowSupply
  <2>1. /\ ~bothSides(pool)
        /\ poolDataInfo' = [poolDataInfo EXCEPT ![pid] = data(l, b)]
        /\ poolBaseInfo' = [poolBaseInfo EXCEPT ![pid].state = "UNDONE"]
    BY <1>5 DEF settleUnmatched
  <2> HIDE DEF l, b, data
  <2>2. /\ OtherPoolsKept(pid) /\ poolBaseInfo'[pid] = [pool EXCEPT !.state = "UNDONE"]
        /\ poolDataInfo'[pid].settleAmountLend = l /\ poolDataInfo'[pid].settleAmountBorrow = b
    BY <1>3, <2>1
  <2> QED
    BY <1>2, <2>1, <2>2 DEF l, b
<1> QED
  BY <1>4, <1>5 DEF settle

\* The collateral of an executing pool is sold for "kept" lendToken at a cost,
\* swap and fee, in borrowToken; the pool is left in state st.
Sale(pid, kept, cost, st) ==
  /\ inState(pid, {"EXECUTION"})
  /\ cost <= poolDataInfo[pid].settleAmountBorrow
  /\ OtherPoolsKept(pid)
  /\ poolBaseInfo'[pid] = [poolBaseInfo[pid] EXCEPT !.state = st]
  /\ poolDataInfo'[pid].settleAmountLend = poolDataInfo[pid].settleAmountLend
  /\ poolDataInfo'[pid].settleAmountBorrow = poolDataInfo[pid].settleAmountBorrow
  /\ \/ /\ st = "FINISH" /\ kept = owedToLenders(pid)
        /\ poolDataInfo'[pid].finishAmountLend = kept
        /\ poolDataInfo'[pid].finishAmountBorrow = poolDataInfo[pid].settleAmountBorrow - cost
     \/ /\ st = "LIQUIDATION" /\ kept <= owedToLenders(pid)
        /\ poolDataInfo'[pid].liquidationAmounLend = kept
        /\ poolDataInfo'[pid].liquidationAmounBorrow = poolDataInfo[pid].settleAmountBorrow - cost
  /\ UNCHANGED books
  /\ BalanceMoves(pid, kept, -cost)

\* The balance after a sale, and what of the proceeds stays.
LEMMA SaleMoves ==
  ASSUME Books, NEW pid \in Created, NEW sold \in Costs, NEW got,
         sellCollateral(pid, sold, got, keptOf(pid, got), feeOf(remaining(pid, sold), borrowFee))
  PROVE  LET cost == sold + feeOf(remaining(pid, sold), borrowFee)
         IN  /\ keptOf(pid, got) \in Nat /\ cost \in Nat
             /\ keptOf(pid, got) <= owedToLenders(pid)
             /\ got >= owedToLenders(pid) => keptOf(pid, got) = owedToLenders(pid)
             /\ cost <= poolDataInfo[pid].settleAmountBorrow
             /\ remaining(pid, sold) - feeOf(remaining(pid, sold), borrowFee)
                  = poolDataInfo[pid].settleAmountBorrow - cost
             /\ BalanceMoves(pid, keptOf(pid, got), -cost)
<1> DEFINE pool == poolBaseInfo[pid]
           kept == keptOf(pid, got)
           left == remaining(pid, sold)
           fee == feeOf(left, borrowFee)
           owes == owedToLenders(pid)
           sb == poolDataInfo[pid].settleAmountBorrow
           wanted == sellAmount(owes, lendFee)
           sale == [balance EXCEPT ![pool.borrowToken] = @ - sold]
           paid == [sale EXCEPT ![pool.lendToken] = @ + kept]
<1>1. /\ TypeOK /\ pool \in PoolBaseInfo
      /\ pool.lendToken \in Tokens /\ pool.borrowToken \in Tokens
      /\ poolDataInfo[pid].settleAmountLend \in Nat /\ sb \in Nat
  BY PoolFigures DEF Books
<1>2. sold \in Nat /\ Slippage \in Nat /\ lendFee \in Nat /\ borrowFee \in Nat
  BY <1>1, PoolAssumption DEF TypeOK
<1>3. owes \in Nat /\ wanted \in Nat
  <2>1. /\ pool.settleTime \in Nat /\ pool.endTime \in Nat /\ pool.interestRate \in Nat
        /\ pool.settleTime < pool.endTime
    BY <1>1 DEF PoolBaseInfo, Books, IInv, TermsOrdered
  <2>2. pool.endTime >= pool.settleTime
    <3> HIDE DEF pool
    <3> QED BY <2>1, SMT
  <2> QED
    BY <1>1, <1>2, <2>1, <2>2, OwedNat DEF owedToLenders
<1>4. /\ got \in swapProceeds(wanted)
      /\ sold <= sb
      /\ fee <= sb - sold
      /\ balance' = [paid EXCEPT ![pool.borrowToken] = @ - fee]
  BY DEF sellCollateral
<1>5. kept \in Nat /\ kept <= owes /\ (got >= owes => kept = owes)
  <2>1. got \in Nat
    <3> HIDE DEF wanted
    <3> QED BY <1>2, <1>3, <1>4, SMT DEF swapProceeds
  <2> HIDE DEF owes
  <2> QED
    BY <1>3, <2>1, SMT DEF keptOf, owes
<1>6. left \in Nat /\ left = sb - sold
  BY <1>1, <1>2, <1>4, SMT DEF remaining
<1>7. fee \in Nat
  BY <1>2, <1>6, FeeNat
<1> HIDE DEF kept, fee, left, sb
<1>8. sold + fee \in Nat /\ sold + fee <= sb /\ left - fee = sb - (sold + fee)
  BY <1>1, <1>2, <1>4, <1>6, <1>7, SMT
<1>9. BalanceMoves(pid, kept, -(sold + fee))
  <2>0. balance \in [Tokens -> Nat]
    BY <1>1 DEF TypeOK
  <2>1. sale \in [Tokens -> Int] /\ \A t \in Tokens :
          sale[t] = IF t = pool.borrowToken THEN balance[t] - sold ELSE balance[t]
    BY <1>1, <1>2, <2>0, SMT
  <2> HIDE DEF sale
  <2>2. paid \in [Tokens -> Int] /\ \A t \in Tokens :
          paid[t] = IF t = pool.lendToken THEN sale[t] + kept ELSE sale[t]
    BY <1>1, <1>5, <2>1, SMT
  <2> HIDE DEF paid
  <2>3. \A t \in Tokens :
          balance'[t] = IF t = pool.borrowToken THEN paid[t] - fee ELSE paid[t]
    BY <1>1, <1>4, <1>7, <2>2, SMT
  <2> SUFFICES ASSUME NEW t \in Tokens
               PROVE  balance'[t] = balance[t] + (IF pool.lendToken = t THEN kept ELSE 0)
                                      + (IF pool.borrowToken = t THEN -(sold + fee) ELSE 0)
    BY DEF BalanceMoves
  <2>4. balance[t] \in Nat /\ sale[t] \in Int /\ paid[t] \in Int
    BY <2>0, <2>1, <2>2
  <2>5. /\ sale[t] = IF t = pool.borrowToken THEN balance[t] - sold ELSE balance[t]
        /\ paid[t] = IF t = pool.lendToken THEN sale[t] + kept ELSE sale[t]
        /\ balance'[t] = IF t = pool.borrowToken THEN paid[t] - fee ELSE paid[t]
    BY <2>1, <2>2, <2>3
  <2> HIDE DEF pool
  <2> QED
    BY <1>2, <1>5, <1>7, <2>4, <2>5, SMT
<1> QED
  BY <1>5, <1>8, <1>9 DEF kept, fee, left, owes, sb

\* finish() and liquidate() are sales of the collateral of an executing pool.
LEMMA SaleEffect ==
  ASSUME Books, NEW pid \in Created, NEW sold \in Costs, NEW got,
         finish(pid, sold, got) \/ liquidate(pid, sold, got)
  PROVE  \E kept \in Nat, cost \in Nat, st \in {"FINISH", "LIQUIDATION"} : Sale(pid, kept, cost, st)
<1> DEFINE kept == keptOf(pid, got)
           fee == feeOf(remaining(pid, sold), borrowFee)
           cost == sold + fee
           left == remaining(pid, sold) - fee
           sb == poolDataInfo[pid].settleAmountBorrow
<1>0. TypeOK /\ poolBaseInfo[pid] \in PoolBaseInfo /\ poolDataInfo[pid] \in PoolDataInfo
  BY PoolFigures DEF Books
<1>1. /\ inState(pid, {"EXECUTION"}) /\ UNCHANGED books
      /\ sellCollateral(pid, sold, got, kept, fee)
  BY DEF finish, liquidate
<1>2. /\ kept \in Nat /\ cost \in Nat /\ kept <= owedToLenders(pid)
      /\ got >= owedToLenders(pid) => kept = owedToLenders(pid)
      /\ cost <= sb /\ left = sb - cost
      /\ BalanceMoves(pid, kept, -cost)
  BY <1>1, SaleMoves
<1>3. CASE finish(pid, sold, got)
  <2> DEFINE d == [poolDataInfo[pid] EXCEPT !.finishAmountLend = kept, !.finishAmountBorrow = left]
             q == [poolBaseInfo[pid] EXCEPT !.state = "FINISH"]
  <2>1. /\ got >= owedToLenders(pid)
        /\ poolDataInfo' = [poolDataInfo EXCEPT ![pid] = d]
        /\ poolBaseInfo' = [poolBaseInfo EXCEPT ![pid] = q]
    BY <1>3 DEF finish
  <2> HIDE DEF kept, cost, left
  <2>2. /\ d.settleAmountLend = poolDataInfo[pid].settleAmountLend
        /\ d.settleAmountBorrow = sb
        /\ d.finishAmountLend = kept /\ d.finishAmountBorrow = left
    BY <1>0 DEF PoolDataInfo
  <2> HIDE DEF d, q
  <2>3. poolBaseInfo'[pid] = q /\ OtherPoolsKept(pid) /\ poolDataInfo'[pid] = d
    BY <1>0, <2>1, PoolSet, DataSet DEF OtherPoolsKept
  <2>4. Sale(pid, kept, cost, "FINISH")
    BY <1>1, <1>2, <2>1, <2>2, <2>3 DEF Sale, q
  <2> QED
    BY <1>2, <2>4
<1>4. CASE liquidate(pid, sold, got)
  <2> DEFINE d == [poolDataInfo[pid] EXCEPT !.liquidationAmounLend = kept,
                                            !.liquidationAmounBorrow = left]
             q == [poolBaseInfo[pid] EXCEPT !.state = "LIQUIDATION"]
  <2>1. /\ poolDataInfo' = [poolDataInfo EXCEPT ![pid] = d]
        /\ poolBaseInfo' = [poolBaseInfo EXCEPT ![pid] = q]
    BY <1>4 DEF liquidate
  <2> HIDE DEF kept, cost, left
  <2>2. /\ d.settleAmountLend = poolDataInfo[pid].settleAmountLend
        /\ d.settleAmountBorrow = sb
        /\ d.liquidationAmounLend = kept /\ d.liquidationAmounBorrow = left
    BY <1>0 DEF PoolDataInfo
  <2> HIDE DEF d, q
  <2>3. poolBaseInfo'[pid] = q /\ OtherPoolsKept(pid) /\ poolDataInfo'[pid] = d
    BY <1>0, <2>1, PoolSet, DataSet DEF OtherPoolsKept
  <2>4. Sale(pid, kept, cost, "LIQUIDATION")
    BY <1>1, <1>2, <2>2, <2>3 DEF Sale, q
  <2> QED
    BY <1>2, <2>4
<1> QED
  BY <1>3, <1>4

-----------------------------------------------------------------------------
(* A step touches at most one pool.                                         *)

\* A pool's record, its figures and its users' entries stay as they are.
PoolKept(q) ==
  /\ poolBaseInfo'[q] = poolBaseInfo[q] /\ poolDataInfo'[q] = poolDataInfo[q]
  /\ \A v \in Users : /\ userLendInfo'[v][q] = userLendInfo[v][q]
                      /\ userBorrowInfo'[v][q] = userBorrowInfo[v][q]

\* Everything that is not about pool pid or in its coins stays as it is.
Touches(pid) ==
  /\ Created' = Created
  /\ SameTerms(poolBaseInfo'[pid], poolBaseInfo[pid])
  /\ \A q \in Created : q # pid => PoolKept(q)
  /\ \A q \in Pids \ Created, v \in Users : /\ userLendInfo'[v][q] = userLendInfo[v][q]
                                            /\ userBorrowInfo'[v][q] = userBorrowInfo[v][q]
  /\ \A c \in DebtCoins : c # poolBaseInfo[pid].spCoin /\ c # poolBaseInfo[pid].jpCoin
                            => debt'[c] = debt[c]

\* A transaction of one lender with one pool, in its sp coin at most.
LEMMA TouchesByLender ==
  ASSUME Books, NEW u \in Users, NEW pid \in Created,
         OtherPoolsKept(pid), SameTerms(poolBaseInfo'[pid], poolBaseInfo[pid]),
         OtherLendEntriesKept(u, pid), UNCHANGED userBorrowInfo,
         \A c \in DebtCoins : c # poolBaseInfo[pid].spCoin => debt'[c] = debt[c]
  PROVE  Touches(pid)
<1>1. pid \in Pids /\ \A q \in Created : q \in Pids
  BY PoolFigures DEF Books
<1> QED
  BY <1>1 DEF Touches, PoolKept, OtherPoolsKept, OtherLendEntriesKept

\* A transaction of one borrower with one pool, in its jp coin at most.
LEMMA TouchesByBorrower ==
  ASSUME Books, NEW u \in Users, NEW pid \in Created,
         OtherPoolsKept(pid), SameTerms(poolBaseInfo'[pid], poolBaseInfo[pid]),
         OtherBorrowEntriesKept(u, pid), UNCHANGED userLendInfo,
         \A c \in DebtCoins : c # poolBaseInfo[pid].jpCoin => debt'[c] = debt[c]
  PROVE  Touches(pid)
<1>1. pid \in Pids /\ \A q \in Created : q \in Pids
  BY PoolFigures DEF Books
<1> QED
  BY <1>1 DEF Touches, PoolKept, OtherPoolsKept, OtherBorrowEntriesKept

\* A pool that a step leaves alone keeps its books.
LEMMA BooksAtKept ==
  ASSUME NEW q \in Created, BooksAt(q), PoolKept(q) PROVE BooksAt(q)'
<1>1. /\ stakes(userLendInfo, q)' = stakes(userLendInfo, q)
      /\ stakes(userBorrowInfo, q)' = stakes(userBorrowInfo, q)
  BY DEF stakes, PoolKept
<1>2. /\ stateMatch(q)' <=> stateMatch(q)
      /\ stateNotMatchUndone(q)' <=> stateNotMatchUndone(q)
  BY DEF PoolKept, stateMatch, stateNotMatchUndone, inState
<1>3. \A u \in Users : RefundedOnce(u, q) => RefundedOnce(u, q)'
  BY DEF PoolKept, RefundedOnce, lendRefund, borrowRefund
<1> QED
  BY <1>1, <1>2, <1>3 DEF BooksAt, PoolKept

\* The books after a step that touches one pool, whose coins move only once it
\* is executed.
LEMMA TouchBooks ==
  ASSUME Books, IInv', NEW pid \in Created, Touches(pid), BooksAt(pid)',
         stateNotMatchUndone(pid) => stateNotMatchUndone(pid)',
         stateNotMatchUndone(pid)' \/ UNCHANGED debt
  PROVE  Books'
<1>1. UncreatedBlank'
  BY DEF Books, UncreatedBlank, Touches
<1>2. \A q \in Created' : BooksAt(q)'
  BY BooksAtKept DEF Books, Touches
<1>3. IdleCoins'
  <2> SUFFICES ASSUME NEW c \in DebtCoins, NEW u \in Users,
                      \A q \in Created : stateNotMatchUndone(q)' =>
                        c # poolBaseInfo'[q].spCoin /\ c # poolBaseInfo'[q].jpCoin
               PROVE  debt'[c][u] = 0
    BY DEF IdleCoins, Touches
  <2>1. \A q \in Created : /\ stateNotMatchUndone(q) => stateNotMatchUndone(q)'
                           /\ poolBaseInfo'[q].spCoin = poolBaseInfo[q].spCoin
                           /\ poolBaseInfo'[q].jpCoin = poolBaseInfo[q].jpCoin
    BY DEF Touches, PoolKept, SameTerms, stateNotMatchUndone, inState
  <2>2. debt[c][u] = 0
    BY <2>1 DEF Books, IdleCoins
  <2>3. debt'[c] = debt[c]
    BY <2>1 DEF Touches
  <2> QED
    BY <2>2, <2>3
<1> QED
  BY <1>1, <1>2, <1>3 DEF Books

\* The books of a pool after a payment: stakes are kept and refunds recorded.
LEMMA PaidBooksAt ==
  ASSUME Books, NEW pid \in Created, ~stateMatch(pid),
         UNCHANGED <<poolBaseInfo, poolDataInfo>>,
         \A v \in Users :
           /\ userLendInfo'[v][pid].stakeAmount = userLendInfo[v][pid].stakeAmount
           /\ userBorrowInfo'[v][pid].stakeAmount = userBorrowInfo[v][pid].stakeAmount,
         stateNotMatchUndone(pid) => \A v \in Users : RefundedOnce(v, pid)'
  PROVE  BooksAt(pid)'
<1>1. /\ stakes(userLendInfo, pid)' = stakes(userLendInfo, pid)
      /\ stakes(userBorrowInfo, pid)' = stakes(userBorrowInfo, pid)
  BY DEF stakes
<1>2. /\ stateMatch(pid)' <=> stateMatch(pid)
      /\ stateNotMatchUndone(pid)' <=> stateNotMatchUndone(pid)
  BY DEF stateMatch, stateNotMatchUndone, inState
<1> QED
  BY <1>1, <1>2 DEF Books, BooksAt

\* What a lender does in a pool keeps the books.
LEMMA LenderBooks ==
  ASSUME Books, IInv', NEW u \in Users, NEW pid \in Created,
         \/ refundLend(u, pid) \/ claimLend(u, pid) \/ emergencyLendWithdrawal(u, pid)
  PROVE  Touches(pid) /\ Books'
<1>1. /\ ~stateMatch(pid)
      /\ UNCHANGED <<poolBaseInfo, poolDataInfo, userBorrowInfo>>
      /\ OtherLendEntriesKept(u, pid)
      /\ userLendInfo'[u][pid].stakeAmount = userLendInfo[u][pid].stakeAmount
      /\ \A c \in DebtCoins : c # poolBaseInfo[pid].spCoin => debt'[c] = debt[c]
      /\ stateNotMatchUndone(pid) \/ UNCHANGED debt
  <2>1. CASE refundLend(u, pid)
    BY <2>1, RefundLendEffect DEF stateMatch, stateNotMatchUndone, inState
  <2>2. CASE claimLend(u, pid)
    <3>1. /\ stateNotMatchUndone(pid)
          /\ DebtMoves(poolBaseInfo[pid].spCoin, u, spAmount(u, pid))
      BY <2>2, ClaimLendEffect
    <3>2. ~stateMatch(pid)
      BY <3>1 DEF stateMatch, stateNotMatchUndone, inState
    <3>3. \A c \in DebtCoins : c # poolBaseInfo[pid].spCoin => debt'[c] = debt[c]
      BY <3>1 DEF DebtMoves
    <3> QED
      BY <2>2, <3>1, <3>2, <3>3, ClaimLendEffect
  <2>3. CASE emergencyLendWithdrawal(u, pid)
    BY <2>3, EmergencyLendEffect DEF stateMatch, stateUndone, inState
  <2> QED
    BY <2>1, <2>2, <2>3
<1>2. pid \in Pids /\ BooksAt(pid)
  BY PoolFigures DEF Books
<1>3. OtherPoolsKept(pid) /\ SameTerms(poolBaseInfo'[pid], poolBaseInfo[pid])
  BY <1>1 DEF OtherPoolsKept, SameTerms, Created
<1>4. Touches(pid)
  BY <1>1, <1>3, TouchesByLender
<1>5. \A v \in Users : v # u => userLendInfo'[v][pid] = userLendInfo[v][pid]
  BY <1>1, <1>2 DEF OtherLendEntriesKept
<1>6. \A v \in Users : userLendInfo'[v][pid].stakeAmount = userLendInfo[v][pid].stakeAmount
  BY <1>1, <1>5
<1>7. \A v \in Users : lendRefund(v, pid)' = lendRefund(v, pid) /\ borrowRefund(v, pid)' = borrowRefund(v, pid)
  BY <1>1, <1>6 DEF lendRefund, borrowRefund
<1>8. ASSUME stateNotMatchUndone(pid), NEW v \in Users PROVE RefundedOnce(v, pid)'
  <2>1. RefundedOnce(v, pid)
    BY <1>2, <1>8 DEF BooksAt
  <2>2. CASE userLendInfo'[v][pid].refundAmount = userLendInfo[v][pid].refundAmount
             /\ userLendInfo'[v][pid].hasNoRefund = userLendInfo[v][pid].hasNoRefund
    BY <1>1, <1>7, <2>1, <2>2 DEF RefundedOnce
  <2>3. CASE v = u /\ refundLend(u, pid)
    <3>1. /\ ~userLendInfo[u][pid].hasNoRefund /\ lendRefund(u, pid) \in Nat
          /\ userLendInfo'[u][pid].refundAmount
               = userLendInfo[u][pid].refundAmount + lendRefund(u, pid)
          /\ userLendInfo'[u][pid].hasNoRefund = TRUE
      BY <2>3, RefundLendEffect
    <3>2. userLendInfo[u][pid].refundAmount = 0
      BY <2>1, <2>3, <3>1 DEF RefundedOnce
    <3>3. userLendInfo'[u][pid].refundAmount = lendRefund(u, pid)
      BY <3>1, <3>2, SMT
    <3> QED
      BY <1>1, <1>7, <2>1, <2>3, <3>1, <3>3 DEF RefundedOnce
  <2>4. ~emergencyLendWithdrawal(u, pid)
    BY <1>8 DEF emergencyLendWithdrawal, stateUndone, stateNotMatchUndone, inState
  <2> QED
    <3>1. claimLend(u, pid) => /\ userLendInfo'[u][pid].refundAmount = userLendInfo[u][pid].refundAmount
                            /\ userLendInfo'[u][pid].hasNoRefund = userLendInfo[u][pid].hasNoRefund
      BY ClaimLendEffect
    <3> QED
      BY <1>5, <2>2, <2>3, <2>4, <3>1
<1>9. BooksAt(pid)'
  BY <1>1, <1>6, <1>8, PaidBooksAt
<1>10. stateNotMatchUndone(pid)' <=> stateNotMatchUndone(pid)
  BY <1>1 DEF stateNotMatchUndone, inState
<1> QED
  BY <1>1, <1>4, <1>9, <1>10, TouchBooks

\* What a borrower does in a pool keeps the books.
LEMMA BorrowerBooks ==
  ASSUME Books, IInv', NEW u \in Users, NEW pid \in Created,
         \/ refundBorrow(u, pid) \/ claimBorrow(u, pid) \/ emergencyBorrowWithdrawal(u, pid)
  PROVE  Touches(pid) /\ Books'
<1>1. /\ ~stateMatch(pid)
      /\ UNCHANGED <<poolBaseInfo, poolDataInfo, userLendInfo>>
      /\ OtherBorrowEntriesKept(u, pid)
      /\ userBorrowInfo'[u][pid].stakeAmount = userBorrowInfo[u][pid].stakeAmount
      /\ \A c \in DebtCoins : c # poolBaseInfo[pid].jpCoin => debt'[c] = debt[c]
      /\ stateNotMatchUndone(pid) \/ UNCHANGED debt
  <2>1. CASE refundBorrow(u, pid)
    BY <2>1, RefundBorrowEffect DEF stateMatch, stateNotMatchUndone, inState
  <2>2. CASE claimBorrow(u, pid)
    <3>1. /\ stateNotMatchUndone(pid)
          /\ DebtMoves(poolBaseInfo[pid].jpCoin, u, jpAmount(u, pid))
      BY <2>2, ClaimBorrowEffect
    <3>2. ~stateMatch(pid)
      BY <3>1 DEF stateMatch, stateNotMatchUndone, inState
    <3>3. \A c \in DebtCoins : c # poolBaseInfo[pid].jpCoin => debt'[c] = debt[c]
      BY <3>1 DEF DebtMoves
    <3> QED
      BY <2>2, <3>1, <3>2, <3>3, ClaimBorrowEffect
  <2>3. CASE emergencyBorrowWithdrawal(u, pid)
    BY <2>3, EmergencyBorrowEffect DEF stateMatch, stateUndone, inState
  <2> QED
    BY <2>1, <2>2, <2>3
<1>2. pid \in Pids /\ BooksAt(pid)
  BY PoolFigures DEF Books
<1>3. OtherPoolsKept(pid) /\ SameTerms(poolBaseInfo'[pid], poolBaseInfo[pid])
  BY <1>1 DEF OtherPoolsKept, SameTerms, Created
<1>4. Touches(pid)
  BY <1>1, <1>3, TouchesByBorrower
<1>5. \A v \in Users : v # u => userBorrowInfo'[v][pid] = userBorrowInfo[v][pid]
  BY <1>1, <1>2 DEF OtherBorrowEntriesKept
<1>6. \A v \in Users : userBorrowInfo'[v][pid].stakeAmount = userBorrowInfo[v][pid].stakeAmount
  BY <1>1, <1>5
<1>7. \A v \in Users : lendRefund(v, pid)' = lendRefund(v, pid) /\ borrowRefund(v, pid)' = borrowRefund(v, pid)
  BY <1>1, <1>6 DEF lendRefund, borrowRefund
<1>8. ASSUME stateNotMatchUndone(pid), NEW v \in Users PROVE RefundedOnce(v, pid)'
  <2>1. RefundedOnce(v, pid)
    BY <1>2, <1>8 DEF BooksAt
  <2>2. CASE userBorrowInfo'[v][pid].refundAmount = userBorrowInfo[v][pid].refundAmount
             /\ userBorrowInfo'[v][pid].hasNoRefund = userBorrowInfo[v][pid].hasNoRefund
    BY <1>1, <1>7, <2>1, <2>2 DEF RefundedOnce
  <2>3. CASE v = u /\ refundBorrow(u, pid)
    <3>1. /\ ~userBorrowInfo[u][pid].hasNoRefund /\ borrowRefund(u, pid) \in Nat
          /\ poolBaseInfo[pid].borrowSupply > poolDataInfo[pid].settleAmountBorrow
          /\ userBorrowInfo'[u][pid].refundAmount
               = userBorrowInfo[u][pid].refundAmount + borrowRefund(u, pid)
          /\ userBorrowInfo'[u][pid].hasNoRefund = TRUE
      BY <2>3, RefundBorrowEffect
    <3>2. userBorrowInfo[u][pid].refundAmount = 0
      BY <2>1, <2>3, <3>1 DEF RefundedOnce
    <3>3. userBorrowInfo'[u][pid].refundAmount = borrowRefund(u, pid)
      BY <3>1, <3>2, SMT
    <3> QED
      BY <1>1, <1>7, <2>1, <2>3, <3>1, <3>3 DEF RefundedOnce
  <2>4. ~emergencyBorrowWithdrawal(u, pid)
    BY <1>8 DEF emergencyBorrowWithdrawal, stateUndone, stateNotMatchUndone, inState
  <2> QED
    <3>1. claimBorrow(u, pid) => /\ userBorrowInfo'[u][pid].refundAmount = userBorrowInfo[u][pid].refundAmount
                            /\ userBorrowInfo'[u][pid].hasNoRefund = userBorrowInfo[u][pid].hasNoRefund
      BY ClaimBorrowEffect
    <3> QED
      BY <1>5, <2>2, <2>3, <2>4, <3>1
<1>9. BooksAt(pid)'
  BY <1>1, <1>6, <1>8, PaidBooksAt
<1>10. stateNotMatchUndone(pid)' <=> stateNotMatchUndone(pid)
  BY <1>1 DEF stateNotMatchUndone, inState
<1> QED
  BY <1>1, <1>4, <1>9, <1>10, TouchBooks

\* Redeeming sp or jp keeps the books.
LEMMA WithdrawalBooks ==
  ASSUME Books, IInv', NEW u \in Users, NEW pid \in Created, NEW amount \in Nat,
         withdrawLend(u, pid, amount) \/ withdrawBorrow(u, pid, amount)
  PROVE  Touches(pid) /\ Books'
<1>1. /\ stateFinishLiquidation(pid)
      /\ UNCHANGED <<poolBaseInfo, poolDataInfo, userLendInfo, userBorrowInfo>>
      /\ \A c \in DebtCoins : c # poolBaseInfo[pid].spCoin /\ c # poolBaseInfo[pid].jpCoin
                                => debt'[c] = debt[c]
  BY WithdrawLendEffect, WithdrawBorrowEffect DEF DebtMoves
<1>2. Touches(pid)
  BY <1>1 DEF Touches, PoolKept, SameTerms, Created
<1>3. BooksAt(pid)'
  BY <1>1, BooksAtKept DEF Books, PoolKept
<1>4. stateNotMatchUndone(pid)'
  BY <1>1 DEF stateFinishLiquidation, stateNotMatchUndone, inState
<1> QED
  BY <1>2, <1>3, <1>4, TouchBooks

\* A deposit adds to the supply what it adds to the stakes.
LEMMA DepositLendBooks ==
  ASSUME Books, IInv', NEW u \in Users, NEW pid \in Created, NEW amount \in Amounts,
         depositLend(u, pid, amount)
  PROVE  Touches(pid) /\ Books'
<1> DEFINE f == stakes(userLendInfo, pid)
           g == stakes(userLendInfo', pid)
<1>1. /\ stateMatch(pid) /\ stateMatch(pid)' /\ amount \in Nat
      /\ OtherPoolsKept(pid) /\ SameTerms(poolBaseInfo'[pid], poolBaseInfo[pid])
      /\ poolBaseInfo'[pid].lendSupply = poolBaseInfo[pid].lendSupply + amount
      /\ poolBaseInfo'[pid].borrowSupply = poolBaseInfo[pid].borrowSupply
      /\ UNCHANGED <<poolDataInfo, userBorrowInfo, debt>>
      /\ OtherLendEntriesKept(u, pid)
      /\ userLendInfo'[u][pid].stakeAmount = userLendInfo[u][pid].stakeAmount + amount
      /\ userLendInfo'[u][pid].refundAmount = userLendInfo[u][pid].refundAmount
      /\ userLendInfo'[u][pid].hasNoRefund = FALSE
      /\ userLendInfo'[u][pid].hasNoClaim = FALSE
  BY DepositLendEffect
<1>2. /\ pid \in Pids /\ BooksAt(pid) /\ poolBaseInfo[pid].lendSupply \in Nat
      /\ \A v \in Users : userLendInfo[v][pid].stakeAmount \in Nat
  BY PoolFigures DEF Books
<1>3. Touches(pid)
  BY <1>1, TouchesByLender
<1>4. \A v \in Users : v # u => userLendInfo'[v][pid] = userLendInfo[v][pid]
  BY <1>1, <1>2 DEF OtherLendEntriesKept
<1>5. SumFunction(g) = SumFunction(f) + amount
  <2>1. \A v \in Users : f[v] = userLendInfo[v][pid].stakeAmount /\ g[v] = userLendInfo'[v][pid].stakeAmount
    BY DEF stakes
  <2>2. f \in [Users -> Int]
    BY <1>2 DEF stakes
  <2>3. \A v \in Users : userLendInfo'[v][pid].stakeAmount \in Int
    BY <1>1, <1>2, <1>4
  <2>4. g \in [Users -> Int]
    BY <2>3 DEF stakes
  <2>5. \A v \in Users : v # u => g[v] = f[v]
    BY <1>4, <2>1
  <2> HIDE DEF f, g
  <2>6. SumFunction(g) = SumFunction(f) - f[u] + g[u]
    BY <2>2, <2>4, <2>5, PoolAssumption, SumPoint
  <2>7. SumFunction(f) \in Int /\ f[u] \in Int /\ g[u] = f[u] + amount
    BY <1>1, <2>1, <2>2, PoolAssumption, SumInt
  <2> QED
    BY <1>1, <2>6, <2>7, SMT
<1>6. poolBaseInfo'[pid].lendSupply = SumFunction(stakes(userLendInfo, pid)')
  BY <1>1, <1>2, <1>5 DEF BooksAt, stakes
<1>7. poolBaseInfo'[pid].borrowSupply = SumFunction(stakes(userBorrowInfo, pid)')
  BY <1>1, <1>2 DEF BooksAt, stakes
<1>8. ~stateNotMatchUndone(pid)' /\ ~stateNotMatchUndone(pid)
  BY <1>1 DEF stateMatch, stateNotMatchUndone, inState
<1>9. \A v \in Users : unpaid(userLendInfo'[v][pid]) /\ unpaid(userBorrowInfo'[v][pid])
  BY <1>1, <1>2, <1>4 DEF BooksAt, unpaid
<1>10. poolDataInfo'[pid].settleAmountBorrow = 0
  BY <1>1, <1>2 DEF BooksAt
<1>11. BooksAt(pid)'
  BY <1>6, <1>7, <1>8, <1>9, <1>10 DEF BooksAt
<1> QED
  BY <1>1, <1>3, <1>8, <1>11, TouchBooks

\* A borrower's deposit keeps the books.
LEMMA DepositBorrowBooks ==
  ASSUME Books, IInv', NEW u \in Users, NEW pid \in Created, NEW amount \in Amounts,
         depositBorrow(u, pid, amount)
  PROVE  Touches(pid) /\ Books'
<1> DEFINE f == stakes(userBorrowInfo, pid)
           g == stakes(userBorrowInfo', pid)
<1>1. /\ stateMatch(pid) /\ stateMatch(pid)' /\ amount \in Nat
      /\ OtherPoolsKept(pid) /\ SameTerms(poolBaseInfo'[pid], poolBaseInfo[pid])
      /\ poolBaseInfo'[pid].borrowSupply = poolBaseInfo[pid].borrowSupply + amount
      /\ poolBaseInfo'[pid].lendSupply = poolBaseInfo[pid].lendSupply
      /\ UNCHANGED <<poolDataInfo, userLendInfo, debt>>
      /\ OtherBorrowEntriesKept(u, pid)
      /\ userBorrowInfo'[u][pid].stakeAmount = userBorrowInfo[u][pid].stakeAmount + amount
      /\ userBorrowInfo'[u][pid].refundAmount = userBorrowInfo[u][pid].refundAmount
      /\ userBorrowInfo'[u][pid].hasNoRefund = FALSE
      /\ userBorrowInfo'[u][pid].hasNoClaim = FALSE
  BY DepositBorrowEffect
<1>2. /\ pid \in Pids /\ BooksAt(pid) /\ poolBaseInfo[pid].borrowSupply \in Nat
      /\ \A v \in Users : userBorrowInfo[v][pid].stakeAmount \in Nat
  BY PoolFigures DEF Books
<1>3. Touches(pid)
  BY <1>1, TouchesByBorrower
<1>4. \A v \in Users : v # u => userBorrowInfo'[v][pid] = userBorrowInfo[v][pid]
  BY <1>1, <1>2 DEF OtherBorrowEntriesKept
<1>5. SumFunction(g) = SumFunction(f) + amount
  <2>1. \A v \in Users : f[v] = userBorrowInfo[v][pid].stakeAmount /\ g[v] = userBorrowInfo'[v][pid].stakeAmount
    BY DEF stakes
  <2>2. f \in [Users -> Int]
    BY <1>2 DEF stakes
  <2>3. \A v \in Users : userBorrowInfo'[v][pid].stakeAmount \in Int
    BY <1>1, <1>2, <1>4
  <2>4. g \in [Users -> Int]
    BY <2>3 DEF stakes
  <2>5. \A v \in Users : v # u => g[v] = f[v]
    BY <1>4, <2>1
  <2> HIDE DEF f, g
  <2>6. SumFunction(g) = SumFunction(f) - f[u] + g[u]
    BY <2>2, <2>4, <2>5, PoolAssumption, SumPoint
  <2>7. SumFunction(f) \in Int /\ f[u] \in Int /\ g[u] = f[u] + amount
    BY <1>1, <2>1, <2>2, PoolAssumption, SumInt
  <2> QED
    BY <1>1, <2>6, <2>7, SMT
<1>6. poolBaseInfo'[pid].borrowSupply = SumFunction(stakes(userBorrowInfo, pid)')
  BY <1>1, <1>2, <1>5 DEF BooksAt, stakes
<1>7. poolBaseInfo'[pid].lendSupply = SumFunction(stakes(userLendInfo, pid)')
  BY <1>1, <1>2 DEF BooksAt, stakes
<1>8. ~stateNotMatchUndone(pid)' /\ ~stateNotMatchUndone(pid)
  BY <1>1 DEF stateMatch, stateNotMatchUndone, inState
<1>9. \A v \in Users : unpaid(userLendInfo'[v][pid]) /\ unpaid(userBorrowInfo'[v][pid])
  BY <1>1, <1>2, <1>4 DEF BooksAt, unpaid
<1>10. poolDataInfo'[pid].settleAmountBorrow = 0
  BY <1>1, <1>2 DEF BooksAt
<1>11. BooksAt(pid)'
  BY <1>6, <1>7, <1>8, <1>9, <1>10 DEF BooksAt
<1> QED
  BY <1>1, <1>3, <1>8, <1>11, TouchBooks

\* Settlement matches within the deposits and pays nothing.
LEMMA SettleBooks ==
  ASSUME Books, IInv', NEW pid \in Created, settle(pid)
  PROVE  Touches(pid) /\ Books'
<1> DEFINE pool == poolBaseInfo[pid]
<1>1. stateMatch(pid) /\ OtherPoolsKept(pid) /\ UNCHANGED <<userLendInfo, userBorrowInfo, debt>>
  BY SettleEffect DEF books
<1>2. \/ /\ bothSides(pool)
         /\ poolBaseInfo'[pid] = [pool EXCEPT !.state = "EXECUTION"]
         /\ poolDataInfo'[pid].settleAmountLend <= pool.lendSupply
      \/ poolBaseInfo'[pid] = [pool EXCEPT !.state = "UNDONE"]
  BY SettleEffect
<1>3. pool \in PoolBaseInfo /\ BooksAt(pid)
  BY PoolFigures DEF Books
<1>4. /\ SameTerms(poolBaseInfo'[pid], pool)
      /\ poolBaseInfo'[pid].lendSupply = pool.lendSupply
      /\ poolBaseInfo'[pid].borrowSupply = pool.borrowSupply
      /\ poolBaseInfo'[pid].state # "MATCH"
      /\ poolBaseInfo'[pid].state \in {"EXECUTION", "FINISH", "LIQUIDATION"} =>
           bothSides(pool) /\ poolDataInfo'[pid].settleAmountLend <= pool.lendSupply
  BY <1>2, <1>3 DEF SameTerms, PoolBaseInfo
<1> HIDE DEF pool
<1>5. Touches(pid)
  BY <1>1, <1>4 DEF Touches, PoolKept, OtherPoolsKept, pool
<1>6. /\ stakes(userLendInfo, pid)' = stakes(userLendInfo, pid)
      /\ stakes(userBorrowInfo, pid)' = stakes(userBorrowInfo, pid)
  BY <1>1 DEF stakes
<1>7. ASSUME NEW v \in Users PROVE RefundedOnce(v, pid)'
  <2>1. unpaid(userLendInfo'[v][pid]) /\ unpaid(userBorrowInfo'[v][pid])
    BY <1>1, <1>3 DEF BooksAt
  <2> QED
    BY <2>1 DEF unpaid, RefundedOnce
<1>8. ~stateMatch(pid)' /\ ~stateNotMatchUndone(pid)
  BY <1>1, <1>4 DEF stateMatch, stateNotMatchUndone, inState
<1>9. stateNotMatchUndone(pid)' =>
        /\ bothSides(poolBaseInfo[pid])'
        /\ poolDataInfo'[pid].settleAmountLend <= poolBaseInfo'[pid].lendSupply
  BY <1>4 DEF stateNotMatchUndone, inState, bothSides
<1>10. BooksAt(pid)'
  BY <1>3, <1>4, <1>6, <1>7, <1>8, <1>9 DEF BooksAt, pool
<1> QED
  BY <1>1, <1>5, <1>8, <1>10, TouchBooks

\* A sale of the collateral changes none of the figures the books are about.
LEMMA SaleBooks ==
  ASSUME Books, IInv', NEW pid \in Created, NEW kept \in Nat, NEW cost \in Nat,
         NEW st \in {"FINISH", "LIQUIDATION"}, Sale(pid, kept, cost, st)
  PROVE  Touches(pid) /\ Books'
<1>1. /\ inState(pid, {"EXECUTION"}) /\ OtherPoolsKept(pid)
      /\ UNCHANGED <<userLendInfo, userBorrowInfo, debt>>
      /\ poolBaseInfo'[pid] = [poolBaseInfo[pid] EXCEPT !.state = st]
      /\ poolDataInfo'[pid].settleAmountLend = poolDataInfo[pid].settleAmountLend
      /\ poolDataInfo'[pid].settleAmountBorrow = poolDataInfo[pid].settleAmountBorrow
  BY DEF Sale, books
<1>2. poolBaseInfo[pid] \in PoolBaseInfo /\ BooksAt(pid)
  BY PoolFigures DEF Books
<1>3. /\ SameTerms(poolBaseInfo'[pid], poolBaseInfo[pid])
      /\ poolBaseInfo'[pid].lendSupply = poolBaseInfo[pid].lendSupply
      /\ poolBaseInfo'[pid].borrowSupply = poolBaseInfo[pid].borrowSupply
      /\ poolBaseInfo'[pid].state = st
  BY <1>1, <1>2 DEF SameTerms, PoolBaseInfo
<1>4. Touches(pid)
  BY <1>1, <1>3 DEF Touches, PoolKept, OtherPoolsKept
<1>5. /\ stakes(userLendInfo, pid)' = stakes(userLendInfo, pid)
      /\ stakes(userBorrowInfo, pid)' = stakes(userBorrowInfo, pid)
  BY <1>1 DEF stakes
<1>6. stateNotMatchUndone(pid) /\ stateNotMatchUndone(pid)' /\ ~stateMatch(pid)'
  BY <1>1, <1>3 DEF stateMatch, stateNotMatchUndone, inState
<1>7. ASSUME NEW v \in Users PROVE RefundedOnce(v, pid)'
  <2>1. RefundedOnce(v, pid)
    BY <1>2, <1>6 DEF BooksAt
  <2>2. lendRefund(v, pid)' = lendRefund(v, pid) /\ borrowRefund(v, pid)' = borrowRefund(v, pid)
    BY <1>1, <1>3 DEF lendRefund, borrowRefund
  <2> QED
    BY <1>1, <1>3, <2>1, <2>2 DEF RefundedOnce
<1>8. BooksAt(pid)'
  BY <1>1, <1>2, <1>3, <1>5, <1>6, <1>7 DEF BooksAt, bothSides
<1> QED
  BY <1>4, <1>6, <1>8, TouchBooks

\* A new pool has empty books.
LEMMA CreateBooks ==
  ASSUME Books, IInv', NEW terms \in Terms, createPoolInfo(terms)
  PROVE  /\ Books'
         /\ \A q \in Created : PoolKept(q)
         /\ UNCHANGED <<books, balance>>
         /\ \E n \in Pids \ Created : Created' = Created \cup {n} /\ stateMatch(n)'
<1> PICK n : n = Len(poolBaseInfo) + 1
  OBVIOUS
<1> DEFINE pool == newPool(terms)
           data == [settleAmountLend |-> 0, settleAmountBorrow |-> 0, finishAmountLend |-> 0,
                    finishAmountBorrow |-> 0, liquidationAmounLend |-> 0,
                    liquidationAmounBorrow |-> 0]
<1>0. /\ poolBaseInfo \in Seq(PoolBaseInfo) /\ poolDataInfo \in Seq(PoolDataInfo)
      /\ Len(poolDataInfo) = Len(poolBaseInfo)
  BY DEF Books, IInv, TypeOK
<1>1. /\ poolBaseInfo' = Append(poolBaseInfo, pool) /\ poolDataInfo' = Append(poolDataInfo, data)
      /\ Len(poolBaseInfo) < MaxPools
      /\ UNCHANGED <<userLendInfo, userBorrowInfo, debt, balance>>
  BY DEF createPoolInfo, books
<1>2. /\ pool.state = "MATCH" /\ pool.lendSupply = 0 /\ pool.borrowSupply = 0
      /\ data.settleAmountBorrow = 0
  BY DEF newPool
<1> HIDE DEF pool, data
<1>3. /\ poolBaseInfo'[n] = pool /\ poolDataInfo'[n] = data
      /\ Len(poolBaseInfo') = n
      /\ \A q \in Created : /\ poolBaseInfo'[q] = poolBaseInfo[q]
                            /\ poolDataInfo'[q] = poolDataInfo[q]
  BY <1>0, <1>1, SMT DEF Created
<1>4. n \in Pids \ Created
  BY <1>0, <1>1, PoolAssumption, SMT DEF Pids, Created
<1>5. Created' = Created \cup {n}
  BY <1>0, <1>3, SMT DEF Created
<1>6. \A q \in Created : PoolKept(q)
  BY <1>1, <1>3 DEF PoolKept
<1>7. \A v \in Users : userLendInfo'[v][n] = noInfo /\ userBorrowInfo'[v][n] = noInfo
  BY <1>1, <1>4 DEF Books, UncreatedBlank
<1>8. stateMatch(n)' /\ ~stateNotMatchUndone(n)'
  BY <1>2, <1>3 DEF stateMatch, stateNotMatchUndone, inState
<1>9. BooksAt(n)'
  <2>1. /\ \A v \in Users : noInfo.stakeAmount = 0 /\ unpaid(noInfo)
    BY DEF noInfo, unpaid
  <2> DEFINE f == stakes(userLendInfo, n)'
             g == stakes(userBorrowInfo, n)'
  <2>2. /\ f \in [Users -> Int] /\ \A v \in Users : f[v] = 0
        /\ g \in [Users -> Int] /\ \A v \in Users : g[v] = 0
    BY <1>7, <2>1, SMT DEF stakes
  <2> HIDE DEF f, g
  <2>3. SumFunction(f) = 0 /\ SumFunction(g) = 0
    BY <2>2, PoolAssumption, SumZero
  <2> QED
    BY <1>2, <1>3, <1>7, <1>8, <2>1, <2>3 DEF BooksAt, f, g
<1>10. \A q \in Created' : BooksAt(q)'
  BY <1>5, <1>6, <1>9, BooksAtKept DEF Books
<1>11. UncreatedBlank'
  BY <1>1, <1>5 DEF Books, UncreatedBlank
<1>12. IdleCoins'
  <2> SUFFICES ASSUME NEW c \in DebtCoins, NEW u \in Users,
                      \A q \in Created' : stateNotMatchUndone(q)' =>
                        c # poolBaseInfo'[q].spCoin /\ c # poolBaseInfo'[q].jpCoin
               PROVE  debt'[c][u] = 0
    BY DEF IdleCoins
  <2>1. \A q \in Created : stateNotMatchUndone(q) =>
          c # poolBaseInfo[q].spCoin /\ c # poolBaseInfo[q].jpCoin
    BY <1>5, <1>6 DEF PoolKept, stateNotMatchUndone, inState
  <2> QED
    BY <1>1, <2>1 DEF Books, IdleCoins
<1> QED
  BY <1>1, <1>4, <1>5, <1>6, <1>8, <1>10, <1>11, <1>12 DEF Books, books

\* A step that changes neither pools nor entries nor coins.
LEMMA IdleBooks ==
  ASSUME Books, IInv', UNCHANGED <<poolBaseInfo, poolDataInfo, books>>
  PROVE  Books' /\ Created' = Created /\ \A q \in Created : PoolKept(q)
<1>1. Created' = Created /\ \A q \in Created : PoolKept(q)
  BY DEF Created, PoolKept, books
<1>2. \A q \in Created' : BooksAt(q)'
  BY <1>1, BooksAtKept DEF Books
<1>3. UncreatedBlank' /\ IdleCoins'
  BY <1>1 DEF Books, UncreatedBlank, IdleCoins, PoolKept, stateNotMatchUndone, inState, books
<1> QED
  BY <1>1, <1>2, <1>3 DEF Books

-----------------------------------------------------------------------------
(* The books are an invariant.                                              *)

\* What can happen to one pool.
Deposit(pid) ==
  \E u \in Users, amount \in Amounts : depositLend(u, pid, amount) \/ depositBorrow(u, pid, amount)
Payment(pid) ==
  \E u \in Users :
    \/ refundLend(u, pid) \/ claimLend(u, pid) \/ emergencyLendWithdrawal(u, pid)
    \/ refundBorrow(u, pid) \/ claimBorrow(u, pid) \/ emergencyBorrowWithdrawal(u, pid)
Withdrawal(pid) ==
  \E u \in Users, amount \in Nat : withdrawLend(u, pid, amount) \/ withdrawBorrow(u, pid, amount)
Liquidation(pid) ==
  \E kept \in Nat, cost \in Nat, st \in {"FINISH", "LIQUIDATION"} : Sale(pid, kept, cost, st)
StepOf(pid) == Deposit(pid) \/ Payment(pid) \/ Withdrawal(pid) \/ settle(pid) \/ Liquidation(pid)

\* Every step is about no pool, about a new one, or about one that exists.
LEMMA NextCases ==
  ASSUME Books, Next
  PROVE  \/ UNCHANGED <<poolBaseInfo, poolDataInfo, books, balance>>
         \/ \E terms \in Terms : createPoolInfo(terms)
         \/ \E pid \in Created : StepOf(pid)
<1>1. CASE Administer
  BY <1>1 DEF Administer, setFee, setSwapRouterAddress, setFeeAddress, setMinAmount, setPause
<1>2. ASSUME NEW u \in Users, NEW pid \in Created, Lend(u, pid) \/ Borrow(u, pid)
      PROVE  StepOf(pid)
  <2>1. /\ debt[poolBaseInfo[pid].spCoin][u] \in Nat
        /\ debt[poolBaseInfo[pid].jpCoin][u] \in Nat
    BY PoolFigures DEF Books, TypeOK
  <2>2. ASSUME NEW n \in Nat, NEW a \in 1..n PROVE a \in Nat
    BY <2>2, SMT
  <2>3. CASE \/ \E a \in 1..debt[poolBaseInfo[pid].spCoin][u] : withdrawLend(u, pid, a)
             \/ \E a \in 1..debt[poolBaseInfo[pid].jpCoin][u] : withdrawBorrow(u, pid, a)
    BY <2>1, <2>2, <2>3 DEF StepOf, Withdrawal
  <2>4. CASE Payment(pid) \/ Deposit(pid)
    BY <2>4 DEF StepOf
  <2> QED
    BY <1>2, <2>3, <2>4 DEF Lend, Borrow, Payment, Deposit
<1>3. ASSUME NEW pid \in Created, Operate(pid) PROVE StepOf(pid)
  <2>1. ASSUME NEW sold \in Costs, NEW got, finish(pid, sold, got) \/ liquidate(pid, sold, got)
        PROVE  Liquidation(pid)
    BY <2>1, SaleEffect DEF Liquidation
  <2> QED
    BY <1>3, <2>1 DEF Operate, StepOf
<1>4. CASE Tick \/ \E t \in Tokens : \E p \in Prices[t] : setPrice(t, p)
  BY <1>4 DEF Tick, setPrice
<1> QED
  BY <1>1, <1>2, <1>3, <1>4 DEF Next

\* A step about one pool keeps the books.
LEMMA StepBooks ==
  ASSUME Books, IInv', NEW pid \in Created, StepOf(pid) PROVE Touches(pid) /\ Books'
<1>1. CASE Deposit(pid)
  BY <1>1, DepositLendBooks, DepositBorrowBooks DEF Deposit
<1>2. CASE Payment(pid)
  BY <1>2, LenderBooks, BorrowerBooks DEF Payment
<1>3. CASE Withdrawal(pid)
  BY <1>3, WithdrawalBooks DEF Withdrawal
<1>4. CASE settle(pid)
  BY <1>4, SettleBooks
<1>5. CASE Liquidation(pid)
  BY <1>5, SaleBooks DEF Liquidation
<1> QED
  BY <1>1, <1>2, <1>3, <1>4, <1>5 DEF StepOf

\* Before any pool is created there is nothing to add up.
LEMMA BooksInit == Init => Books
<1> SUFFICES ASSUME Init PROVE Books
  OBVIOUS
<1>1. IInv
  BY InitOK
<1>2. Created = {}
  BY SMT DEF Init, Created
<1>3. UncreatedBlank /\ IdleCoins
  BY DEF Init, UncreatedBlank, IdleCoins
<1> QED
  BY <1>1, <1>2, <1>3 DEF Books

\* Every transaction keeps the books of every pool.
LEMMA BooksNext == Books /\ [Next]_vars => Books'
<1> SUFFICES ASSUME Books, [Next]_vars PROVE Books'
  OBVIOUS
<1>1. IInv'
  BY NextOK DEF Books
<1>2. CASE UNCHANGED <<poolBaseInfo, poolDataInfo, books>>
  BY <1>1, <1>2, IdleBooks
<1>3. CASE \E terms \in Terms : createPoolInfo(terms)
  BY <1>1, <1>3, CreateBooks
<1>4. CASE \E pid \in Created : StepOf(pid)
  BY <1>1, <1>4, StepBooks
<1>5. UNCHANGED vars => UNCHANGED <<poolBaseInfo, poolDataInfo, books>>
  BY DEF vars
<1> QED
  BY <1>2, <1>3, <1>4, <1>5, NextCases

\* In every reachable state the books of every created pool are in order: supplies
\* are sums of stakes, a pool that collects deposits has matched and paid nothing,
\* and one that executes has refunded each user at most once, by the user's share.
THEOREM BooksInvariant == Spec => []Books
<1> QED
  BY BooksInit, BooksNext, PTL DEF Spec

\* The supply a pool divides by is the sum of the stakes it divides, for any
\* number of users and any interleaving of their deposits.
THEOREM SuppliesAreSums == Spec => []StakesAddUp
<1>1. Books => StakesAddUp
  BY DEF Books, BooksAt, StakesAddUp
<1> QED
  BY <1>1, BooksInvariant, PTL

-----------------------------------------------------------------------------
(* What a user can take out of a pool.                                      *)

\* settle() matches no more collateral than was pledged.  A price ratio that
\* BaseDecimal truncates can make it match more (PledgePool.sol:475).
WithinPledges ==
  \A pid \in Created : poolDataInfo[pid].settleAmountBorrow <= poolBaseInfo[pid].borrowSupply

\* Refund and entitlement are shares of the two parts of the supply.
LEMMA OverpaidNobody == Books /\ WithinPledges => NobodyOverpaid
<1> SUFFICES ASSUME Books, WithinPledges, NEW u \in Users, NEW pid \in Created,
                    stateNotMatchUndone(pid)
             PROVE  /\ userLendInfo[u][pid].refundAmount + spAmount(u, pid)
                         <= userLendInfo[u][pid].stakeAmount
                    /\ userBorrowInfo[u][pid].refundAmount
                         + Entitled(poolDataInfo[pid].settleAmountBorrow,
                                    userBorrowInfo[u][pid].stakeAmount,
                                    poolBaseInfo[pid].borrowSupply)
                         <= userBorrowInfo[u][pid].stakeAmount
  BY DEF NobodyOverpaid
<1> DEFINE ls == poolBaseInfo[pid].lendSupply
           bs == poolBaseInfo[pid].borrowSupply
           sl == poolDataInfo[pid].settleAmountLend
           sb == poolDataInfo[pid].settleAmountBorrow
           ul == userLendInfo[u][pid].stakeAmount
           ub == userBorrowInfo[u][pid].stakeAmount
           rl == userLendInfo[u][pid].refundAmount
           rb == userBorrowInfo[u][pid].refundAmount
<1>1. /\ ls \in Nat /\ bs \in Nat /\ sl \in Nat /\ sb \in Nat /\ ul \in Nat /\ ub \in Nat
  BY PoolFigures DEF Books
<1>2. ls > 0 /\ bs > 0 /\ sl <= ls /\ sb <= bs /\ RefundedOnce(u, pid)
  BY DEF Books, BooksAt, bothSides, WithinPledges
<1>3. /\ rl = lendRefund(u, pid) \/ rl = 0
      /\ rb = borrowRefund(u, pid) \/ rb = 0
  BY <1>2 DEF RefundedOnce
<1>4. /\ lendRefund(u, pid) = Entitled(ls - sl, ul, ls)
      /\ spAmount(u, pid) = Entitled(sl, ul, ls)
      /\ borrowRefund(u, pid) = Entitled(bs - sb, ub, bs)
  BY DEF lendRefund, spAmount, borrowRefund
<1> HIDE DEF ls, bs, sl, sb, ul, ub, rl, rb
<1>5. ASSUME NEW a \in Nat, NEW s \in Nat, NEW stake \in Nat, a <= s, s > 0
      PROVE  /\ Entitled(s - a, stake, s) \in Nat /\ Entitled(a, stake, s) \in Nat
             /\ Entitled(s - a, stake, s) + Entitled(a, stake, s) <= stake
  <2>1. s - a \in Nat /\ (s - a) + a = s /\ s \in Nat \ {0}
    BY <1>5, SMT
  <2>2. Entitled(s - a, stake, s) \in Nat /\ Entitled(a, stake, s) \in Nat
    BY <2>1, EntitledBounded
  <2>3. \A x \in Nat : x + a = s => Entitled(x, stake, s) + Entitled(a, stake, s) <= stake
    BY <2>1, EntitledSplit
  <2> QED
    BY <2>1, <2>2, <2>3
<1>6. /\ Entitled(ls - sl, ul, ls) \in Nat /\ Entitled(sl, ul, ls) \in Nat
      /\ Entitled(ls - sl, ul, ls) + Entitled(sl, ul, ls) <= ul
  BY <1>1, <1>2, <1>5
<1>7. /\ Entitled(bs - sb, ub, bs) \in Nat /\ Entitled(sb, ub, bs) \in Nat
      /\ Entitled(bs - sb, ub, bs) + Entitled(sb, ub, bs) <= ub
  BY <1>1, <1>2, <1>5
<1>8. ASSUME NEW x \in Nat, NEW y \in Nat, NEW s \in Nat, NEW r, r = x \/ r = 0, x + y <= s
      PROVE  r + y <= s
  BY <1>8, SMT
<1>9. rl + Entitled(sl, ul, ls) <= ul
  BY <1>1, <1>3, <1>4, <1>6, <1>8
<1>10. rb + Entitled(sb, ub, bs) <= ub
  BY <1>1, <1>3, <1>4, <1>7, <1>8
<1> QED
  BY <1>4, <1>9, <1>10 DEF ls, bs, sl, sb, ul, ub, rl, rb

-----------------------------------------------------------------------------
(* What a step does to any one pool.                                        *)

\* A pool's records have their types after a step, too.
LEMMA PoolTypedNext ==
  ASSUME IInv', NEW q \in Created'
  PROVE  /\ poolBaseInfo'[q] \in PoolBaseInfo /\ poolDataInfo'[q] \in PoolDataInfo
         /\ poolBaseInfo'[q].borrowSupply \in Nat
<1>1. /\ poolBaseInfo' \in Seq(PoolBaseInfo) /\ poolDataInfo' \in Seq(PoolDataInfo)
      /\ Len(poolDataInfo') = Len(poolBaseInfo') /\ q \in 1..Len(poolBaseInfo')
  BY DEF IInv, TypeOK, Created
<1>2. poolBaseInfo'[q] \in PoolBaseInfo /\ poolDataInfo'[q] \in PoolDataInfo
  BY <1>1, SMT
<1> QED
  BY <1>2 DEF PoolBaseInfo

\* A user's payment out of a pool changes neither its record nor its figures.
LEMMA PaymentKeeps ==
  ASSUME NEW pid, Payment(pid) \/ Withdrawal(pid) PROVE UNCHANGED <<poolBaseInfo, poolDataInfo>>
<1>1. CASE Payment(pid)
  BY <1>1 DEF Payment, refundLend, claimLend, emergencyLendWithdrawal, refundBorrow, claimBorrow,
              emergencyBorrowWithdrawal
<1>2. CASE Withdrawal(pid)
  BY <1>2 DEF Withdrawal, withdrawLend, withdrawBorrow
<1> QED
  BY <1>1, <1>2

\* After a deposit the pool still collects deposits.
LEMMA DepositMatches ==
  ASSUME Books, NEW pid \in Created, Deposit(pid) PROVE stateMatch(pid)'
  BY DepositLendEffect, DepositBorrowEffect DEF Deposit

\* A pool that exists after a step is left alone by it, or is the one that the
\* step is about, or is new and collects deposits.
LEMMA EachPool ==
  ASSUME Books, IInv', Next, NEW q \in Created'
  PROVE  \/ q \in Created /\ PoolKept(q)
         \/ q \in Created /\ StepOf(q)
         \/ stateMatch(q)'
<1>1. CASE UNCHANGED <<poolBaseInfo, poolDataInfo, books, balance>>
  BY <1>1, IdleBooks
<1>2. CASE \E terms \in Terms : createPoolInfo(terms)
  <2>1. /\ \A p \in Created : PoolKept(p)
        /\ \E n \in Pids \ Created : Created' = Created \cup {n} /\ stateMatch(n)'
    BY <1>2, CreateBooks
  <2> QED
    BY <2>1
<1>3. CASE \E pid \in Created : StepOf(pid)
  BY <1>3, StepBooks DEF Touches
<1> QED
  BY <1>1, <1>2, <1>3, NextCases

-----------------------------------------------------------------------------
(* How much collateral is matched.                                          *)

\* The oracle has reported every price the contract reads.
PricesReported == \A t \in Tokens : price[t] \in Prices[t]

\* BaseDecimal truncates no ratio of the prices the oracle may report.
ExactRatios ==
  \A t, s \in Tokens : \A p \in Prices[t], q \in Prices[s] : p > 0 => (q * BaseDecimal) % p = 0

\* The first prices are ones the oracle may report.
LEMMA PricesReportedInit == Init => PricesReported
  BY DEF Init, PricesReported

\* Only setPrice changes a price, to one the oracle may report.
LEMMA PricesReportedNext == Books /\ PricesReported /\ [Next]_vars => PricesReported'
<1> SUFFICES ASSUME Books, PricesReported, [Next]_vars PROVE PricesReported'
  OBVIOUS
<1>1. price \in [Tokens -> Nat]
  BY DEF Books, IInv, TypeOK
<1>2. CASE \E t \in Tokens : \E p \in Prices[t] : setPrice(t, p)
  BY <1>1, <1>2 DEF setPrice, PricesReported
<1>3. CASE UNCHANGED price
  BY <1>3 DEF PricesReported
<1>4. Administer \/ Tick => UNCHANGED price
  BY DEF Administer, Tick, setFee, setSwapRouterAddress, setFeeAddress, setMinAmount, setPause,
         createPoolInfo
<1>5. ASSUME NEW u \in Users, NEW pid \in Created, Lend(u, pid) \/ Borrow(u, pid)
      PROVE  UNCHANGED price
  BY <1>5 DEF Lend, Borrow, depositLend, refundLend, claimLend, withdrawLend,
              emergencyLendWithdrawal, depositBorrow, refundBorrow, claimBorrow, withdrawBorrow,
              emergencyBorrowWithdrawal
<1>6. ASSUME NEW pid \in Created, Operate(pid) PROVE UNCHANGED price
  BY <1>6 DEF Operate, settle, finish, liquidate
<1>7. UNCHANGED vars => UNCHANGED price
  BY DEF vars
<1> QED
  BY <1>2, <1>3, <1>4, <1>5, <1>6, <1>7 DEF Next

\* settle() with an exact ratio matches no more collateral than was pledged,
\* and no other step changes what was matched or takes from the pledges.
LEMMA WithinPledgesNext ==
  ExactRatios => (Books /\ PricesReported /\ WithinPledges /\ [Next]_vars => WithinPledges')
<1> SUFFICES ASSUME ExactRatios, Books, PricesReported, WithinPledges, [Next]_vars
             PROVE  WithinPledges'
  OBVIOUS
<1>1. IInv' /\ Books'
  BY NextOK, BooksNext DEF Books
<1>2. CASE UNCHANGED vars
  BY <1>2 DEF vars, WithinPledges, Created
<1>3. CASE Next
  <2> SUFFICES ASSUME NEW q \in Created'
               PROVE  poolDataInfo'[q].settleAmountBorrow <= poolBaseInfo'[q].borrowSupply
    BY DEF WithinPledges
  <2>1. poolBaseInfo'[q].borrowSupply \in Nat
    BY <1>1, PoolTypedNext
  <2>2. CASE stateMatch(q)'
    <3>1. poolDataInfo'[q].settleAmountBorrow = 0
      BY <1>1, <2>2 DEF Books, BooksAt
    <3> QED
      BY <2>1, <3>1, SMT
  <2>3. CASE q \in Created /\ PoolKept(q)
    BY <2>3 DEF PoolKept, WithinPledges
  <2>4. CASE q \in Created /\ (Payment(q) \/ Withdrawal(q))
    BY <2>4, PaymentKeeps DEF WithinPledges
  <2>5. CASE q \in Created /\ settle(q)
    <3> DEFINE pool == poolBaseInfo[q]
               sb == poolDataInfo'[q].settleAmountBorrow
    <3>1. \/ /\ poolBaseInfo'[q] = [pool EXCEPT !.state = "EXECUTION"]
             /\ price[pool.lendToken] > 0
             /\ (price[pool.borrowToken] * BaseDecimal) % price[pool.lendToken] = 0
                  => sb <= pool.borrowSupply
          \/ /\ poolBaseInfo'[q] = [pool EXCEPT !.state = "UNDONE"]
             /\ sb = pool.borrowSupply
      BY <2>5, SettleEffect
    <3>2. /\ pool \in PoolBaseInfo /\ pool.borrowSupply \in Nat
          /\ pool.lendToken \in Tokens /\ pool.borrowToken \in Tokens
      BY <2>5, PoolFigures DEF Books
    <3>3. price[pool.lendToken] > 0 =>
            (price[pool.borrowToken] * BaseDecimal) % price[pool.lendToken] = 0
      BY <3>2 DEF PricesReported, ExactRatios
    <3>4. poolBaseInfo'[q].borrowSupply = pool.borrowSupply
      BY <3>1, <3>2 DEF PoolBaseInfo
    <3> HIDE DEF pool, sb
    <3>5. sb <= pool.borrowSupply
      BY <3>1, <3>2, <3>3, SMT
    <3> QED
      BY <3>4, <3>5 DEF pool, sb
  <2>6. CASE q \in Created /\ Liquidation(q)
    <3>1. PICK st : /\ poolBaseInfo'[q] = [poolBaseInfo[q] EXCEPT !.state = st]
                    /\ poolDataInfo'[q].settleAmountBorrow = poolDataInfo[q].settleAmountBorrow
      BY <2>6 DEF Liquidation, Sale
    <3>2. poolBaseInfo[q] \in PoolBaseInfo
      BY <2>6, PoolFigures DEF Books
    <3>3. poolBaseInfo'[q].borrowSupply = poolBaseInfo[q].borrowSupply
      BY <3>1, <3>2 DEF PoolBaseInfo
    <3> QED
      BY <2>6, <3>1, <3>3 DEF WithinPledges
  <2>7. q \in Created /\ Deposit(q) => stateMatch(q)'
    BY DepositMatches
  <2> QED
    BY <1>1, <1>3, <2>2, <2>3, <2>4, <2>5, <2>6, <2>7, EachPool DEF StepOf
<1> QED
  BY <1>2, <1>3

\* At prices whose ratios are exact, no pool ever matches more collateral than
\* its borrowers pledged.
THEOREM MatchedWithinPledges == ExactRatios => (Spec => []WithinPledges)
<1>1. Init => WithinPledges
  <2>1. Init => Created = {}
    BY SMT DEF Init, Created
  <2> QED
    BY <2>1 DEF WithinPledges
<1> SUFFICES ASSUME ExactRatios PROVE Spec => []WithinPledges
  OBVIOUS
<1>2. Books /\ PricesReported /\ WithinPledges /\ [Next]_vars => WithinPledges'
  BY WithinPledgesNext
<1> QED
  BY <1>1, <1>2, BooksInvariant, PricesReportedInit, PricesReportedNext, PTL DEF Spec

\* While no pool matches more than was pledged, nobody takes out of a pool more
\* than was put in, however refunds, claims and settlements interleave.
THEOREM NobodyIsOverpaid == Spec => [](WithinPledges => NobodyOverpaid)
  BY OverpaidNobody, BooksInvariant, PTL

\* At prices whose ratios are exact that is unconditional.
THEOREM ExactPricesOverpayNobody == ExactRatios => (Spec => []NobodyOverpaid)
<1> SUFFICES ASSUME ExactRatios PROVE Spec => []NobodyOverpaid
  OBVIOUS
<1>1. Spec => []WithinPledges
  BY MatchedWithinPledges
<1> QED
  BY <1>1, NobodyIsOverpaid, PTL

-----------------------------------------------------------------------------
(* What a pool keeps for its lenders.                                       *)

KeepsForLenders(pid) ==
  /\ inState(pid, {"FINISH"}) => poolDataInfo[pid].finishAmountLend = owedToLenders(pid)
  /\ inState(pid, {"LIQUIDATION"}) => poolDataInfo[pid].liquidationAmounLend <= owedToLenders(pid)

\* What is owed depends on the terms and the settled loan alone, and a sale
\* keeps what finish() and liquidate() say it keeps.
LEMMA LendersKeepNext ==
  Books /\ LendersKeepLoanAndInterest /\ [Next]_vars => LendersKeepLoanAndInterest'
<1> SUFFICES ASSUME Books, LendersKeepLoanAndInterest, [Next]_vars
             PROVE  LendersKeepLoanAndInterest'
  OBVIOUS
<1>1. IInv'
  BY NextOK DEF Books
<1>2. ASSUME NEW q \in Created,
             poolBaseInfo'[q] = poolBaseInfo[q], poolDataInfo'[q] = poolDataInfo[q]
      PROVE  KeepsForLenders(q)'
  <2>1. KeepsForLenders(q)
    BY DEF LendersKeepLoanAndInterest, KeepsForLenders
  <2> QED
    BY <1>2, <2>1 DEF KeepsForLenders, inState, owedToLenders
<1>3. CASE UNCHANGED vars
  BY <1>2, <1>3 DEF vars, LendersKeepLoanAndInterest, KeepsForLenders, Created
<1>4. CASE Next
  <2> SUFFICES ASSUME NEW q \in Created' PROVE KeepsForLenders(q)'
    BY DEF LendersKeepLoanAndInterest, KeepsForLenders
  <2>1. CASE stateMatch(q)'
    BY <2>1 DEF KeepsForLenders, stateMatch, inState
  <2>2. CASE q \in Created /\ PoolKept(q)
    BY <1>2, <2>2 DEF PoolKept
  <2>3. CASE q \in Created /\ (Payment(q) \/ Withdrawal(q))
    BY <1>2, <2>3, PaymentKeeps
  <2>4. CASE q \in Created /\ settle(q)
    <3>1. \/ poolBaseInfo'[q] = [poolBaseInfo[q] EXCEPT !.state = "EXECUTION"]
          \/ poolBaseInfo'[q] = [poolBaseInfo[q] EXCEPT !.state = "UNDONE"]
      BY <2>4, SettleEffect
    <3>2. poolBaseInfo[q] \in PoolBaseInfo
      BY <2>4, PoolFigures DEF Books
    <3>3. poolBaseInfo'[q].state \in {"EXECUTION", "UNDONE"}
      BY <3>1, <3>2 DEF PoolBaseInfo
    <3> QED
      BY <3>3 DEF KeepsForLenders, inState
  <2>5. CASE q \in Created /\ Liquidation(q)
    <3>1. PICK kept, cost, st : Sale(q, kept, cost, st)
      BY <2>5 DEF Liquidation
    <3>2. poolBaseInfo[q] \in PoolBaseInfo
      BY <2>5, PoolFigures DEF Books
    <3>3. /\ poolBaseInfo'[q].state = st
          /\ poolBaseInfo'[q].settleTime = poolBaseInfo[q].settleTime
          /\ poolBaseInfo'[q].endTime = poolBaseInfo[q].endTime
          /\ poolBaseInfo'[q].interestRate = poolBaseInfo[q].interestRate
      BY <3>1, <3>2 DEF Sale, PoolBaseInfo
    <3>4. owedToLenders(q)' = owedToLenders(q)
      BY <3>1, <3>3 DEF Sale, owedToLenders, lendAmount, interest, timeRatio
    <3> QED
      BY <3>1, <3>3, <3>4 DEF Sale, KeepsForLenders, inState
  <2>6. q \in Created /\ Deposit(q) => stateMatch(q)'
    BY DepositMatches
  <2> QED
    BY <1>1, <1>4, <2>1, <2>2, <2>3, <2>4, <2>5, <2>6, EachPool DEF StepOf
<1> QED
  BY <1>3, <1>4

\* Whatever the router returns and whenever the operator sells, a finished pool
\* keeps exactly the loan and its interest, a liquidated one no more.
THEOREM LendersKeepTheirs == Spec => []LendersKeepLoanAndInterest
<1>1. Init => LendersKeepLoanAndInterest
  <2>1. Init => Created = {}
    BY SMT DEF Init, Created
  <2> QED
    BY <2>1 DEF LendersKeepLoanAndInterest
<1> QED
  BY <1>1, LendersKeepNext, BooksInvariant, PTL DEF Spec

-----------------------------------------------------------------------------
(* What a pool owes, as sums over its users.                                *)

\* The sums are over functions from users to amounts.
DuesAreAmounts ==
  /\ \A c \in DebtCoins : debt[c] \in [Users -> Nat]
  /\ \A pid \in Created :
       /\ stakes(userLendInfo, pid) \in [Users -> Nat]
       /\ stakes(userBorrowInfo, pid) \in [Users -> Nat]
       /\ stakesLeft(userLendInfo, pid) \in [Users -> Nat]
       /\ stakesLeft(userBorrowInfo, pid) \in [Users -> Nat]
       /\ stateNotMatchUndone(pid) =>
            /\ spDue(pid) \in [Users -> Nat] /\ jpDue(pid) \in [Users -> Nat]
            /\ loansDue(pid) \in [Users -> Nat]
            /\ lendRefundsDue(pid) \in [Users -> Nat]
            /\ borrowRefundsDue(pid) \in [Users -> Nat]

\* The sums are amounts.
SumsAreAmounts ==
  /\ \A c \in DebtCoins : SumFunction(debt[c]) \in Nat
  /\ \A pid \in Created :
       /\ SumFunction(stakesLeft(userLendInfo, pid)) \in Nat
       /\ SumFunction(stakesLeft(userBorrowInfo, pid)) \in Nat
       /\ stateNotMatchUndone(pid) =>
            /\ SumFunction(spDue(pid)) \in Nat /\ SumFunction(jpDue(pid)) \in Nat
            /\ SumFunction(loansDue(pid)) \in Nat
            /\ SumFunction(lendRefundsDue(pid)) \in Nat
            /\ SumFunction(borrowRefundsDue(pid)) \in Nat
            /\ spOutstanding(pid) \in Nat /\ jpOutstanding(pid) \in Nat

\* All the claims and refunds of an executed pool are within what is settled
\* and what is not.
DuesAreShares ==
  \A pid \in Created : stateNotMatchUndone(pid) =>
    /\ SumFunction(spDue(pid)) <= poolDataInfo[pid].settleAmountLend
    /\ SumFunction(jpDue(pid)) <= poolJp(pid)
    /\ SumFunction(loansDue(pid)) <= poolDataInfo[pid].settleAmountLend
    /\ SumFunction(lendRefundsDue(pid))
         <= poolBaseInfo[pid].lendSupply - poolDataInfo[pid].settleAmountLend
    /\ poolDataInfo[pid].settleAmountBorrow <= poolBaseInfo[pid].borrowSupply =>
         SumFunction(borrowRefundsDue(pid))
           <= poolBaseInfo[pid].borrowSupply - poolDataInfo[pid].settleAmountBorrow

\* By the books, entitlements and what is left of stakes are amounts.
LEMMA DuesTyped == Books => DuesAreAmounts
<1> SUFFICES ASSUME Books PROVE DuesAreAmounts
  OBVIOUS
<1>1. \A c \in DebtCoins : debt[c] \in [Users -> Nat]
  BY DEF Books, IInv, TypeOK
<1>2. ASSUME NEW pid \in Created
      PROVE  /\ stakes(userLendInfo, pid) \in [Users -> Nat]
             /\ stakes(userBorrowInfo, pid) \in [Users -> Nat]
             /\ stakesLeft(userLendInfo, pid) \in [Users -> Nat]
             /\ stakesLeft(userBorrowInfo, pid) \in [Users -> Nat]
  <2>1. \A u \in Users : /\ userLendInfo[u][pid].stakeAmount \in Nat
                         /\ userBorrowInfo[u][pid].stakeAmount \in Nat
    BY PoolFigures DEF Books
  <2> QED
    BY <2>1 DEF stakes, stakesLeft
<1>3. ASSUME NEW pid \in Created, stateNotMatchUndone(pid)
      PROVE  /\ spDue(pid) \in [Users -> Nat] /\ jpDue(pid) \in [Users -> Nat]
             /\ loansDue(pid) \in [Users -> Nat]
             /\ lendRefundsDue(pid) \in [Users -> Nat]
             /\ borrowRefundsDue(pid) \in [Users -> Nat]
  <2>1. \A u \in Users :
          /\ lendRefund(u, pid) \in Nat /\ spAmount(u, pid) \in Nat
          /\ jpAmount(u, pid) \in Nat /\ borrowAmount(u, pid) \in Nat
          /\ poolBaseInfo[pid].borrowSupply > poolDataInfo[pid].settleAmountBorrow
               => borrowRefund(u, pid) \in Nat
    BY <1>3, DuesNat DEF Books
  <2>2. /\ poolBaseInfo[pid].borrowSupply \in Nat
        /\ poolDataInfo[pid].settleAmountBorrow \in Nat
    BY PoolFigures DEF Books
  <2>3. ~(poolBaseInfo[pid].borrowSupply <= poolDataInfo[pid].settleAmountBorrow)
          => poolBaseInfo[pid].borrowSupply > poolDataInfo[pid].settleAmountBorrow
    BY <2>2, SMT
  <2>4. spDue(pid) \in [Users -> Nat] /\ jpDue(pid) \in [Users -> Nat]
    BY <2>1 DEF spDue, jpDue
  <2>5. loansDue(pid) \in [Users -> Nat] /\ lendRefundsDue(pid) \in [Users -> Nat]
    BY <2>1 DEF loansDue, lendRefundsDue
  <2>6. borrowRefundsDue(pid) \in [Users -> Nat]
    BY <2>1, <2>3 DEF borrowRefundsDue
  <2> QED
    BY <2>4, <2>5, <2>6
<1> QED
  BY <1>1, <1>2, <1>3 DEF DuesAreAmounts

\* So are their sums, and the debt coins in circulation or still to be minted.
LEMMA SumsTyped == Books => SumsAreAmounts
<1> SUFFICES ASSUME Books PROVE SumsAreAmounts
  OBVIOUS
<1>1. \A f \in [Users -> Nat] : SumFunction(f) \in Nat
  BY PoolAssumption, SumNat
<1>2. \A c \in DebtCoins : SumFunction(debt[c]) \in Nat
  BY <1>1, DuesTyped DEF DuesAreAmounts
<1>3. ASSUME NEW pid \in Created
      PROVE  /\ SumFunction(stakesLeft(userLendInfo, pid)) \in Nat
             /\ SumFunction(stakesLeft(userBorrowInfo, pid)) \in Nat
  BY <1>1, DuesTyped DEF DuesAreAmounts
<1>4. ASSUME NEW pid \in Created, stateNotMatchUndone(pid)
      PROVE  /\ SumFunction(spDue(pid)) \in Nat /\ SumFunction(jpDue(pid)) \in Nat
             /\ SumFunction(loansDue(pid)) \in Nat
             /\ SumFunction(lendRefundsDue(pid)) \in Nat
             /\ SumFunction(borrowRefundsDue(pid)) \in Nat
  BY <1>1, <1>4, DuesTyped DEF DuesAreAmounts
<1>5. ASSUME NEW pid \in Created, stateNotMatchUndone(pid)
      PROVE  spOutstanding(pid) \in Nat /\ jpOutstanding(pid) \in Nat
  <2>1. \A a, b \in Nat : a + b \in Nat
    BY SMT
  <2>2. poolBaseInfo[pid].spCoin \in DebtCoins /\ poolBaseInfo[pid].jpCoin \in DebtCoins
    BY PoolFigures DEF Books
  <2> QED
    BY <1>2, <1>4, <1>5, <2>1, <2>2 DEF spOutstanding, jpOutstanding
<1> QED
  BY <1>2, <1>3, <1>4, <1>5 DEF SumsAreAmounts

\* Each is a share of what is divided; truncation only leaves something over.
LEMMA DuesBounded == Books => DuesAreShares
<1> SUFFICES ASSUME Books, NEW pid \in Created, stateNotMatchUndone(pid)
             PROVE  /\ SumFunction(spDue(pid)) <= poolDataInfo[pid].settleAmountLend
                    /\ SumFunction(jpDue(pid)) <= poolJp(pid)
                    /\ SumFunction(loansDue(pid)) <= poolDataInfo[pid].settleAmountLend
                    /\ SumFunction(lendRefundsDue(pid))
                         <= poolBaseInfo[pid].lendSupply - poolDataInfo[pid].settleAmountLend
                    /\ poolDataInfo[pid].settleAmountBorrow <= poolBaseInfo[pid].borrowSupply =>
                         SumFunction(borrowRefundsDue(pid))
                           <= poolBaseInfo[pid].borrowSupply
                                - poolDataInfo[pid].settleAmountBorrow
  BY DEF DuesAreShares
<1> DEFINE ls == poolBaseInfo[pid].lendSupply
           bs == poolBaseInfo[pid].borrowSupply
           sl == poolDataInfo[pid].settleAmountLend
           sb == poolDataInfo[pid].settleAmountBorrow
           fl == stakes(userLendInfo, pid)
           fb == stakes(userBorrowInfo, pid)
<1>1. /\ ls \in Nat /\ bs \in Nat /\ sl \in Nat /\ sb \in Nat /\ poolJp(pid) \in Nat
  BY PoolFigures DEF Books
<1>2. /\ fl \in [Users -> Nat] /\ fb \in [Users -> Nat]
      /\ spDue(pid) \in [Users -> Nat] /\ jpDue(pid) \in [Users -> Nat]
      /\ loansDue(pid) \in [Users -> Nat] /\ lendRefundsDue(pid) \in [Users -> Nat]
      /\ borrowRefundsDue(pid) \in [Users -> Nat]
  BY DuesTyped DEF DuesAreAmounts
<1>3. ls = SumFunction(fl) /\ bs = SumFunction(fb) /\ ls > 0 /\ bs > 0 /\ sl <= ls
  BY DEF Books, BooksAt, bothSides
<1>4. \A u \in Users : /\ fl[u] = userLendInfo[u][pid].stakeAmount
                       /\ fb[u] = userBorrowInfo[u][pid].stakeAmount
  BY DEF stakes
<1>5. ASSUME NEW u \in Users
      PROVE  /\ spAmount(u, pid) = Entitled(sl, fl[u], ls)
             /\ lendRefund(u, pid) = Entitled(ls - sl, fl[u], ls)
             /\ jpAmount(u, pid) = Entitled(poolJp(pid), fb[u], bs)
             /\ borrowAmount(u, pid) = Entitled(sl, fb[u], bs)
             /\ borrowRefund(u, pid) = Entitled(bs - sb, fb[u], bs)
  BY <1>4 DEF spAmount, lendRefund, jpAmount, borrowAmount, borrowRefund
<1>6. /\ \A u \in Users : spDue(pid)[u] = 0 \/ spDue(pid)[u] = spAmount(u, pid)
      /\ \A u \in Users : jpDue(pid)[u] = 0 \/ jpDue(pid)[u] = jpAmount(u, pid)
      /\ \A u \in Users : loansDue(pid)[u] = 0 \/ loansDue(pid)[u] = borrowAmount(u, pid)
      /\ \A u \in Users : lendRefundsDue(pid)[u] = 0 \/ lendRefundsDue(pid)[u] = lendRefund(u, pid)
      /\ \A u \in Users : \/ borrowRefundsDue(pid)[u] = 0
                          \/ borrowRefundsDue(pid)[u] = borrowRefund(u, pid)
  BY DEF spDue, jpDue, loansDue, lendRefundsDue, borrowRefundsDue
<1> HIDE DEF ls, bs, sl, sb, fl, fb
<1>7. ASSUME NEW f \in [Users -> Nat], NEW supply \in Nat, supply > 0, supply = SumFunction(f),
             NEW tot \in Nat, NEW g \in [Users -> Nat],
             \A u \in Users : g[u] = 0 \/ g[u] = Entitled(tot, f[u], supply)
      PROVE  SumFunction(g) <= tot
  <2>1. supply \in Nat \ {0} /\ SumFunction(f) <= supply
    BY <1>7, SMT
  <2>2. ASSUME NEW u \in Users PROVE g[u] <= Entitled(tot, f[u], supply)
    <3>1. Entitled(tot, f[u], supply) \in Nat
      BY <2>1, EntitledBounded
    <3>2. g[u] = 0 \/ g[u] = Entitled(tot, f[u], supply)
      BY <1>7
    <3> QED
      BY <3>1, <3>2, SMT
  <2> QED
    BY <2>1, <2>2, PoolAssumption, EntitledSum
<1>8. SumFunction(spDue(pid)) <= sl
  BY <1>1, <1>2, <1>3, <1>5, <1>6, <1>7
<1>12. SumFunction(loansDue(pid)) <= sl
  <2>1. \A u \in Users : loansDue(pid)[u] = 0 \/ loansDue(pid)[u] = Entitled(sl, fb[u], bs)
    BY <1>5, <1>6
  <2> QED
    BY <1>1, <1>2, <1>3, <1>7, <2>1
<1>9. SumFunction(jpDue(pid)) <= poolJp(pid)
  BY <1>1, <1>2, <1>3, <1>5, <1>6, <1>7
<1>10. SumFunction(lendRefundsDue(pid)) <= ls - sl
  <2>1. ls - sl \in Nat
    BY <1>1, <1>3, SMT
  <2> QED
    BY <1>1, <1>2, <1>3, <1>5, <1>6, <1>7, <2>1
<1>11. sb <= bs => SumFunction(borrowRefundsDue(pid)) <= bs - sb
  <2>1. sb <= bs => bs - sb \in Nat
    BY <1>1, SMT
  <2> QED
    BY <1>1, <1>2, <1>3, <1>5, <1>6, <1>7, <2>1
<1> QED
  BY <1>8, <1>9, <1>10, <1>11, <1>12 DEF ls, bs, sl, sb


\* The same facts about the state after a step.
LEMMA DuesNext == Books' => DuesAreAmounts' /\ SumsAreAmounts' /\ DuesAreShares'
<1>1. Books' => DuesAreAmounts'
  BY DuesTyped, PTL
<1>2. Books' => SumsAreAmounts'
  BY SumsTyped, PTL
<1>3. Books' => DuesAreShares'
  BY DuesBounded, PTL
<1> QED
  BY <1>1, <1>2, <1>3

-----------------------------------------------------------------------------
(* How a step moves the dues of an executed pool.                           *)

\* The figures that entitlements are computed from stay as they are.
FiguresKept(q) ==
  /\ poolBaseInfo'[q].lendSupply = poolBaseInfo[q].lendSupply
  /\ poolBaseInfo'[q].borrowSupply = poolBaseInfo[q].borrowSupply
  /\ poolBaseInfo'[q].martgageRate = poolBaseInfo[q].martgageRate
  /\ SameTerms(poolBaseInfo'[q], poolBaseInfo[q])
  /\ poolDataInfo'[q].settleAmountLend = poolDataInfo[q].settleAmountLend
  /\ poolDataInfo'[q].settleAmountBorrow = poolDataInfo[q].settleAmountBorrow

\* What a lender, and a borrower, is still due stays the same; the stake does.
LenderKept(v, q) ==
  /\ userLendInfo'[v][q].stakeAmount = userLendInfo[v][q].stakeAmount
  /\ userLendInfo'[v][q].hasNoClaim = userLendInfo[v][q].hasNoClaim
  /\ userLendInfo'[v][q].hasNoRefund = userLendInfo[v][q].hasNoRefund
BorrowerKept(v, q) ==
  /\ userBorrowInfo'[v][q].stakeAmount = userBorrowInfo[v][q].stakeAmount
  /\ userBorrowInfo'[v][q].hasNoClaim = userBorrowInfo[v][q].hasNoClaim
  /\ userBorrowInfo'[v][q].hasNoRefund = userBorrowInfo[v][q].hasNoRefund

\* What a lender and a borrower are entitled to depends on figures and stakes.
LEMMA LenderAmountsKept ==
  ASSUME NEW q, NEW v, FiguresKept(q),
         userLendInfo'[v][q].stakeAmount = userLendInfo[v][q].stakeAmount
  PROVE  spAmount(v, q)' = spAmount(v, q) /\ lendRefund(v, q)' = lendRefund(v, q)
  BY DEF FiguresKept, spAmount, lendRefund

\* The same of what a borrower is entitled to.
LEMMA BorrowerAmountsKept ==
  ASSUME NEW q, NEW v, FiguresKept(q),
         userBorrowInfo'[v][q].stakeAmount = userBorrowInfo[v][q].stakeAmount
  PROVE  /\ jpAmount(v, q)' = jpAmount(v, q) /\ borrowAmount(v, q)' = borrowAmount(v, q)
         /\ borrowRefund(v, q)' = borrowRefund(v, q)
  BY DEF FiguresKept, jpAmount, borrowAmount, borrowRefund, poolJp

\* The dues of users whose entries stay as they are.
LEMMA LenderDuesKept ==
  ASSUME NEW q, FiguresKept(q), \A v \in Users : LenderKept(v, q)
  PROVE  spDue(q)' = spDue(q) /\ lendRefundsDue(q)' = lendRefundsDue(q)
<1>1. \A v \in Users : spAmount(v, q)' = spAmount(v, q) /\ lendRefund(v, q)' = lendRefund(v, q)
  BY LenderAmountsKept DEF LenderKept
<1> QED
  BY <1>1 DEF LenderKept, spDue, lendRefundsDue

\* The same of the borrowers.
LEMMA BorrowerDuesKept ==
  ASSUME NEW q, FiguresKept(q), \A v \in Users : BorrowerKept(v, q)
  PROVE  /\ jpDue(q)' = jpDue(q) /\ loansDue(q)' = loansDue(q)
         /\ borrowRefundsDue(q)' = borrowRefundsDue(q)
<1>1. \A v \in Users : /\ jpAmount(v, q)' = jpAmount(v, q)
                       /\ borrowAmount(v, q)' = borrowAmount(v, q)
                       /\ borrowRefund(v, q)' = borrowRefund(v, q)
  BY BorrowerAmountsKept DEF BorrowerKept
<1> QED
  BY <1>1 DEF FiguresKept, BorrowerKept, jpDue, loansDue, borrowRefundsDue

\* What is due of an amount that a flag records as paid.
due(paid, amount) == IF paid THEN 0 ELSE amount

\* The dues when one lender's, or one borrower's, flags move.
LEMMA LenderDuesMove ==
  ASSUME Books, Books', NEW pid \in Created, pid \in Created', FiguresKept(pid),
         stateNotMatchUndone(pid), stateNotMatchUndone(pid)', NEW u \in Users,
         userLendInfo'[u][pid].stakeAmount = userLendInfo[u][pid].stakeAmount,
         \A v \in Users : v # u => LenderKept(v, pid)
  PROVE  /\ SumFunction(spDue(pid))' = SumFunction(spDue(pid))
              - due(userLendInfo[u][pid].hasNoClaim, spAmount(u, pid))
              + due(userLendInfo'[u][pid].hasNoClaim, spAmount(u, pid))
         /\ SumFunction(lendRefundsDue(pid))' = SumFunction(lendRefundsDue(pid))
              - due(userLendInfo[u][pid].hasNoRefund, lendRefund(u, pid))
              + due(userLendInfo'[u][pid].hasNoRefund, lendRefund(u, pid))
<1>1. \A v \in Users : spAmount(v, pid)' = spAmount(v, pid) /\ lendRefund(v, pid)' = lendRefund(v, pid)
  BY LenderAmountsKept DEF LenderKept
<1> DEFINE f1 == spDue(pid)
           g1 == spDue(pid)'
           f2 == lendRefundsDue(pid)
           g2 == lendRefundsDue(pid)'
<1>2. /\ f1 \in [Users -> Nat] /\ g1 \in [Users -> Nat]
      /\ f2 \in [Users -> Nat] /\ g2 \in [Users -> Nat]
  BY DuesTyped, DuesNext DEF DuesAreAmounts
<1>3. \A v \in Users : v # u => g1[v] = f1[v] /\ g2[v] = f2[v]
  BY <1>1 DEF LenderKept, spDue, lendRefundsDue
<1>4. /\ f1[u] = due(userLendInfo[u][pid].hasNoClaim, spAmount(u, pid))
      /\ g1[u] = due(userLendInfo'[u][pid].hasNoClaim, spAmount(u, pid))
      /\ f2[u] = due(userLendInfo[u][pid].hasNoRefund, lendRefund(u, pid))
      /\ g2[u] = due(userLendInfo'[u][pid].hasNoRefund, lendRefund(u, pid))
  BY <1>1 DEF spDue, lendRefundsDue, due
<1> HIDE DEF f1, g1, f2, g2
<1>5. \A f, g \in [Users -> Nat] : f \in [Users -> Int] /\ g \in [Users -> Int]
  BY SMT
<1>6. /\ SumFunction(g1) = SumFunction(f1) - f1[u] + g1[u]
      /\ SumFunction(g2) = SumFunction(f2) - f2[u] + g2[u]
  BY <1>2, <1>3, <1>5, PoolAssumption, SumPoint
<1> QED
  BY <1>4, <1>6 DEF f1, g1, f2, g2

\* The same when one borrower's flags move.
LEMMA BorrowerDuesMove ==
  ASSUME Books, Books', NEW pid \in Created, pid \in Created', FiguresKept(pid),
         stateNotMatchUndone(pid), stateNotMatchUndone(pid)', NEW u \in Users,
         userBorrowInfo'[u][pid].stakeAmount = userBorrowInfo[u][pid].stakeAmount,
         \A v \in Users : v # u => BorrowerKept(v, pid)
  PROVE  /\ SumFunction(jpDue(pid))' = SumFunction(jpDue(pid))
              - due(userBorrowInfo[u][pid].hasNoClaim, jpAmount(u, pid))
              + due(userBorrowInfo'[u][pid].hasNoClaim, jpAmount(u, pid))
         /\ SumFunction(loansDue(pid))' = SumFunction(loansDue(pid))
              - due(userBorrowInfo[u][pid].hasNoClaim, borrowAmount(u, pid))
              + due(userBorrowInfo'[u][pid].hasNoClaim, borrowAmount(u, pid))
         /\ poolBaseInfo[pid].borrowSupply > poolDataInfo[pid].settleAmountBorrow =>
              SumFunction(borrowRefundsDue(pid))' = SumFunction(borrowRefundsDue(pid))
                - due(userBorrowInfo[u][pid].hasNoRefund, borrowRefund(u, pid))
                + due(userBorrowInfo'[u][pid].hasNoRefund, borrowRefund(u, pid))
<1>1. \A v \in Users : /\ jpAmount(v, pid)' = jpAmount(v, pid)
                       /\ borrowAmount(v, pid)' = borrowAmount(v, pid)
                       /\ borrowRefund(v, pid)' = borrowRefund(v, pid)
  BY BorrowerAmountsKept DEF BorrowerKept
<1> DEFINE f1 == jpDue(pid)
           g1 == jpDue(pid)'
           f2 == loansDue(pid)
           g2 == loansDue(pid)'
           f3 == borrowRefundsDue(pid)
           g3 == borrowRefundsDue(pid)'
<1>2. /\ f1 \in [Users -> Nat] /\ g1 \in [Users -> Nat]
      /\ f2 \in [Users -> Nat] /\ g2 \in [Users -> Nat]
      /\ f3 \in [Users -> Nat] /\ g3 \in [Users -> Nat]
  BY DuesTyped, DuesNext DEF DuesAreAmounts
<1>3. \A v \in Users : v # u => g1[v] = f1[v] /\ g2[v] = f2[v] /\ g3[v] = f3[v]
  BY <1>1 DEF FiguresKept, BorrowerKept, jpDue, loansDue, borrowRefundsDue
<1>4. /\ f1[u] = due(userBorrowInfo[u][pid].hasNoClaim, jpAmount(u, pid))
      /\ g1[u] = due(userBorrowInfo'[u][pid].hasNoClaim, jpAmount(u, pid))
      /\ f2[u] = due(userBorrowInfo[u][pid].hasNoClaim, borrowAmount(u, pid))
      /\ g2[u] = due(userBorrowInfo'[u][pid].hasNoClaim, borrowAmount(u, pid))
  BY <1>1 DEF jpDue, loansDue, due
<1>5. ASSUME poolBaseInfo[pid].borrowSupply > poolDataInfo[pid].settleAmountBorrow
      PROVE  /\ f3[u] = due(userBorrowInfo[u][pid].hasNoRefund, borrowRefund(u, pid))
             /\ g3[u] = due(userBorrowInfo'[u][pid].hasNoRefund, borrowRefund(u, pid))
  <2>1. /\ poolBaseInfo[pid].borrowSupply \in Nat
        /\ poolDataInfo[pid].settleAmountBorrow \in Nat
    BY PoolFigures DEF Books
  <2>2. ~(poolBaseInfo[pid].borrowSupply <= poolDataInfo[pid].settleAmountBorrow)
    BY <1>5, <2>1, SMT
  <2> QED
    BY <1>1, <2>2 DEF FiguresKept, borrowRefundsDue, due
<1> HIDE DEF f1, g1, f2, g2, f3, g3
<1>6. \A f, g \in [Users -> Nat] : f \in [Users -> Int] /\ g \in [Users -> Int]
  BY SMT
<1>7. /\ SumFunction(g1) = SumFunction(f1) - f1[u] + g1[u]
      /\ SumFunction(g2) = SumFunction(f2) - f2[u] + g2[u]
      /\ SumFunction(g3) = SumFunction(f3) - f3[u] + g3[u]
  BY <1>2, <1>3, <1>6, PoolAssumption, SumPoint
<1> QED
  BY <1>4, <1>5, <1>7 DEF f1, g1, f2, g2, f3, g3

\* The coins in circulation when one user's balance moves.
LEMMA CoinMoves ==
  ASSUME Books, Books', NEW c \in DebtCoins, NEW u \in Users, NEW d \in Int, DebtMoves(c, u, d)
  PROVE  SumFunction(debt'[c]) = SumFunction(debt[c]) + d
<1> DEFINE f == debt[c]
           g == debt'[c]
<1>1. f \in [Users -> Nat] /\ g \in [Users -> Nat]
  BY DuesTyped, DuesNext DEF DuesAreAmounts
<1>2. g[u] = f[u] + d /\ \A v \in Users : v # u => g[v] = f[v]
  BY DEF DebtMoves
<1> HIDE DEF f, g
<1>3. f \in [Users -> Int] /\ g \in [Users -> Int]
  BY <1>1, SMT
<1>4. SumFunction(g) = SumFunction(f) - f[u] + g[u] /\ SumFunction(f) \in Int
  BY <1>2, <1>3, PoolAssumption, SumPoint, SumInt
<1>5. SumFunction(g) = SumFunction(f) + d
  BY <1>2, <1>3, <1>4, SMT
<1> QED
  BY <1>5 DEF f, g

\* The coins of an executed pool that are out, and what it owes apart from
\* redeeming them, grow by these amounts; the figures stay.
Flow(pid, dsp, djp, dl, db) ==
  /\ FiguresKept(pid)
  /\ spOutstanding(pid)' = spOutstanding(pid) + dsp
  /\ jpOutstanding(pid)' = jpOutstanding(pid) + djp
  /\ SumFunction(lendRefundsDue(pid))' + SumFunction(loansDue(pid))'
       = SumFunction(lendRefundsDue(pid)) + SumFunction(loansDue(pid)) + dl
  /\ SumFunction(borrowRefundsDue(pid))' = SumFunction(borrowRefundsDue(pid)) + db

\* A pool whose record and figures a step keeps.
LEMMA UnchangedFigures ==
  ASSUME NEW pid \in Created, UNCHANGED <<poolBaseInfo, poolDataInfo>>
  PROVE  /\ FiguresKept(pid) /\ pid \in Created'
         /\ stateNotMatchUndone(pid)' <=> stateNotMatchUndone(pid)
  BY DEF FiguresKept, SameTerms, Created, stateNotMatchUndone, inState

\* The sums of an executed pool's dues are amounts, and so are those of its coins.
LEMMA FlowTyped ==
  ASSUME Books, NEW pid \in Created, stateNotMatchUndone(pid)
  PROVE  /\ SumFunction(debt[poolBaseInfo[pid].spCoin]) \in Nat
         /\ SumFunction(debt[poolBaseInfo[pid].jpCoin]) \in Nat
         /\ SumFunction(spDue(pid)) \in Nat /\ SumFunction(jpDue(pid)) \in Nat
         /\ SumFunction(loansDue(pid)) \in Nat /\ SumFunction(lendRefundsDue(pid)) \in Nat
         /\ SumFunction(borrowRefundsDue(pid)) \in Nat
<1>1. poolBaseInfo[pid].spCoin \in DebtCoins /\ poolBaseInfo[pid].jpCoin \in DebtCoins
  BY PoolFigures DEF Books
<1> QED
  BY <1>1, SumsTyped DEF SumsAreAmounts

\* The flow of a step is read off the sums it moves.
LEMMA FlowIs ==
  ASSUME Books, NEW pid \in Created, stateNotMatchUndone(pid), FiguresKept(pid),
         NEW c1 \in Int, NEW c2 \in Int, NEW d1 \in Int, NEW d2 \in Int,
         NEW d3 \in Int, NEW d4 \in Int, NEW d5 \in Int,
         SumFunction(debt'[poolBaseInfo[pid].spCoin]) = SumFunction(debt[poolBaseInfo[pid].spCoin]) + c1,
         SumFunction(debt'[poolBaseInfo[pid].jpCoin]) = SumFunction(debt[poolBaseInfo[pid].jpCoin]) + c2,
         SumFunction(spDue(pid))' = SumFunction(spDue(pid)) + d1,
         SumFunction(jpDue(pid))' = SumFunction(jpDue(pid)) + d2,
         SumFunction(lendRefundsDue(pid))' = SumFunction(lendRefundsDue(pid)) + d3,
         SumFunction(loansDue(pid))' = SumFunction(loansDue(pid)) + d4,
         SumFunction(borrowRefundsDue(pid))' = SumFunction(borrowRefundsDue(pid)) + d5
  PROVE  Flow(pid, c1 + d1, c2 + d2, d3 + d4, d5)
<1>1. /\ poolBaseInfo'[pid].spCoin = poolBaseInfo[pid].spCoin
      /\ poolBaseInfo'[pid].jpCoin = poolBaseInfo[pid].jpCoin
  BY DEF FiguresKept, SameTerms
<1>2. ASSUME NEW a \in Nat, NEW b \in Nat, NEW x \in Int, NEW y \in Int
      PROVE  (a + x) + (b + y) = (a + b) + (x + y)
  BY SMT
<1>3. /\ spOutstanding(pid)' = spOutstanding(pid) + (c1 + d1)
      /\ jpOutstanding(pid)' = jpOutstanding(pid) + (c2 + d2)
  BY <1>1, <1>2, FlowTyped DEF spOutstanding, jpOutstanding
<1>4. SumFunction(lendRefundsDue(pid))' + SumFunction(loansDue(pid))'
        = SumFunction(lendRefundsDue(pid)) + SumFunction(loansDue(pid)) + (d3 + d4)
  BY <1>2, FlowTyped
<1> QED
  BY <1>3, <1>4 DEF Flow

\* A step that leaves the dues and coins of an executed pool as they are.
LEMMA DuesStill ==
  ASSUME Books, NEW pid \in Created, stateNotMatchUndone(pid), FiguresKept(pid)
  PROVE  /\ (\A v \in Users : LenderKept(v, pid)) =>
              /\ SumFunction(spDue(pid))' = SumFunction(spDue(pid)) + 0
              /\ SumFunction(lendRefundsDue(pid))' = SumFunction(lendRefundsDue(pid)) + 0
         /\ (\A v \in Users : BorrowerKept(v, pid)) =>
              /\ SumFunction(jpDue(pid))' = SumFunction(jpDue(pid)) + 0
              /\ SumFunction(loansDue(pid))' = SumFunction(loansDue(pid)) + 0
              /\ SumFunction(borrowRefundsDue(pid))' = SumFunction(borrowRefundsDue(pid)) + 0
         /\ \A c \in {poolBaseInfo[pid].spCoin, poolBaseInfo[pid].jpCoin} :
              debt'[c] = debt[c] => SumFunction(debt'[c]) = SumFunction(debt[c]) + 0
<1>1. \A a \in Nat : a + 0 = a
  BY SMT
<1>2. (\A v \in Users : LenderKept(v, pid)) =>
        /\ SumFunction(spDue(pid))' = SumFunction(spDue(pid)) + 0
        /\ SumFunction(lendRefundsDue(pid))' = SumFunction(lendRefundsDue(pid)) + 0
  BY <1>1, FlowTyped, LenderDuesKept
<1>3. (\A v \in Users : BorrowerKept(v, pid)) =>
        /\ SumFunction(jpDue(pid))' = SumFunction(jpDue(pid)) + 0
        /\ SumFunction(loansDue(pid))' = SumFunction(loansDue(pid)) + 0
        /\ SumFunction(borrowRefundsDue(pid))' = SumFunction(borrowRefundsDue(pid)) + 0
  BY <1>1, FlowTyped, BorrowerDuesKept
<1>4. \A c \in {poolBaseInfo[pid].spCoin, poolBaseInfo[pid].jpCoin} :
        debt'[c] = debt[c] => SumFunction(debt'[c]) = SumFunction(debt[c]) + 0
  BY <1>1, FlowTyped
<1> QED
  BY <1>2, <1>3, <1>4

\* A refund takes one lender's refund off what is due.
LEMMA RefundLendFlow ==
  ASSUME Books, Books', NEW u \in Users, NEW pid \in Created, refundLend(u, pid)
  PROVE  /\ stateNotMatchUndone(pid) /\ UNCHANGED <<poolBaseInfo, poolDataInfo>>
         /\ \E x \in Nat : Flow(pid, 0, 0, -x, 0) /\ BalanceMoves(pid, -x, 0)
<1> DEFINE x == lendRefund(u, pid)
<1>1. /\ stateNotMatchUndone(pid) /\ ~userLendInfo[u][pid].hasNoRefund
      /\ x \in Nat
      /\ UNCHANGED <<poolBaseInfo, poolDataInfo, userBorrowInfo, debt>>
      /\ OtherLendEntriesKept(u, pid)
      /\ userLendInfo'[u][pid].stakeAmount = userLendInfo[u][pid].stakeAmount
      /\ userLendInfo'[u][pid].hasNoRefund = TRUE
      /\ userLendInfo'[u][pid].hasNoClaim = userLendInfo[u][pid].hasNoClaim
      /\ BalanceMoves(pid, -x, 0)
  BY RefundLendEffect
<1>2. FiguresKept(pid) /\ pid \in Created' /\ stateNotMatchUndone(pid)' /\ pid \in Pids
  BY <1>1, UnchangedFigures, PoolFigures DEF Books
<1>3. /\ \A v \in Users : v # u => LenderKept(v, pid)
      /\ \A v \in Users : BorrowerKept(v, pid)
  BY <1>1, <1>2 DEF OtherLendEntriesKept, LenderKept, BorrowerKept
<1>4. /\ SumFunction(spDue(pid))' = SumFunction(spDue(pid))
           - due(userLendInfo[u][pid].hasNoClaim, spAmount(u, pid))
           + due(userLendInfo[u][pid].hasNoClaim, spAmount(u, pid))
      /\ SumFunction(lendRefundsDue(pid))' = SumFunction(lendRefundsDue(pid)) - x + 0
  BY <1>1, <1>2, <1>3, LenderDuesMove DEF due
<1>5. due(userLendInfo[u][pid].hasNoClaim, spAmount(u, pid)) \in Nat
  BY <1>1, DuesNat DEF due, Books
<1> HIDE DEF x
<1>6. /\ SumFunction(spDue(pid))' = SumFunction(spDue(pid)) + 0
      /\ SumFunction(lendRefundsDue(pid))' = SumFunction(lendRefundsDue(pid)) + (-x)
  BY <1>1, <1>4, <1>5, FlowTyped, SMT
<1>7. 0 \in Int /\ -x \in Int /\ 0 + 0 = 0 /\ -x + 0 = -x
  BY <1>1, SMT
<1>8. Flow(pid, 0 + 0, 0 + 0, -x + 0, 0)
  BY <1>1, <1>2, <1>3, <1>6, <1>7, DuesStill, FlowIs
<1> QED
  BY <1>1, <1>7, <1>8

\* A lender's claim turns sp that is due into sp that is out.
LEMMA ClaimLendFlow ==
  ASSUME Books, Books', NEW u \in Users, NEW pid \in Created, claimLend(u, pid),
         poolBaseInfo[pid].spCoin # poolBaseInfo[pid].jpCoin
  PROVE  /\ stateNotMatchUndone(pid) /\ UNCHANGED <<poolBaseInfo, poolDataInfo>>
         /\ Flow(pid, 0, 0, 0, 0) /\ BalanceMoves(pid, 0, 0)
<1> DEFINE x == spAmount(u, pid)
           sp == poolBaseInfo[pid].spCoin
           jp == poolBaseInfo[pid].jpCoin
<1>1. /\ stateNotMatchUndone(pid) /\ ~userLendInfo[u][pid].hasNoClaim
      /\ x \in Nat
      /\ UNCHANGED <<poolBaseInfo, poolDataInfo, userBorrowInfo>>
      /\ OtherLendEntriesKept(u, pid)
      /\ userLendInfo'[u][pid].stakeAmount = userLendInfo[u][pid].stakeAmount
      /\ userLendInfo'[u][pid].hasNoRefund = userLendInfo[u][pid].hasNoRefund
      /\ userLendInfo'[u][pid].hasNoClaim = TRUE
      /\ DebtMoves(sp, u, x)
      /\ BalanceMoves(pid, 0, 0)
  BY ClaimLendEffect
<1>2. /\ FiguresKept(pid) /\ pid \in Created' /\ stateNotMatchUndone(pid)' /\ pid \in Pids
      /\ sp \in DebtCoins /\ jp \in DebtCoins
  BY <1>1, UnchangedFigures, PoolFigures DEF Books
<1>3. /\ \A v \in Users : v # u => LenderKept(v, pid)
      /\ \A v \in Users : BorrowerKept(v, pid)
      /\ debt'[jp] = debt[jp]
  BY <1>1, <1>2 DEF OtherLendEntriesKept, LenderKept, BorrowerKept, DebtMoves
<1>4. /\ SumFunction(spDue(pid))' = SumFunction(spDue(pid)) - x + 0
      /\ SumFunction(lendRefundsDue(pid))' = SumFunction(lendRefundsDue(pid))
           - due(userLendInfo[u][pid].hasNoRefund, lendRefund(u, pid))
           + due(userLendInfo[u][pid].hasNoRefund, lendRefund(u, pid))
  BY <1>1, <1>2, <1>3, LenderDuesMove DEF due
<1>5. due(userLendInfo[u][pid].hasNoRefund, lendRefund(u, pid)) \in Nat
  BY <1>1, DuesNat DEF due, Books
<1>6. SumFunction(debt'[sp]) = SumFunction(debt[sp]) + x
  <2>1. x \in Int
    BY <1>1, SMT
  <2> QED
    BY <1>1, <1>2, <2>1, CoinMoves
<1> HIDE DEF x
<1>7. /\ SumFunction(spDue(pid))' = SumFunction(spDue(pid)) + (-x)
      /\ SumFunction(lendRefundsDue(pid))' = SumFunction(lendRefundsDue(pid)) + 0
  BY <1>1, <1>4, <1>5, FlowTyped, SMT
<1>8. 0 \in Int /\ x \in Int /\ -x \in Int /\ 0 + 0 = 0 /\ x + (-x) = 0
  BY <1>1, SMT
<1>9. Flow(pid, x + (-x), 0 + 0, 0 + 0, 0)
  BY <1>1, <1>2, <1>3, <1>6, <1>7, <1>8, DuesStill, FlowIs
<1> QED
  BY <1>1, <1>8, <1>9

\* A redeemed coin is burned; nothing else that is due moves.
LEMMA WithdrawLendFlow ==
  ASSUME Books, Books', NEW u \in Users, NEW pid \in Created, NEW amount \in Nat,
         withdrawLend(u, pid, amount), poolBaseInfo[pid].spCoin # poolBaseInfo[pid].jpCoin
  PROVE  Flow(pid, -amount, 0, 0, 0)
<1> DEFINE sp == poolBaseInfo[pid].spCoin
           jp == poolBaseInfo[pid].jpCoin
<1>1. /\ stateFinishLiquidation(pid)
      /\ UNCHANGED <<poolBaseInfo, poolDataInfo, userLendInfo, userBorrowInfo>>
      /\ DebtMoves(sp, u, -amount)
  BY WithdrawLendEffect
<1>2. /\ stateNotMatchUndone(pid) /\ FiguresKept(pid) /\ sp \in DebtCoins /\ jp \in DebtCoins
  BY <1>1, UnchangedFigures, PoolFigures DEF Books, stateFinishLiquidation, stateNotMatchUndone, inState
<1>3. /\ \A v \in Users : LenderKept(v, pid) /\ BorrowerKept(v, pid)
      /\ debt'[jp] = debt[jp]
  BY <1>1, <1>2 DEF LenderKept, BorrowerKept, DebtMoves
<1>4. 0 \in Int /\ -amount \in Int /\ 0 + 0 = 0 /\ -amount + 0 = -amount
  BY SMT
<1>5. SumFunction(debt'[sp]) = SumFunction(debt[sp]) + (-amount)
  BY <1>1, <1>2, <1>4, CoinMoves
<1>6. Flow(pid, -amount + 0, 0 + 0, 0 + 0, 0)
  BY <1>2, <1>3, <1>4, <1>5, DuesStill, FlowIs
<1> QED
  BY <1>4, <1>6

\* A refund takes one borrower's refund off what is due.
LEMMA RefundBorrowFlow ==
  ASSUME Books, Books', NEW u \in Users, NEW pid \in Created, refundBorrow(u, pid)
  PROVE  /\ stateNotMatchUndone(pid) /\ UNCHANGED <<poolBaseInfo, poolDataInfo>>
         /\ \E x \in Nat : Flow(pid, 0, 0, 0, -x) /\ BalanceMoves(pid, 0, -x)
<1> DEFINE x == borrowRefund(u, pid)
<1>1. /\ stateNotMatchUndone(pid) /\ ~userBorrowInfo[u][pid].hasNoRefund
      /\ poolBaseInfo[pid].borrowSupply > poolDataInfo[pid].settleAmountBorrow
      /\ x \in Nat
      /\ UNCHANGED <<poolBaseInfo, poolDataInfo, userLendInfo, debt>>
      /\ OtherBorrowEntriesKept(u, pid)
      /\ userBorrowInfo'[u][pid].stakeAmount = userBorrowInfo[u][pid].stakeAmount
      /\ userBorrowInfo'[u][pid].hasNoRefund = TRUE
      /\ userBorrowInfo'[u][pid].hasNoClaim = userBorrowInfo[u][pid].hasNoClaim
      /\ BalanceMoves(pid, 0, -x)
  BY RefundBorrowEffect
<1>2. FiguresKept(pid) /\ pid \in Created' /\ stateNotMatchUndone(pid)' /\ pid \in Pids
  BY <1>1, UnchangedFigures, PoolFigures DEF Books
<1>3. /\ \A v \in Users : v # u => BorrowerKept(v, pid)
      /\ \A v \in Users : LenderKept(v, pid)
  BY <1>1, <1>2 DEF OtherBorrowEntriesKept, LenderKept, BorrowerKept
<1>4. /\ SumFunction(jpDue(pid))' = SumFunction(jpDue(pid))
           - due(userBorrowInfo[u][pid].hasNoClaim, jpAmount(u, pid))
           + due(userBorrowInfo[u][pid].hasNoClaim, jpAmount(u, pid))
      /\ SumFunction(loansDue(pid))' = SumFunction(loansDue(pid))
           - due(userBorrowInfo[u][pid].hasNoClaim, borrowAmount(u, pid))
           + due(userBorrowInfo[u][pid].hasNoClaim, borrowAmount(u, pid))
      /\ SumFunction(borrowRefundsDue(pid))' = SumFunction(borrowRefundsDue(pid)) - x + 0
  BY <1>1, <1>2, <1>3, BorrowerDuesMove DEF due
<1>5. /\ due(userBorrowInfo[u][pid].hasNoClaim, jpAmount(u, pid)) \in Nat
      /\ due(userBorrowInfo[u][pid].hasNoClaim, borrowAmount(u, pid)) \in Nat
  BY <1>1, DuesNat DEF due, Books
<1> HIDE DEF x
<1>6. /\ SumFunction(jpDue(pid))' = SumFunction(jpDue(pid)) + 0
      /\ SumFunction(loansDue(pid))' = SumFunction(loansDue(pid)) + 0
      /\ SumFunction(borrowRefundsDue(pid))' = SumFunction(borrowRefundsDue(pid)) + (-x)
  BY <1>1, <1>4, <1>5, FlowTyped, SMT
<1>7. 0 \in Int /\ -x \in Int /\ 0 + 0 = 0
  BY <1>1, SMT
<1>8. Flow(pid, 0 + 0, 0 + 0, 0 + 0, -x)
  BY <1>1, <1>2, <1>3, <1>6, <1>7, DuesStill, FlowIs
<1> QED
  BY <1>1, <1>7, <1>8

\* A borrower's claim turns jp that is due into jp that is out, and pays the
\* borrower's part of the loan.
LEMMA ClaimBorrowFlow ==
  ASSUME Books, Books', NEW u \in Users, NEW pid \in Created, claimBorrow(u, pid),
         poolBaseInfo[pid].spCoin # poolBaseInfo[pid].jpCoin
  PROVE  /\ stateNotMatchUndone(pid) /\ UNCHANGED <<poolBaseInfo, poolDataInfo>>
         /\ \E x \in Nat : Flow(pid, 0, 0, -x, 0) /\ BalanceMoves(pid, -x, 0)
<1> DEFINE x == borrowAmount(u, pid)
           y == jpAmount(u, pid)
           sp == poolBaseInfo[pid].spCoin
           jp == poolBaseInfo[pid].jpCoin
<1>1. /\ stateNotMatchUndone(pid) /\ ~userBorrowInfo[u][pid].hasNoClaim
      /\ x \in Nat /\ y \in Nat
      /\ UNCHANGED <<poolBaseInfo, poolDataInfo, userLendInfo>>
      /\ OtherBorrowEntriesKept(u, pid)
      /\ userBorrowInfo'[u][pid].stakeAmount = userBorrowInfo[u][pid].stakeAmount
      /\ userBorrowInfo'[u][pid].hasNoRefund = userBorrowInfo[u][pid].hasNoRefund
      /\ userBorrowInfo'[u][pid].hasNoClaim = TRUE
      /\ DebtMoves(jp, u, y)
      /\ BalanceMoves(pid, -x, 0)
  BY ClaimBorrowEffect
<1>2. /\ FiguresKept(pid) /\ pid \in Created' /\ stateNotMatchUndone(pid)' /\ pid \in Pids
      /\ sp \in DebtCoins /\ jp \in DebtCoins
  BY <1>1, UnchangedFigures, PoolFigures DEF Books
<1>3. /\ \A v \in Users : v # u => BorrowerKept(v, pid)
      /\ \A v \in Users : LenderKept(v, pid)
      /\ debt'[sp] = debt[sp]
  BY <1>1, <1>2 DEF OtherBorrowEntriesKept, LenderKept, BorrowerKept, DebtMoves
<1>4. /\ SumFunction(jpDue(pid))' = SumFunction(jpDue(pid)) - y + 0
      /\ SumFunction(loansDue(pid))' = SumFunction(loansDue(pid)) - x + 0
  BY <1>1, <1>2, <1>3, BorrowerDuesMove DEF due
<1>5. borrowRefundsDue(pid)' = borrowRefundsDue(pid)
  <2>1. \A v \in Users : /\ borrowRefund(v, pid)' = borrowRefund(v, pid)
                         /\ userBorrowInfo'[v][pid].hasNoRefund = userBorrowInfo[v][pid].hasNoRefund
    BY <1>1, <1>2, <1>3, BorrowerAmountsKept DEF BorrowerKept
  <2> QED
    BY <1>2, <2>1 DEF FiguresKept, borrowRefundsDue
<1>6. SumFunction(debt'[jp]) = SumFunction(debt[jp]) + y
  <2>1. y \in Int
    BY <1>1, SMT
  <2> QED
    BY <1>1, <1>2, <2>1, CoinMoves
<1> HIDE DEF x, y
<1>7. /\ SumFunction(jpDue(pid))' = SumFunction(jpDue(pid)) + (-y)
      /\ SumFunction(loansDue(pid))' = SumFunction(loansDue(pid)) + (-x)
      /\ SumFunction(borrowRefundsDue(pid))' = SumFunction(borrowRefundsDue(pid)) + 0
  BY <1>1, <1>4, <1>5, FlowTyped, SMT
<1>8. /\ 0 \in Int /\ -x \in Int /\ y \in Int /\ -y \in Int
      /\ 0 + 0 = 0 /\ y + (-y) = 0 /\ 0 + (-x) = -x
  BY <1>1, SMT
<1>9. Flow(pid, 0 + 0, y + (-y), 0 + (-x), 0)
  BY <1>1, <1>2, <1>3, <1>6, <1>7, <1>8, DuesStill, FlowIs
<1> QED
  BY <1>1, <1>8, <1>9

\* withdrawBorrow() takes jp out of circulation.
LEMMA WithdrawBorrowFlow ==
  ASSUME Books, Books', NEW u \in Users, NEW pid \in Created, NEW amount \in Nat,
         withdrawBorrow(u, pid, amount), poolBaseInfo[pid].spCoin # poolBaseInfo[pid].jpCoin
  PROVE  Flow(pid, 0, -amount, 0, 0)
<1> DEFINE sp == poolBaseInfo[pid].spCoin
           jp == poolBaseInfo[pid].jpCoin
<1>1. /\ stateFinishLiquidation(pid)
      /\ UNCHANGED <<poolBaseInfo, poolDataInfo, userLendInfo, userBorrowInfo>>
      /\ DebtMoves(jp, u, -amount)
  BY WithdrawBorrowEffect
<1>2. /\ stateNotMatchUndone(pid) /\ FiguresKept(pid) /\ sp \in DebtCoins /\ jp \in DebtCoins
  BY <1>1, UnchangedFigures, PoolFigures DEF Books, stateFinishLiquidation, stateNotMatchUndone, inState
<1>3. /\ \A v \in Users : LenderKept(v, pid) /\ BorrowerKept(v, pid)
      /\ debt'[sp] = debt[sp]
  BY <1>1, <1>2 DEF LenderKept, BorrowerKept, DebtMoves
<1>4. 0 \in Int /\ -amount \in Int /\ 0 + 0 = 0 /\ -amount + 0 = -amount
  BY SMT
<1>5. SumFunction(debt'[jp]) = SumFunction(debt[jp]) + (-amount)
  BY <1>1, <1>2, <1>4, CoinMoves
<1>6. Flow(pid, 0 + 0, -amount + 0, 0 + 0, 0)
  BY <1>2, <1>3, <1>4, <1>5, DuesStill, FlowIs
<1> QED
  BY <1>4, <1>6

\* A sale of the collateral moves no dues: it changes what the coins redeem.
LEMMA SaleFlow ==
  ASSUME Books, NEW pid \in Created, NEW kept \in Nat, NEW cost \in Nat,
         NEW st \in {"FINISH", "LIQUIDATION"}, Sale(pid, kept, cost, st)
  PROVE  Flow(pid, 0, 0, 0, 0)
<1>1. /\ inState(pid, {"EXECUTION"}) /\ OtherPoolsKept(pid)
      /\ UNCHANGED <<userLendInfo, userBorrowInfo, debt>>
      /\ poolBaseInfo'[pid] = [poolBaseInfo[pid] EXCEPT !.state = st]
      /\ poolDataInfo'[pid].settleAmountLend = poolDataInfo[pid].settleAmountLend
      /\ poolDataInfo'[pid].settleAmountBorrow = poolDataInfo[pid].settleAmountBorrow
  BY DEF Sale, books
<1>2. poolBaseInfo[pid] \in PoolBaseInfo
  BY PoolFigures DEF Books
<1>3. stateNotMatchUndone(pid) /\ FiguresKept(pid)
  BY <1>1, <1>2 DEF FiguresKept, SameTerms, PoolBaseInfo, stateNotMatchUndone, inState
<1>4. \A v \in Users : LenderKept(v, pid) /\ BorrowerKept(v, pid)
  BY <1>1 DEF LenderKept, BorrowerKept
<1>5. 0 \in Int /\ 0 + 0 = 0
  BY SMT
<1>6. Flow(pid, 0 + 0, 0 + 0, 0 + 0, 0)
  BY <1>1, <1>3, <1>4, <1>5, DuesStill, FlowIs
<1> QED
  BY <1>5, <1>6

-----------------------------------------------------------------------------
(* The debt coins are backed.                                               *)

\* The same with the hypothesis on the coins set apart.
DebtBackedAt(pid) ==
  /\ spOutstanding(pid) <= poolDataInfo[pid].settleAmountLend
  /\ jpOutstanding(pid) <= poolJp(pid)

\* A pool that shares no coin with the one a step is about keeps its coins.
LEMMA CoinsApart ==
  ASSUME Books, OwnCoins, NEW pid \in Created, Touches(pid), NEW q \in Created, q # pid
  PROVE  /\ debt'[poolBaseInfo[q].spCoin] = debt[poolBaseInfo[q].spCoin]
         /\ debt'[poolBaseInfo[q].jpCoin] = debt[poolBaseInfo[q].jpCoin]
<1>1. poolBaseInfo[q].spCoin \in DebtCoins /\ poolBaseInfo[q].jpCoin \in DebtCoins
  BY PoolFigures DEF Books
<1>2. /\ poolBaseInfo[q].spCoin # poolBaseInfo[pid].spCoin
      /\ poolBaseInfo[q].spCoin # poolBaseInfo[pid].jpCoin
      /\ poolBaseInfo[q].jpCoin # poolBaseInfo[pid].spCoin
      /\ poolBaseInfo[q].jpCoin # poolBaseInfo[pid].jpCoin
  BY DEF OwnCoins
<1> QED
  BY <1>1, <1>2 DEF Touches

\* A pool that a step leaves alone, coins and all, owes what it owed.
LEMMA AloneSame ==
  ASSUME NEW q, PoolKept(q),
         debt'[poolBaseInfo[q].spCoin] = debt[poolBaseInfo[q].spCoin],
         debt'[poolBaseInfo[q].jpCoin] = debt[poolBaseInfo[q].jpCoin]
  PROVE  /\ DebtBackedAt(q)' <=> DebtBackedAt(q)
         /\ lendOwed(q)' = lendOwed(q) /\ borrowOwed(q)' = borrowOwed(q)
         /\ stateNotMatchUndone(q)' <=> stateNotMatchUndone(q)
<1>1. /\ FiguresKept(q) /\ \A v \in Users : LenderKept(v, q) /\ BorrowerKept(v, q)
      /\ stakesLeft(userLendInfo, q)' = stakesLeft(userLendInfo, q)
      /\ stakesLeft(userBorrowInfo, q)' = stakesLeft(userBorrowInfo, q)
      /\ stateNotMatchUndone(q)' <=> stateNotMatchUndone(q)
      /\ stateFinishLiquidation(q)' <=> stateFinishLiquidation(q)
      /\ inState(q, {"FINISH"})' <=> inState(q, {"FINISH"})
      /\ inState(q, {"EXECUTION"})' <=> inState(q, {"EXECUTION"})
      /\ poolJp(q)' = poolJp(q)
  BY DEF PoolKept, FiguresKept, SameTerms, LenderKept, BorrowerKept, stakesLeft,
         stateNotMatchUndone, stateFinishLiquidation, inState, poolJp
<1>2. /\ spDue(q)' = spDue(q) /\ jpDue(q)' = jpDue(q) /\ loansDue(q)' = loansDue(q)
      /\ lendRefundsDue(q)' = lendRefundsDue(q) /\ borrowRefundsDue(q)' = borrowRefundsDue(q)
  BY <1>1, LenderDuesKept, BorrowerDuesKept
<1>3. spOutstanding(q)' = spOutstanding(q) /\ jpOutstanding(q)' = jpOutstanding(q)
  BY <1>2 DEF PoolKept, spOutstanding, jpOutstanding
<1>4. spRedeemable(q)' = spRedeemable(q) /\ jpRedeemable(q)' = jpRedeemable(q)
  BY <1>1, <1>3 DEF PoolKept, spRedeemable, jpRedeemable, lendPayout, borrowPayout
<1> QED
  BY <1>1, <1>2, <1>3, <1>4 DEF PoolKept, DebtBackedAt, lendOwed, borrowOwed

\* A pool keeps its place and its terms.
LEMMA TermsKept ==
  ASSUME Books, Books', Next, NEW q \in Created
  PROVE  q \in Created' /\ SameTerms(poolBaseInfo'[q], poolBaseInfo[q])
<1>1. CASE UNCHANGED <<poolBaseInfo, poolDataInfo, books, balance>>
  BY <1>1 DEF Created, SameTerms
<1>2. CASE \E terms \in Terms : createPoolInfo(terms)
  BY <1>2, CreateBooks DEF PoolKept, SameTerms, Books
<1>3. CASE \E pid \in Created : StepOf(pid)
  BY <1>3, StepBooks DEF Touches, PoolKept, SameTerms, Books
<1> QED
  BY <1>1, <1>2, <1>3, NextCases

\* Coins that are apart after a step were apart before it.
LEMMA OwnCoinsBefore ==
  ASSUME Books, Books', Next, OwnCoins' PROVE OwnCoins
  BY TermsKept DEF OwnCoins, SameTerms

\* A refund or a claim of an executed pool pays what it takes off the dues, and
\* leaves its coins backed as they were.
LEMMA PaymentFlow ==
  ASSUME Books, Books', NEW pid \in Created, Payment(pid), stateNotMatchUndone(pid),
         poolBaseInfo[pid].spCoin # poolBaseInfo[pid].jpCoin
  PROVE  \E dl, db \in Int : Flow(pid, 0, 0, dl, db) /\ BalanceMoves(pid, dl, db)
<1>0. 0 \in Int /\ \A x \in Nat : -x \in Int
  BY SMT
<1>1. PICK u \in Users :
        \/ refundLend(u, pid) \/ claimLend(u, pid) \/ emergencyLendWithdrawal(u, pid)
        \/ refundBorrow(u, pid) \/ claimBorrow(u, pid) \/ emergencyBorrowWithdrawal(u, pid)
  BY DEF Payment
<1>2. CASE refundLend(u, pid)
  BY <1>0, <1>2, RefundLendFlow
<1>3. CASE claimLend(u, pid)
  BY <1>0, <1>3, ClaimLendFlow
<1>4. CASE refundBorrow(u, pid)
  BY <1>0, <1>4, RefundBorrowFlow
<1>5. CASE claimBorrow(u, pid)
  BY <1>0, <1>5, ClaimBorrowFlow
<1>6. CASE emergencyLendWithdrawal(u, pid) \/ emergencyBorrowWithdrawal(u, pid)
  BY <1>6 DEF emergencyLendWithdrawal, emergencyBorrowWithdrawal, stateUndone,
              stateNotMatchUndone, inState
<1> QED
  BY <1>1, <1>2, <1>3, <1>4, <1>5, <1>6

\* Coins that do not grow stay backed.
LEMMA FlowBacked ==
  ASSUME Books, NEW pid \in Created, stateNotMatchUndone(pid), DebtBackedAt(pid),
         NEW a \in Int, NEW b \in Int, a <= 0, b <= 0, NEW dl, NEW db, Flow(pid, a, b, dl, db)
  PROVE  DebtBackedAt(pid)'
<1> DEFINE so == spOutstanding(pid)
           jo == jpOutstanding(pid)
           sl == poolDataInfo[pid].settleAmountLend
           jp == poolJp(pid)
<1>1. so \in Nat /\ jo \in Nat /\ sl \in Nat /\ jp \in Nat
  BY SumsTyped, PoolFigures DEF SumsAreAmounts, Books
<1>2. so <= sl /\ jo <= jp
  BY DEF DebtBackedAt
<1>3. /\ spOutstanding(pid)' = so + a /\ jpOutstanding(pid)' = jo + b
      /\ poolDataInfo'[pid].settleAmountLend = sl /\ poolJp(pid)' = jp
  BY DEF Flow, FiguresKept, poolJp
<1> HIDE DEF so, jo, sl, jp
<1>4. so + a <= sl /\ jo + b <= jp
  BY <1>1, <1>2, SMT
<1> QED
  BY <1>3, <1>4 DEF DebtBackedAt

\* At settlement no coin of the pool is out, and the claims are shares of what
\* is settled.
LEMMA SettleBacked ==
  ASSUME Books, Books', OwnCoins, NEW pid \in Created, pid \in Created', settle(pid),
         SameTerms(poolBaseInfo'[pid], poolBaseInfo[pid]), stateNotMatchUndone(pid)'
  PROVE  DebtBackedAt(pid)'
<1> DEFINE sp == poolBaseInfo[pid].spCoin
           jp == poolBaseInfo[pid].jpCoin
<1>1. stateMatch(pid) /\ UNCHANGED debt
  BY SettleEffect DEF books
<1>2. sp \in DebtCoins /\ jp \in DebtCoins
  BY PoolFigures DEF Books
<1>3. \A c \in {sp, jp}, u \in Users : debt[c][u] = 0
  <2>1. \A q \in Created : stateNotMatchUndone(q) => q # pid
    BY <1>1 DEF stateMatch, stateNotMatchUndone, inState
  <2>2. \A c \in {sp, jp}, q \in Created : stateNotMatchUndone(q) =>
          c # poolBaseInfo[q].spCoin /\ c # poolBaseInfo[q].jpCoin
    BY <2>1 DEF OwnCoins
  <2> QED
    BY <1>2, <2>2 DEF Books, IdleCoins
<1>4. ASSUME NEW c \in {sp, jp} PROVE SumFunction(debt'[c]) = 0
  <2> DEFINE f == debt'[c]
  <2>1. f \in [Users -> Nat] /\ \A u \in Users : f[u] = 0
    BY <1>1, <1>2, <1>3, DuesTyped DEF DuesAreAmounts
  <2> HIDE DEF f
  <2>2. f \in [Users -> Int]
    BY <2>1, SMT
  <2>3. SumFunction(f) = 0
    BY <2>1, <2>2, PoolAssumption, SumZero
  <2> QED
    BY <2>3 DEF f
<1>5. poolBaseInfo'[pid].spCoin = sp /\ poolBaseInfo'[pid].jpCoin = jp
  BY DEF SameTerms
<1>6. /\ SumFunction(spDue(pid))' \in Nat /\ SumFunction(jpDue(pid))' \in Nat
      /\ SumFunction(spDue(pid))' <= poolDataInfo'[pid].settleAmountLend
      /\ SumFunction(jpDue(pid))' <= poolJp(pid)'
  BY DuesNext DEF SumsAreAmounts, DuesAreShares
<1>7. \A a \in Nat : 0 + a = a
  BY SMT
<1> QED
  BY <1>4, <1>5, <1>6, <1>7 DEF DebtBackedAt, spOutstanding, jpOutstanding

\* Claims turn dues into coins, withdrawals burn them, and no coin is another
\* pool's: what is out and due never exceeds what was settled.
LEMMA DebtBackedNext == Books /\ DebtBacked /\ [Next]_vars => DebtBacked'
<1> SUFFICES ASSUME Books, DebtBacked, [Next]_vars PROVE DebtBacked'
  OBVIOUS
<1>1. CASE UNCHANGED vars
  <2>1. /\ Created' = Created /\ (OwnCoins' <=> OwnCoins)
        /\ \A q \in Created : /\ stateNotMatchUndone(q)' <=> stateNotMatchUndone(q)
                              /\ DebtBackedAt(q)' <=> DebtBackedAt(q)
    <3>1. \A q \in Created : PoolKept(q)
      BY <1>1 DEF vars, books, PoolKept
    <3>2. \A q \in Created : /\ stateNotMatchUndone(q)' <=> stateNotMatchUndone(q)
                             /\ DebtBackedAt(q)' <=> DebtBackedAt(q)
      BY <1>1, <3>1, AloneSame DEF vars, books
    <3> QED
      BY <1>1, <3>2 DEF vars, Created, OwnCoins
  <2> QED
    BY <2>1 DEF DebtBacked, DebtBackedAt
<1>2. CASE Next
  <2>1. Books' /\ IInv'
    BY <1>2, BooksNext DEF Books
  <2> SUFFICES ASSUME OwnCoins', NEW q \in Created', stateNotMatchUndone(q)'
               PROVE  DebtBackedAt(q)'
    BY DEF DebtBacked, DebtBackedAt
  <2>2. OwnCoins
    BY <1>2, <2>1, OwnCoinsBefore
  <2>3. \A p \in Created : stateNotMatchUndone(p) => DebtBackedAt(p)
    BY <2>2 DEF DebtBacked, DebtBackedAt
  <2>4. ~stateMatch(q)'
    BY DEF stateMatch, stateNotMatchUndone, inState
  <2>5. ASSUME q \in Created, PoolKept(q),
               debt'[poolBaseInfo[q].spCoin] = debt[poolBaseInfo[q].spCoin],
               debt'[poolBaseInfo[q].jpCoin] = debt[poolBaseInfo[q].jpCoin]
        PROVE  DebtBackedAt(q)'
    BY <2>3, <2>5, AloneSame
  <2>6. CASE UNCHANGED <<poolBaseInfo, poolDataInfo, books, balance>>
    BY <2>1, <2>5, <2>6, IdleBooks DEF books
  <2>7. CASE \E terms \in Terms : createPoolInfo(terms)
    BY <2>1, <2>4, <2>5, <2>7, CreateBooks DEF books
  <2>8. CASE \E pid \in Created : StepOf(pid)
    <3>1. PICK pid \in Created : StepOf(pid)
      BY <2>8
    <3>2. Touches(pid) /\ q \in Created
      BY <2>1, <3>1, StepBooks DEF Touches
    <3>3. CASE q # pid
      BY <2>2, <2>5, <3>2, <3>3, CoinsApart DEF Touches
    <3>4. CASE q = pid
      <4>1. /\ poolBaseInfo[pid].spCoin # poolBaseInfo[pid].jpCoin
            /\ pid \in Created' /\ SameTerms(poolBaseInfo'[pid], poolBaseInfo[pid])
        BY <2>2, <3>2, <3>4 DEF OwnCoins, Touches
      <4>2. ~Deposit(pid)
        BY <2>4, <3>4, DepositMatches
      <4>3. CASE settle(pid)
        BY <2>1, <2>2, <3>4, <4>1, <4>3, SettleBacked
      <4>4. ASSUME stateNotMatchUndone(pid), NEW a \in Int, NEW b \in Int, a <= 0, b <= 0,
                   NEW dl, NEW db, Flow(pid, a, b, dl, db)
            PROVE  DebtBackedAt(q)'
        BY <2>3, <3>4, <4>4, FlowBacked
      <4>5. 0 \in Int /\ 0 <= 0 /\ \A a \in Nat : -a \in Int /\ -a <= 0
        BY SMT
      <4>6. CASE Payment(pid)
        <5>1. stateNotMatchUndone(pid)
          BY <3>4, <4>6, PaymentKeeps, UnchangedFigures
        <5>2. \E dl, db \in Int : Flow(pid, 0, 0, dl, db)
          BY <2>1, <4>1, <4>6, <5>1, PaymentFlow
        <5> QED
          BY <4>4, <4>5, <5>1, <5>2
      <4>7. CASE Withdrawal(pid)
        <5>1. stateNotMatchUndone(pid)
          BY <3>4, <4>7, PaymentKeeps, UnchangedFigures
        <5>2. \E a \in Nat : Flow(pid, -a, 0, 0, 0) \/ Flow(pid, 0, -a, 0, 0)
          BY <2>1, <4>1, <4>7, WithdrawLendFlow, WithdrawBorrowFlow DEF Withdrawal
        <5> QED
          BY <4>4, <4>5, <5>1, <5>2
      <4>8. CASE Liquidation(pid)
        <5>1. stateNotMatchUndone(pid)
          BY <4>8 DEF Liquidation, Sale, stateNotMatchUndone, inState
        <5>2. Flow(pid, 0, 0, 0, 0)
          BY <4>8, SaleFlow DEF Liquidation
        <5> QED
          BY <4>4, <4>5, <5>1, <5>2
      <4> QED
        BY <3>1, <4>2, <4>3, <4>6, <4>7, <4>8 DEF StepOf
    <3> QED
      BY <3>3, <3>4
  <2> QED
    BY <1>2, <2>6, <2>7, <2>8, NextCases
<1> QED
  BY <1>1, <1>2

\* Whatever order users claim and redeem in, over all pools, a pool's sp stays
\* within the loan it is redeemed against and its jp within the total jp.
THEOREM DebtIsBacked == Spec => []DebtBacked
<1>1. Init => DebtBacked
  <2>1. Init => Created = {}
    BY SMT DEF Init, Created
  <2> QED
    BY <2>1 DEF DebtBacked
<1> QED
  BY <1>1, DebtBackedNext, BooksInvariant, PTL DEF Spec

-----------------------------------------------------------------------------
(* What a step pays is what it takes off the pool's debts.                  *)

\* What a pool owes is an amount in each token.
OwedAreAmounts ==
  \A pid \in Created :
    /\ lendOwed(pid) \in Nat /\ borrowOwed(pid) \in Nat
    /\ \A t \in Tokens : owedBy(pid, t) \in Nat

\* What the coins of an executed pool are redeemed for is an amount.
LEMMA RedeemableTyped ==
  ASSUME Books, NEW pid \in Created, stateNotMatchUndone(pid)
  PROVE  spRedeemable(pid) \in Nat /\ jpRedeemable(pid) \in Nat
<1>1. spOutstanding(pid) \in Nat /\ jpOutstanding(pid) \in Nat
  BY SumsTyped DEF SumsAreAmounts
<1>2. /\ poolDataInfo[pid].settleAmountLend \in Nat /\ poolDataInfo[pid].settleAmountBorrow \in Nat
      /\ poolDataInfo[pid].finishAmountLend \in Nat /\ poolDataInfo[pid].finishAmountBorrow \in Nat
      /\ poolDataInfo[pid].liquidationAmounLend \in Nat
      /\ poolDataInfo[pid].liquidationAmounBorrow \in Nat
      /\ poolJp(pid) \in Nat
  BY PoolFigures DEF Books
<1>3. \A n \in Nat : n > 0 => n \in Nat \ {0}
  BY SMT
<1>4. spRedeemable(pid) \in Nat
  BY <1>1, <1>2, <1>3, EntitledBounded DEF spRedeemable, lendPayout
<1>5. jpRedeemable(pid) \in Nat
  BY <1>1, <1>2, <1>3, EntitledBounded DEF jpRedeemable, borrowPayout
<1> QED
  BY <1>4, <1>5

\* By the books, what a pool owes in a token is an amount.
LEMMA OwedTyped == Books => OwedAreAmounts
<1> SUFFICES ASSUME Books, NEW pid \in Created
             PROVE  /\ lendOwed(pid) \in Nat /\ borrowOwed(pid) \in Nat
                    /\ \A t \in Tokens : owedBy(pid, t) \in Nat
  BY DEF OwedAreAmounts
<1>0. \A a, b \in Nat : a + b \in Nat
  BY SMT
<1>1. ASSUME ~stateNotMatchUndone(pid) PROVE lendOwed(pid) \in Nat /\ borrowOwed(pid) \in Nat
  BY <1>1, SumsTyped DEF SumsAreAmounts, lendOwed, borrowOwed
<1>2. ASSUME stateNotMatchUndone(pid) PROVE lendOwed(pid) \in Nat /\ borrowOwed(pid) \in Nat
  <2>1. /\ SumFunction(loansDue(pid)) \in Nat /\ SumFunction(lendRefundsDue(pid)) \in Nat
        /\ SumFunction(borrowRefundsDue(pid)) \in Nat
    BY <1>2, SumsTyped DEF SumsAreAmounts
  <2>2. spRedeemable(pid) \in Nat /\ jpRedeemable(pid) \in Nat
    BY <1>2, RedeemableTyped
  <2> QED
    BY <1>0, <1>2, <2>1, <2>2 DEF lendOwed, borrowOwed
<1>3. lendOwed(pid) \in Nat /\ borrowOwed(pid) \in Nat
  BY <1>1, <1>2
<1> QED
  BY <1>0, <1>3 DEF owedBy

\* So it is after a step.
LEMMA OwedTypedNext == Books' => OwedAreAmounts'
  BY OwedTyped, PTL

\* A step moves the balance of the pool's two tokens by dl and db, and what the
\* pool owes in them by no more, or by exactly as much.
PaysOff(pid, dl, db) ==
  /\ BalanceMoves(pid, dl, db)
  /\ lendOwed(pid)' <= lendOwed(pid) + dl
  /\ borrowOwed(pid)' <= borrowOwed(pid) + db
PaysExactly(pid, dl, db) ==
  /\ BalanceMoves(pid, dl, db)
  /\ lendOwed(pid)' = lendOwed(pid) + dl
  /\ borrowOwed(pid)' = borrowOwed(pid) + db

\* A step that pays exactly pays no less than it should.
LEMMA ExactPaysOff ==
  ASSUME Books, NEW pid \in Created, NEW dl \in Int, NEW db \in Int, PaysExactly(pid, dl, db)
  PROVE  PaysOff(pid, dl, db)
<1>1. lendOwed(pid) \in Nat /\ borrowOwed(pid) \in Nat
  BY OwedTyped DEF OwedAreAmounts
<1>2. \A n \in Nat : n + dl <= n + dl /\ n + db <= n + db
  BY SMT
<1> QED
  BY <1>1, <1>2 DEF PaysOff, PaysExactly

\* While a pool collects deposits nobody has taken anything back.
LEMMA MatchStakesLeft ==
  ASSUME Books, NEW pid \in Created, stateMatch(pid)
  PROVE  /\ stakesLeft(userLendInfo, pid) = stakes(userLendInfo, pid)
         /\ stakesLeft(userBorrowInfo, pid) = stakes(userBorrowInfo, pid)
         /\ lendOwed(pid) = poolBaseInfo[pid].lendSupply
         /\ borrowOwed(pid) = poolBaseInfo[pid].borrowSupply
<1>1. /\ \A u \in Users : unpaid(userLendInfo[u][pid]) /\ unpaid(userBorrowInfo[u][pid])
      /\ poolBaseInfo[pid].lendSupply = SumFunction(stakes(userLendInfo, pid))
      /\ poolBaseInfo[pid].borrowSupply = SumFunction(stakes(userBorrowInfo, pid))
  BY DEF Books, BooksAt
<1>2. /\ stakesLeft(userLendInfo, pid) = stakes(userLendInfo, pid)
      /\ stakesLeft(userBorrowInfo, pid) = stakes(userBorrowInfo, pid)
  BY <1>1 DEF unpaid, stakes, stakesLeft
<1>3. ~stateNotMatchUndone(pid)
  BY DEF stateMatch, stateNotMatchUndone, inState
<1> QED
  BY <1>1, <1>2, <1>3 DEF lendOwed, borrowOwed

\* While a pool collects deposits it owes its supplies.
LEMMA MatchOwes ==
  Books => \A pid \in Created : stateMatch(pid) =>
    /\ lendOwed(pid) = poolBaseInfo[pid].lendSupply
    /\ borrowOwed(pid) = poolBaseInfo[pid].borrowSupply
  BY MatchStakesLeft

\* The same after a step.
LEMMA MatchOwesNext ==
  Books' => \A pid \in Created' : stateMatch(pid)' =>
    /\ lendOwed(pid)' = poolBaseInfo'[pid].lendSupply
    /\ borrowOwed(pid)' = poolBaseInfo'[pid].borrowSupply
<1>1. (Books => \A pid \in Created : stateMatch(pid) =>
        /\ lendOwed(pid) = poolBaseInfo[pid].lendSupply
        /\ borrowOwed(pid) = poolBaseInfo[pid].borrowSupply)'
  BY MatchOwes, PTL
<1> QED
  BY <1>1

\* A deposit is owed to whoever made it.
LEMMA DepositPays ==
  ASSUME Books, Books', NEW pid \in Created, pid \in Created', Deposit(pid)
  PROVE  \E dl, db \in Int : PaysExactly(pid, dl, db)
<1>1. PICK u \in Users, amount \in Amounts :
        depositLend(u, pid, amount) \/ depositBorrow(u, pid, amount)
  BY DEF Deposit
<1>2. /\ poolBaseInfo[pid].lendSupply \in Nat /\ poolBaseInfo[pid].borrowSupply \in Nat
  BY PoolFigures DEF Books
<1>3. \A n \in Nat : n + 0 = n /\ n \in Int /\ 0 \in Int
  BY SMT
<1>4. /\ stateMatch(pid) => /\ lendOwed(pid) = poolBaseInfo[pid].lendSupply
                            /\ borrowOwed(pid) = poolBaseInfo[pid].borrowSupply
      /\ stateMatch(pid)' => /\ lendOwed(pid)' = poolBaseInfo'[pid].lendSupply
                             /\ borrowOwed(pid)' = poolBaseInfo'[pid].borrowSupply
  BY MatchOwes, MatchOwesNext
<1>5. CASE depositLend(u, pid, amount)
  <2>1. /\ stateMatch(pid) /\ stateMatch(pid)' /\ amount \in Nat
        /\ poolBaseInfo'[pid].lendSupply = poolBaseInfo[pid].lendSupply + amount
        /\ poolBaseInfo'[pid].borrowSupply = poolBaseInfo[pid].borrowSupply
        /\ BalanceMoves(pid, amount, 0)
    BY <1>5, DepositLendEffect
  <2>2. PaysExactly(pid, amount, 0)
    BY <1>2, <1>3, <1>4, <2>1 DEF PaysExactly
  <2> QED
    BY <1>3, <2>1, <2>2
<1>6. CASE depositBorrow(u, pid, amount)
  <2>1. /\ stateMatch(pid) /\ stateMatch(pid)' /\ amount \in Nat
        /\ poolBaseInfo'[pid].borrowSupply = poolBaseInfo[pid].borrowSupply + amount
        /\ poolBaseInfo'[pid].lendSupply = poolBaseInfo[pid].lendSupply
        /\ BalanceMoves(pid, 0, amount)
    BY <1>6, DepositBorrowEffect
  <2>2. PaysExactly(pid, 0, amount)
    BY <1>2, <1>3, <1>4, <2>1 DEF PaysExactly
  <2> QED
    BY <1>3, <2>1, <2>2
<1> QED
  BY <1>1, <1>5, <1>6

\* An emergency withdrawal pays one stake of an undone pool, once.
LEMMA EmergencyPays ==
  ASSUME Books, Books', NEW u \in Users, NEW pid \in Created, pid \in Created',
         emergencyLendWithdrawal(u, pid) \/ emergencyBorrowWithdrawal(u, pid)
  PROVE  \E dl, db \in Int : PaysExactly(pid, dl, db)
<1>1. /\ pid \in Pids
      /\ userLendInfo[u][pid].stakeAmount \in Nat /\ userBorrowInfo[u][pid].stakeAmount \in Nat
  BY PoolFigures DEF Books
<1>2. 0 \in Int /\ \A n \in Nat : -n \in Int /\ n + 0 = n
  BY SMT
<1>3. /\ SumFunction(stakesLeft(userLendInfo, pid)) \in Nat
      /\ SumFunction(stakesLeft(userBorrowInfo, pid)) \in Nat
  BY SumsTyped DEF SumsAreAmounts
<1>4. ASSUME NEW f \in [Users -> Nat], NEW g \in [Users -> Nat], NEW x \in Nat,
             f[u] = x, g[u] = 0, \A v \in Users : v # u => g[v] = f[v]
      PROVE  SumFunction(g) = SumFunction(f) + (-x)
  <2>1. f \in [Users -> Int] /\ g \in [Users -> Int]
    BY SMT
  <2>2. SumFunction(g) = SumFunction(f) - f[u] + g[u] /\ SumFunction(f) \in Int
    BY <1>4, <2>1, PoolAssumption, SumPoint, SumInt
  <2> QED
    BY <1>4, <2>2, SMT
<1>5. CASE emergencyLendWithdrawal(u, pid)
  <2> DEFINE x == userLendInfo[u][pid].stakeAmount
             f == stakesLeft(userLendInfo, pid)
             g == stakesLeft(userLendInfo, pid)'
  <2>1. /\ stateUndone(pid) /\ ~userLendInfo[u][pid].hasNoRefund
        /\ UNCHANGED <<poolBaseInfo, userBorrowInfo>>
        /\ OtherLendEntriesKept(u, pid)
        /\ userLendInfo'[u][pid].stakeAmount = x
        /\ userLendInfo'[u][pid].hasNoRefund = TRUE
        /\ BalanceMoves(pid, -x, 0)
    BY <1>5, EmergencyLendEffect
  <2>2. f \in [Users -> Nat] /\ g \in [Users -> Nat]
    BY DuesTyped, DuesNext DEF DuesAreAmounts
  <2>3. f[u] = x /\ g[u] = 0 /\ \A v \in Users : v # u => g[v] = f[v]
    BY <1>1, <2>1 DEF stakesLeft, OtherLendEntriesKept
  <2> HIDE DEF f, g
  <2>4. SumFunction(g) = SumFunction(f) + (-x)
    BY <1>1, <1>4, <2>2, <2>3
  <2>5. /\ ~stateNotMatchUndone(pid) /\ ~stateNotMatchUndone(pid)'
        /\ stakesLeft(userBorrowInfo, pid)' = stakesLeft(userBorrowInfo, pid)
    BY <2>1 DEF stateUndone, stateNotMatchUndone, inState, stakesLeft
  <2>6. PaysExactly(pid, -x, 0)
    BY <1>2, <1>3, <2>1, <2>4, <2>5 DEF PaysExactly, lendOwed, borrowOwed, f, g
  <2> QED
    BY <1>1, <1>2, <2>6
<1>6. CASE emergencyBorrowWithdrawal(u, pid)
  <2> DEFINE x == userBorrowInfo[u][pid].stakeAmount
             f == stakesLeft(userBorrowInfo, pid)
             g == stakesLeft(userBorrowInfo, pid)'
  <2>1. /\ stateUndone(pid) /\ ~userBorrowInfo[u][pid].hasNoRefund
        /\ UNCHANGED <<poolBaseInfo, userLendInfo>>
        /\ OtherBorrowEntriesKept(u, pid)
        /\ userBorrowInfo'[u][pid].stakeAmount = x
        /\ userBorrowInfo'[u][pid].hasNoRefund = TRUE
        /\ BalanceMoves(pid, 0, -x)
    BY <1>6, EmergencyBorrowEffect
  <2>2. f \in [Users -> Nat] /\ g \in [Users -> Nat]
    BY DuesTyped, DuesNext DEF DuesAreAmounts
  <2>3. f[u] = x /\ g[u] = 0 /\ \A v \in Users : v # u => g[v] = f[v]
    BY <1>1, <2>1 DEF stakesLeft, OtherBorrowEntriesKept
  <2> HIDE DEF f, g
  <2>4. SumFunction(g) = SumFunction(f) + (-x)
    BY <1>1, <1>4, <2>2, <2>3
  <2>5. /\ ~stateNotMatchUndone(pid) /\ ~stateNotMatchUndone(pid)'
        /\ stakesLeft(userLendInfo, pid)' = stakesLeft(userLendInfo, pid)
    BY <2>1 DEF stateUndone, stateNotMatchUndone, inState, stakesLeft
  <2>6. PaysExactly(pid, 0, -x)
    BY <1>2, <1>3, <2>1, <2>4, <2>5 DEF PaysExactly, lendOwed, borrowOwed, f, g
  <2> QED
    BY <1>1, <1>2, <2>6
<1> QED
  BY <1>5, <1>6

\* A refund or a claim of an executed pool pays what it takes off the dues.
LEMMA PaymentPays ==
  ASSUME Books, Books', NEW pid \in Created, pid \in Created', Payment(pid),
         poolBaseInfo[pid].spCoin # poolBaseInfo[pid].jpCoin
  PROVE  \E dl, db \in Int : PaysExactly(pid, dl, db)
<1>1. CASE stateNotMatchUndone(pid)
  <2>1. PICK dl \in Int, db \in Int : Flow(pid, 0, 0, dl, db) /\ BalanceMoves(pid, dl, db)
    BY <1>1, PaymentFlow
  <2>2. UNCHANGED <<poolBaseInfo, poolDataInfo>>
    BY PaymentKeeps
  <2>3. /\ stateNotMatchUndone(pid)'
        /\ SumFunction(loansDue(pid)) \in Nat /\ SumFunction(lendRefundsDue(pid)) \in Nat
        /\ SumFunction(borrowRefundsDue(pid)) \in Nat
        /\ spOutstanding(pid) \in Nat /\ jpOutstanding(pid) \in Nat
        /\ lendOwed(pid) \in Nat /\ borrowOwed(pid) \in Nat
    BY <1>1, <2>2, UnchangedFigures, SumsTyped, OwedTyped DEF SumsAreAmounts, OwedAreAmounts
  <2>4. \A n \in Nat : n + 0 = n
    BY SMT
  <2>5. spOutstanding(pid)' = spOutstanding(pid) /\ jpOutstanding(pid)' = jpOutstanding(pid)
    BY <2>1, <2>3, <2>4 DEF Flow
  <2>6. spRedeemable(pid)' = spRedeemable(pid) /\ jpRedeemable(pid)' = jpRedeemable(pid)
    BY <2>2, <2>5 DEF spRedeemable, jpRedeemable, stateFinishLiquidation, inState, lendPayout,
                      borrowPayout, poolJp
  <2>7. spRedeemable(pid) \in Nat /\ jpRedeemable(pid) \in Nat
    BY <1>1, RedeemableTyped
  <2> DEFINE a == SumFunction(lendRefundsDue(pid))
             b == SumFunction(loansDue(pid))
             c == SumFunction(borrowRefundsDue(pid))
             r == spRedeemable(pid)
             j == jpRedeemable(pid)
             a2 == SumFunction(lendRefundsDue(pid))'
             b2 == SumFunction(loansDue(pid))'
  <2>8. /\ lendOwed(pid) = a + b + r /\ lendOwed(pid)' = a2 + b2 + r
        /\ borrowOwed(pid) = c + j /\ borrowOwed(pid)' = (c + db) + j
        /\ a2 + b2 = a + b + dl
    BY <1>1, <2>1, <2>3, <2>6 DEF lendOwed, borrowOwed, Flow
  <2>9. a \in Nat /\ b \in Nat /\ c \in Nat /\ r \in Nat /\ j \in Nat
    BY <2>3, <2>7
  <2> HIDE DEF a, b, c, r, j, a2, b2
  <2>10. (a + b + dl) + r = (a + b + r) + dl /\ (c + db) + j = (c + j) + db
    BY <2>9, SMT
  <2>11. PaysExactly(pid, dl, db)
    BY <2>1, <2>8, <2>10 DEF PaysExactly
  <2> QED
    BY <2>11
<1>2. CASE ~stateNotMatchUndone(pid)
  <2>1. PICK u \in Users :
          \/ refundLend(u, pid) \/ claimLend(u, pid) \/ emergencyLendWithdrawal(u, pid)
          \/ refundBorrow(u, pid) \/ claimBorrow(u, pid) \/ emergencyBorrowWithdrawal(u, pid)
    BY DEF Payment
  <2>2. emergencyLendWithdrawal(u, pid) \/ emergencyBorrowWithdrawal(u, pid)
    BY <1>2, <2>1 DEF refundLend, claimLend, refundBorrow, claimBorrow
  <2> QED
    BY <2>2, EmergencyPays
<1> QED
  BY <1>1, <1>2

\* Settling a pool with one empty side leaves every stake owed.
LEMMA UnmatchedPays ==
  ASSUME Books, Books', NEW pid \in Created, pid \in Created', settle(pid),
         ~stateNotMatchUndone(pid)'
  PROVE  PaysExactly(pid, 0, 0)
<1>1. stateMatch(pid) /\ UNCHANGED <<userLendInfo, userBorrowInfo, balance>>
  BY SettleEffect DEF books
<1>2. /\ ~stateNotMatchUndone(pid)
      /\ stakesLeft(userLendInfo, pid)' = stakesLeft(userLendInfo, pid)
      /\ stakesLeft(userBorrowInfo, pid)' = stakesLeft(userBorrowInfo, pid)
  BY <1>1 DEF stateMatch, stateNotMatchUndone, inState, stakesLeft
<1>3. lendOwed(pid)' = lendOwed(pid) /\ borrowOwed(pid)' = borrowOwed(pid)
  BY <1>2 DEF lendOwed, borrowOwed
<1>4. lendOwed(pid) \in Nat /\ borrowOwed(pid) \in Nat /\ \A t \in Tokens : balance[t] \in Nat
  BY OwedTyped, PoolFigures DEF OwedAreAmounts, Books
<1>5. \A n \in Nat : n + 0 = n
  BY SMT
<1>6. BalanceMoves(pid, 0, 0)
  BY <1>1, <1>4, SMT DEF BalanceMoves
<1> QED
  BY <1>3, <1>4, <1>5, <1>6 DEF PaysExactly

\* Settlement turns the stakes into refunds, loans and the matched collateral,
\* which are shares of them as long as it matches no more than was pledged.
LEMMA MatchedPays ==
  ASSUME Books, Books', WithinPledges', NEW pid \in Created, pid \in Created', settle(pid),
         stateNotMatchUndone(pid)'
  PROVE  PaysOff(pid, 0, 0)
<1> DEFINE ls == poolBaseInfo[pid].lendSupply
           bs == poolBaseInfo[pid].borrowSupply
           sl == poolDataInfo'[pid].settleAmountLend
           sb == poolDataInfo'[pid].settleAmountBorrow
           a == SumFunction(lendRefundsDue(pid))'
           b == SumFunction(loansDue(pid))'
           c == SumFunction(borrowRefundsDue(pid))'
<1>1. /\ stateMatch(pid) /\ UNCHANGED balance
      /\ \/ poolBaseInfo'[pid] = [poolBaseInfo[pid] EXCEPT !.state = "EXECUTION"]
            /\ sl \in Nat /\ sb \in Nat /\ sl <= ls
         \/ poolBaseInfo'[pid] = [poolBaseInfo[pid] EXCEPT !.state = "UNDONE"]
  BY SettleEffect
<1>2. poolBaseInfo[pid] \in PoolBaseInfo /\ ls \in Nat /\ bs \in Nat
      /\ \A t \in Tokens : balance[t] \in Nat
  BY PoolFigures DEF Books
<1>3. /\ poolBaseInfo'[pid].state = "EXECUTION"
      /\ poolBaseInfo'[pid].lendSupply = ls /\ poolBaseInfo'[pid].borrowSupply = bs
      /\ sl \in Nat /\ sb \in Nat /\ sl <= ls
  BY <1>1, <1>2 DEF PoolBaseInfo, stateNotMatchUndone, inState
<1>4. sb <= bs
  BY <1>3 DEF WithinPledges
<1>5. a \in Nat /\ b \in Nat /\ c \in Nat
  BY DuesNext DEF SumsAreAmounts
<1>6. a <= ls - sl /\ b <= sl /\ c <= bs - sb
  BY <1>3, <1>4, DuesNext DEF DuesAreShares
<1>7. spRedeemable(pid)' = 0 /\ jpRedeemable(pid)' = sb
  BY <1>3 DEF spRedeemable, jpRedeemable, stateFinishLiquidation, inState
<1>8. lendOwed(pid)' = a + b + 0 /\ borrowOwed(pid)' = c + sb
  BY <1>7 DEF lendOwed, borrowOwed
<1>9. lendOwed(pid) = ls /\ borrowOwed(pid) = bs
  BY <1>1, MatchStakesLeft
<1>10. BalanceMoves(pid, 0, 0)
  BY <1>1, <1>2, SMT DEF BalanceMoves
<1> HIDE DEF ls, bs, sl, sb, a, b, c
<1>11. a + b + 0 <= ls + 0 /\ c + sb <= bs + 0
  BY <1>2, <1>3, <1>5, <1>6, SMT
<1> QED
  BY <1>8, <1>9, <1>10, <1>11 DEF PaysOff

\* A share of a sum is no less than the sum of the shares, so redeeming a coin
\* leaves enough for the coins that stay out.
LEMMA WithdrawLendPays ==
  ASSUME Books, Books', NEW u \in Users, NEW pid \in Created, NEW amount \in Nat,
         pid \in Created', withdrawLend(u, pid, amount),
         poolBaseInfo[pid].spCoin # poolBaseInfo[pid].jpCoin
  PROVE  \E dl, db \in Int : PaysOff(pid, dl, db)
<1> DEFINE x == lendPayout(pid, amount)
           so == spOutstanding(pid)
           s2 == spOutstanding(pid)'
           sl == poolDataInfo[pid].settleAmountLend
           a == SumFunction(lendRefundsDue(pid))
           b == SumFunction(loansDue(pid))
           c == SumFunction(borrowRefundsDue(pid))
           a2 == SumFunction(lendRefundsDue(pid))'
           b2 == SumFunction(loansDue(pid))'
           r == lendPayout(pid, so)
           r2 == lendPayout(pid, s2)
<1>1. /\ stateFinishLiquidation(pid) /\ sl > 0 /\ x \in Nat
      /\ UNCHANGED <<poolBaseInfo, poolDataInfo>>
      /\ BalanceMoves(pid, -x, 0)
  BY WithdrawLendEffect
<1>2. /\ stateFinishLiquidation(pid)' /\ stateNotMatchUndone(pid) /\ stateNotMatchUndone(pid)'
  BY <1>1 DEF stateFinishLiquidation, stateNotMatchUndone, inState
<1>3. Flow(pid, -amount, 0, 0, 0)
  BY WithdrawLendFlow
<1>4. /\ so \in Nat /\ s2 \in Nat /\ a \in Nat /\ b \in Nat /\ c \in Nat
      /\ jpOutstanding(pid) \in Nat
      /\ lendOwed(pid) \in Nat /\ borrowOwed(pid) \in Nat
  BY <1>2, SumsTyped, DuesNext, OwedTyped DEF SumsAreAmounts, OwedAreAmounts
<1>5. /\ s2 = so + (-amount) /\ a2 + b2 = a + b + 0
      /\ jpOutstanding(pid)' = jpOutstanding(pid) + 0
      /\ SumFunction(borrowRefundsDue(pid))' = c + 0
  BY <1>3 DEF Flow
<1>6. \A n \in Nat : n + 0 = n
  BY SMT
<1>7. /\ borrowOwed(pid)' = borrowOwed(pid)
  <2>1. jpRedeemable(pid)' = jpRedeemable(pid)
    BY <1>1, <1>4, <1>5, <1>6 DEF jpRedeemable, inState, borrowPayout, poolJp
  <2> QED
    BY <1>2, <1>4, <1>5, <1>6, <2>1 DEF borrowOwed
<1>8. x \in Nat /\ r \in Nat /\ r2 \in Nat /\ r2 + x <= r
  <2> DEFINE final == IF inState(pid, {"FINISH"}) THEN poolDataInfo[pid].finishAmountLend
                                                  ELSE poolDataInfo[pid].liquidationAmounLend
  <2>1. /\ poolDataInfo[pid].finishAmountLend \in Nat
        /\ poolDataInfo[pid].liquidationAmounLend \in Nat
        /\ sl \in Nat
    BY PoolFigures DEF Books
  <2>2. final \in Nat
    BY <2>1
  <2>3. /\ x = Entitled(final, amount, sl) /\ r = Entitled(final, so, sl)
        /\ r2 = Entitled(final, s2, sl)
    BY DEF lendPayout
  <2> HIDE DEF so, s2, final, sl, x, r, r2
  <2>4. sl \in Nat \ {0} /\ so = s2 + amount
    BY <1>1, <1>4, <1>5, <2>1, SMT
  <2>5. Entitled(final, s2, sl) + Entitled(final, amount, sl) <= Entitled(final, so, sl)
    BY <1>4, <2>2, <2>4, EntitledAdds
  <2>6. r \in Nat /\ r2 \in Nat
    BY <1>4, <2>2, <2>3, <2>4, EntitledBounded
  <2> QED
    BY <1>1, <2>3, <2>5, <2>6
<1>9. lendOwed(pid) = a + b + r /\ lendOwed(pid)' = a2 + b2 + r2
  <2>1. spRedeemable(pid) = r /\ spRedeemable(pid)' = lendPayout(pid, s2)
    BY <1>1, <1>2 DEF spRedeemable, lendPayout, inState
  <2> QED
    BY <1>2, <2>1 DEF lendOwed
<1> HIDE DEF x, so, s2, sl, a, b, c, a2, b2, r, r2
<1>10. (a + b + 0) + r2 <= (a + b + r) + (-x)
  BY <1>4, <1>8, SMT
<1>11. 0 \in Int /\ -x \in Int /\ \A n \in Nat : n <= n + 0
  BY <1>1, SMT
<1>12. PaysOff(pid, -x, 0)
  BY <1>1, <1>4, <1>5, <1>7, <1>9, <1>10, <1>11 DEF PaysOff
<1> QED
  BY <1>11, <1>12

\* withdrawBorrow() pays out what the burnt jp were owed.
LEMMA WithdrawBorrowPays ==
  ASSUME Books, Books', NEW u \in Users, NEW pid \in Created, NEW amount \in Nat,
         pid \in Created', withdrawBorrow(u, pid, amount),
         poolBaseInfo[pid].spCoin # poolBaseInfo[pid].jpCoin
  PROVE  \E dl, db \in Int : PaysOff(pid, dl, db)
<1> DEFINE x == borrowPayout(pid, amount)
           jo == jpOutstanding(pid)
           j2 == jpOutstanding(pid)'
           jp == poolJp(pid)
           a == SumFunction(lendRefundsDue(pid))
           b == SumFunction(loansDue(pid))
           c == SumFunction(borrowRefundsDue(pid))
           a2 == SumFunction(lendRefundsDue(pid))'
           b2 == SumFunction(loansDue(pid))'
           r == borrowPayout(pid, jo)
           r2 == borrowPayout(pid, j2)
<1>1. /\ stateFinishLiquidation(pid) /\ jp > 0 /\ x \in Nat
      /\ UNCHANGED <<poolBaseInfo, poolDataInfo>>
      /\ BalanceMoves(pid, 0, -x)
  BY WithdrawBorrowEffect
<1>2. /\ stateFinishLiquidation(pid)' /\ stateNotMatchUndone(pid) /\ stateNotMatchUndone(pid)'
      /\ ~inState(pid, {"EXECUTION"}) /\ ~inState(pid, {"EXECUTION"})'
  BY <1>1 DEF stateFinishLiquidation, stateNotMatchUndone, inState
<1>3. Flow(pid, 0, -amount, 0, 0)
  BY WithdrawBorrowFlow
<1>4. /\ jo \in Nat /\ j2 \in Nat /\ a \in Nat /\ b \in Nat /\ c \in Nat
      /\ spOutstanding(pid) \in Nat /\ spRedeemable(pid) \in Nat
      /\ lendOwed(pid) \in Nat /\ borrowOwed(pid) \in Nat
  BY <1>2, SumsTyped, DuesNext, OwedTyped, RedeemableTyped DEF SumsAreAmounts, OwedAreAmounts
<1>5. /\ j2 = jo + (-amount) /\ a2 + b2 = a + b + 0
      /\ spOutstanding(pid)' = spOutstanding(pid) + 0
      /\ SumFunction(borrowRefundsDue(pid))' = c + 0
  BY <1>3 DEF Flow
<1>6. \A n, m \in Nat : n + 0 = n /\ n + m + 0 = n + m
  BY SMT
<1>7. lendOwed(pid)' = lendOwed(pid)
  <2>1. spRedeemable(pid)' = spRedeemable(pid)
    BY <1>1, <1>4, <1>5, <1>6 DEF spRedeemable, stateFinishLiquidation, inState, lendPayout
  <2>2. a2 + b2 = a + b
    BY <1>4, <1>5, <1>6
  <2> QED
    BY <1>2, <2>1, <2>2 DEF lendOwed
<1>8. x \in Nat /\ r \in Nat /\ r2 \in Nat /\ r2 + x <= r
  <2> DEFINE final == IF inState(pid, {"FINISH"}) THEN poolDataInfo[pid].finishAmountBorrow
                                                  ELSE poolDataInfo[pid].liquidationAmounBorrow
  <2>1. /\ poolDataInfo[pid].finishAmountBorrow \in Nat
        /\ poolDataInfo[pid].liquidationAmounBorrow \in Nat
        /\ jp \in Nat
    BY PoolFigures DEF Books
  <2>2. final \in Nat
    BY <2>1
  <2>3. /\ x = Entitled(final, amount, jp) /\ r = Entitled(final, jo, jp)
        /\ r2 = Entitled(final, j2, jp)
    BY DEF borrowPayout
  <2> HIDE DEF jo, j2, final, jp, x, r, r2
  <2>4. jp \in Nat \ {0} /\ jo = j2 + amount
    BY <1>1, <1>4, <1>5, <2>1, SMT
  <2>5. Entitled(final, j2, jp) + Entitled(final, amount, jp) <= Entitled(final, jo, jp)
    BY <1>4, <2>2, <2>4, EntitledAdds
  <2>6. r \in Nat /\ r2 \in Nat
    BY <1>4, <2>2, <2>3, <2>4, EntitledBounded
  <2> QED
    BY <1>1, <2>3, <2>5, <2>6
<1>9. borrowOwed(pid) = c + r /\ borrowOwed(pid)' = (c + 0) + r2
  <2>1. jpRedeemable(pid) = r /\ jpRedeemable(pid)' = borrowPayout(pid, j2)
    BY <1>1, <1>2 DEF jpRedeemable, borrowPayout, inState, poolJp
  <2> QED
    BY <1>2, <1>5, <2>1 DEF borrowOwed
<1> HIDE DEF x, jo, j2, jp, a, b, c, a2, b2, r, r2
<1>10. (c + 0) + r2 <= (c + r) + (-x)
  BY <1>4, <1>8, SMT
<1>11. 0 \in Int /\ -x \in Int /\ \A n \in Nat : n <= n + 0
  BY <1>1, SMT
<1>12. PaysOff(pid, 0, -x)
  BY <1>1, <1>4, <1>7, <1>9, <1>10, <1>11 DEF PaysOff
<1> QED
  BY <1>11, <1>12

\* A sale adds what is kept to what the sp redeems, and takes what it costs off
\* what the jp redeems: no more, because the coins are backed.
LEMMA SalePays ==
  ASSUME Books, Books', NEW pid \in Created, DebtBackedAt(pid), NEW kept \in Nat,
         NEW cost \in Nat, NEW st \in {"FINISH", "LIQUIDATION"}, Sale(pid, kept, cost, st)
  PROVE  PaysOff(pid, kept, -cost)
<1> DEFINE so == spOutstanding(pid)
           jo == jpOutstanding(pid)
           sl == poolDataInfo[pid].settleAmountLend
           sb == poolDataInfo[pid].settleAmountBorrow
           jp == poolJp(pid)
           a == SumFunction(lendRefundsDue(pid))
           b == SumFunction(loansDue(pid))
           c == SumFunction(borrowRefundsDue(pid))
           a2 == SumFunction(lendRefundsDue(pid))'
           b2 == SumFunction(loansDue(pid))'
           r2 == spRedeemable(pid)'
           j2 == jpRedeemable(pid)'
<1>1. /\ inState(pid, {"EXECUTION"}) /\ cost <= sb
      /\ poolBaseInfo'[pid] = [poolBaseInfo[pid] EXCEPT !.state = st]
      /\ \/ /\ st = "FINISH"
            /\ poolDataInfo'[pid].finishAmountLend = kept
            /\ poolDataInfo'[pid].finishAmountBorrow = sb - cost
         \/ /\ st = "LIQUIDATION"
            /\ poolDataInfo'[pid].liquidationAmounLend = kept
            /\ poolDataInfo'[pid].liquidationAmounBorrow = sb - cost
      /\ BalanceMoves(pid, kept, -cost)
  BY DEF Sale
<1>2. /\ poolBaseInfo[pid] \in PoolBaseInfo /\ sl \in Nat /\ sb \in Nat /\ jp \in Nat
  BY PoolFigures DEF Books
<1>3. poolBaseInfo'[pid].state = st
  BY <1>1, <1>2 DEF PoolBaseInfo
<1>4. /\ stateNotMatchUndone(pid) /\ stateNotMatchUndone(pid)'
      /\ ~stateFinishLiquidation(pid) /\ stateFinishLiquidation(pid)'
      /\ ~inState(pid, {"EXECUTION"})' /\ (inState(pid, {"FINISH"})' <=> st = "FINISH")
  BY <1>1, <1>3 DEF stateNotMatchUndone, stateFinishLiquidation, inState
<1>5. Flow(pid, 0, 0, 0, 0)
  BY SaleFlow
<1>6. so \in Nat /\ jo \in Nat /\ a \in Nat /\ b \in Nat /\ c \in Nat
  BY <1>4, SumsTyped DEF SumsAreAmounts
<1>7. \A n, m \in Nat : n + 0 = n /\ n + m + 0 = n + m
  BY SMT
<1>8. /\ spOutstanding(pid)' = so /\ jpOutstanding(pid)' = jo
      /\ poolDataInfo'[pid].settleAmountLend = sl /\ poolJp(pid)' = jp
      /\ a2 + b2 = a + b /\ SumFunction(borrowRefundsDue(pid))' = c
  BY <1>5, <1>6, <1>7 DEF Flow, FiguresKept, poolJp
<1>9. /\ r2 = IF sl > 0 THEN Entitled(kept, so, sl) ELSE 0
      /\ j2 = IF jp > 0 THEN Entitled(sb - cost, jo, jp) ELSE 0
  <2>1. /\ (IF inState(pid, {"FINISH"})' THEN poolDataInfo'[pid].finishAmountLend
                                         ELSE poolDataInfo'[pid].liquidationAmounLend) = kept
        /\ (IF inState(pid, {"FINISH"})' THEN poolDataInfo'[pid].finishAmountBorrow
                                         ELSE poolDataInfo'[pid].liquidationAmounBorrow) = sb - cost
    BY <1>1, <1>4
  <2> QED
    BY <1>4, <1>8, <2>1 DEF spRedeemable, jpRedeemable, lendPayout, borrowPayout
<1>10. lendOwed(pid) = a + b + 0 /\ borrowOwed(pid) = c + sb
  BY <1>1, <1>4 DEF lendOwed, borrowOwed, spRedeemable, jpRedeemable
<1>11. lendOwed(pid)' = a2 + b2 + r2 /\ borrowOwed(pid)' = c + j2
  BY <1>4, <1>8 DEF lendOwed, borrowOwed
<1>12. so <= sl /\ jo <= jp
  BY DEF DebtBackedAt
<1> HIDE DEF so, jo, sl, sb, jp, a, b, c, a2, b2, r2, j2
<1>13. /\ sb - cost \in Nat /\ 0 <= kept /\ 0 <= sb - cost /\ 0 \in Nat
       /\ (sl > 0 => sl \in Nat \ {0}) /\ (jp > 0 => jp \in Nat \ {0})
  BY <1>1, <1>2, SMT
<1>14. r2 \in Nat /\ r2 <= kept /\ j2 \in Nat /\ j2 <= sb - cost
  BY <1>6, <1>9, <1>12, <1>13, EntitledBounded
<1>15. (a + b) + r2 <= (a + b + 0) + kept /\ c + j2 <= (c + sb) + (-cost)
  BY <1>2, <1>6, <1>13, <1>14, SMT
<1> QED
  BY <1>1, <1>8, <1>10, <1>11, <1>15 DEF PaysOff

-----------------------------------------------------------------------------
(* The balance covers what is owed.                                         *)

\* What all pools owe, as a function on them.
owedIn(t) == [q \in Created |-> owedBy(q, t)]

\* There are finitely many pools, and each owes an amount.
LEMMA OwedInTyped ==
  Books => /\ IsFiniteSet(Created)
           /\ \A t \in Tokens : owedIn(t) \in [Created -> Int] /\ owed(t) = SumFunction(owedIn(t))
<1> SUFFICES ASSUME Books
             PROVE  /\ IsFiniteSet(Created)
                    /\ \A t \in Tokens : /\ owedIn(t) \in [Created -> Int]
                                         /\ owed(t) = SumFunction(owedIn(t))
  OBVIOUS
<1>1. IsFiniteSet(Created)
  <2>1. Len(poolBaseInfo) \in Nat
    BY DEF Books, IInv, TypeOK
  <2>2. IsFiniteSet(1..Len(poolBaseInfo))
    BY <2>1, FS_Interval, SMT
  <2> QED
    BY <2>2 DEF Created
<1>2. ASSUME NEW t \in Tokens
      PROVE  owedIn(t) \in [Created -> Int] /\ owed(t) = SumFunction(owedIn(t))
  <2>1. \A n \in Nat : n \in Int
    BY SMT
  <2>2. \A q \in Created : owedBy(q, t) \in Int
    BY <2>1, OwedTyped DEF OwedAreAmounts
  <2> QED
    BY <2>2 DEF owedIn, owed
<1> QED
  BY <1>1, <1>2

\* The same after a step.
LEMMA OwedInTypedNext ==
  Books' => \A t \in Tokens : owedIn(t)' \in [Created' -> Int] /\ owed(t)' = SumFunction(owedIn(t)')
<1>1. (Books => /\ IsFiniteSet(Created)
                /\ \A t \in Tokens : owedIn(t) \in [Created -> Int] /\ owed(t) = SumFunction(owedIn(t)))'
  BY OwedInTyped, PTL
<1> QED
  BY <1>1

\* What is owed in a token after a step about one pool.
LEMMA OwedMoves ==
  ASSUME Books, Books', NEW pid \in Created, Touches(pid), NEW t \in Tokens,
         \A q \in Created : q # pid => lendOwed(q)' = lendOwed(q) /\ borrowOwed(q)' = borrowOwed(q)
  PROVE  owed(t)' = owed(t) - owedBy(pid, t) + owedBy(pid, t)'
<1> DEFINE f == owedIn(t)
           g == owedIn(t)'
<1>1. Created' = Created
  BY DEF Touches
<1>2. IsFiniteSet(Created) /\ f \in [Created -> Int] /\ g \in [Created -> Int]
  BY <1>1, OwedInTyped, OwedInTypedNext
<1>3. \A q \in Created : q # pid => g[q] = f[q]
  BY <1>1 DEF owedIn, owedBy, Touches, PoolKept
<1>4. f[pid] = owedBy(pid, t) /\ g[pid] = owedBy(pid, t)'
  BY <1>1 DEF owedIn
<1>5. owed(t) = SumFunction(f) /\ owed(t)' = SumFunction(g)
  BY OwedInTyped, OwedInTypedNext
<1> HIDE DEF f, g
<1>6. SumFunction(g) = SumFunction(f) - f[pid] + g[pid]
  BY <1>2, <1>3, SumPoint
<1> QED
  BY <1>4, <1>5, <1>6

\* A new pool owes nothing.
LEMMA OwedGrows ==
  ASSUME Books, Books', NEW terms \in Terms, createPoolInfo(terms), NEW t \in Tokens
  PROVE  owed(t)' = owed(t) /\ balance'[t] = balance[t]
<1>1. /\ \A q \in Created : PoolKept(q)
      /\ UNCHANGED <<books, balance>>
  BY CreateBooks DEF Books
<1>2. PICK n \in Pids \ Created : Created' = Created \cup {n} /\ stateMatch(n)'
  BY CreateBooks DEF Books
<1>3. owedBy(n, t)' = 0
  <2>1. \A v \in Users : userLendInfo'[v][n] = noInfo /\ userBorrowInfo'[v][n] = noInfo
    BY <1>1, <1>2 DEF Books, UncreatedBlank, books
  <2> DEFINE f == stakesLeft(userLendInfo, n)'
             g == stakesLeft(userBorrowInfo, n)'
  <2>2. /\ f \in [Users -> Int] /\ \A v \in Users : f[v] = 0
        /\ g \in [Users -> Int] /\ \A v \in Users : g[v] = 0
    BY <2>1, SMT DEF stakesLeft, noInfo
  <2> HIDE DEF f, g
  <2>3. SumFunction(f) = 0 /\ SumFunction(g) = 0
    BY <2>2, PoolAssumption, SumZero
  <2>4. ~stateNotMatchUndone(n)'
    BY <1>2 DEF stateMatch, stateNotMatchUndone, inState
  <2>5. lendOwed(n)' = 0 /\ borrowOwed(n)' = 0
    BY <2>3, <2>4 DEF lendOwed, borrowOwed, f, g
  <2> QED
    BY <2>5, SMT DEF owedBy
<1> DEFINE f == owedIn(t)
           g == owedIn(t)'
<1>4. /\ IsFiniteSet(Created) /\ f \in [Created -> Int]
      /\ g \in [Created \cup {n} -> Int]
      /\ owed(t) = SumFunction(f) /\ owed(t)' = SumFunction(g)
  BY <1>2, OwedInTyped, OwedInTypedNext
<1>5. \A q \in Created : g[q] = f[q]
  <2>1. \A q \in Created : lendOwed(q)' = lendOwed(q) /\ borrowOwed(q)' = borrowOwed(q)
    BY <1>1, AloneSame DEF books
  <2> QED
    BY <1>1, <1>2, <2>1 DEF owedIn, owedBy, PoolKept
<1>6. g[n] = 0
  BY <1>2, <1>3 DEF owedIn
<1> HIDE DEF f, g
<1>7. n \notin Created
  BY <1>2
<1>8. SumFunction(g) = SumFunction(f) + g[n]
  BY <1>4, <1>5, <1>7, SumAppend
<1>9. SumFunction(f) \in Int
  BY <1>4, SumInt
<1>10. SumFunction(g) = SumFunction(f)
  BY <1>6, <1>8, <1>9, SMT
<1> QED
  BY <1>1, <1>4, <1>10

\* A pool that matches no more than was pledged did so before the step, too.
LEMMA WithinPledgesBefore ==
  ASSUME Books, Books', Next, WithinPledges' PROVE WithinPledges
<1> SUFFICES ASSUME NEW q \in Created
             PROVE  poolDataInfo[q].settleAmountBorrow <= poolBaseInfo[q].borrowSupply
  BY DEF WithinPledges
<1>1. /\ poolBaseInfo[q] \in PoolBaseInfo /\ poolBaseInfo[q].borrowSupply \in Nat
      /\ IInv
  BY PoolFigures DEF Books
<1>2. CASE stateMatch(q)
  <2>1. poolDataInfo[q].settleAmountBorrow = 0
    BY <1>2 DEF Books, BooksAt
  <2> QED
    BY <1>1, <2>1, SMT
<1>3. CASE ~stateMatch(q)
  <2>1. q \in Created' /\ finalStep(q)
    BY <1>1, <1>3, TermsKept, NextFinal
  <2>2. /\ poolBaseInfo'[q] = [poolBaseInfo[q] EXCEPT !.state = poolBaseInfo'[q].state]
        /\ poolDataInfo'[q].settleAmountBorrow = poolDataInfo[q].settleAmountBorrow
    BY <2>1 DEF finalStep
  <2>3. poolBaseInfo'[q].borrowSupply = poolBaseInfo[q].borrowSupply
    BY <1>1, <2>2 DEF PoolBaseInfo
  <2>4. poolDataInfo'[q].settleAmountBorrow <= poolBaseInfo'[q].borrowSupply
    BY <2>1 DEF WithinPledges
  <2> QED
    BY <2>2, <2>3, <2>4
<1> QED
  BY <1>2, <1>3

\* A step that pays off, or exactly pays off, what it takes from the balance.
Pays(pid) == \E dl, db \in Int : PaysOff(pid, dl, db)
PaysAll(pid) == \E dl, db \in Int : PaysExactly(pid, dl, db)

\* The other pools owe what they owed.
OthersOwe(pid) ==
  \A q \in Created : q # pid => lendOwed(q)' = lendOwed(q) /\ borrowOwed(q)' = borrowOwed(q)

\* A pool with one token on both sides owes and pays the two sums together.
LEMMA OwedByMoves ==
  ASSUME Books, Books', NEW pid \in Created, Touches(pid), OthersOwe(pid),
         NEW dl \in Int, NEW db \in Int, NEW t \in Tokens
  PROVE  /\ PaysOff(pid, dl, db) /\ balance[t] >= owed(t) => balance'[t] >= owed(t)'
         /\ PaysExactly(pid, dl, db) /\ balance[t] = owed(t) => balance'[t] = owed(t)'
<1> DEFINE lt == poolBaseInfo[pid].lendToken
           bt == poolBaseInfo[pid].borrowToken
           lo == lendOwed(pid)
           bo == borrowOwed(pid)
           l2 == lendOwed(pid)'
           b2 == borrowOwed(pid)'
           o == owed(t)
           b == balance[t]
<1>1. pid \in Created' /\ poolBaseInfo'[pid].lendToken = lt /\ poolBaseInfo'[pid].borrowToken = bt
  BY DEF Touches, SameTerms
<1>2. lo \in Nat /\ bo \in Nat /\ l2 \in Nat /\ b2 \in Nat
  BY <1>1, OwedTyped, OwedTypedNext DEF OwedAreAmounts
<1>3. b \in Nat /\ o \in Int
  <2>1. b \in Nat
    BY PoolFigures DEF Books
  <2>2. IsFiniteSet(Created) /\ owedIn(t) \in [Created -> Int] /\ o = SumFunction(owedIn(t))
    BY OwedInTyped
  <2> QED
    BY <2>1, <2>2, SumInt
<1>4. owed(t)' = o - owedBy(pid, t) + owedBy(pid, t)'
  BY OwedMoves DEF OthersOwe
<1>5. /\ owedBy(pid, t) = (IF lt = t THEN lo ELSE 0) + (IF bt = t THEN bo ELSE 0)
      /\ owedBy(pid, t)' = (IF lt = t THEN l2 ELSE 0) + (IF bt = t THEN b2 ELSE 0)
  BY <1>1 DEF owedBy
<1>6. /\ PaysOff(pid, dl, db) => BalanceMoves(pid, dl, db) /\ l2 <= lo + dl /\ b2 <= bo + db
      /\ PaysExactly(pid, dl, db) => BalanceMoves(pid, dl, db) /\ l2 = lo + dl /\ b2 = bo + db
  BY DEF PaysOff, PaysExactly
<1>7. BalanceMoves(pid, dl, db) =>
        balance'[t] = b + (IF lt = t THEN dl ELSE 0) + (IF bt = t THEN db ELSE 0)
  BY DEF BalanceMoves
<1> HIDE DEF lt, bt, lo, bo, l2, b2, o, b
<1>8. ASSUME BalanceMoves(pid, dl, db), l2 <= lo + dl, b2 <= bo + db, b >= o
      PROVE  balance'[t] >= owed(t)'
  BY <1>2, <1>3, <1>4, <1>5, <1>7, <1>8, SMT
<1>9. ASSUME BalanceMoves(pid, dl, db), l2 = lo + dl, b2 = bo + db, b = o
      PROVE  balance'[t] = owed(t)'
  BY <1>2, <1>3, <1>4, <1>5, <1>7, <1>9, SMT
<1> QED
  BY <1>6, <1>8, <1>9 DEF o, b

\* Every step of a pool whose coins are backed pays off what it pays.
LEMMA StepPays ==
  ASSUME Books, Books', WithinPledges', NEW pid \in Created, pid \in Created', StepOf(pid),
         poolBaseInfo[pid].spCoin # poolBaseInfo[pid].jpCoin,
         stateNotMatchUndone(pid) => DebtBackedAt(pid)
  PROVE  Pays(pid)
<1>0. 0 \in Int /\ \A n \in Nat : n \in Int /\ -n \in Int
  BY SMT
<1>1. PaysAll(pid) => Pays(pid)
  BY ExactPaysOff DEF Pays, PaysAll
<1>2. CASE Deposit(pid)
  BY <1>1, <1>2, DepositPays DEF PaysAll
<1>3. CASE Payment(pid)
  BY <1>1, <1>3, PaymentPays DEF PaysAll
<1>4. CASE Withdrawal(pid)
  BY <1>4, WithdrawLendPays, WithdrawBorrowPays DEF Withdrawal, Pays
<1>5. CASE settle(pid) /\ ~stateNotMatchUndone(pid)'
  <2>1. PaysExactly(pid, 0, 0)
    BY <1>5, UnmatchedPays
  <2> QED
    BY <1>0, <1>1, <2>1 DEF PaysAll
<1>6. CASE settle(pid) /\ stateNotMatchUndone(pid)'
  <2>1. PaysOff(pid, 0, 0)
    BY <1>6, MatchedPays
  <2> QED
    BY <1>0, <2>1 DEF Pays
<1>7. CASE Liquidation(pid)
  <2>1. stateNotMatchUndone(pid)
    BY <1>7 DEF Liquidation, Sale, stateNotMatchUndone, inState
  <2>2. \E kept \in Nat, cost \in Nat : PaysOff(pid, kept, -cost)
    BY <1>7, <2>1, SalePays DEF Liquidation
  <2> QED
    BY <1>0, <2>2 DEF Pays
<1> QED
  BY <1>2, <1>3, <1>4, <1>5, <1>6, <1>7 DEF StepOf

\* A step about no pool changes neither what is owed nor what is held.
LEMMA IdleOwes ==
  ASSUME Books, Books', UNCHANGED <<poolBaseInfo, poolDataInfo, books, balance>>, NEW t \in Tokens
  PROVE  owed(t)' = owed(t) /\ balance'[t] = balance[t]
<1>1. Created' = Created /\ \A q \in Created : PoolKept(q)
  BY IdleBooks DEF Books
<1>2. \A q \in Created : lendOwed(q)' = lendOwed(q) /\ borrowOwed(q)' = borrowOwed(q)
  BY <1>1, AloneSame DEF books
<1>3. owedIn(t)' = owedIn(t)
  BY <1>1, <1>2 DEF owedIn, owedBy, PoolKept
<1>4. owed(t) = SumFunction(owedIn(t)) /\ owed(t)' = SumFunction(owedIn(t)')
  BY OwedInTyped, OwedInTypedNext
<1> QED
  BY <1>3, <1>4

\* Pools pay out of their own money: the balance goes on covering what is owed.
LEMMA SolventNext ==
  Books /\ DebtBacked /\ (WithinPledges => Solvent) /\ [Next]_vars => (WithinPledges => Solvent)'
<1> SUFFICES ASSUME Books, DebtBacked, WithinPledges => Solvent, [Next]_vars,
                    WithinPledges', OwnCoins', NEW t \in Tokens
             PROVE  balance'[t] >= owed(t)'
  BY DEF Solvent
<1>1. Books'
  BY BooksNext
<1>2. CASE UNCHANGED vars
  <2>1. WithinPledges /\ OwnCoins
    BY <1>2 DEF vars, WithinPledges, OwnCoins, Created
  <2>2. owed(t)' = owed(t) /\ balance'[t] = balance[t]
    BY <1>1, <1>2, IdleOwes DEF vars
  <2> QED
    BY <2>1, <2>2 DEF Solvent
<1>3. CASE Next
  <2>1. WithinPledges /\ OwnCoins
    BY <1>1, <1>3, WithinPledgesBefore, OwnCoinsBefore
  <2>2. balance[t] >= owed(t)
    BY <2>1 DEF Solvent
  <2>3. CASE UNCHANGED <<poolBaseInfo, poolDataInfo, books, balance>>
    BY <1>1, <2>2, <2>3, IdleOwes
  <2>4. CASE \E terms \in Terms : createPoolInfo(terms)
    BY <1>1, <2>2, <2>4, OwedGrows
  <2>5. CASE \E pid \in Created : StepOf(pid)
    <3>1. PICK pid \in Created : StepOf(pid)
      BY <2>5
    <3>2. Touches(pid) /\ pid \in Created'
      BY <1>1, <3>1, StepBooks DEF Touches, Books
    <3>3. OthersOwe(pid)
      BY <2>1, <3>2, CoinsApart, AloneSame DEF Touches, OthersOwe
    <3>4. /\ poolBaseInfo[pid].spCoin # poolBaseInfo[pid].jpCoin
          /\ stateNotMatchUndone(pid) => DebtBackedAt(pid)
      BY <2>1 DEF OwnCoins, DebtBacked, DebtBackedAt
    <3>5. Pays(pid)
      BY <1>1, <3>1, <3>2, <3>4, StepPays
    <3> QED
      BY <1>1, <2>2, <3>2, <3>3, <3>5, OwedByMoves DEF Pays
  <2> QED
    BY <1>3, <2>3, <2>4, <2>5, NextCases
<1> QED
  BY <1>2, <1>3

\* No pool is there yet, and nothing is owed.
LEMMA OwesNothingYet == Init => \A t \in Tokens : balance[t] = 0 /\ owed(t) = 0
<1> SUFFICES ASSUME Init, NEW t \in Tokens PROVE balance[t] = 0 /\ owed(t) = 0
  OBVIOUS
<1>1. Created = {} /\ Books
  BY BooksInit, SMT DEF Init, Created
<1>2. IsFiniteSet(Created) /\ owedIn(t) \in [Created -> Int] /\ owed(t) = SumFunction(owedIn(t))
  BY <1>1, OwedInTyped
<1>3. SumFunction(owedIn(t)) = 0
  BY <1>1, <1>2, SumZero
<1> QED
  BY <1>2, <1>3 DEF Init

\* While no pool matches more than was pledged, and pools have their own coins,
\* what the contract holds of a token covers what all pools owe in it.
THEOREM StaysSolvent == Spec => [](WithinPledges => Solvent)
<1>1. Init => (WithinPledges => Solvent)
  BY OwesNothingYet, SMT DEF Solvent
<1> QED
  BY <1>1, SolventNext, BooksInvariant, DebtIsBacked, PTL DEF Spec

\* At prices whose ratios are exact, solvency asks only for pools' own coins.
THEOREM ExactPricesStaySolvent == ExactRatios => (Spec => []Solvent)
<1> SUFFICES ASSUME ExactRatios PROVE Spec => []Solvent
  OBVIOUS
<1>1. Spec => []WithinPledges
  BY MatchedWithinPledges
<1> QED
  BY <1>1, StaysSolvent, PTL

-----------------------------------------------------------------------------
(* Where nothing can be lent.                                               *)

\* A pool that has lent nothing owes the stakes not taken back, whatever its
\* coins do.
LEMMA UnlentSame ==
  ASSUME NEW q, PoolKept(q), ~stateNotMatchUndone(q)
  PROVE  lendOwed(q)' = lendOwed(q) /\ borrowOwed(q)' = borrowOwed(q)
<1>1. ~stateNotMatchUndone(q)'
  BY DEF PoolKept, stateNotMatchUndone, inState
<1>2. /\ stakesLeft(userLendInfo, q)' = stakesLeft(userLendInfo, q)
      /\ stakesLeft(userBorrowInfo, q)' = stakesLeft(userBorrowInfo, q)
  BY DEF PoolKept, stakesLeft
<1> QED
  BY <1>1, <1>2 DEF lendOwed, borrowOwed

\* A step of a pool that lends nothing, before or after, moves the balance by
\* exactly what it moves the pool's debts.
LEMMA UnlentPays ==
  ASSUME Books, Books', NEW pid \in Created, pid \in Created', StepOf(pid),
         ~stateNotMatchUndone(pid), ~stateNotMatchUndone(pid)'
  PROVE  PaysAll(pid)
<1>1. CASE Deposit(pid)
  BY <1>1, DepositPays DEF PaysAll
<1>2. CASE Payment(pid)
  <2>1. \A u \in Users : /\ ~refundLend(u, pid) /\ ~claimLend(u, pid)
                         /\ ~refundBorrow(u, pid) /\ ~claimBorrow(u, pid)
    BY DEF refundLend, claimLend, refundBorrow, claimBorrow
  <2>2. \E u \in Users : emergencyLendWithdrawal(u, pid) \/ emergencyBorrowWithdrawal(u, pid)
    BY <1>2, <2>1 DEF Payment
  <2> QED
    BY <2>2, EmergencyPays DEF PaysAll
<1>3. CASE settle(pid)
  <2>1. PaysExactly(pid, 0, 0)
    BY <1>3, UnmatchedPays
  <2> QED
    BY <2>1, SMT DEF PaysAll
<1>4. ~Withdrawal(pid) /\ ~Liquidation(pid)
  BY DEF Withdrawal, withdrawLend, withdrawBorrow, stateFinishLiquidation, stateNotMatchUndone,
         Liquidation, Sale, inState
<1> QED
  BY <1>1, <1>2, <1>3, <1>4 DEF StepOf

\* Deposits come in and stakes go back, and nothing else moves the balance.
LEMMA HoldsNext ==
  ASSUME Books, NothingPledged, HoldsExactlyStakes, [Next]_vars PROVE HoldsExactlyStakes'
<1> SUFFICES ASSUME ~BorrowDeposits, NEW t \in Tokens PROVE balance'[t] = owed(t)'
  BY DEF HoldsExactlyStakes
<1>1. Books' /\ NothingPledged'
  BY BooksNext, NothingPledgedKept DEF Books
<1>2. balance[t] = owed(t)
  BY DEF HoldsExactlyStakes
<1>3. /\ \A q \in Created : ~stateNotMatchUndone(q)
      /\ \A q \in Created' : ~stateNotMatchUndone(q)'
  BY <1>1 DEF NothingPledged, stateNotMatchUndone, inState
<1>4. CASE UNCHANGED <<poolBaseInfo, poolDataInfo, books, balance>>
  BY <1>1, <1>2, <1>4, IdleOwes
<1>5. CASE \E terms \in Terms : createPoolInfo(terms)
  BY <1>1, <1>2, <1>5, OwedGrows
<1>6. CASE \E pid \in Created : StepOf(pid)
  <2>1. PICK pid \in Created : StepOf(pid)
    BY <1>6
  <2>2. Touches(pid) /\ pid \in Created'
    BY <1>1, <2>1, StepBooks DEF Touches, Books
  <2>3. OthersOwe(pid)
    BY <1>3, <2>2, UnlentSame DEF Touches, OthersOwe
  <2>4. PaysAll(pid)
    BY <1>1, <1>3, <2>1, <2>2, UnlentPays
  <2> QED
    BY <1>1, <1>2, <2>2, <2>3, <2>4, OwedByMoves DEF PaysAll
<1>7. UNCHANGED vars => UNCHANGED <<poolBaseInfo, poolDataInfo, books, balance>>
  BY DEF vars
<1> QED
  BY <1>4, <1>5, <1>6, <1>7, NextCases

\* As the source stands the contract holds, to the unit, the deposits of every
\* pool less the stakes already taken back.
THEOREM HoldsExactly == Spec => []HoldsExactlyStakes
<1>1. Init => NothingPledged /\ HoldsExactlyStakes
  BY OwesNothingYet DEF Init, NothingPledged, Created, HoldsExactlyStakes
<1>2. Books /\ NothingPledged /\ HoldsExactlyStakes /\ [Next]_vars
        => NothingPledged' /\ HoldsExactlyStakes'
  BY NothingPledgedKept, HoldsNext DEF Books
<1> QED
  BY <1>1, <1>2, BooksInvariant, PTL DEF Spec
=============================================================================
