-------------------------- MODULE BscPledgeOracle ---------------------------
(***************************************************************************)
(* BscPledgeOracle.sol: the prices PledgePool settles with, either set by   *)
(* hand or read from an aggregator and scaled by the token's decimals.      *)
(*                                                                          *)
(* Arithmetic is that of Solidity 0.6: machine words that wrap silently,    *)
(* and a division by zero that reverts.  The callers of all functions but   *)
(* the getters have passed validCall, see MultiSignature.                   *)
(***************************************************************************)
EXTENDS Integers, Sequences

CONSTANTS
  Underlyings,    \* keys of the maps: token addresses as numbers, and small indices
  Aggregators,    \* price feeds
  none,           \* the zero address: no feed
  Prices,         \* prices set by hand
  Answers,        \* what a feed may answer, negative numbers included
  TokenDecimals,  \* decimals a token may be registered with
  Scales,         \* values setDecimals may be given
  Precision,      \* 18 in the code
  Width           \* 256 in the code

\* b ** e, the exponentiation of unbounded integers.
power(b, e) == LET p[n \in Nat] == IF n = 0 THEN 1 ELSE b * p[n - 1] IN p[e]

Words == 0..(power(2, Width) - 1)

ASSUME OracleAssumption ==
  /\ Underlyings \subseteq Nat /\ Precision \in Nat /\ Width \in Nat
  /\ none \notin Aggregators
  /\ TokenDecimals \subseteq Nat /\ Answers \subseteq Int
  /\ Prices \subseteq Words /\ Scales \subseteq Words

VARIABLES
  assetsMap, decimalsMap, priceMap, decimals,
  answer    \* what each feed answers

maps == <<assetsMap, decimalsMap, priceMap>>
oracleVars == <<maps, decimals, answer>>

OracleInit ==
  /\ assetsMap = [k \in Underlyings |-> none]
  /\ decimalsMap = [k \in Underlyings |-> 0]
  /\ priceMap = [k \in Underlyings |-> 0]
  /\ decimals = 1
  /\ answer \in [Aggregators -> Answers]

-----------------------------------------------------------------------------
(* Words of Width bits.                                                     *)

uint(n) == n % power(2, Width)

\* 10 ** e: the factor 2^e makes it 0 in a word once e reaches its width.
powerOfTen(e) == IF e >= Width THEN 0 ELSE uint(power(10, e))

-----------------------------------------------------------------------------

hasFeed(k) == assetsMap[k] # none

\* A faulty scale raises to the decimals themselves.
scaleByDecimals(d) == powerOfTen(d)

\* 10 ** (18 - tokenDecimals), the difference of two unsigned words.
scale(d) == powerOfTen(uint(Precision - d))

\* A feed's answer over the oracle's own precision.
perUnit(k) == uint(answer[assetsMap[k]]) \div decimals

\* getUnderlyingPrice does not divide by zero.
quotes(k) ==
  hasFeed(k) => /\ decimals # 0
                /\ decimalsMap[k] > Precision => scale(decimalsMap[k]) # 0

getUnderlyingPrice(k) ==
  IF ~hasFeed(k) THEN priceMap[k]
  ELSE IF decimalsMap[k] < Precision THEN uint(perUnit(k) * scale(decimalsMap[k]))
  ELSE IF decimalsMap[k] > Precision THEN perUnit(k) \div scale(decimalsMap[k])
  ELSE perUnit(k)

setDecimals(newDecimals) ==
  /\ decimals' = newDecimals
  /\ UNCHANGED <<maps, answer>>

\* The loop writes under the position of an asset in the call, not its key.
setPrices(assets, prices) ==
  /\ Len(assets) = Len(prices)
  /\ priceMap' = [k \in Underlyings |-> IF k < Len(assets) THEN prices[k + 1] ELSE priceMap[k]]
  /\ UNCHANGED <<assetsMap, decimalsMap, decimals, answer>>

setPrice(asset, price) ==
  /\ priceMap' = [priceMap EXCEPT ![asset] = price]
  /\ UNCHANGED <<assetsMap, decimalsMap, decimals, answer>>

setUnderlyingPrice(underlying, price) == underlying > 0 /\ setPrice(underlying, price)

setAssetsAggregator(asset, aggergator, d) ==
  /\ assetsMap' = [assetsMap EXCEPT ![asset] = aggergator]
  /\ decimalsMap' = [decimalsMap EXCEPT ![asset] = d]
  /\ UNCHANGED <<priceMap, decimals, answer>>

setUnderlyingAggregator(underlying, aggergator, d) ==
  underlying > 0 /\ setAssetsAggregator(underlying, aggergator, d)

\* External: a feed publishes a new round.
newRound(a, price) ==
  /\ answer' = [answer EXCEPT ![a] = price]
  /\ UNCHANGED <<maps, decimals>>

OracleNext ==
  \/ \E n \in Scales : setDecimals(n)
  \/ \E n \in 1..2 : \E assets \in [1..n -> Underlyings], prices \in [1..n -> Prices] :
       setPrices(assets, prices)
  \/ \E k \in Underlyings, p \in Prices : setPrice(k, p) \/ setUnderlyingPrice(k, p)
  \/ \E k \in Underlyings, a \in Aggregators \cup {none}, d \in TokenDecimals :
       setAssetsAggregator(k, a, d) \/ setUnderlyingAggregator(k, a, d)
  \/ \E a \in Aggregators, p \in Answers : newRound(a, p)

OracleSpec == OracleInit /\ [][OracleNext]_oracleVars

-----------------------------------------------------------------------------
(* Properties.                                                              *)

\* Prices of tokens with different decimals are comparable, which settle()
\* takes for granted when it multiplies base units by them: 10^d base units are
\* worth what the feed answers for one token, whatever d is, unless it wraps.
UnitsCancel ==
  \A k \in Underlyings :
    LET d == decimalsMap[k]
    IN  hasFeed(k) /\ quotes(k) /\ d <= Precision
          /\ perUnit(k) * power(10, Precision) \in Words
        => getUnderlyingPrice(k) * power(10, d) = perUnit(k) * power(10, Precision)
=============================================================================
