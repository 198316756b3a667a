--------------------------- MODULE MultiSignature ---------------------------
(***************************************************************************)
(* multiSignature.sol and the validCall lock that multiSignatureClient.sol  *)
(* puts on the business contracts: owners sign applications that a caller   *)
(* has filed against a contract, and every call of that caller passes the   *)
(* lock while an application for the pair holds enough signatures.          *)
(*                                                                          *)
(* A hash of two fixed-width addresses is the pair itself.  What a client   *)
(* does behind its lock is not told apart: it is one more approved call.    *)
(***************************************************************************)
EXTENDS Integers, Sequences, FiniteSets

CONSTANTS
  Accounts,         \* externally owned accounts
  Callers,          \* the accounts that file applications and make calls
  Clients,          \* the contracts locked by validCall
  self,             \* the multi-signature contract, a client of its own
  InitialOwners,    \* the constructor's owners
  Threshold,        \* the constructor's limitedSignNum
  MaxApplications,  \* bound on the applications filed for one hash
  MaxCalls          \* bound on the approved calls counted for one hash

ASSUME CommitteeAssumption ==
  /\ Callers \subseteq Accounts
  /\ self \notin Clients
  /\ InitialOwners \in Seq(Accounts)
  /\ Threshold \in Nat /\ Threshold <= Len(InitialOwners)
  /\ MaxApplications \in Nat /\ MaxCalls \in Nat

VARIABLES
  signatureOwners,
  signatureMap,     \* the applications filed for each hash
  everOwner,        \* history: the accounts that have held a seat
  calls             \* history: the calls that have passed a client's lock

vars == <<signatureOwners, signatureMap, everOwner, calls>>

getApplicationHash(from, to) == <<from, to>>
Hashes == Callers \X (Clients \cup {self})
signatureInfo == [applicant : Callers, signatures : Seq(Accounts)]

-----------------------------------------------------------------------------
(* The whitelist library: an array of addresses used as a set.              *)

isEligibleAddress(whiteList, temp) == \E i \in DOMAIN whiteList : whiteList[i] = temp

\* A faulty library appends without looking.
addAnyAddress(whiteList, temp) == Append(whiteList, temp)

addWhiteListAddress(whiteList, temp) ==
  IF isEligibleAddress(whiteList, temp) THEN whiteList ELSE Append(whiteList, temp)

\* Where an address first stands in an array that holds it.
indexOf(whiteList, temp) ==
  CHOOSE i \in DOMAIN whiteList :
    whiteList[i] = temp /\ \A j \in 1..(i - 1) : whiteList[j] # temp

\* A faulty library drops the last address without moving it into the gap.
removeLastAddress(whiteList, temp) ==
  IF isEligibleAddress(whiteList, temp)
  THEN SubSeq(whiteList, 1, Len(whiteList) - 1)
  ELSE whiteList

\* A faulty library moves the last index into the gap instead of the last address.
removeByIndex(whiteList, temp) ==
  IF isEligibleAddress(whiteList, temp)
  THEN [i \in 1..(Len(whiteList) - 1) |->
          IF i = indexOf(whiteList, temp) THEN Len(whiteList) ELSE whiteList[i]]
  ELSE whiteList

\* The last address moves into the gap and the array shrinks by one.
removeWhiteListAddress(whiteList, temp) ==
  IF isEligibleAddress(whiteList, temp)
  THEN [i \in 1..(Len(whiteList) - 1) |->
          IF i = indexOf(whiteList, temp) THEN whiteList[Len(whiteList)] ELSE whiteList[i]]
  ELSE whiteList

-----------------------------------------------------------------------------

Init ==
  /\ signatureOwners = InitialOwners
  /\ signatureMap = [h \in Hashes |-> <<>>]
  /\ everOwner = {InitialOwners[i] : i \in DOMAIN InitialOwners}
  /\ calls = [h \in Hashes |-> 0]

onlyOwner(sender) == isEligibleAddress(signatureOwners, sender)

\* One more than the first index from lastIndex on that has enough signatures,
\* or 0: TLA+ counts applications from 1, so it is that application's position.
getValidSignature(msghash, lastIndex) ==
  LET info == signatureMap[msghash]
      valid == {i \in DOMAIN info : i > lastIndex /\ Len(info[i].signatures) >= Threshold}
  IN  IF valid = {} THEN 0 ELSE CHOOSE i \in valid : \A j \in valid : i <= j

\* The lock: the caller and the called contract must have a valid signature.
validCall(from, to) == getValidSignature(getApplicationHash(from, to), 0) > 0

createApplication(from, to) ==
  LET msghash == getApplicationHash(from, to)
  IN  /\ Len(signatureMap[msghash]) < MaxApplications
      /\ signatureMap' = [signatureMap EXCEPT ![msghash] =
                            Append(@, [applicant |-> from, signatures |-> <<>>])]
      /\ UNCHANGED <<signatureOwners, everOwner, calls>>

\* validIndex of the default index; the functions below only ever touch it.
hasApplication(msghash) == Len(signatureMap[msghash]) > 0

\* A faulty contract signs the newest application.
signNewest(o, msghash) ==
  /\ onlyOwner(o) /\ hasApplication(msghash)
  /\ signatureMap' = [signatureMap EXCEPT ![msghash][Len(signatureMap[msghash])].signatures =
                        addWhiteListAddress(@, o)]
  /\ UNCHANGED <<signatureOwners, everOwner, calls>>

\* A faulty contract lets anyone sign.
signByAnyone(o, msghash) ==
  /\ hasApplication(msghash)
  /\ signatureMap' = [signatureMap EXCEPT ![msghash][1].signatures = addWhiteListAddress(@, o)]
  /\ UNCHANGED <<signatureOwners, everOwner, calls>>

signApplication(o, msghash) ==
  /\ onlyOwner(o) /\ hasApplication(msghash)
  /\ signatureMap' = [signatureMap EXCEPT ![msghash][1].signatures = addWhiteListAddress(@, o)]
  /\ UNCHANGED <<signatureOwners, everOwner, calls>>

revokeSignApplication(o, msghash) ==
  /\ onlyOwner(o) /\ hasApplication(msghash)
  /\ signatureMap' = [signatureMap EXCEPT ![msghash][1].signatures = removeWhiteListAddress(@, o)]
  /\ UNCHANGED <<signatureOwners, everOwner, calls>>

transferOwner(o, index, newOwner) ==
  /\ onlyOwner(o) /\ o \in Callers /\ validCall(o, self)
  /\ index \in DOMAIN signatureOwners
  /\ signatureOwners' = [signatureOwners EXCEPT ![index] = newOwner]
  /\ everOwner' = everOwner \cup {newOwner}
  /\ UNCHANGED <<signatureMap, calls>>

\* Any function of a client under validCall: the lock reads, and saves nothing.
checkMultiSignature(from, to) ==
  /\ validCall(from, to)
  /\ calls[getApplicationHash(from, to)] < MaxCalls
  /\ calls' = [calls EXCEPT ![getApplicationHash(from, to)] = @ + 1]
  /\ UNCHANGED <<signatureOwners, signatureMap, everOwner>>

Next ==
  \/ \E from \in Callers, to \in Clients \cup {self} : createApplication(from, to)
  \/ \E from \in Callers, to \in Clients : checkMultiSignature(from, to)
  \/ \E o \in Accounts, msghash \in Hashes :
       signApplication(o, msghash) \/ revokeSignApplication(o, msghash)
  \/ \E o, newOwner \in Accounts, index \in DOMAIN signatureOwners :
       transferOwner(o, index, newOwner)

Spec == Init /\ [][Next]_vars

-----------------------------------------------------------------------------
(* Properties.                                                              *)

\* Type correctness of the contract's storage and of the two histories.
TypeOK ==
  /\ signatureOwners \in Seq(Accounts)
  /\ Len(signatureOwners) = Len(InitialOwners)
  /\ signatureMap \in [Hashes -> Seq(signatureInfo)]
  /\ everOwner \subseteq Accounts
  /\ calls \in [Hashes -> Nat]

\* getValidSignature counts array entries, not voters: it can stand for a
\* number of voters only while no account holds two entries, over any order of
\* signatures, revocations and the swaps they make.
OneVoteEach ==
  \A h \in Hashes : \A n \in DOMAIN signatureMap[h] :
    LET s == signatureMap[h][n].signatures
    IN  \A i, j \in DOMAIN s : s[i] = s[j] => i = j

\* Every signature that stands was given by an account that held a seat.
SignersHeldSeats ==
  \A h \in Hashes : \A n \in DOMAIN signatureMap[h] :
    LET s == signatureMap[h][n].signatures
    IN  \A i \in DOMAIN s : s[i] \in everOwner

\* An approval is always that of the first application: one filed later
\* never collects a signature and cannot replace or renew the first.
OnlyFirstIsSigned ==
  \A h \in Hashes : \A n \in DOMAIN signatureMap[h] :
    n > 1 => signatureMap[h][n].signatures = <<>>

signersOf(h) ==
  IF signatureMap[h] = <<>> THEN {}
  ELSE LET s == signatureMap[h][1].signatures IN {s[i] : i \in DOMAIN s}

\* The arrays, their swaps and the search for a valid index amount to a
\* committee that votes with sets and counts voters.
C == INSTANCE Committee WITH
       OwnerHash <- [o \in Accounts |-> getApplicationHash(o, self)],
       InitialSeats <- InitialOwners,
       Quorums <- {Q \in SUBSET Accounts : Cardinality(Q) >= Threshold},
       seats <- signatureOwners,
       applied <- {h \in Hashes : signatureMap[h] # <<>>},
       votes <- [h \in Hashes |-> signersOf(h)]

\* The contract implements the committee: every change of a seat and every
\* approved call is backed by a threshold of different accounts' votes, and
\* an owner's step adds or takes back that owner's vote and no other.
ImplementsCommittee == C!Spec
=============================================================================
