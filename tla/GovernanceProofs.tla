------------------------- MODULE GovernanceProofs --------------------------
(***************************************************************************)
(* The two contracts that govern the pool: that the multi-signature         *)
(* contract implements the committee, for every set of accounts, owners,    *)
(* clients and every threshold, and that the oracle's prices of different   *)
(* tokens are comparable, for every width of words.                         *)
(*                                                                          *)
(* The arrays of signatures hold no duplicates (OneVoteEach), so their      *)
(* length is the number of their signers (LengthCountsSigners), and a       *)
(* swap-with-last removal takes one signer out of them (RemovedSigners).    *)
(* Only the first application is ever signed, so an approval, wherever      *)
(* getValidSignature finds it, is one of the first.                         *)
(***************************************************************************)
EXTENDS MultiSignature, BscPledgeOracle,
        SequenceTheorems, FiniteSetTheorems, WellFoundedInduction, TLAPS

-----------------------------------------------------------------------------
(* The committee.                                                           *)

\* The addresses in an array, and an array without duplicates.
members(s) == {s[i] : i \in DOMAIN s}
distinct(s) == \A i, j \in DOMAIN s : s[i] = s[j] => i = j

\* The length of an array without duplicates counts its members.
LEMMA LengthCountsSigners ==
  ASSUME NEW s \in Seq(Accounts), distinct(s)
  PROVE  Cardinality(members(s)) = Len(s)
<1>1. s \in Bijection(1..Len(s), members(s))
  <2>1. s \in [1..Len(s) -> members(s)] /\ DOMAIN s = 1..Len(s)
    BY DEF members
  <2>2. \A a, b \in 1..Len(s) : s[a] = s[b] => a = b
    BY <2>1 DEF distinct
  <2>3. \A x \in members(s) : \E a \in 1..Len(s) : s[a] = x
    BY <2>1 DEF members
  <2> QED
    BY <2>1, <2>2, <2>3 DEF Bijection, Injection, Surjection, IsInjective
<1>2. ExistsBijection(1..Len(s), members(s))
  BY <1>1 DEF ExistsBijection
<1> QED
  BY <1>2, FS_CountingElements

\* Adding an address keeps an array free of duplicates and adds one member.
LEMMA AddedSigners ==
  ASSUME NEW s \in Seq(Accounts), NEW a \in Accounts, distinct(s)
  PROVE  /\ addWhiteListAddress(s, a) \in Seq(Accounts)
         /\ distinct(addWhiteListAddress(s, a))
         /\ members(addWhiteListAddress(s, a)) = members(s) \cup {a}
<1>1. CASE isEligibleAddress(s, a)
  BY <1>1 DEF addWhiteListAddress, isEligibleAddress, members
<1>2. CASE ~isEligibleAddress(s, a)
  <2> DEFINE t == Append(s, a)
  <2>1. addWhiteListAddress(s, a) = t
    BY <1>2 DEF addWhiteListAddress
  <2>2. /\ t \in Seq(Accounts) /\ DOMAIN t = 1..(Len(s) + 1) /\ DOMAIN s = 1..Len(s)
        /\ \A i \in 1..Len(s) : t[i] = s[i]
        /\ t[Len(s) + 1] = a /\ Len(s) \in Nat
    BY AppendProperties
  <2>3. \A i \in 1..Len(s) : s[i] # a
    BY <1>2, <2>2 DEF isEligibleAddress
  <2> HIDE DEF t
  <2>4. distinct(t)
    BY <2>2, <2>3 DEF distinct
  <2>5. members(t) = members(s) \cup {a}
    BY <2>2 DEF members
  <2> QED
    BY <2>1, <2>2, <2>4, <2>5
<1> QED
  BY <1>1, <1>2

\* An address in an array without duplicates stands at one index.
LEMMA IndexFound ==
  ASSUME NEW s \in Seq(Accounts), NEW a, distinct(s), isEligibleAddress(s, a)
  PROVE  indexOf(s, a) \in DOMAIN s /\ s[indexOf(s, a)] = a
<1>1. PICK i \in DOMAIN s : s[i] = a
  BY DEF isEligibleAddress
<1>2. \A j \in 1..(i - 1) : s[j] # a
  BY <1>1 DEF distinct
<1> QED
  BY <1>1, <1>2 DEF indexOf

\* Removing an address keeps an array free of duplicates and takes out one member.
LEMMA RemovedSigners ==
  ASSUME NEW s \in Seq(Accounts), NEW a \in Accounts, distinct(s)
  PROVE  /\ removeWhiteListAddress(s, a) \in Seq(Accounts)
         /\ distinct(removeWhiteListAddress(s, a))
         /\ members(removeWhiteListAddress(s, a)) = members(s) \ {a}
<1>1. CASE ~isEligibleAddress(s, a)
  BY <1>1 DEF removeWhiteListAddress, isEligibleAddress, members
<1>2. CASE isEligibleAddress(s, a)
  <2> DEFINE k == indexOf(s, a)
             n == Len(s)
             t == [i \in 1..(n - 1) |-> IF i = k THEN s[n] ELSE s[i]]
  <2>1. removeWhiteListAddress(s, a) = t
    BY <1>2 DEF removeWhiteListAddress
  <2>2. k \in 1..n /\ s[k] = a /\ n \in Nat /\ DOMAIN s = 1..n
    BY <1>2, IndexFound
  <2>3. DOMAIN t = 1..(n - 1) /\ \A i \in 1..(n - 1) : t[i] = IF i = k THEN s[n] ELSE s[i]
    OBVIOUS
  <2>4. \A i \in 1..n : s[i] \in Accounts
    BY <2>2
  <2>5. t \in Seq(Accounts)
    <3>1. n - 1 \in Nat
      BY <2>2
    <3>2. \A i \in 1..(n - 1) : (IF i = k THEN s[n] ELSE s[i]) \in Accounts
      BY <2>2, <2>4
    <3> QED
      BY <3>1, <3>2, IsASeq
  <2>6. \A i, j \in 1..n : s[i] = s[j] => i = j
    BY <2>2 DEF distinct
  <2> HIDE DEF t, k, n
  <2>7. distinct(t)
    BY <2>2, <2>3, <2>6 DEF distinct
  <2>8. members(t) \subseteq members(s) \ {a}
    BY <2>2, <2>3, <2>6 DEF members
  <2>9. ASSUME NEW i \in 1..n, s[i] # a
        PROVE  \E j \in 1..(n - 1) : t[j] = s[i]
    <3>1. CASE i = n
      BY <3>1, <2>2, <2>3, <2>9
    <3>2. CASE i # n
      BY <3>2, <2>2, <2>3, <2>9
    <3> QED
      BY <3>1, <3>2
  <2>10. members(s) \ {a} \subseteq members(t)
    BY <2>2, <2>3, <2>9 DEF members
  <2> QED
    BY <2>1, <2>5, <2>7, <2>8, <2>10
<1> QED
  BY <1>1, <1>2

-----------------------------------------------------------------------------
(* The inductive invariant.                                                 *)

\* A set of signatures as the contract keeps it.
soundSignatures(s) ==
  /\ s \in Seq(Accounts)
  /\ distinct(s)
  /\ members(s) \subseteq everOwner

\* The applications of one hash: the first may be signed, the others are not.
soundApplications(info) ==
  /\ info \in Seq(signatureInfo)
  /\ \A n \in 1..Len(info) : soundSignatures(info[n].signatures)
  /\ \A n \in 2..Len(info) : info[n].signatures = <<>>

IInv ==
  /\ signatureOwners \in Seq(Accounts) /\ Len(signatureOwners) = Len(InitialOwners)
  /\ everOwner \subseteq Accounts
  /\ members(signatureOwners) \subseteq everOwner
  /\ calls \in [Hashes -> Nat]
  /\ signatureMap \in [Hashes -> Seq(signatureInfo)]
  /\ \A h \in Hashes : soundApplications(signatureMap[h])

\* Giving the first application a sound array of signatures keeps the
\* applications sound and the others as they were.
LEMMA FirstSigned ==
  ASSUME NEW info, soundApplications(info), Len(info) > 0,
         NEW t, soundSignatures(t)
  PROVE  LET signed == [info EXCEPT ![1].signatures = t]
         IN  /\ soundApplications(signed)
             /\ Len(signed) = Len(info)
             /\ signed[1].signatures = t
<1> DEFINE signed == [info EXCEPT ![1].signatures = t]
<1>1. /\ info \in Seq(signatureInfo) /\ Len(info) \in Nat /\ DOMAIN info = 1..Len(info)
      /\ \A n \in 1..Len(info) : info[n] \in signatureInfo
  BY DEF soundApplications
<1>2. info[1] \in signatureInfo /\ 1 \in 1..Len(info)
  BY <1>1
<1>3. /\ [info[1] EXCEPT !.signatures = t] \in signatureInfo
      /\ [info[1] EXCEPT !.signatures = t].signatures = t
  BY <1>2 DEF signatureInfo, soundSignatures
<1>4. signed = [info EXCEPT ![1] = [info[1] EXCEPT !.signatures = t]]
  BY <1>2
<1> DEFINE e == [info[1] EXCEPT !.signatures = t]
<1> HIDE DEF signed, e
<1>5. /\ signed \in Seq(signatureInfo) /\ Len(signed) = Len(info)
      /\ signed[1] = e /\ \A n \in 2..Len(info) : signed[n] = info[n]
  BY <1>1, <1>2, <1>3, <1>4, ExceptSeq DEF e
<1>6. e.signatures = t
  BY <1>3 DEF e
<1>7. \A n \in 1..Len(signed) : soundSignatures(signed[n].signatures)
  BY <1>5, <1>6, <1>1 DEF soundApplications
<1>8. \A n \in 2..Len(signed) : signed[n].signatures = <<>>
  BY <1>5 DEF soundApplications
<1> QED
  BY <1>5, <1>6, <1>7, <1>8 DEF soundApplications, signed

-----------------------------------------------------------------------------
(* The invariant holds initially and every step keeps it.                   *)

\* No application yet, and every owner has a seat.
LEMMA InitOK == Init => IInv
<1> SUFFICES ASSUME Init PROVE IInv
  OBVIOUS
<1>1. /\ signatureOwners \in Seq(Accounts) /\ Len(signatureOwners) = Len(InitialOwners)
      /\ everOwner \subseteq Accounts
      /\ members(signatureOwners) \subseteq everOwner
  BY CommitteeAssumption DEF Init, members
<1>2. calls \in [Hashes -> Nat]
  BY DEF Init
<1>3. <<>> \in Seq(signatureInfo) /\ Len(<<>>) = 0
  OBVIOUS
<1>4. soundApplications(<<>>)
  BY <1>3 DEF soundApplications
<1>5. signatureMap \in [Hashes -> Seq(signatureInfo)]
  BY <1>3 DEF Init
<1>6. \A h \in Hashes : signatureMap[h] = <<>>
  BY DEF Init
<1>7. \A h \in Hashes : soundApplications(signatureMap[h])
  BY <1>4, <1>6
<1> QED
  BY <1>1, <1>2, <1>5, <1>7 DEF IInv

\* A step that leaves the owners alone and replaces one hash's applications by
\* sound ones keeps the invariant.
LEMMA MapStep ==
  ASSUME IInv, UNCHANGED <<signatureOwners, everOwner, calls>>,
         NEW h \in Hashes, NEW info, soundApplications(info),
         signatureMap' = [signatureMap EXCEPT ![h] = info]
  PROVE  IInv'
<1>1. info \in Seq(signatureInfo)
  BY DEF soundApplications
<1>2. signatureMap' \in [Hashes -> Seq(signatureInfo)]
  BY <1>1 DEF IInv
<1>3. \A g \in Hashes : signatureMap'[g] = IF g = h THEN info ELSE signatureMap[g]
  BY DEF IInv
<1>4. ASSUME NEW g \in Hashes
      PROVE  soundApplications(signatureMap[g])'
  <2>1. soundApplications(signatureMap'[g])
    BY <1>3 DEF IInv
  <2> QED
    BY <2>1 DEF soundApplications, soundSignatures
<1>5. members(signatureOwners)' \subseteq everOwner'
  BY DEF IInv, members
<1> QED
  BY <1>2, <1>4, <1>5 DEF IInv

\* Filing an application adds one without signatures.
LEMMA CreateOK ==
  ASSUME IInv, NEW from \in Callers, NEW to \in Clients \cup {self}, createApplication(from, to)
  PROVE  IInv'
<1> DEFINE h == getApplicationHash(from, to)
           e == [applicant |-> from, signatures |-> <<>>]
           info == Append(signatureMap[h], e)
<1>1. h \in Hashes
  BY DEF Hashes, getApplicationHash
<1>2. soundApplications(signatureMap[h])
  BY <1>1 DEF IInv
<1>3. e \in signatureInfo /\ e.signatures = <<>>
  BY DEF signatureInfo
<1>4. signatureMap' = [signatureMap EXCEPT ![h] = info]
  BY DEF createApplication
<1>5. UNCHANGED <<signatureOwners, everOwner, calls>>
  BY DEF createApplication
<1>6. soundSignatures(<<>>)
  BY DEF soundSignatures, distinct, members
<1> DEFINE old == signatureMap[h]
<1>7. /\ old \in Seq(signatureInfo) /\ Len(old) \in Nat
      /\ \A n \in 1..Len(old) : soundSignatures(old[n].signatures)
      /\ \A n \in 2..Len(old) : old[n].signatures = <<>>
  BY <1>2 DEF soundApplications
<1> HIDE DEF e, h, old
<1>8. /\ Append(old, e) \in Seq(signatureInfo)
      /\ Len(Append(old, e)) = Len(old) + 1
      /\ \A n \in 1..Len(old) : Append(old, e)[n] = old[n]
      /\ Append(old, e)[Len(old) + 1] = e
  BY <1>3, <1>7, AppendProperties
<1>9. \A n \in 1..(Len(old) + 1) : n \in 1..Len(old) \/ n = Len(old) + 1
  BY <1>7
<1>10. soundApplications(Append(old, e))
  <2>1. \A n \in 1..(Len(old) + 1) : soundSignatures(Append(old, e)[n].signatures)
    BY <1>3, <1>6, <1>7, <1>8, <1>9
  <2>2. \A n \in 2..(Len(old) + 1) : n \in 2..Len(old) \/ n = Len(old) + 1
    BY <1>7
  <2>3. \A n \in 2..(Len(old) + 1) : Append(old, e)[n].signatures = <<>>
    <3>1. \A n \in 2..Len(old) : n \in 1..Len(old)
      BY <1>7
    <3> QED
      BY <1>3, <1>7, <1>8, <2>2, <3>1
  <2> QED
    BY <1>8, <2>1, <2>3 DEF soundApplications
<1> QED
  BY <1>1, <1>4, <1>5, <1>10, MapStep DEF old

\* What FirstSigned needs of the hash an owner acts on.
LEMMA SignStep ==
  ASSUME IInv, NEW h \in Hashes, hasApplication(h), NEW t, soundSignatures(t),
         signatureMap' = [signatureMap EXCEPT ![h] = [@ EXCEPT ![1].signatures = t]],
         UNCHANGED <<signatureOwners, everOwner, calls>>
  PROVE  IInv'
<1>1. soundApplications(signatureMap[h]) /\ Len(signatureMap[h]) > 0
  BY DEF IInv, hasApplication
<1>2. soundApplications([signatureMap[h] EXCEPT ![1].signatures = t])
  BY <1>1, FirstSigned
<1>3. signatureMap' = [signatureMap EXCEPT ![h] = [signatureMap[h] EXCEPT ![1].signatures = t]]
  BY DEF IInv
<1> QED
  BY <1>2, <1>3, MapStep

\* The signatures of a hash's first application.
firstSignatures(h) == signatureMap[h][1].signatures

\* They are votes of different accounts that have held a seat.
LEMMA FirstIsSound ==
  ASSUME IInv, NEW h \in Hashes, hasApplication(h)
  PROVE  soundSignatures(firstSignatures(h))
<1>1. soundApplications(signatureMap[h]) /\ Len(signatureMap[h]) > 0
  BY DEF IInv, hasApplication
<1>2. 1 \in 1..Len(signatureMap[h])
  BY <1>1 DEF soundApplications
<1> QED
  BY <1>1, <1>2 DEF soundApplications, firstSignatures

\* An owner's signature is one more owner's.
LEMMA SignOK ==
  ASSUME IInv, NEW o \in Accounts, NEW h \in Hashes, signApplication(o, h)
  PROVE  IInv'
<1> DEFINE s == firstSignatures(h)
           t == addWhiteListAddress(s, o)
<1>1. onlyOwner(o) /\ hasApplication(h)
  BY DEF signApplication
<1>2. soundSignatures(s)
  BY <1>1, FirstIsSound
<1>3. o \in everOwner
  BY <1>1 DEF IInv, onlyOwner, isEligibleAddress, members
<1>4. soundSignatures(t)
  BY <1>2, <1>3, AddedSigners DEF soundSignatures
<1>5. /\ signatureMap' = [signatureMap EXCEPT ![h] = [@ EXCEPT ![1].signatures = t]]
      /\ UNCHANGED <<signatureOwners, everOwner, calls>>
  BY DEF signApplication, firstSignatures
<1> QED
  BY <1>1, <1>4, <1>5, SignStep

\* A revocation leaves other signatures.
LEMMA RevokeOK ==
  ASSUME IInv, NEW o \in Accounts, NEW h \in Hashes, revokeSignApplication(o, h)
  PROVE  IInv'
<1> DEFINE s == firstSignatures(h)
           t == removeWhiteListAddress(s, o)
<1>1. hasApplication(h)
  BY DEF revokeSignApplication
<1>2. soundSignatures(s)
  BY <1>1, FirstIsSound
<1>3. soundSignatures(t)
  BY <1>2, RemovedSigners DEF soundSignatures
<1>4. /\ signatureMap' = [signatureMap EXCEPT ![h] = [@ EXCEPT ![1].signatures = t]]
      /\ UNCHANGED <<signatureOwners, everOwner, calls>>
  BY DEF revokeSignApplication, firstSignatures
<1> QED
  BY <1>1, <1>3, <1>4, SignStep

\* A new owner joins those that have held a seat; no signature changes.
LEMMA TransferOK ==
  ASSUME IInv, NEW o \in Accounts, NEW newOwner \in Accounts,
         NEW index \in DOMAIN signatureOwners, transferOwner(o, index, newOwner)
  PROVE  IInv'
<1> DEFINE s == signatureOwners
           t == [s EXCEPT ![index] = newOwner]
<1>1. /\ signatureOwners' = t /\ everOwner' = everOwner \cup {newOwner}
      /\ UNCHANGED <<signatureMap, calls>>
  BY DEF transferOwner
<1>2. /\ s \in Seq(Accounts) /\ DOMAIN s = 1..Len(s) /\ Len(s) = Len(InitialOwners)
      /\ members(s) \subseteq everOwner
  BY DEF IInv
<1>3. /\ t \in Seq(Accounts) /\ Len(t) = Len(s) /\ DOMAIN t = 1..Len(s)
      /\ \A i \in 1..Len(s) : t[i] = IF i = index THEN newOwner ELSE s[i]
  BY <1>2, ExceptSeq
<1> HIDE DEF s, t
<1>4. members(t) \subseteq everOwner \cup {newOwner}
  BY <1>2, <1>3 DEF members
<1>5. ASSUME NEW h \in Hashes
      PROVE  soundApplications(signatureMap[h])'
  <2>1. soundApplications(signatureMap[h])
    BY DEF IInv
  <2> QED
    BY <1>1, <2>1 DEF soundApplications, soundSignatures
<1>6. members(signatureOwners)' \subseteq everOwner'
  BY <1>1, <1>4 DEF members
<1> QED
  BY <1>1, <1>2, <1>3, <1>5, <1>6 DEF IInv

\* A call through a client's lock changes the count of calls alone.
LEMMA CallOK ==
  ASSUME IInv, NEW from \in Callers, NEW to \in Clients, checkMultiSignature(from, to)
  PROVE  IInv'
<1>1. getApplicationHash(from, to) \in Hashes
  BY DEF Hashes, getApplicationHash
<1>2. calls' \in [Hashes -> Nat] /\ UNCHANGED <<signatureOwners, signatureMap, everOwner>>
  BY <1>1 DEF IInv, checkMultiSignature
<1>3. ASSUME NEW h \in Hashes
      PROVE  soundApplications(signatureMap[h])'
  BY <1>2 DEF IInv, soundApplications, soundSignatures
<1>4. members(signatureOwners)' \subseteq everOwner'
  BY <1>2 DEF IInv, members
<1> QED
  BY <1>2, <1>3, <1>4 DEF IInv

\* Every transaction keeps the invariant.
LEMMA NextOK == IInv /\ [Next]_vars => IInv'
<1> SUFFICES ASSUME IInv, [Next]_vars PROVE IInv'
  OBVIOUS
<1>1. ASSUME NEW from \in Callers, NEW to \in Clients \cup {self}, createApplication(from, to)
      PROVE  IInv'
  BY <1>1, CreateOK
<1>2. ASSUME NEW from \in Callers, NEW to \in Clients, checkMultiSignature(from, to)
      PROVE  IInv'
  BY <1>2, CallOK
<1>3. ASSUME NEW o \in Accounts, NEW h \in Hashes, signApplication(o, h)
      PROVE  IInv'
  BY <1>3, SignOK
<1>4. ASSUME NEW o \in Accounts, NEW h \in Hashes, revokeSignApplication(o, h)
      PROVE  IInv'
  BY <1>4, RevokeOK
<1>5. ASSUME NEW o \in Accounts, NEW newOwner \in Accounts,
             NEW index \in DOMAIN signatureOwners, transferOwner(o, index, newOwner)
      PROVE  IInv'
  BY <1>5, TransferOK
<1>6. CASE UNCHANGED vars
  BY <1>6 DEF vars, IInv, members, soundApplications, soundSignatures
<1> QED
  BY <1>1, <1>2, <1>3, <1>4, <1>5, <1>6 DEF Next

\* The inductive invariant holds in every reachable state.
THEOREM InductiveInvariant == Spec => []IInv
<1> QED
  BY InitOK, NextOK, PTL DEF Spec

\* The invariant says what the runs check of every reachable state.
LEMMA InvariantImplies ==
  ASSUME IInv
  PROVE  TypeOK /\ OneVoteEach /\ SignersHeldSeats /\ OnlyFirstIsSigned
<1>1. \A h \in Hashes : signatureMap[h] \in Seq(signatureInfo) /\ soundApplications(signatureMap[h])
  BY DEF IInv
<1>2. \A h \in Hashes : DOMAIN signatureMap[h] = 1..Len(signatureMap[h])
                        /\ Len(signatureMap[h]) \in Nat
  BY <1>1
<1>3. TypeOK
  BY DEF IInv, TypeOK
<1>4. \A h \in Hashes : \A n \in DOMAIN signatureMap[h] :
        soundSignatures(signatureMap[h][n].signatures)
  BY <1>1, <1>2 DEF soundApplications
<1>5. OneVoteEach
  BY <1>4 DEF OneVoteEach, soundSignatures, distinct
<1>6. SignersHeldSeats
  BY <1>4 DEF SignersHeldSeats, soundSignatures, members
<1>7. OnlyFirstIsSigned
  BY <1>1, <1>2 DEF OnlyFirstIsSigned, soundApplications
<1> QED
  BY <1>3, <1>5, <1>6, <1>7

\* The storage of the contract is well typed, whatever its owners do.
THEOREM TypeCorrect == Spec => []TypeOK
<1> QED
  BY InductiveInvariant, InvariantImplies, PTL

\* No account's signature counts twice in any application.
THEOREM OneVote == Spec => []OneVoteEach
<1> QED
  BY InductiveInvariant, InvariantImplies, PTL

\* Only accounts that have held a seat stand behind an application.
THEOREM SignersSound == Spec => []SignersHeldSeats
<1> QED
  BY InductiveInvariant, InvariantImplies, PTL

\* signApplication and revokeSignApplication reach only defaultIndex: no
\* application but the first of its hash is ever stood behind.
THEOREM OnlyFirstSigned == Spec => []OnlyFirstIsSigned
<1> QED
  BY InductiveInvariant, InvariantImplies, PTL

-----------------------------------------------------------------------------
(* The contract implements the committee.                                   *)

\* The lock opens only when the committee has approved: signatures are
\* counted by the length of an array and stand for that many voters.
LEMMA LockIsApproval ==
  ASSUME IInv, NEW h \in Hashes, getValidSignature(h, 0) > 0
  PROVE  C!Approved(h)
<1> DEFINE info == signatureMap[h]
           valid == {i \in DOMAIN info : i > 0 /\ Len(info[i].signatures) >= Threshold}
<1>1. soundApplications(info) /\ info \in Seq(signatureInfo)
  BY DEF IInv
<1>2. valid # {}
  BY DEF getValidSignature
<1>3. PICK i \in DOMAIN info : Len(info[i].signatures) >= Threshold
  BY <1>2
<1>4. DOMAIN info = 1..Len(info) /\ Len(info) \in Nat
  BY <1>1
<1>5. info # <<>> /\ 1 \in 1..Len(info)
  BY <1>3, <1>4
<1>6. Len(info[1].signatures) >= Threshold
  <2>1. CASE i = 1
    BY <1>3, <2>1
  <2>2. CASE i # 1
    <3>1. info[i].signatures = <<>>
      BY <1>1, <1>3, <1>4, <2>2 DEF soundApplications
    <3>2. Threshold = 0
      BY <1>3, <3>1, CommitteeAssumption
    <3>3. Len(info[1].signatures) \in Nat
      BY <1>1, <1>5 DEF soundApplications, soundSignatures
    <3> QED
      BY <3>2, <3>3
  <2> QED
    BY <2>1, <2>2
<1>7. soundSignatures(info[1].signatures)
  BY <1>1, <1>5 DEF soundApplications
<1>8. Cardinality(members(info[1].signatures)) >= Threshold
  BY <1>6, <1>7, LengthCountsSigners DEF soundSignatures
<1>9. signersOf(h) = members(info[1].signatures)
  BY <1>5 DEF signersOf, members
<1>10. signersOf(h) \in SUBSET Accounts
  BY <1>7, <1>9 DEF soundSignatures, IInv
<1> QED
  BY <1>5, <1>8, <1>9, <1>10 DEF C!Approved

\* The committee's applied hashes and standing votes.
appliedFor == {h \in Hashes : signatureMap[h] # <<>>}
standing == [h \in Hashes |-> signersOf(h)]

\* Filing an application is Apply: a second one for the same hash a stutter.
LEMMA CreateImplements ==
  ASSUME IInv, NEW from \in Callers, NEW to \in Clients \cup {self}, createApplication(from, to)
  PROVE  \E h \in Hashes : C!Apply(h)
<1> DEFINE h == getApplicationHash(from, to)
           e == [applicant |-> from, signatures |-> <<>>]
           old == signatureMap[h]
<1>1. h \in Hashes
  BY DEF Hashes, getApplicationHash
<1>2. /\ signatureMap' = [signatureMap EXCEPT ![h] = Append(old, e)]
      /\ UNCHANGED <<signatureOwners, calls>>
  BY <1>1 DEF createApplication, IInv
<1>3. old \in Seq(signatureInfo) /\ e \in signatureInfo /\ e.signatures = <<>>
  <2>1. old \in Seq(signatureInfo)
    BY <1>1 DEF IInv
  <2>2. e \in signatureInfo /\ e.signatures = <<>>
    BY DEF signatureInfo
  <2> QED
    BY <2>1, <2>2
<1> HIDE DEF h, e
<1>4. \A g \in Hashes : signatureMap'[g] = IF g = h THEN Append(old, e) ELSE signatureMap[g]
  BY <1>1, <1>2 DEF IInv
<1> HIDE DEF old
<1>5. /\ Append(old, e) # <<>> /\ Len(old) \in Nat
      /\ \A n \in 1..Len(old) : Append(old, e)[n] = old[n]
      /\ Append(old, e)[Len(old) + 1] = e
  BY <1>3, AppendProperties
<1>6. appliedFor' = appliedFor \cup {h}
  BY <1>1, <1>4, <1>5 DEF appliedFor
<1>7. ASSUME NEW g \in Hashes
      PROVE  signersOf(g)' = signersOf(g)
  <2>1. CASE g # h
    BY <1>4, <2>1 DEF signersOf
  <2>2. CASE g = h /\ old = <<>>
    <3>1. signatureMap'[g] # <<>> /\ signatureMap'[g][1].signatures = <<>>
      BY <1>3, <1>4, <1>5, <2>2
    <3>2. signersOf(g)' = {}
      BY <3>1 DEF signersOf
    <3>3. signersOf(g) = {}
      BY <2>2 DEF signersOf, old
    <3> QED
      BY <3>2, <3>3
  <2>3. CASE g = h /\ old # <<>>
    <3>1. 1 \in 1..Len(old)
      BY <1>3, <2>3
    <3>2. signatureMap'[g] # <<>> /\ signatureMap'[g][1] = old[1]
      BY <1>4, <1>5, <2>3, <3>1
    <3> QED
      BY <2>3, <3>2 DEF signersOf, old
  <2> QED
    BY <2>1, <2>2, <2>3
<1>8. standing' = standing
  BY <1>7 DEF standing
<1>9. C!Apply(h)
  BY <1>2, <1>6, <1>8 DEF C!Apply, appliedFor, standing
<1> QED
  BY <1>1, <1>9

\* An owner's step on a hash gives it new signers and changes no other hash.
LEMMA VoteStep ==
  ASSUME IInv, NEW h \in Hashes, hasApplication(h), NEW t,
         signatureMap' = [signatureMap EXCEPT ![h] = [@ EXCEPT ![1].signatures = t]]
  PROVE  /\ h \in appliedFor
         /\ appliedFor' = appliedFor
         /\ standing' = [standing EXCEPT ![h] = members(t)]
<1> DEFINE old == signatureMap[h]
           new == [old EXCEPT ![1].signatures = t]
<1>1. old \in Seq(signatureInfo) /\ Len(old) > 0
  BY DEF IInv, hasApplication
<1>2. 1 \in DOMAIN old /\ old[1] \in signatureInfo /\ DOMAIN old = 1..Len(old)
  BY <1>1
<1>3. \A g \in Hashes : signatureMap'[g] = IF g = h THEN new ELSE signatureMap[g]
  BY DEF IInv
<1>4. DOMAIN new = DOMAIN old /\ new[1] = [old[1] EXCEPT !.signatures = t]
  BY <1>2
<1>5. new[1].signatures = t
  <2>1. [old[1] EXCEPT !.signatures = t].signatures = t
    BY <1>2 DEF signatureInfo
  <2> QED
    BY <1>4, <2>1
<1>6. old # <<>> /\ new # <<>>
  BY <1>1, <1>2, <1>4
<1> HIDE DEF old, new
<1>7. h \in appliedFor /\ appliedFor' = appliedFor
  BY <1>3, <1>6 DEF appliedFor, old
<1>8. signersOf(h)' = members(t)
  BY <1>3, <1>5, <1>6 DEF signersOf, members
<1>9. \A g \in Hashes : g # h => signersOf(g)' = signersOf(g)
  BY <1>3 DEF signersOf
<1>10. standing' = [standing EXCEPT ![h] = members(t)]
  BY <1>8, <1>9 DEF standing
<1> QED
  BY <1>7, <1>10

\* The signers of a hash that has an application are those of the first.
LEMMA StandingVotes ==
  ASSUME IInv, NEW h \in Hashes, hasApplication(h)
  PROVE  standing[h] = members(firstSignatures(h))
<1>1. signatureMap[h] # <<>>
  BY DEF IInv, hasApplication
<1> QED
  BY <1>1 DEF standing, signersOf, members, firstSignatures

\* Signing is Vote.
LEMMA SignImplements ==
  ASSUME IInv, NEW o \in Accounts, NEW h \in Hashes, signApplication(o, h)
  PROVE  C!Vote(o, h)
<1> DEFINE s == firstSignatures(h)
           t == addWhiteListAddress(s, o)
<1>1. onlyOwner(o) /\ hasApplication(h) /\ UNCHANGED <<signatureOwners, calls>>
  BY DEF signApplication
<1>2. signatureMap' = [signatureMap EXCEPT ![h] = [@ EXCEPT ![1].signatures = t]]
  BY DEF signApplication, firstSignatures
<1>3. members(t) = members(s) \cup {o}
  BY <1>1, FirstIsSound, AddedSigners DEF soundSignatures
<1>4. standing[h] = members(s)
  BY <1>1, StandingVotes
<1> HIDE DEF t, s
<1>5. /\ h \in appliedFor /\ appliedFor' = appliedFor
      /\ standing' = [standing EXCEPT ![h] = members(t)]
  BY <1>1, <1>2, VoteStep
<1>6. standing' = [standing EXCEPT ![h] = @ \cup {o}]
  BY <1>3, <1>4, <1>5
<1>7. C!Seated(o)
  BY <1>1 DEF C!Seated, onlyOwner, isEligibleAddress
<1> QED
  BY <1>1, <1>5, <1>6, <1>7 DEF C!Vote, standing, appliedFor

\* Revoking is Withdraw.
LEMMA RevokeImplements ==
  ASSUME IInv, NEW o \in Accounts, NEW h \in Hashes, revokeSignApplication(o, h)
  PROVE  C!Withdraw(o, h)
<1> DEFINE s == firstSignatures(h)
           t == removeWhiteListAddress(s, o)
<1>1. onlyOwner(o) /\ hasApplication(h) /\ UNCHANGED <<signatureOwners, calls>>
  BY DEF revokeSignApplication
<1>2. signatureMap' = [signatureMap EXCEPT ![h] = [@ EXCEPT ![1].signatures = t]]
  BY DEF revokeSignApplication, firstSignatures
<1>3. members(t) = members(s) \ {o}
  BY <1>1, FirstIsSound, RemovedSigners DEF soundSignatures
<1>4. standing[h] = members(s)
  BY <1>1, StandingVotes
<1> HIDE DEF t, s
<1>5. /\ h \in appliedFor /\ appliedFor' = appliedFor
      /\ standing' = [standing EXCEPT ![h] = members(t)]
  BY <1>1, <1>2, VoteStep
<1>6. standing' = [standing EXCEPT ![h] = @ \ {o}]
  BY <1>3, <1>4, <1>5
<1>7. C!Seated(o)
  BY <1>1 DEF C!Seated, onlyOwner, isEligibleAddress
<1> QED
  BY <1>1, <1>5, <1>6, <1>7 DEF C!Withdraw, standing, appliedFor

\* A step that leaves the applications alone leaves their signers.
LEMMA SameVotes ==
  ASSUME UNCHANGED signatureMap
  PROVE  appliedFor' = appliedFor /\ standing' = standing
BY DEF appliedFor, standing, signersOf

\* Handing over a seat is Reseat, and needs the committee's approval.
LEMMA TransferImplements ==
  ASSUME IInv, NEW o \in Accounts, NEW newOwner \in Accounts,
         NEW index \in DOMAIN signatureOwners, transferOwner(o, index, newOwner)
  PROVE  C!Reseat(o, index, newOwner)
<1>1. /\ onlyOwner(o) /\ o \in Callers /\ validCall(o, self)
      /\ signatureOwners' = [signatureOwners EXCEPT ![index] = newOwner]
      /\ UNCHANGED <<signatureMap, calls>>
  BY DEF transferOwner
<1>2. getApplicationHash(o, self) \in Hashes
  BY <1>1 DEF Hashes, getApplicationHash
<1>3. C!Approved(getApplicationHash(o, self))
  BY <1>1, <1>2, LockIsApproval DEF validCall
<1>4. C!Seated(o)
  BY <1>1 DEF C!Seated, onlyOwner, isEligibleAddress
<1>5. appliedFor' = appliedFor /\ standing' = standing
  BY <1>1, SameVotes
<1>6. [a \in Accounts |-> getApplicationHash(a, self)][o] = getApplicationHash(o, self)
  OBVIOUS
<1> QED
  BY <1>1, <1>3, <1>4, <1>5, <1>6 DEF C!Reseat, standing, appliedFor

\* A call that passes a client's lock is Call.
LEMMA CallImplements ==
  ASSUME IInv, NEW from \in Callers, NEW to \in Clients, checkMultiSignature(from, to)
  PROVE  \E h \in Hashes : C!Call(h)
<1> DEFINE h == getApplicationHash(from, to)
<1>1. h \in Hashes
  BY DEF Hashes, getApplicationHash
<1>2. /\ calls' = [calls EXCEPT ![h] = @ + 1]
      /\ UNCHANGED <<signatureOwners, signatureMap>>
  BY DEF checkMultiSignature
<1>3. C!Approved(h)
  BY <1>1, LockIsApproval DEF checkMultiSignature, validCall
<1>4. appliedFor' = appliedFor /\ standing' = standing
  BY <1>2, SameVotes
<1>5. C!Call(h)
  BY <1>2, <1>3, <1>4 DEF C!Call, appliedFor, standing
<1> QED
  BY <1>1, <1>5

\* The committee starts with the constructor's owners and no application.
LEMMA InitImplements == Init => C!Init
<1> SUFFICES ASSUME Init PROVE C!Init
  OBVIOUS
<1>1. \A h \in Hashes : signatureMap[h] = <<>>
  BY DEF Init
<1>2. appliedFor = {} /\ standing = [h \in Hashes |-> {}]
  BY <1>1 DEF appliedFor, standing, signersOf
<1> QED
  BY <1>2 DEF Init, C!Init, appliedFor, standing

\* Every step of the contract is a step of the committee or a stutter.
LEMMA StepImplements == IInv /\ [Next]_vars => [C!Next]_C!vars
<1> SUFFICES ASSUME IInv, [Next]_vars PROVE [C!Next]_C!vars
  OBVIOUS
<1>1. ASSUME NEW from \in Callers, NEW to \in Clients \cup {self}, createApplication(from, to)
      PROVE  C!Next
  BY <1>1, CreateImplements DEF C!Next
<1>2. ASSUME NEW from \in Callers, NEW to \in Clients, checkMultiSignature(from, to)
      PROVE  C!Next
  BY <1>2, CallImplements DEF C!Next
<1>3. ASSUME NEW o \in Accounts, NEW h \in Hashes, signApplication(o, h)
      PROVE  C!Next
  BY <1>3, SignImplements DEF C!Next
<1>4. ASSUME NEW o \in Accounts, NEW h \in Hashes, revokeSignApplication(o, h)
      PROVE  C!Next
  BY <1>4, RevokeImplements DEF C!Next
<1>5. ASSUME NEW o \in Accounts, NEW newOwner \in Accounts,
             NEW index \in DOMAIN signatureOwners, transferOwner(o, index, newOwner)
      PROVE  C!Next
  BY <1>5, TransferImplements DEF C!Next
<1>6. CASE UNCHANGED vars
  <2>1. UNCHANGED <<signatureOwners, signatureMap, calls>>
    BY <1>6 DEF vars
  <2>2. appliedFor' = appliedFor /\ standing' = standing
    BY <2>1, SameVotes
  <2> QED
    BY <2>1, <2>2 DEF C!vars, appliedFor, standing
<1> QED
  BY <1>1, <1>2, <1>3, <1>4, <1>5, <1>6 DEF Next

\* The multi-signature contract implements the committee: arrays, swaps and the
\* search for a valid index amount to sets of votes and a quorum, so that no
\* seat changes and no call passes a lock without the votes of a quorum.
THEOREM ContractIsCommittee == Spec => ImplementsCommittee
<1>1. Spec => C!Init /\ [][C!Next]_C!vars
  BY InductiveInvariant, InitImplements, StepImplements, PTL DEF Spec
<1> QED
  BY <1>1 DEF ImplementsCommittee, C!Spec

-----------------------------------------------------------------------------
(* Powers.  They are proved to be what they should be by induction over the *)
(* naturals: a set that is not all of them misses a smallest one.           *)

\* Induction, for a set of naturals.
LEMMA NatSetInduction ==
  ASSUME NEW G, 0 \in G, \A n \in Nat : n \in G => n + 1 \in G
  PROVE  \A n \in Nat : n \in G
<1> DEFINE B == {n \in Nat : n \notin G}
<1> SUFFICES ASSUME B # {} PROVE FALSE
  OBVIOUS
<1>1. PICK m \in B : \A n \in B : <<n, m>> \notin OpToRel(<, Nat)
  <2> HIDE DEF B
  <2>1. B \subseteq Nat
    BY DEF B
  <2> QED
    BY <2>1, NatLessThanWellFounded, WFMin
<1>2. m \in Nat /\ m \notin G /\ m # 0
  OBVIOUS
<1>3. m - 1 \in Nat /\ m - 1 < m /\ (m - 1) + 1 = m
  BY <1>2, SMT
<1>4. m - 1 \in G
  BY <1>1, <1>2, <1>3 DEF OpToRel
<1> QED
  BY <1>2, <1>3, <1>4

\* p holds the powers of b, up to n or all of them.
PowersTo(p, b, n) == p[0] = 1 /\ \A i \in 1..n : p[i] = b * p[i - 1]
Powers(p, b) == p = [n \in Nat |-> IF n = 0 THEN 1 ELSE b * p[n - 1]]

\* There are powers up to any exponent,
LEMMA PowersToExist ==
  ASSUME NEW b \in Nat PROVE \A n \in Nat : \E p : PowersTo(p, b, n)
<1> DEFINE G == {n \in Nat : \E p : PowersTo(p, b, n)}
<1>1. 0 \in G
  <2>1. PowersTo([i \in {0} |-> 1], b, 0)
    BY SMT DEF PowersTo
  <2> QED
    BY <2>1
<1>2. ASSUME NEW n \in Nat, n \in G PROVE n + 1 \in G
  <2>1. PICK p : PowersTo(p, b, n)
    BY <1>2
  <2> DEFINE q == [i \in 0..(n + 1) |-> IF i = n + 1 THEN b * p[n] ELSE p[i]]
  <2>2. q[0] = 1
    BY <2>1, SMT DEF PowersTo
  <2>3. ASSUME NEW i \in 1..(n + 1) PROVE q[i] = b * q[i - 1]
    <3>1. CASE i = n + 1
      <4>1. q[i] = b * p[n] /\ q[i - 1] = p[n]
        BY <3>1, SMT
      <4> QED
        BY <4>1
    <3>2. CASE i # n + 1
      <4>1. i \in 1..n
        BY <3>2, SMT
      <4>2. q[i] = p[i] /\ q[i - 1] = p[i - 1]
        BY <3>2, SMT
      <4> QED
        BY <2>1, <4>1, <4>2 DEF PowersTo
    <3> QED
      BY <3>1, <3>2
  <2> HIDE DEF q
  <2>4. PowersTo(q, b, n + 1)
    BY <2>2, <2>3 DEF PowersTo
  <2> QED
    BY <2>4
<1> HIDE DEF G
<1>3. \A n \in Nat : n \in G
  BY <1>1, <1>2, NatSetInduction
<1> QED
  BY <1>3 DEF G

\* of which there is one for each exponent,
LEMMA PowersToUnique ==
  ASSUME NEW b \in Nat, NEW k \in Nat, NEW n \in Nat, NEW p, NEW q,
         PowersTo(p, b, k), PowersTo(q, b, n)
  PROVE  \A i \in Nat : i <= k /\ i <= n => p[i] = q[i]
<1> DEFINE G == {i \in Nat : i <= k /\ i <= n => p[i] = q[i]}
<1>1. 0 \in G
  BY DEF PowersTo
<1>2. ASSUME NEW i \in Nat, i \in G PROVE i + 1 \in G
  <2> SUFFICES ASSUME i + 1 <= k, i + 1 <= n PROVE p[i + 1] = q[i + 1]
    OBVIOUS
  <2>1. i + 1 \in 1..k /\ i + 1 \in 1..n /\ (i + 1) - 1 = i /\ i <= k /\ i <= n
    BY SMT
  <2>2. p[i] = q[i]
    BY <1>2, <2>1
  <2>3. p[i + 1] = b * p[i] /\ q[i + 1] = b * q[i]
    BY <2>1 DEF PowersTo
  <2> QED
    BY <2>2, <2>3
<1> HIDE DEF G
<1>3. \A i \in Nat : i \in G
  BY <1>1, <1>2, NatSetInduction
<1> QED
  BY <1>3 DEF G

\* so that there is a function with all of them.
LEMMA PowersExist ==
  ASSUME NEW b \in Nat PROVE \E p : Powers(p, b)
<1> DEFINE upTo(n) == CHOOSE q : PowersTo(q, b, n)
           p == [n \in Nat |-> upTo(n)[n]]
<1>1. \A n \in Nat : PowersTo(upTo(n), b, n)
  BY PowersToExist
<1> HIDE DEF upTo
<1>2. ASSUME NEW n \in Nat PROVE p[n] = IF n = 0 THEN 1 ELSE b * p[n - 1]
  <2>1. CASE n = 0
    <3>1. p[0] = upTo(0)[0]
      OBVIOUS
    <3>2. upTo(0)[0] = 1
      BY <1>1 DEF PowersTo
    <3> QED
      BY <2>1, <3>1, <3>2
  <2>2. CASE n # 0
    <3>1. n - 1 \in Nat /\ n \in 1..n /\ n - 1 <= n /\ n - 1 <= n - 1
      BY <2>2, SMT
    <3>2. upTo(n)[n] = b * upTo(n)[n - 1]
      BY <1>1, <3>1 DEF PowersTo
    <3>3. upTo(n)[n - 1] = upTo(n - 1)[n - 1]
      BY <1>1, <3>1, PowersToUnique
    <3>4. p[n] = upTo(n)[n] /\ p[n - 1] = upTo(n - 1)[n - 1]
      BY <3>1
    <3> HIDE DEF p
    <3> QED
      BY <2>2, <3>2, <3>3, <3>4
  <2> QED
    BY <2>1, <2>2
<1>3. p = [n \in Nat |-> p[n]]
  OBVIOUS
<1> HIDE DEF p
<1>4. Powers(p, b)
  BY <1>2, <1>3 DEF Powers
<1> QED
  BY <1>4

\* The oracle's exponentiation multiplies by its base for each unit of the exponent.
LEMMA PowerIs ==
  ASSUME NEW b \in Nat
  PROVE  /\ power(b, 0) = 1
         /\ \A n \in Nat : power(b, n + 1) = b * power(b, n)
<1> DEFINE p == CHOOSE q : Powers(q, b)
<1>1. Powers(p, b)
  BY PowersExist
<1>2. \A n \in Nat : power(b, n) = p[n]
  BY DEF power, Powers
<1> HIDE DEF p
<1>3. \A n \in Nat : p[n] = IF n = 0 THEN 1 ELSE b * p[n - 1]
  BY <1>1 DEF Powers
<1>4. \A n \in Nat : n + 1 \in Nat /\ n + 1 # 0 /\ (n + 1) - 1 = n
  BY SMT
<1> QED
  BY <1>2, <1>3, <1>4

\* Powers of a base that is not 0 are positive.
LEMMA PowerPositive ==
  ASSUME NEW b \in Nat \ {0} PROVE \A n \in Nat : power(b, n) \in Nat \ {0}
<1> DEFINE G == {n \in Nat : power(b, n) \in Nat \ {0}}
<1>0. \A x, y \in Nat \ {0} : x * y \in Nat \ {0}
  BY SMT
<1>1. 0 \in G
  BY PowerIs
<1>2. ASSUME NEW n \in Nat, n \in G PROVE n + 1 \in G
  BY <1>0, <1>2, PowerIs
<1> HIDE DEF G
<1>3. \A n \in Nat : n \in G
  BY <1>1, <1>2, NatSetInduction
<1> QED
  BY <1>3 DEF G

\* Exponents add up.
LEMMA PowerOfSum ==
  ASSUME NEW b \in Nat \ {0}, NEW k \in Nat
  PROVE  \A n \in Nat : power(b, n) * power(b, k) = power(b, n + k)
<1> DEFINE G == {n \in Nat : power(b, n) * power(b, k) = power(b, n + k)}
<1>0. \A n \in Nat : power(b, n) \in Nat
  BY PowerPositive
<1>1. 0 \in G
  <2>1. 0 + k = k /\ 1 * power(b, k) = power(b, k)
    BY <1>0, SMT
  <2> QED
    BY <2>1, PowerIs
<1>2. ASSUME NEW n \in Nat, n \in G PROVE n + 1 \in G
  <2>1. \A x, y \in Nat : (b * x) * y = b * (x * y)
    BY SMT
  <2>2. n + k \in Nat /\ (n + 1) + k = (n + k) + 1
    BY SMT
  <2>3. power(b, n + 1) * power(b, k) = b * (power(b, n) * power(b, k))
    BY <1>0, <2>1, PowerIs
  <2>4. power(b, (n + k) + 1) = b * power(b, n + k)
    BY <2>2, PowerIs
  <2> QED
    BY <1>2, <2>2, <2>3, <2>4
<1> HIDE DEF G
<1>3. \A n \in Nat : n \in G
  BY <1>1, <1>2, NatSetInduction
<1> QED
  BY <1>3 DEF G

\* Larger exponents give no smaller powers.
LEMMA PowerMono ==
  ASSUME NEW b \in Nat \ {0}, NEW m \in Nat, NEW n \in Nat, m <= n
  PROVE  power(b, m) <= power(b, n)
<1>1. n - m \in Nat /\ m + (n - m) = n
  BY SMT
<1>2. /\ power(b, m) \in Nat \ {0} /\ power(b, n - m) \in Nat \ {0}
      /\ power(b, m) * power(b, n - m) = power(b, n)
  <2>1. power(b, n - m) * power(b, m) = power(b, (n - m) + m)
    BY <1>1, PowerOfSum
  <2>2. (n - m) + m = n
    BY SMT
  <2>3. power(b, m) \in Nat \ {0} /\ power(b, n - m) \in Nat \ {0}
    BY <1>1, PowerPositive
  <2>4. power(b, n - m) * power(b, m) = power(b, m) * power(b, n - m)
    BY <2>3, SMT
  <2> QED
    BY <2>1, <2>2, <2>3, <2>4
<1>3. \A x, y \in Nat \ {0} : x <= x * y
  BY SMT
<1> QED
  BY <1>2, <1>3

\* An exponent is less than the power, and powers of ten no less than those of two.
LEMMA PowerLarge ==
  \A n \in Nat : n < power(2, n) /\ power(2, n) <= power(10, n)
<1> DEFINE G == {n \in Nat : n < power(2, n) /\ power(2, n) <= power(10, n)}
<1>0. \A n \in Nat : power(2, n) \in Nat \ {0} /\ power(10, n) \in Nat \ {0}
  BY PowerPositive
<1>1. 0 \in G
  BY PowerIs
<1>2. ASSUME NEW n \in Nat, n \in G PROVE n + 1 \in G
  <2>1. power(2, n + 1) = 2 * power(2, n) /\ power(10, n + 1) = 10 * power(10, n)
    BY PowerIs
  <2>2. \A x, y \in Nat \ {0} : n < x /\ x <= y => n + 1 < 2 * x /\ 2 * x <= 10 * y
    BY SMT
  <2> QED
    BY <1>0, <1>2, <2>1, <2>2
<1> HIDE DEF G
<1>3. \A n \in Nat : n \in G
  BY <1>1, <1>2, NatSetInduction
<1> QED
  BY <1>3 DEF G

-----------------------------------------------------------------------------
(* The oracle's prices.                                                     *)

\* What the maps and the feeds hold.
OracleTyped ==
  /\ assetsMap \in [Underlyings -> Aggregators \cup {none}]
  /\ decimalsMap \in [Underlyings -> Nat]
  /\ priceMap \in [Underlyings -> Words]
  /\ decimals \in Nat
  /\ answer \in [Aggregators -> Int]

\* A word is reduced modulo a positive number, and one that fits stays as it is.
LEMMA WordIs ==
  /\ power(2, Width) \in Nat \ {0} /\ Words \subseteq Nat
  /\ \A n \in Int : uint(n) \in Words
  /\ \A n \in Words : uint(n) = n
<1>1. power(2, Width) \in Nat \ {0}
  BY OracleAssumption, PowerPositive
<1>2. PICK w \in Nat \ {0} : w = power(2, Width)
  BY <1>1
<1>3. \A n \in Int : n % w \in 0..(w - 1)
  BY SMT
<1>4. \A n \in 0..(w - 1) : n % w = n
  BY SMT
<1> QED
  BY <1>1, <1>2, <1>3, <1>4 DEF Words, uint

\* Every setter and every round of a feed keeps the maps typed.
LEMMA OracleKept == OracleTyped /\ [OracleNext]_oracleVars => OracleTyped'
<1> SUFFICES ASSUME OracleTyped, [OracleNext]_oracleVars PROVE OracleTyped'
  OBVIOUS
<1> USE OracleAssumption
<1>1. ASSUME NEW n \in Scales, setDecimals(n) PROVE OracleTyped'
  <2>1. Scales \subseteq Nat
    BY WordIs
  <2> QED
    BY <1>1, <2>1 DEF setDecimals, maps, OracleTyped
<1>2. ASSUME NEW n \in 1..2, NEW assets \in [1..n -> Underlyings], NEW prices \in [1..n -> Prices],
             setPrices(assets, prices)
      PROVE  OracleTyped'
  <2>1. Len(assets) = n
    BY SMT
  <2>2. \A k \in Underlyings : k < n => k + 1 \in 1..n
    BY SMT
  <2>3. priceMap' \in [Underlyings -> Words]
    BY <1>2, <2>1, <2>2 DEF setPrices, OracleTyped
  <2> QED
    BY <1>2, <2>3 DEF setPrices, OracleTyped
<1>3. ASSUME NEW k \in Underlyings, NEW p \in Prices, setPrice(k, p) PROVE OracleTyped'
  BY <1>3 DEF setPrice, OracleTyped
<1>4. ASSUME NEW k \in Underlyings, NEW a \in Aggregators \cup {none}, NEW d \in TokenDecimals,
             setAssetsAggregator(k, a, d)
      PROVE  OracleTyped'
  BY <1>4 DEF setAssetsAggregator, OracleTyped
<1>5. ASSUME NEW a \in Aggregators, NEW p \in Answers, newRound(a, p) PROVE OracleTyped'
  BY <1>5 DEF newRound, maps, OracleTyped
<1>6. CASE UNCHANGED oracleVars
  BY <1>6 DEF oracleVars, maps, OracleTyped
<1> QED
  BY <1>1, <1>2, <1>3, <1>4, <1>5, <1>6
  DEF OracleNext, setUnderlyingPrice, setUnderlyingAggregator

\* The oracle's maps hold what they should in every reachable state.
THEOREM OracleTypeCorrect == OracleSpec => []OracleTyped
<1>1. OracleInit => OracleTyped
  <2>1. 0 \in Words
    <3>1. PICK w \in Nat \ {0} : w = power(2, Width)
      BY WordIs
    <3>2. 0 \in 0..(w - 1)
      BY SMT
    <3> QED
      BY <3>1, <3>2 DEF Words
  <2>2. 0 \in Nat /\ 1 \in Nat
    OBVIOUS
  <2>3. \A f \in [Aggregators -> Answers] : f \in [Aggregators -> Int]
    BY OracleAssumption
  <2> QED
    BY <2>1, <2>2, <2>3 DEF OracleInit, OracleTyped
<1> QED
  BY <1>1, OracleKept, PTL DEF OracleSpec

\* What a feed answers per unit of the oracle's precision is a word.
LEMMA PerUnitWord ==
  ASSUME OracleTyped, NEW k \in Underlyings, hasFeed(k), decimals # 0
  PROVE  perUnit(k) \in Nat
<1>1. answer[assetsMap[k]] \in Int
  BY DEF OracleTyped, hasFeed
<1>2. uint(answer[assetsMap[k]]) \in Nat
  BY <1>1, WordIs
<1>3. \A n \in Nat, d \in Nat \ {0} : n \div d \in Nat
  BY SMT
<1> QED
  BY <1>2, <1>3 DEF perUnit, OracleTyped

\* Where the scaled price fits a word, the scale is the power of ten it stands for.
LEMMA ScaleIs ==
  ASSUME NEW d \in Nat, d < Precision, power(10, Precision) \in Words
  PROVE  scale(d) = power(10, Precision - d)
<1> DEFINE e == Precision - d
<1>1. e \in Nat /\ e <= Precision /\ Precision \in Nat /\ Width \in Nat
  BY OracleAssumption, SMT
<1>2. PICK w \in Nat \ {0} : w = power(2, Width)
  BY WordIs
<1>3. \A n \in Nat : n \in Words <=> n < w
  BY <1>2, SMT DEF Words
<1>4. PICK x \in Nat \ {0}, y \in Nat \ {0} : x = power(10, e) /\ y = power(10, Precision)
  BY <1>1, PowerPositive
<1> HIDE DEF e
<1>5. x <= y /\ y < w
  <2>1. x <= y
    BY <1>1, <1>4, PowerMono
  <2>2. y < w
    BY <1>3, <1>4
  <2> QED
    BY <2>1, <2>2
<1>6. PICK z \in Nat \ {0} : z = power(2, e) /\ e < z /\ z <= x
  BY <1>1, <1>4, PowerPositive, PowerLarge
<1>7. e < w
  BY <1>1, <1>5, <1>6, SMT
<1>8. e < Width
  <2>1. SUFFICES ASSUME Width <= e PROVE FALSE
    BY <1>1, SMT
  <2>2. w <= z
    BY <1>1, <1>2, <1>6, <2>1, PowerMono
  <2> QED
    BY <1>5, <1>6, <2>2, SMT
<1>9. uint(e) = e
  BY <1>1, <1>3, <1>7, WordIs
<1>10. x < w
  BY <1>5, SMT
<1>11. uint(power(10, e)) = power(10, e)
  BY <1>3, <1>4, <1>10, WordIs
<1>12. ~(e >= Width)
  BY <1>1, <1>8, SMT
<1> QED
  BY <1>9, <1>11, <1>12 DEF scale, powerOfTen, e

\* At an answer of 0 the price is 0, whatever the scale.
LEMMA NoPrice ==
  ASSUME NEW d \in Nat PROVE uint(0 * scale(d)) = 0
<1>1. 0 \in Words
  <2>1. PICK w \in Nat \ {0} : w = power(2, Width)
    BY WordIs
  <2>2. 0 \in 0..(w - 1)
    BY SMT
  <2> QED
    BY <2>1, <2>2 DEF Words
<1>2. scale(d) \in Int
  <2>1. Precision - d \in Int
    BY OracleAssumption, SMT
  <2>2. uint(Precision - d) \in Nat
    BY <2>1, WordIs
  <2>3. power(10, uint(Precision - d)) \in Int
    BY <2>2, PowerPositive, SMT
  <2>4. uint(power(10, uint(Precision - d))) \in Nat
    BY <2>3, WordIs
  <2> QED
    BY <2>4, SMT DEF scale, powerOfTen
<1>3. PICK s \in Int : s = scale(d)
  BY <1>2
<1>4. 0 * s = 0
  BY SMT
<1> QED
  BY <1>1, <1>3, <1>4, WordIs

\* The price of a base unit times the units of a token is the token's price at
\* the common precision.
LEMMA Cancels ==
  ASSUME OracleTyped, NEW k \in Underlyings, hasFeed(k), quotes(k),
         decimalsMap[k] <= Precision, perUnit(k) * power(10, Precision) \in Words
  PROVE  getUnderlyingPrice(k) * power(10, decimalsMap[k]) = perUnit(k) * power(10, Precision)
<1> DEFINE d == decimalsMap[k]
           e == Precision - d
<1>1. d \in Nat /\ Precision \in Nat /\ e \in Nat /\ d + e = Precision /\ e + d = Precision
  <2>1. d \in Nat /\ Precision \in Nat
    BY OracleAssumption DEF OracleTyped
  <2> QED
    BY <2>1, SMT
<1>2. PICK u \in Nat : u = perUnit(k)
  BY PerUnitWord DEF quotes
<1> HIDE DEF d, e
<1>3. PICK x \in Nat \ {0}, y \in Nat \ {0}, z \in Nat \ {0} :
        x = power(10, e) /\ y = power(10, d) /\ z = power(10, Precision)
  <2>1. 10 \in Nat \ {0}
    OBVIOUS
  <2> QED
    BY <1>1, <2>1, PowerPositive
<1>4. x * y = z
  <2>1. power(10, e) * power(10, d) = power(10, e + d)
    BY <1>1, PowerOfSum
  <2> QED
    BY <1>1, <1>3, <2>1
<1>5. CASE d = Precision
  <2>1. ~(d < Precision) /\ ~(d > Precision)
    BY <1>1, <1>5, SMT
  <2>2. getUnderlyingPrice(k) = u
    BY <1>2, <2>1 DEF getUnderlyingPrice, d
  <2> QED
    BY <1>2, <1>3, <1>5, <2>2 DEF d
<1>6. CASE d < Precision /\ u = 0
  <2>1. getUnderlyingPrice(k) = 0
    BY <1>1, <1>2, <1>6, NoPrice DEF getUnderlyingPrice, d
  <2>2. 0 * y = 0 /\ 0 * z = 0
    BY SMT
  <2> QED
    BY <1>2, <1>3, <1>6, <2>1, <2>2 DEF d
<1>7. CASE d < Precision /\ u # 0
  <2>1. PICK w \in Nat \ {0} : w = power(2, Width)
    BY WordIs
  <2>2. \A n \in Nat : n \in Words <=> n < w
    BY <2>1, SMT DEF Words
  <2>3. u * z \in Nat /\ u * z < w
    <3>1. u * z \in Nat
      BY SMT
    <3>2. u * z \in Words
      BY <1>2, <1>3
    <3> QED
      BY <2>2, <3>1, <3>2
  <2>4. z < w /\ u * x \in Nat /\ u * x < w /\ (u * x) * y = u * z
    <3>1. z <= u * z
      BY <1>7, SMT
    <3>2. u * x \in Nat /\ u * z \in Nat /\ (u * x) * y = u * z
      BY <1>4, SMT
    <3>3. u * x <= (u * x) * y
      BY <3>2, SMT
    <3> QED
      BY <2>3, <3>1, <3>2, <3>3, SMT
  <2>5. scale(d) = x
    BY <1>1, <1>3, <1>7, <2>2, <2>4, ScaleIs DEF e
  <2>6. uint(u * x) = u * x
    BY <2>2, <2>4, WordIs
  <2>7. getUnderlyingPrice(k) = u * x
    BY <1>2, <1>7, <2>5, <2>6 DEF getUnderlyingPrice, d
  <2> QED
    BY <1>2, <1>3, <2>4, <2>7 DEF d
<1>8. d <= Precision
  BY DEF d
<1> QED
  BY <1>1, <1>5, <1>6, <1>7, <1>8, SMT

\* Whatever prices are set, feeds replaced and decimals registered, and for every
\* width of a word: prices of tokens with different decimals are comparable.
THEOREM UnitsDoCancel == OracleSpec => []UnitsCancel
<1>1. OracleTyped => UnitsCancel
  BY Cancels DEF UnitsCancel
<1> QED
  BY <1>1, OracleTypeCorrect, PTL
=============================================================================
