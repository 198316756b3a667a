----------------------- MODULE ContractListenerProofs -----------------------
(***************************************************************************)
(* That the listener loses no log it has read and handles none twice, for   *)
(* any number of workers and any size of the channel and of the client's    *)
(* buffer.                                                                  *)
(*                                                                          *)
(* A log on its way is in exactly one place: with ScanHistory, in the       *)
(* client's buffer or in SubscribeLoop's hands (Waiting), in the channel    *)
(* (Queued), with a worker (Taken), or handled (done).  Every step moves it *)
(* from one to the next (Apart), and a log of the history never passes      *)
(* through what a lost connection takes with it (HistoryKept).              *)
(***************************************************************************)
EXTENDS ContractListener, TLAPS

Waiting == ToSet(rest) \cup ToSet(buffer) \cup ({held} \ {0})
Queued == ToSet(logs)
Taken == {worker[w] : w \in Workers} \ {0}

\* Before the history has been read nothing is under way, and before the
\* process has started its loop there is no subscription.
InOrder ==
  /\ main \notin {"send", "started"} =>
       /\ rest = <<>> /\ logs = <<>>
       /\ \A w \in Workers : worker[w] = 0
       /\ \A n \in Ids : handled[n] = 0
  /\ main # "started" => sub = "none" /\ buffer = <<>> /\ held = 0
  /\ main = "started" => rest = <<>>

Safe == ToSet(rest) \cup Queued \cup Taken \cup done
Everywhere == Waiting \cup Queued \cup Taken \cup done

\* No log is on its way before it is on the chain, and none is in two places.
Known == \A n \in Everywhere : n <= Len(chain)

Separate ==
  /\ Waiting \cap Queued = {} /\ Waiting \cap Taken = {} /\ Waiting \cap done = {}
  /\ Queued \cap Taken = {} /\ Queued \cap done = {} /\ Taken \cap done = {}

NoRepeats ==
  /\ IsInjective(rest) /\ IsInjective(buffer) /\ IsInjective(logs)
  /\ held \notin ToSet(buffer)
  /\ \A v, w \in Workers : worker[v] = worker[w] /\ worker[v] # 0 => v = w

HistoryKept ==
  main \in {"send", "started"} => \A n \in deposits : n <= latest => n \in Safe

LiveKept == sub = "live" => \A n \in deposits : n > since => n \in Everywhere

Apart == Known /\ Separate /\ NoRepeats
Kept == HistoryKept /\ LiveKept
IInv == TypeOK /\ InOrder /\ Apart /\ Kept

-----------------------------------------------------------------------------
(* Sequences as queues.                                                     *)

\* The empty queue.
LEMMA EmptyQueue ==
  ASSUME NEW S
  PROVE  << >> \in Seq(S) /\ Len(<< >>) = 0 /\ ToSet(<< >>) = {} /\ IsInjective(<< >>)
BY DEF ToSet, IsInjective

\* What is in a queue.
LEMMA Members ==
  ASSUME NEW S, NEW s \in Seq(S)
  PROVE  ToSet(s) \subseteq S
<1>1. \A i \in DOMAIN s : s[i] \in S
  OBVIOUS
<1> QED
  BY <1>1 DEF ToSet

\* What leaves a queue at its head, and what stays.
LEMMA Dequeued ==
  ASSUME NEW S, NEW s \in Seq(S), s # << >>
  PROVE  /\ Head(s) \in S /\ Tail(s) \in Seq(S)
         /\ Len(Tail(s)) = Len(s) - 1 /\ Len(s) \in Nat
         /\ ToSet(s) = {Head(s)} \cup ToSet(Tail(s))
         /\ IsInjective(s) => IsInjective(Tail(s)) /\ Head(s) \notin ToSet(Tail(s))
<1> DEFINE t == Tail(s)
<1>1. /\ Len(s) \in Nat /\ Len(s) > 0 /\ DOMAIN s = 1..Len(s)
      /\ t \in Seq(S) /\ Len(t) = Len(s) - 1 /\ DOMAIN t = 1..(Len(s) - 1)
      /\ \A i \in 1..(Len(s) - 1) : t[i] = s[i + 1]
      /\ Head(s) = s[1] /\ s[1] \in S
  OBVIOUS
<1> HIDE DEF t
<1>2. ToSet(s) = {s[1]} \cup ToSet(t)
  <2>1. ASSUME NEW x \in ToSet(s) PROVE x \in {s[1]} \cup ToSet(t)
    <3>1. PICK i \in 1..Len(s) : x = s[i]
      BY <1>1, <2>1 DEF ToSet
    <3>2. CASE i = 1
      BY <3>1, <3>2
    <3>3. CASE i # 1
      <4>1. i - 1 \in 1..(Len(s) - 1) /\ t[i - 1] = s[i - 1 + 1] /\ i - 1 + 1 = i
        BY <1>1, <3>3
      <4> QED
        BY <4>1, <3>1, <1>1 DEF ToSet
    <3> QED
      BY <3>2, <3>3
  <2>2. s[1] \in ToSet(s)
    BY <1>1 DEF ToSet
  <2>3. ASSUME NEW x \in ToSet(t) PROVE x \in ToSet(s)
    <3>1. PICK i \in 1..(Len(s) - 1) : x = t[i]
      BY <1>1, <2>3 DEF ToSet
    <3>2. i + 1 \in 1..Len(s) /\ x = s[i + 1]
      BY <1>1, <3>1
    <3> QED
      BY <3>2, <1>1 DEF ToSet
  <2> QED
    BY <2>1, <2>2, <2>3
<1>3. ASSUME IsInjective(s) PROVE IsInjective(t) /\ s[1] \notin ToSet(t)
  <2>1. ASSUME NEW i \in 1..Len(s), NEW j \in 1..Len(s), s[i] = s[j] PROVE i = j
    BY <1>1, <1>3, <2>1 DEF IsInjective
  <2>2. ASSUME NEW i \in DOMAIN t, NEW j \in DOMAIN t, t[i] = t[j] PROVE i = j
    <3>1. i + 1 \in 1..Len(s) /\ j + 1 \in 1..Len(s) /\ s[i + 1] = s[j + 1] /\ i \in Int /\ j \in Int
      BY <1>1, <2>2
    <3>2. i + 1 = j + 1
      BY <2>1, <3>1
    <3> QED
      BY <3>1, <3>2
  <2>3. ASSUME s[1] \in ToSet(t) PROVE FALSE
    <3>1. PICK i \in 1..(Len(s) - 1) : s[1] = t[i]
      BY <1>1, <2>3 DEF ToSet
    <3>2. i + 1 \in 1..Len(s) /\ 1 \in 1..Len(s) /\ s[i + 1] = s[1] /\ i + 1 # 1
      BY <1>1, <3>1
    <3> QED
      BY <2>1, <3>2
  <2> QED
    BY <2>2, <2>3 DEF IsInjective
<1> QED
  BY <1>1, <1>2, <1>3 DEF t

\* What enters a queue at its end.
LEMMA Enqueued ==
  ASSUME NEW S, NEW s \in Seq(S), NEW e \in S
  PROVE  /\ Append(s, e) \in Seq(S) /\ Len(Append(s, e)) = Len(s) + 1 /\ Len(s) \in Nat
         /\ ToSet(Append(s, e)) = ToSet(s) \cup {e}
         /\ IsInjective(s) /\ e \notin ToSet(s) => IsInjective(Append(s, e))
<1> DEFINE t == Append(s, e)
<1>1. /\ Len(s) \in Nat /\ DOMAIN s = 1..Len(s)
      /\ t \in Seq(S) /\ Len(t) = Len(s) + 1 /\ DOMAIN t = 1..(Len(s) + 1)
      /\ \A i \in 1..Len(s) : t[i] = s[i]
      /\ t[Len(s) + 1] = e
  OBVIOUS
<1> HIDE DEF t
<1>2. ToSet(t) = ToSet(s) \cup {e}
  BY <1>1 DEF ToSet
<1>3. ASSUME IsInjective(s), e \notin ToSet(s) PROVE IsInjective(t)
  BY <1>1, <1>3 DEF IsInjective, ToSet
<1> QED
  BY <1>1, <1>2, <1>3 DEF t

\* The history, in the order of the chain.
LEMMA CountedQueue ==
  ASSUME NEW k \in Nat, NEW N \in Nat, k <= N
  PROVE  /\ [n \in 1..k |-> n] \in Seq(1..N)
         /\ ToSet([n \in 1..k |-> n]) = 1..k
         /\ IsInjective([n \in 1..k |-> n])
BY DEF ToSet, IsInjective

-----------------------------------------------------------------------------
(* The invariant.                                                           *)

\* A process that starts has nothing under way.
LEMMA Initially == Init => IInv
BY ListenerAssumption, EmptyQueue
   DEF Init, IInv, TypeOK, InOrder, Apart, Known, Separate, NoRepeats, Kept, HistoryKept, LiveKept,
       Safe, Everywhere, Waiting, Queued, Taken, done, deposits, Ids

\* As long as the chain stays as it is and no place loses a log of the history,
\* nor, under a live subscription, any log, what was read is kept.
LEMMA StillKept ==
  ASSUME Kept, UNCHANGED <<chain, latest>>, Safe \subseteq Safe',
         main' \in {"send", "started"} => main \in {"send", "started"},
         sub' = "live" => sub = "live" /\ since' = since /\ Everywhere \subseteq Everywhere'
  PROVE  Kept'
BY DEF Kept, HistoryKept, LiveKept, deposits

\* A process that has nothing and waits for nothing has lost nothing.
LEMMA Blank ==
  ASSUME rest' = << >>, logs' = << >>, buffer' = << >>, held' = 0, sub' = "none",
         \A w \in Workers : worker'[w] = 0, \A n \in Ids : handled'[n] = 0
  PROVE  Apart' /\ LiveKept'
<1>1. Waiting' = {} /\ Queued' = {} /\ Taken' = {} /\ done' = {}
  BY EmptyQueue DEF Waiting, Queued, Taken, done, Ids
<1> QED
  BY <1>1, EmptyQueue DEF Apart, Known, Separate, NoRepeats, LiveKept, Everywhere

\* Every step of the goroutines and of the world keeps the invariant.
LEMMA Preserved == IInv /\ [Next]_vars => IInv'
<1> SUFFICES ASSUME TypeOK, InOrder, Apart, Kept, [Next]_vars
             PROVE  TypeOK' /\ InOrder' /\ Apart' /\ Kept'
  BY DEF IInv
<1> USE ListenerAssumption
<1> USE DEF subscription
<1>1. CASE MustDial
  <2>1. TypeOK' /\ InOrder'
    BY <1>1 DEF MustDial, TypeOK, InOrder
  <2>2. UNCHANGED <<chain, ToSet(rest), ToSet(buffer), Waiting, Queued, Taken, done>>
    BY <1>1 DEF MustDial, Waiting, Queued, Taken, done
  <2>3. Apart'
    BY <1>1, <2>2 DEF MustDial, Apart, Known, Separate, NoRepeats, Everywhere
  <2>4. Kept'
    BY <1>1, <2>2, StillKept DEF MustDial, InOrder, Safe, Everywhere
  <2> QED
    BY <2>1, <2>3, <2>4
<1>2. CASE Fatal("height") \/ Fatal("scan")
  <2>1. TypeOK' /\ InOrder'
    BY <1>2, EmptyQueue DEF Fatal, Event, TypeOK, InOrder
  <2>2. Apart' /\ LiveKept'
    BY <1>2, Blank DEF Fatal, InOrder
  <2> QED
    BY <1>2, <2>1, <2>2 DEF Fatal, Kept, HistoryKept
<1>3. CASE BlockNumber /\ main' = "scan"
  <2>1. TypeOK' /\ InOrder'
    BY <1>3 DEF BlockNumber, Fatal, TypeOK, InOrder
  <2>2. Apart' /\ LiveKept'
    BY <1>3, Blank DEF BlockNumber, Fatal, InOrder
  <2> QED
    BY <1>3, <2>1, <2>2 DEF Kept, HistoryKept
<1>4. CASE FilterLogs /\ main' = "send"
  <2>1. /\ latest \in Nat /\ latest <= MaxLogs /\ latest <= Len(chain) /\ main = "scan"
        /\ rest' = [n \in 1..latest |-> n]
    BY <1>4 DEF FilterLogs, Fatal, TypeOK
  <2>2. rest' \in Seq(Ids) /\ ToSet(rest') = 1..latest /\ IsInjective(rest')
    BY <2>1, CountedQueue DEF Ids
  <2>3. TypeOK' /\ InOrder'
    BY <1>4, <2>1, <2>2 DEF FilterLogs, Fatal, TypeOK, InOrder
  <2>4. Waiting' = 1..latest /\ Queued' = {} /\ Taken' = {} /\ done' = {} /\ Safe' = 1..latest
    <3>1. /\ logs' = << >> /\ buffer' = << >> /\ held' = 0
          /\ (\A w \in Workers : worker'[w] = 0) /\ (\A i \in Ids : handled'[i] = 0)
      BY <1>4, <2>1 DEF FilterLogs, Fatal, InOrder
    <3>2. Queued' = {} /\ Taken' = {}
      BY <3>1, EmptyQueue DEF Queued, Taken
    <3>3. done' = {}
      BY <3>1 DEF done
    <3>4. Waiting' = 1..latest
      BY <2>2, <3>1, EmptyQueue DEF Waiting
    <3> QED
      BY <2>2, <3>2, <3>3, <3>4 DEF Safe
  <2>5. Apart'
    BY <1>4, <2>1, <2>2, <2>4, EmptyQueue
    DEF FilterLogs, Fatal, InOrder, Apart, Known, Separate, NoRepeats, Everywhere
  <2>6. Kept'
    BY <1>4, <2>1, <2>4 DEF FilterLogs, Fatal, InOrder, Kept, HistoryKept, LiveKept, deposits
  <2> QED
    BY <2>3, <2>5, <2>6
<1>5. CASE SendHistory
  <2> DEFINE n == Head(rest)
  <2>1. rest \in Seq(Ids) /\ rest # << >> /\ logs \in Seq(Ids) /\ IsInjective(rest) /\ IsInjective(logs)
        /\ main = "send" /\ buffer = << >> /\ held = 0
    BY <1>5 DEF SendHistory, TypeOK, InOrder, Apart, NoRepeats
  <2>2. n \in Ids /\ rest' \in Seq(Ids) /\ ToSet(rest) = {n} \cup ToSet(rest')
        /\ IsInjective(rest') /\ n \notin ToSet(rest')
    BY <1>5, <2>1, Dequeued DEF SendHistory
  <2>3. logs' \in Seq(Ids) /\ Len(logs') <= ChannelCap /\ ToSet(logs') = ToSet(logs) \cup {n}
        /\ (n \notin ToSet(logs) => IsInjective(logs'))
    BY <1>5, <2>1, <2>2, Enqueued DEF SendHistory, Send
  <2> HIDE DEF n
  <2>4. TypeOK' /\ InOrder'
    BY <1>5, <2>2, <2>3 DEF SendHistory, TypeOK, InOrder
  <2>5. /\ n \in Waiting /\ Waiting' = Waiting \ {n} /\ Queued' = Queued \cup {n}
        /\ Taken' = Taken /\ done' = done /\ chain' = chain
    BY <1>5, <2>1, <2>2, <2>3, EmptyQueue DEF SendHistory, Waiting, Queued, Taken, done
  <2>6. Apart'
    BY <1>5, <2>1, <2>2, <2>3, <2>5 DEF SendHistory, Apart, Known, Separate, NoRepeats, Everywhere, Queued
  <2>7. Kept'
    BY <1>5, <2>2, <2>5, StillKept DEF SendHistory, Safe, Everywhere
  <2> QED
    BY <2>4, <2>6, <2>7
<1>6. CASE GoSubscribe
  <2>1. TypeOK' /\ InOrder'
    BY <1>6 DEF GoSubscribe, TypeOK, InOrder
  <2>2. UNCHANGED <<chain, ToSet(rest), ToSet(buffer), Waiting, Queued, Taken, done>>
    BY <1>6 DEF GoSubscribe, Waiting, Queued, Taken, done
  <2>3. Apart'
    BY <1>6, <2>2 DEF GoSubscribe, Apart, Known, Separate, NoRepeats, Everywhere
  <2>4. Kept'
    BY <1>6, <2>2, StillKept DEF GoSubscribe, InOrder, Safe, Everywhere
  <2> QED
    BY <2>1, <2>3, <2>4
<1>7. CASE Subscribe
  <2>1. TypeOK' /\ InOrder'
    BY <1>7 DEF Subscribe, TypeOK, InOrder
  <2>2. UNCHANGED <<chain, ToSet(rest), Waiting, Queued, Taken, done>>
    BY <1>7 DEF Subscribe, Waiting, Queued, Taken, done
  <2>3. Apart'
    BY <1>7, <2>2 DEF Subscribe, Apart, Known, Separate, NoRepeats, Everywhere
  <2>4. Kept'
    BY <1>7, <2>2 DEF Subscribe, TypeOK, Kept, HistoryKept, LiveKept, deposits, Safe
  <2> QED
    BY <2>1, <2>3, <2>4
<1>8. CASE Receive
  <2> DEFINE n == Head(buffer)
  <2>1. buffer \in Seq(Ids) /\ buffer # << >> /\ IsInjective(buffer) /\ held = 0 /\ held' = n
    BY <1>8 DEF Receive, TypeOK, Apart, NoRepeats
  <2>2. n \in Ids /\ buffer' \in Seq(Ids) /\ Len(buffer') = Len(buffer) - 1 /\ Len(buffer) \in Nat
        /\ ToSet(buffer) = {n} \cup ToSet(buffer') /\ IsInjective(buffer') /\ n \notin ToSet(buffer')
    BY <1>8, <2>1, Dequeued DEF Receive
  <2> HIDE DEF n
  <2>3. n \in Waiting /\ UNCHANGED <<chain, Waiting, Queued, Taken, done>>
    BY <1>8, <2>1, <2>2 DEF Receive, Waiting, Queued, Taken, done, Ids
  <2>4. n <= Len(chain) /\ Len(chain) \in Nat
    BY <2>3 DEF Apart, Known, Everywhere, TypeOK
  <2>5. TypeOK' /\ InOrder'
    <3>1. held' \in 0..Len(chain) /\ Len(buffer') <= BufferCap
      BY <2>1, <2>2, <2>4 DEF TypeOK, Ids
    <3> QED
      BY <1>8, <2>1, <2>2, <3>1 DEF Receive, TypeOK, InOrder
  <2>6. Apart'
    BY <1>8, <2>1, <2>2, <2>3 DEF Receive, Apart, Known, Separate, NoRepeats, Everywhere
  <2>7. Kept'
    BY <1>8, <2>3, StillKept DEF Receive, Safe, Everywhere
  <2> QED
    BY <2>5, <2>6, <2>7
<1>9. CASE Forward
  <2>1. logs \in Seq(Ids) /\ IsInjective(logs) /\ held \in Ids /\ held # 0 /\ held' = 0
    BY <1>9 DEF Forward, TypeOK, Apart, NoRepeats, Ids
  <2>2. logs' \in Seq(Ids) /\ Len(logs') <= ChannelCap /\ ToSet(logs') = ToSet(logs) \cup {held}
        /\ (held \notin ToSet(logs) => IsInjective(logs'))
    BY <1>9, <2>1, Enqueued DEF Forward, Send
  <2>3. TypeOK' /\ InOrder'
    BY <1>9, <2>1, <2>2 DEF Forward, TypeOK, InOrder
  <2>4. ToSet(rest) = {}
    BY <1>9, EmptyQueue DEF Forward, InOrder
  <2>5. held \in Waiting /\ held \notin ToSet(buffer)
    BY <2>1 DEF Waiting, Apart, NoRepeats
  <2>6. /\ Waiting' = Waiting \ {held} /\ Queued' = Queued \cup {held}
        /\ Taken' = Taken /\ done' = done /\ chain' = chain
    BY <1>9, <2>1, <2>2, <2>4, <2>5 DEF Forward, Waiting, Queued, Taken, done
  <2>7. 0 \notin ToSet(buffer)
    BY DEF TypeOK, Ids, ToSet
  <2>8. Apart'
    BY <1>9, <2>1, <2>2, <2>5, <2>6, <2>7 DEF Forward, Apart, Known, Separate, NoRepeats, Everywhere, Queued
  <2>9. Kept'
    BY <1>9, <2>5, <2>6, StillKept DEF Forward, Safe, Everywhere
  <2> QED
    BY <2>3, <2>8, <2>9
<1>10. CASE SubError
  <2>1. TypeOK' /\ InOrder'
    BY <1>10 DEF SubError, TypeOK, InOrder
  <2>2. UNCHANGED <<chain, ToSet(rest), ToSet(buffer), Waiting, Queued, Taken, done>>
    BY <1>10 DEF SubError, Waiting, Queued, Taken, done
  <2>3. Apart'
    BY <1>10, <2>2 DEF SubError, Apart, Known, Separate, NoRepeats, Everywhere
  <2>4. Kept'
    BY <1>10, <2>2, StillKept DEF SubError, InOrder, Safe, Everywhere
  <2> QED
    BY <2>1, <2>3, <2>4
<1>11. CASE \E w \in Workers : TakeJob(w)
  <2>1. PICK w \in Workers : TakeJob(w)
    BY <1>11
  <2> DEFINE n == Head(logs)
  <2>2. logs \in Seq(Ids) /\ logs # << >> /\ IsInjective(logs) /\ worker[w] = 0 /\ logs' = Tail(logs)
        /\ worker' = [worker EXCEPT ![w] = n] /\ worker \in [Workers -> 0..Len(chain)]
    BY <2>1 DEF TakeJob, TypeOK, Apart, NoRepeats
  <2>3. n \in Ids /\ logs' \in Seq(Ids) /\ Len(logs') = Len(logs) - 1 /\ Len(logs) \in Nat
        /\ ToSet(logs) = {n} \cup ToSet(logs') /\ IsInjective(logs') /\ n \notin ToSet(logs')
    BY <2>2, Dequeued
  <2> HIDE DEF n
  <2>4. Queued' = Queued \ {n} /\ n \in Queued
    BY <2>3 DEF Queued
  <2>5. Taken' = Taken \cup {n} /\ n # 0
    BY <2>2, <2>3 DEF Taken, Ids
  <2>6. UNCHANGED <<chain, ToSet(rest), Waiting, done>>
    BY <2>1 DEF TakeJob, Waiting, done
  <2>7. n \in 0..Len(chain) /\ n \notin Taken
    BY <2>3, <2>4 DEF Apart, Known, Separate, Everywhere, Ids, TypeOK
  <2>8. TypeOK' /\ InOrder'
    <3>1. worker' \in [Workers -> 0..Len(chain)] /\ Len(logs') <= ChannelCap
      BY <2>2, <2>3, <2>7 DEF TypeOK
    <3>2. main \in {"send", "started"}
      BY <2>2 DEF InOrder, TypeOK
    <3> QED
      BY <2>1, <2>3, <3>1, <3>2 DEF TakeJob, TypeOK, InOrder
  <2>9. NoRepeats'
    BY <2>1, <2>2, <2>3, <2>5, <2>7 DEF TakeJob, Apart, NoRepeats, Taken
  <2>10. Apart'
    BY <2>4, <2>5, <2>6, <2>9 DEF Apart, Known, Separate, Everywhere
  <2>11. Kept'
    BY <2>1, <2>4, <2>5, <2>6, StillKept DEF TakeJob, Safe, Everywhere
  <2> QED
    BY <2>8, <2>10, <2>11
<1>12. CASE \E w \in Workers : HandleDeposit(w)
  <2>1. PICK w \in Workers : HandleDeposit(w)
    BY <1>12
  <2> DEFINE n == worker[w]
  <2>2. n \in 1..Len(chain) /\ n \in Ids /\ n \in Taken /\ worker' = [worker EXCEPT ![w] = 0]
        /\ worker \in [Workers -> 0..Len(chain)] /\ UNCHANGED <<chain, main, latest, rest, logs, subscription, events>>
    BY <2>1 DEF HandleDeposit, TypeOK, Ids, Taken
  <2>3. Taken' = Taken \ {n}
    BY <2>2 DEF Taken, Apart, NoRepeats
  <2>4. handled' = IF n \in deposits THEN [handled EXCEPT ![n] = @ + 1] ELSE handled
    BY <2>1, <2>2 DEF HandleDeposit, Count, deposits, TypeOK
  <2>5. handled' \in [Ids -> Nat] /\ done' = done \cup ({n} \cap deposits)
    BY <2>2, <2>4 DEF done, TypeOK
  <2> HIDE DEF n
  <2>6. UNCHANGED <<ToSet(rest), Waiting, Queued, deposits>>
    BY <2>2 DEF Waiting, Queued, deposits
  <2>7. TypeOK' /\ InOrder'
    <3>1. worker' \in [Workers -> 0..Len(chain)]
      BY <2>2
    <3>2. main \in {"send", "started"}
      BY <2>1 DEF HandleDeposit, InOrder, TypeOK
    <3> QED
      BY <2>2, <2>5, <3>1, <3>2 DEF TypeOK, InOrder
  <2>8. NoRepeats'
    BY <2>2 DEF Apart, NoRepeats
  <2>9. Apart'
    BY <2>2, <2>3, <2>5, <2>6, <2>8 DEF Apart, Known, Separate, Everywhere
  <2>10. Kept'
    BY <2>2, <2>3, <2>5, <2>6 DEF Kept, HistoryKept, LiveKept, Safe, Everywhere
  <2> QED
    BY <2>7, <2>9, <2>10
<1>13. CASE \E kind \in Kinds : Emit(kind)
  <2>1. PICK kind \in Kinds : Emit(kind)
    BY <1>13
  <2> DEFINE n == Len(chain) + 1
  <2>2. chain \in Seq(Kinds) /\ chain' = Append(chain, kind) /\ n \in Ids /\ Len(chain) \in Nat
        /\ UNCHANGED <<main, latest, rest, logs, worker, held, since, handled, events>>
    BY <2>1 DEF Emit, TypeOK, Ids
  <2>3. chain' \in Seq(Kinds) /\ Len(chain') = n /\ DOMAIN chain = 1..Len(chain) /\ DOMAIN chain' = 1..n
        /\ \A i \in 1..Len(chain) : chain'[i] = chain[i]
    BY <2>2
  <2>4. \A i \in deposits' : i \in deposits \/ i = n
    BY <2>2, <2>3 DEF deposits
  <2>5. buffer \in Seq(Ids) /\ Len(buffer) <= BufferCap /\ IsInjective(buffer)
    BY DEF TypeOK, Apart, NoRepeats
  <2>6. n \notin Everywhere /\ n # held
    BY <2>2 DEF Apart, Known, TypeOK
  <2>7. \/ buffer' = buffer /\ sub' = sub /\ sub # "live"
        \/ buffer' = << >> /\ sub = "live" /\ sub' = "failed"
        \/ buffer' = Append(buffer, n) /\ Len(buffer) < BufferCap /\ sub' = sub /\ sub = "live"
    BY <2>1, <2>2, <2>3, <2>5 DEF Emit
  <2>8. buffer' \in Seq(Ids) /\ Len(buffer') <= BufferCap /\ IsInjective(buffer')
        /\ ToSet(buffer') \subseteq ToSet(buffer) \cup {n}
        /\ (sub' = "live" => ToSet(buffer') = ToSet(buffer) \cup {n})
    <3>1. n \notin ToSet(buffer)
      BY <2>6 DEF Everywhere, Waiting
    <3> QED
      <4>1. CASE buffer' = Append(buffer, n) /\ Len(buffer) < BufferCap
        BY <4>1, <3>1, <2>2, <2>5, Enqueued
      <4>2. CASE buffer' = << >> /\ sub' = "failed"
        BY <4>2, EmptyQueue
      <4>3. CASE buffer' = buffer /\ sub' # "live"
        BY <4>3, <2>5
      <4> QED
        BY <4>1, <4>2, <4>3, <2>7
  <2> HIDE DEF n
  <2>9. /\ UNCHANGED <<ToSet(rest), Queued, Taken, done>> /\ Waiting' \subseteq Waiting \cup {n}
        /\ (sub' = "live" => Waiting' = Waiting \cup {n})
    BY <2>2, <2>8, <2>6 DEF Queued, Taken, done, Waiting, Ids
  <2>10. sub \in {"none", "live", "failed", "dead"} /\ (sub' = "live" => sub = "live")
        /\ (sub' = "none" <=> sub = "none") /\ sub' \in {"none", "live", "failed", "dead"}
        /\ (sub = "none" => buffer' = buffer)
    BY <2>7 DEF TypeOK
  <2>11. TypeOK'
    <3>1. Len(chain') <= MaxLogs /\ 0..Len(chain) \subseteq 0..Len(chain')
      BY <2>2, <2>3 DEF n, Ids
    <3>2. /\ latest' \in 0..Len(chain') /\ since' \in 0..Len(chain') /\ held' \in 0..Len(chain')
          /\ worker' \in [Workers -> 0..Len(chain')]
      BY <2>2, <3>1 DEF TypeOK
    <3> QED
      BY <2>2, <2>3, <2>8, <2>10, <3>1, <3>2 DEF TypeOK
  <2>12. InOrder'
    BY <2>2, <2>10 DEF InOrder
  <2>13. Known' /\ Separate'
    <3>1. Everywhere' \subseteq Everywhere \cup {n}
      BY <2>9 DEF Everywhere
    <3>2. \A i \in Everywhere' : i <= Len(chain')
      <4>1. \A i \in Everywhere : i \in Int
        <5>1. ToSet(rest) \subseteq Ids /\ ToSet(buffer) \subseteq Ids /\ ToSet(logs) \subseteq Ids
          BY Members DEF TypeOK
        <5> QED
          BY <5>1 DEF Everywhere, Waiting, Queued, Taken, done, TypeOK, Ids
      <4> QED
        BY <2>2, <2>3, <3>1, <4>1 DEF n, Apart, Known
    <3>3. Separate'
      BY <2>6, <2>9 DEF Apart, Separate, Everywhere
    <3> QED
      BY <3>2, <3>3 DEF Known
  <2>14. NoRepeats'
    BY <2>2, <2>6, <2>8 DEF Apart, NoRepeats
  <2>15. HistoryKept'
    <3>1. latest < n
      BY <2>2 DEF n, TypeOK
    <3>2. UNCHANGED Safe
      BY <2>9 DEF Safe
    <3>3. ASSUME NEW i \in deposits', i <= latest PROVE i \in deposits
      BY <2>2, <2>4, <3>1, <3>3 DEF n, TypeOK
    <3> QED
      BY <2>2, <3>2, <3>3 DEF Kept, HistoryKept
  <2>16. LiveKept'
    BY <2>2, <2>4, <2>9, <2>10 DEF Kept, LiveKept, Everywhere
  <2> QED
    BY <2>11, <2>12, <2>13, <2>14, <2>15, <2>16 DEF Apart, Kept
<1>14. CASE Disconnect
  <2>1. TypeOK' /\ InOrder'
    BY <1>14, EmptyQueue DEF Disconnect, Event, TypeOK, InOrder
  <2>2. UNCHANGED <<chain, ToSet(rest), Queued, Taken, done>> /\ Waiting' \subseteq Waiting
    BY <1>14, EmptyQueue DEF Disconnect, Waiting, Queued, Taken, done
  <2>3. Apart'
    BY <1>14, <2>2, EmptyQueue DEF Disconnect, Apart, Known, Separate, NoRepeats, Everywhere
  <2>4. Kept'
    BY <1>14, <2>2, StillKept DEF Disconnect, Safe
  <2> QED
    BY <2>1, <2>3, <2>4
<1>15. CASE Restart
  <2>1. TypeOK' /\ InOrder'
    <3>1. 0 \in 0..Len(chain) /\ 0 <= ChannelCap /\ 0 <= BufferCap
      BY DEF TypeOK
    <3>2. worker' \in [Workers -> 0..Len(chain)] /\ handled' \in [Ids -> Nat] /\ events' \in 0..MaxEvents
      BY <1>15, <3>1 DEF Restart, Event, TypeOK
    <3> QED
      BY <1>15, <3>1, <3>2, EmptyQueue DEF Restart, TypeOK, InOrder
  <2>2. Apart' /\ LiveKept'
    BY <1>15, Blank DEF Restart, Ids
  <2> QED
    BY <1>15, <2>1, <2>2 DEF Restart, Kept, HistoryKept
<1>16. CASE UNCHANGED vars
  <2>1. TypeOK' /\ InOrder'
    BY <1>16 DEF vars, TypeOK, InOrder
  <2>2. UNCHANGED <<chain, ToSet(rest), ToSet(buffer), Waiting, Queued, Taken, done>>
    BY <1>16 DEF vars, Waiting, Queued, Taken, done
  <2>3. Apart'
    BY <1>16, <2>2 DEF vars, Apart, Known, Separate, NoRepeats, Everywhere
  <2>4. Kept'
    BY <1>16, <2>2, StillKept DEF vars, InOrder, Safe, Everywhere
  <2> QED
    BY <2>1, <2>3, <2>4
<1> QED
  <2>1. Main => \/ MustDial \/ Fatal("height") \/ Fatal("scan") \/ (BlockNumber /\ main' = "scan")
                \/ (FilterLogs /\ main' = "send") \/ SendHistory \/ GoSubscribe
    <3>1. BlockNumber => Fatal("height") \/ (BlockNumber /\ main' = "scan")
      BY DEF BlockNumber, Fatal
    <3>2. FilterLogs => Fatal("scan") \/ (FilterLogs /\ main' = "send")
      BY DEF FilterLogs, Fatal
    <3> QED
      BY <3>1, <3>2 DEF Main, ScanHistory
  <2>2. SubscribeLoop => Subscribe \/ Receive \/ Forward \/ SubError
    BY DEF SubscribeLoop
  <2>3. (\E w \in Workers : Work(w)) =>
          (\E w \in Workers : TakeJob(w)) \/ (\E w \in Workers : HandleDeposit(w))
    BY DEF Work
  <2>4. CASE Main
    BY <2>1, <2>4, <1>1, <1>2, <1>3, <1>4, <1>5, <1>6
  <2>5. CASE SubscribeLoop
    BY <2>2, <2>5, <1>7, <1>8, <1>9, <1>10
  <2>6. CASE \E w \in Workers : Work(w)
    BY <2>3, <2>6, <1>11, <1>12
  <2> QED
    BY <2>4, <2>5, <2>6, <1>13, <1>14, <1>15, <1>16 DEF Next
-----------------------------------------------------------------------------
(* The theorems.                                                            *)

\* Every log is in one place, on every step of the way (main, ScanHistory,
\* SubscribeLoop, worker.Start).
THEOREM Invariant == Spec => []IInv
BY Initially, Preserved, PTL DEF Spec

\* For any number of workers and any size of the channel and of the client's
\* buffer, no deposit that the history scan has read, and none emitted under a
\* live subscription, is lost between the goroutines (NothingLost).
THEOREM LosesNothing == Spec => []NothingLost
<1>1. IInv => NothingLost
  BY DEF IInv, Kept, HistoryKept, LiveKept, NothingLost, inTransit, Safe, Everywhere, Waiting, Queued, Taken
<1> QED
  BY <1>1, Invariant, PTL

\* The listener's start is the start of a delivery.
LEMMA DeliveryInit == Init => Delivery!Init
BY DEF Init, Delivery!Init, deposits

\* Each step is one of a delivery, or none: a log emitted, a log handled that
\* was not handled before, or a new life.
LEMMA DeliveryStep == IInv /\ [Next]_vars => [Delivery!Next]_<<deposits, handled>>
<1> SUFFICES ASSUME IInv, [Next]_vars PROVE [Delivery!Next]_<<deposits, handled>>
  OBVIOUS
<1> USE ListenerAssumption
<1>1. CASE Main \/ SubscribeLoop \/ Disconnect \/ UNCHANGED vars \/ \E w \in Workers : TakeJob(w)
  <2>1. UNCHANGED <<chain, handled>>
    BY <1>1 DEF Main, MustDial, BlockNumber, ScanHistory, FilterLogs, Fatal, SendHistory, GoSubscribe,
      SubscribeLoop, Subscribe, Receive, Forward, SubError, Disconnect, vars, TakeJob
  <2> QED
    BY <2>1 DEF deposits
<1>2. ASSUME NEW w \in Workers, HandleDeposit(w) PROVE [Delivery!Next]_<<deposits, handled>>
  <2> DEFINE n == worker[w]
  <2>1. n \in 1..Len(chain) /\ n \in Ids /\ n \in Taken /\ UNCHANGED deposits
    BY <1>2 DEF HandleDeposit, IInv, TypeOK, Ids, Taken, deposits
  <2>2. handled' = IF n \in deposits THEN [handled EXCEPT ![n] = @ + 1] ELSE handled
    BY <1>2, <2>1 DEF HandleDeposit, Count, deposits, IInv, TypeOK
  <2>3. handled[n] = 0
    BY <2>1 DEF IInv, TypeOK, Apart, Separate, done
  <2>4. n \in deposits => handled' = [handled EXCEPT ![n] = 1]
    BY <2>1, <2>2, <2>3 DEF IInv, TypeOK
  <2> HIDE DEF n
  <2>5. CASE n \in deposits
    BY <2>1, <2>3, <2>4, <2>5 DEF Delivery!Next, Delivery!Handle
  <2>6. CASE n \notin deposits
    BY <2>1, <2>2, <2>6
  <2> QED
    BY <2>5, <2>6
<1>3. ASSUME NEW kind \in Kinds, Emit(kind) PROVE [Delivery!Next]_<<deposits, handled>>
  <2> DEFINE n == Len(chain) + 1
  <2>1. chain' = Append(chain, kind) /\ chain \in Seq(Kinds) /\ n \in Ids /\ UNCHANGED handled
    BY <1>3 DEF Emit, IInv, TypeOK, Ids
  <2>2. DOMAIN chain = 1..Len(chain) /\ DOMAIN chain' = 1..n /\ Len(chain) \in Nat
        /\ chain'[n] = kind /\ \A i \in 1..Len(chain) : chain'[i] = chain[i]
    BY <2>1
  <2>3. n \notin deposits /\ deposits' = IF kind = "DepositLend" THEN deposits \cup {n} ELSE deposits
    BY <2>2 DEF deposits
  <2> HIDE DEF n
  <2> QED
    BY <2>1, <2>3 DEF Delivery!Next, Delivery!Emit
<1>4. CASE Restart
  BY <1>4 DEF Restart, Delivery!Next, Delivery!StartOver, deposits
<1> QED
  BY <1>1, <1>2, <1>3, <1>4 DEF Next, Work

\* The listener implements EventDelivery: in each of its lives a deposit is
\* handled at most once, and only after it was emitted, though it may come with
\* the history and with the subscription (AtMostOnce).
THEOREM DeliversAtMostOnce == Spec => AtMostOnce
BY Invariant, DeliveryInit, DeliveryStep, PTL DEF Spec, AtMostOnce, Delivery!Spec
=============================================================================
