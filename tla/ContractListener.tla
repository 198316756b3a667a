-------------------------- MODULE ContractListener --------------------------
(***************************************************************************)
(* contract-listener: a process that reads the logs of the pool contract,   *)
(* first those there are and then, through a subscription, those that come, *)
(* and has workers handle the deposits.  cmd/app/main.go, internal/chain,   *)
(* internal/worker, internal/service.                                       *)
(*                                                                          *)
(* The goroutines are main, the subscription loop and the workers; they     *)
(* share the buffered channel logs.  go-ethereum's client keeps a buffer of *)
(* its own between the node and the subscriber's channel, and ends the      *)
(* subscription when it is full.  A log is its number on the chain.         *)
(***************************************************************************)
EXTENDS Naturals, SequencesExt

CONSTANTS
  Workers,      \* goroutines of worker.Start
  ChannelCap,   \* 10000
  BufferCap,    \* external: the client's 20000
  MaxLogs,
  MaxEvents     \* calls that fail, connections lost and restarts, in all

ASSUME ListenerAssumption ==
  ChannelCap \in Nat /\ BufferCap \in Nat /\ MaxLogs \in Nat /\ MaxEvents \in Nat

Ids == 1..MaxLogs

\* Logs of DepositLend, those of it that cannot be decoded, and other logs.
Kinds == {"DepositLend", "undecodable", "other"}

VARIABLES
  chain,     \* the kinds of the contract's logs
  main,      \* where main() is
  latest,    \* the height it read
  rest,      \* history logs ScanHistory has still to send
  logs,      \* the channel
  worker,    \* the log each worker has taken, 0 when it waits for one
  sub,       \* the subscription: none yet, live, failed, or given up (dead)
  buffer,    \* logs the client has for the subscriber
  held,      \* the log SubscribeLoop has received and not yet sent, or 0
  handled,   \* how often HandleDeposit has handled each log in this life
  since,     \* history: the logs there were when the subscription began
  events

subscription == <<sub, buffer, held, since>>
vars == <<chain, main, latest, rest, logs, worker, subscription, handled, events>>

Init ==
  /\ chain = <<>>
  /\ main = "dial" /\ latest = 0 /\ rest = <<>>
  /\ logs = <<>> /\ worker = [w \in Workers |-> 0]
  /\ sub = "none" /\ buffer = <<>> /\ held = 0 /\ since = 0
  /\ handled = [n \in Ids |-> 0]
  /\ events = 0

Event == events < MaxEvents /\ events' = events + 1

-----------------------------------------------------------------------------
(* main().                                                                  *)

\* MustDial tries until it succeeds.
MustDial ==
  /\ main = "dial" /\ main' = "height"
  /\ UNCHANGED <<chain, latest, rest, logs, worker, subscription, handled, events>>

\* log.Fatal ends the process.
Fatal(pc) ==
  /\ main = pc /\ main' = "ended"
  /\ Event
  /\ worker' = [w \in Workers |-> 0] /\ logs' = <<>>
  /\ UNCHANGED <<chain, latest, rest, subscription, handled>>

BlockNumber ==
  \/ /\ main = "height" /\ main' = "scan"
     /\ latest' = Len(chain)
     /\ UNCHANGED <<chain, rest, logs, worker, subscription, handled, events>>
  \/ Fatal("height")

FilterLogs ==
  \/ /\ main = "scan" /\ main' = "send"
     /\ rest' = [n \in 1..latest |-> n]
     /\ UNCHANGED <<chain, latest, logs, worker, subscription, handled, events>>
  \/ Fatal("scan")

\* A faulty send drops the log when the channel is full.
SendOrDrop(n) == logs' = IF Len(logs) < ChannelCap THEN Append(logs, n) ELSE logs

\* A send to the channel, which waits while it is full.
Send(n) == Len(logs) < ChannelCap /\ logs' = Append(logs, n)

SendHistory ==
  /\ main = "send" /\ rest # <<>>
  /\ Send(Head(rest)) /\ rest' = Tail(rest)
  /\ UNCHANGED <<chain, main, latest, worker, subscription, handled, events>>

GoSubscribe ==
  /\ main = "send" /\ rest = <<>> /\ main' = "started"
  /\ UNCHANGED <<chain, latest, rest, logs, worker, subscription, handled, events>>

ScanHistory == FilterLogs \/ SendHistory

-----------------------------------------------------------------------------
(* SubscribeLoop.                                                           *)

\* A subscription brings the logs of later blocks; a call that fails is made
\* again.
Subscribe ==
  /\ main = "started" /\ sub = "none"
  /\ sub' = "live" /\ since' = Len(chain)
  /\ UNCHANGED <<chain, main, latest, rest, logs, worker, buffer, held, handled, events>>

Receive ==
  /\ main = "started" /\ sub = "live" /\ held = 0 /\ buffer # <<>>
  /\ held' = Head(buffer) /\ buffer' = Tail(buffer)
  /\ UNCHANGED <<chain, main, latest, rest, logs, worker, sub, since, handled, events>>

Forward ==
  /\ main = "started" /\ held # 0 /\ Send(held) /\ held' = 0
  /\ UNCHANGED <<chain, main, latest, rest, worker, sub, buffer, since, handled, events>>

\* The subscription's error is received, and break leaves the select but not the
\* loop around it: from now on the loop waits on a subscription that is over.
SubError ==
  /\ main = "started" /\ sub = "failed" /\ held = 0
  /\ sub' = "dead"
  /\ UNCHANGED <<chain, main, latest, rest, logs, worker, buffer, held, since, handled, events>>

-----------------------------------------------------------------------------
(* The workers.                                                             *)

\* A faulty worker reads the channel without removing what it reads.
PeekJob(w) ==
  /\ worker[w] = 0 /\ logs # <<>>
  /\ worker' = [worker EXCEPT ![w] = Head(logs)]
  /\ UNCHANGED <<chain, main, latest, rest, logs, subscription, handled, events>>

TakeJob(w) ==
  /\ worker[w] = 0 /\ logs # <<>>
  /\ worker' = [worker EXCEPT ![w] = Head(logs)] /\ logs' = Tail(logs)
  /\ UNCHANGED <<chain, main, latest, rest, subscription, handled, events>>

Count(n) ==
  handled' = IF chain[n] = "DepositLend" THEN [handled EXCEPT ![n] = @ + 1] ELSE handled

\* A faulty worker returns when a log cannot be decoded.
HandleOrReturn(w) ==
  /\ worker[w] # 0 /\ chain[worker[w]] # "undecodable"
  /\ Count(worker[w])
  /\ worker' = [worker EXCEPT ![w] = 0]
  /\ UNCHANGED <<chain, main, latest, rest, logs, subscription, events>>

\* The handler: other logs are ignored, and HandleDeposit gives up on one that
\* it cannot decode.  It takes three topics for granted, which every DepositLend
\* of this contract has (two of its arguments are indexed).
HandleDeposit(w) ==
  /\ worker[w] # 0
  /\ Count(worker[w])
  /\ worker' = [worker EXCEPT ![w] = 0]
  /\ UNCHANGED <<chain, main, latest, rest, logs, subscription, events>>

-----------------------------------------------------------------------------
(* The world around the process.                                            *)

\* External: the contract emits a log.  The client buffers it for a live
\* subscription, or ends the subscription if its buffer is full.
Emit(kind) ==
  /\ Len(chain) < MaxLogs
  /\ chain' = Append(chain, kind)
  /\ \/ sub # "live" /\ UNCHANGED <<sub, buffer>>
     \/ sub = "live" /\ Len(buffer) < BufferCap /\ buffer' = Append(buffer, Len(chain'))
        /\ UNCHANGED sub
     \/ sub = "live" /\ Len(buffer) = BufferCap /\ sub' = "failed" /\ buffer' = <<>>
  /\ UNCHANGED <<main, latest, rest, logs, worker, held, since, handled, events>>

\* External: the connection is lost, with what the client had buffered.
Disconnect ==
  /\ sub = "live" /\ Event
  /\ sub' = "failed" /\ buffer' = <<>>
  /\ UNCHANGED <<chain, main, latest, rest, logs, worker, held, since, handled>>

\* The process is started (again, wherever it was); nothing of its state is
\* kept anywhere.
Restart ==
  /\ Event
  /\ main' = "dial" /\ latest' = 0 /\ rest' = <<>>
  /\ logs' = <<>> /\ worker' = [w \in Workers |-> 0]
  /\ sub' = "none" /\ buffer' = <<>> /\ held' = 0 /\ since' = 0
  /\ handled' = [n \in Ids |-> 0]
  /\ UNCHANGED chain

Main == MustDial \/ BlockNumber \/ ScanHistory \/ GoSubscribe
SubscribeLoop == Subscribe \/ Receive \/ Forward \/ SubError
Work(w) == TakeJob(w) \/ HandleDeposit(w)

Next ==
  \/ Main \/ SubscribeLoop \/ \E w \in Workers : Work(w)
  \/ \E kind \in Kinds : Emit(kind)
  \/ Disconnect \/ Restart

\* Goroutines run, and calls that fail for ever are not considered.
Fairness == WF_vars(Main) /\ WF_vars(SubscribeLoop) /\ \A w \in Workers : WF_vars(Work(w))

Spec == Init /\ [][Next]_vars /\ Fairness

-----------------------------------------------------------------------------
(* Properties.                                                              *)

TypeOK ==
  /\ chain \in Seq(Kinds) /\ Len(chain) <= MaxLogs
  /\ main \in {"dial", "height", "scan", "send", "started", "ended"}
  /\ latest \in 0..Len(chain) /\ since \in 0..Len(chain)
  /\ rest \in Seq(Ids) /\ logs \in Seq(Ids) /\ Len(logs) <= ChannelCap
  /\ worker \in [Workers -> 0..Len(chain)] /\ held \in 0..Len(chain)
  /\ sub \in {"none", "live", "failed", "dead"}
  /\ buffer \in Seq(Ids) /\ Len(buffer) <= BufferCap
  /\ handled \in [Ids -> Nat]
  /\ events \in 0..MaxEvents

deposits == {n \in DOMAIN chain : chain[n] = "DepositLend"}

\* Where a log can be after it has been read from the chain.
inTransit ==
  ToSet(rest) \cup ToSet(logs) \cup ToSet(buffer) \cup {held} \cup {worker[w] : w \in Workers}
done == {n \in Ids : handled[n] > 0}

\* No deposit of the history, and none emitted under a live subscription, gets
\* lost between the goroutines, however full the channel (ScanHistory,
\* SubscribeLoop, worker.Start).
NothingLost ==
  /\ main \in {"send", "started"} => \A n \in deposits : n <= latest => n \in inTransit \cup done
  /\ sub = "live" => \A n \in deposits : n > since => n \in inTransit \cup done

\* Within a life of the process every deposit is handled at most once, though
\* it could come with the history and with the subscription.
Delivery == INSTANCE EventDelivery WITH emitted <- deposits
AtMostOnce == Delivery!Spec

\* Every deposit of the history is handled, unless the process ends first, even
\* with more logs than the channel holds and some that cannot be decoded.
HistoryHandled ==
  \A n \in Ids :
    (main = "send" /\ n \in deposits /\ n <= latest) ~> (n \in done \/ main \in {"dial", "ended"})

\* "live subscription (reconnects automatically)": after a connection is lost
\* there is a live subscription again.
Reconnects == sub = "failed" ~> sub = "live"
=============================================================================
