--------------------------- MODULE PriceFeedProofs ---------------------------
(***************************************************************************)
(* That a browser sees the exchange's prices without a gap, for any number  *)
(* of browsers, any size of the channel and any bounds of a behaviour,      *)
(* whoever leaves or falls silent and wherever the process is restarted.    *)
(***************************************************************************)
EXTENDS PriceFeed, SequenceTheorems, TLAPS

\* The last price that was put into the channel, or could have been.
sent == IF feed = "send" THEN ticker - 1 ELSE ticker

FeedOK ==
  /\ ticker \in Nat /\ price \in Nat /\ shown \in Nat
  /\ feed \in {"restore", "connect", "listen", "send", "keep", "ended"}
  /\ PlgrPriceChan \in Seq(Nat \ {0})
  /\ feed = "send" => price = ticker /\ ticker > 0

ServersOK ==
  /\ client \in [Clients -> Server] /\ received \in [Clients -> Seq(Nat)]
  /\ servers \subseteq Clients /\ todo \subseteq servers /\ writing \subseteq todo

\* The channel holds the last prices sent, without a gap, and the price that is
\* being shown is the one before them.
InLine ==
  /\ \A i \in 1..Len(PlgrPriceChan) : PlgrPriceChan[i] = sent - Len(PlgrPriceChan) + i
  /\ shown > 0 => shown = sent - Len(PlgrPriceChan)

\* A browser with an open connection that has a price has the one shown, or is
\* about to be written it and has the one before; nobody has one before the
\* first is shown or the connection is made.
Current(c) ==
  /\ received[c] # <<>> => c \in servers /\ shown > 0 /\ client[c].socket # "out"
  /\ received[c] # <<>> /\ client[c].socket = "open" =>
       received[c][Len(received[c])] = IF c \in todo THEN shown - 1 ELSE shown

UpToDate == \A c \in Clients : Current(c)

\* A price is being written only after one has been taken.
Showing == todo # {} => shown > 0

\* A connection registers once, after it is made.
Registered ==
  \A c \in Clients :
    /\ c \in servers => client[c].socket # "out" /\ client[c].main # "start"
    /\ client[c].main = "start" => client[c].socket # "out"

IInv == FeedOK /\ ServersOK /\ InLine /\ UpToDate /\ Showing /\ Registered /\ NoGaps
-----------------------------------------------------------------------------
(* The lemmas.                                                              *)

\* A sequence whose last element is followed by its successor stays in order.
LEMMA Extended ==
  ASSUME NEW s \in Seq(Nat), NEW n \in Nat,
         \A i \in 2..Len(s) : s[i] = s[i - 1] + 1, s # <<>> => s[Len(s)] = n - 1
  PROVE  /\ Append(s, n) \in Seq(Nat) /\ Append(s, n) # <<>>
         /\ Append(s, n)[Len(Append(s, n))] = n
         /\ \A i \in 2..Len(Append(s, n)) : Append(s, n)[i] = Append(s, n)[i - 1] + 1
<1>1. /\ Append(s, n) \in Seq(Nat) /\ Append(s, n) # <<>> /\ Len(s) \in Nat
      /\ Len(Append(s, n)) = Len(s) + 1 /\ Append(s, n)[Len(s) + 1] = n
      /\ \A i \in 1..Len(s) : Append(s, n)[i] = s[i]
  <2>1. Append(s, n) \in Seq(Nat) /\ Len(s) \in Nat /\ Len(Append(s, n)) = Len(s) + 1
    OBVIOUS
  <2>2. Append(s, n)[Len(s) + 1] = n /\ \A i \in 1..Len(s) : Append(s, n)[i] = s[i]
    BY AppendProperties
  <2>3. Append(s, n) # <<>>
    BY AppendProperties
  <2> QED
    BY <2>1, <2>2, <2>3
<1>2. ASSUME NEW i \in 2..Len(s) + 1 PROVE Append(s, n)[i] = Append(s, n)[i - 1] + 1
  <2>1. CASE i \in 2..Len(s)
    <3>1. Append(s, n)[i] = s[i] /\ Append(s, n)[i - 1] = s[i - 1]
      BY <1>1, <2>1
    <3> QED
      BY <3>1, <2>1
  <2>2. CASE i = Len(s) + 1
    <3>1. s # <<>> /\ i - 1 \in 1..Len(s)
      BY <1>1, <2>2
    <3>2. Append(s, n)[i] = n /\ Append(s, n)[i - 1] = s[Len(s)]
      BY <1>1, <2>2, <3>1
    <3>3. s[Len(s)] = n - 1
      BY <3>1
    <3> QED
      BY <3>2, <3>3
  <2> QED
    BY <1>1, <2>1, <2>2
<1> QED
  BY <1>1, <1>2

\* What GetExchangePrice does: it receives the next price, puts it into the
\* channel, or neither.
Received ==
  /\ ticker' = ticker + 1 /\ price' = ticker' /\ feed # "send" /\ feed' = "send"
  /\ UNCHANGED PlgrPriceChan
Sent ==
  /\ feed = "send" /\ feed' = "keep" /\ PlgrPriceChan' = Append(PlgrPriceChan, price)
  /\ UNCHANGED <<ticker, price>>
Resting ==
  /\ feed # "send" /\ feed' \in {"connect", "listen", "keep", "ended"}
  /\ UNCHANGED <<ticker, price, PlgrPriceChan>>

\* Every step of GetExchangePrice is one of these.
LEMMA ExchangeDoes ==
  ASSUME GetExchangePrice
  PROVE  (Received \/ Sent \/ Resting) /\ UNCHANGED <<server, client, received>>
BY DEF GetExchangePrice, RestorePrice, ConnectExchange, ReceivePrice, SendPrice, KeepPrice,
       Exchange, Received, Sent, Resting

\* The feed keeps the channel in line with what was received.
LEMMA FeedKeeps ==
  ASSUME FeedOK, InLine, Received \/ Sent \/ Resting, shown' = shown
  PROVE  FeedOK' /\ InLine'
<1>1. CASE Received
  <2>1. FeedOK'
    BY <1>1 DEF FeedOK, Received
  <2>2. sent' = sent
    BY <1>1 DEF FeedOK, Received, sent
  <2> QED
    BY <1>1, <2>1, <2>2 DEF InLine, Received
<1>2. CASE Sent
  <2>1. /\ PlgrPriceChan' \in Seq(Nat \ {0}) /\ Len(PlgrPriceChan) \in Nat
        /\ Len(PlgrPriceChan') = Len(PlgrPriceChan) + 1
        /\ PlgrPriceChan'[Len(PlgrPriceChan) + 1] = ticker
        /\ \A i \in 1..Len(PlgrPriceChan) : PlgrPriceChan'[i] = PlgrPriceChan[i]
    BY <1>2 DEF FeedOK, Sent
  <2>2. FeedOK'
    BY <1>2, <2>1 DEF FeedOK, Sent
  <2>3. sent = ticker - 1 /\ sent' = ticker /\ ticker \in Nat
    BY <1>2 DEF FeedOK, Sent, sent
  <2>4. ASSUME NEW i \in 1..Len(PlgrPriceChan')
        PROVE  PlgrPriceChan'[i] = sent' - Len(PlgrPriceChan') + i
    <3>1. CASE i \in 1..Len(PlgrPriceChan)
      BY <2>1, <2>3, <3>1 DEF InLine
    <3>2. CASE i = Len(PlgrPriceChan) + 1
      BY <2>1, <2>3, <3>2
    <3> QED
      BY <2>1, <3>1, <3>2
  <2>5. shown' > 0 => shown' = sent' - Len(PlgrPriceChan')
    BY <2>1, <2>3 DEF InLine
  <2> QED
    BY <2>2, <2>4, <2>5 DEF InLine
<1>3. CASE Resting
  <2>1. FeedOK'
    BY <1>3 DEF FeedOK, Resting
  <2>2. sent' = sent
    BY <1>3 DEF Resting, sent
  <2> QED
    BY <1>3, <2>1, <2>2 DEF InLine, Resting
<1> QED
  BY <1>1, <1>2, <1>3

\* Taking the next price out of the channel makes the one shown the one before
\* for every registered browser.
LEMMA TakeKeeps ==
  ASSUME IInv, TakePrice
  PROVE  IInv'
<1>0. /\ todo = {} /\ writing = {} /\ PlgrPriceChan # <<>>
      /\ shown' = Head(PlgrPriceChan) /\ PlgrPriceChan' = Tail(PlgrPriceChan) /\ todo' = servers
      /\ UNCHANGED <<ticker, feed, price, servers, writing, client, received>>
  BY DEF TakePrice, Feeding, source
<1>1. /\ PlgrPriceChan' \in Seq(Nat \ {0}) /\ Len(PlgrPriceChan) \in Nat \ {0}
      /\ Len(PlgrPriceChan') = Len(PlgrPriceChan) - 1
      /\ shown' = PlgrPriceChan[1] /\ shown' \in Nat \ {0}
      /\ \A i \in 1..Len(PlgrPriceChan') : PlgrPriceChan'[i] = PlgrPriceChan[i + 1]
  BY <1>0 DEF IInv, FeedOK
<1>2. sent' = sent /\ sent \in Int
  BY <1>0 DEF IInv, FeedOK, sent
<1>3. FeedOK'
  BY <1>0, <1>1 DEF IInv, FeedOK
<1>4. ServersOK' /\ Showing' /\ Registered'
  BY <1>0, <1>1 DEF IInv, ServersOK, Showing, Registered
<1>5. shown' = sent - Len(PlgrPriceChan) + 1
  BY <1>1 DEF IInv, InLine
<1>6. InLine'
  <2>1. ASSUME NEW i \in 1..Len(PlgrPriceChan')
        PROVE  PlgrPriceChan'[i] = sent' - Len(PlgrPriceChan') + i
    <3>1. i + 1 \in 1..Len(PlgrPriceChan)
      BY <1>1
    <3>2. PlgrPriceChan[i + 1] = sent - Len(PlgrPriceChan) + (i + 1)
      BY <3>1 DEF IInv, InLine
    <3> QED
      BY <1>1, <1>2, <3>2
  <2>2. shown' = sent' - Len(PlgrPriceChan')
    BY <1>1, <1>2, <1>5
  <2> QED
    BY <2>1, <2>2 DEF InLine
<1>7. ASSUME NEW c \in Clients PROVE Current(c)'
  <2>1. received[c] # <<>> =>
          /\ c \in servers /\ shown > 0 /\ client[c].socket # "out"
          /\ client[c].socket = "open" => received[c][Len(received[c])] = shown
    BY <1>0 DEF IInv, UpToDate, Current
  <2>2. shown > 0 => shown' - 1 = shown
    <3>1. shown > 0 => shown = sent - Len(PlgrPriceChan)
      BY DEF IInv, InLine
    <3> QED
      BY <1>1, <1>2, <1>5, <3>1
  <2>3. (received[c] # <<>>)' = (received[c] # <<>>)
    BY <1>0
  <2>4. received[c] # <<>> => c \in servers' /\ shown' > 0 /\ client'[c].socket # "out"
    BY <1>0, <1>1, <2>1
  <2>5. received[c] # <<>> /\ client'[c].socket = "open" =>
          received'[c][Len(received'[c])] = shown' - 1 /\ c \in todo'
    BY <1>0, <2>1, <2>2
  <2> QED
    BY <1>0, <2>4, <2>5 DEF Current
<1>8. NoGaps'
  BY <1>0 DEF IInv, NoGaps
<1> QED
  BY <1>3, <1>4, <1>6, <1>7, <1>8 DEF IInv, UpToDate

\* A write brings the browser the price that is shown, which is the one after
\* its last.
LEMMA WriteKeeps ==
  ASSUME IInv, NEW c \in Clients, SendToClient(c)
  PROVE  IInv'
<1>0. /\ writing = {c} /\ writing' = {} /\ todo' = todo \ {c}
      /\ received' = IF client[c].socket = "open"
                     THEN [received EXCEPT ![c] = Append(received[c], shown)] ELSE received
      /\ UNCHANGED <<ticker, feed, price, PlgrPriceChan, servers, shown, client>>
  BY DEF SendToClient, Write, Feeding, source
<1>1. c \in todo /\ c \in servers /\ received \in [Clients -> Seq(Nat)] /\ shown \in Nat
  BY <1>0 DEF IInv, ServersOK, FeedOK
<1>2. /\ sent' = sent /\ FeedOK' /\ InLine'
  <2>1. sent' = sent
    BY <1>0 DEF sent
  <2>2. FeedOK'
    BY <1>0 DEF IInv, FeedOK
  <2> QED
    BY <1>0, <2>1, <2>2 DEF IInv, InLine
<1>3. CASE client[c].socket = "open"
  <2>1. received' = [received EXCEPT ![c] = Append(received[c], shown)]
    BY <1>0, <1>3
  <2>2. received[c] # <<>> => received[c][Len(received[c])] = shown - 1
    BY <1>1, <1>3 DEF IInv, UpToDate, Current
  <2>3. \A i \in 2..Len(received[c]) : received[c][i] = received[c][i - 1] + 1
    BY DEF IInv, NoGaps
  <2>4. received[c] \in Seq(Nat)
    BY <1>1
  <2>5. /\ received'[c] \in Seq(Nat) /\ received'[c] # <<>>
        /\ received'[c][Len(received'[c])] = shown
        /\ \A i \in 2..Len(received'[c]) : received'[c][i] = received'[c][i - 1] + 1
    <3>1. received'[c] = Append(received[c], shown)
      BY <1>1, <2>1
    <3> QED
      BY <1>1, <2>2, <2>3, <2>4, <3>1, Extended
  <2>6. \A d \in Clients \ {c} : received'[d] = received[d]
    BY <1>1, <2>1
  <2>7. ServersOK' /\ Showing' /\ Registered'
    <3>1. received' \in [Clients -> Seq(Nat)]
      BY <1>1, <2>1, <2>4
    <3> QED
      BY <1>0, <3>1 DEF IInv, ServersOK, Showing, Registered
  <2>8. NoGaps'
    <3>1. ASSUME NEW d \in Clients, NEW i \in 2..Len(received'[d])
          PROVE  received'[d][i] = received'[d][i - 1] + 1
      BY <2>5, <2>6 DEF IInv, NoGaps
    <3> QED
      BY <3>1 DEF NoGaps
  <2>9. shown > 0
    BY <1>1 DEF IInv, Showing
  <2>10. ASSUME NEW d \in Clients PROVE Current(d)'
    <3>1. CASE d = c
      BY <1>0, <1>1, <1>3, <2>5, <2>9, <3>1 DEF Current
    <3>2. CASE d # c
      BY <1>0, <2>6, <3>2 DEF IInv, UpToDate, Current
    <3> QED
      BY <3>1, <3>2
  <2> QED
    BY <1>2, <2>7, <2>8, <2>10 DEF IInv, UpToDate
<1>4. CASE client[c].socket # "open"
  <2>1. received' = received
    BY <1>0, <1>4
  <2>2. ServersOK' /\ Showing' /\ Registered' /\ NoGaps'
    BY <1>0, <2>1 DEF IInv, ServersOK, Showing, Registered, NoGaps
  <2>3. ASSUME NEW d \in Clients PROVE Current(d)'
    <3>1. d # c => Current(d)'
      BY <1>0, <2>1 DEF IInv, UpToDate, Current
    <3>2. Current(c)'
      BY <1>0, <1>4, <2>1 DEF IInv, UpToDate, Current
    <3> QED
      BY <3>1, <3>2
  <2> QED
    BY <1>2, <2>2, <2>3 DEF IInv, UpToDate
<1> QED
  BY <1>3, <1>4

\* What a connection does to itself leaves every price where it is, as long as
\* no socket opens twice.
LEMMA ConnectionKeeps ==
  ASSUME IInv, NEW c \in Clients, NEW s \in Server, Connection(c, s),
         \/ UNCHANGED <<servers, todo>>
         \/ /\ servers' = servers \cup {c} /\ client[c].main = "start" /\ s.main # "start"
            /\ todo' = todo \/ (todo # {} /\ todo' = todo \cup {c}),
         client[c].socket \in {"out", "open"} \/ s.socket # "open",
         s.socket # "out" \/ client[c].socket = "out",
         s.main = "start" => client[c].main = "start" \/ client[c].socket = "out",
         s.main = "start" => s.socket # "out"
  PROVE  IInv'
<1>0. /\ client' = [client EXCEPT ![c] = s]
      /\ UNCHANGED <<ticker, feed, price, PlgrPriceChan, shown, writing, received>>
  BY DEF Connection, Feeding, source
<1>1. FeedOK' /\ InLine' /\ NoGaps'
  <2>1. sent' = sent
    BY <1>0 DEF sent
  <2>2. FeedOK' /\ NoGaps'
    BY <1>0 DEF IInv, FeedOK, NoGaps
  <2> QED
    BY <1>0, <2>1, <2>2 DEF IInv, InLine
<1>2. /\ servers \subseteq servers' /\ servers' \subseteq servers \cup {c}
      /\ todo \subseteq todo' /\ todo' \subseteq todo \cup {c} /\ todo' \subseteq servers'
      /\ todo' # {} => todo # {}
  BY DEF IInv, ServersOK
<1>3. ServersOK' /\ Showing'
  BY <1>0, <1>2 DEF IInv, ServersOK, Showing
<1>4. \A d \in Clients : client'[d] = IF d = c THEN s ELSE client[d]
  BY <1>0 DEF IInv, ServersOK
<1>5. Registered'
  BY <1>2, <1>4 DEF IInv, Registered
<1>6. ASSUME NEW d \in Clients PROVE Current(d)'
  <2>1. Current(d)
    BY DEF IInv, UpToDate
  <2>2. client'[d].socket = "open" => client[d].socket \in {"out", "open"}
    BY <1>4
  <2>3. client'[d].socket = "out" => client[d].socket = "out"
    BY <1>4
  <2>4. received[d] # <<>> => (d \in todo' <=> d \in todo)
    <3>1. received[d] # <<>> => d \in servers
      BY <2>1 DEF Current
    <3>2. d \in servers => client[d].main # "start"
      BY DEF IInv, Registered
    <3>3. d \in todo' /\ d \notin todo => d = c /\ client[c].main = "start"
      OBVIOUS
    <3> QED
      BY <1>2, <3>1, <3>2, <3>3
  <2> QED
    BY <1>0, <1>2, <2>1, <2>2, <2>3, <2>4 DEF Current
<1> QED
  BY <1>1, <1>3, <1>5, <1>6 DEF IInv, UpToDate

\* Every step keeps the invariant: the feed's, the broadcast's, a connection's
\* and a restart.
LEMMA StepKeeps == IInv /\ [Next]_vars => IInv'
<1> SUFFICES ASSUME IInv, [Next]_vars PROVE IInv'
  OBVIOUS
<1>0. client \in [Clients -> Server]
  BY DEF IInv, ServersOK
<1>1. ASSUME GetExchangePrice PROVE IInv'
  <2>1. (Received \/ Sent \/ Resting) /\ UNCHANGED <<server, client, received>>
    BY <1>1, ExchangeDoes
  <2>2. FeedOK' /\ InLine'
    <3>1. shown' = shown
      BY <2>1 DEF server
    <3> QED
      BY <2>1, <3>1, FeedKeeps DEF IInv
  <2>3. ServersOK' /\ Showing' /\ Registered' /\ NoGaps'
    BY <2>1 DEF IInv, ServersOK, Showing, Registered, NoGaps, server
  <2>4. UpToDate'
    BY <2>1 DEF IInv, UpToDate, Current, server
  <2> QED
    BY <2>2, <2>3, <2>4 DEF IInv
<1>2. ASSUME TakePrice PROVE IInv'
  BY <1>2, TakeKeeps
<1>3. ASSUME NEW c \in Clients, BeginWrite(c) PROVE IInv'
  <2>1. /\ c \in todo /\ writing' = {c}
        /\ UNCHANGED <<ticker, feed, price, PlgrPriceChan, servers, todo, shown, client, received>>
    BY <1>3 DEF BeginWrite, Feeding, source
  <2>2. FeedOK' /\ ServersOK' /\ Showing' /\ Registered' /\ NoGaps'
    BY <2>1 DEF IInv, FeedOK, ServersOK, Showing, Registered, NoGaps
  <2>3. sent' = sent
    BY <2>1 DEF sent
  <2>4. InLine' /\ UpToDate'
    BY <2>1, <2>3 DEF IInv, InLine, UpToDate, Current
  <2> QED
    BY <2>2, <2>4 DEF IInv
<1>4. ASSUME NEW c \in Clients, SendToClient(c) PROVE IInv'
  BY <1>4, WriteKeeps
<1>5. ASSUME NEW c \in Clients, NewPrice(c) PROVE IInv'
  <2> DEFINE s == [client[c] EXCEPT !.socket = "open", !.main = "start"]
  <2>1. s \in Server /\ s.socket = "open" /\ client[c].socket = "out"
    BY <1>0, <1>5 DEF NewPrice, Server
  <2>2. Connection(c, s) /\ UNCHANGED <<servers, todo>>
    BY <1>5 DEF NewPrice, Self
  <2> HIDE DEF s
  <2> QED
    BY <2>1, <2>2, ConnectionKeeps
<1>6. ASSUME NEW c \in Clients, Register(c) PROVE IInv'
  <2> DEFINE s == [client[c] EXCEPT !.main = "loop", !.reader = "read"]
  <2>1. /\ s \in Server /\ s.socket = client[c].socket /\ s.socket \in {"out", "open", "left", "closed"}
        /\ s.main = "loop" /\ client[c].main = "start"
    BY <1>0, <1>6 DEF Server, Register
  <2>2. /\ Connection(c, s) /\ servers' = servers \cup {c}
        /\ todo' = todo \/ (todo # {} /\ todo' = todo \cup {c})
    BY <1>6 DEF Register
  <2> HIDE DEF s
  <2> QED
    BY <2>1, <2>2, ConnectionKeeps
<1>7. ASSUME NEW c \in Clients,
             \/ ReadMessage(c) \/ SendPong(c) \/ ReadError(c) \/ Heartbeat(c)
             \/ SendTimeout(c) \/ Leave(c) \/ StopOrReadOn(c) \/ Silence(c)
      PROVE  IInv'
  <2> DEFINE Quiet(s) == /\ s \in Server /\ Self(c, s)
                         /\ s.socket # "out" \/ client[c].socket = "out"
                         /\ s.socket # "open" \/ client[c].socket = "open"
                         /\ s.main = "start" => client[c].main = "start"
  <2>0. /\ client[c] \in Server /\ UserPingPongDurTime \in Nat \ {0}
        /\ 0 \in 0..UserPingPongDurTime
    BY <1>0, PriceFeedAssumption
  <2>1. ASSUME NEW s, Quiet(s) PROVE IInv'
    <3>1. Connection(c, s) /\ UNCHANGED <<servers, todo>>
      BY <2>1 DEF Self
    <3>2. s.main = "start" => s.socket # "out"
      BY <2>1 DEF IInv, Registered
    <3> QED
      BY <2>1, <3>1, <3>2, ConnectionKeeps
  <2>2. ASSUME ReadMessage(c) PROVE Quiet([client[c] EXCEPT !.silent = 0, !.reader = "pong"])
    <3> DEFINE s == [client[c] EXCEPT !.silent = 0, !.reader = "pong"]
    <3>1. s \in Server
      BY <2>0 DEF Server
    <3>2. /\ s.socket # "out" /\ (s.socket # "open" \/ client[c].socket = "open")
          /\ s.main = "start" => client[c].main = "start"
      BY <2>0, <2>2 DEF ReadMessage, Server
    <3>3. Self(c, s)
      BY <2>2 DEF ReadMessage
    <3> QED
      BY <3>1, <3>2, <3>3
  <2>3. ASSUME SendPong(c) PROVE Quiet([client[c] EXCEPT !.reader = "read"])
    BY <2>0, <2>3 DEF SendPong, Server
  <2>4. ASSUME ReadError(c) PROVE Quiet([end(client[c]) EXCEPT !.reader = "ended"])
    <3> DEFINE s == [end(client[c]) EXCEPT !.reader = "ended"]
    <3>1. s \in Server
      BY <2>0 DEF Server, end
    <3>2. /\ s.socket # "out" /\ (s.socket # "open" \/ client[c].socket = "open")
          /\ s.main = "start" => client[c].main = "start"
      BY <2>0, <2>4 DEF ReadError, Server, end
    <3>3. Self(c, s)
      BY <2>4 DEF ReadError
    <3> QED
      BY <3>1, <3>2, <3>3
  <2>5. ASSUME Heartbeat(c) PROVE Quiet([client[c] EXCEPT !.main = "timeout"])
    BY <2>0, <2>5 DEF Heartbeat, Server
  <2>6. ASSUME SendTimeout(c) PROVE Quiet(end(client[c]))
    <3> DEFINE s == end(client[c])
    <3>1. s \in Server
      BY <2>0 DEF Server, end
    <3>2. /\ s.socket # "out" /\ (s.socket # "open" \/ client[c].socket = "open")
          /\ s.main = "start" => client[c].main = "start"
      BY <2>0, <2>6 DEF SendTimeout, Server, end
    <3>3. Self(c, s)
      BY <2>6 DEF SendTimeout
    <3> QED
      BY <3>1, <3>2, <3>3
  <2>7. ASSUME Leave(c) PROVE Quiet([client[c] EXCEPT !.socket = "left", !.reads = TRUE])
    BY <2>0, <2>7 DEF Leave, Server
  <2>8. ASSUME Silence(c) PROVE Quiet([client[c] EXCEPT !.silent = client[c].silent + 1])
    BY <2>0, <2>8 DEF Silence, Server
  <2>9. ASSUME StopOrReadOn(c) PROVE Quiet([client[c] EXCEPT !.reads = ~client[c].reads])
    <3> DEFINE s == [client[c] EXCEPT !.reads = ~client[c].reads]
    <3>1. s \in Server
      BY <2>0 DEF Server
    <3>2. s.socket = client[c].socket /\ s.main = client[c].main /\ client[c].socket = "open"
      BY <2>0, <2>9 DEF StopOrReadOn, Server
    <3>3. Self(c, s)
      BY <2>9 DEF StopOrReadOn
    <3> QED
      BY <3>1, <3>2, <3>3
  <2> HIDE DEF Quiet
  <2> QED
    BY <1>7, <2>1, <2>2, <2>3, <2>4, <2>5, <2>6, <2>7, <2>8, <2>9
<1>8. ASSUME Restart PROVE IInv'
  <2>0. fresh \in Server
    BY PriceFeedAssumption DEF fresh, Server
  <2>1. FeedOK'
    BY <1>8 DEF IInv, FeedOK, Restart
  <2>2. ServersOK' /\ Showing'
    BY <1>8, <2>0 DEF IInv, ServersOK, Showing, Restart
  <2>3. InLine' /\ UpToDate' /\ Registered' /\ NoGaps'
    BY <1>8 DEF InLine, UpToDate, Current, Registered, NoGaps, Restart, fresh
  <2> QED
    BY <2>1, <2>2, <2>3 DEF IInv
<1>9. ASSUME UNCHANGED vars PROVE IInv'
  BY <1>9 DEF IInv, FeedOK, ServersOK, InLine, sent, UpToDate, Current, Showing, Registered, NoGaps, vars,
              source, server
<1> QED
  BY <1>1, <1>2, <1>3, <1>4, <1>5, <1>6, <1>7, <1>8, <1>9
     DEF Next, StartServer, ReadAndWrite, Reader

\* Before anything was sent, nothing is out of line.
LEMMA Begins == Init => IInv
<1> SUFFICES ASSUME Init PROVE IInv
  OBVIOUS
<1>1. fresh \in Server
  BY PriceFeedAssumption DEF fresh, Server
<1>2. FeedOK
  BY DEF Init, FeedOK
<1>3. ServersOK /\ Showing
  BY <1>1 DEF Init, ServersOK, Showing
<1>4. InLine /\ UpToDate /\ Registered /\ NoGaps
  BY DEF Init, InLine, UpToDate, Current, Registered, NoGaps, fresh
<1> QED
  BY <1>2, <1>3, <1>4 DEF IInv

-----------------------------------------------------------------------------
(* The theorems.                                                            *)

\* The feed, the channel, the broadcast and every browser stay in line, in every
\* reachable state.
THEOREM FeedInLine == Spec => []IInv
BY Begins, StepKeeps, PTL DEF Spec

\* A browser receives prices in the exchange's order and from its first one on
\* every one, however the goroutines of the feed, the broadcast and the
\* connections interleave.
THEOREM BrowsersMissNone == Spec => []NoGaps
<1>1. IInv => NoGaps
  BY DEF IInv
<1> QED
  BY <1>1, FeedInLine, PTL
=============================================================================
