------------------------------ MODULE PriceFeed ------------------------------
(***************************************************************************)
(* The API process's live price: a goroutine reads an exchange's ticker and *)
(* sends each price into the channel PlgrPriceChan; another receives it and *)
(* writes it to every websocket in Manager.Servers; and each websocket has  *)
(* goroutines of its own that answer pings and watch its heartbeat.         *)
(*                                                                          *)
(* api/models/kucoin/kucoin.go, api/models/ws/ws.go, controllers/price-     *)
(* Controller.go.  A price is its number in the exchange's stream, 0 the    *)
(* one the source begins with.                                              *)
(***************************************************************************)
EXTENDS Redis

CONSTANTS
  Clients,
  MaxPrice,
  PriceChanCap,            \* 2
  UserPingPongDurTime,     \* seconds without a ping a connection may last
  Limits                   \* bounds of a behaviour: the browsers that connect, those
                           \* that may stop reading, the prices, and the exchange's
                           \* failures and restarts in all

ASSUME PriceFeedAssumption ==
  /\ MaxPrice \in Nat /\ PriceChanCap \in Nat
  /\ Limits \subseteq [clients : SUBSET Clients, stop : SUBSET Clients, prices : 0..MaxPrice, events : Nat]
  /\ UserPingPongDurTime \in Nat \ {0}
ASSUME PriceKeyAssumption == "plgr_price" \in Keys

VARIABLES
  ticker,     \* prices the exchange has sent to its client
  feed,       \* where GetExchangePrice is
  price,      \* the price it is dealing with
  PlgrPrice, PlgrPriceChan,
  redis,
  servers,    \* the connections in Manager.Servers
  todo,       \* those StartServer has still to write its price to
  shown,      \* the price StartServer is writing
  writing,    \* the connection it is writing to, whose lock it has, if any
  client,     \* the state of each connection
  received,   \* the prices each connection has brought its browser
  limit, events

server == <<servers, todo, shown, writing>>
source == <<ticker, feed, price, PlgrPrice>>
vars == <<source, PlgrPriceChan, redis, server, client, received, limit, events>>

\* socket: whether the connection is not made, open, left by the browser, or
\* closed by the server.  reads: whether the browser reads it.  main, reader:
\* the goroutines of ReadAndWrite; the writer only waits for the close of a
\* channel nobody sends to.
fresh == [socket |-> "out", reads |-> TRUE, main |-> "none", reader |-> "none", silent |-> 0]
Server == [socket : {"out", "open", "left", "closed"}, reads : BOOLEAN,
           main : {"none", "start", "loop", "timeout", "ended"},
           reader : {"none", "read", "pong", "ended"},
           silent : 0..UserPingPongDurTime]

Init ==
  /\ ticker = 0 /\ feed = "restore" /\ price = 0
  /\ PlgrPrice = 0 /\ PlgrPriceChan = <<>>
  /\ redis = emptied
  /\ servers = {} /\ todo = {} /\ shown = 0 /\ writing = {}
  /\ client = [c \in Clients |-> fresh]
  /\ received = [c \in Clients |-> <<>>]
  /\ limit \in Limits /\ events = 0

-----------------------------------------------------------------------------
(* GetExchangePrice.                                                        *)

Exchange == UNCHANGED <<server, client, received, limit>>
Event == events < limit.events /\ events' = events + 1

\* The price a former process has left in redis.
RestorePrice ==
  /\ feed = "restore" /\ feed' = "connect"
  /\ LET got == RedisGetString(redis, "plgr_price")
     IN  PlgrPrice' = IF got.ok THEN got.reply[2] ELSE PlgrPrice
  /\ Exchange /\ UNCHANGED <<ticker, price, PlgrPriceChan, redis, events>>

\* Token, connection and subscription; an error at any of them is the end.
ConnectExchange ==
  /\ feed = "connect"
  /\ \/ feed' = "listen" /\ UNCHANGED events
     \/ feed' = "ended" /\ Event
  /\ Exchange /\ UNCHANGED <<ticker, price, PlgrPrice, PlgrPriceChan, redis>>

\* A message, or one that cannot be read, or the connection's error.
ReceivePrice ==
  /\ feed = "listen"
  /\ \/ /\ ticker < limit.prices /\ ticker' = ticker + 1
        /\ price' = ticker' /\ feed' = "send"
        /\ UNCHANGED events
     \/ feed' = "ended" /\ Event /\ UNCHANGED <<ticker, price>>
  /\ Exchange /\ UNCHANGED <<PlgrPrice, PlgrPriceChan, redis>>

\* A faulty feed drops the price when the channel is full.
SendPriceOrDrop ==
  /\ feed = "send" /\ feed' = "keep"
  /\ PlgrPriceChan' = IF Len(PlgrPriceChan) < PriceChanCap
                      THEN Append(PlgrPriceChan, price) ELSE PlgrPriceChan
  /\ Exchange /\ UNCHANGED <<ticker, price, PlgrPrice, redis, events>>

\* While the channel is full the goroutine waits, deaf to the connection.
SendPrice ==
  /\ feed = "send" /\ feed' = "keep"
  /\ Len(PlgrPriceChan) < PriceChanCap
  /\ PlgrPriceChan' = Append(PlgrPriceChan, price)
  /\ Exchange /\ UNCHANGED <<ticker, price, PlgrPrice, redis, events>>

KeepPrice ==
  /\ feed = "keep" /\ feed' = "listen"
  /\ PlgrPrice' = price
  /\ redis' = RedisSetString(redis, "plgr_price", price, 0).db
  /\ Exchange /\ UNCHANGED <<ticker, price, PlgrPriceChan, events>>

GetExchangePrice == RestorePrice \/ ConnectExchange \/ ReceivePrice \/ SendPrice \/ KeepPrice

-----------------------------------------------------------------------------
(* StartServer.                                                             *)

Feeding == UNCHANGED <<source, redis, limit, events>>

TakePrice ==
  /\ todo = {} /\ writing = {} /\ PlgrPriceChan # <<>>
  /\ shown' = Head(PlgrPriceChan) /\ PlgrPriceChan' = Tail(PlgrPriceChan)
  /\ todo' = servers
  /\ Feeding /\ UNCHANGED <<servers, writing, client, received>>

\* A browser that has stopped reading an open connection: TCP's window for it is
\* full, and stays so while the browser lives.
stalled(c) == client[c].socket = "open" /\ ~client[c].reads

\* SendToClient takes the connection's lock and writes.  No deadline is set: the
\* write to a stalled connection ends when the browser reads on or leaves, and
\* not before.  A socket that is left or closed gives an error, which is logged.
BeginWrite(c) ==
  /\ writing = {} /\ c \in todo
  /\ writing' = {c}
  /\ Feeding /\ UNCHANGED <<PlgrPriceChan, servers, todo, shown, client, received>>

Write(c, rest) ==
  /\ writing = {c} /\ ~stalled(c)
  /\ writing' = {} /\ todo' = rest
  /\ received' = IF client[c].socket = "open" THEN [received EXCEPT ![c] = Append(@, shown)]
                 ELSE received
  /\ Feeding /\ UNCHANGED <<PlgrPriceChan, servers, shown, client>>

\* A faulty round ends at the first socket that gives an error.
WriteUntilError(c) == Write(c, IF client[c].socket = "open" THEN todo \ {c} ELSE {})

SendToClient(c) == Write(c, todo \ {c})

StartServer == TakePrice \/ \E c \in Clients : BeginWrite(c) \/ SendToClient(c)

-----------------------------------------------------------------------------
(* A connection: NewPrice and ReadAndWrite.                                 *)

Connection(c, s) ==
  /\ client' = [client EXCEPT ![c] = s]
  /\ Feeding /\ UNCHANGED <<PlgrPriceChan, shown, writing, received>>
Self(c, s) == Connection(c, s) /\ UNCHANGED <<servers, todo>>

NewPrice(c) ==
  /\ c \in limit.clients /\ client[c].socket = "out"
  /\ Self(c, [client[c] EXCEPT !.socket = "open", !.main = "start"])

\* sync.Map's Range may or may not come to a connection stored meanwhile.
Register(c) ==
  /\ client[c].main = "start"
  /\ servers' = servers \cup {c}
  /\ \/ UNCHANGED todo
     \/ todo # {} /\ todo' = todo \cup {c}
  /\ Connection(c, [client[c] EXCEPT !.main = "loop", !.reader = "read"])

\* A ping restarts the clock at once and is answered when the lock is free.
ReadMessage(c) ==
  /\ client[c].reader = "read" /\ client[c].socket = "open"
  /\ Self(c, [client[c] EXCEPT !.silent = 0, !.reader = "pong"])

SendPong(c) ==
  /\ client[c].reader = "pong" /\ c \notin writing /\ ~stalled(c)
  /\ Self(c, [client[c] EXCEPT !.reader = "read"])

\* The deferred calls: Servers.Delete(s) deletes under a key that is not the
\* entry's, so the connection stays in Servers.
endOpen(s) == [s EXCEPT !.main = "ended", !.silent = 0]   \* faulty: the socket stays open
end(s) == [s EXCEPT !.main = "ended", !.socket = "closed", !.silent = 0]

\* The reader hands an error to the main goroutine through a channel without
\* buffer; once the main goroutine has ended it waits for ever.
ReadError(c) ==
  /\ client[c].reader = "read" /\ client[c].socket \in {"left", "closed"}
  /\ client[c].main = "loop"
  /\ Self(c, [end(client[c]) EXCEPT !.reader = "ended"])

\* The check made every second.
Heartbeat(c) ==
  /\ client[c].main = "loop" /\ client[c].silent >= UserPingPongDurTime
  /\ Self(c, [client[c] EXCEPT !.main = "timeout"])

\* The browser is told before the connection is closed, by a write like others.
SendTimeout(c) ==
  /\ client[c].main = "timeout" /\ c \notin writing /\ ~stalled(c)
  /\ Self(c, end(client[c]))

Reader(c) == SendPong(c) \/ ReadError(c)
ReadAndWrite(c) == Register(c) \/ Heartbeat(c) \/ SendTimeout(c)

-----------------------------------------------------------------------------
(* The world around the process.                                            *)

\* External: the browser leaves.
Leave(c) ==
  /\ client[c].socket = "open"
  /\ Self(c, [client[c] EXCEPT !.socket = "left", !.reads = TRUE])

\* External: the browser stops reading, or reads on.
StopOrReadOn(c) ==
  /\ c \in limit.stop /\ client[c].socket = "open"
  /\ Self(c, [client[c] EXCEPT !.reads = ~@])

\* External: a second without a ping.
Silence(c) ==
  /\ client[c].main = "loop" /\ client[c].silent < UserPingPongDurTime
  /\ Self(c, [client[c] EXCEPT !.silent = @ + 1])

\* The process is started again, and with it every connection; redis keeps its
\* price.
Restart ==
  /\ Event
  /\ feed' = "restore" /\ price' = 0 /\ PlgrPrice' = 0 /\ PlgrPriceChan' = <<>>
  /\ servers' = {} /\ todo' = {} /\ shown' = 0 /\ writing' = {}
  /\ client' = [c \in Clients |-> fresh]
  /\ received' = [c \in Clients |-> <<>>]
  /\ UNCHANGED <<ticker, redis, limit>>

Next ==
  \/ GetExchangePrice \/ StartServer
  \/ \E c \in Clients : \/ NewPrice(c) \/ ReadAndWrite(c) \/ Reader(c) \/ ReadMessage(c)
                       \/ Leave(c) \/ StopOrReadOn(c) \/ Silence(c)
  \/ Restart

\* Goroutines run, a write to a connection that is not stalled ends, and a silent
\* second passes.  Nothing makes a browser read, leave or ping.
Fairness ==
  /\ WF_vars(SendPrice) /\ WF_vars(KeepPrice) /\ WF_vars(StartServer)
  /\ \A c \in Clients : WF_vars(ReadAndWrite(c)) /\ WF_vars(Reader(c)) /\ WF_vars(Silence(c))

Spec == Init /\ [][Next]_vars /\ Fairness

-----------------------------------------------------------------------------
(* Properties.                                                              *)

\* A browser receives prices in the exchange's order and, from its first one
\* on, every one, though the feed, the broadcast and its own goroutines share
\* its socket (StartServer, SendToClient).
NoGaps ==
  \A c \in Clients : \A i \in 2..Len(received[c]) : received[c][i] = received[c][i - 1] + 1

\* If every browser that stops reading reads on or leaves in the end, a price in
\* the channel reaches each one that is then registered and does not leave or
\* fall silent, whatever became of the other connections in Servers, which keeps
\* those that have ended.  One that never reads on holds up the others.
PricesReachBrowsers ==
  (\A d \in Clients : <>[]~stalled(d)) =>
    \A c \in Clients, p \in 1..MaxPrice :
      (p \in ToSet(PlgrPriceChan) /\ c \in servers /\ client[c].main = "loop" /\ client[c].socket = "open")
        ~> (p \in ToSet(received[c]) \/ client[c].socket # "open" \/ client[c].main # "loop")

\* A connection whose browser has left, or has fallen silent for good and is not
\* itself stalled for ever, is closed, even while a price is being written to it
\* and whoever else stalls the broadcast (ReadAndWrite).
DeadConnectionsClose ==
  \A c \in Clients :
    <>[]~stalled(c) =>
      ((client[c].socket = "left" \/ client[c].main = "timeout") ~> client[c].socket \in {"closed", "out"})
=============================================================================
