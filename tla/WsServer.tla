------------------------------ MODULE WsServer ------------------------------
(***************************************************************************)
(* The websocket subscription gateway of src/internal/wsserver/server.go.  *)
(*                                                                         *)
(* Goroutines and their state:                                             *)
(*   handleConnections, one per connection c     handler[c], objOf[c]       *)
(*   writeToClient, one per accepted connection  pump[c]                    *)
(*   handleRequest, one per decoded frame        reqs[r]                    *)
(*   handleSubRequest, the router                requestQ         *)
(*   NATS callback and relay, one per subscription  cb[s], relay[s]         *)
(*   removeClientPermanently and its goroutines  removeQ, tds[d]            *)
(*   unsubscribeFromNats, the sweep              cleanupQ, sweep            *)
(*   prometheusTotalConnections / ...Bridges     connQ, activeConns,        *)
(*                                               bridgeQ, totalBridges      *)
(*                                                                         *)
(* Heap: a Client struct k (from the sync.Pool) has the fields conn[k] and *)
(* the maps and channels that handleConnections makes for it.  Each time a *)
(* handler initialises k it gets a new incarnation <<k, gen[k]>>, which    *)
(* names the new bridges/subs maps and the new writeCh/closeCh channels;   *)
(* goroutines that hold an older map or channel keep its incarnation.      *)
(* Go closures that capture the pointer k read the fields when they run.   *)
(*                                                                         *)
(* A panic in any goroutine ends the process: crash records its kind and  *)
(* no action is enabled afterwards.                                        *)
(***************************************************************************)
EXTENDS Integers, Sequences, FiniteSets

CONSTANTS
  Conns,           \* websocket connections (websocket.Conn pointers), model values
  Objs,            \* Client structs the sync.Pool may hand out
  Topics,          \* NATS topics "<channel>.<ASSET>"
  Frames,          \* decoded frames: [act, steps] as handleRequest expands them
  MaxConnections,  \* s.maxConnections
  MaxFrames,       \* bound: frames read per connection
  MaxSubs,         \* bound: subscriptions the router creates
  MaxPublish,      \* bound: messages published on the upstream bus
  None

Sub   == "SUBSCRIBE"
Unsub == "UNSUBSCRIBE"
\* A frame json.Unmarshal rejects, when Frames offers one.
InvalidFrame == [act |-> "invalid", steps |-> <<>>]
EnqueuedTopics(steps) ==
  {steps[j].topic : j \in {i \in DOMAIN steps : steps[i].kind = "enqueue"}}

Gens   == 1..Cardinality(Conns)      \* a connection initialises one object once
Incs   == Objs \X Gens
NoInc  == <<None, 0>>                 \* no incarnation
\* The &Client{} the deferred assignment leaves in clientA: nil maps, nil
\* channels and a nil conn.
Blank  == None
SubIds == 1..MaxSubs
MaxReqs == Cardinality(Conns) * MaxFrames   \* handleRequest goroutines
MaxTds  == Cardinality(Conns)               \* one write pump per connection fails
Msgs   == 1..MaxPublish
EmptyMap == [t \in Topics |-> 0]      \* map[string]... with no entries

VARIABLES
  \* connections
  handler,      \* handleConnections of c: new, reading, errframe, waiting, done
  peer,         \* the socket: none, open
  objOf,        \* clientA of the handler of c
  frames,       \* frames read from c
  delivered,    \* payloads (message ids) written to the socket of c, in order
  \* Client structs
  gen, conn, bridges, subs, pool, used, klients,
  \* goroutines
  reqs, requestQ, pump,
  \* subscriptions: the bridge channel, NATS subscription and relay of s
  nextSub, subInc, subTopic, natsOn, inbox, cb, chClosed, relay,
  \* teardown
  removeQ, tds, cleanupQ, sweep,
  \* metrics
  connQ, activeConns, bridgeQ, totalBridges,
  \* the upstream bus and the process
  published, crash, mapRace

connVars  == <<handler, peer, objOf, frames, delivered>>
objVars   == <<gen, conn, bridges, subs, pool, used, klients>>
taskVars  == <<reqs, requestQ, pump>>
subVars   == <<nextSub, subInc, subTopic, natsOn, inbox, cb, chClosed, relay>>
downVars  == <<removeQ, tds, cleanupQ, sweep>>
gaugeVars == <<connQ, activeConns, bridgeQ, totalBridges>>
envVars   == <<published, crash, mapRace>>
vars == <<connVars, objVars, taskVars, subVars, downVars, gaugeVars, envVars>>

\* The incarnation the fields of k currently point to.
Inc(k) == <<k, gen[k]>>
\* Go reports a map written while the sweep ranges over it.
Ranged(i) == sweep.i = i
Tracked(m) == {t \in Topics : m[t] # 0}

\* No goroutine takes a step after a panic has ended the process.
Running == crash = "none"

Init ==
  /\ handler = [c \in Conns |-> "new"]
  /\ peer = [c \in Conns |-> "none"]
  /\ objOf = [c \in Conns |-> None]
  /\ frames = [c \in Conns |-> 0]
  /\ delivered = [c \in Conns |-> <<>>]
  /\ gen = [k \in Objs |-> 0]
  /\ conn = [k \in Objs |-> None]
  /\ bridges = [i \in Incs |-> EmptyMap]
  /\ subs = [i \in Incs |-> EmptyMap]
  /\ pool = {}
  /\ used = {}
  /\ klients = [c \in Conns |-> None]
  /\ reqs = <<>>
  /\ requestQ = <<>>
  /\ pump = [c \in Conns |-> [st |-> "none"]]
  /\ nextSub = 0
  /\ subInc = [s \in SubIds |-> NoInc]
  /\ subTopic = [s \in SubIds |-> None]
  /\ natsOn = [s \in SubIds |-> FALSE]
  /\ inbox = [s \in SubIds |-> <<>>]
  /\ cb = [s \in SubIds |-> 0]
  /\ chClosed = [s \in SubIds |-> FALSE]
  /\ relay = [s \in SubIds |-> [st |-> "none"]]
  /\ removeQ = <<>>
  /\ tds = <<>>
  /\ cleanupQ = <<>>
  /\ sweep = [i |-> NoInc, keys |-> {}, done |-> {}]
  /\ connQ = <<>>
  /\ activeConns = 0
  /\ bridgeQ = <<>>
  /\ totalBridges = 0
  /\ published = <<>>
  /\ crash = "none"
  /\ mapRace = FALSE

-----------------------------------------------------------------------------
(* handleConnections                                                       *)

\* The connection is over the ceiling: http.Error and return.  The deferred
\* "prometheusConnectionChan <- false" was registered before the check.
Reject(c) ==
  /\ Running
  /\ handler[c] = "new"
  /\ activeConns >= MaxConnections
  /\ handler' = [handler EXCEPT ![c] = "done"]
  /\ connQ' = Append(connQ, FALSE)
  /\ UNCHANGED <<peer, objOf, frames, delivered, objVars, taskVars,
                 subVars, downVars, activeConns, bridgeQ, totalBridges, envVars>>

\* clientPool.Get (a pooled struct or a new one), field initialisation,
\* klients.Store, "prometheusConnectionChan <- true" and the go statement
\* of the write pump's goroutine.
Accept(c) ==
  /\ Running
  /\ handler[c] = "new"
  /\ activeConns < MaxConnections
  /\ \E k \in pool \cup (Objs \ used) :
       /\ gen' = [gen EXCEPT ![k] = @ + 1]
       /\ conn' = [conn EXCEPT ![k] = c]
       /\ pool' = pool \ {k}
       /\ used' = used \cup {k}
       /\ klients' = [klients EXCEPT ![c] = k]
       /\ objOf' = [objOf EXCEPT ![c] = k]
       /\ pump' = [pump EXCEPT ![c] = [st |-> "start"]]
  /\ handler' = [handler EXCEPT ![c] = "reading"]
  /\ peer' = [peer EXCEPT ![c] = "open"]
  /\ connQ' = Append(connQ, TRUE)
  /\ UNCHANGED <<frames, delivered, bridges, subs, reqs,
                 requestQ, subVars, downVars, activeConns, bridgeQ,
                 totalBridges, envVars>>

\* The client closes the socket, or the network drops it.
PeerClose(c) ==
  /\ Running
  /\ peer[c] = "open"
  /\ peer' = [peer EXCEPT ![c] = "closed"]
  /\ UNCHANGED <<handler, objOf, frames, delivered, objVars, taskVars,
                 subVars, downVars, gaugeVars, envVars>>

\* A frame that json.Unmarshal decodes: the go statement of a goroutine
\* that will call handleRequest(clientA, req).
ReadFrame(c) ==
  /\ Running
  /\ handler[c] = "reading"
  /\ peer[c] = "open"
  /\ frames[c] < MaxFrames
  /\ \E f \in Frames \ {InvalidFrame} :
       reqs' = Append(reqs, [c |-> c, k |-> None, act |-> f.act,
                             topics |-> EnqueuedTopics(f.steps),
                             steps |-> f.steps, st |-> "new", to |-> None])
  /\ frames' = [frames EXCEPT ![c] = @ + 1]
  /\ UNCHANGED <<handler, peer, objOf, delivered, objVars, requestQ,
                 pump, subVars, downVars, gaugeVars, envVars>>

\* A frame json.Unmarshal rejects: sendError writes an error frame on the
\* socket from the handler goroutine ...
ReadInvalid(c) ==
  /\ Running
  /\ InvalidFrame \in Frames
  /\ handler[c] = "reading"
  /\ peer[c] = "open"
  /\ frames[c] < MaxFrames
  /\ handler' = [handler EXCEPT ![c] = "errframe"]
  /\ frames' = [frames EXCEPT ![c] = @ + 1]
  /\ UNCHANGED <<peer, objOf, delivered, objVars, taskVars, subVars,
                 downVars, gaugeVars, envVars>>

\* The deferred calls when the handler returns, in LIFO order:
\* clientPool.Put(clientA), then "prometheusConnectionChan <- false".
Return(c) ==
  /\ handler' = [handler EXCEPT ![c] = "done"]
  /\ pool' = pool \cup {objOf[c]}
  /\ connQ' = Append(connQ, FALSE)

\* ... then clientA.conn.Close() and return.
InvalidDone(c) ==
  /\ Running
  /\ handler[c] = "errframe"
  /\ Return(c)
  /\ peer' = [peer EXCEPT ![c] = "closed"]
  /\ UNCHANGED <<objOf, frames, delivered, gen, conn,
                 bridges, subs, used, klients, taskVars, subVars, downVars,
                 activeConns, bridgeQ, totalBridges, envVars>>

\* ReadMessage fails with a close error IsUnexpectedCloseError reports (any
\* code but 1001 and 1006): return, without a teardown.
ReadFailReturn(c) ==
  /\ Running
  /\ handler[c] = "reading"
  /\ peer[c] = "closed"
  /\ Return(c)
  /\ UNCHANGED <<peer, objOf, frames, delivered, gen, conn,
                 bridges, subs, used, klients, taskVars, subVars,
                 downVars, activeConns, bridgeQ, totalBridges, envVars>>

\* Any other read error (1001, 1006, a network error): break, then wg.Wait.
ReadFailBreak(c) ==
  /\ Running
  /\ handler[c] = "reading"
  /\ peer[c] = "closed"
  /\ handler' = [handler EXCEPT ![c] = "waiting"]
  /\ UNCHANGED <<peer, objOf, frames, delivered, objVars, taskVars,
                 subVars, downVars, gaugeVars, envVars>>

\* wg.Wait returns once the write pump and every handleRequest goroutine of
\* this handler have returned.
WaitDone(c) ==
  /\ Running
  /\ handler[c] = "waiting"
  /\ pump[c].st = "exit"
  /\ \A r \in DOMAIN reqs : reqs[r].c = c => reqs[r].st = "done"
  /\ Return(c)
  /\ UNCHANGED <<peer, objOf, frames, delivered, gen, conn,
                 bridges, subs, used, klients, taskVars, subVars,
                 downVars, activeConns, bridgeQ, totalBridges, envVars>>

-----------------------------------------------------------------------------
(* handleRequest, one goroutine per decoded frame                          *)

SetReq(r, f, v) == reqs' = [reqs EXCEPT ![r][f] = v]

\* The goroutine starts and reads the variable clientA of its handler: the
\* handler's struct, or the &Client{} its deferred assignment stored once
\* the handler has returned (the unsynchronised read and write race; each
\* outcome is an order of these steps).
ClientAOf(c) == IF handler[c] = "done" THEN Blank ELSE objOf[c]

ReqStart(r) ==
  /\ Running
  /\ r \in DOMAIN reqs
  /\ reqs[r].st = "new"
  /\ reqs' = [reqs EXCEPT ![r].k = ClientAOf(reqs[r].c), ![r].st = "run"]
  /\ UNCHANGED <<connVars, objVars, requestQ, pump, subVars, downVars,
                 gaugeVars, envVars>>

\* "s.requestChannel <- SubsRequest{Client: client, ...}" for the next topic.
ReqEnqueue(r) ==
  /\ Running
  /\ r \in DOMAIN reqs
  /\ reqs[r].st = "run"
  /\ reqs[r].steps # <<>>
  /\ Head(reqs[r].steps).kind = "enqueue"
  /\ requestQ' = Append(requestQ, [k |-> reqs[r].k, act |-> reqs[r].act,
                                   topic |-> Head(reqs[r].steps).topic])
  /\ SetReq(r, "steps", Tail(reqs[r].steps))
  /\ UNCHANGED <<connVars, objVars, pump, subVars, downVars,
                 gaugeVars, envVars>>

\* sendError: conn.WriteMessage on client.conn from this goroutine ...
ReqError(r) ==
  /\ Running
  /\ r \in DOMAIN reqs
  /\ reqs[r].st = "run"
  /\ reqs[r].steps # <<>>
  /\ Head(reqs[r].steps).kind = "error"
  /\ reqs[r].k # Blank
  /\ reqs' = [reqs EXCEPT ![r].st = "errwrite", ![r].to = conn[reqs[r].k]]
  /\ UNCHANGED <<connVars, objVars, requestQ, pump, subVars,
                 downVars, gaugeVars, envVars>>

\* ... on the nil conn of a blank Client: WriteMessage dereferences it.
ReqErrorNilConn(r) ==
  /\ Running
  /\ r \in DOMAIN reqs
  /\ reqs[r].st = "run"
  /\ reqs[r].steps # <<>>
  /\ Head(reqs[r].steps).kind = "error"
  /\ reqs[r].k = Blank
  /\ crash' = "nil pointer dereference"
  /\ UNCHANGED <<connVars, objVars, taskVars, subVars, downVars, gaugeVars,
                 published, mapRace>>

\* ... which returns (its error is only logged), and handleRequest returns.
ReqErrDone(r) ==
  /\ Running
  /\ r \in DOMAIN reqs
  /\ reqs[r].st = "errwrite"
  /\ SetReq(r, "st", "done")
  /\ UNCHANGED <<connVars, objVars, requestQ, pump, subVars,
                 downVars, gaugeVars, envVars>>

ReqEnd(r) ==
  /\ Running
  /\ r \in DOMAIN reqs
  /\ reqs[r].st = "run"
  /\ reqs[r].steps = <<>>
  /\ SetReq(r, "st", "done")
  /\ UNCHANGED <<connVars, objVars, requestQ, pump, subVars,
                 downVars, gaugeVars, envVars>>

-----------------------------------------------------------------------------
(* handleSubRequest: s.mu.Lock() then range over s.requestChannel; the     *)
(* deferred Unlock runs only when the loop ends, which it never does (the  *)
(* channel is never closed and the context never cancelled).  The router  *)
(* therefore holds s.mu from its first instruction for ever: nothing else *)
(* can happen before it, since only the router starts relays.              *)

Cmd == Head(requestQ)
\* client.bridges and client.subs are read through the pointer when the
\* command is handled: the maps of the struct's current incarnation.
CmdInc == Inc(Cmd.k)
\* The command's topic is in client.bridges.
CmdTracked == Cmd.k # Blank /\ bridges[CmdInc][Cmd.topic] # 0

\* SUBSCRIBE of a topic already in client.bridges: logged, nothing else.
RouterSubscribeDup ==
  /\ Running
  /\ requestQ # <<>>
  /\ Cmd.act = Sub
  /\ Cmd.k # Blank
  /\ bridges[CmdInc][Cmd.topic] # 0
  /\ requestQ' = Tail(requestQ)
  /\ UNCHANGED <<connVars, objVars, reqs, pump, subVars, downVars,
                 gaugeVars, envVars>>

\* Mutant: SUBSCRIBE without the "already in client.bridges" check.
RouterSubscribeNewNoDupCheck ==
  /\ Running
  /\ requestQ # <<>>
  /\ Cmd.act = Sub
  /\ Cmd.k # Blank
  /\ nextSub < MaxSubs
  /\ LET s == nextSub + 1
         i == CmdInc
         t == Cmd.topic
     IN /\ nextSub' = s
        /\ bridges' = [bridges EXCEPT ![i][t] = s]
        /\ subs' = [subs EXCEPT ![i][t] = s]
        /\ subInc' = [subInc EXCEPT ![s] = i]
        /\ subTopic' = [subTopic EXCEPT ![s] = t]
        /\ natsOn' \in {[natsOn EXCEPT ![s] = ok] : ok \in BOOLEAN}
        /\ relay' = [relay EXCEPT ![s] = [st |-> "recv"]]
        /\ mapRace' = (mapRace \/ Ranged(i))
  /\ bridgeQ' = Append(bridgeQ, 1)
  /\ requestQ' = Tail(requestQ)
  /\ UNCHANGED <<connVars, gen, conn, pool, used, klients, reqs,
                 pump, inbox, cb, chClosed, downVars, connQ,
                 activeConns, totalBridges, published, crash>>

\* SUBSCRIBE of a new topic: make ch and closeCh, record them, nats.Subscribe
\* (its error is dropped: the handle is then nil), record the handle, count
\* the bridge and start the relay goroutine.
RouterSubscribeNew ==
  /\ Running
  /\ requestQ # <<>>
  /\ Cmd.act = Sub
  /\ Cmd.k # Blank
  /\ bridges[CmdInc][Cmd.topic] = 0
  /\ nextSub < MaxSubs
  /\ LET s == nextSub + 1
         i == CmdInc
         t == Cmd.topic
     IN /\ nextSub' = s
        /\ bridges' = [bridges EXCEPT ![i][t] = s]
        /\ subs' = [subs EXCEPT ![i][t] = s]
        /\ subInc' = [subInc EXCEPT ![s] = i]
        /\ subTopic' = [subTopic EXCEPT ![s] = t]
        /\ natsOn' \in {[natsOn EXCEPT ![s] = ok] : ok \in BOOLEAN}
        /\ relay' = [relay EXCEPT ![s] = [st |-> "recv"]]
        /\ mapRace' = (mapRace \/ Ranged(i))
  /\ bridgeQ' = Append(bridgeQ, 1)
  /\ requestQ' = Tail(requestQ)
  /\ UNCHANGED <<connVars, gen, conn, pool, used, klients, reqs,
                 pump, inbox, cb, chClosed, downVars, connQ,
                 activeConns, totalBridges, published, crash>>

\* SUBSCRIBE for a blank Client: the lookup in its nil bridges map finds
\* nothing, and "client.bridges[natsTopic] = ch" panics.
RouterSubscribeNilMap ==
  /\ Running
  /\ requestQ # <<>>
  /\ Cmd.act = Sub
  /\ Cmd.k = Blank
  /\ crash' = "assignment to entry in nil map"
  /\ UNCHANGED <<connVars, objVars, taskVars, subVars, downVars, gaugeVars,
                 published, mapRace>>

\* The panic close(ch) causes: a second close, or a sender blocked on ch.
ClosePanic(s) ==
  IF chClosed[s] THEN "close of closed channel"
  ELSE IF cb[s] # 0 THEN "send on closed channel"
  ELSE "none"

\* UNSUBSCRIBE of a tracked topic: close(closeChan) (a per-topic channel no
\* goroutine reads), sub.Unsubscribe() if the handle is in client.subs,
\* close(ch), delete the entries, and "s.prometheusBridgeChan <- -1".
RouterUnsubscribeTracked ==
  /\ Running
  /\ requestQ # <<>>
  /\ Cmd.act = Unsub
  /\ Cmd.k # Blank
  /\ bridges[CmdInc][Cmd.topic] # 0
  /\ LET i == CmdInc
         t == Cmd.topic
         s == bridges[i][t]
         h == subs[i][t]
     IN /\ natsOn' = IF h # 0 THEN [natsOn EXCEPT ![h] = FALSE] ELSE natsOn
        /\ subs' = [subs EXCEPT ![i][t] = 0]
        /\ crash' = ClosePanic(s)
        /\ chClosed' = [chClosed EXCEPT ![s] = TRUE]
        /\ bridges' = [bridges EXCEPT ![i][t] = 0]
        /\ mapRace' = (mapRace \/ Ranged(i))
  /\ bridgeQ' = Append(bridgeQ, -1)
  /\ requestQ' = Tail(requestQ)
  /\ UNCHANGED <<connVars, gen, conn, pool, used, klients, reqs,
                 pump, nextSub, subInc, subTopic, inbox, cb, relay,
                 downVars, connQ, activeConns, totalBridges, published>>

\* UNSUBSCRIBE of a topic not in client.bridges (a nil map of a blank
\* Client has none): logged, and "s.prometheusBridgeChan <- -1" all the same.
RouterUnsubscribeUntracked ==
  /\ Running
  /\ requestQ # <<>>
  /\ Cmd.act = Unsub
  /\ ~CmdTracked
  /\ bridgeQ' = Append(bridgeQ, -1)
  /\ requestQ' = Tail(requestQ)
  /\ UNCHANGED <<connVars, objVars, reqs, pump, subVars, downVars,
                 connQ, activeConns, totalBridges, envVars>>

-----------------------------------------------------------------------------
(* The upstream bus, the NATS callback and the relay of each subscription. *)
(* The client's closeCh, which both select on, is never closed: only the    *)
(* teardown closes it, after an s.mu.Lock() that never returns.            *)

\* A message is published on topic t: every active subscription of t queues it.
Publish ==
  /\ Running
  /\ Len(published) < MaxPublish
  /\ \E t \in Topics :
       /\ published' = Append(published, t)
       /\ inbox' = [s \in SubIds |->
                      IF natsOn[s] /\ subTopic[s] = t
                      THEN Append(inbox[s], Len(published) + 1) ELSE inbox[s]]
  /\ UNCHANGED <<connVars, objVars, taskVars, nextSub, subInc, subTopic, natsOn,
                 cb, chClosed, relay, downVars, gaugeVars, crash, mapRace>>

\* messageHandler runs for the next queued message: closeCh is open, so the
\* select takes its default case, "ch <- m.Data", which waits for the relay;
\* a send on a closed ch panics.
Callback(s) ==
  /\ Running
  /\ natsOn[s]
  /\ inbox[s] # <<>>
  /\ cb[s] = 0
  /\ inbox' = [inbox EXCEPT ![s] = Tail(@)]
  /\ \/ /\ chClosed[s]
        /\ crash' = "send on closed channel"
        /\ UNCHANGED cb
     \/ /\ ~chClosed[s]
        /\ cb' = [cb EXCEPT ![s] = Head(inbox[s])]
        /\ UNCHANGED crash
  /\ UNCHANGED <<connVars, objVars, taskVars, nextSub, subInc, subTopic, natsOn,
                 chClosed, relay, downVars, gaugeVars, published, mapRace>>

\* The relay's "for msg := range ch" receives the message the callback sends.
RelayRecv(s) ==
  /\ Running
  /\ relay[s].st = "recv"
  /\ cb[s] # 0
  /\ relay' = [relay EXCEPT ![s] = [st |-> "hold", m |-> cb[s]]]
  /\ cb' = [cb EXCEPT ![s] = 0]
  /\ UNCHANGED <<connVars, objVars, taskVars, nextSub, subInc, subTopic, natsOn,
                 inbox, chClosed, downVars, gaugeVars, envVars>>

\* ch is closed and drained: the range loop ends.
RelayRangeEnd(s) ==
  /\ Running
  /\ relay[s].st = "recv"
  /\ chClosed[s]
  /\ cb[s] = 0
  /\ relay' = [relay EXCEPT ![s] = [st |-> "exit"]]
  /\ UNCHANGED <<connVars, objVars, taskVars, nextSub, subInc, subTopic, natsOn,
                 inbox, cb, chClosed, downVars, gaugeVars, envVars>>

\* select: closeCh is open, so "client.writeCh <- msg" on the channel the
\* field of the captured pointer holds now.
RelayForward(s) ==
  /\ Running
  /\ relay[s].st = "hold"
  /\ relay' = [relay EXCEPT ![s] = [st |-> "send", m |-> relay[s].m,
                                    w |-> Inc(subInc[s][1])]]
  /\ UNCHANGED <<connVars, objVars, taskVars, nextSub, subInc, subTopic, natsOn,
                 inbox, cb, chClosed, downVars, gaugeVars, envVars>>

-----------------------------------------------------------------------------
(* writeToClient, the write pump of connection c.  Each turn of its loop   *)
(* reads client.writeCh and client.closeCh and blocks in select on both;  *)
(* neither is ever closed, so it leaves only on a failed write.            *)

PumpObj(c) == objOf[c]

\* The goroutine starts and calls writeToClient(clientA).  With a blank
\* Client both channels are nil and the select blocks for ever.
PumpStart(c) ==
  /\ Running
  /\ pump[c].st = "start"
  /\ pump' = [pump EXCEPT ![c] =
               [st |-> "wait", w |-> IF ClientAOf(c) = Blank THEN NoInc
                                     ELSE Inc(objOf[c])]]
  /\ UNCHANGED <<connVars, objVars, reqs, requestQ, subVars, downVars,
                 gaugeVars, envVars>>

\* A relay blocked on the channel the pump waits on hands it a message; the
\* pump calls client.conn.WriteMessage with the conn the field holds now.
PumpRecv(c) ==
  /\ Running
  /\ pump[c].st = "wait"
  /\ \E s \in SubIds :
       /\ relay[s].st = "send"
       /\ relay[s].w = pump[c].w
       /\ relay' = [relay EXCEPT ![s] = [st |-> "recv"]]
       /\ pump' = [pump EXCEPT ![c] = [st |-> "write", m |-> relay[s].m,
                                       to |-> conn[PumpObj(c)]]]
  /\ UNCHANGED <<connVars, objVars, reqs, requestQ, nextSub, subInc,
                 subTopic, natsOn, inbox, cb, chClosed, downVars, gaugeVars,
                 envVars>>

\* The frame reaches the socket; back to the select on the fields' channels.
PumpWriteOk(c) ==
  /\ Running
  /\ pump[c].st = "write"
  /\ peer[pump[c].to] = "open"
  /\ delivered' = [delivered EXCEPT ![pump[c].to] = Append(@, pump[c].m)]
  /\ pump' = [pump EXCEPT ![c] = [st |-> "wait", w |-> Inc(PumpObj(c))]]
  /\ UNCHANGED <<handler, peer, objOf, frames, objVars, reqs,
                 requestQ, subVars, downVars, gaugeVars, envVars>>

\* Mutant: the pump reports the Client struct instead of its conn.
PumpWriteFailSendsClient(c) ==
  /\ Running
  /\ pump[c].st = "write"
  /\ peer[pump[c].to] = "closed"
  /\ removeQ' = Append(removeQ, PumpObj(c))
  /\ pump' = [pump EXCEPT ![c] = [st |-> "exit"]]
  /\ UNCHANGED <<connVars, objVars, reqs, requestQ, subVars, tds,
                 cleanupQ, sweep, gaugeVars, envVars>>

\* WriteMessage fails: "s.removeClientChan <- *client" (a copy, of which the
\* remover uses the conn field) and return.
PumpWriteFail(c) ==
  /\ Running
  /\ pump[c].st = "write"
  /\ peer[pump[c].to] = "closed"
  /\ removeQ' = Append(removeQ, conn[PumpObj(c)])
  /\ pump' = [pump EXCEPT ![c] = [st |-> "exit"]]
  /\ UNCHANGED <<connVars, objVars, reqs, requestQ, subVars, tds,
                 cleanupQ, sweep, gaugeVars, envVars>>

-----------------------------------------------------------------------------
(* removeClientPermanently: for each conn it receives, klients.Load and    *)
(* the assertion to a Client pointer, then a goroutine tds[d] that runs   *)
(* the teardown on that pointer, reading its fields as it goes.  Its       *)
(* s.mu.Lock() calls never return (the router holds s.mu): the teardown   *)
(* stops at the first one, and klients.Delete and the closing of closeCh   *)
(* and writeCh after it (server.go 464-477) never run.                      *)

TeardownDequeue ==
  /\ Running
  /\ removeQ # <<>>
  /\ removeQ' = Tail(removeQ)
  /\ LET k == klients[Head(removeQ)]
     IN IF k = None
        THEN \* asserting the nil interface Load returned to a Client pointer
             crash' = "nil interface conversion" /\ UNCHANGED tds
        ELSE tds' = Append(tds, [k |-> k, ph |-> "cleanup"])
             /\ UNCHANGED crash
  /\ UNCHANGED <<connVars, objVars, taskVars, subVars, cleanupQ, sweep,
                 gaugeVars, published, mapRace>>

SetTd(d, f, v) == tds' = [tds EXCEPT ![d][f] = v]

\* "s.natsCleanupChan <- UnsubscribeNatsTopics{subs: connection.subs}": the
\* sweep gets the map itself, not a copy.
TdCleanup(d) ==
  /\ Running
  /\ d \in DOMAIN tds
  /\ tds[d].ph = "cleanup"
  /\ cleanupQ' = Append(cleanupQ, Inc(tds[d].k))
  /\ SetTd(d, "ph", "delsubs")
  /\ UNCHANGED <<connVars, objVars, taskVars, subVars, removeQ, sweep,
                 gaugeVars, envVars>>

\* The range loop over connection.subs, "s.mu.Lock(); delete; ..." per
\* entry, then "s.prometheusBridgeChan <- -len(connection.subs)".  Only an
\* empty map gets past the loop (sending -0); on a non-empty one the
\* teardown blocks in its first Lock for ever.
TdDeleteSubs(d) ==
  /\ Running
  /\ d \in DOMAIN tds
  /\ tds[d].ph = "delsubs"
  /\ Tracked(subs[Inc(tds[d].k)]) = {}
  /\ bridgeQ' = Append(bridgeQ, 0)
  /\ SetTd(d, "ph", "bridges")
  /\ UNCHANGED <<connVars, objVars, taskVars, subVars, removeQ, cleanupQ, sweep,
                 connQ, activeConns, totalBridges, envVars>>

\* close(ch) for every channel in connection.bridges, without the lock and
\* without removing the entries; then the teardown blocks in s.mu.Lock()
\* before klients.Delete.
TdCloseBridges(d) ==
  /\ Running
  /\ d \in DOMAIN tds
  /\ tds[d].ph = "bridges"
  /\ LET i == Inc(tds[d].k)
         S == {bridges[i][t] : t \in Tracked(bridges[i])}
     IN /\ crash' = IF \E s \in S : ClosePanic(s) # "none"
                    THEN ClosePanic(CHOOSE s \in S : ClosePanic(s) # "none")
                    ELSE "none"
        /\ chClosed' = [s \in SubIds |-> chClosed[s] \/ s \in S]
  /\ SetTd(d, "ph", "locked")
  /\ UNCHANGED <<connVars, objVars, taskVars, nextSub, subInc, subTopic, natsOn,
                 inbox, cb, relay, removeQ, cleanupQ, sweep, gaugeVars,
                 published, mapRace>>

-----------------------------------------------------------------------------
(* unsubscribeFromNats: ranges over each map it receives, Unsubscribe and  *)
(* "s.prometheusBridgeChan <- -1" per entry.  No lock is taken.  A Go      *)
(* range visits every key present throughout once, and a key added during *)
(* the loop may or may not be visited.                                     *)

SweepBegin ==
  /\ Running
  /\ sweep.i = NoInc
  /\ cleanupQ # <<>>
  /\ sweep' = [i |-> Head(cleanupQ), keys |-> Tracked(subs[Head(cleanupQ)]),
               done |-> {}]
  /\ cleanupQ' = Tail(cleanupQ)
  /\ UNCHANGED <<connVars, objVars, taskVars, subVars, removeQ, tds, gaugeVars,
                 envVars>>

SweepStep ==
  /\ Running
  /\ sweep.i # NoInc
  /\ \E t \in Tracked(subs[sweep.i]) \ sweep.done :
       /\ natsOn' = [natsOn EXCEPT ![subs[sweep.i][t]] = FALSE]
       /\ sweep' = [sweep EXCEPT !.done = @ \cup {t}]
  /\ bridgeQ' = Append(bridgeQ, -1)
  /\ UNCHANGED <<connVars, objVars, taskVars, nextSub, subInc, subTopic, inbox,
                 cb, chClosed, relay, removeQ, tds, cleanupQ, connQ, activeConns,
                 totalBridges, envVars>>

SweepEnd ==
  /\ Running
  /\ sweep.i # NoInc
  /\ sweep.keys \cap Tracked(subs[sweep.i]) \subseteq sweep.done
  /\ sweep' = [i |-> NoInc, keys |-> {}, done |-> {}]
  /\ UNCHANGED <<connVars, objVars, taskVars, subVars, removeQ, tds, cleanupQ,
                 gaugeVars, envVars>>

-----------------------------------------------------------------------------
(* The metrics goroutines.                                                 *)

\* prometheusTotalConnections: atomic.AddInt32(&s.activeConns, +1 or -1).
ConnGauge ==
  /\ Running
  /\ connQ # <<>>
  /\ activeConns' = activeConns + IF Head(connQ) THEN 1 ELSE -1
  /\ connQ' = Tail(connQ)
  /\ UNCHANGED <<connVars, objVars, taskVars, subVars, downVars, bridgeQ,
                 totalBridges, envVars>>

\* prometheusTotalBridges: the count is only updated while it is >= 0.
BridgeGauge ==
  /\ Running
  /\ bridgeQ # <<>>
  /\ totalBridges' = IF totalBridges >= 0 THEN totalBridges + Head(bridgeQ)
                     ELSE totalBridges
  /\ bridgeQ' = Tail(bridgeQ)
  /\ UNCHANGED <<connVars, objVars, taskVars, subVars, downVars, connQ,
                 activeConns, envVars>>

-----------------------------------------------------------------------------

\* What the clients and the upstream bus do: nobody is obliged to do it.
Environment ==
  \/ \E c \in Conns : Reject(c) \/ Accept(c) \/ PeerClose(c)
                      \/ ReadFrame(c) \/ ReadInvalid(c)
  \/ Publish

\* What the server's goroutines do.
Server ==
  \/ \E c \in Conns : \/ InvalidDone(c) \/ ReadFailReturn(c) \/ ReadFailBreak(c)
                      \/ WaitDone(c)
                      \/ PumpStart(c) \/ PumpRecv(c) \/ PumpWriteOk(c)
                      \/ PumpWriteFail(c)
  \/ \E r \in 1..MaxReqs : \/ ReqStart(r) \/ ReqEnqueue(r) \/ ReqError(r)
                          \/ ReqErrorNilConn(r) \/ ReqErrDone(r) \/ ReqEnd(r)
  \/ RouterSubscribeDup \/ RouterSubscribeNew \/ RouterSubscribeNilMap
  \/ RouterUnsubscribeTracked \/ RouterUnsubscribeUntracked
  \/ \E s \in SubIds : Callback(s) \/ RelayRecv(s) \/ RelayRangeEnd(s) \/ RelayForward(s)
  \/ TeardownDequeue
  \/ \E d \in 1..MaxTds : TdCleanup(d) \/ TdDeleteSubs(d) \/ TdCloseBridges(d)
  \/ SweepBegin \/ SweepStep \/ SweepEnd
  \/ ConnGauge \/ BridgeGauge

Next == Environment \/ Server

\* The Go scheduler eventually runs every goroutine that stays runnable: each
\* goroutine of the server is weakly fair.  Clients and the upstream bus are
\* not obliged to do anything.
Fairness ==
  /\ \A c \in Conns :
       /\ WF_vars(InvalidDone(c) \/ ReadFailReturn(c) \/ ReadFailBreak(c) \/ WaitDone(c))
       /\ WF_vars(PumpStart(c) \/ PumpRecv(c) \/ PumpWriteOk(c) \/ PumpWriteFail(c))
  /\ \A r \in 1..MaxReqs :
       WF_vars(ReqStart(r) \/ ReqEnqueue(r) \/ ReqError(r) \/ ReqErrorNilConn(r)
               \/ ReqErrDone(r) \/ ReqEnd(r))
  /\ WF_vars(RouterSubscribeDup \/ RouterSubscribeNew \/ RouterSubscribeNilMap
             \/ RouterUnsubscribeTracked \/ RouterUnsubscribeUntracked)
  /\ \A s \in SubIds : WF_vars(Callback(s))
  /\ \A s \in SubIds : WF_vars(RelayRecv(s) \/ RelayRangeEnd(s) \/ RelayForward(s))
  /\ WF_vars(TeardownDequeue)
  /\ \A d \in 1..MaxTds :
       WF_vars(TdCleanup(d) \/ TdDeleteSubs(d) \/ TdCloseBridges(d))
  /\ WF_vars(SweepBegin \/ SweepStep \/ SweepEnd)
  /\ WF_vars(ConnGauge)
  /\ WF_vars(BridgeGauge)

Spec == Init /\ [][Next]_vars /\ Fairness

-----------------------------------------------------------------------------
(* Properties                                                              *)

Payloads == [act : {Sub, Unsub}, k : Objs \cup {Blank}, topic : Topics]
RelayStates ==
  {[st |-> x] : x \in {"none", "recv", "exit"}} \cup [st : {"hold"}, m : Msgs]
  \cup [st : {"send"}, m : Msgs, w : Incs]
PumpStates ==
  {[st |-> x] : x \in {"none", "start", "exit"}}
  \cup [st : {"wait"}, w : Incs \cup {NoInc}]
  \cup [st : {"write"}, m : Msgs, to : Conns]

TypeOK ==
  /\ handler \in [Conns -> {"new", "reading", "errframe", "waiting", "done"}]
  /\ peer \in [Conns -> {"none", "open", "closed"}]
  /\ objOf \in [Conns -> Objs \cup {None}]
  /\ delivered \in [Conns -> Seq(Msgs)]
  /\ gen \in [Objs -> 0..Cardinality(Conns)]
  /\ conn \in [Objs -> Conns \cup {None}]
  /\ chClosed \in [SubIds -> BOOLEAN]
  /\ tds \in Seq([k : Objs, ph : {"cleanup", "delsubs", "bridges", "locked"}])
  /\ bridges \in [Incs -> [Topics -> 0..MaxSubs]]
  /\ subs \in [Incs -> [Topics -> 0..MaxSubs]]
  /\ pool \subseteq used /\ used \subseteq Objs
  /\ klients \in [Conns -> Objs \cup {None}]
  /\ requestQ \in Seq(Payloads)
  /\ pump \in [Conns -> PumpStates]
  /\ relay \in [SubIds -> RelayStates]
  /\ cb \in [SubIds -> 0..MaxPublish]
  /\ natsOn \in [SubIds -> BOOLEAN]
  /\ removeQ \in Seq(Conns)
  /\ cleanupQ \in Seq(Incs)
  /\ connQ \in Seq(BOOLEAN) /\ activeConns \in Int
  /\ bridgeQ \in Seq(Int) /\ totalBridges \in Int

\* The topics connection c has sent SUBSCRIBE for.
Requested(c) ==
  UNION {reqs[r].topics : r \in {q \in DOMAIN reqs : reqs[q].c = c /\ reqs[q].act = Sub}}

Live(c) == handler[c] \in {"reading", "errframe", "waiting"}

\* Entries of all bridges maps: the bridges the router believes exist.
Bridges == {it \in Incs \X Topics : bridges[it[1]][it[2]] # 0}

\* SUBSCRIBE is idempotent (spec section 8): the router never holds two live
\* upstream subscriptions for the same topic in one client's maps, whatever
\* the order of commands from concurrent handleRequest goroutines, teardowns
\* and sweeps.
SubscribeIdempotent ==
  \A s1, s2 \in SubIds :
    (s1 # s2 /\ natsOn[s1] /\ natsOn[s2] /\ subInc[s1] = subInc[s2])
      => subTopic[s1] # subTopic[s2]

\* A subs map some goroutine can still reach: the one the fields of its
\* Client struct point to (handleConnections replaces it with a new map
\* when the pool hands the struct out again), or one handed to the sweep.
Reachable(i) ==
  i = Inc(i[1]) \/ i = sweep.i \/ \E j \in DOMAIN cleanupQ : cleanupQ[j] = i

\* Every live upstream subscription is still held in a subs map some
\* goroutine can reach, so an UNSUBSCRIBE or a teardown sweep can release
\* it (spec section 8: a disconnected client leaves no residual upstream
\* subscription): no path of the handler, the router, the teardown or the
\* sweep drops a handle it has not unsubscribed.
UpstreamTracked ==
  \A s \in SubIds :
    natsOn[s] => subs[subInc[s]][subTopic[s]] = s /\ Reachable(subInc[s])

\* A client only receives payloads of topics it has subscribed to (spec
\* section 8): no relay or write pump of another client, or of an earlier
\* user of the same pooled Client struct, writes to its socket.
NoForeignDelivery ==
  \A c \in Conns : \A i \in DOMAIN delivered[c] :
    published[delivered[c][i]] \in Requested(c)

\* No goroutine panics sending on a channel closed under it: the NATS
\* callback on a bridge channel that UNSUBSCRIBE or a teardown or a
\* relay on a writeCh the teardown closed.
NoSendOnClosedChannel == crash # "send on closed channel"

\* No map of a client is written while the sweep ranges over it (Go stops
\* the process with "concurrent map iteration and map write").
NoConcurrentMapAccess == ~mapRace

=============================================================================
