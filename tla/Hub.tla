-------------------------------- MODULE Hub --------------------------------
(***************************************************************************)
(* The WebSocket hub of the API server: backend/internal/ws/hub.go and the *)
(* handler MonitorWS that feeds it.  One goroutine (Hub.Run) owns the map  *)
(* of clients and takes from three channels; every connection has two      *)
(* goroutines, the handler that becomes ReadPump and WritePump; the        *)
(* services call Broadcast from any request goroutine.                     *)
(*                                                                         *)
(* Atomicity: one step per channel operation.  broadcastMessage offers the *)
(* message to one client per step, because WritePumps take from their      *)
(* channels meanwhile.                                                     *)
(***************************************************************************)
EXTENDS Integers, Sequences, FiniteSets

CONSTANTS Clients,    \* connections, each used once
          QueueCap,   \* capacity of Hub.broadcast (256 in NewHub)
          SendCap,    \* capacity of Client.send (256 in Register)
          MaxEvents   \* bound: calls of Broadcast

ASSUME HubAssumption == /\ IsFiniteSet(Clients)
                        /\ QueueCap \in Nat \ {0}
                        /\ SendCap \in Nat \ {0}
                        /\ MaxEvents \in Nat

VARIABLES clients,        \* keys of Hub.clients
          activeClients,  \* Hub.activeClients
          dropped,        \* Hub.droppedBroadcasts
          queue,          \* Hub.broadcast
          send,           \* send[c]: what Client.send holds
          closed,         \* closed[c]: close(c.send) was executed
          pending,        \* clients broadcastMessage has yet to visit
          current,        \* the message broadcastMessage is sending
          reader,         \* reader[c]: where the handler / ReadPump is
          writer,         \* writer[c]: where WritePump is
          conn,           \* conn[c]: the TCP connection
          panicked,       \* a send on, or a close of, a closed channel
          attempts,       \* history: calls of Broadcast
          order,          \* history: messages taken from Hub.broadcast
          joined,         \* history: Len(order) when c was registered
          delivered       \* history: messages WritePump wrote to c

hubVars  == <<clients, activeClients, pending, current, order, joined>>
connVars == <<reader, writer, conn>>
vars == <<clients, activeClients, dropped, queue, send, closed, pending, current,
          reader, writer, conn, panicked, attempts, order, joined, delivered>>

NotJoined == -1
ReaderPcs == {"none", "registering", "registered", "reading", "unregistering",
              "closing", "done"}
WriterPcs == {"none", "writing", "done"}
ConnStates == {"none", "open", "gone", "closed"}  \* gone: the peer left

HubTypes == /\ clients \subseteq Clients
            /\ activeClients \in Nat
            /\ dropped \in Nat
            /\ queue \in Seq(Nat)
            /\ Len(queue) <= QueueCap
            /\ pending \subseteq Clients
            /\ current \in Nat

ConnTypes == /\ send \in [Clients -> Seq(Nat)]
             /\ \A c \in Clients : Len(send[c]) <= SendCap
             /\ reader \in [Clients -> ReaderPcs]
             /\ writer \in [Clients -> WriterPcs]
             /\ conn \in [Clients -> ConnStates]

FlagTypes == /\ closed \in [Clients -> BOOLEAN]
             /\ panicked \in BOOLEAN

HistoryTypes == /\ attempts \in Nat
                /\ order \in Seq(Nat)
                /\ joined \in [Clients -> Nat \cup {NotJoined}]
                /\ delivered \in [Clients -> Seq(Nat)]

TypeOK == HubTypes /\ ConnTypes /\ FlagTypes /\ HistoryTypes

Init == /\ clients = {}
        /\ activeClients = 0
        /\ dropped = 0
        /\ queue = <<>>
        /\ send = [c \in Clients |-> <<>>]
        /\ closed = [c \in Clients |-> FALSE]
        /\ pending = {}
        /\ current = 0
        /\ reader = [c \in Clients |-> "none"]
        /\ writer = [c \in Clients |-> "none"]
        /\ conn = [c \in Clients |-> "none"]
        /\ panicked = FALSE
        /\ attempts = 0
        /\ order = <<>>
        /\ joined = [c \in Clients |-> NotJoined]
        /\ delivered = [c \in Clients |-> <<>>]
-----------------------------------------------------------------------------
(* Helpers of the hub goroutine.                                           *)

\* The hub goroutine is back in its select.
Selecting == pending = {}

\* registerClient
RegisterClient(c) ==
    IF c \in clients
    THEN UNCHANGED <<clients, activeClients>>
    ELSE /\ clients' = clients \cup {c}
         /\ activeClients' = activeClients + 1

\* Mutant: the membership test is left out.
UnregisterClientUnguarded(c) ==
    /\ clients' = clients \ {c}
    /\ closed' = [closed EXCEPT ![c] = TRUE]
    /\ panicked' = (panicked \/ closed[c])
    /\ activeClients' = activeClients - 1

\* unregisterClient: nothing for a client that is not in the map, else remove
\* it, close its channel (a panic if that was done before), count it out.
UnregisterClient(c) ==
    IF c \notin clients
    THEN UNCHANGED <<clients, activeClients, closed, panicked>>
    ELSE /\ clients' = clients \ {c}
         /\ closed' = [closed EXCEPT ![c] = TRUE]
         /\ panicked' = (panicked \/ closed[c])
         /\ activeClients' = activeClients - 1

\* Broadcast: enqueue without blocking, or count the message as dropped.  The
\* message is named by the number of the call.
BroadcastEvent ==
    /\ attempts < MaxEvents
    /\ attempts' = attempts + 1
    /\ IF Len(queue) < QueueCap
       THEN /\ queue' = Append(queue, attempts + 1)
            /\ UNCHANGED dropped
       ELSE /\ dropped' = dropped + 1
            /\ UNCHANGED queue
    /\ UNCHANGED <<hubVars, connVars, send, closed, panicked, delivered>>
-----------------------------------------------------------------------------
(* A request goroutine.                                                    *)

Broadcast == BroadcastEvent

\* json.Marshal failed: nothing is queued, the call counts as a drop.
BroadcastUnencodable ==
    /\ attempts < MaxEvents
    /\ attempts' = attempts + 1
    /\ dropped' = dropped + 1
    /\ UNCHANGED <<hubVars, connVars, queue, send, closed, panicked, delivered>>
-----------------------------------------------------------------------------
(* The hub goroutine.                                                      *)

\* case client := <-h.register; the handler blocked in Register goes on.
HubRegister(c) ==
    /\ Selecting
    /\ reader[c] = "registering"
    /\ reader' = [reader EXCEPT ![c] = "registered"]
    /\ RegisterClient(c)
    /\ joined' = [joined EXCEPT ![c] = Len(order)]
    /\ UNCHANGED <<dropped, queue, send, closed, pending, current, writer, conn,
                   panicked, attempts, order, delivered>>

\* case client := <-h.unregister; the ReadPump blocked in its defer goes on.
HubUnregister(c) ==
    /\ Selecting
    /\ reader[c] = "unregistering"
    /\ reader' = [reader EXCEPT ![c] = "closing"]
    /\ UnregisterClient(c)
    /\ UNCHANGED <<dropped, queue, send, pending, current, writer, conn, attempts,
                   order, joined, delivered>>

\* case message := <-h.broadcast; broadcastMessage starts to range over clients.
HubTake ==
    /\ Selecting
    /\ queue # <<>>
    /\ current' = Head(queue)
    /\ queue' = Tail(queue)
    /\ order' = Append(order, Head(queue))
    /\ pending' = clients
    /\ UNCHANGED <<clients, activeClients, dropped, send, closed, connVars, panicked,
                   attempts, joined, delivered>>

\* Mutant: a client that is full is passed over and stays registered.
HubOfferSkips(c) ==
    /\ c \in pending
    /\ pending' = pending \ {c}
    /\ IF Len(send[c]) < SendCap
       THEN /\ send' = [send EXCEPT ![c] = Append(@, current)]
            /\ UNCHANGED dropped
       ELSE /\ dropped' = dropped + 1
            /\ UNCHANGED send
    /\ UNCHANGED <<clients, activeClients, closed, panicked, queue, current, connVars,
                   attempts, order, joined, delivered>>

\* Mutant: the send blocks until the client has room.
HubOfferBlocks(c) ==
    /\ c \in pending
    /\ Len(send[c]) < SendCap
    /\ pending' = pending \ {c}
    /\ send' = [send EXCEPT ![c] = Append(@, current)]
    /\ UNCHANGED <<clients, activeClients, closed, panicked, dropped, queue, current,
                   connVars, attempts, order, joined, delivered>>

\* One iteration of broadcastMessage: a channel with room takes the message, a
\* full one costs the client its registration.
HubOffer(c) ==
    /\ c \in pending
    /\ pending' = pending \ {c}
    /\ IF closed[c] \/ Len(send[c]) < SendCap
       THEN /\ send' = IF closed[c] THEN send
                       ELSE [send EXCEPT ![c] = Append(@, current)]
            /\ panicked' = (panicked \/ closed[c])
            /\ UNCHANGED <<clients, activeClients, closed, dropped>>
       ELSE /\ UnregisterClient(c)
            /\ dropped' = dropped + 1
            /\ UNCHANGED send
    /\ UNCHANGED <<queue, current, connVars, attempts, order, joined, delivered>>

\* case <-ticker.C: the hub broadcasts a heartbeat to itself.
HubHeartbeat == Selecting /\ BroadcastEvent
-----------------------------------------------------------------------------
(* The goroutines of a connection.                                         *)

\* MonitorWS: the upgrade succeeded and Register is called.
Connect(c) ==
    /\ reader[c] = "none"
    /\ reader' = [reader EXCEPT ![c] = "registering"]
    /\ conn' = [conn EXCEPT ![c] = "open"]
    /\ UNCHANGED <<hubVars, dropped, queue, send, closed, writer, panicked, attempts,
                   delivered>>

\* MonitorWS: go client.WritePump(); client.ReadPump().
StartPumps(c) ==
    /\ reader[c] = "registered"
    /\ reader' = [reader EXCEPT ![c] = "reading"]
    /\ writer' = [writer EXCEPT ![c] = "writing"]
    /\ UNCHANGED <<hubVars, dropped, queue, send, closed, conn, panicked, attempts,
                   delivered>>

\* The browser leaves, or stops answering pings for pongWait.
PeerGone(c) ==
    /\ conn[c] = "open"
    /\ conn' = [conn EXCEPT ![c] = "gone"]
    /\ UNCHANGED <<hubVars, dropped, queue, send, closed, reader, writer, panicked,
                   attempts, delivered>>

\* ReadPump: ReadMessage fails on a connection that is gone or closed.
ReadFails(c) ==
    /\ reader[c] = "reading"
    /\ conn[c] \in {"gone", "closed"}
    /\ reader' = [reader EXCEPT ![c] = "unregistering"]
    /\ UNCHANGED <<hubVars, dropped, queue, send, closed, writer, conn, panicked,
                   attempts, delivered>>

\* ReadPump's defer, after the unregister: conn.Close().
ReaderCloses(c) ==
    /\ reader[c] = "closing"
    /\ reader' = [reader EXCEPT ![c] = "done"]
    /\ conn' = [conn EXCEPT ![c] = "closed"]
    /\ UNCHANGED <<hubVars, dropped, queue, send, closed, writer, panicked, attempts,
                   delivered>>

\* Mutant: the message stays in the channel after the write.
WriteMessageTwice(c) ==
    /\ writer[c] = "writing"
    /\ send[c] # <<>>
    /\ conn[c] \in {"open", "gone"}
    /\ delivered' = IF conn[c] = "open"
                    THEN [delivered EXCEPT ![c] = Append(@, Head(send[c]))]
                    ELSE delivered
    /\ UNCHANGED <<hubVars, connVars, dropped, queue, send, closed, panicked, attempts>>

\* WritePump: a message is taken and written.  A write to a peer that is gone may
\* still succeed locally; the message is then lost.
WriteMessage(c) ==
    /\ writer[c] = "writing"
    /\ send[c] # <<>>
    /\ conn[c] \in {"open", "gone"}
    /\ send' = [send EXCEPT ![c] = Tail(@)]
    /\ delivered' = IF conn[c] = "open"
                    THEN [delivered EXCEPT ![c] = Append(@, Head(send[c]))]
                    ELSE delivered
    /\ UNCHANGED <<hubVars, connVars, dropped, queue, closed, panicked, attempts>>

\* WritePump: the write of a message or of a ping fails; the pump returns and its
\* defer closes the connection.  The message taken is lost.
WriteFails(c) ==
    /\ writer[c] = "writing"
    /\ conn[c] \in {"gone", "closed"}
    /\ send' \in {send, [send EXCEPT ![c] = IF @ = <<>> THEN @ ELSE Tail(@)]}
    /\ writer' = [writer EXCEPT ![c] = "done"]
    /\ conn' = [conn EXCEPT ![c] = "closed"]
    /\ UNCHANGED <<hubVars, dropped, queue, closed, reader, panicked, attempts, delivered>>

\* Mutant: the pump returns without closing the connection.
WriterEndsSilently(c) ==
    /\ writer[c] = "writing"
    /\ closed[c]
    /\ send[c] = <<>>
    /\ writer' = [writer EXCEPT ![c] = "done"]
    /\ UNCHANGED <<hubVars, dropped, queue, send, closed, reader, conn, panicked,
                   attempts, delivered>>

\* WritePump: the channel is closed and empty; the pump says goodbye and returns.
WriterEnds(c) ==
    /\ writer[c] = "writing"
    /\ closed[c]
    /\ send[c] = <<>>
    /\ writer' = [writer EXCEPT ![c] = "done"]
    /\ conn' = [conn EXCEPT ![c] = "closed"]
    /\ UNCHANGED <<hubVars, dropped, queue, send, closed, reader, panicked, attempts,
                   delivered>>
-----------------------------------------------------------------------------
HubStep == \/ HubTake
           \/ HubHeartbeat
           \/ \E c \in Clients : HubRegister(c) \/ HubUnregister(c) \/ HubOffer(c)

ReaderStep(c) == StartPumps(c) \/ ReadFails(c) \/ ReaderCloses(c)
WriterStep(c) == WriteMessage(c) \/ WriteFails(c) \/ WriterEnds(c)

Next == \/ Broadcast
        \/ BroadcastUnencodable
        \/ HubStep
        \/ \E c \in Clients : \/ Connect(c)
                              \/ PeerGone(c)
                              \/ ReaderStep(c)
                              \/ WriterStep(c)

Spec == Init /\ [][Next]_vars

\* A goroutine that can run runs.  Go's select picks a ready case at random, so a
\* case that is ready again and again is taken: strong fairness per case.  The
\* browsers and the callers of Broadcast owe nothing.
Fairness ==
    /\ SF_vars(HubTake)
    /\ \A c \in Clients : /\ SF_vars(HubRegister(c))
                          /\ SF_vars(HubUnregister(c))
                          /\ WF_vars(HubOffer(c))
                          /\ WF_vars(ReaderStep(c))
                          /\ WF_vars(WriterStep(c))

FairSpec == Spec /\ Fairness
-----------------------------------------------------------------------------
(* Properties.                                                             *)

\* No goroutine panics: the hub never sends on a channel it closed and never
\* closes one twice, although a client can be thrown out by broadcastMessage
\* and by its own ReadPump (unregisterClient, broadcastMessage).
NoPanic == ~panicked

\* The client gauge of /ready and of the logs counts the map exactly, on every
\* path out of it (registerClient, unregisterClient).
ActiveClientsExact == activeClients = Cardinality(clients)

\* What c was written is the run of the hub's order that starts where c was
\* registered (Run, broadcastMessage, WritePump).
DeliveredRun(c) ==
    /\ joined[c] + Len(delivered[c]) <= Len(order)
    /\ \A i \in 1 .. Len(delivered[c]) : delivered[c][i] = order[joined[c] + i]

\* What c's channel holds is the next part of that run.
BufferedRun(c) ==
    LET sentTo == joined[c] + Len(delivered[c])
    IN  /\ sentTo + Len(send[c]) <= Len(order)
        /\ \A i \in 1 .. Len(send[c]) : send[c][i] = order[sentTo + i]

\* A browser sees the events in the order the hub took them, from the moment it
\* was registered, with no gap and no repetition, however the pumps, the hub and
\* a forced removal interleave; and as long as the connection works the rest of
\* the run is in its channel.
GapFree == \A c \in Clients :
    joined[c] # NotJoined =>
        /\ DeliveredRun(c)
        /\ conn[c] = "open" => BufferedRun(c)

\* A registered client with a working connection misses nothing: what it was
\* written and what its channel holds reach the newest message, but for the one
\* broadcastMessage is about to offer it.
NothingSkipped == \A c \in clients :
    conn[c] = "open" =>
        joined[c] + Len(delivered[c]) + Len(send[c])
            = Len(order) - (IF c \in pending THEN 1 ELSE 0)

\* Every goroutine of a connection that broke, or that the hub threw out, ends,
\* and the client leaves the map: nothing leaks (ReadPump, WritePump, Run).  A
\* connection is used once, so what broke stays broken and what ended stays ended.
ConnectionsEnd == <>[](\A c \in Clients :
    (conn[c] \in {"gone", "closed"} \/ closed[c])
        => (reader[c] = "done" /\ writer[c] = "done" /\ c \notin clients))

\* Every message that was queued goes out, whatever connections come, stall and go:
\* the queue, which is first in first out, is empty again and again (Run,
\* broadcastMessage).
QueueDrains == []<>(queue = <<>>)

\* The hub is an ordered broadcast: accepted messages are the published ones.
OB == INSTANCE OrderedBroadcast
        WITH Events <- 1 .. MaxEvents,
             published <- order \o queue, start <- joined, received <- delivered
ImplementsOrderedBroadcast == OB!Spec
=============================================================================
