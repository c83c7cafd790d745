----------------------------- MODULE HubProofs -----------------------------
(***************************************************************************)
(* Proofs about Hub, for any number of connections, any capacities and any *)
(* number of broadcasts: no panic and an exact counter (SafetyInv), no gap *)
(* in what a connection gets (OrderInv), and with these two that the hub   *)
(* implements OrderedBroadcast.                                            *)
(***************************************************************************)
EXTENDS Hub, FiniteSetTheorems, SequenceTheorems, TLAPS

\* A channel is closed only after its client was taken out of the map, and
\* broadcastMessage only visits clients that are still in it.
ChannelInv ==
    /\ pending \subseteq clients
    /\ \A c \in clients : ~closed[c]
    /\ \A c \in Clients : reader[c] \in {"none", "registering"} =>
                              ~closed[c] /\ c \notin clients
    /\ NoPanic
    /\ ActiveClientsExact

SafetyInv == TypeOK /\ ChannelInv

\* The initial state is well typed and safe.
LEMMA InitSafety == Init => SafetyInv
  <1> SUFFICES ASSUME Init PROVE SafetyInv
    OBVIOUS
  <1>1. HubTypes
    BY HubAssumption DEF Init, HubTypes
  <1>2. ConnTypes
    BY HubAssumption DEF Init, ConnTypes, ReaderPcs, WriterPcs, ConnStates
  <1>3. FlagTypes
    BY DEF Init, FlagTypes
  <1>4. HistoryTypes
    BY DEF Init, HistoryTypes, NotJoined
  <1>5. ChannelInv
    BY FS_EmptySet DEF Init, ChannelInv, NoPanic, ActiveClientsExact
  <1>6. QED
    BY <1>1, <1>2, <1>3, <1>4, <1>5 DEF SafetyInv, TypeOK

\* Taking a client of the map out of it keeps the gauge exact and closes a
\* channel that was open (unregisterClient).
LEMMA UnregisterSafe ==
    ASSUME SafetyInv, NEW c \in Clients, UnregisterClient(c)
    PROVE  /\ clients' = clients \ {c}
           /\ activeClients' \in Nat
           /\ ActiveClientsExact'
           /\ closed' \in [Clients -> BOOLEAN]
           /\ \A d \in Clients : d # c => closed'[d] = closed[d]
           /\ c \notin clients => closed' = closed
           /\ panicked' = FALSE
  <1>1. IsFiniteSet(clients)
    BY HubAssumption, FS_Subset DEF SafetyInv, TypeOK, HubTypes
  <1>2. activeClients = Cardinality(clients) /\ panicked = FALSE
    BY DEF SafetyInv, ChannelInv, ActiveClientsExact, NoPanic, TypeOK, FlagTypes
  <1>3. CASE c \notin clients
    BY <1>2, <1>3
       DEF UnregisterClient, SafetyInv, TypeOK, HubTypes, FlagTypes, ActiveClientsExact
  <1>4. CASE c \in clients
    <2>1. /\ Cardinality(clients \ {c}) = Cardinality(clients) - 1
          /\ Cardinality(clients \ {c}) \in Nat
      BY <1>1, <1>4, FS_RemoveElement, FS_CardinalityType
    <2>2. panicked' = FALSE
      BY <1>2, <1>4 DEF UnregisterClient, SafetyInv, ChannelInv
    <2>3. QED
      BY <1>2, <1>4, <2>1, <2>2
         DEF UnregisterClient, SafetyInv, TypeOK, FlagTypes, ActiveClientsExact
  <1>5. QED
    BY <1>3, <1>4

\* A broadcast leaves the queue typed and within its capacity (Broadcast).
LEMMA EnqueueTypes == SafetyInv /\ BroadcastEvent => HubTypes'
  <1> SUFFICES ASSUME SafetyInv, BroadcastEvent PROVE HubTypes'
    OBVIOUS
  <1> USE HubAssumption DEF SafetyInv, TypeOK, HubTypes, HistoryTypes, BroadcastEvent,
                            hubVars
  <1>1. CASE Len(queue) < QueueCap
    <2>1. queue' = Append(queue, attempts + 1) /\ attempts + 1 \in Nat
      BY <1>1
    <2>2. queue' \in Seq(Nat) /\ Len(queue') = Len(queue) + 1
      BY <2>1
    <2>3. QED
      BY <1>1, <2>2
  <1>2. CASE ~(Len(queue) < QueueCap)
    BY <1>2
  <1>3. QED
    BY <1>1, <1>2

\* Every step of every goroutine preserves the types and the channel invariant.
LEMMA NextSafety == SafetyInv /\ [Next]_vars => SafetyInv'
  <1> SUFFICES ASSUME SafetyInv, [Next]_vars PROVE SafetyInv'
    OBVIOUS
  <1> USE HubAssumption DEF SafetyInv, TypeOK
  <1>1. CASE Broadcast
    <2>1. HubTypes'
      BY <1>1, EnqueueTypes DEF Broadcast
    <2>2. ConnTypes'
      BY <1>1
         DEF Broadcast, BroadcastEvent, hubVars, connVars, ConnTypes, ReaderPcs, WriterPcs, ConnStates
    <2>3. FlagTypes'
      BY <1>1
         DEF Broadcast, BroadcastEvent, hubVars, connVars, FlagTypes
    <2>4. HistoryTypes'
      BY <1>1
         DEF Broadcast, BroadcastEvent, hubVars, connVars, HistoryTypes, NotJoined
    <2>5. ChannelInv'
      BY <1>1
         DEF Broadcast, BroadcastEvent, hubVars, connVars, HubTypes, ConnTypes, FlagTypes, ChannelInv, NoPanic, ActiveClientsExact
    <2>6. QED
      BY <2>1, <2>2, <2>3, <2>4, <2>5
  <1>2. CASE BroadcastUnencodable
    <2>1. HubTypes'
      BY <1>2
         DEF BroadcastUnencodable, hubVars, connVars, HubTypes
    <2>2. ConnTypes'
      BY <1>2
         DEF BroadcastUnencodable, hubVars, connVars, ConnTypes, ReaderPcs, WriterPcs, ConnStates
    <2>3. FlagTypes'
      BY <1>2
         DEF BroadcastUnencodable, hubVars, connVars, FlagTypes
    <2>4. HistoryTypes'
      BY <1>2
         DEF BroadcastUnencodable, hubVars, connVars, HistoryTypes, NotJoined
    <2>5. ChannelInv'
      BY <1>2
         DEF BroadcastUnencodable, hubVars, connVars, HubTypes, ConnTypes, FlagTypes, ChannelInv, NoPanic, ActiveClientsExact
    <2>6. QED
      BY <2>1, <2>2, <2>3, <2>4, <2>5
  <1>3. CASE HubTake
    <2>1. HubTypes'
      BY <1>3
         DEF HubTake, connVars, HubTypes
    <2>2. ConnTypes'
      BY <1>3
         DEF HubTake, connVars, ConnTypes, ReaderPcs, WriterPcs, ConnStates
    <2>3. FlagTypes'
      BY <1>3
         DEF HubTake, connVars, FlagTypes
    <2>4. HistoryTypes'
      BY <1>3
         DEF HubTake, connVars, HistoryTypes, NotJoined, HubTypes
    <2>5. ChannelInv'
      BY <1>3
         DEF HubTake, connVars, HubTypes, ConnTypes, FlagTypes, ChannelInv, NoPanic, ActiveClientsExact
    <2>6. QED
      BY <2>1, <2>2, <2>3, <2>4, <2>5
  <1>4. CASE HubHeartbeat
    <2>1. HubTypes'
      BY <1>4, EnqueueTypes DEF HubHeartbeat
    <2>2. ConnTypes'
      BY <1>4
         DEF HubHeartbeat, BroadcastEvent, hubVars, connVars, ConnTypes, ReaderPcs, WriterPcs, ConnStates
    <2>3. FlagTypes'
      BY <1>4
         DEF HubHeartbeat, BroadcastEvent, hubVars, connVars, FlagTypes
    <2>4. HistoryTypes'
      BY <1>4
         DEF HubHeartbeat, BroadcastEvent, hubVars, connVars, HistoryTypes, NotJoined
    <2>5. ChannelInv'
      BY <1>4
         DEF HubHeartbeat, BroadcastEvent, hubVars, connVars, HubTypes, ConnTypes, FlagTypes, ChannelInv, NoPanic, ActiveClientsExact
    <2>6. QED
      BY <2>1, <2>2, <2>3, <2>4, <2>5
  <1>5. ASSUME NEW c \in Clients, HubRegister(c) PROVE SafetyInv'
    <2>a. /\ c \notin clients
          /\ ~closed[c]
          /\ clients' = clients \cup {c}
          /\ activeClients' = activeClients + 1
      BY <1>5 DEF HubRegister, RegisterClient, ChannelInv
    <2>b. ActiveClientsExact'
      BY <2>a, FS_Subset, FS_AddElement DEF HubTypes, ChannelInv, ActiveClientsExact
    <2>1. HubTypes'
      BY <1>5, <2>a, <2>b
         DEF HubRegister, Selecting, HubTypes
    <2>2. ConnTypes'
      BY <1>5, <2>a, <2>b
         DEF HubRegister, Selecting, ConnTypes, ReaderPcs, WriterPcs, ConnStates
    <2>3. FlagTypes'
      BY <1>5, <2>a, <2>b
         DEF HubRegister, Selecting, FlagTypes
    <2>4. HistoryTypes'
      BY <1>5, <2>a, <2>b
         DEF HubRegister, Selecting, HistoryTypes, NotJoined
    <2>5. ChannelInv'
      BY <1>5, <2>a, <2>b
         DEF HubRegister, Selecting, HubTypes, ConnTypes, FlagTypes, ChannelInv, NoPanic, ActiveClientsExact
    <2>6. QED
      BY <2>1, <2>2, <2>3, <2>4, <2>5
  <1>6. ASSUME NEW c \in Clients, HubUnregister(c) PROVE SafetyInv'
    <2>a. UnregisterClient(c)
      BY <1>6 DEF HubUnregister
    <2>1. HubTypes'
      BY <1>6, <2>a, UnregisterSafe
         DEF HubUnregister, Selecting, HubTypes
    <2>2. ConnTypes'
      BY <1>6, <2>a, UnregisterSafe
         DEF HubUnregister, Selecting, ConnTypes, ReaderPcs, WriterPcs, ConnStates
    <2>3. FlagTypes'
      BY <1>6, <2>a, UnregisterSafe
         DEF HubUnregister, Selecting, FlagTypes
    <2>4. HistoryTypes'
      BY <1>6, <2>a, UnregisterSafe
         DEF HubUnregister, Selecting, HistoryTypes, NotJoined
    <2>5. ChannelInv'
      BY <1>6, <2>a, UnregisterSafe
         DEF HubUnregister, Selecting, HubTypes, ConnTypes, FlagTypes, ChannelInv, NoPanic, ActiveClientsExact
    <2>6. QED
      BY <2>1, <2>2, <2>3, <2>4, <2>5
  <1>7. ASSUME NEW c \in Clients, HubOffer(c), Len(send[c]) < SendCap PROVE SafetyInv'
    <2>a. /\ c \in clients
          /\ send' = [send EXCEPT ![c] = Append(@, current)]
          /\ UNCHANGED <<clients, activeClients, closed, dropped>>
          /\ panicked' = FALSE
      BY <1>7 DEF HubOffer, ChannelInv, NoPanic, FlagTypes
    <2>b. /\ send' \in [Clients -> Seq(Nat)]
          /\ \A d \in Clients : Len(send'[d]) <= SendCap
      BY <1>7, <2>a DEF ConnTypes, HubTypes
    <2>1. HubTypes'
      BY <1>7, <2>a, <2>b
         DEF HubOffer, connVars, HubTypes
    <2>2. ConnTypes'
      BY <1>7, <2>a, <2>b
         DEF HubOffer, connVars, ConnTypes, ReaderPcs, WriterPcs, ConnStates
    <2>3. FlagTypes'
      BY <1>7, <2>a, <2>b
         DEF HubOffer, connVars, FlagTypes
    <2>4. HistoryTypes'
      BY <1>7, <2>a, <2>b
         DEF HubOffer, connVars, HistoryTypes, NotJoined
    <2>5. ChannelInv'
      BY <1>7, <2>a, <2>b
         DEF HubOffer, connVars, HubTypes, ConnTypes, FlagTypes, ChannelInv, NoPanic, ActiveClientsExact
    <2>6. QED
      BY <2>1, <2>2, <2>3, <2>4, <2>5
  <1>8. ASSUME NEW c \in Clients, HubOffer(c), ~(Len(send[c]) < SendCap) PROVE SafetyInv'
    <2>a. /\ c \in clients
          /\ UnregisterClient(c)
          /\ dropped' = dropped + 1
          /\ UNCHANGED send
      BY <1>8 DEF HubOffer, ChannelInv, FlagTypes
    <2>b. clients' = clients \ {c} /\ activeClients' \in Nat
      BY <2>a, UnregisterSafe
    <2>1. HubTypes'
      BY <1>8, <2>a, <2>b, UnregisterSafe
         DEF HubOffer, connVars, HubTypes
    <2>2. ConnTypes'
      BY <1>8, <2>a, <2>b, UnregisterSafe
         DEF HubOffer, connVars, ConnTypes, ReaderPcs, WriterPcs, ConnStates
    <2>3. FlagTypes'
      BY <1>8, <2>a, <2>b, UnregisterSafe
         DEF HubOffer, connVars, FlagTypes
    <2>4. HistoryTypes'
      BY <1>8, <2>a, <2>b, UnregisterSafe
         DEF HubOffer, connVars, HistoryTypes, NotJoined
    <2>5. ChannelInv'
      BY <1>8, <2>a, <2>b, UnregisterSafe
         DEF HubOffer, connVars, HubTypes, ConnTypes, FlagTypes, ChannelInv, NoPanic, ActiveClientsExact
    <2>6. QED
      BY <2>1, <2>2, <2>3, <2>4, <2>5
  <1>9. ASSUME NEW c \in Clients, Connect(c) PROVE SafetyInv'
    <2>1. HubTypes'
      BY <1>9
         DEF Connect, hubVars, HubTypes
    <2>2. ConnTypes'
      BY <1>9
         DEF Connect, hubVars, ConnTypes, ReaderPcs, WriterPcs, ConnStates
    <2>3. FlagTypes'
      BY <1>9
         DEF Connect, hubVars, FlagTypes
    <2>4. HistoryTypes'
      BY <1>9
         DEF Connect, hubVars, HistoryTypes, NotJoined
    <2>5. ChannelInv'
      BY <1>9
         DEF Connect, hubVars, HubTypes, ConnTypes, FlagTypes, ChannelInv, NoPanic, ActiveClientsExact
    <2>6. QED
      BY <2>1, <2>2, <2>3, <2>4, <2>5
  <1>10. ASSUME NEW c \in Clients, PeerGone(c) PROVE SafetyInv'
    <2>1. HubTypes'
      BY <1>10
         DEF PeerGone, hubVars, HubTypes
    <2>2. ConnTypes'
      BY <1>10
         DEF PeerGone, hubVars, ConnTypes, ReaderPcs, WriterPcs, ConnStates
    <2>3. FlagTypes'
      BY <1>10
         DEF PeerGone, hubVars, FlagTypes
    <2>4. HistoryTypes'
      BY <1>10
         DEF PeerGone, hubVars, HistoryTypes, NotJoined
    <2>5. ChannelInv'
      BY <1>10
         DEF PeerGone, hubVars, HubTypes, ConnTypes, FlagTypes, ChannelInv, NoPanic, ActiveClientsExact
    <2>6. QED
      BY <2>1, <2>2, <2>3, <2>4, <2>5
  <1>11. ASSUME NEW c \in Clients, ReaderStep(c) PROVE SafetyInv'
    <2>1. HubTypes'
      BY <1>11
         DEF ReaderStep, StartPumps, ReadFails, ReaderCloses, hubVars, HubTypes
    <2>2. ConnTypes'
      BY <1>11
         DEF ReaderStep, StartPumps, ReadFails, ReaderCloses, hubVars, ConnTypes, ReaderPcs, WriterPcs, ConnStates
    <2>3. FlagTypes'
      BY <1>11
         DEF ReaderStep, StartPumps, ReadFails, ReaderCloses, hubVars, FlagTypes
    <2>4. HistoryTypes'
      BY <1>11
         DEF ReaderStep, StartPumps, ReadFails, ReaderCloses, hubVars, HistoryTypes, NotJoined
    <2>5. ChannelInv'
      BY <1>11
         DEF ReaderStep, StartPumps, ReadFails, ReaderCloses, hubVars, HubTypes, ConnTypes, FlagTypes, ChannelInv, NoPanic, ActiveClientsExact
    <2>6. QED
      BY <2>1, <2>2, <2>3, <2>4, <2>5
  <1>12. ASSUME NEW c \in Clients, WriteMessage(c) PROVE SafetyInv'
    <2>1. HubTypes'
      BY <1>12
         DEF WriteMessage, hubVars, connVars, HubTypes
    <2>2. ConnTypes'
      BY <1>12
         DEF WriteMessage, hubVars, connVars, ConnTypes, ReaderPcs, WriterPcs, ConnStates
    <2>3. FlagTypes'
      BY <1>12
         DEF WriteMessage, hubVars, connVars, FlagTypes
    <2>4. HistoryTypes'
      BY <1>12
         DEF WriteMessage, hubVars, connVars, HistoryTypes, NotJoined, ConnTypes
    <2>5. ChannelInv'
      BY <1>12
         DEF WriteMessage, hubVars, connVars, HubTypes, ConnTypes, FlagTypes, ChannelInv, NoPanic, ActiveClientsExact
    <2>6. QED
      BY <2>1, <2>2, <2>3, <2>4, <2>5
  <1>13. ASSUME NEW c \in Clients, WriteFails(c) PROVE SafetyInv'
    <2>1. HubTypes'
      BY <1>13
         DEF WriteFails, hubVars, HubTypes
    <2>2. ConnTypes'
      <3>1. /\ send' \in [Clients -> Seq(Nat)]
            /\ \A d \in Clients : Len(send'[d]) <= SendCap
        <4>1. CASE send' = send
          BY <4>1 DEF ConnTypes
        <4>2. CASE send' = [send EXCEPT ![c] = IF @ = <<>> THEN @ ELSE Tail(@)]
          <5>1. CASE send[c] = <<>>
            BY <4>2, <5>1 DEF ConnTypes
          <5>2. CASE send[c] # <<>>
            <6>1. /\ send[c] \in Seq(Nat)
                  /\ Tail(send[c]) \in Seq(Nat)
                  /\ Len(Tail(send[c])) = Len(send[c]) - 1
              BY <5>2 DEF ConnTypes
            <6>2. send' = [send EXCEPT ![c] = Tail(send[c])]
              BY <4>2, <5>2 DEF ConnTypes
            <6>3. QED
              BY <6>1, <6>2 DEF ConnTypes
          <5>3. QED
            BY <5>1, <5>2
        <4>3. QED
          BY <1>13, <4>1, <4>2 DEF WriteFails
      <3>2. QED
        BY <1>13, <3>1 DEF WriteFails, ConnTypes, ReaderPcs, WriterPcs, ConnStates
    <2>3. FlagTypes'
      BY <1>13
         DEF WriteFails, hubVars, FlagTypes
    <2>4. HistoryTypes'
      BY <1>13
         DEF WriteFails, hubVars, HistoryTypes, NotJoined
    <2>5. ChannelInv'
      BY <1>13
         DEF WriteFails, hubVars, HubTypes, ConnTypes, FlagTypes, ChannelInv, NoPanic, ActiveClientsExact
    <2>6. QED
      BY <2>1, <2>2, <2>3, <2>4, <2>5
  <1>14. ASSUME NEW c \in Clients, WriterEnds(c) PROVE SafetyInv'
    <2>1. HubTypes'
      BY <1>14
         DEF WriterEnds, hubVars, HubTypes
    <2>2. ConnTypes'
      BY <1>14
         DEF WriterEnds, hubVars, ConnTypes, ReaderPcs, WriterPcs, ConnStates
    <2>3. FlagTypes'
      BY <1>14
         DEF WriterEnds, hubVars, FlagTypes
    <2>4. HistoryTypes'
      BY <1>14
         DEF WriterEnds, hubVars, HistoryTypes, NotJoined
    <2>5. ChannelInv'
      BY <1>14
         DEF WriterEnds, hubVars, HubTypes, ConnTypes, FlagTypes, ChannelInv, NoPanic, ActiveClientsExact
    <2>6. QED
      BY <2>1, <2>2, <2>3, <2>4, <2>5
  <1>15. CASE UNCHANGED vars
    <2>1. HubTypes'
      BY <1>15
         DEF vars, HubTypes
    <2>2. ConnTypes'
      BY <1>15
         DEF vars, ConnTypes, ReaderPcs, WriterPcs, ConnStates
    <2>3. FlagTypes'
      BY <1>15
         DEF vars, FlagTypes
    <2>4. HistoryTypes'
      BY <1>15
         DEF vars, HistoryTypes, NotJoined
    <2>5. ChannelInv'
      BY <1>15
         DEF vars, HubTypes, ConnTypes, FlagTypes, ChannelInv, NoPanic, ActiveClientsExact
    <2>6. QED
      BY <2>1, <2>2, <2>3, <2>4, <2>5
  <1>16. QED
    BY <1>1, <1>2, <1>3, <1>4, <1>5, <1>6, <1>7, <1>8, <1>9, <1>10, <1>11, <1>12, <1>13,
       <1>14, <1>15
       DEF Next, HubStep, WriterStep

\* For every number of connections and every capacity: the types hold, no
\* goroutine panics on a closed channel, the gauge of clients is exact.
THEOREM HubSafety == Spec => [](TypeOK /\ NoPanic /\ ActiveClientsExact)
  <1>1. SafetyInv => TypeOK /\ NoPanic /\ ActiveClientsExact
    BY DEF SafetyInv, ChannelInv
  <1>2. QED
    BY <1>1, InitSafety, NextSafety, PTL DEF Spec
-----------------------------------------------------------------------------
(* The run of events of each connection.                                   *)

\* Before it is registered a connection has received nothing; the message being
\* sent is the newest of the order; the runs are as the properties say.
RunInv ==
    /\ pending # {} => order # <<>> /\ current = order[Len(order)]
    /\ \A c \in Clients :
         IF reader[c] \in {"none", "registering"}
         THEN joined[c] = NotJoined /\ writer[c] = "none"
         ELSE joined[c] \in Nat
    /\ \A c \in Clients : joined[c] = NotJoined =>
                              send[c] = <<>> /\ delivered[c] = <<>>
    /\ GapFree
    /\ NothingSkipped

OrderInv == SafetyInv /\ RunInv

\* What the lemmas below need to know of a connection.
LEMMA RunTypes ==
    ASSUME OrderInv, NEW c \in Clients
    PROVE  /\ order \in Seq(Nat) /\ Len(order) \in Nat /\ queue \in Seq(Nat)
           /\ send \in [Clients -> Seq(Nat)] /\ delivered \in [Clients -> Seq(Nat)]
           /\ Len(send[c]) \in Nat /\ Len(delivered[c]) \in Nat
           /\ current \in Nat /\ clients \subseteq Clients /\ pending \subseteq clients
           /\ joined[c] # NotJoined <=> joined[c] \in Nat
           /\ joined[c] = NotJoined =>
                c \notin clients /\ send[c] = <<>> /\ delivered[c] = <<>> /\ writer[c] = "none"
           /\ GapFree /\ NothingSkipped
  <1>1. /\ order \in Seq(Nat) /\ queue \in Seq(Nat)
        /\ send \in [Clients -> Seq(Nat)] /\ delivered \in [Clients -> Seq(Nat)]
        /\ current \in Nat /\ clients \subseteq Clients /\ pending \subseteq clients
        /\ joined[c] \in Nat \cup {-1}
    BY DEF OrderInv, SafetyInv, TypeOK, HubTypes, ConnTypes, HistoryTypes, ChannelInv,
           NotJoined
  <1>2. joined[c] = NotJoined =>
           c \notin clients /\ send[c] = <<>> /\ delivered[c] = <<>> /\ writer[c] = "none"
    BY DEF OrderInv, RunInv, SafetyInv, ChannelInv, NotJoined
  <1>3. GapFree /\ NothingSkipped
    BY DEF OrderInv, RunInv
  <1>4. QED
    BY <1>1, <1>2, <1>3 DEF NotJoined

\* The runs only depend on the order, on what was delivered and buffered, and on
\* which connections work: a step that keeps the first three and neither
\* registers nor reconnects anybody keeps the runs.
LEMMA QuietSteps ==
    ASSUME OrderInv,
           UNCHANGED <<order, joined, delivered, send, pending>>,
           clients' \subseteq clients,
           \A c \in Clients : conn'[c] = "open" =>
                                  conn[c] = "open" \/ joined[c] = NotJoined
    PROVE  GapFree' /\ NothingSkipped'
  <1>1. GapFree'
    BY DEF OrderInv, RunInv, GapFree, DeliveredRun, BufferedRun
  <1>2. \A c \in clients : joined[c] # NotJoined
    BY DEF OrderInv, RunInv, SafetyInv, TypeOK, HubTypes, ChannelInv, NotJoined
  <1>3. NothingSkipped'
    BY <1>2 DEF OrderInv, RunInv, SafetyInv, TypeOK, HubTypes, NothingSkipped
  <1>4. QED
    BY <1>1, <1>3

\* A run stays a run when the order grows at its end (broadcastMessage).
LEMMA OrderGrows ==
    ASSUME OrderInv, HubTake
    PROVE  GapFree' /\ NothingSkipped'
  <1>1. /\ order' = Append(order, Head(queue))
        /\ UNCHANGED <<joined, delivered, send, conn, clients>>
        /\ queue # <<>> /\ pending = {} /\ pending' = clients
    BY DEF HubTake, Selecting, connVars
  <1>2. order \in Seq(Nat) /\ queue \in Seq(Nat)
    BY DEF OrderInv, SafetyInv, TypeOK, HubTypes, HistoryTypes
  <1>3. /\ Len(order') = Len(order) + 1 /\ Len(order) \in Nat
        /\ \A i \in 1 .. Len(order) : order'[i] = order[i]
    BY <1>1, <1>2
  <1>4. ASSUME NEW c \in Clients, joined[c] # NotJoined PROVE DeliveredRun(c)'
    <2>1. joined[c] \in Nat /\ Len(delivered[c]) \in Nat /\ DeliveredRun(c)
      BY <1>4, RunTypes DEF GapFree
    <2>2. \A i \in 1 .. Len(delivered[c]) : joined[c] + i \in 1 .. Len(order)
      BY <1>3, <2>1 DEF DeliveredRun
    <2>3. QED
      BY <1>1, <1>3, <2>1, <2>2 DEF DeliveredRun
  <1>5. ASSUME NEW c \in Clients, joined[c] # NotJoined, conn[c] = "open"
        PROVE  BufferedRun(c)'
    <2>1. /\ joined[c] \in Nat /\ Len(delivered[c]) \in Nat /\ Len(send[c]) \in Nat
          /\ BufferedRun(c)
      BY <1>5, RunTypes DEF GapFree
    <2>2. \A i \in 1 .. Len(send[c]) :
            joined[c] + Len(delivered[c]) + i \in 1 .. Len(order)
      BY <1>3, <2>1, SMTT(20) DEF BufferedRun
    <2>3. QED
      <3>1. joined[c] + Len(delivered[c]) + Len(send[c]) <= Len(order')
        BY <1>3, <2>1 DEF BufferedRun
      <3>2. \A i \in 1 .. Len(send[c]) :
              send[c][i] = order'[joined[c] + Len(delivered[c]) + i]
        BY <1>3, <2>1, <2>2 DEF BufferedRun
      <3>3. QED
        BY <1>1, <3>1, <3>2 DEF BufferedRun
  <1>6. GapFree'
    BY <1>1, <1>4, <1>5 DEF GapFree
  <1>7. ASSUME NEW c \in clients, conn[c] = "open"
        PROVE  joined[c] + Len(delivered[c]) + Len(send[c]) = Len(order)
    BY <1>1, <1>3, <1>7 DEF OrderInv, RunInv, NothingSkipped
  <1>8. NothingSkipped'
    BY <1>1, <1>3, <1>7 DEF NothingSkipped
  <1>9. QED
    BY <1>6, <1>8

\* A step that moves messages of one client c only keeps everybody else's runs.
LEMMA OthersKeepRuns ==
    ASSUME OrderInv, NEW c \in Clients,
           UNCHANGED <<clients, order, joined, conn>>,
           \A d \in Clients : d # c => /\ send'[d] = send[d]
                                       /\ delivered'[d] = delivered[d]
                                       /\ d \in pending' <=> d \in pending,
           joined[c] \in Nat => DeliveredRun(c)',
           joined[c] \in Nat /\ conn[c] = "open" => BufferedRun(c)',
           c \in clients /\ conn[c] = "open" =>
             joined[c] + Len(delivered'[c]) + Len(send'[c])
               = Len(order) - (IF c \in pending' THEN 1 ELSE 0)
    PROVE  GapFree' /\ NothingSkipped'
  <1>1. ASSUME NEW d \in Clients, d # c, joined[d] # NotJoined
        PROVE  DeliveredRun(d)' /\ (conn[d] = "open" => BufferedRun(d)')
    <2>1. DeliveredRun(d) /\ (conn[d] = "open" => BufferedRun(d))
      BY <1>1, RunTypes DEF GapFree
    <2>2. /\ send'[d] = send[d] /\ delivered'[d] = delivered[d]
          /\ joined' = joined /\ order' = order
      BY <1>1
    <2>3. QED
      BY <2>1, <2>2 DEF DeliveredRun, BufferedRun
  <1>2. joined[c] # NotJoined =>
          DeliveredRun(c)' /\ (conn[c] = "open" => BufferedRun(c)')
    BY RunTypes
  <1>3. GapFree'
    BY <1>1, <1>2 DEF GapFree
  <1>4. ASSUME NEW d \in clients, d # c, conn[d] = "open"
        PROVE  joined'[d] + Len(delivered'[d]) + Len(send'[d])
                 = Len(order') - (IF d \in pending' THEN 1 ELSE 0)
    <2>1. d \in Clients
      BY RunTypes
    <2>2. joined[d] + Len(delivered[d]) + Len(send[d])
            = Len(order) - (IF d \in pending THEN 1 ELSE 0)
      BY <1>4 DEF OrderInv, RunInv, NothingSkipped
    <2>3. QED
      BY <1>4, <2>1, <2>2
  <1>5. NothingSkipped'
    BY <1>4 DEF NothingSkipped
  <1>6. QED
    BY <1>3, <1>5

\* Offering the newest message to a client with room extends its buffered run.
LEMMA OfferExtends ==
    ASSUME OrderInv, NEW c \in Clients, HubOffer(c), Len(send[c]) < SendCap
    PROVE  GapFree' /\ NothingSkipped'
  <1>1. /\ c \in clients /\ c \in pending
        /\ pending' = pending \ {c}
        /\ send' = [send EXCEPT ![c] = Append(@, current)]
        /\ UNCHANGED <<clients, order, joined, delivered, conn>>
        /\ current = order[Len(order)]
    BY DEF HubOffer, OrderInv, RunInv, SafetyInv, TypeOK, ChannelInv, FlagTypes, connVars
  <1>2. /\ send \in [Clients -> Seq(Nat)] /\ current \in Nat /\ joined[c] \in Nat
        /\ Len(order) \in Nat /\ Len(delivered[c]) \in Nat /\ Len(send[c]) \in Nat
    BY <1>1, RunTypes
  <1>3. /\ send'[c] = Append(send[c], current) /\ send[c] \in Seq(Nat)
        /\ \A d \in Clients : d # c => send'[d] = send[d]
    BY <1>1, <1>2
  <1>4. /\ Len(send'[c]) = Len(send[c]) + 1
        /\ send'[c][Len(send[c]) + 1] = current
        /\ \A i \in 1 .. Len(send[c]) : send'[c][i] = send[c][i]
    BY <1>2, <1>3
  <1>5. ASSUME conn[c] = "open"
        PROVE  /\ BufferedRun(c)
               /\ joined[c] + Len(delivered[c]) + Len(send[c]) = Len(order) - 1
    BY <1>1, <1>2, <1>5, RunTypes DEF GapFree, NothingSkipped
  <1>6. ASSUME conn[c] = "open" PROVE BufferedRun(c)'
    <2>1. ASSUME NEW i \in 1 .. Len(send[c]) + 1
          PROVE  send'[c][i] = order[joined[c] + Len(delivered[c]) + i]
      <3>1. CASE i = Len(send[c]) + 1
        <4>1. joined[c] + Len(delivered[c]) + i = Len(order)
          BY <1>2, <1>5, <1>6, <3>1
        <4>2. QED
          BY <1>1, <1>4, <3>1, <4>1
      <3>2. CASE i \in 1 .. Len(send[c])
        BY <1>4, <1>5, <1>6, <3>2 DEF BufferedRun
      <3>3. QED
        BY <1>2, <3>1, <3>2
    <2>2. joined[c] + Len(delivered[c]) + Len(send'[c]) <= Len(order)
      BY <1>2, <1>4, <1>5, <1>6
    <2>3. QED
      BY <1>1, <1>4, <2>1, <2>2 DEF BufferedRun
  <1>7. DeliveredRun(c)'
    BY <1>1, <1>2, RunTypes DEF GapFree, DeliveredRun
  <1>8. conn[c] = "open" =>
          joined[c] + Len(delivered'[c]) + Len(send'[c])
            = Len(order) - (IF c \in pending' THEN 1 ELSE 0)
    BY <1>1, <1>2, <1>4, <1>5
  <1>9. QED
    BY <1>1, <1>3, <1>6, <1>7, <1>8, OthersKeepRuns

\* Writing the oldest buffered message moves it from one run to the other.
LEMMA WriteMoves ==
    ASSUME OrderInv, NEW c \in Clients, WriteMessage(c)
    PROVE  GapFree' /\ NothingSkipped'
  <1>1. /\ writer[c] = "writing" /\ send[c] # <<>>
        /\ send' = [send EXCEPT ![c] = Tail(@)]
        /\ UNCHANGED <<clients, pending, order, joined, conn>>
    BY DEF WriteMessage, hubVars, connVars
  <1>2. /\ send \in [Clients -> Seq(Nat)] /\ delivered \in [Clients -> Seq(Nat)]
        /\ DeliveredRun(c)
    BY <1>1, RunTypes DEF GapFree
  <1>n. /\ joined[c] \in Nat /\ Len(order) \in Nat
        /\ Len(delivered[c]) \in Nat /\ Len(send[c]) \in Nat
    BY <1>1, RunTypes
  <1>3. /\ send[c] \in Seq(Nat) /\ send'[c] = Tail(send[c])
        /\ \A d \in Clients : d # c => send'[d] = send[d]
    BY <1>1, <1>2
  <1>4. /\ Len(send'[c]) = Len(send[c]) - 1 /\ Len(send[c]) >= 1
        /\ \A i \in 1 .. Len(send[c]) - 1 : send'[c][i] = send[c][i + 1]
        /\ Head(send[c]) = send[c][1]
    <2>1. Len(send[c]) >= 1 /\ Head(send[c]) = send[c][1]
      BY <1>1, <1>3
    <2>2. /\ Len(Tail(send[c])) = Len(send[c]) - 1
          /\ \A i \in 1 .. Len(send[c]) - 1 : Tail(send[c])[i] = send[c][i + 1]
      BY <1>1, <1>3, <2>1
    <2>3. QED
      BY <1>3, <2>1, <2>2
  <1>5. CASE conn[c] # "open"
    <2>1. delivered' = delivered
      BY <1>5 DEF WriteMessage
    <2>2. DeliveredRun(c)'
      BY <1>1, <1>2, <2>1 DEF DeliveredRun
    <2>3. QED
      BY <1>1, <1>3, <1>5, <2>1, <2>2, OthersKeepRuns
  <1>6. CASE conn[c] = "open"
    <2>1. delivered' = [delivered EXCEPT ![c] = Append(@, Head(send[c]))]
      BY <1>6 DEF WriteMessage
    <2>2. /\ delivered'[c] = Append(delivered[c], send[c][1])
          /\ delivered[c] \in Seq(Nat) /\ send[c][1] \in Nat
          /\ \A d \in Clients : d # c => delivered'[d] = delivered[d]
      BY <1>2, <1>3, <1>4, <2>1
    <2>3. /\ Len(delivered'[c]) = Len(delivered[c]) + 1
          /\ delivered'[c][Len(delivered[c]) + 1] = send[c][1]
          /\ \A i \in 1 .. Len(delivered[c]) : delivered'[c][i] = delivered[c][i]
      BY <2>2
    <2>4. BufferedRun(c)
      BY <1>n, <1>6, RunTypes DEF GapFree, NotJoined
    <2>5. send[c][1] = order[joined[c] + Len(delivered[c]) + 1]
      BY <1>n, <1>4, <2>4 DEF BufferedRun
    <2>6. DeliveredRun(c)'
      <3>1. joined[c] + Len(delivered'[c]) <= Len(order)
        BY <1>n, <1>4, <2>3, <2>4 DEF BufferedRun
      <3>2. ASSUME NEW i \in 1 .. Len(delivered[c]) + 1
            PROVE  delivered'[c][i] = order[joined[c] + i]
        <4>1. CASE i = Len(delivered[c]) + 1
          <5>1. joined[c] + i = joined[c] + Len(delivered[c]) + 1
            BY <1>n, <4>1
          <5>2. QED
            BY <2>3, <2>5, <4>1, <5>1
        <4>2. CASE i \in 1 .. Len(delivered[c])
          BY <1>2, <1>n, <2>3, <4>2 DEF DeliveredRun
        <4>3. QED
          BY <1>n, <4>1, <4>2
      <3>3. QED
        BY <1>1, <2>3, <3>1, <3>2 DEF DeliveredRun
    <2>7. joined[c] + Len(delivered'[c]) + Len(send'[c])
            = joined[c] + Len(delivered[c]) + Len(send[c])
      <3>1. Len(delivered'[c]) = Len(delivered[c]) + 1
        BY <2>3
      <3>2. Len(send'[c]) = Len(send[c]) - 1
        BY <1>4
      <3>3. \A j, d, b \in Nat : j + (d + 1) + (b - 1) = j + d + b
        OBVIOUS
      <3>4. joined[c] \in Nat /\ Len(delivered[c]) \in Nat /\ Len(send[c]) \in Nat
        BY <1>n
      <3>5. joined[c] + (Len(delivered[c]) + 1) + (Len(send[c]) - 1)
              = joined[c] + Len(delivered[c]) + Len(send[c])
        BY <3>3, <3>4, Zenon
      <3>6. QED
        BY <3>1, <3>2, <3>5, Zenon
    <2>s. \A i \in Int :
            joined[c] + Len(delivered[c]) + (i + 1) = joined[c] + Len(delivered'[c]) + i
      <3>1. Len(delivered'[c]) = Len(delivered[c]) + 1
        BY <2>3
      <3>2. joined[c] \in Int /\ Len(delivered[c]) \in Int
        BY <1>n
      <3>3. \A j, d, i \in Int : j + d + (i + 1) = j + (d + 1) + i
        OBVIOUS
      <3>4. \A i \in Int :
              joined[c] + Len(delivered[c]) + (i + 1) = joined[c] + (Len(delivered[c]) + 1) + i
        BY <3>2, <3>3, Zenon
      <3>5. QED
        BY <3>1, <3>4, Zenon
    <2>8. BufferedRun(c)'
      <3>1. ASSUME NEW i \in 1 .. Len(send[c]) - 1
            PROVE  send'[c][i] = order[joined[c] + Len(delivered'[c]) + i]
        <4>1. i + 1 \in 1 .. Len(send[c])
          BY <1>n
        <4>2. send[c][i + 1] = order[joined[c] + Len(delivered[c]) + (i + 1)]
          BY <2>4, <4>1 DEF BufferedRun
        <4>3. joined[c] + Len(delivered[c]) + (i + 1) = joined[c] + Len(delivered'[c]) + i
          BY <2>s
        <4>4. QED
          BY <1>4, <4>2, <4>3
      <3>2. QED
        BY <1>1, <1>4, <2>4, <2>7, <3>1 DEF BufferedRun
    <2>9. c \in clients =>
            joined[c] + Len(delivered'[c]) + Len(send'[c])
              = Len(order) - (IF c \in pending' THEN 1 ELSE 0)
      BY <1>1, <1>6, <2>7, RunTypes DEF NothingSkipped
    <2>10. QED
      BY <1>1, <1>3, <2>2, <2>6, <2>8, <2>9, OthersKeepRuns
  <1>7. QED
    BY <1>5, <1>6

\* Every step of every goroutine keeps everybody's run (all of hub.go).
LEMMA NextOrder == OrderInv /\ [Next]_vars => OrderInv'
  <1> SUFFICES ASSUME OrderInv, [Next]_vars PROVE RunInv'
    BY NextSafety DEF OrderInv
  <1> DEFINE Bookkeeping ==
        /\ pending # {} => order # <<>> /\ current = order[Len(order)]
        /\ \A c \in Clients :
             IF reader[c] \in {"none", "registering"}
             THEN joined[c] = NotJoined /\ writer[c] = "none"
             ELSE joined[c] \in Nat
        /\ \A c \in Clients : joined[c] = NotJoined =>
                                  send[c] = <<>> /\ delivered[c] = <<>>
  <1>0. Bookkeeping /\ ConnTypes /\ HistoryTypes /\ HubTypes /\ pending \subseteq clients
    BY DEF OrderInv, RunInv, SafetyInv, TypeOK, ChannelInv
  <1>1. CASE Broadcast \/ HubHeartbeat \/ BroadcastUnencodable
    <2>1. UNCHANGED <<hubVars, connVars, send, delivered>>
      BY <1>1 DEF Broadcast, HubHeartbeat, BroadcastEvent, BroadcastUnencodable
    <2>2. Bookkeeping'
      BY <1>0, <2>1 DEF hubVars, connVars
    <2>3. QED
      BY <2>1, <2>2, QuietSteps DEF hubVars, connVars, RunInv
  <1>2. CASE HubTake
    <2>1. /\ order' = Append(order, Head(queue)) /\ current' = Head(queue)
          /\ queue # <<>> /\ order \in Seq(Nat) /\ queue \in Seq(Nat)
          /\ UNCHANGED <<joined, send, delivered, reader, writer>>
      BY <1>0, <1>2 DEF HubTake, connVars, HubTypes, HistoryTypes
    <2>2. Head(queue) \in Nat
      BY <2>1
    <2>3. order' # <<>> /\ current' = order'[Len(order')]
      BY <2>1, <2>2
    <2>4. Bookkeeping'
      BY <1>0, <2>1, <2>3
    <2>5. QED
      BY <1>2, <2>4, OrderGrows DEF RunInv
  <1>3. ASSUME NEW c \in Clients, HubRegister(c) PROVE RunInv'
    <2>1. /\ joined[c] = NotJoined /\ send[c] = <<>> /\ delivered[c] = <<>>
          /\ pending = {} /\ clients' = clients \cup {c}
          /\ joined' = [joined EXCEPT ![c] = Len(order)]
          /\ UNCHANGED <<order, send, delivered, conn, pending, writer, current>>
          /\ reader' = [reader EXCEPT ![c] = "registered"]
      BY <1>0, <1>3
         DEF HubRegister, Selecting, RegisterClient, OrderInv, SafetyInv, ChannelInv
    <2>2. joined'[c] = Len(order) /\ Len(order) \in Nat
      BY <1>0, <2>1 DEF HistoryTypes
    <2>3. Bookkeeping'
      BY <1>0, <2>1, <2>2 DEF ConnTypes, HistoryTypes, NotJoined
    <2>4. \A d \in Clients : d # c => joined'[d] = joined[d]
      BY <1>0, <2>1 DEF HistoryTypes
    <2>5. DeliveredRun(c)' /\ BufferedRun(c)'
      BY <2>1, <2>2 DEF DeliveredRun, BufferedRun
    <2>6. ASSUME NEW d \in Clients, d # c, joined[d] # NotJoined
          PROVE  DeliveredRun(d)' /\ (conn[d] = "open" => BufferedRun(d)')
      BY <2>1, <2>4, <2>6 DEF OrderInv, RunInv, GapFree, DeliveredRun, BufferedRun
    <2>7. GapFree'
      BY <2>1, <2>4, <2>5, <2>6 DEF GapFree
    <2>8. NothingSkipped'
      BY <1>0, <2>1, <2>2, <2>4 DEF NothingSkipped, OrderInv, RunInv, HubTypes
    <2>9. QED
      BY <2>3, <2>7, <2>8 DEF RunInv
  <1>4. ASSUME NEW c \in Clients, HubUnregister(c) PROVE RunInv'
    <2>1. /\ UNCHANGED <<order, joined, delivered, send, pending, conn, current, writer>>
          /\ clients' \subseteq clients
      BY <1>4 DEF HubUnregister, UnregisterClient
    <2>2. Bookkeeping'
      BY <1>0, <1>4, <2>1 DEF HubUnregister, ConnTypes
    <2>3. QED
      BY <2>1, <2>2, QuietSteps DEF RunInv
  <1>5. ASSUME NEW c \in Clients, HubOffer(c), Len(send[c]) < SendCap PROVE RunInv'
    <2>1. /\ UNCHANGED <<order, joined, delivered, current, reader, writer>>
          /\ pending' \subseteq pending /\ c \in clients
          /\ \A d \in Clients : d # c => send'[d] = send[d]
      BY <1>0, <1>5 DEF HubOffer, connVars, ConnTypes
    <2>2. joined[c] # NotJoined
      BY <2>1, RunTypes
    <2>3. Bookkeeping'
      BY <1>0, <2>1, <2>2
    <2>4. QED
      BY <1>5, <2>3, OfferExtends DEF RunInv
  <1>6. ASSUME NEW c \in Clients, HubOffer(c), ~(Len(send[c]) < SendCap) PROVE RunInv'
    <2>1. /\ c \in clients /\ ~closed[c] /\ c \in pending /\ pending' = pending \ {c}
          /\ UNCHANGED <<order, joined, delivered, conn, reader, writer, current>>
      BY <1>0, <1>6 DEF HubOffer, connVars, OrderInv, SafetyInv, ChannelInv
    <2>2. clients' = clients \ {c} /\ UNCHANGED send
      BY <1>6, <2>1 DEF HubOffer, UnregisterClient
    <2>3. Bookkeeping'
      BY <1>0, <2>1, <2>2
    <2>4. GapFree'
      BY <2>1, <2>2 DEF OrderInv, RunInv, GapFree, DeliveredRun, BufferedRun
    <2>5. NothingSkipped'
      BY <2>1, <2>2 DEF OrderInv, RunInv, NothingSkipped
    <2>6. QED
      BY <2>3, <2>4, <2>5 DEF RunInv
  <1>7. ASSUME NEW c \in Clients, Connect(c) \/ PeerGone(c) \/ ReaderStep(c) PROVE RunInv'
    <2>1. UNCHANGED <<order, joined, delivered, send, pending, clients, current>>
      BY <1>7 DEF Connect, PeerGone, ReaderStep, StartPumps, ReadFails, ReaderCloses, hubVars
    <2>2. \A d \in Clients : conn'[d] = "open" => conn[d] = "open" \/ joined[d] = NotJoined
      BY <1>0, <1>7
         DEF Connect, PeerGone, ReaderStep, StartPumps, ReadFails, ReaderCloses, ConnTypes
    <2>3. \A d \in Clients :
             IF reader'[d] \in {"none", "registering"}
             THEN joined'[d] = NotJoined /\ writer'[d] = "none"
             ELSE joined'[d] \in Nat
      BY <1>0, <1>7, <2>1
         DEF Connect, PeerGone, ReaderStep, StartPumps, ReadFails, ReaderCloses, ConnTypes
    <2>4. Bookkeeping'
      BY <1>0, <2>1, <2>3
    <2>5. QED
      BY <2>1, <2>2, <2>4, QuietSteps DEF RunInv
  <1>8. ASSUME NEW c \in Clients, WriteMessage(c) PROVE RunInv'
    <2>1. /\ joined[c] # NotJoined
          /\ UNCHANGED <<order, joined, pending, current, reader, writer>>
          /\ \A d \in Clients : d # c => send'[d] = send[d] /\ delivered'[d] = delivered[d]
      BY <1>0, <1>8, RunTypes DEF WriteMessage, hubVars, connVars, ConnTypes, HistoryTypes
    <2>2. Bookkeeping'
      BY <1>0, <2>1
    <2>3. QED
      BY <1>8, <2>2, WriteMoves DEF RunInv
  <1>9. ASSUME NEW c \in Clients, WriteFails(c) PROVE RunInv'
    <2>1. /\ joined[c] # NotJoined /\ writer[c] = "writing" /\ conn[c] # "open"
          /\ UNCHANGED <<order, joined, pending, current, reader, delivered, clients>>
          /\ \A d \in Clients : d # c => send'[d] = send[d]
          /\ conn' = [conn EXCEPT ![c] = "closed"]
          /\ writer' = [writer EXCEPT ![c] = "done"]
      BY <1>0, <1>9, RunTypes DEF WriteFails, hubVars, ConnTypes
    <2>2. conn'[c] = "closed" /\ \A d \in Clients : d # c => conn'[d] = conn[d]
      BY <1>0, <2>1 DEF ConnTypes
    <2>3. Bookkeeping'
      BY <1>0, <2>1 DEF ConnTypes
    <2>4. GapFree'
      BY <2>1, <2>2 DEF OrderInv, RunInv, GapFree, DeliveredRun, BufferedRun
    <2>5. NothingSkipped'
      BY <1>0, <2>1, <2>2 DEF OrderInv, RunInv, NothingSkipped, HubTypes
    <2>6. QED
      BY <2>3, <2>4, <2>5 DEF RunInv
  <1>10. ASSUME NEW c \in Clients, WriterEnds(c) PROVE RunInv'
    <2>1. /\ joined[c] # NotJoined
          /\ UNCHANGED <<order, joined, pending, current, reader, delivered, clients, send>>
          /\ conn' = [conn EXCEPT ![c] = "closed"]
          /\ writer' = [writer EXCEPT ![c] = "done"]
      BY <1>0, <1>10, RunTypes DEF WriterEnds, hubVars
    <2>2. Bookkeeping'
      BY <1>0, <2>1 DEF ConnTypes
    <2>3. \A d \in Clients : conn'[d] = "open" => conn[d] = "open"
      BY <1>0, <2>1 DEF ConnTypes
    <2>4. QED
      BY <2>1, <2>2, <2>3, QuietSteps DEF RunInv
  <1>11. CASE UNCHANGED vars
    <2>1. Bookkeeping'
      BY <1>0, <1>11 DEF vars
    <2>2. QED
      BY <1>11, <2>1, QuietSteps DEF vars, RunInv
  <1>12. QED
    BY <1>1, <1>2, <1>3, <1>4, <1>5, <1>6, <1>7, <1>8, <1>9, <1>10, <1>11
       DEF Next, HubStep, WriterStep

\* For every number of connections, every capacity and every number of
\* broadcasts: each browser gets a gap-free run of the hub's order, and a
\* registered client with a working connection has missed nothing of it.
THEOREM HubOrder == Spec => [](GapFree /\ NothingSkipped)
  <1>1. Init => RunInv
    BY DEF Init, RunInv, GapFree, NothingSkipped
  <1>2. Init => OrderInv
    BY <1>1, InitSafety DEF OrderInv
  <1>3. OrderInv => GapFree /\ NothingSkipped
    BY DEF OrderInv, RunInv
  <1>4. QED
    BY <1>2, <1>3, NextOrder, PTL DEF Spec
-----------------------------------------------------------------------------
(* The hub implements OrderedBroadcast.                                    *)

\* Moving the head of one sequence to the end of another keeps their concatenation.
LEMMA HeadMoves ==
    ASSUME NEW S, NEW s \in Seq(S), NEW t \in Seq(S), t # <<>>
    PROVE  Append(s, Head(t)) \o Tail(t) = s \o t
  <1>1. /\ Head(t) \in S /\ Tail(t) \in Seq(S) /\ Len(Tail(t)) = Len(t) - 1
        /\ Head(t) = t[1] /\ \A i \in 1 .. Len(t) - 1 : Tail(t)[i] = t[i + 1]
        /\ Len(t) \in Nat \ {0} /\ Len(s) \in Nat
    BY HeadTailProperties
  <1> DEFINE u == Append(s, Head(t))
  <1>2. /\ u \in Seq(S) /\ Len(u) = Len(s) + 1 /\ u[Len(s) + 1] = t[1]
        /\ \A i \in 1 .. Len(s) : u[i] = s[i]
    BY <1>1, AppendProperties
  <1> HIDE DEF u
  <1>3. /\ u \o Tail(t) \in Seq(S) /\ Len(u \o Tail(t)) = Len(s) + Len(t)
        /\ \A i \in 1 .. Len(s) + Len(t) :
              (u \o Tail(t))[i] = IF i <= Len(s) + 1 THEN u[i] ELSE Tail(t)[i - (Len(s) + 1)]
    <2>1. /\ u \o Tail(t) \in Seq(S) /\ Len(u \o Tail(t)) = Len(u) + Len(Tail(t))
          /\ \A i \in 1 .. Len(u) + Len(Tail(t)) :
                (u \o Tail(t))[i] = IF i <= Len(u) THEN u[i] ELSE Tail(t)[i - Len(u)]
      BY <1>1, <1>2, ConcatProperties
    <2>2. Len(u) + Len(Tail(t)) = Len(s) + Len(t)
      BY <1>1, <1>2
    <2>3. QED
      BY <1>2, <2>1, <2>2
  <1>4. /\ s \o t \in Seq(S) /\ Len(s \o t) = Len(s) + Len(t)
        /\ \A i \in 1 .. Len(s) + Len(t) :
              (s \o t)[i] = IF i <= Len(s) THEN s[i] ELSE t[i - Len(s)]
    BY ConcatProperties
  <1>5. ASSUME NEW i \in 1 .. Len(s) + Len(t) PROVE (u \o Tail(t))[i] = (s \o t)[i]
    <2>1. CASE i <= Len(s)
      BY <1>1, <1>2, <1>3, <1>4, <2>1
    <2>2. CASE i = Len(s) + 1
      BY <1>1, <1>2, <1>3, <1>4, <2>2
    <2>3. CASE i > Len(s) + 1
      <3>1. i - (Len(s) + 1) \in 1 .. Len(t) - 1 /\ (i - (Len(s) + 1)) + 1 = i - Len(s)
        BY <1>1, <2>3
      <3>2. Tail(t)[i - (Len(s) + 1)] = t[i - Len(s)]
        BY <1>1, <3>1
      <3>3. QED
        BY <1>1, <1>3, <1>4, <2>3, <3>2
    <2>4. i <= Len(s) \/ i = Len(s) + 1 \/ i > Len(s) + 1
      <3>1. i \in Int /\ Len(s) \in Int
        BY <1>1
      <3>2. QED
        BY <3>1
    <2>5. QED
      BY <2>1, <2>2, <2>3, <2>4
  <1>6. u \o Tail(t) = s \o t
    BY <1>3, <1>4, <1>5, SeqEqual
  <1>7. QED
    BY <1>6 DEF u

\* A call of Broadcast publishes its message, or loses it before it is published.
LEMMA BroadcastMaps ==
    ASSUME OrderInv, BroadcastEvent PROVE OB!Publish \/ UNCHANGED OB!abstractVars
  <1>1. /\ order \in Seq(Nat) /\ queue \in Seq(Nat) /\ attempts \in Nat
        /\ UNCHANGED <<order, joined, delivered>>
    BY DEF OrderInv, SafetyInv, TypeOK, HubTypes, HistoryTypes, BroadcastEvent, hubVars
  <1>2. CASE Len(queue) < QueueCap
    <2>1. queue' = Append(queue, attempts + 1) /\ attempts + 1 \in 1 .. MaxEvents
      BY <1>1, <1>2, HubAssumption DEF BroadcastEvent
    <2>2. attempts + 1 \in Nat
      BY <1>1
    <2>3. order \o Append(queue, attempts + 1) = Append(order \o queue, attempts + 1)
      <3>1. /\ Append(queue, attempts + 1) = queue \o <<attempts + 1>>
            /\ order \o queue \in Seq(Nat) /\ <<attempts + 1>> \in Seq(Nat)
        BY <1>1, <2>2, AppendIsConcat, ConcatProperties
      <3>2. Append(order \o queue, attempts + 1) = (order \o queue) \o <<attempts + 1>>
        BY <2>2, <3>1, AppendIsConcat
      <3>3. QED
        BY <1>1, <3>1, <3>2, ConcatAssociative, SMTT(20)
    <2>4. QED
      BY <1>1, <2>1, <2>3 DEF OB!Publish
  <1>3. CASE ~(Len(queue) < QueueCap)
    BY <1>1, <1>3 DEF BroadcastEvent, OB!abstractVars
  <1>4. QED
    BY <1>2, <1>3

\* A client that is registered joins after what the hub has taken, and may still be sent
\* what is queued.
LEMMA RegisterMaps ==
    ASSUME OrderInv, NEW c \in Clients, HubRegister(c) PROVE OB!Join(c)
  <1>1. joined[c] = NotJoined /\ joined' = [joined EXCEPT ![c] = Len(order)]
    BY DEF OrderInv, RunInv, HubRegister
  <1>2. UNCHANGED <<order, queue, delivered>>
    BY DEF HubRegister
  <1>3. Len(order) \in 0 .. Len(order \o queue)
    <2>1. order \in Seq(Nat) /\ queue \in Seq(Nat)
      BY RunTypes
    <2>2. Len(order \o queue) = Len(order) + Len(queue) /\ Len(order) \in Nat /\ Len(queue) \in Nat
      BY <2>1, ConcatProperties
    <2>3. QED
      BY <2>2
  <1>4. QED
    BY <1>1, <1>2, <1>3 DEF OB!Join, OB!NotJoined, NotJoined

\* What WritePump writes is the next event of the client's run.
LEMMA WriteMaps ==
    ASSUME OrderInv, NEW c \in Clients, WriteMessage(c)
    PROVE  OB!Deliver(c) \/ UNCHANGED OB!abstractVars
  <1>1. UNCHANGED <<order, queue, joined>>
    BY DEF WriteMessage, hubVars
  <1>2. CASE conn[c] # "open"
    BY <1>1, <1>2 DEF WriteMessage, OB!abstractVars
  <1>3. CASE conn[c] = "open"
    <2> DEFINE i == joined[c] + Len(delivered[c]) + 1
    <2>1. /\ joined[c] \in Nat /\ Len(delivered[c]) \in Nat /\ Len(send[c]) \in Nat
          /\ order \in Seq(Nat) /\ queue \in Seq(Nat) /\ send[c] \in Seq(Nat) /\ send[c] # <<>>
      BY RunTypes DEF WriteMessage
    <2>2. BufferedRun(c)
      BY <1>3, <2>1, RunTypes DEF GapFree, NotJoined
    <2>3. Len(send[c]) >= 1 /\ Head(send[c]) = send[c][1] /\ Len(order) \in Nat
      BY <2>1
    <2>4. i \in 1 .. Len(order) /\ Head(send[c]) = order[i]
      <3>1. /\ joined[c] + Len(delivered[c]) + Len(send[c]) <= Len(order)
            /\ \A k \in 1 .. Len(send[c]) : send[c][k] = order[joined[c] + Len(delivered[c]) + k]
        BY <2>2 DEF BufferedRun
      <3>2. 1 \in 1 .. Len(send[c])
        BY <2>1, <2>3
      <3>3. send[c][1] = order[joined[c] + Len(delivered[c]) + 1]
        BY <3>1, <3>2
      <3>4. i \in 1 .. Len(order)
        BY <2>1, <2>3, <3>1
      <3>5. QED
        BY <2>3, <3>3, <3>4
    <2>5. /\ Len(order \o queue) = Len(order) + Len(queue) /\ Len(queue) \in Nat
          /\ \A k \in 1 .. Len(order) : (order \o queue)[k] = order[k]
      BY <2>1, <2>3, ConcatProperties
    <2> HIDE DEF i
    <2>6. i <= Len(order \o queue) /\ (order \o queue)[i] = Head(send[c])
      BY <2>3, <2>4, <2>5
    <2>7. delivered' = [delivered EXCEPT ![c] = Append(@, (order \o queue)[i])]
      BY <1>3, <2>6 DEF WriteMessage
    <2>8. joined[c] # -1
      BY <2>1
    <2>9. QED
      BY <1>1, <2>6, <2>7, <2>8 DEF OB!Deliver, OB!NotJoined, i
  <1>4. QED
    BY <1>2, <1>3

\* The hub with its queues, buffers, pumps and forced removals implements an ordered
\* broadcast: every step publishes an event, lets a client join the order of the
\* published ones, delivers to one client the next event of its run, or changes none of
\* this (all of hub.go).
THEOREM HubImplements == Spec => ImplementsOrderedBroadcast
  <1>1. Init => OB!Init
    BY ConcatEmptySeq DEF Init, OB!Init, OB!NotJoined, NotJoined
  <1>2. ASSUME OrderInv, [Next]_vars PROVE [OB!Next]_(OB!abstractVars)
    <2>1. CASE Broadcast \/ HubHeartbeat
      BY <1>2, <2>1, BroadcastMaps DEF Broadcast, HubHeartbeat, OB!Next
    <2>2. CASE BroadcastUnencodable
      BY <2>2 DEF BroadcastUnencodable, hubVars, OB!abstractVars
    <2>3. CASE HubTake
      <3>1. /\ order \in Seq(Nat) /\ queue \in Seq(Nat) /\ queue # <<>>
            /\ order' = Append(order, Head(queue)) /\ queue' = Tail(queue)
            /\ UNCHANGED <<joined, delivered>>
        BY <1>2, <2>3
        DEF HubTake, OrderInv, SafetyInv, TypeOK, HubTypes, HistoryTypes
      <3>2. order' \o queue' = order \o queue
        BY <3>1, HeadMoves
      <3>3. QED
        BY <3>1, <3>2 DEF OB!abstractVars
    <2>4. ASSUME NEW c \in Clients, HubRegister(c) PROVE OB!Next
      BY <1>2, <2>4, RegisterMaps DEF OB!Next
    <2>5. ASSUME NEW c \in Clients, HubUnregister(c) \/ HubOffer(c)
          PROVE  UNCHANGED OB!abstractVars
      BY <2>5 DEF HubUnregister, HubOffer, OB!abstractVars
    <2>6. ASSUME NEW c \in Clients, Connect(c) \/ PeerGone(c) \/ ReaderStep(c)
          PROVE  UNCHANGED OB!abstractVars
      BY <2>6 DEF Connect, PeerGone, ReaderStep, StartPumps, ReadFails, ReaderCloses, hubVars,
                  OB!abstractVars
    <2>7. ASSUME NEW c \in Clients, WriterStep(c)
          PROVE  OB!Next \/ UNCHANGED OB!abstractVars
      <3>1. CASE WriteMessage(c)
        BY <1>2, <3>1, WriteMaps DEF OB!Next
      <3>2. CASE WriteFails(c) \/ WriterEnds(c)
        BY <3>2 DEF WriteFails, WriterEnds, hubVars, OB!abstractVars
      <3>3. QED
        BY <2>7, <3>1, <3>2 DEF WriterStep
    <2>8. CASE UNCHANGED vars
      BY <2>8 DEF vars, OB!abstractVars
    <2>9. QED
      BY <1>2, <2>1, <2>2, <2>3, <2>4, <2>5, <2>6, <2>7, <2>8 DEF Next, HubStep
  <1>3. Init => RunInv
    BY DEF Init, RunInv, GapFree, NothingSkipped
  <1>4. Init => OrderInv
    BY <1>3, InitSafety DEF OrderInv
  <1>5. QED
    BY <1>1, <1>2, <1>4, NextOrder, PTL DEF Spec, ImplementsOrderedBroadcast, OB!Spec
=============================================================================
