--------------------------- MODULE DispatchProofs ---------------------------
(***************************************************************************)
(* Proofs about Dispatch for any sets of events and requests: the types,   *)
(* the audit trail is a chain without empty steps that ends in the row,    *)
(* an entry the transition table forbids exists only where another change  *)
(* was committed between check and transaction, and every change is        *)
(* announced once.                                                         *)
(***************************************************************************)
EXTENDS Dispatch, FiniteSetTheorems, TLAPS

\* An event that does not exist has no log.
AbsentUnlogged == \A e \in Events : status[e] = Absent => log[e] = <<>>

\* What a request that made its check knows: the event existed with a status from
\* which its own may be reached, and has that status still if nothing was logged since.
CheckHolds(r) ==
    LET e == req[r].event
    IN  /\ status[e] # Absent
        /\ req[r].base <= Len(log[e])
        /\ req[r].base = Len(log[e]) => status[e] = req[r].seen
        /\ CanTransitionDispatch(req[r].seen, req[r].value)
        /\ req[r].seen \notin Terminal
ChecksHold == \A r \in Requests : pc[r] = "checked" => CheckHolds(r)

TrailInv == TypeOK /\ AbsentUnlogged /\ LogIsChain
IInv == TrailInv /\ OneLogPerChange /\ ChecksHold /\ IllegalOnlyByOverlap

-----------------------------------------------------------------------------
(* The two ways the shared state changes.                                  *)

\* The entry StoreUpdate appends.
NewEntry(r) == [from |-> status[req[r].event], to |-> req[r].value, base |-> req[r].base]

\* StoreUpdate either ends the request or writes row and log together.
Writes(r) == /\ pc[r] = "checked"
             /\ status[req[r].event] # req[r].value
             /\ status' = [status EXCEPT ![req[r].event] = req[r].value]
             /\ log' = [log EXCEPT ![req[r].event] = Append(@, NewEntry(r))]
             /\ pc' = [pc EXCEPT ![r] = "committed"]
             /\ UNCHANGED <<req, announced>>

\* A request that was checked has its locals.
LEMMA CheckedLocals ==
    ASSUME TypeOK, NEW r \in Requests, pc[r] \in {"checked", "committed"}
    PROVE  /\ req[r] \in Locals
           /\ req[r].event \in Events /\ req[r].value \in Statuses
           /\ req[r].seen \in Statuses \cup {Absent} /\ req[r].base \in Nat
<1>1. req[r] \in Locals  BY DEF TypeOK
<1> QED  BY <1>1 DEF Locals

\* A status is no absence.
LEMMA StatusPresent == \A s \in Statuses : s # Absent
BY DEF Statuses, Absent

\* The initial state.
LEMMA InitHolds == Init => IInv
<1> SUFFICES ASSUME Init PROVE IInv  OBVIOUS
<1>1. TypeOK  BY DEF Init, TypeOK, Pcs
<1>2. AbsentUnlogged /\ LogIsChain /\ OneLogPerChange /\ ChecksHold /\ IllegalOnlyByOverlap
  BY DEF Init, AbsentUnlogged, LogIsChain, OneLogPerChange, ChecksHold, IllegalOnlyByOverlap
<1> QED  BY <1>1, <1>2 DEF IInv, TrailInv
-----------------------------------------------------------------------------
(* Types.                                                                  *)

LEMMA TypePreserved == TypeOK /\ ChecksHold /\ [Next]_vars => TypeOK'
<1> SUFFICES ASSUME TypeOK, ChecksHold, [Next]_vars PROVE TypeOK'  OBVIOUS
<1>1. CASE UNCHANGED vars  BY <1>1 DEF TypeOK, vars
<1>2. ASSUME NEW r \in Requests, Request(r) PROVE TypeOK'
  <2>1. ASSUME NEW e \in Events, NEW s \in Statuses, CreateEvent(r, e, s) PROVE TypeOK'
    <3>1. [event |-> e, value |-> s, seen |-> Absent, base |-> 0] \in Locals
      BY DEF Locals
    <3> QED  BY <2>1, <3>1 DEF TypeOK, CreateEvent, Pcs
  <2>2. ASSUME NEW e \in Events, NEW s \in Statuses, CheckTransition(r, e, s) PROVE TypeOK'
    <3> DEFINE q == [event |-> e, value |-> s, seen |-> status[e], base |-> Len(log[e])]
    <3>1. q \in Locals  BY DEF Locals, TypeOK
    <3>2. CASE /\ pc' = [pc EXCEPT ![r] = "checked"]
               /\ req' = [req EXCEPT ![r] = q]
      <4> HIDE DEF q
      <4> QED  BY <2>2, <3>1, <3>2 DEF TypeOK, CheckTransition, Pcs
    <3>3. CASE pc' = [pc EXCEPT ![r] = "done"] /\ UNCHANGED req
      BY <2>2, <3>3 DEF TypeOK, CheckTransition, Pcs
    <3> QED  BY <2>2, <3>2, <3>3 DEF CheckTransition
  <2>3. ASSUME StoreUpdate(r) PROVE TypeOK'
    <3>1. pc[r] = "checked"  BY <2>3 DEF StoreUpdate
    <3>2. CASE status[req[r].event] = req[r].value
      BY <2>3, <3>2 DEF TypeOK, StoreUpdate, Pcs
    <3>3. CASE status[req[r].event] # req[r].value
      <4>1. Writes(r)  BY <2>3, <3>3 DEF StoreUpdate, Writes, NewEntry
      <4>2. /\ req[r] \in Locals
            /\ req[r].event \in Events /\ req[r].value \in Statuses /\ req[r].base \in Nat
        BY <3>1, CheckedLocals
      <4>3. status[req[r].event] \in Statuses  BY <3>1, <4>2 DEF ChecksHold, CheckHolds, TypeOK
      <4>4. NewEntry(r) \in LogEntries  BY <4>2, <4>3 DEF NewEntry, LogEntries
      <4>5. log' \in [Events -> Seq(LogEntries)]
        BY <4>1, <4>2, <4>4 DEF Writes, TypeOK
      <4>6. status' \in [Events -> Statuses \cup {Absent}]
        BY <4>1, <4>2 DEF Writes, TypeOK
      <4> QED  BY <4>1, <4>2, <4>5, <4>6 DEF Writes, TypeOK, Pcs
    <3> QED  BY <3>2, <3>3
  <2>4. ASSUME Announce(r) PROVE TypeOK'
    <3>1. pc[r] = "committed"  BY <2>4 DEF Announce
    <3>2. <<req[r].event, req[r].value>> \in Events \X Statuses  BY <3>1, CheckedLocals
    <3>3. announced' \in Seq(Events \X Statuses)  BY <2>4, <3>2 DEF Announce, TypeOK
    <3> QED  BY <2>4, <3>3 DEF TypeOK, Announce, Pcs
  <2>5. ASSUME CreateFails(r) \/ StoreFails(r) PROVE TypeOK'
    BY <2>5 DEF TypeOK, CreateFails, StoreFails, Pcs
  <2> QED  BY <1>2, <2>1, <2>2, <2>3, <2>4, <2>5 DEF Request
<1> QED  BY <1>1, <1>2 DEF Next
-----------------------------------------------------------------------------
(* The audit trail.                                                        *)

\* Every step is one of three kinds for status and log: a new row, a change with its
\* entry, or none.
LEMMA StepKinds ==
    ASSUME TypeOK, ChecksHold, [Next]_vars
    PROVE  \/ UNCHANGED <<status, log>>
           \/ \E e \in Events, s \in Statuses :
                 /\ status[e] = Absent
                 /\ status' = [status EXCEPT ![e] = s]
                 /\ UNCHANGED log
           \/ \E r \in Requests : Writes(r)
<1>1. CASE UNCHANGED vars  BY <1>1 DEF vars
<1>2. ASSUME NEW r \in Requests, Request(r)
      PROVE  \/ UNCHANGED <<status, log>>
             \/ \E e \in Events, s \in Statuses :
                   /\ status[e] = Absent
                   /\ status' = [status EXCEPT ![e] = s]
                   /\ UNCHANGED log
             \/ \E q \in Requests : Writes(q)
  <2>1. ASSUME StoreUpdate(r) PROVE UNCHANGED <<status, log>> \/ Writes(r)
    <3>1. CASE status[req[r].event] = req[r].value  BY <2>1, <3>1 DEF StoreUpdate
    <3>2. CASE status[req[r].event] # req[r].value
      BY <2>1, <3>2 DEF StoreUpdate, Writes, NewEntry
    <3> QED  BY <3>1, <3>2
  <2>2. ASSUME NEW e \in Events, NEW s \in Statuses, CreateEvent(r, e, s)
        PROVE  /\ status[e] = Absent
               /\ status' = [status EXCEPT ![e] = s]
               /\ UNCHANGED log
    BY <2>2 DEF CreateEvent
  <2>3. ASSUME NEW e \in Events, NEW s \in Statuses, CheckTransition(r, e, s)
        PROVE  UNCHANGED <<status, log>>
    BY <2>3 DEF CheckTransition
  <2>4. ASSUME CreateFails(r) \/ StoreFails(r) \/ Announce(r) PROVE UNCHANGED <<status, log>>
    BY <2>4 DEF CreateFails, StoreFails, Announce
  <2> QED  BY <1>2, <2>1, <2>2, <2>3, <2>4 DEF Request
<1> QED  BY <1>1, <1>2 DEF Next

\* What a write does, element by element.
LEMMA WriteFacts ==
    ASSUME TypeOK, ChecksHold, NEW r \in Requests, Writes(r),
           NEW e, e = req[r].event
    PROVE  /\ e \in Events
           /\ status[e] \in Statuses
           /\ status'[e] = req[r].value /\ req[r].value \in Statuses
           /\ log[e] \in Seq(LogEntries)
           /\ Len(log'[e]) = Len(log[e]) + 1
           /\ \A i \in 1 .. Len(log[e]) : log'[e][i] = log[e][i]
           /\ log'[e][Len(log[e]) + 1] = NewEntry(r)
           /\ \A d \in Events : d # e => log'[d] = log[d] /\ status'[d] = status[d]
<1>1. pc[r] = "checked"  BY DEF Writes
<1>2. e \in Events /\ req[r].value \in Statuses /\ req[r].base \in Nat
  BY <1>1, CheckedLocals
<1>3. status[e] \in Statuses  BY <1>1, <1>2 DEF ChecksHold, CheckHolds, TypeOK
<1>4. log[e] \in Seq(LogEntries)  BY <1>2 DEF TypeOK
<1>5. NewEntry(r) \in LogEntries  BY <1>2, <1>3 DEF NewEntry, LogEntries
<1>6. log'[e] = Append(log[e], NewEntry(r))  BY <1>2 DEF Writes, TypeOK
<1>7. status'[e] = req[r].value  BY <1>2 DEF Writes, TypeOK
<1>8. \A d \in Events : d # e => log'[d] = log[d] /\ status'[d] = status[d]
  BY <1>2 DEF Writes, TypeOK
<1>9. /\ Len(log'[e]) = Len(log[e]) + 1
      /\ \A i \in 1 .. Len(log[e]) : log'[e][i] = log[e][i]
      /\ log'[e][Len(log[e]) + 1] = NewEntry(r)
  BY <1>4, <1>5, <1>6
<1> QED  BY <1>2, <1>3, <1>4, <1>7, <1>8, <1>9

\* A new row leaves every log alone, and its own is empty.
LEMMA AbsentPreserved == TypeOK /\ ChecksHold /\ AbsentUnlogged /\ [Next]_vars => AbsentUnlogged'
<1> SUFFICES ASSUME TypeOK, ChecksHold, AbsentUnlogged, [Next]_vars PROVE AbsentUnlogged'
  OBVIOUS
<1>1. CASE UNCHANGED <<status, log>>  BY <1>1 DEF AbsentUnlogged
<1>2. ASSUME NEW e \in Events, NEW s \in Statuses, status' = [status EXCEPT ![e] = s],
             UNCHANGED log
      PROVE  AbsentUnlogged'
  BY <1>2, StatusPresent DEF AbsentUnlogged, TypeOK
<1>3. ASSUME NEW r \in Requests, Writes(r) PROVE AbsentUnlogged'
  <2> DEFINE e == req[r].event
  <2>1. /\ status'[e] # Absent
        /\ \A d \in Events : d # e => log'[d] = log[d] /\ status'[d] = status[d]
    BY <1>3, WriteFacts, StatusPresent
  <2> QED  BY <2>1 DEF AbsentUnlogged
<1> QED  BY <1>1, <1>2, <1>3, StepKinds

\* The chain of one event.
Chain(e) == /\ \A i \in 1 .. Len(log[e]) - 1 : log[e][i].to = log[e][i + 1].from
            /\ log[e] # <<>> => log[e][Len(log[e])].to = status[e]

LEMMA ChainPreserved == TrailInv /\ ChecksHold /\ [Next]_vars => LogIsChain'
<1> SUFFICES ASSUME TrailInv, ChecksHold, [Next]_vars PROVE LogIsChain'  OBVIOUS
<1> USE DEF TrailInv
<1>1. CASE UNCHANGED <<status, log>>  BY <1>1 DEF LogIsChain
<1>2. ASSUME NEW e \in Events, NEW s \in Statuses, status[e] = Absent,
             status' = [status EXCEPT ![e] = s], UNCHANGED log
      PROVE  LogIsChain'
  <2>1. log[e] = <<>>  BY <1>2 DEF AbsentUnlogged
  <2>2. \A d \in Events : d # e => status'[d] = status[d]  BY <1>2 DEF TypeOK
  <2> QED  BY <1>2, <2>1, <2>2 DEF LogIsChain
<1>3. ASSUME NEW r \in Requests, Writes(r) PROVE LogIsChain'
  <2>0. PICK e : e = req[r].event  OBVIOUS
  <2> DEFINE n == Len(log[e])
  <2>1. /\ e \in Events /\ log[e] \in Seq(LogEntries)
        /\ status'[e] = req[r].value
        /\ Len(log'[e]) = n + 1
        /\ \A i \in 1 .. n : log'[e][i] = log[e][i]
        /\ log'[e][n + 1] = NewEntry(r)
        /\ \A d \in Events : d # e => log'[d] = log[d] /\ status'[d] = status[d]
    BY <1>3, <2>0, WriteFacts
  <2>2. n \in Nat /\ (n # 0 => log[e] # <<>>)  BY <2>1
  <2>3. NewEntry(r).from = status[e] /\ NewEntry(r).to = status'[e]
    BY <2>0, <2>1 DEF NewEntry
  <2>4. Chain(e)  BY <2>1 DEF LogIsChain, Chain
  <2>5. ASSUME NEW i \in 1 .. n PROVE log'[e][i].to = log'[e][i + 1].from
    <3>1. CASE i < n
      <4>1. i \in 1 .. n - 1 /\ i + 1 \in 1 .. n  BY <2>2, <3>1
      <4>2. log[e][i].to = log[e][i + 1].from  BY <2>4, <4>1 DEF Chain
      <4> QED  BY <2>1, <4>1, <4>2
    <3>2. CASE i = n
      <4>1. log[e][n].to = status[e]  BY <2>2, <2>4, <3>2 DEF Chain
      <4> QED  BY <2>1, <2>3, <3>2, <4>1
    <3> QED  BY <2>2, <3>1, <3>2
  <2>6. Chain(e)'
    <3>1. \A i \in 1 .. Len(log'[e]) - 1 : log'[e][i].to = log'[e][i + 1].from
      BY <2>1, <2>2, <2>5
    <3>2. log'[e][Len(log'[e])].to = status'[e]  BY <2>1, <2>3
    <3> QED  BY <3>1, <3>2 DEF Chain
  <2>7. \A d \in Events : d # e => Chain(d)'  BY <2>1 DEF LogIsChain, Chain
  <2> QED  BY <2>6, <2>7 DEF LogIsChain, Chain
<1> QED  BY <1>1, <1>2, <1>3, StepKinds

\* The second comparison, under the lock, keeps empty steps out of the log.
LEMMA OneLogPreserved ==
    TypeOK /\ ChecksHold /\ OneLogPerChange /\ [Next]_vars => OneLogPerChange'
<1> SUFFICES ASSUME TypeOK, ChecksHold, OneLogPerChange, [Next]_vars
             PROVE  OneLogPerChange'
  OBVIOUS
<1>1. CASE UNCHANGED log  BY <1>1 DEF OneLogPerChange
<1>2. ASSUME NEW r \in Requests, Writes(r) PROVE OneLogPerChange'
  <2> DEFINE e == req[r].event
             n == Len(log[e])
  <2>1. /\ e \in Events /\ n \in Nat
        /\ Len(log'[e]) = n + 1
        /\ \A i \in 1 .. n : log'[e][i] = log[e][i]
        /\ log'[e][n + 1] = NewEntry(r)
        /\ \A d \in Events : d # e => log'[d] = log[d]
    BY <1>2, WriteFacts
  <2>2. NewEntry(r).from # NewEntry(r).to  BY <1>2 DEF NewEntry, Writes
  <2>3. ASSUME NEW i \in 1 .. Len(log'[e]) PROVE log'[e][i].from # log'[e][i].to
    <3>1. i = n + 1 \/ i \in 1 .. n
      <4>1. i \in 1 .. n + 1 /\ n \in Nat  BY <2>1
      <4> HIDE DEF n
      <4> QED  BY <4>1
    <3>2. CASE i = n + 1  BY <2>1, <2>2, <3>2
    <3>3. CASE i \in 1 .. n
      <4>1. log[e][i].from # log[e][i].to  BY <2>1, <3>3 DEF OneLogPerChange
      <4>2. log'[e][i] = log[e][i]  BY <2>1, <3>3
      <4> QED  BY <4>1, <4>2
    <3> QED  BY <3>1, <3>2, <3>3
  <2> QED  BY <2>1, <2>3 DEF OneLogPerChange
<1> QED  BY <1>1, <1>2, StepKinds

-----------------------------------------------------------------------------
(* What a checked request knows.                                           *)

\* A transition to another status starts from no terminal one.
LEMMA TerminalEnds ==
    ASSUME NEW a \in Statuses, NEW b \in Statuses, a # b, CanTransitionDispatch(a, b)
    PROVE  a \notin Terminal
BY DEF CanTransitionDispatch, Terminal, Statuses

\* A row is never removed and a log never shortened; a log as long as before says that
\* the row is the same.
LEMMA OnlyGrows ==
    ASSUME TypeOK, ChecksHold, [Next]_vars, NEW e \in Events, status[e] # Absent
    PROVE  /\ status'[e] # Absent
           /\ Len(log[e]) \in Nat /\ Len(log'[e]) \in Nat
           /\ Len(log[e]) <= Len(log'[e])
           /\ Len(log[e]) = Len(log'[e]) => status'[e] = status[e]
<1>0. Len(log[e]) \in Nat  BY DEF TypeOK
<1>1. CASE UNCHANGED <<status, log>>  BY <1>0, <1>1
<1>2. ASSUME NEW d \in Events, NEW s \in Statuses, status[d] = Absent,
             status' = [status EXCEPT ![d] = s], UNCHANGED log
      PROVE  status'[e] = status[e] /\ log'[e] = log[e]
  BY <1>2 DEF TypeOK
<1>3. ASSUME NEW r \in Requests, Writes(r)
      PROVE  \/ status'[e] = status[e] /\ log'[e] = log[e]
             \/ status'[e] # Absent /\ Len(log'[e]) = Len(log[e]) + 1
  BY <1>3, WriteFacts, StatusPresent
<1> QED  BY <1>0, <1>1, <1>2, <1>3, StepKinds

\* A request that is checked after a step made its check in it, or was checked before
\* with the same locals.
LEMMA CheckedBefore ==
    ASSUME TypeOK, [Next]_vars, NEW r \in Requests, pc'[r] = "checked"
    PROVE  \/ pc[r] = "checked" /\ req'[r] = req[r]
           \/ \E e \in Events, s \in Statuses :
                 /\ status[e] # Absent /\ status[e] # s
                 /\ CanTransitionDispatch(status[e], s)
                 /\ req'[r] = [event |-> e, value |-> s, seen |-> status[e],
                               base |-> Len(log[e])]
                 /\ UNCHANGED <<status, log>>
<1> DEFINE Kept == pc[r] = "checked" /\ req'[r] = req[r]
           Made(e, s) == /\ status[e] # Absent /\ status[e] # s
                         /\ CanTransitionDispatch(status[e], s)
                         /\ req'[r] = [event |-> e, value |-> s, seen |-> status[e],
                                       base |-> Len(log[e])]
                         /\ UNCHANGED <<status, log>>
<1> SUFFICES Kept \/ \E e \in Events, s \in Statuses : Made(e, s)  OBVIOUS
<1>1. CASE UNCHANGED vars  BY <1>1 DEF vars
<1>2. ASSUME NEW q \in Requests, Request(q)
      PROVE  Kept \/ \E e \in Events, s \in Statuses : Made(e, s)
  <2>1. ASSUME NEW e \in Events, NEW s \in Statuses, CheckTransition(q, e, s)
        PROVE  Kept \/ Made(e, s)
    <3>1. CASE q = r
      BY <2>1, <3>1 DEF CheckTransition, TypeOK, Pcs
    <3>2. CASE q # r
      BY <2>1, <3>2 DEF CheckTransition, TypeOK
    <3> QED  BY <3>1, <3>2
  <2>2. ASSUME NEW e \in Events, NEW s \in Statuses, CreateEvent(q, e, s) PROVE Kept
    BY <2>2 DEF CreateEvent, TypeOK
  <2>3. ASSUME CreateFails(q) \/ StoreFails(q) \/ StoreUpdate(q) \/ Announce(q) PROVE Kept
    BY <2>3 DEF CreateFails, StoreFails, StoreUpdate, Announce, TypeOK
  <2> QED  BY <1>2, <2>1, <2>2, <2>3 DEF Request
<1> QED  BY <1>1, <1>2 DEF Next

LEMMA ChecksPreserved == TypeOK /\ ChecksHold /\ [Next]_vars => ChecksHold'
<1> SUFFICES ASSUME TypeOK, ChecksHold, [Next]_vars, NEW r \in Requests, pc'[r] = "checked"
             PROVE  CheckHolds(r)'
  BY DEF ChecksHold
<1>1. CASE pc[r] = "checked" /\ req'[r] = req[r]
  <2>0. PICK e, b : e = req[r].event /\ b = req[r].base  OBVIOUS
  <2>1. e \in Events /\ b \in Nat  BY <1>1, <2>0, CheckedLocals
  <2>2. CheckHolds(r)  BY <1>1 DEF ChecksHold
  <2>3. /\ status[e] # Absent
        /\ b <= Len(log[e])
        /\ b = Len(log[e]) => status[e] = req[r].seen
        /\ CanTransitionDispatch(req[r].seen, req[r].value)
        /\ req[r].seen \notin Terminal
    BY <2>0, <2>2 DEF CheckHolds
  <2>4. /\ status'[e] # Absent
        /\ Len(log[e]) \in Nat /\ Len(log'[e]) \in Nat
        /\ Len(log[e]) <= Len(log'[e])
        /\ Len(log[e]) = Len(log'[e]) => status'[e] = status[e]
    BY <2>1, <2>3, OnlyGrows
  <2>5. b <= Len(log'[e]) /\ (b = Len(log'[e]) => status'[e] = req[r].seen)
    BY <2>1, <2>3, <2>4
  <2> QED  BY <1>1, <2>0, <2>3, <2>4, <2>5 DEF CheckHolds, CanTransitionDispatch
<1>2. ASSUME NEW e \in Events, NEW s \in Statuses, status[e] # Absent, status[e] # s,
             CanTransitionDispatch(status[e], s),
             req'[r] = [event |-> e, value |-> s, seen |-> status[e], base |-> Len(log[e])],
             UNCHANGED <<status, log>>
      PROVE  CheckHolds(r)'
  <2>1. status[e] \in Statuses  BY <1>2 DEF TypeOK
  <2>2. status[e] \notin Terminal  BY <1>2, <2>1, TerminalEnds
  <2>3. Len(log[e]) <= Len(log[e])  BY DEF TypeOK
  <2>4. /\ req'[r].event = e /\ req'[r].value = s /\ req'[r].seen = status[e]
        /\ req'[r].base = Len(log[e])
    BY <1>2
  <2> QED  BY <1>2, <2>2, <2>3, <2>4 DEF CheckHolds, CanTransitionDispatch
<1> QED  BY <1>1, <1>2, CheckedBefore
-----------------------------------------------------------------------------
(* Forbidden entries.                                                      *)

\* Entry x, the i-th of its log, is one the table allows, or another one of the event
\* came between its check and its transaction.
Excused(x, i) == \/ CanTransitionDispatch(x.from, x.to) /\ x.from \notin Terminal
                 \/ x.base < i - 1

LEMMA IllegalPreserved ==
    TypeOK /\ ChecksHold /\ IllegalOnlyByOverlap /\ [Next]_vars => IllegalOnlyByOverlap'
<1> SUFFICES ASSUME TypeOK, ChecksHold, IllegalOnlyByOverlap, [Next]_vars
             PROVE  \A e \in Events : \A i \in 1 .. Len(log'[e]) : Excused(log'[e][i], i)
  BY DEF IllegalOnlyByOverlap, Excused, CanTransitionDispatch
<1>0. \A e \in Events : \A i \in 1 .. Len(log[e]) : Excused(log[e][i], i)
  BY DEF IllegalOnlyByOverlap, Excused
<1>1. CASE UNCHANGED log  BY <1>0, <1>1
<1>2. ASSUME NEW r \in Requests, Writes(r)
      PROVE  \A e \in Events : \A i \in 1 .. Len(log'[e]) : Excused(log'[e][i], i)
  <2>0. PICK e, n : e = req[r].event /\ n = Len(log[e])  OBVIOUS
  <2>a. /\ e \in Events /\ log[e] \in Seq(LogEntries)
        /\ Len(log'[e]) = Len(log[e]) + 1
        /\ \A i \in 1 .. Len(log[e]) : log'[e][i] = log[e][i]
        /\ log'[e][Len(log[e]) + 1] = NewEntry(r)
        /\ \A d \in Events : d # e => log'[d] = log[d]
    BY <1>2, <2>0, WriteFacts
  <2>1. /\ e \in Events /\ n \in Nat
        /\ Len(log'[e]) = n + 1
        /\ \A i \in 1 .. n : log'[e][i] = log[e][i]
        /\ log'[e][n + 1] = NewEntry(r)
        /\ \A d \in Events : d # e => log'[d] = log[d]
    BY <2>0, <2>a
  <2>2. CheckHolds(r)  BY <1>2 DEF Writes, ChecksHold
  <2>3. req[r].base \in Nat  BY <1>2, CheckedLocals DEF Writes
  <2>4. Excused(NewEntry(r), n + 1)
    <3>1. NewEntry(r).base = req[r].base /\ NewEntry(r).from = status[e]
          /\ NewEntry(r).to = req[r].value
      BY <2>0 DEF NewEntry
    <3>2. CASE req[r].base = n
      <4>1. /\ status[e] = req[r].seen
            /\ CanTransitionDispatch(req[r].seen, req[r].value)
            /\ req[r].seen \notin Terminal
        BY <2>0, <2>2, <3>2 DEF CheckHolds
      <4> QED  BY <3>1, <4>1 DEF Excused
    <3>3. CASE req[r].base # n
      <4>1. req[r].base <= n  BY <2>0, <2>2 DEF CheckHolds
      <4>2. req[r].base < (n + 1) - 1  BY <2>1, <2>3, <3>3, <4>1
      <4>3. NewEntry(r).base < (n + 1) - 1  BY <3>1, <4>2
      <4> QED  BY <4>3 DEF Excused
    <3> QED  BY <3>2, <3>3
  <2>5. ASSUME NEW i \in 1 .. Len(log'[e]) PROVE Excused(log'[e][i], i)
    <3>1. CASE i = n + 1  BY <2>1, <2>4, <3>1
    <3>2. CASE i \in 1 .. n  BY <1>0, <2>0, <2>1, <3>2
    <3> QED  BY <2>1, <3>1, <3>2
  <2> QED  BY <1>0, <2>1, <2>5
<1> QED  BY <1>1, <1>2, StepKinds
-----------------------------------------------------------------------------
(* The theorem.                                                            *)

LEMMA StepHolds == IInv /\ [Next]_vars => IInv'
BY TypePreserved, AbsentPreserved, ChainPreserved, OneLogPreserved, ChecksPreserved,
   IllegalPreserved DEF IInv, TrailInv

\* Whatever requests overlap, the log of an event is a chain that ends in its row,
\* none of its entries leads from a status to itself, and one the table forbids has
\* another entry between its check and itself (services.go UpdateDispatchStatus and
\* Store.UpdateDispatchStatus).
THEOREM DispatchTrail ==
    Spec => [](TypeOK /\ LogIsChain /\ OneLogPerChange /\ IllegalOnlyByOverlap)
<1>1. IInv => TypeOK /\ LogIsChain /\ OneLogPerChange /\ IllegalOnlyByOverlap
  BY DEF IInv, TrailInv
<1> QED  BY <1>1, InitHolds, StepHolds, PTL DEF Spec

-----------------------------------------------------------------------------
(* The announcements.                                                      *)

\* The terms of AnnouncedOnce: announcements of s, requests about to make one, entries
\* that lead to s, and whether e began with it.
Announcements(e, s) == {i \in 1 .. Len(announced) : announced[i] = <<e, s>>}
Awaiting(e, s) == {r \in Requests : pc[r] = "committed" /\ req[r].event = e /\ req[r].value = s}
Entries(e, s) == {i \in 1 .. Len(log[e]) : log[e][i].to = s}
Begun(e, s) == IF Initial(e) = s THEN 1 ELSE 0

Balanced(e, s) == Cardinality(Announcements(e, s)) + Cardinality(Awaiting(e, s))
                  = Cardinality(Entries(e, s)) + Begun(e, s)

\* Requests may be infinitely many, those about to announce are not.
AnnounceInv == \A e \in Events, s \in Statuses : IsFiniteSet(Awaiting(e, s)) /\ Balanced(e, s)

\* Counting the places of a sequence gives a number.
LEMMA PlacesFinite ==
    ASSUME NEW S, NEW p \in Seq(S), NEW A \in SUBSET (1 .. Len(p))
    PROVE  IsFiniteSet(A) /\ Cardinality(A) \in Nat /\ Len(p) + 1 \notin A
<1>1. Len(p) \in Nat  OBVIOUS
<1>2. IsFiniteSet(1 .. Len(p))
  <2>1. 1 \in Int /\ Len(p) \in Int  BY <1>1
  <2> QED  BY <2>1, FS_Interval, Zenon
<1>3. IsFiniteSet(A)  BY <1>2, FS_Subset, Zenon
<1>4. Cardinality(A) \in Nat  BY <1>3, FS_CardinalityType
<1>5. Len(p) + 1 \notin A  BY <1>1
<1> QED  BY <1>3, <1>4, <1>5

\* The terms are numbers.
LEMMA TermsType ==
    ASSUME TypeOK, AnnounceInv, NEW e \in Events, NEW s \in Statuses
    PROVE  /\ IsFiniteSet(Announcements(e, s)) /\ Cardinality(Announcements(e, s)) \in Nat
           /\ IsFiniteSet(Entries(e, s)) /\ Cardinality(Entries(e, s)) \in Nat
           /\ IsFiniteSet(Awaiting(e, s)) /\ Cardinality(Awaiting(e, s)) \in Nat
           /\ Len(announced) + 1 \notin Announcements(e, s)
           /\ Len(log[e]) + 1 \notin Entries(e, s)
<1>1. announced \in Seq(Events \X Statuses) /\ log[e] \in Seq(LogEntries)  BY DEF TypeOK
<1>2. Announcements(e, s) \in SUBSET (1 .. Len(announced))  BY DEF Announcements
<1>3. Entries(e, s) \in SUBSET (1 .. Len(log[e]))  BY DEF Entries
<1>4. IsFiniteSet(Awaiting(e, s))  BY DEF AnnounceInv
<1>5. Cardinality(Awaiting(e, s)) \in Nat  BY <1>4, FS_CardinalityType
<1> QED  BY <1>1, <1>2, <1>3, <1>4, <1>5, PlacesFinite

\* A step that commits and announces nothing.
LEMMA QuietAnnounce ==
    ASSUME AnnounceInv, UNCHANGED <<status, log, announced>>,
           \A r \in Requests : /\ pc'[r] = "committed" <=> pc[r] = "committed"
                               /\ pc[r] = "committed" => req'[r] = req[r]
    PROVE  AnnounceInv'
<1>1. \A e \in Events, s \in Statuses : /\ Awaiting(e, s)' = Awaiting(e, s)
                                       /\ Announcements(e, s)' = Announcements(e, s)
                                       /\ Entries(e, s)' = Entries(e, s)
                                       /\ Begun(e, s)' = Begun(e, s)
  BY DEF Awaiting, Announcements, Entries, Begun, Initial
<1> QED  BY <1>1 DEF AnnounceInv, Balanced

\* A request that commits is one more that is about to announce.
LEMMA CommitAwaits ==
    ASSUME TypeOK, AnnounceInv, NEW r \in Requests, pc[r] # "committed",
           pc' = [pc EXCEPT ![r] = "committed"], \A q \in Requests \ {r} : req'[q] = req[q],
           NEW d \in Events, NEW s \in Statuses
    PROVE  /\ IsFiniteSet(Awaiting(d, s)')
           /\ Cardinality(Awaiting(d, s)')
                = Cardinality(Awaiting(d, s))
                    + (IF req'[r].event = d /\ req'[r].value = s THEN 1 ELSE 0)
<1> DEFINE A == Awaiting(d, s)
           B == Awaiting(d, s)'
<1>1. pc'[r] = "committed" /\ \A q \in Requests \ {r} : pc'[q] = pc[q]  BY DEF TypeOK
<1>2. IsFiniteSet(A) /\ Cardinality(A) \in Nat  BY TermsType
<1>3. r \notin A  BY DEF Awaiting
<1>4. CASE req'[r].event = d /\ req'[r].value = s
  <2>1. B = A \cup {r}  BY <1>1, <1>4 DEF Awaiting
  <2> HIDE DEF A, B
  <2>2. IsFiniteSet(B) /\ Cardinality(B) = Cardinality(A) + 1
    BY <1>2, <1>3, <2>1, FS_AddElement
  <2> QED  BY <1>4, <2>2 DEF A, B
<1>5. CASE ~(req'[r].event = d /\ req'[r].value = s)
  <2>1. B = A  BY <1>1, <1>5 DEF Awaiting
  <2> HIDE DEF A, B
  <2>2. IsFiniteSet(B) /\ Cardinality(B) = Cardinality(A) + 0  BY <1>2, <2>1
  <2> QED  BY <1>5, <2>2 DEF A, B
<1> QED  BY <1>4, <1>5

\* A new event is to be announced with the status it begins with.
LEMMA CreateAnnounce ==
    ASSUME TypeOK, AbsentUnlogged, AnnounceInv, NEW r \in Requests, NEW e \in Events,
           NEW v \in Statuses, CreateEvent(r, e, v)
    PROVE  AnnounceInv'
<1>1. /\ pc[r] = "idle" /\ status[e] = Absent /\ status' = [status EXCEPT ![e] = v]
      /\ pc' = [pc EXCEPT ![r] = "committed"] /\ UNCHANGED <<log, announced>>
      /\ req' = [req EXCEPT ![r] = [event |-> e, value |-> v, seen |-> Absent, base |-> 0]]
  BY DEF CreateEvent
<1>2. req'[r].event = e /\ req'[r].value = v /\ \A q \in Requests \ {r} : req'[q] = req[q]
  BY <1>1 DEF TypeOK
<1>3. log[e] = <<>>  BY <1>1 DEF AbsentUnlogged
<1>4. status'[e] = v /\ \A d \in Events \ {e} : status'[d] = status[d]  BY <1>1 DEF TypeOK
<1>5. ASSUME NEW d \in Events, NEW s \in Statuses PROVE IsFiniteSet(Awaiting(d, s)') /\ Balanced(d, s)'
  <2>1. /\ IsFiniteSet(Awaiting(d, s)')
        /\ Cardinality(Awaiting(d, s)')
             = Cardinality(Awaiting(d, s)) + (IF d = e /\ s = v THEN 1 ELSE 0)
    <3>1. /\ pc[r] # "committed" /\ pc' = [pc EXCEPT ![r] = "committed"]
          /\ \A q \in Requests \ {r} : req'[q] = req[q]
          /\ req'[r].event = e /\ req'[r].value = v
      BY <1>1, <1>2
    <3>2. /\ IsFiniteSet(Awaiting(d, s)')
          /\ Cardinality(Awaiting(d, s)')
               = Cardinality(Awaiting(d, s))
                   + (IF req'[r].event = d /\ req'[r].value = s THEN 1 ELSE 0)
      BY <3>1, CommitAwaits
    <3>3. (req'[r].event = d /\ req'[r].value = s) <=> (d = e /\ s = v)  BY <3>1
    <3> QED  BY <3>2, <3>3
  <2>2. Announcements(d, s)' = Announcements(d, s) /\ Entries(d, s)' = Entries(d, s)
    BY <1>1 DEF Announcements, Entries
  <2>3. Begun(d, s) \in Nat /\ Begun(d, s)' = Begun(d, s) + (IF d = e /\ s = v THEN 1 ELSE 0)
    <3>1. CASE d = e
      BY <1>1, <1>3, <1>4, <3>1, StatusPresent DEF Begun, Initial
    <3>2. CASE d # e
      BY <1>1, <1>4, <3>2 DEF Begun, Initial
    <3> QED  BY <3>1, <3>2
  <2>4. Balanced(d, s)  BY DEF AnnounceInv
  <2>5. /\ Cardinality(Announcements(d, s)) \in Nat /\ Cardinality(Entries(d, s)) \in Nat
        /\ Cardinality(Awaiting(d, s)) \in Nat
    BY TermsType
  <2> QED  BY <2>1, <2>2, <2>3, <2>4, <2>5 DEF Balanced
<1> QED  BY <1>5 DEF AnnounceInv

\* A change is to be announced with the status it writes.
LEMMA WriteAnnounce ==
    ASSUME TypeOK, ChecksHold, AnnounceInv, NEW r \in Requests, Writes(r) PROVE AnnounceInv'
<1>0. PICK e, v : e = req[r].event /\ v = req[r].value  OBVIOUS
<1>1. /\ e \in Events /\ v \in Statuses /\ log[e] \in Seq(LogEntries)
      /\ Len(log'[e]) = Len(log[e]) + 1
      /\ \A i \in 1 .. Len(log[e]) : log'[e][i] = log[e][i]
      /\ log'[e][Len(log[e]) + 1] = NewEntry(r)
      /\ \A d \in Events : d # e => log'[d] = log[d] /\ status'[d] = status[d]
  BY <1>0, WriteFacts, SMTT(30)
<1>2. /\ pc[r] = "checked" /\ pc' = [pc EXCEPT ![r] = "committed"] /\ UNCHANGED <<req, announced>>
      /\ NewEntry(r).to = v /\ NewEntry(r).from = status[e]
  BY <1>0 DEF Writes, NewEntry
<1>3. ASSUME NEW d \in Events, NEW s \in Statuses PROVE IsFiniteSet(Awaiting(d, s)') /\ Balanced(d, s)'
  <2>1. /\ IsFiniteSet(Awaiting(d, s)')
        /\ Cardinality(Awaiting(d, s)')
             = Cardinality(Awaiting(d, s)) + (IF d = e /\ s = v THEN 1 ELSE 0)
    <3>1. /\ pc[r] # "committed" /\ pc' = [pc EXCEPT ![r] = "committed"]
          /\ \A q \in Requests \ {r} : req'[q] = req[q]
          /\ req'[r].event = e /\ req'[r].value = v
      BY <1>0, <1>2
    <3>2. /\ IsFiniteSet(Awaiting(d, s)')
          /\ Cardinality(Awaiting(d, s)')
               = Cardinality(Awaiting(d, s))
                   + (IF req'[r].event = d /\ req'[r].value = s THEN 1 ELSE 0)
      BY <3>1, CommitAwaits
    <3>3. (req'[r].event = d /\ req'[r].value = s) <=> (d = e /\ s = v)  BY <3>1
    <3> QED  BY <3>2, <3>3
  <2>2. Announcements(d, s)' = Announcements(d, s)  BY <1>2 DEF Announcements
  <2>3. Cardinality(Entries(d, s)') = Cardinality(Entries(d, s)) + (IF d = e /\ s = v THEN 1 ELSE 0)
    <3> DEFINE A == Entries(d, s)
               B == Entries(d, s)'
               last == Len(log[e]) + 1
    <3>1. IsFiniteSet(A) /\ Cardinality(A) \in Nat /\ (d = e => last \notin A)  BY TermsType
    <3>2. CASE d = e /\ s = v
      <4>1. B = A \cup {last}  BY <1>1, <1>2, <3>2 DEF Entries
      <4> HIDE DEF A, B, last
      <4>2. Cardinality(B) = Cardinality(A) + 1  BY <3>1, <3>2, <4>1, FS_AddElement
      <4> QED  BY <3>2, <4>2 DEF A, B
    <3>3. CASE ~(d = e /\ s = v)
      <4>1. B = A
        <5>1. CASE d = e  BY <1>1, <1>2, <3>3, <5>1 DEF Entries
        <5>2. CASE d # e  BY <1>1, <5>2 DEF Entries
        <5> QED  BY <5>1, <5>2
      <4> HIDE DEF A, B
      <4>2. Cardinality(B) = Cardinality(A) + 0  BY <3>1, <4>1
      <4> QED  BY <3>3, <4>2 DEF A, B
    <3> QED  BY <3>2, <3>3
  <2>4. Begun(d, s) \in Nat /\ Begun(d, s)' = Begun(d, s)
    <3>1. Initial(d)' = Initial(d)
      <4>1. CASE d # e  BY <1>1, <4>1 DEF Initial
      <4>2. CASE d = e /\ log[e] = <<>>
        <5>1. Len(log[e]) = 0 /\ log'[e][1] = NewEntry(r) /\ log'[e] # <<>>  BY <1>1, <4>2
        <5> QED  BY <1>2, <4>2, <5>1 DEF Initial
      <4>3. CASE d = e /\ log[e] # <<>>
        <5>1. 1 \in 1 .. Len(log[e]) /\ log'[e] # <<>>  BY <1>1, <4>3
        <5> QED  BY <1>1, <4>3, <5>1 DEF Initial
      <4> QED  BY <4>1, <4>2, <4>3
    <3> QED  BY <3>1 DEF Begun
  <2>5. Balanced(d, s)  BY DEF AnnounceInv
  <2>6. /\ Cardinality(Announcements(d, s)) \in Nat /\ Cardinality(Entries(d, s)) \in Nat
        /\ Cardinality(Awaiting(d, s)) \in Nat
    BY TermsType
  <2> QED  BY <2>1, <2>2, <2>3, <2>4, <2>5, <2>6 DEF Balanced
<1> QED  BY <1>3 DEF AnnounceInv

\* An announcement is one that was awaited.
LEMMA AnnounceAnnounce ==
    ASSUME TypeOK, AnnounceInv, NEW r \in Requests, Announce(r) PROVE AnnounceInv'
<1>0. PICK e, v : e = req[r].event /\ v = req[r].value  OBVIOUS
<1>1. /\ pc[r] = "committed" /\ announced' = Append(announced, <<e, v>>)
      /\ pc' = [pc EXCEPT ![r] = "done"] /\ UNCHANGED <<status, log, req>>
  BY <1>0 DEF Announce
<1>2. e \in Events /\ v \in Statuses  BY <1>0, <1>1, CheckedLocals
<1>3. announced \in Seq(Events \X Statuses) /\ <<e, v>> \in Events \X Statuses  BY <1>2 DEF TypeOK
<1>4. /\ Len(announced') = Len(announced) + 1
      /\ \A i \in 1 .. Len(announced) : announced'[i] = announced[i]
      /\ announced'[Len(announced) + 1] = <<e, v>>
  BY <1>1, <1>3
<1>5. pc'[r] = "done" /\ \A q \in Requests \ {r} : pc'[q] = pc[q]  BY <1>1 DEF TypeOK
<1>6. ASSUME NEW d \in Events, NEW s \in Statuses PROVE IsFiniteSet(Awaiting(d, s)') /\ Balanced(d, s)'
  <2> DEFINE A == Announcements(d, s)
             B == Announcements(d, s)'
             W == Awaiting(d, s)
             V == Awaiting(d, s)'
             last == Len(announced) + 1
  <2>1. /\ IsFiniteSet(A) /\ Cardinality(A) \in Nat /\ last \notin A
        /\ IsFiniteSet(W) /\ Cardinality(W) \in Nat
    BY TermsType
  <2>2. Entries(d, s)' = Entries(d, s) /\ Begun(d, s)' = Begun(d, s)
    BY <1>1 DEF Entries, Begun, Initial
  <2>3. IsFiniteSet(V) /\ Cardinality(B) + Cardinality(V) = Cardinality(A) + Cardinality(W)
    <3>1. CASE d = e /\ s = v
      <4>1. B = A \cup {last}  BY <1>3, <1>4, <3>1 DEF Announcements
      <4>2. V = W \ {r} /\ r \in W  BY <1>0, <1>1, <1>5, <3>1 DEF Awaiting
      <4> HIDE DEF A, B, W, V, last
      <4>3. Cardinality(B) = Cardinality(A) + 1  BY <2>1, <4>1, FS_AddElement
      <4>4. IsFiniteSet(V) /\ Cardinality(V) = Cardinality(W) - 1  BY <2>1, <4>2, FS_RemoveElement
      <4> QED  BY <2>1, <4>3, <4>4
    <3>2. CASE ~(d = e /\ s = v)
      <4>1. <<e, v>> # <<d, s>>  BY <3>2
      <4>2. B = A  BY <1>3, <1>4, <4>1 DEF Announcements
      <4>3. V = W  BY <1>0, <1>1, <1>5, <3>2 DEF Awaiting
      <4> HIDE DEF A, B, W, V
      <4> QED  BY <2>1, <4>2, <4>3
    <3> QED  BY <3>1, <3>2
  <2>4. Balanced(d, s)  BY DEF AnnounceInv
  <2> QED  BY <2>2, <2>3, <2>4 DEF Balanced
<1> QED  BY <1>6 DEF AnnounceInv

\* Every committed change is announced exactly once and nothing else is, whatever requests
\* overlap: the announcements of a status and the requests about to make one are as many
\* as the changes to it (CreateDispatchEvent, UpdateDispatchStatus, hub.Broadcast).
THEOREM DispatchAnnouncements == Spec => []AnnouncedOnce
<1>1. Init => AnnounceInv
  <2> SUFFICES ASSUME Init, NEW e \in Events, NEW s \in Statuses
               PROVE  IsFiniteSet(Awaiting(e, s)) /\ Balanced(e, s)
    BY DEF AnnounceInv
  <2>1. Announcements(e, s) = {} /\ Awaiting(e, s) = {} /\ Entries(e, s) = {}
    BY DEF Init, Announcements, Awaiting, Entries
  <2>2. Begun(e, s) = 0  BY StatusPresent DEF Init, Begun, Initial
  <2>3. IsFiniteSet({}) /\ Cardinality({}) = 0  BY FS_EmptySet, Zenon
  <2> QED  BY <2>1, <2>2, <2>3 DEF Balanced
<1>2. IInv /\ AnnounceInv /\ [Next]_vars => AnnounceInv'
  <2> SUFFICES ASSUME IInv, AnnounceInv, [Next]_vars PROVE AnnounceInv'  OBVIOUS
  <2>0. TypeOK /\ ChecksHold /\ AbsentUnlogged  BY DEF IInv, TrailInv
  <2>1. CASE UNCHANGED vars  BY <2>1, QuietAnnounce DEF vars
  <2>2. ASSUME NEW r \in Requests, Request(r) PROVE AnnounceInv'
    <3>1. CASE \E e \in Events, s \in Statuses : CreateEvent(r, e, s)
      BY <2>0, <3>1, CreateAnnounce
    <3>2. CASE \E e \in Events, s \in Statuses : CheckTransition(r, e, s)
      <4>1. /\ UNCHANGED <<status, log, announced>>
            /\ \A q \in Requests : /\ pc'[q] = "committed" <=> pc[q] = "committed"
                                   /\ pc[q] = "committed" => req'[q] = req[q]
        BY <2>0, <3>2 DEF CheckTransition, TypeOK
      <4> QED  BY <4>1, QuietAnnounce
    <3>3. CASE StoreUpdate(r)
      <4>1. CASE status[req[r].event] = req[r].value
        <5>1. /\ UNCHANGED <<status, log, announced, req>>
              /\ \A q \in Requests : pc'[q] = "committed" <=> pc[q] = "committed"
          BY <2>0, <3>3, <4>1 DEF StoreUpdate, TypeOK
        <5> QED  BY <5>1, QuietAnnounce
      <4>2. CASE status[req[r].event] # req[r].value
        <5>1. Writes(r)  BY <3>3, <4>2 DEF StoreUpdate, Writes, NewEntry
        <5> QED  BY <2>0, <5>1, WriteAnnounce
      <4> QED  BY <4>1, <4>2
    <3>4. CASE CreateFails(r) \/ StoreFails(r)
      <4>1. /\ UNCHANGED <<status, log, announced, req>>
            /\ \A q \in Requests : pc'[q] = "committed" <=> pc[q] = "committed"
        BY <2>0, <3>4 DEF CreateFails, StoreFails, TypeOK
      <4> QED  BY <4>1, QuietAnnounce
    <3>5. CASE Announce(r)  BY <2>0, <3>5, AnnounceAnnounce
    <3> QED  BY <2>2, <3>1, <3>2, <3>3, <3>4, <3>5 DEF Request
  <2> QED  BY <2>1, <2>2 DEF Next
<1>3. AnnounceInv => AnnouncedOnce
  BY DEF AnnounceInv, AnnouncedOnce, Balanced, Announcements, Awaiting, Entries, Begun, Reached
<1> QED  BY <1>1, <1>2, <1>3, InitHolds, StepHolds, PTL DEF Spec
=============================================================================
