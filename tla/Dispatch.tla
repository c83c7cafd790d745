------------------------------ MODULE Dispatch ------------------------------
(***************************************************************************)
(* Dispatch events of the API server: the service operations               *)
(* CreateDispatchEvent and UpdateDispatchStatus (services.go) over the     *)
(* store (repositories/store.go).  UpdateDispatchStatus reads the event    *)
(* without a lock, decides on what it read, and then runs a transaction    *)
(* that locks the row, reads it again and writes status and log entry; the *)
(* announcement to the hub follows outside the transaction.                *)
(*                                                                         *)
(* Atomicity: one step per statement or transaction of the database and    *)
(* one per call of the hub.  Every element of Requests is one HTTP request *)
(* (a goroutine of the server).  The outcome of a commit is known to the   *)
(* caller.                                                                 *)
(***************************************************************************)
EXTENDS Integers, Sequences, FiniteSets

CONSTANTS Events,    \* ids of dispatch events
          Requests   \* HTTP requests, each served once

VARIABLES status,     \* status[e]: column status of the row, Absent before the insert
          log,        \* log[e]: dispatch_event_logs of e, in commit order
          pc,         \* pc[r]: how far request r is
          req,        \* req[r]: locals of the handler
          announced   \* calls of hub.Broadcast, in order

vars == <<status, log, pc, req, announced>>

Statuses == {"NEW", "DISPATCHED", "PROCESSING", "COMPLETED", "CANCELLED"}
Terminal == {"COMPLETED", "CANCELLED"}
Absent == "absent"
Pcs == {"idle", "checked", "committed", "done"}
\* history: base is the length of the log when the request made its check
LogEntries == [from : Statuses, to : Statuses, base : Nat]
\* value: the status r asks for; seen: the status its check was made on
Locals == [event : Events, value : Statuses, seen : Statuses \cup {Absent}, base : Nat]

TypeOK == /\ status \in [Events -> Statuses \cup {Absent}]
          /\ log \in [Events -> Seq(LogEntries)]
          /\ pc \in [Requests -> Pcs]
          /\ req \in [Requests -> Locals \cup {<<>>}]
          /\ \A r \in Requests : pc[r] \in {"checked", "committed"} => req[r] \in Locals
          /\ announced \in Seq(Events \X Statuses)

Init == /\ status = [e \in Events |-> Absent]
        /\ log = [e \in Events |-> <<>>]
        /\ pc = [r \in Requests |-> "idle"]
        /\ req = [r \in Requests |-> <<>>]
        /\ announced = <<>>
-----------------------------------------------------------------------------
\* Mutant: a completed event may be taken up again.
CanTransitionDispatchReopens(from, to) ==
    \/ from = to
    \/ from = "NEW" /\ to \in {"DISPATCHED", "PROCESSING", "CANCELLED"}
    \/ from = "DISPATCHED" /\ to \in {"PROCESSING", "COMPLETED", "CANCELLED"}
    \/ from \in {"PROCESSING", "COMPLETED"} /\ to \in {"PROCESSING", "COMPLETED", "CANCELLED"}

CanTransitionDispatch(from, to) ==
    \/ from = to
    \/ from = "NEW" /\ to \in {"DISPATCHED", "PROCESSING", "CANCELLED"}
    \/ from = "DISPATCHED" /\ to \in {"PROCESSING", "COMPLETED", "CANCELLED"}
    \/ from = "PROCESSING" /\ to \in {"COMPLETED", "CANCELLED"}

\* CreateDispatchEvent: an empty status becomes NEW, any other valid one is kept.
CreateEvent(r, e, s) ==
    /\ pc[r] = "idle"
    /\ status[e] = Absent
    /\ status' = [status EXCEPT ![e] = s]
    /\ pc' = [pc EXCEPT ![r] = "committed"]
    /\ req' = [req EXCEPT ![r] = [event |-> e, value |-> s, seen |-> Absent,
                                 base |-> 0]]
    /\ UNCHANGED <<log, announced>>

\* The body or the status of a create is refused, or the insert fails.
CreateFails(r) ==
    /\ pc[r] = "idle"
    /\ pc' = [pc EXCEPT ![r] = "done"]
    /\ UNCHANGED <<status, log, req, announced>>

\* UpdateDispatchStatus up to the transaction: read the event, and go on only if
\* it exists, changes, and may go from what was read to what is asked for.
CheckTransition(r, e, to) ==
    /\ pc[r] = "idle"
    /\ IF /\ status[e] # Absent
          /\ status[e] # to
          /\ CanTransitionDispatch(status[e], to)
       THEN /\ pc' = [pc EXCEPT ![r] = "checked"]
            /\ req' = [req EXCEPT ![r] = [event |-> e, value |-> to, seen |-> status[e],
                                         base |-> Len(log[e])]]
       ELSE /\ pc' = [pc EXCEPT ![r] = "done"]
            /\ UNCHANGED req
    /\ UNCHANGED <<status, log, announced>>

\* Mutant: the log entry takes its from-status from the unlocked read.
StoreUpdateStale(r) ==
    LET e == req[r].event
        to == req[r].value
    IN  /\ pc[r] = "checked"
        /\ IF status[e] = to
           THEN /\ pc' = [pc EXCEPT ![r] = "done"]
                /\ UNCHANGED <<status, log>>
           ELSE /\ status' = [status EXCEPT ![e] = to]
                /\ log' = [log EXCEPT ![e] = Append(@,
                              [from |-> req[r].seen, to |-> to, base |-> req[r].base])]
                /\ pc' = [pc EXCEPT ![r] = "committed"]
        /\ UNCHANGED <<req, announced>>

\* Mutant: the caller does not learn that nothing changed.
StoreUpdateTellsNothing(r) ==
    LET e == req[r].event
        to == req[r].value
    IN  /\ pc[r] = "checked"
        /\ status' = [status EXCEPT ![e] = to]
        /\ log' = IF status[e] = to THEN log
                  ELSE [log EXCEPT ![e] = Append(@,
                           [from |-> status[e], to |-> to, base |-> req[r].base])]
        /\ pc' = [pc EXCEPT ![r] = "committed"]
        /\ UNCHANGED <<req, announced>>

\* Store.UpdateDispatchStatus: SELECT ... FOR UPDATE, then save and log in one
\* transaction.  The transition is not checked again; only "no change" is.
StoreUpdate(r) ==
    LET e == req[r].event
        to == req[r].value
    IN  /\ pc[r] = "checked"
        /\ IF status[e] = to
           THEN /\ pc' = [pc EXCEPT ![r] = "done"]
                /\ UNCHANGED <<status, log>>
           ELSE /\ status' = [status EXCEPT ![e] = to]
                /\ log' = [log EXCEPT ![e] = Append(@,
                              [from |-> status[e], to |-> to, base |-> req[r].base])]
                /\ pc' = [pc EXCEPT ![r] = "committed"]
        /\ UNCHANGED <<req, announced>>

\* The transaction fails and is rolled back; the caller gets the error.
StoreFails(r) ==
    /\ pc[r] = "checked"
    /\ pc' = [pc EXCEPT ![r] = "done"]
    /\ UNCHANGED <<status, log, req, announced>>

\* hub.Broadcast with the row as the transaction wrote it.
Announce(r) ==
    /\ pc[r] = "committed"
    /\ announced' = Append(announced, <<req[r].event, req[r].value>>)
    /\ pc' = [pc EXCEPT ![r] = "done"]
    /\ UNCHANGED <<status, log, req>>
-----------------------------------------------------------------------------
Request(r) == \/ \E e \in Events, s \in Statuses : CreateEvent(r, e, s)
              \/ CreateFails(r)
              \/ \E e \in Events, s \in Statuses : CheckTransition(r, e, s)
              \/ StoreUpdate(r)
              \/ StoreFails(r)
              \/ Announce(r)

Next == \E r \in Requests : Request(r)

Spec == Init /\ [][Next]_vars
-----------------------------------------------------------------------------
(* Properties.                                                             *)

\* The audit trail is a chain that ends in the row: every entry starts where the
\* one before ended and the last one ends in the current status, whatever
\* requests overlap (the FOR UPDATE read in Store.UpdateDispatchStatus).
LogIsChain == \A e \in Events :
    /\ \A i \in 1 .. Len(log[e]) - 1 : log[e][i].to = log[e][i + 1].from
    /\ log[e] # <<>> => log[e][Len(log[e])].to = status[e]

\* Requests that ask for the same change at the same time log it once: no entry
\* leads from a status to itself (the second comparison, under the lock).
OneLogPerChange == \A e \in Events : \A i \in 1 .. Len(log[e]) :
    log[e][i].from # log[e][i].to

\* An entry the transition table forbids exists only where another change of the
\* event was committed between the check and the transaction: a request that runs
\* alone never makes one (canTransitionDispatch, then Store.UpdateDispatchStatus).
IllegalOnlyByOverlap == \A e \in Events : \A i \in 1 .. Len(log[e]) :
    \/ CanTransitionDispatch(log[e][i].from, log[e][i].to) /\ log[e][i].from \notin Terminal
    \/ log[e][i].base < i - 1

\* Statuses e went through: the one it was created with and those of its log.
Reached(e, s) == Cardinality({i \in 1 .. Len(log[e]) : log[e][i].to = s})
Initial(e) == IF log[e] = <<>> THEN status[e] ELSE log[e][1].from

\* Every committed change is announced exactly once, and nothing else is: what
\* was announced and what a request is about to announce is what was committed.
AnnouncedOnce == \A e \in Events, s \in Statuses :
    Cardinality({i \in 1 .. Len(announced) : announced[i] = <<e, s>>})
      + Cardinality({r \in Requests : /\ pc[r] = "committed"
                                      /\ req[r].event = e
                                      /\ req[r].value = s})
    = Reached(e, s) + (IF Initial(e) = s THEN 1 ELSE 0)

=============================================================================
