-------------------------- MODULE OrderedBroadcast --------------------------
(***************************************************************************)
(* What the WebSocket hub (backend/internal/ws/hub.go) promises the        *)
(* services that call Broadcast and the browsers that are connected: one   *)
(* total order of events; a subscriber gets a contiguous run of it, from   *)
(* the point it joined to the point it is cut off; nothing is repeated,    *)
(* skipped or reordered in between.  How long the run is, is not promised. *)
(***************************************************************************)
EXTENDS Integers, Sequences

CONSTANTS Clients,  \* the connections
          Events    \* what can be published

VARIABLES published,  \* events accepted so far, in the order they go out
          start,      \* start[c]: events published before c's run, -1 = not joined
          received    \* received[c]: what was written to c's connection

abstractVars == <<published, start, received>>

NotJoined == -1

Init == /\ published = <<>>
        /\ start = [c \in Clients |-> NotJoined]
        /\ received = [c \in Clients |-> <<>>]

\* An accepted event takes the next place of the total order.
Publish == /\ \E e \in Events : published' = Append(published, e)
           /\ UNCHANGED <<start, received>>

\* A joining client may still see events accepted just before it joined.
Join(c) == /\ start[c] = NotJoined
           /\ \E i \in 0 .. Len(published) : start' = [start EXCEPT ![c] = i]
           /\ UNCHANGED <<published, received>>

\* The next event of c's run, and no other, is written to c.
Deliver(c) == LET i == start[c] + Len(received[c]) + 1 IN
              /\ start[c] # NotJoined
              /\ i <= Len(published)
              /\ received' = [received EXCEPT ![c] = Append(@, published[i])]
              /\ UNCHANGED <<published, start>>

Next == \/ Publish
        \/ \E c \in Clients : Join(c) \/ Deliver(c)

Spec == Init /\ [][Next]_abstractVars
=============================================================================
