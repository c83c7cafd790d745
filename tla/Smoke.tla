------------------------------- MODULE Smoke --------------------------------
(***************************************************************************)
(* scripts/smoke_check.py against the API server: a list of checks, each   *)
(* of which may fail without ending the list, that creates a battle        *)
(* session, opens a WebSocket, posts one report and waits for what the     *)
(* server broadcasts of it.  The session is never stopped.                 *)
(*                                                                         *)
(* The server is BattleSession, the hub OrderedBroadcast (which Hub        *)
(* implements): a connection joins the order of events some time after its *)
(* upgrade was answered, and may still get what was published before.      *)
(* Merged: the four reads before the login, the four after it, the         *)
(* timeline and the snapshots, and the delivery of a message and its read. *)
(***************************************************************************)
EXTENDS BattleSession, SequencesExt

CONSTANTS SmokeReport,  \* the one report
          SmokePost     \* the request that delivers it

\* The report of post_radar_report: a battle that goes on, with one event, and a
\* target, units and a projectile.
ASSUME SmokeAssumption ==
    /\ SmokePost \in Deliveries /\ SmokeReport \in Reports
    /\ Payload[SmokeReport].state /\ Payload[SmokeReport].status = "running"
    /\ \E e \in EventIds : Payload[SmokeReport].events = {e}
    /\ \A k \in Kinds : Payload[SmokeReport].rows[k] # {}
    /\ \E n \in RowNames : Payload[SmokeReport].rows["projectiles"] = {n}
    /\ EventIds \cap (Stops \cup {Creator}) = {}

VARIABLES smoke,     \* the script: at: number of its check; ok: none has failed; cookie: it has
                     \* logged in; session: it knows its id; ws: 101 was answered; waiting:
                     \* for an answer; heard: the first message of each type; early: ws when
                     \* the report was posted; troubled: history, a check failed for a failure
                     \* of the server or the network, or passed its deadline
          published, start, received  \* of the hub

smokeVars == <<smoke, published, start, received>>
Connection == "smoke"
HubOrder == INSTANCE OrderedBroadcast WITH Clients <- {Connection}, Events <- {}

\* Mutant: the connection is opened after the report.
SmokeChecksLate == <<"public reads", "login", "reads", "create", "post", "connect", "hear",
                     "state", "replay", "report", "logout">>
SmokeChecks == <<"public reads", "login", "reads", "create", "connect", "post", "hear",
                 "state", "replay", "report", "logout">>
RequiredBattleWsEvents ==
    {"radar_scan_updated", "projectile_updated", "battle_event_created", "battle_state_updated"}

SmokeInit == /\ smoke = [at |-> 0, ok |-> TRUE, cookie |-> FALSE, session |-> FALSE, ws |-> FALSE,
                         waiting |-> FALSE, heard |-> {}, early |-> FALSE, troubled |-> FALSE]
             /\ HubOrder!Init

\* What the handler of p hands to the hub, in the order of the code.
InOrder(p) ==
    LET of(type) == SetToSeq({m \in Messages(p) : m.type = type})
    IN  of("radar_scan_updated") \o of("projectile_updated")
        \o of("battle_event_created") \o of("battle_state_updated")
Publish(p) == published' = published \o InOrder(p) /\ UNCHANGED <<start, received>>

SmokeRuns == smoke.at \in DOMAIN SmokeChecks
SmokeOver == smoke.at > Len(SmokeChecks)
AtCheck(name) == SmokeRuns /\ SmokeChecks[smoke.at] = name
Same == UNCHANGED <<vars, published, start, received>>

\* run_check prints the result and main goes on to the next check.
Checked(passed) == smoke' = [smoke EXCEPT !.at = @ + 1, !.ok = @ /\ passed, !.waiting = FALSE]
Trouble == smoke' = [smoke EXCEPT !.at = @ + 1, !.ok = FALSE, !.waiting = FALSE, !.troubled = TRUE]
\* A check whose answer it judges at once, or that lacks what an earlier one
\* should have got.
Judge(name, ready, passed) == AtCheck(name) /\ ~smoke.waiting /\ Checked(ready /\ passed) /\ Same

SmokeStart == smoke.at = 0 /\ smoke' = [smoke EXCEPT !.at = 1] /\ Same
Login == /\ AtCheck("login")
         /\ smoke' = [smoke EXCEPT !.at = @ + 1, !.cookie = TRUE]
         /\ Same

\* Any request may fail or pass its deadline, whatever the server goes on to do.
CheckFails == SmokeRuns /\ Trouble /\ Same

\* The server takes up a request of the script, or refuses it without a login.
SendCreate == /\ AtCheck("create") /\ ~smoke.waiting /\ smoke.cookie
              /\ InsertSession
              /\ smoke' = [smoke EXCEPT !.waiting = TRUE]
              /\ UNCHANGED <<published, start, received>>
SendReport == /\ AtCheck("post") /\ ~smoke.waiting /\ smoke.cookie /\ smoke.session
              /\ Receive(SmokePost, SmokeReport)
              /\ smoke' = [smoke EXCEPT !.waiting = TRUE, !.early = smoke.ws]
              /\ UNCHANGED <<published, start, received>>
Answered(p) == smoke.waiting /\ pc[p] \in Over
CreateAnswered == /\ AtCheck("create") /\ Answered(Creator)
                  /\ IF pc[Creator] = "acked"
                     THEN smoke' = [smoke EXCEPT !.at = @ + 1, !.waiting = FALSE, !.session = TRUE]
                     ELSE Trouble
                  /\ Same
ReportAnswered == /\ AtCheck("post") /\ Answered(SmokePost)
                  /\ IF pc[SmokePost] = "acked" THEN Checked(TRUE) ELSE Trouble
                  /\ Same
Refused == \/ Judge("create", smoke.cookie, FALSE) /\ ~smoke.cookie
           \/ Judge("post", smoke.session, FALSE) /\ ~(smoke.session /\ smoke.cookie)

\* connect returns when 101 is read; the server registers the client after that.
Connects == /\ AtCheck("connect")
            /\ smoke' = [smoke EXCEPT !.at = @ + 1, !.ws = smoke.cookie, !.ok = @ /\ smoke.cookie]
            /\ Same
Registered == /\ smoke.ws
              /\ HubOrder!Join(Connection)
              /\ UNCHANGED <<vars, smoke>>

\* read_json_matching: the first message of each type that is still pending.
Hears == /\ AtCheck("hear") /\ smoke.ws /\ smoke.session
         /\ HubOrder!Deliver(Connection)
         /\ LET message == Last(received'[Connection])
                pending == RequiredBattleWsEvents \ {m.type : m \in smoke.heard}
            IN  smoke' = [smoke EXCEPT !.heard = IF message.type \in pending THEN @ \cup {message} ELSE @]
         /\ UNCHANGED vars
\* The state that the creation of the session broadcasts has no radar targets.
WithTargets == \A m \in smoke.heard : m.type = "battle_state_updated" => m.by # Creator
HeardAll == {m.type : m \in smoke.heard} = RequiredBattleWsEvents
\* Everything has come that ever will.
AllCame == /\ start[Connection] # HubOrder!NotJoined
           /\ start[Connection] + Len(received[Connection]) = Len(published)
\* Registered only after the report's broadcasts had begun.
Late == \E i \in DOMAIN published : published[i].by = SmokePost /\ i <= start[Connection]

\* Mutant: one event is enough.
HearEndsAny == /\ AtCheck("hear") /\ smoke.heard # {}
               /\ Checked(TRUE)
               /\ Same
\* All are there, there is nothing to wait for, or the deadline passes in vain.
HearEnds == /\ AtCheck("hear")
            /\ smoke.ws /\ smoke.session => HeardAll \/ AllCame
            /\ Checked(smoke.ws /\ smoke.session /\ HeardAll /\ WithTargets)
            /\ Same

\* The reads of the session, each judged on what the tables hold at that time.
Reads == \/ Judge("public reads", TRUE, TRUE)
         \/ Judge("reads", smoke.cookie, TRUE)
         \/ Judge("state", smoke.session /\ smoke.cookie,
                  /\ row # None
                  /\ \A k \in {"units", "targets"} : \E n \in RowNames : current[k][n] # None)
         \/ Judge("replay", smoke.session /\ smoke.cookie, row # None /\ snapshots # {})
         \/ Judge("report", smoke.session /\ smoke.cookie, row # None)
         \/ Judge("logout", TRUE, TRUE)

SmokeStep == \/ SmokeStart \/ Login \/ CheckFails \/ SendCreate \/ SendReport \/ CreateAnswered
             \/ ReportAnswered \/ Refused \/ Connects \/ Hears \/ HearEnds \/ Reads
=============================================================================
