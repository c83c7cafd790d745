------------------------------ MODULE Contracts ------------------------------
(***************************************************************************)
(* The contract checks of scripts/check_*.py as state functions of the     *)
(* working tree t: a check passes on t, or it ends with exit code 1 (or by *)
(* an exception, which is the same to who runs it).  The scripts read the  *)
(* sources with patterns; t holds what they find there, already parsed.    *)
(*                                                                         *)
(*   t.aliases   handlers.go: role alias -> arguments of RequireRoles      *)
(*   t.routes    handlers.go: registered route -> its alias, or NoAlias    *)
(*   t.openapi   docs/openapi.yaml: route -> operation                     *)
(*   t.matrix    docs/rbac_matrix.yaml: roles, rest, frontend              *)
(*   t.pages     App.tsx: page -> roles                                    *)
(*   t.calls     frontend/src/api/client.ts: the routes of its requests    *)
(*   t.emits, t.union, t.handled, t.documented, t.smoked   event types in  *)
(*               the backend, types.ts, App.tsx, README.md, smoke_check.py *)
(*   t.tags, t.sample      payload structs: Go tags; fields of the sample  *)
(*   t.services, t.docker, t.headers, t.ignored, t.example  compose file,  *)
(*               Dockerfiles, nginx.conf, .dockerignore and .env.example   *)
(***************************************************************************)
EXTENDS Sequences, SequencesExt

CONSTANTS Roles, SuperAdmin,  \* ROLES of the matrix, and the one that may do everything
          AuthRoutes, Logout, \* login and logout need no token
          Mutating,           \* routes whose method is post, put, patch or delete
          BodyRequired, BodyOptional, Parameters, Responses,  \* tables by route
          WsEvents, Heartbeat, SmokeEvents,
          Payload, OptionalFields,  \* by payload struct
          Env,                \* Env[s]: variables that service s must receive
          FrontendHeaders, IgnorePatterns,
          NoAlias, NoObject

ASSUME ContractsAssumption == /\ SuperAdmin \in Roles
                              /\ Logout \in AuthRoutes
                              /\ Heartbeat \in WsEvents
                              /\ SmokeEvents \subseteq WsEvents

(***************************************************************************)
(* check_openapi_contract.py and check_rbac_matrix.py                      *)
(***************************************************************************)
AliasRoles(t, a) == IF t.aliases[a] = {} THEN {SuperAdmin} ELSE t.aliases[a]
Guarded(t) == {r \in DOMAIN t.routes : t.routes[r] # NoAlias}
KnownAliases(t) == \A r \in Guarded(t) : t.routes[r] \in DOMAIN t.aliases
\* The pattern sees a route only when an alias stands before its handler.
HandlerRbac(t) == [r \in Guarded(t) |-> AliasRoles(t, t.routes[r])]

AccessOk(t, r) ==
    LET op == t.openapi[r] IN
    IF r \in AuthRoutes THEN op.roles = {} /\ op.security = "public"
    ELSE op.roles = HandlerRbac(t)[r] /\ op.security # "public" /\ op.roles # {}

BodyOk(r, body) == \/ r \in BodyRequired /\ body = "required"
                   \/ r \in BodyOptional
                   \/ r \notin BodyRequired \cup BodyOptional /\ body = "none"

ResponsesOk(r, responses) ==
    /\ Responses[r] \subseteq responses
    /\ r \notin AuthRoutes => {"401", "403"} \subseteq responses
    /\ r \in Mutating \ {Logout} => responses \cap {"400", "404", "502"} # {}

OpenapiPasses(t) ==
    /\ KnownAliases(t)
    /\ DOMAIN t.openapi = Guarded(t) \cup AuthRoutes
    /\ \A r \in DOMAIN t.openapi :
          /\ AccessOk(t, r)
          /\ t.openapi[r].roles \subseteq t.matrix.roles
          /\ BodyOk(r, t.openapi[r].body)
          /\ t.openapi[r].parameters = Parameters[r]
          /\ ResponsesOk(r, t.openapi[r].responses)

RbacPasses(t) ==
    /\ KnownAliases(t)
    /\ t.matrix.rest = HandlerRbac(t)
    /\ t.matrix.frontend = t.pages
    /\ t.matrix.roles = Roles
    /\ \A r \in DOMAIN t.matrix.rest : t.matrix.rest[r] \subseteq Roles
    /\ \A p \in DOMAIN t.matrix.frontend : t.matrix.frontend[p] \subseteq Roles

(***************************************************************************)
(* check_frontend_api_contract.py, check_event_contract.py and             *)
(* check_callback_contract.py                                              *)
(***************************************************************************)
FrontendPasses(t) == t.calls \subseteq DOMAIN t.openapi

EventsPass(t) == /\ t.emits = WsEvents
                 /\ t.union = WsEvents
                 /\ t.handled = WsEvents \ {Heartbeat}
                 /\ WsEvents \subseteq t.documented
                 /\ SmokeEvents \subseteq t.smoked

\* Mutant: fields that the backend does not know are let through.
CallbackPassesMissingOnly(t) ==
    \A s \in DOMAIN Payload : t.tags[s] = Payload[s] /\ t.sample[s] # NoObject
                              /\ Payload[s] \ OptionalFields[s] \subseteq t.sample[s]

CallbackPasses(t) ==
    \A s \in DOMAIN Payload :
       /\ t.tags[s] = Payload[s]
       /\ t.sample[s] # NoObject
       /\ Payload[s] \ OptionalFields[s] \subseteq t.sample[s]
       /\ t.sample[s] \subseteq Payload[s]

(***************************************************************************)
(* check_compose_config.py                                                 *)
(***************************************************************************)
RequiredServices == {"postgres", "backend", "analytics", "frontend"}
Waits == {<<"frontend", "backend">>, <<"analytics", "backend">>, <<"backend", "postgres">>}

\* A digest without a tag will do; the tag latest never does.  A service that
\* is built names no image.
Pinned(image) == \/ image.name \in {"", "scratch"}
                 \/ image.tag # "latest" /\ (image.tag # "" \/ image.digest)

\* The user of the last stage: a FROM forgets the one before it.
RuntimeUserOk(instructions) ==
    LET stage == SelectSeq(instructions, LAMBDA i : i.op \in {"FROM", "USER"})
    IN stage # <<>> /\ Last(stage).op = "USER" /\ Last(stage).arg \notin {"0", "root"}
DockerOk(instructions) ==
    /\ RuntimeUserOk(instructions)
    /\ \A i \in ToSet(instructions) : i.op = "FROM" => Pinned(i.arg)

\* An entry of depends_on has a condition, or the short form (an item of a list, or a value
\* that is no mapping), which names none and is let through.
DependsOnHealthy(t, s, dep) ==
    dep \in DOMAIN t.services[s].needs /\ t.services[s].needs[dep] \in {"service_healthy", "short"}

ComposePasses(t) ==
    /\ RequiredServices \subseteq DOMAIN t.services
    /\ \A s \in RequiredServices : t.services[s].healthcheck /\ Pinned(t.services[s].image)
    /\ \A s \in DOMAIN Env : Env[s] \subseteq t.services[s].env
    /\ \A w \in Waits : DependsOnHealthy(t, w[1], w[2])
    /\ \A s \in DOMAIN t.docker : DockerOk(t.docker[s])
    /\ FrontendHeaders \subseteq t.headers
    /\ IgnorePatterns \subseteq t.ignored
    /\ UNION {Env[s] : s \in DOMAIN Env} \subseteq t.example

\* What a contract check of preflight says of the tree t.
Passes(check, t) == CASE check = "openapi-contract" -> OpenapiPasses(t)
                      [] check = "rbac-matrix" -> RbacPasses(t)
                      [] check = "frontend-api-contract" -> FrontendPasses(t)
                      [] check = "event-contract" -> EventsPass(t)
                      [] check = "callback-contract" -> CallbackPasses(t)
                      [] check = "compose" -> ComposePasses(t)
ContractChecks == {"compose", "event-contract", "callback-contract", "openapi-contract",
                   "frontend-api-contract", "rbac-matrix"}

(***************************************************************************)
(* What the scripts are there to guarantee, stated on the program instead  *)
(* of on its documents and tables, which are what they compare it with:    *)
(* each of these follows from several comparisons, the first from those of *)
(* three scripts.                                                          *)
(***************************************************************************)
\* RequireRoles (auth.go) lets the super admin in whatever its arguments.
Admits(t, r) == t.aliases[t.routes[r]] \cup {SuperAdmin}

\* What the frontend calls is registered, with the roles it is published with.
CallsServed(t) == \A r \in t.calls \ AuthRoutes :
                     /\ r \in Guarded(t)
                     /\ Admits(t, r) = t.openapi[r].roles \cup {SuperAdmin}
                     /\ Admits(t, r) = t.matrix.rest[r] \cup {SuperAdmin}
\* No page and no route is open to a role that does not exist.
RolesExist(t) == /\ \A r \in Guarded(t) : Admits(t, r) \subseteq Roles
                 /\ \A p \in DOMAIN t.pages : t.pages[p] \subseteq Roles
\* What the backend sends, the frontend has a type and, heartbeats apart, a handler for.
EventsHandled(t) == t.emits \subseteq t.union /\ t.emits \ {Heartbeat} \subseteq t.handled
\* The backend decodes every field that the simulator sends.
PayloadDecoded(t) == \A s \in DOMAIN Payload : t.sample[s] \subseteq t.tags[s]
\* Behind a frontend or analytics service is the database, and on the way to it every
\* condition that the compose file names asks for health.  The short form only orders the
\* starts: a file that uses it has not said that anybody waits for a healthy database.
DatabaseFirst(t) ==
    \A s \in {"frontend", "analytics"} :
       \E b \in DOMAIN t.services[s].needs :
          LET needed == t.services[b].needs
          IN /\ "postgres" \in DOMAIN needed
             /\ \A link \in {t.services[s].needs[b], needed["postgres"]} :
                   link # "short" => link = "service_healthy"

ContractsHold(t) == /\ CallsServed(t)
                    /\ RolesExist(t)
                    /\ EventsHandled(t)
                    /\ PayloadDecoded(t)
                    /\ DatabaseFirst(t)
=============================================================================
