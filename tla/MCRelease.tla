------------------------------ MODULE MCRelease ------------------------------
(* The release scripts on a program with two routes, two roles, two events *)
(* and one payload, in working trees that break one or two contracts.      *)
EXTENDS Release, TLC

CONSTANTS login, ships, viewer, admin, scan, beat, id, hp, header, secrets, token, pages

TwoRoutes == (login :> {}) @@ (ships :> {id})
NeededResponses == (login :> {"200"}) @@ (ships :> {"200", "404"})
TheEnv == [backend |-> {token}, analytics |-> {token}]
ThePayload == [radar |-> {id, hp}]
NoOptional == [radar |-> {hp}]

Operation(roles, security, body, parameters, responses) ==
    [roles |-> roles, security |-> security, body |-> body, parameters |-> parameters, responses |-> responses]
LoginOp == Operation({}, "public", "required", {}, {"200", "400"})
ShipsOp(roles) == Operation(roles, "inherit", "none", {id}, {"200", "401", "403", "404"})
Service(needs) == [healthcheck |-> TRUE, image |-> [name |-> "", tag |-> "", digest |-> FALSE],
                   env |-> {token}, needs |-> needs]
Healthy(s) == s :> "service_healthy"
Compose(needs) == [postgres |-> Service(<<>>), backend |-> Service(needs),
                   analytics |-> Service(Healthy("backend")), frontend |-> Service(Healthy("backend"))]
Image(tag) == [op |-> "FROM", arg |-> [name |-> "go", tag |-> tag, digest |-> FALSE]]
User(u) == [op |-> "USER", arg |-> u]

\* The tree as it is, and what may be wrong with each part of it.
Good == [aliases |-> ("viewers" :> {viewer}) @@ ("admins" :> {}),
         routes |-> (login :> NoAlias) @@ (ships :> "viewers"),
         openapi |-> (login :> LoginOp) @@ (ships :> ShipsOp({viewer})),
         matrix |-> [roles |-> {viewer, admin}, rest |-> ships :> {viewer}, frontend |-> pages :> {viewer}],
         pages |-> pages :> {viewer},
         calls |-> {login, ships},
         emits |-> {scan, beat}, union |-> {scan, beat}, handled |-> {scan},
         documented |-> {scan, beat}, smoked |-> {scan},
         tags |-> [radar |-> {id, hp}], sample |-> [radar |-> {id, hp}],
         services |-> Compose(Healthy("postgres")),
         docker |-> [backend |-> <<Image("1.24"), User("root"), Image("3.20"), User("app")>>],
         headers |-> {header}, ignored |-> {secrets}, example |-> {token}]
Wrong == [aliases |-> {("viewers" :> {viewer, admin}) @@ ("admins" :> {}), "admins" :> {}},
          routes |-> {login :> NoAlias, (login :> NoAlias) @@ (ships :> "admins")},
          openapi |-> {login :> LoginOp, (login :> LoginOp) @@ (ships :> ShipsOp({viewer, admin}))},
          matrix |-> {[Good.matrix EXCEPT !.rest = <<>>], [Good.matrix EXCEPT !.frontend = pages :> {"nobody"}]},
          pages |-> {pages :> {"nobody"}},
          calls |-> {{ships, "other"}},
          emits |-> {{scan}}, union |-> {{beat}}, handled |-> {{}},
          tags |-> {[radar |-> {id}]}, sample |-> {[radar |-> {id, hp, "other"}], [radar |-> NoObject], [radar |-> {id}]},
          services |-> {Compose("postgres" :> "service_started"), Compose("postgres" :> "short")},
          docker |-> {[backend |-> <<Image("1.24"), User("app"), Image("3.20")>>], [backend |-> <<Image("latest"), User("app")>>]}]
OneWrong == UNION {{[Good EXCEPT ![f] = v] : v \in Wrong[f]} : f \in DOMAIN Wrong}
\* Two parts that are wrong in the same way can hide from a check that compares them.
Both(f, v, g, w) == [[Good EXCEPT ![f] = v] EXCEPT ![g] = w]
SomeTrees == {Good} \cup OneWrong \cup
             {Both("matrix", [Good.matrix EXCEPT !.frontend = pages :> {"nobody"}], "pages", pages :> {"nobody"}),
              Both("routes", login :> NoAlias, "openapi", login :> LoginOp),
              Both("tags", [radar |-> {id}], "sample", [radar |-> {id}]),
              Both("emits", {scan}, "union", {scan})}

SomeArgs == {DefaultArgs,
             [only |-> <<>>, include |-> {"backup-restore-drill", "runtime-smoke"}, dsn |-> FALSE],
             [only |-> <<"db-integration", "rbac-matrix">>, include |-> {}, dsn |-> TRUE],
             [only |-> <<"db-integration">>, include |-> {}, dsn |-> FALSE]}
SomeChoices == {{"migration-status", "backup-restore-drill"}, {"db-integration"},
                {"frontend-e2e", "smoke-check"}}
TwoKeeps == {{}, {"database", "artifacts"}}
TwoTrees == {Good, [Good EXCEPT !.calls = {ships, "other"}]}
==============================================================================
