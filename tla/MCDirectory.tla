---------------------------- MODULE MCDirectory ----------------------------
(***************************************************************************)
(* Instances of Directory for TLC: three requests in flight on the        *)
(* directory, or two on tokens; two people, seeded as platform admins; two *)
(* tokens, three days.                                                     *)
(***************************************************************************)
EXTENDS Directory, TLC

CONSTANTS a, b

Symmetry == Permutations(PatIds) \cup Permutations(Callers)

MCConfig ==
    [mode |-> "open", admin |-> {a}, allocator |-> {}, reader |-> {}, allowed |-> {a}]

Ask(method, kind) ==
    [method |-> method, kind |-> kind, who |-> NULL, token |-> NULL, email |-> NULL,
     role |-> NULL, status |-> "active", id |-> NULL]

\* Everything asked of the directory.
Administer ==
    {Ask("startup", "seed"),
     [Ask("cli", "upsert") EXCEPT !.email = b, !.role = "platform_admin"],
     [Ask("cli", "disable") EXCEPT !.email = b],
     [Ask("cli", "enable") EXCEPT !.email = b],
     [Ask("oidc", "upsert") EXCEPT !.who = a, !.email = b, !.role = "reader"],
     [Ask("oidc", "upsert") EXCEPT !.who = b, !.email = a, !.role = "allocator"],
     [Ask("oidc", "delete") EXCEPT !.who = b, !.email = a],
     [Ask("oidc", "delete") EXCEPT !.who = b, !.email = b],
     [Ask("oidc", "delete") EXCEPT !.who = a, !.email = b],
     [Ask("cli", "delete") EXCEPT !.email = a],
     [Ask("bearer", "delete") EXCEPT !.email = b]}

\* Two people who are seeded, in closed mode, their tokens, and one of them disabled.
MCPair == [MCConfig EXCEPT !.mode = NULL, !.admin = {a, b}, !.allowed = {a, b}]

Tokens ==
    {Ask("startup", "seed"),
     [Ask("cli", "disable") EXCEPT !.email = b],
     [Ask("oidc", "mint") EXCEPT !.who = b, !.role = "platform_admin"]}
    \cup {[Ask("oidc", "revoke") EXCEPT !.who = p, !.id = t] : p \in {a, b}, t \in PatIds}
    \cup {[Ask("pat", "create") EXCEPT !.token = t] : t \in PatIds}
    \cup {[Ask("pat", "upsert") EXCEPT !.token = t, !.email = b, !.role = "reader"] : t \in PatIds}
=============================================================================
