----------------------------- MODULE Directory -----------------------------
(***************************************************************************)
(* The users directory and the access tokens under concurrent requests: a  *)
(* request is authenticated, authorized and served in separate reads of    *)
(* the store, and changes either table in a transaction unit under the     *)
(* directory's or the token owner's Lock Scope (src/auth.rs,               *)
(* src/pat_lifecycle.rs, src/me_api.rs, src/ipam_api.rs, the admin         *)
(* commands of src/ipam_cli.rs, src/ipam/bootstrap.rs).  Only units write  *)
(* the directory and the count of tokens is one read, so a unit's reads    *)
(* are one step.                                                           *)
(***************************************************************************)
EXTENDS UserMutations, PatLifecycle

CONSTANTS
    Callers,     \* requests in flight
    Requests,    \* what they ask
    MaxClock,    \* bound on time, in days
    MaxTouches   \* bound on the touches in flight

\* How a request proves who it is; the CLI and a starting server need not.
Methods == {"pat", "oidc", "bearer", "cli", "startup"}

Upserts == {"upsert", "disable", "enable"}

Request ==
    [method : Methods,
     kind : Kinds \cup Upserts \cup {"seed"},
     who : Emails \cup {NULL},    \* of a verified ID token
     token : PatIds \cup {NULL},  \* the bearer token
     email : Emails \cup {NULL},  \* whom an admin request is about
     role : Role \cup {NULL},     \* of the row, or asked for a token
     status : {"active", "disabled"},
     id : PatIds \cup {NULL}]     \* the token to revoke

ASSUME RequestsAssumption ==
    /\ Requests \subseteq Request /\ NULL \notin Request
    /\ \A r \in Requests :
        /\ r.method = "pat" <=> r.token # NULL
        /\ r.method = "oidc" <=> r.who # NULL
        /\ r.kind \in {"disable", "enable"} => r.method = "cli"
        /\ r.method = "cli" => r.kind \in Upserts \cup {"delete"}
        /\ r.kind = "seed" <=> r.method = "startup"
        /\ r.kind \in Upserts \cup {"delete"} => r.email # NULL
        /\ r.kind = "upsert" => r.role # NULL
        /\ r.kind = "revoke" => r.id # NULL

\* What a unit reads: of the directory, for the seed, of the tokens.
Snapshot ==
    [user : UserRecord \cup {NULL}, admins : Nat] \cup [marker : BOOLEAN, taken : SUBSET Emails]
    \cup [count : Nat] \cup [row : PersonalAccessToken \cup {NULL}]

VARIABLES
    users,    \* the directory: by email, a row or NULL
    pats,     \* the tokens: by id, a row or NULL
    issued,   \* ids of the tokens minted so far
    marker,   \* bootstrap_marker(USERS_ENV_SEED)
    clock,
    pc,       \* where each request is
    req,      \* the request, NULL when idle
    prin,     \* its principal: email and role
    start,    \* the time it last captured
    snap,     \* what its unit read
    touches,  \* spawned updates of last_used_at
    grounds   \* history: what a request has been entitled by since it came

store == <<users, pats, issued, marker>>
callers == <<pc, req, prin, start, snap>>
vars == <<store, clock, callers, touches, grounds>>

Nobody == [email |-> NULL, role |-> "reader"]

Init ==
    /\ users = [e \in Emails |-> NULL]
    /\ pats = [id \in PatIds |-> NULL]
    /\ issued = {} /\ touches = {}
    /\ marker = FALSE
    /\ clock = 0
    /\ pc = [c \in Callers |-> "idle"]
    /\ req = [c \in Callers |-> NULL]
    /\ prin = [c \in Callers |-> Nobody]
    /\ start = [c \in Callers |-> 0]
    /\ snap = [c \in Callers |-> NULL]
    /\ grounds = [c \in Callers |-> {}]

-----------------------------------------------------------------------------
(* What entitles a request, said of the tables as they are.                 *)

\* Its token is neither revoked nor expired.
TokenLives(c) == req[c].token # NULL => Active(pats[req[c].token], clock)

Roles(kind) ==
    CASE kind = "allocate" -> Role \ {"reader"}
      [] kind = "create" -> {"admin", "platform_admin"}
      [] kind \in {"upsert", "delete"} -> {"platform_admin"}
      [] OTHER -> Role

\* The row of the person is active and of a role that may do this, as is the
\* role of their token; without a row they are readers, where the directory is
\* open.  The static bearer is nobody's.
RoleSuffices(c) ==
    LET person == prin[c].email IN
    /\ req[c].token # NULL => prin[c].role \in Roles(req[c].kind)
    /\ IF person = NULL THEN req[c].method = "bearer" /\ open_mode
       ELSE IF users[person] = NULL THEN open_mode /\ "reader" \in Roles(req[c].kind)
       ELSE users[person].status = "active" /\ users[person].role \in Roles(req[c].kind)

Entitlements(c) ==
    {g \in {"token", "role"} :
        (g = "token" => TokenLives(c)) /\ (g = "role" => pc[c] # "lookup" /\ RoleSuffices(c))}

\* Noted until the gates are passed.
Observe ==
    grounds' = [c \in Callers |->
        IF pc'[c] \in {"lookup", "owner", "resolve"} THEN grounds[c] \cup Entitlements(c)'
        ELSE IF pc'[c] = "idle" THEN {} ELSE grounds[c]]

-----------------------------------------------------------------------------
(* Authentication and authorization.                                        *)

Goto(c, where) == pc' = [pc EXCEPT ![c] = where]

\* The request is answered, or given up.
Finish(c) ==
    /\ Goto(c, "idle")
    /\ req' = [req EXCEPT ![c] = NULL]
    /\ prin' = [prin EXCEPT ![c] = Nobody]
    /\ start' = [start EXCEPT ![c] = 0]
    /\ snap' = [snap EXCEPT ![c] = NULL]
    /\ UNCHANGED clock

\* Where a request starts: its token is looked up, its identity (a verified
\* ID token, the static bearer) is resolved, or it needs neither.
entry(r) ==
    CASE r.method = "pat" -> "lookup"
      [] r.method \in {"oidc", "bearer"} -> "resolve"
      [] r.kind \in {"disable", "enable"} -> "current"
      [] OTHER -> "queued"

Receive(c, r) ==
    /\ pc[c] = "idle"
    /\ r.token # NULL => r.token \in issued
    /\ r.id # NULL => r.id \in issued
    /\ Goto(c, entry(r))
    /\ req' = [req EXCEPT ![c] = r]
    /\ prin' = [prin EXCEPT ![c] = [email |-> r.who, role |-> "reader"]]
    /\ start' = [start EXCEPT ![c] = IF r.method = "pat" THEN clock ELSE 0]
    /\ UNCHANGED <<store, clock, snap, touches>>
    /\ Observe

\* pat_get_by_hash, with the time captured when the request came.
Lookup(c) ==
    /\ pc[c] = "lookup"
    /\ LET row == pats[req[c].token] IN
        IF Active(row, start[c])
        THEN /\ prin' = [prin EXCEPT ![c] = [email |-> row.owner, role |-> row.role]]
             /\ Goto(c, "owner")
             /\ UNCHANGED <<req, start, snap, clock>>
        ELSE Finish(c)
    /\ UNCHANGED <<store, touches>>
    /\ Observe

\* get_user of the owner; then the touch is spawned.
Owner(c) ==
    /\ pc[c] = "owner" /\ Cardinality(touches) < MaxTouches
    /\ IF owner_admitted(users, prin[c].email)
       THEN /\ touches' = touches \cup {[id |-> req[c].token, now |-> start[c]]}
            /\ Goto(c, "resolve")
            /\ start' = [start EXCEPT ![c] = 0]
            /\ UNCHANGED <<req, prin, snap, clock>>
       ELSE Finish(c) /\ UNCHANGED touches
    /\ UNCHANGED store
    /\ Observe

\* The role and the allowlist in one read, then the gates of the route.
Admitted(c) ==
    LET access == resolve_access(users, prin[c].email)
        role == resolved_role(req[c].method, prin[c].role, access.role)
    IN  access.allowed /\ require_oidc(req[c].method, req[c].kind) /\ check_role(role, req[c].kind)

Resolve(c) ==
    /\ pc[c] = "resolve" /\ Admitted(c)
    /\ LET role == resolved_role(req[c].method, prin[c].role,
                                 resolve_access(users, prin[c].email).role)
       IN  prin' = [prin EXCEPT ![c].role = role]
    /\ Goto(c, IF req[c].kind \in {"read", "allocate", "create"} THEN "served" ELSE "queued")
    /\ start' = [start EXCEPT ![c] = IF req[c].kind = "mint" THEN clock ELSE 0]
    /\ UNCHANGED <<store, clock, req, snap, touches>>
    /\ Observe

\* 401 or 403.
Refuse(c) ==
    /\ pc[c] = "resolve" /\ ~ Admitted(c)
    /\ Finish(c) /\ UNCHANGED <<store, touches>>
    /\ Observe

\* An operation of /ipam; its effects are those of TxUnits.
Serve(c) ==
    /\ pc[c] = "served"
    /\ Finish(c) /\ UNCHANGED <<store, touches>>
    /\ Observe

\* Mutant of Current: the role that is written is the request's own.
CurrentUnread(c) ==
    /\ pc[c] = "current"
    /\ IF users[req[c].email] = NULL THEN Finish(c)
       ELSE /\ req' = [req EXCEPT
                   ![c].status = IF req[c].kind = "disable" THEN "disabled" ELSE "active"]
            /\ Goto(c, "queued")
            /\ UNCHANGED <<prin, start, snap, clock>>
    /\ UNCHANGED <<store, touches>>
    /\ Observe

\* `admin user disable' and `enable' read the row, outside any unit, for the
\* role they then write.
Current(c) ==
    /\ pc[c] = "current"
    /\ IF users[req[c].email] = NULL THEN Finish(c)
       ELSE /\ req' = [req EXCEPT
                   ![c].role = users[req[c].email].role,
                   ![c].status = IF req[c].kind = "disable" THEN "disabled" ELSE "active"]
            /\ Goto(c, "queued")
            /\ UNCHANGED <<prin, start, snap, clock>>
    /\ UNCHANGED <<store, touches>>
    /\ Observe

-----------------------------------------------------------------------------
(* Transaction units.                                                       *)

\* The Lock Scope: the directory's, or the token owner's.
scope(c) == IF req[c].kind \in {"mint", "revoke"} THEN prin[c].email ELSE NULL

\* The reads a unit declares.
reads(c) ==
    LET r == req[c] IN
    CASE r.kind \in Upserts \cup {"delete"} -> directory_reads(users, r.email)
      [] r.kind = "seed" ->
            [marker |-> marker, taken |-> {e \in Emails : users[e] # NULL}]
      [] r.kind = "mint" -> [count |-> Cardinality(ActiveOf(pats, prin[c].email, start[c]))]
      [] r.kind = "revoke" -> [row |-> read_pat(pats, prin[c].email, r.id)]

\* Mutant of Load: the scope is not exclusive.
LoadShared(c) ==
    /\ pc[c] = "queued"
    /\ snap' = [snap EXCEPT ![c] = reads(c)]
    /\ Goto(c, "loaded")
    /\ UNCHANGED <<store, clock, req, prin, start, touches>>
    /\ Observe

Load(c) ==
    /\ pc[c] = "queued"
    /\ \A d \in Callers : pc[d] = "loaded" => scope(d) # scope(c)
    /\ snap' = [snap EXCEPT ![c] = reads(c)]
    /\ Goto(c, "loaded")
    /\ UNCHANGED <<store, clock, req, prin, start, touches>>
    /\ Observe

Deciding(c, kinds) == pc[c] = "loaded" /\ req[c].kind \in kinds

Upsert(c) ==
    /\ Deciding(c, Upserts) /\ UpsertAccepts(snap[c], req[c], prin[c].email)
    /\ users' = Upserted(users, snap[c], req[c])
    /\ Finish(c) /\ UNCHANGED <<pats, issued, marker, touches>>
    /\ Observe

Delete(c) ==
    /\ Deciding(c, {"delete"}) /\ DeleteAccepts(snap[c], req[c], prin[c].email)
    /\ users' = Deleted(users, req[c])
    /\ Finish(c) /\ UNCHANGED <<pats, issued, marker, touches>>
    /\ Observe

\* Mutant of SeedUsers: the marker is not looked at.
SeedAgain(c) ==
    /\ Deciding(c, {"seed"})
    /\ users' = Seeded(users, snap[c].taken)
    /\ marker' = TRUE
    /\ Finish(c) /\ UNCHANGED <<pats, issued, touches>>
    /\ Observe

SeedUsers(c) ==
    /\ Deciding(c, {"seed"})
    /\ ~ snap[c].marker
    /\ users' = Seeded(users, snap[c].taken)
    /\ marker' = TRUE
    /\ Finish(c) /\ UNCHANGED <<pats, issued, touches>>
    /\ Observe

\* mint_for_principal: the role is fixed by the principal, before the unit.
Mint(c) ==
    /\ Deciding(c, {"mint"}) /\ MintAccepts(snap[c].count)
    /\ \E id \in PatIds \ issued, days \in Days :
        /\ pats' = [pats EXCEPT ![id] =
               Minted(prin[c].email, mint_role(req[c].role, prin[c].role), start[c], days)]
        /\ issued' = issued \cup {id}
    /\ Finish(c) /\ UNCHANGED <<users, marker, touches>>
    /\ Observe

Revoke(c) ==
    /\ Deciding(c, {"revoke"}) /\ RevokeAccepts(snap[c].row)
    /\ pats' = IF pats[req[c].id] = NULL THEN pats
               ELSE [pats EXCEPT ![req[c].id].revoked = TRUE]
    /\ Finish(c) /\ UNCHANGED <<users, issued, marker, touches>>
    /\ Observe

\* The decision is an error, or that nothing changes.
Reject(c) ==
    /\ pc[c] = "loaded"
    /\ CASE req[c].kind \in Upserts -> ~ UpsertAccepts(snap[c], req[c], prin[c].email)
         [] req[c].kind = "delete" -> ~ DeleteAccepts(snap[c], req[c], prin[c].email)
         [] req[c].kind = "seed" -> snap[c].marker
         [] req[c].kind = "mint" -> ~ MintAccepts(snap[c].count)
         [] req[c].kind = "revoke" -> ~ RevokeAccepts(snap[c].row)
    /\ Finish(c) /\ UNCHANGED <<store, touches>>
    /\ Observe

\* A read or a write of the store fails, the scope or a connection is not had
\* in time, or the caller goes away: the unit is rolled back, access denied.
Abandon(c) ==
    /\ pc[c] # "idle"
    /\ Finish(c) /\ UNCHANGED <<store, touches>>
    /\ Observe

-----------------------------------------------------------------------------
(* Outside requests.                                                        *)

\* A spawned touch runs, or is lost.
Touch(touch) ==
    /\ touch \in touches
    /\ \/ pats' = Touched(pats, touch)
       \/ pats' = pats
    /\ touches' = touches \ {touch}
    /\ UNCHANGED <<users, issued, marker, clock, callers>>
    /\ Observe

\* pat_reap_expired, with the time at which the sweep began.
Reap(before) ==
    /\ pats' = Reaped(pats, before)
    /\ UNCHANGED <<users, issued, marker, clock, callers, touches>>
    /\ Observe

Tick ==
    /\ clock < MaxClock
    /\ clock' = clock + 1
    /\ UNCHANGED <<store, callers, touches>>
    /\ Observe

Authorize(c) == Lookup(c) \/ Owner(c) \/ Resolve(c) \/ Refuse(c) \/ Serve(c) \/ Current(c)
Unit(c) == Load(c) \/ Upsert(c) \/ Delete(c) \/ SeedUsers(c) \/ Mint(c) \/ Revoke(c) \/ Reject(c)

Next ==
    \/ \E c \in Callers :
        (\E r \in Requests : Receive(c, r)) \/ Authorize(c) \/ Unit(c) \/ Abandon(c)
    \/ \E touch \in touches : Touch(touch)
    \/ \E before \in 0 .. clock : Reap(before)
    \/ Tick

Spec == Init /\ [][Next]_vars

-----------------------------------------------------------------------------
(* Properties.                                                              *)

\* Type invariant: rows have their columns, only minted tokens have one, and a
\* request is held exactly while its caller is not idle.
TypeOK ==
    /\ users \in [Emails -> UserRecord \cup {NULL}]
    /\ pats \in [PatIds -> PersonalAccessToken \cup {NULL}]
    /\ issued \subseteq PatIds /\ \A id \in PatIds \ issued : pats[id] = NULL
    /\ marker \in BOOLEAN /\ clock \in Nat
    /\ pc \in [Callers -> {"idle", "lookup", "owner", "resolve", "served", "current",
                           "queued", "loaded"}]
    /\ req \in [Callers -> Request \cup {NULL}]
    /\ prin \in [Callers -> [email : Emails \cup {NULL}, role : Role]]
    /\ start \in [Callers -> 0 .. clock]
    /\ snap \in [Callers -> Snapshot \cup {NULL}]
    /\ touches \subseteq [id : PatIds, now : 0 .. clock]
    /\ grounds \in [Callers -> SUBSET {"token", "role"}]
    /\ \A c \in Callers : pc[c] = "idle" <=> req[c] = NULL

\* A directory with an active platform admin is never left without one, by
\* whatever admins, CLI and seed do at once (users.rs:17, the rule "nothing may
\* leave zero active platform admins").
AdminRemains ==
    [][ActivePlatformAdmins(users) # {} => ActivePlatformAdmins(users)' # {}]_vars

\* An owner never holds more live tokens than the limit, although units count
\* with a time they captured earlier and tokens expire meanwhile.
TokenLimit == \A owner \in Emails : Cardinality(ActiveOf(pats, owner, clock)) <= Limit

\* The seed adds its rows in one step, once per database, and leaves the rows
\* that are there as they are, although several servers start together.
SeedsOnce ==
    [][/\ marker => marker'
       /\ \A e \in Emails :
            users'[e] # NULL /\ users'[e].created_by = "bootstrap" /\ users'[e] # users[e]
            => IF users[e] = NULL THEN ~ marker /\ marker'
               ELSE users[e].created_by = "bootstrap" /\ marker]_vars

\* A request that was let through had, at some instant since it came, a live
\* token and, at some instant, a person whose row and token allow what it does:
\* neither a revocation, a demotion or a disabling before it came, nor reads
\* taken at different times, let anything else through.
ServedOnGrounds ==
    \A c \in Callers :
        req[c] # NULL /\ req[c].method \in {"pat", "oidc", "bearer"}
            /\ pc[c] \in {"served", "queued", "loaded"}
        => grounds[c] = {"token", "role"}

\* A token keeps its owner, role and expiry; once revoked it stays so, however
\* late a last_used_at is written; only its owner revokes it, and only an
\* expired one is reaped.
TokenFate ==
    [][\A id \in issued :
        IF pats'[id] = NULL THEN pats[id] # NULL => pats[id].expires_at < clock
        ELSE /\ pats[id] # NULL
             /\ \A col \in {"owner", "role", "expires_at"} : pats'[id][col] = pats[id][col]
             /\ pats[id].revoked => pats'[id].revoked
             /\ pats'[id].revoked /\ ~ pats[id].revoked
                => \E c \in Callers :
                       Deciding(c, {"revoke"}) /\ prin[c].email = pats[id].owner]_vars

Contract == INSTANCE PlatformContract WITH
    People <- Emails, Tokens <- PatIds, Most <- Limit,
    admins <- ActivePlatformAdmins(users), seeded <- marker,
    live <- [owner \in Emails |-> ActiveOf(pats, owner, clock)]

\* The requests, locks and clocks of the server implement the contract: each
\* step that changes who administers the platform or which tokens live is one
\* appointment, one seed, one mint, or tokens ending.
ContractSpec == Contract!Spec
=============================================================================
