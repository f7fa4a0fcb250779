-------------------------- MODULE DirectoryProofs --------------------------
(***************************************************************************)
(* What Directory promises, for any number of callers, people and tokens,  *)
(* any requests and any configuration: its types, that an admin remains,   *)
(* that the seed runs once, the limit and the fate of tokens, that nothing *)
(* is let through without grounds, and that it implements PlatformContract.*)
(***************************************************************************)
EXTENDS Directory, FiniteSetTheorems, TLAPS

-----------------------------------------------------------------------------
(* The inductive invariant.                                                 *)

\* What RequestsAssumption says of one request, and that its tokens exist.
WellFormed(r) ==
    /\ r.method = "pat" <=> r.token # NULL
    /\ r.method = "oidc" <=> r.who # NULL
    /\ r.kind \in {"disable", "enable"} => r.method = "cli"
    /\ r.method = "cli" => r.kind \in Upserts \cup {"delete"}
    /\ r.kind = "seed" <=> r.method = "startup"
    /\ r.kind \in Upserts \cup {"delete"} => r.email # NULL
    /\ r.kind = "upsert" => r.role # NULL
    /\ r.kind = "revoke" => r.id # NULL
    /\ r.token # NULL => r.token \in issued
    /\ r.id # NULL => r.id \in issued

\* Where a request may be, and who is asking.
Placed(c) ==
    /\ pc[c] \in {"lookup", "owner"} => req[c].method = "pat"
    /\ pc[c] = "resolve" => req[c].method \in {"pat", "oidc", "bearer"}
    /\ pc[c] = "current" => req[c].kind \in {"disable", "enable"}
    /\ pc[c] \in {"queued", "loaded"} =>
        /\ req[c].kind \in Upserts \cup {"delete", "seed", "mint", "revoke"}
        /\ req[c].kind \in {"mint", "revoke"} => req[c].method = "oidc"
        /\ req[c].kind \in Upserts => req[c].role # NULL
    /\ req[c].method = "oidc" => prin[c].email = req[c].who
    /\ req[c].method = "pat" /\ pc[c] # "lookup" => prin[c].email # NULL

\* What a unit has read is so until it is over: the directory as it was, no
\* more tokens of its owner than it counted, the token of its owner.
Sure(c) ==
    LET r == req[c] IN
    /\ r.kind \in Upserts \cup {"delete"} => snap[c] = directory_reads(users, r.email)
    /\ r.kind = "seed" =>
        snap[c] = [marker |-> marker, taken |-> {e \in Emails : users[e] # NULL}]
    /\ r.kind = "mint" =>
        /\ snap[c].count \in Nat
        /\ Cardinality(ActiveOf(pats, prin[c].email, start[c])) <= snap[c].count
    /\ r.kind = "revoke" =>
        snap[c].row = NULL \/ pats[r.id] = NULL \/ pats[r.id].owner = prin[c].email

\* A scope has one holder.
Exclusive ==
    \A c, d \in Callers : pc[c] = "loaded" /\ pc[d] = "loaded" /\ c # d => scope(c) # scope(d)

\* What entitles a request has been noted, and what it passed was.
Noted(c) ==
    /\ pc[c] \in {"lookup", "owner", "resolve"} => Entitlements(c) \subseteq grounds[c]
    /\ pc[c] = "lookup" /\ Active(pats[req[c].token], start[c]) => "token" \in grounds[c]
    /\ pc[c] \in {"owner", "resolve"} => "token" \in grounds[c]
    /\ req[c].method \in {"pat", "oidc", "bearer"} /\ pc[c] \in {"served", "queued", "loaded"}
        => grounds[c] = {"token", "role"}

CallerInv(c) ==
    req[c] # NULL =>
        WellFormed(req[c]) /\ Placed(c) /\ (pc[c] = "loaded" => Sure(c)) /\ Noted(c)

\* Rows of the seed are there only once it ran.
Marked == \A e \in Emails : users[e] # NULL /\ users[e].created_by = "bootstrap" => marker

IInv ==
    /\ TypeOK /\ Exclusive /\ Marked /\ TokenLimit
    /\ \A c \in Callers : CallerInv(c)

-----------------------------------------------------------------------------
(* What every step may do.                                                  *)

Gates == {"lookup", "owner", "resolve"}

Waits(d) ==
    /\ pc'[d] = pc[d] /\ req'[d] = req[d] /\ prin'[d] = prin[d]
    /\ start'[d] = start[d] /\ snap'[d] = snap[d]

OthersWait(c) == \A d \in Callers \ {c} : Waits(d)

\* The fate of a token: see TokenFate.
Fated ==
    /\ issued \subseteq issued'
    /\ \A id \in issued :
        pats'[id] = NULL \/
            /\ pats[id] # NULL
            /\ pats'[id].owner = pats[id].owner /\ pats'[id].role = pats[id].role
            /\ pats'[id].expires_at = pats[id].expires_at
            /\ pats[id].revoked => pats'[id].revoked

NoMore(owner) == \A t \in Nat : ActiveOf(pats', owner, t) \subseteq ActiveOf(pats, owner, t)

\* A step leaves what the unit of d has read as it read it.
Untouched(d) ==
    pc[d] = "loaded" =>
        /\ scope(d) = NULL => users' = users /\ marker' = marker
        /\ scope(d) # NULL => NoMore(scope(d))

Spared(c) == \A d \in Callers \ {c} : Untouched(d)

(* What a step notes.                                                       *)
LEMMA ObserveNotes ==
    ASSUME grounds \in [Callers -> SUBSET {"token", "role"}], Observe
    PROVE  /\ grounds' \in [Callers -> SUBSET {"token", "role"}]
           /\ \A d \in Callers :
                /\ pc'[d] \in Gates =>
                    Entitlements(d)' \subseteq grounds'[d] /\ grounds[d] \subseteq grounds'[d]
                /\ pc'[d] \notin Gates /\ pc'[d] # "idle" => grounds'[d] = grounds[d]
<1> DEFINE E(d) == Entitlements(d)'
<1>1. \A d \in Callers : E(d) \subseteq {"token", "role"}  BY DEF Entitlements
<1>2. grounds' = [d \in Callers |->
        IF pc'[d] \in Gates THEN grounds[d] \cup E(d)
        ELSE IF pc'[d] = "idle" THEN {} ELSE grounds[d]]
    BY DEF Observe, Gates
<1> HIDE DEF E
<1>3. /\ grounds' \in [Callers -> SUBSET {"token", "role"}]
      /\ \A d \in Callers :
           /\ pc'[d] \in Gates => E(d) \subseteq grounds'[d] /\ grounds[d] \subseteq grounds'[d]
           /\ pc'[d] \notin Gates /\ pc'[d] # "idle" => grounds'[d] = grounds[d]
    BY <1>1, <1>2
<1> QED BY <1>3 DEF E

(* Fewer live tokens are not more of them.                                  *)
LEMMA ActiveFinite ==
    ASSUME NEW rows, NEW owner, NEW t
    PROVE  /\ IsFiniteSet(ActiveOf(rows, owner, t))
           /\ Cardinality(ActiveOf(rows, owner, t)) \in Nat
           /\ \A S \in SUBSET ActiveOf(rows, owner, t) :
                Cardinality(S) \in Nat /\ Cardinality(S) <= Cardinality(ActiveOf(rows, owner, t))
<1>1. ActiveOf(rows, owner, t) \subseteq PatIds  BY DEF ActiveOf
<1>2. IsFiniteSet(ActiveOf(rows, owner, t))  BY <1>1, PatIdsAssumption, FS_Subset
<1>3. \A S \in SUBSET ActiveOf(rows, owner, t) : IsFiniteSet(S)  BY <1>2, FS_Subset
<1> QED BY <1>2, <1>3, FS_Subset, FS_CardinalityType

(* The unit of another stays sure.                                          *)
LEMMA SureKept ==
    ASSUME IInv, TypeOK', Fated, NEW d \in Callers, Waits(d), Untouched(d), pc[d] = "loaded"
    PROVE  Sure(d)'
<1> DEFINE r == req[d]
<1>1. /\ r # NULL /\ WellFormed(r) /\ Placed(d) /\ Sure(d) /\ req'[d] = r
      /\ prin'[d] = prin[d] /\ start'[d] = start[d] /\ snap'[d] = snap[d]
      /\ start[d] \in Nat /\ r \in Request /\ prin[d].email \in Emails \cup {NULL}
    BY DEF IInv, TypeOK, CallerInv, Waits
<1>2. CASE r.kind \in Upserts \cup {"delete", "seed"}
  <2>1. users' = users /\ marker' = marker  BY <1>1, <1>2 DEF Untouched, scope, Upserts
  <2>2. r.kind \notin {"mint", "revoke"}  BY <1>2 DEF Upserts
  <2>3. directory_reads(users, r.email)' = directory_reads(users, r.email)
      BY <1>1, <2>1 DEF directory_reads, ActivePlatformAdmins, IsPlatformAdmin
  <2> QED BY <1>1, <2>1, <2>2, <2>3 DEF Sure
<1>3. CASE r.kind = "mint"
  <2> DEFINE owner == prin[d].email
  <2>1. owner \in Emails /\ owner # NULL
      BY <1>1, <1>3, NullAssumption DEF Placed, WellFormed, Request
  <2>2. scope(d) = owner  BY <1>3 DEF scope
  <2>3. ActiveOf(pats', owner, start[d]) \subseteq ActiveOf(pats, owner, start[d])
      BY <1>1, <2>1, <2>2 DEF Untouched, NoMore
  <2>4. Cardinality(ActiveOf(pats', owner, start[d])) <= Cardinality(ActiveOf(pats, owner, start[d]))
      BY <2>3, ActiveFinite
  <2>5. snap[d].count \in Nat /\ Cardinality(ActiveOf(pats, owner, start[d])) <= snap[d].count
      BY <1>1, <1>3 DEF Sure
  <2>6. Cardinality(ActiveOf(pats', owner, start[d])) <= snap[d].count
      BY <2>3, <2>4, <2>5, ActiveFinite
  <2> QED BY <1>1, <1>3, <2>5, <2>6 DEF Sure, Upserts
<1>4. CASE r.kind = "revoke"
  <2>1. r.id \in issued  BY <1>1, <1>4 DEF WellFormed
  <2> QED BY <1>1, <1>4, <2>1 DEF Sure, Fated, Upserts
<1> QED BY <1>1, <1>2, <1>3, <1>4 DEF Placed

(* Another caller keeps its part of the invariant.                          *)
LEMMA CallerKept ==
    ASSUME IInv, TypeOK', Fated, Observe, NEW d \in Callers, Waits(d), Untouched(d)
    PROVE  CallerInv(d)'
<1> SUFFICES ASSUME req[d] # NULL  PROVE CallerInv(d)'
    BY DEF Waits, CallerInv
<1>1. /\ WellFormed(req[d]) /\ Placed(d) /\ Noted(d) /\ TypeOK
      /\ pc'[d] = pc[d] /\ req'[d] = req[d] /\ prin'[d] = prin[d] /\ start'[d] = start[d]
      /\ pc[d] # "idle"
    BY DEF IInv, CallerInv, Waits, TypeOK
<1>2. WellFormed(req[d])'  BY <1>1 DEF WellFormed, Fated
<1>3. Placed(d)'  BY <1>1 DEF Placed
<1>4. Noted(d)'
  <2>1. grounds \in [Callers -> SUBSET {"token", "role"}]  BY <1>1 DEF TypeOK
  <2>2. /\ pc'[d] \in Gates =>
             Entitlements(d)' \subseteq grounds'[d] /\ grounds[d] \subseteq grounds'[d]
        /\ pc'[d] \notin Gates /\ pc'[d] # "idle" => grounds'[d] = grounds[d]
      BY <2>1, ObserveNotes
  <2>3. pc[d] = "lookup" /\ Active(pats'[req[d].token], start[d])
            => Active(pats[req[d].token], start[d])
    <3> SUFFICES ASSUME pc[d] = "lookup", Active(pats'[req[d].token], start[d])
                 PROVE  Active(pats[req[d].token], start[d])
        OBVIOUS
    <3> DEFINE id == req[d].token
    <3>1. id \in issued  BY <1>1 DEF Placed, WellFormed
    <3>2. /\ pats'[id] # NULL /\ ~ pats'[id].revoked /\ pats'[id].expires_at > start[d]
        BY DEF Active
    <3> QED BY <3>1, <3>2 DEF Fated, Active
  <2> QED BY <1>1, <2>1, <2>2, <2>3 DEF Noted, Gates
<1>5. pc[d] = "loaded" => Sure(d)'  BY SureKept
<1> QED BY <1>1, <1>2, <1>3, <1>4, <1>5 DEF CallerInv
(* The invariant after a step of c, part by part.                           *)
LEMMA Assemble ==
    ASSUME IInv, TypeOK', NEW c \in Callers, OthersWait(c), Fated, Spared(c), Observe,
           CallerInv(c)', Marked', TokenLimit',
           pc'[c] = "loaded" =>
               \A d \in Callers \ {c} : pc[d] = "loaded" => scope(d) # scope(c)'
    PROVE  IInv'
<1>1. \A d \in Callers : CallerInv(d)'  BY CallerKept DEF OthersWait, Spared
<1>2. \A d \in Callers \ {c} : scope(d)' = scope(d) /\ pc'[d] = pc[d]
    BY DEF scope, OthersWait, Waits
<1>3. Exclusive'
  <2> SUFFICES ASSUME NEW d \in Callers, NEW e \in Callers,
                      pc'[d] = "loaded", pc'[e] = "loaded", d # e
               PROVE  scope(d)' # scope(e)'
      BY DEF Exclusive
  <2>1. CASE d # c /\ e # c  BY <1>2, <2>1 DEF IInv, Exclusive
  <2>2. CASE d = c \/ e = c  BY <1>2, <2>2
  <2> QED BY <2>1, <2>2
<1> QED BY <1>1, <1>3 DEF IInv

(* A step that leaves the store alone.                                      *)
LEMMA StoreStays ==
    ASSUME IInv, UNCHANGED <<store, clock>>
    PROVE  Fated /\ Marked' /\ TokenLimit' /\ \A c \in Callers : Spared(c)
<1>1. Fated  BY DEF IInv, TypeOK, store, Fated, PersonalAccessToken
<1>2. Marked'  BY DEF IInv, Marked, store
<1>3. TokenLimit'  BY DEF IInv, TokenLimit, ActiveOf, store
<1>4. \A c \in Callers : Spared(c)  BY DEF Spared, Untouched, NoMore, ActiveOf, store
<1> QED BY <1>1, <1>2, <1>3, <1>4

(* A request that ends, and what it leaves.                                 *)
LEMMA Ends ==
    ASSUME TypeOK, NEW c \in Callers, Finish(c)
    PROVE  /\ OthersWait(c) /\ pc'[c] = "idle" /\ CallerInv(c)' /\ clock' = clock
           /\ pc' \in [Callers -> {"idle", "lookup", "owner", "resolve", "served",
                                   "current", "queued", "loaded"}]
           /\ req' \in [Callers -> Request \cup {NULL}]
           /\ prin' \in [Callers -> [email : Emails \cup {NULL}, role : Role]]
           /\ start' \in [Callers -> 0 .. clock']
           /\ snap' \in [Callers -> Snapshot \cup {NULL}]
           /\ \A d \in Callers : pc'[d] = "idle" <=> req'[d] = NULL
<1>1. /\ pc' = [pc EXCEPT ![c] = "idle"] /\ req' = [req EXCEPT ![c] = NULL]
      /\ prin' = [prin EXCEPT ![c] = Nobody] /\ start' = [start EXCEPT ![c] = 0]
      /\ snap' = [snap EXCEPT ![c] = NULL] /\ clock' = clock
    BY DEF Finish, Goto
<1>2. OthersWait(c)
  <2> SUFFICES ASSUME NEW d \in Callers, d # c
               PROVE  /\ pc'[d] = pc[d] /\ req'[d] = req[d] /\ prin'[d] = prin[d]
                      /\ start'[d] = start[d] /\ snap'[d] = snap[d]
      BY DEF OthersWait, Waits
  <2> QED BY <1>1 DEF TypeOK
<1>3. Nobody \in [email : Emails \cup {NULL}, role : Role] /\ 0 \in 0 .. clock
    BY DEF Nobody, Role, TypeOK
<1> QED BY <1>1, <1>2, <1>3 DEF TypeOK, CallerInv

(* A step that ends a request and changes nothing else.                     *)
LEMMA EndsQuietly ==
    ASSUME IInv, NEW c \in Callers, Finish(c), UNCHANGED <<store, touches>>, Observe
    PROVE  IInv'
<1>1. TypeOK  BY DEF IInv
<1>2. TypeOK'  BY <1>1, Ends, ObserveNotes DEF TypeOK, store
<1>3. Fated /\ Marked' /\ TokenLimit' /\ Spared(c)  BY <1>1, Ends, StoreStays
<1> QED BY <1>1, <1>2, <1>3, Ends, Assemble
(* What a request has noted after its own step.                             *)
LEMMA NotesOwn ==
    ASSUME TypeOK, Observe, NEW c \in Callers, pc'[c] # "idle",
           pc'[c] = "lookup" /\ Active(pats'[req'[c].token], start'[c])
               => "token" \in grounds[c] \/ TokenLives(c)',
           pc'[c] \in {"owner", "resolve"} => "token" \in grounds[c] \/ TokenLives(c)',
           req'[c].method \in {"pat", "oidc", "bearer"}
               /\ pc'[c] \in {"served", "queued", "loaded"} => grounds[c] = {"token", "role"}
    PROVE  Noted(c)'
<1>1. /\ pc'[c] \in Gates =>
           Entitlements(c)' \subseteq grounds'[c] /\ grounds[c] \subseteq grounds'[c]
      /\ pc'[c] \notin Gates => grounds'[c] = grounds[c]
    BY ObserveNotes DEF TypeOK
<1>2. TokenLives(c)' => "token" \in Entitlements(c)'  BY DEF Entitlements
<1> QED BY <1>1, <1>2 DEF Noted, Gates

\* A step that moves the request of c and leaves the store alone.
Moved(c) ==
    /\ UNCHANGED <<store, clock>>
    /\ pc' = [pc EXCEPT ![c] = pc'[c]] /\ req' = [req EXCEPT ![c] = req'[c]]
    /\ prin' = [prin EXCEPT ![c] = prin'[c]] /\ start' = [start EXCEPT ![c] = start'[c]]
    /\ snap' = [snap EXCEPT ![c] = snap'[c]]
    /\ pc'[c] \in Gates \cup {"served", "current", "queued", "loaded"}
    /\ req'[c] \in Request /\ prin'[c] \in [email : Emails \cup {NULL}, role : Role]
    /\ start'[c] \in 0 .. clock /\ snap'[c] \in Snapshot \cup {NULL}
    /\ touches' \subseteq [id : PatIds, now : 0 .. clock]

(* It keeps the invariant if c does.                                        *)
LEMMA Moves ==
    ASSUME IInv, NEW c \in Callers, Moved(c), Observe,
           CallerInv(c)',
           pc'[c] = "loaded" =>
               \A d \in Callers \ {c} : pc[d] = "loaded" => scope(d) # scope(c)'
    PROVE  IInv'
<1>1. TypeOK  BY DEF IInv
<1>2. OthersWait(c)
  <2> SUFFICES ASSUME NEW d \in Callers, d # c
               PROVE  /\ pc'[d] = pc[d] /\ req'[d] = req[d] /\ prin'[d] = prin[d]
                      /\ start'[d] = start[d] /\ snap'[d] = snap[d]
      BY DEF OthersWait, Waits
  <2> QED BY <1>1 DEF TypeOK, Moved
<1>3. TypeOK'
  <2>1. grounds' \in [Callers -> SUBSET {"token", "role"}]  BY <1>1, ObserveNotes DEF TypeOK
  <2>2. pc' \in [Callers -> {"idle", "lookup", "owner", "resolve", "served", "current",
                             "queued", "loaded"}]
      BY <1>1 DEF TypeOK, Gates, Moved
  <2>3. \A d \in Callers : pc'[d] = "idle" <=> req'[d] = NULL
      BY <1>1, RequestsAssumption DEF TypeOK, Gates, Moved
  <2>4. /\ req' \in [Callers -> Request \cup {NULL}]
        /\ prin' \in [Callers -> [email : Emails \cup {NULL}, role : Role]]
        /\ start' \in [Callers -> 0 .. clock]
        /\ snap' \in [Callers -> Snapshot \cup {NULL}]
      BY <1>1 DEF TypeOK, Moved
  <2> QED BY <1>1, <2>1, <2>2, <2>3, <2>4 DEF TypeOK, store, Moved
<1>4. Fated /\ Marked' /\ TokenLimit' /\ Spared(c)  BY StoreStays DEF Moved
<1> QED BY <1>2, <1>3, <1>4, Assemble
-----------------------------------------------------------------------------
(* Authentication and authorization, action by action.                      *)

(* A request comes as RequestsAssumption says.                              *)
LEMMA StepReceive ==
    ASSUME IInv, NEW c \in Callers, NEW r \in Requests, Receive(c, r)
    PROVE  IInv'
<1>1. /\ TypeOK /\ r \in Request /\ pc[c] = "idle" /\ clock \in Nat
      /\ UNCHANGED <<store, clock>> /\ UNCHANGED <<snap, touches>> /\ Observe
    BY RequestsAssumption DEF IInv, TypeOK, Receive
<1> DEFINE where == entry(r)
           time == IF r.method = "pat" THEN clock ELSE 0
<1>2. /\ pc' = [pc EXCEPT ![c] = where] /\ req' = [req EXCEPT ![c] = r]
      /\ prin' = [prin EXCEPT ![c] = [email |-> r.who, role |-> "reader"]]
      /\ start' = [start EXCEPT ![c] = time]
    BY DEF Receive, Goto
<1>3. /\ where \in {"lookup", "resolve", "current", "queued"} /\ time \in 0 .. clock
      /\ r.who \in Emails \cup {NULL} /\ "reader" \in Role
      /\ r.method = "pat" => where = "lookup" /\ time = clock
      /\ r.method \in {"oidc", "bearer"} => where = "resolve"
      /\ r.method \in {"cli", "startup"} => where \in {"current", "queued"}
      /\ where = "current" <=> r.kind \in {"disable", "enable"}
  <2>1. r.method \in Methods /\ r.who \in Emails \cup {NULL}  BY <1>1 DEF Request
  <2>2. r.kind \in {"disable", "enable"} => r.method = "cli"  BY RequestsAssumption
  <2>3. time \in 0 .. clock /\ "reader" \in Role  BY <1>1 DEF Role
  <2> QED BY <2>1, <2>2, <2>3 DEF entry, Methods
<1>4. /\ pc'[c] = where /\ req'[c] = r /\ prin'[c].email = r.who /\ start'[c] = time
    BY <1>1, <1>2 DEF TypeOK
<1>5. WellFormed(r)' /\ issued' = issued
    BY <1>1, RequestsAssumption DEF WellFormed, Receive, store
<1>6. Placed(c)'
  <2>1. r.method \in Methods /\ r.kind \in Kinds \cup Upserts \cup {"seed"}  BY <1>1 DEF Request
  <2>2. /\ r.method = "cli" => r.kind \in Upserts \cup {"delete"}
        /\ r.method = "startup" => r.kind = "seed"
        /\ r.kind = "upsert" => r.role # NULL
      BY RequestsAssumption
  <2> HIDE DEF where, time
  <2> QED BY <1>3, <1>4, <2>1, <2>2 DEF Placed, Upserts, Methods
<1>7. Noted(c)'
  <2> HIDE DEF where, time
  <2>1. r.method \in Methods /\ (r.method = "pat" <=> r.token # NULL)
      BY <1>1, RequestsAssumption DEF Request
  <2>2. Active(pats'[r.token], start'[c]) /\ where = "lookup" => TokenLives(c)'
      BY <1>1, <1>3, <1>4, <2>1 DEF TokenLives, Methods, Receive
  <2>3. where = "resolve" => TokenLives(c)'
      BY <1>3, <1>4, <2>1 DEF TokenLives, Methods
  <2> QED BY <1>1, <1>3, <1>4, <2>1, <2>2, <2>3, NotesOwn DEF Methods
<1> HIDE DEF where, time
<1>8. CallerInv(c)'  BY <1>3, <1>4, <1>5, <1>6, <1>7 DEF CallerInv
<1>9. Moved(c) /\ pc'[c] # "loaded"
  <2> pc'[c] \in Gates \cup {"current", "queued"}  BY <1>3, <1>4 DEF Gates
  <2> QED BY <1>1, <1>2, <1>3, <1>4 DEF TypeOK, Moved, Gates
<1> QED BY <1>1, <1>8, <1>9, Moves

(* What IInv says of a request under way.                                   *)
LEMMA UnderWay ==
    ASSUME IInv, NEW c \in Callers, pc[c] # "idle"
    PROVE  /\ TypeOK /\ req[c] \in Request /\ req[c] # NULL
           /\ WellFormed(req[c]) /\ Placed(c) /\ Noted(c) /\ (pc[c] = "loaded" => Sure(c))
           /\ prin[c] = [email |-> prin[c].email, role |-> prin[c].role]
           /\ prin[c].email \in Emails \cup {NULL} /\ prin[c].role \in Role
           /\ start[c] \in 0 .. clock /\ clock \in Nat /\ snap[c] \in Snapshot \cup {NULL}
BY RequestsAssumption DEF IInv, TypeOK, CallerInv

(* The token that is found live gives the request its principal.            *)
LEMMA StepLookup ==
    ASSUME IInv, NEW c \in Callers, Lookup(c)
    PROVE  IInv'
<1>1. pc[c] = "lookup" /\ UNCHANGED <<store, touches>> /\ Observe  BY DEF Lookup
<1>2. CASE Finish(c)  BY <1>1, <1>2, EndsQuietly
<1>3. CASE ~ Finish(c)
  <2> DEFINE row == pats[req[c].token]
             r == req[c]
  <2>1. /\ Active(row, start[c]) /\ UNCHANGED <<req, start, snap, clock>>
        /\ prin' = [prin EXCEPT ![c] = [email |-> row.owner, role |-> row.role]]
        /\ pc' = [pc EXCEPT ![c] = "owner"]
      BY <1>3 DEF Lookup, Goto
  <2>2. /\ TypeOK /\ r \in Request /\ r # NULL /\ WellFormed(r) /\ Noted(c) /\ Placed(c)
        /\ start[c] \in 0 .. clock /\ snap[c] \in Snapshot \cup {NULL}
      BY <1>1, UnderWay
  <2>3. r.method = "pat" /\ r.token \in issued  BY <1>1, <2>2 DEF Placed, WellFormed
  <2>4. row \in PersonalAccessToken  BY <2>1, <2>2, <2>3 DEF TypeOK, Active
  <2>5. /\ row.owner \in Emails /\ row.role \in Role /\ row.owner # NULL
        /\ pc'[c] = "owner" /\ prin'[c].email = row.owner /\ req'[c] = r
      BY <2>1, <2>2, <2>4, NullAssumption DEF PersonalAccessToken, TypeOK
  <2>6. "token" \in grounds[c]  BY <1>1, <2>1, <2>2 DEF Noted
  <2>7. Noted(c)'  BY <1>1, <2>2, <2>5, <2>6, NotesOwn
  <2>8. WellFormed(req[c])'  BY <1>1, <2>2, <2>5 DEF WellFormed, store
  <2>9. CallerInv(c)'
      BY <2>3, <2>5, <2>7, <2>8 DEF CallerInv, Placed
  <2>10. Moved(c) /\ pc'[c] # "loaded"
      BY <1>1, <2>1, <2>2, <2>5 DEF TypeOK, Moved, Gates
  <2> QED BY <1>1, <2>9, <2>10, Moves
<1> QED BY <1>2, <1>3

(* Its owner is admitted, and the touch spawned.                            *)
LEMMA StepOwner ==
    ASSUME IInv, NEW c \in Callers, Owner(c)
    PROVE  IInv'
<1>1. pc[c] = "owner" /\ UNCHANGED store /\ Observe  BY DEF Owner
<1>2. CASE Finish(c) /\ UNCHANGED touches  BY <1>1, <1>2, EndsQuietly
<1>3. CASE ~ (Finish(c) /\ UNCHANGED touches)
  <2> DEFINE r == req[c]
             touch == [id |-> r.token, now |-> start[c]]
  <2>1. /\ UNCHANGED <<req, prin, snap, clock>> /\ touches' = touches \cup {touch}
        /\ pc' = [pc EXCEPT ![c] = "resolve"] /\ start' = [start EXCEPT ![c] = 0]
      BY <1>3 DEF Owner, Goto
  <2>2. /\ TypeOK /\ r \in Request /\ r # NULL /\ WellFormed(r) /\ Noted(c) /\ Placed(c)
        /\ prin[c] = [email |-> prin[c].email, role |-> prin[c].role]
        /\ prin[c].email \in Emails \cup {NULL} /\ prin[c].role \in Role
        /\ start[c] \in 0 .. clock /\ clock \in Nat /\ snap[c] \in Snapshot \cup {NULL}
      BY <1>1, UnderWay
  <2>3. r.method = "pat" /\ r.token \in PatIds /\ prin[c].email # NULL
      BY <1>1, <2>2 DEF Placed, WellFormed, TypeOK
  <2>4. pc'[c] = "resolve" /\ prin'[c] = prin[c] /\ req'[c] = r  BY <2>1, <2>2 DEF TypeOK
  <2>5. Noted(c)'
    <3>1. "token" \in grounds[c]  BY <1>1, <2>2 DEF Noted
    <3> QED BY <1>1, <2>2, <2>4, <3>1, NotesOwn
  <2>6. WellFormed(req[c])'  BY <1>1, <2>2, <2>4 DEF WellFormed, store
  <2>7. CallerInv(c)'  BY <2>3, <2>4, <2>5, <2>6 DEF CallerInv, Placed
  <2>8. Moved(c) /\ pc'[c] # "loaded"
      BY <1>1, <2>1, <2>2, <2>3, <2>4 DEF TypeOK, Moved, Gates
  <2> QED BY <1>1, <2>7, <2>8, Moves
<1> QED BY <1>2, <1>3

(* What the gates let through suffices, of the tables as they are.          *)
LEMMA AdmittedSuffices ==
    ASSUME IInv, NEW c \in Callers, pc[c] = "resolve", Admitted(c)
    PROVE  RoleSuffices(c)
<1> DEFINE person == prin[c].email
           kind == req[c].kind
           access == resolve_access(users, person)
<1>1. /\ TypeOK /\ req[c] \in Request /\ WellFormed(req[c]) /\ Placed(c)
      /\ person \in Emails \cup {NULL} /\ prin[c].role \in Role
    BY UnderWay
<1>2. /\ req[c].method \in {"pat", "oidc", "bearer"}
      /\ req[c].token # NULL <=> req[c].method = "pat"
      /\ person = NULL => req[c].method = "bearer"
    BY <1>1, NullAssumption DEF Placed, WellFormed
<1>3. kind \in Kinds
    BY <1>1, <1>2 DEF WellFormed, Request, Upserts, Kinds
<1>4. /\ access.allowed
      /\ check_role(resolved_role(req[c].method, prin[c].role, access.role), kind)
    BY DEF Admitted
<1>5. access.role \in Role
    BY <1>1 DEF resolve_access, TypeOK, UserRecord, Role
<1>6. \A role \in Role : check_role(role, kind) => role \in Roles(kind)
    BY <1>3 DEF check_role, required_role, Roles, Role, tier, Kinds
<1>7. \A r, s \in Role :
        min(r, s) \in Role /\ (check_role(min(r, s), kind) => check_role(r, kind) /\ check_role(s, kind))
    BY <1>3 DEF min, check_role, required_role, Role, tier, Kinds
<1>8. /\ access.role \in Roles(kind)
      /\ req[c].token # NULL => prin[c].role \in Roles(kind)
    BY <1>1, <1>2, <1>4, <1>5, <1>6, <1>7 DEF resolved_role
<1> QED BY <1>1, <1>2, <1>4, <1>8 DEF RoleSuffices, resolve_access, TypeOK, UserRecord

(* The gates are passed, on grounds that have been noted.                   *)
LEMMA StepResolve ==
    ASSUME IInv, NEW c \in Callers, Resolve(c)
    PROVE  IInv'
<1> DEFINE r == req[c]
           role == resolved_role(r.method, prin[c].role,
                                 resolve_access(users, prin[c].email).role)
           where == IF r.kind \in {"read", "allocate", "create"} THEN "served" ELSE "queued"
           time == IF r.kind = "mint" THEN clock ELSE 0
<1>1. /\ pc[c] = "resolve" /\ Admitted(c) /\ Observe
      /\ UNCHANGED <<store, clock>> /\ UNCHANGED <<req, snap, touches>>
      /\ prin' = [prin EXCEPT ![c].role = role] /\ pc' = [pc EXCEPT ![c] = where]
      /\ start' = [start EXCEPT ![c] = time]
    BY DEF Resolve, Goto
<1>2. /\ TypeOK /\ r \in Request /\ r # NULL /\ WellFormed(r) /\ Noted(c) /\ Placed(c)
      /\ prin[c].email \in Emails \cup {NULL} /\ prin[c].role \in Role
      /\ clock \in Nat /\ snap[c] \in Snapshot \cup {NULL}
    BY <1>1, UnderWay
<1>3. r.method \in {"pat", "oidc", "bearer"}  BY <1>1, <1>2 DEF Placed
<1>4. r.kind \in Kinds /\ (r.kind \in {"mint", "revoke"} => r.method = "oidc")
    BY <1>1, <1>2, <1>3 DEF WellFormed, Request, Upserts, Kinds, Admitted, require_oidc
<1>5. role \in Role
  <2>1. resolve_access(users, prin[c].email).role \in Role
      BY <1>2 DEF resolve_access, TypeOK, UserRecord, Role
  <2>2. \A x, y \in Role : min(x, y) \in Role  BY DEF min
  <2> QED BY <1>2, <2>1, <2>2 DEF resolved_role
<1>6. grounds[c] = {"token", "role"}
  <2>1. "token" \in grounds[c] /\ Entitlements(c) \subseteq grounds[c]  BY <1>1, <1>2 DEF Noted
  <2>2. "role" \in Entitlements(c)  BY <1>1, AdmittedSuffices DEF Entitlements
  <2>3. grounds[c] \subseteq {"token", "role"}  BY <1>2 DEF TypeOK
  <2> QED BY <2>1, <2>2, <2>3
<1> HIDE DEF role, time
<1>7. /\ pc'[c] = where /\ req'[c] = r /\ start'[c] = time /\ snap'[c] = snap[c]
      /\ prin'[c] = [email |-> prin[c].email, role |-> role]
    BY <1>1, <1>2 DEF TypeOK
<1>8. where \in {"served", "queued"}  OBVIOUS
<1>9. Noted(c)'  BY <1>1, <1>2, <1>6, <1>7, <1>8, NotesOwn
<1>10. WellFormed(req[c])'  BY <1>1, <1>2, <1>7 DEF WellFormed, store
<1>11. Placed(c)'
    BY <1>1, <1>2, <1>3, <1>4, <1>7 DEF Placed, Kinds, Upserts, WellFormed
<1>12. CallerInv(c)'  BY <1>7, <1>8, <1>9, <1>10, <1>11 DEF CallerInv
<1>13. Moved(c) /\ pc'[c] # "loaded"
  <2>1. time \in 0 .. clock  BY <1>2 DEF time
  <2> QED BY <1>1, <1>2, <1>5, <1>7, <1>8, <2>1 DEF TypeOK, Moved
<1> QED BY <1>1, <1>12, <1>13, Moves

(* `disable' and `enable' take the role that is in the row.                 *)
LEMMA StepCurrent ==
    ASSUME IInv, NEW c \in Callers, Current(c)
    PROVE  IInv'
<1>1. pc[c] = "current" /\ UNCHANGED <<store, touches>> /\ Observe  BY DEF Current
<1>2. CASE Finish(c)  BY <1>1, <1>2, EndsQuietly
<1>3. CASE ~ Finish(c)
  <2> DEFINE r == req[c]
             row == users[r.email]
             status == IF r.kind = "disable" THEN "disabled" ELSE "active"
             next == [r EXCEPT !.role = row.role, !.status = status]
  <2>1. /\ row # NULL /\ UNCHANGED <<prin, start, snap, clock>>
        /\ req' = [req EXCEPT ![c].role = row.role, ![c].status = status]
        /\ pc' = [pc EXCEPT ![c] = "queued"]
      BY <1>3 DEF Current, Goto
  <2>2. /\ TypeOK /\ r \in Request /\ r # NULL /\ WellFormed(r) /\ Noted(c) /\ Placed(c)
        /\ prin[c] = [email |-> prin[c].email, role |-> prin[c].role]
        /\ prin[c].email \in Emails \cup {NULL} /\ prin[c].role \in Role
        /\ start[c] \in 0 .. clock /\ clock \in Nat /\ snap[c] \in Snapshot \cup {NULL}
      BY <1>1, UnderWay
  <2>3. r.kind \in {"disable", "enable"} /\ r.method = "cli"
      BY <1>1, <2>2 DEF Placed, WellFormed
  <2>4. row.role \in Role /\ row.role # NULL
    <3>1. r.email \in Emails  BY <2>2, <2>3 DEF WellFormed, Request, Upserts
    <3> QED BY <2>1, <2>2, <3>1, NullAssumption DEF TypeOK, UserRecord
  <2>5. next \in Request
    <3>1. status \in {"active", "disabled"}  OBVIOUS
    <3> HIDE DEF row, status
    <3> QED BY <2>2, <2>4, <3>1 DEF Request
  <2>6. /\ pc'[c] = "queued" /\ req'[c] = next /\ prin'[c] = prin[c]
        /\ start'[c] = start[c] /\ snap'[c] = snap[c]
      BY <2>1, <2>2 DEF TypeOK
  <2>7. /\ next.method = r.method /\ next.kind = r.kind /\ next.token = r.token
        /\ next.who = r.who /\ next.id = r.id /\ next.email = r.email
        /\ next.role = row.role /\ next # NULL
      BY <2>2, <2>5, RequestsAssumption DEF Request
  <2> HIDE DEF next, status
  <2>8. WellFormed(req[c])'  BY <1>1, <2>2, <2>3, <2>4, <2>6, <2>7 DEF WellFormed, store
  <2>9. Placed(c)'  BY <2>2, <2>3, <2>4, <2>6, <2>7 DEF Placed, Upserts
  <2>10. Noted(c)'  BY <1>1, <2>2, <2>3, <2>6, <2>7, NotesOwn
  <2>11. CallerInv(c)'  BY <2>6, <2>8, <2>9, <2>10 DEF CallerInv
  <2>12. Moved(c) /\ pc'[c] # "loaded"
    <3>1. req' = [req EXCEPT ![c] = req'[c]]  BY <2>1, <2>2 DEF TypeOK
    <3> QED BY <1>1, <2>1, <2>2, <2>5, <2>6, <3>1 DEF TypeOK, Moved
  <2> QED BY <1>1, <2>11, <2>12, Moves
<1> QED BY <1>2, <1>3

-----------------------------------------------------------------------------
(* Transaction units.                                                       *)

(* There are as many admins as a number says.                               *)
LEMMA AdminsFinite ==
    ASSUME NEW rows
    PROVE  /\ IsFiniteSet(ActivePlatformAdmins(rows))
           /\ Cardinality(ActivePlatformAdmins(rows)) \in Nat
BY EmailsAssumption, FS_Subset, FS_CardinalityType DEF ActivePlatformAdmins

(* A unit is sure of what it has just read, under a scope of its own.       *)
LEMMA StepLoad ==
    ASSUME IInv, NEW c \in Callers, Load(c)
    PROVE  IInv'
<1> DEFINE r == req[c]
<1>1. /\ pc[c] = "queued" /\ Observe /\ UNCHANGED <<store, clock>>
      /\ UNCHANGED <<req, prin, start, touches>>
      /\ snap' = [snap EXCEPT ![c] = reads(c)] /\ pc' = [pc EXCEPT ![c] = "loaded"]
      /\ \A d \in Callers : pc[d] = "loaded" => scope(d) # scope(c)
    BY DEF Load, Goto
<1>2. /\ TypeOK /\ r \in Request /\ r # NULL /\ WellFormed(r) /\ Noted(c) /\ Placed(c)
      /\ prin[c] = [email |-> prin[c].email, role |-> prin[c].role]
      /\ prin[c].email \in Emails \cup {NULL} /\ prin[c].role \in Role
      /\ start[c] \in 0 .. clock /\ clock \in Nat
    BY <1>1, UnderWay
<1>3. /\ pc'[c] = "loaded" /\ req'[c] = r /\ prin'[c] = prin[c] /\ start'[c] = start[c]
      /\ snap'[c] = reads(c)
    BY <1>1, <1>2 DEF TypeOK
<1>4. r.kind \in Upserts \cup {"delete", "seed", "mint", "revoke"}  BY <1>1, <1>2 DEF Placed
<1>5. reads(c) \in Snapshot /\ Sure(c)'
  <2>1. CASE r.kind \in Upserts \cup {"delete"}
    <3>1. reads(c) = directory_reads(users, r.email)  BY <2>1 DEF reads, Upserts
    <3>2. r.email \in Emails  BY <1>2, <2>1 DEF WellFormed, Request
    <3>3. reads(c) \in Snapshot
        BY <1>2, <3>1, <3>2, AdminsFinite DEF directory_reads, Snapshot, TypeOK
    <3>4. directory_reads(users, r.email)' = directory_reads(users, r.email)
        BY <1>1, <1>3 DEF directory_reads, ActivePlatformAdmins, IsPlatformAdmin, store
    <3> QED BY <1>3, <2>1, <3>1, <3>3, <3>4 DEF Sure, Upserts
  <2>2. CASE r.kind = "seed"
    <3>1. reads(c) = [marker |-> marker, taken |-> {e \in Emails : users[e] # NULL}]
        BY <2>2 DEF reads, Upserts
    <3> QED BY <1>1, <1>2, <1>3, <2>2, <3>1 DEF Sure, Upserts, Snapshot, store, TypeOK
  <2>3. CASE r.kind = "mint"
    <3> DEFINE n == Cardinality(ActiveOf(pats, prin[c].email, start[c]))
    <3>1. reads(c) = [count |-> n] /\ n \in Nat  BY <2>3, ActiveFinite DEF reads, Upserts
    <3>2. Cardinality(ActiveOf(pats, prin[c].email, start[c]))' = n
        BY <1>1, <1>3 DEF ActiveOf, store
    <3> HIDE DEF n
    <3> QED BY <1>3, <2>3, <3>1, <3>2 DEF Sure, Upserts, Snapshot
  <2>4. CASE r.kind = "revoke"
    <3>1. reads(c) = [row |-> read_pat(pats, prin[c].email, r.id)]  BY <2>4 DEF reads, Upserts
    <3>2. r.id \in PatIds  BY <1>2, <2>4 DEF WellFormed, Request
    <3>3. read_pat(pats, prin[c].email, r.id) \in PersonalAccessToken \cup {NULL}
        BY <1>2, <3>2 DEF read_pat, TypeOK
    <3> QED BY <1>1, <1>3, <2>4, <3>1, <3>3 DEF Sure, Upserts, Snapshot, read_pat, store
  <2> QED BY <1>4, <2>1, <2>2, <2>3, <2>4
<1>6. Noted(c)'
  <2>1. r.method \in {"pat", "oidc", "bearer"} => grounds[c] = {"token", "role"}
      BY <1>1, <1>2 DEF Noted
  <2> QED BY <1>1, <1>2, <1>3, <2>1, NotesOwn
<1>7. WellFormed(req[c])'  BY <1>1, <1>2, <1>3 DEF WellFormed, store
<1>8. Placed(c)'  BY <1>1, <1>2, <1>3 DEF Placed
<1>9. CallerInv(c)'  BY <1>5, <1>6, <1>7, <1>8 DEF CallerInv
<1>10. Moved(c)  BY <1>1, <1>2, <1>3, <1>5 DEF TypeOK, Moved
<1>11. scope(c)' = scope(c)  BY <1>3 DEF scope
<1> QED BY <1>1, <1>9, <1>10, <1>11, Moves

(* What the units mean.                                                     *)

\* Tokens only end.
Waning ==
    /\ issued' = issued /\ pats' \in [PatIds -> PersonalAccessToken \cup {NULL}]
    /\ \A id \in PatIds :
        pats'[id] = NULL \/
            /\ pats[id] # NULL
            /\ pats'[id].owner = pats[id].owner /\ pats'[id].role = pats[id].role
            /\ pats'[id].expires_at = pats[id].expires_at
            /\ pats[id].revoked => pats'[id].revoked

(* Tokens that only end are no more than they were.                         *)
LEMMA Wane ==
    ASSUME IInv, Waning
    PROVE  Fated /\ \A owner : NoMore(owner)
<1>1. issued \subseteq PatIds  BY DEF IInv, TypeOK
<1>2. Fated  BY <1>1 DEF Fated, Waning
<1>3. ASSUME NEW owner, NEW t \in Nat
      PROVE  ActiveOf(pats', owner, t) \subseteq ActiveOf(pats, owner, t)
    BY DEF ActiveOf, Active, Waning
<1> QED BY <1>2, <1>3 DEF NoMore

(* Fewer tokens, and later, are within the limit.                           *)
LEMMA LimitKept ==
    ASSUME IInv, clock' \in Nat, clock <= clock', \A owner : NoMore(owner)
    PROVE  TokenLimit'
<1> SUFFICES ASSUME NEW owner \in Emails
             PROVE  Cardinality(ActiveOf(pats', owner, clock')) <= Limit
    BY DEF TokenLimit
<1>1. pats \in [PatIds -> PersonalAccessToken \cup {NULL}] /\ clock \in Nat
    BY DEF IInv, TypeOK
<1>2. ActiveOf(pats', owner, clock') \subseteq ActiveOf(pats, owner, clock')  BY DEF NoMore
<1>3. ActiveOf(pats, owner, clock') \subseteq ActiveOf(pats, owner, clock)
    BY <1>1 DEF ActiveOf, Active, PersonalAccessToken
<1>4. Cardinality(ActiveOf(pats', owner, clock')) <= Cardinality(ActiveOf(pats, owner, clock))
    BY <1>2, <1>3, ActiveFinite
<1>5. Cardinality(ActiveOf(pats, owner, clock)) <= Limit  BY DEF IInv, TokenLimit
<1>6. /\ Cardinality(ActiveOf(pats', owner, clock')) \in Nat
      /\ Cardinality(ActiveOf(pats, owner, clock)) \in Nat
    BY ActiveFinite
<1> QED BY <1>4, <1>5, <1>6, LimitAssumption

(* An upsert or a delete sets one row, keeps who made it, and leaves an     *)
(* admin.                                                                   *)
LEMMA ChangeMeans ==
    ASSUME IInv, NEW c \in Callers, Upsert(c) \/ Delete(c)
    PROVE  /\ pc[c] = "loaded" /\ scope(c) = NULL
           /\ Finish(c) /\ UNCHANGED <<pats, issued, marker, touches>> /\ Observe
           /\ \E email \in Emails, row \in UserRecord \cup {NULL} :
                /\ users' = [users EXCEPT ![email] = row]
                /\ row # NULL => row.created_by =
                       IF users[email] = NULL THEN "operator" ELSE users[email].created_by
                /\ IsPlatformAdmin(users[email]) /\ ~ IsPlatformAdmin(row)
                       => Cardinality(ActivePlatformAdmins(users)) > 1
<1> DEFINE r == req[c]
<1>1. /\ pc[c] = "loaded" /\ r.kind \in Upserts \cup {"delete"}
      /\ Finish(c) /\ UNCHANGED <<pats, issued, marker, touches>> /\ Observe
    BY DEF Upsert, Delete, Deciding
<1>2. /\ TypeOK /\ r \in Request /\ WellFormed(r) /\ Placed(c) /\ Sure(c)
    BY <1>1, UnderWay
<1>3. scope(c) = NULL  BY <1>1 DEF scope, Upserts
<1>4. snap[c] = [user |-> users[r.email], admins |-> Cardinality(ActivePlatformAdmins(users))]
    BY <1>1, <1>2 DEF Sure, directory_reads
<1>5. r.email \in Emails  BY <1>1, <1>2 DEF WellFormed, Request
<1>6. users[r.email] \in UserRecord \cup {NULL}  BY <1>2, <1>5 DEF TypeOK
<1>7. CASE Upsert(c)
  <2> DEFINE row == [role |-> r.role, status |-> r.status,
                     created_by |-> IF users[r.email] = NULL THEN "operator"
                                    ELSE users[r.email].created_by]
  <2>1. users' = [users EXCEPT ![r.email] = row]  BY <1>4, <1>7 DEF Upsert, Upserted
  <2>2. r.role \in Role /\ r.status \in {"active", "disabled"}
    <3>1. r.kind \in Upserts  BY <1>7 DEF Upsert, Deciding
    <3> QED BY <1>1, <1>2, <3>1 DEF Placed, Request
  <2>3. row \in UserRecord  BY <1>6, <2>2 DEF UserRecord
  <2>4. row # NULL  BY <2>3, NullAssumption
  <2>5. IsPlatformAdmin(row) <=> r.role = "platform_admin" /\ r.status = "active"
      BY <2>4 DEF IsPlatformAdmin
  <2>6. IsPlatformAdmin(users[r.email]) /\ ~ IsPlatformAdmin(row)
            => Cardinality(ActivePlatformAdmins(users)) > 1
      BY <1>4, <1>7, <2>5 DEF Upsert, UpsertAccepts, guard_platform_admins, IsPlatformAdmin
  <2>7. row.created_by = IF users[r.email] = NULL THEN "operator" ELSE users[r.email].created_by
      OBVIOUS
  <2> HIDE DEF row
  <2> QED BY <1>1, <1>3, <1>5, <2>1, <2>3, <2>6, <2>7
<1>8. CASE Delete(c)
  <2>1. users' = [users EXCEPT ![r.email] = NULL]  BY <1>8 DEF Delete, Deleted
  <2>2. IsPlatformAdmin(users[r.email]) => Cardinality(ActivePlatformAdmins(users)) > 1
      BY <1>4, <1>8 DEF Delete, DeleteAccepts, guard_platform_admins
  <2> QED BY <1>1, <1>3, <1>5, <2>1, <2>2
<1> QED BY <1>7, <1>8

(* The seed adds rows where there are none, and was not there before.       *)
LEMMA SeedMeans ==
    ASSUME IInv, NEW c \in Callers, SeedUsers(c)
    PROVE  /\ pc[c] = "loaded" /\ scope(c) = NULL
           /\ Finish(c) /\ UNCHANGED <<pats, issued, touches>> /\ Observe
           /\ ~ marker /\ marker' = TRUE
           /\ users' \in [Emails -> UserRecord \cup {NULL}]
           /\ \A e \in Emails : users[e] # NULL => users'[e] = users[e]
<1>1. /\ pc[c] = "loaded" /\ req[c].kind = "seed"
      /\ Finish(c) /\ UNCHANGED <<pats, issued, touches>> /\ Observe
      /\ ~ snap[c].marker /\ marker' = TRUE /\ users' = Seeded(users, snap[c].taken)
    BY DEF SeedUsers, Deciding
<1>2. TypeOK /\ Sure(c)  BY <1>1, UnderWay
<1>3. snap[c] = [marker |-> marker, taken |-> {e \in Emails : users[e] # NULL}]
    BY <1>1, <1>2 DEF Sure
<1>4. \A e : seed(e) \in UserRecord  BY DEF seed, UserRecord, Role
<1>5. scope(c) = NULL  BY <1>1 DEF scope
<1> QED BY <1>1, <1>2, <1>3, <1>4, <1>5 DEF Seeded, TypeOK

(* A mint adds a token to one who holds fewer than the limit.               *)
LEMMA MintMeans ==
    ASSUME IInv, NEW c \in Callers, Mint(c)
    PROVE  LET owner == prin[c].email IN
           /\ pc[c] = "loaded" /\ scope(c) = owner /\ owner \in Emails
           /\ Finish(c) /\ UNCHANGED <<users, marker, touches>> /\ Observe
           /\ Cardinality(ActiveOf(pats, owner, clock)) < Limit
           /\ \E id \in PatIds \ issued, row \in PersonalAccessToken :
                /\ issued' = issued \cup {id} /\ pats' = [pats EXCEPT ![id] = row]
                /\ row.owner = owner
<1> DEFINE owner == prin[c].email
           r == req[c]
<1>1. /\ pc[c] = "loaded" /\ r.kind = "mint" /\ MintAccepts(snap[c].count)
      /\ Finish(c) /\ UNCHANGED <<users, marker, touches>> /\ Observe
    BY DEF Mint, Deciding
<1>2. /\ TypeOK /\ r \in Request /\ WellFormed(r) /\ Placed(c) /\ Sure(c)
      /\ prin[c].role \in Role /\ start[c] \in 0 .. clock /\ clock \in Nat
      /\ owner \in Emails \cup {NULL}
    BY <1>1, UnderWay
<1>3. owner \in Emails  BY <1>1, <1>2 DEF Placed, WellFormed
<1>4. scope(c) = owner  BY <1>1 DEF scope
<1>5. Cardinality(ActiveOf(pats, owner, clock)) < Limit
  <2>1. ActiveOf(pats, owner, clock) \subseteq ActiveOf(pats, owner, start[c])
      BY <1>2 DEF ActiveOf, Active, TypeOK, PersonalAccessToken
  <2>2. /\ Cardinality(ActiveOf(pats, owner, clock)) <= Cardinality(ActiveOf(pats, owner, start[c]))
        /\ Cardinality(ActiveOf(pats, owner, clock)) \in Nat
        /\ Cardinality(ActiveOf(pats, owner, start[c])) \in Nat
      BY <2>1, ActiveFinite
  <2>3. /\ snap[c].count \in Nat /\ snap[c].count < Limit
        /\ Cardinality(ActiveOf(pats, owner, start[c])) <= snap[c].count
      BY <1>1, <1>2 DEF Sure, MintAccepts
  <2> QED BY <2>2, <2>3, LimitAssumption
<1>6. \A role \in Role \cup {NULL} : mint_role(role, prin[c].role) \in Role
  <2>1. \A x, y \in Role : min(x, y) \in Role  BY DEF min
  <2>2. "admin" \in Role  BY DEF Role
  <2> QED BY <1>2, <2>1, <2>2 DEF mint_role
<1>7. \A days \in Days :
        /\ Minted(owner, mint_role(r.role, prin[c].role), start[c], days) \in PersonalAccessToken
        /\ Minted(owner, mint_role(r.role, prin[c].role), start[c], days).owner = owner
  <2>1. mint_role(r.role, prin[c].role) \in Role  BY <1>2, <1>6 DEF Request
  <2> QED BY <1>2, <1>3, <2>1, DaysAssumption DEF Minted, PersonalAccessToken
<1> HIDE DEF owner
<1>8. \E id \in PatIds \ issued, days \in Days :
        /\ pats' = [pats EXCEPT ![id] = Minted(owner, mint_role(r.role, prin[c].role), start[c], days)]
        /\ issued' = issued \cup {id}
    BY DEF Mint, owner
<1> QED BY <1>1, <1>3, <1>4, <1>5, <1>7, <1>8 DEF owner

(* A revocation ends a token of the caller, or none.                        *)
LEMMA RevokeMeans ==
    ASSUME IInv, NEW c \in Callers, Revoke(c)
    PROVE  /\ Deciding(c, {"revoke"}) /\ Waning
           /\ Finish(c) /\ UNCHANGED <<users, issued, marker, touches>> /\ Observe
           /\ \A id \in PatIds :
                pats'[id] # NULL /\ pats'[id].revoked /\ ~ pats[id].revoked
                    => prin[c].email = pats[id].owner
           /\ \A id \in PatIds : pats'[id] = NULL => pats[id] = NULL
<1> DEFINE id == req[c].id
<1>1. /\ Deciding(c, {"revoke"}) /\ pc[c] = "loaded" /\ req[c].kind = "revoke"
      /\ snap[c].row # NULL
      /\ Finish(c) /\ UNCHANGED <<users, issued, marker, touches>> /\ Observe
      /\ pats' = IF pats[id] = NULL THEN pats ELSE [pats EXCEPT ![id].revoked = TRUE]
    BY DEF Revoke, Deciding, RevokeAccepts
<1>2. /\ TypeOK /\ WellFormed(req[c]) /\ Sure(c)  BY <1>1, UnderWay
<1>3. id \in PatIds  BY <1>1, <1>2 DEF WellFormed, TypeOK
<1>4. pats[id] = NULL \/ pats[id].owner = prin[c].email  BY <1>1, <1>2 DEF Sure
<1>5. CASE pats[id] = NULL  BY <1>1, <1>2, <1>5 DEF Waning, TypeOK
<1>6. CASE pats[id] # NULL
  <2> DEFINE row == [pats[id] EXCEPT !.revoked = TRUE]
  <2>1. pats[id] \in PersonalAccessToken  BY <1>2, <1>3, <1>6 DEF TypeOK
  <2>2. /\ row \in PersonalAccessToken /\ row.revoked /\ row.owner = pats[id].owner
        /\ row.role = pats[id].role /\ row.expires_at = pats[id].expires_at
      BY <2>1 DEF PersonalAccessToken
  <2>3. row # NULL  BY <2>2, NullPatAssumption
  <2>4. pats' = [pats EXCEPT ![id] = row]  BY <1>1, <1>6
  <2> HIDE DEF row
  <2>5. /\ pats' \in [PatIds -> PersonalAccessToken \cup {NULL}]
        /\ pats'[id] = row /\ \A other \in PatIds \ {id} : pats'[other] = pats[other]
      BY <1>2, <1>3, <2>2, <2>4 DEF TypeOK
  <2> HIDE DEF id
  <2>6. Waning  BY <1>1, <1>6, <2>2, <2>3, <2>5 DEF Waning
  <2>7. \A other \in PatIds :
          /\ pats'[other] # NULL /\ pats'[other].revoked /\ ~ pats[other].revoked
                => prin[c].email = pats[other].owner
          /\ pats'[other] = NULL => pats[other] = NULL
      BY <1>4, <1>6, <2>3, <2>5
  <2> QED BY <1>1, <2>6, <2>7
<1> QED BY <1>5, <1>6

(* A unit of the directory leaves no other unsure: they hold other scopes.  *)
LEMMA DirectorySpares ==
    ASSUME IInv, NEW c \in Callers, pc[c] = "loaded", scope(c) = NULL,
           UNCHANGED <<pats, issued>>
    PROVE  Fated /\ Spared(c) /\ \A owner : NoMore(owner)
<1>1. \A d \in Callers \ {c} : pc[d] = "loaded" => scope(d) # NULL  BY DEF IInv, Exclusive
<1>2. \A owner : NoMore(owner)  BY DEF NoMore, ActiveOf
<1>3. Fated  BY DEF IInv, TypeOK, Fated, PersonalAccessToken
<1> QED BY <1>1, <1>2, <1>3 DEF Spared, Untouched

(* The directory is as its unit says, and nothing else has changed.         *)
LEMMA StepChange ==
    ASSUME IInv, NEW c \in Callers, Upsert(c) \/ Delete(c)
    PROVE  IInv'
<1>1. /\ pc[c] = "loaded" /\ scope(c) = NULL /\ Finish(c) /\ Observe
      /\ UNCHANGED <<pats, issued, marker, touches>>
    BY ChangeMeans
<1>2. PICK email \in Emails, row \in UserRecord \cup {NULL} :
        /\ users' = [users EXCEPT ![email] = row]
        /\ row # NULL => row.created_by =
               IF users[email] = NULL THEN "operator" ELSE users[email].created_by
    BY ChangeMeans
<1>3. TypeOK /\ Marked  BY DEF IInv
<1>4. users' \in [Emails -> UserRecord \cup {NULL}]  BY <1>2, <1>3 DEF TypeOK
<1>5. TypeOK'  BY <1>1, <1>3, <1>4, Ends, ObserveNotes DEF TypeOK
<1>6. Marked'  BY <1>1, <1>2, <1>3 DEF Marked, TypeOK
<1>7. /\ Fated /\ Spared(c) /\ OthersWait(c) /\ CallerInv(c)' /\ pc'[c] # "loaded"
      /\ clock' = clock /\ \A owner : NoMore(owner)
    BY <1>1, <1>3, DirectorySpares, Ends
<1>8. TokenLimit'  BY <1>3, <1>7, LimitKept DEF TypeOK
<1> QED BY <1>1, <1>5, <1>6, <1>7, <1>8, Assemble

(* The marker comes with the rows.                                          *)
LEMMA StepSeed ==
    ASSUME IInv, NEW c \in Callers, SeedUsers(c)
    PROVE  IInv'
<1>1. /\ pc[c] = "loaded" /\ scope(c) = NULL /\ Finish(c) /\ Observe
      /\ UNCHANGED <<pats, issued, touches>> /\ marker' = TRUE
      /\ users' \in [Emails -> UserRecord \cup {NULL}]
    BY SeedMeans
<1>2. TypeOK  BY DEF IInv
<1>3. TypeOK'  BY <1>1, <1>2, Ends, ObserveNotes DEF TypeOK
<1>4. Marked'  BY <1>1 DEF Marked
<1>5. /\ Fated /\ Spared(c) /\ OthersWait(c) /\ CallerInv(c)' /\ pc'[c] # "loaded"
      /\ clock' = clock /\ \A owner : NoMore(owner)
    BY <1>1, <1>2, DirectorySpares, Ends
<1>6. TokenLimit'  BY <1>2, <1>5, LimitKept DEF TypeOK
<1> QED BY <1>1, <1>3, <1>4, <1>5, <1>6, Assemble

(* The one token more is within the limit, and of no other owner.           *)
LEMMA StepMint ==
    ASSUME IInv, NEW c \in Callers, Mint(c)
    PROVE  IInv'
<1> DEFINE owner == prin[c].email
<1>1. /\ pc[c] = "loaded" /\ scope(c) = owner /\ owner \in Emails
      /\ Finish(c) /\ UNCHANGED <<users, marker, touches>> /\ Observe
      /\ Cardinality(ActiveOf(pats, owner, clock)) < Limit
    BY MintMeans
<1>2. PICK id \in PatIds \ issued, row \in PersonalAccessToken :
        issued' = issued \cup {id} /\ pats' = [pats EXCEPT ![id] = row] /\ row.owner = owner
    BY MintMeans
<1>3. TypeOK /\ TokenLimit  BY DEF IInv
<1>4. /\ OthersWait(c) /\ CallerInv(c)' /\ pc'[c] # "loaded" /\ clock' = clock
    BY <1>1, <1>3, Ends
<1>5. TypeOK'
  <2>1. /\ pats' \in [PatIds -> PersonalAccessToken \cup {NULL}]
        /\ issued' \subseteq PatIds /\ \A i \in PatIds \ issued' : pats'[i] = NULL
      BY <1>2, <1>3 DEF TypeOK
  <2> HIDE DEF owner
  <2> QED BY <1>1, <1>3, <2>1, Ends, ObserveNotes DEF TypeOK
<1>6. Marked'  BY <1>1 DEF IInv, Marked
<1>7. \A other : other # owner => NoMore(other)
    BY <1>2, <1>3 DEF NoMore, ActiveOf, TypeOK
<1>8. Fated  BY <1>2, <1>3 DEF Fated, TypeOK, PersonalAccessToken
<1>9. Spared(c)
  <2>1. \A d \in Callers \ {c} : pc[d] = "loaded" => scope(d) # owner
      BY <1>1 DEF IInv, Exclusive
  <2> QED BY <1>1, <1>7, <2>1 DEF Spared, Untouched
<1>10. TokenLimit'
  <2> SUFFICES ASSUME NEW other \in Emails
               PROVE  Cardinality(ActiveOf(pats', other, clock)) <= Limit
      BY <1>4 DEF TokenLimit
  <2> DEFINE before == ActiveOf(pats, other, clock)
             after == ActiveOf(pats', other, clock)
  <2>1. IsFiniteSet(before) /\ Cardinality(before) \in Nat /\ Cardinality(after) \in Nat
      BY ActiveFinite
  <2>2. CASE other = owner
    <3>1. after \subseteq before \cup {id}  BY <1>2, <1>3 DEF ActiveOf, TypeOK
    <3>2. /\ IsFiniteSet(before \cup {id})
          /\ Cardinality(before \cup {id}) <= Cardinality(before) + 1
          /\ Cardinality(before \cup {id}) \in Nat
      <4> HIDE DEF before
      <4>1. /\ IsFiniteSet(before \cup {id})
            /\ \/ Cardinality(before \cup {id}) = Cardinality(before)
               \/ Cardinality(before \cup {id}) = Cardinality(before) + 1
          BY <2>1, FS_AddElement
      <4> QED BY <2>1, <4>1
    <3>3. Cardinality(after) <= Cardinality(before \cup {id})
      <4> HIDE DEF before, after
      <4> QED BY <3>1, <3>2, FS_Subset
    <3>4. Cardinality(before) < Limit  BY <1>1, <2>2
    <3> HIDE DEF before, after
    <3> QED BY <2>1, <3>2, <3>3, <3>4, LimitAssumption DEF after
  <2>3. CASE other # owner
    <3>1. after \subseteq before  BY <1>3, <1>7, <2>3 DEF NoMore, TypeOK
    <3>2. Cardinality(after) <= Cardinality(before)  BY <3>1, ActiveFinite
    <3>3. Cardinality(before) <= Limit  BY <1>3 DEF TokenLimit
    <3> HIDE DEF before, after
    <3> QED BY <2>1, <3>2, <3>3, LimitAssumption DEF after
  <2> QED BY <2>2, <2>3
<1> HIDE DEF owner
<1> QED BY <1>1, <1>4, <1>5, <1>6, <1>8, <1>9, <1>10, Assemble

(* A revocation only ends a token.                                          *)
LEMMA StepRevoke ==
    ASSUME IInv, NEW c \in Callers, Revoke(c)
    PROVE  IInv'
<1>1. /\ Waning /\ Finish(c) /\ UNCHANGED <<users, issued, marker, touches>> /\ Observe
      /\ \A id \in PatIds : pats'[id] = NULL => pats[id] = NULL
    BY RevokeMeans
<1>2. TypeOK  BY DEF IInv
<1>3. /\ OthersWait(c) /\ CallerInv(c)' /\ pc'[c] # "loaded" /\ clock' = clock
    BY <1>1, <1>2, Ends
<1>4. TypeOK'
  <2>1. /\ pats' \in [PatIds -> PersonalAccessToken \cup {NULL}]
        /\ issued' \subseteq PatIds /\ \A i \in PatIds \ issued' : pats'[i] = NULL
      BY <1>1, <1>2 DEF TypeOK, Waning
  <2> QED BY <1>1, <1>2, <2>1, Ends, ObserveNotes DEF TypeOK
<1>5. Marked'  BY <1>1 DEF IInv, Marked
<1>6. Fated /\ \A owner : NoMore(owner)  BY <1>1, Wane
<1>7. Spared(c)  BY <1>1, <1>6 DEF Spared, Untouched
<1>8. TokenLimit'  BY <1>2, <1>3, <1>6, LimitKept DEF TypeOK
<1> QED BY <1>1, <1>3, <1>4, <1>5, <1>6, <1>7, <1>8, Assemble

-----------------------------------------------------------------------------
(* Outside requests.                                                        *)

(* A touch writes one column, the sweep deletes rows.                       *)
LEMMA TouchMeans ==
    ASSUME IInv, NEW touch \in touches, Touch(touch)
    PROVE  /\ Waning /\ \A id \in PatIds : pats'[id] = NULL => pats[id] = NULL
           /\ \A id \in PatIds : pats[id] # NULL => pats'[id].revoked = pats[id].revoked
<1>1. /\ TypeOK /\ touch \in [id : PatIds, now : 0 .. clock] /\ clock \in Nat
      /\ pats' = Touched(pats, touch) \/ pats' = pats
      /\ issued' = issued
    BY DEF IInv, TypeOK, Touch
<1>2. CASE pats' = pats  BY <1>1, <1>2 DEF Waning, TypeOK
<1>3. CASE pats' # pats
  <2> DEFINE id == touch.id
             row == [pats[id] EXCEPT !.last_used_at = touch.now]
  <2>1. pats' = [pats EXCEPT ![id] = row] /\ pats[id] # NULL /\ id \in PatIds
      BY <1>1, <1>3 DEF Touched
  <2>2. pats[id] \in PersonalAccessToken  BY <1>1, <2>1 DEF TypeOK
  <2>3. /\ row \in PersonalAccessToken /\ row.revoked = pats[id].revoked
        /\ row.owner = pats[id].owner /\ row.role = pats[id].role
        /\ row.expires_at = pats[id].expires_at
    <3>1. touch.now \in Int  BY <1>1
    <3> HIDE DEF id
    <3> QED BY <2>2, <3>1 DEF PersonalAccessToken
  <2>4. row # NULL  BY <2>3, NullPatAssumption
  <2> HIDE DEF row
  <2>5. /\ pats' \in [PatIds -> PersonalAccessToken \cup {NULL}]
        /\ pats'[id] = row /\ \A other \in PatIds \ {id} : pats'[other] = pats[other]
      BY <1>1, <2>1, <2>3 DEF TypeOK
  <2> HIDE DEF id
  <2> QED BY <1>1, <2>1, <2>3, <2>4, <2>5 DEF Waning
<1> QED BY <1>2, <1>3

(* The sweep deletes what has expired.                                      *)
LEMMA ReapMeans ==
    ASSUME IInv, NEW before \in 0 .. clock, Reap(before)
    PROVE  /\ Waning
           /\ \A id \in PatIds :
                pats'[id] = pats[id] \/ (pats'[id] = NULL /\ pats[id].expires_at < clock)
<1>1. TypeOK /\ clock \in Nat /\ pats' = Reaped(pats, before) /\ issued' = issued
    BY DEF IInv, TypeOK, Reap
<1>2. \A id \in PatIds : pats[id] # NULL => pats[id].expires_at \in Nat
    BY <1>1 DEF TypeOK, PersonalAccessToken
<1> QED BY <1>1, <1>2 DEF Reaped, Waning, TypeOK

(* The invariant after a step of no request.                                *)
LEMMA Background ==
    ASSUME IInv, UNCHANGED <<users, marker, callers>>, Waning, Observe,
           touches' \subseteq [id : PatIds, now : 0 .. clock'],
           clock' \in Nat, clock <= clock'
    PROVE  IInv'
<1>1. TypeOK  BY DEF IInv
<1>2. Fated /\ \A owner : NoMore(owner)  BY Wane
<1>3. \A d \in Callers : Waits(d) /\ Untouched(d)
    BY <1>2 DEF Waits, Untouched, callers
<1>4. TypeOK'
  <2>1. /\ pats' \in [PatIds -> PersonalAccessToken \cup {NULL}]
        /\ issued' \subseteq PatIds /\ \A i \in PatIds \ issued' : pats'[i] = NULL
      BY <1>1 DEF TypeOK, Waning
  <2>2. start' \in [Callers -> 0 .. clock']
    <3>1. clock \in Nat /\ 0 .. clock \subseteq 0 .. clock'  BY <1>1 DEF TypeOK
    <3> QED BY <1>1, <3>1 DEF TypeOK, callers
  <2> QED BY <1>1, <2>1, <2>2, ObserveNotes DEF TypeOK, callers
<1>5. \A d \in Callers : CallerInv(d)'  BY <1>2, <1>3, <1>4, CallerKept
<1>6. Exclusive'
  <2>1. \A d \in Callers : scope(d)' = scope(d) /\ pc'[d] = pc[d]  BY DEF scope, callers
  <2> QED BY <2>1 DEF IInv, Exclusive
<1>7. Marked'  BY DEF IInv, Marked
<1>8. TokenLimit'  BY <1>2, LimitKept
<1> QED BY <1>4, <1>5, <1>6, <1>7, <1>8 DEF IInv

(* Touches, the sweep and time leave every request where it is.             *)
LEMMA StepBackground ==
    ASSUME IInv, (\E touch \in touches : Touch(touch)) \/ (\E before \in 0 .. clock : Reap(before)) \/ Tick
    PROVE  IInv'
<1>1. /\ clock \in Nat /\ touches \subseteq [id : PatIds, now : 0 .. clock]
      /\ pats \in [PatIds -> PersonalAccessToken \cup {NULL}]
    BY DEF IInv, TypeOK
<1>2. ASSUME NEW touch \in touches, Touch(touch)  PROVE IInv'
  <2>1. Waning  BY <1>2, TouchMeans
  <2> QED BY <1>1, <1>2, <2>1, Background DEF Touch
<1>3. ASSUME NEW before \in 0 .. clock, Reap(before)  PROVE IInv'
  <2>1. Waning  BY <1>3, ReapMeans
  <2> QED BY <1>1, <1>3, <2>1, Background DEF Reap
<1>4. ASSUME Tick  PROVE IInv'
  <2>1. clock' = clock + 1 /\ UNCHANGED <<store, callers, touches>> /\ Observe  BY <1>4 DEF Tick
  <2>2. Waning  BY <1>1, <2>1 DEF Waning, store
  <2>3. clock' \in Nat /\ clock <= clock' /\ 0 .. clock \subseteq 0 .. clock'  BY <1>1, <2>1
  <2>4. touches' \subseteq [id : PatIds, now : 0 .. clock']  BY <1>1, <2>1, <2>3
  <2> QED BY <2>1, <2>2, <2>3, <2>4, Background DEF store
<1> QED BY <1>2, <1>3, <1>4

-----------------------------------------------------------------------------
(* The inductive invariant holds.                                           *)

(* An empty platform.                                                       *)
LEMMA InitIInv == Init => IInv
<1> SUFFICES ASSUME Init  PROVE IInv
    OBVIOUS
<1>1. TypeOK
  <2>1. Nobody \in [email : Emails \cup {NULL}, role : Role]  BY DEF Nobody, Role
  <2>2. /\ users \in [Emails -> UserRecord \cup {NULL}]
        /\ pats \in [PatIds -> PersonalAccessToken \cup {NULL}]
        /\ issued = {} /\ touches = {} /\ marker \in BOOLEAN /\ clock = 0
        /\ \A id \in PatIds : pats[id] = NULL
      BY DEF Init
  <2>3. /\ pc \in [Callers -> {"idle"}] /\ req \in [Callers -> {NULL}]
        /\ prin \in [Callers -> {Nobody}] /\ start \in [Callers -> {0}]
        /\ snap \in [Callers -> {NULL}] /\ grounds \in [Callers -> {{}}]
      BY DEF Init
  <2>4. \A c \in Callers : pc[c] = "idle" /\ req[c] = NULL  BY DEF Init
  <2>5. /\ pc \in [Callers -> {"idle", "lookup", "owner", "resolve", "served", "current",
                              "queued", "loaded"}]
        /\ req \in [Callers -> Request \cup {NULL}]
        /\ prin \in [Callers -> [email : Emails \cup {NULL}, role : Role]]
        /\ snap \in [Callers -> Snapshot \cup {NULL}]
        /\ grounds \in [Callers -> SUBSET {"token", "role"}]
      BY <2>1, <2>3
  <2>6. start \in [Callers -> 0 .. clock]  BY <2>2, <2>3
  <2> QED BY <2>2, <2>4, <2>5, <2>6 DEF TypeOK
<1>2. Exclusive /\ Marked  BY DEF Init, Exclusive, Marked
<1>3. TokenLimit
  <2>1. \A owner : ActiveOf(pats, owner, clock) = {}  BY DEF Init, ActiveOf, Active
  <2> QED BY <2>1, FS_EmptySet, LimitAssumption DEF TokenLimit
<1>4. \A c \in Callers : CallerInv(c)  BY DEF Init, CallerInv
<1> QED BY <1>1, <1>2, <1>3, <1>4 DEF IInv

(* Steps of no action.                                                      *)
LEMMA StillIInv == IInv /\ UNCHANGED vars => IInv'
<1> SUFFICES ASSUME IInv, UNCHANGED vars  PROVE IInv'
    OBVIOUS
<1>1. UNCHANGED <<users, pats, issued, marker, clock, pc, req, prin, start, snap, touches, grounds>>
    BY DEF vars, store, callers
<1>2. TypeOK'  BY <1>1 DEF IInv, TypeOK
<1>3. Exclusive' /\ Marked'  BY <1>1 DEF IInv, Exclusive, Marked, scope
<1>4. TokenLimit'  BY <1>1 DEF IInv, TokenLimit, ActiveOf
<1>5. \A c \in Callers : CallerInv(c)'
  <2> SUFFICES ASSUME NEW c \in Callers, req[c] # NULL  PROVE CallerInv(c)'
      BY <1>1 DEF CallerInv
  <2>1. WellFormed(req[c])'  BY <1>1 DEF IInv, CallerInv, WellFormed
  <2>2. Placed(c)'  BY <1>1 DEF IInv, CallerInv, Placed
  <2>3. pc[c] = "loaded" => Sure(c)'
      BY <1>1 DEF IInv, CallerInv, Sure, directory_reads, ActivePlatformAdmins, ActiveOf
  <2>4. Noted(c)'
    <3>1. Entitlements(c)' = Entitlements(c)
        BY <1>1 DEF Entitlements, TokenLives, RoleSuffices
    <3> QED BY <1>1, <3>1 DEF IInv, CallerInv, Noted
  <2> QED BY <1>1, <2>1, <2>2, <2>3, <2>4 DEF CallerInv
<1> QED BY <1>2, <1>3, <1>4, <1>5 DEF IInv

(* Every action keeps the invariant.                                        *)
LEMMA NextIInv == IInv /\ [Next]_vars => IInv'
<1> SUFFICES ASSUME IInv, [Next]_vars  PROVE IInv'
    OBVIOUS
<1>1. ASSUME NEW c \in Callers, NEW r \in Requests, Receive(c, r)  PROVE IInv'
    BY <1>1, StepReceive
<1>2. ASSUME NEW c \in Callers, Authorize(c)  PROVE IInv'
  <2>1. CASE Lookup(c)  BY <2>1, StepLookup
  <2>2. CASE Owner(c)  BY <2>2, StepOwner
  <2>3. CASE Resolve(c)  BY <2>3, StepResolve
  <2>4. CASE Refuse(c)  BY <2>4, EndsQuietly DEF Refuse
  <2>5. CASE Serve(c)  BY <2>5, EndsQuietly DEF Serve
  <2>6. CASE Current(c)  BY <2>6, StepCurrent
  <2> QED BY <1>2, <2>1, <2>2, <2>3, <2>4, <2>5, <2>6 DEF Authorize
<1>3. ASSUME NEW c \in Callers, Unit(c)  PROVE IInv'
  <2>1. CASE Load(c)  BY <2>1, StepLoad
  <2>2. CASE Upsert(c) \/ Delete(c)  BY <2>2, StepChange
  <2>3. CASE SeedUsers(c)  BY <2>3, StepSeed
  <2>4. CASE Mint(c)  BY <2>4, StepMint
  <2>5. CASE Revoke(c)  BY <2>5, StepRevoke
  <2>6. CASE Reject(c)  BY <2>6, EndsQuietly DEF Reject
  <2> QED BY <1>3, <2>1, <2>2, <2>3, <2>4, <2>5, <2>6 DEF Unit
<1>4. ASSUME NEW c \in Callers, Abandon(c)  PROVE IInv'
    BY <1>4, EndsQuietly DEF Abandon
<1>5. CASE UNCHANGED vars  BY <1>5, StillIInv
<1> QED BY <1>1, <1>2, <1>3, <1>4, <1>5, StepBackground DEF Next

(* The inductive invariant of Directory: TypeOK, TokenLimit, one holder per *)
(* scope, rows of the seed only with its marker, and of each request its    *)
(* place, its grounds and that what its unit has read is still so.          *)
THEOREM DirectoryInvariant == Spec => []IInv
<1> QED BY InitIInv, NextIInv, PTL DEF Spec

(* TypeOK, for any callers, people, tokens, requests and configuration.     *)
THEOREM DirectoryTyped == Spec => []TypeOK
<1>1. IInv => TypeOK  BY DEF IInv
<1> QED BY <1>1, DirectoryInvariant, PTL

(* TokenLimit: an owner never holds more live tokens than the limit.        *)
THEOREM TokensWithinLimit == Spec => []TokenLimit
<1>1. IInv => TokenLimit  BY DEF IInv
<1> QED BY <1>1, DirectoryInvariant, PTL

(* ServedOnGrounds: nothing passes that was not entitled to, token and role *)
(* each at some instant since it came.                                      *)
THEOREM OnlyOnGrounds == Spec => []ServedOnGrounds
<1>1. IInv => ServedOnGrounds
  <2> SUFFICES ASSUME IInv, NEW c \in Callers, req[c] # NULL,
                      req[c].method \in {"pat", "oidc", "bearer"},
                      pc[c] \in {"served", "queued", "loaded"}
               PROVE  grounds[c] = {"token", "role"}
      BY DEF ServedOnGrounds
  <2> QED BY DEF IInv, CallerInv, Noted
<1> QED BY <1>1, DirectoryInvariant, PTL

-----------------------------------------------------------------------------
(* What a step may do to the tables, and the properties of steps.           *)

(* Every other step leaves the tables and the time.                         *)
LEMMA Steps ==
    ASSUME [Next]_vars
    PROVE  \/ UNCHANGED <<users, pats, issued, marker, clock>>
           \/ \E c \in Callers : Upsert(c) \/ Delete(c)
           \/ \E c \in Callers : SeedUsers(c)
           \/ \E c \in Callers : Mint(c)
           \/ \E c \in Callers : Revoke(c)
           \/ \E touch \in touches : Touch(touch)
           \/ \E before \in 0 .. clock : Reap(before)
           \/ Tick
<1> DEFINE Quiet == UNCHANGED <<users, pats, issued, marker, clock>>
<1>1. ASSUME NEW c \in Callers, NEW r \in Requests, Receive(c, r)  PROVE Quiet
    BY <1>1 DEF Receive, store
<1>2. ASSUME NEW c \in Callers, Finish(c), UNCHANGED store  PROVE Quiet
    BY <1>2 DEF Finish, store
<1>3. ASSUME NEW c \in Callers, Authorize(c)  PROVE Quiet
    BY <1>3 DEF Authorize, Lookup, Owner, Resolve, Refuse, Serve, Current, Finish, store
<1>4. ASSUME NEW c \in Callers, Load(c) \/ Reject(c) \/ Abandon(c)  PROVE Quiet
    BY <1>4 DEF Load, Reject, Abandon, Finish, store
<1>5. CASE UNCHANGED vars  BY <1>5 DEF vars, store
<1> HIDE DEF Quiet
<1> QED BY <1>1, <1>3, <1>4, <1>5 DEF Next, Unit, Quiet

(* One admin comes or goes, and one remains.                                *)
LEMMA ChangeAdmins ==
    ASSUME IInv, NEW c \in Callers, Upsert(c) \/ Delete(c)
    PROVE  LET admins == ActivePlatformAdmins(users) IN
           /\ \E p \in Emails : \/ ActivePlatformAdmins(users') = admins \cup {p}
                                \/ ActivePlatformAdmins(users') = admins \ {p}
           /\ admins # {} => ActivePlatformAdmins(users') # {}
<1> DEFINE before == ActivePlatformAdmins(users)
           after == ActivePlatformAdmins(users')
<1>1. PICK email \in Emails, row \in UserRecord \cup {NULL} :
        /\ users' = [users EXCEPT ![email] = row]
        /\ IsPlatformAdmin(users[email]) /\ ~ IsPlatformAdmin(row) => Cardinality(before) > 1
    BY ChangeMeans
<1>2. users \in [Emails -> UserRecord \cup {NULL}]  BY DEF IInv, TypeOK
<1>3. after = IF IsPlatformAdmin(row) THEN before \cup {email} ELSE before \ {email}
    BY <1>1, <1>2 DEF ActivePlatformAdmins
<1>4. IsPlatformAdmin(users[email]) <=> email \in before  BY DEF ActivePlatformAdmins
<1>5. IsFiniteSet(before) /\ Cardinality(before) \in Nat  BY AdminsFinite
<1> HIDE DEF before, after
<1>6. before # {} => after # {}
  <2> SUFFICES ASSUME before # {}, after = {}  PROVE FALSE
      OBVIOUS
  <2>1. before = {email} /\ ~ IsPlatformAdmin(row)  BY <1>3
  <2>2. Cardinality(before) = 1  BY <2>1, FS_Singleton
  <2> QED BY <1>1, <1>4, <2>1, <2>2
<1> QED BY <1>3, <1>6 DEF before, after

(* The seed dismisses nobody.                                               *)
LEMMA SeedAdmins ==
    ASSUME IInv, NEW c \in Callers, SeedUsers(c)
    PROVE  ActivePlatformAdmins(users) \subseteq ActivePlatformAdmins(users')
<1>1. \A e \in Emails : users[e] # NULL => users'[e] = users[e]  BY SeedMeans
<1> QED BY <1>1 DEF ActivePlatformAdmins, IsPlatformAdmin

(* AdminRemains: a directory that has an active platform admin is never     *)
(* left without one, whatever admins, commands and seeds do at once.        *)
THEOREM AnAdminRemains == Spec => AdminRemains
<1>1. ASSUME IInv, [Next]_vars
      PROVE  ActivePlatformAdmins(users) # {} => ActivePlatformAdmins(users)' # {}
  <2>1. CASE users' = users  BY <2>1 DEF ActivePlatformAdmins
  <2>2. ASSUME NEW c \in Callers, Upsert(c) \/ Delete(c)
        PROVE  ActivePlatformAdmins(users) # {} => ActivePlatformAdmins(users') # {}
      BY <1>1, <2>2, ChangeAdmins
  <2>3. ASSUME NEW c \in Callers, SeedUsers(c)
        PROVE  ActivePlatformAdmins(users) # {} => ActivePlatformAdmins(users') # {}
      BY <1>1, <2>3, SeedAdmins
  <2>4. ActivePlatformAdmins(users)' = ActivePlatformAdmins(users')
      BY DEF ActivePlatformAdmins
  <2> QED BY <1>1, <2>1, <2>2, <2>3, <2>4, Steps DEF Mint, Revoke, Touch, Reap, Tick, store
<1> QED BY <1>1, DirectoryInvariant, PTL DEF Spec, AdminRemains

(* SeedsOnce: the rows of the seed come in one step, once, and later        *)
(* changes of them are of rows that are there.                              *)
THEOREM TheSeedRunsOnce == Spec => SeedsOnce
<1> DEFINE Once ==
        /\ marker => marker'
        /\ \A e \in Emails :
             users'[e] # NULL /\ users'[e].created_by = "bootstrap" /\ users'[e] # users[e]
             => IF users[e] = NULL THEN ~ marker /\ marker'
                ELSE users[e].created_by = "bootstrap" /\ marker
<1>1. ASSUME IInv, [Next]_vars  PROVE Once
  <2>1. CASE users' = users /\ marker' = marker  BY <2>1
  <2>2. ASSUME NEW c \in Callers, Upsert(c) \/ Delete(c)  PROVE Once
    <3>1. marker' = marker /\ Marked /\ users \in [Emails -> UserRecord \cup {NULL}]
        BY <1>1, <2>2, ChangeMeans DEF IInv, TypeOK
    <3>2. PICK email \in Emails, row \in UserRecord \cup {NULL} :
            /\ users' = [users EXCEPT ![email] = row]
            /\ row # NULL => row.created_by =
                   IF users[email] = NULL THEN "operator" ELSE users[email].created_by
        BY <1>1, <2>2, ChangeMeans
    <3> QED BY <3>1, <3>2 DEF Marked
  <2>3. ASSUME NEW c \in Callers, SeedUsers(c)  PROVE Once
      BY <1>1, <2>3, SeedMeans
  <2> QED BY <1>1, <2>1, <2>2, <2>3, Steps DEF Mint, Revoke, Touch, Reap, Tick, store
<1> QED BY <1>1, DirectoryInvariant, PTL DEF Spec, SeedsOnce

(* TokenFate: nothing but a reap takes a token away, and that after its     *)
(* expiry; nothing but its owner's revocation ends it before.               *)
THEOREM TokensMeetTheirFate == Spec => TokenFate
<1> DEFINE Fates ==
      \A id \in issued :
        IF pats'[id] = NULL THEN pats[id] # NULL => pats[id].expires_at < clock
        ELSE /\ pats[id] # NULL
             /\ \A col \in {"owner", "role", "expires_at"} : pats'[id][col] = pats[id][col]
             /\ pats[id].revoked => pats'[id].revoked
             /\ pats'[id].revoked /\ ~ pats[id].revoked
                => \E c \in Callers :
                       Deciding(c, {"revoke"}) /\ prin[c].email = pats[id].owner
<1>1. ASSUME IInv, [Next]_vars  PROVE Fates
  <2>1. issued \subseteq PatIds  BY <1>1 DEF IInv, TypeOK
  <2>2. CASE pats' = pats  BY <2>2
  <2>3. ASSUME NEW c \in Callers, Mint(c)  PROVE Fates
    <3>1. PICK id \in PatIds \ issued, row \in PersonalAccessToken :
            pats' = [pats EXCEPT ![id] = row]
        BY <1>1, <2>3, MintMeans
    <3>2. \A other \in issued : pats'[other] = pats[other]
        BY <1>1, <2>1, <3>1 DEF IInv, TypeOK
    <3> QED BY <3>2
  <2>4. ASSUME NEW c \in Callers, Revoke(c)  PROVE Fates
    <3>1. /\ Deciding(c, {"revoke"}) /\ Waning
          /\ \A id \in PatIds :
               pats'[id] # NULL /\ pats'[id].revoked /\ ~ pats[id].revoked
                   => prin[c].email = pats[id].owner
          /\ \A id \in PatIds : pats'[id] = NULL => pats[id] = NULL
        BY <1>1, <2>4, RevokeMeans
    <3> QED BY <2>1, <3>1 DEF Waning
  <2>5. ASSUME NEW touch \in touches, Touch(touch)  PROVE Fates
    <3>1. /\ Waning /\ \A id \in PatIds : pats'[id] = NULL => pats[id] = NULL
          /\ \A id \in PatIds : pats[id] # NULL => pats'[id].revoked = pats[id].revoked
        BY <1>1, <2>5, TouchMeans
    <3> QED BY <2>1, <3>1 DEF Waning
  <2>6. ASSUME NEW before \in 0 .. clock, Reap(before)  PROVE Fates
    <3>1. \A id \in PatIds :
            pats'[id] = pats[id] \/ (pats'[id] = NULL /\ pats[id].expires_at < clock)
        BY <1>1, <2>6, ReapMeans
    <3> QED BY <2>1, <3>1
  <2> HIDE DEF Fates
  <2>7. ASSUME NEW c \in Callers, Upsert(c) \/ Delete(c) \/ SeedUsers(c)  PROVE pats' = pats
      BY <2>7 DEF Upsert, Delete, SeedUsers
  <2>8. Tick => pats' = pats  BY DEF Tick, store
  <2> QED BY <1>1, <2>2, <2>3, <2>4, <2>5, <2>6, <2>7, <2>8, Steps
<1> QED BY <1>1, DirectoryInvariant, PTL DEF Spec, TokenFate

-----------------------------------------------------------------------------
(* The contract is implemented.                                             *)

Live == [owner \in Emails |-> ActiveOf(pats, owner, clock)]

(* Nothing that the contract speaks of has changed.                         *)
LEMMA ContractStutters ==
    ASSUME UNCHANGED <<users, marker>>, Live' = Live
    PROVE  UNCHANGED Contract!vars
BY DEF Contract!vars, Live, ActivePlatformAdmins

(* Tokens that end, by revocation, reap or the passing of time.             *)
LEMMA ContractEnd ==
    ASSUME IInv, UNCHANGED <<users, marker>>, clock' \in Nat, clock <= clock', Waning
    PROVE  [Contract!Next]_(Contract!vars)
<1>1. \A owner \in Emails : ActiveOf(pats', owner, clock') \subseteq ActiveOf(pats, owner, clock)
    BY DEF ActiveOf, Active, Waning, IInv, TypeOK, PersonalAccessToken
<1>2. Live' = [owner \in Emails |-> ActiveOf(pats', owner, clock')]  BY DEF Live
<1>3. Live' \in [Emails -> SUBSET PatIds]  BY <1>2 DEF ActiveOf
<1>4. \A owner \in Emails : Live'[owner] \subseteq Live[owner]  BY <1>1, <1>2 DEF Live
<1>5. Contract!End  BY <1>3, <1>4 DEF Contract!End, Live
<1>6. ActivePlatformAdmins(users)' = ActivePlatformAdmins(users)  BY DEF ActivePlatformAdmins
<1>7. CASE Live' = Live  BY <1>7, ContractStutters
<1>8. CASE Live' # Live  BY <1>5, <1>6, <1>8 DEF Contract!Next, Contract!Hold, Live
<1> QED BY <1>7, <1>8

(* A token that is minted is nobody's, and its owner had fewer than Limit.  *)
LEMMA ContractMint ==
    ASSUME IInv, NEW c \in Callers, Mint(c)
    PROVE  [Contract!Next]_(Contract!vars)
<1> DEFINE owner == prin[c].email
<1>1. /\ owner \in Emails /\ UNCHANGED <<users, marker>> /\ Finish(c)
      /\ Cardinality(ActiveOf(pats, owner, clock)) < Limit
    BY MintMeans
<1>2. PICK id \in PatIds \ issued, row \in PersonalAccessToken :
        pats' = [pats EXCEPT ![id] = row] /\ row.owner = owner
    BY MintMeans
<1>3. /\ clock' = clock /\ pats[id] = NULL /\ row # NULL
      /\ pats \in [PatIds -> PersonalAccessToken \cup {NULL}]
    BY <1>1, <1>2, NullPatAssumption DEF IInv, TypeOK, Finish
<1> HIDE DEF owner
<1>4. \A p \in Emails : id \notin Live[p]  BY <1>3 DEF Live, ActiveOf, Active
<1>5. \A p \in Emails :
        Live'[p] = IF p = owner /\ Active(row, clock) THEN Live[p] \cup {id} ELSE Live[p]
  <2>1. \A p \in Emails : Live'[p] = ActiveOf(pats', p, clock) /\ Live[p] = ActiveOf(pats, p, clock)
      BY <1>3 DEF Live
  <2>2. ~ Active(pats[id], clock) /\ pats'[id] = row  BY <1>2, <1>3 DEF Active
  <2>3. \A t \in PatIds \ {id} : pats'[t] = pats[t]  BY <1>2, <1>3
  <2>4. \A p \in Emails, t \in PatIds :
          t \in ActiveOf(pats', p, clock) <=>
              t \in ActiveOf(pats, p, clock) \/ (t = id /\ p = owner /\ Active(row, clock))
      BY <1>2, <2>2, <2>3 DEF ActiveOf
  <2> SUFFICES ASSUME NEW p \in Emails
               PROVE  Live'[p] = IF p = owner /\ Active(row, clock) THEN Live[p] \cup {id}
                                 ELSE Live[p]
      OBVIOUS
  <2>5. Live'[p] \subseteq PatIds /\ Live[p] \subseteq PatIds  BY <2>1 DEF ActiveOf
  <2>6. \A t \in PatIds :
          t \in Live'[p] <=> t \in Live[p] \/ (t = id /\ p = owner /\ Active(row, clock))
      BY <2>1, <2>4
  <2> QED BY <2>5, <2>6, id \in PatIds
<1>6. Live' = [p \in Emails |-> Live'[p]] /\ Live = [p \in Emails |-> Live[p]]  BY DEF Live
<1>7. CASE ~ Active(row, clock)  BY <1>1, <1>5, <1>6, <1>7, ContractStutters
<1>8. CASE Active(row, clock)
  <2>1. Live' = [Live EXCEPT ![owner] = @ \cup {id}]  BY <1>1, <1>5, <1>6, <1>8
  <2>2. Cardinality(Live[owner]) < Limit  BY <1>1 DEF Live
  <2>3. Contract!Mint
    <3>1. Contract!Cardinality(Live[owner]) = Cardinality(Live[owner])
        BY DEF Contract!Cardinality, Cardinality
    <3>2. \E p \in Emails, t \in PatIds :
            /\ Contract!Cardinality(Live[p]) < Limit /\ \A q \in Emails : t \notin Live[q]
            /\ Live' = [Live EXCEPT ![p] = Live[p] \cup {t}]
        BY <1>1, <1>2, <1>4, <2>1, <2>2, <3>1
    <3> QED BY <3>2 DEF Contract!Mint, Live
  <2>4. Live' # Live  BY <1>1, <1>4, <1>5, <1>8
  <2>5. ActivePlatformAdmins(users)' = ActivePlatformAdmins(users)
      BY <1>1 DEF ActivePlatformAdmins
  <2> QED BY <1>1, <2>3, <2>4, <2>5 DEF Contract!Next, Contract!Hold, Live
<1> QED BY <1>7, <1>8

(* A unit of the directory appoints or dismisses one, or seeds.             *)
LEMMA ContractDirectory ==
    ASSUME IInv, NEW c \in Callers, Upsert(c) \/ Delete(c) \/ SeedUsers(c)
    PROVE  [Contract!Next]_(Contract!vars)
<1>1. ActivePlatformAdmins(users)' = ActivePlatformAdmins(users')  BY DEF ActivePlatformAdmins
<1>2. ASSUME Finish(c), UNCHANGED pats  PROVE Live' = Live
    BY <1>2 DEF Live, ActiveOf, Finish
<1>3. CASE Upsert(c) \/ Delete(c)
  <2>1. Finish(c) /\ UNCHANGED <<pats, marker>>  BY <1>3, ChangeMeans
  <2>2. Live' = Live  BY <1>2, <2>1
  <2>3. /\ \E p \in Emails :
             \/ ActivePlatformAdmins(users') = ActivePlatformAdmins(users) \cup {p}
             \/ ActivePlatformAdmins(users') = ActivePlatformAdmins(users) \ {p}
        /\ ActivePlatformAdmins(users) # {} => ActivePlatformAdmins(users') # {}
      BY <1>3, ChangeAdmins
  <2>4. CASE ActivePlatformAdmins(users') = ActivePlatformAdmins(users)
      BY <1>1, <2>1, <2>2, <2>4 DEF Contract!vars, Live
  <2>5. CASE ActivePlatformAdmins(users') # ActivePlatformAdmins(users)
      BY <1>1, <2>1, <2>2, <2>3, <2>5 DEF Contract!Next, Contract!Change, Live
  <2> QED BY <2>4, <2>5
<1>4. CASE SeedUsers(c)
  <2>1. Finish(c) /\ UNCHANGED pats /\ ~ marker /\ marker' = TRUE  BY <1>4, SeedMeans
  <2>2. Live' = Live  BY <1>2, <2>1
  <2>3. ActivePlatformAdmins(users) \subseteq ActivePlatformAdmins(users')  BY <1>4, SeedAdmins
  <2>4. ActivePlatformAdmins(users') \subseteq Emails  BY DEF ActivePlatformAdmins
  <2> QED BY <1>1, <2>1, <2>2, <2>3, <2>4 DEF Contract!Next, Contract!Seed, Live
<1> QED BY <1>3, <1>4

(* ContractSpec: requests, units, touches, reaps and clocks implement       *)
(* PlatformContract, whose admins, seed and live tokens are read off the    *)
(* tables.                                                                  *)
THEOREM ImplementsContract == Spec => ContractSpec
<1>1. Init => Contract!Init
  <2> SUFFICES ASSUME Init  PROVE Contract!Init
      OBVIOUS
  <2>1. ActivePlatformAdmins(users) = {}
      BY DEF Init, ActivePlatformAdmins, IsPlatformAdmin
  <2>2. \A owner \in Emails : ActiveOf(pats, owner, clock) = {}  BY DEF Init, ActiveOf, Active
  <2> QED BY <2>1, <2>2 DEF Init, Contract!Init
<1>2. ASSUME IInv, [Next]_vars  PROVE [Contract!Next]_(Contract!vars)
  <2>1. clock \in Nat /\ clock <= clock  BY <1>2 DEF IInv, TypeOK
  <2>2. CASE UNCHANGED <<users, pats, issued, marker, clock>>
    <3>1. Live' = Live  BY <2>2 DEF Live, ActiveOf
    <3> QED BY <2>2, <3>1, ContractStutters
  <2>3. ASSUME NEW c \in Callers, Revoke(c)  PROVE [Contract!Next]_(Contract!vars)
    <3>1. Waning /\ Finish(c) /\ UNCHANGED <<users, marker>>  BY <1>2, <2>3, RevokeMeans
    <3> QED BY <1>2, <2>1, <3>1, ContractEnd DEF Finish
  <2>4. ASSUME NEW touch \in touches, Touch(touch)  PROVE [Contract!Next]_(Contract!vars)
    <3>1. Waning  BY <1>2, <2>4, TouchMeans
    <3> QED BY <1>2, <2>1, <2>4, <3>1, ContractEnd DEF Touch
  <2>5. ASSUME NEW before \in 0 .. clock, Reap(before)  PROVE [Contract!Next]_(Contract!vars)
    <3>1. Waning  BY <1>2, <2>5, ReapMeans
    <3> QED BY <1>2, <2>1, <2>5, <3>1, ContractEnd DEF Reap
  <2>6. CASE Tick
    <3>1. clock' = clock + 1 /\ UNCHANGED <<users, pats, issued, marker>>
        BY <2>6 DEF Tick, store
    <3>2. Waning  BY <1>2, <3>1 DEF Waning, IInv, TypeOK
    <3> QED BY <1>2, <2>1, <3>1, <3>2, ContractEnd
  <2> QED BY <1>2, <2>2, <2>3, <2>4, <2>5, <2>6, ContractDirectory, ContractMint, Steps
<1> QED BY <1>1, <1>2, DirectoryInvariant, PTL DEF Spec, ContractSpec, Contract!Spec
=============================================================================
