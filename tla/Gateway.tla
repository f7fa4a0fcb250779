------------------------------- MODULE Gateway -------------------------------
(***************************************************************************)
(* One call to netcidr, from any front end to the caller's answer: run in  *)
(* the caller's process (IpamBackend::Local), or sent to a server by the    *)
(* HTTP client (IpamBackend::Remote, TokenClient) or by an HTTP caller of   *)
(* its own, who may try again with the same Idempotency-Key.  Requests and  *)
(* replies get lost, the server's timeout and callers that leave drop       *)
(* handlers in the middle, and a unit in hand may still commit then.        *)
(*                                                                         *)
(* A unit is one step and its refusals are any its mutation can make: what  *)
(* it decides on is in TxUnits and Directory.  Retries come within the      *)
(* claim of a batch (BatchClaim has the later ones).                        *)
(***************************************************************************)
EXTENDS Frontends, FiniteSets

CONSTANTS
    Calls,     \* the calls to make, see Call
    MaxTries,  \* bound on the requests of one call
    Burst,     \* the rate limiter's burst size
    PENDING, \* the record of a claim that is not completed
    NULL

ASSUME BoundsAssumption == {MaxTries, Burst} \subseteq Nat \ {0}

ASSUME NullAssumption == NULL \notin {PENDING} \cup Nat \cup [at : Nat, count : Nat]

VARIABLES
    call,     \* what is asked; never changes
    phase,    \* of the caller: "ready", "waiting" or "over"
    tries,    \* requests made so far
    wire,     \* tries whose request is under way
    replies,  \* replies under way
    told,     \* what the caller was told
    budget,   \* requests the rate limiter lets through
    runs,     \* per try, the handler at work on it or NULL
    late,     \* steps that go on without their handler
    record,   \* the row of the key: NULL, PENDING or the number of items done
    done      \* history: the units that committed

caller == <<phase, tries, told>>
network == <<wire, replies>>
server == <<runs, late, record, done>>
vars == <<call, caller, network, budget, server>>

(***************************************************************************)
(* The call                                                                *)
(***************************************************************************)
\* via: "local", "remote", "none" (an MCP server with no backend) or "http".
\* size: a "big" body is over the 64 KiB of a keyed request, an "oversize"
\* one over max_body_size.
Call(via, asked, key, size) ==
    [via |-> via, typed |-> asked.typed, method |-> asked.method, args |-> asked.args,
     key |-> key, size |-> size]

LocalCalls ==
    {Call("local", a, FALSE, "small") : a \in IpamCommands \cup OwnCommands \cup McpTools}
RemoteCalls ==
    {Call("remote", a, FALSE, "small") : a \in IpamCommands \cup Asks(TokenCommands) \cup McpTools}
BareCalls == {Call("none", a, FALSE, "small") : a \in McpTools}

HasBody(route) == route.verb \in {"POST", "PUT", "PATCH"}
HttpCalls ==
    UNION {{Call("http", [typed |-> r.takes, method |-> r.method, args |-> r.takes], key, size) :
              key \in IF r.method \in KeyedMethods THEN BOOLEAN ELSE {FALSE},
              size \in IF HasBody(r) THEN {"small", "big", "oversize"} ELSE {"small"}} :
           r \in Routes}

\* What goes over the wire, and the routes it meets.
Sent(c) ==
    IF c.via = "http"
    THEN LET r == CHOOSE r \in Routes : r.method = c.method
         IN Request(r.verb, r.path, c.args)
    ELSE [Requests[c.method] EXCEPT !.fields = @ \cap c.args]
Meets(c) == {r \in Routes : r.verb = Sent(c).verb /\ r.path = Sent(c).path}

\* The operation that runs in the end, and with what.
Here(c) == c.via \in {"local", "none"} \/ ~(c.via = "http" \/ local_ops(c.method))
ServedAs(c, routes) ==
    IF Here(c) THEN [method |-> c.method, args |-> c.args, role |-> "caller"]
    ELSE IF routes = {} THEN [method |-> NULL, args |-> {}, role |-> NULL]
    ELSE LET r == CHOOSE r \in routes : TRUE
         IN [method |-> r.method, args |-> Sent(c).fields \cap r.takes, role |-> r.role]
Prepared(c) == [ask |-> c, served |-> ServedAs(c, IF Here(c) THEN {} ELSE Meets(c))]
Served == call.served

\* idempotency_key: none for a body over the bound.
Keyed == call.ask.key /\ call.ask.size = "small"
Claims == Keyed /\ Served.method = "batch_allocate"
Steps ==
    IF Claims THEN <<"Claim">> \o Program(Served.method) \o <<"Complete">>
    ELSE Program(Served.method)
IsUnit(at) == Steps[at] \notin {"read", "Claim", "Complete"}
IsItem(at) == Served.method \in Batches /\ IsUnit(at)
UnitSteps == {at \in DOMAIN Steps : IsUnit(at)}

Init ==
    /\ call \in {Prepared(c) : c \in Calls}
    /\ phase = "ready" /\ tries = 0 /\ told = {}
    /\ wire = {} /\ replies = {} /\ budget = Burst
    /\ runs = [t \in 1 .. MaxTries |-> NULL] /\ late = {}
    /\ record = NULL /\ done = {}

(***************************************************************************)
(* The caller                                                              *)
(***************************************************************************)
Running(at, count) == [at |-> at, count |-> count]

\* A local call runs here; its only try is the first.
StartLocal ==
    /\ phase = "ready" /\ call.ask.via = "local"
    /\ phase' = "waiting" /\ tries' = 1
    /\ runs' = [runs EXCEPT ![1] = Running(1, 0)]
    /\ UNCHANGED <<call, told, network, budget, late, record, done>>

Answer(t, status, count) ==
    [try |-> t, status |-> status, method |-> Served.method, args |-> Served.args,
     count |-> count]

\* No backend, or a command that only works on a local one.
RefuseHere ==
    /\ phase = "ready"
    /\ \/ call.ask.via = "none"
       \/ (call.ask.via = "remote" /\ ~local_ops(call.ask.method))
    /\ phase' = "over"
    /\ UNCHANGED <<call, tries, told, network, budget, server>>

Send ==
    /\ phase = "ready" /\ tries < MaxTries
    /\ call.ask.via = "http" \/ (call.ask.via = "remote" /\ local_ops(call.ask.method))
    /\ phase' = "waiting" /\ tries' = tries + 1
    /\ wire' = wire \cup {tries + 1}
    /\ UNCHANGED <<call, told, replies, budget, server>>

\* Only callers of their own try again: no front end does.
PhaseAfterError == IF call.ask.via = "http" /\ tries < MaxTries THEN {"over", "ready"} ELSE {"over"}

Deliver ==
    /\ phase = "waiting"
    /\ \E a \in replies :
        /\ a.try = tries
        /\ told' = told \cup {a} /\ replies' = replies \ {a}
        /\ phase' \in IF a.status = 200 THEN {"over"} ELSE PhaseAfterError
    /\ UNCHANGED <<call, tries, wire, budget, server>>

\* 30 seconds without an answer, or a broken connection.
GiveUp ==
    /\ phase = "waiting" /\ call.ask.via # "local"
    /\ told' = told \cup {[try |-> tries, status |-> 500, method |-> call.ask.method,
                           args |-> call.ask.args, count |-> 0]}
    /\ phase' \in PhaseAfterError
    /\ UNCHANGED <<call, tries, network, budget, server>>

LoseRequest ==
    /\ \E t \in wire : wire' = wire \ {t}
    /\ UNCHANGED <<call, caller, replies, budget, server>>

LoseReply ==
    /\ call.ask.via # "local"
    /\ \E a \in replies : replies' = replies \ {a}
    /\ UNCHANGED <<call, caller, wire, budget, server>>

(***************************************************************************)
(* The server: what lies before a handler                                  *)
(***************************************************************************)
\* What the layers answer when they refuse: the body's limit, the router, the
\* authentication and the role (403 stands for 401 too), the fields, the timeout.
Refusals ==
    (IF call.ask.size = "oversize" THEN {413} ELSE {})
      \cup (CASE Served.method = NULL -> {404}
              [] Served.role = "public" -> {}
              [] Served.role = "known" -> {401}
              [] OTHER -> {403})
      \cup {400, 408}

\* The secret of the fronting proxy is checked before the budget is spent.
WrongOrigin(t) ==
    /\ t \in wire
    /\ replies' = replies \cup {Answer(t, 403, 0)}
    /\ wire' = wire \ {t}
    /\ UNCHANGED <<call, caller, budget, server>>

RateLimited(t) ==
    /\ t \in wire /\ budget = 0
    /\ replies' = replies \cup {Answer(t, 429, 0)}
    /\ wire' = wire \ {t}
    /\ UNCHANGED <<call, caller, budget, server>>

Refuse(t) ==
    /\ t \in wire /\ budget > 0
    /\ \E status \in Refusals : replies' = replies \cup {Answer(t, status, 0)}
    /\ wire' = wire \ {t} /\ budget' = budget - 1
    /\ UNCHANGED <<call, caller, server>>

Accept(t) ==
    /\ t \in wire /\ budget > 0 /\ call.ask.size # "oversize" /\ Served.method # NULL
    /\ wire' = wire \ {t} /\ budget' = budget - 1
    /\ runs' = [runs EXCEPT ![t] = Running(1, 0)]
    /\ UNCHANGED <<call, caller, replies, late, record, done>>

Replenish ==
    /\ budget < Burst /\ budget' = budget + 1
    /\ UNCHANGED <<call, caller, network, server>>

(***************************************************************************)
(* The handler                                                             *)
(***************************************************************************)
At(t) == runs[t].at
Doing(t) == runs[t] # NULL /\ At(t) \in DOMAIN Steps
Advance(t, gained) ==
    runs' = [runs EXCEPT ![t] = Running(@.at + 1, @.count + gained)]
Finish(t, status, count) ==
    /\ runs' = [runs EXCEPT ![t] = NULL]
    /\ replies' = replies \cup {Answer(t, status, count)}

Read(t) ==
    /\ Doing(t) /\ Steps[At(t)] = "read"
    /\ \/ Advance(t, 0) /\ UNCHANGED replies
       \/ \E status \in {404, 500, 503} : Finish(t, status, 0)
    /\ UNCHANGED <<call, caller, wire, budget, late, record, done>>

\* Mutant of Replays: only a batch looks its key up, when it claims it.
ReplaysClaims(found) == Keyed /\ Claims /\ found \notin {NULL, PENDING}

\* A keyed unit looks its key up in its own transaction.
Replays(found) == Keyed /\ ~Claims /\ found # NULL

Effect(t, at, sure) == [try |-> t, at |-> at, sure |-> sure]

Commit(t) ==
    /\ Doing(t) /\ IsUnit(At(t)) /\ ~Replays(record)
    /\ done' = done \cup {Effect(t, At(t), TRUE)}
    /\ record' = IF Keyed /\ ~Claims THEN 1 ELSE record
    /\ Advance(t, 1)
    /\ UNCHANGED <<call, caller, network, budget, late>>

Replay(t) ==
    /\ Doing(t) /\ IsUnit(At(t)) /\ Replays(record)
    /\ Finish(t, 200, record)
    /\ UNCHANGED <<call, caller, wire, budget, late, record, done>>

\* Mutant of UnitFails: an item of a batch that fails is counted with the others.
UnitFailsCounted(t, effects) ==
    /\ done' = done \cup effects
    /\ record' = IF effects # {} /\ Keyed /\ ~Claims THEN 1 ELSE record
    /\ \/ IsItem(At(t)) /\ Advance(t, 1) /\ UNCHANGED replies
       \/ ~IsItem(At(t)) /\ Finish(t, 500, 0)
    /\ UNCHANGED <<call, caller, wire, budget, late>>

\* A unit that is refused, times out waiting or fails leaves nothing behind,
\* except that a failure at its commit may come after the fact.  A batch notes
\* the failure and goes on; anything else ends with it.  409 stands for all that
\* a mutation refuses with (400, 404, 409, 422, 429).
UnitFails(t, effects) ==
    /\ done' = done \cup effects
    /\ record' = IF effects # {} /\ Keyed /\ ~Claims THEN 1 ELSE record
    /\ \/ IsItem(At(t)) /\ Advance(t, 0) /\ UNCHANGED replies
       \/ ~IsItem(At(t)) /\ effects # {} /\ Finish(t, 500, 0)
       \/ /\ ~IsItem(At(t)) /\ effects = {}
          /\ \E status \in {409, 500, 503} : Finish(t, status, 0)
    /\ UNCHANGED <<call, caller, wire, budget, late>>
Fail(t) == Doing(t) /\ IsUnit(At(t)) /\ ~Replays(record) /\ UnitFails(t, {})
CommitUnknown(t) ==
    /\ Doing(t) /\ IsUnit(At(t)) /\ ~Replays(record)
    /\ UnitFails(t, {Effect(t, At(t), FALSE)})
Claim(t) ==
    /\ Doing(t) /\ Steps[At(t)] = "Claim"
    /\ \/ record = NULL /\ record' = PENDING /\ Advance(t, 0) /\ UNCHANGED replies
       \/ record = PENDING /\ Finish(t, 409, 0) /\ UNCHANGED record
       \/ record \notin {NULL, PENDING} /\ Finish(t, 200, record) /\ UNCHANGED record
       \/ \E status \in {409, 500, 503} : Finish(t, status, 0) /\ UNCHANGED record
    /\ UNCHANGED <<call, caller, wire, budget, late, done>>

\* More items than MAX_BATCH_SIZE: the claim is abandoned, if that works.
TooMany(t) ==
    /\ Doing(t) /\ Served.method \in Batches
    /\ At(t) = (IF Claims THEN 2 ELSE 1)
    /\ Finish(t, 400, 0)
    /\ record' \in IF Claims THEN {NULL, record} ELSE {record}
    /\ UNCHANGED <<call, caller, wire, budget, late, done>>

\* The batch is answered whether or not its result could be recorded.
Complete(t) ==
    /\ Doing(t) /\ Steps[At(t)] = "Complete"
    /\ record' \in {record, runs[t].count}
    /\ Advance(t, 0)
    /\ UNCHANGED <<call, caller, network, budget, late, done>>

Return(t) ==
    /\ runs[t] # NULL /\ At(t) \notin DOMAIN Steps
    /\ Finish(t, 200, runs[t].count)
    /\ UNCHANGED <<call, caller, wire, budget, late, record, done>>

\* The future is dropped; a step in hand may go on in the store.
Dropped(t) ==
    /\ runs[t] # NULL
    /\ runs' = [runs EXCEPT ![t] = NULL]
    /\ late' \in {late} \cup
         (IF Doing(t) /\ Steps[At(t)] # "read"
          THEN {late \cup {[try |-> t, at |-> At(t), count |-> runs[t].count]}} ELSE {})

\* TimeoutLayer, while the handler runs.
Timeout(t) ==
    /\ call.ask.via # "local" /\ Dropped(t)
    /\ replies' = replies \cup {Answer(t, 408, 0)}
    /\ UNCHANGED <<call, caller, wire, budget, record, done>>

\* The caller has left: the server drops the handler of its connection.
Leave(t) ==
    /\ call.ask.via # "local" /\ (t < tries \/ phase # "waiting") /\ Dropped(t)
    /\ UNCHANGED <<call, caller, network, budget, record, done>>

\* A local call is interrupted.
Kill ==
    /\ call.ask.via = "local" /\ phase = "waiting" /\ Dropped(1)
    /\ phase' = "over"
    /\ UNCHANGED <<call, tries, told, network, budget, record, done>>

\* A step without its handler commits, with its key, or it fails.
LateCommit ==
    /\ \E s \in late :
        /\ late' = late \ {s}
        /\ CASE Steps[s.at] = "Claim" ->
                  record' = (IF record = NULL THEN PENDING ELSE record) /\ UNCHANGED done
             [] Steps[s.at] = "Complete" -> record' = s.count /\ UNCHANGED done
             [] Replays(record) -> UNCHANGED <<record, done>>
             [] OTHER -> /\ done' = done \cup {Effect(s.try, s.at, FALSE)}
                         /\ record' = IF Keyed /\ ~Claims THEN 1 ELSE record
    /\ UNCHANGED <<call, caller, network, budget, runs>>

LateFail ==
    /\ \E s \in late : late' = late \ {s}
    /\ UNCHANGED <<call, caller, network, budget, runs, record, done>>

Next ==
    \/ StartLocal \/ RefuseHere \/ Send \/ Deliver \/ GiveUp \/ Kill
    \/ LoseRequest \/ LoseReply \/ Replenish \/ LateCommit \/ LateFail
    \/ \E t \in 1 .. MaxTries :
        \/ WrongOrigin(t) \/ RateLimited(t) \/ Refuse(t) \/ Accept(t)
        \/ Read(t) \/ Commit(t) \/ Replay(t) \/ Fail(t) \/ CommitUnknown(t)
        \/ Claim(t) \/ TooMany(t) \/ Complete(t) \/ Return(t) \/ Timeout(t) \/ Leave(t)

Spec == Init /\ [][Next]_vars

(***************************************************************************)
(* Properties                                                              *)
(***************************************************************************)
\* The remote backend looks an address's pointers up in the list of them.
SameLookup(method) ==
    IF method = "get_hostname_pointers_for_ip" /\ call.ask.via # "local"
    THEN "list_hostname_pointers" ELSE method

\* Safe to do twice: a replacement by the same value, and what is due anyway.
Repeatable == {"SetTags", "Expire"}
Definite == {400, 401, 403, 404, 409, 413, 422, 429, 503}
DoneBy(x) == {e \in done : e.try = x.try \/ Keyed}

\* Whatever lies between, an answer says what happened.  What is asked for has
\* a route; a success is one of that operation with every argument it was
\* given, all its units have committed, and a batch counts exactly the items
\* that did; any status but 408 and 500 means that this request left nothing behind that
\* must not be done again (503 is "safe to retry", error_presenter.rs).
ToldTrue ==
    \A x \in told :
        /\ Served.method # NULL
        /\ x.status = 200 =>
             /\ x.method = SameLookup(call.ask.method) /\ x.args = call.ask.typed
             /\ IF x.method \in Batches
                THEN x.count = Cardinality({e \in DoneBy(x) : e.sure})
                ELSE {e.at : e \in DoneBy(x)} = UnitSteps
        /\ x.status \in Definite =>
             \A e \in done : e.try = x.try => Steps[e.at] \in Repeatable

\* However often a caller tries again with its Idempotency-Key, after lost
\* replies, timeouts and failures at a commit, no part of the call is done
\* twice (within the claim of a batch).
OnceByKey == Keyed => \A e, f \in done : e.at = f.at => e.try = f.try
=============================================================================
