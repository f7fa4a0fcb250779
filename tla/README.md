# netcidr in TLA+

netcidr keeps the IP address space of its tenants: cidr blocks, the allocations
inside them, hostname pointers to addresses, and the users and tokens that may
change them. It runs as a CLI, a terminal UI, an HTTP API and an MCP server over
one store, SQLite or Postgres. This directory holds TLA+ models of what can go
wrong under concurrency, in partial failure and at the edges of the arithmetic,
the TLC configurations that check them on small instances, and TLAPS proofs.

Paths below are relative to the repository. Line by line, `PROJECT.json` says
which definition stands for which lines.

## 1. The system

| Component | State it keeps | Operations | Hard behaviour | What makes it correct |
|---|---|---|---|---|
| **Transaction units** (`src/ipam/mutation.rs`, `src/ipam/store.rs`) | none of its own: a unit is a Lock Scope, a set of declared reads, a `Decision` and the writes it asks for | `execute` builds the unit of a `Mutation` and hands it to the store's `transact` | units of several requests interleave; each captures its time before it starts; a caller can go away in the middle | units are atomic; what a unit decided on is still true when it commits |
| **Postgres store** (`src/ipam/postgres`) | a pool of connections; tables; advisory locks | `transact`: BEGIN, `pg_advisory_xact_lock`, reads under READ COMMITTED, decide, writes, COMMIT; `migrate`; listings | a connection is held while waiting for the lock; two scopes may hash to one lock; dropping the future rolls back; migrations commit statement by statement | no deadlock of pool and locks; constraints hold; recorded versions really ran |
| **SQLite store** (`src/ipam/sqlite`) | a pool; one writer | `transact`: a spawned task runs BEGIN IMMEDIATE, reads, writes, COMMIT; `migrate` | the unit outlives its caller; a busy database is an error (`StoreBusy`) | as above |
| **Allocation Mutations** (`operations/allocation.rs`) | rows of `allocations`, `allocation_tags` | `AllocateSpecific`, `AllocateAuto`, `UpdateAllocation`, `ReleaseAllocation`, `SetTags`, `ExpireInBlock` | reactivation of a released allocation; update and release learn their block from a read made before the unit | no two live allocations of a block overlap; every one lies in its block |
| **Cidr-block Mutations** (`operations/cidr_block.rs`) | rows of `cidr_blocks` | create, delete, `LoadDump` | create and load take the tenant's scope, delete the block's: they do not exclude each other | a tenant's blocks stay disjoint |
| **Hostname Mutations** (`operations/hostnames.rs`) | `hostname_pointers`, `hostname_pointer_history` | set, delete | the allocation a pointer names is read without its block being locked | no dangling link; the history explains the pointers |
| **Idempotency** (`src/ipam/idempotency.rs`) | `idempotency_keys` | a record stored with a keyed unit; `claim`, `complete`, `abandon` around a keyed batch | retry during the first run, after it, after it was lost; expiry; sweep | a key's effects happen once |
| **Address arithmetic** (`operations.rs`) | none | overlap, gaps, first fit, CIDR cover, split | u128 sums at the top of the IPv6 space | the blocks returned are free, aligned, inside and the lowest |
| **IPAM operations** (`operations.rs`, `IpamOps`) | none | one method per request: one unit, a loop of units, or several reads outside any unit | a batch is many units; a report is many reads with others' units in between | each is one unit, or claims its key; reports say what was so |
| **Sweeper** (`sweeper.rs`, `bin/lambda.rs`) | none | every `reap_interval_seconds`, or on a schedule: expire allocations block by block, delete idempotency records and tokens | it races every other unit and other servers' sweeps; a block may fail each time | what is due is eventually released, and nothing else |
| **User Mutations, bootstrap** (`operations/users.rs`, `bootstrap.rs`) | `users`, `bootstrap_markers` | upsert, delete, seed the first admins once | two admins removed at once; several servers start at once | a platform admin remains; one seed |
| **Access tokens** (`pat_lifecycle.rs`, `me_api.rs`) | `personal_access_tokens` | mint under a limit, verify, touch, revoke, reap | mint at the limit; verify or a spawned touch racing revoke | the limit holds; a revoked token stays so |
| **Authentication and roles** (`auth.rs`, `authorization.rs`) | key cache | look a token up, admit its owner, resolve the role, check the route; fetch keys | three reads at three times; key rotation while the cache lives | no request passes that was not entitled; none is refused without cause |
| **Credentials and sessions** (`credentials.rs`, `oauth.rs`, `login_cli.rs`) | `credentials.json` | login, logout, resolve and refresh a token; save over a temporary file | two commands at once share the temporary file; kill in the middle of a save | the file is whole; nobody is signed out but for a reason |
| **HTTP API** (`api.rs`, `ipam_api.rs`, `me_api.rs`) | rate budget | layers (origin, rate, body limit, role, timeout), routes, handlers, presenter | the timeout drops a handler in the middle of an operation | the status says what happened |
| **HTTP backend** (`http_client.rs`, `backend.rs`) | none | the same operations over HTTP; walk of a listing page by page | lost requests and replies; a listing that changes between pages | as if local; no row skipped |
| **CLI and MCP** (`cli.rs`, `ipam_cli.rs`, `token_cli.rs`, `mcp.rs`) | none | commands and tools, each one or several calls of the backend | an argument lost on the way through four layers | what is typed is what is done |
| **Subnet calculators** (`from_range.rs`, `summarize.rs`, `subnet_generator.rs`) | none | range to CIDRs, summary, split, hierarchy, VLSM | widths and cursors that leave the word; limits | minimal and exact cover; partitions; packing |
| **DNS** (`dns/`) | an external zone store | bind and unbind | no transaction over three calls | no caller: nothing constructs a `DnsService` and only a test implements its repository |
| **TUI, dashboard, configuration, output** | none | keys and drawing, a browser client, reading settings, formatting | nothing concurrent, nothing stored | |

How they interact: a front end (CLI, MCP, an HTTP handler) calls an `IpamBackend`,
which is `IpamOps` in the same process or the HTTP client of another server. A
request over HTTP passes the layers, is authenticated and authorized in reads of
the store, and its handler calls `IpamOps`. A method of `IpamOps` reads, or
builds a `Mutation` (after, for update, release and tags, a read of the
allocation outside any unit) and calls `execute`; `execute` asks the store to
`transact`; the store takes a connection, the Lock Scope, makes the declared
reads, calls `decide` back with the snapshot, and applies the returned plan (row
writes, audit facts, hostname history, idempotency record) in the same database
transaction. User and token changes go the same way. The sweeper and every
request run concurrently, in one server or in several that share a Postgres
database.

## 2. Modules

| Module | Models | Correspondence |
|---|---|---|
| `IpRanges` | overlap, containment, `find_free_blocks` by what it returns | operators of the same names |
| `IpamTables` | the tables, the reads, the schema's constraints, `Apply` of a plan | a table is a function from row id to row; `ConstraintsHold` is every foreign key, unique column, tenant trigger and "no row matched" check; `Apply` is all of `apply_write` |
| `AllocationMutations`, `CidrBlockMutations`, `HostnameMutations` | `decide` of each Mutation, as `XAccepts(m, v)` (every early return, each with its error in a comment) and `XPlans(m, v, at)` (the plans it may return) | `m` is the request, `v` the snapshot, `at` the time captured before the unit |
| `Mutations` | the seam: `scope`, `reads` and their order `rank`, `read_one`, `Accepts`, `Plans`, and the idempotency record (`Found`, `Remember`) | `ReadSet`, `LockScope`, `read_one`, `execute` |
| `TxUnits` | `execute` and `transact` step by step for concurrent callers | `Submit`, `Resolve` (the read outside the unit), `Connect`, `AcquireScope`, `Read` (one per declared read), `Replay`/`Reject`/`Commit`/`ConstraintFails`, `Busy`, `Drop`, `Crash`, `ReapIdempotency`, `Tick` |
| `AtomicIpam` | the abstract specification: every unit happens at one instant on the tables as they are, or not at all | `TxUnits` implements it (`Serializable`), with the identity on the tables |
| `BatchClaim` | the life of one idempotency key of `batch_allocate` | `Claim`, `RunItem`, `Complete`, `Abandon`, `Stop`, `StopAndOutlive`, `Reap` |
| `WordArithmetic`, `FreeSpace` | u128 sums of a build without overflow checks; `find_gaps`, `find_free_blocks`, `range_to_cidrs`, `split_cidr_to_prefix` loop by loop | `Start` is the check of the prefix, which `find_free_blocks` makes and `free_blocks` does not; then one action per loop iteration: `PassRange` is one allocation of `find_gaps`, `LastGap` what follows its loop |
| `Calculators` | `from_range`, `summarize`, `subnet_generator`: `CoverNext`; `Normalize`, `Keep`, `MergeNext`, `Merged`; `Generate`, `Branch`; `Carve`, `RefuseToCarve` | one action per iteration; the 32- and the 128-bit version of a function are one definition with two widths. A tree gets its children node by node, level after level, where the code recurses into the first child first: the nodes are the same |
| `Access` | roles, tiers, allowlist, `resolve_access`, the gates of the routes | functions of the tables read |
| `UserMutations`, `PatLifecycle` | `decide` of the user and token units, of the seed, and the token reads and writes of the stores | as for the Mutations above |
| `Directory` | a request from its arrival to its unit: `Lookup`, `Owner`, `Resolve`/`Refuse`, `Serve` or `Load` and `Upsert`, `Delete`, `SeedUsers`, `Mint`, `Revoke`, `Reject`, with `Touch`, `Reap`, `Abandon`, `Tick` | one action per read of the store; a unit's reads are one step, since only units write the directory and the count of tokens is one query |
| `PlatformContract` | the abstract specification of administrators, seed and tokens, with no requests, locks or clocks | `Directory` implements it: `Contract == INSTANCE PlatformContract WITH ...`, property `ContractSpec` |
| `Startup` | servers that migrate one database, statement by statement, and may crash between any two | `ReadVersion`, `Execute`, `Record`, `MigrateFails`, `ValidateSchema`, `Crash` |
| `Sweeper` | EXTENDS `Startup`: servers that are up sweep while callers allocate, release and make live | `StartSweep`, `ExpireInBlock`, `BlockFails`, `Reap` |
| `Reports` | calls made of several reads outside a unit, and the remote client's walk over pages, while atomic units of others come in between | one action per query |
| `Credentials` | the file, its temporary file and what each process has open | `Load`, `OpenTmp`, `WriteTmp`, `Rename`, `SaveFails`, `Kill` |
| `Sessions` | EXTENDS `Credentials`: login, refresh, logout, calls, the server's check of an ID token and its key cache | `Login`, `KeepLogin`, `ResolveFresh`/`ResolveStale`, `Refreshed`, …, `Cached`, `Fetch`, `Answer`, `Install` |
| `Frontends` | the data: every command, tool, request of the client, route and program of an operation, with their fields | a table per file |
| `Gateway` | EXTENDS `Frontends`: one call from a front end to its answer, with lost messages, layers, timeouts, dropped handlers, retries | `Send`, `Accept`, `Refuse`, `Commit`, `CommitUnknown`, `Timeout`, `LateCommit`, … |
| `MCTxUnits`, `MCDirectory`, `MCSweeper`, `MCReports`, `MCSessions`, `MCAddresses`, `MCGateway` | the instances TLC checks | |
| `BatchClaimProofs` | the invariants of `BatchClaim`, of its claim and of its history | one lemma per action |
| `TxUnitsProofs` | what a unit's plan may do and what applying it keeps; the invariant of `TxUnits` and its theorems, that `TxUnits` implements `AtomicIpam`, and what the tables, the history and the audit log keep | one lemma per Mutation for its plans, one per read, one per action |
| `AddressProofs` | powers of two and alignment; the invariants of `FreeSpace` and of each calculator, and what they return | one lemma per action, and per action and part of the invariant where that is long |
| `DirectoryProofs` | the invariant of `Directory`, its theorems and that it implements `PlatformContract` | one lemma per action, one for what each unit means |
| `SweeperProofs` | the invariant of `Startup` under the steps of `Sweeper`, and what a sweep releases | one step per action |
| `SessionsProofs` | three invariants of `Sessions`: the files, the reasons, the times | one step per action in each |
| `GatewayProofs` | the invariant of a keyed call and its tries, and of what callers are told | one lemma per kind of step |
| `ReportsProofs` | what a call has gathered and what it still has to look at; positions in a listing | one lemma per query, one per unit of others |

**How the modules compose.** `TxUnits` EXTENDS the chain from `IpRanges` to
`Mutations` and INSTANCEs `AtomicIpam`. `FreeSpace` EXTENDS `IpRanges`, whose
`find_free_blocks` is both the reference `FreeSpace` is checked against and the
operator `AllocateAuto` uses: where `FreeSpace` shows the loops to return what
`IpRanges` says (`InWord`: all of IPv4, and IPv6 blocks that leave the last address
alone, with a size no larger than the block), `TxUnits` may use the one-line
definition. Its runs use such blocks only; its theorems are about the definition.
`Reports` takes units as atomic and keeps blocks disjoint and live allocations
apart, which `TxUnits` shows (`Serializable`, `BlocksDisjoint`, `NoLiveOverlap`).
`Gateway` takes a unit as one step that commits or does not, and the claim of a
batch as one row, which `TxUnits` and `BatchClaim` show. `Directory` ends a
request of `/ipam` at `Serve`, where `TxUnits` begins. `MCAddresses` runs
`FreeSpace` and `Calculators` side by side, over one word.

**Both stores in one model.** `LockKey` maps a Lock Scope to the lock it takes
and `Detached` says whether a unit outlives its caller. Postgres is
`LockKey(s) = s` (or coarser, if two scopes hash to one lock) with `Detached =
FALSE`. SQLite is one key for all scopes, with `Detached = TRUE`. Coarser keys and
`Detached` only remove steps: a step of the SQLite instance is a step of the
Postgres instance. So every safety property the Postgres runs show holds of
SQLite, and no run repeats them. (In SQLite the lock precedes the reads as
BEGIN IMMEDIATE does; it waits on a busy handler instead of a queue.)

### What is abstracted

* Row ids are UUIDs: never issued twice, so each table counts its ids. The model
  draws an id at commit where the code draws it in `decide`; nothing reads an id
  before it is committed.
* Names, notes, owners, `updated_at` and other descriptive columns are left out of
  the tables; `Frontends` follows them by name. The tags of an allocation are one
  value of a small set.
* An address and a hostname, already normalised, are one member of `Pairs`.
* A batch's request hash is the body itself (no hash collisions).
* Audit rows are facts (action, table, id). What they quote is left out.
* A dump is an export: `DumpsAssumption` asks that its blocks be disjoint, that
  an allocation lie in its block and that live ones not overlap, since `LoadDump`
  checks none of these. Its dangling block reference is kept and refused
  (`LoadAccepts`).
* A commit is one step. Within it Postgres takes row locks (a foreign-key check
  waits for a concurrent delete of the referred row); the model gives every
  outcome of the wait, but not a deadlock between two such waits, which Postgres
  ends with an error like `ConstraintFails`.
* An identity (`Directory`) is its verified email, tenant and subject at once.
* A statement of a migration is what it needs, drops and adds; there are two
  migrations in the instance, of the kinds the files hold.
* A token of a person (`Sessions`) is the time of its issue; what signed it
  follows from that time. One deployment, one account of the file.
* `Gateway` has one caller: callers share the store, which is `TxUnits`, and the
  rate budget, which others are free to use up (`Burst = 1` and its refusals).
  IPAM, the token pepper and all routers are enabled. 409 stands for every status
  with which a mutation refuses, 403 for 401. Its retries come within the claim
  of a batch; `BatchClaim` has the later ones.

## 3. Runs

| Run | Question | Bounds, and why they are enough |
|---|---|---|
| `Space` | Are the addresses of a block ever given twice, whatever allocate, release, reactivate, expire, tag, create and delete do concurrently? | two callers, one block of 4 addresses, ids below 3: a unit conflicts with one other at a time, since a unit that commits is over, and a third caller only adds commits between two reads that the second can make already. Pool of two, so both can hold a connection. |
| `Tenant` | Do blocks stay disjoint and links whole when create/load (tenant scope) and delete/allocate (block scope) run together? | two callers, a create of each of two blocks, a dump of two blocks with an allocation, parents and pointers across blocks |
| `Keys` | Does a keyed allocation happen once? | a key retried, reused with another body and at another endpoint; TTL 1 and a clock up to 2, so a record can expire, stay, be swept, and its key be used again |
| `Waits` | Does every request end, without the help of a time-out? | three callers, two connections, scopes of a kind sharing one lock: every way to wait (connection before the unit, connection, lock) is reached with the pool full |
| `BatchClaim` | May two batches of one key overlap, may a key change its body? | two callers, two bodies, three items, claim 4 ticks, timeout 2, result 10, clock up to 9 (two whole claims), one lost run |
| `Admins` | Can the directory lose its last platform admin, or be seeded twice? | three requests at once out of eleven (CLI, bearer, two admins about each other and themselves, servers that seed), two people: one more request than it takes for two to decide on what a third has changed |
| `Tokens` | Is the limit kept, is anything let through on what has been revoked, disabled or expired, and does all that implement `PlatformContract`? | two requests, two people, two tokens, a limit of one, days 0 to 2 with tokens of one day: a token is minted, expires, is reaped and the limit is free again; a touch stays in flight across a revocation |
| `Reports` | What may an answer say that is made of several reads? | two blocks, three allocations, two addresses, so that an allocation moves between the reads of two blocks and of one; pages of one row and a client that takes three of them, so that a listing fits exactly, falls short, or shifts under the walk |
| `Startup` | Do servers that start together leave the schema as recorded, and do sweeps release all that is due and nothing else? | two servers, two migrations of three statements in all, of the kinds the files hold, one crash; one block that always fails before one that may; a clock of 1, at which the deadlines come |
| `Sessions` | Is a user signed out, or a call refused, without a cause? | two commands on one file, ticks up to 4 with the keys rotated at 3, an ID token that lives 2 and a cache of keys that lives 1: a token crosses the rotation, and its expiry, in use |
| `Addresses` | Does everything that computes addresses return what it should? | every call in an IPv4 space of 3 bits and an IPv6 space of 4: every block, at most two allocations in it (three gaps), every prefix of a u8 (0 to twice the word less one), with at most 14 generated subnets, lists of up to three blocks: every width, both ends of each word, and lists that overflow the limit. No call is left out; which ones a property is about, it says itself. `MaxResults = 9` stops the loops that do not end, and is more than the 8 blocks that any other call can list |
| `Gateway` | Does an answer say what happened, and what was typed? | all 186 calls of all commands, tools and routes, one at a time, each tried at most twice, one token left in the rate limiter |

`MaxClock`, `MaxRows`, `MaxLost`, `MaxTouches`, `MaxCrashes` and `MaxTries` bound time, the ids of
a table (`Room` keeps an id for each unit in flight), lost runs, touches in flight,
crashes and the requests of a call. `MaxPage`, `MaxPages`, `MAX_GENERATED_SUBNETS`, `Burst` and
the times of `Sessions` are limits of the code, made small. `CHECK_DEADLOCK FALSE` is set where the system may really
stop: the tokens of `Tokens` can all be used up and its time over, and so with
`Admins`, `Startup` and `Sessions`; the searches of `Addresses` and the call of
`Gateway` end.

### What the properties say

*The address space.*

* `NoLiveOverlap`, `InOwnBlock`, `BlocksDisjoint`: it is consistent, each through units
  that hold *different* scopes.
* `ViewsCurrent`: what a unit has read under its scope is still so until it is over.
  Four reads are of rows another scope may write, and the property says what is
  left of each: a parent or a pointer's allocation may have changed altogether;
  of the tenant's blocks some may be gone but none added; an idempotency record
  that was found may have been swept, but one that was absent stays absent.
* `Serializable`: `TxUnits` implements `AtomicIpam`. A commit decided on reads made
  at different times is one that could have been decided on the tables at the
  commit itself.
* `NoDangling`, `HistoryExplains`, `AuditExplains`: rows, links, history and audit
  agree across units, rollbacks and crashes.
* `RecordsKept`: a record is never written over (the stores upsert).
* `Finishes`: no deadlock of pool and locks.
* `RunsAlone`, `KeyBound`, `RepeatsOnlyLost`: the batch claim.

*People and tokens.*

* `AdminRemains`, `SeedsOnce`: through admins, commands and servers at once.
* `TokenLimit`: although a unit counts with a time captured before it waited.
* `ServedOnGrounds`: authentication reads the token, its owner and the role at three
  times. A request that passes had a live token at *some* instant since it came,
  and a sufficient role at some instant; the code promises no more.
* `TokenFate`: no late touch and no sweep brings a token back, changes it, or takes
  one away that has not expired.
* `ContractSpec`: seen from outside, the requests, locks and clocks are single
  appointments, one seed, mints within the limit and tokens that end.

*Answers made of several reads* (`Reports`). `NeverOverfull`: a block is never
reported fuller than it is. `OneHolder`, `NoneMissing`, `WasSo`: an address has one
holder; what was so throughout is in the answer; what is in the answer was so at
some instant. A listing page by page is excepted from `NoneMissing` when a row is
taken out of it while it is read: the rows after it move up, and one is skipped.

*Servers.* `RecordedInOrder`: `MAX(version)`, which `migrate` reads, stands for all
below it, each run to its end. `SparesTheRest`: a sweep re-reads an allocation
before it releases it. `DueIsReleased`: liveness of the sweep.

*Clients.* `FileIsWhole`, `AccountsExplained`, `RefusedForCause`: the credentials file,
who is signed in, and why a call is refused
(assuming that a key is published long enough before it signs,
`PublicationAssumption`, that the client's early refresh covers its own delays,
`SlackAssumption`, and that a new token is not due for a refresh,
`LifetimeAssumption`). The first two except two commands
that save at the same instant, which the code does not keep apart (below).
`ToldTrue`: a success names the operation typed, with every argument typed, and all
its units have committed; a definite refusal leaves nothing that must not be done
again. `OnceByKey`: a key is honoured across lost replies, timeouts and failures at
the commit.

*Arithmetic.* `FindsFirstFree`, `ReportsWhatFits`, `ReportIsMinimal`: the search for free
space, for the calls whose values stay in their types (`InWord`). For `find_free_blocks`
these are all IPv4 calls that it does not refuse, and those for an IPv6 block that
leaves the last address alone and is no smaller than the blocks asked for. For
`free_blocks` they are the reports of an IPv4 block, or of an IPv6 block that leaves
the first and the last address alone, for a prefix of the family or for none. The
other calls are made in the run as well, and the properties claim nothing of them:
what the code does there is listed under "At the edges". `ExactCover`: ranges and
lists come back as the minimal list of blocks covering exactly what was given, but
for the range of all of IPv6 (`WholeSpace`), whose list is wrong. `SplitsPartition`,
`PacksAll`: splits and trees partition; VLSM carves every list that fits, disjoint
and inside. `AllReturn`: each loop ends, except in a report of an IPv6 block outside
`InWord`, where some do not.

### Fairness

`Waits` (`FairSpec`) has weak fairness on the steps of a unit that has what it waits
for, and strong fairness on taking a connection and on taking a scope, each per
caller. sqlx's pool and Postgres's lock manager serve their waiters in the order
they came, so a waiter for something that comes free again and again is not
passed over for ever. It is not claimed for SQLite, whose busy handler polls.
Nothing is assumed of time-outs, dropped callers, crashes or the clock.

`Startup` has weak fairness of a server's next step of its sweep (the ticker of
`sweeper.rs` comes back for ever) and strong fairness of releasing a block that is
not in `Failing`: its units fail now and then, on a busy database or a lock not had in
time, but not each time. `DueIsReleased` also asks that some server stays up.

`Addresses` has weak fairness of its loops.

### Seen while modelling, with no run

Where code and comment differ:

* An expired idempotency record still answers a retry until it is swept;
  `idempotency.rs` and the README say it expires. A keyed batch that stops in the
  middle repeats its first items on the retry, where `idempotency.rs:12` has side
  effects run exactly once; `RepeatsOnlyLost` says what does hold.
* `store.rs:290` has a unit run to completion if its future is dropped: so it is on
  SQLite; Postgres rolls it back.
* `credentials.rs:399` takes any failure of a refresh for a dead token, a network
  failure included, and drops the login.
* The comment at `idempotency.rs:96` says 15 minutes is longer than a full batch of
  100 items, while 100 items that wait 5 s for a connection and 5 s for a lock
  take longer: harmless, as the request timeout (300 s at most, `config.rs:11`) ends
  the batch first. That is `TimeoutAssumption`; batches of the MCP server and the
  CLI, which have no request timeout, take no key. `RepeatsOnlyLost` is about one
  life of a result (`MaxClock < TTL`): once it expires, a key may run again by design.

What is lost or left behind:

* `admin user disable` and `enable` read a role and write it back in another step
  (`ipam_cli.rs:546`): a change of role in between is undone.
* Two commands that save the credentials file at the same instant share
  `credentials.json.tmp` and can leave half a file; two that do not still lose each
  other's change.
* A crash between a migration and its `schema_version` row (`postgres/mod.rs:926`, and
  in SQLite) runs it again; migration 006 run again loses what was written since.
* A remote walk over pages skips a row when an earlier one is deleted meanwhile;
  `ORDER BY created_at` on Postgres has no second key to break ties.
* `update` to *released* leaves `released_at` empty where release and expiry set it;
  reactivation keeps a past `expires_at`, so the next sweep releases again.
* A block with no live allocations cannot always be deleted: a hostname pointer or
  a child in another block keeps its released ones. `AllocateAuto` does not read
  the parent it stores. A dump is restored unchecked.
* `set_tags` answers 404 after its write when the block is deleted before the answer
  is read (`ipam_api.rs:1102`); `reap` may answer an error after earlier blocks
  were committed.

At the edges:

* `find_free_blocks` on sums that leave the word (an IPv6 block that ends at the last
  address, prefix 0, or a prefix shorter than the block's) may return blocks that are
  taken, or outside the block (`operations.rs:1176`). `TxUnits` has the ideal one.
* `free_blocks` checks neither its prefix nor for such sums, and the handler passes
  any u8 (`operations.rs:333`, `ipam_api.rs:721`). `32 - tp` of a longer prefix leaves
  the u8: a debug build panics; the release build masks the shift, and for an IPv4
  block and a prefix of 129 to 160 (or 128, if all of IPv4 is free) lists blocks of a
  prefix that no IPv4 address has; for other prefixes above 32 it lists none. For
  IPv6 and a prefix above 128 it lists such blocks too, or does not end. An
  auto-allocation refuses all these prefixes (`operations.rs:1157`).
* `range_to_cidrs` on a gap that ends at the last IPv6 address passes it, is at `::`
  again and does not end (`operations.rs:1226`): the free blocks of an empty
  `ff00::/8`, say. When the last address is allocated, the saturating cursor of
  `find_gaps` (1138) gives that address as a gap all the same. A gap that begins at
  `::` has its first size shifted by 128, which is 0 after masking: the report lists
  `::/0` first, and with a prefix the split of that `::/0` does not end (1242).
* `from_range` of all of IPv6 shifts by 128 too (`from_range.rs:96`): it lists `::/0` and
  then, from `::1` on, the blocks of the same addresses once more, up to the limit.
* A rotated signing key is unknown until the cached set expires; the fetches of the
  key set and of the token endpoint have no timeout.
* `login` notes an expiry later than the token's, by the time its check took
  (`login_cli.rs:327`). An MCP server with a remote backend resolves its token once
  (`main.rs:343`).
* An unknown `status` filter is ignored by HTTP and MCP (`ipam_api.rs:683`, `mcp.rs:580`)
  and refused by the CLI; the remote audit listing is limited to 1000 rows, 100 by
  default, the local one is not; `mcp.rs:797` formats an error past the presenter.

## 4. Proofs

`tlapm` checks every proof; none rests on a bound of a run.

**`TxUnitsProofs`**: for any number of callers, connections, ids and addresses,
any set of requests, any map of scopes to locks and either value of `Detached`
(so for both stores, and for Postgres scopes whose hashes collide): all the
safety properties of `TxUnits`. Assumed: `NullAssumption`, `RowsAssumption` and
`ResponsesAssumption` (NULL is no id, row or response), `RequestsAssumption` (requests
are Mutations) and `DumpsAssumption` (a dump is an export). `MaxClock`, `MaxRows` and
`PoolSize` play no part: the bounds and the pool only delay steps. `find_free_blocks` is
that of `IpRanges`, by what it should return; at the edges of IPv6 the loops return
something else (section 3), and there these theorems say nothing of the code.

*The invariant.* `NoLiveOverlap` is not inductive: a commit keeps it only if the
unit's view is still true, the view stays true only if no other unit writes what
it covers, and that follows only from the Lock Scopes being exclusive *and* every
Mutation writing within its scope. So `IInv` is

* `TablesInv`: typed tables, `InOwnBlock`, `NoLiveOverlap`;
* `CallersTyped` and `ScopesHeld`: a scope has one holder;
* `Sure(p)` of each caller: the block it has resolved is the block of its
  allocation for ever (`UnitOk`), and its view is current (`StableView`).

The argument has two halves. `Fits(m, plan)` says what a plan
may do: touch only rows that the scope of `m` covers, insert at fresh ids inside an
existing block, and make live only addresses that are free. `PlansFit` shows that
every plan which any of the eleven Mutations may return on a current view fits: one
lemma per Mutation, the longest for `AllocateAuto` (its starts are multiples
of the size, so apart, and clear of what is live) and `LoadDump`. And a fit plan,
applied, keeps the tables consistent (`ApplyTyped`, `ApplyInOwnBlock`,
`ApplyNoLiveOverlap`) and leaves the view of every unit of another scope as it was
(`OtherView`, read by read). Then there is one lemma per action of `Next`,
and from them `TypeCorrect`, `AllocationsDisjoint`, `AllocationsInBlocks` and
`ReadsStayTrue`.

*Atomicity.* `UnitsAreAtomic`: `TxUnits` implements `AtomicIpam` (`Serializable`). A
commit of `TxUnits` decides on parts read at different times; the abstract one on the
tables as they are. By `ViewsCurrent` the parts that a unit's scope covers are as
they were read. Four reads are of rows it does not cover, and each is dealt with on
its own. A parent or a pointer's allocation may be gone, but then the foreign key
refuses the commit; one that is still there keeps its tenant and its range, which
is what the check is about. Of the tenant's blocks some may be gone, and fewer
blocks overlap less. A key that had no record has none. `AInv` adds to `IInv` what
this needs: a unit is one of the `Requests` with its block filled in, and a link that
was read has the tenant and the range it had.

*The tables and what tells of them.* `TenantBlocksDisjoint`, `LinksAreKept`,
`HistoryTells`, `AuditTells` and `ResponsesAreKept` from `TInv`, which strengthens the
properties by ids: history and audit speak only of ids that have been issued, so
the next row's id has no past. Each Mutation has a lemma that its plan explains
itself: as many rows come and go as its facts say.

**`BatchClaimProofs`**: `BatchRunsAlone` (`RunsAlone`), `BatchKeyBound` (`KeyBound`) and
`BatchRepeatsOnlyLost`, for any callers, bodies and items, from `ConstantsAssumption`
and `TimeoutAssumption` (a claim outlives a request). The invariant adds to the types
that a running batch's claim *is* the record, and that the record's expiry is
beyond the time the request has left: that is why a claim can only lapse after its
run is over. For the history, `RepeatInv` says that what was allocated more often
than runs were lost is behind the batch that holds the key, or its result is
stored. `RepeatsOnlyLost` alone is no invariant of the code: a result is kept for
`TTL`, after which its key is free and the request done anew. The theorem is
`Spec => [](clock < TTL => RepeatsOnlyLost)`; the run stays below (`MaxClock < TTL`).

**`DirectoryProofs`**: all the properties of `Directory` (`DirectoryTyped`,
`AnAdminRemains`, `TheSeedRunsOnce`, `TokensWithinLimit`, `OnlyOnGrounds`,
`TokensMeetTheirFate`) and `ImplementsContract`, that it implements
`PlatformContract`: for any callers, people, tokens and requests, any limit and any
configuration of the environment. Assumed: that people and tokens are finitely
many, that the configuration is of its type, and `RequestsAssumption`, what the
routes and commands let through as a request. The invariant `IInv` is

* `TypeOK`, and of each request under way `WellFormed` (what `RequestsAssumption` says of
  it still holds of it) and `Placed` (where it may be, and whose it is): a request
  that reaches a unit is of a kind that has one, by a principal that may have one;
* `Exclusive`: a Lock Scope, the directory's or a token owner's, has one holder;
* `Sure`: what a unit read is so until it is over. The directory is *as it was*. Of
  tokens that is too much, for they expire, are touched and are reaped outside any
  scope: an owner has *no more* live tokens than were counted, at the time of the
  count or later, and the token to revoke is its owner's if it is still there;
* `TokenLimit`, which a mint keeps by `Sure`, and all else because tokens only end
  (`Waning`);
* `Noted`: what entitles a request at an instant has been noted, and so what it has
  passed was: a token that is found live *with the time the request came* need not
  be live at the look-up, but was when it came;
* `Marked`: rows of the seed are there only with its marker.

`ChangeMeans`, `SeedMeans`, `MintMeans`, `RevokeMeans`, `TouchMeans` and `ReapMeans` say what each
unit does to the tables once its view is known to be true; from them follow both
the steps of the invariant (one lemma per action), the properties of steps, and
the steps of the refinement. `ChangeAdmins` holds the argument that two admins do
not remove each other: the number that the guard compares with one is the number
there is.

**`SweeperProofs`**: `VersionsInOrder` (`RecordedInOrder`) and `SweepsSpareTheRest`
(`SparesTheRest`), for any servers, migrations, blocks and crashes, from
`MigrationsAssumption` and `NobodyAssumption` (who recorded a version is a server). A
server that read `MAX(version)` may be overtaken by others any number of times. The
invariant therefore says nothing of the order in which they ran, only that the
recorded versions are an initial stretch, that their statements have run, and that a
server under way is past a stretch on record and has run the statements before its
own place. A recorded version is never taken back, so that stays true.

**`SessionsProofs`**: for any number of commands and any times, in three layers.

* The files (`FileStaysWhole`): until two save at once, one writes, to a temporary
  file it has emptied, and what gets its name is whole.
* The reasons (`SignsAreExplained`): a command that saves does it to log in, for a call
  that refreshes, to log out or because a refresh failed, and takes the account out
  for the last two only; what is renamed is what such a command wrote.
* The times (`RefusalsHaveCause`): an expiry that was noted is late by at most the lag,
  a command under way is within its slack, and a set of keys in use or on its way
  does for every token signed until it lapses. From `SlackAssumption`,
  `LifetimeAssumption` (a new token is not due for a refresh at once) and
  `PublicationAssumption`.

The last proof corrected an assumption. It is not enough that a key is published
before the cached sets without it lapse and a call has passed (`Ahead >= TTL +
MaxCall`): a *login* may take `Lag` to use a set it has fetched, and if it takes longer
than a call does, its set can be without the key that signs (TLC shows it with
`Lag = 3`, `MaxCall = 1`, `Ahead = 2`, `TTL = 1`). `PublicationAssumption` now
asks for `Ahead >= TTL + Lag` as well. It is an assumption on Google and not on this
code: how long before its first use a key is published is not in the repository,
and the cache lives for the `max-age` that comes with the keys (`auth.rs:855`).

**`AddressProofs`**, for words of any width. Of `FreeSpace`: `FirstFree`
(`FindsFirstFree`), `WhatFits` (`ReportsWhatFits`) and `Minimal` (`ReportIsMinimal`), for
blocks of any length and any number of allocations and of blocks asked for. They are
theorems of `Spec`, whose calls are all there are, and speak of the results of those
in which no value leaves its type: `InWord`, a condition on the arguments alone, is an
antecedent of the three properties and of the invariant (which calls it leaves out,
and what the code does in them, is in section 3). Of `Calculators`: `Packing`
(`PacksAll`), `ExactlyCovered` (`ExactCover`, so for every range but all of IPv6) and
`Partitions` (`SplitsPartition`), for any supernet and
any list of up to `MaxList` entries, whatever `MaxList`; the limit of a range goes up to
`2 * Word`, which no cover exceeds. Assumed: `WordAssumption`, `BoundsAssumption`,
`NullAssumption`, and `HalfAssumption`: IPv4 prefixes are fewer than the bits of a u64,
and the limit on generated subnets is below its largest value.

* *Powers of two.* The backends know nothing of `^`, so a power is the recursive
  function `Pow2` over Nat. That it has the value its definition says (`Pow2Def`: a
  function with those equations exists, so CHOOSE gives one) and that each power
  divides the greater ones is shown by least counterexample, for sets of numbers
  (`LeastMember`, from the well-foundedness of `<`).
* *Alignment.* Multiples of a size are a size apart; two CIDRs nest or are disjoint;
  the largest aligned block at an address that fits is what `trailing_zeros` and the
  least prefix give.
* *The invariant.* `GapsOk`: the gaps lie in the block, in order, are clear of
  what is occupied, and none can grow. `Scanning`: while allocations remain, all
  that lies before the cursor is occupied or in a gap. From these, at the end of
  `find_gaps`, every clear run of addresses lies in one gap. `Progress`: what is
  to be found (`Targets`: the aligned free runs, or the maximal free CIDRs) has been
  found or is ahead of the cursor. `InOrder` and `NoHole`: what was found is before
  it, ascending, with no target left out between, so a search that has enough
  has the lowest. `Cursors`: the cursor is aligned to what is being taken or split.
* *VLSM* (`PackInv`). The blocks lie one behind the other from the start of the
  supernet, and the cursor is the end of the last, or NULL if that is the end of the
  word. Since the blocks get no larger, the cursor is a multiple of the size of the
  next one, so each is a CIDR; and a refusal comes only when what was taken and the
  next block are more than the supernet, for which the addresses of the whole list
  are (`TakenGrows`).
* *Ranges* (`RangeInv`). What has been found covers the range up to the cursor
  (`CoveredTo`), and each block is a maximal CIDR of the range: a larger one would
  begin before the cursor, or not be aligned, or leave the range (`BlockBits`,
  `BlockMaximal`). So a call that stops at the limit has found as many maximal CIDRs
  as it says.
* *Summaries* (`SumInv`). `Keeping` and `Merging`: the addresses of what is pending, kept
  and merged are those of the request, through any number of passes. The entries
  kept are apart and ascending; that an entry is compared with the last one only is
  right because they are sorted (`NotContained`). A pass that merges nothing has no
  siblings among its neighbours, and then each entry is maximal
  (`NoSiblingsMaximal`): if a larger CIDR were covered, so would be the other half
  of the parent of a smallest entry in it, by one entry that is its neighbour.
* *Splits and trees* (`GenerateInv`, `TreeInv`). `Tree(k, x)`: the tree is there down to
  step k, the nodes up to the x-th have their children, those of a level are in the
  order of their addresses, and the children are before what is still to be split.
  How many nodes a level has is what `validate_steps` computed before the tree was
  built (`LevelFacts`); that its saturating sums are the true ones follows from the
  limit, which they would have passed (`StepAdds`).

**`GatewayProofs`**: `PartsAreDoneOnce` (`OnceByKey`) and `AnswersAreTrue` (`ToldTrue`),
for any calls, any number of tries and any loss, from `BoundsAssumption` and
`NullAssumption`. A try is handled at most once (`TriesInv`). If the call claims its
key, one try only has its claim behind it and the record says so for as long as the
call lasts (`ClaimInv`); if it is one unit, the unit that has committed has left its
record in the same transaction and the later ones find it (`UnitInv`).

What callers are told needs more (`ToldInv`). A handler has done every unit that it is
past (`PassedInv`), and a batch has counted those whose commit it heard of (`CountInv`);
a step that outlives its handler takes that count with it. The record of a claimed
batch holds the number of items that committed, and once it does nobody is at an
item, nor will be (`RecordInv`, `Settled`). And an answer, under way or told, is true
*and stays so*: a definite one is given only for a try for which nothing more can be
done (`Ended`: not under way, no handler, no step left behind), which is why it may
say that nothing was done; that is `True(x)`. It rests on a fact about the programs
(`ProgramCareful`): in every operation but a batch, only what may be done twice is
followed by another step, so a later refusal leaves nothing else behind.

`AnswersAreTrue` is about calls that the tables of `Frontends` lead to their operation
(`AsAsked`) or that are refused where they are made (`RefusedHere`). The tables are
finite and hold no parameter; the run `Gateway` goes through every call in them,
where `ToldTrue` fails if a success is told of anything but what was typed.

**`ReportsProofs`**: `ReportsNeverOverfull`, `SearchFindsOneHolder`, `AnswersWereSo` and
`AnswersMissNothing`, for any blocks, allocations and queries and any size of a page,
from the assumptions on NULL and the ids, `AddressesAssumption` (a block is finite) and
`PageAssumption` (the client does not ask for more rows than the server serves in a
page, `http_client.rs:12`). What others do is a unit that keeps blocks apart and gives a
free address (`StoreInv`), which `Space` and `Tenant` establish. The invariant has a part for
each thing a call holds between two reads:

* `SpaceInv`, `LiveInv`: a block that was read is as it was or gone, and what was counted
  in it are distinct addresses of it;
* `FoundInv`: at most one block has the address searched for, so the search, which
  goes by blocks, has found at most one and will not meet it again;
* `SeenInv`: all that was gathered was so at an instant of the call;
* `KeptInv`: what was so all along has been gathered or is still ahead. For a walk
  over pages that is a statement about positions: nothing leaves the table, so
  the rows before a row only grow in number, and a row not yet fetched is behind
  the offset. A page shorter than was asked for is the last one because
  `PageSize <= MaxPage`.

What the proofs asked of the models: the assumptions named above; that NULL is no
account, row or response, which TLC evaluates in every run; `find_gaps` as a loop
instead of a fold over a sorted sequence, which is closer to the code as well;
`remove_contained`, `merge_siblings` and `build_ipv4_tree` the same, entry by entry and
node by node; and `Pow2` in place of `^`.

## 5. What is only model-checked, and what is not modelled

With TLC only:

* Liveness under fairness (`Finishes`, `DueIsReleased`, `AllReturn`): TLAPS has no
  ENABLED.
* That the tables of `Frontends` lead some 186 calls to what was typed (`AsAsked`,
  above): TLC enumerates them, and a proof would be the same enumeration.

Not modelled:

* DNS (`dns/`): nothing in the program makes a `DnsService`, and its repository has no
  implementation but one in the tests, so there is no behaviour to be faithful to.
* The TUI and the dashboard: one user and a screen around the calculators and the
  HTTP API.
* Configuration, logging, telemetry and output: read once or formatted. A setting
  that matters to a property is a CONSTANT.
* The formats of tokens (hash, pepper, signature, claims), the browser's part of a
  login, the host counts and classes of an address, the OpenAPI document.
* Deadlocks between row locks inside a Postgres commit, and the import of SQLite
  databases older than the migrations.

## 6. Plan

Done: units and tables with the Mutations of blocks, allocations and hostnames;
keys and batches; free space and the calculators; the directory, tokens and their
contract; start, migrations and the sweep; reports; credentials and sessions; the
way of a call from each front end. Proved: every safety property of `TxUnits`,
`Directory`, `BatchClaim`, `Startup`, `Sweeper`, `Sessions`, `Reports`, `FreeSpace`,
`Calculators` and `Gateway`, and the refinements of `AtomicIpam` and `PlatformContract`.
Left: that `Reports`' units keep its store as those of `TxUnits` do, `StoreInv` from
`TablesInv` and `BlocksDisjoint`, as a refinement of the store.
