---------------------------- MODULE PatLifecycle ----------------------------
(***************************************************************************)
(* Decisions on personal access tokens: mint, revoke, look up, touch and   *)
(* reap (src/pat_lifecycle.rs and the PAT reads and writes of the stores). *)
(* The owner of a token is an email: its tenant and its subject.           *)
(***************************************************************************)
EXTENDS Access

CONSTANTS
    PatIds,  \* a token, its id and its hash
    Limit,   \* max_pats_per_tenant
    Days     \* how long a token may live

ASSUME PatIdsAssumption == IsFiniteSet(PatIds) /\ NULL \notin PatIds
ASSUME LimitAssumption == Limit \in Nat
ASSUME DaysAssumption == Days \in SUBSET (Nat \ {0})

\* Times are numbers; last_used_at is -1 until the first use.
PersonalAccessToken ==
    [owner : Emails, role : Role, expires_at : Nat, last_used_at : Int, revoked : BOOLEAN]

ASSUME NullPatAssumption == NULL \notin PersonalAccessToken

\* The predicate of read_active_pat_count and of pat_get_by_hash.
Active(row, now) == row # NULL /\ ~ row.revoked /\ row.expires_at > now

ActiveOf(pats, owner, now) ==
    {id \in PatIds : Active(pats[id], now) /\ pats[id].owner = owner}

\* The stored role: what is asked for, at most the caller's, at most admin.
mint_role(requested, role) ==
    min(IF requested = NULL THEN role ELSE min(requested, role), "admin")

\* Mutant of MintAccepts: one above the limit.
MintAcceptsOneMore(count) == count <= Limit

MintAccepts(count) == count < Limit

Minted(owner, role, now, days) ==
    [owner |-> owner, role |-> role, expires_at |-> now + days, last_used_at |-> -1,
     revoked |-> FALSE]

\* RevokePat reads a token of somebody else as missing.
read_pat(pats, owner, id) ==
    IF pats[id] # NULL /\ pats[id].owner = owner THEN pats[id] ELSE NULL

\* Revoking a revoked token changes nothing.
RevokeAccepts(row) == row # NULL /\ ~ row.revoked

\* Mutant of Touched: writes back the row it verified.
TouchedWhole(pats, touch) ==
    IF pats[touch.id] = NULL THEN pats
    ELSE [pats EXCEPT ![touch.id].last_used_at = touch.now, ![touch.id].revoked = FALSE]

\* pat_touch_last_used updates one column of the row, if it is still there.
Touched(pats, touch) ==
    IF pats[touch.id] = NULL THEN pats ELSE [pats EXCEPT ![touch.id].last_used_at = touch.now]

\* pat_reap_expired.
Reaped(pats, before) ==
    [id \in PatIds |-> IF pats[id] # NULL /\ pats[id].expires_at < before THEN NULL ELSE pats[id]]
=============================================================================
