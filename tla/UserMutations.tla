--------------------------- MODULE UserMutations ---------------------------
(***************************************************************************)
(* Decisions on the users directory: upsert, delete and the one-shot seed  *)
(* (src/ipam/operations/users.rs, src/ipam/bootstrap.rs).  Each takes the  *)
(* snapshot its unit read and returns whether it accepts and the directory *)
(* it leaves; a directory is a function from Emails to a row or NULL.      *)
(***************************************************************************)
EXTENDS Access

IsPlatformAdmin(row) == row # NULL /\ row.role = "platform_admin" /\ row.status = "active"

ActivePlatformAdmins(users) == {e \in Emails : IsPlatformAdmin(users[e])}

\* What UpsertUser and DeleteUser read.
directory_reads(users, email) ==
    [user |-> users[email], admins |-> Cardinality(ActivePlatformAdmins(users))]

\* Nobody removes their own active platform_admin row, nor the last one.  A
\* caller without an email (the CLI, the static bearer) has no row of its own.
guard_platform_admins(snap, email, survives, caller_email) ==
    IsPlatformAdmin(snap.user) /\ ~ survives => caller_email # email /\ snap.admins > 1

UpsertAccepts(snap, r, caller_email) ==
    snap.user # NULL =>
        guard_platform_admins(snap, r.email,
            r.role = "platform_admin" /\ r.status = "active", caller_email)

\* put_user; a row keeps who created it.
Upserted(users, snap, r) ==
    [users EXCEPT ![r.email] =
        [role |-> r.role, status |-> r.status,
         created_by |-> IF snap.user = NULL THEN "operator" ELSE snap.user.created_by]]

DeleteAccepts(snap, r, caller_email) ==
    snap.user # NULL /\ guard_platform_admins(snap, r.email, FALSE, caller_email)

Deleted(users, r) == [users EXCEPT ![r.email] = NULL]

-----------------------------------------------------------------------------
(* The seed.                                                                *)

\* user_seed_triples: the strongest list wins; with an allowlist, an email
\* that is not on it is seeded disabled.
seed(email) ==
    [role |-> IF email \in Config.admin THEN "platform_admin"
              ELSE IF email \in Config.allocator THEN "allocator" ELSE "reader",
     status |-> IF Config.allowed = {} \/ email \in Config.allowed THEN "active" ELSE "disabled",
     created_by |-> "bootstrap"]

Seeds == Config.admin \cup Config.allocator \cup Config.reader \cup Config.allowed

\* Rows for the emails that were not taken when the unit read the directory.
Seeded(users, taken) ==
    [e \in Emails |-> IF e \in Seeds \ taken THEN seed(e) ELSE users[e]]
=============================================================================
