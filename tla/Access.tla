------------------------------- MODULE Access -------------------------------
(***************************************************************************)
(* Who may do what: the roles, the users directory as an allowlist, and    *)
(* the gates a request passes (src/auth.rs, src/authorization.rs,          *)
(* src/me_api.rs).  These are functions of the tables read; Directory says *)
(* when each table is read.                                                *)
(***************************************************************************)
EXTENDS Integers, FiniteSets

CONSTANTS
    NULL,    \* no row, no email, no token
    Emails,  \* an identity: its verified email, tenant and subject
    Config   \* the allowlist mode and the email lists of the environment

Role == {"reader", "allocator", "admin", "platform_admin"}
tier == [reader |-> 0, allocator |-> 1, admin |-> 2, platform_admin |-> 3]

min(r, s) == IF tier[r] <= tier[s] THEN r ELSE s

UserRecord ==
    [role : Role, status : {"active", "disabled"}, created_by : {"operator", "bootstrap"}]

ASSUME NullAssumption == NULL \notin Emails \cup UserRecord \cup Role
ASSUME EmailsAssumption == IsFiniteSet(Emails)
ASSUME ConfigAssumption ==
    Config \in [mode : {"open", "closed", NULL}, admin : SUBSET Emails,
                allocator : SUBSET Emails, reader : SUBSET Emails, allowed : SUBSET Emails]

\* A pinned mode wins; otherwise an empty list of allowed emails means open.
open_mode == Config.mode = "open" \/ (Config.mode = NULL /\ Config.allowed = {})

-----------------------------------------------------------------------------
(* Reading the directory.                                                   *)

\* Mutant of resolve_access: a row admits whatever its status.
resolve_access_lax(users, email) ==
    IF email = NULL THEN [role |-> "platform_admin", allowed |-> open_mode]
    ELSE IF users[email] = NULL THEN [role |-> "reader", allowed |-> open_mode]
    ELSE [role |-> users[email].role, allowed |-> TRUE]

\* The role of an email and whether it is admitted.  The static bearer token
\* has no email.
resolve_access(users, email) ==
    IF email = NULL THEN [role |-> "platform_admin", allowed |-> open_mode]
    ELSE IF users[email] = NULL THEN [role |-> "reader", allowed |-> open_mode]
    ELSE [role |-> users[email].role, allowed |-> users[email].status = "active"]

\* verify_bearer_token's check of the owner of a token.
owner_admitted(users, email) ==
    IF users[email] = NULL THEN open_mode ELSE users[email].status = "active"

\* A token narrows the role of its owner and never widens it.
resolved_role(method, stored, email_role) ==
    IF method = "pat" THEN min(email_role, stored) ELSE email_role

-----------------------------------------------------------------------------
(* The gates of the routes.                                                 *)

\* One operation of each tier of /ipam, those of /admin/users, and those of
\* /me/tokens, which have no role of their own.
Kinds == {"read", "allocate", "create", "upsert", "delete", "mint", "revoke"}

required_role(kind) ==
    CASE kind = "allocate" -> "allocator"
      [] kind = "create" -> "admin"
      [] kind \in {"upsert", "delete"} -> "platform_admin"
      [] OTHER -> "reader"

check_role(role, kind) == tier[role] >= tier[required_role(kind)]

\* Tokens do not manage tokens.
require_oidc(method, kind) == kind \in {"mint", "revoke"} => method = "oidc"
=============================================================================
