------------------------------ MODULE Frontends ------------------------------
(***************************************************************************)
(* What the front ends of netcidr can ask for and what becomes of it: the  *)
(* commands of the CLI (src/cli.rs, src/ipam_cli.rs, src/token_cli.rs) and  *)
(* the tools of the MCP server (src/mcp.rs), the requests the HTTP client   *)
(* makes of them (src/ipam/http_client.rs), the routes of the server        *)
(* (src/api.rs, src/ipam_api.rs, src/me_api.rs) and the units and reads of  *)
(* the operation at the end (src/ipam/operations.rs).                       *)
(*                                                                         *)
(* An argument is the name of its field.  The id or address in a path is a  *)
(* "*" and left out of the arguments.                                      *)
(***************************************************************************)
EXTENDS Integers, Sequences, TLC

(***************************************************************************)
(* What may be asked: the flags of a command and the parameters of a tool, *)
(* under the name of the field they are meant for (`--ttl' is ttl_seconds, *)
(* the target of a hostname history an ip or a hostname)                   *)
(***************************************************************************)
Descriptive ==
    {"name", "description", "resource_id", "resource_type", "environment", "owner"}
AllocateFields ==
    Descriptive \cup {"status", "parent_allocation_id", "tags", "ttl_seconds"}
AuditFields == {"entity_type", "entity_id", "action", "caller_email", "pat_id", "limit"}
Pointer == {"ip", "hostname", "allocation_id", "notes"}
Releases == {"allocation_ids", "resource_id", "cidr_block_id"}

Flagless(names) == [name \in names |-> {}]

IpamArgs ==
    ("allocate" :> (AllocateFields \ {"tags"}) \cup {"cidr"})
    @@ ("auto-allocate" :> (AllocateFields \ {"tags"}) \cup {"prefix_length", "count"})
    @@ ("free-blocks" :> {"prefix"})
    @@ ("audit" :> {"entity_type", "entity_id", "action", "limit"})
    @@ ("dump" :> {"tenant"}) @@ ("load" :> {"tenant", "dump"})
    @@ Flagless({"release", "utilization", "reap", "find-ip", "find-resource"})
CidrBlockArgs ==
    ("cidr-block create" :> {"cidr", "name", "description"})
    @@ Flagless({"cidr-block list", "cidr-block get", "cidr-block delete"})
AllocationArgs ==
    ("allocation list" :> {"status", "resource_id", "resource_type", "environment", "owner"})
    @@ ("allocation update" :> Descriptive \cup {"status"}) @@ Flagless({"allocation get"})
TagArgs == ("tags set" :> {"tags"}) @@ Flagless({"tags get"})
HostnameArgs ==
    ("hostname set" :> Pointer) @@ ("hostname list" :> Pointer \ {"notes"})
    @@ ("hostname history ip" :> {"ip"}) @@ ("hostname history hostname" :> {"hostname"})
    @@ ("hostname get" :> {"ip"}) @@ ("hostname delete" :> {"ip", "hostname"})
AdminArgs ==
    ("admin audit" :> AuditFields \ {"entity_id"}) @@ ("admin user add" :> {"email", "role"})
    @@ [name \in {"admin user disable", "admin user enable", "admin user remove"} |-> {"email"}]
    @@ Flagless({"admin user list"})
TokenArgs ==
    ("token create" :> {"name", "expires_in_days", "role"})
    @@ Flagless({"token list", "token revoke"})

CalculatorArgs ==
    ("CIDR" :> {"cidr"}) @@ ("CIDR..." :> {"cidrs"})
    @@ ("split" :> {"cidr", "prefix", "count", "max", "count_only"})
    @@ ("split --vlsm" :> {"cidr", "prefixes"}) @@ ("split --steps" :> {"cidr", "steps"})
    @@ ("contains" :> {"cidr", "address"}) @@ ("from-range" :> {"start", "end"})
    @@ ("summarize" :> {"cidrs"})
CalculatorParams ==
    ("subnet_calc" :> {"cidr"}) @@ ("subnet_split" :> {"cidr", "prefix", "count", "max"})
    @@ ("subnet_vlsm" :> {"cidr", "prefixes"}) @@ ("subnet_split_tree" :> {"cidr", "steps"})
    @@ ("contains_check" :> {"cidr", "address"}) @@ ("from_range" :> {"start", "end"})
    @@ ("summarize tool" :> {"cidrs"})
ToolParams ==
    ("ipam_create_cidr_block" :> {"cidr", "name", "description"})
    @@ ("ipam_allocate" :>
          {"prefix_length", "count", "name", "environment", "owner", "resource_id"})
    @@ ("ipam_allocate_specific" :> {"cidr", "name", "environment", "owner", "resource_id"})
    @@ ("ipam_update_allocation" :> Descriptive)
    @@ ("ipam_list_allocations" :> {"status", "environment", "owner"})
    @@ ("ipam_free_blocks" :> {"prefix"})
    @@ Flagless({"ipam_list_cidr_blocks", "ipam_release", "ipam_utilization", "ipam_find_ip",
                 "ipam_find_resource"})
BatchParams ==
    ("ipam_batch_allocate" :> {"items"}) @@ ("ipam_batch_release" :> Releases)
    @@ ("ipam_allocation_summary" :> {"cidr_block_id"})
HostnameParams ==
    ("ipam_hostname_set" :> Pointer) @@ ("ipam_hostname_list" :> Pointer \ {"notes"})
    @@ ("ipam_hostname_history" :> {"ip", "hostname"})
    @@ ("ipam_hostname_delete" :> {"ip", "hostname"})

Typed ==
    IpamArgs @@ CidrBlockArgs @@ AllocationArgs @@ TagArgs @@ HostnameArgs @@ AdminArgs
        @@ TokenArgs @@ CalculatorArgs @@ CalculatorParams @@ ToolParams @@ BatchParams @@ HostnameParams

(***************************************************************************)
(* What the front end makes of it: a method of the backend and the fields  *)
(* it passes                                                               *)
(***************************************************************************)
Asks(table) ==
    {[name |-> t[1], typed |-> Typed[t[1]], method |-> t[2], args |-> t[3]] : t \in table}

BlockCommands ==
    {<<"cidr-block create", "create_cidr_block", {"cidr", "name", "description"}>>,
     <<"cidr-block list", "list_cidr_blocks", {}>>,
     <<"cidr-block get", "get_cidr_block", {}>>,
     <<"cidr-block delete", "delete_cidr_block", {}>>,
     <<"allocate", "allocate_specific", (AllocateFields \cup {"cidr"}) \ {"tags"}>>,
     <<"auto-allocate", "allocate_auto",
       (AllocateFields \cup {"prefix_length", "count"}) \ {"tags"}>>}
AllocationCommands ==
    {<<"allocation get", "get_allocation", {}>>,
     <<"allocation list", "list_allocations",
       {"status", "resource_id", "resource_type", "environment", "owner"}>>,
     <<"allocation update", "update_allocation", Descriptive \cup {"status"}>>,
     <<"release", "release_allocation", {}>>,
     <<"utilization", "utilization", {}>>,
     <<"reap", "reap_expired", {}>>,
     <<"free-blocks", "free_blocks", {"prefix"}>>,
     <<"find-ip", "find_by_ip", {}>>}
SearchCommands ==
    {<<"find-resource", "find_by_resource", {}>>,
     <<"audit", "query_audit", {"entity_type", "entity_id", "action", "limit"}>>,
     <<"dump", "dump", {"tenant"}>>,
     <<"load", "load", {"tenant", "dump"}>>,
     <<"tags get", "get_allocation", {}>>,
     <<"tags set", "set_tags", {"tags"}>>}
HostnameCommands ==
    {<<"hostname set", "set_hostname_pointer", {"ip", "hostname", "allocation_id", "notes"}>>,
     <<"hostname get", "get_hostname_pointers_for_ip", {"ip"}>>,
     <<"hostname list", "list_hostname_pointers", {"ip", "hostname", "allocation_id"}>>,
     <<"hostname history ip", "list_hostname_history", {"ip"}>>,
     <<"hostname history hostname", "list_hostname_history", {"hostname"}>>,
     <<"hostname delete", "delete_hostname_pointer", {"ip", "hostname"}>>}
AdminCommands ==
    {<<"admin audit", "query_audit", AuditFields \ {"entity_id"}>>,
     <<"admin user add", "upsert_user", {"email", "role"}>>,
     <<"admin user disable", "disable_user", {"email"}>>,
     <<"admin user enable", "enable_user", {"email"}>>,
     <<"admin user remove", "delete_user", {"email"}>>,
     <<"admin user list", "list_users", {}>>}
TokenCommands ==
    {<<"token list", "list_tokens", {}>>,
     <<"token create", "create_token", {"name", "expires_in_days", "role"}>>,
     <<"token revoke", "revoke_token", {}>>}

CalculatorCommands ==
    {<<"CIDR", "calculate", {"cidr"}>>,
     <<"CIDR...", "batch", {"cidrs"}>>,
     <<"split", "split", {"cidr", "prefix", "count", "max", "count_only"}>>,
     <<"split --vlsm", "vlsm", {"cidr", "prefixes"}>>,
     <<"split --steps", "split_tree", {"cidr", "steps"}>>,
     <<"contains", "contains", {"cidr", "address"}>>,
     <<"from-range", "from_range", {"start", "end"}>>,
     <<"summarize", "summarize", {"cidrs"}>>}
CalculatorTools ==
    {<<"subnet_calc", "calculate", {"cidr"}>>,
     <<"subnet_split", "split", {"cidr", "prefix", "count", "max"}>>,
     <<"subnet_vlsm", "vlsm", {"cidr", "prefixes"}>>,
     <<"subnet_split_tree", "split_tree", {"cidr", "steps"}>>,
     <<"contains_check", "contains", {"cidr", "address"}>>,
     <<"from_range", "from_range", {"start", "end"}>>,
     <<"summarize tool", "summarize", {"cidrs"}>>}
BlockTools ==
    {<<"ipam_create_cidr_block", "create_cidr_block", {"cidr", "name", "description"}>>,
     <<"ipam_list_cidr_blocks", "list_cidr_blocks", {}>>,
     <<"ipam_allocate", "allocate_auto",
       {"prefix_length", "count", "name", "environment", "owner", "resource_id"}>>,
     <<"ipam_allocate_specific", "allocate_specific",
       {"cidr", "name", "environment", "owner", "resource_id"}>>}
AllocationTools ==
    {<<"ipam_update_allocation", "update_allocation", Descriptive>>,
     <<"ipam_release", "release_allocation", {}>>,
     <<"ipam_list_allocations", "list_allocations", {"status", "environment", "owner"}>>,
     <<"ipam_free_blocks", "free_blocks", {"prefix"}>>,
     <<"ipam_utilization", "utilization", {}>>,
     <<"ipam_find_ip", "find_by_ip", {}>>,
     <<"ipam_find_resource", "find_by_resource", {}>>}
BatchTools ==
    {<<"ipam_batch_allocate", "batch_allocate", {"items"}>>,
     <<"ipam_batch_release", "batch_release",
       {"allocation_ids", "resource_id", "cidr_block_id"}>>,
     <<"ipam_allocation_summary", "allocation_summary", {"cidr_block_id"}>>}
HostnameTools ==
    {<<"ipam_hostname_set", "set_hostname_pointer",
       {"ip", "hostname", "allocation_id", "notes"}>>,
     <<"ipam_hostname_list", "list_hostname_pointers", {"ip", "hostname", "allocation_id"}>>,
     <<"ipam_hostname_history", "list_hostname_history", {"ip", "hostname"}>>,
     <<"ipam_hostname_delete", "delete_hostname_pointer", {"ip", "hostname"}>>}

IpamCommands ==
    Asks(BlockCommands \cup AllocationCommands \cup SearchCommands \cup HostnameCommands)
\* These run where they are asked, with a backend or without.
OwnCommands == Asks(AdminCommands \cup CalculatorCommands \cup CalculatorTools)
McpTools == Asks(BlockTools \cup AllocationTools \cup BatchTools \cup HostnameTools)

\* `dump' and `load' are refused on a server, before anything is read.
local_ops(method) == method \notin {"dump", "load"}

(***************************************************************************)
(* What the client sends                                                   *)
(***************************************************************************)
Request(verb, path, fields) == [verb |-> verb, path |-> path, fields |-> fields]

BlockRequests ==
    [create_cidr_block |-> Request("POST", "/ipam/cidr-blocks", {"cidr", "name", "description"}),
     list_cidr_blocks |-> Request("GET", "/ipam/cidr-blocks", {}),
     get_cidr_block |-> Request("GET", "/ipam/cidr-blocks/*", {}),
     delete_cidr_block |-> Request("DELETE", "/ipam/cidr-blocks/*", {}),
     free_blocks |-> Request("GET", "/ipam/cidr-blocks/*/free", {"prefix"}),
     utilization |-> Request("GET", "/ipam/cidr-blocks/*/utilization", {})]
AllocateRequests ==
    [allocate_auto |-> Request("POST", "/ipam/cidr-blocks/*/allocate",
                               AllocateFields \cup {"prefix_length", "count"}),
     allocate_specific |-> Request("POST", "/ipam/cidr-blocks/*/allocate-specific",
                                   AllocateFields \cup {"cidr"}),
     update_allocation |-> Request("PATCH", "/ipam/allocations/*", Descriptive \cup {"status"}),
     release_allocation |-> Request("POST", "/ipam/allocations/*/release", {})]
AllocationRequests ==
    [list_allocations |-> Request("GET", "/ipam/cidr-blocks/*/allocations",
                                  {"status", "environment", "owner", "resource_id",
                                   "resource_type"}),
     get_allocation |-> Request("GET", "/ipam/allocations/*", {}),
     set_tags |-> Request("PUT", "/ipam/allocations/*/tags", {"tags"}),
     reap_expired |-> Request("POST", "/ipam/reap", {}),
     query_audit |-> Request("GET", "/ipam/audit", AuditFields),
     find_by_ip |-> Request("GET", "/ipam/find-ip/*", {}),
     find_by_resource |-> Request("GET", "/ipam/find-resource/*", {})]
BatchRequests ==
    [batch_allocate |-> Request("POST", "/ipam/batch/allocate", {"items"}),
     batch_release |-> Request("POST", "/ipam/batch/release",
                               {"allocation_ids", "resource_id", "cidr_block_id"}),
     allocation_summary |-> Request("GET", "/ipam/batch/summary", {"cidr_block_id"})]
HostnameRequests ==
    [set_hostname_pointer |-> Request("POST", "/ipam/hostnames",
                                      {"ip", "hostname", "allocation_id", "notes"}),
     list_hostname_pointers |-> Request("GET", "/ipam/hostnames",
                                        {"ip", "hostname", "allocation_id"}),
     \* the remote backend asks for the list instead
     get_hostname_pointers_for_ip |-> Request("GET", "/ipam/hostnames",
                                              {"ip", "hostname", "allocation_id"}),
     list_hostname_history |-> Request("GET", "/ipam/hostnames/history", {"ip", "hostname"}),
     delete_hostname_pointer |-> Request("DELETE", "/ipam/hostnames", {"ip", "hostname"})]
TokenRequests ==
    [list_tokens |-> Request("GET", "/me/tokens", {}),
     create_token |-> Request("POST", "/me/tokens", {"name", "expires_in_days", "role"}),
     revoke_token |-> Request("DELETE", "/me/tokens/*", {})]

Requests ==
    BlockRequests @@ AllocateRequests @@ AllocationRequests @@ BatchRequests
        @@ HostnameRequests @@ TokenRequests

(***************************************************************************)
(* What the server takes                                                   *)
(***************************************************************************)
\* A row: verb, path, who may call it, the operation, the fields it takes.
Routed(table) ==
    {[verb |-> t[1], path |-> t[2], role |-> t[3], method |-> t[4], takes |-> t[5]] : t \in table}

BlockRoutes ==
    {<<"POST", "/ipam/cidr-blocks", "admin", "create_cidr_block",
       {"cidr", "name", "description"}>>,
     <<"GET", "/ipam/cidr-blocks", "reader", "list_cidr_blocks", {}>>,
     <<"GET", "/ipam/cidr-blocks/*", "reader", "get_cidr_block", {}>>,
     <<"DELETE", "/ipam/cidr-blocks/*", "admin", "delete_cidr_block", {}>>}
AllocateRoutes ==
    {<<"POST", "/ipam/cidr-blocks/*/allocate-specific", "allocator", "allocate_specific",
       AllocateFields \cup {"cidr"}>>,
     <<"POST", "/ipam/cidr-blocks/*/allocate", "allocator", "allocate_auto",
       AllocateFields \cup {"prefix_length", "count"}>>}
AllocationRoutes ==
    {<<"GET", "/ipam/cidr-blocks/*/allocations", "reader", "list_allocations",
       {"status", "resource_id", "resource_type", "environment", "owner"}>>,
     <<"GET", "/ipam/cidr-blocks/*/free", "reader", "free_blocks", {"prefix"}>>,
     <<"GET", "/ipam/cidr-blocks/*/utilization", "reader", "utilization", {}>>,
     <<"GET", "/ipam/allocations/*", "reader", "get_allocation", {}>>,
     <<"PATCH", "/ipam/allocations/*", "allocator", "update_allocation",
       Descriptive \cup {"status"}>>}
LookupRoutes ==
    {<<"POST", "/ipam/allocations/*/release", "allocator", "release_allocation", {}>>,
     <<"GET", "/ipam/find-ip/*", "reader", "find_by_ip", {}>>,
     <<"GET", "/ipam/find-resource/*", "reader", "find_by_resource", {}>>}
HostnameRoutes ==
    {<<"POST", "/ipam/hostnames", "allocator", "set_hostname_pointer",
       {"ip", "hostname", "allocation_id", "notes"}>>,
     <<"GET", "/ipam/hostnames", "reader", "list_hostname_pointers",
       {"ip", "hostname", "allocation_id"}>>,
     <<"GET", "/ipam/hostnames/history", "reader", "list_hostname_history", {"ip", "hostname"}>>,
     <<"DELETE", "/ipam/hostnames", "allocator", "delete_hostname_pointer", {"ip", "hostname"}>>}
TenantRoutes ==
    {<<"POST", "/ipam/reap", "admin", "reap_expired", {}>>,
     <<"GET", "/ipam/audit", "admin", "query_audit", AuditFields>>,
     <<"PUT", "/ipam/allocations/*/tags", "allocator", "set_tags", {"tags"}>>}
BatchRoutes ==
    {<<"POST", "/ipam/batch/allocate", "allocator", "batch_allocate", {"items"}>>,
     <<"POST", "/ipam/batch/release", "allocator", "batch_release",
       {"allocation_ids", "resource_id", "cidr_block_id"}>>,
     <<"GET", "/ipam/batch/summary", "reader", "allocation_summary", {"cidr_block_id"}>>}
AdminRoutes ==
    {<<"GET", "/admin/users", "platform_admin", "list_users", {}>>,
     <<"POST", "/admin/users", "platform_admin", "upsert_user", {"email", "role", "status"}>>,
     <<"DELETE", "/admin/users", "platform_admin", "delete_user", {"email"}>>}
MeRoutes ==
    {<<"POST", "/me/tokens", "oidc", "create_token", {"name", "expires_in_days", "role"}>>,
     <<"GET", "/me/tokens", "oidc", "list_tokens", {}>>,
     <<"DELETE", "/me/tokens/*", "oidc", "revoke_token", {}>>}
Calculator(path, method, fields) ==
    {<<"GET", "/v4" \o path, "public", method \o "_ipv4", fields>>,
     <<"GET", "/v6" \o path, "public", method \o "_ipv6", fields>>}
NetworkRoutes == Calculator("", "calculate", {"cidr"})
SplitRoutes ==
    Calculator("/split", "split", {"cidr", "prefix", "count", "max", "count_only"})
ContainsRoutes == Calculator("/contains", "contains", {"cidr", "address"})
VlsmRoutes == Calculator("/vlsm", "vlsm", {"cidr", "prefixes"})
SplitTreeRoutes == Calculator("/split-tree", "split_tree", {"cidr", "steps"})
SummarizeRoutes == Calculator("/summarize", "summarize", {"cidrs"})
FromRangeRoutes == Calculator("/from-range", "from_range", {"start", "end"})
BatchRoute == {<<"POST", "/batch", "public", "batch", {"cidrs"}>>}
CalculatorRoutes ==
    NetworkRoutes \cup SplitRoutes \cup ContainsRoutes \cup VlsmRoutes \cup SplitTreeRoutes
        \cup SummarizeRoutes \cup FromRangeRoutes \cup BatchRoute
InfoRoutes ==
    {<<"GET", "/health", "public", "health", {}>>,
     <<"GET", "/version", "public", "version", {}>>,
     <<"GET", "/features", "public", "features", {}>>,
     <<"GET", "/me", "known", "me", {}>>}

Routes ==
    Routed(BlockRoutes \cup AllocateRoutes \cup AllocationRoutes \cup LookupRoutes
           \cup HostnameRoutes \cup TenantRoutes \cup BatchRoutes \cup AdminRoutes
           \cup MeRoutes \cup CalculatorRoutes \cup InfoRoutes)

\* The routes that honour an Idempotency-Key.
KeyedMethods == {"allocate_specific", "allocate_auto", "batch_allocate"}

(***************************************************************************)
(* What an operation does: its reads and its units, in order               *)
(***************************************************************************)
Programs ==
    [create_cidr_block |-> <<"Create">>, delete_cidr_block |-> <<"Delete">>,
     allocate_specific |-> <<"AllocateSpecific">>, allocate_auto |-> <<"AllocateAuto">>,
     update_allocation |-> <<"read", "Update">>, release_allocation |-> <<"read", "Release">>,
     set_tags |-> <<"read", "SetTags", "read">>,
     reap_expired |-> <<"read", "Expire", "Expire">>,
     batch_allocate |-> <<"AllocateAuto", "AllocateAuto">>,
     batch_release |-> <<"read", "Release", "Release">>,
     set_hostname_pointer |-> <<"SetPointer">>, delete_hostname_pointer |-> <<"DeletePointer">>,
     load |-> <<"Load">>, upsert_user |-> <<"UpsertUser">>, delete_user |-> <<"DeleteUser">>,
     disable_user |-> <<"read", "UpsertUser">>, enable_user |-> <<"read", "UpsertUser">>,
     create_token |-> <<"MintPat">>, revoke_token |-> <<"RevokePat">>]
ReadPrograms ==
    [utilization |-> <<"read", "read", "read">>, free_blocks |-> <<"read", "read">>,
     find_by_ip |-> <<"read", "read">>, allocation_summary |-> <<"read", "read">>,
     dump |-> <<"read", "read">>]
\* Answered without the store (me asks the directory, and takes no for a failure).
Calculations ==
    {"calculate", "split", "vlsm", "split_tree", "contains", "summarize", "from_range", "batch"}
Stateless ==
    Calculations \cup {r[4] : r \in CalculatorRoutes} \cup {"health", "version", "features", "me"}

Program(method) ==
    IF method \in DOMAIN Programs THEN Programs[method]
    ELSE CASE method \in DOMAIN ReadPrograms -> ReadPrograms[method]
           [] method \in Stateless -> <<>>
           [] OTHER -> <<"read">>

\* A batch reports an item that fails and goes on.
Batches == {"batch_allocate", "batch_release"}
=============================================================================
