------------------------- MODULE HostnameMutations -------------------------
(***************************************************************************)
(* The hostname-pointer Mutations (src/ipam/operations/hostnames.rs).  An  *)
(* address and a hostname, already normalized, are one Pair.               *)
(***************************************************************************)
EXTENDS IpamTables

SetPointerRequest ==
    [kind : {"pointer"}, tenant : Tenants, pair : Pairs, alloc : Optional(Nat)]
DeletePointerRequest == [kind : {"unpoint"}, tenant : Tenants, pair : Pairs]

HistoryEntry(id, kind) == [pointer |-> id, change_kind |-> kind]

SetPointerAccepts(m, v) == m.alloc # NULL => v.alloc # NULL  \* AllocationNotFound

\* Update the pointer that was read, or create one with a fresh id.
SetPointerPlans(m, v, at) ==
    LET plan(id, kind) ==
          [EmptyPlan EXCEPT
            !.putPointers =
                Only(id, [tenant |-> m.tenant, pair |-> m.pair, alloc |-> m.alloc]),
            !.history = {HistoryEntry(id, kind)},
            !.audits = {Fact("set_hostname_pointer", "pointer", id)}]
    IN  IF DOMAIN v.pointer = {}
        THEN {plan(nextId.pointer, "create")}
        ELSE {plan(id, "update") : id \in DOMAIN v.pointer}

DeletePointerAccepts(m, v) == DOMAIN v.pointer # {}  \* HostnamePointerNotFound

\* Mutant of DeletePointerPlans: a deletion that leaves no history.
DeleteWithoutHistory(m, v, at) ==
    {[EmptyPlan EXCEPT !.deletePointers = {id}] : id \in DOMAIN v.pointer}

DeletePointerPlans(m, v, at) ==
    {[EmptyPlan EXCEPT
        !.deletePointers = {id},
        !.history = {HistoryEntry(id, "delete")},
        !.audits = {Fact("delete_hostname_pointer", "pointer", id)}] :
     id \in DOMAIN v.pointer}
=============================================================================
