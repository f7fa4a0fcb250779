----------------------------- MODULE MCReports -----------------------------
(***************************************************************************)
(* An instance of Reports for TLC: every kind of call, two blocks, three   *)
(* allocations, two addresses, pages of one row.                          *)
(***************************************************************************)
EXTENDS Reports

Ask(kind) == [kind |-> kind, block |-> NULL, ip |-> NULL, status |-> Statuses]

MCQueries ==
    {Ask("summary"), Ask("dump"), [Ask("find") EXCEPT !.ip = 1],
     [Ask("utilization") EXCEPT !.block = 1], [Ask("release") EXCEPT !.block = 1],
     [Ask("list") EXCEPT !.status = LIVE], [Ask("list") EXCEPT !.block = 1]}
=============================================================================
