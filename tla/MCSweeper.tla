----------------------------- MODULE MCSweeper -----------------------------
(***************************************************************************)
(* An instance of Sweeper for TLC: two servers, two migrations of the      *)
(* kinds there are (a lenient CREATE; a DROP with the CREATE after it),    *)
(* three allocations in two blocks, one of which always fails.             *)
(***************************************************************************)
EXTENDS Sweeper

Sql(drop, on, add, lenient) == [drop |-> drop, on |-> on, add |-> add, lenient |-> lenient]

MCMigrations ==
    <<<<Sql({}, {}, {"table"}, TRUE)>>,
      <<Sql({"table", "column"}, {}, {}, TRUE), Sql({}, {}, {"table", "column"}, FALSE)>>>>

MCBlockOf == [a \in AllocIds |-> IF a = 1 THEN 1 ELSE 2]
=============================================================================
