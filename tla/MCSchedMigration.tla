-------------------------- MODULE MCSchedMigration --------------------------
(* Two threads of core 0: the owner migrates the first to core 1, core 1   *)
(* asks for a migration of the second.                                     *)
EXTENDS SchedMigration

CONSTANTS t1, t2

MCHome == (t1 :> 0) @@ (t2 :> 0)
MCPrio == (t1 :> 2) @@ (t2 :> 1)
MCMigrators == (t1 :> {0}) @@ (t2 :> {1})
MCBothMigrators == (t1 :> {0, 1}) @@ (t2 :> {})
MCWakers == (t1 :> {0, 1}) @@ (t2 :> {})
MCMaxEpoch == (t1 :> 2) @@ (t2 :> 1)
MCUses == (0 :> <<2, 1>>) @@ (1 :> <<1>>)
=============================================================================
