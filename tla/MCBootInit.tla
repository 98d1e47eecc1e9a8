----------------------------- MODULE MCBootInit -----------------------------
(***************************************************************************)
(* BootInit for TLC: entries of g_init_manifest (init_manifest.c:145), in    *)
(* its order and with its classes, policies and dependencies.               *)
(***************************************************************************)
EXTENDS BootInit

MCManifest ==
  <<"namesvc", "process_manager", "vm_manager", "devmgr", "faultmgr", "servicemgr",
    "telemetrymgr", "storagemgr">>

MCServices == Range(MCManifest)

MCClass == [s \in MCServices |->
  CASE s \in {"namesvc", "process_manager", "vm_manager"} -> "CORE"
    [] s \in {"devmgr", "faultmgr", "servicemgr", "storagemgr"} -> "INFRA"
    [] s = "telemetrymgr" -> "OPTIONAL"]

MCRequired == {"namesvc", "process_manager", "faultmgr", "storagemgr"}

MCDeps == [s \in MCServices |->
  CASE s = "namesvc" -> {}
    [] s \in {"process_manager", "devmgr", "faultmgr", "servicemgr"} -> {"namesvc"}
    [] s = "vm_manager" -> {"namesvc", "process_manager"}
    [] s = "telemetrymgr" -> {"namesvc", "faultmgr"}
    [] s = "storagemgr" -> {"namesvc", "devmgr"}]

MCReporting == {"namesvc", "process_manager", "vm_manager"}

\* the graphs of BHARAT_INIT_CORE_BOOTSTRAP_ONLY and of larger profiles, and
\* one in which a dependency has been filtered out
MCProfiles ==
  {{"namesvc", "process_manager", "vm_manager"},
   {"namesvc", "process_manager", "faultmgr", "telemetrymgr"},
   {"namesvc", "process_manager", "devmgr", "servicemgr", "storagemgr"},
   {"namesvc", "process_manager", "storagemgr"},
   {"namesvc", "process_manager", "vm_manager", "faultmgr", "servicemgr"}}

MCFullProfile == {MCServices}
=============================================================================
