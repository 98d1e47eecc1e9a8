-------------------------- MODULE MCUrpcBootstrap --------------------------
EXTENDS UrpcBootstrap

CONSTANTS c0, c1, c2

(* One sender for each channel: the boot core to c1, c1 to c2, c2 back.    *)
Line == [p \in Cores |-> CASE p = c0 -> {c1} [] p = c1 -> {c2} [] OTHER -> {c0}]

(* Every core sends to every other.                                        *)
Mesh == [p \in Cores |-> Cores \ {p}]
=============================================================================
