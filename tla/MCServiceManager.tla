-------------------------- MODULE MCServiceManager --------------------------
(* Small service graphs, each with the faults and requests that make its   *)
(* part of the state space interesting.                                    *)
EXTENDS ServiceManager

Rec(deps, limit, critical) ==
    [deps |-> deps, policy |-> IF limit = 0 THEN "none" ELSE "bounded",
     critical |-> critical, deadline |-> 1, limit |-> limit]
One(limit, pid) == <<[rec |-> Rec({}, limit, TRUE), pid |-> pid]>>
Two(pid) == <<[rec |-> Rec({}, 0, TRUE), pid |-> pid], [rec |-> Rec({1}, 1, FALSE), pid |-> 0]>>
Setup(g, losses, admin, reports) ==
    [graph |-> g, losses |-> losses, admin |-> admin, reports |-> reports]
Healthy == {"BOUND", "READY"}
Reports == Healthy \cup {"DEGRADED", "FAILED", "STOPPED"}

(* Answers get lost; stops; a dependency on a child of init; a late        *)
(* registration.                                                           *)
Silent == Setup(One(2, 0), {"silent"}, {"start"}, Healthy)
Stops == Setup(One(1, 0), {}, {"start", "stop"}, Reports \ {"DEGRADED"})
Depends == Setup(Two(9), {}, {"start"}, Healthy)
Registers == Setup(One(0, 9), {"lost"}, {"register"}, Reports)
MCSetups == {Silent, Stops, Depends, Registers}

(* A child of init with a number the process manager uses too.             *)
SameNumberSetups == {Setup(Two(1), {}, {"start", "stop"}, Healthy)}
=============================================================================
