-------------------------- MODULE MCCapTransaction --------------------------
EXTENDS CapTransaction

CONSTANTS c1, c2, h1, h2, h3, ca, cb, ra, rb

(* Threads h1 and h3 run on core c1, h2 on c2; CSpaces ca and cb belong to *)
(* c1, ra and rb to c2.                                                    *)
HomeOf == [h \in Threads |-> IF h = h2 THEN c2 ELSE c1]
OwnerOf == [t \in Tables |-> IF t \in {ra, rb} THEN c2 ELSE c1]

(* Everybody hands capabilities on and revokes.                            *)
All == [h \in Threads |-> {"delegate", "revoke"}]

(* Core c1 hands out and takes back, core c2 takes back what it was given. *)
OneWay == [h \in Threads |-> IF h = h2 THEN {"revoke"} ELSE {"delegate", "revoke"}]

(* One thread hands on and revokes, the other uses them.                   *)
Pinning == [h \in Threads |-> IF h = h1 THEN {"delegate", "revoke"} ELSE {"pin"}]

(* CSpaces come and go.                                                    *)
Tabling == [h \in Threads |-> {"grant", "create", "destroy", "delegate", "revoke"}]
=============================================================================
