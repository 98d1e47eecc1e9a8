--------------------------- MODULE MCEndpointIpc ---------------------------
(* Two uses of an endpoint in one instance, chosen at the start: waits     *)
(* without a deadline through two incarnations of the slot, and waits with *)
(* one, which the timer or the peer cuts short, in a single incarnation.   *)
EXTENDS EndpointIpc

CONSTANTS t1, t2

VARIABLE use

(* One owner that creates, delegates, receives and closes; a peer that     *)
(* sends and receives, hands on, revokes and closes what it was given, and *)
(* cancels waits.                                                          *)
OwnerAndPeer == [t \in Threads |->
    IF t = t1 THEN {"create", "delegate", "revoke", "close", "receive"}
    ELSE {"send", "receive", "delegate", "revoke", "close", "cancel"}]

AllMsgs == {[long |-> TRUE, slots |-> 2], [long |-> FALSE, slots |-> 0]}
AllRecvs == {[small |-> FALSE, slots |-> 2], [small |-> TRUE, slots |-> 1]}

Uses == {"untimed", "timed"}

(* What a thread may begin, on top of MayDo.                               *)
Begins(t) ==
    LET o == op'[t]
    IN  IF use = "untimed" THEN o.kind # "cancel" /\ o.timeout # "finite"
        ELSE /\ o.kind \in {"send", "receive"} =>
                    o.timeout = "finite" /\ o.flag = (o.kind = "send")
             /\ o.kind # "release"
             /\ t # t1 => o.kind \in {"send", "receive", "cancel"}

UseNext ==
    /\ Next
    /\ UNCHANGED use
    /\ \A t \in Threads : pc[t] = "idle" /\ pc'[t] # "idle" => Begins(t)
    /\ use = "timed" => ep'.gen <= 2

UseInit == Init /\ use \in Uses

UseSpec == UseInit /\ [][UseNext]_<<vars, use>> /\ Fairness

(* As long as no wait has a deadline, the wait queues are sound: the timer *)
(* is the only one to change a link without the endpoint's lock            *)
(* (sched_on_timer_tick).                                                  *)
UntimedQueuesSound == use = "untimed" => WaitQueuesSound

(* A message that a receiver has claimed does not stay claimed, whatever   *)
(* is revoked or closed meanwhile (the roll-back and commit of             *)
(* ipc_endpoint_receive_envelope).  With deadlines a queue that the timer  *)
(* has cut may become a circle, which the commit then walks for ever.      *)
UntimedClaimResolved == use = "untimed" /\ ep.hasMsg = 2 ~> ep.hasMsg # 2
=============================================================================
