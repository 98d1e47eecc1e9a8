--------------------------- MODULE UrpcBootstrap ---------------------------
(***************************************************************************)
(* The bootstrap uRPC channels (src/urpc: urpc_bootstrap.c,                *)
(* urpc_channel.c): one channel per core, with a transmit and a receive    *)
(* ring, and the state of the channel.                                     *)
(*                                                                         *)
(* A core sends in three steps: it reads the indices, fills the slot and   *)
(* publishes the new head.  accepted[c] and taken[c] are auxiliary: the    *)
(* messages that sends to c have reported K_OK for, and those that         *)
(* receivers have taken from the channel of c.                             *)
(***************************************************************************)
EXTENDS Integers, Sequences

CONSTANTS Cores, BSP, NULL,
          Peers,      \* the cores a core sends to
          RingSize,   \* URPC_RING_SIZE
          MaxSends    \* bound: messages a core sends

ASSUME UrpcAssumption ==
    /\ BSP \in Cores /\ NULL \notin Cores /\ Peers \in [Cores -> SUBSET Cores]
    /\ RingSize \in Nat \ {0} /\ MaxSends \in Nat

VARIABLES txRing, rxRing, ready, state, send, sends, accepted, taken

vars == <<txRing, rxRing, ready, state, send, sends, accepted, taken>>

Indices == 0 .. RingSize - 1

Idle == [at |-> "idle", to |-> NULL, msg |-> 0, head |-> 0, onFail |-> NULL]

EmptyRing == [head |-> 0, tail |-> 0, buffer |-> [i \in Indices |-> NULL]]

(* urpc_init_global; the channel states are zero, URPC_CHANNEL_CLOSED.     *)
Init ==
    /\ txRing = [c \in Cores |-> EmptyRing]
    /\ rxRing = [c \in Cores |-> EmptyRing]
    /\ ready = [c \in Cores |-> FALSE]
    /\ state = [c \in Cores |-> "CLOSED"]
    /\ send = [p \in Cores |-> Idle]
    /\ sends = [p \in Cores |-> 0]
    /\ accepted = [c \in Cores |-> <<>>]
    /\ taken = [c \in Cores |-> <<>>]

-----------------------------------------------------------------------------

After(i) == (i + 1) % RingSize

(* urpc_bootstrap_core and urpc_mark_ready, as a secondary core starts.    *)
BootstrapCore(c) ==
    /\ c # BSP /\ ~ready[c]
    /\ txRing[c].head = 0 /\ rxRing[c].head = 0
    /\ ready' = [ready EXCEPT ![c] = TRUE]
    /\ UNCHANGED <<txRing, rxRing, state, send, sends, accepted, taken>>

(* A send of core p to core c begins; fail is the channel state that a     *)
(* send which fails leaves, NULL when it leaves it alone.                  *)
Begin(p, c, fail) ==
    /\ sends[p] < MaxSends
    /\ send' = [send EXCEPT ![p] = [Idle EXCEPT !.at = "load", !.to = c,
                                       !.msg = <<p, sends[p]>>, !.onFail = fail]]
    /\ sends' = [sends EXCEPT ![p] = @ + 1]

May(p, c) == send[p].at = "idle" /\ c \in Peers[p] /\ c # p

(* urpc_bootstrap_send, called by the capability, IOMMU and VM code.       *)
Send(p, c) ==
    /\ May(p, c)
    /\ Begin(p, c, NULL)
    /\ UNCHANGED <<txRing, rxRing, ready, state, accepted, taken>>

(* urpc_channel_bind: the request goes out once the state is BINDING.      *)
Bind(p, c) ==
    /\ May(p, c) /\ state[c] = "CLOSED"
    /\ state' = [state EXCEPT ![c] = "BINDING"]
    /\ Begin(p, c, "ERROR")
    /\ UNCHANGED <<txRing, rxRing, ready, accepted, taken>>

(* urpc_channel_accept *)
AcceptUnready(p, c) ==
    /\ May(p, c) /\ state[c] \in {"CLOSED", "BINDING", "BOUND"}
    /\ state' = [state EXCEPT ![c] = "BOUND"]
    /\ Begin(p, c, "ERROR")
    /\ UNCHANGED <<txRing, rxRing, ready, accepted, taken>>
Accept(p, c) ==
    /\ May(p, c) /\ state[c] \in {"CLOSED", "BINDING", "BOUND"}
    /\ state' = [state EXCEPT ![c] = "BOUND"]
    /\ ready' = [ready EXCEPT ![c] = TRUE]
    /\ Begin(p, c, "ERROR")
    /\ UNCHANGED <<txRing, rxRing, accepted, taken>>

(* urpc_channel_close, allowed in every state.                             *)
Close(p, c) ==
    /\ May(p, c)
    /\ state' = [state EXCEPT ![c] = "CLOSED"]
    /\ Begin(p, c, NULL)
    /\ UNCHANGED <<txRing, rxRing, ready, accepted, taken>>

(* The indices are read; a channel that is not bound or a full ring ends   *)
(* the send.                                                               *)
FullNever(r) == FALSE
Full(r) == After(r.head) = r.tail

SendLoad(p) ==
    /\ send[p].at = "load"
    /\ LET c == send[p].to
       IN  IF ~ready[c] \/ Full(txRing[c])
           THEN /\ send' = [send EXCEPT ![p] = Idle]
                /\ state' = IF send[p].onFail = NULL THEN state
                            ELSE [state EXCEPT ![c] = send[p].onFail]
           ELSE /\ send' = [send EXCEPT ![p].at = "write", ![p].head = txRing[c].head]
                /\ UNCHANGED state
    /\ UNCHANGED <<txRing, rxRing, ready, sends, accepted, taken>>

SendWrite(p) ==
    /\ send[p].at = "write"
    /\ txRing' = [txRing EXCEPT ![send[p].to].buffer[send[p].head] = send[p].msg]
    /\ send' = [send EXCEPT ![p].at = "store"]
    /\ UNCHANGED <<rxRing, ready, state, sends, accepted, taken>>

SendStore(p) ==
    /\ send[p].at = "store"
    /\ txRing' = [txRing EXCEPT ![send[p].to].head = After(send[p].head)]
    /\ accepted' = [accepted EXCEPT ![send[p].to] = Append(@, send[p].msg)]
    /\ send' = [send EXCEPT ![p] = Idle]
    /\ UNCHANGED <<rxRing, ready, state, sends, taken>>

(* urpc_bootstrap_recv, as vmm_process_urpc_messages polls it for every    *)
(* other core.                                                             *)
Recv(p, c) ==
    /\ p # c /\ ready[c]
    /\ LET r == rxRing[c]
       IN  IF r.head = r.tail THEN UNCHANGED <<rxRing, taken>>
           ELSE /\ rxRing' = [rxRing EXCEPT ![c].tail = After(r.tail)]
                /\ taken' = [taken EXCEPT ![c] = Append(@, r.buffer[r.tail])]
    /\ UNCHANGED <<txRing, ready, state, send, sends, accepted>>

-----------------------------------------------------------------------------

Sending(p) == SendLoad(p) \/ SendWrite(p) \/ SendStore(p)

Next ==
    \/ \E c \in Cores : BootstrapCore(c) \/ Sending(c)
    \/ \E p, c \in Cores : Send(p, c) \/ Bind(p, c) \/ Accept(p, c) \/ Close(p, c) \/ Recv(p, c)

Spec == Init /\ [][Next]_vars

(* Cores finish what they send and keep polling.                           *)
FairSpec == Spec /\ (\A p \in Cores : WF_vars(Sending(p)))
                 /\ (\A p, c \in Cores : WF_vars(Recv(p, c)))

-----------------------------------------------------------------------------
(* Properties                                                              *)

(* The messages a transmit ring holds, oldest first.                       *)
Held(r) == [i \in 1 .. (r.head - r.tail + RingSize) % RingSize |->
               r.buffer[(r.tail + i - 1) % RingSize]]

(* Indices stay in the ring, a send knows where it goes.                   *)
Messages == Cores \X (0 .. MaxSends)
Rings == [head : Indices, tail : Indices, buffer : [Indices -> Messages \cup {NULL}]]
TypeOK ==
    /\ txRing \in [Cores -> Rings] /\ rxRing \in [Cores -> Rings]
    /\ ready \in [Cores -> BOOLEAN]
    /\ state \in [Cores -> {"CLOSED", "BINDING", "BOUND", "ERROR"}]
    /\ \A p \in Cores : /\ send[p].at \in {"idle", "load", "write", "store"}
                        /\ send[p].at # "idle" => send[p].to \in Cores
                        /\ sends[p] \in 0 .. MaxSends

(* The ring holds exactly the messages whose senders were told K_OK, in    *)
(* that order (urpc_bootstrap_send: nothing is overwritten or skipped).    *)
Kept == \A c \in Cores : Held(txRing[c]) = accepted[c]

(* A channel that is BOUND takes messages: cap_table_delegate checks the   *)
(* one and urpc_bootstrap_send the other.                                  *)
BoundReady == \A c \in Cores : state[c] = "BOUND" => ready[c]

(* A message that was accepted for a core is received in the end           *)
(* (urpc_bootstrap_send, urpc_bootstrap_recv).                             *)
Delivered == \A c \in Cores : accepted[c] # <<>> ~> taken[c] # <<>>
=============================================================================
