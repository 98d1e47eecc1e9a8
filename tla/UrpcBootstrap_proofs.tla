------------------------ MODULE UrpcBootstrap_proofs ------------------------
(***************************************************************************)
(* For any number of cores, any ring size and any number of messages: the  *)
(* rings are typed and a BOUND channel is ready; and, if no two cores send *)
(* to the same one, a ring holds what its sender was told is accepted.     *)
(***************************************************************************)
EXTENDS UrpcBootstrap, TLAPS

(* The next index is one more, or zero at the end of the ring.             *)
LEMMA AfterStep ==
    ASSUME NEW i \in Indices
    PROVE  After(i) = IF i + 1 = RingSize THEN 0 ELSE i + 1
BY UrpcAssumption DEF After, Indices

(* It stays in the ring.                                                   *)
LEMMA AfterIndex == ASSUME NEW i \in Indices PROVE After(i) \in Indices
BY AfterStep, UrpcAssumption DEF Indices

(* Filling a slot and moving an index keep a ring a ring.                  *)
LEMMA RingTyped ==
    ASSUME NEW r \in Rings, NEW i \in Indices, NEW m \in Messages
    PROVE  /\ [r EXCEPT !.buffer[i] = m] \in Rings
           /\ [r EXCEPT !.head = i] \in Rings
           /\ [r EXCEPT !.tail = i] \in Rings
<1>1. r.buffer \in [Indices -> Messages \cup {NULL}]
  BY Zenon DEF Rings
<1>2. [r.buffer EXCEPT ![i] = m] \in [Indices -> Messages \cup {NULL}]
  BY <1>1, Zenon
<1> QED
  BY <1>2, Zenon DEF Rings

(* What a core remembers of the send it is in.                             *)
Sends == [at : {"idle", "load", "write", "store"}, to : Cores \cup {NULL},
          msg : Messages \cup {0}, head : Indices, onFail : {NULL, "ERROR"}]

(* The fields that TypeOK leaves open.                                     *)
Typed ==
    /\ TypeOK
    /\ send \in [Cores -> Sends]
    /\ sends \in [Cores -> 0 .. MaxSends]
    /\ \A p \in Cores : send[p].at # "idle" =>
            send[p].to \in Cores /\ send[p].msg \in Messages
    /\ accepted \in [Cores -> Seq(Messages)]

(* A core that is not sending.                                             *)
LEMMA IdleTyped == Idle \in Sends /\ Idle.at = "idle"
BY UrpcAssumption DEF Idle, Sends, Indices

(* The channels as urpc_bootstrap_init leaves them.                        *)
LEMMA InitTyped == Init => Typed /\ BoundReady
<1> SUFFICES ASSUME Init PROVE Typed /\ BoundReady
  BY Zenon
<1>1. EmptyRing \in Rings
  BY UrpcAssumption DEF EmptyRing, Rings, Indices
<1>2. send \in [Cores -> Sends] /\ \A p \in Cores : send[p].at = "idle"
  BY IdleTyped, Zenon DEF Init
<1>3. sends \in [Cores -> 0 .. MaxSends]
  BY UrpcAssumption DEF Init
<1>4. accepted \in [Cores -> Seq(Messages)]
  BY DEF Init
<1>5. TypeOK
  BY <1>1, <1>2, <1>3, Zenon DEF Init, TypeOK
<1> QED
  BY <1>2, <1>3, <1>4, <1>5, Zenon DEF Typed, BoundReady, Init

(* What beginning a send keeps.                                            *)
LEMMA BeginTyped ==
    ASSUME Typed, NEW p \in Cores, NEW c \in Cores, NEW f \in {NULL, "ERROR"},
           Begin(p, c, f)
    PROVE  /\ send' \in [Cores -> Sends]
           /\ sends' \in [Cores -> 0 .. MaxSends]
           /\ \A q \in Cores : send'[q].at # "idle" =>
                  send'[q].to \in Cores /\ send'[q].msg \in Messages
<1> DEFINE new == [Idle EXCEPT !.at = "load", !.to = c, !.msg = <<p, sends[p]>>, !.onFail = f]
<1>1. sends[p] \in 0 .. MaxSends /\ sends[p] < MaxSends
  BY Zenon DEF Begin, Typed
<1>2. <<p, sends[p]>> \in Messages
  BY <1>1, Zenon DEF Messages
<1>3. new \in Sends /\ new.to = c /\ new.msg = <<p, sends[p]>>
  <2>1. PICK m \in Messages : m = <<p, sends[p]>>
    BY <1>2, Zenon
  <2>2. new = [Idle EXCEPT !.at = "load", !.to = c, !.msg = m, !.onFail = f]
    BY <2>1, Zenon
  <2> HIDE DEF new
  <2> QED
    BY <2>1, <2>2, IdleTyped, Zenon DEF Sends
<1>4. send' = [send EXCEPT ![p] = new]
  BY Zenon DEF Begin
<1>5. send' \in [Cores -> Sends]
  <2> HIDE DEF new
  <2> QED BY <1>3, <1>4, Zenon DEF Typed
<1>6. sends' \in [Cores -> 0 .. MaxSends]
  BY <1>1, UrpcAssumption DEF Begin, Typed
<1>7. \A q \in Cores : send'[q].at # "idle" =>
          send'[q].to \in Cores /\ send'[q].msg \in Messages
  <2> HIDE DEF new
  <2> QED BY <1>2, <1>3, <1>4, Zenon DEF Typed
<1> QED
  BY <1>5, <1>6, <1>7, Zenon

(* Every step keeps the types and leaves only ready channels BOUND.        *)
LEMMA StepTyped == Typed /\ BoundReady /\ [Next]_vars => Typed' /\ BoundReady'
<1> SUFFICES ASSUME Typed, BoundReady, [Next]_vars PROVE Typed' /\ BoundReady'
  BY Zenon
<1> USE DEF Typed, TypeOK, BoundReady
<1>1. ASSUME NEW c \in Cores, BootstrapCore(c) PROVE Typed' /\ BoundReady'
  BY <1>1, Zenon DEF BootstrapCore
<1>2. ASSUME NEW p \in Cores, SendLoad(p) PROVE Typed' /\ BoundReady'
  <2> DEFINE c == send[p].to
  <2>1. c \in Cores /\ send[p] \in Sends
    BY <1>2, Zenon DEF SendLoad
  <2>2. CASE ~ready[c] \/ Full(txRing[c])
    <3>1. send' = [send EXCEPT ![p] = Idle]
      BY <1>2, <2>2, Zenon DEF SendLoad
    <3>2. state' = state \/ (send[p].onFail = "ERROR" /\ state' = [state EXCEPT ![c] = "ERROR"])
      BY <1>2, <2>1, <2>2, Zenon DEF SendLoad, Sends
    <3> QED
      BY <1>2, <2>1, <3>1, <3>2, IdleTyped DEF SendLoad
  <2>3. CASE ~(~ready[c] \/ Full(txRing[c]))
    <3>1. send' = [send EXCEPT ![p].at = "write", ![p].head = txRing[c].head]
      BY <1>2, <2>3, Zenon DEF SendLoad
    <3>2. txRing[c].head \in Indices
      BY <2>1, Zenon DEF Rings
    <3>3. send' \in [Cores -> Sends]
      BY <2>1, <3>1, <3>2, Zenon DEF Sends
    <3>4. \A q \in Cores : send'[q].at # "idle" =>
              send'[q].to \in Cores /\ send'[q].msg \in Messages
      BY <1>2, <2>1, <3>1, Zenon DEF SendLoad, Sends
    <3> QED
      BY <1>2, <2>3, <3>3, <3>4, Zenon DEF SendLoad, Sends
  <2> QED
    BY <2>2, <2>3, Zenon
<1>3. ASSUME NEW p \in Cores, SendWrite(p) PROVE Typed' /\ BoundReady'
  <2>1. send[p] \in Sends /\ send[p].to \in Cores /\ send[p].msg \in Messages
    BY <1>3, Zenon DEF SendWrite
  <2>2. txRing' \in [Cores -> Rings]
    <3>1. send[p].head \in Indices
      BY <2>1, Zenon DEF Sends
    <3>2. [txRing[send[p].to] EXCEPT !.buffer[send[p].head] = send[p].msg] \in Rings
      BY <2>1, <3>1, RingTyped, Zenon
    <3> QED
      BY <1>3, <2>1, <3>2, Zenon DEF SendWrite
  <2>3. send' \in [Cores -> Sends]
    BY <1>3, <2>1, Zenon DEF SendWrite, Sends
  <2>4. \A q \in Cores : send'[q].at # "idle" =>
            send'[q].to \in Cores /\ send'[q].msg \in Messages
    BY <1>3, <2>1 DEF SendWrite, Sends
  <2> QED
    BY <1>3, <2>2, <2>3, <2>4, Zenon DEF SendWrite, Sends
<1>4. ASSUME NEW p \in Cores, SendStore(p) PROVE Typed' /\ BoundReady'
  <2>1. send[p] \in Sends /\ send[p].to \in Cores /\ send[p].msg \in Messages
    BY <1>4, Zenon DEF SendStore
  <2>2. After(send[p].head) \in Indices
    BY <2>1, AfterIndex, Zenon DEF Sends
  <2>3. txRing' \in [Cores -> Rings]
    <3>1. [txRing[send[p].to] EXCEPT !.head = After(send[p].head)] \in Rings
      BY <2>1, <2>2, RingTyped, Zenon
    <3> QED
      BY <1>4, <2>1, <3>1, Zenon DEF SendStore
  <2>4. accepted' \in [Cores -> Seq(Messages)]
    BY <1>4, <2>1 DEF SendStore
  <2>5. send' = [send EXCEPT ![p] = Idle]
    BY <1>4, Zenon DEF SendStore
  <2> QED
    BY <1>4, <2>3, <2>4, <2>5, IdleTyped DEF SendStore
<1>5. ASSUME NEW p \in Cores, NEW c \in Cores, Send(p, c) PROVE Typed' /\ BoundReady'
  <2>1. Begin(p, c, NULL)
    BY <1>5, Zenon DEF Send
  <2> QED
    BY <1>5, <2>1, BeginTyped DEF Send, Sends
<1>6. ASSUME NEW p \in Cores, NEW c \in Cores, Bind(p, c) PROVE Typed' /\ BoundReady'
  <2>1. Begin(p, c, "ERROR")
    BY <1>6, Zenon DEF Bind
  <2> QED
    BY <1>6, <2>1, BeginTyped DEF Bind, Sends
<1>7. ASSUME NEW p \in Cores, NEW c \in Cores, Accept(p, c) PROVE Typed' /\ BoundReady'
  <2>1. Begin(p, c, "ERROR")
    BY <1>7, Zenon DEF Accept
  <2> QED
    BY <1>7, <2>1, BeginTyped DEF Accept, Sends
<1>8. ASSUME NEW p \in Cores, NEW c \in Cores, Close(p, c) PROVE Typed' /\ BoundReady'
  <2>1. Begin(p, c, NULL)
    BY <1>8, Zenon DEF Close
  <2> QED
    BY <1>8, <2>1, BeginTyped DEF Close, Sends
<1>9. ASSUME NEW p \in Cores, NEW c \in Cores, Recv(p, c) PROVE Typed' /\ BoundReady'
  <2>1. rxRing[c] \in Rings /\ rxRing[c].tail \in Indices
    BY Zenon DEF Rings
  <2>2. After(rxRing[c].tail) \in Indices
    BY <2>1, AfterIndex, Zenon
  <2>3. rxRing' \in [Cores -> Rings]
    <3>1. [rxRing[c] EXCEPT !.tail = After(rxRing[c].tail)] \in Rings
      BY <2>1, <2>2, Zenon DEF Rings
    <3>2. \/ rxRing' = rxRing
          \/ rxRing' = [rxRing EXCEPT ![c].tail = After(rxRing[c].tail)]
      BY <1>9, Zenon DEF Recv
    <3> QED
      BY <3>1, <3>2, Zenon
  <2> QED
    BY <1>9, <2>3, Zenon DEF Recv
<1>10. CASE UNCHANGED vars
  BY <1>10, Zenon DEF vars
<1> QED
  BY <1>1, <1>2, <1>3, <1>4, <1>5, <1>6, <1>7, <1>8, <1>9, <1>10, Zenon DEF Next, Sending

(* The fields keep their types, and a BOUND channel takes messages         *)
(* (urpc_channel_accept sets the ready flag, and nothing clears it).       *)
THEOREM ChannelsReady == Spec => [](TypeOK /\ BoundReady)
<1>1. Typed /\ BoundReady => TypeOK /\ BoundReady
  BY Zenon DEF Typed
<1> QED
  BY InitTyped, StepTyped, <1>1, PTL DEF Spec

-----------------------------------------------------------------------------
(* One producer per ring.                                                  *)
SingleProducer == \A p, q \in Cores : p # q => Peers[p] \cap Peers[q] = {}

(* Nothing is taken from a transmit ring, and it holds what was accepted.  *)
Filled(c) ==
    /\ txRing[c].tail = 0 /\ Len(accepted[c]) = txRing[c].head
    /\ \A i \in 1 .. Len(accepted[c]) : txRing[c].buffer[i - 1] = accepted[c][i]

(* A send that has read the head still knows it, and there is room.        *)
Current(p) ==
    /\ send[p].at # "idle" => send[p].to \in Peers[p]
    /\ send[p].at \in {"write", "store"} =>
           send[p].head = txRing[send[p].to].head /\ send[p].head + 1 < RingSize
    /\ send[p].at = "store" => txRing[send[p].to].buffer[send[p].head] = send[p].msg

RingInv == /\ Typed /\ BoundReady
           /\ \A c \in Cores : Filled(c)
           /\ \A p \in Cores : Current(p)

(* What the rings are filled with is what was accepted.                    *)
LEMMA FilledKept == RingInv => Kept
<1> SUFFICES ASSUME RingInv, NEW c \in Cores PROVE Held(txRing[c]) = accepted[c]
  BY Zenon DEF Kept
<1>1. /\ txRing[c].head \in Indices /\ txRing[c].tail = 0
      /\ Len(accepted[c]) = txRing[c].head /\ accepted[c] \in Seq(Messages)
      /\ \A i \in 1 .. Len(accepted[c]) : txRing[c].buffer[i - 1] = accepted[c][i]
  BY Zenon DEF RingInv, Filled, Typed, TypeOK, Rings
<1> DEFINE n == txRing[c].head
<1>2. n \in Nat /\ n < RingSize /\ (n - 0 + RingSize) % RingSize = n
  <2>1. \A m \in Indices : m \in Nat /\ m < RingSize /\ (m - 0 + RingSize) % RingSize = m
    BY UrpcAssumption DEF Indices
  <2> QED
    BY <1>1, <2>1, Zenon
<1>3. \A i \in 1 .. n : (0 + i - 1) % RingSize = i - 1
  BY <1>2, UrpcAssumption
<1>4. Held(txRing[c]) = [i \in 1 .. n |-> txRing[c].buffer[i - 1]]
  BY <1>1, <1>2, <1>3, Zenon DEF Held
<1>5. accepted[c] = [i \in 1 .. n |-> accepted[c][i]]
  BY <1>1
<1> QED
  BY <1>1, <1>4, <1>5, ZenonT(30)

(* Steps that touch no transmit ring, and begin or end a send at most.     *)
LEMMA BeginCurrent ==
    ASSUME RingInv, NEW p \in Cores, NEW c \in Cores, NEW f, c \in Peers[p],
           Begin(p, c, f), UNCHANGED <<txRing, accepted>>
    PROVE  /\ \A d \in Cores : Filled(d)'
           /\ \A q \in Cores : Current(q)'
<1>1. /\ send'[p].at = "load" /\ send'[p].to = c
      /\ \A q \in Cores \ {p} : send'[q] = send[q]
  BY Zenon DEF Begin, Idle, RingInv, Typed
<1> QED
  BY <1>1 DEF RingInv, Filled, Current

(* Every step keeps the rings filled with what was accepted, if each has   *)
(* one producer.                                                           *)
LEMMA StepFilled ==
    ASSUME SingleProducer
    PROVE  RingInv /\ [Next]_vars => RingInv'
<1> SUFFICES ASSUME RingInv, [Next]_vars
             PROVE  /\ \A c \in Cores : Filled(c)'
                    /\ \A p \in Cores : Current(p)'
  BY StepTyped, Zenon DEF RingInv
<1> DEFINE Goal == (\A c \in Cores : Filled(c)') /\ (\A p \in Cores : Current(p)')
<1>1. ASSUME NEW p \in Cores, SendLoad(p) PROVE Goal
  <2>1. send[p] \in Sends /\ send[p].to \in Cores /\ Filled(send[p].to)
    BY <1>1, Zenon DEF SendLoad, RingInv, Typed
  <2>2. \A q \in Cores \ {p} : send'[q] = send[q]
    BY <1>1, Zenon DEF SendLoad, RingInv, Typed
  <2>3. UNCHANGED <<txRing, accepted>>
    BY <1>1, Zenon DEF SendLoad
  <2>4. CASE send' = [send EXCEPT ![p] = Idle]
    <3>1. send'[p].at = "idle"
      BY <2>4, IdleTyped, Zenon DEF RingInv, Typed
    <3> QED
      BY <2>2, <2>3, <3>1 DEF RingInv, Filled, Current
  <2>5. CASE /\ ~Full(txRing[send[p].to])
             /\ send' = [send EXCEPT ![p].at = "write", ![p].head = txRing[send[p].to].head]
    <3>1. txRing[send[p].to].head \in Indices /\ txRing[send[p].to].tail = 0
      BY <2>1, Zenon DEF RingInv, Typed, TypeOK, Rings, Filled
    <3>2. txRing[send[p].to].head + 1 < RingSize
      BY <2>5, <3>1, AfterStep, UrpcAssumption DEF Full, Indices
    <3>3. /\ send'[p].at = "write" /\ send'[p].head = txRing[send[p].to].head
          /\ send'[p].to = send[p].to
      BY <2>1, <2>5, Zenon DEF RingInv, Typed, Sends
    <3>4. Current(p)'
      BY <1>1, <2>3, <3>2, <3>3, Zenon DEF RingInv, Current, SendLoad
    <3> QED
      BY <2>2, <2>3, <3>4 DEF RingInv, Filled, Current
  <2> QED
    BY <1>1, <2>4, <2>5, Zenon DEF SendLoad
<1>2. ASSUME NEW p \in Cores, SendWrite(p) PROVE Goal
  <2>0. PICK c \in Cores : c = send[p].to
    BY <1>2, Zenon DEF SendWrite, RingInv, Typed
  <2>1. /\ send[p] \in Sends /\ c \in Cores /\ c \in Peers[p]
        /\ send[p].head = txRing[c].head /\ send[p].head + 1 < RingSize
    BY <2>0, <1>2, Zenon DEF SendWrite, RingInv, Typed, Current
  <2>2. /\ txRing[c] \in Rings /\ txRing[c].head \in Indices
        /\ txRing[c].buffer \in [Indices -> Messages \cup {NULL}]
    BY <2>0, <2>1, Zenon DEF RingInv, Typed, TypeOK, Rings
  <2>3. /\ txRing'[c].head = txRing[c].head /\ txRing'[c].tail = txRing[c].tail
        /\ txRing'[c].buffer = [txRing[c].buffer EXCEPT ![send[p].head] = send[p].msg]
        /\ \A d \in Cores \ {c} : txRing'[d] = txRing[d]
    BY <2>0, <1>2, <2>1, <2>2, Zenon DEF SendWrite, RingInv, Typed, TypeOK, Rings
  <2>4. /\ send'[p].at = "store" /\ send'[p].to = c
        /\ send'[p].head = send[p].head /\ send'[p].msg = send[p].msg
        /\ \A q \in Cores \ {p} : send'[q] = send[q]
    BY <2>0, <1>2, <2>1, Zenon DEF SendWrite, RingInv, Typed, Sends
  <2>5. accepted' = accepted
    BY <2>0, <1>2, Zenon DEF SendWrite
  <2>6. Filled(c)'
    <3>1. \A i \in 1 .. Len(accepted[c]) :
              i - 1 \in Indices /\ i - 1 # send[p].head
      <4>1. Len(accepted[c]) = send[p].head /\ send[p].head \in Indices
        BY <2>1, <2>2, Zenon DEF RingInv, Filled
      <4>2. \A m \in Indices : \A i \in 1 .. m : i - 1 \in Indices /\ i - 1 # m
        BY UrpcAssumption DEF Indices
      <4> QED
        BY <4>1, <4>2, Zenon
    <3> QED
      BY <2>0, <2>1, <2>2, <2>3, <2>5, <3>1 DEF RingInv, Filled
  <2>7. \A d \in Cores \ {c} : Filled(d)'
    BY <2>3, <2>5 DEF RingInv, Filled
  <2>8. Current(p)'
    BY <2>0, <2>1, <2>2, <2>3, <2>4 DEF Current
  <2>9. ASSUME NEW q \in Cores \ {p} PROVE Current(q)'
    <3>1. CASE send[q].at = "idle"
      BY <2>4, <3>1, Zenon DEF Current
    <3>2. CASE send[q].at # "idle"
      <4>1. send[q].to \in Cores /\ send[q].to # c
        BY <2>0, <2>1, <3>2, SingleProducer DEF SingleProducer, RingInv, Typed, Current
      <4> QED
        BY <2>3, <2>4, <4>1 DEF RingInv, Current
    <3> QED
      BY <3>1, <3>2, Zenon
  <2> QED
    BY <2>6, <2>7, <2>8, <2>9, Zenon
<1>3. ASSUME NEW p \in Cores, SendStore(p) PROVE Goal
  <2>0. PICK c \in Cores : c = send[p].to
    BY <1>3, Zenon DEF SendStore, RingInv, Typed
  <2>1. /\ send[p] \in Sends /\ c \in Cores /\ c \in Peers[p] /\ send[p].msg \in Messages
        /\ send[p].head = txRing[c].head /\ send[p].head + 1 < RingSize
        /\ txRing[c].buffer[send[p].head] = send[p].msg
    BY <2>0, <1>3, Zenon DEF SendStore, RingInv, Typed, Current
  <2>2. /\ txRing[c] \in Rings /\ txRing[c].head \in Indices
        /\ accepted[c] \in Seq(Messages) /\ Filled(c)
    BY <2>0, <2>1, Zenon DEF RingInv, Typed, TypeOK, Rings
  <2>3. After(send[p].head) = send[p].head + 1
    BY <2>0, <2>1, <2>2, AfterStep, UrpcAssumption DEF Indices
  <2>4. /\ txRing'[c].head = send[p].head + 1 /\ txRing'[c].tail = txRing[c].tail
        /\ txRing'[c].buffer = txRing[c].buffer
        /\ \A d \in Cores \ {c} : txRing'[d] = txRing[d]
    BY <2>0, <1>3, <2>1, <2>2, <2>3 DEF SendStore, RingInv, Typed, TypeOK, Rings
  <2>5. /\ accepted'[c] = Append(accepted[c], send[p].msg)
        /\ \A d \in Cores \ {c} : accepted'[d] = accepted[d]
    BY <2>0, <1>3, <2>1, Zenon DEF SendStore, RingInv, Typed
  <2>6. send'[p].at = "idle" /\ \A q \in Cores \ {p} : send'[q] = send[q]
    BY <2>0, <1>3, IdleTyped, Zenon DEF SendStore, RingInv, Typed
  <2>7. Filled(c)'
    <3>1. /\ Len(accepted'[c]) = Len(accepted[c]) + 1 /\ Len(accepted[c]) \in Nat
          /\ accepted'[c][Len(accepted[c]) + 1] = send[p].msg
          /\ \A i \in 1 .. Len(accepted[c]) : accepted'[c][i] = accepted[c][i]
      BY <2>0, <2>1, <2>2, <2>5
    <3>2. Len(accepted[c]) = send[p].head /\ txRing[c].tail = 0
      BY <2>0, <2>1, <2>2, Zenon DEF Filled
    <3>3. ASSUME NEW i \in 1 .. Len(accepted'[c])
          PROVE  txRing'[c].buffer[i - 1] = accepted'[c][i]
      <4>1. CASE i = Len(accepted[c]) + 1
        BY <2>0, <2>1, <2>4, <3>1, <3>2, <4>1, SMTT(30)
      <4>2. CASE i \in 1 .. Len(accepted[c])
        BY <2>2, <2>4, <3>1, <4>2 DEF Filled
      <4> QED
        BY <3>1, <4>1, <4>2, SMTT(30)
    <3> QED
      BY <2>4, <3>1, <3>2, <3>3, Zenon DEF Filled
  <2>8. \A d \in Cores \ {c} : Filled(d)'
    BY <2>4, <2>5 DEF RingInv, Filled
  <2>9. ASSUME NEW q \in Cores \ {p} PROVE Current(q)'
    <3>1. CASE send[q].at = "idle"
      BY <2>6, <3>1, Zenon DEF Current
    <3>2. CASE send[q].at # "idle"
      <4>1. send[q].to \in Cores /\ send[q].to # c
        BY <2>0, <2>1, <3>2, SingleProducer, Zenon DEF SingleProducer, RingInv, Typed, Current
      <4> QED
        BY <2>4, <2>6, <4>1 DEF RingInv, Current
    <3> QED
      BY <3>1, <3>2, Zenon
  <2> QED
    BY <2>6, <2>7, <2>8, <2>9, Zenon DEF Current
<1>4. ASSUME NEW p \in Cores, NEW c \in Cores,
             Send(p, c) \/ Bind(p, c) \/ Accept(p, c) \/ Close(p, c)
      PROVE  Goal
  <2>1. c \in Peers[p] /\ UNCHANGED <<txRing, accepted>>
    BY <1>4, Zenon DEF Send, Bind, Accept, Close, May
  <2>2. Begin(p, c, NULL) \/ Begin(p, c, "ERROR")
    BY <1>4, Zenon DEF Send, Bind, Accept, Close
  <2> QED
    BY <2>1, <2>2, BeginCurrent, Zenon
<1>5. ASSUME UNCHANGED <<txRing, accepted, send>> PROVE Goal
  BY <1>5 DEF RingInv, Filled, Current
<1>6. ASSUME NEW c \in Cores, BootstrapCore(c) PROVE Goal
  BY <1>5, <1>6, Zenon DEF BootstrapCore
<1>7. ASSUME NEW p \in Cores, NEW c \in Cores, Recv(p, c) PROVE Goal
  BY <1>5, <1>7, Zenon DEF Recv
<1>8. CASE UNCHANGED vars
  BY <1>5, <1>8, Zenon DEF vars
<1> QED
  BY <1>1, <1>2, <1>3, <1>4, <1>6, <1>7, <1>8, Zenon DEF Next, Sending

(* With one producer per ring, a ring holds exactly the messages whose     *)
(* senders were told K_OK, in that order (urpc_bootstrap_send), for any    *)
(* number of cores and any ring size.                                      *)
THEOREM RingKept == ASSUME SingleProducer PROVE Spec => []Kept
<1>1. Init => RingInv
  <2> SUFFICES ASSUME Init PROVE RingInv
    BY Zenon
  <2>1. ASSUME NEW c \in Cores PROVE Filled(c)
    <3>1. accepted[c] = <<>> /\ txRing[c].head = 0 /\ txRing[c].tail = 0
      BY Zenon DEF Init, EmptyRing
    <3> QED
      BY <3>1 DEF Filled
  <2>2. \A p \in Cores : Current(p)
    BY IdleTyped, Zenon DEF Init, Current
  <2> QED
    BY <2>1, <2>2, InitTyped, Zenon DEF RingInv
<1>2. RingInv /\ [Next]_vars => RingInv'
  BY StepFilled, Zenon
<1> QED
  BY <1>1, <1>2, FilledKept, PTL DEF Spec
=============================================================================
