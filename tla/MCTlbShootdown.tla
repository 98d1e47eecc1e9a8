--------------------------- MODULE MCTlbShootdown ---------------------------
(* Cores c1 and c2 unmap pages of address space a.  Either they wait for   *)
(* each other, with c3 elsewhere, or c1 waits for both others, of which c3 *)
(* comes and goes.                                                         *)
EXTENDS TlbShootdown, TLC
CONSTANTS c1, c2, c3, p, q, a, b
MCAspaceOf == p :> a @@ q :> a
Load(x, y) == c1 :> x @@ c2 :> y @@ c3 :> 0
Two == [calls |-> Load(1, 1), pages |-> {p, q}, movers |-> {c2},
        start |-> c1 :> {a} @@ c2 :> {a, b} @@ c3 :> {b}]
Three(n) == [calls |-> Load(n, 0), pages |-> {p}, movers |-> {c3},
             start |-> c1 :> {a} @@ c2 :> {a} @@ c3 :> {a, b}]
On(m, f, r) == [mode |-> m, policy |-> f] @@ r
MCSetups == {On("transport", "return", Two), On("transport", "return", Three(2)),
             On("mailbox", "return", Three(1)),
             On("none", "isolate", Two)}
MCMailbox == {On("mailbox", "return", Three(2))}
=============================================================================
