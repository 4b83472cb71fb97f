----------------------------- MODULE MCTcpReasm -----------------------------
(* Small instances of TcpReasm: a TLS tuple used by two connections one    *)
(* after the other, an HTTP tuple and one of another protocol.             *)
EXTENDS TcpReasm
CONSTANTS c1, c2, h1, s1, tls, http, ssh

MCTupleOf == [c \in Conn |-> CASE c \in {c1, c2} -> tls
                               [] c = h1 -> http [] OTHER -> ssh]
MCKind == [t \in Tuple |-> CASE t = tls -> "TLS" [] t = http -> "HTTP"
                             [] OTHER -> "L7"]
\* the sequence numbers of c1 wrap around
MCIsn == [c \in Conn |-> IF c = c1 THEN 14 ELSE 5]
MCLength == [c \in Conn |-> CASE c = c1 -> 4 [] c = c2 -> 3 [] c = h1 -> 2 [] OTHER -> 1]
MCNeed   == [c \in Conn |-> CASE c = c1 -> 3 [] c = h1 -> 2 [] OTHER -> 1]

ASSUME MCFarApart == FarApart
=============================================================================
