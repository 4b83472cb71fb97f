------------------------------- MODULE MCIp6 -------------------------------
(* IPv6 packets: all payloads of up to two units, and two extension        *)
(* headers with what may follow them.                                      *)
EXTENDS Ip6Walk

CONSTANTS tcp, hop, auth, frag, icmp

MCTwoHeaders ==
  {<<a, [first |-> hop, second |-> 0], b, c, d, [first |-> tcp, second |-> 0]>> :
     a \in {u \in Unit : u.first \in {hop, auth}}, b \in Unit, c \in Unit,
     d \in {u \in Unit : u.first \in {tcp, frag, icmp} /\ u.second = 0}}

MCCaptures == MCTwoHeaders \cup UNION {[1 .. k -> Unit] : k \in 0 .. 2}
=============================================================================
