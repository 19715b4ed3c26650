--------------------------- MODULE MCPacketLayer ---------------------------
(***************************************************************************)
(* Packets of two senders' payloads: every protocol, with and without IP   *)
(* options, cut short at every place that matters, with wrong checksums,   *)
(* versions, header lengths and total lengths.  TCP segments carry at      *)
(* least the fixed part of their header; some claim one cell more.         *)
(***************************************************************************)
EXTENDS PacketLayer

Colour == {1, 2}

(* The first n cells of a packet with header length ihl, which the header  *)
(* states as claim, around body, a function on 0 .. k - 1.                 *)
Raw(v, ihl, claim, len, proto, body, k, colour) ==
  [i \in 0 .. ihl + k - 1 |->
     CASE i = Ip.vihl  -> <<"vihl", <<v, claim>>>>
       [] i = Ip.len   -> <<"len", len>>
       [] i = Ip.id    -> <<"id", colour>>
       [] i = Ip.proto -> <<"proto", proto>>
       [] i = Ip.checksum -> <<"sum", <<-1, 0>>>>
       [] i = Ip.src   -> <<"addr", "peer">>
       [] i = Ip.dst   -> <<"addr", "us">>
       [] i \in sizeof_IPv4 .. ihl - 1 -> <<"data", <<colour, i>>>>
       [] OTHER        -> body[i - ihl]]

Body(k, colour) == [i \in 0 .. k - 1 |-> <<"data", <<colour, MaxIhl + i>>>>]
IcmpBody(type, k, colour) ==
  [Body(k, colour) EXCEPT ![Icmp.type] = <<"type", type>>, ![Icmp.checksum] = <<"sum", <<-1, 0>>>>,
                          ![Icmp.rest] = <<"rest", colour>>]
TcpBody(hlen, k, colour) ==
  [Body(k, colour) EXCEPT ![Tcp.ports] = <<"ports", <<"theirs", "ours">>>>,
                          ![Tcp.numbers] = <<"numbers", "theirs">>,
                          ![Tcp.hlen] = <<"hlen", hlen>>, ![Tcp.checksum] = <<"sum", <<-1, 0>>>>]

Ihls == {sizeof_IPv4, MaxIhl}
IcmpPackets ==
  {LET n == ihl + k
       p == icmp_checksum(Raw(4, ihl, ihl, n + extra, "ICMP", IcmpBody(t, k, col), k, col), ihl, k)
   IN  ip_checksum(p) :
     ihl \in Ihls, t \in {"echo", "reply", "unreachable"}, k \in {3, 5}, extra \in {0, 1}, col \in Colour}
TcpPackets ==
  {LET n == ihl + hlen + k
       p == Raw(4, ihl, ihl, n, "TCP", TcpBody(hlen, hlen + k, col), hlen + k, col)
   IN  ip_checksum([p EXCEPT ![ihl + Tcp.checksum] = tcp_checksum(p, n, ihl)]) :
     ihl \in Ihls, hlen \in {sizeof_TCP, sizeof_TCP + 1}, k \in {0, 1}, col \in Colour}
ShortTcpPackets ==
  {LET n == ihl + sizeof_TCP
       p == Raw(4, ihl, ihl, n, "TCP", TcpBody(sizeof_TCP + 1, sizeof_TCP, col), sizeof_TCP, col)
   IN  ip_checksum([p EXCEPT ![ihl + Tcp.checksum] = tcp_checksum(p, n, ihl)]) :
     ihl \in Ihls, col \in Colour}
OtherPackets ==
  {ip_checksum(Raw(4, ihl, ihl, ihl + k, "UDP", Body(k, col), k, col)) :
     ihl \in Ihls, k \in {0, 1, 3, 6}, col \in Colour}
BadPackets ==
  {ip_checksum(Raw(6, 7, 7, 10, "ICMP", IcmpBody("echo", 3, 1), 3, 1)),
   ip_checksum(Raw(4, 7, 6, 10, "UDP", Body(3, 1), 3, 1)),
   Raw(4, 7, 7, 10, "UDP", Body(3, 1), 3, 1),
   ip_checksum(Raw(4, 7, 7, 10, "ICMP", IcmpBody("echo", 3, 1), 3, 1)),
   ip_checksum(Raw(4, 7, 7, 11, "TCP", TcpBody(4, 4, 1), 4, 1)),
   [i \in 0 .. 7 |-> ip_checksum(Raw(4, 9, 9, 9, "UDP", Body(0, 1), 0, 1))[i]],
   [i \in 0 .. 8 |-> ip_checksum(Raw(4, 7, 7, 10, "ICMP", IcmpBody("echo", 3, 2), 3, 2))[i]],
   [i \in 0 .. 4 |-> ip_checksum(Raw(4, 7, 7, 10, "UDP", Body(3, 1), 3, 1))[i]]}

MCPackets == IcmpPackets \cup TcpPackets \cup ShortTcpPackets \cup OtherPackets \cup BadPackets
=============================================================================
