------------------------- MODULE PacketLayerProofs --------------------------
(***************************************************************************)
(* The packet path, for every buffer size, every header length and every   *)
(* packet: what net_demux writes over the packet it reads stays inside the *)
(* buffer, quotes what was received and sums to a valid reply.             *)
(***************************************************************************)
EXTENDS PacketLayer, FiniteSetTheorems, TLAPS

LEMMA Cells ==
  /\ Ip.vihl = 0 /\ Ip.len = 1 /\ Ip.id = 2 /\ Ip.proto = 3 /\ Ip.checksum = 4 /\ Ip.src = 5 /\ Ip.dst = 6
  /\ Icmp.type = 0 /\ Icmp.checksum = 1 /\ Icmp.rest = 2
  /\ Tcp.ports = 0 /\ Tcp.numbers = 1 /\ Tcp.hlen = 2 /\ Tcp.checksum = 3
  /\ sizeof_IPv4 = 7 /\ sizeof_ICMP = 3 /\ sizeof_TCP = 4
  BY DEF Ip, Icmp, Tcp, sizeof_IPv4, sizeof_ICMP, sizeof_TCP

LEMMA Sizes ==
  /\ MTU_SIZE \in Nat /\ MaxIhl \in Nat /\ Quote \in Nat /\ PlSize \in Nat /\ MaxIhl >= 7
  /\ MaxIhl + Quote <= PlSize /\ MaxIhl + 3 + MaxIhl + Quote <= MTU_SIZE
  BY PacketAssumption, Cells

(* A packet fills the buffer from its first cell.                          *)
LEMMA PacketLength ==
  ASSUME NEW p \in Packets
  PROVE  LET n == Cardinality(DOMAIN p)
         IN  n \in 1 .. MTU_SIZE /\ DOMAIN p = 0 .. n - 1
<1>1. PICK n \in 1 .. MTU_SIZE : DOMAIN p = 0 .. n - 1
  BY PacketAssumption
<1>2. n \in Nat /\ 0 <= n - 1
  BY Sizes
<1>3. Cardinality(0 .. n - 1) = (n - 1) - 0 + 1
  BY <1>2, FS_Interval
<1> QED BY <1>1, <1>2, <1>3

(* A checksum depends on the cells it covers and on nothing else.          *)
LEMMA SameBag ==
  ASSUME NEW b, NEW d, NEW R, \A i \in R : b[i] = d[i]
  PROVE  Bag(b, R) = Bag(d, R)
<1>1. {b[i] : i \in R} = {d[i] : i \in R}
  BY Zenon
<1>2. \A c : {i \in R : b[i] = c} = {i \in R : d[i] = c}
  BY Zenon
<1> QED BY <1>1, <1>2 DEF Bag

LEMMA SameSum ==
  ASSUME NEW b, NEW d, NEW R, NEW n, \A i \in R : b[i] = d[i]
  PROVE  Checksum(b, R, n) = Checksum(d, R, n)
  BY SameBag DEF Checksum

LEMMA SameIpSum ==
  ASSUME NEW b, NEW d, Ihl(b) = Ihl(d), Ihl(b) \in Nat, \A i \in 0 .. Ihl(b) - 1 : i # 4 => b[i] = d[i]
  PROVE  IpSum(b) = IpSum(d)
<1>1. \A i \in (0 .. Ihl(b) - 1) \ {4} : b[i] = d[i]
  OBVIOUS
<1> QED BY <1>1, SameSum, Cells DEF IpSum

LEMMA SameIcmpSum ==
  ASSUME NEW b, NEW d, NEW off \in Nat, NEW n \in Nat,
         \A i \in off .. off + n - 1 : i # off + 1 => b[i] = d[i]
  PROVE  IcmpSum(b, off, n) = IcmpSum(d, off, n)
<1>1. \A i \in (off .. off + n - 1) \ {off + 1} : b[i] = d[i]
  OBVIOUS
<1> QED BY <1>1, SameSum, Cells DEF IcmpSum

LEMMA SameTcpSum ==
  ASSUME NEW b, NEW d, NEW n \in Nat, NEW off \in Nat, b[3] = d[3], b[5] = d[5], b[6] = d[6],
         \A i \in off .. n - 1 : i # off + 3 => b[i] = d[i]
  PROVE  tcp_checksum(b, n, off) = tcp_checksum(d, n, off)
<1>1. \A i \in ((off .. n - 1) \ {off + 3}) \cup {5, 6, 3} : b[i] = d[i]
  OBVIOUS
<1> QED BY <1>1, SameSum, Cells DEF tcp_checksum

-----------------------------------------------------------------------------
(***************************************************************************)
(* The rewrites, cell by cell.  Buffer says that b is the whole of tu with *)
(* an IP header of off cells in front.                                     *)
(***************************************************************************)
Buffer(b, off) == DOMAIN b = 0 .. MTU_SIZE - 1 /\ off = Ihl(b) /\ off \in 7 .. MaxIhl

LEMMA InBuffer ==
  ASSUME NEW b, NEW off, Buffer(b, off)
  PROVE  /\ off \in Nat /\ \A i \in 0 .. 6 : i \in DOMAIN b
         /\ off \in DOMAIN b /\ off + 1 \in DOMAIN b /\ off + 2 \in DOMAIN b
         /\ off = b[0][2][2]
  BY Sizes, Cells DEF Buffer, Ihl

LEMMA SwapCells ==
  ASSUME NEW b, NEW off, Buffer(b, off)
  PROVE  LET s == ip_swap_dst(b)
         IN  /\ Buffer(s, off) /\ s[5] = b[6] /\ s[6] = b[5]
             /\ \A i \in DOMAIN b : i \notin {5, 6} => s[i] = b[i]
<1> DEFINE s == ip_swap_dst(b)
<1>1. DOMAIN s = DOMAIN b /\ s[5] = b[6] /\ s[6] = b[5] /\ \A i \in DOMAIN b : i \notin {5, 6} => s[i] = b[i]
  BY InBuffer, Cells DEF ip_swap_dst
<1> HIDE DEF s
<1>2. s[0] = b[0]
  BY <1>1, InBuffer
<1>3. Buffer(s, off)
  BY <1>1, <1>2, Cells DEF Buffer, Ihl
<1> QED BY <1>1, <1>3 DEF s

LEMMA SumCells ==
  ASSUME NEW b, NEW off, Buffer(b, off)
  PROVE  LET s == ip_checksum(b)
         IN  /\ Buffer(s, off) /\ s[4] = IpSum(s)
             /\ \A i \in DOMAIN b : i # 4 => s[i] = b[i]
<1> DEFINE s == ip_checksum(b)
<1>1. DOMAIN s = DOMAIN b /\ s[4] = IpSum(b) /\ \A i \in DOMAIN b : i # 4 => s[i] = b[i]
  BY InBuffer, Cells DEF ip_checksum
<1> HIDE DEF s
<1>2. s[0] = b[0]
  BY <1>1, InBuffer
<1>3. Buffer(s, off) /\ Ihl(s) = Ihl(b) /\ Ihl(b) \in Nat
  BY <1>1, <1>2, InBuffer, Cells DEF Buffer, Ihl
<1>4. \A i \in 0 .. Ihl(b) - 1 : i # 4 => b[i] = s[i]
  BY <1>1, <1>3, Sizes DEF Buffer
<1>5. IpSum(b) = IpSum(s)
  BY <1>3, <1>4, SameIpSum
<1> QED BY <1>1, <1>3, <1>5 DEF s

(* Cells behind the header do not disturb its checksum.                    *)
LEMMA SumStays ==
  ASSUME NEW b, NEW off, Buffer(b, off), b[4] = IpSum(b),
         NEW s, DOMAIN s = DOMAIN b, \A i \in 0 .. off - 1 : s[i] = b[i]
  PROVE  Buffer(s, off) /\ s[4] = IpSum(s)
<1>1. s[0] = b[0] /\ s[4] = b[4] /\ off \in Nat
  BY InBuffer DEF Buffer
<1>2. Buffer(s, off) /\ Ihl(s) = off /\ Ihl(b) = off
  BY <1>1, Cells DEF Buffer, Ihl
<1>3. IpSum(b) = IpSum(s)
  BY <1>1, <1>2, SameIpSum
<1> QED BY <1>1, <1>2, <1>3

-----------------------------------------------------------------------------
(* The ICMP error: header, quotation and checksums.                        *)
LEMMA HeaderCells ==
  ASSUME NEW b, NEW off, Buffer(b, off), NEW n
  PROVE  LET h == ErrorHeader(b, off, n)
         IN  /\ Buffer(h, off) /\ h[4] = IpSum(h) /\ h[0] = b[0]
             /\ h[1] = <<"len", n>> /\ h[3] = <<"proto", "ICMP">> /\ h[5] = b[6] /\ h[6] = b[5]
             /\ h[off] = <<"type", "unreachable">>
<1> DEFINE e == [b EXCEPT ![Ip.len] = <<"len", n>>, ![Ip.id] = <<"id", 0>>, ![Ip.proto] = <<"proto", "ICMP">>]
           s == ip_swap_dst(e)
           c == ip_checksum(s)
           h == ErrorHeader(b, off, n)
<1>1. /\ DOMAIN e = DOMAIN b /\ e[1] = <<"len", n>> /\ e[3] = <<"proto", "ICMP">>
      /\ e[0] = b[0] /\ e[5] = b[5] /\ e[6] = b[6]
  BY InBuffer, Cells
<1>2. h = [c EXCEPT ![off + Icmp.type] = <<"type", "unreachable">>, ![off + Icmp.rest] = <<"rest", 0>>]
  BY DEF ErrorHeader
<1> HIDE DEF e, h
<1>3. Buffer(e, off)
  BY <1>1, Cells DEF Buffer, Ihl
<1>4. /\ Buffer(s, off) /\ s[5] = e[6] /\ s[6] = e[5] /\ s[0] = e[0] /\ s[1] = e[1] /\ s[3] = e[3]
  BY <1>3, SwapCells, InBuffer
<1> HIDE DEF s
<1>5. /\ Buffer(c, off) /\ c[4] = IpSum(c)
      /\ c[0] = s[0] /\ c[1] = s[1] /\ c[3] = s[3] /\ c[5] = s[5] /\ c[6] = s[6]
  BY <1>4, SumCells, InBuffer
<1> HIDE DEF c
<1>6. /\ DOMAIN h = DOMAIN c /\ h[off] = <<"type", "unreachable">>
      /\ \A i \in DOMAIN c : i < off => h[i] = c[i]
  BY <1>2, <1>5, InBuffer, Cells
<1>7. \A i \in 0 .. off - 1 : h[i] = c[i]
  BY <1>5, <1>6, Sizes DEF Buffer
<1>8. Buffer(h, off) /\ h[4] = IpSum(h)
  BY <1>5, <1>6, <1>7, SumStays
<1>9. \A i \in {0, 1, 3, 5, 6} : i \in 0 .. off - 1
  BY <1>5 DEF Buffer
<1> QED BY <1>1, <1>4, <1>5, <1>6, <1>7, <1>8, <1>9 DEF h

LEMMA ErrorCells ==
  ASSUME NEW b, NEW off, Buffer(b, off), NEW k \in 0 .. MTU_SIZE, off + 3 + k <= MTU_SIZE
  PROVE  LET f == ErrorPacket(b, off, b, k).buf
         IN  /\ Buffer(f, off) /\ f[4] = IpSum(f) /\ f[0] = b[0]
             /\ f[1] = <<"len", off + 3 + k>> /\ f[3] = <<"proto", "ICMP">>
             /\ f[5] = b[6] /\ f[6] = b[5] /\ f[off] = <<"type", "unreachable">>
             /\ f[off + 1] = IcmpSum(f, off, 3 + k)
             /\ \A i \in 0 .. k - 1 : f[off + 3 + i] = b[i]
<1> DEFINE h == ErrorHeader(b, off, off + 3 + k)
           p == Overlay(h, off + 3, b, k)
           f == ErrorPacket(b, off, b, k).buf
<1>1. /\ Buffer(h, off) /\ h[4] = IpSum(h) /\ h[0] = b[0]
      /\ h[1] = <<"len", off + 3 + k>> /\ h[3] = <<"proto", "ICMP">> /\ h[5] = b[6] /\ h[6] = b[5]
      /\ h[off] = <<"type", "unreachable">>
  BY HeaderCells
<1>2. f = icmp_checksum(p, off, 3 + k)
  BY Cells DEF ErrorPacket
<1> HIDE DEF h, f
<1>3. off \in Nat /\ off >= 7 /\ DOMAIN h = 0 .. MTU_SIZE - 1
  BY <1>1, Sizes DEF Buffer
<1>4. /\ DOMAIN p = DOMAIN h
      /\ \A i \in 0 .. off + 2 : p[i] = h[i]
      /\ \A i \in 0 .. k - 1 : p[off + 3 + i] = b[i]
  <2>1. DOMAIN p = DOMAIN h
    BY DEF Overlay
  <2>2. ASSUME NEW i \in 0 .. off + 2 PROVE p[i] = h[i]
    <3>1. i \in DOMAIN h /\ i \notin (off + 3) .. (off + 3 + k - 1)
      BY <1>3, Sizes
    <3> QED BY <3>1 DEF Overlay
  <2>3. ASSUME NEW i \in 0 .. k - 1 PROVE p[off + 3 + i] = b[i]
    <3>1. off + 3 + i \in DOMAIN h /\ off + 3 + i \in (off + 3) .. (off + 3 + k - 1) /\ (off + 3 + i) - (off + 3) = i
      BY <1>3, Sizes
    <3> QED BY <3>1 DEF Overlay
  <2> QED BY <2>1, <2>2, <2>3
<1> HIDE DEF p
<1>5. /\ DOMAIN f = DOMAIN h /\ f[off + 1] = IcmpSum(p, off, 3 + k)
      /\ \A i \in DOMAIN h : i # off + 1 => f[i] = p[i]
  <2>1. off + 1 \in DOMAIN p
    BY <1>3, <1>4, Sizes
  <2> QED BY <1>2, <1>4, <2>1, Cells DEF icmp_checksum
<1>6. IcmpSum(p, off, 3 + k) = IcmpSum(f, off, 3 + k)
  <2>1. 3 + k \in Nat /\ \A i \in off .. off + (3 + k) - 1 : i \in DOMAIN h
    BY <1>3, Sizes
  <2>2. \A i \in off .. off + (3 + k) - 1 : i # off + 1 => p[i] = f[i]
    BY <1>5, <2>1
  <2> QED BY <1>3, <2>1, <2>2, SameIcmpSum
<1>7. ASSUME NEW i \in 0 .. off PROVE f[i] = h[i]
  <2>1. i \in DOMAIN h /\ i # off + 1 /\ i \in 0 .. off + 2
    BY <1>3, Sizes
  <2> QED BY <1>4, <1>5, <2>1
<1>8. Buffer(f, off) /\ f[4] = IpSum(f)
  <2>1. \A i \in 0 .. off - 1 : f[i] = h[i]
    BY <1>3, <1>7
  <2> QED BY <1>1, <1>5, <2>1, SumStays
<1>9. ASSUME NEW i \in 0 .. k - 1 PROVE f[off + 3 + i] = b[i]
  <2>1. off + 3 + i \in DOMAIN h /\ off + 3 + i # off + 1
    BY <1>3, Sizes
  <2>2. f[off + 3 + i] = p[off + 3 + i]
    BY <1>5, <2>1
  <2> QED BY <1>4, <2>2
<1>10. f[0] = h[0] /\ f[1] = h[1] /\ f[3] = h[3] /\ f[5] = h[5] /\ f[6] = h[6] /\ f[off] = h[off]
  BY <1>3, <1>7
<1> QED BY <1>1, <1>5, <1>6, <1>8, <1>9, <1>10 DEF f

(* The echo reply.                                                         *)
LEMMA EchoCells ==
  ASSUME NEW b, NEW off, Buffer(b, off), NEW n \in 0 .. MTU_SIZE, off + 3 <= n
  PROVE  LET f == icmp_echo_reply(b, n, off).buf
         IN  /\ Buffer(f, off) /\ f[4] = IpSum(f) /\ f[0] = b[0] /\ f[1] = b[1] /\ f[3] = b[3]
             /\ f[5] = b[6] /\ f[6] = b[5] /\ f[off] = <<"type", "reply">>
             /\ f[off + 1] = IcmpSum(f, off, n - off)
<1> DEFINE t == [b EXCEPT ![off + Icmp.type] = <<"type", "reply">>]
           c == icmp_checksum(t, off, n - off)
           s == ip_swap_dst(c)
           f == icmp_echo_reply(b, n, off).buf
<1>1. /\ off \in Nat /\ off >= 7 /\ n - off \in Nat /\ DOMAIN b = 0 .. MTU_SIZE - 1
      /\ \A i \in off .. off + (n - off) - 1 : i \in DOMAIN b
      /\ \A i \in 0 .. off + 2 : i \in DOMAIN b
  BY Sizes DEF Buffer
<1>2. f = ip_checksum(s)
  BY DEF icmp_echo_reply
<1>3. DOMAIN t = DOMAIN b /\ t[off] = <<"type", "reply">> /\ \A i \in 0 .. off - 1 : t[i] = b[i]
  BY <1>1, Cells
<1> HIDE DEF t, f
<1>4. /\ DOMAIN c = DOMAIN b /\ c[off + 1] = IcmpSum(t, off, n - off)
      /\ \A i \in DOMAIN b : i # off + 1 => c[i] = t[i]
  <2>1. off + 1 \in DOMAIN t
    BY <1>1, <1>3
  <2> QED BY <1>3, <2>1, Cells DEF icmp_checksum
<1> HIDE DEF c
<1>5. c[off] = <<"type", "reply">> /\ \A i \in 0 .. off - 1 : c[i] = b[i]
  <2>1. \A i \in 0 .. off : i \in DOMAIN b /\ i # off + 1
    BY <1>1
  <2>2. off \in 0 .. off /\ \A i \in 0 .. off - 1 : i \in 0 .. off
    BY <1>1
  <2> QED BY <1>3, <1>4, <2>1, <2>2
<1>6. Buffer(c, off)
  <2>1. c[0] = b[0]
    BY <1>1, <1>5
  <2> QED BY <1>4, <2>1, Cells DEF Buffer, Ihl
<1>7. Buffer(s, off) /\ s[5] = c[6] /\ s[6] = c[5] /\ \A i \in DOMAIN c : i \notin {5, 6} => s[i] = c[i]
  BY <1>6, SwapCells, Zenon
<1> HIDE DEF s
<1>8. Buffer(f, off) /\ f[4] = IpSum(f) /\ \A i \in DOMAIN s : i # 4 => f[i] = s[i]
  BY <1>2, <1>7, SumCells
<1>9. DOMAIN c = DOMAIN b /\ DOMAIN s = DOMAIN b
  BY <1>1, <1>6, <1>7 DEF Buffer
<1>10. \A i \in DOMAIN b : i >= off => f[i] = c[i]
  BY <1>1, <1>7, <1>8, <1>9
<1>11. f[0] = b[0] /\ f[1] = b[1] /\ f[3] = b[3] /\ f[5] = b[6] /\ f[6] = b[5]
  <2>1. \A i \in {0, 1, 3, 5, 6} : i \in 0 .. off - 1 /\ i \in DOMAIN b
    BY <1>1
  <2> QED BY <1>5, <1>7, <1>8, <1>9, <2>1
<1>12. f[off] = <<"type", "reply">> /\ f[off + 1] = c[off + 1]
  BY <1>1, <1>5, <1>10
<1>13. IcmpSum(t, off, n - off) = IcmpSum(f, off, n - off)
  <2>1. \A i \in off .. off + (n - off) - 1 : i # off + 1 => t[i] = f[i]
    BY <1>1, <1>4, <1>10
  <2> QED BY <1>1, <2>1, SameIcmpSum
<1> QED BY <1>4, <1>8, <1>11, <1>12, <1>13 DEF f

(* The replies of tcp_dispatch.                                            *)
LEMMA TcpCells ==
  ASSUME NEW b, NEW off, Buffer(b, off), off + 4 <= MTU_SIZE
  PROVE  LET h == TcpHeader(b, off)
         IN  Buffer(h, off) /\ h[0] = b[0] /\ h[1] = <<"len", off + Hlen(b, off)>>
<1> DEFINE s == ip_swap_dst(b)
           q == tcp_swap_port(s, off)
           h == TcpHeader(b, off)
<1>1. off \in Nat /\ off >= 7 /\ DOMAIN b = 0 .. MTU_SIZE - 1 /\ \A i \in 0 .. off + 3 : i \in DOMAIN b
  BY Sizes DEF Buffer
<1>2. h = [q EXCEPT ![off + Tcp.numbers] = <<"numbers", "ours">>, ![Ip.len] = <<"len", off + Hlen(b, off)>>]
  BY DEF TcpHeader, Buffer
<1>3. Buffer(s, off) /\ s[0] = b[0] /\ DOMAIN s = DOMAIN b
  <2>1. Buffer(s, off) /\ \A i \in DOMAIN b : i \notin {5, 6} => s[i] = b[i]
    BY SwapCells, Zenon
  <2>2. 0 \in DOMAIN b /\ 0 \notin {5, 6}
    BY <1>1
  <2>3. DOMAIN s = DOMAIN b
    BY <2>1, Zenon DEF Buffer
  <2> QED BY <2>1, <2>2, <2>3
<1> HIDE DEF s, h
<1>4. DOMAIN q = DOMAIN b /\ q[0] = b[0]
  BY <1>1, <1>3, Cells DEF tcp_swap_port
<1> HIDE DEF q
<1>5. DOMAIN h = DOMAIN b /\ h[0] = b[0] /\ h[1] = <<"len", off + Hlen(b, off)>>
  BY <1>1, <1>2, <1>4, Cells
<1> QED BY <1>5, Cells DEF Buffer, Ihl, h

LEMMA SynAckCells ==
  ASSUME NEW b, NEW off, Buffer(b, off), NEW n \in 0 .. MTU_SIZE, off + 4 <= n
  PROVE  LET f == tcp_syn_ack(b, n, off).buf
         IN  /\ Buffer(f, off) /\ f[4] = IpSum(f) /\ f[0] = b[0]
             /\ f[1] = <<"len", off + Hlen(b, off)>> /\ f[off + 3] = tcp_checksum(f, n, off)
<1> DEFINE h == ip_checksum(TcpHeader(b, off))
           f == tcp_syn_ack(b, n, off).buf
<1>1. /\ off \in Nat /\ off >= 7 /\ n \in Nat /\ DOMAIN b = 0 .. MTU_SIZE - 1 /\ off + 4 <= MTU_SIZE
      /\ \A i \in 0 .. n - 1 : i \in DOMAIN b
  BY Sizes DEF Buffer
<1>2. f = [h EXCEPT ![off + 3] = tcp_checksum(h, n, off)]
  BY Cells DEF tcp_syn_ack
<1>3. Buffer(h, off) /\ h[4] = IpSum(h) /\ h[0] = b[0] /\ h[1] = <<"len", off + Hlen(b, off)>>
  <2>1. Buffer(TcpHeader(b, off), off) /\ TcpHeader(b, off)[0] = b[0] /\ TcpHeader(b, off)[1] = <<"len", off + Hlen(b, off)>>
    BY <1>1, TcpCells
  <2> QED BY <2>1, SumCells, InBuffer
<1> HIDE DEF h, f
<1>4. DOMAIN h = DOMAIN b
  BY <1>1, <1>3 DEF Buffer
<1>5. /\ DOMAIN f = DOMAIN h /\ f[off + 3] = tcp_checksum(h, n, off)
      /\ \A i \in DOMAIN h : i # off + 3 => f[i] = h[i]
  BY <1>1, <1>2, <1>4
<1>6. \A i \in 0 .. off - 1 : f[i] = h[i]
  BY <1>1, <1>4, <1>5
<1>7. Buffer(f, off) /\ f[4] = IpSum(f)
  BY <1>3, <1>5, <1>6, SumStays
<1>8. f[0] = h[0] /\ f[1] = h[1] /\ f[3] = h[3] /\ f[5] = h[5] /\ f[6] = h[6]
  BY <1>1, <1>6
<1>9. \A i \in off .. n - 1 : i # off + 3 => h[i] = f[i]
  BY <1>1, <1>4, <1>5
<1>10. tcp_checksum(h, n, off) = tcp_checksum(f, n, off)
  BY <1>1, <1>8, <1>9, SameTcpSum
<1> QED BY <1>3, <1>5, <1>7, <1>8, <1>10 DEF f

-----------------------------------------------------------------------------
(***************************************************************************)
(* The inductive invariant: between tun_read and net_demux the buffer      *)
(* begins with the packet that was read, whatever lies behind it; before   *)
(* tun_write it holds a correct reply to that packet.                      *)
(***************************************************************************)
Holds(b, n, p) ==
  /\ p \in Packets /\ n \in 1 .. MTU_SIZE /\ DOMAIN p = 0 .. n - 1 /\ n = Cardinality(DOMAIN p)
  /\ DOMAIN b = 0 .. MTU_SIZE - 1
  /\ \A i \in 0 .. n - 1 : b[i] = p[i]

PacketInv ==
  /\ nread \in 0 .. MTU_SIZE /\ nwrite \in 0 .. MTU_SIZE
  /\ DOMAIN buf = 0 .. MTU_SIZE - 1
  /\ pc = "demux" => Holds(buf, nread, rcvd)
  /\ InBounds /\ QuoteIsOriginal /\ ReplyIsFinal /\ SynAckValid

(* What ip_validate accepts in the buffer it would accept of the packet.   *)
LEMMA Accepted ==
  ASSUME NEW b, NEW n, NEW p, Holds(b, n, p), ip_validate(b, n)
  PROVE  /\ Buffer(b, Ihl(b)) /\ Ihl(b) = Ihl(p) /\ Ihl(b) <= n /\ n >= 7 /\ Version(b) = 4
         /\ \A i \in 0 .. 6 : b[i] = p[i]
         /\ Proto(b) = "TCP" => Ihl(b) + 4 <= n /\ Hlen(b, Ihl(b)) \in 0 .. MaxIhl
<1>1. n \in Nat /\ n >= 7 /\ Ihl(b) >= 7 /\ Ihl(b) <= n /\ Version(b) = 4 /\ b[4] = IpSum(b)
  BY Cells, Sizes DEF Holds, ip_validate
<1>2. \A i \in 0 .. 6 : b[i] = p[i]
  BY <1>1 DEF Holds
<1>3. Ihl(b) = Ihl(p) /\ Version(b) = Version(p) /\ Proto(b) = Proto(p) /\ b[4] = p[4]
  BY <1>2, Cells DEF Ihl, Version, Proto
<1>4. Ihl(p) \in 0 .. MaxIhl /\ Ihl(b) \in Nat
  BY <1>3, HeaderAssumption, Sizes DEF Holds
<1>5. Buffer(b, Ihl(b))
  BY <1>1, <1>3, <1>4, Sizes DEF Holds, Buffer
<1>6. IpSum(b) = IpSum(p)
  <2>1. \A i \in 0 .. Ihl(b) - 1 : i # 4 => b[i] = p[i]
    BY <1>1, <1>4 DEF Holds
  <2> QED BY <1>3, <1>4, <2>1, SameIpSum
<1>7. ip_validate(p, n)
  BY <1>1, <1>3, <1>6, Cells DEF ip_validate
<1>8. ASSUME Proto(b) = "TCP" PROVE Ihl(b) + 4 <= n /\ Hlen(b, Ihl(b)) \in 0 .. MaxIhl
  <2>1. Ihl(p) + 4 <= n /\ Hlen(p, Ihl(p)) \in 0 .. MaxIhl
    BY <1>3, <1>7, <1>8, HeaderAssumption, Cells DEF Holds
  <2>2. Ihl(b) + 2 \in 0 .. n - 1
    BY <1>1, <1>3, <1>4, <2>1
  <2>3. b[Ihl(b) + 2] = p[Ihl(p) + 2]
    BY <1>3, <2>2 DEF Holds
  <2> QED BY <1>3, <2>1, <2>3, Cells DEF Hlen
<1> QED BY <1>1, <1>2, <1>3, <1>5, <1>8

(* A valid ICMP packet that is no echo request goes unanswered.            *)
LEMMA Unanswered ==
  ASSUME NEW f, NEW off, NEW n \in Nat, Buffer(f, off), off + 3 <= n, Version(f) = 4, f[4] = IpSum(f),
         f[3] = <<"proto", "ICMP">> \/ Proto(f) = "ICMP",
         f[off + 1] = IcmpSum(f, off, n - off), f[off] # <<"type", "echo">>
  PROVE  /\ ip_validate(f, n) /\ icmp_validate(f, Ihl(f), n - Ihl(f))
         /\ net_demux(f, n) = {Nothing(f)}
<1>1. off \in Nat /\ off >= 7 /\ Ihl(f) = off
  BY Sizes DEF Buffer
<1>2. ip_validate(f, n)
  BY <1>1, Cells DEF ip_validate
<1>3. icmp_validate(f, Ihl(f), n - Ihl(f))
  BY <1>1, Cells DEF icmp_validate
<1>4. Proto(f) = "ICMP"
  BY Cells DEF Proto
<1>5. f[Ihl(f) + Icmp.type] # <<"type", "echo">>
  BY <1>1, Cells
<1>6. icmp_dispatch(f, n, Ihl(f)) = Nothing(f)
  BY <1>5, Zenon DEF icmp_dispatch
<1> QED BY <1>2, <1>3, <1>4, <1>6 DEF net_demux

-----------------------------------------------------------------------------
(* net_demux, one lemma per reply.                                         *)
Built(r) == /\ buf' = r.buf /\ nwrite' = r.len /\ by' = r.by
            /\ pc' = (IF r.len > 0 THEN "write" ELSE "read")
            /\ UNCHANGED <<nread, rcvd>>

LEMMA NoReply ==
  ASSUME PacketInv, pc = "demux", Built(Nothing(buf))
  PROVE  PacketInv'
<1>1. buf' = buf /\ nwrite' = 0 /\ pc' = "read" /\ nread' = nread /\ rcvd' = rcvd
  BY DEF Built, Nothing
<1>2. nread \in 0 .. MTU_SIZE /\ 0 \in 0 .. MTU_SIZE /\ DOMAIN buf = 0 .. MTU_SIZE - 1
      /\ nread <= MTU_SIZE /\ 0 <= MTU_SIZE
  BY Sizes DEF PacketInv
<1> QED BY <1>1, <1>2 DEF PacketInv, InBounds, QuoteIsOriginal, ReplyIsFinal, SynAckValid, Replying, IcmpReply

LEMMA ErrorReply ==
  ASSUME PacketInv, pc = "demux", ip_validate(buf, nread), Proto(buf) # "ICMP",
         Built(icmp_dest_unreachable(buf, nread, Ihl(buf)))
  PROVE  PacketInv'
<1> DEFINE off == Ihl(buf)
           d   == IF nread - off < Quote THEN nread - off ELSE Quote
           k   == off + d
           f   == ErrorPacket(buf, off, buf, k).buf
<1>1. Holds(buf, nread, rcvd)
  BY DEF PacketInv
<1>2. /\ Buffer(buf, off) /\ off = Ihl(rcvd) /\ off <= nread /\ nread >= 7 /\ Version(buf) = 4
      /\ \A i \in 0 .. 6 : buf[i] = rcvd[i]
  BY <1>1, Accepted
<1>3. /\ nread \in 1 .. MTU_SIZE /\ off \in 7 .. MaxIhl /\ \A i \in 0 .. nread - 1 : buf[i] = rcvd[i]
  BY <1>1, <1>2 DEF Holds, Buffer
<1> HIDE DEF off
<1>4. /\ d \in Nat /\ d <= Quote /\ k <= nread /\ k \in 0 .. MTU_SIZE /\ off + 3 + k <= MTU_SIZE
      /\ k = (IF nread < off + Quote THEN nread ELSE off + Quote)
      /\ ~(off + 3 + off + d > MTU_SIZE)
  BY <1>2, <1>3, Sizes
<1>5. icmp_dest_unreachable(buf, nread, off) = ErrorPacket(buf, off, buf, k)
  BY <1>4, Cells, Zenon DEF icmp_dest_unreachable
<1> HIDE DEF k, d
<1>6. /\ buf' = f /\ nwrite' = off + 3 + k /\ by' = "icmp_dest_unreachable" /\ nread' = nread /\ rcvd' = rcvd
      /\ pc' \in {"write", "read"}
  <2>1. Built(ErrorPacket(buf, off, buf, k))
    BY <1>5 DEF off
  <2>2. /\ ErrorPacket(buf, off, buf, k).len = off + 3 + k
        /\ ErrorPacket(buf, off, buf, k).by = "icmp_dest_unreachable"
    BY Cells DEF ErrorPacket
  <2> QED BY <2>1, <2>2 DEF Built
<1>7. /\ Buffer(f, off) /\ f[4] = IpSum(f) /\ f[0] = buf[0]
      /\ f[1] = <<"len", off + 3 + k>> /\ f[3] = <<"proto", "ICMP">>
      /\ f[5] = buf[6] /\ f[6] = buf[5] /\ f[off] = <<"type", "unreachable">>
      /\ f[off + 1] = IcmpSum(f, off, 3 + k)
      /\ \A i \in 0 .. k - 1 : f[off + 3 + i] = buf[i]
  BY <1>2, <1>4, ErrorCells
<1> HIDE DEF f
<1>8. Version(f) = 4 /\ Ihl(f) = off /\ off + 3 + k \in Nat /\ (off + 3 + k) - off = 3 + k
      /\ (off + 3 + k) - off - 3 = k
  <2>1. off \in Nat /\ k \in Nat
    BY <1>3, <1>4, Sizes
  <2>2. Version(f) = 4
    BY <1>2, <1>7, Cells DEF Version
  <2>3. Ihl(f) = off
    BY <1>7 DEF Buffer
  <2> QED BY <2>1, <2>2, <2>3
<1>9. /\ ip_validate(f, nwrite') /\ icmp_validate(f, Ihl(f), nwrite' - Ihl(f))
      /\ net_demux(f, nwrite') = {Nothing(f)}
  <2>1. off + 3 <= off + 3 + k /\ <<"type", "unreachable">> # <<"type", "echo">>
    BY <1>3, <1>4
  <2> QED BY <1>6, <1>7, <1>8, <2>1, Unanswered
<1>10. InBounds'
  <2>1. nwrite' - Ihl(f) - 3 <= PlSize
    BY <1>3, <1>4, <1>6, <1>8, Sizes
  <2>2. DOMAIN f = 0 .. MTU_SIZE - 1 /\ nread <= MTU_SIZE /\ nwrite' <= MTU_SIZE
    BY <1>3, <1>4, <1>6, <1>7, Sizes DEF Buffer
  <2> QED BY <1>6, <2>1, <2>2, Cells DEF InBounds
<1>11. QuoteIsOriginal'
  <2>1. \A i \in 0 .. k - 1 : i \in 0 .. nread - 1
    BY <1>3, <1>4
  <2>2. \A i \in 0 .. k - 1 : f[off + 3 + i] = rcvd[i]
    BY <1>3, <1>7, <2>1
  <2>3. nwrite' - off - 3 = k
    BY <1>6, <1>8
  <2>4. k = (IF nread < off + Quote THEN nread ELSE off + Quote)
    BY <1>4
  <2> QED BY <1>2, <1>6, <2>2, <2>3, <2>4, Cells, Zenon DEF QuoteIsOriginal
<1>12. ReplyIsFinal'
  <2>1. f[6] = rcvd[5] /\ f[5] = rcvd[6] /\ f[1] = <<"len", nwrite'>>
    BY <1>2, <1>6, <1>7
  <2> QED BY <1>6, <1>9, <2>1, Cells, Zenon DEF ReplyIsFinal
<1>13. SynAckValid'
  BY <1>6 DEF SynAckValid
<1>14. nread' \in 0 .. MTU_SIZE /\ nwrite' \in 0 .. MTU_SIZE /\ DOMAIN buf' = 0 .. MTU_SIZE - 1 /\ pc' # "demux"
  <2>1. nread \in 0 .. MTU_SIZE /\ off + 3 + k \in 0 .. MTU_SIZE
    BY <1>3, <1>4, <1>8, Sizes
  <2>2. DOMAIN f = 0 .. MTU_SIZE - 1
    BY <1>7 DEF Buffer
  <2> QED BY <1>6, <2>1, <2>2
<1> QED BY <1>10, <1>11, <1>12, <1>13, <1>14 DEF PacketInv

LEMMA EchoReply ==
  ASSUME PacketInv, pc = "demux", ip_validate(buf, nread), Proto(buf) = "ICMP",
         icmp_validate(buf, Ihl(buf), nread - Ihl(buf)), Built(icmp_echo_reply(buf, nread, Ihl(buf)))
  PROVE  PacketInv'
<1> DEFINE off == Ihl(buf)
           f   == icmp_echo_reply(buf, nread, off).buf
<1>1. Holds(buf, nread, rcvd)
  BY DEF PacketInv
<1>2. /\ Buffer(buf, off) /\ off <= nread /\ Version(buf) = 4
      /\ \A i \in 0 .. 6 : buf[i] = rcvd[i]
  BY <1>1, Accepted
<1>3. nread \in 1 .. MTU_SIZE /\ nread \in 0 .. MTU_SIZE /\ off \in 7 .. MaxIhl /\ nread - off >= 3
  BY <1>1, <1>2, Cells DEF Holds, Buffer, icmp_validate
<1>4. /\ buf' = f /\ nwrite' = nread /\ by' = "icmp_echo_reply" /\ nread' = nread /\ rcvd' = rcvd
      /\ pc' \in {"write", "read"}
  BY DEF Built, icmp_echo_reply
<1> HIDE DEF off
<1>5. off + 3 <= nread /\ nread \in Nat
  BY <1>3, Sizes
<1>6. /\ Buffer(f, off) /\ f[4] = IpSum(f) /\ f[0] = buf[0] /\ f[1] = buf[1] /\ f[3] = buf[3]
      /\ f[5] = buf[6] /\ f[6] = buf[5] /\ f[off] = <<"type", "reply">>
      /\ f[off + 1] = IcmpSum(f, off, nread - off)
  BY <1>2, <1>3, <1>5, EchoCells
<1> HIDE DEF f
<1>7. Version(f) = 4 /\ Proto(f) = "ICMP" /\ <<"type", "reply">> # <<"type", "echo">>
  BY <1>2, <1>6, Cells DEF Version, Proto
<1>8. /\ ip_validate(f, nread) /\ icmp_validate(f, Ihl(f), nread - Ihl(f))
      /\ net_demux(f, nread) = {Nothing(f)}
  BY <1>5, <1>6, <1>7, Unanswered
<1>9. InBounds'
  <2>1. DOMAIN f = 0 .. MTU_SIZE - 1 /\ nread <= MTU_SIZE
    BY <1>3, <1>6, Sizes DEF Buffer
  <2> QED BY <1>4, <2>1 DEF InBounds
<1>10. QuoteIsOriginal' /\ SynAckValid'
  BY <1>4 DEF QuoteIsOriginal, SynAckValid
<1>11. ReplyIsFinal'
  <2>1. f[6] = rcvd[5] /\ f[5] = rcvd[6] /\ f[1] = rcvd[1]
    BY <1>2, <1>6
  <2> QED BY <1>4, <1>8, <2>1, Cells, Zenon DEF ReplyIsFinal, OwnLength
<1>12. nread' \in 0 .. MTU_SIZE /\ nwrite' \in 0 .. MTU_SIZE /\ DOMAIN buf' = 0 .. MTU_SIZE - 1 /\ pc' # "demux"
  BY <1>3, <1>4, <1>6 DEF Buffer
<1> QED BY <1>9, <1>10, <1>11, <1>12 DEF PacketInv

LEMMA TcpReply ==
  ASSUME PacketInv, pc = "demux", ip_validate(buf, nread), Proto(buf) = "TCP",
         \/ Built(tcp_syn_ack(buf, nread, Ihl(buf)))
         \/ Built(tcp_rst(buf, nread, Ihl(buf)))
  PROVE  PacketInv'
<1> DEFINE off == Ihl(buf)
           f   == tcp_syn_ack(buf, nread, off).buf
<1>1. Holds(buf, nread, rcvd)
  BY DEF PacketInv
<1>2. /\ Buffer(buf, off) /\ Version(buf) = 4 /\ nread >= 7 /\ off <= nread
      /\ off + 4 <= nread /\ Hlen(buf, off) \in 0 .. MaxIhl
  BY <1>1, Accepted
<1>3. /\ nread \in 0 .. MTU_SIZE /\ nread <= MTU_SIZE /\ off + 4 <= MTU_SIZE
      /\ off + Hlen(buf, off) \in 0 .. MTU_SIZE /\ off + Hlen(buf, off) <= MTU_SIZE
  BY <1>1, <1>2, Sizes DEF Holds, Buffer
<1>4. /\ nwrite' = off + Hlen(buf, off) /\ nread' = nread /\ rcvd' = rcvd
      /\ pc' \in {"write", "read"}
      /\ \/ by' = "tcp_syn_ack" /\ buf' = f
         \/ by' = "tcp_rst" /\ buf' = TcpHeader(buf, off)
  BY DEF Built, tcp_syn_ack, tcp_rst
<1> HIDE DEF off
<1>5. Buffer(TcpHeader(buf, off), off)
  BY <1>2, <1>3, TcpCells
<1>6. /\ Buffer(f, off) /\ f[4] = IpSum(f) /\ f[0] = buf[0]
      /\ f[1] = <<"len", off + Hlen(buf, off)>> /\ f[off + 3] = tcp_checksum(f, nread, off)
  BY <1>2, <1>3, SynAckCells
<1> HIDE DEF f
<1>7. DOMAIN buf' = 0 .. MTU_SIZE - 1
  BY <1>4, <1>5, <1>6 DEF Buffer
<1>8. InBounds'
  BY <1>3, <1>4, <1>7 DEF InBounds
<1>9. QuoteIsOriginal' /\ ReplyIsFinal'
  BY <1>4 DEF QuoteIsOriginal, ReplyIsFinal, IcmpReply
<1>10. SynAckValid'
  <2>1. Version(f) = 4 /\ Ihl(f) = off /\ off >= 7
    BY <1>2, <1>6, Cells DEF Version, Buffer
  <2>2. ip_validate(f, nread)
    BY <1>2, <1>6, <2>1, Cells DEF ip_validate
  <2>3. f[Ihl(f) + 3] = tcp_checksum(f, nread, Ihl(f))
    BY <1>6, <2>1
  <2> QED BY <1>4, <1>6, <2>2, <2>3, Cells DEF SynAckValid
<1> QED BY <1>3, <1>4, <1>7, <1>8, <1>9, <1>10 DEF PacketInv

LEMMA DemuxStep == ASSUME PacketInv, Demux PROVE PacketInv'
<1>1. pc = "demux"
  BY DEF Demux
<1>2. PICK r \in net_demux(buf, nread) : Built(r)
  BY Zenon DEF Demux, Built
<1>3. CASE r = Nothing(buf)
  BY <1>1, <1>2, <1>3, NoReply
<1>4. CASE ip_validate(buf, nread) /\ r # Nothing(buf)
  <2>1. CASE Proto(buf) = "ICMP"
    <3>1. r = icmp_dispatch(buf, nread, Ihl(buf))
      BY <1>4, <2>1 DEF net_demux
    <3>2. /\ icmp_validate(buf, Ihl(buf), nread - Ihl(buf))
          /\ r = icmp_echo_reply(buf, nread, Ihl(buf))
      BY <1>4, <3>1, Zenon DEF icmp_dispatch
    <3> QED BY <1>1, <1>2, <1>4, <2>1, <3>2, EchoReply
  <2>2. CASE Proto(buf) = "TCP"
    <3>1. r \in tcp_dispatch(buf, nread, Ihl(buf))
      BY <1>4, <2>2 DEF net_demux
    <3>2. r \in {tcp_syn_ack(buf, nread, Ihl(buf)), tcp_rst(buf, nread, Ihl(buf))}
      BY <1>4, <3>1, Zenon DEF tcp_dispatch
    <3> QED BY <1>1, <1>2, <1>4, <2>2, <3>2, TcpReply
  <2>3. CASE Proto(buf) # "ICMP" /\ Proto(buf) # "TCP"
    <3>1. r = icmp_dest_unreachable(buf, nread, Ihl(buf))
      BY <1>4, <2>3 DEF net_demux
    <3> QED BY <1>1, <1>2, <1>4, <2>3, <3>1, ErrorReply
  <2> QED BY <2>1, <2>2, <2>3
<1>5. CASE ~ip_validate(buf, nread)
  <2>1. r = Nothing(buf)
    BY <1>2, <1>5, Zenon DEF net_demux
  <2> QED BY <1>3, <2>1
<1> QED BY <1>3, <1>4, <1>5

-----------------------------------------------------------------------------
LEMMA ReadStep == ASSUME PacketInv, NEW p \in Packets, tun_read(p) PROVE PacketInv'
<1> DEFINE n == Cardinality(DOMAIN p)
<1>1. n \in 1 .. MTU_SIZE /\ DOMAIN p = 0 .. n - 1
  BY PacketLength
<1>2. /\ pc' = "demux" /\ buf' = Overlay(buf, 0, p, n) /\ nread' = n /\ rcvd' = p /\ nwrite' = nwrite
  BY DEF tun_read
<1>3. DOMAIN buf = 0 .. MTU_SIZE - 1 /\ nwrite \in 0 .. MTU_SIZE
  BY DEF PacketInv
<1>4. n = Cardinality(DOMAIN p)
  OBVIOUS
<1> HIDE DEF n
<1>5. DOMAIN buf' = 0 .. MTU_SIZE - 1
  BY <1>2, <1>3 DEF Overlay
<1>6. \A i \in 0 .. n - 1 : buf'[i] = p[i]
  <2> SUFFICES ASSUME NEW i \in 0 .. n - 1 PROVE buf'[i] = p[i]
    OBVIOUS
  <2>1. i \in DOMAIN buf /\ i \in 0 .. 0 + n - 1 /\ i - 0 = i
    BY <1>1, <1>3, Sizes
  <2> QED BY <1>2, <2>1 DEF Overlay
<1>7. Holds(buf', nread', rcvd')
  BY <1>1, <1>2, <1>4, <1>5, <1>6 DEF Holds
<1>8. nread' \in 0 .. MTU_SIZE /\ nread' <= MTU_SIZE /\ nwrite' <= MTU_SIZE
  BY <1>1, <1>2, <1>3, Sizes
<1>9. InBounds' /\ QuoteIsOriginal' /\ ReplyIsFinal' /\ SynAckValid'
  BY <1>2, <1>5, <1>8 DEF InBounds, QuoteIsOriginal, ReplyIsFinal, SynAckValid, Replying, IcmpReply
<1> QED BY <1>2, <1>3, <1>5, <1>7, <1>8, <1>9 DEF PacketInv

LEMMA WriteStep == ASSUME PacketInv, tun_write PROVE PacketInv'
  BY DEF tun_write, PacketInv, InBounds, QuoteIsOriginal, ReplyIsFinal, SynAckValid, Replying, IcmpReply

LEMMA PacketInvariant == Spec => []PacketInv
<1>1. Init => PacketInv
  <2> SUFFICES ASSUME Init PROVE PacketInv
    OBVIOUS
  <2>1. pc = "read" /\ nread = 0 /\ nwrite = 0 /\ DOMAIN buf = 0 .. MTU_SIZE - 1
    BY DEF Init
  <2>2. 0 \in 0 .. MTU_SIZE /\ 0 <= MTU_SIZE
    BY Sizes
  <2> QED BY <2>1, <2>2 DEF PacketInv, InBounds, QuoteIsOriginal, ReplyIsFinal, SynAckValid, Replying, IcmpReply
<1>2. PacketInv /\ [Next]_vars => PacketInv'
  <2> SUFFICES ASSUME PacketInv, [Next]_vars PROVE PacketInv'
    OBVIOUS
  <2>1. CASE UNCHANGED vars
    BY <2>1, Zenon DEF vars, PacketInv, InBounds, QuoteIsOriginal, ReplyIsFinal, SynAckValid, Replying, IcmpReply, OwnLength
  <2> QED BY <2>1, DemuxStep, ReadStep, WriteStep DEF Next
<1> QED BY <1>1, <1>2, PTL DEF Spec

(* No packet of HeaderAssumption makes net_demux write outside the buffer, *)
(* nor the quotation of an ICMP error outside icmp_pl.                     *)
THEOREM StaysInBounds == Spec => []InBounds
<1>1. PacketInv => InBounds
  BY DEF PacketInv
<1> QED BY <1>1, PacketInvariant, PTL

(* An ICMP error quotes the datagram as it was received, never what the    *)
(* rewrite put over it nor what an earlier packet left behind it.          *)
THEOREM QuotesOriginal == Spec => []QuoteIsOriginal
<1>1. PacketInv => QuoteIsOriginal
  BY DEF PacketInv
<1> QED BY <1>1, PacketInvariant, PTL

(* Every ICMP reply goes back to the sender, passes the stack's own checks *)
(* and is never answered in turn.                                          *)
THEOREM RepliesAreFinal == Spec => []ReplyIsFinal
<1>1. PacketInv => ReplyIsFinal
  BY DEF PacketInv
<1> QED BY <1>1, PacketInvariant, PTL

(* The SYN-ACK for a SYN without payload has a correct length and correct  *)
(* checksums.                                                              *)
THEOREM SynAcksAreValid == Spec => []SynAckValid
<1>1. PacketInv => SynAckValid
  BY DEF PacketInv
<1> QED BY <1>1, PacketInvariant, PTL
=============================================================================
