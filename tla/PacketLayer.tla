---------------------------- MODULE PacketLayer ----------------------------
(***************************************************************************)
(* The packet path of the refactored stack: server_run reads a packet into *)
(* its one buffer, net_demux validates it and hands it to ICMP, to TCP or  *)
(* to icmp_dest_unreachable, which turn it into a reply in place, and      *)
(* server_run writes as many bytes as they return.  The buffer is never    *)
(* cleared: behind the bytes just read lie those of earlier packets.       *)
(*                                                                         *)
(* The buffer is an array of cells, one per header field and one per piece *)
(* of options or payload; lengths count cells.  A cell is a pair of what   *)
(* it is and its value, and a payload cell tells which packet brought it.  *)
(* A checksum is a commutative sum (module Checksum): it is modelled as    *)
(* the bag of the cells it covers.                                         *)
(***************************************************************************)
EXTENDS Integers, FiniteSets

CONSTANTS
  MTU_SIZE,     \* cells of the buffer
  MaxIhl,       \* the longest IP header, 60 bytes in the code
  Quote,        \* how much of the datagram an ICMP error quotes, 8 bytes
  PlSize,       \* room for the quotation, icmp_pl[68]
  Packets,      \* the packets that may be read, functions from 0 .. nread - 1 to cells
  MaxPackets    \* bound: packets read

(* The cells of the IPv4, ICMP and TCP headers.                            *)
Ip   == [vihl |-> 0, len |-> 1, id |-> 2, proto |-> 3, checksum |-> 4, src |-> 5, dst |-> 6]
Icmp == [type |-> 0, checksum |-> 1, rest |-> 2]
Tcp  == [ports |-> 0, numbers |-> 1, hlen |-> 2, checksum |-> 3]
sizeof_IPv4 == 7
sizeof_ICMP == 3
sizeof_TCP  == 4

ASSUME PacketAssumption ==
  /\ {MTU_SIZE, MaxIhl, Quote, PlSize, MaxPackets} \subseteq Nat
  /\ sizeof_IPv4 <= MaxIhl /\ MaxIhl + Quote <= PlSize
  /\ MaxIhl + sizeof_ICMP + MaxIhl + Quote <= MTU_SIZE
  /\ \A p \in Packets : \E n \in 1 .. MTU_SIZE : DOMAIN p = 0 .. n - 1

VARIABLES
  pc,        \* server_run: about to read, in net_demux, about to write
  buf,       \* tu
  nread, nwrite,
  rcvd,      \* the packet read last, as it was read
  by,        \* the function that built the reply
  count      \* packets read

vars == <<pc, buf, nread, nwrite, rcvd, by, count>>

-----------------------------------------------------------------------------
(* The fields of the packet in buffer b.                                   *)
Version(b) == b[Ip.vihl][2][1]
Ihl(b)     == b[Ip.vihl][2][2]
Proto(b)   == b[Ip.proto][2]

Bag(b, R) == [c \in {b[i] : i \in R} |-> Cardinality({i \in R : b[i] = c})]

(* checksum of the cells R of b; tcp_checksum adds the segment's length.   *)
Checksum(b, R, seg_len) == <<"sum", <<seg_len, Bag(b, R)>>>>

IpSum(b) == Checksum(b, 0 .. Ihl(b) - 1 \ {Ip.checksum}, 0)

IcmpSum(b, off, len) == Checksum(b, (off .. off + len - 1) \ {off + Icmp.checksum}, 0)

ip_validate(b, len) ==
  /\ len >= sizeof_IPv4
  /\ Ihl(b) >= sizeof_IPv4 /\ Ihl(b) <= len
  /\ Version(b) = 4
  /\ b[Ip.checksum] = IpSum(b)

ip_swap_dst(b) == [b EXCEPT ![Ip.src] = b[Ip.dst], ![Ip.dst] = b[Ip.src]]
ip_checksum(b) == [b EXCEPT ![Ip.checksum] = IpSum(b)]

(***************************************************************************)
(* ICMP.  A handler yields the buffer it leaves, the length it returns and *)
(* its name.                                                               *)
(***************************************************************************)
Nothing(b) == [buf |-> b, len |-> 0, by |-> "nobody"]

icmp_checksum(b, off, len) == [b EXCEPT ![off + Icmp.checksum] = IcmpSum(b, off, len)]

icmp_validate(b, off, len) ==
  /\ len >= sizeof_ICMP
  /\ b[off + Icmp.checksum] = IcmpSum(b, off, len)

Overlay(b, at, pl, n) ==
  [i \in DOMAIN b |-> IF i \in at .. at + n - 1 THEN pl[i - at] ELSE b[i]]

(* The header of an ICMP error of ip_len cells over the one in b.          *)
ErrorHeader(b, off, ip_len) ==
  [ip_checksum(ip_swap_dst(
     [b EXCEPT ![Ip.len] = <<"len", ip_len>>, ![Ip.id] = <<"id", 0>>,
               ![Ip.proto] = <<"proto", "ICMP">>]))
   EXCEPT ![off + Icmp.type] = <<"type", "unreachable">>, ![off + Icmp.rest] = <<"rest", 0>>]

(* That header with the first pl_len cells of quoted behind it.            *)
ErrorPacket(b, off, quoted, pl_len) ==
  LET ip_len == off + sizeof_ICMP + pl_len
      packet == Overlay(ErrorHeader(b, off, ip_len), off + sizeof_ICMP, quoted, pl_len)
  IN  [buf |-> icmp_checksum(packet, off, sizeof_ICMP + pl_len),
       len |-> ip_len, by |-> "icmp_dest_unreachable"]

QuotesRewritten(b, len, off) ==         \* mutant: the quotation is copied after the rewrite
  LET pl_len == IF len < off + Quote THEN len ELSE off + Quote
  IN  ErrorPacket(b, off, ErrorHeader(b, off, off + sizeof_ICMP + pl_len), pl_len)

QuotesAll(b, len, off) ==               \* mutant: the whole datagram is quoted
  ErrorPacket(b, off, b, len)

icmp_dest_unreachable(b, len, off) ==
  LET dgram_len == IF len - off < Quote THEN len - off ELSE Quote
  IN  IF off + sizeof_ICMP + off + dgram_len > MTU_SIZE THEN Nothing(b)
      ELSE ErrorPacket(b, off, b, off + dgram_len)

icmp_echo_reply(b, len, off) ==
  LET typed == [b EXCEPT ![off + Icmp.type] = <<"type", "reply">>]
  IN  [buf |-> ip_checksum(ip_swap_dst(icmp_checksum(typed, off, len - off))),
       len |-> len, by |-> "icmp_echo_reply"]

EchoesAny(b, len, off) ==               \* mutant: the type is not looked at
  IF icmp_validate(b, off, len - off) THEN icmp_echo_reply(b, len, off) ELSE Nothing(b)

icmp_dispatch(b, len, off) ==
  IF icmp_validate(b, off, len - off) /\ b[off + Icmp.type] = <<"type", "echo">>
  THEN icmp_echo_reply(b, len, off)
  ELSE Nothing(b)

(***************************************************************************)
(* TCP: which reply a segment gets is TcpServer's affair, here it is any;  *)
(* this is what becomes of the buffer.                                     *)
(***************************************************************************)
Hlen(b, off) == b[off + Tcp.hlen][2]

tcp_checksum(b, len, off) ==
  Checksum(b, ((off .. len - 1) \ {off + Tcp.checksum}) \cup {Ip.src, Ip.dst, Ip.proto}, len - off)

tcp_swap_port(b, off) ==
  [b EXCEPT ![off + Tcp.ports] = <<"ports", <<@[2][2], @[2][1]>>>>]

TcpHeader(b, off) ==
  [tcp_swap_port(ip_swap_dst(b), off) EXCEPT
     ![off + Tcp.numbers] = <<"numbers", "ours">>,
     ![Ip.len] = <<"len", Ihl(b) + Hlen(b, off)>>]

SumsEarly(b, len, off) ==               \* mutant: the length is set after ip_checksum
  LET header == [ip_checksum(TcpHeader(b, off)) EXCEPT ![Ip.len] = b[Ip.len]]
  IN  [buf |-> [header EXCEPT ![off + Tcp.checksum] = tcp_checksum(b, len, off)],
       len |-> Ihl(b) + Hlen(b, off), by |-> "tcp_syn_ack"]

tcp_syn_ack(b, len, off) ==
  LET header == ip_checksum(TcpHeader(b, off))
  IN  [buf |-> [header EXCEPT ![off + Tcp.checksum] = tcp_checksum(header, len, off)],
       len |-> Ihl(b) + Hlen(b, off), by |-> "tcp_syn_ack"]

tcp_rst(b, len, off) ==
  [buf |-> TcpHeader(b, off), len |-> Ihl(b) + Hlen(b, off), by |-> "tcp_rst"]

tcp_dispatch(b, len, off) ==
  IF b[off + Tcp.checksum] = tcp_checksum(b, len, off)
  THEN {Nothing(b), tcp_syn_ack(b, len, off), tcp_rst(b, len, off)}
  ELSE {Nothing(b)}

(* Header lengths are fields of four bits, and a TCP packet carries at     *)
(* least the fixed header that tcp_dispatch reads: the code does not test  *)
(* it.  It may be shorter than the header it claims.                       *)
ASSUME HeaderAssumption ==
  \A p \in Packets :
    /\ Ihl(p) \in 0 .. MaxIhl
    /\ (ip_validate(p, Cardinality(DOMAIN p)) /\ Proto(p) = "TCP") =>
         /\ Ihl(p) + sizeof_TCP <= Cardinality(DOMAIN p)
         /\ Hlen(p, Ihl(p)) \in 0 .. MaxIhl

-----------------------------------------------------------------------------
net_demux(b, len) ==
  IF ~ip_validate(b, len) THEN {Nothing(b)}
  ELSE CASE Proto(b) = "ICMP" -> {icmp_dispatch(b, len, Ihl(b))}
         [] Proto(b) = "TCP"  -> tcp_dispatch(b, len, Ihl(b))
         [] OTHER             -> {icmp_dest_unreachable(b, len, Ihl(b))}

tun_read(p) ==
  /\ pc = "read" /\ count < MaxPackets
  /\ pc' = "demux" /\ count' = count + 1
  /\ buf' = Overlay(buf, 0, p, Cardinality(DOMAIN p))
  /\ nread' = Cardinality(DOMAIN p) /\ rcvd' = p
  /\ UNCHANGED <<nwrite, by>>

Demux ==
  /\ pc = "demux"
  /\ \E r \in net_demux(buf, nread) :
       /\ buf' = r.buf /\ nwrite' = r.len /\ by' = r.by
       /\ pc' = IF r.len > 0 THEN "write" ELSE "read"
  /\ UNCHANGED <<nread, rcvd, count>>

tun_write ==
  /\ pc = "write"
  /\ pc' = "read"
  /\ UNCHANGED <<buf, nread, nwrite, rcvd, by, count>>

Init ==
  /\ pc = "read" /\ buf = [i \in 0 .. MTU_SIZE - 1 |-> <<"data", 0>>]
  /\ nread = 0 /\ nwrite = 0 /\ rcvd = <<>> /\ by = "nobody" /\ count = 0

Next == Demux \/ tun_write \/ \E p \in Packets : tun_read(p)
Spec == Init /\ [][Next]_vars

-----------------------------------------------------------------------------
Replying == pc = "write"
IcmpReply == Replying /\ by \in {"icmp_echo_reply", "icmp_dest_unreachable"}
OwnLength == rcvd[Ip.len] = <<"len", nread>>

(* What server_run writes lies inside the buffer, and the quotation inside *)
(* icmp_pl, for every header length and every truncation ip_validate lets  *)
(* through; of a TCP segment the fixed part of its header was read, though *)
(* not necessarily all the header it claims (HeaderAssumption).            *)
InBounds ==
  /\ nread <= MTU_SIZE /\ nwrite <= MTU_SIZE /\ DOMAIN buf = 0 .. MTU_SIZE - 1
  /\ (Replying /\ by = "icmp_dest_unreachable") =>
       nwrite - Ihl(buf) - sizeof_ICMP <= PlSize

(* An ICMP error quotes the header and the first bytes of the datagram as  *)
(* they were received, although both are rewritten in the same buffer, and *)
(* no more of a short datagram than there was: behind it the buffer holds  *)
(* what earlier packets left.                                              *)
QuoteIsOriginal ==
  (Replying /\ by = "icmp_dest_unreachable") =>
    LET off == Ihl(rcvd)
        n   == nwrite - off - sizeof_ICMP
    IN  /\ n = IF nread < off + Quote THEN nread ELSE off + Quote
        /\ \A i \in 0 .. n - 1 : buf[off + sizeof_ICMP + i] = rcvd[i]

(* Every ICMP reply is addressed to the sender of the packet, states its   *)
(* length unless an echo request misstated its own, passes the stack's     *)
(* validation, whatever order its fields were written in, and is never     *)
(* answered in turn: two such stacks cannot keep each other busy.          *)
ReplyIsFinal ==
  IcmpReply =>
    /\ buf[Ip.dst] = rcvd[Ip.src] /\ buf[Ip.src] = rcvd[Ip.dst]
    /\ OwnLength => buf[Ip.len] = <<"len", nwrite>>
    /\ ip_validate(buf, nwrite)
    /\ icmp_validate(buf, Ihl(buf), nwrite - Ihl(buf))
    /\ net_demux(buf, nwrite) = {Nothing(buf)}

(* The SYN-ACK for a SYN without payload has correct checksums and length, *)
(* although it is summed over the length of the packet that was read.      *)
SynAckValid ==
  (Replying /\ by = "tcp_syn_ack" /\ nread = nwrite) =>
    /\ ip_validate(buf, nwrite) /\ buf[Ip.len] = <<"len", nwrite>>
    /\ buf[Ihl(buf) + Tcp.checksum] = tcp_checksum(buf, nwrite, Ihl(buf))
=============================================================================
