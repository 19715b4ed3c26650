----------------------------- MODULE LegacyMain -----------------------------
(***************************************************************************)
(* The process around the legacy TCP server: main.c with its start-up,     *)
(* whose every call may fail, its read loop and parse_packet, which sorts  *)
(* packets with packet_deserialize and writes the answer back.             *)
(***************************************************************************)
EXTENDS LegacyServer

CONSTANTS IcmpTypes   \* the types of the ICMP messages that may be read

VARIABLES
  mpc,       \* where main is
  owned,     \* blocks and descriptors main has to give back
  botched,   \* something was given back that main did not own
  bounced    \* the ICMP message parse_packet writes: its type and whom it is for

mainVars   == <<mpc, owned, botched, bounced>>
legacyVars == <<vars, mainVars>>

Returns(S) == owned' = owned \ S /\ botched' = (botched \/ ~(S \subseteq owned))

(* A start-up call: it succeeds and main owns what it returned, or main    *)
(* gives back undo and exits.                                              *)
Acquire(at, resource, next, undo) ==
  /\ mpc = at
  /\ \/ mpc' = next /\ owned' = owned \cup {resource} /\ UNCHANGED botched
     \/ mpc' = "exit" /\ Returns(undo)
  /\ UNCHANGED <<vars, bounced>>

virtual_device_destroy == {"fd", "ip_addr", "tun_name"}

-----------------------------------------------------------------------------
Arguments ==
  /\ mpc = "args"
  /\ mpc' \in {"ip", "exit"}
  /\ UNCHANGED <<vars, owned, botched, bounced>>

AllocIp    == Acquire("ip", "ip_addr", "name", {})
AllocName  == Acquire("name", "tun_name", "alloc", {"ip_addr"})

(* open of the clone device, then TUNSETIFF, whose failure closes it.      *)
OpenDevice == Acquire("alloc", "fd", "ioctl", {"ip_addr", "tun_name"})
SetIff ==
  /\ mpc = "ioctl"
  /\ \/ mpc' = "bind" /\ UNCHANGED <<owned, botched>>
     \/ mpc' = "exit" /\ Returns({"fd", "ip_addr", "tun_name"})
  /\ UNCHANGED <<vars, bounced>>

(* tun_init fails only if system() does: that one of its commands did not  *)
(* work goes unnoticed.                                                    *)
tun_init ==
  /\ mpc = "bind"
  /\ \/ mpc' = "buffer" /\ UNCHANGED <<owned, botched>>
     \/ mpc' = "exit" /\ Returns(virtual_device_destroy)
  /\ UNCHANGED <<vars, bounced>>

KeepsNames == Acquire("buffer", "tu", "serve", {"fd"})   \* mutant: the names are not freed

AllocTu == Acquire("buffer", "tu", "serve", virtual_device_destroy)

-----------------------------------------------------------------------------
(* parse_packet.  packet_deserialize knows TCP and ICMP over IPv4; neither *)
(* checks a checksum.                                                      *)
ReadTcp(seg) ==
  /\ mpc = "serve"
  /\ tcp_dispatch(seg)
  /\ bounced' = None
  /\ UNCHANGED <<mpc, owned, botched>>

(* An echo request is turned round; any other message is written back as   *)
(* it came, addresses included.                                            *)
icmp_dispatch(type) ==
  IF type = "echo_request" THEN [type |-> "echo_reply", for |-> "sender"]
  ELSE [type |-> type, for |-> "us"]

ReadIcmp(type) ==
  /\ mpc = "serve" /\ alive
  /\ bounced' = icmp_dispatch(type) /\ out' = None
  /\ UNCHANGED <<states, size, alive, mpc, owned, botched>>

(* Other protocols, IPv6, unknown versions and short headers.              *)
ReadOther ==
  /\ mpc = "serve" /\ alive
  /\ bounced' = None /\ out' = None
  /\ UNCHANGED <<states, size, alive, mpc, owned, botched>>

ReadEnds ==
  /\ mpc = "serve" /\ alive
  /\ mpc' = "exit" /\ Returns(virtual_device_destroy \cup {"tu"})
  /\ UNCHANGED <<vars, bounced>>

MainInit == /\ Init /\ mpc = "args" /\ owned = {} /\ botched = FALSE /\ bounced = None

StartUp  == \/ Arguments \/ AllocIp \/ AllocName \/ OpenDevice \/ SetIff
            \/ tun_init \/ AllocTu
MainNext == \/ StartUp \/ ReadOther \/ ReadEnds
            \/ \E seg \in Segments : ReadTcp(seg)
            \/ \E type \in IcmpTypes : ReadIcmp(type)

MainSpec == MainInit /\ [][MainNext]_legacyVars

-----------------------------------------------------------------------------
(* However far start-up came and however the read loop ended, main gives   *)
(* back what it owns, once: descriptor, names and buffer.                  *)
MainReleases ==
  /\ ~botched
  /\ mpc = "exit" => owned = {}
  /\ mpc = "serve" => owned = virtual_device_destroy \cup {"tu"}
=============================================================================
