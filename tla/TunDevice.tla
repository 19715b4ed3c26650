----------------------------- MODULE TunDevice -----------------------------
(***************************************************************************)
(* The TUN device of the refactored stack (tun_device.c) as a life cycle   *)
(* of resources: tun_init opens the clone device, allocates the Tun        *)
(* structure and sends two Netlink requests, any call may fail, and        *)
(* tun_destroy gives back what tun_init took.  The kernel's answer to a    *)
(* Netlink request is not read, so sending one is all the code can tell.   *)
(***************************************************************************)
EXTENDS Integers, FiniteSets

VARIABLES
  tpc,        \* where tun_init is; "ready" and "null" when it returned
  held,       \* descriptors and blocks the process owns
  botched,    \* a descriptor was closed or a block freed that was not owned
  requested,  \* the requests the kernel was sent: addr, up
  ip_add, ip_wake   \* what tun_ip_add and tun_ip_wake returned

tunVars == <<tpc, held, botched, requested, ip_add, ip_wake>>

TunPc   == {"open", "ioctl", "malloc", "add", "add_send", "wake", "wake_send", "check",
            "ready", "null", "destroyed"}
TunErr  == {"none", "TUN_DSOCK_ERROR", "TUN_INET_ERROR", "TUN_SEND_ERROR"}

Frees(S) == held' = held \ S /\ botched' = (botched \/ ~(S \subseteq held))

-----------------------------------------------------------------------------
(* tun_alloc.                                                              *)
OpenClone ==
  /\ tpc = "open"
  /\ \/ tpc' = "ioctl" /\ held' = held \cup {"fd"}
     \/ tpc' = "null" /\ UNCHANGED held
  /\ UNCHANGED <<botched, requested, ip_add, ip_wake>>

TUNSETIFF ==
  /\ tpc = "ioctl"
  /\ \/ tpc' = "malloc" /\ UNCHANGED <<held, botched>>
     \/ tpc' = "null" /\ Frees({"fd"})
  /\ UNCHANGED <<requested, ip_add, ip_wake>>

(* The structure and its two strings; what strdup returns is not tested.   *)
AllocTun ==
  /\ tpc = "malloc"
  /\ \/ /\ tpc' = "add" /\ UNCHANGED botched
        /\ \E strings \in SUBSET {"name", "ip"} : held' = held \cup {"tun"} \cup strings
     \/ tpc' = "null" /\ Frees({"fd"})
  /\ UNCHANGED <<requested, ip_add, ip_wake>>

(***************************************************************************)
(* tun_ip_add, then tun_ip_wake whatever became of the former.             *)
(***************************************************************************)
AddSocket ==
  /\ tpc = "add"
  /\ \/ tpc' = "add_send" /\ held' = held \cup {"sock"} /\ UNCHANGED ip_add
     \/ tpc' = "wake" /\ ip_add' = "TUN_DSOCK_ERROR" /\ UNCHANGED held
  /\ UNCHANGED <<botched, requested, ip_wake>>

AddSend ==
  /\ tpc = "add_send"
  /\ tpc' = "wake" /\ Frees({"sock"})
  /\ \/ ip_add' \in {"TUN_INET_ERROR", "TUN_SEND_ERROR"} /\ UNCHANGED requested
     \/ requested' = requested \cup {"addr"} /\ UNCHANGED ip_add
  /\ UNCHANGED ip_wake

WakeSocket ==
  /\ tpc = "wake"
  /\ \/ tpc' = "wake_send" /\ held' = held \cup {"sock"} /\ UNCHANGED ip_wake
     \/ tpc' = "check" /\ ip_wake' = "TUN_DSOCK_ERROR" /\ UNCHANGED held
  /\ UNCHANGED <<botched, requested, ip_add>>

WakeSend ==
  /\ tpc = "wake_send"
  /\ tpc' = "check" /\ Frees({"sock"})
  /\ \/ ip_wake' = "TUN_SEND_ERROR" /\ UNCHANGED requested
     \/ requested' = requested \cup {"up"} /\ UNCHANGED ip_wake
  /\ UNCHANGED ip_add

(* free(NULL) does nothing, so a string that strdup could not make is not  *)
(* missed.                                                                 *)
tun_destroy(next) ==
  /\ tpc' = next
  /\ Frees({"fd", "tun"} \cup (held \cap {"name", "ip"}))
  /\ UNCHANGED <<requested, ip_add, ip_wake>>

ChecksSocketOnly ==                     \* mutant: an error of send or inet_pton is let pass
  /\ tpc = "check"
  /\ IF "TUN_DSOCK_ERROR" \in {ip_add, ip_wake}
     THEN tun_destroy("null")
     ELSE tpc' = "ready" /\ UNCHANGED <<held, botched, requested, ip_add, ip_wake>>

CheckConfigured ==
  /\ tpc = "check"
  /\ IF \/ "TUN_DSOCK_ERROR" \in {ip_add, ip_wake}
        \/ "TUN_SEND_ERROR" \in {ip_add, ip_wake}
        \/ ip_add = "TUN_INET_ERROR"
     THEN tun_destroy("null")
     ELSE tpc' = "ready" /\ UNCHANGED <<held, botched, requested, ip_add, ip_wake>>

tun_init == \/ OpenClone \/ TUNSETIFF \/ AllocTun \/ AddSocket \/ AddSend
            \/ WakeSocket \/ WakeSend \/ CheckConfigured

TunInit == /\ tpc = "open" /\ held = {} /\ botched = FALSE /\ requested = {}
           /\ ip_add = "none" /\ ip_wake = "none"

-----------------------------------------------------------------------------
TunTypeOK == /\ tpc \in TunPc /\ held \subseteq {"fd", "tun", "name", "ip", "sock"}
             /\ botched \in BOOLEAN /\ requested \subseteq {"addr", "up"}
             /\ ip_add \in TunErr /\ ip_wake \in TunErr

(* Whichever call fails, tun_init and tun_destroy neither leak nor release *)
(* twice: a tun_init that returns NULL and a tun_destroy leave nothing     *)
(* owned, a tun_init that succeeds the device and the structure, and no    *)
(* Netlink socket survives its request.                                    *)
DeviceReleased ==
  /\ ~botched
  /\ tpc \in {"null", "destroyed"} => held = {}
  /\ tpc = "ready" => {"fd", "tun"} \subseteq held /\ "sock" \notin held
=============================================================================
