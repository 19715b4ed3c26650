---------------------------- MODULE TcpListener ----------------------------
(***************************************************************************)
(* What the TCP layer of the refactored stack promises its peers, with no  *)
(* hash table, blocks or memory: for every four-tuple there is no session, *)
(* a half-open one or an open one, and a received segment opens, confirms, *)
(* resets, refuses or leaves it alone.                                     *)
(***************************************************************************)
EXTENDS TcpProtocol

CONSTANTS
  Segments,    \* the segments that may be received
  IssValues,   \* the values tcp_gen_iss may return
  None         \* no reply

VARIABLES
  session,   \* the session of every four-tuple
  rcvd,      \* the last segment received
  out        \* the reply to the last segment

Absent  == [state |-> "absent", iss |-> 0, irs |-> 0]
Session == [state : {"absent", "half", "open"}, iss : SeqNum, irs : SeqNum]

Becomes(id, s) == session' = [session EXCEPT ![id] = s]
Is(seg, state) == session[seg.id].state = state
Has(seg, f)    == f \in seg.flags

(* The receive window, as the numbers it contains.                         *)
InWindow(n, first) == \E k \in 0 .. TCP_WIN_DEF - 1 : n = Add32(first, k)

-----------------------------------------------------------------------------
(* A pure SYN to the listening port opens a half-open session and is       *)
(* answered with its initial sequence number.                              *)
Open(seg) ==
  /\ seg.sound /\ seg.id \in Listening
  /\ Is(seg, "absent") /\ Has(seg, "SYN") /\ ~Has(seg, "ACK") /\ ~Has(seg, "RST")
  /\ \E iss \in IssValues :
       /\ Becomes(seg.id, [state |-> "half", iss |-> iss, irs |-> seg.seq])
       /\ out' \in Reply
       /\ out'.to = seg.id /\ out'.flags = {"SYN", "ACK"}
       /\ out'.seq = iss /\ out'.ack = Add32(seg.seq, 1)

(* Only the acknowledgement of that number opens the session.              *)
Confirm(seg) ==
  /\ seg.sound /\ seg.id \in Listening
  /\ Is(seg, "half") /\ Has(seg, "ACK") /\ ~Has(seg, "SYN") /\ ~Has(seg, "RST")
  /\ seg.ack = Add32(session[seg.id].iss, 1)
  /\ Becomes(seg.id, [session[seg.id] EXCEPT !.state = "open"])
  /\ out' = None

(* A reset ends a session only from inside the receive window.             *)
Reset(seg) ==
  /\ seg.sound /\ seg.id \in Listening
  /\ ~Is(seg, "absent") /\ Has(seg, "RST")
  /\ InWindow(seg.seq, Add32(session[seg.id].irs, 1))
  /\ Becomes(seg.id, Absent)
  /\ out' = None

(* A refused segment is answered and leaves no session behind.             *)
Refuse(seg) ==
  /\ seg.sound
  /\ \/ seg.id \notin Listening
     \/ /\ ~Has(seg, "RST")
        /\ \/ Is(seg, "absent") /\ (Has(seg, "SYN") => Has(seg, "ACK"))
           \/ Is(seg, "half")   /\ (Has(seg, "ACK") => Has(seg, "SYN"))
           \/ Is(seg, "open")   /\ Has(seg, "SYN")
  /\ Becomes(seg.id, Absent)
  /\ out' \in Reply /\ out'.to = seg.id

(* Ignored: a broken checksum, no memory for a new session, a reset        *)
(* outside the window, a wrong acknowledgement, and all traffic of an      *)
(* open session (data is not delivered yet).                               *)
Ignore(seg) ==
  /\ \/ ~seg.sound
     \/ Is(seg, "absent")
     \/ Has(seg, "RST") /\ ~InWindow(seg.seq, Add32(session[seg.id].irs, 1))
     \/ Is(seg, "half") /\ Has(seg, "ACK") /\ seg.ack # Add32(session[seg.id].iss, 1)
     \/ Is(seg, "open") /\ ~Has(seg, "SYN") /\ ~Has(seg, "RST")
  /\ UNCHANGED session
  /\ out' = None

Init == session = [id \in ID |-> Absent] /\ rcvd = None /\ out = None
Next == \E seg \in Segments :
          /\ rcvd' = seg
          /\ Open(seg) \/ Confirm(seg) \/ Reset(seg) \/ Refuse(seg) \/ Ignore(seg)
Spec == Init /\ [][Next]_<<session, rcvd, out>>
=============================================================================
