--------------------------- MODULE MCLegacySession ---------------------------
(***************************************************************************)
(* One client and the legacy server.  FirstSeq + 1 reads the same from     *)
(* both ends in base W8, so that a reset can pass the window test.         *)
(***************************************************************************)
EXTENDS LegacySession

MCBodyLen == [b \in Body |-> IF b = "200_OK" THEN 8 ELSE 2]
=============================================================================
