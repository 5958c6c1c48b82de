------------------------------- MODULE MCHdlc -------------------------------
(* Small instances of Hdlc.  The packets hold flags, escapes and control   *)
(* characters, and check sequences that need one escape and two.           *)
EXTENDS Hdlc
MCPackets == {<<0, 125>>, <<126, 254, 33>>, <<33, 33>>}
MCGarbage == {126, 125}
=============================================================================
