----------------------------- MODULE MCFraming -----------------------------
(***************************************************************************)
(* Instance of Framing for TLC: two writers, three messages.  With radix 2 *)
(* and a buffer of five bytes the messages are: one that ToBin rejects,    *)
(* one that just fits ("10," and two bytes), and one that does not         *)
(* ("110," and six); a header that a cut left behind and the next one      *)
(* together exceed MaxHeader or MaxLen.                                    *)
(***************************************************************************)
EXTENDS Framing

CONSTANTS w1, w2

MCWriters == {w1, w2}
MCLengths == {0, 2, 6}
=============================================================================
