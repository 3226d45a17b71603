----------------------------- MODULE MCChatMatching -----------------------------
(* What the exports of an instance of ChatMatching say: two senders name *)
(* the recording a, one of them also b.                                  *)
EXTENDS ChatMatching, TLC

CONSTANTS x, y, z, a, b, u, v

MCNamed == (x :> a) @@ (y :> a) @@ (z :> b)
MCSaid == (x :> u) @@ (y :> v) @@ (z :> u)
================================================================================
