--------------------------- MODULE MCOnionServices ---------------------------
(***************************************************************************)
(* Instances of OnionServices for TLC.                                     *)
(***************************************************************************)
EXTENDS OnionServices, TLC

CONSTANTS embedded, tcp, k1, k2, nobody, detached, nokey
=============================================================================
