--------------------------- MODULE MCUvBootstrap ----------------------------
(* Two launchers that are started together, on either platform. *)
EXTENDS UvBootstrap, TLC
=============================================================================
