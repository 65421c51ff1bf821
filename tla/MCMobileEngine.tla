--------------------------- MODULE MCMobileEngine ---------------------------
(* Two generations that queue, a token count, a load and a release.          *)
EXTENDS MobileEngine

=============================================================================
