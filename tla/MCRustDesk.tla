----------------------------- MODULE MCRustDesk -----------------------------
(* The instance of RustDesk: every platform. *)
EXTENDS RustDesk

EveryPlatform == AllPlatforms
=============================================================================
