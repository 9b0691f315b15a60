--------------------------- MODULE MCAppLifecycle ---------------------------
(* The process with two attempts per retry loop and one or two signals. *)
EXTENDS AppLifecycle
=============================================================================
