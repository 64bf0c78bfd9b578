----------------------------- MODULE MCSdtConn ----------------------------
(* A small SDT destination for TLC: three sessions, so that a session whose *)
(* stream a restart forgot is met by one that ends and one that is          *)
(* forgotten again, and room for two messages.                              *)
EXTENDS SdtConn
=============================================================================
