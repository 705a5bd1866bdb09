--------------------------- MODULE MCSessionCatalog ---------------------------
(* Small instances of SessionCatalog for TLC.                              *)
EXTENDS SessionCatalog
===============================================================================
