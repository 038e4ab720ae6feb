----------------------------- MODULE MCSession -----------------------------
(* One editor, its daemons, two calls: no symmetry, which would not be     *)
(* sound for the temporal properties.                                      *)
EXTENDS NvimTransport
=============================================================================
