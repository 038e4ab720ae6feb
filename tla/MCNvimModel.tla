---------------------------- MODULE MCNvimModel ----------------------------
(* Two buffers: no symmetry, which would not be sound for CacheConverges.  *)
EXTENDS NvimModel
=============================================================================
