----------------------------- MODULE MCAdapter -----------------------------
(***************************************************************************)
(* The adapter bridge for TLC; the bounds are in the cfg.                  *)
(***************************************************************************)
EXTENDS Adapter
============================================================================
