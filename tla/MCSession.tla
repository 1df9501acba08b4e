----------------------------- MODULE MCSession -----------------------------
(***************************************************************************)
(* Session with one plain service and one or two channelled ones.          *)
(***************************************************************************)
EXTENDS Session, TLC
=============================================================================
