--------------------------- MODULE MCPositionCache ---------------------------
(***************************************************************************)
(* Small instances of PositionCache; the configurations give its constants *)
(* numbers and sets of strings.                                            *)
(***************************************************************************)
EXTENDS PositionCache
=============================================================================
