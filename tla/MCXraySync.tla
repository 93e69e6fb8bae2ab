------------------------------ MODULE MCXraySync ------------------------------
(***************************************************************************)
(* The local core and the edits of two inbounds whose tags are             *)
(* interchangeable.                                                        *)
(***************************************************************************)
EXTENDS XrayLifecycle, TLC

TagSymmetry == Permutations(Tags)
===============================================================================
