---------------------------- MODULE MCLoraLoad ----------------------------
(***************************************************************************)
(* Instances of LoraLoad for TLC: a group of two instances.                *)
(***************************************************************************)
EXTENDS LoraLoad

CONSTANTS a, b

Two == <<a, b>>
=============================================================================
