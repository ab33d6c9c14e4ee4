------------------------------ MODULE MCFleet ------------------------------
(***************************************************************************)
(* Agents of one role.  twin is a second process of p1's identity.         *)
(***************************************************************************)
EXTENDS Fleet

CONSTANTS p1, p2, twin, k1, k2, api, dev

MCIndexKey  == [p \in Process |-> IF p = p2 THEN k2 ELSE k1]
MCNumberKey == [p \in Process |-> api]
MCAgent     == {api} \X (1..2)

=============================================================================
