-------------------------- MODULE MCAttributeCache --------------------------
(* Instances of AttributeCache for TLC; the cfgs give every constant.      *)
EXTENDS AttributeCache
=============================================================================
