---------------------------- MODULE MCPreparation ----------------------------
(***************************************************************************)
(* Values for TLC: three members, of which two are open at a time; classes *)
(* that are distinct, that collide, or that exceed the metadata budget.    *)
(***************************************************************************)
EXTENDS Preparation

Some == {<<{"a"}, {"b"}, {}>>, <<{"a"}, {"b"}, {"a"}>>, <<{"a"}, {"b"}, {"c"}>>}
=============================================================================
