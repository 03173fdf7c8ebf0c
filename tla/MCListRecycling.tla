-------------------------- MODULE MCListRecycling --------------------------
(***************************************************************************)
(* Small instances of ListRecycling for TLC.                               *)
(***************************************************************************)
EXTENDS ListRecycling

TwoItems == {"a", "b"}
SameTypes == [i \in Items |-> "card"]

\* No reuse-identifiers, and items some of which have one.
NoneOrSome == {[i \in Items |-> "none"], [i \in Items |-> IF i = "b" THEN "none" ELSE "id"]}
=============================================================================
