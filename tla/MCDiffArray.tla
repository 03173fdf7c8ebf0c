----------------------------- MODULE MCDiffArray -----------------------------
(***************************************************************************)
(* Small instances of DiffArray for TLC: all lists of children that are    *)
(* matched by type, and all lists of list items that are matched by an     *)
(* item-key which does not determine the type.                             *)
(***************************************************************************)
EXTENDS DiffArray

MaxChildren == 4
MaxItems == 3

Lists(items, max) == UNION {[1..n -> items] : n \in 0..max}
AllTypes == {"a", "b", "c"}
AllKeys == AllTypes \cup {"x", "y"}

Children == {[key |-> t, type |-> t] : t \in AllTypes}
Items == [key : {"x", "y"}, type : {"a", "b"}]

SmallInputs ==
  (Lists(Children, MaxChildren) \X Lists(Children, MaxChildren))
  \cup (Lists(Items, MaxItems) \X Lists(Items, MaxItems))
=============================================================================
