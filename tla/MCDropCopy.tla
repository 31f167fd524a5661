---- MODULE MCDropCopy ----
(* A small instance of DropCopy: an order whose user and order id differ. *)
EXTENDS DropCopy

OneOrder == {<<1, 2>>}
====
