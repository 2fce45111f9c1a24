-------------------------- MODULE MCIndicatorGraph --------------------------
(* Three nodes with any dependencies among them and on a node that is missing. *)
EXTENDS IndicatorGraph

MCNodes == 1 .. 3
MCOrders == {1, 2}
=============================================================================
