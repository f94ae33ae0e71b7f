---------------------------- MODULE MCSwiftCells ----------------------------
(* Carts of up to two products and two cells, in a window of one row: each *)
(* layout or scroll may give a row the cell that the other one had.        *)
EXTENDS SwiftCells

Prices == [t \in Titles |-> IF t \in Foods THEN 1 ELSE 3]
=============================================================================
