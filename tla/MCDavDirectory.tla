--------------------------- MODULE MCDavDirectory ---------------------------
(* A cache that holds two small listings, and a folder that never fits.    *)
EXTENDS DavDirectory

MCSize == [p \in Paths |-> IF p = "/huge" THEN 3 ELSE 1]
=============================================================================
