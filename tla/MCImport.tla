------------------------------- MODULE MCImport -------------------------------
(***************************************************************************)
(* A small instance of the import command for TLC: two files, one of them  *)
(* with an alias.                                                          *)
(***************************************************************************)
EXTENDS ImportProperties

CONSTANTS a, alias, b

Canon == [p \in Path |-> IF p = alias THEN a ELSE p]
Hashes == [p \in Path |-> IF p = a THEN 1 ELSE IF p = alias THEN 2 ELSE 3]
Texts == [p \in Path |-> IF p = a THEN <<1>> ELSE IF p = alias THEN <<>> ELSE <<2, 1>>]
Earlier == {{}, {alias, b}}
Kinds == [v \in Version |-> IF v = 1 THEN "video" ELSE "audio"]
=============================================================================
