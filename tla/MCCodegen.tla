------------------------------ MODULE MCCodegen ------------------------------
(* The stores of the TLC instance of Codegen: version 2 of the inputs drops *)
(* a table.                                                                  *)
EXTENDS Codegen

Rendered(v) == IF v = 1 THEN {"query", "schema", "test", "table"} ELSE {"query", "schema", "test"}
OneAndTwo == {1, 2}
AnyEdit == {"hand", "foreign", "generated", "in place", "remove", "other", "link", "path",
            "source"}
=============================================================================
