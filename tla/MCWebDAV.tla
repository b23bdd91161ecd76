------------------------------ MODULE MCWebDAV ------------------------------
(* WebDAVJob on a folder with two subfolders and three files. *)
EXTENDS WebDAVJob

Tree     == [top |-> {"left", "right"}, left |-> {}, right |-> {}]
Holds    == [top |-> {"a"}, left |-> {"b"}, right |-> {"c"}]
Blocks   == [a |-> 1, b |-> 2, c |-> 1]
=============================================================================
