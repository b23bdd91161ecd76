---------------------------- MODULE MCDownloader ----------------------------
(* Downloader on small instances: the servers, by what a probe may find.     *)
EXTENDS Downloader

Chunky  == [ranges |-> TRUE,  sized |-> TRUE]
Unsized == [ranges |-> TRUE,  sized |-> FALSE]
Plain   == [ranges |-> FALSE, sized |-> TRUE]

SteadyAndFickle == {{Chunky}, {Plain}, {Chunky, Unsized, Plain}}
=============================================================================
