---------------------------- MODULE MCListMerge ----------------------------
(* An instance of ListMerge: the names of applications.                      *)
EXTENDS ListMerge

MCNames == {"mail", "news", "shop"}
=============================================================================
