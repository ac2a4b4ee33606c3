--------------------------- MODULE MCRenameStore ---------------------------
(* A small instance of RenameStore for TLC. *)
EXTENDS RenameStore
=============================================================================
