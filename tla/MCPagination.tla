---------------------------- MODULE MCPagination ----------------------------
(* A small instance of Pagination for TLC: every list. *)
EXTENDS Pagination

ListsInstance == AllLists
=============================================================================
