---------------------------- MODULE MCHashTable -----------------------------
(***************************************************************************)
(* Instances of HashTable.  Keys a and b share a bucket of the small table *)
(* and part when it grows.                                                 *)
(***************************************************************************)
EXTENDS HashTable

CONSTANTS a, b

MCHash == (a :> 0) @@ (b :> 1)
Alike == Permutations(Threads)

\* Every operation, on one key or on both.
MCRequests ==
  LET None == {NULL} IN
    [op : {"set"}, key : Keys, val : Values, match : None]
    \union [op : {"get", "delete"}, key : Keys, val : None, match : None]
    \union [op : {"set_if_not_exists"}, key : {a}, val : Values, match : None]
    \union [op : {"set_if_equals"}, key : {a}, val : Values, match : Values]
    \union [op : {"unset"}, key : {b}, val : None, match : None]
    \union [op : {"delete_if_equals"}, key : {b}, val : None, match : Values]
    \union [op : {"clear", "foreach", "get_all_keys"}, key : None, val : None, match : None]
=============================================================================
