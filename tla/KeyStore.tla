------------------------------ MODULE KeyStore ------------------------------
(***************************************************************************)
(* What hashtable.h promises to the threads that share a table: a map from *)
(* keys to values in which every call on a key takes effect at one moment  *)
(* between its beginning and its return.  Clearing and iterating are not   *)
(* one moment: while such a call runs it may take keys away, several times.*)
(***************************************************************************)
CONSTANTS Clients, Keys, Values, NULL, Absent

VARIABLES map, call

\* A key may be there with a value, there without one (unset), or absent.
Held == Values \union {NULL, Absent}

\* The calls that are not one moment.
Long == {"clear", "foreach", "get_all_keys"}

Asks ==
  [op : {"get", "set", "set_if_not_exists", "set_if_equals", "delete",
         "delete_if_equals", "unset"} \union Long,
   key : Keys \union {NULL}, val : Values \union {NULL}, match : Values \union {NULL}]

NoCall == [op |-> "none"]
Returned(found) == [op |-> "return", found |-> found]

\* The value a key has after a call that found old there.
After(r, old) ==
  CASE r.op = "get" -> old
    [] r.op = "set" -> r.val
    [] r.op = "set_if_not_exists" -> IF old = Absent THEN r.val ELSE old
    [] r.op = "set_if_equals" -> IF old = r.match THEN r.val ELSE old
    [] r.op = "delete" -> Absent
    [] r.op = "delete_if_equals" -> IF old = r.match THEN Absent ELSE old
    [] r.op = "unset" -> IF old = Absent THEN Absent ELSE NULL

Init == map = [k \in Keys |-> Absent] /\ call = [c \in Clients |-> NoCall]

Begin(c) ==
  /\ call[c] = NoCall
  /\ call'[c] \in Asks
  /\ \A d \in Clients \ {c} : call'[d] = call[d]
  /\ UNCHANGED map

Decide(c) ==
  /\ call[c].op \notin {"none", "return"} \union Long
  /\ LET k == call[c].key IN
     /\ map' = [map EXCEPT ![k] = After(call[c], map[k])]
     /\ call' = [call EXCEPT ![c] = Returned(map[k])]

\* Some of the keys are taken away.
Take(c) ==
  /\ call[c].op \in Long
  /\ \A k \in Keys : map'[k] \in {map[k], Absent}
  /\ UNCHANGED call

Finish(c) ==
  /\ call[c].op \in Long
  /\ call' = [call EXCEPT ![c] = Returned(NULL)]
  /\ UNCHANGED map

Return(c) ==
  /\ call[c].op = "return"
  /\ call' = [call EXCEPT ![c] = NoCall]
  /\ UNCHANGED map

\* The store is given up and made anew.
Renew ==
  /\ \A c \in Clients : call[c] = NoCall
  /\ map' = [k \in Keys |-> Absent]
  /\ UNCHANGED call

Next == \E c \in Clients : Begin(c) \/ Decide(c) \/ Take(c) \/ Finish(c) \/ Return(c) \/ Renew

Spec == Init /\ [][Next]_<<map, call>>
=============================================================================
