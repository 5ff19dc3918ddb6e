------------------------------ MODULE KeyList -------------------------------
(***************************************************************************)
(* ta/key_list/key_list.c: a linked list of key strings, the TA's set of   *)
(* admins or of writers.  No caller can observe the order of the nodes, so *)
(* a list is the bag of its keys: l[k] is the number of nodes holding k.   *)
(* add_key_to_set does not look for an existing node, hence a bag and not  *)
(* a set: that lists never hold a key twice is a property of the callers.  *)
(***************************************************************************)
EXTENDS Integers

CONSTANT Key \* the public-key strings

KeyLists == [Key -> Nat]

\* init_key_list: head = NULL, count = 0.
init_key_list == [k \in Key |-> 0]

\* The walk compares every node's string with key.
key_exists_in_set(list, key) == list[key] > 0

\* A new node in front of head (the caller handles a failed create_key_node).
add_key_to_set(list, key) == [list EXCEPT ![key] = @ + 1]

\* Mutant: the count goes down although no node was found.
find_and_remove_key_unfound(list, key) == [list EXCEPT ![key] = @ - 1]

\* Removes the first node that holds key; *was_found is key_exists_in_set
\* of the list before the call.
find_and_remove_key(list, key) == [list EXCEPT ![key] = IF @ > 0 THEN @ - 1 ELSE 0]
=============================================================================
