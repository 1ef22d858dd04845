---------------------------- MODULE IntrusiveList ----------------------------
(***************************************************************************)
(* The intrusive doubly linked list List<T> of src/min_char_window.cpp.    *)
(*                                                                         *)
(* A list value is a record of the two pointers of List<T> and of the two  *)
(* link fields of every node.  The code's naming is kept: the list grows   *)
(* at its tail, `prev' leads from the head towards the tail and `next'     *)
(* from the tail towards the head.  Indexing a link field with NULL has no *)
(* value: that is the null dereference the code would make.                *)
(***************************************************************************)
CONSTANTS
  Node,   (* the objects that may be linked                                *)
  NULL    (* nullptr; not a node                                           *)

Pointer == Node \cup {NULL}

ListType == [head : Pointer, tail : Pointer,
             next : [Node -> Pointer], prev : [Node -> Pointer]]

EmptyList == [head |-> NULL, tail |-> NULL,
              next |-> [t \in Node |-> NULL], prev |-> [t \in Node |-> NULL]]
-----------------------------------------------------------------------------
(* A defect to tell RecencyOrder by: t->prev is not reset.                 *)
emplace_back_KeepsPrev(l, t) ==
  [head |-> IF l.tail = NULL THEN t ELSE l.head,
   tail |-> t,
   next |-> [l.next EXCEPT ![t] = l.tail],
   prev |-> IF l.tail = NULL THEN l.prev ELSE [l.prev EXCEPT ![l.tail] = t]]

(* t->next and t->prev are overwritten last, so linking the current tail   *)
(* once more leaves it its own `next'.                                     *)
emplace_back(l, t) ==
  LET attached == IF l.tail = NULL THEN l.prev ELSE [l.prev EXCEPT ![l.tail] = t]
  IN  [head |-> IF l.tail = NULL THEN t ELSE l.head,
       tail |-> t,
       next |-> [l.next EXCEPT ![t] = l.tail],
       prev |-> [attached EXCEPT ![t] = NULL]]

(* A defect to tell BackLinks by: the new head still has a `next'.         *)
pop_front_KeepsNext(l) ==
  IF l.head # NULL /\ l.prev[l.head] # NULL THEN [l EXCEPT !.head = l.prev[l.head]] ELSE l

(* The last remaining node is returned but never unlinked.                 *)
pop_front(l) ==
  IF l.head # NULL /\ l.prev[l.head] # NULL
  THEN LET h == l.prev[l.head]
       IN  [l EXCEPT !.head = h, !.next = [@ EXCEPT ![h] = NULL]]
  ELSE l

pop_back(l) ==
  IF l.tail # NULL /\ l.next[l.tail] # NULL
  THEN LET b == l.next[l.tail]
       IN  [l EXCEPT !.tail = b, !.prev = [@ EXCEPT ![b] = NULL]]
  ELSE l

(* Every branch of the code returns t itself; the value here is the list   *)
(* that is left.                                                           *)
pop(l, t) ==
  CASE l.head = t -> pop_front(l)
    [] l.head # t /\ l.tail = t -> pop_back(l)
    [] OTHER -> [l EXCEPT !.prev = [@ EXCEPT ![l.next[t]] = l.prev[t]],
                          !.next = [@ EXCEPT ![l.prev[t]] = l.next[t]]]
=============================================================================
