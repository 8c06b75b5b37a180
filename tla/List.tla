-------------------------------- MODULE List --------------------------------
(***************************************************************************)
(* The doubly linked lists of kernel/list.c, as sequences of the nodes     *)
(* they link.  A list_t is a sentinel pair, so the empty list is the empty *)
(* sequence and the links to the sentinels are not represented.            *)
(***************************************************************************)
EXTENDS Integers, Sequences, FiniteSetsExt

\* The list with a node linked in before position i, or that at i unlinked.
LinkAt(list, i, node) == SubSeq(list, 1, i - 1) \o <<node>> \o SubSeq(list, i, Len(list))
UnlinkAt(list, i) == SubSeq(list, 1, i - 1) \o SubSeq(list, i + 1, Len(list))

list_add_tail(list, node) == Append(list, node)

\* list_enqueue: before the first node of lower priority, else at the tail.
\* Among nodes of one priority the list is therefore first-in first-out.
list_enqueue(list, node, Priority) ==
  LET lower == {i \in DOMAIN list : Priority[list[i]] < Priority[node]}
  IN  IF lower = {} THEN list_add_tail(list, node) ELSE LinkAt(list, Min(lower), node)

\* list_remove unlinks the node, wherever it stands.
list_remove(list, node) ==
  LET at == {i \in DOMAIN list : list[i] = node}
  IN  IF at = {} THEN list ELSE UnlinkAt(list, Min(at))
=============================================================================
