---------------------------- MODULE MCIsidSeqno ----------------------------
(* IsidSeqno on small instances.                                            *)
EXTENDS IsidSeqno

\* A reconnecting client's request, "keepup" from the number after its last one,
\* and one that ends.
MCRequests ==
  { [beg |-> 2, end |-> Newest, continuous |-> TRUE],
    [beg |-> Oldest, end |-> 3, continuous |-> FALSE] }
=============================================================================
