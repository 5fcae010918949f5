---------------------------- MODULE MCIsidTwind ----------------------------
(* IsidTwind on a small instance.                                          *)
EXTENDS IsidTwind

\* A client that stays and one that only wants what there is.
MCRequests ==
  { [beg |-> "oldest", continuous |-> TRUE],
    [beg |-> "newest", continuous |-> FALSE] }
=============================================================================
