---------------------------- MODULE ScanService ----------------------------
(***************************************************************************)
(* What DirectoryScanner promises its owner, without a thread, a mutex or  *)
(* a half-filled list: a scan that was ordered is answered, once, with     *)
(* what the directory holds or with an exception, and the answer stays as  *)
(* it is until the next order.  DirectoryScanner implements this           *)
(* specification.                                                          *)
(***************************************************************************)
CONSTANTS
  Orders,             \* what may be ordered: a directory, flags, a filter
  Listing(_),         \* the lists that answer an order
  NoListing           \* what there is to see of them without an answer

VARIABLES
  order,      \* the order that is being served, or the last one
  open,       \* has it still to be answered?
  answer,     \* "none", "lists" or "exception"
  listing     \* the lists

vars == <<order, open, answer, listing>>

Init == order \in Orders /\ open = FALSE /\ answer = "none" /\ listing = NoListing

Call == /\ ~open /\ open' = TRUE
        /\ order' \in Orders
        /\ answer' = "none" /\ listing' = NoListing

Answer == /\ open /\ open' = FALSE
          /\ \/ answer' = "lists" /\ listing' = Listing(order)
             \/ answer' = "exception" /\ UNCHANGED listing
          /\ UNCHANGED order

Next == Call \/ Answer

Spec == Init /\ [][Next]_vars
=============================================================================
