--------------------------- MODULE MCPageDisplay ---------------------------
(* PageDisplay on all small texts that, like Book1, fill the first page,   *)
(* on an LCD of two rows of two characters.                                *)
EXTENDS PageDisplay

TextsUpTo(max) ==
  UNION {{[len |-> n, nl |-> nl \cup {n - 1}] : nl \in SUBSET (2 .. n - 2)} :
           n \in 3 .. max}
MCBooks == {b \in TextsUpTo(7) : b.nl # {b.len - 1}}

\* The words next to pageBreak hold a null pointer, or anything.
MCStray == {-1, -2}
=============================================================================
