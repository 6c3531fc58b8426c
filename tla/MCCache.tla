------------------------------- MODULE MCCache -------------------------------
(* Two sets of two lines of two bytes: three lines for the first set, one  *)
(* for the second. The tag of address 12 is the greatest a line can hold.  *)
EXTENDS Cache
SomeBytes == {0, 1, 4, 12, 15}
=============================================================================
