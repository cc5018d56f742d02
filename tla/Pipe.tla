-------------------------------- MODULE Pipe --------------------------------
(***************************************************************************)
(* What a buffer between two parties promises: while it is open and not     *)
(* broken, what it was given comes out once, complete and in order, and it  *)
(* holds exactly what has not come out yet.  Closing it drops what it holds. *)
(* Once broken it promises nothing any more, also when it is opened again.  *)
(***************************************************************************)
EXTENDS Naturals, Sequences

VARIABLES
  open,
  broken,
  given,   \* since it was opened
  held,
  passed   \* since it was opened

vars == <<open, broken, given, held, passed>>

Extends(t, s) == Len(s) <= Len(t) /\ SubSeq(t, 1, Len(s)) = s

Empty == given = <<>> /\ held = <<>> /\ passed = <<>>

Init == open = FALSE /\ broken = FALSE /\ Empty

Open ==
  /\ ~open /\ open' = TRUE /\ Empty'

\* Any number of elements are put in, any number come out.
Move ==
  /\ open /\ open' = TRUE
  /\ Extends(given', given) /\ Extends(passed', passed)
  /\ given' = passed' \o held'

Close ==
  /\ open /\ open' = FALSE /\ Empty'

Next == broken' \/ (~broken /\ ~broken' /\ (Open \/ Move \/ Close))

Spec == Init /\ [][Next]_vars
=============================================================================
