------------------------------- MODULE MCViewport -------------------------------
(***************************************************************************)
(* Viewport on small terminals: a window too small for any page, one only  *)
(* too small under a high banner, and a roomy, wider one.  The long line   *)
(* wraps at places that do not nest: no row but the first begins at the    *)
(* same byte at both widths.                                               *)
(***************************************************************************)
EXTENDS Viewport

Tiny == [rows |-> 2, cols |-> 4]
Low == [rows |-> 4, cols |-> 4]
Roomy == [rows |-> 6, cols |-> 6]
MCSizes == {Tiny, Low, Roomy}

MCLines == {"short", "long"}
MCStarts ==
    [short |-> [w \in {3, 5} |-> <<0>>],
     long |-> [w \in {3, 5} |-> IF w = 3 THEN <<0, 3, 5, 8>> ELSE <<0, 4, 7>>]]
MCColour == [short |-> "red", long |-> "plain"]

=============================================================================
