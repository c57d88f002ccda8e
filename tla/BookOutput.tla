------------------------------ MODULE BookOutput -------------------------------
(***************************************************************************)
(* What a reader of BOOKNAME.out is promised, whatever happens to the      *)
(* program: the file always holds one whole result; only a newer whole     *)
(* result replaces it; a crash may lose the replacement, never the file.   *)
(*                                                                         *)
(* out is what a reader finds now, survivors what it may find after a      *)
(* crash.                                                                  *)
(***************************************************************************)
EXTENDS Naturals

CONSTANTS Result,        \* the whole results
          Age(_)         \* the session a result comes from

VARIABLES out, survivors

Init == out \in Result /\ survivors = {out}

Publish(r) ==
    /\ \A c \in survivors : Age(r) > Age(c)
    /\ out' = r
    /\ survivors' = survivors \union {r}

Settle == survivors' = {out} /\ UNCHANGED out

Crash == out' \in survivors /\ survivors' = {out'}

Next == (\E r \in Result : Publish(r)) \/ Settle \/ Crash

Spec == Init /\ [][Next]_<<out, survivors>>
===============================================================================
