------------------------------ MODULE MCLockOrder ------------------------------
(***************************************************************************)
(* Two sessions of a quiz of two questions: both move on; one is finalized *)
(* and answered, somebody joins the other, and somebody archives the quiz. *)
(***************************************************************************)
EXTENDS LockOrder

TwoSessions == <<1, 2>>
Work == { <<"move", 1>>, <<"finalize", 1>>, <<"press", 1>>,
          <<"move", 2>>, <<"join", 2>>, <<"archive", 1>> }
Kind(t) == t[1]
Of(t) == t[2]
=============================================================================
