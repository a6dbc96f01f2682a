-------------------------- MODULE MCNotifications --------------------------
(* Instances of Notifications for model checking. *)
EXTENDS Notifications

CONSTANT l1   \* the link

\* The invariants are about what happens before the first state mismatch:
\* nothing is explored beyond one.
BeforeMismatch == expected
=============================================================================
