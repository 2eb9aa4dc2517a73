----------------------------- MODULE MCReminders -----------------------------
(* Instances of Reminders for TLC. *)
EXTENDS Reminders, TLC

CONSTANTS k1, k2, p1, p2, e1, l1, l2, l3

=============================================================================
