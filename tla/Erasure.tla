------------------------------ MODULE Erasure ------------------------------
(*****************************************************************************)
(* What the privacy purge promises about the raw email of a row, without     *)
(* its sweeps: the raw email is kept until the grace period of a deletion    *)
(* request or the retention period is over, then it disappears from the      *)
(* bucket, and only then the row forgets where it was.  PrivacyPurge         *)
(* implements this module.                                                   *)
(*****************************************************************************)
CONSTANT Emails
VARIABLE fate

Fates == {"absent", "kept", "overdue", "gone", "erased"}

ErasureInit == fate = [e \in Emails |-> "absent"]

(* The emails of S go from one fate to the next.                             *)
Move(S, from, to) ==
  /\ \A e \in S : fate[e] = from
  /\ fate' = [e \in Emails |-> IF e \in S THEN to ELSE fate[e]]

ErasureNext ==
  \/ \E e \in Emails :
       \/ Move({e}, "absent", "kept")
       \/ Move({e}, "kept", "overdue")
       \/ Move({e}, "overdue", "gone")
  \/ \E S \in SUBSET Emails : Move(S, "gone", "erased")

ErasureSpec == ErasureInit /\ [][ErasureNext]_fate
=============================================================================
