----------------------------- MODULE JobsProofs -----------------------------
(***************************************************************************)
(* What the operators of Jobs return, for every number of attempts.        *)
(***************************************************************************)
EXTENDS Jobs, TLAPS

(* The operators on jobs keep the type; a throw ends the job or leaves it an *)
(* attempt.                                                                 *)
LEMMA ThrewType ==
  ASSUME NEW n \in Nat, NEW j \in JobType(n), j.left > 0
  PROVE  /\ Threw(j) \in JobType(n)
         /\ Threw(j).state \in {"waiting", "failed"}
         /\ Threw(j).state = "waiting" => Threw(j).left > 0
         /\ Threw(j).state = "failed" => Threw(j).left = 0
<1>1. j.left \in 0..n /\ j.stalls \in 0..1
  BY DEF JobType
<1>2. j.left - 1 \in 0..n
  BY <1>1
<1> QED
  BY <1>1, <1>2 DEF Threw, JobType

(* A job that lost its worker waits or has failed, its attempts untouched.  *)
LEMMA StalledType ==
  ASSUME NEW n \in Nat, NEW j \in JobType(n)
  PROVE  /\ Stalled(j) \in JobType(n)
         /\ Stalled(j).state \in {"waiting", "failed"}
         /\ Stalled(j).left = j.left
         /\ Stalled(j).stalls = 1
  BY DEF Stalled, JobType
=============================================================================
