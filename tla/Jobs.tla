-------------------------------- MODULE Jobs --------------------------------
(***************************************************************************)
(* A BullMQ job, as the "transactions" queue uses it: added with a number  *)
(* of attempts and a delay, run by a worker, run again after a throw while *)
(* attempts are left, and run again once if the worker died under it       *)
(* (BullMQ moves a stalled job back to the waiting list, and fails it the  *)
(* second time).  Delays and backoff only say that a run is not immediate: *)
(* a waiting job starts at some later moment.  BullMQ is external.         *)
(***************************************************************************)
EXTENDS Naturals

NoJob == [state |-> "none", left |-> 0, stalls |-> 0]

JobType(attempts) ==
  [state: {"none", "waiting", "active", "done", "failed"},
   left: 0..attempts, stalls: 0..1]

Added(attempts) == [state |-> "waiting", left |-> attempts, stalls |-> 0]

Started(job) == [job EXCEPT !.state = "active"]

Succeeded(job) == [job EXCEPT !.state = "done"]

(* Mutant of Threw: attempts without end. *)
ThrewForever(job) == [job EXCEPT !.left = @ - 1, !.state = "waiting"]

(* The processor threw: an attempt is used up. *)
Threw(job) ==
  [state |-> IF job.left > 1 THEN "waiting" ELSE "failed",
   left |-> job.left - 1, stalls |-> job.stalls]

(* The worker that ran the job is gone. *)
Stalled(job) ==
  [state |-> IF job.stalls = 1 THEN "failed" ELSE "waiting",
   left |-> job.left, stalls |-> 1]

Over(job) == job.state \in {"done", "failed"}
=============================================================================
