---------------------------- MODULE JobLifecycle ----------------------------
(***************************************************************************)
(* What the job queue promises of a job, without tables, claims, windows   *)
(* or workers: a queued job stays queued until it is archived, once, with  *)
(* an outcome; 'ok' only after a run of it committed; and only a failed or *)
(* dead job is ever queued again (queue.rs, module documentation).         *)
(***************************************************************************)
CONSTANT Job

VARIABLES
  status,  \* status[j]: absent, queued or the outcome it was archived with
  done     \* jobs one of whose runs committed

vars == <<status, done>>

Init ==
  /\ status = [j \in Job |-> "absent"]
  /\ done = {}

Submit(j) ==
  /\ status[j] = "absent"
  /\ status' = [status EXCEPT ![j] = "queued"]
  /\ UNCHANGED done

\* At-least-once: a run may commit while the job is queued, and a run that was
\* given up on may still commit after the job was archived.
RunCommits(j) ==
  /\ status[j] # "absent"
  /\ done' = done \cup {j}
  /\ UNCHANGED status

Succeed(j) ==
  /\ status[j] = "queued" /\ j \in done
  /\ status' = [status EXCEPT ![j] = "ok"]
  /\ UNCHANGED done

Fail(j) ==
  /\ status[j] = "queued"
  /\ status' = [status EXCEPT ![j] = "failed"]
  /\ UNCHANGED done

\* One poll gives up on any number of jobs at once.
GiveUp(S) ==
  /\ \A j \in S : status[j] = "queued"
  /\ status' = [j \in Job |-> IF j \in S THEN "dead" ELSE status[j]]
  /\ UNCHANGED done

Requeue(j) ==
  /\ status[j] \in {"failed", "dead"}
  /\ status' = [status EXCEPT ![j] = "queued"]
  /\ UNCHANGED done

Next ==
  \/ \E j \in Job : Submit(j) \/ RunCommits(j) \/ Succeed(j) \/ Fail(j) \/ Requeue(j)
  \/ \E S \in SUBSET Job : GiveUp(S)

Spec == Init /\ [][Next]_vars

=============================================================================
