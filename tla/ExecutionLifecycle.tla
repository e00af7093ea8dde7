------------------------- MODULE ExecutionLifecycle -------------------------
(***************************************************************************)
(* What an execution promises to whoever looks at its row, with no worker, *)
(* queue or container: QUEUED -> PROVISIONING -> RUNNING -> COLLECTING and *)
(* then COMPLETED, FAILED or CANCELLED, which are the end                  *)
(* (enum ExecutionStatus of schema.prisma, section Execution of            *)
(* Docs/CLAUDE_CODE_CONTEXT.md). Only an execution that ended is deleted.  *)
(* When its job may be run again (attempts: 2 of the queue) the stages     *)
(* start over, also after COMPLETED or FAILED; a cancellation still stays. *)
(***************************************************************************)
CONSTANT Executions
VARIABLES
  status,
  again     \* whether the job may be run again

vars == <<status, again>>

\* The stages of a run, in their order.
NextStage == [QUEUED |-> "PROVISIONING", PROVISIONING |-> "RUNNING",
              RUNNING |-> "COLLECTING", COLLECTING |-> "COMPLETED"]
Unfinished == DOMAIN NextStage
Ended == {"COMPLETED", "FAILED", "CANCELLED"}

Init ==
  /\ status = [e \in Executions |-> "none"]
  /\ again \in BOOLEAN

Becomes(e, s) == status' = [status EXCEPT ![e] = s]

Request(e) == status[e] = "none" /\ Becomes(e, "QUEUED")
Advance(e) == status[e] \in Unfinished /\ Becomes(e, NextStage[status[e]])
Fail(e)    == status[e] \in Unfinished /\ Becomes(e, "FAILED")
Cancel(e)  == status[e] \in Unfinished /\ Becomes(e, "CANCELLED")
Delete(e)  == status[e] \in Ended /\ Becomes(e, "deleted")

\* The job is run again, and the run writes a stage or an end; and whoever deletes may have
\* read an end that is not one any more.
Repeat(e) ==
  /\ again
  /\ status[e] \in Unfinished \cup {"COMPLETED", "FAILED"}
  /\ \/ \E s \in Unfinished \cup {"COMPLETED", "FAILED"} : s # "QUEUED" /\ Becomes(e, s)
     \/ Becomes(e, "deleted")

Next ==
  /\ \E e \in Executions :
       Request(e) \/ Advance(e) \/ Fail(e) \/ Cancel(e) \/ Delete(e) \/ Repeat(e)
  /\ UNCHANGED again

Spec == Init /\ [][Next]_vars

=============================================================================
