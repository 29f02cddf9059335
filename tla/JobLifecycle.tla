---------------------------- MODULE JobLifecycle ----------------------------
(***************************************************************************)
(* What the service promises of an artifact's job, whatever workers,       *)
(* submitters and crashes do: work is handed out again when a claim        *)
(* expires and a failed job can be resubmitted, but a job is completed     *)
(* only while it is claimed and its report is published, and completed     *)
(* work is never redone.  The concurrent service is TitanService.          *)
(***************************************************************************)
CONSTANT Digests        \* SHA-256 digests: job identities and storage keys

VARIABLES
    state,              \* state[d]: the state of d's job
    published           \* the digests that have a report

jobVars == <<state, published>>

JobStates == {"absent", "queued", "running", "completed", "failed"}

InState(s) == {d \in Digests : state[d] = s}

JobInit ==
    /\ state = [d \in Digests |-> "absent"]
    /\ published = {}

Submit(d) ==
    /\ state[d] \in {"absent", "failed"}
    /\ state' = [state EXCEPT ![d] = "queued"]
    /\ UNCHANGED published

\* The expired claims go back to the queue, and at most one job is claimed.
Lease(expired, claimed) ==
    /\ expired \subseteq InState("running")
    /\ claimed \subseteq InState("queued") \cup expired
    /\ \A c, d \in claimed : c = d
    /\ state' = [d \in Digests |->
                   IF d \in claimed THEN "running"
                   ELSE IF d \in expired THEN "queued" ELSE state[d]]
    /\ UNCHANGED published

Publish(d) ==
    /\ state[d] # "absent"
    /\ published' = published \cup {d}
    /\ UNCHANGED state

Succeed(d) ==
    /\ state[d] = "running" /\ d \in published
    /\ state' = [state EXCEPT ![d] = "completed"]
    /\ UNCHANGED published

GiveUp(d) ==
    /\ state[d] = "running"
    /\ state' = [state EXCEPT ![d] = "failed"]
    /\ UNCHANGED published

JobNext ==
    \/ \E d \in Digests : Submit(d) \/ Publish(d) \/ Succeed(d) \/ GiveUp(d)
    \/ \E expired, claimed \in SUBSET Digests : Lease(expired, claimed)

JobSpec == JobInit /\ [][JobNext]_jobVars
=============================================================================
