---------------------------- MODULE MCNetWorker ----------------------------
(***************************************************************************)
(* The network worker under workloads of three requests each, chosen so    *)
(* that each queue fills up, order within a queue matters, and every pair  *)
(* of kinds meets: two API calls with an image or a local job, and an API  *)
(* call with two images, or with one and a local job.                      *)
(***************************************************************************)
EXTENDS NetWorker

CONSTANTS Workloads

(* A request is asked only where some workload still has it.               *)
Allowed(r) ==
    \E w \in Workloads : {asked[i] : i \in DOMAIN asked} \cup {r} \subseteq w

MCNetNext ==
    \/ \E r \in Requests : Allowed(r) /\ Ask(r)
    \/ \E r \in Requests : Cancel(r)
    \/ UiStep
    \/ WorkerStep
    \/ WakeSpuriously
    \/ Leave
    \/ GiveUp
    \/ Gone

MCNetSpec ==
    /\ NetInit /\ [][MCNetNext]_netVars
    /\ WF_netVars(UiStep) /\ WF_netVars(WorkerStep)
=============================================================================
