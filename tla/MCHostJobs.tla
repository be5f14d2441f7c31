----------------------------- MODULE MCHostJobs -----------------------------
(* HostJobs in the environments its runs check it in.                       *)
EXTENDS HostJobs

(* A release job in small: build, push (approved), verify.                  *)
MiddleApproval == {2}
NoApprovals == {}

(* Everything but reconcile_job, which nobody calls for such jobs, and a    *)
(* torn first put, after which the job does not follow its plan.            *)
ReleaseEvents == AllEvents \ {"reconcile", "torn_create"}

(* A job of one step whose waiter reconciles it; its commands start.        *)
BridgeEvents == {"cancel", "reconcile", "worker_lost", "torn_write", "torn_create"}

NoEvents == {}
=============================================================================
