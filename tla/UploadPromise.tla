---------------------------- MODULE UploadPromise ----------------------------
(***************************************************************************)
(* What an uploaded photo is promised, without jobs, leases or workers: it *)
(* is worked on in a bounded number of attempts, and ends published,       *)
(* refused, failed or canceled.  What is published is the work of the      *)
(* newest attempt, once, and never changes.                                *)
(***************************************************************************)
EXTENDS Integers

CONSTANTS Uploads, AttemptLimit

VARIABLES
  status,   \* upload -> where the member sees it
  attempt,  \* upload -> attempts started
  result    \* upload -> the attempt whose work is published, 0 for none

promiseVars == <<status, attempt, result>>

Statuses == {"none", "waiting", "working", "published",
             "refused", "failed", "canceled", "removed"}

PromiseTypeOK ==
  /\ status \in [Uploads -> Statuses]
  /\ attempt \in [Uploads -> 0..AttemptLimit]
  /\ result \in [Uploads -> 0..AttemptLimit]

Init ==
  /\ status = [u \in Uploads |-> "none"]
  /\ attempt = [u \in Uploads |-> 0]
  /\ result = [u \in Uploads |-> 0]

Moves(u, from, to) == status[u] \in from /\ status'[u] = to
SameWork(u) == attempt'[u] = attempt[u] /\ result'[u] = result[u]

Submit(u) == Moves(u, {"none"}, "waiting") /\ SameWork(u)
Accept(u) == Moves(u, {"waiting"}, "working") /\ SameWork(u)

Attempt(u) ==
  /\ Moves(u, {"working"}, "working")
  /\ attempt[u] < AttemptLimit
  /\ attempt'[u] = attempt[u] + 1
  /\ result'[u] = result[u]

Publish(u) ==
  /\ Moves(u, {"working"}, "published")
  /\ attempt[u] > 0
  /\ attempt'[u] = attempt[u]
  /\ result'[u] = attempt[u]

Refuse(u) == Moves(u, {"waiting", "working"}, "refused") /\ SameWork(u)
Fail(u) == Moves(u, {"working"}, "failed") /\ SameWork(u)
Retry(u) == Moves(u, {"failed"}, "working") /\ SameWork(u)
Cancel(u) == Moves(u, {"waiting", "working", "failed"}, "canceled") /\ SameWork(u)

Remove(u) ==
  /\ Moves(u, Statuses \ {"none"}, "removed")
  /\ attempt'[u] = attempt[u]
  /\ result'[u] = 0

Rest(u) == status'[u] = status[u] /\ SameWork(u)

(* One transaction may move several uploads, each by one step of its own. *)
Next ==
  \A u \in Uploads :
    \/ Submit(u) \/ Accept(u) \/ Attempt(u) \/ Publish(u)
    \/ Refuse(u) \/ Fail(u) \/ Retry(u) \/ Cancel(u) \/ Remove(u)
    \/ Rest(u)

(* PromiseTypeOK' keeps the variables functions over the uploads. *)
Spec == Init /\ [][Next /\ PromiseTypeOK']_promiseVars
=============================================================================
