---------------------------- MODULE MCUploadJobs ----------------------------
(* Instances of UploadJobs for TLC. *)
EXTENDS UploadJobs

CONSTANTS admin, m1, e1

TwoMembers == {admin, m1}
OneEntry == {e1}
OwnedByMember == [e \in Entries |-> m1]
OneTickBackoff == [n \in 1..MaxAttempts |-> 1]
=============================================================================
