---------------------------- MODULE PutContract ----------------------------
(***************************************************************************)
(* What run_job may count on when it uploads: an upload that returned a    *)
(* URL has its PDF in the storage service; one that failed, or that was    *)
(* abandoned, may have stored it, and may still do so later.               *)
(***************************************************************************)

CONSTANT Puts            \* the uploads, one per job that gets so far

VARIABLES put,           \* "none", "sent", or the PDF is "stored"
          outcome        \* "none", "pending", "url" or "error"

vars == <<put, outcome>>

Init ==
  /\ put = [p \in Puts |-> "none"]
  /\ outcome = [p \in Puts |-> "none"]

Send(p) ==
  /\ outcome[p] = "none"
  /\ put' = [put EXCEPT ![p] = "sent"]
  /\ outcome' = [outcome EXCEPT ![p] = "pending"]

Store(p) ==
  /\ put[p] = "sent" /\ outcome[p] # "url"
  /\ put' = [put EXCEPT ![p] = "stored"]
  /\ UNCHANGED outcome

Return(p) ==
  /\ outcome[p] = "pending" /\ put[p] = "stored"
  /\ outcome' = [outcome EXCEPT ![p] = "url"]
  /\ UNCHANGED put

Fail(p) ==
  /\ outcome[p] = "pending"
  /\ outcome' = [outcome EXCEPT ![p] = "error"]
  /\ UNCHANGED put

Next == \E p \in Puts : Send(p) \/ Store(p) \/ Return(p) \/ Fail(p)

Spec == Init /\ [][Next]_vars

=============================================================================
