---------------------------- MODULE RunContract ----------------------------
(***************************************************************************)
(* What ProtoClient::Run promises its caller, without frames, checksums,   *)
(* buffers or sockets: the resolved addresses are attempted one after the  *)
(* other, an attempt climbs through login, submission and logout, Run      *)
(* returns true as soon as one attempt has completed all three, and false  *)
(* only when no address is left.  ProtoClient.tla implements this module.  *)
(***************************************************************************)
EXTENDS Naturals

CONSTANTS MaxAddrs,     \* bound: addresses one name resolves to
          MaxRuns       \* bound: calls of Run on one object

VARIABLES verdict,      \* what the current or the last call has come to
          limit,        \* number of addresses of this call
          tried,        \* how many of them have been attempted
          stage,        \* exchanges the latest attempt has completed
          calls         \* how many times Run has been called

vars == <<verdict, limit, tried, stage, calls>>

Verdicts == {"none", "resolving", "running", "true", "false", "killed"}

Init ==
  /\ verdict = "none"
  /\ limit = 0 /\ tried = 0 /\ stage = 0 /\ calls = 0

\* The caller calls Run; an earlier call must have returned.
Call ==
  /\ verdict \in {"none", "true", "false"}
  /\ calls < MaxRuns
  /\ verdict' = "resolving"
  /\ limit' = 0 /\ tried' = 0 /\ stage' = 0
  /\ calls' = calls + 1

\* The caller has the n addresses already (the overload taking a vector).
CallWith(n) ==
  /\ verdict \in {"none", "true", "false"}
  /\ calls < MaxRuns
  /\ verdict' = "running"
  /\ limit' = n
  /\ tried' = 0 /\ stage' = 0
  /\ calls' = calls + 1

\* The name resolves to n addresses ...
Resolved(n) ==
  /\ verdict = "resolving"
  /\ verdict' = "running"
  /\ limit' = n
  /\ UNCHANGED <<tried, stage, calls>>

\* ... or to none, and Run returns false.
Unresolved ==
  /\ verdict = "resolving"
  /\ verdict' = "false"
  /\ UNCHANGED <<limit, tried, stage, calls>>

\* Whatever the previous attempt came to, the next address starts afresh.
Attempt ==
  /\ verdict = "running" /\ tried < limit
  /\ tried' = tried + 1
  /\ stage' = 0
  /\ UNCHANGED <<verdict, limit, calls>>

\* The login or the submission exchange completes.
Advance ==
  /\ verdict = "running" /\ tried > 0 /\ stage < 2
  /\ stage' = stage + 1
  /\ UNCHANGED <<verdict, limit, tried, calls>>

\* The logout exchange completes: the call is over, and true.
Succeed ==
  /\ verdict = "running" /\ stage = 2
  /\ stage' = 3
  /\ verdict' = "true"
  /\ UNCHANGED <<limit, tried, calls>>

\* No address is left.
GiveUp ==
  /\ verdict = "running" /\ tried = limit
  /\ verdict' = "false"
  /\ UNCHANGED <<limit, tried, stage, calls>>

\* A write on a reset connection may end the process (SIGPIPE).
Die ==
  /\ verdict = "running" /\ tried > 0
  /\ verdict' = "killed"
  /\ UNCHANGED <<limit, tried, stage, calls>>

Proceed ==
  \/ \E n \in 0..MaxAddrs : Resolved(n)
  \/ Unresolved
  \/ Attempt
  \/ Advance
  \/ Succeed
  \/ GiveUp
  \/ Die

Next ==
  \/ Call
  \/ \E n \in 0..MaxAddrs : CallWith(n)
  \/ Proceed

Spec == Init /\ [][Next]_vars

\* A call that has begun goes on until it returns.
FairSpec == Spec /\ WF_vars(Proceed)
=============================================================================
