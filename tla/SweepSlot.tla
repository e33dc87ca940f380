------------------------------ MODULE SweepSlot ------------------------------
(***************************************************************************)
(* What gubald promises its callers about the shared cluster resources,    *)
(* with nothing of how it keeps the promise: there is one slot, a request  *)
(* either gets it, is turned away because somebody else has it, or is      *)
(* declined on its own merits, and whoever has it gives it back.           *)
(***************************************************************************)
CONSTANTS Requests,   \* the smoke-test calls a gubald may receive
          NoOwner     \* not a request: the slot is free

VARIABLES owner,      \* the request whose sweep may touch the cluster
          status      \* what the service has decided about each request

slotVars == <<owner, status>>

Statuses == {"pending", "declined", "refused", "running", "finished"}

SlotTypeOK ==
  /\ owner \in Requests \cup {NoOwner}
  /\ status \in [Requests -> Statuses]

Init ==
  /\ owner = NoOwner
  /\ status = [r \in Requests |-> "pending"]

Decide(r, s) ==
  /\ status[r] = "pending"
  /\ status' = [status EXCEPT ![r] = s]

Decline(r) == Decide(r, "declined") /\ UNCHANGED owner

\* A request is turned away only while another one is being served.
Refuse(r) == owner # NoOwner /\ Decide(r, "refused") /\ UNCHANGED owner

Admit(r) == owner = NoOwner /\ Decide(r, "running") /\ owner' = r

Finish(r) ==
  /\ owner = r
  /\ owner' = NoOwner
  /\ status' = [status EXCEPT ![r] = "finished"]

\* The process dies: the slot is free again, the request it was serving is
\* over, and so may be every one it had yet to decide or to answer.
Restart ==
  /\ owner' = NoOwner
  /\ \E S \in SUBSET {r \in Requests : status[r] \in {"pending", "refused"}} :
       status' = [r \in Requests |->
                    IF r = owner \/ r \in S THEN "finished" ELSE status[r]]

Next ==
  \/ \E r \in Requests : Decline(r) \/ Refuse(r) \/ Admit(r) \/ Finish(r)
  \/ Restart

Spec == Init /\ [][Next]_slotVars /\ WF_slotVars(\E r \in Requests : Finish(r))
==============================================================================
