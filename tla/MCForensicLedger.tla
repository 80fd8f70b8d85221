-------------------------- MODULE MCForensicLedger --------------------------
(***************************************************************************)
(* Two databases whose connections may be left in a transaction: in each   *)
(* behaviour either the agent's ledger, or one scene of the fleet server's *)
(* settings.  The other one stays as it is.                                *)
(***************************************************************************)
EXTENDS ForensicLedger, MCFleetEnrolment

VARIABLE part

BothInit ==
  /\ Init /\ EnrolInit
  /\ \/ part = "ledger" /\ scene = "deleted"
     \/ part = "settings"

BothNext ==
  \/ part = "ledger" /\ Next /\ UNCHANGED <<part, enrolVars>>
  \/ part = "settings" /\ EnrolNext /\ UNCHANGED <<part, vars>>

\* Neither can take a fair step before it has begun.
BothSpec ==
  /\ BothInit /\ [][BothNext]_<<part, vars, enrolVars>>
  /\ WF_vars(WriterStep) /\ WF_vars(MainStep) /\ EnrolFairness
=============================================================================
