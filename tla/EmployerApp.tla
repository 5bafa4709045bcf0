----------------------------- MODULE EmployerApp -----------------------------
(***************************************************************************)
(* The page routed to (App.tsx) for an employer, with the wallet session,  *)
(* the employer's profile and the registry below it.  The dashboard lives  *)
(* as long as its page; a pipeline of the issuing page goes on after it.   *)
(***************************************************************************)
EXTENDS EmployerDashboard, IssuancePortal

CONSTANT MaxActs  \* bound on what the user does, in the page and in the wallet

ASSUME ActsAssumption == MaxActs \in Nat

VARIABLES
    page,  \* the path of the page
    acts   \* how much the user has done

employerVars == <<pageVars, profileVars, registryVars, sent, dashboardVars,
                  issuanceVars, page, acts>>

\* The registry has a past, without a blob that is yet to be pinned.
EmployerInit ==
    /\ \E issuers \in Histories, s \in Submissions :
          /\ ValidSubmission(s)
          /\ s.ipfsCID \notin Blobs
          /\ RegistryHolds(issuers, s)
    /\ PageInit
    /\ sent = <<>>
    /\ ProfileInit
    /\ DashboardInit
    /\ IssuanceInit
    /\ page \in {"/employer", "/employer/create"}
    /\ acts = 0

\* A press on the page.
Acts ==
    /\ UNCHANGED <<pageVars, profileVars, registryVars>>
    /\ \/ page = "/employer" /\ DashboardAct /\ UNCHANGED issuanceVars
       \/ page = "/employer/create" /\ IssuanceAct /\ UNCHANGED dashboardVars

\* The wallet and the session change, and the effects run.
Follows ==
    /\ SessionStep
    /\ IF page = "/employer" THEN DashboardFollows ELSE UNCHANGED dashboardVars
    /\ UNCHANGED <<registryVars, sent, issuanceVars>>

\* A read of the profile or a handler goes on.
Goes ==
    /\ UNCHANGED <<pageVars, registryVars>>
    /\ \/ page = "/employer" /\ DashboardStep /\ UNCHANGED issuanceVars
       \/ /\ page = "/employer/create" /\ IssuanceStep
          /\ UNCHANGED <<profileVars, dashboardVars>>
       \/ /\ page = "/employer/create"
          /\ \E r \in Refreshes : RefreshAnswered(r) \/ RefreshFails(r)
          /\ UNCHANGED <<sent, dashboardVars, issuanceVars>>

\* The page's transactions are mined.
Chain ==
    /\ \E t \in DOMAIN sent : Mine(t)
    /\ UNCHANGED <<pageVars, profileVars, dashboardVars, issuanceVars>>

EmployerNext ==
    \/ /\ acts < MaxActs
       /\ acts' = acts + 1
       /\ Acts \/ Follows
       /\ UNCHANGED page
    \/ (Goes \/ Chain) /\ UNCHANGED <<acts, page>>

EmployerSpec == EmployerInit /\ [][EmployerNext]_employerVars

=============================================================================
