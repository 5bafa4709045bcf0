------------------------------ MODULE ReaderApp ------------------------------
(***************************************************************************)
(* The page routed to (App.tsx) for a verifier or an employee, with the    *)
(* wallet session above it and a registry in which others act as well.     *)
(* One page is mounted at a time, with its state fresh; leaving it ends    *)
(* what it shows, so a behaviour is the life of one page.                  *)
(***************************************************************************)
EXTENDS VerifierPortal, EmployeeDashboard, AccessRequests

CONSTANT MaxActs  \* bound on what the user does, in page and wallet, and others

ASSUME ActsAssumption == MaxActs \in Nat

VARIABLES
    page,  \* the path of the page
    acts   \* how much the user and others have done

chainVars == <<consentVars, sent>>
readerVars == <<pageVars, chainVars, verifierVars, loadVars, hashVars, answerVars,
                page, acts>>

Pages == {"/verification", "/employee", "/employee/requests"}

ReaderInit ==
    /\ IssuedInit
    /\ PageInit
    /\ sent = <<>>
    /\ VerifierInit
    /\ LoadsInit
    /\ EmployeeInit
    /\ RequestsInit
    /\ page \in Pages
    /\ acts = 0

\* A press on the page.
Acts ==
    /\ UNCHANGED <<pageVars, consentVars>>
    /\ \/ /\ page = "/verification" /\ VerifierAct
          /\ UNCHANGED <<loadVars, hashVars, answerVars>>
       \/ /\ page = "/employee" /\ EmployeeAct
          /\ UNCHANGED <<verifierVars, answerVars, sent>>
       \/ /\ page = "/employee/requests" /\ RequestsAct
          /\ UNCHANGED <<verifierVars, hashVars>>

\* The wallet and the session change, and the page's effects run.
Follows ==
    /\ PageNext
    /\ \/ /\ page = "/verification" /\ VerifierFollows
          /\ UNCHANGED <<loadVars, hashVars, answerVars>>
       \/ /\ page = "/employee" /\ EmployeeFollows
          /\ UNCHANGED <<verifierVars, answerVars>>
       \/ /\ page = "/employee/requests" /\ RequestsFollow
          /\ UNCHANGED <<verifierVars, hashVars>>
    /\ UNCHANGED chainVars

\* A handler goes on.
Goes ==
    /\ UNCHANGED <<pageVars, consentVars>>
    /\ \/ /\ page = "/verification" /\ VerifierStep
          /\ UNCHANGED <<loadVars, hashVars, answerVars>>
       \/ /\ page = "/employee" /\ EmployeeStep
          /\ UNCHANGED <<verifierVars, answerVars, sent>>
       \/ /\ page = "/employee/requests" /\ RequestsStep
          /\ UNCHANGED <<verifierVars, hashVars>>

\* The page's transactions are mined.
Chain ==
    /\ \E t \in DOMAIN sent : Mine(t)
    /\ UNCHANGED <<pageVars, verifierVars, loadVars, hashVars, answerVars>>

\* Others act on the registry.
Others ==
    /\ Elsewhere
    /\ UNCHANGED <<pageVars, sent, verifierVars, loadVars, hashVars, answerVars>>

ReaderNext ==
    \/ /\ acts < MaxActs
       /\ acts' = acts + 1
       /\ Acts \/ Follows \/ Others
       /\ UNCHANGED page
    \/ (Goes \/ Chain) /\ UNCHANGED <<acts, page>>

ReaderSpec == ReaderInit /\ [][ReaderNext]_readerVars

=============================================================================
