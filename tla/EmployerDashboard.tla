-------------------------- MODULE EmployerDashboard --------------------------
(***************************************************************************)
(* The page src/frontend/src/pages/EmployerDashboard.tsx: an employer      *)
(* registers, sees the attestations it has issued and revokes them.  Each  *)
(* handler runs with the account and the signer of the moment of the       *)
(* click; loads of the list may overlap, and the last to end is shown.     *)
(***************************************************************************)
EXTENDS EmployerSession

CONSTANT Loads  \* calls of loadIssuedAttestations that may be in flight, numbered

ASSUME LoadAssumption == Loads \subseteq Nat \ {0}

VARIABLES
    registering,     \* handleRegisterEmployer
    revoking,        \* handleRevokeAttestation
    revokingId,      \* the attestation the dialogue is open for, or 0
    load,            \* slot -> a load of the list
    shownList,       \* the state variable attestations
    isLoading,       \* isLoadingAttestations, one flag for all loads
    listUnsure,      \* loads overlapped, or the last failed or was for another account
    registeredHere,  \* accounts this page has registered and reported so
    revokedHere      \* attestations this page has revoked and reported so

listVars == <<load, shownList, isLoading, listUnsure>>
dashboardVars == <<registering, revoking, revokingId, listVars,
                   registeredHere, revokedHere>>

NoLoad == [step |-> "idle", of |-> NoAccount, todo |-> {}, rows |-> {}]

Loading == {l \in Loads : load[l].step # "idle"}

DashboardInit ==
    /\ registering = NoWrite
    /\ revoking = NoWrite
    /\ revokingId = 0
    /\ load = [l \in Loads |-> NoLoad]
    /\ shownList = {}
    /\ isLoading = FALSE
    /\ listUnsure = FALSE
    /\ registeredHere = {}
    /\ revokedHere = {}

\* The three screens of the page.
RegistrationShown == isConnected /\ ~isRegisteredEmployer
DashboardShown == isConnected /\ isRegisteredEmployer

-----------------------------------------------------------------------------
(* loadIssuedAttestations: the ids, then every attestation in turn.         *)

StartLoad(l, of) ==
    /\ l \in FirstFree(Loads, Loading)
    /\ load' = [load EXCEPT ![l].step = "ids", ![l].of = of]
    /\ isLoading' = TRUE
    /\ listUnsure' = (Loading # {} \/ of # account')
    /\ UNCHANGED shownList

ReadIds(l) ==
    /\ load[l].step = "ids"
    /\ load' = [load EXCEPT ![l].step = "rows",
          ![l].todo = {a \in AttestationIds :
                          Exists(a) /\ attestations[a].employer = load[l].of}]
    /\ UNCHANGED <<shownList, isLoading, listUnsure>>

ReadRow(l) ==
    /\ load[l].step = "rows"
    /\ \E a \in load[l].todo :
          /\ \A b \in load[l].todo : a <= b
          /\ load' = [load EXCEPT ![l].todo = @ \ {a},
                ![l].rows = @ \cup {[id |-> a, status |-> attestations[a].status]}]
    /\ UNCHANGED <<shownList, isLoading, listUnsure>>

LoadDone(l) ==
    /\ load[l].step = "rows"
    /\ load[l].todo = {}
    /\ shownList' = load[l].rows
    /\ isLoading' = FALSE
    /\ load' = [load EXCEPT ![l] = NoLoad]
    /\ UNCHANGED listUnsure

\* The rows of the last successful load stay on the screen.
LoadFails(l) ==
    /\ load[l].step # "idle"
    /\ isLoading' = FALSE
    /\ listUnsure' = TRUE
    /\ load' = [load EXCEPT ![l] = NoLoad]
    /\ UNCHANGED shownList

\* The effect: it runs when the account or its registration has changed.
ListFollows ==
    IF /\ account' # NoAccount /\ isRegisteredEmployer'
       /\ <<account', isRegisteredEmployer'>> # <<account, isRegisteredEmployer>>
    THEN \E l \in Loads : StartLoad(l, account')
    ELSE UNCHANGED listVars

RefreshList ==
    /\ DashboardShown
    /\ ~isLoading
    /\ \E l \in Loads : StartLoad(l, account)
    /\ UNCHANGED <<registering, revoking, revokingId, registeredHere, revokedHere>>

-----------------------------------------------------------------------------
(* handleRegisterEmployer                                                   *)

SubmitRegistration(name) ==
    /\ RegistrationShown
    /\ signer # NoAccount
    /\ name # Empty
    /\ Free(registering)
    /\ registering' = Begun(Call("registerEmployer", name))
    /\ UNCHANGED <<revoking, revokingId, listVars, registeredHere, revokedHere>>

RegistrationSent ==
    /\ SendWrite(registering, Passes(registering.by, registering.call))
    /\ registering' = Waiting(registering)
    /\ UNCHANGED <<revoking, revokingId, listVars, registeredHere, revokedHere>>

\* Faulty variant: the profile is read before the receipt has come.
RegistrationMined_BeforeReceipt ==
    /\ registering.step = "mine"
    /\ \E r \in Refreshes : /\ StartRefresh(r, registering.of)
                            /\ registering' = Reloading(registering, r)
    /\ UNCHANGED <<revoking, revokingId, listVars, registeredHere, revokedHere>>

\* The profile is read again for the account of the click.
RegistrationMined ==
    /\ Mined(registering)
    /\ \E r \in Refreshes : /\ StartRefresh(r, registering.of)
                            /\ registering' = Reloading(registering, r)
    /\ UNCHANGED <<revoking, revokingId, listVars, registeredHere, revokedHere>>

RegistrationFails ==
    /\ WriteFails(registering)
    /\ registering' = NoWrite
    /\ UNCHANGED <<revoking, revokingId, listVars, registeredHere, revokedHere>>

\* A refresh goes on; the handler that awaits it ends with it.
RefreshStep(r) ==
    /\ RefreshAnswered(r) \/ RefreshFails(r)
    /\ ListFollows
    /\ IF /\ registering.step = "reload" /\ registering.reload = r
          /\ refresh'[r].step = "idle"
       THEN /\ registering' = NoWrite
            /\ registeredHere' = registeredHere \cup
                 (IF /\ sent[registering.tx].chain = RegistryChain
                     /\ registering.by = registering.of
                  THEN {registering.of} ELSE {})
       ELSE UNCHANGED <<registering, registeredHere>>
    /\ UNCHANGED <<revoking, revokingId, revokedHere>>

-----------------------------------------------------------------------------
(* handleRevokeAttestation, behind a dialogue.                              *)

OpenDialogue(row) ==
    /\ DashboardShown
    /\ ~isLoading
    /\ row.status # "REVOKED"
    /\ revokingId' = row.id
    /\ UNCHANGED <<registering, revoking, listVars, registeredHere, revokedHere>>

CloseDialogue ==
    /\ DashboardShown
    /\ revokingId # 0
    /\ revoking.step = "idle"
    /\ revokingId' = 0
    /\ UNCHANGED <<registering, revoking, listVars, registeredHere, revokedHere>>

ConfirmRevocation ==
    /\ DashboardShown
    /\ revokingId # 0
    /\ Free(revoking)
    /\ signer # NoAccount
    /\ revoking' = Begun(Call("revokeAttestation", revokingId))
    /\ UNCHANGED <<registering, revokingId, listVars, registeredHere, revokedHere>>

RevocationSent ==
    /\ SendWrite(revoking, Passes(revoking.by, revoking.call))
    /\ revoking' = Waiting(revoking)
    /\ UNCHANGED <<registering, revokingId, listVars, registeredHere, revokedHere>>

\* Faulty variant: the list is loaded before the receipt has come.
RevocationMined_BeforeReceipt ==
    /\ revoking.step = "mine"
    /\ revokingId' = 0
    /\ \E l \in Loads : /\ StartLoad(l, revoking.of)
                        /\ revoking' = Reloading(revoking, l)
    /\ UNCHANGED <<registering, registeredHere, revokedHere>>

\* The list is loaded again for the account of the click.
RevocationMined ==
    /\ Mined(revoking)
    /\ revokingId' = 0
    /\ \E l \in Loads : /\ StartLoad(l, revoking.of)
                        /\ revoking' = Reloading(revoking, l)
    /\ UNCHANGED <<registering, registeredHere, revokedHere>>

RevocationFails ==
    /\ WriteFails(revoking)
    /\ revoking' = NoWrite
    /\ UNCHANGED <<registering, revokingId, listVars, registeredHere, revokedHere>>

\* A load goes on; the handler that awaits it ends with it, failed or not.
LoadStep(l) ==
    /\ ReadIds(l) \/ ReadRow(l) \/ LoadDone(l) \/ LoadFails(l)
    /\ IF revoking.step = "reload" /\ revoking.reload = l /\ load'[l].step = "idle"
       THEN /\ revoking' = NoWrite
            /\ revokedHere' = revokedHere \cup
                 (IF sent[revoking.tx].chain = RegistryChain
                  THEN {revoking.call.arg} ELSE {})
       ELSE UNCHANGED <<revoking, revokedHere>>
    /\ UNCHANGED <<registering, revokingId, registeredHere>>

-----------------------------------------------------------------------------
\* What the user does on the page.
DashboardAct ==
    /\ \/ RefreshList \/ CloseDialogue \/ ConfirmRevocation
       \/ \E row \in shownList : OpenDialogue(row)
       \/ \E name \in EmployerNames : SubmitRegistration(name)
    /\ UNCHANGED <<sent, profileVars>>

\* What comes of it.
DashboardStep ==
    \/ (RegistrationSent \/ RevocationSent) /\ UNCHANGED profileVars
    \/ (RegistrationMined \/ \E r \in Refreshes : RefreshStep(r)) /\ UNCHANGED sent
    \/ /\ \/ RegistrationFails \/ RevocationMined \/ RevocationFails
          \/ \E l \in Loads : LoadStep(l)
       /\ UNCHANGED <<sent, profileVars>>

\* The page's effect, beside a step of the wallet or the session.
DashboardFollows ==
    /\ ListFollows
    /\ UNCHANGED <<registering, revoking, revokingId, registeredHere, revokedHere>>

-----------------------------------------------------------------------------
(* Properties.                                                              *)

\* The dashboard lists the attestations of the account it names and no others,
\* and an attestation this page has reported revoked is listed as revoked,
\* unless loads have overlapped since, or the last one failed or was for an
\* account no longer shown (the effect, the button and the handler start loads).
ListIsRight ==
    DashboardShown /\ Loading = {} /\ ~listUnsure =>
        /\ \A row \in shownList : attestations[row.id].employer = account
        /\ \A a \in revokedHere : attestations[a].employer = account =>
              [id |-> a, status |-> "REVOKED"] \in shownList

\* An account that this page has registered is shown the dashboard, unless
\* refreshes have overlapped since, or the last one failed or was for another.
RegistrationIsShown ==
    account \in registeredHere /\ Refreshing = {} /\ ~profileUnsure =>
        DashboardShown

=============================================================================
