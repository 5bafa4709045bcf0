--------------------------- MODULE EmployerSession ---------------------------
(***************************************************************************)
(* The employer's side of the page's context (Web3Context.tsx): whether    *)
(* the account shown is a registered employer and under which profile, as  *)
(* read from the registry whenever the account changes.  The chain is      *)
(* EmploymentRegistry; the page's transactions are executed on it.         *)
(***************************************************************************)
EXTENDS WalletTransactions, RegistryHistory

CONSTANT Refreshes  \* calls of refreshEmployerStatus that may be in flight, numbered

ASSUME AccountAssumption == Accounts \subseteq Wallets

ASSUME RefreshAssumption == Refreshes \subseteq Nat \ {0}

VARIABLES
    isRegisteredEmployer,
    employerProfile,  \* the account whose profile is held, or NoAccount
    refresh,          \* slot -> whose status is being read, and the answer
    profileUnsure     \* refreshes overlapped, or the last failed or was for another account

profileVars == <<isRegisteredEmployer, employerProfile, refresh, profileUnsure>>

NoRefresh == [step |-> "idle", of |-> NoAccount, answer |-> FALSE]

Refreshing == {r \in Refreshes : refresh[r].step # "idle"}

ProfileInit ==
    /\ isRegisteredEmployer = FALSE
    /\ employerProfile = NoAccount
    /\ refresh = [r \in Refreshes |-> NoRefresh]
    /\ profileUnsure = FALSE

-----------------------------------------------------------------------------
(* refreshEmployerStatus: two reads of the registry, each answered after    *)
(* a while, and no look at the account when an answer is stored.           *)

StartRefresh(r, of) ==
    /\ r \in FirstFree(Refreshes, Refreshing)
    /\ refresh' = [refresh EXCEPT ![r].step = "asked", ![r].of = of]
    /\ profileUnsure' = (Refreshing # {} \/ of # account')
    /\ UNCHANGED <<isRegisteredEmployer, employerProfile>>

\* The node computes the answer; it reaches the page later.
ReadRegistered(r) ==
    /\ refresh[r].step = "asked"
    /\ refresh' = [refresh EXCEPT ![r].step = "told",
                                  ![r].answer = isEmployerRegistered(refresh[r].of)]
    /\ UNCHANGED <<isRegisteredEmployer, employerProfile, profileUnsure>>

\* Faulty variant: an account that is not registered keeps the profile shown.
ReceiveRegistered_KeepsProfile(r) ==
    /\ refresh[r].step = "told"
    /\ isRegisteredEmployer' = refresh[r].answer
    /\ refresh' = [refresh EXCEPT ![r] = IF refresh[r].answer
                                        THEN [@ EXCEPT !.step = "profile"] ELSE NoRefresh]
    /\ UNCHANGED <<employerProfile, profileUnsure>>

ReceiveRegistered(r) ==
    /\ refresh[r].step = "told"
    /\ isRegisteredEmployer' = refresh[r].answer
    /\ IF refresh[r].answer
       THEN /\ refresh' = [refresh EXCEPT ![r].step = "profile"]
            /\ UNCHANGED employerProfile
       ELSE /\ refresh' = [refresh EXCEPT ![r] = NoRefresh]
            /\ employerProfile' = NoAccount
    /\ UNCHANGED profileUnsure

\* A registered employer's profile never changes.
ReceiveProfile(r) ==
    /\ refresh[r].step = "profile"
    /\ employerProfile' = refresh[r].of
    /\ refresh' = [refresh EXCEPT ![r] = NoRefresh]
    /\ UNCHANGED <<isRegisteredEmployer, profileUnsure>>

\* A read fails: the catch block takes the account for unregistered.
RefreshFails(r) ==
    /\ refresh[r].step # "idle"
    /\ isRegisteredEmployer' = FALSE
    /\ employerProfile' = NoAccount
    /\ refresh' = [refresh EXCEPT ![r] = NoRefresh]
    /\ profileUnsure' = TRUE

RefreshAnswered(r) ==
    ReadRegistered(r) \/ ReceiveRegistered(r) \/ ReceiveProfile(r)

-----------------------------------------------------------------------------
(* The session, with the effect that refreshes the profile.                *)

\* disconnect() forgets the profile as well.
ProfileForgotten ==
    /\ isRegisteredEmployer' = FALSE
    /\ employerProfile' = NoAccount
    /\ UNCHANGED <<refresh, profileUnsure>>

\* The effect on refreshEmployerStatus, which is a new function for each account.
ProfileFollows ==
    IF account' = account THEN UNCHANGED profileVars
    ELSE \E r \in Refreshes : StartRefresh(r, account')

SessionStep ==
    \/ Forget /\ ProfileForgotten
    \/ \E a \in Accounts : Show(a) /\ ProfileFollows
    \/ /\ (\E a \in Accounts : Renew(a)) \/ (\E c \in Chains : Move(c))
       /\ UNCHANGED profileVars

-----------------------------------------------------------------------------
(* The page's transactions on the registry.                                 *)

\* The call would not revert.
Passes(from, call) ==
    CASE call.name = "registerEmployer" -> ~isEmployerRegistered(from)
      [] call.name = "createAttestation" ->
            isEmployerRegistered(from) /\ ValidSubmission(call.arg)
      [] call.name = "revokeAttestation" -> CanRevoke(from, call.arg)

Execute(from, call) ==
    \/ /\ call.name = "registerEmployer"
       /\ registerEmployer(from, call.arg)
    \/ /\ call.name = "createAttestation"
       /\ createAttestation(from, call.arg)
    \/ /\ call.name = "revokeAttestation"
       /\ revokeAttestation(from, call.arg)

\* The receipt of createAttestation carries the new id in its event.
Mine(t) ==
    \/ /\ PendingOn(t, TRUE)
       /\ Execute(sent[t].from, sent[t].call)
       /\ Settled(t, "mined", event'.attestationId)
    \/ /\ PendingOn(t, TRUE)
       /\ ~Passes(sent[t].from, sent[t].call)
       /\ Settled(t, "reverted", 0)
       /\ UNCHANGED registryVars
    \/ /\ PendingOn(t, FALSE)
       /\ Settled(t, "mined", 0)
       /\ UNCHANGED registryVars

-----------------------------------------------------------------------------
(* Properties.                                                              *)

\* Once every read is answered, and unless reads overlapped, failed or were begun
\* for an account no longer shown, the page takes a connected account for a
\* registered employer only if it is one, and shows that account's own profile.
ProfileIsRight ==
    Refreshing = {} /\ ~profileUnsure /\ isConnected =>
        /\ employerProfile \in {NoAccount, account}
        /\ isRegisteredEmployer <=> employerProfile = account
        /\ isRegisteredEmployer => isEmployerRegistered(account)

-----------------------------------------------------------------------------
(* What the repository's text says and the code does not do.               *)

\* "Sync employer profile whenever account changes": with no read in flight the
\* profile held is that of the account shown.
ProfileIsSynced ==
    Refreshing = {} /\ isConnected => employerProfile \in {NoAccount, account}

=============================================================================
