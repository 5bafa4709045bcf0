---------------------------- MODULE EmployeeLoads ----------------------------
(***************************************************************************)
(* What the two pages of the employee read of the registry: loadEmployee-  *)
(* Data of EmployeeDashboard.tsx and loadAccessRequests of                 *)
(* AccessRequests.tsx make the same reads in the same order, one awaited   *)
(* call after another, and keep of them what their page shows.  Loads may  *)
(* overlap, and the last to end is shown.                                  *)
(***************************************************************************)
EXTENDS ReaderSession

CONSTANT Loads  \* loads that may be in flight, numbered

ASSUME LoadAssumption == Loads \subseteq Nat \ {0}

VARIABLES
    load,          \* slot -> a load
    listing,       \* what the last load to end has shown
    isLoading,     \* one flag for all loads
    listingUnsure  \* loads overlapped, or the last failed or was for another account

loadVars == <<load, listing, isLoading, listingUnsure>>

\* `open` is what was open when the load began, which no code remembers.
NoListing == [credentials |-> {}, rows |-> {}, open |-> {}]

NoLoad == [step |-> "idle", of |-> NoAccount, todo |-> {}, asks |-> {},
           found |-> NoListing]

Loading == {l \in Loads : load[l].step # "idle"}

LoadsInit ==
    /\ load = [l \in Loads |-> NoLoad]
    /\ listing = NoListing
    /\ isLoading = FALSE
    /\ listingUnsure = FALSE

IsOpen(k) == ask[k].state = "open"

StartLoad(l, of) ==
    /\ l \in FirstFree(Loads, Loading)
    /\ load' = [load EXCEPT ![l].step = "ids", ![l].of = of,
                            ![l].found.open = {k \in Asks : IsOpen(k)}]
    /\ isLoading' = TRUE
    /\ listingUnsure' = (Loading # {} \/ of # account')
    /\ UNCHANGED listing

ReadIds(l) ==
    /\ load[l].step = "ids"
    /\ load' = [load EXCEPT ![l].step = "rows",
                   ![l].todo = {c \in Credentials : owner[c] = load[l].of}]
    /\ UNCHANGED <<listing, isLoading, listingUnsure>>

\* The record of the next credential, then the list of its requests.
ReadCredential(l) ==
    /\ load[l].step = "rows"
    /\ load[l].asks = {}
    /\ \E c \in load[l].todo :
          load' = [load EXCEPT
             ![l].todo = @ \ {c},
             ![l].asks = {k \in Asks : ask[k].credential = c},
             ![l].found.credentials = @ \cup {[id |-> c, withdrawn |-> c \in withdrawn]}]
    /\ UNCHANGED <<listing, isLoading, listingUnsure>>

\* One request after another.
ReadAsk(l) ==
    /\ load[l].step = "rows"
    /\ \E k \in load[l].asks :
          /\ \A j \in load[l].asks : k <= j
          /\ load' = [load EXCEPT ![l].asks = @ \ {k},
                ![l].found.rows = @ \cup
                   {[id |-> k, credential |-> ask[k].credential, open |-> IsOpen(k)]}]
    /\ UNCHANGED <<listing, isLoading, listingUnsure>>

LoadDone(l) ==
    /\ load[l].step = "rows"
    /\ load[l].todo = {} /\ load[l].asks = {}
    /\ listing' = load[l].found
    /\ isLoading' = FALSE
    /\ load' = [load EXCEPT ![l] = NoLoad]
    /\ UNCHANGED listingUnsure

\* What the last successful load has shown stays on the screen.
LoadFails(l) ==
    /\ load[l].step # "idle"
    /\ isLoading' = FALSE
    /\ listingUnsure' = TRUE
    /\ load' = [load EXCEPT ![l] = NoLoad]
    /\ UNCHANGED listing

LoadGoesOn(l) ==
    ReadIds(l) \/ ReadCredential(l) \/ ReadAsk(l) \/ LoadDone(l) \/ LoadFails(l)

\* Faulty variant: the page does not load again for another account.
ListingFollows_Once ==
    IF account' # NoAccount /\ account = NoAccount
    THEN \E l \in Loads : StartLoad(l, account')
    ELSE UNCHANGED loadVars

\* The effect: it runs when a page opens and when the account has changed.
ListingFollows ==
    IF account' \notin {account, NoAccount}
    THEN \E l \in Loads : StartLoad(l, account')
    ELSE UNCHANGED loadVars

\* The refresh button.
Reload ==
    /\ isConnected
    /\ ~isLoading
    /\ \E l \in Loads : StartLoad(l, account)

\* The requests the one page counts and the other offers to answer.
pendingRequests == {row \in listing.rows : row.open}

-----------------------------------------------------------------------------
(* Properties.                                                              *)

ListingSettled == isConnected /\ Loading = {} /\ ~listingUnsure

\* The page shows the account's own credentials and the requests about them, and
\* misses none that has been waiting since before the load, although it is read
\* in many steps while verifiers ask and employees answer: unless loads have
\* overlapped, or the last one failed or was for an account no longer shown.
ListingIsRight ==
    ListingSettled =>
        /\ \A row \in listing.credentials :
              owner[row.id] = account /\ (row.withdrawn => row.id \in withdrawn)
        /\ \A row \in listing.rows : owner[row.credential] = account
        /\ \A k \in listing.open : IsOpen(k) /\ owner[ask[k].credential] = account =>
              [id |-> k, credential |-> ask[k].credential, open |-> TRUE] \in listing.rows

=============================================================================
