----------------------------- MODULE PageSession -----------------------------
(***************************************************************************)
(* What a page may rely on of its wallet session (useWeb3()): the account  *)
(* it shows, the signer it writes with and the network the wallet sends    *)
(* to.  Each changes at any moment between two steps of a page's handler,  *)
(* and the account without the signer; only forgetting takes both at once. *)
(* WalletSession implements this module; the pages are modelled over it.   *)
(***************************************************************************)
EXTENDS Naturals

CONSTANTS
    Accounts,       \* the accounts the user's wallet holds
    NoAccount,      \* JavaScript's null
    Chains,         \* the networks the wallet knows
    RegistryChain   \* EXPECTED_CHAIN_ID

ASSUME PageAssumption == NoAccount \notin Accounts /\ RegistryChain \in Chains

VARIABLES account, signer, network

pageVars == <<account, signer, network>>

isConnected == account # NoAccount

PageInit ==
    /\ account = NoAccount
    /\ signer = NoAccount
    /\ network \in Chains

\* A connection is made, or the user selects an account: its signer may follow.
Show(a) ==
    /\ account' = a
    /\ signer' \in Accounts \cup {signer}
    /\ UNCHANGED network

\* A signer arrives, for whatever account the wallet has selected by then.
Renew(s) ==
    /\ signer' = s
    /\ UNCHANGED <<account, network>>

\* The page disconnects, or the wallet is locked.
Forget ==
    /\ account' = NoAccount
    /\ signer' = NoAccount
    /\ UNCHANGED network

Move(c) ==
    /\ network' = c
    /\ UNCHANGED <<account, signer>>

PageNext ==
    \/ \E a \in Accounts : Show(a) \/ Renew(a)
    \/ Forget
    \/ \E c \in Chains : Move(c)

PageSpec == PageInit /\ [][PageNext]_pageVars

=============================================================================
