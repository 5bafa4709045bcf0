---------------------------- MODULE WalletSession ----------------------------
(***************************************************************************)
(* The wallet session of the web page, src/frontend/src/context/           *)
(* Web3Context.tsx: which account the page shows, which signer and chain   *)
(* it uses, and how both follow the browser wallet (MetaMask).             *)
(*                                                                         *)
(* The wallet answers requests and sends events over one ordered channel,  *)
(* so the page learns of a change of the wallet before any answer given    *)
(* after it: a change and its handler are one step, and a request is       *)
(* answered with what the wallet says at the step that delivers it.        *)
(* The connection flows await three such answers, and the wallet may       *)
(* change between any two of them.  A wallet extension is installed.       *)
(***************************************************************************)
EXTENDS Naturals

CONSTANTS
    Accounts,       \* the accounts the user's wallet holds
    NoAccount,      \* JavaScript's null, or an empty list of accounts
    Chains,         \* the networks the wallet knows
    RegistryChain,  \* EXPECTED_CHAIN_ID
    NoChain,        \* chainId before any is known
    Flows,          \* attempts to connect that may be in flight
    Restoring,      \* the one the page itself starts when it loads
    MaxSwitches     \* bound on the user's changes of account and network

ASSUME SessionAssumption ==
    /\ NoAccount \notin Accounts
    /\ RegistryChain \in Chains
    /\ NoChain \notin Chains
    /\ Restoring \in Flows
    /\ MaxSwitches \in Nat

VARIABLES
    selected,     \* the wallet: the account it exposes to the page
    network,      \* the wallet: the chain it sends to
    switches,     \* how often the user has changed either
    account, chainId, signer, isConnecting,
    flow,         \* flow -> how far it is and what it has been told
    signerAsks    \* calls of getSigner() in handleAccountsChanged to be answered

walletVars == <<selected, network, switches>>
contextVars == <<account, chainId, signer, isConnecting>>
sessionVars == <<walletVars, contextVars, flow, signerAsks>>

isConnected == account # NoAccount

\* A chain nobody has reported counts as the right one.
isCorrectNetwork == chainId \in {NoChain, RegistryChain}

Idle == [step |-> "idle", account |-> NoAccount, chain |-> NoChain]

SessionInit ==
    /\ selected \in Accounts \cup {NoAccount}
    /\ network \in Chains
    /\ switches = 0
    /\ account = NoAccount
    /\ chainId = NoChain
    /\ signer = NoAccount
    /\ isConnecting = FALSE
    /\ flow = [f \in Flows |-> [step    |-> IF f = Restoring THEN "accounts" ELSE "idle",
                                account |-> NoAccount, chain |-> NoChain]]
    /\ signerAsks = 0

-----------------------------------------------------------------------------
(* Connecting: accounts, then the network, then the signer.                *)

\* Any of the pages' buttons; only the one in the bar waits for isConnecting.
Connect(f) ==
    /\ f # Restoring
    /\ flow[f].step = "idle"
    /\ ~isConnected
    /\ flow' = [flow EXCEPT ![f].step = "accounts"]
    /\ isConnecting' = TRUE
    /\ UNCHANGED <<walletVars, account, chainId, signer, signerAsks>>

ReceiveAccounts(f) ==
    /\ flow[f].step = "accounts"
    /\ selected # NoAccount
    /\ flow' = [flow EXCEPT ![f].step = "network", ![f].account = selected]
    /\ UNCHANGED <<walletVars, contextVars, signerAsks>>

ReceiveNetwork(f) ==
    /\ flow[f].step = "network"
    /\ flow' = [flow EXCEPT ![f].step = "signer", ![f].chain = network]
    /\ UNCHANGED <<walletVars, contextVars, signerAsks>>

\* Faulty variant: a signer is made for the account told first, the wallet is not
\* asked again.
ReceiveSigner_Told(f) ==
    /\ flow[f].step = "signer"
    /\ account' = flow[f].account
    /\ chainId' = flow[f].chain
    /\ signer' = flow[f].account
    /\ isConnecting' = (isConnecting /\ f = Restoring)
    /\ flow' = [flow EXCEPT ![f] = Idle]
    /\ UNCHANGED <<walletVars, signerAsks>>

\* The account and the chain are those of earlier answers, the signer is new.
ReceiveSigner(f) ==
    /\ flow[f].step = "signer"
    /\ selected # NoAccount
    /\ account' = flow[f].account
    /\ chainId' = flow[f].chain
    /\ signer' = selected
    /\ isConnecting' = (isConnecting /\ f = Restoring)
    /\ flow' = [flow EXCEPT ![f] = Idle]
    /\ UNCHANGED <<walletVars, signerAsks>>

\* Faulty variant: only a connection that succeeds ends the spinner.
FlowFails_KeepsSpinner(f) ==
    /\ flow[f].step # "idle"
    /\ flow' = [flow EXCEPT ![f] = Idle]
    /\ UNCHANGED <<walletVars, contextVars, signerAsks>>

\* The user declines, another prompt is open, the wallet is locked or has no
\* account for this page: the page's own attempt stays silent.
FlowFails(f) ==
    /\ flow[f].step # "idle"
    /\ isConnecting' = (isConnecting /\ f = Restoring)
    /\ flow' = [flow EXCEPT ![f] = Idle]
    /\ UNCHANGED <<walletVars, account, chainId, signer, signerAsks>>

\* Faulty variant: the signer outlives the account.
Forgotten_KeepsSigner ==
    /\ account' = NoAccount
    /\ chainId' = NoChain
    /\ UNCHANGED <<signer, isConnecting>>

\* What disconnect() assigns.
Forgotten ==
    /\ account' = NoAccount
    /\ chainId' = NoChain
    /\ signer' = NoAccount
    /\ UNCHANGED isConnecting

Disconnect ==
    /\ isConnected
    /\ Forgotten
    /\ UNCHANGED <<walletVars, flow, signerAsks>>

-----------------------------------------------------------------------------
(* The wallet's own changes, and the handlers of their events.             *)

\* handleAccountsChanged with an empty list.
Lock ==
    /\ switches < MaxSwitches
    /\ selected # NoAccount
    /\ selected' = NoAccount
    /\ switches' = switches + 1
    /\ Forgotten
    /\ UNCHANGED <<network, flow, signerAsks>>

\* Faulty variant: the signer of the earlier account is kept.
Select_KeepsSigner(a) ==
    /\ switches < MaxSwitches
    /\ a # selected
    /\ selected' = a
    /\ switches' = switches + 1
    /\ account' = a
    /\ UNCHANGED <<network, chainId, signer, isConnecting, flow,
                   signerAsks>>

\* Faulty variant: only the signer is renewed.
Select_KeepsAccount(a) ==
    /\ switches < MaxSwitches
    /\ a # selected
    /\ selected' = a
    /\ switches' = switches + 1
    /\ signerAsks' = signerAsks + 1
    /\ UNCHANGED <<network, contextVars, flow>>

\* handleAccountsChanged: the account at once, the signer when it is answered.
Select(a) ==
    /\ switches < MaxSwitches
    /\ a # selected
    /\ selected' = a
    /\ switches' = switches + 1
    /\ account' = a
    /\ signerAsks' = signerAsks + 1
    /\ UNCHANGED <<network, chainId, signer, isConnecting, flow>>

\* getSigner().then(setSigner); a locked wallet has no signer to give.
AnswerSigner ==
    /\ signerAsks > 0
    /\ signerAsks' = signerAsks - 1
    /\ signer' = IF selected = NoAccount THEN signer ELSE selected
    /\ UNCHANGED <<walletVars, account, chainId, isConnecting, flow>>

\* handleChainChanged
SwitchChain(c) ==
    /\ switches < MaxSwitches
    /\ c # network
    /\ network' = c
    /\ switches' = switches + 1
    /\ chainId' = c
    /\ UNCHANGED <<selected, account, signer, isConnecting, flow,
                   signerAsks>>

\* switchNetwork(): unless it declines, the wallet, adding the chain if it must,
\* moves to it and reports so.
SwitchNetwork ==
    /\ isConnected
    /\ ~isCorrectNetwork
    /\ network' = RegistryChain
    /\ chainId' = RegistryChain
    /\ UNCHANGED <<selected, switches, account, signer, isConnecting, flow,
                   signerAsks>>

FlowAnswered(f) == ReceiveAccounts(f) \/ ReceiveNetwork(f) \/ ReceiveSigner(f)

SessionNext ==
    \/ \E f \in Flows : Connect(f) \/ FlowAnswered(f) \/ FlowFails(f)
    \/ \E a \in Accounts : Select(a)
    \/ \E c \in Chains : SwitchChain(c)
    \/ Lock \/ Disconnect \/ AnswerSigner \/ SwitchNetwork

SessionSpec == SessionInit /\ [][SessionNext]_sessionVars

\* The browser delivers what the wallet has answered.
FairSessionSpec == SessionSpec /\ WF_sessionVars(AnswerSigner)

-----------------------------------------------------------------------------
(* Properties.                                                              *)

Flow == [step: {"idle", "accounts", "network", "signer"},
         account: Accounts \cup {NoAccount}, chain: Chains \cup {NoChain}]

\* Every variable holds a value of its type.
SessionTypeOK ==
    /\ selected \in Accounts \cup {NoAccount}
    /\ network \in Chains
    /\ switches \in 0..MaxSwitches
    /\ account \in Accounts \cup {NoAccount}
    /\ chainId \in Chains \cup {NoChain}
    /\ signer \in Accounts \cup {NoAccount}
    /\ isConnecting \in BOOLEAN
    /\ flow \in [Flows -> Flow]
    /\ signerAsks \in Nat

\* Unless an answer is still on its way, whatever the page signs is signed by
\* the account the wallet has selected, through any mixture of switches, locks,
\* disconnections and connection flows (the two writers of signer, in
\* handleAccountsChanged and at the end of a flow).
SignerFollowsWallet ==
    signerAsks = 0 => signer \in {NoAccount, selected}

\* While the wallet is locked the page holds no signer, although flows told an
\* account before the lock, and getSigner() calls of earlier switches, are still
\* to be answered (the end of connect, handleAccountsChanged, disconnect).
LockedHasNoSigner == selected = NoAccount => signer = NoAccount

AccountFollows == account \in {NoAccount, selected}

\* The account shown leaves the one the wallet has selected only when a flow
\* that was told another account ends after the switch, and so overwrites what
\* handleAccountsChanged has set (connect and the auto-connect effect).
OnlyFlowsFallBehind ==
    [][AccountFollows /\ ~AccountFollows' =>
          \E f \in Flows : /\ flow[f].step = "signer"
                           /\ flow[f].account \notin {NoAccount, selected}
                           /\ account' = flow[f].account]_sessionVars

\* The bar's button is disabled only while an attempt of the user's is under
\* way, however many attempts and the page's own one end in whatever order.
SpinnerEnds ==
    isConnecting => \E f \in Flows \ {Restoring} : flow[f].step # "idle"

\* A page that shows an account gets a signer, that of the selected account, or
\* stops showing it.
SignerCatchesUp == isConnected ~> (~isConnected \/ signer = selected)

-----------------------------------------------------------------------------
(* The session implements PageSession, which the pages are modelled over.   *)

Page == INSTANCE PageSession

\* Whatever the wallet, the flows and the two event handlers do, a page sees one
\* of PageSession's steps: no account without a choice of the user's, and the
\* account never taken away without the signer.
ImplementsPage == Page!PageSpec

-----------------------------------------------------------------------------
(* What the proofs need beside the above.                                   *)

\* A flow past its first answer has been told an account of the wallet.
FlowsHoldAccounts ==
    \A f \in Flows : flow[f].step \in {"network", "signer"} => flow[f].account \in Accounts

\* The inductive invariant.
SessionInv ==
    /\ SessionTypeOK
    /\ SignerFollowsWallet
    /\ SpinnerEnds
    /\ FlowsHoldAccounts
    /\ LockedHasNoSigner

=============================================================================
