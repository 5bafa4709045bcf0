------------------------- MODULE WalletSessionProofs -------------------------
(***************************************************************************)
(* Proofs about WalletSession, for any wallet, any networks, any number of *)
(* connection attempts and any number of changes.  One inductive           *)
(* invariant, SessionInv, carries the invariants and the refinement.       *)
(***************************************************************************)
EXTENDS WalletSession, TLAPS

\* The initial session satisfies the invariant.
LEMMA SessionInvInit == SessionInit => SessionInv
<1> SUFFICES ASSUME SessionInit PROVE SessionInv
  OBVIOUS
<1>1. ASSUME NEW f \in Flows
      PROVE  flow[f] \in Flow /\ flow[f].step \in {"idle", "accounts"}
  <2>1. flow[f] = [step |-> IF f = Restoring THEN "accounts" ELSE "idle",
                   account |-> NoAccount, chain |-> NoChain]
    BY DEF SessionInit
  <2> QED
    BY <2>1 DEF Flow
<1>2. flow \in [Flows -> Flow]
  BY <1>1 DEF SessionInit
<1>3. SessionTypeOK
  <2>1. /\ selected \in Accounts \cup {NoAccount} /\ network \in Chains
        /\ switches = 0 /\ account = NoAccount /\ chainId = NoChain
        /\ signer = NoAccount /\ isConnecting = FALSE /\ signerAsks = 0
    BY DEF SessionInit
  <2>2. isConnecting \in BOOLEAN
    BY <2>1
  <2>3. switches \in 0..MaxSwitches /\ signerAsks \in Nat
    BY <2>1, SessionAssumption
  <2> QED
    BY <1>2, <2>1, <2>2, <2>3 DEF SessionTypeOK
<1>4. FlowsHoldAccounts
  BY <1>1 DEF FlowsHoldAccounts
<1> QED
  BY <1>3, <1>4
     DEF SessionInit, SessionInv, SignerFollowsWallet, SpinnerEnds, LockedHasNoSigner

\* A connection attempt, from its first question to its end, keeps the invariant.
LEMMA FlowsKeepInv ==
  ASSUME SessionInv, NEW f \in Flows,
         Connect(f) \/ FlowAnswered(f) \/ FlowFails(f)
  PROVE  SessionInv'
<1> USE SessionAssumption
         DEF SessionInv, SessionTypeOK, Flow, Idle, SignerFollowsWallet,
             FlowsHoldAccounts, LockedHasNoSigner, walletVars, contextVars
<1>1. CASE Connect(f)
  <2>1. flow' \in [Flows -> Flow]
    BY <1>1 DEF Connect
  <2>2. flow'[f].step = "accounts" /\ f # Restoring
    BY <1>1 DEF Connect
  <2>3. SpinnerEnds'
    BY <2>2 DEF SpinnerEnds
  <2> QED
    BY <1>1, <2>1, <2>3 DEF Connect
<1>2. CASE ReceiveAccounts(f)
  <2>1. flow' \in [Flows -> Flow]
    BY <1>2 DEF ReceiveAccounts
  <2>2. \A g \in Flows : flow[g].step # "idle" => flow'[g].step # "idle"
    BY <1>2 DEF ReceiveAccounts
  <2>3. SpinnerEnds'
    BY <1>2, <2>2 DEF ReceiveAccounts, SpinnerEnds
  <2> QED
    BY <1>2, <2>1, <2>3 DEF ReceiveAccounts
<1>3. CASE ReceiveNetwork(f)
  <2>1. flow' \in [Flows -> Flow]
    BY <1>3 DEF ReceiveNetwork
  <2>2. \A g \in Flows : flow[g].step # "idle" => flow'[g].step # "idle"
    BY <1>3 DEF ReceiveNetwork
  <2>3. SpinnerEnds'
    BY <1>3, <2>2 DEF ReceiveNetwork, SpinnerEnds
  <2> QED
    BY <1>3, <2>1, <2>3 DEF ReceiveNetwork
<1>4. CASE ReceiveSigner(f)
  <2>1. flow' \in [Flows -> Flow]
    BY <1>4 DEF ReceiveSigner
  <2>2. \A g \in Flows \ {f} : flow'[g] = flow[g]
    BY <1>4 DEF ReceiveSigner
  <2>3. SpinnerEnds'
    BY <1>4, <2>2 DEF ReceiveSigner, SpinnerEnds
  <2> QED
    BY <1>4, <2>1, <2>3 DEF ReceiveSigner
<1>5. CASE FlowFails(f)
  <2>1. flow' \in [Flows -> Flow]
    BY <1>5 DEF FlowFails
  <2>2. \A g \in Flows \ {f} : flow'[g] = flow[g]
    BY <1>5 DEF FlowFails
  <2>3. SpinnerEnds'
    BY <1>5, <2>2 DEF FlowFails, SpinnerEnds
  <2> QED
    BY <1>5, <2>1, <2>3 DEF FlowFails
<1> QED
  BY <1>1, <1>2, <1>3, <1>4, <1>5 DEF FlowAnswered

\* The wallet's own changes, their handlers and the page's two buttons keep it.
LEMMA WalletKeepsInv ==
  ASSUME SessionInv,
         \/ \E a \in Accounts : Select(a)
         \/ \E c \in Chains : SwitchChain(c)
         \/ Lock \/ Disconnect \/ AnswerSigner \/ SwitchNetwork
  PROVE  SessionInv'
<1> USE SessionAssumption
         DEF SessionInv, SessionTypeOK, SignerFollowsWallet, SpinnerEnds,
             FlowsHoldAccounts, LockedHasNoSigner, walletVars, contextVars
<1>1. ASSUME NEW a \in Accounts, Select(a) PROVE SessionInv'
  BY <1>1 DEF Select
<1>2. ASSUME NEW c \in Chains, SwitchChain(c) PROVE SessionInv'
  BY <1>2 DEF SwitchChain
<1>3. CASE Lock
  BY <1>3 DEF Lock, Forgotten
<1>4. CASE Disconnect
  BY <1>4 DEF Disconnect, Forgotten
<1>5. CASE AnswerSigner
  BY <1>5 DEF AnswerSigner
<1>6. CASE SwitchNetwork
  BY <1>6 DEF SwitchNetwork
<1> QED
  BY <1>1, <1>2, <1>3, <1>4, <1>5, <1>6

\* SessionInv is inductive.
LEMMA SessionInvStep == SessionInv /\ [SessionNext]_sessionVars => SessionInv'
<1> SUFFICES ASSUME SessionInv, [SessionNext]_sessionVars PROVE SessionInv'
  OBVIOUS
<1>1. ASSUME NEW f \in Flows, Connect(f) \/ FlowAnswered(f) \/ FlowFails(f)
      PROVE  SessionInv'
  BY <1>1, FlowsKeepInv
<1>2. ASSUME \/ \E a \in Accounts : Select(a)
             \/ \E c \in Chains : SwitchChain(c)
             \/ Lock \/ Disconnect \/ AnswerSigner \/ SwitchNetwork
      PROVE  SessionInv'
  BY <1>2, WalletKeepsInv
<1>3. CASE UNCHANGED sessionVars
  BY <1>3 DEF sessionVars, walletVars, contextVars, SessionInv, SessionTypeOK,
              SignerFollowsWallet, SpinnerEnds, FlowsHoldAccounts, LockedHasNoSigner
<1> QED
  BY <1>1, <1>2, <1>3 DEF SessionNext

\* The invariant holds of every session.
THEOREM SessionInvariant == SessionSpec => []SessionInv
<1>1. SessionInit => SessionInv
  BY SessionInvInit
<1>2. SessionInv /\ [SessionNext]_sessionVars => SessionInv'
  BY SessionInvStep
<1> QED
  BY <1>1, <1>2, PTL DEF SessionSpec

\* Unless an answer is on its way, the page signs with the account the wallet has
\* selected: handleAccountsChanged and the connection flows, in any mixture.
THEOREM SignerIsSelected == SessionSpec => []SignerFollowsWallet
<1>1. SessionInv => SignerFollowsWallet
  BY DEF SessionInv
<1> QED
  BY <1>1, SessionInvariant, PTL

\* A locked wallet leaves the page no signer, whatever was asked before the lock:
\* only the lock's own handler and answers of an unlocked wallet set one.
THEOREM NoSignerWhileLocked == SessionSpec => []LockedHasNoSigner
<1>1. SessionInv => LockedHasNoSigner
  BY DEF SessionInv
<1> QED
  BY <1>1, SessionInvariant, PTL

\* The button in the bar is never left disabled (connect's finally block).
THEOREM SpinnerAlwaysEnds == SessionSpec => []SpinnerEnds
<1>1. SessionInv => SpinnerEnds
  BY DEF SessionInv
<1> QED
  BY <1>1, SessionInvariant, PTL

\* The account shown leaves the selected one only by the end of a connection flow
\* that was told another account before the switch.
THEOREM OnlyFlowsLeave == SessionSpec => OnlyFlowsFallBehind
<1> DEFINE Overwritten ==
      AccountFollows /\ ~AccountFollows' =>
          \E f \in Flows : /\ flow[f].step = "signer"
                           /\ flow[f].account \notin {NoAccount, selected}
                           /\ account' = flow[f].account
<1>1. SessionNext => Overwritten
  <2> SUFFICES ASSUME SessionNext, AccountFollows, ~AccountFollows'
               PROVE  Overwritten
    OBVIOUS
  <2>1. ASSUME NEW f \in Flows, ReceiveSigner(f) PROVE Overwritten
    BY <2>1 DEF ReceiveSigner, AccountFollows, walletVars
  <2>2. ASSUME NEW f \in Flows, \/ Connect(f) \/ ReceiveAccounts(f)
                                \/ ReceiveNetwork(f) \/ FlowFails(f)
        PROVE  FALSE
    BY <2>2 DEF Connect, ReceiveAccounts, ReceiveNetwork, FlowFails, AccountFollows,
                walletVars, contextVars
  <2>3. ASSUME NEW a \in Accounts, Select(a) PROVE FALSE
    BY <2>3 DEF Select, AccountFollows
  <2>4. ASSUME NEW c \in Chains, SwitchChain(c) PROVE FALSE
    BY <2>4 DEF SwitchChain, AccountFollows
  <2>5. ASSUME Lock \/ Disconnect \/ AnswerSigner \/ SwitchNetwork PROVE FALSE
    BY <2>5 DEF Lock, Disconnect, Forgotten, AnswerSigner, SwitchNetwork,
                AccountFollows, walletVars
  <2> QED
    BY <2>1, <2>2, <2>3, <2>4, <2>5 DEF SessionNext, FlowAnswered
<1>2. [SessionNext]_sessionVars => [Overwritten]_sessionVars
  BY <1>1
<1> QED
  BY <1>2, PTL DEF SessionSpec, OnlyFlowsFallBehind

\* Every step of the session is a step of PageSession, or one no page can see.
LEMMA SessionStepIsPageStep ==
  SessionInv /\ [SessionNext]_sessionVars => [Page!PageNext]_(Page!pageVars)
<1> SUFFICES ASSUME SessionInv, [SessionNext]_sessionVars
             PROVE  [Page!PageNext]_(Page!pageVars)
  OBVIOUS
<1> USE DEF Page!PageNext, Page!pageVars, walletVars, contextVars
<1>1. ASSUME NEW f \in Flows, ReceiveSigner(f) PROVE Page!PageNext
  <2>1. flow[f].account \in Accounts /\ selected \in Accounts
    BY <1>1 DEF ReceiveSigner, SessionInv, FlowsHoldAccounts, SessionTypeOK
  <2>2. Page!Show(flow[f].account)
    BY <1>1, <2>1 DEF ReceiveSigner, Page!Show
  <2> QED
    BY <2>1, <2>2
<1>2. ASSUME NEW f \in Flows, \/ Connect(f) \/ ReceiveAccounts(f)
                              \/ ReceiveNetwork(f) \/ FlowFails(f)
      PROVE  UNCHANGED Page!pageVars
  BY <1>2 DEF Connect, ReceiveAccounts, ReceiveNetwork, FlowFails
<1>3. ASSUME NEW a \in Accounts, Select(a) PROVE Page!PageNext
  BY <1>3 DEF Select, Page!Show
<1>4. ASSUME NEW c \in Chains, SwitchChain(c) PROVE Page!PageNext
  BY <1>4 DEF SwitchChain, Page!Move
<1>5. CASE Lock \/ Disconnect
  BY <1>5 DEF Lock, Disconnect, Forgotten, Page!Forget
<1>6. CASE AnswerSigner
  BY <1>6 DEF AnswerSigner, Page!Renew, SessionInv, SessionTypeOK
<1>7. CASE SwitchNetwork
  BY <1>7, SessionAssumption DEF SwitchNetwork, Page!Move
<1>8. CASE UNCHANGED sessionVars
  BY <1>8 DEF sessionVars
<1> QED
  BY <1>1, <1>2, <1>3, <1>4, <1>5, <1>6, <1>7, <1>8 DEF SessionNext, FlowAnswered

\* The session implements what the pages are modelled over.
THEOREM SessionImplementsPage == SessionSpec => ImplementsPage
<1>1. SessionInit => Page!PageInit
  BY DEF SessionInit, Page!PageInit
<1>2. SessionInv /\ [SessionNext]_sessionVars => [Page!PageNext]_(Page!pageVars)
  BY SessionStepIsPageStep
<1> QED
  BY <1>1, <1>2, SessionInvariant, PTL DEF SessionSpec, ImplementsPage, Page!PageSpec

=============================================================================
