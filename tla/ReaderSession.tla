---------------------------- MODULE ReaderSession ----------------------------
(***************************************************************************)
(* What the pages of the employee and of the verifier share: the wallet    *)
(* session, and a registry in which others act as well.  These pages see   *)
(* only owners, withdrawals, asks and grants, so the registry is           *)
(* AccessConsent, which EmploymentRegistry implements.  Some credentials   *)
(* have been issued when a page loads; employers issue the others while    *)
(* it is open.                                                             *)
(***************************************************************************)
EXTENDS WalletTransactions, AccessConsent

ASSUME ReaderAssumption ==
    /\ Accounts \subseteq Wallets
    /\ NoCredential \notin Credentials
    /\ Nobody \notin Wallets

\* Some of the credentials have been issued, and some requests for these made.
IssuedInit ==
    /\ owner \in [Credentials -> Wallets \cup {Nobody}]
    /\ withdrawn = {}
    /\ granted = [c \in Credentials |-> {}]
    /\ \E n \in Asks \cup {0} :
          ask \in {asks \in [Asks -> {NoAsk} \cup
                       [credential: Credentials, verifier: Accounts, state: {"open"}]] :
                \A k \in Asks :
                   IF k > n THEN asks[k] = NoAsk
                   ELSE /\ asks[k] # NoAsk
                        /\ owner[asks[k].credential] \notin {Nobody, asks[k].verifier}}

\* Requests are numbered as they are made.
NextAsk(k) ==
    /\ ask[k].state = "unused"
    /\ \A j \in Asks : ask[j].state = "unused" => k <= j

\* The call would not revert.
Passes(from, call) ==
    IF call.name = "requestDocumentAccess"
    THEN /\ owner[call.arg] \notin {Nobody, from}
         /\ call.arg \notin withdrawn
         /\ \E k \in Asks : NextAsk(k)
    ELSE /\ ask[call.arg].state = "open"
         /\ owner[ask[call.arg].credential] = from

Execute(from, call) ==
    \/ /\ call.name = "requestDocumentAccess"
       /\ \E k \in Asks : NextAsk(k) /\ Open(k, call.arg, from)
    \/ /\ call.name \in {"approveDocumentAccess", "rejectDocumentAccess"}
       /\ owner[ask[call.arg].credential] = from
       /\ Answer(call.arg, call.name = "approveDocumentAccess")

Mine(t) ==
    \/ /\ PendingOn(t, TRUE)
       /\ Execute(sent[t].from, sent[t].call)
       /\ Settled(t, "mined", 0)
    \/ /\ PendingOn(t, TRUE)
       /\ ~Passes(sent[t].from, sent[t].call)
       /\ Settled(t, "reverted", 0)
       /\ UNCHANGED consentVars
    \/ /\ PendingOn(t, FALSE)
       /\ Settled(t, "mined", 0)
       /\ UNCHANGED consentVars

\* What others do meanwhile: employers issue and withdraw, verifiers ask, the
\* employee answers.
Elsewhere ==
    \/ \E c \in Credentials, employee \in Wallets : Issue(c, employee)
    \/ \E c \in Credentials : Withdraw(c)
    \/ \E k \in Asks, c \in Credentials, v \in Wallets :
          NextAsk(k) /\ Open(k, c, v)
    \/ \E k \in Asks, verdict \in BOOLEAN : Answer(k, verdict)

=============================================================================
