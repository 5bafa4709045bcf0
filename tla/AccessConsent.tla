---------------------------- MODULE AccessConsent ----------------------------
(***************************************************************************)
(* What the registry promises about consent, without hashes, indexes,      *)
(* counters, events or time.  A credential belongs to an employee and can  *)
(* be withdrawn by its issuer.  A verifier gets access to a credential's   *)
(* document only by opening an ask of their own that the employee then     *)
(* answers; every ask is answered at most once, and the last answer given  *)
(* to a verifier is the one that counts.                                   *)
(***************************************************************************)
\* Nobody stands for the absence of a wallet and is not one of them.
CONSTANTS Wallets, Nobody, Credentials, NoCredential, Asks

VARIABLES
    owner,      \* credential -> the employee it is about, or Nobody
    withdrawn,  \* the credentials their issuer has withdrawn
    ask,        \* ask -> who asks for which credential, and how far it is
    granted     \* credential -> the verifiers the employee lets read

consentVars == <<owner, withdrawn, ask, granted>>

NoAsk == [credential |-> NoCredential, verifier |-> Nobody, state |-> "unused"]

MayRead(c, v) == c \notin withdrawn /\ v \in granted[c]

Init ==
    /\ owner = [c \in Credentials |-> Nobody]
    /\ withdrawn = {}
    /\ ask = [k \in Asks |-> NoAsk]
    /\ granted = [c \in Credentials |-> {}]

Issue(c, employee) ==
    /\ owner[c] = Nobody
    /\ owner' = [owner EXCEPT ![c] = employee]
    /\ UNCHANGED <<withdrawn, ask, granted>>

Withdraw(c) ==
    /\ owner[c] # Nobody
    /\ c \notin withdrawn
    /\ withdrawn' = withdrawn \cup {c}
    /\ UNCHANGED <<owner, ask, granted>>

Open(k, c, v) ==
    /\ ask[k].state = "unused"
    /\ owner[c] \notin {Nobody, v}
    /\ c \notin withdrawn
    /\ ask' = [ask EXCEPT ![k] =
                  [credential |-> c, verifier |-> v, state |-> "open"]]
    /\ UNCHANGED <<owner, withdrawn, granted>>

\* The employee answers an open ask; verdict says whether the verifier may read.
Answer(k, verdict) ==
    /\ ask[k].state = "open"
    /\ ask' = [ask EXCEPT ![k].state = "closed"]
    /\ granted' = [granted EXCEPT ![ask[k].credential] =
                      IF verdict THEN @ \cup {ask[k].verifier}
                                 ELSE @ \ {ask[k].verifier}]
    /\ UNCHANGED <<owner, withdrawn>>

Next ==
    \/ \E c \in Credentials, employee \in Wallets : Issue(c, employee)
    \/ \E c \in Credentials : Withdraw(c)
    \/ \E k \in Asks, c \in Credentials, v \in Wallets : Open(k, c, v)
    \/ \E k \in Asks, verdict \in BOOLEAN : Answer(k, verdict)

Spec == Init /\ [][Next]_consentVars

=============================================================================
