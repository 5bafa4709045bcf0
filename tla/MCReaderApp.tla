----------------------------- MODULE MCReaderApp -----------------------------
\* Two accounts in one wallet, employees and verifiers of two credentials with a
\* document, some of which are issued only while the page is open.
EXTENDS ReaderApp, TLC

CONSTANTS ann, bob, d1, d2

MCHashOf == [c \in Credentials |-> "hash"]

\* The accounts are alike, and so are the credentials.
MCSymmetry == Permutations({ann, bob}) \cup Permutations({d1, d2})

\* With the page of requests open, each account has a credential when it loads; the
\* loads that page shares with the dashboard meet other registries there.
MCReaderInit ==
    /\ ReaderInit
    /\ page = "/employee/requests" => {owner[c] : c \in Credentials} = Accounts

MCReaderSpec == MCReaderInit /\ [][ReaderNext]_readerVars

=============================================================================
