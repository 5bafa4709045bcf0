--------------------------- MODULE MCWalletSession ---------------------------
\* Two accounts, two networks, and three attempts to connect, one of
\* them the page's own.
EXTENDS WalletSession

=============================================================================
