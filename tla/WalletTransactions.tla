-------------------------- MODULE WalletTransactions --------------------------
(***************************************************************************)
(* How a page writes to a chain: `const tx = await contract.f(...)`, then  *)
(* `await tx.wait()`.  ethers first asks the node whether the call would   *)
(* succeed, the user confirms it in the wallet, the wallet sends it to the *)
(* network it is on, and the page waits for the receipt.  The transaction  *)
(* is out of the page's hands once it is sent: the wait may fail while it  *)
(* is still to be mined.                                                   *)
(*                                                                         *)
(* ethers, the wallet and the node are not part of the repository: this    *)
(* module models them as the pages use them.                               *)
(***************************************************************************)
EXTENDS PageSession, Sequences

CONSTANT MaxSends  \* bound on the transactions sent by the page

VARIABLE sent      \* the transactions sent, in the order they were sent

Call(name, arg) == [name |-> name, arg |-> arg]

\* The progress of one handler that writes, with what its closure holds: the
\* signer of the contract object and the account.  After the receipt a handler
\* may read the chain again: `reload` is the read it then awaits.
NoWrite == [step |-> "idle", by |-> NoAccount, of |-> NoAccount,
            call |-> Call("none", 0), tx |-> 0, reload |-> 0]

\* The handler is not running, and the bound leaves it a transaction to send.
Free(w) == w.step = "idle" /\ Len(sent) < MaxSends

\* The slot a new read takes, of those that are not in use.
FirstFree(slots, inUse) ==
    {l \in slots \ inUse : \A k \in slots \ inUse : l <= k}

\* The handler calls the contract object the page has, if there is one.
Begun(call) == [NoWrite EXCEPT !.step = "sign", !.by = signer, !.of = account,
                               !.call = call]

\* Confirmed by the user: on the registry's chain the call passed the estimate;
\* any other chain has no code at the address and lets every call pass.
SendWrite(w, passes) ==
    /\ w.step = "sign"
    /\ Len(sent) < MaxSends
    /\ network = RegistryChain => passes
    /\ sent' = Append(sent, [from |-> w.by, call |-> w.call, chain |-> network,
                             status |-> "pending", result |-> 0])

Waiting(w) == [w EXCEPT !.step = "mine", !.tx = Len(sent) + 1]

Reloading(w, slot) == [w EXCEPT !.step = "reload", !.reload = slot]

Mined(w) == w.step = "mine" /\ sent[w.tx].status = "mined"

\* Declined or turned down by the estimate, reverted, or the wait is cut short
\* by an error of the node or a change of network.
WriteFails(w) ==
    \/ w.step = "sign"
    \/ w.step = "mine" /\ sent[w.tx].status # "mined"

PendingOn(t, here) ==
    /\ sent[t].status = "pending"
    /\ (sent[t].chain = RegistryChain) = here

Settled(t, status, result) ==
    sent' = [sent EXCEPT ![t].status = status, ![t].result = result]

=============================================================================
