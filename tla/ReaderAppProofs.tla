---------------------------- MODULE ReaderAppProofs ----------------------------
(***************************************************************************)
(* Theorems about ReaderApp: what the pages of the verifier and of the     *)
(* employee show, whatever the wallet, the user, the registry and other    *)
(* handlers do between two steps of a handler.                             *)
(***************************************************************************)
EXTENDS ReaderApp, SequenceTheorems, TLAPS

-----------------------------------------------------------------------------
(* The world around the page.                                               *)

Who == Accounts \cup {NoAccount}
MaybeCredential == Credentials \cup {NoCredential}

AskType == [credential: MaybeCredential, verifier: Who \cup Wallets \cup {Nobody},
            state: {"unused", "open", "closed"}]

Answers == {"approveDocumentAccess", "rejectDocumentAccess"}

CallType == [name: {"requestDocumentAccess"}, arg: Credentials]
            \cup [name: Answers, arg: Asks]

SentType == [from: Who, call: CallType, chain: Chains,
             status: {"pending", "mined", "reverted"}, result: {0}]

\* Transaction t has answered an ask of the registry.
HasAnswered(t) ==
    /\ sent[t].chain = RegistryChain /\ sent[t].status = "mined"
    /\ sent[t].call.name \in Answers

\* An ask is about a credential that has been issued.
AskSound(k) ==
    IF ask[k].state = "unused" THEN ask[k].credential = NoCredential
    ELSE ask[k].credential \in Credentials /\ owner[ask[k].credential] # Nobody

\* An ask that was answered is closed, and by one transaction of the page.
WorldInv ==
    /\ page \in Pages
    /\ account \in Who /\ signer \in Who /\ network \in Chains
    /\ owner \in [Credentials -> Wallets \cup {Nobody}]
    /\ ask \in [Asks -> AskType]
    /\ \A k \in Asks : AskSound(k)
    /\ sent \in Seq(SentType)
    /\ \A t \in DOMAIN sent : HasAnswered(t) => ask[sent[t].call.arg].state = "closed"
    /\ \A t, u \in DOMAIN sent :
          HasAnswered(t) /\ HasAnswered(u) /\ sent[t].call.arg = sent[u].call.arg
             => t = u

-----------------------------------------------------------------------------
(* The invariants of the handlers.                                          *)

WriteType ==
    [step: {"idle", "sign", "mine", "reload"}, by: Who, of: Who,
     call: CallType \cup {Call("none", 0)}, tx: Nat, reload: Nat]

\* A handler that writes: once sent, its transaction is the call it made; it goes
\* on when the transaction is mined.
WriteInv(w) ==
    /\ w \in WriteType
    /\ w.step # "idle" => w.call \in CallType
    /\ w.step \in {"mine", "reload"} =>
          w.tx \in DOMAIN sent /\ sent[w.tx].call = w.call
    /\ w.step = "reload" => sent[w.tx].status = "mined"

SearchType == [step: {"idle", "attestation", "employer"}, id: MaybeCredential,
               of: Who, withdrawn: BOOLEAN]
ShownType == [id: MaybeCredential, withdrawn: BOOLEAN]
CheckType == [step: {"idle", "asked", "told"}, id: MaybeCredential, of: Who,
              answer: BOOLEAN]
DecryptType == [step: {"idle", "sign", "fetch", "served"}, id: MaybeCredential,
                of: Who, by: Who, late: BOOLEAN]

\* While no check was overtaken, those in flight are for what the page shows, and
\* the last to be answered was.
ChecksInv ==
    ~checksUnsure /\ isConnected /\ shown # NoShown =>
        /\ \A k \in Checking : <<check[k].id, check[k].of>> = <<shown.id, account>>
        /\ Checking = {} => answerFor = <<shown.id, account>>

\* While no search has overtaken a handler, handlers and results are about the
\* attestation shown; when none is shown there are none.
CarryInv ==
    ~carriedOver =>
        /\ request.step # "idle" => request.call.arg = shown.id
        /\ decrypt.step # "idle" => decrypt.id = shown.id
        /\ decryptedDoc \in {NoCredential, shown.id}
        /\ requestSuccess # 0 => sent[requestSuccess].call.arg = shown.id
        /\ shown = NoShown => /\ request.step = "idle" /\ decrypt.step = "idle"
                              /\ decryptedDoc = NoCredential /\ requestSuccess = 0

VerifierInv ==
    /\ search \in SearchType /\ shown \in ShownType
    /\ check \in [Checks -> CheckType]
    /\ decrypt \in DecryptType /\ decryptedDoc \in MaybeCredential
    /\ WriteInv(request)
    /\ requestSuccess # 0 => requestSuccess \in DOMAIN sent
    /\ isSearching => shown = NoShown /\ search.id \in Credentials
    /\ shown = NoShown \/ shown.id \in Credentials
    /\ page # "/verification" => shown = NoShown
    /\ ChecksInv
    /\ CarryInv

Row == [id: Credentials, withdrawn: BOOLEAN]
ListingType == [credentials: SUBSET Row,
                rows: SUBSET [id: Asks, credential: Credentials, open: BOOLEAN],
                open: SUBSET Asks]
LoadType == [step: {"idle", "ids", "rows"}, of: Who, todo: SUBSET Credentials,
             asks: SUBSET Asks, found: ListingType]

OpenRow(k) == [id |-> k, credential |-> ask[k].credential, open |-> TRUE]

Owned(k, of) == ask[k].state # "unused" /\ owner[ask[k].credential] = of

\* What is found is the account's own, and what was open has been.
Own(found, of) ==
    /\ \A row \in found.credentials :
          owner[row.id] = of /\ (row.withdrawn => row.id \in withdrawn)
    /\ \A row \in found.rows : owner[row.credential] = of
    /\ \A k \in found.open : ask[k].state # "unused"

\* A load that has the ids has yet to read, or has found, each ask that is still
\* open since the load began.
LoadInv(r) ==
    /\ r.step = "idle" => r = NoLoad
    /\ r.step # "idle" =>
          /\ r.of \in Accounts
          /\ Own(r.found, r.of)
          /\ \A c \in r.todo : owner[c] = r.of
          /\ \A k \in r.asks : Owned(k, r.of)
    /\ r.step = "rows" =>
          \A k \in r.found.open : IsOpen(k) /\ Owned(k, r.of) =>
             \/ ask[k].credential \in r.todo
             \/ k \in r.asks
             \/ OpenRow(k) \in r.found.rows

\* While no load was overtaken there is one at most, for the account shown, and
\* what the last one showed is the account's.
LoadsInv ==
    /\ load \in [Loads -> LoadType] /\ listing \in ListingType
    /\ \A l \in Loads : LoadInv(load[l])
    /\ ~listingUnsure => \A l, m \in Loading : l = m
    /\ ~listingUnsure /\ isConnected => \A l \in Loading : load[l].of = account
    /\ ListingSettled =>
          /\ Own(listing, account)
          /\ \A k \in listing.open : IsOpen(k) /\ Owned(k, account) =>
                OpenRow(k) \in listing.rows
    /\ page = "/verification" => Loading = {} /\ listing = NoListing

SearchesByHash == [step: {"idle", "ids", "rows"}, hash: Hashes \cup {"none"},
                   todo: SUBSET Credentials, rows: SUBSET Row,
                   known: SUBSET Credentials, gone: SUBSET Credentials]

\* Credential c is in the rows, and as withdrawn if it was so from the start.
ReadRow(s, c) ==
    \E row \in s.rows : row.id = c /\ (c \in s.gone => row.withdrawn)

\* A search has yet to read, or has read, each credential that was under the hash
\* when it began, and it reads none that is not under the hash by now.
HashSearchInv(s) ==
    /\ s \in SearchesByHash
    /\ s.known \subseteq UnderHash(s.hash)
    /\ s.gone \subseteq s.known \cap withdrawn
    /\ s.todo \subseteq UnderHash(s.hash)
    /\ \A row \in s.rows :
          row.id \in UnderHash(s.hash) /\ (row.withdrawn => row.id \in withdrawn)
    /\ s.step = "rows" => \A c \in s.known : c \in s.todo \/ ReadRow(s, c)

\* What is shown is a search whose rows have all been read.
HashInv ==
    /\ HashSearchInv(hashSearch)
    /\ \A found \in hashResults :
          HashSearchInv(found) /\ \A c \in found.known : ReadRow(found, c)

\* A handler that waits for the list is alone with the load it waits for.
ReloadsApart ==
    /\ \A h \in Handlers :
          answering[h].step = "reload" => answering[h].reload \in Loading
    /\ \A g, h \in Handlers :
          /\ answering[g].step = "reload" /\ answering[h].step = "reload"
          /\ answering[g].reload = answering[h].reload
          => g = h

MarkInv ==
    ~markerMoved => \A g, h \in Answering : g = h /\ Subject(h) = processingId

\* Handler h waits for the list after its answer was mined on the registry.
AnsweredBy(h) ==
    answering[h].step = "reload" /\ sent[answering[h].tx].chain = RegistryChain

\* While no load was overtaken, nothing that was answered is in the list as open.
Lists(rows, k) == \E row \in rows : row.open /\ row.id = k

FreshInv ==
    ~listingUnsure =>
        /\ \A l \in Loading :
              /\ \A done \in answeredHere : ~Lists(load[l].found.rows, done.arg)
              /\ \A h \in Handlers :
                    AnsweredBy(h) => ~Lists(load[l].found.rows, Subject(h))
        /\ Loading = {} => \A done \in answeredHere : ~Lists(listing.rows, done.arg)

\* What a handler has seen through, one of its transactions has done.
AnswersSent ==
    /\ answering \in [Handlers -> WriteType]
    /\ \A h \in Handlers :
          /\ WriteInv(answering[h])
          /\ answering[h].step # "idle" =>
                answering[h].call.name \in Answers /\ answering[h].of \in Accounts
    /\ \A done \in answeredHere :
          \E t \in DOMAIN sent : HasAnswered(t) /\ sent[t].call = done

AnswersInv ==
    /\ AnswersSent
    /\ page # "/employee/requests" => Answering = {} /\ answeredHere = {}
    /\ ReloadsApart
    /\ MarkInv
    /\ FreshInv

ReaderInv == WorldInv /\ VerifierInv /\ LoadsInv /\ HashInv /\ AnswersInv

-----------------------------------------------------------------------------
(* The registry and the transactions.                                       *)

\* What time does to the registry and the page's transactions.
AskMoves(k) ==
    ask[k].state # "unused" =>
       /\ ask'[k].credential = ask[k].credential
       /\ owner'[ask[k].credential] = owner[ask[k].credential]
       /\ ask'[k].state # "unused"
       /\ ask'[k].state = "open" => ask[k].state = "open"

SentMoves(t) ==
    /\ t \in DOMAIN sent'
    /\ sent'[t].call = sent[t].call /\ sent'[t].chain = sent[t].chain
    /\ sent[t].status = "mined" => sent'[t].status = "mined"

OwnerStays(c) == owner[c] # Nobody => owner'[c] = owner[c]

WorldMoves ==
    /\ \A c \in Credentials : OwnerStays(c)
    /\ withdrawn \subseteq withdrawn'
    /\ \A k \in Asks : AskMoves(k)
    /\ \A t \in DOMAIN sent : SentMoves(t)

\* Others issue, withdraw, ask and answer.
LEMMA IssueMoves ==
    ASSUME WorldInv, NEW c \in Credentials, NEW employee \in Wallets, Issue(c, employee)
    PROVE  /\ owner' \in [Credentials -> Wallets \cup {Nobody}]
           /\ \A d \in Credentials : OwnerStays(d)
           /\ withdrawn' = withdrawn /\ ask' = ask
           /\ \A j \in Asks : AskMoves(j) /\ AskSound(j)'
<1>1. /\ owner \in [Credentials -> Wallets \cup {Nobody}]
      /\ owner[c] = Nobody /\ owner' = [owner EXCEPT ![c] = employee]
      /\ withdrawn' = withdrawn /\ ask' = ask
    BY DEF WorldInv, Issue
<1>2. \A d \in Credentials : OwnerStays(d)
    BY <1>1 DEF OwnerStays
<1>3. \A j \in Asks : AskMoves(j) /\ AskSound(j)'
    BY <1>1, <1>2 DEF WorldInv, AskMoves, AskSound, OwnerStays
<1> QED
    BY <1>1, <1>2, <1>3

LEMMA WithdrawMoves ==
    ASSUME WorldInv, NEW c \in Credentials, Withdraw(c)
    PROVE  owner' = owner /\ withdrawn \subseteq withdrawn' /\ ask' = ask
BY DEF Withdraw

LEMMA OpenMoves ==
    ASSUME WorldInv, NEW k \in Asks, NEW c \in Credentials, NEW v \in Wallets \cup Who,
           Open(k, c, v)
    PROVE  /\ owner' = owner /\ withdrawn' = withdrawn
           /\ ask' \in [Asks -> AskType]
           /\ \A j \in Asks : AskMoves(j)
           /\ \A j \in Asks : AskSound(j)'
           /\ \A j \in Asks : ask[j].state = "closed" => ask'[j].state = "closed"
<1>1. /\ ask \in [Asks -> AskType]
      /\ ask[k].state = "unused"
      /\ ask' = [ask EXCEPT ![k] = [credential |-> c, verifier |-> v, state |-> "open"]]
    BY DEF WorldInv, Open
<1>2. [credential |-> c, verifier |-> v, state |-> "open"] \in AskType
    BY DEF AskType, MaybeCredential
<1>3. /\ ask' \in [Asks -> AskType]
      /\ \A j \in Asks \ {k} : ask'[j] = ask[j]
      /\ ask'[k].state = "open" /\ ask'[k].credential = c
    BY <1>1, <1>2
<1> QED
    BY <1>1, <1>3 DEF WorldInv, Open, AskMoves, AskSound

LEMMA AnswerMoves ==
    ASSUME WorldInv, NEW k \in Asks, NEW verdict, Answer(k, verdict)
    PROVE  /\ owner' = owner /\ withdrawn' = withdrawn
           /\ ask' \in [Asks -> AskType]
           /\ \A j \in Asks : AskMoves(j)
           /\ \A j \in Asks : AskSound(j)'
           /\ \A j \in Asks : ask[j].state = "closed" => ask'[j].state = "closed"
           /\ ask[k].state = "open" /\ ask'[k].state = "closed"
<1>1. /\ ask \in [Asks -> AskType]
      /\ ask[k].state = "open"
      /\ ask' = [ask EXCEPT ![k].state = "closed"]
    BY DEF WorldInv, Answer
<1>2. /\ ask' \in [Asks -> AskType]
      /\ \A j \in Asks \ {k} : ask'[j] = ask[j]
      /\ ask'[k].state = "closed" /\ ask'[k].credential = ask[k].credential
    BY <1>1 DEF AskType
<1> QED
    BY <1>1, <1>2 DEF WorldInv, Answer, AskMoves, AskSound

\* What a transaction is; an answer is about an ask.
LEMMA SentTypes ==
    ASSUME WorldInv, NEW t \in DOMAIN sent
    PROVE  /\ sent[t] \in SentType
           /\ sent[t].from \in Who /\ sent[t].call \in CallType
           /\ sent[t].call.name \in Answers => sent[t].call.arg \in Asks
           /\ HasAnswered(t) => sent[t].call.arg \in Asks
<1>1. sent \in Seq(SentType)
    BY DEF WorldInv
<1>2. sent[t] \in SentType
    BY <1>1
<1>3. sent[t].from \in Who /\ sent[t].call \in CallType
    BY <1>2 DEF SentType
<1>4. sent[t].call.name \in Answers => sent[t].call.arg \in Asks
    BY <1>3 DEF CallType, Answers
<1> QED
    BY <1>2, <1>3, <1>4 DEF HasAnswered

\* The transactions stay as they were sent.
LEMMA SentStill ==
    ASSUME WorldInv, sent' = sent
    PROVE  \A t \in DOMAIN sent : SentMoves(t) /\ (HasAnswered(t)' <=> HasAnswered(t))
BY DEF SentMoves, HasAnswered

\* What is sent is pending.
LEMMA SendMoves ==
    ASSUME WorldInv, NEW w, w.by \in Who, w.call \in CallType, NEW passes,
           SendWrite(w, passes)
    PROVE  /\ sent' \in Seq(SentType)
           /\ \A t \in DOMAIN sent : SentMoves(t) /\ sent'[t] = sent[t]
           /\ DOMAIN sent' = DOMAIN sent \cup {Len(sent) + 1}
           /\ sent'[Len(sent) + 1].call = w.call
           /\ sent'[Len(sent) + 1].status = "pending"
<1> DEFINE new == [from |-> w.by, call |-> w.call, chain |-> network,
                   status |-> "pending", result |-> 0]
<1>1. new \in SentType
    BY DEF SentType, WorldInv
<1>2. sent' = Append(sent, new) /\ new.call = w.call /\ new.status = "pending"
    BY DEF SendWrite
<1>3. sent \in Seq(SentType) /\ Len(sent) \in Nat
    BY DEF WorldInv
<1> HIDE DEF new
<1> QED
    BY <1>1, <1>2, <1>3 DEF SentMoves

\* A transaction of the page is mined or reverts.
LEMMA SettledMoves ==
    ASSUME WorldInv, NEW t \in DOMAIN sent, NEW status \in {"mined", "reverted"},
           sent[t].status = "pending", Settled(t, status, 0)
    PROVE  /\ sent' \in Seq(SentType)
           /\ DOMAIN sent' = DOMAIN sent
           /\ \A u \in DOMAIN sent : SentMoves(u)
           /\ \A u \in DOMAIN sent \ {t} : sent'[u] = sent[u]
           /\ sent'[t].status = status
<1>1. /\ sent \in Seq(SentType)
      /\ sent' = [sent EXCEPT ![t].status = status, ![t].result = 0]
    BY DEF Settled, WorldInv
<1>2. DOMAIN sent = 1..Len(sent) /\ Len(sent) \in Nat /\ sent[t] \in SentType
    BY <1>1
<1> DEFINE new == [sent[t] EXCEPT !.status = status, !.result = 0]
<1>3. /\ new \in SentType /\ new.call = sent[t].call /\ new.chain = sent[t].chain
      /\ new.status = status
    BY <1>2 DEF SentType
<1>4. sent' = [sent EXCEPT ![t] = new]
    BY <1>1, <1>2 DEF SentType
<1> HIDE DEF new
<1>5. sent' \in Seq(SentType) /\ DOMAIN sent' = DOMAIN sent
  <2>1. t \in 1..Len(sent) /\ new \in SentType
      BY <1>2, <1>3
  <2>2. /\ [sent EXCEPT ![t] = new] \in Seq(SentType)
        /\ Len([sent EXCEPT ![t] = new]) = Len(sent)
      BY <1>1, <2>1, ExceptSeq
  <2> QED
      BY <1>2, <1>4, <2>2
<1>6. sent'[t] = new /\ \A u \in DOMAIN sent \ {t} : sent'[u] = sent[u]
    BY <1>1, <1>2, <1>4
<1>7. ASSUME NEW u \in DOMAIN sent PROVE SentMoves(u)
  <2>1. CASE u = t
      BY <1>3, <1>5, <1>6, <2>1 DEF SentMoves
  <2>2. CASE u # t
      BY <1>5, <1>6, <2>2 DEF SentMoves
  <2> QED
      BY <2>1, <2>2
<1> QED
    BY <1>3, <1>5, <1>6, <1>7

\* A step that leaves the answered transactions and the asks they closed.
LEMMA WorldKept ==
    ASSUME WorldInv, page' = page,
           account' \in Who, signer' \in Who, network' \in Chains,
           owner' \in [Credentials -> Wallets \cup {Nobody}], ask' \in [Asks -> AskType],
           \A j \in Asks : AskSound(j)',
           \A j \in Asks : ask[j].state = "closed" => ask'[j].state = "closed",
           sent' \in Seq(SentType),
           \A t \in DOMAIN sent' :
              HasAnswered(t)' => /\ t \in DOMAIN sent /\ HasAnswered(t)
                                 /\ sent'[t].call = sent[t].call
    PROVE  WorldInv'
<1>1. ASSUME NEW t \in DOMAIN sent', HasAnswered(t)'
      PROVE  /\ ask'[sent'[t].call.arg].state = "closed"
             /\ t \in DOMAIN sent /\ HasAnswered(t) /\ sent'[t].call = sent[t].call
  <2>1. /\ t \in DOMAIN sent /\ HasAnswered(t) /\ sent'[t].call = sent[t].call
      BY <1>1
  <2> QED
      BY <2>1, SentTypes DEF WorldInv
<1> QED
    BY <1>1 DEF WorldInv

\* A handler's progress is the same whatever is sent and mined.
LEMMA WriteKept ==
    ASSUME NEW w, WriteInv(w), \A t \in DOMAIN sent : SentMoves(t)
    PROVE  WriteInv(w)'
BY DEF WriteInv, SentMoves

\* A handler of the page sends its transaction.
LEMMA SendStep ==
    ASSUME WorldInv, NEW w, WriteInv(w), NEW passes, SendWrite(w, passes),
           UNCHANGED <<pageVars, consentVars, page>>,
           NEW s, s = Waiting(w)
    PROVE  /\ WorldInv' /\ WorldMoves
           /\ WriteInv(s)' /\ s.call = w.call /\ s.step = "mine" /\ s.of = w.of
<1>0. w.step = "sign" /\ w \in WriteType /\ w.call \in CallType /\ w.by \in Who
    BY DEF SendWrite, WriteInv, WriteType
<1>1. /\ sent' \in Seq(SentType)
      /\ \A t \in DOMAIN sent : SentMoves(t) /\ sent'[t] = sent[t]
      /\ DOMAIN sent' = DOMAIN sent \cup {Len(sent) + 1}
      /\ sent'[Len(sent) + 1].call = w.call
      /\ sent'[Len(sent) + 1].status = "pending"
    BY <1>0, SendMoves
<1>2. WorldInv'
  <2>1. \A t \in DOMAIN sent' :
           HasAnswered(t)' => /\ t \in DOMAIN sent /\ HasAnswered(t)
                              /\ sent'[t].call = sent[t].call
      BY <1>1 DEF HasAnswered
  <2> QED
      BY <1>1, <2>1, WorldKept DEF WorldInv, AskSound, pageVars, consentVars
<1>3. WorldMoves
    BY <1>1 DEF WorldMoves, OwnerStays, AskMoves, consentVars
<1>4. Len(sent) + 1 \in Nat
    BY DEF WorldInv
<1>5. /\ s \in WriteType /\ s.call = w.call /\ s.step = "mine" /\ s.of = w.of
      /\ s.tx = Len(sent) + 1
    BY <1>0, <1>4 DEF Waiting, WriteType
<1>6. WriteInv(s)'
    BY <1>0, <1>1, <1>5 DEF WriteInv
<1> QED
    BY <1>2, <1>3, <1>5, <1>6

\* A transaction of the page is mined, or reverts.
LEMMA MineStep ==
    ASSUME WorldInv, NEW t \in DOMAIN sent, Mine(t), UNCHANGED <<pageVars, page>>
    PROVE  WorldInv' /\ WorldMoves
<1> DEFINE call == sent[t].call
           from == sent[t].from
<1>0. /\ sent[t] \in SentType /\ call \in CallType /\ from \in Who
      /\ sent[t].status = "pending"
    BY SentTypes DEF Mine, PendingOn
<1>1. ASSUME NEW status \in {"mined", "reverted"}, Settled(t, status, 0)
      PROVE  /\ sent' \in Seq(SentType)
             /\ DOMAIN sent' = DOMAIN sent
             /\ \A u \in DOMAIN sent : SentMoves(u)
             /\ \A u \in DOMAIN sent \ {t} : sent'[u] = sent[u]
             /\ sent'[t].status = status
    BY <1>0, <1>1, SettledMoves
<1>2. CASE Settled(t, "reverted", 0) /\ UNCHANGED consentVars
  <2>1. \A u \in DOMAIN sent' :
           HasAnswered(u)' => /\ u \in DOMAIN sent /\ HasAnswered(u)
                              /\ sent'[u].call = sent[u].call
    <3>1. /\ DOMAIN sent' = DOMAIN sent
          /\ \A u \in DOMAIN sent \ {t} : sent'[u] = sent[u]
          /\ sent'[t].status = "reverted"
        BY <1>1, <1>2
    <3> QED
        BY <3>1 DEF HasAnswered
  <2>2. WorldInv'
    <3>1. sent' \in Seq(SentType)
        BY <1>1, <1>2
    <3> QED
        BY <1>2, <2>1, <3>1, WorldKept DEF WorldInv, AskSound, pageVars, consentVars
  <2> QED
      BY <1>1, <1>2, <2>2 DEF WorldMoves, OwnerStays, AskMoves, consentVars
<1>3. CASE /\ PendingOn(t, FALSE) /\ Settled(t, "mined", 0) /\ UNCHANGED consentVars
  <2>0. /\ sent' \in Seq(SentType) /\ DOMAIN sent' = DOMAIN sent
        /\ \A u \in DOMAIN sent : SentMoves(u)
        /\ \A u \in DOMAIN sent \ {t} : sent'[u] = sent[u]
      BY <1>1, <1>3
  <2>1. \A u \in DOMAIN sent' :
           HasAnswered(u)' => /\ u \in DOMAIN sent /\ HasAnswered(u)
                              /\ sent'[u].call = sent[u].call
      BY <1>3, <2>0 DEF HasAnswered, SentMoves, PendingOn
  <2>2. WorldInv'
      BY <1>3, <2>0, <2>1, WorldKept DEF WorldInv, AskSound, pageVars, consentVars
  <2> QED
      BY <1>3, <2>0, <2>2 DEF WorldMoves, OwnerStays, AskMoves, consentVars
<1>4. CASE /\ call.name = "requestDocumentAccess" /\ Settled(t, "mined", 0)
           /\ \E k \in Asks : NextAsk(k) /\ Open(k, call.arg, from)
  <2>0. /\ sent' \in Seq(SentType) /\ DOMAIN sent' = DOMAIN sent
        /\ \A u \in DOMAIN sent : SentMoves(u)
        /\ \A u \in DOMAIN sent \ {t} : sent'[u] = sent[u]
      BY <1>1, <1>4
  <2>1. \A u \in DOMAIN sent' :
           HasAnswered(u)' => /\ u \in DOMAIN sent /\ HasAnswered(u)
                              /\ sent'[u].call = sent[u].call
      BY <1>4, <2>0 DEF HasAnswered, SentMoves, Answers
  <2>2. PICK k \in Asks : Open(k, call.arg, from)
      BY <1>4
  <2>3. call.arg \in Credentials
      BY <1>0, <1>4 DEF CallType, Answers
  <2>4. /\ owner' = owner /\ withdrawn' = withdrawn
        /\ ask' \in [Asks -> AskType]
        /\ \A j \in Asks : AskMoves(j)
        /\ \A j \in Asks : AskSound(j)'
        /\ \A j \in Asks : ask[j].state = "closed" => ask'[j].state = "closed"
      BY <1>0, <2>2, <2>3, OpenMoves
  <2>5. WorldInv'
      BY <2>0, <2>1, <2>4, WorldKept DEF WorldInv, pageVars
  <2> QED
      BY <2>0, <2>4, <2>5 DEF WorldMoves, OwnerStays
<1>5. CASE /\ call.name \in Answers /\ Settled(t, "mined", 0)
           /\ Answer(call.arg, call.name = "approveDocumentAccess")
  <2> DEFINE k == call.arg
  <2>0. /\ sent' \in Seq(SentType) /\ DOMAIN sent' = DOMAIN sent
        /\ \A u \in DOMAIN sent : SentMoves(u)
        /\ \A u \in DOMAIN sent \ {t} : sent'[u] = sent[u]
      BY <1>1, <1>5
  <2>1. \A u \in DOMAIN sent \ {t} : /\ HasAnswered(u)' <=> HasAnswered(u)
                                     /\ sent'[u].call = sent[u].call
      BY <2>0 DEF HasAnswered
  <2>2. k \in Asks /\ sent'[t].call = call
      BY <1>0, <1>5, <2>0 DEF CallType, Answers, SentMoves
  <2>3. /\ owner' = owner /\ withdrawn' = withdrawn
        /\ ask' \in [Asks -> AskType]
        /\ \A j \in Asks : AskMoves(j)
        /\ \A j \in Asks : AskSound(j)'
        /\ \A j \in Asks : ask[j].state = "closed" => ask'[j].state = "closed"
        /\ ask[k].state = "open" /\ ask'[k].state = "closed"
      BY <1>5, <2>2, AnswerMoves
  <2>4. \A u \in DOMAIN sent : HasAnswered(u) => sent[u].call.arg \in Asks /\ sent[u].call.arg # k
      BY <2>3, SentTypes DEF WorldInv
  <2>5. ~HasAnswered(t)
      BY <1>0 DEF HasAnswered
  <2>6. \A u \in DOMAIN sent' : HasAnswered(u)' => ask'[sent'[u].call.arg].state = "closed"
      BY <2>0, <2>1, <2>2, <2>3, <2>4 DEF WorldInv
  <2>7. \A u, v \in DOMAIN sent' :
           HasAnswered(u)' /\ HasAnswered(v)' /\ sent'[u].call.arg = sent'[v].call.arg
              => u = v
      BY <2>0, <2>1, <2>2, <2>4 DEF WorldInv
  <2>8. WorldInv'
      BY <2>0, <2>3, <2>6, <2>7 DEF WorldInv, pageVars
  <2> QED
      BY <2>0, <2>3, <2>8 DEF WorldMoves, OwnerStays
<1> QED
    BY <1>2, <1>3, <1>4, <1>5 DEF Mine, Execute, Answers

\* Others act on the registry.
LEMMA OthersStep ==
    ASSUME WorldInv, Elsewhere, UNCHANGED <<pageVars, sent, page>>
    PROVE  WorldInv' /\ WorldMoves
<1>1. \A t \in DOMAIN sent : SentMoves(t) /\ (HasAnswered(t)' <=> HasAnswered(t))
    BY SentStill
<1>2. /\ owner' \in [Credentials -> Wallets \cup {Nobody}]
      /\ \A c \in Credentials : OwnerStays(c)
      /\ withdrawn \subseteq withdrawn'
      /\ ask' \in [Asks -> AskType]
      /\ \A j \in Asks : AskMoves(j)
      /\ \A j \in Asks : AskSound(j)'
      /\ \A j \in Asks : ask[j].state = "closed" => ask'[j].state = "closed"
  <2>0. CASE \E c \in Credentials, employee \in Wallets : Issue(c, employee)
    <3>1. PICK c \in Credentials, employee \in Wallets : Issue(c, employee)
        BY <2>0
    <3> QED
        BY <3>1, IssueMoves DEF WorldInv
  <2>1. CASE \E c \in Credentials : Withdraw(c)
      BY <2>1, WithdrawMoves DEF WorldInv, AskMoves, AskSound, OwnerStays
  <2>2. CASE \E k \in Asks, c \in Credentials, v \in Wallets : NextAsk(k) /\ Open(k, c, v)
    <3>1. PICK k \in Asks, c \in Credentials, v \in Wallets : Open(k, c, v)
        BY <2>2
    <3> QED
        BY <3>1, OpenMoves DEF WorldInv, OwnerStays
  <2>3. CASE \E k \in Asks, verdict \in BOOLEAN : Answer(k, verdict)
    <3>1. PICK k \in Asks, verdict \in BOOLEAN : Answer(k, verdict)
        BY <2>3
    <3> QED
        BY <3>1, AnswerMoves DEF WorldInv, OwnerStays
  <2> QED
      BY <2>0, <2>1, <2>2, <2>3 DEF Elsewhere
<1>3. WorldInv'
  <2>1. \A t \in DOMAIN sent' :
           HasAnswered(t)' => /\ t \in DOMAIN sent /\ HasAnswered(t)
                              /\ sent'[t].call = sent[t].call
      BY <1>1
  <2> QED
      BY <1>2, <2>1, WorldKept DEF WorldInv, pageVars
<1> QED
    BY <1>1, <1>2, <1>3 DEF WorldMoves

\* Session and wallet move; or nothing of the world does.
LEMMA SessionStep ==
    ASSUME WorldInv, PageNext \/ UNCHANGED pageVars, UNCHANGED <<consentVars, sent, page>>
    PROVE  WorldInv' /\ WorldMoves
<1>1. \A t \in DOMAIN sent : SentMoves(t) /\ (HasAnswered(t)' <=> HasAnswered(t))
    BY SentStill
<1>2. account' \in Who /\ signer' \in Who /\ network' \in Chains
    BY DEF WorldInv, Who, PageNext, pageVars, Show, Renew, Forget, Move
<1>3. WorldInv'
  <2>1. \A t \in DOMAIN sent' :
           HasAnswered(t)' => /\ t \in DOMAIN sent /\ HasAnswered(t)
                              /\ sent'[t].call = sent[t].call
      BY <1>1
  <2> QED
      BY <1>2, <2>1, WorldKept DEF WorldInv, AskSound, consentVars
<1> QED
    BY <1>1, <1>3 DEF WorldMoves, OwnerStays, AskMoves, consentVars

-----------------------------------------------------------------------------
(* Handlers that write.                                                     *)

LEMMA NothingWritten == WriteInv(NoWrite) /\ NoWrite.step = "idle"
BY DEF WriteInv, WriteType, NoWrite, Call, Who

LEMMA WriteBegun ==
    ASSUME WorldInv, NEW call \in CallType, NEW s, s = Begun(call)
    PROVE  WriteInv(s) /\ s.call = call /\ s.step = "sign" /\ s.of = account
<1>1. /\ s = [step |-> "sign", by |-> signer, of |-> account, call |-> call,
              tx |-> 0, reload |-> 0]
    BY DEF Begun, NoWrite
<1>2. s \in WriteType
    BY <1>1 DEF WriteType, WorldInv
<1> QED
    BY <1>1, <1>2 DEF WriteInv

LEMMA WriteReloads ==
    ASSUME NEW w, WriteInv(w), Mined(w), NEW l \in Loads, NEW s, s = Reloading(w, l)
    PROVE  /\ WriteInv(s) /\ s.call = w.call /\ s.tx = w.tx /\ s.of = w.of
           /\ s.step = "reload" /\ s.reload = l
<1>1. w \in WriteType /\ l \in Nat
    BY LoadAssumption DEF WriteInv
<1>2. s \in WriteType
    BY <1>1 DEF Reloading, WriteType
<1>3. /\ s.call = w.call /\ s.tx = w.tx /\ s.of = w.of
      /\ s.step = "reload" /\ s.reload = l
    BY <1>1 DEF Reloading, WriteType
<1> QED
    BY <1>2, <1>3 DEF WriteInv, Mined

\* Every step keeps the world's invariant and moves it onward only.
LEMMA WorldStep ==
    ASSUME ReaderInv, [ReaderNext]_readerVars
    PROVE  WorldInv' /\ WorldMoves
<1>0. WorldInv
    BY DEF ReaderInv
<1>1. CASE Acts /\ page' = page
  <2>1. sent' = sent /\ UNCHANGED <<pageVars, consentVars>>
      BY <1>1
         DEF Acts, VerifierAct, Search, Request, Decrypt, ClosePreview, RequestsAct, Press
  <2> QED
      BY <1>0, <1>1, <2>1, SessionStep
<1>2. CASE Follows /\ page' = page
    BY <1>0, <1>2, SessionStep DEF Follows, chainVars
<1>3. CASE Goes /\ page' = page
  <2>1. UNCHANGED <<pageVars, consentVars, page>>
      BY <1>3 DEF Goes
  <2>2. CASE RequestSent
    <3>1. WriteInv(request)
        BY DEF ReaderInv, VerifierInv
    <3> QED
        BY <1>0, <2>1, <2>2, <3>1, SendStep DEF RequestSent
  <2>3. CASE \E h \in Handlers : AnswerSent(h)
    <3>1. PICK h \in Handlers : AnswerSent(h)
        BY <2>3
    <3>2. WriteInv(answering[h])
        BY DEF ReaderInv, AnswersInv, AnswersSent
    <3> QED
        BY <1>0, <2>1, <3>1, <3>2, SendStep DEF AnswerSent
  <2>4. CASE sent' = sent
      BY <1>0, <2>1, <2>4, SessionStep
  <2> QED
      BY <1>3, <2>2, <2>3, <2>4
         DEF Goes, VerifierStep, ReadFound, Found, NotFound, CheckStep, RequestMined,
             RequestFails, Expire, Sign, Serve, Opened, DecryptFails, RequestsStep,
             AnswerMined, AnswerFails, RequestsLoad
<1>4. CASE Chain /\ page' = page
    BY <1>0, <1>4, MineStep DEF Chain
<1>5. CASE Others /\ page' = page
    BY <1>0, <1>5, OthersStep DEF Others
<1>6. CASE UNCHANGED readerVars
    BY <1>0, <1>6, SessionStep DEF readerVars, chainVars
<1> QED
    BY <1>1, <1>2, <1>3, <1>4, <1>5, <1>6 DEF ReaderNext

-----------------------------------------------------------------------------
(* The search by hash.                                                      *)

\* The row of a record that is read.
LEMMA RowRead ==
    ASSUME NEW c \in Credentials, NEW r, r = [id |-> c, withdrawn |-> c \in withdrawn]
    PROVE  /\ r \in Row /\ r.id = c
           /\ r.withdrawn => c \in withdrawn
           /\ c \in withdrawn => r.withdrawn
<1>1. CASE c \in withdrawn
  <2>1. (c \in withdrawn) = TRUE
      BY <1>1
  <2>2. r = [id |-> c, withdrawn |-> TRUE]
      BY <2>1, Zenon
  <2> QED
      BY <1>1, <2>2 DEF Row
<1>2. CASE c \notin withdrawn
  <2>1. (c \in withdrawn) = FALSE
      BY <1>2
  <2>2. r = [id |-> c, withdrawn |-> FALSE]
      BY <2>1, Zenon
  <2> QED
      BY <1>2, <2>2 DEF Row
<1> QED
    BY <1>1, <1>2

\* What was under a hash stays under it, and a search keeps its promise.
LEMMA HashSearchKept ==
    ASSUME WorldMoves, NEW s, HashSearchInv(s)
    PROVE  HashSearchInv(s)'
<1>1. UnderHash(s.hash) \subseteq UnderHash(s.hash)'
    BY DEF WorldMoves, OwnerStays, UnderHash
<1>2. withdrawn \subseteq withdrawn'
    BY DEF WorldMoves
<1> QED
    BY <1>1, <1>2 DEF HashSearchInv, ReadRow

\* Every step of a search, from the press to what is shown.
LEMMA HashSearchStep ==
    ASSUME HashInv,
           \/ UNCHANGED hashVars
           \/ (\E h \in Hashes \cup {"none"} : SearchHash(h)) \/ CloseResults
           \/ HashIds \/ HashRow \/ HashFound \/ HashFails,
           NEW t, t = hashSearch'
    PROVE  /\ HashSearchInv(t)
           /\ \A found \in hashResults' :
                 HashSearchInv(found) /\ \A c \in found.known : ReadRow(found, c)
<1> DEFINE Whole(results) == \A found \in results :
                 HashSearchInv(found) /\ \A c \in found.known : ReadRow(found, c)
<1>1. PICK s : s = hashSearch
    OBVIOUS
<1>2. HashSearchInv(s) /\ Whole(hashResults) /\ s \in SearchesByHash
    BY <1>1 DEF HashInv, HashSearchInv
<1>3. HashSearchInv(NoHashSearch)
    BY DEF NoHashSearch, HashSearchInv, SearchesByHash
<1>4. CASE UNCHANGED hashVars
    BY <1>1, <1>2, <1>4 DEF hashVars
<1>5. CASE \E h \in Hashes \cup {"none"} : SearchHash(h)
  <2>1. PICK h \in Hashes \cup {"none"} :
           /\ hashResults' = {}
           /\ t = [step |-> "ids", hash |-> h, todo |-> {}, rows |-> {},
                   known |-> UnderHash(h), gone |-> UnderHash(h) \cap withdrawn]
      BY <1>5 DEF SearchHash, NoHashSearch
  <2>2. UnderHash(h) \subseteq Credentials
      BY DEF UnderHash
  <2>3. HashSearchInv(t)
      BY <2>1, <2>2 DEF HashSearchInv, SearchesByHash
  <2> QED
      BY <2>1, <2>3
<1>6. CASE CloseResults
    BY <1>1, <1>2, <1>6 DEF CloseResults
<1>7. CASE HashIds
  <2>1. /\ t = [s EXCEPT !.step = "rows", !.todo = UnderHash(s.hash)]
        /\ hashResults' = hashResults
      BY <1>1, <1>7 DEF HashIds
  <2>2. UnderHash(s.hash) \subseteq Credentials
      BY DEF UnderHash
  <2>3. /\ t \in SearchesByHash
        /\ t.hash = s.hash /\ t.rows = s.rows /\ t.known = s.known /\ t.gone = s.gone
        /\ t.todo = UnderHash(s.hash)
      BY <1>2, <2>1, <2>2 DEF SearchesByHash
  <2>4. HashSearchInv(t)
      BY <1>2, <2>3 DEF HashSearchInv
  <2> QED
      BY <1>2, <2>1, <2>4
<1>8. CASE HashRow
  <2>1. PICK c \in s.todo :
           t = [s EXCEPT !.todo = @ \ {c},
                         !.rows = @ \cup {[id |-> c, withdrawn |-> c \in withdrawn]}]
      BY <1>1, <1>8 DEF HashRow
  <2>2. s.step = "rows" /\ hashResults' = hashResults /\ c \in Credentials
      BY <1>1, <1>2, <1>8 DEF HashRow, SearchesByHash
  <2>3. PICK row : row = [id |-> c, withdrawn |-> c \in withdrawn]
      OBVIOUS
  <2>4. /\ row \in Row /\ row.id = c
        /\ row.withdrawn => c \in withdrawn
        /\ c \in withdrawn => row.withdrawn
      BY <2>2, <2>3, RowRead
  <2>5. /\ t \in SearchesByHash /\ t.step = "rows"
        /\ t.hash = s.hash /\ t.known = s.known /\ t.gone = s.gone
        /\ t.todo = s.todo \ {c} /\ t.rows = s.rows \cup {row}
    <3>1. t = [s EXCEPT !.todo = s.todo \ {c}, !.rows = s.rows \cup {row}]
        BY <1>2, <2>1, <2>3 DEF SearchesByHash
    <3>2. s.todo \ {c} \subseteq Credentials /\ s.rows \cup {row} \subseteq Row
        BY <1>2, <2>4 DEF SearchesByHash
    <3> QED
        BY <1>2, <2>2, <3>1, <3>2 DEF SearchesByHash
  <2>6. \A d \in t.known : d \in t.todo \/ ReadRow(t, d)
    <3>1. ReadRow(t, c)
        BY <1>2, <2>4, <2>5 DEF HashSearchInv, ReadRow
    <3>2. \A d \in s.known : ReadRow(s, d) => ReadRow(t, d)
        BY <2>5 DEF ReadRow
    <3>3. \A d \in s.known : d \in s.todo \/ ReadRow(s, d)
        BY <1>2, <2>2 DEF HashSearchInv
    <3> QED
        BY <2>5, <3>1, <3>2, <3>3
  <2>7. \A r \in t.rows :
           r.id \in UnderHash(t.hash) /\ (r.withdrawn => r.id \in withdrawn)
      BY <1>2, <2>1, <2>4, <2>5 DEF HashSearchInv
  <2>8. HashSearchInv(t)
      BY <1>2, <2>5, <2>6, <2>7 DEF HashSearchInv
  <2> QED
      BY <1>2, <2>2, <2>8
<1>9. CASE HashFound
  <2>1. s.step = "rows" /\ s.todo = {} /\ hashResults' = {s} /\ t = NoHashSearch
      BY <1>1, <1>9 DEF HashFound
  <2>2. \A c \in s.known : ReadRow(s, c)
      BY <1>2, <2>1 DEF HashSearchInv
  <2> QED
      BY <1>2, <1>3, <2>1, <2>2
<1>10. CASE HashFails
    BY <1>2, <1>3, <1>10 DEF HashFails
<1> QED
    BY <1>4, <1>5, <1>6, <1>7, <1>8, <1>9, <1>10

LEMMA HashMoves ==
    ASSUME HashInv, WorldMoves,
           \/ UNCHANGED hashVars
           \/ (\E h \in Hashes \cup {"none"} : SearchHash(h)) \/ CloseResults
           \/ HashIds \/ HashRow \/ HashFound \/ HashFails
    PROVE  HashInv'
<1>1. PICK t, results : t = hashSearch' /\ results = hashResults'
    OBVIOUS
<1>2. /\ HashSearchInv(t)
      /\ \A found \in results :
            HashSearchInv(found) /\ \A c \in found.known : ReadRow(found, c)
    BY <1>1, HashSearchStep
<1>3. HashSearchInv(t)'
    BY <1>2, HashSearchKept
<1>4. \A found \in results : HashSearchInv(found)'
    BY <1>2, HashSearchKept
<1>5. HashSearchInv(hashSearch)'
    BY <1>1, <1>3 DEF HashSearchInv, ReadRow, UnderHash
<1> QED
    BY <1>1, <1>2, <1>4, <1>5 DEF HashInv, ReadRow

LEMMA HashStep ==
    ASSUME ReaderInv, [ReaderNext]_readerVars
    PROVE  HashInv'
<1>1. \/ UNCHANGED hashVars
      \/ (\E h \in Hashes \cup {"none"} : SearchHash(h)) \/ CloseResults
      \/ HashIds \/ HashRow \/ HashFound \/ HashFails
    BY DEF ReaderNext, Acts, Follows, Goes, Chain, Others, readerVars, EmployeeAct,
           EmployeeStep, EmployeeFollows
<1> QED
    BY <1>1, WorldStep, HashMoves DEF ReaderInv

-----------------------------------------------------------------------------
(* The verifier's page.                                                     *)

\* What the checks that are begun leave, for the attestation id.
LEMMA ChecksStarted ==
    ASSUME VerifierInv, NEW id \in Credentials, NEW accounts \in Seq(Who),
           StartChecks(id, accounts)
    PROVE  /\ check' \in [Checks -> CheckType]
           /\ ~checksUnsure' =>
                 \A k \in Checking' : <<check'[k].id, check'[k].of>> = <<id, account'>>
           /\ accounts # <<>> => Checking' # {}
<1>1. PICK slot \in [DOMAIN accounts -> Checks \ Checking] :
         check' = [k \in Checks |->
                IF \E n \in DOMAIN accounts : slot[n] = k
                THEN Checked(id, accounts[CHOOSE n \in DOMAIN accounts : slot[n] = k])
                ELSE check[k]]
    BY DEF StartChecks
<1>2. ASSUME NEW of \in Who
      PROVE  Checked(id, of) \in CheckType /\ Checked(id, of).step = "asked"
    BY <1>2 DEF Checked, NoCheck, CheckType, MaybeCredential
<1>3. ASSUME NEW k \in Checks, \E n \in DOMAIN accounts : slot[n] = k
      PROVE  check'[k] \in CheckType /\ check'[k].step = "asked"
  <2> DEFINE m == CHOOSE n \in DOMAIN accounts : slot[n] = k
  <2>1. m \in DOMAIN accounts
      BY <1>3
  <2>2. accounts[m] \in Who
      BY <2>1
  <2>3. check'[k] = Checked(id, accounts[m])
      BY <1>1, <1>3
  <2> HIDE DEF m
  <2> QED
      BY <1>2, <2>2, <2>3
<1>4. \A k \in Checks : check'[k] \in CheckType
    BY <1>1, <1>3 DEF VerifierInv
<1>5. check' \in [Checks -> CheckType]
  <2>1. /\ DOMAIN check' = Checks
        /\ check' = [k \in Checks |-> check'[k]]
      BY <1>1
  <2> QED
      BY <1>4, <2>1
<1>6. ~checksUnsure' =>
         \A k \in Checking' : <<check'[k].id, check'[k].of>> = <<id, account'>>
    BY DEF StartChecks, Checking
<1>7. ASSUME accounts # <<>> PROVE Checking' # {}
  <2>1. 1 \in DOMAIN accounts
      BY <1>7
  <2>2. slot[1] \in Checks
      BY <1>1, <2>1
  <2> QED
      BY <1>3, <2>1, <2>2 DEF Checking
<1> QED
    BY <1>5, <1>6, <1>7

\* What the requests and results are about stays, as long as they stay.
LEMMA CarryKept ==
    ASSUME VerifierInv, WorldMoves,
           UNCHANGED <<shown, request, requestSuccess, decrypt, decryptedDoc, carriedOver>>
    PROVE  /\ WriteInv(request)' /\ CarryInv'
           /\ requestSuccess' # 0 => requestSuccess' \in DOMAIN sent'
<1>1. WriteInv(request)'
    BY WriteKept DEF VerifierInv, WorldMoves
<1>2. requestSuccess # 0 => SentMoves(requestSuccess)
    BY DEF VerifierInv, WorldMoves
<1> QED
    BY <1>1, <1>2 DEF VerifierInv, CarryInv, SentMoves

\* The page stands still while the world moves.
LEMMA VerifierStill ==
    ASSUME VerifierInv, WorldMoves, UNCHANGED <<verifierVars, page>>,
           account' = account \/ page # "/verification"
    PROVE  VerifierInv'
<1>1. UNCHANGED <<search, shown, check, isAuthorized, answerFor, checksUnsure,
                  request, requestSuccess, decrypt, decryptedDoc, carriedOver>>
    BY DEF verifierVars, checkVars
<1>2. ChecksInv'
  <2>1. CASE account' = account
      BY <1>1, <2>1 DEF VerifierInv, ChecksInv, Checking, isConnected
  <2>2. CASE page # "/verification"
      BY <1>1, <2>2 DEF VerifierInv, ChecksInv
  <2> QED
      BY <2>1, <2>2
<1> QED
    BY <1>1, <1>2, CarryKept DEF VerifierInv, isSearching

\* The account changes, and the effect checks again.
LEMMA VerifierFollowsStep ==
    ASSUME VerifierInv, WorldInv', WorldMoves, page' = page, VerifierFollows
    PROVE  VerifierInv'
<1>1. UNCHANGED <<search, shown, request, requestSuccess, decrypt, decryptedDoc,
                  carriedOver>>
    BY DEF VerifierFollows
<1>2. check' \in [Checks -> CheckType] /\ ChecksInv'
  <2>1. CASE shown.id # NoCredential /\ account' \notin {account, NoAccount}
    <3>1. StartChecks(shown.id, <<account'>>)
        BY <2>1 DEF VerifierFollows, AccessFollows
    <3>2. shown.id \in Credentials
        BY <2>1 DEF VerifierInv, NoShown
    <3>3. <<account'>> \in Seq(Who) /\ <<account'>> # <<>>
        BY DEF WorldInv
    <3>4. /\ check' \in [Checks -> CheckType]
          /\ ~checksUnsure' =>
                \A k \in Checking' : <<check'[k].id, check'[k].of>> = <<shown.id, account'>>
          /\ Checking' # {}
        BY <3>1, <3>2, <3>3, ChecksStarted
    <3> QED
        BY <1>1, <3>4 DEF ChecksInv
  <2>2. CASE ~(shown.id # NoCredential /\ account' \notin {account, NoAccount})
    <3>1. UNCHANGED <<check, isAuthorized, answerFor, checksUnsure>>
        BY <2>2 DEF VerifierFollows, AccessFollows, checkVars
    <3>2. isConnected' /\ shown' # NoShown => account' = account
        BY <1>1, <2>2, ReaderAssumption DEF VerifierInv, isConnected
    <3> QED
        BY <1>1, <3>1, <3>2 DEF VerifierInv, ChecksInv, Checking, isConnected
  <2> QED
      BY <2>1, <2>2
<1> QED
    BY <1>1, <1>2, CarryKept DEF VerifierInv, isSearching

\* A check is read or answered, or fails.
LEMMA CheckMoves ==
    ASSUME VerifierInv, WorldMoves, UNCHANGED <<pageVars, page>>,
           NEW k \in Checks, CheckStep(k)
    PROVE  VerifierInv'
<1>1. /\ UNCHANGED <<search, shown, request, requestSuccess, decrypt, decryptedDoc,
                     carriedOver>>
      /\ account' = account
    BY DEF CheckStep, pageVars
<1>2. check \in [Checks -> CheckType] /\ check[k] \in CheckType
    BY DEF VerifierInv
<1>3. check' \in [Checks -> CheckType] /\ ChecksInv'
  <2>1. CASE ReadAccess(k)
    <3>1. PICK b \in BOOLEAN : b = MayRead(check[k].id, check[k].of)
        BY DEF MayRead
    <3>2. /\ check[k].step = "asked"
          /\ check' = [check EXCEPT ![k].step = "told", ![k].answer = b]
          /\ UNCHANGED <<isAuthorized, answerFor, checksUnsure>>
        BY <2>1, <3>1 DEF ReadAccess
    <3>3. /\ check' \in [Checks -> CheckType]
          /\ \A j \in Checks : /\ check'[j].id = check[j].id /\ check'[j].of = check[j].of
                               /\ check'[j].step # "idle" <=> check[j].step # "idle"
        BY <1>2, <3>2 DEF CheckType
    <3> QED
        BY <1>1, <3>2, <3>3 DEF VerifierInv, ChecksInv, Checking, isConnected
  <2>2. CASE ReceiveAccess(k)
    <3>1. /\ k \in Checking
          /\ answerFor' = <<check[k].id, check[k].of>>
          /\ check' = [check EXCEPT ![k] = NoCheck] /\ checksUnsure' = checksUnsure
        BY <2>2 DEF ReceiveAccess, Checking
    <3>2. NoCheck \in CheckType /\ NoCheck.step = "idle"
        BY DEF NoCheck, CheckType, MaybeCredential, Who
    <3>3. /\ check' \in [Checks -> CheckType]
          /\ Checking' \subseteq Checking
          /\ \A j \in Checking' : check'[j] = check[j]
        BY <1>2, <3>1, <3>2 DEF Checking
    <3> QED
        BY <1>1, <3>1, <3>3 DEF VerifierInv, ChecksInv, isConnected
  <2>3. CASE CheckFails(k)
    <3>1. check' = [check EXCEPT ![k] = NoCheck] /\ checksUnsure' = TRUE
        BY <2>3 DEF CheckFails
    <3>2. NoCheck \in CheckType
        BY DEF NoCheck, CheckType, MaybeCredential, Who
    <3> QED
        BY <1>2, <3>1, <3>2 DEF ChecksInv
  <2> QED
      BY <2>1, <2>2, <2>3 DEF CheckStep
<1> QED
    BY <1>1, <1>3, CarryKept DEF VerifierInv, isSearching

\* A search begins, reads, and finds or does not find.
LEMMA SearchMoves ==
    ASSUME WorldInv, VerifierInv, WorldMoves, UNCHANGED <<pageVars, page>>,
           page = "/verification",
           \/ \E id \in Credentials : Search(id)
           \/ ReadFound \/ Found \/ NotFound
    PROVE  VerifierInv'
<1>0. account' = account /\ account \in Who
    BY DEF WorldInv, pageVars
<1>1. CASE \E id \in Credentials : Search(id)
  <2>1. PICK id \in Credentials : Search(id)
      BY <1>1
  <2>2. /\ search' = [step |-> "attestation", id |-> id, of |-> account, withdrawn |-> FALSE]
        /\ shown' = NoShown /\ requestSuccess' = 0 /\ decryptedDoc' = NoCredential
        /\ carriedOver' = (carriedOver \/ request.step # "idle" \/ decrypt.step # "idle")
        /\ UNCHANGED <<check, answerFor, checksUnsure, request, decrypt>>
      BY <2>1 DEF Search, NoSearch
  <2>3. search' \in SearchType /\ search'.id \in Credentials
      BY <1>0, <2>2 DEF SearchType, MaybeCredential
  <2>4. shown' \in ShownType
      BY <2>2 DEF ShownType, NoShown, MaybeCredential
  <2>5. WriteInv(request)'
      BY <2>2, WriteKept DEF VerifierInv, WorldMoves
  <2>6. CarryInv'
      BY <2>2 DEF CarryInv, NoShown
  <2> QED
      BY <2>2, <2>3, <2>4, <2>5, <2>6
         DEF VerifierInv, ChecksInv, isSearching, MaybeCredential
<1>2. CASE ReadFound
  <2>1. PICK b \in BOOLEAN : b = (search.id \in withdrawn)
    <3>1. CASE search.id \in withdrawn
      <4>1. TRUE = (search.id \in withdrawn)
          BY <3>1
      <4> QED
          BY <4>1, Zenon
    <3>2. CASE search.id \notin withdrawn
      <4>1. FALSE = (search.id \in withdrawn)
          BY <3>2
      <4> QED
          BY <4>1, Zenon
    <3> QED
        BY <3>1, <3>2
  <2>2. /\ search' = [search EXCEPT !.step = "employer", !.withdrawn = b]
        /\ search.step = "attestation"
        /\ UNCHANGED <<shown, check, isAuthorized, answerFor, checksUnsure, request,
                       requestSuccess, decrypt, decryptedDoc, carriedOver>>
      BY <1>2, <2>1 DEF ReadFound, checkVars
  <2>3. search' \in SearchType /\ search'.id = search.id
      BY <2>2 DEF VerifierInv, SearchType
  <2>4. ChecksInv'
      BY <1>0, <2>2 DEF VerifierInv, ChecksInv, Checking, isConnected
  <2> QED
      BY <2>2, <2>3, <2>4, CarryKept DEF VerifierInv, isSearching
<1>3. CASE Found
  <2> DEFINE accounts == IfConnected(search.of) \o IfConnected(account)
  <2>1. /\ search.step = "employer" /\ search \in SearchType /\ search.id \in Credentials
        /\ shown = NoShown
      BY <1>3 DEF Found, VerifierInv, isSearching
  <2>2. /\ shown' = [id |-> search.id, withdrawn |-> search.withdrawn]
        /\ search' = NoSearch
        /\ StartChecks(search.id, accounts)
        /\ UNCHANGED <<request, requestSuccess, decrypt, decryptedDoc, carriedOver>>
      BY <1>3 DEF Found
  <2>3. accounts \in Seq(Who) /\ (account # NoAccount => accounts # <<>>)
    <3>1. IfConnected(search.of) \in Seq(Who) /\ IfConnected(account) \in Seq(Who)
        BY <1>0, <2>1 DEF IfConnected, SearchType
    <3>2. account # NoAccount => Len(IfConnected(account)) = 1
        BY DEF IfConnected
    <3> QED
        BY <3>1, <3>2
  <2> HIDE DEF accounts
  <2>4. /\ check' \in [Checks -> CheckType]
        /\ ~checksUnsure' =>
              \A k \in Checking' : <<check'[k].id, check'[k].of>> = <<search.id, account'>>
        /\ accounts # <<>> => Checking' # {}
      BY <2>1, <2>2, <2>3, ChecksStarted
  <2>5. shown' \in ShownType /\ shown'.id = search.id
      BY <2>1, <2>2 DEF ShownType, SearchType
  <2>6. ChecksInv'
      BY <1>0, <2>3, <2>4, <2>5 DEF ChecksInv, isConnected
  <2>7. WriteInv(request)'
      BY <2>2, WriteKept DEF VerifierInv, WorldMoves
  <2>8. CarryInv'
      BY <2>1, <2>2 DEF VerifierInv, CarryInv
  <2>9. requestSuccess' # 0 => requestSuccess' \in DOMAIN sent'
      BY <2>2 DEF VerifierInv, WorldMoves, SentMoves
  <2>10. search' \in SearchType /\ search'.step = "idle"
      BY <2>2 DEF NoSearch, SearchType, MaybeCredential, Who
  <2> QED
      BY <2>1, <2>2, <2>4, <2>5, <2>6, <2>7, <2>8, <2>9, <2>10 DEF VerifierInv, isSearching
<1>4. CASE NotFound
  <2>1. /\ search' = NoSearch
        /\ UNCHANGED <<shown, check, isAuthorized, answerFor, checksUnsure, request,
                       requestSuccess, decrypt, decryptedDoc, carriedOver>>
      BY <1>4 DEF NotFound, checkVars
  <2>2. search' \in SearchType /\ search'.step = "idle"
      BY <2>1 DEF NoSearch, SearchType, MaybeCredential, Who
  <2>3. ChecksInv'
      BY <1>0, <2>1 DEF VerifierInv, ChecksInv, Checking, isConnected
  <2> QED
      BY <2>1, <2>2, <2>3, CarryKept DEF VerifierInv, isSearching
<1> QED
    BY <1>1, <1>2, <1>3, <1>4

\* A request for access is made, sent, and mined or not.
LEMMA RequestMoves ==
    ASSUME WorldInv, VerifierInv, WorldMoves, UNCHANGED <<pageVars, page>>,
           Request \/ RequestSent \/ RequestMined \/ RequestFails
    PROVE  VerifierInv'
<1>0. /\ UNCHANGED <<search, shown, check, isAuthorized, answerFor, checksUnsure,
                     decrypt, decryptedDoc, carriedOver>>
      /\ account' = account
    BY DEF Request, RequestSent, RequestMined, RequestFails, checkVars, pageVars
<1>1. ChecksInv'
    BY <1>0 DEF VerifierInv, ChecksInv, Checking, isConnected
<1>2. requestSuccess # 0 => /\ requestSuccess \in DOMAIN sent'
                            /\ sent'[requestSuccess].call = sent[requestSuccess].call
    BY DEF VerifierInv, WorldMoves, SentMoves
<1>3. /\ WriteInv(request)' /\ CarryInv'
      /\ requestSuccess' # 0 => requestSuccess' \in DOMAIN sent'
  <2>1. CASE Request
    <3> DEFINE call == Call("requestDocumentAccess", shown.id)
    <3>1. /\ shown.id \in Credentials /\ shown # NoShown
          /\ request' = Begun(call) /\ requestSuccess' = 0 /\ sent' = sent
        BY <2>1, DocumentAssumption, ReaderAssumption
           DEF Request, RequestFormShown, SectionShown, NoShown
    <3>2. call \in CallType /\ call.arg = shown.id
        BY <3>1 DEF CallType, Call
    <3> HIDE DEF call
    <3>3. WriteInv(request') /\ request'.call = call
        BY <3>1, <3>2, WriteBegun
    <3>4. WriteInv(request)'
        BY <3>1, <3>3 DEF WriteInv
    <3>5. CarryInv'
        BY <1>0, <3>1, <3>2, <3>3 DEF VerifierInv, CarryInv
    <3> QED
        BY <3>1, <3>4, <3>5
  <2>2. CASE RequestSent
    <3>1. /\ SendWrite(request, Passes(request.by, request.call))
          /\ request' = Waiting(request) /\ requestSuccess' = requestSuccess
          /\ request.step = "sign" /\ WriteInv(request)
        BY <2>2 DEF RequestSent, SendWrite, VerifierInv
    <3>2. /\ request'.call = request.call /\ request'.step = "mine"
          /\ request'.tx = Len(sent) + 1 /\ request' \in WriteType
          /\ request.call \in CallType
      <4>1. Len(sent) + 1 \in Nat
          BY DEF WorldInv
      <4> QED
          BY <3>1, <4>1 DEF WriteInv, WriteType, Waiting
    <3>3. /\ request'.tx \in DOMAIN sent' /\ sent'[request'.tx].call = request.call
      <4>1. request.by \in Who
          BY <3>1 DEF WriteInv, WriteType
      <4> QED
          BY <3>1, <3>2, <4>1, SendMoves
    <3>4. WriteInv(request)'
        BY <3>2, <3>3 DEF WriteInv
    <3>5. CarryInv'
        BY <1>0, <1>2, <3>1, <3>2 DEF VerifierInv, CarryInv
    <3> QED
        BY <1>2, <3>1, <3>4, <3>5
  <2>3. CASE RequestMined
    <3>1. /\ request.step = "mine" /\ request' = NoWrite /\ sent' = sent
          /\ requestSuccess' = request.tx /\ request.tx \in DOMAIN sent
          /\ sent[request.tx].call = request.call
        BY <2>3 DEF RequestMined, Mined, VerifierInv, WriteInv
    <3>2. WriteInv(request)'
        BY <3>1, NothingWritten DEF WriteInv
    <3>3. CarryInv'
        BY <1>0, <3>1, NothingWritten DEF VerifierInv, CarryInv
    <3> QED
        BY <3>1, <3>2, <3>3
  <2>4. CASE RequestFails
    <3>1. request' = NoWrite /\ sent' = sent /\ requestSuccess' = requestSuccess
        BY <2>4 DEF RequestFails
    <3>2. WriteInv(request)'
        BY <3>1, NothingWritten DEF WriteInv
    <3>3. CarryInv'
        BY <1>0, <3>1, NothingWritten DEF VerifierInv, CarryInv
    <3> QED
        BY <1>2, <3>1, <3>2, <3>3
  <2> QED
      BY <2>1, <2>2, <2>3, <2>4
<1> QED
    BY <1>0, <1>1, <1>3 DEF VerifierInv, isSearching

\* A document is asked for, signed for, served and opened, or it is not.
LEMMA DecryptMoves ==
    ASSUME WorldInv, VerifierInv, WorldMoves, UNCHANGED <<pageVars, page>>,
           \/ Decrypt \/ ClosePreview
           \/ Expire \/ Sign \/ Serve \/ Opened \/ DecryptFails
    PROVE  VerifierInv'
<1>0. /\ UNCHANGED <<search, shown, check, isAuthorized, answerFor, checksUnsure,
                     request, requestSuccess, carriedOver, sent>>
      /\ account' = account
    BY DEF Decrypt, ClosePreview, Expire, Sign, Serve, Granted, Opened, DecryptFails,
           checkVars, pageVars
<1>1. ChecksInv'
    BY <1>0 DEF VerifierInv, ChecksInv, Checking, isConnected
<1>2. WriteInv(request)'
    BY <1>0, WriteKept DEF VerifierInv, WorldMoves
<1>3. /\ decrypt' \in DecryptType /\ decryptedDoc' \in MaybeCredential
      /\ decrypt'.step # "idle" =>
            \/ decrypt.step # "idle" /\ decrypt'.id = decrypt.id
            \/ shown # NoShown /\ decrypt'.id = shown.id
      /\ decryptedDoc' # NoCredential =>
            \/ decryptedDoc' = decryptedDoc
            \/ decrypt.step # "idle" /\ decryptedDoc' = decrypt.id
  <2>0. decrypt \in DecryptType /\ decryptedDoc \in MaybeCredential
      BY DEF VerifierInv
  <2>1. CASE Decrypt
    <3>1. /\ shown.id \in Credentials /\ shown # NoShown
          /\ decrypt' = [step |-> "sign", id |-> shown.id, of |-> account, by |-> signer,
                         late |-> FALSE]
          /\ decryptedDoc' = decryptedDoc
        BY <2>1, DocumentAssumption, ReaderAssumption
           DEF Decrypt, AuthorizedShown, SectionShown, NoShown
    <3> QED
        BY <2>0, <3>1 DEF DecryptType, MaybeCredential, WorldInv
  <2>2. CASE ClosePreview
      BY <2>0, <2>2 DEF ClosePreview, MaybeCredential
  <2>3. CASE Expire
      BY <2>0, <2>3 DEF Expire, DecryptType
  <2>4. CASE Sign
      BY <2>0, <2>4 DEF Sign, DecryptType
  <2>5. CASE Serve
      BY <2>0, <2>5 DEF Serve, Granted, DecryptType
  <2>6. NoDecrypt \in DecryptType /\ NoDecrypt.step = "idle"
      BY DEF NoDecrypt, DecryptType, MaybeCredential, Who
  <2>7. CASE Opened
      BY <2>0, <2>6, <2>7 DEF Opened, DecryptType
  <2>8. CASE DecryptFails
      BY <2>0, <2>6, <2>8 DEF DecryptFails
  <2> QED
      BY <2>1, <2>2, <2>3, <2>4, <2>5, <2>7, <2>8
<1>4. CarryInv'
    BY <1>0, <1>3 DEF VerifierInv, CarryInv
<1> QED
    BY <1>0, <1>1, <1>2, <1>3, <1>4 DEF VerifierInv, isSearching

LEMMA VerifierKept ==
    ASSUME ReaderInv, [ReaderNext]_readerVars
    PROVE  VerifierInv'
<1>0. WorldInv /\ VerifierInv /\ WorldInv' /\ WorldMoves
    BY WorldStep DEF ReaderInv
<1>1. page' = page
    BY DEF ReaderNext, readerVars
<1>2. CASE UNCHANGED verifierVars /\ (account' = account \/ page # "/verification")
    BY <1>0, <1>1, <1>2, VerifierStill
<1>3. CASE page = "/verification" /\ VerifierFollows
    BY <1>0, <1>1, <1>3, VerifierFollowsStep
<1>4. CASE page = "/verification" /\ VerifierAct /\ UNCHANGED pageVars
    BY <1>0, <1>1, <1>4, SearchMoves, RequestMoves, DecryptMoves DEF VerifierAct
<1>5. CASE page = "/verification" /\ VerifierStep /\ UNCHANGED pageVars
    BY <1>0, <1>1, <1>5, SearchMoves, RequestMoves, DecryptMoves, CheckMoves
       DEF VerifierStep
<1> QED
  <2>1. CASE Acts
      BY <1>2, <1>4, <2>1 DEF Acts, pageVars
  <2>2. CASE Follows
      BY <1>2, <1>3, <2>2 DEF Follows
  <2>3. CASE Goes
      BY <1>2, <1>5, <2>3 DEF Goes, pageVars
  <2>4. CASE Chain \/ Others \/ UNCHANGED readerVars
      BY <1>2, <2>4 DEF Chain, Others, readerVars, pageVars
  <2> QED
      BY <2>1, <2>2, <2>3, <2>4 DEF ReaderNext

-----------------------------------------------------------------------------
(* The loads of the employee's pages.                                       *)

\* What was found stays the account's own, and what was open stays found.
LEMMA FoundKept ==
    ASSUME WorldMoves, NEW found \in ListingType, NEW of \in Accounts, Own(found, of)
    PROVE  /\ Own(found, of)'
           /\ \A k \in found.open :
                 /\ IsOpen(k)' => IsOpen(k) /\ ask'[k].credential = ask[k].credential
                 /\ Owned(k, of)' => Owned(k, of)
<1>1. /\ \A c \in Credentials : owner[c] = of => owner'[c] = of
      /\ withdrawn \subseteq withdrawn'
      /\ \A k \in found.open : k \in Asks /\ AskMoves(k) /\ ask[k].state # "unused"
    BY ReaderAssumption DEF WorldMoves, OwnerStays, Own, ListingType
<1>2. /\ \A row \in found.credentials : row.id \in Credentials
      /\ \A row \in found.rows : row.credential \in Credentials
    BY DEF ListingType, Row
<1> QED
    BY <1>1, <1>2 DEF Own, IsOpen, Owned, AskMoves

\* A load keeps its promise while it waits.
LEMMA LoadKept ==
    ASSUME WorldMoves, NEW r \in LoadType, LoadInv(r)
    PROVE  LoadInv(r)'
<1>1. CASE r.step = "idle"
    BY <1>1 DEF LoadInv
<1>2. CASE r.step # "idle"
  <2>1. r.found \in ListingType /\ r.asks \subseteq Asks /\ r.of \in Accounts
      BY <1>2 DEF LoadType, LoadInv
  <2>2. /\ Own(r.found, r.of)'
        /\ \A k \in r.found.open :
              /\ IsOpen(k)' => IsOpen(k) /\ ask'[k].credential = ask[k].credential
              /\ Owned(k, r.of)' => Owned(k, r.of)
      BY <1>2, <2>1, FoundKept DEF LoadInv
  <2>3. r.of \in Accounts /\ \A c \in r.todo : owner'[c] = r.of
      BY <1>2, ReaderAssumption DEF LoadInv, LoadType, WorldMoves, OwnerStays
  <2>4. \A k \in r.asks : Owned(k, r.of)'
      BY <1>2, <2>1 DEF LoadInv, WorldMoves, AskMoves, Owned
  <2>5. ASSUME r.step = "rows", NEW k \in r.found.open, IsOpen(k)', Owned(k, r.of)'
        PROVE  \/ ask'[k].credential \in r.todo
               \/ k \in r.asks
               \/ OpenRow(k)' \in r.found.rows
      BY <1>2, <2>2, <2>5 DEF LoadInv, OpenRow
  <2> QED
      BY <1>2, <2>2, <2>3, <2>4, <2>5 DEF LoadInv
<1> QED
    BY <1>1, <1>2

\* The loads stand still while the world moves.
LEMMA LoadsStill ==
    ASSUME WorldInv, LoadsInv, WorldMoves, UNCHANGED <<loadVars, page>>,
           account' \in {account, NoAccount} \/ page = "/verification"
    PROVE  LoadsInv'
<1>1. UNCHANGED <<load, listing, listingUnsure>> /\ Loading' = Loading
    BY DEF loadVars, Loading
<1>2. load \in [Loads -> LoadType] /\ listing \in ListingType
    BY DEF LoadsInv
<1>3. ASSUME NEW l \in Loads PROVE LoadInv(load[l])'
  <2>1. PICK r : r = load[l]
      OBVIOUS
  <2>2. r \in LoadType /\ LoadInv(r)
      BY <1>2, <2>1 DEF LoadsInv
  <2>3. LoadInv(r)'
      BY <2>2, LoadKept
  <2> QED
      BY <1>1, <2>1, <2>3 DEF LoadInv, Own, Owned, IsOpen, OpenRow
<1>4. ASSUME ListingSettled'
      PROVE  /\ Own(listing, account)'
             /\ \A k \in listing'.open : IsOpen(k)' /\ Owned(k, account)' =>
                   OpenRow(k)' \in listing'.rows
  <2>1. CASE page = "/verification"
      BY <1>1, <2>1 DEF LoadsInv, NoListing, Own
  <2>2. CASE page # "/verification"
    <3>1. account' = account /\ ListingSettled
        BY <1>1, <1>4, <2>2 DEF ListingSettled, isConnected
    <3>2. /\ Own(listing, account)
          /\ \A k \in listing.open : IsOpen(k) /\ Owned(k, account) =>
                OpenRow(k) \in listing.rows
        BY <3>1 DEF LoadsInv
    <3>3. PICK found, of : found = listing /\ of = account
        OBVIOUS
    <3>4. /\ Own(found, of)'
          /\ \A k \in found.open :
                /\ IsOpen(k)' => IsOpen(k) /\ ask'[k].credential = ask[k].credential
                /\ Owned(k, of)' => Owned(k, of)
      <4>1. of \in Accounts
          BY <3>1, <3>3 DEF ListingSettled, isConnected, WorldInv, Who
      <4> QED
          BY <1>2, <3>2, <3>3, <4>1, FoundKept
    <3>5. Own(listing, account)'
        BY <1>1, <3>1, <3>3, <3>4 DEF Own
    <3>6. \A k \in listing.open : Owned(k, account)' => Owned(k, account)
        BY <3>1, <3>3, <3>4 DEF Owned
    <3> QED
        BY <1>1, <3>2, <3>3, <3>4, <3>5, <3>6 DEF OpenRow
  <2> QED
      BY <2>1, <2>2
<1> QED
    BY <1>1, <1>2, <1>3, <1>4 DEF LoadsInv, isConnected

\* A load begins with what is open.
LEMMA LoadStarts ==
    ASSUME LoadsInv, UNCHANGED <<consentVars, page>>, page # "/verification",
           NEW l \in Loads, NEW of \in Accounts, StartLoad(l, of)
    PROVE  /\ LoadsInv' /\ l \in Loading' /\ l \notin Loading
           /\ Loading' = Loading \cup {l}
           /\ load'[l].found.rows = {}
           /\ \A m \in Loads \ {l} : load'[m] = load[m]
<1> DEFINE waiting == {k \in Asks : IsOpen(k)}
           new == [step |-> "ids", of |-> of, todo |-> {}, asks |-> {},
                   found |-> [credentials |-> {}, rows |-> {}, open |-> waiting]]
<1>1. /\ l \notin Loading /\ load \in [Loads -> LoadType] /\ load[l] = NoLoad
      /\ listing' = listing
      /\ listingUnsure' = (Loading # {} \/ of # account')
    BY DEF StartLoad, FirstFree, Loading, LoadsInv, LoadInv
<1>2. load' = [load EXCEPT ![l] = new]
  <2>1. load' = [load EXCEPT ![l].step = "ids", ![l].of = of, ![l].found.open = waiting]
      BY DEF StartLoad
  <2> HIDE DEF waiting
  <2>2. load' = [load EXCEPT ![l] =
                   [load[l] EXCEPT !.step = "ids", !.of = of,
                                   !.found = [load[l].found EXCEPT !.open = waiting]]]
    <3>1. load[l] \in LoadType
        BY <1>1
    <3> QED
        BY <1>1, <2>1, <3>1 DEF LoadType
  <2>3. load[l].found = NoListing
      BY <1>1 DEF NoLoad
  <2>4. [load[l].found EXCEPT !.open = waiting]
           = [credentials |-> {}, rows |-> {}, open |-> waiting]
      BY <2>3 DEF NoListing
  <2>5. PICK begun : begun = [NoLoad EXCEPT !.step = "ids", !.of = of,
                                 !.found = [credentials |-> {}, rows |-> {}, open |-> waiting]]
      OBVIOUS
  <2>6. begun = new
      BY <2>5 DEF NoLoad
  <2> HIDE DEF new
  <2> QED
      BY <1>1, <2>2, <2>4, <2>5, <2>6
<1>3. new \in LoadType
    BY DEF LoadType, ListingType, Who
<1>4. LoadInv(new)
    BY DEF LoadInv, Own, IsOpen
<1>5. /\ new.step # "idle" /\ new.of = of /\ new.found.rows = {}
    OBVIOUS
<1> HIDE DEF new
<1>6. /\ load' \in [Loads -> LoadType] /\ load'[l] = new
      /\ \A m \in Loads \ {l} : load'[m] = load[m]
    BY <1>1, <1>2, <1>3
<1>7. Loading' = Loading \cup {l}
    BY <1>5, <1>6 DEF Loading
<1>8. \A m \in Loads : LoadInv(load[m])'
  <2>1. \A m \in Loads : LoadInv(load'[m])
      BY <1>4, <1>6 DEF LoadsInv
  <2> QED
      BY <2>1 DEF LoadInv, Own, Owned, IsOpen, OpenRow, consentVars
<1>9. ~listingUnsure' => Loading' = {l} /\ of = account'
    BY <1>1, <1>7
<1> QED
    BY <1>1, <1>5, <1>6, <1>7, <1>8, <1>9 DEF LoadsInv, ListingSettled

\* Every step of a load keeps its promise.
LEMMA LoadRead ==
    ASSUME WorldInv, LoadsInv, NEW l \in Loads,
           ReadIds(l) \/ ReadCredential(l) \/ ReadAsk(l)
    PROVE  /\ load' \in [Loads -> LoadType]
           /\ \A m \in Loads \ {l} : load'[m] = load[m]
           /\ load[l].step # "idle" /\ load'[l].step # "idle"
           /\ load'[l].of = load[l].of
           /\ LoadInv(load'[l])
           /\ \A row \in load'[l].found.rows :
                 row \in load[l].found.rows \/ (row.id \in Asks /\ (row.open => IsOpen(row.id)))
<1> DEFINE r == load[l]
<1>0. /\ load \in [Loads -> LoadType] /\ r \in LoadType /\ LoadInv(r)
      /\ r.found \in ListingType /\ r.todo \subseteq Credentials /\ r.asks \subseteq Asks
      /\ ask \in [Asks -> AskType]
    BY ReaderAssumption DEF LoadsInv, LoadType, WorldInv
<1>1. CASE ReadIds(l)
  <2> DEFINE new == [r EXCEPT !.step = "rows",
                              !.todo = {c \in Credentials : owner[c] = r.of}]
  <2>1. r.step = "ids" /\ load' = [load EXCEPT ![l] = new]
      BY <1>0, <1>1 DEF ReadIds
  <2>2. /\ new \in LoadType /\ new.step = "rows" /\ new.of = r.of
        /\ new.found = r.found /\ new.asks = r.asks
        /\ new.todo = {c \in Credentials : owner[c] = r.of}
      BY <1>0 DEF LoadType
  <2>3. LoadInv(new)
    <3> HIDE DEF new
    <3>1. /\ r.of \in Accounts /\ Own(r.found, r.of)
          /\ \A k \in r.asks : Owned(k, r.of)
        BY <1>0, <2>1 DEF LoadInv
    <3>2. \A k \in r.found.open : Owned(k, r.of) => ask[k].credential \in new.todo
      <4>1. \A k \in r.found.open : k \in Asks
          BY <1>0 DEF ListingType
      <4> QED
          BY <2>2, <4>1 DEF Owned, WorldInv, AskSound
    <3> QED
        BY <2>2, <3>1, <3>2 DEF LoadInv
  <2> HIDE DEF new
  <2>4. /\ load' \in [Loads -> LoadType] /\ load'[l] = new
        /\ \A m \in Loads \ {l} : load'[m] = load[m]
      BY <1>0, <2>1, <2>2
  <2>5. r.step # "idle"
      BY <2>1
  <2> QED
      BY <2>2, <2>3, <2>4, <2>5
<1>2. CASE ReadCredential(l)
  <2>1. PICK c \in r.todo :
           load' = [load EXCEPT
             ![l].todo = @ \ {c},
             ![l].asks = {k \in Asks : ask[k].credential = c},
             ![l].found.credentials = @ \cup {[id |-> c, withdrawn |-> c \in withdrawn]}]
      BY <1>2 DEF ReadCredential
  <2>2. PICK row : row = [id |-> c, withdrawn |-> c \in withdrawn]
      OBVIOUS
  <2>3. row \in Row /\ row.id = c /\ (row.withdrawn => c \in withdrawn)
      BY <1>0, <2>2, RowRead
  <2> DEFINE found == [r.found EXCEPT !.credentials = @ \cup {row}]
             asks == {k \in Asks : ask[k].credential = c}
             new == [r EXCEPT !.todo = @ \ {c}, !.asks = asks, !.found = found]
  <2>4. load' = [load EXCEPT ![l] = new]
      BY <1>0, <2>1, <2>2 DEF LoadType
  <2>5. /\ found \in ListingType /\ found.credentials = r.found.credentials \cup {row}
        /\ found.rows = r.found.rows /\ found.open = r.found.open
      BY <1>0, <2>3 DEF ListingType
  <2> HIDE DEF found
  <2>6. /\ new \in LoadType /\ new.step = r.step /\ new.of = r.of /\ new.asks = asks
        /\ new.todo = r.todo \ {c} /\ new.found = found
      BY <1>0, <2>5 DEF LoadType
  <2> HIDE DEF new
  <2>7. r.step = "rows" /\ r.asks = {}
      BY <1>2 DEF ReadCredential
  <2>8. LoadInv(new)
    <3>1. /\ r.of \in Accounts /\ Own(r.found, r.of) /\ \A d \in r.todo : owner[d] = r.of
          /\ \A k \in r.found.open : IsOpen(k) /\ Owned(k, r.of) =>
                ask[k].credential \in r.todo \/ OpenRow(k) \in r.found.rows
        BY <1>0, <2>7 DEF LoadInv
    <3>2. \A k \in asks : Owned(k, r.of)
        BY <1>0, <3>1, ReaderAssumption DEF Owned, WorldInv, AskSound
    <3>3. Own(found, r.of)
        BY <2>3, <2>5, <3>1 DEF Own
    <3>4. \A k \in r.found.open : k \in Asks
        BY <1>0 DEF ListingType
    <3> QED
        BY <2>5, <2>6, <2>7, <3>1, <3>2, <3>3, <3>4 DEF LoadInv
  <2>9. /\ load' \in [Loads -> LoadType] /\ load'[l] = new
        /\ \A m \in Loads \ {l} : load'[m] = load[m]
      BY <1>0, <2>4, <2>6
  <2> QED
      BY <2>5, <2>6, <2>7, <2>8, <2>9
<1>3. CASE ReadAsk(l)
  <2>1. PICK k \in r.asks :
           load' = [load EXCEPT ![l].asks = @ \ {k},
                ![l].found.rows = @ \cup
                   {[id |-> k, credential |-> ask[k].credential, open |-> IsOpen(k)]}]
      BY <1>3 DEF ReadAsk
  <2>2. PICK b \in BOOLEAN : b = IsOpen(k)
      BY DEF IsOpen
  <2> DEFINE row == [id |-> k, credential |-> ask[k].credential, open |-> b]
             found == [r.found EXCEPT !.rows = @ \cup {row}]
             new == [r EXCEPT !.asks = @ \ {k}, !.found = found]
  <2>3. load' = [load EXCEPT ![l] = new]
      BY <1>0, <2>1, <2>2 DEF LoadType
  <2>4. /\ row \in [id: Asks, credential: Credentials, open: BOOLEAN]
        /\ row.id = k /\ (row.open => IsOpen(k)) /\ row.credential = ask[k].credential
        /\ IsOpen(k) => row = OpenRow(k)
    <3>1. k \in Asks /\ Owned(k, r.of)
        BY <1>0, <1>3 DEF LoadInv, ReadAsk
    <3>2. ask[k].credential \in Credentials
        BY <3>1 DEF Owned, WorldInv, AskSound
    <3> QED
        BY <2>2, <3>1, <3>2 DEF OpenRow
  <2> HIDE DEF row
  <2>5. /\ found \in ListingType /\ found.credentials = r.found.credentials
        /\ found.rows = r.found.rows \cup {row} /\ found.open = r.found.open
      BY <1>0, <2>4 DEF ListingType
  <2> HIDE DEF found
  <2>6. /\ new \in LoadType /\ new.step = r.step /\ new.of = r.of
        /\ new.asks = r.asks \ {k} /\ new.todo = r.todo /\ new.found = found
      BY <1>0, <2>5 DEF LoadType
  <2> HIDE DEF new
  <2>7. r.step = "rows"
      BY <1>3 DEF ReadAsk
  <2>8. LoadInv(new)
    <3>1. /\ r.of \in Accounts /\ Own(r.found, r.of) /\ \A d \in r.todo : owner[d] = r.of
          /\ \A j \in r.asks : Owned(j, r.of)
          /\ \A j \in r.found.open : IsOpen(j) /\ Owned(j, r.of) =>
                \/ ask[j].credential \in r.todo
                \/ j \in r.asks \/ OpenRow(j) \in r.found.rows
        BY <1>0, <2>7 DEF LoadInv
    <3>2. Own(found, r.of)
        BY <2>4, <2>5, <3>1 DEF Own, Owned
    <3> QED
        BY <2>4, <2>5, <2>6, <2>7, <3>1, <3>2 DEF LoadInv
  <2>9. /\ load' \in [Loads -> LoadType] /\ load'[l] = new
        /\ \A m \in Loads \ {l} : load'[m] = load[m]
      BY <1>0, <2>3, <2>6
  <2>10. k \in Asks
      BY <1>0
  <2> QED
      BY <2>4, <2>5, <2>6, <2>7, <2>8, <2>9, <2>10
<1> QED
    BY <1>1, <1>2, <1>3

\* A load goes on, ends or fails.
LEMMA LoadGoes ==
    ASSUME WorldInv, LoadsInv, UNCHANGED <<pageVars, consentVars, page>>,
           NEW l \in Loads, LoadGoesOn(l)
    PROVE  LoadsInv'
<1>0. /\ load \in [Loads -> LoadType] /\ listing \in ListingType
      /\ \A m \in Loads : LoadInv(load[m])
      /\ account' = account
    BY DEF LoadsInv, pageVars
<1>1. l \in Loading /\ page # "/verification"
    BY DEF LoadGoesOn, ReadIds, ReadCredential, ReadAsk, LoadDone, LoadFails, LoadsInv,
           Loading
<1>2. CASE ReadIds(l) \/ ReadCredential(l) \/ ReadAsk(l)
  <2>1. UNCHANGED <<listing, isLoading, listingUnsure>>
      BY <1>2 DEF ReadIds, ReadCredential, ReadAsk
  <2>2. /\ load' \in [Loads -> LoadType]
        /\ \A m \in Loads \ {l} : load'[m] = load[m]
        /\ load'[l].step # "idle"
        /\ load'[l].of = load[l].of
        /\ LoadInv(load'[l])
      BY <1>2, LoadRead
  <2>3. Loading' = Loading /\ \A m \in Loads : load'[m].of = load[m].of
      BY <1>1, <2>2 DEF Loading
  <2>4. \A m \in Loads : LoadInv(load[m])'
    <3>1. \A m \in Loads : LoadInv(load'[m])
        BY <1>0, <2>2
    <3> QED
        BY <3>1 DEF LoadInv, Own, Owned, IsOpen, OpenRow, consentVars
  <2> QED
      BY <1>0, <1>1, <2>1, <2>2, <2>3, <2>4 DEF LoadsInv, ListingSettled, isConnected, Loading
<1>3. CASE LoadDone(l) \/ LoadFails(l)
  <2>0. NoLoad \in LoadType /\ LoadInv(NoLoad) /\ NoLoad.step = "idle"
      BY DEF NoLoad, NoListing, LoadType, ListingType, LoadInv, Who
  <2>1. load' = [load EXCEPT ![l] = NoLoad]
      BY <1>3 DEF LoadDone, LoadFails
  <2>2. /\ load' \in [Loads -> LoadType] /\ load'[l] = NoLoad
        /\ \A m \in Loads \ {l} : load'[m] = load[m]
      BY <1>0, <2>0, <2>1
  <2>3. Loading' = Loading \ {l}
      BY <2>0, <2>2 DEF Loading
  <2>4. \A m \in Loads : LoadInv(load[m])'
    <3>1. \A m \in Loads : LoadInv(load'[m])
        BY <1>0, <2>0, <2>2
    <3> QED
        BY <3>1 DEF LoadInv, Own, Owned, IsOpen, OpenRow, consentVars
  <2>5. CASE LoadFails(l)
    <3>1. listingUnsure' = TRUE /\ listing' = listing
        BY <2>5 DEF LoadFails
    <3> QED
        BY <1>0, <1>1, <2>2, <2>4, <3>1 DEF LoadsInv, ListingSettled
  <2>6. CASE LoadDone(l)
    <3>1. /\ load[l].step = "rows" /\ load[l].todo = {} /\ load[l].asks = {}
          /\ listing' = load[l].found /\ listingUnsure' = listingUnsure
        BY <2>6 DEF LoadDone
    <3>2. listing' \in ListingType
        BY <1>0, <3>1 DEF LoadType
    <3>3. /\ Own(listing', load[l].of)
          /\ \A k \in listing'.open : IsOpen(k) /\ Owned(k, load[l].of) =>
                OpenRow(k) \in listing'.rows
        BY <1>0, <3>1 DEF LoadInv
    <3>4. ASSUME ListingSettled' PROVE load[l].of = account'
        BY <1>0, <1>1, <3>1, <3>4 DEF ListingSettled, LoadsInv, isConnected
    <3>5. ListingSettled' =>
             /\ Own(listing, account)'
             /\ \A k \in listing'.open : IsOpen(k)' /\ Owned(k, account)' =>
                   OpenRow(k)' \in listing'.rows
        BY <3>3, <3>4 DEF Own, Owned, IsOpen, OpenRow, consentVars
    <3>6. \A m \in Loading' : m \in Loading /\ load'[m] = load[m]
        BY <2>2, <2>3 DEF Loading
    <3> QED
        BY <1>0, <1>1, <2>2, <2>4, <3>1, <3>2, <3>5, <3>6 DEF LoadsInv, isConnected
  <2> QED
      BY <1>3, <2>5, <2>6
<1> QED
    BY <1>2, <1>3 DEF LoadGoesOn

LEMMA LoadsKept ==
    ASSUME ReaderInv, [ReaderNext]_readerVars
    PROVE  LoadsInv'
<1>0. WorldInv /\ LoadsInv /\ WorldInv' /\ WorldMoves
    BY WorldStep DEF ReaderInv
<1>1. page' = page
    BY DEF ReaderNext, readerVars
<1>2. CASE UNCHANGED loadVars /\ (account' \in {account, NoAccount} \/ page = "/verification")
    BY <1>0, <1>1, <1>2, LoadsStill
<1>3. CASE /\ UNCHANGED consentVars /\ page # "/verification"
           /\ \E l \in Loads, of \in Accounts : StartLoad(l, of)
    BY <1>0, <1>1, <1>3, LoadStarts
<1>4. CASE /\ UNCHANGED <<pageVars, consentVars>>
           /\ \E l \in Loads : LoadGoesOn(l)
    BY <1>0, <1>1, <1>4, LoadGoes
<1>5. ASSUME UNCHANGED pageVars PROVE account' = account /\ account \in Who
    BY <1>0, <1>5 DEF pageVars, WorldInv
<1>6. ASSUME Reload, UNCHANGED pageVars PROVE \E l \in Loads, of \in Accounts : StartLoad(l, of)
    BY <1>5, <1>6 DEF Reload, isConnected, Who
<1>7. ASSUME ListingFollows
      PROVE  \/ UNCHANGED loadVars /\ account' \in {account, NoAccount}
             \/ \E l \in Loads, of \in Accounts : StartLoad(l, of)
  <2>1. account' \in Who
      BY <1>0 DEF WorldInv
  <2> QED
      BY <1>7, <2>1 DEF ListingFollows, Who
<1>8. CASE Acts
  <2>1. CASE page = "/verification"
      BY <1>2, <1>8, <2>1 DEF Acts
  <2>2. CASE page = "/employee"
      BY <1>2, <1>3, <1>5, <1>6, <1>8, <2>2 DEF Acts, EmployeeAct
  <2>3. CASE page = "/employee/requests"
      BY <1>2, <1>3, <1>5, <1>6, <1>8, <2>3 DEF Acts, RequestsAct, Press
  <2> QED
      BY <1>8, <2>1, <2>2, <2>3 DEF Acts
<1>9. CASE Follows
  <2>1. CASE page = "/verification"
      BY <1>2, <1>9, <2>1 DEF Follows
  <2>2. CASE page # "/verification"
      BY <1>2, <1>3, <1>7, <1>9, <2>2
         DEF Follows, EmployeeFollows, RequestsFollow, chainVars
  <2> QED
      BY <2>1, <2>2
<1>10. CASE Goes
  <2>1. CASE page = "/verification"
      BY <1>2, <1>10, <2>1 DEF Goes
  <2>2. CASE page = "/employee"
      BY <1>2, <1>4, <1>5, <1>10, <2>2 DEF Goes, EmployeeStep
  <2>3. CASE page = "/employee/requests"
    <3>1. CASE \E h \in Handlers : AnswerMined(h)
      <4>1. PICK h \in Handlers : AnswerMined(h)
          BY <3>1
      <4>2. answering[h].of \in Accounts
          BY <4>1 DEF ReaderInv, AnswersInv, AnswersSent, AnswerMined, Mined
      <4> QED
          BY <1>3, <1>10, <2>3, <4>1, <4>2 DEF AnswerMined, Goes
    <3>2. CASE \E h \in Handlers : AnswerSent(h) \/ AnswerFails(h)
        BY <1>2, <1>5, <1>10, <3>2 DEF Goes, AnswerSent, AnswerFails
    <3>3. CASE \E l \in Loads : RequestsLoad(l)
        BY <1>4, <1>10, <3>3 DEF Goes, RequestsLoad
    <3> QED
        BY <1>10, <2>3, <3>1, <3>2, <3>3 DEF Goes, RequestsStep
  <2> QED
      BY <1>10, <2>1, <2>2, <2>3 DEF Goes
<1>11. CASE Chain \/ Others \/ UNCHANGED readerVars
    BY <1>2, <1>5, <1>11 DEF Chain, Others, readerVars
<1> QED
    BY <1>8, <1>9, <1>10, <1>11 DEF ReaderNext

-----------------------------------------------------------------------------
(* The answers of the requests page.                                        *)

\* What the page has answered is closed.
LEMMA AnsweredClosed ==
    ASSUME WorldInv, AnswersSent
    PROVE  /\ \A done \in answeredHere : ask[done.arg].state = "closed"
           /\ \A h \in Handlers : AnsweredBy(h) =>
                 /\ answering[h].tx \in DOMAIN sent /\ HasAnswered(answering[h].tx)
                 /\ sent[answering[h].tx].call = answering[h].call
                 /\ ask[Subject(h)].state = "closed"
<1>1. \A done \in answeredHere : ask[done.arg].state = "closed"
    BY DEF AnswersSent, WorldInv
<1>2. ASSUME NEW h \in Handlers, AnsweredBy(h)
      PROVE  /\ answering[h].tx \in DOMAIN sent /\ HasAnswered(answering[h].tx)
             /\ sent[answering[h].tx].call = answering[h].call
             /\ ask[Subject(h)].state = "closed"
  <2>1. /\ answering[h].tx \in DOMAIN sent
        /\ sent[answering[h].tx].call = answering[h].call
        /\ sent[answering[h].tx].status = "mined"
        /\ answering[h].call.name \in Answers
      BY <1>2 DEF AnsweredBy, AnswersSent, WriteInv
  <2>2. HasAnswered(answering[h].tx)
      BY <1>2, <2>1 DEF AnsweredBy, HasAnswered
  <2> QED
      BY <2>1, <2>2 DEF WorldInv, Subject
<1> QED
    BY <1>1, <1>2

\* What was seen through stays, whatever is sent and mined.
LEMMA SeenKept ==
    ASSUME AnswersSent, WorldMoves
    PROVE  /\ \A done \in answeredHere :
                 \E t \in DOMAIN sent' : HasAnswered(t)' /\ sent'[t].call = done
           /\ \A h \in Handlers : WriteInv(answering[h]) /\ answering[h].step = "reload" =>
                 sent'[answering[h].tx].chain = sent[answering[h].tx].chain
<1>1. \A t \in DOMAIN sent : HasAnswered(t) => t \in DOMAIN sent' /\ HasAnswered(t)'
    BY DEF WorldMoves, SentMoves, HasAnswered
<1>2. \A t \in DOMAIN sent : /\ t \in DOMAIN sent' /\ sent'[t].call = sent[t].call
                             /\ sent'[t].chain = sent[t].chain
    BY DEF WorldMoves, SentMoves
<1> QED
    BY <1>1, <1>2 DEF AnswersSent, WriteInv

\* The handlers stand still while the world moves.
LEMMA SentKept ==
    ASSUME AnswersSent, WorldMoves, UNCHANGED answerVars
    PROVE  /\ AnswersSent'
           /\ \A h \in Handlers : AnsweredBy(h)' <=> AnsweredBy(h)
<1>1. answering' = answering /\ answeredHere' = answeredHere
    BY DEF answerVars
<1>2. \A h \in Handlers : WriteInv(answering[h])'
  <2>1. ASSUME NEW h \in Handlers PROVE WriteInv(answering[h])'
    <3>1. PICK w : w = answering[h]
        OBVIOUS
    <3>2. WriteInv(w)
        BY <3>1 DEF AnswersSent
    <3>3. WriteInv(w)'
        BY <3>2, WriteKept DEF WorldMoves
    <3> QED
        BY <1>1, <3>1, <3>3 DEF WriteInv
  <2> QED
      BY <2>1
<1> QED
    BY <1>1, <1>2, SeenKept DEF AnswersSent, AnsweredBy

\* Handler h goes on to s; the others stand still.
LEMMA HandlerMoves ==
    ASSUME AnswersSent, WorldMoves, NEW h \in Handlers, NEW s,
           answering' = [answering EXCEPT ![h] = s], WriteInv(s)',
           s.step # "idle" => s.call.name \in Answers /\ s.of \in Accounts,
           \A done \in answeredHere' : done \in answeredHere
              \/ \E t \in DOMAIN sent' : HasAnswered(t)' /\ sent'[t].call = done
    PROVE  /\ AnswersSent' /\ answering'[h] = s
           /\ \A g \in Handlers \ {h} : /\ answering'[g] = answering[g]
                                        /\ AnsweredBy(g)' <=> AnsweredBy(g)
<1>1. /\ s \in WriteType /\ answering \in [Handlers -> WriteType]
      /\ \A g \in Handlers : WriteInv(answering[g])
    BY DEF WriteInv, AnswersSent
<1>2. /\ answering' \in [Handlers -> WriteType] /\ answering'[h] = s
      /\ \A g \in Handlers \ {h} : answering'[g] = answering[g]
    BY <1>1
<1>3. \A g \in Handlers : WriteInv(answering[g])'
  <2>1. ASSUME NEW g \in Handlers \ {h} PROVE WriteInv(answering[g])'
    <3>1. PICK w : w = answering[g]
        OBVIOUS
    <3>2. WriteInv(w)
        BY <1>1, <3>1
    <3>3. WriteInv(w)'
        BY <3>2, WriteKept DEF WorldMoves
    <3> QED
        BY <1>2, <3>1, <3>3 DEF WriteInv
  <2>2. WriteInv(answering[h])'
      BY <1>2 DEF WriteInv
  <2> QED
      BY <2>1, <2>2
<1>4. \A g \in Handlers \ {h} : AnsweredBy(g)' <=> AnsweredBy(g)
    BY <1>1, <1>2, SeenKept DEF AnsweredBy
<1>5. \A done \in answeredHere' :
         \E t \in DOMAIN sent' : HasAnswered(t)' /\ sent'[t].call = done
    BY SeenKept
<1>6. \A g \in Handlers :
         answering'[g].step # "idle" =>
            answering'[g].call.name \in Answers /\ answering'[g].of \in Accounts
    BY <1>2 DEF AnswersSent
<1>7. AnswersSent'
    BY <1>2, <1>3, <1>5, <1>6 DEF AnswersSent
<1> QED
    BY <1>2, <1>4, <1>7

\* The handlers stand still, and so does what is listed.
LEMMA AnswersStill ==
    ASSUME AnswersInv, WorldMoves, UNCHANGED <<answerVars, loadVars, page>>
    PROVE  AnswersInv'
<1>1. /\ UNCHANGED <<answering, processingId, answeredHere, markerMoved,
                     load, listing, listingUnsure, page>>
    BY DEF answerVars, loadVars
<1>2. AnswersSent' /\ \A h \in Handlers : AnsweredBy(h)' <=> AnsweredBy(h)
    BY SentKept DEF AnswersInv
<1>3. FreshInv'
    BY <1>1, <1>2 DEF AnswersInv, FreshInv, Loading, Subject
<1> QED
    BY <1>1, <1>2, <1>3
       DEF AnswersInv, ReloadsApart, MarkInv, Loading, Answering, Subject

\* A load begins, and nothing that was answered is in it.
LEMMA FreshStart ==
    ASSUME NEW l \in Loads, Loading' = Loading \cup {l}, load'[l].found.rows = {},
           ~listingUnsure' => Loading = {}
    PROVE  FreshInv'
BY DEF FreshInv, Lists

LEMMA AnswersBesideStart ==
    ASSUME AnswersInv, LoadsInv, WorldMoves, UNCHANGED <<answerVars, consentVars, page>>,
           page # "/verification",
           NEW l \in Loads, NEW of \in Accounts, StartLoad(l, of)
    PROVE  AnswersInv'
<1>1. UNCHANGED <<answering, processingId, answeredHere, markerMoved, page>>
    BY DEF answerVars
<1>2. AnswersSent'
    BY SentKept DEF AnswersInv
<1>3. Loading' = Loading \cup {l} /\ load'[l].found.rows = {}
    BY LoadStarts
<1>4. ~listingUnsure' => Loading = {}
    BY DEF StartLoad
<1>5. FreshInv'
    BY <1>3, <1>4, FreshStart
<1> QED
    BY <1>1, <1>2, <1>3, <1>5 DEF AnswersInv, ReloadsApart, MarkInv, Answering, Subject

\* What a load reads as open was open, so it was not answered before.
LEMMA FreshRead ==
    ASSUME WorldInv, LoadsInv, AnswersSent, FreshInv,
           UNCHANGED <<answerVars, sent>>, NEW l \in Loads,
           ReadIds(l) \/ ReadCredential(l) \/ ReadAsk(l)
    PROVE  FreshInv' /\ Loading' = Loading
<1>1. /\ \A m \in Loads \ {l} : load'[m] = load[m]
      /\ load[l].step # "idle" /\ load'[l].step # "idle"
      /\ \A row \in load'[l].found.rows :
            row \in load[l].found.rows \/ (row.id \in Asks /\ (row.open => IsOpen(row.id)))
    BY LoadRead
<1>2. UNCHANGED <<listing, listingUnsure, answering, answeredHere, sent>>
    BY DEF answerVars, ReadIds, ReadCredential, ReadAsk
<1>3. Loading' = Loading
    BY <1>1 DEF Loading
<1>4. ASSUME NEW k, ~IsOpen(k), NEW m \in Loading, ~Lists(load[m].found.rows, k)
      PROVE  ~Lists(load'[m].found.rows, k)
    BY <1>1, <1>4 DEF Lists, Loading
<1>5. /\ \A done \in answeredHere : ~IsOpen(done.arg)
      /\ \A h \in Handlers : AnsweredBy(h) => ~IsOpen(Subject(h))
    BY AnsweredClosed DEF IsOpen
<1>6. \A h \in Handlers : (AnsweredBy(h)' <=> AnsweredBy(h)) /\ Subject(h)' = Subject(h)
    BY <1>2 DEF AnsweredBy, Subject
<1> QED
    BY <1>2, <1>3, <1>4, <1>5, <1>6 DEF FreshInv

\* What the only load has found is listed when it ends.
LEMMA FreshEnd ==
    ASSUME LoadsInv, FreshInv, NEW l \in Loads, LoadDone(l) \/ LoadFails(l)
    PROVE  /\ Loading' = Loading \ {l} /\ l \in Loading
           /\ ~listingUnsure' =>
                 /\ Loading' = {}
                 /\ \A done \in answeredHere : ~Lists(listing'.rows, done.arg)
                 /\ \A h \in Handlers : AnsweredBy(h) => ~Lists(listing'.rows, Subject(h))
<1>1. /\ load' = [load EXCEPT ![l] = NoLoad] /\ load \in [Loads -> LoadType]
      /\ l \in Loading
    BY DEF LoadDone, LoadFails, LoadsInv, Loading
<1>2. Loading' = Loading \ {l}
    BY <1>1 DEF Loading, NoLoad
<1>3. ASSUME ~listingUnsure'
      PROVE  /\ Loading' = {} /\ ~listingUnsure /\ listing' = load[l].found
    BY <1>1, <1>2, <1>3 DEF LoadDone, LoadFails, LoadsInv
<1> QED
    BY <1>1, <1>2, <1>3 DEF FreshInv

\* A load goes on that no handler awaits, or that does not end yet.
LEMMA AnswersBesideLoad ==
    ASSUME WorldInv, LoadsInv, AnswersInv, WorldMoves,
           UNCHANGED <<answerVars, sent, page>>, NEW l \in Loads, LoadGoesOn(l),
           load'[l].step = "idle" =>
              \A h \in Handlers : answering[h].step = "reload" => answering[h].reload # l
    PROVE  AnswersInv'
<1>1. UNCHANGED <<answering, processingId, answeredHere, markerMoved, sent, page>>
    BY DEF answerVars
<1>2. AnswersSent'
    BY SentKept DEF AnswersInv
<1>3. CASE ReadIds(l) \/ ReadCredential(l) \/ ReadAsk(l)
  <2>1. FreshInv' /\ Loading' = Loading
      BY <1>3, FreshRead DEF AnswersInv
  <2> QED
      BY <1>1, <1>2, <2>1 DEF AnswersInv, ReloadsApart, MarkInv, Answering, Subject
<1>4. CASE LoadDone(l) \/ LoadFails(l)
  <2>1. /\ Loading' = Loading \ {l}
        /\ ~listingUnsure' =>
              /\ Loading' = {}
              /\ \A done \in answeredHere : ~Lists(listing'.rows, done.arg)
      BY <1>4, FreshEnd DEF AnswersInv
  <2>2. FreshInv'
      BY <1>1, <2>1 DEF FreshInv
  <2>3. load'[l].step = "idle"
      BY <1>4 DEF LoadDone, LoadFails, LoadsInv, NoLoad
  <2> QED
      BY <1>1, <1>2, <2>1, <2>2, <2>3
         DEF AnswersInv, ReloadsApart, MarkInv, Answering, Subject
<1> QED
    BY <1>3, <1>4 DEF LoadGoesOn

\* A button is pressed: nothing is being answered, or the mark has moved.
LEMMA AnswersPress ==
    ASSUME WorldInv, LoadsInv, AnswersInv, WorldMoves, UNCHANGED page,
           page = "/employee/requests",
           NEW h \in Handlers, NEW row \in listing.rows, NEW name \in Answers,
           Press(h, row, name)
    PROVE  AnswersInv'
<1> DEFINE call == Call(name, row.id)
<1>0. PICK s : s = Begun(call)
    OBVIOUS
<1>1. /\ answering' = [answering EXCEPT ![h] = s] /\ processingId' = row.id
      /\ markerMoved' = (Answering # {} /\
            (markerMoved \/ \E g \in Answering : Subject(g) # row.id))
      /\ processingId # row.id /\ answering[h].step = "idle"
      /\ UNCHANGED <<load, listing, listingUnsure, answeredHere, sent>>
    BY <1>0 DEF Press, ButtonsEnabled, Free, loadVars
<1>2. call \in CallType /\ call.name = name /\ call.arg = row.id
    BY DEF CallType, Call, LoadsInv, ListingType
<1> HIDE DEF call
<1>3. WriteInv(s) /\ s.call = call /\ s.step = "sign" /\ s.of \in Accounts
  <2>1. account \in Accounts
      BY DEF Press, ButtonsEnabled, ListShown, isConnected, WorldInv, Who
  <2> QED
      BY <1>0, <1>2, <2>1, WriteBegun
<1>4. WriteInv(s)'
    BY <1>1, <1>3 DEF WriteInv
<1>5. /\ AnswersSent' /\ answering'[h] = s
      /\ \A g \in Handlers \ {h} : /\ answering'[g] = answering[g]
                                   /\ AnsweredBy(g)' <=> AnsweredBy(g)
    BY <1>1, <1>2, <1>3, <1>4, HandlerMoves DEF AnswersInv
<1>6. Loading' = Loading /\ Answering' = Answering \cup {h} /\ h \notin Answering
    BY <1>1, <1>3, <1>5 DEF Loading, Answering
<1>7. ReloadsApart'
    BY <1>3, <1>5, <1>6 DEF AnswersInv, ReloadsApart
<1>8. MarkInv'
  <2>1. ~markerMoved' => Answering = {}
      BY <1>1 DEF AnswersInv, MarkInv
  <2> QED
      BY <1>1, <1>2, <1>3, <1>5, <1>6, <2>1 DEF MarkInv, Subject
<1>9. FreshInv'
  <2>1. \A g \in Handlers : AnsweredBy(g)' => AnsweredBy(g) /\ Subject(g)' = Subject(g)
      BY <1>3, <1>5 DEF AnsweredBy, Subject
  <2> QED
      BY <1>1, <1>6, <2>1 DEF AnswersInv, FreshInv
<1> QED
    BY <1>1, <1>5, <1>7, <1>8, <1>9 DEF AnswersInv

\* An answer is sent.
LEMMA AnswersSend ==
    ASSUME WorldInv, AnswersInv, WorldMoves, UNCHANGED <<pageVars, consentVars, page>>,
           page = "/employee/requests", NEW h \in Handlers, AnswerSent(h)
    PROVE  AnswersInv'
<1>0. PICK s : s = Waiting(answering[h])
    OBVIOUS
<1>1. /\ answering' = [answering EXCEPT ![h] = s]
      /\ SendWrite(answering[h], Passes(answering[h].by, answering[h].call))
      /\ answering[h].step = "sign"
      /\ UNCHANGED <<load, listing, listingUnsure, processingId, answeredHere, markerMoved>>
    BY <1>0 DEF AnswerSent, SendWrite, loadVars, AnswersInv, AnswersSent
<1>2. /\ WriteInv(answering[h]) /\ answering[h].call.name \in Answers
      /\ answering[h].of \in Accounts
    BY <1>1 DEF AnswersInv, AnswersSent
<1>3. /\ WriteInv(s)' /\ s.call = answering[h].call /\ s.step = "mine"
      /\ s.of = answering[h].of
    BY <1>0, <1>1, <1>2, SendStep
<1>5. /\ AnswersSent' /\ answering'[h] = s
      /\ \A g \in Handlers \ {h} : /\ answering'[g] = answering[g]
                                   /\ AnsweredBy(g)' <=> AnsweredBy(g)
    BY <1>1, <1>2, <1>3, HandlerMoves DEF AnswersInv
<1>6. Loading' = Loading /\ Answering' = Answering /\ \A g \in Handlers : Subject(g)' = Subject(g)
    BY <1>1, <1>3, <1>5 DEF Loading, Answering, Subject
<1>7. ReloadsApart' /\ MarkInv'
  <2>1. ReloadsApart'
      BY <1>3, <1>5, <1>6 DEF AnswersInv, ReloadsApart
  <2>2. \A g \in Answering : g \in Handlers
      BY DEF Answering
  <2> QED
      BY <1>1, <1>6, <2>1, <2>2 DEF AnswersInv, MarkInv
<1>8. FreshInv'
  <2>1. \A g \in Handlers : AnsweredBy(g)' => AnsweredBy(g)
      BY <1>3, <1>5 DEF AnsweredBy
  <2> QED
      BY <1>1, <1>6, <2>1 DEF AnswersInv, FreshInv
<1> QED
    BY <1>1, <1>5, <1>7, <1>8 DEF AnswersInv

\* An answer is mined, and its handler waits for a load of its own.
LEMMA AnswersMine ==
    ASSUME WorldInv, LoadsInv, AnswersInv, WorldMoves,
           UNCHANGED <<pageVars, consentVars, page>>,
           page = "/employee/requests", NEW h \in Handlers, AnswerMined(h)
    PROVE  AnswersInv'
<1>1. PICK l \in Loads : /\ StartLoad(l, answering[h].of)
                         /\ answering' = [answering EXCEPT ![h] = Reloading(answering[h], l)]
    BY DEF AnswerMined, AnswersInv, AnswersSent
<1>2. PICK s : s = Reloading(answering[h], l)
    OBVIOUS
<1>3. /\ answering' = [answering EXCEPT ![h] = s] /\ Mined(answering[h])
      /\ UNCHANGED <<processingId, answeredHere, markerMoved, sent>>
    BY <1>1, <1>2 DEF AnswerMined
<1>4. /\ WriteInv(answering[h]) /\ answering[h].call.name \in Answers
      /\ answering[h].step = "mine" /\ answering[h].of \in Accounts
    BY <1>3 DEF AnswersInv, AnswersSent, Mined
<1>5. /\ WriteInv(s) /\ s.call = answering[h].call /\ s.tx = answering[h].tx
      /\ s.of = answering[h].of
      /\ s.step = "reload" /\ s.reload = l
    BY <1>2, <1>3, <1>4, WriteReloads
<1>6. WriteInv(s)'
    BY <1>3, <1>5 DEF WriteInv
<1>7. /\ AnswersSent' /\ answering'[h] = s
      /\ \A g \in Handlers \ {h} : /\ answering'[g] = answering[g]
                                   /\ AnsweredBy(g)' <=> AnsweredBy(g)
    BY <1>3, <1>4, <1>5, <1>6, HandlerMoves DEF AnswersInv
<1>8. Loading' = Loading \cup {l} /\ l \notin Loading /\ load'[l].found.rows = {}
    BY <1>1, <1>4, LoadStarts
<1>9. ~listingUnsure' => Loading = {}
    BY <1>1 DEF StartLoad
<1>10. FreshInv'
    BY <1>8, <1>9, FreshStart
<1>11. ReloadsApart'
    BY <1>5, <1>7, <1>8 DEF AnswersInv, ReloadsApart
<1>12. Answering' = Answering /\ \A g \in Handlers : Subject(g)' = Subject(g)
    BY <1>4, <1>5, <1>7 DEF Answering, Subject
<1>13. MarkInv'
  <2>1. \A g \in Answering : g \in Handlers
      BY DEF Answering
  <2> QED
      BY <1>3, <1>12, <2>1 DEF AnswersInv, MarkInv
<1> QED
    BY <1>7, <1>10, <1>11, <1>13 DEF AnswersInv

\* A handler ends, and the mark goes with it.
LEMMA AnswersEnd ==
    ASSUME AnswersInv, WorldMoves, NEW h \in Answering, Ended(h),
           \A done \in answeredHere' : done \in answeredHere
              \/ \E t \in DOMAIN sent' : HasAnswered(t)' /\ sent'[t].call = done
    PROVE  /\ AnswersSent' /\ MarkInv'
           /\ answering'[h].step = "idle"
           /\ \A g \in Handlers \ {h} : /\ answering'[g] = answering[g]
                                        /\ AnsweredBy(g)' <=> AnsweredBy(g)
<1>0. PICK s : s = NoWrite
    OBVIOUS
<1>1. /\ h \in Handlers /\ answering' = [answering EXCEPT ![h] = s]
      /\ markerMoved' = (Answering # {h})
    BY <1>0 DEF Ended, Answering
<1>2. WriteInv(s) /\ s.step = "idle"
    BY <1>0, NothingWritten
<1>3. WriteInv(s)'
    BY <1>2 DEF WriteInv
<1>4. /\ AnswersSent' /\ answering'[h] = s
      /\ \A g \in Handlers \ {h} : /\ answering'[g] = answering[g]
                                   /\ AnsweredBy(g)' <=> AnsweredBy(g)
    BY <1>1, <1>2, <1>3, HandlerMoves DEF AnswersInv
<1>5. Answering' = Answering \ {h}
    BY <1>2, <1>4 DEF Answering
<1>6. MarkInv'
    BY <1>1, <1>5 DEF MarkInv
<1> QED
    BY <1>2, <1>4, <1>6

LEMMA AnswersFail ==
    ASSUME AnswersInv, WorldMoves, UNCHANGED page, page = "/employee/requests",
           NEW h \in Handlers, AnswerFails(h)
    PROVE  AnswersInv'
<1>1. /\ h \in Answering /\ Ended(h)
      /\ UNCHANGED <<load, listing, listingUnsure, answeredHere, sent>>
    BY DEF AnswerFails, WriteFails, Answering, loadVars
<1>2. /\ AnswersSent' /\ MarkInv'
      /\ answering'[h].step = "idle"
      /\ \A g \in Handlers \ {h} : /\ answering'[g] = answering[g]
                                   /\ AnsweredBy(g)' <=> AnsweredBy(g)
    BY <1>1, AnswersEnd
<1>3. Loading' = Loading
    BY <1>1 DEF Loading
<1>4. ReloadsApart'
    BY <1>2, <1>3 DEF AnswersInv, ReloadsApart
<1>5. FreshInv'
  <2>1. \A g \in Handlers : AnsweredBy(g)' => AnsweredBy(g) /\ Subject(g)' = Subject(g)
      BY <1>2 DEF AnsweredBy, Subject
  <2> QED
      BY <1>1, <1>3, <2>1 DEF AnswersInv, FreshInv
<1> QED
    BY <1>1, <1>2, <1>4, <1>5 DEF AnswersInv

\* The load that a handler awaits ends, and the handler with it.
LEMMA AnswersSeen ==
    ASSUME WorldInv, LoadsInv, AnswersInv, WorldMoves, UNCHANGED <<sent, page>>,
           page = "/employee/requests",
           NEW l \in Loads, LoadDone(l) \/ LoadFails(l),
           NEW h \in Answering,
           answering[h].step = "reload", answering[h].reload = l, Ended(h),
           answeredHere' = answeredHere \cup
              (IF sent[answering[h].tx].chain = RegistryChain
               THEN {answering[h].call} ELSE {})
    PROVE  AnswersInv'
<1>1. /\ h \in Handlers
      /\ AnsweredBy(h) => /\ answering[h].tx \in DOMAIN sent /\ HasAnswered(answering[h].tx)
                          /\ sent[answering[h].tx].call = answering[h].call
    BY AnsweredClosed DEF AnswersInv, Answering
<1>2. \A done \in answeredHere' :
         done \in answeredHere \/ (AnsweredBy(h) /\ done = answering[h].call)
    BY DEF AnsweredBy
<1>3. /\ AnswersSent' /\ MarkInv'
      /\ answering'[h].step = "idle"
      /\ \A g \in Handlers \ {h} : /\ answering'[g] = answering[g]
                                   /\ AnsweredBy(g)' <=> AnsweredBy(g)
  <2>1. \A done \in answeredHere' : done \in answeredHere
           \/ \E t \in DOMAIN sent' : HasAnswered(t)' /\ sent'[t].call = done
    <3>1. AnsweredBy(h) => \E t \in DOMAIN sent' :
                              HasAnswered(t)' /\ sent'[t].call = answering[h].call
        BY <1>1 DEF HasAnswered
    <3> QED
        BY <1>2, <3>1
  <2> QED
      BY <2>1, AnswersEnd
<1>4. /\ Loading' = Loading \ {l}
      /\ ~listingUnsure' =>
            /\ Loading' = {}
            /\ \A done \in answeredHere : ~Lists(listing'.rows, done.arg)
            /\ AnsweredBy(h) => ~Lists(listing'.rows, Subject(h))
    BY <1>1, FreshEnd DEF AnswersInv
<1>5. ReloadsApart'
    BY <1>1, <1>3, <1>4 DEF AnswersInv, ReloadsApart
<1>6. FreshInv'
    BY <1>2, <1>4 DEF FreshInv, Subject
<1> QED
    BY <1>3, <1>5, <1>6 DEF AnswersInv

LEMMA AnswersKept ==
    ASSUME ReaderInv, [ReaderNext]_readerVars
    PROVE  AnswersInv'
<1>0. WorldInv /\ LoadsInv /\ AnswersInv /\ WorldInv' /\ WorldMoves
    BY WorldStep DEF ReaderInv
<1>1. page' = page
    BY DEF ReaderNext, readerVars
<1>2. CASE UNCHANGED <<answerVars, loadVars>>
    BY <1>0, <1>1, <1>2, AnswersStill
<1>3. CASE /\ UNCHANGED <<answerVars, consentVars>> /\ page # "/verification"
           /\ \E l \in Loads, of \in Accounts : StartLoad(l, of)
    BY <1>0, <1>1, <1>3, AnswersBesideStart
<1>4. ASSUME UNCHANGED pageVars PROVE account' = account /\ account \in Who
    BY <1>0, <1>4 DEF pageVars, WorldInv
<1>5. ASSUME Reload, UNCHANGED pageVars PROVE \E l \in Loads, of \in Accounts : StartLoad(l, of)
    BY <1>4, <1>5 DEF Reload, isConnected, Who
<1>6. ASSUME ListingFollows
      PROVE  \/ UNCHANGED loadVars
             \/ \E l \in Loads, of \in Accounts : StartLoad(l, of)
  <2>1. account' \in Who
      BY <1>0 DEF WorldInv
  <2> QED
      BY <1>6, <2>1 DEF ListingFollows, Who
<1>7. CASE Acts
  <2>1. CASE page = "/verification"
      BY <1>2, <1>7, <2>1 DEF Acts
  <2>2. CASE page = "/employee"
      BY <1>2, <1>3, <1>5, <1>7, <2>2 DEF Acts, EmployeeAct
  <2>3. CASE page = "/employee/requests"
    <3>1. CASE Reload /\ UNCHANGED answerVars
        BY <1>3, <1>5, <1>7, <2>3, <3>1 DEF Acts
    <3>2. CASE \E h \in Handlers, row \in listing.rows, name \in Answers : Press(h, row, name)
        BY <1>0, <1>1, <2>3, <3>2, AnswersPress
    <3> QED
        BY <1>7, <2>3, <3>1, <3>2 DEF Acts, RequestsAct, Answers
  <2> QED
      BY <1>7, <2>1, <2>2, <2>3 DEF Acts
<1>8. CASE Follows
  <2>1. CASE page = "/verification"
      BY <1>2, <1>8, <2>1 DEF Follows
  <2>2. CASE page # "/verification"
      BY <1>2, <1>3, <1>6, <1>8, <2>2
         DEF Follows, EmployeeFollows, RequestsFollow, chainVars
  <2> QED
      BY <2>1, <2>2
<1>9. CASE Goes
  <2>0. UNCHANGED <<pageVars, consentVars>>
      BY <1>9 DEF Goes
  <2>1. CASE page = "/verification"
      BY <1>2, <1>9, <2>1 DEF Goes
  <2>2. CASE page = "/employee"
    <3>1. CASE UNCHANGED loadVars
        BY <1>2, <1>9, <2>2, <3>1 DEF Goes
    <3>2. CASE \E l \in Loads : LoadGoesOn(l)
      <4>1. PICK l \in Loads : LoadGoesOn(l)
          BY <3>2
      <4>2. UNCHANGED <<answerVars, sent, page>>
          BY <1>1, <1>9, <2>2 DEF Goes
      <4>3. \A h \in Handlers : answering[h].step # "reload"
          BY <1>0, <2>2 DEF AnswersInv, Answering
      <4> QED
          BY <1>0, <4>1, <4>2, <4>3, AnswersBesideLoad
    <3> QED
        BY <1>9, <2>2, <3>1, <3>2 DEF Goes, EmployeeStep
  <2>3. CASE page = "/employee/requests"
    <3>1. CASE \E h \in Handlers : AnswerSent(h)
        BY <1>0, <1>1, <2>0, <2>3, <3>1, AnswersSend
    <3>2. CASE \E h \in Handlers : AnswerMined(h)
        BY <1>0, <1>1, <2>0, <2>3, <3>2, AnswersMine
    <3>3. CASE \E h \in Handlers : AnswerFails(h)
        BY <1>0, <1>1, <2>3, <3>3, AnswersFail
    <3>4. CASE \E l \in Loads : RequestsLoad(l)
      <4>1. PICK l \in Loads : RequestsLoad(l)
          BY <3>4
      <4> DEFINE awaiting == {h \in Answering : /\ answering[h].step = "reload"
                                                /\ answering[h].reload = l}
      <4>2. LoadGoesOn(l) /\ UNCHANGED <<sent, page>>
          BY <1>1, <4>1 DEF RequestsLoad
      <4>3. CASE load'[l].step = "idle" /\ awaiting # {}
        <5>1. PICK h \in awaiting :
                 /\ Ended(h)
                 /\ answeredHere' = answeredHere \cup
                      (IF sent[answering[h].tx].chain = RegistryChain
                       THEN {answering[h].call} ELSE {})
            BY <4>1, <4>3 DEF RequestsLoad
        <5>2. LoadDone(l) \/ LoadFails(l)
            BY <1>0, <4>2, <4>3, LoadRead DEF LoadGoesOn
        <5> QED
            BY <1>0, <2>3, <4>2, <5>1, <5>2, AnswersSeen
      <4>4. CASE ~(load'[l].step = "idle" /\ awaiting # {})
        <5>1. UNCHANGED answerVars
            BY <4>1, <4>4 DEF RequestsLoad
        <5>2. load'[l].step = "idle" =>
                 \A h \in Handlers : answering[h].step = "reload" => answering[h].reload # l
            BY <4>4 DEF Answering
        <5> QED
            BY <1>0, <4>2, <5>1, <5>2, AnswersBesideLoad
      <4> QED
          BY <4>3, <4>4
    <3> QED
        BY <1>9, <2>3, <3>1, <3>2, <3>3, <3>4 DEF Goes, RequestsStep
  <2> QED
      BY <1>9, <2>1, <2>2, <2>3 DEF Goes
<1>10. CASE Chain \/ Others \/ UNCHANGED readerVars
    BY <1>2, <1>10 DEF Chain, Others, readerVars
<1> QED
    BY <1>7, <1>8, <1>9, <1>10 DEF ReaderNext

-----------------------------------------------------------------------------
(* The theorems.                                                            *)

LEMMA ReaderBegins == ReaderInit => ReaderInv
<1> SUFFICES ASSUME ReaderInit PROVE ReaderInv
    OBVIOUS
<1>1. WorldInv
  <2>1. /\ owner \in [Credentials -> Wallets \cup {Nobody}] /\ sent = <<>> /\ page \in Pages
        /\ account = NoAccount /\ signer = NoAccount /\ network \in Chains
      BY DEF ReaderInit, IssuedInit, PageInit
  <2>2. /\ ask \in [Asks -> {NoAsk} \cup
                      [credential: Credentials, verifier: Accounts, state: {"open"}]]
        /\ \A k \in Asks : ask[k] = NoAsk \/ owner[ask[k].credential] # Nobody
      BY DEF ReaderInit, IssuedInit
  <2>3. ask \in [Asks -> AskType]
    <3>1. NoAsk \in AskType
        BY DEF NoAsk, AskType, MaybeCredential, Who
    <3>2. [credential: Credentials, verifier: Accounts, state: {"open"}] \subseteq AskType
        BY DEF AskType, MaybeCredential, Who
    <3> QED
        BY <2>2, <3>1, <3>2
  <2>4. \A k \in Asks : AskSound(k)
      BY <2>2 DEF NoAsk, AskSound
  <2>5. sent \in Seq(SentType) /\ DOMAIN sent = {}
      BY <2>1
  <2> QED
      BY <2>1, <2>3, <2>4, <2>5 DEF WorldInv, Who
<1>2. VerifierInv
  <2>1. /\ search = NoSearch /\ shown = NoShown /\ check = [k \in Checks |-> NoCheck]
        /\ request = NoWrite /\ requestSuccess = 0 /\ decrypt = NoDecrypt
        /\ decryptedDoc = NoCredential
      BY DEF ReaderInit, VerifierInit
  <2>2. /\ search \in SearchType /\ shown \in ShownType /\ decrypt \in DecryptType
        /\ NoCheck \in CheckType /\ search.step = "idle" /\ decrypt.step = "idle"
      BY <2>1 DEF NoSearch, NoShown, NoCheck, NoDecrypt, SearchType, ShownType, CheckType,
                  DecryptType, MaybeCredential, Who
  <2>3. WriteInv(request) /\ request.step = "idle"
      BY <2>1, NothingWritten
  <2> QED
      BY <2>1, <2>2, <2>3
         DEF VerifierInv, ChecksInv, CarryInv, isSearching, MaybeCredential
<1>3. /\ load = [l \in Loads |-> NoLoad] /\ listing = NoListing /\ Loading = {}
    BY DEF ReaderInit, LoadsInit, Loading, NoLoad
<1>4. LoadsInv
  <2>1. NoLoad \in LoadType /\ LoadInv(NoLoad) /\ NoListing \in ListingType
      BY DEF NoLoad, NoListing, LoadType, ListingType, LoadInv, Who
  <2>2. load \in [Loads -> LoadType] /\ \A l \in Loads : LoadInv(load[l])
      BY <1>3, <2>1
  <2>3. Own(listing, account) /\ listing.open = {}
      BY <1>3 DEF Own, NoListing
  <2> QED
      BY <1>3, <2>1, <2>2, <2>3 DEF LoadsInv
<1>5. HashInv
    BY DEF ReaderInit, EmployeeInit, HashInv, NoHashSearch, HashSearchInv, SearchesByHash
<1>6. AnswersInv
  <2>1. /\ answering = [h \in Handlers |-> NoWrite] /\ answeredHere = {}
      BY DEF ReaderInit, RequestsInit
  <2>2. /\ \A h \in Handlers : WriteInv(answering[h]) /\ answering[h].step = "idle"
        /\ answering \in [Handlers -> WriteType]
      BY <2>1, NothingWritten DEF WriteInv
  <2>3. Answering = {}
      BY <2>2 DEF Answering
  <2> QED
      BY <1>3, <2>1, <2>2, <2>3
         DEF AnswersInv, AnswersSent, ReloadsApart, MarkInv, FreshInv
<1> QED
    BY <1>1, <1>2, <1>4, <1>5, <1>6 DEF ReaderInv

LEMMA ReaderHolds == ReaderSpec => []ReaderInv
<1>1. ReaderInv /\ [ReaderNext]_readerVars => ReaderInv'
    BY WorldStep, VerifierKept, LoadsKept, HashStep, AnswersKept DEF ReaderInv
<1> QED
    BY <1>1, ReaderBegins, PTL DEF ReaderSpec

\* Verification.tsx: with every check answered, isAuthorized is the answer for
\* the attestation and the account the page shows, whatever the order in which
\* handleSearch, the effect and the wallet's changes began their checks.
THEOREM AuthorizationForWhatIsShown == ReaderSpec => []AuthorizationIsAnswered
<1>1. ReaderInv => AuthorizationIsAnswered
    BY DEF ReaderInv, VerifierInv, ChecksInv, AuthorizationIsAnswered
<1> QED
    BY <1>1, ReaderHolds, PTL

\* handleSearch, handleRequestAccess and handleDecryptDocument: the open document
\* and the message of a submitted request are about the attestation shown, unless
\* a search has begun while their handler ran.
THEOREM ResultsAreForWhatIsShown == ReaderSpec => []NothingCarriesOver
<1>1. ReaderInv => NothingCarriesOver
    BY DEF ReaderInv, VerifierInv, CarryInv, NothingCarriesOver
<1> QED
    BY <1>1, ReaderHolds, PTL

\* loadEmployeeData and loadAccessRequests: read in many steps while the registry
\* moves, the list shows the account's own and misses no request that was open
\* when the load began and still is.
THEOREM ListingsAreRight == ReaderSpec => []ListingIsRight
<1>1. ReaderInv => ListingIsRight
  <2> SUFFICES ASSUME ReaderInv, ListingSettled
               PROVE  /\ \A row \in listing.credentials :
                            owner[row.id] = account /\ (row.withdrawn => row.id \in withdrawn)
                      /\ \A row \in listing.rows : owner[row.credential] = account
                      /\ \A k \in listing.open : IsOpen(k) /\ owner[ask[k].credential] = account =>
                            OpenRow(k) \in listing.rows
      BY DEF ListingIsRight, OpenRow
  <2>1. /\ Own(listing, account)
        /\ \A k \in listing.open : IsOpen(k) /\ Owned(k, account) => OpenRow(k) \in listing.rows
      BY DEF ReaderInv, LoadsInv
  <2> QED
      BY <2>1 DEF Own, Owned, IsOpen
<1> QED
    BY <1>1, ReaderHolds, PTL

\* handleHashSearch: while others issue and withdraw, and the rows are read one by
\* one, what is shown is at least what was under the hash when the search began,
\* with the withdrawals made by then, and no more than what is so by now.
THEOREM HashResultsWhole == ReaderSpec => []HashResultsAreWhole
<1>1. ReaderInv => HashResultsAreWhole
  <2> SUFFICES ASSUME HashInv, NEW found \in hashResults
               PROVE  LET ids == {row.id : row \in found.rows}
                          revoked == {row.id : row \in {r \in found.rows : r.withdrawn}}
                      IN  /\ found.known \subseteq ids /\ ids \subseteq UnderHash(found.hash)
                          /\ found.gone \subseteq revoked /\ revoked \subseteq withdrawn
      BY DEF ReaderInv, HashResultsAreWhole
  <2>1. /\ HashSearchInv(found)
        /\ \A c \in found.known : ReadRow(found, c)
      BY DEF HashInv
  <2>2. \A c \in found.gone : c \in found.known
      BY <2>1 DEF HashSearchInv
  <2> QED
      BY <2>1, <2>2 DEF HashSearchInv, ReadRow
<1> QED
    BY <1>1, ReaderHolds, PTL

\* handleApprove and handleReject: what the page has seen through is closed in the
\* registry, with one verdict, and listed so while the list is to be trusted.
THEOREM SeenAnswersStand == ReaderSpec => []AnswersStand
<1>1. ReaderInv => AnswersStand
  <2> SUFFICES ASSUME ReaderInv, NEW done \in answeredHere
               PROVE  /\ ~IsOpen(done.arg)
                      /\ \A other \in answeredHere : other.arg = done.arg => other = done
                      /\ ListingSettled => \A row \in pendingRequests : row.id # done.arg
      BY DEF AnswersStand
  <2>1. /\ \A d \in answeredHere :
              \E t \in DOMAIN sent : HasAnswered(t) /\ sent[t].call = d
        /\ \A t, u \in DOMAIN sent :
              HasAnswered(t) /\ HasAnswered(u) /\ sent[t].call.arg = sent[u].call.arg => t = u
      BY DEF ReaderInv, AnswersInv, AnswersSent, WorldInv
  <2>2. ~IsOpen(done.arg)
      BY AnsweredClosed DEF ReaderInv, AnswersInv, IsOpen
  <2>3. \A other \in answeredHere : other.arg = done.arg => other = done
      BY <2>1
  <2>4. ListingSettled => ~Lists(listing.rows, done.arg)
      BY DEF ReaderInv, AnswersInv, FreshInv, ListingSettled
  <2> QED
      BY <2>2, <2>3, <2>4 DEF Lists, pendingRequests
<1> QED
    BY <1>1, ReaderHolds, PTL

\* processingId: a request is answered twice at once only after an answer to
\* another request has moved the mark or taken it away.
THEOREM TwiceOnlyOnceUnmarked == ReaderSpec => []TwiceOnlyUnmarked
<1>1. ReaderInv => TwiceOnlyUnmarked
    BY DEF ReaderInv, AnswersInv, MarkInv, TwiceOnlyUnmarked
<1> QED
    BY <1>1, ReaderHolds, PTL

=============================================================================
