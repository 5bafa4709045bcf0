---------------------------- MODULE VerifierPortal ----------------------------
(***************************************************************************)
(* The page src/frontend/src/pages/Verification.tsx: a verifier looks an   *)
(* attestation up, learns whether it may read the document, asks for       *)
(* access and opens the document.  Every answer is stored without looking  *)
(* at what the page shows by then.                                         *)
(***************************************************************************)
EXTENDS ReaderSession

CONSTANTS
    Documented,  \* the credentials with a document
    Checks       \* calls of checkAuthorization that may be in flight, numbered

ASSUME DocumentAssumption == Documented \subseteq Credentials

VARIABLES
    search,          \* handleSearch
    shown,           \* attestation: the credential found and its status then
    check,           \* slot -> a call of checkAuthorization
    isAuthorized,
    answerFor,       \* the credential and verifier isAuthorized was answered for
    checksUnsure,    \* different checks overlapped, or the last failed or was for another pair
    request,         \* handleRequestAccess
    requestSuccess,  \* the transaction reported as submitted, or 0
    decrypt,         \* handleDecryptDocument
    decryptedDoc,    \* the credential whose document is open, or NoCredential
    carriedOver      \* a search has begun while a request or a decryption ran

checkVars == <<check, isAuthorized, answerFor, checksUnsure>>
verifierVars == <<search, shown, checkVars, request, requestSuccess, decrypt,
                  decryptedDoc, carriedOver>>

NoSearch == [step |-> "idle", id |-> NoCredential, of |-> NoAccount,
             withdrawn |-> FALSE]
NoShown == [id |-> NoCredential, withdrawn |-> FALSE]
NoCheck == [step |-> "idle", id |-> NoCredential, of |-> NoAccount, answer |-> FALSE]
NoDecrypt == [step |-> "idle", id |-> NoCredential, of |-> NoAccount,
              by |-> NoAccount, late |-> FALSE]

Checking == {k \in Checks : check[k].step # "idle"}

VerifierInit ==
    /\ search = NoSearch
    /\ shown = NoShown
    /\ check = [k \in Checks |-> NoCheck]
    /\ isAuthorized = FALSE
    /\ answerFor = <<NoCredential, NoAccount>>
    /\ checksUnsure = FALSE
    /\ request = NoWrite
    /\ requestSuccess = 0
    /\ decrypt = NoDecrypt
    /\ decryptedDoc = NoCredential
    /\ carriedOver = FALSE

isSearching == search.step # "idle"

\* The section on the document, in the order of its conditions.
SectionShown ==
    shown.id \in Documented /\ ~shown.withdrawn /\ isConnected
AuthorizedShown == SectionShown /\ isAuthorized
RequestFormShown == SectionShown /\ ~isAuthorized

-----------------------------------------------------------------------------
(* checkAuthorization                                                       *)

Checked(id, of) ==
    [NoCheck EXCEPT !.step = "asked", !.id = id, !.of = of]

\* Begins a check of id for each account listed, in the first free slots.
StartChecks(id, accounts) ==
    LET free == Checks \ Checking IN
    /\ \E slot \in [DOMAIN accounts -> free] :
          /\ \A m, n \in DOMAIN accounts : m < n => slot[m] < slot[n]
          /\ \A k \in free, n \in DOMAIN accounts :
                k < slot[n] => \E m \in DOMAIN accounts : slot[m] = k
          /\ check' = [k \in Checks |->
                IF \E n \in DOMAIN accounts : slot[n] = k
                THEN Checked(id, accounts[CHOOSE n \in DOMAIN accounts : slot[n] = k])
                ELSE check[k]]
    /\ checksUnsure' = \E k \in Checks :
          /\ check'[k].step # "idle"
          /\ <<check'[k].id, check'[k].of>> # <<id, account'>>
    /\ UNCHANGED <<isAuthorized, answerFor>>

ReadAccess(k) ==
    /\ check[k].step = "asked"
    /\ check' = [check EXCEPT ![k].step = "told",
                    ![k].answer = MayRead(check[k].id, check[k].of)]
    /\ UNCHANGED <<isAuthorized, answerFor, checksUnsure>>

ReceiveAccess(k) ==
    /\ check[k].step = "told"
    /\ isAuthorized' = check[k].answer
    /\ answerFor' = <<check[k].id, check[k].of>>
    /\ check' = [check EXCEPT ![k] = NoCheck]
    /\ UNCHANGED checksUnsure

CheckFails(k) ==
    /\ check[k].step # "idle"
    /\ isAuthorized' = FALSE
    /\ checksUnsure' = TRUE
    /\ check' = [check EXCEPT ![k] = NoCheck]
    /\ UNCHANGED answerFor

CheckStep(k) ==
    /\ ReadAccess(k) \/ ReceiveAccess(k) \/ CheckFails(k)
    /\ UNCHANGED <<search, shown, request, requestSuccess, decrypt, decryptedDoc,
                   carriedOver, sent>>

\* Faulty variant: the effect does not run for another account.
AccessFollows_Never == UNCHANGED checkVars

\* The effect: the account or the attestation has changed.
AccessFollows ==
    IF shown.id # NoCredential /\ account' \notin {account, NoAccount}
    THEN StartChecks(shown.id, <<account'>>)
    ELSE UNCHANGED checkVars

-----------------------------------------------------------------------------
(* handleSearch                                                             *)

\* Faulty variant: the document and the message of the last search are kept.
Search_KeepsResults(id) ==
    /\ ~isSearching
    /\ search' = [NoSearch EXCEPT !.step = "attestation", !.id = id, !.of = account]
    /\ shown' = NoShown
    /\ isAuthorized' = FALSE
    /\ carriedOver' = (carriedOver \/ request.step # "idle" \/ decrypt.step # "idle")
    /\ UNCHANGED <<check, answerFor, checksUnsure, request, requestSuccess,
                   decrypt, decryptedDoc, sent>>

\* Everything found before is taken off the page.
Search(id) ==
    /\ ~isSearching
    /\ search' = [NoSearch EXCEPT !.step = "attestation", !.id = id, !.of = account]
    /\ shown' = NoShown
    /\ isAuthorized' = FALSE
    /\ requestSuccess' = 0
    /\ decryptedDoc' = NoCredential
    /\ carriedOver' = (carriedOver \/ request.step # "idle" \/ decrypt.step # "idle")
    /\ UNCHANGED <<check, answerFor, checksUnsure, request, decrypt, sent>>

\* The attestation is read, then its employer's profile.
ReadFound ==
    /\ search.step = "attestation"
    /\ owner[search.id] # Nobody
    /\ search' = [search EXCEPT !.step = "employer",
                     !.withdrawn = search.id \in withdrawn]
    /\ UNCHANGED <<shown, checkVars, request, requestSuccess, decrypt,
                   decryptedDoc, carriedOver, sent>>

\* The account to check for, if there is one.
IfConnected(of) == IF of = NoAccount THEN <<>> ELSE <<of>>

\* Two checks follow: the handler's own, for the account of the click, and the
\* effect's, for the account there is now.
Found ==
    /\ search.step = "employer"
    /\ shown' = [id |-> search.id, withdrawn |-> search.withdrawn]
    /\ search' = NoSearch
    /\ StartChecks(search.id, IfConnected(search.of) \o IfConnected(account))
    /\ UNCHANGED <<request, requestSuccess, decrypt, decryptedDoc, carriedOver, sent>>

\* No such attestation, or the node does not answer.
NotFound ==
    /\ isSearching
    /\ search' = NoSearch
    /\ UNCHANGED <<shown, checkVars, request, requestSuccess, decrypt,
                   decryptedDoc, carriedOver, sent>>

-----------------------------------------------------------------------------
(* handleRequestAccess                                                      *)

Request ==
    /\ RequestFormShown
    /\ signer # NoAccount
    /\ Free(request)
    /\ request' = Begun(Call("requestDocumentAccess", shown.id))
    /\ requestSuccess' = 0
    /\ UNCHANGED <<search, shown, checkVars, decrypt, decryptedDoc, carriedOver, sent>>

RequestSent ==
    /\ SendWrite(request, Passes(request.by, request.call))
    /\ request' = Waiting(request)
    /\ UNCHANGED <<search, shown, checkVars, requestSuccess, decrypt, decryptedDoc,
                   carriedOver>>

RequestMined ==
    /\ Mined(request)
    /\ requestSuccess' = request.tx
    /\ request' = NoWrite
    /\ UNCHANGED <<search, shown, checkVars, decrypt, decryptedDoc, carriedOver, sent>>

RequestFails ==
    /\ WriteFails(request)
    /\ request' = NoWrite
    /\ UNCHANGED <<search, shown, checkVars, requestSuccess, decrypt, decryptedDoc,
                   carriedOver, sent>>

-----------------------------------------------------------------------------
(* handleDecryptDocument: the challenge names the time before the wallet    *)
(* asks the user; the service checks the signature, the time and access.    *)

Decrypt ==
    /\ AuthorizedShown
    /\ signer # NoAccount
    /\ decrypt.step = "idle"
    /\ decrypt' = [step |-> "sign", id |-> shown.id, of |-> account, by |-> signer,
                   late |-> FALSE]
    /\ UNCHANGED <<search, shown, checkVars, request, requestSuccess, decryptedDoc,
                   carriedOver, sent>>

\* The user takes longer than the service accepts.
Expire ==
    /\ decrypt.step = "sign"
    /\ ~decrypt.late
    /\ decrypt' = [decrypt EXCEPT !.late = TRUE]
    /\ UNCHANGED <<search, shown, checkVars, request, requestSuccess, decryptedDoc,
                   carriedOver, sent>>

Sign ==
    /\ decrypt.step = "sign"
    /\ decrypt' = [decrypt EXCEPT !.step = "fetch"]
    /\ UNCHANGED <<search, shown, checkVars, request, requestSuccess, decryptedDoc,
                   carriedOver, sent>>

\* The service's conditions, at the moment it checks them.
Granted ==
    /\ decrypt.step = "fetch"
    /\ decrypt.by = decrypt.of
    /\ ~decrypt.late
    /\ MayRead(decrypt.id, decrypt.of)

Serve ==
    /\ Granted
    /\ decrypt' = [decrypt EXCEPT !.step = "served"]
    /\ UNCHANGED <<search, shown, checkVars, request, requestSuccess, decryptedDoc,
                   carriedOver, sent>>

Opened ==
    /\ decrypt.step = "served"
    /\ decryptedDoc' = decrypt.id
    /\ decrypt' = NoDecrypt
    /\ UNCHANGED <<search, shown, checkVars, request, requestSuccess, carriedOver, sent>>

\* Declined by the user, refused by the service, or an answer lost.
DecryptFails ==
    /\ decrypt.step # "idle"
    /\ decrypt' = NoDecrypt
    /\ UNCHANGED <<search, shown, checkVars, request, requestSuccess, decryptedDoc,
                   carriedOver, sent>>

ClosePreview ==
    /\ decryptedDoc # NoCredential
    /\ decryptedDoc' = NoCredential
    /\ UNCHANGED <<search, shown, checkVars, request, requestSuccess, decrypt,
                   carriedOver, sent>>

-----------------------------------------------------------------------------
\* What the user does on the page.
VerifierAct ==
    \/ \E id \in Credentials : Search(id)
    \/ Request \/ Decrypt \/ ClosePreview

\* What comes of it.
VerifierStep ==
    \/ ReadFound \/ Found \/ NotFound
    \/ \E k \in Checks : CheckStep(k)
    \/ RequestSent \/ RequestMined \/ RequestFails
    \/ Expire \/ Sign \/ Serve \/ Opened \/ DecryptFails

\* The page's effect, beside a step of the wallet or the session.
VerifierFollows ==
    /\ AccessFollows
    /\ UNCHANGED <<search, shown, request, requestSuccess, decrypt, decryptedDoc,
                   carriedOver>>

-----------------------------------------------------------------------------
(* Properties.                                                              *)

\* When every check is answered, the page's authorization is the answer for the
\* attestation and the account it shows, unless a check for another pair was in
\* flight beside the last one begun, or one failed.
AuthorizationIsAnswered ==
    /\ Checking = {} /\ ~checksUnsure
    /\ isConnected /\ shown # NoShown
    => answerFor = <<shown.id, account>>

\* The open document and the message of a submitted request are about the
\* attestation shown, unless a search has begun while their handler ran.
NothingCarriesOver ==
    ~carriedOver =>
        /\ decryptedDoc \in {NoCredential, shown.id}
        /\ requestSuccess # 0 => sent[requestSuccess].call.arg = shown.id

=============================================================================
