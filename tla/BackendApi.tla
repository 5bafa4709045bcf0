------------------------------ MODULE BackendApi ------------------------------
(***************************************************************************)
(* The backend's API over the registry: the routes of access, attestation, *)
(* employee and employer, their controllers, blockchain.service.ts with    *)
(* validate.ts in front and errorHandler.ts behind.                        *)
(*                                                                         *)
(* A read is one eth_call, or two at once; a write (by a development key)  *)
(* asks the node for the sender's next nonce and whether the call would    *)
(* succeed, sends it, waits for the receipt and answers.  Between any two  *)
(* of these steps other calls and other senders' transactions go on.       *)
(***************************************************************************)
EXTENDS RegistryHistory

CONSTANTS
    Calls,     \* the HTTP calls
    MaxOthers  \* bound on the transactions that others send

ASSUME OthersAssumption == MaxOthers \in Nat

\* What a key has sent is counted.
ASSUME CallsAssumption == IsFiniteSet(Calls)

VARIABLES
    deployed,  \* the contract is at the configured address
    call,      \* call -> how far its handler is
    others     \* how many transactions others have sent

apiVars == <<deployed, call, others>>

\* `known` is history: the attestations announced when the call came in, and
\* `made` how many requests there were.
NoCall == [step |-> "idle", name |-> "none", arg |-> 0, by |-> Empty,
           nonce |-> 0, tx |-> "none", id |-> 0, status |-> 0,
           unread |-> {}, ids |-> <<>>, authorized |-> FALSE,
           known |-> {}, made |-> 0]

ApiInit ==
    /\ \E issuers \in Histories, s \in Submissions :
          ValidSubmission(s) /\ RegistryHolds(issuers, s)
    /\ deployed \in BOOLEAN
    /\ call = [c \in Calls |-> NoCall]
    /\ others = 0

ListReads == {"employerAttestations", "attestationsByHash", "attestationsByWallet"}
Reads == {"employerStatus", "employerProfile", "attestation", "accessRequest",
          "access"} \cup ListReads
Writes == {"registerEmployer", "createAttestation", "revokeAttestation",
           "requestDocumentAccess", "approveDocumentAccess",
           "rejectDocumentAccess"}

Announced ==
    {call[c].id : c \in {d \in Calls : /\ call[d].name = "createAttestation"
                                       /\ call[d].status = 201}}

Goes(c, r) == call' = [call EXCEPT ![c] = r] /\ UNCHANGED <<deployed, others>>

\* Faulty variant: the handler goes on after it has answered.
Answer_FallsThrough(c, status) == Goes(c, [call[c] EXCEPT !.status = status])

Answer(c, status) ==
    Goes(c, [call[c] EXCEPT !.step = "answered", !.status = status])

-----------------------------------------------------------------------------
(* validate.ts                                                              *)

\* The schemas know only the form of an address or a hash: a zero one passes.
Valid(name, arg) ==
    CASE name = "registerEmployer" -> arg # Empty
      [] name = "createAttestation" ->
            /\ arg.position # Empty
            /\ arg.startDate > 0
            /\ arg.endDate = 0 \/ arg.endDate >= arg.startDate
      [] name \in {"revokeAttestation", "requestDocumentAccess",
                   "approveDocumentAccess", "rejectDocumentAccess",
                   "attestation", "accessRequest", "access"} -> arg > 0
      [] OTHER -> TRUE

Argument(name) ==
    CASE name = "registerEmployer" -> EmployerNames
      [] name = "createAttestation" -> Submissions
      [] name \in {"revokeAttestation", "requestDocumentAccess", "attestation",
                   "access"} -> AttestationIds \cup {0}
      [] name \in {"approveDocumentAccess", "rejectDocumentAccess",
                   "accessRequest"} -> RequestIds \cup {0}
      [] name = "attestationsByHash" -> Data
      [] OTHER -> Wallets

\* A call comes in; `by` is the development key of a write, the verifier a read
\* of access asks about, or nobody.
Receive(c, name, arg, by) ==
    /\ call[c].step = "idle"
    /\ by = Empty \/ name \in Writes \cup {"access"}
    /\ LET r == [NoCall EXCEPT !.name = name, !.arg = arg, !.by = by,
                               !.known = Announced, !.made = requestIdCounter]
           step == IF name \in Reads THEN "reading" ELSE "estimating"
       IN IF Valid(name, arg)
          THEN Goes(c, [r EXCEPT !.step = step, !.unread = {"ids", "authorized"}])
          ELSE Goes(c, [r EXCEPT !.step = "answered", !.status = 400])

-----------------------------------------------------------------------------
(* Reads                                                                    *)

ListOf(name, arg) ==
    CASE name = "employerAttestations" -> employerAttestations[arg]
      [] name = "attestationsByHash" -> employeeHashAttestations[arg]
      [] name = "attestationsByWallet" -> employeeWalletAttestations[arg]
      [] OTHER -> <<>>

\* Faulty variant: the ids are taken to end before the counter.
Missing_Latest(name, arg) ==
    \/ name = "attestation" /\ arg \notin 1..(attestationIdCounter - 1)
    \/ name = "accessRequest" /\ ~Requested(arg)

\* The getters with a require().
Missing(name, arg) ==
    \/ name = "attestation" /\ ~Exists(arg)
    \/ name = "accessRequest" /\ ~Requested(arg)

ReadOnce(c) ==
    /\ call[c].step = "reading"
    /\ call[c].name # "access"
    /\ deployed
    /\ LET name == call[c].name
           arg == call[c].arg
       IN IF Missing(name, arg) THEN Answer(c, 404)
          ELSE Goes(c, [call[c] EXCEPT !.step = "answered", !.status = 200,
                                       !.ids = ListOf(name, arg)])

\* checkDocumentAccess: two reads at once; the second is not made when the query
\* names no verifier.  The answer goes out when the later one is back.
ReadRequestIds(c) ==
    /\ call[c].step = "reading" /\ call[c].name = "access"
    /\ deployed
    /\ "ids" \in call[c].unread
    /\ Goes(c, [call[c] EXCEPT !.ids = attestationRequests[call[c].arg],
                               !.unread = @ \ {"ids"}])

\* Faulty variant: any request of the verifier counts as its authorization.
ReadAuthorized_OnRequest(c) ==
    /\ call[c].step = "reading" /\ call[c].name = "access"
    /\ deployed
    /\ "authorized" \in call[c].unread
    /\ Goes(c, [call[c] EXCEPT
          !.authorized = \E r \in RequestIds : accessRequests[r].verifier = call[c].by,
          !.unread = @ \ {"authorized"}])

ReadAuthorized(c) ==
    /\ call[c].step = "reading" /\ call[c].name = "access"
    /\ deployed
    /\ "authorized" \in call[c].unread
    /\ Goes(c, [call[c] EXCEPT
          !.authorized = call[c].by # Empty /\ hasDocumentAccess(call[c].arg, call[c].by),
          !.unread = @ \ {"authorized"}])

AnswerAccess(c) ==
    /\ call[c].step = "reading" /\ call[c].name = "access"
    /\ call[c].unread = {}
    /\ Answer(c, 200)

-----------------------------------------------------------------------------
(* Writes                                                                   *)

\* The require()s of each function in their order, with the status that
\* errorHandler.ts gives the reason; a reason it does not know gives 500.
Requirements(from, name, arg) ==
    CASE name = "registerEmployer" ->
            << <<~isEmployerRegistered(from), 409>>, <<arg # Empty, 500>> >>
      [] name = "createAttestation" ->
            << <<isEmployerRegistered(from), 403>>, <<ValidSubmission(arg), 500>> >>
      [] name = "revokeAttestation" ->
            << <<Exists(arg), 404>>, <<attestations[arg].employer = from, 403>>,
               <<~Revoked(arg), 400>> >>
      [] name = "requestDocumentAccess" ->
            << <<isEmployerRegistered(from), 403>>, <<Exists(arg), 404>>,
               <<CanRequest(from, arg), 400>> >>
      [] OTHER ->
            << <<Requested(arg), 404>>, <<Pending(arg), 400>>,
               <<from = accessRequests[arg].employee, 403>> >>

\* The numbers of those that do not hold.
Refusals(from, name, arg) ==
    {n \in DOMAIN Requirements(from, name, arg) :
        ~Requirements(from, name, arg)[n][1]}

Execute(from, name, arg) ==
    CASE name = "registerEmployer" -> registerEmployer(from, arg)
      [] name = "createAttestation" -> createAttestation(from, arg)
      [] name = "revokeAttestation" -> revokeAttestation(from, arg)
      [] name = "requestDocumentAccess" -> requestDocumentAccess(from, arg)
      [] name = "approveDocumentAccess" -> approveDocumentAccess(from, arg)
      [] name = "rejectDocumentAccess" -> rejectDocumentAccess(from, arg)

\* The transactions a key has sent by way of the backend.
SentBy(w) == Cardinality({c \in Calls : call[c].by = w /\ call[c].tx # "none"})

\* No development key is configured and the call brings none.
NoKey(c) ==
    /\ call[c].step = "estimating"
    /\ call[c].by = Empty
    /\ Answer(c, 500)

\* estimateGas: the call is tried on the state of the moment, and the first
\* require() that does not hold gives the reason.  An address without code lets
\* every call pass.
Estimate(c) ==
    LET requirements == Requirements(call[c].by, call[c].name, call[c].arg)
        refusals == Refusals(call[c].by, call[c].name, call[c].arg)
    IN
    /\ call[c].step = "estimating"
    /\ call[c].by # Empty
    /\ IF deployed /\ refusals # {}
       THEN \E n \in refusals : /\ \A m \in refusals : n <= m
                                /\ Answer(c, requirements[n][2])
       ELSE Goes(c, [call[c] EXCEPT !.step = "sending", !.nonce = SentBy(call[c].by)])

\* Each call has a wallet object of its own: of two calls under one key that were
\* given the same nonce, the node takes one.
Send(c) ==
    /\ call[c].step = "sending"
    /\ call[c].nonce = SentBy(call[c].by)
    /\ Goes(c, [call[c] EXCEPT !.step = "waiting", !.tx = "pending"])

\* The id is taken from the receipt's own event.
IdInEvent(name) ==
    CASE name = "createAttestation" -> event'.attestationId
      [] name = "requestDocumentAccess" -> event'.requestId
      [] OTHER -> 0

Mine(c) ==
    /\ call[c].tx = "pending"
    /\ \/ /\ deployed
          /\ Execute(call[c].by, call[c].name, call[c].arg)
          /\ Goes(c, [call[c] EXCEPT !.tx = "mined", !.id = IdInEvent(call[c].name)])
       \/ /\ deployed
          /\ Refusals(call[c].by, call[c].name, call[c].arg) # {}
          /\ Goes(c, [call[c] EXCEPT !.tx = "reverted"])
          /\ UNCHANGED registryVars
       \/ /\ ~deployed
          /\ Goes(c, [call[c] EXCEPT !.tx = "mined"])
          /\ UNCHANGED registryVars

Created == {"registerEmployer", "createAttestation", "requestDocumentAccess"}

\* Faulty variant: the id is read from the counter when the receipt has come.
AnswerWrite_IdFromCounter(c) ==
    /\ call[c].step = "waiting"
    /\ \/ /\ call[c].tx = "mined"
          /\ Goes(c, [call[c] EXCEPT
                !.step = "answered",
                !.status = IF call[c].name \in Created THEN 201 ELSE 200,
                !.id = IF call[c].name = "createAttestation"
                       THEN attestationIdCounter ELSE @])
       \/ call[c].tx = "reverted" /\ Answer(c, 500)

\* A reverted receipt has no reason left to map.
AnswerWrite(c) ==
    /\ call[c].step = "waiting"
    /\ \/ call[c].tx = "mined"
          /\ Answer(c, IF call[c].name \in Created THEN 201 ELSE 200)
       \/ call[c].tx = "reverted" /\ Answer(c, 500)

\* Faulty variant: an error of the node after sending is the caller's.
RpcFails_AsRefusal(c) ==
    /\ call[c].step \in {"reading", "estimating", "sending", "waiting"}
    /\ Answer(c, IF call[c].tx = "none" THEN 500 ELSE 400)

\* The node does not answer, has no contract to read, or turns a nonce down.
RpcFails(c) ==
    /\ call[c].step \in {"reading", "estimating", "sending", "waiting"}
    /\ Answer(c, 500)

-----------------------------------------------------------------------------
\* What the handlers do by themselves, without the chain moving.
Handle(c) ==
    \/ ReadOnce(c) \/ ReadRequestIds(c) \/ ReadAuthorized(c) \/ AnswerAccess(c)
    \/ NoKey(c) \/ Estimate(c) \/ Send(c) \/ AnswerWrite(c) \/ RpcFails(c)

ApiNext ==
    \/ \E c \in Calls :
          \/ /\ \/ \E name \in Reads \cup Writes : \E arg \in Argument(name) :
                      \E by \in Account : Receive(c, name, arg, by)
                \/ Handle(c)
             /\ UNCHANGED registryVars
          \/ Mine(c)
    \/ /\ deployed
       /\ others < MaxOthers
       /\ others' = others + 1
       /\ Next
       /\ UNCHANGED <<deployed, call>>

ApiSpec == ApiInit /\ [][ApiNext]_<<registryVars, apiVars>>

-----------------------------------------------------------------------------
(* Properties.                                                              *)

Succeeded(c) == call[c].name \in Writes /\ call[c].status \in {200, 201}

Refused(c) == call[c].status \in {400, 403, 404, 409}

\* Every field of a call has its type, and a call answers once, at its end.
ApiTypeOK ==
    /\ deployed \in BOOLEAN
    /\ others \in 0..MaxOthers
    /\ \A c \in Calls :
          /\ call[c].step \in {"idle", "reading", "estimating", "sending",
                               "waiting", "answered"}
          /\ call[c].status \in {0, 200, 201, 400, 403, 404, 409, 500}
          /\ call[c].status # 0 <=> call[c].step = "answered"
          /\ IF call[c].name = "none" THEN call[c].arg = 0
             ELSE /\ call[c].name \in Reads \cup Writes
                  /\ call[c].arg \in Argument(call[c].name)
          /\ call[c].by \in Account
          /\ call[c].tx \in {"none", "pending", "mined", "reverted"}
          /\ call[c].nonce \in Nat /\ call[c].id \in Nat /\ call[c].made \in Nat
          /\ call[c].ids \in Seq(AttestationIds \cup RequestIds)
          /\ call[c].authorized \in BOOLEAN

\* What a success reports has happened, as the caller asked and by the caller's
\* key, and stays so: the id is of the call's own attestation or request and of
\* no other call's, though other transactions came between sending and receipt.
Happened(c) ==
    LET name == call[c].name
        arg == call[c].arg
        id == call[c].id
    IN CASE name = "registerEmployer" -> isEmployerRegistered(call[c].by)
         [] name = "createAttestation" ->
               /\ Exists(id)
               /\ attestations[id].employer = call[c].by
               /\ attestations[id].employee = arg.employee
               /\ attestations[id].ipfsCID = arg.ipfsCID
               /\ \A d \in Calls \ {c} : call[d].name = name => call[d].id # id
         [] name = "revokeAttestation" ->
               Revoked(arg) /\ attestations[arg].employer = call[c].by
         [] name = "requestDocumentAccess" ->
               /\ Requested(id)
               /\ accessRequests[id].verifier = call[c].by
               /\ accessRequests[id].attestationId = arg
         [] OTHER ->
               /\ accessRequests[arg].employee = call[c].by
               /\ accessRequests[arg].status =
                     IF name = "approveDocumentAccess" THEN "APPROVED" ELSE "REJECTED"

\* Happened, for every write answered 200 or 201 by a backend whose registry is
\* deployed.
AnsweredWritesHappened ==
    deployed => \A c \in Calls : Succeeded(c) => Happened(c)

\* A write refused with 400, 403, 404 or 409 has sent nothing that could still
\* take effect: only a 500 leaves the caller in doubt, and may be repeated to
\* the wrong effect.
RefusedWritesDidNothing ==
    \A c \in Calls : Refused(c) => call[c].tx = "none"

\* Whoever has been told of a new attestation can read it: a call that comes in
\* after the 201 is not answered 404 about its id.
ReadsSeeAnswers ==
    \A c \in Calls :
        deployed /\ call[c].status = 404 /\ call[c].name = "attestation" =>
            call[c].arg \notin call[c].known

\* The two halves of an answer about access fit, although they are read apart: a
\* verifier called authorized has a request of its own in the list beside it, or
\* made it since the call came in.  Every list answered begins the present one.
AccessViewHolds ==
    \A c \in Calls : call[c].status = 200 /\ call[c].name \in ListReads \cup {"access"} =>
        /\ SE!IsPrefix(call[c].ids, IF call[c].name = "access"
                                    THEN attestationRequests[call[c].arg]
                                    ELSE ListOf(call[c].name, call[c].arg))
        /\ call[c].authorized =>
             \E r \in RequestIds :
                /\ accessRequests[r].attestationId = call[c].arg
                /\ accessRequests[r].verifier = call[c].by
                /\ \/ r > call[c].made
                   \/ \E n \in DOMAIN call[c].ids : call[c].ids[n] = r

=============================================================================
