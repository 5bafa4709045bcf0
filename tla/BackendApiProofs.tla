--------------------------- MODULE BackendApiProofs ---------------------------
(***************************************************************************)
(* Theorems about BackendApi, for every set of calls, of wallets and of    *)
(* data, every history the registry may be found with and every bound.     *)
(***************************************************************************)
EXTENDS BackendApi, RegistryRecordsProofs, FiniteSetTheorems

USE DEF AttestationIds, RequestIds, EmploymentStatus, RequestStatus,
        Field, Account

-----------------------------------------------------------------------------
(* Lists that others append to while a handler holds an earlier copy.       *)

Begins(s, t) == Len(s) <= Len(t) /\ \A n \in DOMAIN s : s[n] = t[n]

LEMMA BeginsWithPrefix ==
    ASSUME NEW S, NEW s \in Seq(S), NEW t \in Seq(S), Begins(s, t)
    PROVE  SE!IsPrefix(s, t)
<1>1. /\ Len(s) \in Nat /\ Len(t) \in Nat /\ Len(s) <= Len(t)
      /\ DOMAIN s = 1..Len(s)
      /\ \A n \in 1..Len(s) : s[n] = t[n]
    BY DEF Begins
<1>2. /\ SubSeq(s, 1, Len(s)) = [n \in 1..Len(s) |-> s[n]]
      /\ SubSeq(t, 1, Len(s)) = [n \in 1..Len(s) |-> t[n]]
    BY <1>1
<1>3. SubSeq(s, 1, Len(s)) = SubSeq(t, 1, Len(s))
    BY <1>1, <1>2
<1> QED
    BY <1>1, <1>3 DEF SE!IsPrefix

LEMMA BeginsOnward ==
    ASSUME NEW S, NEW s \in Seq(S), NEW t \in Seq(S), NEW u \in Seq(S),
           Begins(s, t), Begins(t, u)
    PROVE  Begins(s, u)
<1>1. /\ Len(s) \in Nat /\ Len(t) \in Nat /\ Len(u) \in Nat
      /\ DOMAIN s = 1..Len(s) /\ DOMAIN t = 1..Len(t)
    OBVIOUS
<1>2. Len(s) <= Len(t) /\ Len(t) <= Len(u)
    BY DEF Begins
<1>3. \A n \in DOMAIN s : n \in DOMAIN t
    BY <1>1, <1>2
<1> QED
    BY <1>1, <1>2, <1>3 DEF Begins

LEMMA SeqWidens ==
    ASSUME NEW S, NEW T, NEW s \in Seq(S), S \subseteq T
    PROVE  s \in Seq(T)
<1>1. s \in [1..Len(s) -> T] /\ Len(s) \in Nat
    OBVIOUS
<1> QED
    BY <1>1

LEMMA BeginsItself == ASSUME NEW S, NEW s \in Seq(S) PROVE Begins(s, s)
BY DEF Begins

LEMMA BeginsAppended ==
    ASSUME NEW S, NEW s \in Seq(S), NEW x \in S
    PROVE  Begins(s, Append(s, x))
<1>1. /\ Len(Append(s, x)) = Len(s) + 1 /\ Len(s) \in Nat
      /\ \A n \in DOMAIN s : Append(s, x)[n] = s[n]
    OBVIOUS
<1> QED
    BY <1>1 DEF Begins

\* Whatever transaction is mined, the lists the getters return only grow.
LEMMA ListsGrow ==
    ASSUME RegistryInv, [Next]_registryVars
    PROVE  /\ \A h \in Data : Begins(employeeHashAttestations[h],
                                     employeeHashAttestations'[h])
           /\ \A w \in Wallets : Begins(employeeWalletAttestations[w],
                                        employeeWalletAttestations'[w])
           /\ \A w \in Wallets : Begins(employerAttestations[w],
                                        employerAttestations'[w])
           /\ \A a \in AttestationIds : Begins(attestationRequests[a],
                                               attestationRequests'[a])
<1> DEFINE Issues ==
              /\ \A h \in Data : Begins(employeeHashAttestations[h],
                                        employeeHashAttestations'[h])
              /\ \A w \in Wallets : Begins(employeeWalletAttestations[w],
                                           employeeWalletAttestations'[w])
              /\ \A w \in Wallets : Begins(employerAttestations[w],
                                           employerAttestations'[w])
           Asks == \A a \in AttestationIds : Begins(attestationRequests[a],
                                                    attestationRequests'[a])
<1>0. TypeOK
    BY DEF RegistryInv
<1>1. UNCHANGED indexes => Issues
    BY <1>0, BeginsItself DEF TypeOK, indexes
<1>2. attestationRequests' = attestationRequests => Asks
    BY <1>0, BeginsItself DEF TypeOK
<1>3. ASSUME NEW sender \in Wallets, NEW s \in Submissions,
             createAttestation(sender, s)
      PROVE  Issues /\ Asks
  <2>1. attestationIdCounter + 1 \in AttestationIds
      BY <1>3, RecordIssued
  <2>2. /\ employeeHashAttestations' = [employeeHashAttestations EXCEPT
              ![s.employeeHash] = Append(@, attestationIdCounter + 1)]
        /\ employeeWalletAttestations' = [employeeWalletAttestations EXCEPT
              ![s.employee] = Append(@, attestationIdCounter + 1)]
        /\ employerAttestations' = [employerAttestations EXCEPT
              ![sender] = Append(@, attestationIdCounter + 1)]
        /\ attestationRequests' = attestationRequests
      BY <1>3 DEF createAttestation, NextAttestationId, requestVars
  <2>3. \A h \in Data : Begins(employeeHashAttestations[h],
                               employeeHashAttestations'[h])
      BY <1>0, <2>1, <2>2, BeginsItself, BeginsAppended DEF TypeOK
  <2>4. \A w \in Wallets : Begins(employeeWalletAttestations[w],
                                  employeeWalletAttestations'[w])
      BY <1>0, <2>1, <2>2, BeginsItself, BeginsAppended DEF TypeOK
  <2>5. \A w \in Wallets : Begins(employerAttestations[w],
                                  employerAttestations'[w])
      BY <1>0, <2>1, <2>2, BeginsItself, BeginsAppended DEF TypeOK
  <2> QED
      BY <1>2, <2>2, <2>3, <2>4, <2>5
<1>4. ASSUME NEW sender \in Wallets, NEW b \in AttestationIds,
             requestDocumentAccess(sender, b)
      PROVE  Issues /\ Asks
  <2>1. requestIdCounter + 1 \in RequestIds
      BY <1>4, RequestIssued
  <2>2. /\ attestationRequests' = [attestationRequests EXCEPT
              ![b] = Append(@, requestIdCounter + 1)]
        /\ UNCHANGED indexes
      BY <1>4 DEF requestDocumentAccess, attestationVars
  <2>3. Asks
      BY <1>0, <2>1, <2>2, BeginsItself, BeginsAppended DEF TypeOK
  <2> QED
      BY <1>1, <2>2, <2>3
<1>5. ASSUME NEW sender \in Wallets,
             \/ \E name \in EmployerNames : registerEmployer(sender, name)
             \/ \E a \in AttestationIds : revokeAttestation(sender, a)
             \/ \E q \in RequestIds : approveDocumentAccess(sender, q)
             \/ \E q \in RequestIds : rejectDocumentAccess(sender, q)
      PROVE  UNCHANGED <<indexes, attestationRequests>>
    BY <1>5 DEF registerEmployer, revokeAttestation, approveDocumentAccess,
       rejectDocumentAccess, attestationVars, requestVars
<1>6. CASE NextBlock \/ UNCHANGED registryVars
    BY <1>1, <1>2, <1>6 DEF NextBlock, registryVars, attestationVars, requestVars
<1> QED
    BY <1>1, <1>2, <1>3, <1>4, <1>5, <1>6 DEF Next, Transaction

-----------------------------------------------------------------------------
(* The inductive invariant.  Each part is about the record of one call, so *)
(* that what other calls and other senders do can be told apart from what  *)
(* its own handler does.                                                   *)

Steps == {"idle", "reading", "estimating", "sending", "waiting", "answered"}
Statuses == {0, 200, 201, 400, 403, 404, 409, 500}

Names == Reads \cup Writes \cup {"none"}
Arguments == {0} \cup UNION {Argument(name) : name \in Reads \cup Writes}
Ids == AttestationIds \cup RequestIds

CallType ==
    [step: Steps, name: Names, arg: Arguments, by: Account, nonce: Nat,
     tx: {"none", "pending", "mined", "reverted"}, id: Nat, status: Statuses,
     unread: SUBSET {"ids", "authorized"}, ids: Seq(Ids), authorized: BOOLEAN,
     known: SUBSET Nat, made: Nat]

\* The call passed the schemas: it is being handled, or was answered by more
\* than validate.ts.
Started(r) ==
    \/ r.step \in {"reading", "estimating", "sending", "waiting"}
    \/ r.tx # "none"
    \/ r.status \in {200, 201, 404}

\* How far a handler can be, and what it then has.
Phase(r) ==
    /\ r.step = "idle" => r = NoCall
    /\ r.status # 0 <=> r.step = "answered"
    /\ r.step # "idle" => r.name \in Reads \cup Writes /\ r.arg \in Argument(r.name)
    /\ Started(r) => Valid(r.name, r.arg)
    /\ r.step = "reading" => r.name \in Reads
    /\ r.step \in {"estimating", "sending"} => r.name \in Writes /\ r.tx = "none"
    /\ r.step \in {"sending", "waiting"} => r.by # Empty
    /\ r.step = "waiting" => r.tx # "none"
    /\ r.tx # "none" => /\ r.name \in Writes
                        /\ r.by # Empty
                        /\ r.step \in {"waiting", "answered"}
                        /\ r.status \in {0, 200, 201, 500}
    /\ r.name \in Writes /\ r.status \in {200, 201} => r.tx = "mined"
    /\ r.name = "access" /\ r.status = 200 => r.unread = {}
    /\ r.name # "access" => ~r.authorized
    /\ r.tx # "mined" => r.id = 0

\* A mined transaction has had its effect, in the record its receipt names.
Done(r) ==
    /\ r.name = "registerEmployer" => isEmployerRegistered(r.by)
    /\ r.name = "createAttestation" =>
          /\ r.id \in AttestationIds
          /\ Exists(r.id)
          /\ attestations[r.id].employer = r.by
          /\ attestations[r.id].employee = r.arg.employee
          /\ attestations[r.id].ipfsCID = r.arg.ipfsCID
    /\ r.name = "revokeAttestation" =>
          Exists(r.arg) /\ Revoked(r.arg) /\ attestations[r.arg].employer = r.by
    /\ r.name = "requestDocumentAccess" =>
          /\ r.id \in RequestIds
          /\ Requested(r.id)
          /\ accessRequests[r.id].verifier = r.by
          /\ accessRequests[r.id].attestationId = r.arg
    /\ r.name \in {"approveDocumentAccess", "rejectDocumentAccess"} =>
          /\ Requested(r.arg)
          /\ accessRequests[r.arg].employee = r.by
          /\ accessRequests[r.arg].status =
                IF r.name = "approveDocumentAccess" THEN "APPROVED" ELSE "REJECTED"

\* What was announced exists, and a 404 is not about any of it.
Knows(r) ==
    /\ \A a \in r.known : a \in AttestationIds /\ Exists(a)
    /\ r.name = "attestation" /\ r.status = 404 => r.arg \notin r.known

\* A list that was read begins the present one.
ListHolds(r) ==
    r.name \in ListReads /\ r.status = 200 => Begins(r.ids, ListOf(r.name, r.arg))

\* The two halves of an answer about access: the list, once read, has every
\* request made before the call came in, and an authorization has a request.
AccessHolds(r) ==
    r.name = "access" /\ (r.step = "reading" \/ r.status = 200) =>
        /\ r.made <= requestIdCounter
        /\ "ids" \notin r.unread =>
              /\ Begins(r.ids, attestationRequests[r.arg])
              /\ \A q \in RequestIds :
                    /\ Requested(q) /\ q <= r.made
                    /\ accessRequests[q].attestationId = r.arg
                    => \E n \in DOMAIN r.ids : r.ids[n] = q
        /\ r.authorized =>
              \E q \in RequestIds : /\ Requested(q)
                                    /\ accessRequests[q].attestationId = r.arg
                                    /\ accessRequests[q].verifier = r.by

CallInv(r) ==
    /\ r \in CallType
    /\ Phase(r)
    /\ deployed /\ r.tx = "mined" => Done(r)
    /\ deployed => Knows(r)
    /\ ListHolds(r)
    /\ AccessHolds(r)

HasIssued(r) == r.name = "createAttestation" /\ r.tx = "mined"

\* No two calls are told the same new attestation.
IdsDiffer ==
    deployed => \A c, d \in Calls :
        c # d /\ HasIssued(call[c]) /\ HasIssued(call[d]) => call[c].id # call[d].id

ApiInv ==
    /\ ConsentInv
    /\ IndexesMatchRecords
    /\ deployed \in BOOLEAN
    /\ others \in 0..MaxOthers
    /\ call \in [Calls -> CallType]
    /\ \A c \in Calls : CallInv(call[c])
    /\ IdsDiffer

-----------------------------------------------------------------------------
(* What a call has seen and done holds on, whatever others do.              *)

\* The argument of a call that passed the schemas names what it is about.
LEMMA ArgumentType ==
    ASSUME NEW r \in CallType, Phase(r), Started(r)
    PROVE  /\ r.name \in {"attestation", "access", "revokeAttestation",
                          "requestDocumentAccess"} => r.arg \in AttestationIds
           /\ r.name \in {"accessRequest", "approveDocumentAccess",
                          "rejectDocumentAccess"} => r.arg \in RequestIds
           /\ r.name \in {"employerAttestations", "attestationsByWallet"} =>
                 r.arg \in Wallets
           /\ r.name = "attestationsByHash" => r.arg \in Data
           /\ r.name = "createAttestation" => r.arg \in Submissions
           /\ r.name = "registerEmployer" => r.arg \in EmployerNames /\ r.arg # Empty
<1>1. Valid(r.name, r.arg)
    BY DEF Phase
<1>2. r.step # "idle"
    BY DEF Started, Phase, NoCall
<1>3. r.name \in Reads \cup Writes /\ r.arg \in Argument(r.name)
    BY <1>2 DEF Phase
<1> QED
    BY <1>1, <1>3 DEF Valid, Argument

LEMMA DoneKept ==
    ASSUME RegistryInv, [Next]_registryVars, NEW r \in CallType, Phase(r),
           r.tx = "mined", Done(r)
    PROVE  Done(r)'
<1>0. RecordsPersist
    BY Persistence
<1>1. r.by \in Wallets
    BY DEF Phase, CallType
<1>2. Started(r)
    BY DEF Started
<1>3. r.name = "registerEmployer" => isEmployerRegistered(r.by)'
    BY <1>0, <1>1 DEF RecordsPersist, Done
<1>4. r.name = "createAttestation" =>
          /\ Exists(r.id)'
          /\ attestations'[r.id].employer = r.by
          /\ attestations'[r.id].employee = r.arg.employee
          /\ attestations'[r.id].ipfsCID = r.arg.ipfsCID
    BY <1>0 DEF RecordsPersist, Done
<1>5. r.name = "revokeAttestation" =>
          Exists(r.arg)' /\ Revoked(r.arg)' /\ attestations'[r.arg].employer = r.by
    BY <1>0, <1>2, ArgumentType DEF RecordsPersist, Done
<1>6. r.name = "requestDocumentAccess" =>
          /\ Requested(r.id)'
          /\ accessRequests'[r.id].verifier = r.by
          /\ accessRequests'[r.id].attestationId = r.arg
    BY RequestsPersist DEF Done
<1>7. ASSUME r.name \in {"approveDocumentAccess", "rejectDocumentAccess"}
      PROVE  /\ Requested(r.arg)'
             /\ accessRequests'[r.arg] = accessRequests[r.arg]
  <2>1. r.arg \in RequestIds /\ Requested(r.arg) /\ ~Pending(r.arg)
      BY <1>2, <1>7, ArgumentType DEF Done, Pending
  <2> QED
      BY <2>1, RequestSteps DEF RequestStep, Requested
<1> QED
    BY <1>3, <1>4, <1>5, <1>6, <1>7 DEF Done

LEMMA KnowsKept ==
    ASSUME RegistryInv, [Next]_registryVars, NEW r, Knows(r)
    PROVE  Knows(r)'
<1>1. RecordsPersist
    BY Persistence
<1> QED
    BY <1>1 DEF Knows, RecordsPersist

LEMMA ListKept ==
    ASSUME RegistryInv, [Next]_registryVars, NEW r \in CallType, Phase(r),
           ListHolds(r)
    PROVE  ListHolds(r)'
<1> SUFFICES ASSUME r.name \in ListReads, r.status = 200
             PROVE  Begins(r.ids, ListOf(r.name, r.arg)')
    BY DEF ListHolds
<1> DEFINE now == ListOf(r.name, r.arg)
           next == ListOf(r.name, r.arg)'
<1>1. r.ids \in Seq(Ids) /\ Begins(r.ids, now)
    BY DEF CallType, ListHolds
<1>2. /\ r.name \in {"employerAttestations", "attestationsByWallet"} =>
            r.arg \in Wallets
      /\ r.name = "attestationsByHash" => r.arg \in Data
    BY ArgumentType DEF Started
<1>3. TypeOK /\ TypeOK'
    BY TypeStep DEF RegistryInv
<1>4. Seq(AttestationIds) \subseteq Seq(Ids)
    BY SeqWidens DEF Ids
<1>5. now \in Seq(Ids) /\ next \in Seq(Ids) /\ Begins(now, next)
  <2>1. CASE r.name = "employerAttestations"
      BY <1>2, <1>3, <1>4, <2>1, ListsGrow DEF ListOf, TypeOK
  <2>2. CASE r.name = "attestationsByHash"
      BY <1>2, <1>3, <1>4, <2>2, ListsGrow DEF ListOf, TypeOK
  <2>3. CASE r.name = "attestationsByWallet"
      BY <1>2, <1>3, <1>4, <2>3, ListsGrow DEF ListOf, TypeOK
  <2> QED
      BY <2>1, <2>2, <2>3 DEF ListReads
<1> HIDE DEF now, next
<1> QED
    BY <1>1, <1>5, BeginsOnward DEF next

LEMMA AccessKept ==
    ASSUME RegistryInv, [Next]_registryVars, NEW r \in CallType, Phase(r),
           AccessHolds(r)
    PROVE  AccessHolds(r)'
<1> SUFFICES ASSUME r.name = "access", r.step = "reading" \/ r.status = 200
             PROVE  /\ r.made <= requestIdCounter'
                    /\ "ids" \notin r.unread =>
                          /\ Begins(r.ids, attestationRequests'[r.arg])
                          /\ \A q \in RequestIds :
                                /\ Requested(q)' /\ q <= r.made
                                /\ accessRequests'[q].attestationId = r.arg
                                => \E n \in DOMAIN r.ids : r.ids[n] = q
                    /\ r.authorized =>
                          \E q \in RequestIds :
                             /\ Requested(q)'
                             /\ accessRequests'[q].attestationId = r.arg
                             /\ accessRequests'[q].verifier = r.by
    BY DEF AccessHolds
<1>1. r.arg \in AttestationIds
    BY ArgumentType DEF Started
<1>2. TypeOK /\ TypeOK' /\ CounterStep
    BY TypeStep, RequestSteps DEF RegistryInv
<1>3. r.made \in Nat /\ requestIdCounter \in Nat /\ r.made <= requestIdCounter
    BY <1>2, BoundAssumption DEF CallType, TypeOK, AccessHolds
<1>4. r.made <= requestIdCounter'
    BY <1>2, <1>3 DEF CounterStep
<1>5. ASSUME NEW q \in RequestIds, Requested(q)', q <= r.made
      PROVE  /\ Requested(q)
             /\ accessRequests'[q].attestationId = accessRequests[q].attestationId
  <2>1. Requested(q)
      BY <1>3, <1>5, BoundAssumption DEF RegistryInv, IdsMatchCounters
  <2> QED
      BY <2>1, RequestsPersist
<1>6. ASSUME "ids" \notin r.unread
      PROVE  Begins(r.ids, attestationRequests'[r.arg])
  <2>1. Seq(RequestIds) \subseteq Seq(Ids)
      BY SeqWidens DEF Ids
  <2>2. /\ r.ids \in Seq(Ids)
        /\ attestationRequests[r.arg] \in Seq(Ids)
        /\ attestationRequests'[r.arg] \in Seq(Ids)
      BY <1>1, <1>2, <2>1 DEF CallType, TypeOK
  <2>3. /\ Begins(r.ids, attestationRequests[r.arg])
        /\ Begins(attestationRequests[r.arg], attestationRequests'[r.arg])
      BY <1>1, <1>6, ListsGrow DEF AccessHolds
  <2> QED
      BY <2>2, <2>3, BeginsOnward
<1>7. "ids" \notin r.unread =>
         \A q \in RequestIds : /\ Requested(q)' /\ q <= r.made
                               /\ accessRequests'[q].attestationId = r.arg
                               => \E n \in DOMAIN r.ids : r.ids[n] = q
    BY <1>5 DEF AccessHolds
<1>8. r.authorized =>
         \E q \in RequestIds : /\ Requested(q)'
                               /\ accessRequests'[q].attestationId = r.arg
                               /\ accessRequests'[q].verifier = r.by
    BY RequestsPersist DEF AccessHolds
<1> QED
    BY <1>4, <1>6, <1>7, <1>8

LEMMA CallKept ==
    ASSUME RegistryInv, [Next]_registryVars, deployed' = deployed,
           NEW r, CallInv(r)
    PROVE  CallInv(r)'
BY DoneKept, KnowsKept, ListKept, AccessKept DEF CallInv

-----------------------------------------------------------------------------
(* What the handlers do by themselves.                                      *)

Handled == {"reading", "estimating", "sending", "waiting"}

\* A step that mines nothing takes a call from r to s, and brings no new id.
Advances(r, s) ==
    /\ CallInv(s)
    /\ deployed /\ HasIssued(s) => HasIssued(r) /\ s.id = r.id

LEMMA CallGoes ==
    ASSUME ApiInv, NEW c \in Calls, NEW s, Goes(c, s), Advances(call[c], s),
           UNCHANGED registryVars
    PROVE  ApiInv'
<1>1. /\ call'[c] = s
      /\ \A d \in Calls \ {c} : call'[d] = call[d]
      /\ deployed' = deployed /\ others' = others
    BY DEF Goes, ApiInv
<1>2. \A d \in Calls : CallInv(call'[d])
    BY <1>1 DEF Advances, ApiInv
<1>3. [Next]_registryVars
    OBVIOUS
<1>4. ConsentInv' /\ IndexesMatchRecords'
    BY <1>3, ConsentStep, IndexesStep DEF ApiInv, ConsentInv
<1>5. \A d \in Calls : CallInv(call[d])'
    BY <1>1, <1>2, <1>3, CallKept DEF ApiInv, ConsentInv
<1>6. call' \in [Calls -> CallType]
    BY <1>2 DEF Goes, ApiInv, CallInv
<1>7. IdsDiffer'
  <2> SUFFICES ASSUME deployed', NEW d \in Calls, NEW e \in Calls, d # e,
                      HasIssued(call'[d]), HasIssued(call'[e])
               PROVE  call'[d].id # call'[e].id
      BY DEF IdsDiffer
  <2>1. \A x \in Calls : HasIssued(call'[x]) =>
            HasIssued(call[x]) /\ call'[x].id = call[x].id
      BY <1>1 DEF Advances, HasIssued
  <2> QED
      BY <1>1, <2>1 DEF ApiInv, IdsDiffer
<1> QED
    BY <1>1, <1>4, <1>5, <1>6, <1>7 DEF ApiInv

\* A call in hand is one that passed the schemas.
LEMMA HandledCall ==
    ASSUME NEW r, CallInv(r), r.step \in Handled
    PROVE  /\ Started(r) /\ Valid(r.name, r.arg)
           /\ r.name \in Reads \cup Writes /\ r.arg \in Argument(r.name)
           /\ r.status = 0
BY DEF Handled, Started, CallInv, Phase

\* The records that the steps of a handler leave.
Reply(r, status) == [r EXCEPT !.step = "answered", !.status = status]
Listed(r) == [r EXCEPT !.step = "answered", !.status = 200,
                       !.ids = ListOf(r.name, r.arg)]
IdsRead(r) == [r EXCEPT !.ids = attestationRequests[r.arg],
                        !.unread = @ \ {"ids"}]
AuthorizedRead(r) ==
    [r EXCEPT !.authorized = r.by # Empty /\ hasDocumentAccess(r.arg, r.by),
              !.unread = @ \ {"authorized"}]
Estimated(r, n) == [r EXCEPT !.step = "sending", !.nonce = n]
Sent(r) == [r EXCEPT !.step = "waiting", !.tx = "pending"]
Mined(r, n) == [r EXCEPT !.tx = "mined", !.id = n]
MinedInVain(r) == [r EXCEPT !.tx = "mined"]
Reverted(r) == [r EXCEPT !.tx = "reverted"]

\* What the steps write into a call's record has the fields' types.
LEMMA AnswerType ==
    ASSUME NEW r \in CallType, NEW status \in Statuses
    PROVE  Reply(r, status) \in CallType
<1>1. "answered" \in Steps
    BY DEF Steps
<1> QED
    BY <1>1 DEF CallType, Reply

LEMMA ReadType ==
    ASSUME NEW r \in CallType, NEW ids \in Seq(Ids)
    PROVE  [r EXCEPT !.step = "answered", !.status = 200, !.ids = ids] \in CallType
<1>1. "answered" \in Steps /\ 200 \in Statuses
    BY DEF Steps, Statuses
<1> QED
    BY <1>1 DEF CallType

LEMMA HalfType ==
    ASSUME NEW r \in CallType, NEW half
    PROVE  /\ \A ids \in Seq(Ids) :
                 [r EXCEPT !.ids = ids, !.unread = @ \ {half}] \in CallType
           /\ \A authorized \in BOOLEAN :
                 [r EXCEPT !.authorized = authorized, !.unread = @ \ {half}]
                    \in CallType
BY DEF CallType

LEMMA SendType ==
    ASSUME NEW r \in CallType
    PROVE  Sent(r) \in CallType /\ \A n \in Nat : Estimated(r, n) \in CallType
<1>1. "sending" \in Steps /\ "waiting" \in Steps
    BY DEF Steps
<1> QED
    BY <1>1 DEF CallType, Sent, Estimated

LEMMA MineType ==
    ASSUME NEW r \in CallType
    PROVE  /\ \A n \in Nat : Mined(r, n) \in CallType
           /\ MinedInVain(r) \in CallType /\ Reverted(r) \in CallType
BY DEF CallType, Mined, MinedInVain, Reverted

\* An answer that reports no more than is so.
LEMMA AnswerAdvances ==
    ASSUME NEW r, CallInv(r), r.step \in Handled, NEW status \in Statuses \ {0},
           status \in {400, 403, 404, 409} => r.tx = "none",
           status \in {200, 201} => \/ r.name \in Writes /\ r.tx = "mined"
                                    \/ r.name = "access" /\ r.unread = {},
           status = 404 /\ r.name = "attestation" /\ deployed => r.arg \notin r.known
    PROVE  Advances(r, Reply(r, status))
<1> DEFINE s == Reply(r, status)
<1>0. r \in CallType /\ Phase(r)
    BY DEF CallInv
<1>1. /\ s.step = "answered" /\ s.status = status
      /\ s.name = r.name /\ s.arg = r.arg /\ s.by = r.by /\ s.tx = r.tx
      /\ s.id = r.id /\ s.unread = r.unread /\ s.ids = r.ids
      /\ s.authorized = r.authorized /\ s.known = r.known /\ s.made = r.made
    BY <1>0 DEF CallType, Reply
<1>2. s \in CallType
    BY <1>0, AnswerType
<1> HIDE DEF s
<1>3. Phase(s)
    BY <1>0, <1>1, HandledCall DEF Phase, Statuses, Handled, Writes
<1>4. deployed /\ s.tx = "mined" => Done(s)
    BY <1>1 DEF CallInv, Done
<1>5. deployed => Knows(s)
    BY <1>1 DEF CallInv, Knows
<1>6. ListHolds(s)
    BY <1>1, HandledCall DEF ListHolds, ListReads, Writes
<1>7. AccessHolds(s)
  <2>1. s.status = 200 => r.step = "reading" \/ r.name # "access"
      BY <1>0, <1>1, HandledCall DEF Phase, Handled, Writes
  <2> QED
      BY <1>1, <2>1 DEF CallInv, AccessHolds
<1> QED
    BY <1>1, <1>2, <1>3, <1>4, <1>5, <1>6, <1>7 DEF Advances, CallInv, HasIssued, s

LEMMA ReadOnceAdvances ==
    ASSUME NEW r, TypeOK, CallInv(r), deployed, r.step = "reading",
           r.name # "access"
    PROVE  /\ Missing(r.name, r.arg) =>
                 Advances(r, Reply(r, 404))
           /\ Advances(r, Listed(r))
<1> DEFINE ids == ListOf(r.name, r.arg)
           s == Listed(r)
<1>0. r \in CallType /\ Phase(r)
    BY DEF CallInv
<1>1. r.step \in Handled /\ Started(r) /\ r.name \in Reads /\ r.tx = "none"
    BY <1>0 DEF Handled, Started, Phase, CallType
<1>2. ASSUME Missing(r.name, r.arg)
      PROVE  Advances(r, Reply(r, 404))
  <2>1. 404 \in Statuses \ {0} /\ 404 \notin {200, 201}
      BY DEF Statuses
  <2>2. r.name = "attestation" => r.arg \notin r.known
      BY <1>2 DEF Missing, CallInv, Knows
  <2> QED
      BY <1>1, <2>1, <2>2, AnswerAdvances
<1>3. ids \in Seq(Ids)
  <2>1. Seq(AttestationIds) \subseteq Seq(Ids)
      BY SeqWidens DEF Ids
  <2>4. <<>> \in Seq(Ids)
      OBVIOUS
  <2>2. /\ r.name \in {"employerAttestations", "attestationsByWallet"} =>
              r.arg \in Wallets
        /\ r.name = "attestationsByHash" => r.arg \in Data
      BY <1>0, <1>1, ArgumentType
  <2>3. \/ ids \in Seq(AttestationIds)
        \/ ids = <<>>
      BY <2>2 DEF ListOf, TypeOK
  <2> QED
      BY <2>1, <2>3, <2>4
<1> HIDE DEF ids
<1>4. s \in CallType
    BY <1>0, <1>3, ReadType DEF Listed, ids
<1>5. /\ s.step = "answered" /\ s.status = 200 /\ s.ids = ids
      /\ s.name = r.name /\ s.arg = r.arg /\ s.by = r.by /\ s.tx = "none"
      /\ s.authorized = r.authorized /\ s.known = r.known /\ s.id = r.id
    BY <1>0, <1>1 DEF CallType, Listed, ids
<1> HIDE DEF s
<1>6. r.name \notin Writes
    BY <1>1 DEF Reads, ListReads, Writes
<1>7. Phase(s)
    BY <1>0, <1>1, <1>5, <1>6 DEF Phase, Started
<1>8. deployed => Knows(s)
    BY <1>5 DEF CallInv, Knows
<1>9. ListHolds(s)
    BY <1>3, <1>5, BeginsItself DEF ListHolds, ids
<1>10. AccessHolds(s)
    BY <1>5 DEF AccessHolds
<1> QED
    BY <1>2, <1>4, <1>5, <1>7, <1>8, <1>9, <1>10
       DEF Advances, CallInv, HasIssued, s, ids

LEMMA ReadIdsAdvances ==
    ASSUME NEW r, RegistryInv, IndexesMatchRecords, CallInv(r),
           r.step = "reading", r.name = "access"
    PROVE  Advances(r, IdsRead(r))
<1> DEFINE ids == attestationRequests[r.arg]
           s == IdsRead(r)
<1>0. r \in CallType /\ Phase(r)
    BY DEF CallInv
<1>1. r.step \in Handled /\ Started(r) /\ r.tx = "none" /\ r.status = 0
    BY <1>0 DEF Handled, Started, Phase, CallType
<1>2. r.arg \in AttestationIds
    BY <1>0, <1>1, ArgumentType
<1>3. ids \in Seq(RequestIds) /\ ids \in Seq(Ids)
  <2>1. ids \in Seq(RequestIds)
      BY <1>2 DEF RegistryInv, TypeOK
  <2> QED
      BY <2>1, SeqWidens DEF Ids
<1>4. ASSUME NEW q \in RequestIds, Requested(q),
             accessRequests[q].attestationId = r.arg
      PROVE  \E n \in DOMAIN ids : ids[n] = q
    BY <1>2, <1>4 DEF IndexesMatchRecords, Lists
<1> HIDE DEF ids
<1>5. s \in CallType
    BY <1>0, <1>3, HalfType DEF IdsRead, ids
<1>6. /\ s.step = r.step /\ s.status = 0 /\ s.ids = ids /\ s.name = r.name
      /\ s.arg = r.arg /\ s.by = r.by /\ s.tx = "none" /\ s.made = r.made
      /\ s.authorized = r.authorized /\ s.known = r.known
      /\ "ids" \notin s.unread /\ s.id = r.id
    BY <1>0, <1>1 DEF CallType, IdsRead, ids
<1> HIDE DEF s
<1>7. Phase(s)
    BY <1>0, <1>1, <1>6 DEF Phase, Started
<1>8. deployed => Knows(s)
    BY <1>6 DEF CallInv, Knows
<1>9. ListHolds(s)
    BY <1>6 DEF ListHolds
<1>10. AccessHolds(s)
    BY <1>3, <1>4, <1>6, BeginsItself DEF CallInv, AccessHolds, ids
<1> QED
    BY <1>5, <1>6, <1>7, <1>8, <1>9, <1>10
       DEF Advances, CallInv, HasIssued, s, ids

LEMMA ReadAuthorizedAdvances ==
    ASSUME NEW r, ConsentInv, CallInv(r), r.step = "reading", r.name = "access"
    PROVE  Advances(r, AuthorizedRead(r))
<1> DEFINE yes == r.by # Empty /\ hasDocumentAccess(r.arg, r.by)
           s == AuthorizedRead(r)
<1>0. r \in CallType /\ Phase(r)
    BY DEF CallInv
<1>1. r.step \in Handled /\ Started(r) /\ r.tx = "none" /\ r.status = 0
    BY <1>0 DEF Handled, Started, Phase, CallType
<1>2. r.arg \in AttestationIds
    BY <1>0, <1>1, ArgumentType
<1>3. ASSUME yes
      PROVE  \E q \in RequestIds : /\ Requested(q)
                                   /\ accessRequests[q].attestationId = r.arg
                                   /\ accessRequests[q].verifier = r.by
  <2>1. r.by \in Wallets /\ r.by \in authorizedVerifiers[r.arg]
      BY <1>0, <1>3 DEF CallType, hasDocumentAccess
  <2>2. PICK q \in LatestAnswers(r.arg, r.by) : accessRequests[q].status = "APPROVED"
      BY <1>2, <2>1 DEF ConsentInv, LatestAnswerDecides
  <2> QED
      BY <2>2 DEF LatestAnswers, AnsweredRequests
<1>4. yes \in BOOLEAN
    BY DEF hasDocumentAccess
<1> HIDE DEF yes
<1>5. s \in CallType
    BY <1>0, <1>4, HalfType DEF AuthorizedRead
<1>6. /\ s.step = r.step /\ s.status = 0 /\ s.ids = r.ids /\ s.name = r.name
      /\ s.arg = r.arg /\ s.by = r.by /\ s.tx = "none" /\ s.made = r.made
      /\ s.known = r.known /\ s.unread = r.unread \ {"authorized"}
      /\ s.id = r.id
    BY <1>0, <1>1 DEF CallType, AuthorizedRead
<1>11. s.authorized = yes
    BY <1>0 DEF CallType, AuthorizedRead, yes
<1> HIDE DEF s
<1>7. Phase(s)
    BY <1>0, <1>1, <1>6 DEF Phase, Started
<1>8. deployed => Knows(s)
    BY <1>6 DEF CallInv, Knows
<1>9. ListHolds(s)
    BY <1>6 DEF ListHolds
<1>10. AccessHolds(s)
  <2>1. s.authorized =>
           \E q \in RequestIds : /\ Requested(q)
                                 /\ accessRequests[q].attestationId = s.arg
                                 /\ accessRequests[q].verifier = s.by
      BY <1>3, <1>6, <1>11
  <2>2. "ids" \notin s.unread => "ids" \notin r.unread
      BY <1>6
  <2> QED
      BY <1>6, <2>1, <2>2 DEF CallInv, AccessHolds
<1> QED
    BY <1>5, <1>6, <1>7, <1>8, <1>9, <1>10
       DEF Advances, CallInv, HasIssued, s, yes

LEMMA SendAdvances ==
    ASSUME NEW r, CallInv(r), NEW n \in Nat
    PROVE  /\ r.step = "estimating" /\ r.by # Empty => Advances(r, Estimated(r, n))
           /\ r.step = "sending" => Advances(r, Sent(r))
<1>0. r \in CallType /\ Phase(r)
    BY DEF CallInv
<1>1. ASSUME NEW s \in CallType, r.step \in {"estimating", "sending"},
             s.name = r.name, s.arg = r.arg, s.by = r.by, s.known = r.known,
             s.status = r.status, s.authorized = r.authorized, r.by # Empty,
             s.id = r.id,
             \/ s.step = "sending" /\ s.tx = r.tx
             \/ s.step = "waiting" /\ s.tx = "pending"
      PROVE  Advances(r, s)
  <2>1. /\ Started(r) /\ r.name \in Writes /\ r.tx = "none" /\ r.status = 0
      BY <1>0, <1>1 DEF Started, Phase
  <2>2. r.name \notin Reads
      BY <2>1 DEF Reads, ListReads, Writes
  <2>3. Phase(s)
      BY <1>0, <1>1, <2>1 DEF Phase, Started
  <2>4. deployed => Knows(s)
      BY <1>1 DEF CallInv, Knows
  <2>5. ListHolds(s) /\ AccessHolds(s)
      BY <1>1, <2>1, <2>2 DEF ListHolds, AccessHolds, Reads
  <2> QED
      BY <1>1, <2>1, <2>3, <2>4, <2>5 DEF Advances, CallInv, HasIssued
<1>2. ASSUME r.step = "estimating", r.by # Empty
      PROVE  Advances(r, Estimated(r, n))
  <2> DEFINE s == Estimated(r, n)
  <2>1. /\ s.name = r.name /\ s.arg = r.arg /\ s.by = r.by /\ s.known = r.known
        /\ s.status = r.status /\ s.authorized = r.authorized
        /\ s.step = "sending" /\ s.tx = r.tx /\ s.id = r.id
      BY <1>0 DEF CallType, Estimated
  <2>2. s \in CallType
      BY <1>0, SendType
  <2> HIDE DEF s
  <2>3. Advances(r, s)
      BY <1>1, <1>2, <2>1, <2>2
  <2> QED
      BY <2>3 DEF s
<1>3. ASSUME r.step = "sending"
      PROVE  Advances(r, Sent(r))
  <2> DEFINE s == Sent(r)
  <2>1. /\ s.name = r.name /\ s.arg = r.arg /\ s.by = r.by /\ s.known = r.known
        /\ s.status = r.status /\ s.authorized = r.authorized
        /\ s.step = "waiting" /\ s.tx = "pending" /\ s.id = r.id
      BY <1>0 DEF CallType, Sent
  <2>2. s \in CallType /\ r.by # Empty
      BY <1>0, <1>3, SendType DEF Phase
  <2> HIDE DEF s
  <2>3. Advances(r, s)
      BY <1>1, <1>3, <2>1, <2>2
  <2> QED
      BY <2>3 DEF s
<1> QED
    BY <1>2, <1>3

\* Whatever is announced exists.
LEMMA AnnouncedExists ==
    ASSUME ApiInv
    PROVE  /\ Announced \in SUBSET Nat
           /\ deployed => \A a \in Announced : a \in AttestationIds /\ Exists(a)
<1> SUFFICES ASSUME NEW c \in Calls, call[c].name = "createAttestation",
                    call[c].status = 201
             PROVE  /\ call[c].id \in Nat
                    /\ deployed => call[c].id \in AttestationIds /\ Exists(call[c].id)
    BY DEF Announced
<1>1. CallInv(call[c])
    BY DEF ApiInv
<1>2. call[c].tx = "mined"
    BY <1>1 DEF CallInv, Phase, Writes
<1> QED
    BY <1>1, <1>2 DEF CallInv, CallType, Done

\* The record of a call that has just come in, before and after validate.ts.
NewCall(name, arg, by) ==
    [NoCall EXCEPT !.name = name, !.arg = arg, !.by = by,
                   !.known = Announced, !.made = requestIdCounter]
Taken(r) == [r EXCEPT !.step = IF r.name \in Reads THEN "reading" ELSE "estimating",
                      !.unread = {"ids", "authorized"}]

LEMMA NewCallType ==
    ASSUME NEW name \in Names, NEW arg \in Arguments, NEW by \in Account,
           Announced \in SUBSET Nat, requestIdCounter \in Nat
    PROVE  LET r == NewCall(name, arg, by) IN
           /\ r \in CallType /\ Taken(r) \in CallType
           /\ r.name = name /\ r.arg = arg /\ r.by = by /\ r.tx = "none"
           /\ r.known = Announced /\ r.made = requestIdCounter
           /\ r.status = 0 /\ r.id = 0 /\ ~r.authorized
<1> DEFINE r == NewCall(name, arg, by)
<1>1. NoCall \in CallType
  <2>1. "idle" \in Steps /\ 0 \in Statuses /\ "none" \in Names /\ 0 \in Arguments
      BY DEF Steps, Statuses, Names, Arguments
  <2>2. <<>> \in Seq(Ids)
      OBVIOUS
  <2> QED
      BY <2>1, <2>2 DEF NoCall, CallType
<1>2. r \in CallType
    BY <1>1 DEF NewCall, CallType
<1>3. /\ r.name = name /\ r.arg = arg /\ r.by = by
      /\ r.known = Announced /\ r.made = requestIdCounter
      /\ r.tx = NoCall.tx /\ r.status = NoCall.status /\ r.id = NoCall.id
    BY <1>1 DEF NewCall, CallType
<1>4. ~r.authorized
    BY <1>1 DEF NewCall, NoCall
<1>5. Taken(r) \in CallType
  <2> HIDE DEF r
  <2>1. (IF r.name \in Reads THEN "reading" ELSE "estimating") \in Steps
      BY DEF Steps
  <2> QED
      BY <1>2, <2>1 DEF Taken, CallType
<1> QED
    BY <1>2, <1>3, <1>4, <1>5 DEF NoCall

LEMMA NewCallAdvances ==
    ASSUME ApiInv, NEW name \in Reads \cup Writes, NEW arg \in Argument(name),
           NEW by \in Account, NEW s \in CallType,
           s.name = name, s.arg = arg, s.by = by, s.tx = "none",
           s.known = Announced, s.made = requestIdCounter, ~s.authorized,
           s.id = 0,
           \/ /\ s.step = IF name \in Reads THEN "reading" ELSE "estimating"
              /\ s.status = 0 /\ s.unread = {"ids", "authorized"}
              /\ Valid(name, arg)
           \/ s.step = "answered" /\ s.status = 400,
           NEW r
    PROVE  Advances(r, s)
<1>1. requestIdCounter \in Nat
    BY BoundAssumption DEF ApiInv, ConsentInv, RegistryInv, TypeOK
<1>2. Phase(s)
  <2>1. name \in Writes => name \notin Reads
      BY DEF Reads, ListReads, Writes
  <2> QED
      BY <2>1 DEF Phase, Started
<1>3. deployed => Knows(s)
    BY AnnouncedExists DEF Knows
<1>4. ListHolds(s) /\ AccessHolds(s)
    BY <1>1 DEF ListHolds, AccessHolds
<1> QED
    BY <1>2, <1>3, <1>4 DEF Advances, CallInv, HasIssued

LEMMA ReceiveStep ==
    ASSUME ApiInv, NEW c \in Calls, NEW name \in Reads \cup Writes,
           NEW arg \in Argument(name), NEW by \in Account,
           Receive(c, name, arg, by), UNCHANGED registryVars
    PROVE  ApiInv'
<1> DEFINE r == NewCall(name, arg, by)
<1>1. /\ r \in CallType /\ Taken(r) \in CallType
      /\ r.name = name /\ r.arg = arg /\ r.by = by /\ r.tx = "none"
      /\ r.known = Announced /\ r.made = requestIdCounter
      /\ r.status = 0 /\ r.id = 0 /\ ~r.authorized
  <2>1. name \in Names /\ arg \in Arguments /\ requestIdCounter \in Nat
      BY BoundAssumption
         DEF Names, Arguments, ApiInv, ConsentInv, RegistryInv, TypeOK
  <2> QED
      BY <2>1, AnnouncedExists, NewCallType
<1>2. /\ Valid(name, arg) => Goes(c, Taken(r))
      /\ ~Valid(name, arg) => Goes(c, Reply(r, 400))
  <2>1. /\ Valid(name, arg) =>
              Goes(c, [r EXCEPT !.step = IF name \in Reads THEN "reading"
                                                           ELSE "estimating",
                                !.unread = {"ids", "authorized"}])
        /\ ~Valid(name, arg) =>
              Goes(c, [r EXCEPT !.step = "answered", !.status = 400])
      BY DEF Receive, NewCall
  <2> QED
      BY <1>1, <2>1 DEF Taken, Reply
<1> HIDE DEF r
<1>3. CASE Valid(name, arg)
  <2> DEFINE s == Taken(r)
  <2>1. /\ s.name = name /\ s.arg = arg /\ s.by = by /\ s.tx = "none"
        /\ s.known = Announced /\ s.made = requestIdCounter
        /\ s.step = IF name \in Reads THEN "reading" ELSE "estimating"
        /\ s.status = 0 /\ s.unread = {"ids", "authorized"} /\ s.id = 0
      BY <1>1 DEF Taken, CallType
  <2>2. ~s.authorized
      BY <1>1 DEF Taken, CallType
  <2>3. s \in CallType
      BY <1>1
  <2> HIDE DEF s
  <2>4. Advances(call[c], s)
      BY <1>3, <2>1, <2>2, <2>3, NewCallAdvances
  <2> QED
      BY <1>2, <1>3, <2>4, CallGoes DEF s
<1>4. CASE ~Valid(name, arg)
  <2> DEFINE s == Reply(r, 400)
  <2>1. /\ s.name = name /\ s.arg = arg /\ s.by = by /\ s.tx = "none"
        /\ s.known = Announced /\ s.made = requestIdCounter
        /\ s.step = "answered" /\ s.status = 400 /\ s.id = 0
      BY <1>1 DEF Reply, CallType
  <2>2. ~s.authorized
      BY <1>1 DEF Reply, CallType
  <2>3. s \in CallType
    <3>1. 400 \in Statuses
        BY DEF Statuses
    <3> QED
        BY <1>1, <3>1, AnswerType
  <2> HIDE DEF s
  <2>4. Advances(call[c], s)
      BY <2>1, <2>2, <2>3, NewCallAdvances
  <2> QED
      BY <1>2, <1>4, <2>4, CallGoes DEF s
<1> QED
    BY <1>3, <1>4

\* The statuses errorHandler.ts gives the reasons of the contract's functions.
LEMMA RefusalStatus ==
    ASSUME NEW from, NEW name, NEW arg, NEW n \in Refusals(from, name, arg)
    PROVE  Requirements(from, name, arg)[n][2] \in {400, 403, 404, 409, 500}
<1> DEFINE q == Requirements(from, name, arg)
<1>1. n \in DOMAIN q
    BY DEF Refusals
<1>2. CASE name = "registerEmployer"
  <2>1. DOMAIN q = 1..2 /\ q[1][2] = 409 /\ q[2][2] = 500
      BY <1>2 DEF Requirements
  <2> QED
      BY <1>1, <2>1
<1>3. CASE name = "createAttestation"
  <2>1. DOMAIN q = 1..2 /\ q[1][2] = 403 /\ q[2][2] = 500
      BY <1>3 DEF Requirements
  <2> QED
      BY <1>1, <2>1
<1>4. CASE name = "revokeAttestation"
  <2>1. DOMAIN q = 1..3 /\ q[1][2] = 404 /\ q[2][2] = 403 /\ q[3][2] = 400
      BY <1>4 DEF Requirements
  <2> QED
      BY <1>1, <2>1
<1>5. CASE name = "requestDocumentAccess"
  <2>1. DOMAIN q = 1..3 /\ q[1][2] = 403 /\ q[2][2] = 404 /\ q[3][2] = 400
      BY <1>5 DEF Requirements
  <2> QED
      BY <1>1, <2>1
<1>6. CASE name \notin {"registerEmployer", "createAttestation",
                        "revokeAttestation", "requestDocumentAccess"}
  <2>1. DOMAIN q = 1..3 /\ q[1][2] = 404 /\ q[2][2] = 400 /\ q[3][2] = 403
      BY <1>6 DEF Requirements
  <2> QED
      BY <1>1, <2>1
<1> QED
    BY <1>2, <1>3, <1>4, <1>5, <1>6

LEMMA HandleStep ==
    ASSUME ApiInv, NEW c \in Calls, Handle(c), UNCHANGED registryVars
    PROVE  ApiInv'
<1> DEFINE r == call[c]
<1>0. /\ CallInv(r) /\ Phase(r) /\ r \in CallType
      /\ ConsentInv /\ RegistryInv /\ TypeOK /\ IndexesMatchRecords
    BY DEF ApiInv, CallInv, ConsentInv, RegistryInv
<1>1. \A status : Answer(c, status) => Goes(c, Reply(r, status))
    BY DEF Answer, Reply
<1>2. /\ 500 \in Statuses \ {0} /\ 200 \in Statuses \ {0} /\ 201 \in Statuses \ {0}
      /\ {400, 403, 404, 409} \subseteq Statuses \ {0}
    BY DEF Statuses
<1>3. r.step \in Handled => Advances(r, Reply(r, 500))
    BY <1>0, <1>2, AnswerAdvances
<1> HIDE DEF r
<1>4. ASSUME NEW s, Goes(c, s), Advances(r, s) PROVE ApiInv'
    BY <1>4, CallGoes DEF r
<1>5. CASE ReadOnce(c)
  <2>1. \/ Missing(r.name, r.arg) /\ Goes(c, Reply(r, 404))
        \/ Goes(c, Listed(r))
      BY <1>1, <1>5 DEF ReadOnce, Listed, r
  <2>2. deployed /\ r.step = "reading" /\ r.name # "access"
      BY <1>5 DEF ReadOnce, r
  <2> QED
      BY <1>0, <1>4, <2>1, <2>2, ReadOnceAdvances
<1>6. CASE ReadRequestIds(c)
  <2>1. Goes(c, IdsRead(r)) /\ r.step = "reading" /\ r.name = "access"
      BY <1>6 DEF ReadRequestIds, IdsRead, r
  <2> QED
      BY <1>0, <1>4, <2>1, ReadIdsAdvances
<1>7. CASE ReadAuthorized(c)
  <2>1. Goes(c, AuthorizedRead(r)) /\ r.step = "reading" /\ r.name = "access"
      BY <1>7 DEF ReadAuthorized, AuthorizedRead, r
  <2> QED
      BY <1>0, <1>4, <2>1, ReadAuthorizedAdvances
<1>8. CASE AnswerAccess(c)
  <2>1. /\ Goes(c, Reply(r, 200)) /\ r.step = "reading" /\ r.name = "access"
        /\ r.unread = {}
      BY <1>1, <1>8 DEF AnswerAccess, r
  <2>2. Advances(r, Reply(r, 200))
      BY <1>0, <1>2, <2>1, AnswerAdvances DEF Handled
  <2> QED
      BY <1>4, <2>1, <2>2
<1>9. CASE NoKey(c)
  <2>1. Goes(c, Reply(r, 500)) /\ r.step = "estimating"
      BY <1>1, <1>9 DEF NoKey, r
  <2> QED
      BY <1>3, <1>4, <2>1 DEF Handled
<1>10. CASE Estimate(c)
  <2>1. r.step = "estimating" /\ r.by # Empty
      BY <1>10 DEF Estimate, r
  <2>2. \/ \E n \in Refusals(r.by, r.name, r.arg) :
              Goes(c, Reply(r, Requirements(r.by, r.name, r.arg)[n][2]))
        \/ Goes(c, Estimated(r, SentBy(r.by)))
      BY <1>1, <1>10 DEF Estimate, Estimated, r
  <2>3. ASSUME NEW status \in {400, 403, 404, 409, 500}
        PROVE  Advances(r, Reply(r, status))
    <3>1. r.tx = "none" /\ r.name # "attestation"
        BY <1>0, <2>1 DEF Phase, Writes
    <3>2. status \in Statuses \ {0} /\ status \notin {200, 201}
        BY <2>3 DEF Statuses
    <3> QED
        BY <1>0, <2>1, <3>1, <3>2, AnswerAdvances DEF Handled
  <2>4. SentBy(r.by) \in Nat
    <3>1. {d \in Calls : call[d].by = r.by /\ call[d].tx # "none"} \subseteq Calls
        OBVIOUS
    <3> QED
        BY <3>1, CallsAssumption, FS_Subset, FS_CardinalityType DEF SentBy
  <2>5. Advances(r, Estimated(r, SentBy(r.by)))
      BY <1>0, <2>1, <2>4, SendAdvances
  <2> QED
      BY <1>4, <2>2, <2>3, <2>5, RefusalStatus
<1>11. CASE Send(c)
  <2>1. Goes(c, Sent(r)) /\ r.step = "sending"
      BY <1>11 DEF Send, Sent, r
  <2> QED
      BY <1>0, <1>4, <2>1, SendAdvances
<1>12. CASE AnswerWrite(c)
  <2>1. /\ r.step = "waiting"
        /\ \/ /\ r.tx = "mined"
              /\ \E status \in {200, 201} : Goes(c, Reply(r, status))
           \/ Goes(c, Reply(r, 500))
      BY <1>1, <1>12 DEF AnswerWrite, r
  <2>2. ASSUME r.tx = "mined", NEW status \in {200, 201}
        PROVE  Advances(r, Reply(r, status))
    <3>1. r.name \in Writes
        BY <1>0, <2>2 DEF Phase
    <3>2. status \in Statuses \ {0} /\ status \notin {400, 403, 404, 409}
        BY <2>2 DEF Statuses
    <3> QED
        BY <1>0, <2>1, <2>2, <3>1, <3>2, AnswerAdvances DEF Handled
  <2> QED
      BY <1>3, <1>4, <2>1, <2>2 DEF Handled
<1>13. CASE RpcFails(c)
  <2>1. Goes(c, Reply(r, 500)) /\ r.step \in Handled
      BY <1>1, <1>13 DEF RpcFails, Handled, r
  <2> QED
      BY <1>3, <1>4, <2>1
<1> QED
    BY <1>5, <1>6, <1>7, <1>8, <1>9, <1>10, <1>11, <1>12, <1>13 DEF Handle

-----------------------------------------------------------------------------
(* What a mined transaction leaves.                                         *)

\* The transaction of a write is one of the registry's, and does what the call
\* asked under the caller's key; the event has the new id.
LEMMA ExecuteDone ==
    ASSUME RegistryInv, NEW r \in CallType, Phase(r), r.tx = "pending",
           Execute(r.by, r.name, r.arg)
    PROVE  /\ Next
           /\ IdInEvent(r.name) \in Nat
           /\ r.name = "registerEmployer" => isEmployerRegistered(r.by)'
           /\ r.name = "createAttestation" =>
                 /\ IdInEvent(r.name) \in AttestationIds
                 /\ ~Exists(IdInEvent(r.name))
                 /\ attestations'[IdInEvent(r.name)] = Recorded(r.by, r.arg)
                 /\ blockTimestamp # 0
           /\ r.name = "revokeAttestation" =>
                 /\ Exists(r.arg)' /\ Revoked(r.arg)'
                 /\ attestations'[r.arg].employer = r.by
           /\ r.name = "requestDocumentAccess" =>
                 /\ IdInEvent(r.name) \in RequestIds
                 /\ accessRequests'[IdInEvent(r.name)] = MadeRequest(r.by, r.arg)
                 /\ blockTimestamp # 0
           /\ r.name \in {"approveDocumentAccess", "rejectDocumentAccess"} =>
                 /\ Requested(r.arg)'
                 /\ accessRequests'[r.arg].employee = r.by
                 /\ accessRequests'[r.arg].status =
                       IF r.name = "approveDocumentAccess"
                       THEN "APPROVED" ELSE "REJECTED"
<1>0. /\ r.by \in Wallets /\ r.name \in Writes /\ Started(r)
      /\ TypeOK /\ blockTimestamp # 0 /\ blockTimestamp \in Nat
    BY BoundAssumption DEF Phase, CallType, Started, RegistryInv, TypeOK
<1>1. CASE r.name = "registerEmployer"
  <2>1. r.arg \in EmployerNames /\ registerEmployer(r.by, r.arg)
      BY <1>0, <1>1, ArgumentType DEF Execute
  <2>2. isEmployerRegistered(r.by)'
      BY <1>0, <2>1 DEF registerEmployer, isEmployerRegistered, TypeOK
  <2> QED
      BY <1>0, <1>1, <2>1, <2>2 DEF Next, Transaction, IdInEvent
<1>2. CASE r.name = "createAttestation"
  <2>1. r.arg \in Submissions /\ createAttestation(r.by, r.arg)
      BY <1>0, <1>2, ArgumentType DEF Execute
  <2>2. IdInEvent(r.name) = attestationIdCounter + 1
      BY <1>2, <2>1 DEF IdInEvent, createAttestation, NextAttestationId, Emitted
  <2>3. /\ attestationIdCounter + 1 \in AttestationIds
        /\ ~Exists(attestationIdCounter + 1)
      BY <1>0, <2>1, RecordIssued
  <2>4. attestations'[attestationIdCounter + 1] = Recorded(r.by, r.arg)
      BY <1>0, <2>1, <2>3 DEF createAttestation, NextAttestationId, TypeOK
  <2> QED
      BY <1>0, <1>2, <2>1, <2>2, <2>3, <2>4 DEF Next, Transaction
<1>3. CASE r.name = "revokeAttestation"
  <2>1. r.arg \in AttestationIds /\ revokeAttestation(r.by, r.arg)
      BY <1>0, <1>3, ArgumentType DEF Execute
  <2>2. /\ attestations'[r.arg] = [attestations[r.arg] EXCEPT !.status = "REVOKED"]
        /\ attestations[r.arg] \in Attestation
        /\ Exists(r.arg) /\ attestations[r.arg].employer = r.by
      BY <1>0, <2>1 DEF revokeAttestation, CanRevoke, TypeOK
  <2>3. /\ Exists(r.arg)' /\ Revoked(r.arg)'
        /\ attestations'[r.arg].employer = r.by
      BY <2>2 DEF Exists, Revoked, Attestation
  <2> QED
      BY <1>0, <1>3, <2>1, <2>3 DEF Next, Transaction, IdInEvent
<1>4. CASE r.name = "requestDocumentAccess"
  <2>1. r.arg \in AttestationIds /\ requestDocumentAccess(r.by, r.arg)
      BY <1>0, <1>4, ArgumentType DEF Execute
  <2>2. IdInEvent(r.name) = requestIdCounter + 1
      BY <1>4, <2>1 DEF IdInEvent, requestDocumentAccess, Emitted
  <2>3. requestIdCounter + 1 \in RequestIds
      BY <1>0, <2>1, RequestIssued
  <2>4. accessRequests'[requestIdCounter + 1] = MadeRequest(r.by, r.arg)
      BY <1>0, <2>1, <2>3 DEF requestDocumentAccess, MadeRequest, TypeOK
  <2> QED
      BY <1>0, <1>4, <2>1, <2>2, <2>3, <2>4 DEF Next, Transaction
<1>5. CASE r.name = "approveDocumentAccess"
  <2>1. r.arg \in RequestIds /\ approveDocumentAccess(r.by, r.arg)
      BY <1>0, <1>5, ArgumentType DEF Execute
  <2>2. Next
      BY <1>0, <2>1 DEF Next, Transaction
  <2>3. AnswerOf(r.arg, "APPROVED") /\ accessRequests[r.arg].employee = r.by
        /\ Requested(r.arg)
      BY <1>0, <2>1, AnswerActions DEF approveDocumentAccess, CanAnswer
  <2> QED
      BY <1>0, <1>5, <2>1, <2>2, <2>3, AnswerEffect, RequestsPersist DEF IdInEvent
<1>6. CASE r.name = "rejectDocumentAccess"
  <2>1. r.arg \in RequestIds /\ rejectDocumentAccess(r.by, r.arg)
      BY <1>0, <1>6, ArgumentType DEF Execute
  <2>2. Next
      BY <1>0, <2>1 DEF Next, Transaction
  <2>3. AnswerOf(r.arg, "REJECTED") /\ accessRequests[r.arg].employee = r.by
        /\ Requested(r.arg)
      BY <1>0, <2>1, AnswerActions DEF rejectDocumentAccess, CanAnswer
  <2> QED
      BY <1>0, <1>6, <2>1, <2>2, <2>3, AnswerEffect, RequestsPersist DEF IdInEvent
<1> QED
    BY <1>0, <1>1, <1>2, <1>3, <1>4, <1>5, <1>6 DEF Writes

\* The call's own record when its transaction is mined or reverted.
LEMMA TxPhase ==
    ASSUME NEW r \in CallType, Phase(r), r.tx = "pending", NEW s,
           s.step = r.step, s.name = r.name, s.arg = r.arg, s.by = r.by,
           s.status = r.status, s.unread = r.unread,
           s.authorized = r.authorized,
           s.tx = "mined" \/ (s.tx = "reverted" /\ s.id = r.id)
    PROVE  Phase(s)
<1>1. r.step \in {"waiting", "answered"} /\ Started(r)
    BY DEF Phase, Started
<1> QED
    BY <1>1 DEF Phase, Started

LEMMA TxAdvances ==
    ASSUME NEW r, CallInv(r), r.tx = "pending"
    PROVE  /\ Advances(r, Reverted(r))
           /\ ~deployed => Advances(r, MinedInVain(r))
<1>0. r \in CallType /\ Phase(r) /\ r.name \in Writes
    BY DEF CallInv, Phase
<1>1. ASSUME NEW s \in {Reverted(r), MinedInVain(r)},
             s.tx = "reverted" \/ ~deployed
      PROVE  Advances(r, s)
  <2>1. /\ s.step = r.step /\ s.name = r.name /\ s.arg = r.arg /\ s.by = r.by
        /\ s.status = r.status /\ s.unread = r.unread
        /\ s.authorized = r.authorized /\ s.known = r.known
        /\ s.tx \in {"mined", "reverted"} /\ s.id = r.id
      BY <1>0, <1>1 DEF CallType, Reverted, MinedInVain
  <2>2. s \in CallType
      BY <1>0, <1>1, MineType
  <2>3. Phase(s)
      BY <1>0, <2>1, TxPhase
  <2>4. deployed => Knows(s)
      BY <2>1 DEF CallInv, Knows
  <2>5. ListHolds(s) /\ AccessHolds(s)
      BY <1>0, <2>1 DEF ListHolds, AccessHolds, Writes, ListReads
  <2> QED
      BY <1>1, <2>2, <2>3, <2>4, <2>5 DEF Advances, CallInv, HasIssued
<1>2. Reverted(r).tx = "reverted"
    BY <1>0 DEF CallType, Reverted
<1> QED
    BY <1>1, <1>2

LEMMA MinedDone ==
    ASSUME ConsentInv, NEW r, CallInv(r), r.tx = "pending",
           deployed, deployed' = deployed, Execute(r.by, r.name, r.arg),
           NEW s, s = Mined(r, IdInEvent(r.name))
    PROVE  /\ Next
           /\ CallInv(s)'
           /\ s \in CallType
           /\ HasIssued(s) => ~Exists(s.id)
<1>0. /\ Phase(r) /\ r \in CallType /\ r.name \in Writes
      /\ RegistryInv /\ Knows(r)
    BY DEF CallInv, Phase, ConsentInv
<1>1. /\ s.step = r.step /\ s.name = r.name /\ s.arg = r.arg /\ s.by = r.by
      /\ s.status = r.status /\ s.unread = r.unread
      /\ s.authorized = r.authorized /\ s.known = r.known
      /\ s.tx = "mined" /\ s.id = IdInEvent(r.name)
    BY <1>0 DEF CallType, Mined
<1>2. Next /\ s \in CallType
    BY <1>0, ExecuteDone, MineType
<1>3. Phase(s)
    BY <1>0, <1>1, TxPhase
<1>4. s.name = "createAttestation" =>
         /\ s.id \in AttestationIds
         /\ ~Exists(s.id)
         /\ attestations'[s.id].issueTimestamp # 0
         /\ attestations'[s.id].employer = s.by
         /\ attestations'[s.id].employee = s.arg.employee
         /\ attestations'[s.id].ipfsCID = s.arg.ipfsCID
  <2>1. s.name = "createAttestation" =>
           /\ s.id \in AttestationIds /\ ~Exists(s.id)
           /\ attestations'[s.id] = Recorded(s.by, s.arg)
           /\ blockTimestamp # 0
      BY <1>0, <1>1, ExecuteDone
  <2> QED
      BY <2>1 DEF Recorded
<1>5. s.name = "requestDocumentAccess" =>
         /\ s.id \in RequestIds
         /\ accessRequests'[s.id].timestamp # 0
         /\ accessRequests'[s.id].verifier = s.by
         /\ accessRequests'[s.id].attestationId = s.arg
  <2>1. s.name = "requestDocumentAccess" =>
           /\ s.id \in RequestIds
           /\ accessRequests'[s.id] = MadeRequest(s.by, s.arg)
           /\ blockTimestamp # 0
      BY <1>0, <1>1, ExecuteDone
  <2> QED
      BY <2>1 DEF MadeRequest
<1>6. /\ s.name = "registerEmployer" => isEmployerRegistered(s.by)'
      /\ s.name = "revokeAttestation" =>
            /\ Exists(s.arg)' /\ Revoked(s.arg)'
            /\ attestations'[s.arg].employer = s.by
      /\ s.name \in {"approveDocumentAccess", "rejectDocumentAccess"} =>
            /\ Requested(s.arg)'
            /\ accessRequests'[s.arg].employee = s.by
            /\ accessRequests'[s.arg].status =
                  IF s.name = "approveDocumentAccess" THEN "APPROVED" ELSE "REJECTED"
    BY <1>0, <1>1, ExecuteDone
<1>7. Done(s)'
    BY <1>4, <1>5, <1>6 DEF Done, Exists, Requested
<1>8. Knows(s)'
  <2>1. Knows(r)'
      BY <1>0, <1>2, KnowsKept
  <2> QED
      BY <1>1, <2>1 DEF Knows
<1>9. ListHolds(s)' /\ AccessHolds(s)'
    BY <1>0, <1>1 DEF ListHolds, AccessHolds, Writes, ListReads
<1> QED
    BY <1>1, <1>2, <1>3, <1>4, <1>7, <1>8, <1>9 DEF CallInv, HasIssued

LEMMA MineStep ==
    ASSUME ApiInv, NEW c \in Calls, Mine(c)
    PROVE  ApiInv'
<1> DEFINE r == call[c]
<1>0. CallInv(r) /\ r.tx = "pending" /\ ConsentInv /\ IndexesMatchRecords
    BY DEF ApiInv, Mine
<1>1. ASSUME UNCHANGED registryVars,
             Goes(c, Reverted(r)) \/ (~deployed /\ Goes(c, MinedInVain(r)))
      PROVE  ApiInv'
    BY <1>0, <1>1, TxAdvances, CallGoes
<1>2. ASSUME deployed, Execute(r.by, r.name, r.arg),
             NEW s, s = Mined(r, IdInEvent(r.name)), Goes(c, s)
      PROVE  ApiInv'
  <2>1. /\ call'[c] = s
        /\ \A d \in Calls \ {c} : call'[d] = call[d]
        /\ call' = [call EXCEPT ![c] = s]
        /\ deployed' = deployed /\ others' = others
      BY <1>2 DEF Goes, ApiInv
  <2>2. /\ Next
        /\ CallInv(s)'
        /\ s \in CallType
        /\ HasIssued(s) => ~Exists(s.id)
      BY <1>0, <1>2, <2>1, MinedDone
  <2>3. ConsentInv' /\ IndexesMatchRecords'
      BY <1>0, <2>2, ConsentStep, IndexesStep DEF ConsentInv
  <2>4. \A d \in Calls : CallInv(call[d])'
      BY <1>0, <2>1, <2>2, CallKept DEF ApiInv, ConsentInv
  <2>5. call' \in [Calls -> CallType]
      BY <2>1, <2>2 DEF ApiInv
  <2>6. IdsDiffer'
    <3> SUFFICES ASSUME NEW d \in Calls, NEW e \in Calls, d # e,
                        HasIssued(call'[d]), HasIssued(call'[e])
                 PROVE  call'[d].id # call'[e].id
        BY DEF IdsDiffer
    <3>1. ASSUME NEW x \in Calls \ {c}, HasIssued(call[x]), HasIssued(s)
          PROVE  call[x].id # s.id
        BY <1>2, <2>2, <3>1 DEF ApiInv, CallInv, HasIssued, Done
    <3> QED
        BY <1>2, <2>1, <3>1 DEF ApiInv, IdsDiffer
  <2> QED
      BY <2>1, <2>3, <2>4, <2>5, <2>6 DEF ApiInv
<1> QED
  <2>1. \/ deployed /\ Execute(r.by, r.name, r.arg)
           /\ Goes(c, Mined(r, IdInEvent(r.name)))
        \/ /\ UNCHANGED registryVars
           /\ Goes(c, Reverted(r)) \/ (~deployed /\ Goes(c, MinedInVain(r)))
      BY DEF Mine, Mined, Reverted, MinedInVain
  <2> QED
      BY <1>1, <1>2, <2>1

-----------------------------------------------------------------------------
(* The theorems.                                                            *)

LEMMA ApiInitInv == ApiInit => ApiInv
<1> SUFFICES ASSUME ApiInit PROVE ApiInv
    OBVIOUS
<1>1. ConsentInv /\ IndexesMatchRecords
    BY HistoryKeeps DEF ApiInit
<1>2. /\ NoCall \in CallType
      /\ NoCall.step = "idle" /\ NoCall.status = 0 /\ NoCall.tx = "none"
      /\ NoCall.name = "none" /\ NoCall.known = {} /\ NoCall.id = 0
  <2>1. "idle" \in Steps /\ 0 \in Statuses /\ "none" \in Names /\ 0 \in Arguments
      BY DEF Steps, Statuses, Names, Arguments
  <2>2. <<>> \in Seq(Ids)
      OBVIOUS
  <2> QED
      BY <2>1, <2>2 DEF NoCall, CallType
<1>3. ~NoCall.authorized
    BY DEF NoCall
<1>4. CallInv(NoCall)
    BY <1>2, <1>3
       DEF CallInv, Phase, Started, Knows, ListHolds, ListReads, AccessHolds, Writes
<1>5. \A c \in Calls : call[c] = NoCall
    BY DEF ApiInit
<1>6. call \in [Calls -> CallType]
    BY <1>2 DEF ApiInit
<1> QED
    BY <1>1, <1>2, <1>4, <1>5, <1>6, OthersAssumption
       DEF ApiInit, ApiInv, IdsDiffer, HasIssued

LEMMA OthersStep ==
    ASSUME ApiInv, [Next]_registryVars, UNCHANGED <<deployed, call>>,
           others' \in 0..MaxOthers
    PROVE  ApiInv'
<1>1. ConsentInv' /\ IndexesMatchRecords'
    BY ConsentStep, IndexesStep DEF ApiInv, ConsentInv
<1>2. \A c \in Calls : CallInv(call[c])'
    BY CallKept DEF ApiInv, ConsentInv
<1> QED
    BY <1>1, <1>2 DEF ApiInv, IdsDiffer

LEMMA ApiStep == ApiInv /\ [ApiNext]_<<registryVars, apiVars>> => ApiInv'
<1> SUFFICES ASSUME ApiInv, [ApiNext]_<<registryVars, apiVars>> PROVE ApiInv'
    OBVIOUS
<1>1. ASSUME NEW c \in Calls, NEW name \in Reads \cup Writes,
             NEW arg \in Argument(name), NEW by \in Account,
             Receive(c, name, arg, by), UNCHANGED registryVars
      PROVE  ApiInv'
    BY <1>1, ReceiveStep
<1>2. ASSUME NEW c \in Calls, Handle(c), UNCHANGED registryVars
      PROVE  ApiInv'
    BY <1>2, HandleStep
<1>3. ASSUME NEW c \in Calls, Mine(c) PROVE ApiInv'
    BY <1>3, MineStep
<1>4. CASE /\ others < MaxOthers /\ others' = others + 1
           /\ Next /\ UNCHANGED <<deployed, call>>
    BY <1>4, OthersStep, OthersAssumption DEF ApiInv
<1>5. CASE UNCHANGED <<registryVars, apiVars>>
    BY <1>5, OthersStep DEF apiVars, ApiInv
<1> QED
    BY <1>1, <1>2, <1>3, <1>4, <1>5 DEF ApiNext

\* The invariant holds of every call, whatever the others and the chain do.
LEMMA ApiInvariant == ApiSpec => []ApiInv
BY ApiInitInv, ApiStep, PTL DEF ApiSpec

\* Every field of a call keeps its type, and a call is answered once.
THEOREM ApiTypes == ApiSpec => []ApiTypeOK
<1>1. ASSUME ApiInv, NEW c \in Calls
      PROVE  /\ call[c].step \in Steps
             /\ call[c].status \in Statuses
             /\ call[c].status # 0 <=> call[c].step = "answered"
             /\ IF call[c].name = "none" THEN call[c].arg = 0
                ELSE /\ call[c].name \in Reads \cup Writes
                     /\ call[c].arg \in Argument(call[c].name)
             /\ call[c].by \in Account
             /\ call[c].tx \in {"none", "pending", "mined", "reverted"}
             /\ call[c].nonce \in Nat /\ call[c].id \in Nat /\ call[c].made \in Nat
             /\ call[c].ids \in Seq(AttestationIds \cup RequestIds)
             /\ call[c].authorized \in BOOLEAN
  <2>1. Phase(call[c]) /\ call[c] \in CallType
      BY <1>1 DEF ApiInv, CallInv
  <2>2. IF call[c].name = "none" THEN call[c].arg = 0
        ELSE /\ call[c].name \in Reads \cup Writes
             /\ call[c].arg \in Argument(call[c].name)
    <3>1. NoCall.name = "none" /\ NoCall.arg = 0
        BY DEF NoCall
    <3>2. "none" \notin Reads \cup Writes
        BY DEF Reads, ListReads, Writes
    <3> QED
        BY <2>1, <3>1, <3>2 DEF Phase
  <2>3. call[c].status # 0 <=> call[c].step = "answered"
      BY <2>1 DEF Phase
  <2> QED
      BY <2>1, <2>2, <2>3 DEF CallType, Ids
<1>2. ApiInv => ApiTypeOK
    BY <1>1 DEF ApiInv, ApiTypeOK, Steps, Statuses
<1> QED
    BY ApiInvariant, <1>2, PTL

\* What a write answered 200 or 201 reports has happened and stays so.
THEOREM WritesHappened == ApiSpec => []AnsweredWritesHappened
<1>1. ASSUME ApiInv, deployed, NEW c \in Calls, Succeeded(c)
      PROVE  Happened(c)
  <2>1. /\ call[c].name \in Writes /\ call[c].tx = "mined"
        /\ Phase(call[c]) /\ Done(call[c])
      BY <1>1 DEF Succeeded, ApiInv, CallInv, Phase
  <2>2. ASSUME call[c].name = "createAttestation", NEW d \in Calls \ {c},
               call[d].name = "createAttestation"
        PROVE  call[d].id # call[c].id
    <3>1. CASE call[d].tx = "mined"
        BY <1>1, <2>1, <2>2, <3>1 DEF ApiInv, IdsDiffer, HasIssued
    <3>2. CASE call[d].tx # "mined"
      <4>1. call[d].id = 0
          BY <1>1, <3>2 DEF ApiInv, CallInv, Phase
      <4> QED
          BY <2>1, <2>2, <4>1, BoundAssumption DEF Done
    <3> QED
        BY <3>1, <3>2
  <2> QED
      BY <2>1, <2>2 DEF Done, Happened, Writes
<1>2. ApiInv => AnsweredWritesHappened
    BY <1>1 DEF AnsweredWritesHappened
<1> QED
    BY ApiInvariant, <1>2, PTL

\* A write refused with 400, 403, 404 or 409 has sent nothing.
THEOREM RefusalsAreFinal == ApiSpec => []RefusedWritesDidNothing
<1>1. ApiInv => RefusedWritesDidNothing
    BY DEF ApiInv, CallInv, Phase, RefusedWritesDidNothing, Refused
<1> QED
    BY ApiInvariant, <1>1, PTL

\* A call that comes in after a 201 is not answered 404 about its attestation.
THEOREM ReadsFollowWrites == ApiSpec => []ReadsSeeAnswers
<1>1. ApiInv => ReadsSeeAnswers
    BY DEF ApiInv, CallInv, Knows, ReadsSeeAnswers
<1> QED
    BY ApiInvariant, <1>1, PTL

\* A list answered begins the present one, and an authorization answered has a
\* request in the list beside it or one made since the call came in.
THEOREM AccessAnswersFit == ApiSpec => []AccessViewHolds
<1>1. ASSUME ApiInv, NEW c \in Calls, call[c].status = 200,
             call[c].name \in ListReads \cup {"access"}
      PROVE  /\ SE!IsPrefix(call[c].ids, IF call[c].name = "access"
                                         THEN attestationRequests[call[c].arg]
                                         ELSE ListOf(call[c].name, call[c].arg))
             /\ call[c].authorized =>
                  \E r \in RequestIds :
                     /\ accessRequests[r].attestationId = call[c].arg
                     /\ accessRequests[r].verifier = call[c].by
                     /\ \/ r > call[c].made
                        \/ \E n \in DOMAIN call[c].ids : call[c].ids[n] = r
  <2> DEFINE r == call[c]
             list == IF r.name = "access" THEN attestationRequests[r.arg]
                     ELSE ListOf(r.name, r.arg)
  <2>1. /\ r \in CallType /\ Phase(r) /\ Started(r)
        /\ ListHolds(r) /\ AccessHolds(r) /\ TypeOK
      BY <1>1 DEF ApiInv, CallInv, Started, ConsentInv, RegistryInv
  <2>2. /\ r.name = "access" => r.arg \in AttestationIds
        /\ r.name \in {"employerAttestations", "attestationsByWallet"} =>
              r.arg \in Wallets
        /\ r.name = "attestationsByHash" => r.arg \in Data
      BY <2>1, ArgumentType
  <2>3. r.name = "access" => r.unread = {}
      BY <1>1, <2>1 DEF Phase
  <2>4. list \in Seq(Ids)
    <3>1. list \in Seq(AttestationIds) \/ list \in Seq(RequestIds)
        BY <1>1, <2>1, <2>2 DEF ListOf, ListReads, TypeOK
    <3> HIDE DEF list
    <3>2. CASE list \in Seq(AttestationIds)
        BY <3>2, SeqWidens DEF Ids
    <3>3. CASE list \in Seq(RequestIds)
        BY <3>3, SeqWidens DEF Ids
    <3> QED
        BY <3>1, <3>2, <3>3
  <2>5. Begins(r.ids, list)
      BY <1>1, <2>1, <2>3 DEF ListHolds, AccessHolds
  <2>6. r.ids \in Seq(Ids)
      BY <2>1 DEF CallType
  <2>7. SE!IsPrefix(r.ids, list)
      BY <2>4, <2>5, <2>6, BeginsWithPrefix
  <2>8. ASSUME r.authorized
        PROVE  \E q \in RequestIds :
                  /\ accessRequests[q].attestationId = r.arg
                  /\ accessRequests[q].verifier = r.by
                  /\ q > r.made \/ \E n \in DOMAIN r.ids : r.ids[n] = q
    <3>1. r.name = "access"
        BY <2>1, <2>8 DEF Phase
    <3>2. PICK q \in RequestIds : /\ Requested(q)
                                  /\ accessRequests[q].attestationId = r.arg
                                  /\ accessRequests[q].verifier = r.by
        BY <1>1, <2>1, <2>8, <3>1 DEF AccessHolds
    <3>3. r.made \in Nat
        BY <2>1 DEF CallType
    <3>4. q > r.made \/ \E n \in DOMAIN r.ids : r.ids[n] = q
        BY <1>1, <2>1, <2>3, <3>1, <3>2, <3>3, BoundAssumption DEF AccessHolds
    <3> QED
        BY <3>2, <3>4
  <2> QED
      BY <2>7, <2>8
<1>2. ApiInv => AccessViewHolds
    BY <1>1 DEF AccessViewHolds
<1> QED
    BY ApiInvariant, <1>2, PTL

=============================================================================
