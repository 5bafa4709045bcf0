---------------------------- MODULE IssuancePortal ----------------------------
(***************************************************************************)
(* The page src/frontend/src/pages/CreateAttestation.tsx: one press of the *)
(* button runs a pipeline that uploads the document, has the hashes        *)
(* computed, sends createAttestation and announces the id in its receipt.  *)
(* A failure at any step ends the pipeline; pressing again starts from the *)
(* upload.  A pipeline goes on when the user leaves the page, unseen.      *)
(***************************************************************************)
EXTENDS EmployerSession

CONSTANTS
    Pipelines,  \* runs of handleSubmit that may be in flight, numbered
    Blobs,      \* the encrypted documents that can be pinned
    Forms       \* what the form may hold when the button is pressed

VARIABLES
    pipeline,   \* slot -> a run of handleSubmit
    minted,     \* mintedAttestationId and txHash; id 0 for null
    pinned,     \* the blobs the service has pinned
    abandoned   \* those of them whose pipeline ended before it sent anything

issuanceVars == <<pipeline, minted, pinned, abandoned>>

\* A write, the blob its upload returned, and whether the page that started it
\* is still there to show what comes of it.
NoPipeline == [write |-> NoWrite, blob |-> Empty, seen |-> FALSE]

NotMinted == [id |-> 0, tx |-> 0]

IssuanceInit ==
    /\ pipeline = [p \in Pipelines |-> NoPipeline]
    /\ minted = NotMinted
    /\ pinned = {}
    /\ abandoned = {}

Step(p) == pipeline[p].write.step

isProcessing == \E p \in Pipelines : Step(p) # "idle" /\ pipeline[p].seen

\* Neither of the two notices nor the success screen takes its place.
FormShown == isConnected /\ isRegisteredEmployer /\ minted.id = 0

\* The zero address is a valid one, 1970 a valid year and a blank position fills
\* the field: those the contract turns down, after the upload.
ValidForm(s) == s.endDate > 0 => s.endDate >= s.startDate

\* The form asks for a document when the submission carries one.
HasDocument(s) == s.ipfsCID # Empty

\* The submission as it is sent: with the blob that was uploaded for it.
WithBlob(s, b) == [s EXCEPT !.ipfsCID = b, !.documentHash = b]

ASSUME PipelineAssumption ==
    /\ Pipelines \subseteq Nat \ {0}
    /\ Blobs \subseteq Data
    /\ Forms \subseteq Submission
    /\ \A s \in Forms : IF HasDocument(s)
                        THEN \A b \in Blobs : WithBlob(s, b) \in Submissions
                        ELSE s \in Submissions

Advanced(p, step) == [pipeline EXCEPT ![p].write.step = step]

-----------------------------------------------------------------------------
(* handleSubmit                                                             *)

Press(p, s) ==
    /\ FormShown
    /\ ~isProcessing
    /\ signer # NoAccount
    /\ ValidForm(s)
    /\ p \in FirstFree(Pipelines, {q \in Pipelines : Step(q) # "idle"})
    /\ Free(pipeline[p].write)
    /\ pipeline' = [pipeline EXCEPT ![p] =
          [write |-> [Begun(Call("createAttestation", s)) EXCEPT
                         !.step = IF HasDocument(s) THEN "upload" ELSE "prepare"],
           blob |-> Empty, seen |-> TRUE]]
    /\ UNCHANGED <<minted, pinned, abandoned, sent>>

\* Faulty variant: an upload is not repeated when an earlier one was abandoned.
Uploaded_Reuses(p, b) ==
    /\ Step(p) = "upload"
    /\ b \in abandoned \/ b \notin pinned
    /\ pinned' = pinned \cup {b}
    /\ pipeline' = [pipeline EXCEPT ![p].blob = b, ![p].write.step = "prepare",
          ![p].write.call.arg = WithBlob(@, b)]
    /\ UNCHANGED <<minted, abandoned, sent>>

\* Every upload is encrypted anew and has a CID of its own.
Uploaded(p, b) ==
    /\ Step(p) = "upload"
    /\ b \notin pinned
    /\ pinned' = pinned \cup {b}
    /\ pipeline' = [pipeline EXCEPT ![p].blob = b, ![p].write.step = "prepare",
          ![p].write.call.arg = WithBlob(@, b)]
    /\ UNCHANGED <<minted, abandoned, sent>>

Prepared(p) ==
    /\ Step(p) = "prepare"
    /\ pipeline' = Advanced(p, "sign")
    /\ UNCHANGED <<minted, pinned, abandoned, sent>>

Sent(p) ==
    /\ SendWrite(pipeline[p].write,
                 Passes(pipeline[p].write.by, pipeline[p].write.call))
    /\ pipeline' = [pipeline EXCEPT ![p].write = Waiting(@)]
    /\ UNCHANGED <<minted, pinned, abandoned>>

\* Faulty variant: the receipt's id is taken for the id of the first attestation.
IdInReceipt_First(t) == 1

\* `createdId || 1`: a receipt without the event counts as attestation 1.
IdInReceipt(t) == IF sent[t].result = 0 THEN 1 ELSE sent[t].result

Announced(p) ==
    LET t == pipeline[p].write.tx IN
    /\ Mined(pipeline[p].write)
    /\ minted' = IF pipeline[p].seen THEN [id |-> IdInReceipt(t), tx |-> t]
                 ELSE minted
    /\ pipeline' = [pipeline EXCEPT ![p] = NoPipeline]
    /\ UNCHANGED <<pinned, abandoned, sent>>

\* The service, the wallet, the estimate or the wait fails: the form shows the
\* error.  A failed upload may have pinned its blob all the same.
Failed(p) ==
    /\ \/ /\ Step(p) = "upload"
          /\ \E lost \in SUBSET (Blobs \ pinned) :
                /\ \A b, c \in lost : b = c
                /\ pinned' = pinned \cup lost
                /\ abandoned' = abandoned \cup lost
       \/ /\ Step(p) \in {"prepare", "sign"}
          /\ abandoned' = abandoned \cup ({pipeline[p].blob} \ {Empty})
          /\ UNCHANGED pinned
       \/ /\ Step(p) = "mine" /\ WriteFails(pipeline[p].write)
          /\ UNCHANGED <<pinned, abandoned>>
    /\ pipeline' = [pipeline EXCEPT ![p] = NoPipeline]
    /\ UNCHANGED <<minted, sent>>

\* The user leaves for another page and comes back to an empty form.
Reopen ==
    /\ isProcessing \/ minted # NotMinted
    /\ pipeline' = [p \in Pipelines |-> [pipeline[p] EXCEPT !.seen = FALSE]]
    /\ minted' = NotMinted
    /\ UNCHANGED <<pinned, abandoned, sent>>

\* What the user does on the page.
IssuanceAct ==
    \/ \E p \in Pipelines, s \in Forms : Press(p, s)
    \/ Reopen

\* What comes of it.
IssuanceStep ==
    \E p \in Pipelines :
        \/ \E b \in Blobs : Uploaded(p, b)
        \/ Prepared(p) \/ Sent(p) \/ Announced(p) \/ Failed(p)

-----------------------------------------------------------------------------
(* Properties.                                                              *)

\* The id the page announces is that of the attestation it has just sent, if it
\* sent it to the registry's network: issued by the signer of the press, with
\* the employee and the document that were submitted, however many pipelines,
\* pages and accounts there were in between.
AnnouncedIsIssued ==
    minted # NotMinted /\ sent[minted.tx].chain = RegistryChain =>
        LET t == sent[minted.tx] IN
        /\ minted.id = t.result
        /\ Exists(minted.id)
        /\ attestations[minted.id].employer = t.from
        /\ attestations[minted.id].employee = t.call.arg.employee
        /\ attestations[minted.id].ipfsCID = t.call.arg.ipfsCID

\* Every document on the chain was pinned before, for this attestation alone:
\* however often a failed submission is repeated, no two attestations share a
\* blob, and what a pipeline pinned and then abandoned is on no attestation.
DocumentsAreOwn ==
    \A a \in AttestationIds : Exists(a) /\ attestations[a].ipfsCID \in Blobs =>
        /\ attestations[a].ipfsCID \in pinned \ abandoned
        /\ \A b \in AttestationIds \ {a} :
              attestations[b].ipfsCID # attestations[a].ipfsCID

=============================================================================
