---------------------------- MODULE AccessRequests ----------------------------
(***************************************************************************)
(* The page src/frontend/src/pages/AccessRequests.tsx: the employee        *)
(* approves or rejects the requests for its documents.  Several answers    *)
(* may be in flight at once; one processingId is shared by them all.       *)
(***************************************************************************)
EXTENDS EmployeeLoads

CONSTANT Handlers  \* runs of handleApprove and handleReject in flight, numbered

ASSUME HandlerAssumption == Handlers \subseteq Nat \ {0}

VARIABLES
    answering,     \* slot -> a run of one of the two
    processingId,  \* the request marked as being answered, or 0
    answeredHere,  \* the answers this page has seen through: request and verdict
    markerMoved    \* an answer to another request began or ended meanwhile

answerVars == <<answering, processingId, answeredHere, markerMoved>>

Answering == {h \in Handlers : answering[h].step # "idle"}

Subject(h) == answering[h].call.arg

RequestsInit ==
    /\ answering = [h \in Handlers |-> NoWrite]
    /\ processingId = 0
    /\ answeredHere = {}
    /\ markerMoved = FALSE

\* The list, and in it the buttons, gives way to a spinner while it is loaded.
ListShown == isConnected /\ ~isLoading

\* Faulty variant: an ask that is being answered keeps its buttons.
ButtonsEnabled_Always(row) == ListShown /\ row \in pendingRequests

ButtonsEnabled(row) ==
    ListShown /\ row \in pendingRequests /\ processingId # row.id

\* handleApprove and handleReject
Press(h, row, name) ==
    /\ ButtonsEnabled(row)
    /\ signer # NoAccount
    /\ h \in FirstFree(Handlers, Answering)
    /\ Free(answering[h])
    /\ answering' = [answering EXCEPT ![h] = Begun(Call(name, row.id))]
    /\ processingId' = row.id
    /\ markerMoved' = (Answering # {} /\
          (markerMoved \/ \E g \in Answering : Subject(g) # row.id))
    /\ UNCHANGED <<loadVars, answeredHere, sent>>

AnswerSent(h) ==
    /\ SendWrite(answering[h], Passes(answering[h].by, answering[h].call))
    /\ answering' = [answering EXCEPT ![h] = Waiting(@)]
    /\ UNCHANGED <<loadVars, processingId, answeredHere, markerMoved>>

\* Faulty variant: the page does not wait for the receipt.
AnswerMined_NoWait(h) ==
    /\ answering[h].step = "mine"
    /\ \E l \in Loads : /\ StartLoad(l, answering[h].of)
                        /\ answering' = [answering EXCEPT ![h] = Reloading(@, l)]
    /\ UNCHANGED <<processingId, answeredHere, markerMoved, sent>>

\* The list is loaded again for the account of the press.
AnswerMined(h) ==
    /\ Mined(answering[h])
    /\ \E l \in Loads : /\ StartLoad(l, answering[h].of)
                        /\ answering' = [answering EXCEPT ![h] = Reloading(@, l)]
    /\ UNCHANGED <<processingId, answeredHere, markerMoved, sent>>

\* The finally block takes the mark away, whoseever it is by now.
Ended(h) ==
    /\ answering' = [answering EXCEPT ![h] = NoWrite]
    /\ processingId' = 0
    /\ markerMoved' = (Answering # {h})

AnswerFails(h) ==
    /\ WriteFails(answering[h])
    /\ Ended(h)
    /\ UNCHANGED <<loadVars, answeredHere, sent>>

\* A load goes on; the handler that awaits it ends with it, failed or not.
RequestsLoad(l) ==
    LET awaiting == {h \in Answering : /\ answering[h].step = "reload"
                                       /\ answering[h].reload = l}
    IN
    /\ LoadGoesOn(l)
    /\ IF load'[l].step = "idle" /\ awaiting # {}
       THEN \E h \in awaiting :
               /\ Ended(h)
               /\ answeredHere' = answeredHere \cup
                    (IF sent[answering[h].tx].chain = RegistryChain
                     THEN {answering[h].call} ELSE {})
       ELSE UNCHANGED answerVars
    /\ UNCHANGED sent

-----------------------------------------------------------------------------
RequestsAct ==
    \/ Reload /\ UNCHANGED <<answerVars, sent>>
    \/ \E h \in Handlers, row \in listing.rows,
          name \in {"approveDocumentAccess", "rejectDocumentAccess"} :
             Press(h, row, name)

RequestsStep ==
    \/ \E h \in Handlers : AnswerSent(h) \/ AnswerMined(h) \/ AnswerFails(h)
    \/ \E l \in Loads : RequestsLoad(l)

RequestsFollow == ListingFollows /\ UNCHANGED answerVars

-----------------------------------------------------------------------------
(* Properties.                                                              *)

\* What the page has seen through has happened: the request is closed, it was
\* seen through with one verdict even when both buttons were pressed, and the
\* list shows it so, unless the list is not to be trusted (both handlers).
AnswersStand ==
    \A done \in answeredHere :
        /\ ~IsOpen(done.arg)
        /\ \A other \in answeredHere : other.arg = done.arg => other = done
        /\ ListingSettled => \A row \in pendingRequests : row.id # done.arg

\* A request is answered twice at once only after an answer to another request
\* has moved or taken away the mark that disables its buttons.
TwiceOnlyUnmarked ==
    \A g, h \in Answering : g # h /\ Subject(g) = Subject(h) => markerMoved

=============================================================================
