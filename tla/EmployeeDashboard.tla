-------------------------- MODULE EmployeeDashboard --------------------------
(***************************************************************************)
(* The page src/frontend/src/pages/EmployeeDashboard.tsx: the credentials  *)
(* issued to the account, how many requests wait for its answer, and a     *)
(* search of anyone's credentials by the hash of the employee's identity.  *)
(***************************************************************************)
EXTENDS EmployeeLoads

CONSTANT HashOf  \* credential -> its employeeHash

Hashes == {HashOf[c] : c \in Credentials}

VARIABLES
    hashSearch,   \* handleHashSearch
    hashResults   \* hashSearchResults: one record, or none for null

hashVars == <<hashSearch, hashResults>>

UnderHash(h) == {c \in Credentials : owner[c] # Nobody /\ HashOf[c] = h}

\* "none" is a search for a hash that no credential has.  `known` and `gone` are
\* what was under the hash, and withdrawn of it, when the search began, which no
\* code remembers.
NoHashSearch == [step |-> "idle", hash |-> "none", todo |-> {}, rows |-> {},
                 known |-> {}, gone |-> {}]

EmployeeInit == hashSearch = NoHashSearch /\ hashResults = {}

isSearchingHash == hashSearch.step # "idle"

SearchHash(h) ==
    /\ isConnected
    /\ ~isSearchingHash
    /\ hashResults' = {}
    /\ hashSearch' = [NoHashSearch EXCEPT !.step = "ids", !.hash = h,
          !.known = UnderHash(h), !.gone = UnderHash(h) \cap withdrawn]

HashIds ==
    /\ hashSearch.step = "ids"
    /\ hashSearch' = [hashSearch EXCEPT !.step = "rows",
          !.todo = UnderHash(hashSearch.hash)]
    /\ UNCHANGED hashResults

HashRow ==
    /\ hashSearch.step = "rows"
    /\ \E c \in hashSearch.todo :
          hashSearch' = [hashSearch EXCEPT !.todo = @ \ {c},
             !.rows = @ \cup {[id |-> c, withdrawn |-> c \in withdrawn]}]
    /\ UNCHANGED hashResults

HashFound ==
    /\ hashSearch.step = "rows"
    /\ hashSearch.todo = {}
    /\ hashResults' = {hashSearch}
    /\ hashSearch' = NoHashSearch

\* Faulty variant: what was read before the failure is shown.
HashFails_Partial ==
    /\ isSearchingHash
    /\ hashResults' = {hashSearch}
    /\ hashSearch' = NoHashSearch

HashFails ==
    /\ isSearchingHash
    /\ hashSearch' = NoHashSearch
    /\ UNCHANGED hashResults

CloseResults ==
    /\ isConnected
    /\ hashResults # {}
    /\ hashResults' = {}
    /\ UNCHANGED hashSearch

-----------------------------------------------------------------------------
EmployeeAct ==
    \/ Reload /\ UNCHANGED hashVars
    \/ ((\E h \in Hashes \cup {"none"} : SearchHash(h)) \/ CloseResults)
          /\ UNCHANGED loadVars

EmployeeStep ==
    \/ \E l \in Loads : LoadGoesOn(l) /\ UNCHANGED hashVars
    \/ (HashIds \/ HashRow \/ HashFound \/ HashFails) /\ UNCHANGED loadVars

EmployeeFollows == ListingFollows /\ UNCHANGED hashVars

-----------------------------------------------------------------------------
(* Properties.                                                              *)

\* A search by hash shows nothing at all, or is at least as recent as the press
\* that began it: every credential issued under the hash by then, with every
\* withdrawal made by then, and nothing that is not so by now; whatever is issued
\* or withdrawn, fails or changes account while its rows are read one by one
\* (handleHashSearch, whose ids are read once and first).
HashResultsAreWhole ==
    \A found \in hashResults :
        LET ids == {row.id : row \in found.rows}
            revoked == {row.id : row \in {r \in found.rows : r.withdrawn}}
        IN  /\ found.known \subseteq ids /\ ids \subseteq UnderHash(found.hash)
            /\ found.gone \subseteq revoked /\ revoked \subseteq withdrawn

=============================================================================
