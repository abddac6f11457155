----------------------------- MODULE HistoryStore -----------------------------
(***************************************************************************)
(* The history page of the browser: stores/useHistoryStore.js, the parts   *)
(* of stores/useGenerationStore.js that load an old generation, and the    *)
(* click handlers of HistoryPage and HistoryTable.  Requests are answered  *)
(* in any order, or fail.                                                  *)
(***************************************************************************)
EXTENDS Integers, FiniteSets

CONSTANTS
    Pages,          \* page numbers the pagination offers
    Rows,           \* rows of the table
    MAX_REQUESTS,   \* bound on the requests of one session
    None

\* Assumed by the module that gives the constants their values.
HistoryAssumption ==
    /\ Pages \subseteq Nat /\ 1 \in Pages
    /\ MAX_REQUESTS \in Nat
    /\ None \notin Pages \cup Rows

VARIABLES
    page,        \* the page the store is at
    items,       \* the page whose rows are shown, None before the first answer
    isLoading,
    error,       \* an error is shown
    fetches      \* requests for a page that are outstanding: [id, page]

VARIABLES
    loadingId,   \* the row that shows a spinner
    editor,      \* the generation in the editor and the result panel
    generating,  \* isGenerating of the generation store
    loads,       \* requests for a generation that are outstanding: [id, gen]
    requests     \* number of requests made

list == <<page, items, isLoading, error, fetches>>
opened == <<loadingId, editor, generating, loads>>
vars == <<list, opened, requests>>

Init ==
    /\ page = 1 /\ items = None /\ isLoading = FALSE /\ error = FALSE /\ fetches = {}
    /\ loadingId = None /\ editor = None /\ generating = FALSE /\ loads = {}
    /\ requests = 0

\* fetchHistory(p) up to its await.
fetchHistory(p) ==
    /\ requests < MAX_REQUESTS
    /\ requests' = requests + 1
    /\ fetches' = fetches \cup {[id |-> requests, page |-> p]}
    /\ isLoading' = TRUE /\ error' = FALSE /\ page' = p
    /\ UNCHANGED items

\* The page is opened, again perhaps while an earlier request is outstanding.
Mount == fetchHistory(page) /\ UNCHANGED opened

\* Previous and Next are disabled while the list loads.
setPage(p) ==
    /\ ~isLoading /\ p \in {page - 1, page + 1}
    /\ fetchHistory(p) /\ UNCHANGED opened

\* "Retry" of the error alert.
refresh == error /\ fetchHistory(page) /\ UNCHANGED opened

\* Fault: the answer's page is not stored, only its rows.
FaultKeepsPage(f) ==
    /\ f \in fetches
    /\ fetches' = fetches \ {f}
    /\ items' = f.page /\ isLoading' = FALSE
    /\ UNCHANGED <<page, error, opened, requests>>

\* The rows come with the page they are of.
Fetched(f) ==
    /\ f \in fetches
    /\ fetches' = fetches \ {f}
    /\ items' = f.page /\ page' = f.page /\ isLoading' = FALSE
    /\ UNCHANGED <<error, opened, requests>>

FetchFailed(f) ==
    /\ f \in fetches
    /\ fetches' = fetches \ {f}
    /\ isLoading' = FALSE /\ error' = TRUE
    /\ UNCHANGED <<page, items, opened, requests>>

\* handleOpen() of a row and loadGeneration() up to its await.
handleOpen(g) ==
    /\ requests < MAX_REQUESTS
    /\ requests' = requests + 1
    /\ loads' = loads \cup {[id |-> requests, gen |-> g]}
    /\ loadingId' = g /\ generating' = TRUE
    /\ UNCHANGED <<list, editor>>

\* loadGeneration() catches its errors, so handleOpen() goes on either way.
Opened(l) ==
    /\ l \in loads
    /\ loads' = loads \ {l}
    /\ \/ editor' = l.gen
       \/ UNCHANGED editor
    /\ loadingId' = None /\ generating' = FALSE
    /\ UNCHANGED <<list, requests>>

Next ==
    \/ Mount \/ refresh
    \/ \E p \in Pages : setPage(p)
    \/ \E f \in fetches : Fetched(f) \/ FetchFailed(f)
    \/ \E g \in Rows : handleOpen(g)
    \/ \E l \in loads : Opened(l)

Spec == Init /\ [][Next]_vars

-----------------------------------------------------------------------------
(* Types. *)
TypeOK ==
    /\ page \in Pages /\ items \in Pages \cup {None}
    /\ isLoading \in BOOLEAN /\ error \in BOOLEAN /\ generating \in BOOLEAN
    /\ fetches \subseteq [id : 0..MAX_REQUESTS, page : Pages]
    /\ loads \subseteq [id : 0..MAX_REQUESTS, gen : Rows]
    /\ loadingId \in Rows \cup {None} /\ editor \in Rows \cup {None}
    /\ requests \in 0..MAX_REQUESTS

(* The rows shown are those of the page the pagination names, whatever order the
   answers come in, unless an error is shown or the list says that it loads.    *)
RowsAreOfThePage == ~isLoading /\ ~error /\ items # None => items = page

=============================================================================
