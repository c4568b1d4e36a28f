------------------------------ MODULE Listing ------------------------------
(***************************************************************************)
(* Clients that walk a list endpoint page by page while the rows change.   *)
(* A row is its id and the value of the sort column; a row that leaves the *)
(* filter of the list is a row deleted, one that enters it a row inserted. *)
(* The lists differ in their order and in the test for "after the cursor". *)
(***************************************************************************)
EXTENDS Naturals, FiniteSets

CONSTANTS
    MaxRowId,     \* ids are 1 .. MaxRowId
    MaxSortValue, \* values of the sort column are 1 .. MaxSortValue
    PageLimit,    \* limit, page_size
    QueueLimit,   \* page_size of the query behind the retry queue
    MaxChanges    \* bound on the writes during a walk

ASSUME ListingAssumption ==
    /\ MaxRowId \in Nat /\ MaxSortValue \in Nat /\ MaxChanges \in Nat
    /\ PageLimit \in Nat \ {0} /\ QueueLimit \in Nat \ {0}

VARIABLES
    listed,    \* the rows, a function from ids to sort values
    walking,   \* the list being walked, or "none"
    place,     \* where the next page starts: <<>>, <<sort value, id>> or <<offset>>
    over,      \* the client has seen a page with nothing after it
    answered,  \* how often each id was on a page of this walk
    stayed,    \* ids whose row has not changed since the walk began
    changes

listVars == <<listed, walking, place, over, answered, stayed, changes>>

RowIds == 1 .. MaxRowId
SortValues == 1 .. MaxSortValue
CursorLists == {"jobs", "outages_asc", "outages_desc", "retry_queue"}
OffsetLists == {"outages", "wallets", "payments", "deliveries", "webhooks", "violations", "timeline"}

ListingTypeOK ==
    /\ DOMAIN listed \subseteq RowIds /\ \A i \in DOMAIN listed : listed[i] \in SortValues
    /\ walking \in CursorLists \cup OffsetLists \cup {"none"}
    /\ place \in {<<>>} \cup (SortValues \X RowIds) \cup {<<n>> : n \in 0 .. MaxRowId + PageLimit}
    /\ over \in BOOLEAN
    /\ answered \in [RowIds -> Nat]
    /\ stayed \subseteq DOMAIN listed
    /\ changes \in 0 .. MaxChanges

-----------------------------------------------------------------------------

\* ORDER BY of each list.  Without a tie breaker the database may order equal
\* rows as it likes, each time anew.
Newest(i, j) == listed[i] > listed[j]
Oldest(i, j) == listed[i] < listed[j]
JobOrder(i, j) == Newest(i, j) \/ (listed[i] = listed[j] /\ i > j)
OutageAscOrder(i, j) == Oldest(i, j) \/ (listed[i] = listed[j] /\ i < j)
OutageDescOrder(i, j) == Newest(i, j) \/ (listed[i] = listed[j] /\ i < j)
WalletOrder(i, j) == Newest(i, j) \/ (listed[i] = listed[j] /\ i < j)
PaymentOrder(i, j) == Newest(i, j)
DeliveryOrder(i, j) == Newest(i, j)
WebhookOrder(i, j) == Newest(i, j) \/ (listed[i] = listed[j] /\ i < j)
ViolationOrder(i, j) == Newest(i, j)
TimelineOrder(i, j) == Oldest(i, j)

Precedes(kind, i, j) ==
    CASE kind = "jobs"                          -> JobOrder(i, j)
      [] kind = "outages_asc"                   -> OutageAscOrder(i, j)
      [] kind \in {"outages_desc", "outages"}   -> OutageDescOrder(i, j)
      [] kind = "wallets"                       -> WalletOrder(i, j)
      [] kind \in {"retry_queue", "payments"}   -> PaymentOrder(i, j)
      [] kind = "deliveries"                    -> DeliveryOrder(i, j)
      [] kind = "webhooks"                      -> WebhookOrder(i, j)
      [] kind = "violations"                    -> ViolationOrder(i, j)
      [] kind = "timeline"                      -> TimelineOrder(i, j)

\* The rows of the next page compared without the id.
AfterValue(kind, i) ==
    IF kind = "outages_asc" THEN listed[i] > place[1] ELSE listed[i] < place[1]

\* The cursor filter, the id breaking ties.
AfterCursor(kind, i) ==
    IF kind = "outages_asc"
    THEN listed[i] > place[1] \/ (listed[i] = place[1] /\ i > place[2])
    ELSE listed[i] < place[1] \/ (listed[i] = place[1] /\ i < place[2])

\* LIMIT n: what an ordered query over S may return.
Firsts(kind, S, n) ==
    {P \in SUBSET S :
        /\ Cardinality(P) = IF Cardinality(S) < n THEN Cardinality(S) ELSE n
        /\ \A i \in S \ P, j \in P : ~ Precedes(kind, i, j)}

\* list(status="failed") behind the retry queue is itself one page.
Source(kind) ==
    IF kind = "retry_queue" THEN Firsts(kind, DOMAIN listed, QueueLimit) ELSE {DOMAIN listed}

\* A page without a decodable cursor starts at the beginning.
Behind(kind, S) == {i \in S : place # <<>> => AfterCursor(kind, i)}

Seen(P) == answered' = [i \in RowIds |-> answered[i] + IF i \in P THEN 1 ELSE 0]

StartWalk(kind) ==
    /\ walking = "none"
    /\ walking' = kind /\ place' = IF kind \in OffsetLists THEN <<0>> ELSE <<>>
    /\ over' = FALSE /\ answered' = [i \in RowIds |-> 0]
    /\ stayed' = DOMAIN listed /\ changes' = 0
    /\ UNCHANGED listed

\* One row more than the page is fetched to know whether the list goes on;
\* the cursor is the key of the page's last row.
CursorPage ==
    /\ walking \in CursorLists /\ ~ over
    /\ \E S \in Source(walking) :
         LET rest == Behind(walking, S) IN
         \E P \in Firsts(walking, rest, PageLimit) :
            /\ Seen(P)
            /\ IF P = rest
               THEN over' = TRUE /\ UNCHANGED place
               ELSE /\ \E last \in P : /\ \A i \in P : ~ Precedes(walking, last, i)
                                       /\ place' = <<listed[last], last>>
                    /\ UNCHANGED over
    /\ UNCHANGED <<listed, walking, stayed, changes>>

\* OFFSET and LIMIT, and the total counted by the same statement.
OffsetPage ==
    /\ walking \in OffsetLists /\ ~ over
    /\ \E skipped \in Firsts(walking, DOMAIN listed, place[1]) :
         \E P \in Firsts(walking, DOMAIN listed \ skipped, PageLimit) :
            /\ Seen(P)
            /\ over' = (skipped \cup P = DOMAIN listed)
    /\ place' = <<place[1] + PageLimit>>
    /\ UNCHANGED <<listed, walking, stayed, changes>>

EndWalk ==
    /\ over
    /\ walking' = "none" /\ place' = <<>> /\ over' = FALSE
    /\ answered' = [i \in RowIds |-> 0] /\ stayed' = {} /\ changes' = 0
    /\ UNCHANGED listed

\* A write of one row, counted while a walk is under way.
Changed(i) ==
    /\ walking # "none" => changes < MaxChanges /\ ~ over
    /\ changes' = IF walking = "none" THEN 0 ELSE changes + 1
    /\ stayed' = stayed \ {i}
    /\ UNCHANGED <<walking, place, over, answered>>

InsertRow(i, v) ==
    /\ i \notin DOMAIN listed
    /\ Changed(i)
    /\ listed' = [x \in DOMAIN listed \cup {i} |-> IF x = i THEN v ELSE listed[x]]

UpdateRow(i, v) ==
    /\ i \in DOMAIN listed /\ listed[i] # v
    /\ Changed(i)
    /\ listed' = [listed EXCEPT ![i] = v]

DeleteRow(i) ==
    /\ i \in DOMAIN listed
    /\ Changed(i)
    /\ listed' = [x \in DOMAIN listed \ {i} |-> listed[x]]

ListingInit ==
    /\ listed = [i \in {} |-> 0] /\ walking = "none" /\ place = <<>> /\ over = FALSE
    /\ answered = [i \in RowIds |-> 0] /\ stayed = {} /\ changes = 0

ListingNext ==
    \/ \E kind \in CursorLists \cup OffsetLists : StartWalk(kind)
    \/ CursorPage \/ OffsetPage \/ EndWalk
    \/ \E i \in RowIds, v \in SortValues : InsertRow(i, v) \/ UpdateRow(i, v)
    \/ \E i \in RowIds : DeleteRow(i)

ListingSpec == ListingInit /\ [][ListingNext]_listVars

-----------------------------------------------------------------------------

\* A finished walk had each row that did not change meanwhile on exactly one
\* page.
WalkExact == over => \A i \in stayed : answered[i] = 1

\* The walks of the job list and of the outages in ascending order miss and
\* repeat no row that stayed as it was, whatever else was inserted, changed
\* or deleted between the pages; the offset walks of outages, wallets
\* and webhooks at least none while nothing changes (list_jobs, list_cursor,
\* list, list_wallets, list_webhooks).
CursorWalkExact ==
    \/ walking \in {"jobs", "outages_asc"}
    \/ walking \in {"outages", "wallets", "webhooks"} /\ changes = 0
    => WalkExact

=============================================================================
