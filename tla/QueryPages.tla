----------------------------- MODULE QueryPages -----------------------------
(***************************************************************************)
(* Browsing the result of a query page by page.  Two endpoints return a    *)
(* page and a link to the next one: query_data_doms                        *)
(* (parquet_flask/v1/query_data_doms.py), whose links carry a startIndex,  *)
(* and query_data_doms_custom_pagination, whose links carry the time and   *)
(* the digest of the last row as a marker.  Both have QueryV4              *)
(* (io_logic/query_v4.py) sort the rows and cut the page.                  *)
(*                                                                         *)
(* A client requests the first page and follows the links, while rows of   *)
(* its query are ingested and replaced.  Every request is a query of its   *)
(* own over what the parquet directory holds at that time.                 *)
(***************************************************************************)
EXTENDS Integers, FiniteSets, Sequences, SequencesExt

CONSTANTS
    Rows,        \* observations that satisfy the query
    Text,        \* the place of its time column, a text, among the texts
    Time,        \* the time its text names
    OffFormat,   \* rows whose text is not written %Y-%m-%dT%H:%M:%SZ
    Rank,        \* the place of its (time, platform, depth, lat, lon)
    Digest,      \* its sha256
    Queries,     \* <<endpoint, itemsPerPage>>
    MaxRemovals  \* bound on rows taken away by replacements

(* Rows are sorted by the text of their time first.  The schema permits      *)
(* texts with fractions and offsets, whose order need not be that of the    *)
(* times they name: see SameOrder.                                          *)
ASSUME RowsAssumption ==
    /\ IsFiniteSet(Rows)
    /\ {Text, Time, Rank} \subseteq [Rows -> Nat]
    /\ OffFormat \subseteq Rows
    /\ \A r, q \in Rows : Rank[r] <= Rank[q] => Text[r] <= Text[q]
    /\ \A r, q \in Rows : Text[r] = Text[q] =>
          Time[r] = Time[q] /\ (r \in OffFormat <=> q \in OffFormat)

ASSUME QueriesAssumption ==
    /\ Queries \subseteq {"marker", "offset"} \X (Nat \ {0})
    /\ MaxRemovals \in Nat

VARIABLES
    stored,      \* rows in the parquet directory
    query,       \* the client's endpoint and page size
    status,      \* of the client
    startIndex,  \* of the page it has
    next,        \* startIndex in the link of that page
    page,        \* the rows of that page
    delivered,   \* history: the rows it got
    twice,       \* history: those it got again
    lasting,     \* history: rows that have been there since the first page
    removed      \* history: rows taken away

directory == <<stored, lasting, removed>>
client    == <<query, status, startIndex, next, page, delivered, twice>>
vars == <<directory, client>>

Endpoint == query[1]
Size == query[2]

Init ==
    /\ stored \in SUBSET Rows
    /\ query \in Queries
    /\ status = "new"
    /\ startIndex = 0 /\ next = 0
    /\ page = <<>>
    /\ delivered = {} /\ twice = {}
    /\ lasting = {} /\ removed = {}

-----------------------------------------------------------------------------
(* The parquet directory.                                                   *)

Ingest(r) ==
    /\ r \notin stored \cup removed
    /\ stored' = stored \cup {r}
    /\ UNCHANGED <<lasting, removed, client>>

Replace(r) ==
    /\ r \in stored
    /\ Cardinality(removed) < MaxRemovals
    /\ stored' = stored \ {r}
    /\ removed' = removed \cup {r}
    /\ lasting' = lasting \ {r}
    /\ UNCHANGED client

-----------------------------------------------------------------------------
(* QueryV4.                                                                 *)

(* What Spark may return for a set of rows sorted by the sorting columns:   *)
(* the order of rows that agree on them is not determined.                  *)
Sorted(rs) == {s \in SetToSeqs(rs) :
                 \A i, j \in DOMAIN s : i < j => Rank[s[i]] <= Rank[s[j]]}

(* take(to) without its first 'from' rows.                                  *)
Cut(s, from, to) == SubSeq(s, from + 1, IF to < Len(s) THEN to ELSE Len(s))

\* Mutant of PageAt: the limit leaves out the rows before the page.
PageAtSize(s, start, size) == Cut(s, start, size)

(* __get_paged_result: limit and tail.                                      *)
PageAt(s, start, size) == Cut(s, start, start + size)

(* __get_nth_first_page: the marker is looked for among the rows with its   *)
(* text, taken to come first among those whose time is not before its own.  *)
RowsWith(m)  == {r \in stored : Text[r] = Text[m]}
NotBefore(m) == {r \in stored : Time[r] >= Time[m]}
IndexOf(head, digest) ==
    CHOOSE i \in DOMAIN head :
        /\ Digest[head[i]] = digest
        /\ \A j \in DOMAIN head : Digest[head[j]] = digest => i <= j

\* Mutant of PageAfter: the marker is delivered again.
PageAfterInclusive(s, index, size) == Cut(s, index - 1, index + size)

PageAfter(s, index, size) == Cut(s, index, index + size)

-----------------------------------------------------------------------------
(* The links: __calculate_4_ranges counts pages.                            *)

Pages(total) == (total \div Size) + (IF total % Size > 0 THEN 1 ELSE 0)

LastPage(total) == Pages(total) - 1

NextIndex(start, total) ==
    IF start = LastPage(total) THEN LastPage(total) ELSE start + 1

-----------------------------------------------------------------------------
(* The client.                                                              *)

Receive(rows) ==
    /\ page' = rows
    /\ delivered' = delivered \cup Range(rows)
    /\ twice' = twice \cup (delivered \cap Range(rows))
    /\ UNCHANGED <<stored, removed, query>>

ReceiveAt(start) ==
    /\ \E s \in Sorted(stored) : Receive(PageAt(s, start, Size))
    /\ startIndex' = start
    /\ next' = IF Endpoint = "offset"
               THEN NextIndex(start, Cardinality(stored)) ELSE 0

FirstPage ==
    /\ status = "new"
    /\ ReceiveAt(0)
    /\ lasting' = stored
    /\ status' = "browsing"

FollowIndex ==
    /\ status = "browsing"
    /\ Endpoint = "offset" /\ page # <<>> /\ next # startIndex
    /\ next <= Cardinality(stored)
    /\ ReceiveAt(next)
    /\ UNCHANGED <<status, lasting>>

Marker == Last(page)

(* The search for the documents parses the marker's time, with one format,  *)
(* before anything is read.                                                 *)
MarkerParses == Marker \notin OffFormat

\* Mutant of MarkerGone: only the first row with the text is compared.
MarkerNotFirst ==
    \E r \in RowsWith(Marker) :
        Digest[r] # Digest[Marker] /\ \A q \in RowsWith(Marker) : Rank[r] <= Rank[q]

MarkerGone == \A r \in RowsWith(Marker) : Digest[r] # Digest[Marker]

FollowMarker ==
    /\ status = "browsing"
    /\ Endpoint = "marker" /\ page # <<>>
    /\ MarkerParses /\ ~MarkerGone
    /\ \E head \in Sorted(RowsWith(Marker)), rows \in Sorted(NotBefore(Marker)) :
          Receive(PageAfter(rows, IndexOf(head, Digest[Marker]), Size))
    /\ UNCHANGED <<status, startIndex, next, lasting>>

(* The marker's time is not parsed, its row is not found, or the rows end   *)
(* before startIndex and Spark refuses a negative tail: the endpoint        *)
(* answers 500.                                                             *)
Fail ==
    /\ status = "browsing" /\ page # <<>>
    /\ \/ Endpoint = "marker" /\ (~MarkerParses \/ MarkerGone)
       \/ /\ Endpoint = "offset"
          /\ next # startIndex /\ next > Cardinality(stored)
    /\ status' = "failed"
    /\ UNCHANGED <<directory, query, startIndex, next, page, delivered, twice>>

(* The last row may be gone together with the documents that lead to its    *)
(* directory: no data frame, and an empty page.                             *)
NothingFound ==
    /\ status = "browsing" /\ page # <<>>
    /\ \/ /\ Endpoint = "marker" /\ MarkerParses /\ NotBefore(Marker) = {}
          /\ UNCHANGED <<startIndex, next>>
       \/ /\ Endpoint = "offset" /\ next # startIndex /\ stored = {}
          /\ startIndex' = next
          /\ next' = NextIndex(next, 0)
    /\ Receive(<<>>)
    /\ UNCHANGED <<status, lasting>>

(* Nothing left: the page is empty, or the next page is the same again.     *)
Finish ==
    /\ status = "browsing"
    /\ page = <<>> \/ (Endpoint = "offset" /\ next = startIndex)
    /\ status' = "done"
    /\ UNCHANGED <<directory, query, startIndex, next, page, delivered, twice>>

-----------------------------------------------------------------------------
Browse == FirstPage \/ FollowIndex \/ FollowMarker \/ NothingFound \/ Fail
            \/ Finish

Next ==
    \/ \E r \in Rows : Ingest(r) \/ Replace(r)
    \/ Browse

Spec == Init /\ [][Next]_vars

(* A client that keeps browsing.                                            *)
FairSpec == Spec /\ WF_vars(Browse)

-----------------------------------------------------------------------------
(* Correctness.                                                             *)

(* The texts of the rows are ordered as the times they name, as they are    *)
(* when no second has rows both with and without a fraction, and no text    *)
(* an offset.  Else a row with the text 00.5Z sorts before one with 00Z,    *)
(* and the place of the marker is not its place among the rows read.        *)
SameOrder == \A r, q \in Rows : Text[r] <= Text[q] <=> Time[r] <= Time[q]

(* A page is never longer than asked for.                                   *)
TypeOK ==
    /\ stored \subseteq Rows /\ removed \subseteq Rows
    /\ query \in Queries
    /\ status \in {"new", "browsing", "done", "failed"}
    /\ startIndex \in Nat /\ next \in Nat
    /\ page \in Seq(Rows) /\ Len(page) <= Size
    /\ delivered \subseteq Rows /\ twice \subseteq delivered
    /\ lasting \subseteq stored

(* query_data_doms_custom_pagination.py:119: "keep browsing next till there *)
(* is nothing left".  A client that did so has every row that was there all *)
(* the time, whatever was ingested meanwhile, also before the marker; by    *)
(* markers also whatever was replaced, where SameOrder holds.               *)
NothingSkipped ==
    (status = "done" /\ (Endpoint = "offset" => removed = {}))
        => lasting \subseteq delivered

(* Where SameOrder holds, browsing by markers delivers no row twice,        *)
(* whatever is ingested or replaced meanwhile, and whatever times rows have *)
(* in common.                                                               *)
NothingTwice == Endpoint = "marker" => twice = {}

(* Browsing by markers fails only at a row, the last of the page, that was  *)
(* taken away or whose time cannot be parsed, and what is lasting up to     *)
(* that row was delivered: nothing is lost before the failure.  Browsing by *)
(* offset fails only if a row was taken away.                               *)
FailsAtMarker ==
    status = "failed" =>
        IF Endpoint = "offset" THEN removed # {}
        ELSE /\ Marker \in removed \cup OffFormat
             /\ \A r \in lasting : Rank[r] <= Rank[Marker] => r \in delivered

(* Browsing ends, however much is ingested meanwhile.                       *)
BrowsingEnds == <>(status \in {"done", "failed"})

=============================================================================
