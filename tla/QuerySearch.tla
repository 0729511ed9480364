---------------------------- MODULE QuerySearch ----------------------------
(***************************************************************************)
(* A search (io_logic/query_v4.py) beside the stats index it relies on: the *)
(* documents that may hold matching rows are collected page by page from   *)
(* Elasticsearch, the directories they name are listed one by one, and the *)
(* rows of the files found there are filtered, counted and returned, while *)
(* files are written, indexed, deleted and removed from the index as       *)
(* StatsIndex lets them.                                                   *)
(*                                                                         *)
(* Searches do not change anything, so one at a time is enough.  Which     *)
(* rows a page has is the subject of QueryPages; here a client gets the    *)
(* count and any rows, as many as it asked for.                            *)
(***************************************************************************)
EXTENDS ParquetStatistics

CONSTANTS
    Requests,           \* searches clients ask for, by the names of the URL
    StatisticsRequests, \* what they ask the statistics endpoint
    PageSize,           \* documents per page: 10000
    Unreadable,         \* files with a column that is not of the type in the
                        \* schema searches read with
    Unparsable          \* searches with a time that strptime does not take,
                        \* as it is not of the format %Y-%m-%dT%H:%M:%SZ

(* Every argument may be left out, and an empty list of variables is.       *)
IsRequest(args) ==
    /\ \A name \in DOMAIN args \cap {"startTime", "endTime", "minDepth", "maxDepth"} :
          args[name] \in Int
    /\ "bbox" \in DOMAIN args => args.bbox \in Int \X Int \X Int \X Int
    /\ "variable" \in DOMAIN args =>
          args.variable # {} /\ args.variable \subseteq Columns
    /\ \A name \in DOMAIN args \cap {"provider", "project", "platform"} :
          args[name] # None
    /\ "itemsPerPage" \in DOMAIN args => args.itemsPerPage \in Nat

ASSUME RequestsAssumption ==
    \A args \in Requests \cup StatisticsRequests : IsRequest(args)
ASSUME PageSizeAssumption == PageSize \in Nat \ {0}
ASSUME FailuresAssumption == Unreadable \subseteq Files /\ Unparsable \subseteq Requests

VARIABLES
    live,    \* files in the bucket
    created, \* files ever written
    index,   \* files with a document
    pc,      \* where the search stands
    request, \* the arguments it was sent
    query,   \* the QueryProps made of them
    hits,    \* the documents collected so far
    last,    \* the last one of the previous page
    todo,    \* directories still to list, told apart when listed repeatedly
    listed,  \* how often each file is to be read
    total,   \* number of matching rows
    result,  \* how often each row is returned
    steady,  \* history: files live, indexed and readable since the search began
    removed  \* history: a listed file has been deleted

files  == <<live, created, index>>
search == <<pc, request, query, hits, last, todo, listed, total, result>>
vars == <<files, search, steady, removed>>

Stats == INSTANCE StatsIndex WITH
             Objects <- Files, Unindexed <- {}, requested <- {}, abandoned <- {}

NoFiles == [f \in Files |-> 0]
NoRows  == [r \in Rows |-> 0]

Init ==
    /\ Stats!Init
    /\ pc = "idle" /\ request = None /\ query = None
    /\ hits = {} /\ last = None /\ todo = {}
    /\ listed = NoFiles /\ total = 0 /\ result = NoRows
    /\ steady = {} /\ removed = FALSE

-----------------------------------------------------------------------------
(* The parquet directory and its stats index.                               *)

CreateFile(f) ==
    /\ Stats!Create(f)
    /\ UNCHANGED <<search, steady, removed>>

DeleteFile(f) ==
    /\ f \in live
    /\ Stats!Delete(f)
    /\ steady' = steady \ {f}
    /\ removed' = (removed \/ listed[f] > 0)
    /\ UNCHANGED search

IndexFile(f) ==
    /\ f \notin index
    /\ Stats!Index(f)
    /\ UNCHANGED <<search, steady, removed>>

UnindexFile(f) ==
    /\ f \in index
    /\ Stats!Unindex(f)
    /\ UNCHANGED <<search, steady, removed>>

-----------------------------------------------------------------------------
(* The request.                                                             *)

(* The argument a field of the payload is taken from.                       *)
Argument == [min_time |-> "startTime", max_time |-> "endTime",
             min_depth |-> "minDepth", max_depth |-> "maxDepth",
             min_lat_lon |-> "bbox", max_lat_lon |-> "bbox",
             platform_code |-> "platform", provider |-> "provider",
             project |-> "project", variable |-> "variable"]

(* A bbox is west, south, east and north; the payload has latitudes first.  *)
Payload(args) ==
    [field \in {f \in DOMAIN Argument : Argument[f] \in DOMAIN args} \cup {"size"} |->
        CASE field = "size" ->
                IF "itemsPerPage" \in DOMAIN args THEN args.itemsPerPage ELSE 10
          [] field = "min_lat_lon" -> <<args.bbox[2], args.bbox[1]>>
          [] field = "max_lat_lon" -> <<args.bbox[4], args.bbox[3]>>
          [] OTHER -> args[Argument[field]]]

(* QUERY_PROPS_SCHEMA: the bounds are required, the rest is optional.       *)
IsValid(payload) ==
    {"size", "min_depth", "max_depth", "min_time", "max_time",
     "min_lat_lon", "max_lat_lon"} \subseteq DOMAIN payload

(* Columns and the marker are left out; no endpoint passes a device.        *)
QueryProps(payload) ==
    LET Given(field, default) ==
            IF field \in DOMAIN payload THEN payload[field] ELSE default
    IN  [size |-> payload.size,
         min_depth |-> payload.min_depth, max_depth |-> payload.max_depth,
         min_datetime |-> payload.min_time, max_datetime |-> payload.max_time,
         min_lat_lon |-> payload.min_lat_lon, max_lat_lon |-> payload.max_lat_lon,
         project |-> Given("project", None),
         provider |-> Given("device", Given("provider", None)),
         platform_code |-> Given("platform_code", None),
         variable |-> Given("variable", {})]

ASSUME NoneAssumption ==
    \A args \in Requests : IsValid(Payload(args)) => QueryProps(Payload(args)) # None

Start(args) ==
    /\ pc = "idle" /\ IsValid(Payload(args))
    /\ pc' = "collect"
    /\ request' = args
    /\ query' = QueryProps(Payload(args))
    /\ steady' = live \cap index
    /\ UNCHANGED <<files, hits, last, todo, listed, total, result, removed>>

(* 400                                                                      *)
Refuse(args) ==
    /\ pc = "idle" /\ ~ IsValid(Payload(args))
    /\ pc' = "refused"
    /\ request' = args
    /\ UNCHANGED <<files, query, hits, last, todo, listed, total, result,
                   steady, removed>>

-----------------------------------------------------------------------------
(* Collecting the documents.                                                *)

\* Mutant of Selected: the documents that lie within the times asked for.
SelectedWithin(d, q) ==
    /\ IsFrom(d.partition, q)
    /\ d.stats.min_datetime >= q.min_datetime
    /\ d.stats.max_datetime <= q.max_datetime

(* ParquetPathsEsRetriever: the depth is not looked at.                     *)
Selected(d, q) ==
    /\ IsFrom(d.partition, q)
    /\ InRange(d.stats.min_datetime, d.stats.max_datetime, q.min_datetime, q.max_datetime)
    /\ InRange(d.stats.min_lat, d.stats.max_lat, q.min_lat_lon[1], q.max_lat_lon[1])
    /\ InRange(d.stats.min_lon, d.stats.max_lon, q.min_lat_lon[2], q.max_lat_lon[2])

(* The sort of the documents; platforms are numbered as they are sorted.    *)
SortKey(f) == <<Document[f].stats.min_datetime, Source[f].platform,
                Document[f].stats.min_lat, Document[f].stats.min_lon, f>>

Lower(f, g, n) ==
    \E i \in 1 .. n : /\ SortKey(f)[i] < SortKey(g)[i]
                      /\ \A j \in 1 .. (i - 1) : SortKey(f)[j] = SortKey(g)[j]

\* Mutant of Precedes: the URL, which makes the order strict, is left out.
PrecedesLoosely(f, g) == Lower(f, g, 4)

Precedes(f, g) == Lower(f, g, 5)

\* Mutant of Behind: search_after is not passed on.
BehindAll == {f \in index : Selected(Document[f], query)}

(* search_after: the documents behind the last one of the previous page.    *)
Behind == {f \in index : /\ Selected(Document[f], query)
                         /\ last # None => Precedes(last, f)}

(* The first PageSize of them, and the last one of these.                   *)
IsPage(page, end) ==
    /\ page \subseteq Behind /\ end \in page
    /\ Cardinality(page) <= PageSize
    /\ \A f \in page : ~ Precedes(end, f)
    /\ \A f \in Behind \ page : /\ Cardinality(page) = PageSize
                               /\ \A g \in page : ~ Precedes(f, g)

NextPage ==
    /\ pc = "collect" /\ request \notin Unparsable
    /\ \E page \in SUBSET Behind : \E end \in page :
          /\ IsPage(page, end)
          /\ hits' = hits \cup page
          /\ last' = end
    /\ UNCHANGED <<files, pc, request, query, todo, listed, total, result, steady, removed>>

(* The fields of a PartitionedParquetPath, as the document has them.        *)
LoadFromEs(d) ==
    [provider |-> d.partition.provider, project |-> d.partition.project,
     platform |-> d.partition.platform, lat_lon |-> d.partition.geo_interval,
     month |-> d.partition.month]

\* Mutants of GeneratePath: without the level of the projects, or of the
\* platforms.
GeneratePathNoProject(p) == <<p.provider, p.platform, p.lat_lon, p.month>>
GeneratePathNoPlatform(p) == <<p.provider, p.project, p.lat_lon, p.month>>

(* The levels of the directory; year and month are one of them here.  The   *)
(* documents have all of them, since they are made from the paths of files. *)
GeneratePath(p) == <<p.provider, p.project, p.platform, p.lat_lon, p.month>>

Path(f) == GeneratePath(LoadFromEs(Document[f]))

\* Mutant of Paths: duplicates are not stripped.
PathsAll(F) == {<<Path(f), f>> : f \in F}

(* The directories of the documents found, each once.                       *)
Paths(F) == {<<Path(f), None>> : f \in F}

(* The loop ends with the first empty page.                                 *)
LastPage ==
    /\ pc = "collect" /\ request \notin Unparsable
    /\ Behind = {}
    /\ pc' = "list"
    /\ todo' = Paths(hits)
    /\ hits' = {} /\ last' = None
    /\ UNCHANGED <<files, request, query, listed, total, result, steady, removed>>

-----------------------------------------------------------------------------
(* Reading the directories.                                                 *)

In(path) == {f \in Files : Path(f) = path[1]}

(* All files of the directory, indexed or not; none if it does not exist.   *)
Present(path) == live \cap In(path)

ListDirectory ==
    /\ pc = "list"
    /\ \E path \in todo : LET found == Present(path) IN
          /\ todo' = todo \ {path}
          /\ listed' = [f \in Files |->
                 listed[f] + IF f \in found THEN 1 ELSE 0]
    /\ UNCHANGED <<files, pc, request, query, hits, last, total, result, steady, removed>>

(* Whatever else keeps Spark from listing it: the search goes on without.   *)
SkipDirectory ==
    /\ pc = "list"
    /\ \E path \in todo :
          /\ todo' = todo \ {path}
          /\ steady' = steady \ In(path)
    /\ UNCHANGED <<files, pc, request, query, hits, last, listed, total, result, removed>>

(* A range with the surface in it includes rows without depth.              *)
DepthMatches(d, q) ==
    \/ q.min_depth <= d /\ d <= q.max_depth
    \/ q.min_depth <= 0 /\ q.max_depth >= 0 /\ d = Missing

(* The condition put together by ParquetQueryConditionManagementV4.         *)
RowMatches(r, q) ==
    /\ r.lat >= q.min_lat_lon[1] /\ r.lon >= q.min_lat_lon[2]
    /\ r.lat <= q.max_lat_lon[1] /\ r.lon <= q.max_lat_lon[2]
    /\ r.time >= q.min_datetime /\ r.time <= q.max_datetime
    /\ DepthMatches(r.depth, q)
    /\ q.variable # {} => q.variable \cap r.observations # {}

Matching(f) == {r \in Content[f] : RowMatches(r, query)}

Listed == {f \in Files : listed[f] > 0}

(* Nothing was listed: the answer is empty.                                 *)
NothingFound ==
    /\ pc = "list" /\ todo = {} /\ Listed = {}
    /\ pc' = "answered"
    /\ UNCHANGED <<files, request, query, hits, last, todo, listed, total, result,
                   steady, removed>>

(* The condition need not touch the column that cannot be read.             *)
CountRows ==
    /\ pc = "list" /\ todo = {} /\ Listed # {}
    /\ Listed \subseteq live
    /\ total' = SumFunction([f \in Listed |-> listed[f] * Cardinality(Matching(f))])
    /\ pc' = IF query.size = 0 THEN "answered" ELSE "page"
    /\ UNCHANGED <<files, request, query, hits, last, todo, listed, result, steady, removed>>

Returned(r) == SumFunction([f \in Files |-> IF r \in Matching(f) THEN listed[f] ELSE 0])

(* At most 'size' rows.                                                     *)
Shown == IF total <= query.size THEN {Rows}
         ELSE kSubset(query.size, {r \in Rows : Returned(r) > 0})

(* The rows are read a second time, with all their columns; none if none    *)
(* were counted.                                                            *)
ReturnRows ==
    /\ pc = "page"
    /\ total = 0 \/ /\ Listed \subseteq live
                    /\ \A f \in Listed \cap Unreadable : Matching(f) = {}
    /\ pc' = "answered"
    /\ \E shown \in Shown :
          result' = [r \in Rows |-> IF r \in shown THEN Returned(r) ELSE 0]
    /\ UNCHANGED <<files, request, query, hits, last, todo, listed, total, steady, removed>>

(* Any exception is answered by 500: a time that cannot be parsed, before   *)
(* Elasticsearch is asked; a listed file that Spark finds gone or whose     *)
(* columns it cannot read.                                                  *)
Fail ==
    /\ \/ pc = "collect" /\ request \in Unparsable
       \/ /\ (pc = "list" /\ todo = {}) \/ (pc = "page" /\ total # 0)
          /\ ~ Listed \subseteq live \/ Listed \cap Unreadable # {}
    /\ pc' = "failed"
    /\ hits' = {} /\ last' = None
    /\ UNCHANGED <<files, request, query, todo, listed, total, result, steady, removed>>

(* Elasticsearch raises.                                                    *)
ElasticsearchError ==
    /\ pc = "collect" /\ request \notin Unparsable
    /\ pc' = "failed"
    /\ hits' = {} /\ last' = None
    /\ UNCHANGED <<files, request, query, todo, listed, total, result, steady, removed>>

(* The client has the answer and may ask again.                             *)
Respond ==
    /\ pc \in {"answered", "refused", "failed"}
    /\ pc' = "idle" /\ request' = None /\ query' = None
    /\ listed' = NoFiles /\ total' = 0 /\ result' = NoRows
    /\ steady' = {} /\ removed' = FALSE
    /\ UNCHANGED <<files, hits, last, todo>>

-----------------------------------------------------------------------------

Search == \/ NextPage \/ LastPage \/ ListDirectory \/ NothingFound \/ CountRows
          \/ ReturnRows \/ Fail \/ Respond

Next ==
    \/ \E f \in Files : CreateFile(f) \/ DeleteFile(f) \/ IndexFile(f) \/ UnindexFile(f)
    \/ \E args \in Requests : Start(args) \/ Refuse(args)
    \/ SkipDirectory \/ ElasticsearchError
    \/ Search

Spec == Init /\ [][Next]_vars

(* A search runs in the thread of its request, which nothing stops.         *)
FairSpec == Spec /\ WF_vars(Search)

-----------------------------------------------------------------------------

TypeOK ==
    /\ live \subseteq created /\ index \subseteq created
    /\ created \subseteq Files
    /\ pc \in {"idle", "collect", "list", "page",
              "answered", "refused", "failed"}
    /\ request \in IF pc = "idle" THEN {None} ELSE Requests
    /\ query = None <=> pc \in {"idle", "refused"}
    /\ hits \subseteq created
    /\ last \in hits \cup {None}
    /\ todo \subseteq {<<Path(f), None>> : f \in created}
    /\ listed \in [Files -> Nat] /\ Listed \subseteq created
    /\ total \in Nat
    /\ result \in [Rows -> Nat]
    /\ steady \subseteq live \cap created
    /\ removed \in BOOLEAN

(* What a client wants to see, in terms of its request and the rows alone:  *)
(* a missing depth is the surface.                                          *)
DepthOf(r) == IF r.depth = Missing THEN 0 ELSE r.depth

WantedSource(f) ==
    /\ \A name \in {"provider", "project"} \cap DOMAIN request :
          request[name] = Source[f][name]
    /\ "platform" \in DOMAIN request => Source[f].platform \in request.platform

Wanted(f, r) ==
    /\ WantedSource(f)
    /\ r.lon \in request.bbox[1] .. request.bbox[3]
    /\ r.lat \in request.bbox[2] .. request.bbox[4]
    /\ r.time \in request.startTime .. request.endTime
    /\ DepthOf(r) \in request.minDepth .. request.maxDepth
    /\ "variable" \in DOMAIN request => request.variable \cap r.observations # {}

(* The stages a file goes through until its rows are filtered.              *)
OnItsWay(f) ==
    \/ pc = "collect" /\ f \in hits \cup Behind
    \/ pc = "list" /\ <<Path(f), None>> \in todo
    \/ listed[f] > 0

(* No file with a row the client wants gets lost on its way from the index  *)
(* to Spark, as long as it is there, indexed and readable: not by filters   *)
(* that compare ranges of files instead of rows, not between two pages of   *)
(* an index that grows and shrinks, not when directories are named twice.   *)
NothingMissed ==
    pc # "failed" =>
        \A f \in steady : (\E r \in Content[f] : Wanted(f, r)) => OnItsWay(f)

(* A search that asks for no fewer rows than there are returns every        *)
(* matching row of the files that were there, were indexed and could be     *)
(* read from its beginning; and any search counts all of these and all it   *)
(* returns, although documents are collected page by page from a changing   *)
(* index and the files are read twice.                                      *)
Complete ==
    pc = "answered" =>
        /\ query.size > 0 => SumFunction(result) <= total
        /\ query.size > 0 /\ total <= query.size =>
              /\ \A f \in steady : \A r \in Content[f] :
                    Wanted(f, r) => result[r] > 0
              /\ total = SumFunction(result)
        /\ total >= SumFunction([f \in steady |->
               Cardinality({r \in Content[f] : Wanted(f, r)})])

(* It returns no row twice, although several documents name one directory.  *)
NothingTwice == \A r \in Rows : result[r] <= 1

(* It returns only rows of the provider, project and platforms asked for,   *)
(* although these are never compared with the rows but only with the        *)
(* documents.                                                               *)
NothingForeign ==
    \A f \in Files : \A r \in Content[f] : result[r] > 0 => Wanted(f, r)

(* A file that cannot be read fails only searches that reach its directory, *)
(* once their documents are collected and if no file has been removed: they *)
(* ask for its provider, project and platform, and a document of that       *)
(* directory, not necessarily its own, is in their ranges of times,         *)
(* latitudes and longitudes.  Nobody else notices it.                       *)
FailuresContained ==
    pc = "failed" /\ Listed # {} /\ ~ removed =>
        \E f \in Listed \cap Unreadable :
            /\ WantedSource(f)
            /\ \E g \in created : /\ Path(g) = Path(f)
                                  /\ Selected(Document[g], query)

(* Every search comes to an end, however often the index changes.           *)
SearchEnds == pc # "idle" ~> pc = "idle"

-----------------------------------------------------------------------------
(* The statistics endpoint: a single request to the index. Searches do not  *)
(* matter to it, and the index takes all its values while there is none.    *)

(* The QueryProps of a request, which may leave out any bound.              *)
StatisticsProps(args) ==
    LET Given(name)  == IF name \in DOMAIN args THEN args[name] ELSE None
        Corner(i, j) == IF "bbox" \in DOMAIN args
                        THEN <<args.bbox[i], args.bbox[j]>> ELSE None
    IN  [min_datetime |-> Given("startTime"), max_datetime |-> Given("endTime"),
         min_depth |-> Given("minDepth"), max_depth |-> Given("maxDepth"),
         min_lat_lon |-> Corner(2, 1), max_lat_lon |-> Corner(4, 3),
         platform_code |-> Given("platform"), provider |-> Given("provider"),
         project |-> Given("project")]

GetStatistics(args) == SubCollectionStatistics(index, StatisticsProps(args))

CountedFiles(args) == {f \in index : Counted(Document[f], StatisticsProps(args))}

GroupRows(args, s) == UNION {Content[f] : f \in {g \in CountedFiles(args) : Source[g] = s}}

(* The statistics of rows taken together; -99999 is no depth, and times are *)
(* in whole seconds.                                                        *)
Report(args, s) ==
    LET R        == GroupRows(args, s)
        measured == {r.depth : r \in R} \ {Missing}
    IN  [provider |-> s.provider, project |-> s.project, platform |-> s.platform,
         statistics |-> [Statistics(R) EXCEPT
            !.min_depth = IF measured = {} THEN None ELSE Min(measured),
            !.max_depth = IF measured = {} THEN Missing ELSE Max(measured),
            !.min_datetime = ToSecond(Least(Values(R, "time"))),
            !.max_datetime = ToSecond(Greatest(Values(R, "time")))]]

Sources(args) == {Source[f] : f \in CountedFiles(args)}

(* What is reported of a platform, added up from the statistics of its      *)
(* files, are the statistics of all the rows of these files taken together, *)
(* rows without a depth among them; and up to the bucket limit no platform  *)
(* is left out.                                                             *)
StatisticsAgree ==
    pc = "idle" => \A args \in StatisticsRequests :
        LET reports == {Report(args, s) : s \in Sources(args)}
            answer  == GetStatistics(args)
        IN  /\ answer \subseteq reports
            /\ Cardinality(Sources(args)) <= BucketLimit => answer = reports

(* The statistics leave out no file with a row in the ranges asked for, as  *)
(* long as its depth was measured: the ranges of its document cover it.  (A *)
(* search takes a missing depth for the surface, the statistics do not.)    *)
StatisticsCoverMeasured ==
    pc = "idle" =>
    \A args \in StatisticsRequests : \A f \in index : \A r \in Content[f] :
        /\ r.depth # Missing
        /\ \A name \in {"provider", "project"} \cap DOMAIN args :
              args[name] = Source[f][name]
        /\ "platform" \in DOMAIN args => Source[f].platform \in args.platform
        /\ {"minDepth", "maxDepth"} \subseteq DOMAIN args =>
              r.depth \in args.minDepth .. args.maxDepth
        /\ {"startTime", "endTime"} \subseteq DOMAIN args =>
              r.time \in args.startTime .. args.endTime
        /\ "bbox" \in DOMAIN args => /\ r.lon \in args.bbox[1] .. args.bbox[3]
                                     /\ r.lat \in args.bbox[2] .. args.bbox[4]
        => f \in CountedFiles(args)

=============================================================================
