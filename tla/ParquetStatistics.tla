------------------------- MODULE ParquetStatistics -------------------------
(***************************************************************************)
(* What a part file of the parquet directory holds, the document the stats *)
(* indexer stores about it (S3StatExtractor and StatisticsRetriever), and  *)
(* what the statistics endpoint makes of the documents                     *)
(* (io_logic/sub_collection_statistics.py).                                *)
(*                                                                         *)
(* Depths are written as small integers and Missing stands for -99999.     *)
(***************************************************************************)
EXTENDS Integers, FiniteSets, FiniteSetsExt

CONSTANTS
    Files,          \* part files, numbered in the order of their URLs
    Source,         \* provider, project and platform of every file
    Content,        \* the rows of every file, told apart by their id
    Columns,        \* columns of the in-situ schema
    QualityColumns, \* those whose name ends with '_quality'
    NonObservationColumns,
    Interval,       \* width of the partitions in degrees
    Month,          \* length of a month
    Second,         \* length of a second
    Missing,        \* the depth that stands for no depth
    BucketLimit,    \* buckets a terms aggregation returns: 10 by default
    None

Rows == UNION {Content[f] : f \in Files}

(* Spark only writes part files with rows, and a row in one file.           *)
ASSUME ContentAssumption ==
    /\ IsFiniteSet(Files) /\ Files \subseteq Nat \ {0}
    /\ Missing \in Int /\ Missing < 0 /\ None \notin Int
    /\ \A f \in Files :
          /\ Source[f] = [provider |-> Source[f].provider,
                          project |-> Source[f].project,
                          platform |-> Source[f].platform]
          /\ Source[f].platform \in Int
    /\ \A f \in Files : IsFiniteSet(Content[f]) /\ Content[f] # {}
    /\ \A r \in Rows :
          /\ {r.lat, r.lon, r.time, r.depth} \subseteq Int
          /\ r.depth >= Missing
          /\ r.observations \subseteq Columns
    /\ \A f, g \in Files : f # g => Content[f] \cap Content[g] = {}
ASSUME BucketLimitAssumption == BucketLimit \in Nat /\ Second \in Nat \ {0}

-----------------------------------------------------------------------------
(* Partitions.                                                              *)

(* int(x - divmod(x, interval)[1]): the multiple of the interval below x,   *)
(* also for a negative x.                                                   *)
Cell(x) == x - (x % Interval)

GeoSpatialInterval(r) == <<Cell(r.lat), Cell(r.lon)>>

(* The directory of a row: the partition columns create_df adds to it.      *)
Partition(f, r) ==
    [provider |-> Source[f].provider, project |-> Source[f].project,
     platform |-> Source[f].platform, geo_interval |-> GeoSpatialInterval(r),
     month |-> r.time \div Month]

(* Every row of a part file is in the directory of the file.                *)
ASSUME PartitionAssumption ==
    \A f \in Files : \A r, s \in Content[f] : Partition(f, r) = Partition(f, s)

Directory == [f \in Files |-> Partition(f, CHOOSE r \in Content[f] : TRUE)]

-----------------------------------------------------------------------------
(* The statistics of one file.                                              *)

ObservationNames == Columns \ (NonObservationColumns \cup QualityColumns)

Least(X)    == CHOOSE x \in X : \A y \in X : x <= y
Greatest(X) == CHOOSE x \in X : \A y \in X : y <= x
Values(R, field) == {r[field] : r \in R}

\* Mutant of MinDepth: the missing depth counts like any other.
MinDepthAny(R) == Least(Values(R, "depth"))

(* The least depth, -99999 excluded only if it is the least: NULL if there  *)
(* is no other.                                                             *)
MinDepth(R) ==
    LET measured == Values(R, "depth") \ {Missing}
    IN  IF Least(Values(R, "depth")) # Missing THEN Least(Values(R, "depth"))
        ELSE IF measured = {} THEN None ELSE Least(measured)

Count(R, column) == Cardinality({r \in R : column \in r.observations})

Statistics(R) ==
    [total |-> Cardinality(R),
     min_lat |-> Least(Values(R, "lat")), max_lat |-> Greatest(Values(R, "lat")),
     min_lon |-> Least(Values(R, "lon")), max_lon |-> Greatest(Values(R, "lon")),
     min_depth |-> MinDepth(R), max_depth |-> Greatest(Values(R, "depth")),
     min_datetime |-> Least(Values(R, "time")),
     max_datetime |-> Greatest(Values(R, "time")),
     observation_counts |-> [c \in ObservationNames |-> Count(R, c)]]

(* What the indexer stores: the partition read off the URL, the statistics. *)
Document == [f \in Files |-> [partition |-> Directory[f],
                              stats |-> Statistics(Content[f])]]

-----------------------------------------------------------------------------
(* Which documents a request selects.                                       *)

(* A range filter of Elasticsearch: a NULL lies in no range.                *)
InRange(least, greatest, from, to) ==
    /\ greatest # None /\ greatest >= from
    /\ least # None /\ least <= to

IsFrom(p, q) ==
    /\ q.provider \in {None, p.provider}
    /\ q.project \in {None, p.project}
    /\ q.platform_code = None \/ p.platform \in q.platform_code

Bounded(x, y) == x # None /\ y # None

\* Mutant of Counted: an open interval of time.
CountedOpen(d, q) ==
    /\ IsFrom(d.partition, q)
    /\ Bounded(q.min_datetime, q.max_datetime) =>
          d.stats.max_datetime > q.min_datetime /\ d.stats.min_datetime <= q.max_datetime

(* Every pair of bounds applies only when both are given.                   *)
Counted(d, q) ==
    /\ IsFrom(d.partition, q)
    /\ Bounded(q.min_depth, q.max_depth) =>
          InRange(d.stats.min_depth, d.stats.max_depth, q.min_depth, q.max_depth)
    /\ Bounded(q.min_datetime, q.max_datetime) =>
          InRange(d.stats.min_datetime, d.stats.max_datetime, q.min_datetime, q.max_datetime)
    /\ Bounded(q.min_lat_lon, q.max_lat_lon) =>
          /\ InRange(d.stats.min_lat, d.stats.max_lat,
                     q.min_lat_lon[1], q.max_lat_lon[1])
          /\ InRange(d.stats.min_lon, d.stats.max_lon,
                     q.min_lat_lon[2], q.max_lat_lon[2])

-----------------------------------------------------------------------------
(* The aggregation.                                                         *)

(* A terms aggregation: the values with the most documents, BucketLimit of  *)
(* them.                                                                    *)
Buckets(D, field) ==
    LET values    == {Directory[f][field] : f \in D}
        Weight(v) == Cardinality({f \in D : Directory[f][field] = v})
    IN  CHOOSE B \in SUBSET values :
            /\ Cardinality(B) = IF Cardinality(values) < BucketLimit
                                THEN Cardinality(values) ELSE BucketLimit
            /\ \A v \in B, u \in values \ B : Weight(v) >= Weight(u)

Bucket(D, field, v) == {f \in D : Directory[f][field] = v}

(* The documents of every platform of every project of every provider.      *)
Groups(D) ==
    UNION {UNION {{Bucket(P, "platform", c) : c \in Buckets(P, "platform")} :
                  P \in {Bucket(V, "project", j) : j \in Buckets(V, "project")}} :
           V \in {Bucket(D, "provider", v) : v \in Buckets(D, "provider")}}

Total(G) == SumFunction([f \in G |-> Document[f].stats.total])

ObservationCount(G, c) ==
    SumFunction([f \in G |-> Document[f].stats.observation_counts[c]])

(* min and max aggregations leave out NULL.                                 *)
Field(G, field) == {Document[f].stats[field] : f \in G} \ {None}
LeastOf(G, field)    == IF Field(G, field) = {} THEN None ELSE Least(Field(G, field))
GreatestOf(G, field) == Greatest(Field(G, field))

(* int(), which cuts towards zero: times are answered in whole seconds.     *)
ToSecond(t) == IF t < 0 THEN t + ((-t) % Second) ELSE t - (t % Second)

(* The statistics of one platform in the answer.                            *)
CoreStatistics(G) ==
    [total |-> Total(G),
     min_lat |-> LeastOf(G, "min_lat"), max_lat |-> GreatestOf(G, "max_lat"),
     min_lon |-> LeastOf(G, "min_lon"), max_lon |-> GreatestOf(G, "max_lon"),
     min_depth |-> LeastOf(G, "min_depth"),
     max_depth |-> GreatestOf(G, "max_depth"),
     min_datetime |-> ToSecond(LeastOf(G, "min_datetime")),
     max_datetime |-> ToSecond(GreatestOf(G, "max_datetime")),
     observation_counts |-> [c \in ObservationNames |-> ObservationCount(G, c)]]

SubCollectionStatistics(index, q) ==
    {[provider |-> Source[CHOOSE f \in G : TRUE].provider,
      project |-> Source[CHOOSE f \in G : TRUE].project,
      platform |-> Source[CHOOSE f \in G : TRUE].platform,
      statistics |-> CoreStatistics(G)] :
        G \in Groups({f \in index : Counted(Document[f], q)})}

=============================================================================
