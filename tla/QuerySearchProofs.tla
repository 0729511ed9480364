------------------------- MODULE QuerySearchProofs -------------------------
(***************************************************************************)
(* For any files, rows, requests and page size: a search loses no file on  *)
(* its way, reads none twice and none that was not asked for, answers with *)
(* every matching row of what it read, and fails only if a file it listed  *)
(* was removed.  The statistics leave out no file with a measured row in   *)
(* the ranges asked for and are those of the rows of the files they count. *)
(*                                                                         *)
(* What the answers add up to are sums over sets: see SetSums.             *)
(***************************************************************************)
EXTENDS QuerySearch, SetSums

-----------------------------------------------------------------------------
(* The least and the greatest element of a finite set: there are such.      *)

LEMMA Extremum ==
    ASSUME NEW X, IsFiniteSet(X), X # {}, NEW R,
           \A x, y, z \in X : <<x, y>> \in R /\ <<y, z>> \in R => <<x, z>> \in R,
           \A x \in X : <<x, x>> \notin R
    PROVE  \E x \in X : \A y \in X : <<y, x>> \notin R
<1> DEFINE Below(x) == {y \in X : <<y, x>> \in R}
           Belows   == {Below(x) : x \in X}
<1>1. Belows \subseteq FiniteSubsetsOf(X) /\ Belows # {}
  <2>1. ASSUME NEW x \in X
        PROVE  Below(x) \in SUBSET X /\ IsFiniteSet(Below(x))
    <3>1. Below(x) \in SUBSET X
      OBVIOUS
    <3> HIDE DEF Below
    <3> QED  BY <3>1, FS_Subset
  <2> HIDE DEF Below
  <2> QED  BY <2>1 DEF FiniteSubsetsOf
<1>2. PICK B \in Belows : \A C \in Belows : <<C, B>> \notin StrictSubsetOrdering(X)
  <2> HIDE DEF Belows
  <2> QED  BY <1>1, FS_StrictSubsetOrderingWellFounded, WFMin
<1>3. PICK x \in X : B = Below(x)
  BY <1>2
<1>4. ASSUME NEW y \in X, <<y, x>> \in R
      PROVE  FALSE
  <2>1. Below(y) \subseteq Below(x)
    BY <1>4
  <2>2. y \in Below(x) /\ y \notin Below(y)
    BY <1>4
  <2>3. <<Below(y), Below(x)>> \in StrictSubsetOrdering(X)
    BY <2>1, <2>2 DEF StrictSubsetOrdering
  <2> QED  BY <1>2, <1>3, <2>3
<1> QED  BY <1>4

LEMMA LeastFact ==
    ASSUME NEW X \in SUBSET Int, IsFiniteSet(X), X # {}
    PROVE  Least(X) \in X /\ \A y \in X : Least(X) <= y
<1> DEFINE R == {p \in Int \X Int : p[1] < p[2]}
<1>1. \E x \in X : \A y \in X : <<y, x>> \notin R
  <2>1. /\ \A x, y, z \in X : <<x, y>> \in R /\ <<y, z>> \in R => <<x, z>> \in R
        /\ \A x \in X : <<x, x>> \notin R
    OBVIOUS
  <2> HIDE DEF R
  <2> QED  BY <2>1, Extremum
<1>2. \A x, y \in X : <<y, x>> \notin R => x <= y
  OBVIOUS
<1>3. \E x \in X : \A y \in X : x <= y
  <2> HIDE DEF R
  <2> QED  BY <1>1, <1>2
<1> QED  BY <1>3 DEF Least

LEMMA GreatestFact ==
    ASSUME NEW X \in SUBSET Int, IsFiniteSet(X), X # {}
    PROVE  Greatest(X) \in X /\ \A y \in X : y <= Greatest(X)
<1> DEFINE R == {p \in Int \X Int : p[1] > p[2]}
<1>1. \E x \in X : \A y \in X : <<y, x>> \notin R
  <2>1. /\ \A x, y, z \in X : <<x, y>> \in R /\ <<y, z>> \in R => <<x, z>> \in R
        /\ \A x \in X : <<x, x>> \notin R
    OBVIOUS
  <2> HIDE DEF R
  <2> QED  BY <2>1, Extremum
<1>2. \A x, y \in X : <<y, x>> \notin R => y <= x
  OBVIOUS
<1>3. \E x \in X : \A y \in X : y <= x
  <2> HIDE DEF R
  <2> QED  BY <1>1, <1>2
<1> QED  BY <1>3 DEF Greatest

-----------------------------------------------------------------------------
(* The document of a file covers its rows.                                  *)

LEMMA ValuesFinite ==
    ASSUME NEW R, IsFiniteSet(R), NEW field
    PROVE  IsFiniteSet(Values(R, field))
<1> DEFINE F == [r \in R |-> r[field]]
<1>1. F \in Surjection(R, Values(R, field))
  BY DEF Surjection, Values
<1> QED  BY <1>1, FS_Surjection

LEMMA RangeOfColumn ==
    ASSUME NEW f \in Files, NEW r \in Content[f],
           NEW field \in {"lat", "lon", "time", "depth"}
    PROVE  LET V == Values(Content[f], field) IN
           /\ Least(V) \in V /\ Greatest(V) \in V
           /\ V \in SUBSET Int /\ IsFiniteSet(V) /\ r[field] \in V
           /\ Least(V) <= r[field] /\ r[field] <= Greatest(V)
<1> DEFINE V == Values(Content[f], field)
<1>1. IsFiniteSet(Content[f]) /\ Content[f] \subseteq Rows
  BY ContentAssumption DEF Rows
<1>2. \A s \in Content[f] : s[field] \in Int
  BY <1>1, ContentAssumption
<1>3. V \in SUBSET Int /\ r[field] \in V
  BY <1>2 DEF Values
<1>4. IsFiniteSet(V)
  BY <1>1, ValuesFinite
<1> HIDE DEF V
<1>5. /\ Least(V) \in V /\ Greatest(V) \in V
      /\ Least(V) <= r[field] /\ r[field] <= Greatest(V)
  BY <1>3, <1>4, LeastFact, GreatestFact
<1> QED  BY <1>3, <1>4, <1>5 DEF V

(* A missing depth is never the least one if another was measured.          *)
LEMMA MinDepthFact ==
    ASSUME NEW f \in Files, NEW r \in Content[f], r.depth # Missing
    PROVE  MinDepth(Content[f]) \in Int /\ MinDepth(Content[f]) <= r.depth
<1> DEFINE V == Values(Content[f], "depth")
           measured == V \ {Missing}
<1>1. /\ Least(V) \in V /\ V \in SUBSET Int /\ IsFiniteSet(V)
      /\ r.depth \in V /\ Least(V) <= r.depth
  BY RangeOfColumn
<1>2. measured \in SUBSET Int /\ measured # {} /\ r.depth \in measured
  BY <1>1
<1>3. IsFiniteSet(measured)
  BY <1>1, FS_RemoveElement
<1>4. Least(measured) \in measured /\ Least(measured) <= r.depth
  BY <1>2, <1>3, LeastFact
<1>5. MinDepth(Content[f]) = IF Least(V) # Missing THEN Least(V) ELSE Least(measured)
  BY <1>2 DEF MinDepth
<1> QED  BY <1>1, <1>2, <1>4, <1>5

LEMMA DocumentCovers ==
    ASSUME NEW f \in Files, NEW r \in Content[f]
    PROVE  LET s == Document[f].stats IN
           /\ {s.min_lat, s.max_lat, s.min_lon, s.max_lon,
               s.min_datetime, s.max_datetime, s.max_depth} \subseteq Int
           /\ {r.lat, r.lon, r.time, r.depth} \subseteq Int
           /\ s.min_lat <= r.lat /\ r.lat <= s.max_lat
           /\ s.min_lon <= r.lon /\ r.lon <= s.max_lon
           /\ s.min_datetime <= r.time /\ r.time <= s.max_datetime
           /\ r.depth <= s.max_depth
           /\ r.depth # Missing => s.min_depth \in Int /\ s.min_depth <= r.depth
<1>1. Document[f].stats = Statistics(Content[f])
  BY DEF Document
<1> DEFINE V(field) == Values(Content[f], field)
<1>2. \A field \in {"lat", "lon", "time", "depth"} :
         /\ Least(V(field)) \in Int /\ Greatest(V(field)) \in Int /\ r[field] \in Int
         /\ Least(V(field)) <= r[field] /\ r[field] <= Greatest(V(field))
  BY RangeOfColumn
<1> HIDE DEF V
<1>3. /\ Statistics(Content[f]).min_lat = Least(V("lat"))
      /\ Statistics(Content[f]).max_lat = Greatest(V("lat"))
      /\ Statistics(Content[f]).min_lon = Least(V("lon"))
      /\ Statistics(Content[f]).max_lon = Greatest(V("lon"))
      /\ Statistics(Content[f]).min_datetime = Least(V("time"))
      /\ Statistics(Content[f]).max_datetime = Greatest(V("time"))
      /\ Statistics(Content[f]).min_depth = MinDepth(Content[f])
      /\ Statistics(Content[f]).max_depth = Greatest(V("depth"))
  BY DEF Statistics, V
<1> QED  BY <1>1, <1>2, <1>3, MinDepthFact

LEMMA PartitionOfSource ==
    ASSUME NEW f \in Files
    PROVE  /\ Document[f].partition.provider = Source[f].provider
           /\ Document[f].partition.project = Source[f].project
           /\ Document[f].partition.platform = Source[f].platform
  BY DEF Document, Directory, Partition

(* What the filter of the statistics requires of a document is what a       *)
(* measured row of the file fulfils.                                        *)
LEMMA MeasuredCounted ==
    ASSUME NEW args \in StatisticsRequests, NEW f \in Files, NEW r \in Content[f],
           r.depth # Missing,
           \A name \in {"provider", "project"} \cap DOMAIN args :
              args[name] = Source[f][name],
           "platform" \in DOMAIN args => Source[f].platform \in args.platform,
           {"minDepth", "maxDepth"} \subseteq DOMAIN args =>
              r.depth \in args.minDepth .. args.maxDepth,
           {"startTime", "endTime"} \subseteq DOMAIN args =>
              r.time \in args.startTime .. args.endTime,
           "bbox" \in DOMAIN args => /\ r.lon \in args.bbox[1] .. args.bbox[3]
                                    /\ r.lat \in args.bbox[2] .. args.bbox[4]
    PROVE  Counted(Document[f], StatisticsProps(args))
<1> DEFINE q == StatisticsProps(args)
           s == Document[f].stats
<1>1. /\ {s.min_lat, s.max_lat, s.min_lon, s.max_lon,
          s.min_datetime, s.max_datetime, s.min_depth, s.max_depth} \subseteq Int
      /\ {r.lat, r.lon, r.time, r.depth} \subseteq Int
      /\ s.min_lat <= r.lat /\ r.lat <= s.max_lat
      /\ s.min_lon <= r.lon /\ r.lon <= s.max_lon
      /\ s.min_datetime <= r.time /\ r.time <= s.max_datetime
      /\ s.min_depth <= r.depth /\ r.depth <= s.max_depth
  BY DocumentCovers
<1>2. None \notin Int
  BY ContentAssumption
<1>3. IsRequest(args)
  BY RequestsAssumption
<1> HIDE DEF s
<1>4. IsFrom(Document[f].partition, q)
  BY PartitionOfSource DEF IsFrom, StatisticsProps
<1>5. Bounded(q.min_depth, q.max_depth) =>
         InRange(s.min_depth, s.max_depth, q.min_depth, q.max_depth)
  <2>1. SUFFICES ASSUME Bounded(q.min_depth, q.max_depth)
                 PROVE  InRange(s.min_depth, s.max_depth, q.min_depth, q.max_depth)
    OBVIOUS
  <2>2. /\ {"minDepth", "maxDepth"} \subseteq DOMAIN args
        /\ q.min_depth = args.minDepth /\ q.max_depth = args.maxDepth
    BY <2>1 DEF Bounded, StatisticsProps
  <2>3. args.minDepth \in Int /\ args.maxDepth \in Int
    BY <1>3, <2>2 DEF IsRequest
  <2> QED  BY <1>1, <1>2, <2>2, <2>3 DEF InRange
<1>6. Bounded(q.min_datetime, q.max_datetime) =>
         InRange(s.min_datetime, s.max_datetime, q.min_datetime, q.max_datetime)
  <2>1. SUFFICES ASSUME Bounded(q.min_datetime, q.max_datetime)
                 PROVE  InRange(s.min_datetime, s.max_datetime,
                                q.min_datetime, q.max_datetime)
    OBVIOUS
  <2>2. /\ {"startTime", "endTime"} \subseteq DOMAIN args
        /\ q.min_datetime = args.startTime /\ q.max_datetime = args.endTime
    BY <2>1 DEF Bounded, StatisticsProps
  <2>3. args.startTime \in Int /\ args.endTime \in Int
    BY <1>3, <2>2 DEF IsRequest
  <2> QED  BY <1>1, <1>2, <2>2, <2>3 DEF InRange
<1>7. Bounded(q.min_lat_lon, q.max_lat_lon) =>
         /\ InRange(s.min_lat, s.max_lat, q.min_lat_lon[1], q.max_lat_lon[1])
         /\ InRange(s.min_lon, s.max_lon, q.min_lat_lon[2], q.max_lat_lon[2])
  <2>1. SUFFICES ASSUME Bounded(q.min_lat_lon, q.max_lat_lon)
                 PROVE  /\ InRange(s.min_lat, s.max_lat,
                                   q.min_lat_lon[1], q.max_lat_lon[1])
                        /\ InRange(s.min_lon, s.max_lon,
                                   q.min_lat_lon[2], q.max_lat_lon[2])
    OBVIOUS
  <2>2. /\ "bbox" \in DOMAIN args
        /\ q.min_lat_lon = <<args.bbox[2], args.bbox[1]>>
        /\ q.max_lat_lon = <<args.bbox[4], args.bbox[3]>>
    BY <2>1 DEF Bounded, StatisticsProps
  <2>3. args.bbox \in Int \X Int \X Int \X Int
    BY <1>3, <2>2 DEF IsRequest
  <2> QED  BY <1>1, <1>2, <2>2, <2>3 DEF InRange
<1> QED  BY <1>4, <1>5, <1>6, <1>7 DEF Counted, s

-----------------------------------------------------------------------------
(* The filter of a search.                                                  *)

LEMMA PayloadFacts ==
    ASSUME NEW args, IsValid(Payload(args))
    PROVE  LET q == QueryProps(Payload(args)) IN
           /\ {"startTime", "endTime", "minDepth", "maxDepth", "bbox"}
                  \subseteq DOMAIN args
           /\ q.min_datetime = args.startTime /\ q.max_datetime = args.endTime
           /\ q.min_lat_lon = <<args.bbox[2], args.bbox[1]>>
           /\ q.max_lat_lon = <<args.bbox[4], args.bbox[3]>>
           /\ q.min_depth = args.minDepth /\ q.max_depth = args.maxDepth
           /\ q.size = IF "itemsPerPage" \in DOMAIN args
                       THEN args.itemsPerPage ELSE 10
           /\ q.variable = IF "variable" \in DOMAIN args THEN args.variable ELSE {}
           /\ q.provider = IF "provider" \in DOMAIN args THEN args.provider ELSE None
           /\ q.project = IF "project" \in DOMAIN args THEN args.project ELSE None
           /\ q.platform_code =
                  IF "platform" \in DOMAIN args THEN args.platform ELSE None
<1> DEFINE P == Payload(args)
<1>1. DOMAIN Argument = {"min_time", "max_time", "min_depth", "max_depth",
                         "min_lat_lon", "max_lat_lon", "platform_code",
                         "provider", "project", "variable"}
      /\ Argument["min_time"] = "startTime" /\ Argument["max_time"] = "endTime"
      /\ Argument["min_depth"] = "minDepth" /\ Argument["max_depth"] = "maxDepth"
      /\ Argument["min_lat_lon"] = "bbox" /\ Argument["max_lat_lon"] = "bbox"
      /\ Argument["platform_code"] = "platform" /\ Argument["provider"] = "provider"
      /\ Argument["project"] = "project" /\ Argument["variable"] = "variable"
  BY DEF Argument
<1>2. DOMAIN P = {field \in DOMAIN Argument : Argument[field] \in DOMAIN args}
                     \cup {"size"}
  BY DEF Payload
<1>3. {"min_depth", "max_depth", "min_time", "max_time",
       "min_lat_lon", "max_lat_lon"} \subseteq DOMAIN P
  BY DEF IsValid
<1>4. {"startTime", "endTime", "minDepth", "maxDepth", "bbox"} \subseteq DOMAIN args
  BY <1>1, <1>2, <1>3
<1>5. "device" \notin DOMAIN P
  BY <1>1, <1>2
<1>6. \A field \in DOMAIN P \ {"size", "min_lat_lon", "max_lat_lon"} :
         P[field] = args[Argument[field]]
  BY <1>2 DEF Payload
<1>7. /\ P["min_lat_lon"] = <<args.bbox[2], args.bbox[1]>>
      /\ P["max_lat_lon"] = <<args.bbox[4], args.bbox[3]>>
  BY <1>2, <1>3 DEF Payload
<1>8. P["size"] = IF "itemsPerPage" \in DOMAIN args THEN args.itemsPerPage ELSE 10
  BY <1>2 DEF Payload
<1>9. /\ "variable" \in DOMAIN P <=> "variable" \in DOMAIN args
      /\ "variable" \in DOMAIN P => P["variable"] = args["variable"]
  BY <1>1, <1>2, <1>6
<1> HIDE DEF P
<1>10. /\ P.min_time = args.startTime /\ P.max_time = args.endTime
       /\ P.min_lat_lon = <<args.bbox[2], args.bbox[1]>>
       /\ P.max_lat_lon = <<args.bbox[4], args.bbox[3]>>
       /\ P.min_depth = args.minDepth /\ P.max_depth = args.maxDepth
  BY <1>1, <1>3, <1>6, <1>7
<1>11. \A name \in {"provider", "project"} :
         /\ name \in DOMAIN P <=> name \in DOMAIN args
         /\ name \in DOMAIN P => P[name] = args[name]
  BY <1>1, <1>2, <1>6
<1>12. /\ "platform_code" \in DOMAIN P <=> "platform" \in DOMAIN args
       /\ "platform_code" \in DOMAIN P => P["platform_code"] = args["platform"]
  BY <1>1, <1>2, <1>6
<1> QED  BY <1>4, <1>5, <1>8, <1>9, <1>10, <1>11, <1>12 DEF QueryProps, P

LEMMA WantedSelected ==
    ASSUME NEW f \in Files, NEW r \in Content[f], request \in Requests,
           IsValid(Payload(request)), query = QueryProps(Payload(request)),
           Wanted(f, r)
    PROVE  Selected(Document[f], query)
<1>1. IsRequest(request)
  BY RequestsAssumption
<1>2. {"startTime", "endTime", "bbox"} \subseteq DOMAIN request
  BY PayloadFacts
<1>3. /\ {request.startTime, request.endTime} \subseteq Int
      /\ request.bbox \in Int \X Int \X Int \X Int
  BY <1>1, <1>2 DEF IsRequest
<1>4. /\ query.min_datetime = request.startTime
      /\ query.max_datetime = request.endTime
      /\ query.min_lat_lon = <<request.bbox[2], request.bbox[1]>>
      /\ query.max_lat_lon = <<request.bbox[4], request.bbox[3]>>
  BY PayloadFacts
<1>5. IsFrom(Document[f].partition, query)
  BY PayloadFacts, PartitionOfSource DEF IsFrom, Wanted, WantedSource
<1> DEFINE s == Document[f].stats
<1>6. /\ {s.min_lat, s.max_lat, s.min_lon, s.max_lon,
          s.min_datetime, s.max_datetime} \subseteq Int
      /\ {r.lat, r.lon, r.time} \subseteq Int
      /\ s.min_lat <= r.lat /\ r.lat <= s.max_lat
      /\ s.min_lon <= r.lon /\ r.lon <= s.max_lon
      /\ s.min_datetime <= r.time /\ r.time <= s.max_datetime
  BY DocumentCovers
<1>7. None \notin Int
  BY ContentAssumption
<1> HIDE DEF s
<1>8. /\ r.lon \in request.bbox[1] .. request.bbox[3]
      /\ r.lat \in request.bbox[2] .. request.bbox[4]
      /\ r.time \in request.startTime .. request.endTime
  BY DEF Wanted
<1>9. /\ InRange(s.min_datetime, s.max_datetime,
                 query.min_datetime, query.max_datetime)
      /\ InRange(s.min_lat, s.max_lat, query.min_lat_lon[1], query.max_lat_lon[1])
      /\ InRange(s.min_lon, s.max_lon, query.min_lat_lon[2], query.max_lat_lon[2])
  BY <1>3, <1>4, <1>6, <1>7, <1>8 DEF InRange
<1> QED  BY <1>5, <1>9 DEF Selected, s

-----------------------------------------------------------------------------
(* The sort puts the documents of any two files in an order.                *)

LEMMA PrecedesTotal ==
    ASSUME NEW f \in Files, NEW g \in Files, f # g
    PROVE  Precedes(f, g) \/ Precedes(g, f)
<1>1. ASSUME NEW h \in Files
      PROVE  SortKey(h) \in Int \X Int \X Int \X Int \X Int /\ SortKey(h)[5] = h
  <2>1. PICK r \in Content[h] : TRUE
    BY ContentAssumption
  <2>2. /\ Document[h].stats.min_datetime \in Int
        /\ Document[h].stats.min_lat \in Int /\ Document[h].stats.min_lon \in Int
    BY <2>1, DocumentCovers
  <2>3. Source[h].platform \in Int
    BY ContentAssumption
  <2>4. h \in Int
    <3>1. Files \subseteq Nat
      BY ContentAssumption
    <3> QED  BY <3>1
  <2> QED  BY <2>2, <2>3, <2>4 DEF SortKey
<1> DEFINE K == SortKey(f)
           L == SortKey(g)
<1>2. K \in Int \X Int \X Int \X Int \X Int /\ L \in Int \X Int \X Int \X Int \X Int
  BY <1>1
<1>3. K[5] # L[5]
  BY <1>1
<1> HIDE DEF K, L
<1>4. ASSUME NEW i \in 1 .. 5, K[i] # L[i],
             \A j \in 1 .. (i - 1) : K[j] = L[j]
      PROVE  Precedes(f, g) \/ Precedes(g, f)
  <2>1. K[i] \in Int /\ L[i] \in Int
    <3>1. i = 1 \/ i = 2 \/ i = 3 \/ i = 4 \/ i = 5
      OBVIOUS
    <3> QED  BY <1>2, <3>1
  <2>2. CASE K[i] < L[i]
    BY <1>4, <2>2 DEF Precedes, Lower, K, L
  <2>3. CASE L[i] < K[i]
    BY <1>4, <2>3 DEF Precedes, Lower, K, L
  <2> QED  BY <1>4, <2>1, <2>2, <2>3
<1>5. CASE K[1] # L[1]
  BY <1>4, <1>5
<1>6. CASE K[1] = L[1] /\ K[2] # L[2]
  <2>1. \A j \in 1 .. (2 - 1) : K[j] = L[j]
    BY <1>6
  <2> QED  BY <1>4, <1>6, <2>1
<1>7. CASE K[1] = L[1] /\ K[2] = L[2] /\ K[3] # L[3]
  <2>1. \A j \in 1 .. (3 - 1) : K[j] = L[j]
    BY <1>7
  <2> QED  BY <1>4, <1>7, <2>1
<1>8. CASE K[1] = L[1] /\ K[2] = L[2] /\ K[3] = L[3] /\ K[4] # L[4]
  <2>1. \A j \in 1 .. (4 - 1) : K[j] = L[j]
    BY <1>8
  <2> QED  BY <1>4, <1>8, <2>1
<1>9. CASE K[1] = L[1] /\ K[2] = L[2] /\ K[3] = L[3] /\ K[4] = L[4]
  <2>1. \A j \in 1 .. (5 - 1) : K[j] = L[j]
    BY <1>9
  <2> QED  BY <1>3, <1>4, <2>1
<1> QED  BY <1>5, <1>6, <1>7, <1>8, <1>9

-----------------------------------------------------------------------------
(* The inductive invariant.                                                 *)

StageInv ==
    /\ created \subseteq Files /\ index \subseteq created /\ live \subseteq created
    /\ steady \subseteq live \cap index
    /\ pc \in {"idle", "collect", "list", "page", "answered", "refused", "failed"}
    /\ listed \in [Files -> Nat]
    /\ hits \subseteq Files
    /\ pc # "collect" => hits = {} /\ last = None
    /\ pc # "list" => todo = {}
    /\ pc \in {"idle", "refused"} => steady = {}

(* What is filtered is what the client asked for.                           *)
QueryInv ==
    pc \notin {"idle", "refused"} =>
        /\ request \in Requests /\ IsValid(Payload(request))
        /\ query = QueryProps(Payload(request))

(* NothingMissed in terms of what the documents are filtered by.            *)
NoneLost ==
    pc # "failed" =>
        \A f \in steady : Selected(Document[f], query) => OnItsWay(f)

RemovalInv == ~ removed => Listed \subseteq live

IInv == StageInv /\ QueryInv /\ NoneLost /\ RemovalInv

LEMMA StageStep == StageInv /\ [Next]_vars => StageInv'
<1> SUFFICES ASSUME StageInv, [Next]_vars
             PROVE  StageInv'
  OBVIOUS
<1> USE DEF StageInv
<1>1. ASSUME NEW f \in Files,
             CreateFile(f) \/ DeleteFile(f) \/ IndexFile(f) \/ UnindexFile(f)
      PROVE  StageInv'
  BY <1>1 DEF CreateFile, DeleteFile, IndexFile, UnindexFile, search,
     Stats!Create, Stats!Delete, Stats!Index, Stats!Unindex
<1>2. ASSUME NEW args \in Requests, Start(args) \/ Refuse(args)
      PROVE  StageInv'
  BY <1>2 DEF Start, Refuse, files
<1>3. CASE NextPage
  <2>1. Behind \subseteq Files
    BY DEF Behind
  <2> QED  BY <1>3, <2>1 DEF NextPage, files
<1>4. CASE LastPage
  BY <1>4 DEF LastPage, files
<1>5. CASE ListDirectory
  BY <1>5 DEF ListDirectory, files
<1>6. CASE SkipDirectory
  BY <1>6 DEF SkipDirectory, files
<1>7. CASE NothingFound \/ CountRows \/ ReturnRows \/ Fail \/ ElasticsearchError
  BY <1>7 DEF NothingFound, CountRows, ReturnRows, Fail, ElasticsearchError, files
<1>8. CASE Respond
  BY <1>8 DEF Respond, files, NoFiles
<1>9. CASE UNCHANGED vars
  BY <1>9 DEF vars, files, search
<1> QED  BY <1>1, <1>2, <1>3, <1>4, <1>5, <1>6, <1>7, <1>8, <1>9 DEF Next, Search

LEMMA QueryStep == QueryInv /\ [Next]_vars => QueryInv'
<1> SUFFICES ASSUME QueryInv, [Next]_vars
             PROVE  QueryInv'
  OBVIOUS
<1>1. ASSUME NEW args \in Requests, Start(args)
      PROVE  QueryInv'
  BY <1>1 DEF Start, QueryInv
<1>2. ASSUME NEW args \in Requests, Refuse(args)
      PROVE  QueryInv'
  BY <1>2 DEF Refuse, QueryInv
<1>3. CASE Respond
  BY <1>3 DEF Respond, QueryInv
<1>4. CASE UNCHANGED vars
  BY <1>4 DEF vars, search, QueryInv
<1>5. ASSUME NEW f \in Files,
             CreateFile(f) \/ DeleteFile(f) \/ IndexFile(f) \/ UnindexFile(f)
      PROVE  QueryInv'
  BY <1>5 DEF CreateFile, DeleteFile, IndexFile, UnindexFile, search, QueryInv
<1>6. CASE SkipDirectory \/ NextPage \/ LastPage \/ ListDirectory \/ NothingFound
              \/ CountRows \/ ReturnRows \/ Fail \/ ElasticsearchError
  BY <1>6 DEF SkipDirectory, NextPage, LastPage, ListDirectory, NothingFound,
     CountRows, ReturnRows, Fail, ElasticsearchError, QueryInv
<1> QED  BY <1>1, <1>2, <1>3, <1>4, <1>5, <1>6 DEF Next, Search

LEMMA RemovalStep == StageInv /\ RemovalInv /\ [Next]_vars => RemovalInv'
<1> SUFFICES ASSUME StageInv, RemovalInv, [Next]_vars
             PROVE  RemovalInv'
  OBVIOUS
<1> USE DEF RemovalInv, Listed
<1>1. ASSUME NEW f \in Files, DeleteFile(f)
      PROVE  RemovalInv'
  BY <1>1 DEF DeleteFile, Stats!Delete, search, StageInv
<1>2. ASSUME NEW f \in Files, CreateFile(f) \/ IndexFile(f) \/ UnindexFile(f)
      PROVE  RemovalInv'
  BY <1>2 DEF CreateFile, IndexFile, UnindexFile, search,
     Stats!Create, Stats!Index, Stats!Unindex
<1>3. ASSUME NEW args \in Requests, Start(args) \/ Refuse(args)
      PROVE  RemovalInv'
  BY <1>3 DEF Start, Refuse, files
<1>4. CASE ListDirectory
  BY <1>4 DEF ListDirectory, Present, files, StageInv
<1>5. CASE Fail \/ ElasticsearchError
  BY <1>5 DEF Fail, ElasticsearchError, files
<1>6. CASE Respond
  BY <1>6 DEF Respond, NoFiles
<1>7. CASE SkipDirectory \/ NextPage \/ LastPage \/ NothingFound \/ CountRows
              \/ ReturnRows
  BY <1>7 DEF SkipDirectory, NextPage, LastPage, NothingFound, CountRows,
     ReturnRows, files
<1>8. CASE UNCHANGED vars
  BY <1>8 DEF vars, files, search
<1> QED  BY <1>1, <1>2, <1>3, <1>4, <1>5, <1>6, <1>7, <1>8 DEF Next, Search

(* A page leaves nothing behind that is not behind its end.                 *)
LEMMA NoneLostByPage == StageInv /\ NoneLost /\ NextPage => NoneLost'
<1> SUFFICES ASSUME StageInv, NoneLost, NextPage,
                    NEW f \in steady, Selected(Document[f], query)
             PROVE  OnItsWay(f)'
  BY DEF NoneLost, NextPage, files
<1>1. /\ pc = "collect" /\ pc' = "collect"
      /\ UNCHANGED <<index, query, listed, todo>>
  BY DEF NextPage, files
<1>2. PICK page \in SUBSET Behind : \E end \in page :
          /\ IsPage(page, end) /\ hits' = hits \cup page /\ last' = end
  BY DEF NextPage
<1>3. PICK end \in page : IsPage(page, end) /\ last' = end
  BY <1>2
<1>4. f \in hits \/ f \in Behind \/ listed[f] > 0
  BY <1>1 DEF NoneLost, OnItsWay
<1>5. ASSUME f \in Behind, f \notin page
      PROVE  f \in Behind'
  <2>1. ~ Precedes(f, end) /\ f # end
    BY <1>3, <1>5 DEF IsPage
  <2>2. f \in Files /\ end \in Files
    BY <1>3, <1>5 DEF Behind, StageInv
  <2>3. Precedes(end, f)
    BY <2>1, <2>2, PrecedesTotal
  <2> QED  BY <1>1, <1>3, <1>5, <2>3 DEF Behind
<1> QED  BY <1>1, <1>2, <1>4, <1>5 DEF OnItsWay

LEMMA NoneLostStep == StageInv /\ NoneLost /\ [Next]_vars => NoneLost'
<1> SUFFICES ASSUME StageInv, NoneLost, [Next]_vars
             PROVE  NoneLost'
  OBVIOUS
<1>1. ASSUME NEW g \in Files, CreateFile(g) \/ DeleteFile(g) \/ IndexFile(g)
      PROVE  NoneLost'
  BY <1>1 DEF CreateFile, DeleteFile, IndexFile, search, NoneLost, OnItsWay, Behind,
     Stats!Create, Stats!Delete, Stats!Index
<1>2. ASSUME NEW g \in Files, UnindexFile(g)
      PROVE  NoneLost'
  <2>1. \A f \in steady : f # g
    BY <1>2 DEF UnindexFile, Stats!Unindex, StageInv
  <2> QED  BY <1>2, <2>1 DEF UnindexFile, Stats!Unindex, search, NoneLost,
              OnItsWay, Behind
<1>3. ASSUME NEW args \in Requests, Start(args)
      PROVE  NoneLost'
  BY <1>3 DEF Start, files, NoneLost, OnItsWay, Behind, StageInv
<1>4. ASSUME NEW args \in Requests, Refuse(args)
      PROVE  NoneLost'
  BY <1>4 DEF Refuse, NoneLost, StageInv
<1>5. CASE NextPage
  BY <1>5, NoneLostByPage
<1>6. CASE LastPage
  BY <1>6 DEF LastPage, Paths, files, NoneLost, OnItsWay
<1>7. CASE ListDirectory
  <2> SUFFICES ASSUME NEW f \in steady, Selected(Document[f], query)
               PROVE  OnItsWay(f)'
    BY <1>7 DEF ListDirectory, NoneLost, files
  <2>1. PICK path \in todo :
           /\ todo' = todo \ {path}
           /\ listed' = [h \in Files |->
                  listed[h] + IF h \in Present(path) THEN 1 ELSE 0]
    BY <1>7 DEF ListDirectory
  <2>2. f \in Files /\ f \in live /\ listed[f] \in Nat
    BY DEF StageInv
  <2>3. CASE path = <<Path(f), None>>
    <3>1. f \in Present(path)
      BY <2>2, <2>3 DEF Present, In
    <3> QED  BY <2>1, <2>2, <3>1 DEF OnItsWay
  <2>4. CASE path # <<Path(f), None>>
    BY <1>7, <2>1, <2>2, <2>4 DEF ListDirectory, OnItsWay, NoneLost
  <2> QED  BY <2>3, <2>4
<1>8. CASE SkipDirectory
  <2> SUFFICES ASSUME NEW f \in steady', Selected(Document[f], query)
               PROVE  OnItsWay(f)'
    BY <1>8 DEF SkipDirectory, NoneLost
  <2>1. PICK path \in todo : todo' = todo \ {path} /\ steady' = steady \ In(path)
    BY <1>8 DEF SkipDirectory
  <2>2. path # <<Path(f), None>>
    BY <2>1 DEF In, StageInv
  <2> QED  BY <1>8, <2>1, <2>2 DEF SkipDirectory, OnItsWay, NoneLost
<1>9. CASE NothingFound \/ CountRows \/ ReturnRows \/ Fail \/ ElasticsearchError
  BY <1>9 DEF NothingFound, CountRows, ReturnRows, Fail, ElasticsearchError, files,
     NoneLost, OnItsWay, StageInv
<1>10. CASE Respond
  BY <1>10 DEF Respond, NoneLost
<1>11. CASE UNCHANGED vars
  BY <1>11 DEF vars, files, search, NoneLost, OnItsWay, Behind
<1> QED  BY <1>1, <1>2, <1>3, <1>4, <1>5, <1>6, <1>7, <1>8, <1>9, <1>10, <1>11
         DEF Next, Search

LEMMA Inductive == Spec => []IInv
<1>1. Init => IInv
  BY DEF Init, Stats!Init, IInv, StageInv, QueryInv, NoneLost, RemovalInv, Listed,
     NoFiles
<1>2. IInv /\ [Next]_vars => IInv'
  BY StageStep, QueryStep, NoneLostStep, RemovalStep DEF IInv
<1> QED  BY <1>1, <1>2, PTL DEF Spec

-----------------------------------------------------------------------------

(* No file that was there, indexed and readable throughout a search and has *)
(* a row the client wants is missed by it, however small the pages, however *)
(* the index changes between them and whatever the rows of the files are.   *)
THEOREM NothingMissedCorrect == Spec => []NothingMissed
<1>1. IInv => NothingMissed
  <2> SUFFICES ASSUME IInv, pc # "failed",
                      NEW f \in steady, NEW r \in Content[f], Wanted(f, r)
               PROVE  OnItsWay(f)
    BY DEF NothingMissed
  <2>1. f \in Files /\ pc \notin {"idle", "refused"}
    BY DEF IInv, StageInv
  <2>2. Selected(Document[f], query)
    BY <2>1, WantedSelected DEF IInv, QueryInv
  <2> QED  BY <2>2 DEF IInv, NoneLost
<1> QED  BY <1>1, Inductive, PTL

(* No document of a file with a measured row in the ranges asked for is     *)
(* left out of the statistics, whatever the rows and the partitions are.    *)
THEOREM StatisticsCorrect == Spec => []StatisticsCoverMeasured
<1>1. IInv => StatisticsCoverMeasured
  <2> SUFFICES ASSUME IInv, NEW args \in StatisticsRequests, NEW f \in index,
                      NEW r \in Content[f], r.depth # Missing,
                      \A name \in {"provider", "project"} \cap DOMAIN args :
                         args[name] = Source[f][name],
                      "platform" \in DOMAIN args =>
                         Source[f].platform \in args.platform,
                      {"minDepth", "maxDepth"} \subseteq DOMAIN args =>
                         r.depth \in args.minDepth .. args.maxDepth,
                      {"startTime", "endTime"} \subseteq DOMAIN args =>
                         r.time \in args.startTime .. args.endTime,
                      "bbox" \in DOMAIN args =>
                         /\ r.lon \in args.bbox[1] .. args.bbox[3]
                         /\ r.lat \in args.bbox[2] .. args.bbox[4]
               PROVE  f \in CountedFiles(args)
    BY DEF StatisticsCoverMeasured
  <2>1. f \in Files
    BY DEF IInv, StageInv
  <2>2. Counted(Document[f], StatisticsProps(args))
    BY <2>1, MeasuredCounted
  <2> QED  BY <2>2 DEF CountedFiles
<1> QED  BY <1>1, Inductive, PTL

-----------------------------------------------------------------------------
(* Types.                                                                   *)

LEMMA FilesFinite == \A F \in SUBSET Files : IsFiniteSet(F)
  BY ContentAssumption, FS_Subset

LEMMA SubsetOfContentFinite ==
    ASSUME NEW f \in Files, NEW R \in SUBSET Content[f]
    PROVE  IsFiniteSet(R) /\ Cardinality(R) \in Nat
<1>1. IsFiniteSet(R)
  BY ContentAssumption, FS_Subset
<1> QED  BY <1>1, FS_CardinalityType

LEMMA MatchingFinite ==
    ASSUME NEW f \in Files
    PROVE  IsFiniteSet(Matching(f)) /\ Cardinality(Matching(f)) \in Nat
  BY SubsetOfContentFinite DEF Matching

LEMMA ReturnedType ==
    ASSUME listed \in [Files -> Nat], NEW r \in Rows
    PROVE  Returned(r) \in Nat
<1> DEFINE m == [f \in Files |-> IF r \in Matching(f) THEN listed[f] ELSE 0]
<1>1. Returned(r) = SumFunctionOnSet(m, Files)
  BY DEF Returned, SumFunction
<1>2. \A f \in Files : m[f] \in Nat
  OBVIOUS
<1> HIDE DEF m
<1> QED  BY <1>1, <1>2, FilesFinite, SumNat

LEMMA TypeStep == TypeOK /\ StageInv' /\ QueryInv /\ [Next]_vars => TypeOK'
<1> SUFFICES ASSUME TypeOK, StageInv', QueryInv, [Next]_vars
             PROVE  TypeOK'
  OBVIOUS
<1>0. steady' \subseteq live' \cap created'
  BY DEF StageInv
<1> USE DEF TypeOK, Listed
<1>1. ASSUME NEW f \in Files,
             CreateFile(f) \/ DeleteFile(f) \/ IndexFile(f) \/ UnindexFile(f)
      PROVE  TypeOK'
  BY <1>0, <1>1 DEF CreateFile, DeleteFile, IndexFile, UnindexFile, search,
     Stats!Create, Stats!Delete, Stats!Index, Stats!Unindex
<1>2. ASSUME NEW args \in Requests, Start(args)
      PROVE  TypeOK'
  <2>1. query' # None
    BY <1>2, NoneAssumption DEF Start
  <2> QED  BY <1>0, <1>2, <2>1 DEF Start, files
<1>3. ASSUME NEW args \in Requests, Refuse(args)
      PROVE  TypeOK'
  BY <1>0, <1>3 DEF Refuse, files
<1>4. CASE NextPage
  <2>1. Behind \subseteq created
    BY DEF Behind
  <2> QED  BY <1>0, <1>4, <2>1 DEF NextPage, files
<1>5. CASE LastPage
  BY <1>0, <1>5 DEF LastPage, files, Paths
<1>6. CASE ListDirectory
  <2>1. PICK path \in todo :
           /\ todo' = todo \ {path}
           /\ listed' = [f \in Files |->
                  listed[f] + IF f \in Present(path) THEN 1 ELSE 0]
    BY <1>6 DEF ListDirectory
  <2>2. Present(path) \subseteq created
    BY DEF Present
  <2>3. listed' \in [Files -> Nat]
    BY <2>1
  <2>4. Listed' \subseteq created
    BY <2>1, <2>2
  <2> QED  BY <1>0, <1>6, <2>1, <2>3, <2>4 DEF ListDirectory, files
<1>7. CASE SkipDirectory
  BY <1>0, <1>7 DEF SkipDirectory, files
<1>8. CASE NothingFound \/ Fail \/ ElasticsearchError
  BY <1>0, <1>8 DEF NothingFound, Fail, ElasticsearchError, files
<1>9. CASE CountRows
  <2> DEFINE m == [f \in Listed |-> listed[f] * Cardinality(Matching(f))]
  <2>1. total' = SumFunctionOnSet(m, Listed)
    BY <1>9 DEF CountRows, SumFunction
  <2>2. \A f \in Listed : m[f] \in Nat
    BY MatchingFinite
  <2>3. IsFiniteSet(Listed)
    BY FilesFinite
  <2> HIDE DEF m
  <2>4. total' \in Nat
    BY <2>1, <2>2, <2>3, SumNat
  <2> QED  BY <1>0, <1>9, <2>4 DEF CountRows, files
<1>10. CASE ReturnRows
  <2>1. PICK shown : result' = [r \in Rows |-> IF r \in shown THEN Returned(r) ELSE 0]
    BY <1>10 DEF ReturnRows
  <2>2. \A r \in Rows : Returned(r) \in Nat
    BY ReturnedType
  <2>3. result' \in [Rows -> Nat]
    BY <2>1, <2>2
  <2> QED  BY <1>0, <1>10, <2>3 DEF ReturnRows, files
<1>11. CASE Respond
  <2>1. listed' \in [Files -> Nat] /\ Listed' = {} /\ result' \in [Rows -> Nat]
    BY <1>11 DEF Respond, NoFiles, NoRows
  <2>2. steady' = {}
    BY <1>11 DEF Respond
  <2> HIDE DEF Listed
  <2> QED  BY <1>11, <2>1, <2>2 DEF Respond, files
<1>12. CASE UNCHANGED vars
  BY <1>0, <1>12 DEF vars, files, search
<1> QED  BY <1>1, <1>2, <1>3, <1>4, <1>5, <1>6, <1>7, <1>8, <1>9, <1>10, <1>11,
            <1>12 DEF Next, Search

(* Everything a search collects stays what it is taken for: files that were *)
(* written, directories of such files, numbers of times and of rows.        *)
THEOREM TypeCorrect == Spec => []TypeOK
<1>1. Init => TypeOK
  <2> SUFFICES ASSUME Init PROVE TypeOK
    OBVIOUS
  <2>1. listed \in [Files -> Nat] /\ Listed = {} /\ result \in [Rows -> Nat]
    BY DEF Init, NoFiles, NoRows, Listed
  <2>2. live = {} /\ created = {} /\ index = {}
    BY DEF Init, Stats!Init
  <2> QED  BY <2>1, <2>2 DEF Init, TypeOK
<1>2. TypeOK /\ IInv /\ IInv' /\ [Next]_vars => TypeOK'
  BY TypeStep DEF IInv
<1> QED  BY <1>1, <1>2, Inductive, PTL DEF Spec

-----------------------------------------------------------------------------
(* Every file is listed at most once, since every directory is.             *)

OnceInv ==
    /\ \A f \in Files :
          listed[f] <= 1 /\ (listed[f] > 0 => <<Path(f), None>> \notin todo)
    /\ pc \in {"idle", "refused", "collect"} => listed = NoFiles

(* The directory a file is listed in is its own.                            *)
LEMMA PresentPath ==
    ASSUME TypeOK, NEW path \in todo, NEW f \in Present(path)
    PROVE  f \in Files /\ path = <<Path(f), None>>
<1>1. PICK g \in created : path = <<Path(g), None>>
  BY DEF TypeOK
<1> QED  BY <1>1 DEF Present, In

LEMMA OnceStep == TypeOK /\ StageInv /\ OnceInv /\ [Next]_vars => OnceInv'
<1> SUFFICES ASSUME TypeOK, StageInv, OnceInv, [Next]_vars
             PROVE  OnceInv'
  OBVIOUS
<1>1. ASSUME NEW f \in Files,
             CreateFile(f) \/ DeleteFile(f) \/ IndexFile(f) \/ UnindexFile(f)
      PROVE  OnceInv'
  BY <1>1 DEF CreateFile, DeleteFile, IndexFile, UnindexFile, search, OnceInv
<1>2. ASSUME NEW args \in Requests, Start(args) \/ Refuse(args)
      PROVE  OnceInv'
  BY <1>2 DEF Start, Refuse, OnceInv
<1>3. CASE LastPage
  BY <1>3 DEF LastPage, OnceInv, NoFiles
<1>4. CASE ListDirectory
  <2>1. PICK path \in todo :
           /\ todo' = todo \ {path}
           /\ listed' = [f \in Files |->
                  listed[f] + IF f \in Present(path) THEN 1 ELSE 0]
    BY <1>4 DEF ListDirectory
  <2>2. pc' = "list"
    BY <1>4 DEF ListDirectory
  <2>3. ASSUME NEW f \in Files
        PROVE  listed'[f] <= 1 /\ (listed'[f] > 0 => <<Path(f), None>> \notin todo')
    <3>1. listed[f] \in Nat /\ listed[f] <= 1
      BY DEF StageInv, OnceInv
    <3>2. CASE f \in Present(path)
      <4>1. path = <<Path(f), None>>
        BY <3>2, PresentPath
      <4>2. listed[f] = 0
        BY <3>1, <4>1 DEF OnceInv
      <4> QED  BY <2>1, <3>2, <4>1, <4>2
    <3>3. CASE f \notin Present(path)
      BY <2>1, <3>1, <3>3 DEF OnceInv
    <3> QED  BY <3>2, <3>3
  <2> QED  BY <2>2, <2>3 DEF OnceInv
<1>5. CASE SkipDirectory
  BY <1>5 DEF SkipDirectory, OnceInv
<1>6. CASE \/ NextPage \/ NothingFound \/ CountRows \/ ReturnRows \/ Fail
           \/ ElasticsearchError
  BY <1>6 DEF NextPage, NothingFound, CountRows, ReturnRows, Fail,
     ElasticsearchError, OnceInv
<1>7. CASE Respond
  BY <1>7 DEF Respond, OnceInv, NoFiles
<1>8. CASE UNCHANGED vars
  BY <1>8 DEF vars, search, OnceInv
<1> QED  BY <1>1, <1>2, <1>3, <1>4, <1>5, <1>6, <1>7, <1>8 DEF Next, Search

-----------------------------------------------------------------------------
(* What is read is from where the client asked for, since the directory of  *)
(* a file names its provider, project and platform.                         *)

NamedByDocument(f) ==
    \E g \in created : Path(g) = Path(f) /\ Selected(Document[g], query)

OriginInv ==
    /\ \A f \in hits : Selected(Document[f], query)
    /\ \A f \in Files : <<Path(f), None>> \in todo \/ listed[f] > 0 =>
          NamedByDocument(f)

LEMMA SamePath ==
    ASSUME NEW f, NEW g, Path(f) = Path(g), NEW q
    PROVE  IsFrom(Document[f].partition, q) <=> IsFrom(Document[g].partition, q)
  BY DEF Path, GeneratePath, LoadFromEs, IsFrom

LEMMA NamedFromSource ==
    ASSUME NEW f, NamedByDocument(f)
    PROVE  IsFrom(Document[f].partition, query)
  BY SamePath DEF NamedByDocument, Selected

LEMMA OriginStep ==
    TypeOK /\ StageInv /\ OnceInv /\ OriginInv /\ [Next]_vars => OriginInv'
<1> SUFFICES ASSUME TypeOK, StageInv, OnceInv, OriginInv, [Next]_vars
             PROVE  OriginInv'
  OBVIOUS
<1>1. ASSUME NEW f \in Files,
             CreateFile(f) \/ DeleteFile(f) \/ IndexFile(f) \/ UnindexFile(f)
      PROVE  OriginInv'
  BY <1>1 DEF CreateFile, DeleteFile, IndexFile, UnindexFile, search, OriginInv,
     NamedByDocument, Stats!Create, Stats!Delete, Stats!Index, Stats!Unindex
<1>2. ASSUME NEW args \in Requests, Start(args)
      PROVE  OriginInv'
  BY <1>2 DEF Start, OriginInv, NamedByDocument, OnceInv, StageInv, NoFiles
<1>3. ASSUME NEW args \in Requests, Refuse(args)
      PROVE  OriginInv'
  BY <1>3 DEF Refuse, files, OriginInv, NamedByDocument
<1>4. CASE NextPage
  <2>1. \A f \in Behind : Selected(Document[f], query)
    BY DEF Behind
  <2>2. hits' \subseteq hits \cup Behind
    BY <1>4 DEF NextPage
  <2> QED  BY <1>4, <2>1, <2>2 DEF NextPage, files, OriginInv, NamedByDocument
<1>5. CASE LastPage
  <2>1. ASSUME NEW f \in Files, <<Path(f), None>> \in todo'
        PROVE  NamedByDocument(f)
    <3>1. PICK g \in hits : Path(f) = Path(g)
      BY <1>5, <2>1 DEF LastPage, Paths
    <3> QED  BY <3>1 DEF OriginInv, NamedByDocument, TypeOK
  <2> QED  BY <1>5, <2>1 DEF LastPage, files, OriginInv, NamedByDocument
<1>6. CASE ListDirectory
  <2>1. PICK path \in todo :
           /\ todo' = todo \ {path}
           /\ listed' = [f \in Files |->
                  listed[f] + IF f \in Present(path) THEN 1 ELSE 0]
    BY <1>6 DEF ListDirectory
  <2>2. UNCHANGED <<hits, query, created>>
    BY <1>6 DEF ListDirectory, files
  <2>3. ASSUME NEW f \in Files, listed'[f] > 0
        PROVE  NamedByDocument(f)
    <3>1. CASE f \in Present(path)
      BY <3>1, PresentPath DEF OriginInv
    <3>2. CASE f \notin Present(path)
      <4>1. listed[f] \in Nat
        BY DEF StageInv
      <4>2. listed[f] > 0
        BY <2>1, <2>3, <3>2, <4>1
      <4> QED  BY <4>2 DEF OriginInv
    <3> QED  BY <3>1, <3>2
  <2> QED  BY <2>1, <2>2, <2>3 DEF OriginInv, NamedByDocument
<1>7. CASE SkipDirectory
  BY <1>7 DEF SkipDirectory, files, OriginInv, NamedByDocument
<1>8. CASE NothingFound \/ CountRows \/ ReturnRows \/ Fail \/ ElasticsearchError
  BY <1>8 DEF NothingFound, CountRows, ReturnRows, Fail, ElasticsearchError, files,
     OriginInv, NamedByDocument
<1>9. CASE Respond
  BY <1>9 DEF Respond, OriginInv, StageInv, NoFiles
<1>10. CASE UNCHANGED vars
  BY <1>10 DEF vars, files, search, OriginInv, NamedByDocument
<1> QED  BY <1>1, <1>2, <1>3, <1>4, <1>5, <1>6, <1>7, <1>8, <1>9, <1>10
         DEF Next, Search

-----------------------------------------------------------------------------
(* What the sums of an answer are.                                          *)

LEMMA RowsFinite == IsFiniteSet(Rows)
<1> DEFINE F == [f \in Files |-> Content[f]]
           T == {Content[f] : f \in Files}
<1>1. F \in Surjection(Files, T)
  BY DEF Surjection
<1>2. \A C \in T : IsFiniteSet(C)
  BY ContentAssumption
<1>3. IsFiniteSet(Files) /\ Rows = UNION T
  BY FilesFinite DEF Rows
<1> HIDE DEF F, T
<1>4. IsFiniteSet(T)
  BY <1>1, <1>3, FS_Surjection
<1> QED  BY <1>2, <1>3, <1>4, FS_UNION

(* A row is in one file only.                                               *)
LEMMA RowSum ==
    ASSUME NEW f \in Files, NEW r \in Content[f], NEW L \in [Files -> Nat]
    PROVE  SumFunctionOnSet([g \in Files |-> IF r \in Matching(g) THEN L[g] ELSE 0],
                            Files) =
           IF r \in Matching(f) THEN L[f] ELSE 0
<1> DEFINE A == IF r \in Matching(f) THEN {f} ELSE {}
           m == [g \in Files |-> IF r \in Matching(g) THEN L[g] ELSE 0]
           n == [g \in Files |-> IF g \in A THEN L[f] ELSE 0]
<1>1. \A g \in Files : r \in Matching(g) => g = f
  BY ContentAssumption DEF Matching
<1>2. m = n
  BY <1>1
<1>3. SumFunctionOnSet(n, Files) = L[f] * Cardinality(A)
  <2>1. A \in SUBSET Files /\ L[f] \in Int
    OBVIOUS
  <2> HIDE DEF A
  <2> QED  BY <2>1, FilesFinite, SumConstant
<1>4. Cardinality(A) = IF r \in Matching(f) THEN 1 ELSE 0
  BY FS_Singleton, FS_EmptySet
<1>5. L[f] \in Nat
  OBVIOUS
<1> HIDE DEF A, m, n
<1>6. SumFunctionOnSet(m, Files) = IF r \in Matching(f) THEN L[f] ELSE 0
  BY <1>2, <1>3, <1>4, <1>5
<1> QED  BY <1>6 DEF m

Volume == [f \in Files |-> listed[f] * Cardinality(Matching(f))]

LEMMA VolumeType ==
    ASSUME listed \in [Files -> Nat]
    PROVE  \A f \in Files : Volume[f] \in Nat
  BY MatchingFinite DEF Volume

(* How often row r of file f is read to be returned.                        *)
Reads(f, r) == IF query.size # 0 /\ r \in Matching(f) THEN listed[f] ELSE 0

AnswerInv ==
    /\ pc \in {"idle", "refused", "collect", "list"} => total = 0
    /\ pc \in {"page", "answered"} => total = SumFunctionOnSet(Volume, Files)
    /\ pc = "page" => query.size # 0
    /\ pc # "answered" => result = NoRows
    /\ pc = "answered" =>
          \A f \in Files : \A r \in Content[f] :
              /\ result[r] # 0 => result[r] = Reads(f, r)
              /\ total <= query.size => result[r] = Reads(f, r)

(* Files that are not listed add nothing.                                   *)
LEMMA ListedVolume ==
    ASSUME listed \in [Files -> Nat]
    PROVE  /\ SumFunctionOnSet(Volume, Files) = SumFunctionOnSet(Volume, Listed)
           /\ Listed = {} => SumFunctionOnSet(Volume, Files) = 0
<1>1. SumFunctionOnSet(Volume, Files) =
          SumFunctionOnSet(Volume, Listed) + SumFunctionOnSet(Volume, Files \ Listed)
  <2>1. Listed \in SUBSET Files /\ \A f \in Files : Volume[f] \in Int
    BY VolumeType DEF Listed
  <2> QED  BY <2>1, FilesFinite, SumUnion
<1>2. \A f \in Files \ Listed : Volume[f] = 0
  BY MatchingFinite DEF Volume, Listed
<1>3. SumFunctionOnSet(Volume, Files \ Listed) = 0
  <2>1. ~ SumFunctionOnSet(Volume, Files \ Listed) > 0
    <3>1. IsFiniteSet(Files \ Listed)
      BY FilesFinite
    <3>2. \A f \in Files \ Listed : Volume[f] \in Nat /\ ~ Volume[f] > 0
      BY <1>2
    <3> QED  BY <3>1, <3>2, SumPositive
  <2>2. SumFunctionOnSet(Volume, Files \ Listed) \in Nat
    BY <1>2, FilesFinite, SumNat
  <2> QED  BY <2>1, <2>2
<1>4. SumFunctionOnSet(Volume, Listed) \in Nat
  <2>1. Listed \in SUBSET Files
    BY DEF Listed
  <2> QED  BY <2>1, VolumeType, FilesFinite, SumNat
<1>5. Listed = {} => SumFunctionOnSet(Volume, Listed) = 0
  BY SumEmpty
<1> QED  BY <1>1, <1>3, <1>4, <1>5

LEMMA AnswerStep ==
    TypeOK /\ OnceInv /\ AnswerInv /\ [Next]_vars => AnswerInv'
<1> SUFFICES ASSUME TypeOK, OnceInv, AnswerInv, [Next]_vars
             PROVE  AnswerInv'
  OBVIOUS
<1>0. listed \in [Files -> Nat]
  BY DEF TypeOK
<1>1. ASSUME UNCHANGED <<pc, query, listed, total, result>>
      PROVE  AnswerInv'
  BY <1>1 DEF AnswerInv, Reads, Volume, Matching
<1>2. ASSUME NEW f \in Files,
             CreateFile(f) \/ DeleteFile(f) \/ IndexFile(f) \/ UnindexFile(f)
      PROVE  AnswerInv'
  BY <1>1, <1>2 DEF CreateFile, DeleteFile, IndexFile, UnindexFile, search
<1>3. ASSUME NEW args \in Requests, Start(args) \/ Refuse(args)
      PROVE  AnswerInv'
  BY <1>3 DEF Start, Refuse, AnswerInv
<1>4. CASE NextPage \/ SkipDirectory
  BY <1>1, <1>4 DEF NextPage, SkipDirectory
<1>5. CASE LastPage \/ ListDirectory \/ Fail \/ ElasticsearchError
  BY <1>5 DEF LastPage, ListDirectory, Fail, ElasticsearchError, AnswerInv
<1>6. CASE NothingFound
  <2>1. SumFunctionOnSet(Volume, Files) = 0 /\ Volume' = Volume
    BY <1>0, <1>6, ListedVolume DEF NothingFound, Volume, Matching
  <2>2. \A f \in Files : listed[f] = 0
    BY <1>0, <1>6 DEF NothingFound, Listed
  <2>3. /\ pc = "list" /\ pc' = "answered"
        /\ UNCHANGED <<query, listed, total, result>>
    BY <1>6 DEF NothingFound
  <2>4. \A f \in Files : \A r \in Content[f] : result'[r] = 0 /\ Reads(f, r)' = 0
    BY <2>2, <2>3 DEF AnswerInv, Reads, NoRows, Rows
  <2> QED  BY <2>1, <2>3, <2>4 DEF AnswerInv
<1>7. CASE CountRows
  <2>1. /\ pc = "list" /\ pc' = IF query.size = 0 THEN "answered" ELSE "page"
        /\ UNCHANGED <<query, listed, result>>
    BY <1>7 DEF CountRows
  <2> DEFINE m == [f \in Listed |-> listed[f] * Cardinality(Matching(f))]
  <2>2. total' = SumFunctionOnSet(m, Listed)
    BY <1>7 DEF CountRows, SumFunction
  <2>3. SumFunctionOnSet(m, Listed) = SumFunctionOnSet(Volume, Listed)
    <3>1. \A f \in Listed : Volume[f] \in Int /\ m[f] = Volume[f]
      BY <1>0, VolumeType DEF Listed, Volume
    <3>2. IsFiniteSet(Listed)
      BY FilesFinite DEF Listed
    <3> HIDE DEF m
    <3> QED  BY <3>1, <3>2, SumEqual
  <2> HIDE DEF m
  <2>4. total' = SumFunctionOnSet(Volume, Files)
    BY <1>0, <2>2, <2>3, ListedVolume
  <2>5. Volume' = Volume
    BY <2>1 DEF Volume, Matching
  <2>6. query.size = 0 =>
            \A f \in Files : \A r \in Content[f] : result'[r] = 0 /\ Reads(f, r)' = 0
    BY <2>1 DEF AnswerInv, Reads, NoRows, Rows
  <2> QED  BY <2>1, <2>4, <2>5, <2>6 DEF AnswerInv
<1>8. CASE ReturnRows
  <2>1. /\ pc = "page" /\ pc' = "answered"
        /\ UNCHANGED <<query, listed, total>>
    BY <1>8 DEF ReturnRows
  <2>2. Volume' = Volume /\ \A f : Matching(f)' = Matching(f)
    BY <2>1 DEF Volume, Matching
  <2>3. PICK shown \in Shown :
            result' = [r \in Rows |-> IF r \in shown THEN Returned(r) ELSE 0]
    BY <1>8 DEF ReturnRows
  <2>4. query.size # 0
    BY <2>1 DEF AnswerInv
  <2>5. ASSUME NEW f \in Files, NEW r \in Content[f]
        PROVE  /\ r \in Rows /\ Returned(r) = Reads(f, r)
               /\ Reads(f, r)' = Reads(f, r)
    <3>1. Returned(r) = SumFunctionOnSet(
              [g \in Files |-> IF r \in Matching(g) THEN listed[g] ELSE 0], Files)
      BY DEF Returned, SumFunction
    <3>2. Returned(r) = Reads(f, r)
      BY <1>0, <2>4, <3>1, RowSum DEF Reads
    <3> QED  BY <2>1, <2>2, <3>2 DEF Reads, Rows
  <2>6. total <= query.size => shown = Rows
    BY <2>3 DEF Shown
  <2>7. \A f \in Files : \A r \in Content[f] :
            /\ result'[r] # 0 => result'[r] = Reads(f, r)'
            /\ total <= query.size => result'[r] = Reads(f, r)'
    BY <2>3, <2>5, <2>6
  <2> QED  BY <2>1, <2>2, <2>4, <2>7 DEF AnswerInv
<1>9. CASE Respond
  BY <1>9 DEF Respond, AnswerInv
<1>10. CASE UNCHANGED vars
  BY <1>1, <1>10 DEF vars, search
<1> QED  BY <1>2, <1>3, <1>4, <1>5, <1>6, <1>7, <1>8, <1>9, <1>10 DEF Next, Search

-----------------------------------------------------------------------------
(* The rows of an answer.                                                   *)

AnswersInv == TypeOK /\ IInv /\ OnceInv /\ OriginInv /\ AnswerInv

LEMMA AnswersInductive == Spec => []AnswersInv
<1>1. Init => OnceInv /\ OriginInv /\ AnswerInv
  <2> SUFFICES ASSUME Init PROVE OnceInv /\ OriginInv /\ AnswerInv
    OBVIOUS
  <2> QED  BY DEF Init, NoFiles, OnceInv, OriginInv, AnswerInv
<1>2. TypeOK /\ IInv /\ OnceInv /\ OriginInv /\ AnswerInv /\ [Next]_vars =>
          OnceInv' /\ OriginInv' /\ AnswerInv'
  BY OnceStep, OriginStep, AnswerStep DEF IInv
<1> QED  BY <1>1, <1>2, TypeCorrect, Inductive, PTL DEF AnswersInv, Spec

(* Why a search fails that has listed files.                                *)
FailureInv ==
    pc = "failed" /\ Listed # {} /\ ~ removed => Listed \cap Unreadable # {}

LEMMA FailureStep ==
    RemovalInv /\ OnceInv /\ FailureInv /\ [Next]_vars => FailureInv'
<1> SUFFICES ASSUME RemovalInv, OnceInv, FailureInv, [Next]_vars
             PROVE  FailureInv'
  OBVIOUS
<1> USE DEF FailureInv, Listed
<1>1. ASSUME NEW f \in Files,
             CreateFile(f) \/ DeleteFile(f) \/ IndexFile(f) \/ UnindexFile(f)
      PROVE  FailureInv'
  BY <1>1 DEF CreateFile, DeleteFile, IndexFile, UnindexFile, search
<1>2. ASSUME NEW args \in Requests, Start(args) \/ Refuse(args)
      PROVE  FailureInv'
  BY <1>2 DEF Start, Refuse
<1>3. CASE NextPage \/ LastPage \/ ListDirectory \/ SkipDirectory
  BY <1>3 DEF NextPage, LastPage, ListDirectory, SkipDirectory
<1>4. CASE NothingFound \/ CountRows \/ ReturnRows \/ Respond
  BY <1>4 DEF NothingFound, CountRows, ReturnRows, Respond
<1>5. CASE Fail \/ ElasticsearchError
  <2>1. pc = "collect" => \A f \in Files : ~ listed[f] > 0
    BY DEF OnceInv, NoFiles
  <2>2. listed' = listed /\ removed' = removed
    BY <1>5 DEF Fail, ElasticsearchError
  <2>3. CASE pc = "collect"
    BY <2>1, <2>2, <2>3
  <2>4. CASE pc # "collect"
    BY <1>5, <2>2, <2>4 DEF Fail, ElasticsearchError, RemovalInv
  <2> QED  BY <2>3, <2>4
<1>6. CASE UNCHANGED vars
  BY <1>6 DEF vars, search
<1> QED  BY <1>1, <1>2, <1>3, <1>4, <1>5, <1>6 DEF Next, Search

LEMMA InAFile == \A r \in Rows : \E f \in Files : r \in Content[f]
  BY DEF Rows

(* No row is returned twice, although several documents name one directory, *)
(* all files of a directory are read and the files are read twice.          *)
THEOREM NothingTwiceCorrect == Spec => []NothingTwice
<1>1. AnswersInv => NothingTwice
  <2> SUFFICES ASSUME AnswersInv, NEW r \in Rows
               PROVE  result[r] <= 1
    BY DEF NothingTwice
  <2>1. PICK f \in Files : r \in Content[f]
    BY InAFile
  <2>2. listed[f] <= 1 /\ (result[r] = listed[f] \/ result[r] = 0)
    BY <2>1 DEF AnswersInv, OnceInv, AnswerInv, Reads, NoRows
  <2> QED  BY <2>2
<1> QED  BY <1>1, AnswersInductive, PTL

LEMMA RequestFacts ==
    ASSUME AnswersInv, pc \notin {"idle", "refused"}
    PROVE  /\ request \in Requests /\ IsRequest(request)
           /\ {"startTime", "endTime", "minDepth", "maxDepth", "bbox"}
                  \subseteq DOMAIN request
           /\ {request.startTime, request.endTime,
               request.minDepth, request.maxDepth} \subseteq Int
           /\ request.bbox \in Int \X Int \X Int \X Int
           /\ query.min_datetime = request.startTime
           /\ query.max_datetime = request.endTime
           /\ query.min_depth = request.minDepth
           /\ query.max_depth = request.maxDepth
           /\ query.min_lat_lon = <<request.bbox[2], request.bbox[1]>>
           /\ query.max_lat_lon = <<request.bbox[4], request.bbox[3]>>
           /\ query.variable =
                  IF "variable" \in DOMAIN request THEN request.variable ELSE {}
           /\ query.size \in Nat
<1>1. /\ request \in Requests /\ IsValid(Payload(request))
      /\ query = QueryProps(Payload(request))
  BY DEF AnswersInv, IInv, QueryInv
<1>2. IsRequest(request)
  BY <1>1, RequestsAssumption
<1> QED  BY <1>1, <1>2, PayloadFacts DEF IsRequest

(* What Spark filters by is what the client asked for, when the depths lie  *)
(* as they should.                                                          *)
LEMMA WantedMatches ==
    ASSUME AnswersInv, pc \notin {"idle", "refused"},
           NEW f \in Files, NEW r \in Content[f], Wanted(f, r)
    PROVE  r \in Matching(f)
<1>1. /\ {r.lat, r.lon, r.time, r.depth} \subseteq Int /\ r.depth >= Missing
      /\ Missing \in Int /\ Missing < 0
  BY ContentAssumption DEF Rows
<1>2. DepthMatches(r.depth, query)
  BY <1>1, RequestFacts DEF DepthMatches, Wanted, DepthOf
<1>3. /\ r.lat >= query.min_lat_lon[1] /\ r.lon >= query.min_lat_lon[2]
      /\ r.lat <= query.max_lat_lon[1] /\ r.lon <= query.max_lat_lon[2]
      /\ r.time >= query.min_datetime /\ r.time <= query.max_datetime
  BY <1>1, RequestFacts DEF Wanted
<1>4. query.variable # {} => query.variable \cap r.observations # {}
  BY RequestFacts DEF Wanted
<1> QED  BY <1>2, <1>3, <1>4 DEF Matching, RowMatches

(* A range of depths with the missing depth in it has the surface in it.    *)
NoDepthOfMissing ==
    \A args \in Requests :
        {"minDepth", "maxDepth"} \subseteq DOMAIN args
        /\ args.minDepth <= Missing /\ Missing <= args.maxDepth
            => 0 <= args.maxDepth

LEMMA SourceWanted ==
    ASSUME AnswersInv, pc \notin {"idle", "refused"}, NEW f \in Files,
           IsFrom(Document[f].partition, query)
    PROVE  WantedSource(f)
<1>1. /\ IsValid(Payload(request)) /\ query = QueryProps(Payload(request))
  BY DEF AnswersInv, IInv, QueryInv
<1>2. \A name \in DOMAIN request \cap {"provider", "project", "platform"} :
         request[name] # None
  BY RequestFacts DEF IsRequest
<1> QED
  BY <1>1, <1>2, RequestFacts, PayloadFacts, PartitionOfSource DEF IsFrom, WantedSource

LEMMA MatchesWanted ==
    ASSUME AnswersInv, pc \notin {"idle", "refused"}, NoDepthOfMissing,
           NEW f \in Files, NEW r \in Matching(f),
           IsFrom(Document[f].partition, query)
    PROVE  Wanted(f, r)
<1>1. /\ {r.lat, r.lon, r.time, r.depth} \subseteq Int /\ r.depth >= Missing
      /\ Missing \in Int /\ Missing < 0
  BY ContentAssumption DEF Rows, Matching
<1>2. RowMatches(r, query)
  BY DEF Matching
<1>3. DepthOf(r) \in request.minDepth .. request.maxDepth
  BY <1>1, <1>2, RequestFacts DEF RowMatches, DepthMatches, DepthOf, NoDepthOfMissing
<1>4. /\ r.lon \in request.bbox[1] .. request.bbox[3]
      /\ r.lat \in request.bbox[2] .. request.bbox[4]
      /\ r.time \in request.startTime .. request.endTime
  BY <1>1, <1>2, RequestFacts DEF RowMatches
<1>5. "variable" \in DOMAIN request => request.variable \cap r.observations # {}
  BY <1>2, RequestFacts DEF RowMatches, IsRequest
<1>6. WantedSource(f)
  BY SourceWanted DEF Matching
<1> QED  BY <1>3, <1>4, <1>5, <1>6 DEF Wanted

(* Nothing is returned that the client did not ask for: the rows are never  *)
(* compared with the provider, project and platforms, but a file is only    *)
(* read when its directory is that of a document that was.  The hypothesis  *)
(* leaves out requests for depths from -99999 or less up to one below 0:    *)
(* they are answered with rows that have no depth, too.                     *)
THEOREM NothingForeignCorrect ==
    ASSUME NoDepthOfMissing
    PROVE  Spec => []NothingForeign
<1>1. AnswersInv => NothingForeign
  <2> SUFFICES ASSUME AnswersInv, NEW f \in Files, NEW r \in Content[f], result[r] > 0
               PROVE  Wanted(f, r)
    BY DEF NothingForeign
  <2>1. pc = "answered" /\ r \in Matching(f) /\ listed[f] > 0
    BY DEF AnswersInv, AnswerInv, Reads, NoRows, Rows
  <2>2. IsFrom(Document[f].partition, query)
    BY <2>1, NamedFromSource DEF AnswersInv, OriginInv
  <2> QED  BY <2>1, <2>2, MatchesWanted
<1> QED  BY <1>1, AnswersInductive, PTL

(* A search that fails once its documents are collected, though no file has *)
(* been removed, has found a file it cannot read, in the directory of a     *)
(* document in its ranges and from the source it asks for: whatever files   *)
(* cannot be read, other searches do not meet them.                         *)
THEOREM FailuresContainedCorrect == Spec => []FailuresContained
<1>1. AnswersInv /\ FailureInv => FailuresContained
  <2> SUFFICES ASSUME AnswersInv, FailureInv, pc = "failed", Listed # {}, ~ removed
               PROVE  \E f \in Listed \cap Unreadable :
                         /\ WantedSource(f)
                         /\ \E g \in created : /\ Path(g) = Path(f)
                                               /\ Selected(Document[g], query)
    BY DEF FailuresContained
  <2>1. PICK f \in Listed \cap Unreadable : f \in Files
    BY DEF FailureInv, Listed
  <2>2. NamedByDocument(f)
    BY <2>1 DEF AnswersInv, OriginInv, Listed
  <2>3. WantedSource(f)
    BY <2>1, <2>2, NamedFromSource, SourceWanted
  <2> QED  BY <2>1, <2>2, <2>3 DEF NamedByDocument
<1>2. Init => FailureInv
  BY DEF Init, FailureInv
<1>3. AnswersInv /\ FailureInv /\ [Next]_vars => FailureInv'
  BY FailureStep DEF AnswersInv, IInv
<1> QED  BY <1>1, <1>2, <1>3, AnswersInductive, PTL DEF Spec

(* The rows returned, added up by rows and added up by files.               *)
LEMMA ResultTotal ==
    ASSUME AnswersInv, pc = "answered", query.size > 0
    PROVE  /\ SumFunction(result) <= total
           /\ total <= query.size => SumFunction(result) = total
<1> DEFINE m == [f \in Files |-> [r \in Rows |->
                     IF r \in Matching(f) THEN listed[f] ELSE 0]]
           perRow  == [r \in Rows |-> SumFunctionOnSet([f \in Files |-> m[f][r]], Files)]
           perFile == [f \in Files |-> SumFunctionOnSet(m[f], Rows)]
<1>1. listed \in [Files -> Nat] /\ result \in [Rows -> Nat]
  BY DEF AnswersInv, TypeOK
<1>2. IsFiniteSet(Files) /\ IsFiniteSet(Rows)
  BY FilesFinite, RowsFinite
<1>3. SumFunction(result) = SumFunctionOnSet(result, Rows)
  BY <1>1 DEF SumFunction
<1>4. ASSUME NEW r \in Rows
      PROVE  /\ perRow[r] \in Nat
             /\ result[r] = perRow[r] \/ result[r] = 0
             /\ total <= query.size => result[r] = perRow[r]
  <2>1. PICK f \in Files : r \in Content[f]
    BY InAFile
  <2>2. /\ result[r] = Reads(f, r) \/ result[r] = 0
        /\ total <= query.size => result[r] = Reads(f, r)
    BY <2>1 DEF AnswersInv, AnswerInv
  <2>3. perRow[r] = SumFunctionOnSet(
            [g \in Files |-> IF r \in Matching(g) THEN listed[g] ELSE 0], Files)
    <3>1. [g \in Files |-> m[g][r]] =
              [g \in Files |-> IF r \in Matching(g) THEN listed[g] ELSE 0]
      OBVIOUS
    <3> QED  BY <3>1
  <2>4. perRow[r] = IF r \in Matching(f) THEN listed[f] ELSE 0
    BY <1>1, <2>1, <2>3, RowSum
  <2>5. perRow[r] = Reads(f, r) /\ perRow[r] \in Nat
    BY <1>1, <2>4 DEF Reads
  <2> QED  BY <2>2, <2>5
<1>5. total <= query.size => result = perRow
  BY <1>1, <1>4
<1>6. ASSUME NEW f \in Files
      PROVE  perFile[f] = Volume[f]
  <2>1. Matching(f) \in SUBSET Rows /\ listed[f] \in Int
    BY <1>1 DEF Matching, Rows
  <2>2. SumFunctionOnSet([r \in Rows |-> IF r \in Matching(f) THEN listed[f] ELSE 0],
                         Rows) = listed[f] * Cardinality(Matching(f))
    BY <1>2, <2>1, SumConstant
  <2> QED  BY <2>2 DEF Volume
<1>7. perFile = Volume
  BY <1>6 DEF Volume
<1>8. SumFunctionOnSet(perRow, Rows) = SumFunctionOnSet(perFile, Files)
  <2>1. \A f \in Files : \A r \in Rows : m[f][r] \in Int
    BY <1>1
  <2> HIDE DEF m
  <2> QED  BY <1>2, <2>1, SumExchange
<1>9. total = SumFunctionOnSet(Volume, Files)
  BY DEF AnswersInv, AnswerInv
<1>10. SumFunctionOnSet(result, Rows) <= SumFunctionOnSet(perRow, Rows)
  <2>1. \A r \in Rows : /\ result[r] \in Int /\ perRow[r] \in Int
                        /\ result[r] <= perRow[r]
    BY <1>1, <1>4
  <2> HIDE DEF perRow
  <2> QED  BY <1>2, <2>1, SumMonotone
<1> HIDE DEF perRow, perFile
<1> QED  BY <1>3, <1>5, <1>7, <1>8, <1>9, <1>10

(* A search counts every row the client wants of the files that were there  *)
(* all the time, and returns them if the client asked for as many rows as   *)
(* were counted: for any number of documents per page and however the index *)
(* changes between the pages.                                               *)
THEOREM CompleteCorrect == Spec => []Complete
<1>1. AnswersInv => Complete
  <2> SUFFICES ASSUME AnswersInv, pc = "answered"
               PROVE  Complete
    BY DEF Complete
  <2>1. steady \subseteq Files /\ listed \in [Files -> Nat]
    BY DEF AnswersInv, IInv, StageInv
  <2>2. ASSUME NEW f \in steady, NEW r \in Content[f], Wanted(f, r)
        PROVE  listed[f] > 0 /\ r \in Matching(f)
    <3>1. Selected(Document[f], query)
      BY <2>1, <2>2, WantedSelected DEF AnswersInv, IInv, QueryInv
    <3>2. listed[f] > 0
      BY <3>1 DEF AnswersInv, IInv, NoneLost, OnItsWay
    <3> QED  BY <2>1, <2>2, <3>2, WantedMatches
  <2>3. ASSUME query.size > 0, total <= query.size,
               NEW f \in steady, NEW r \in Content[f], Wanted(f, r)
        PROVE  result[r] > 0
    <3>1. query.size # 0 /\ f \in Files
      BY <2>1, <2>3
    <3> QED  BY <2>2, <2>3, <3>1 DEF AnswersInv, AnswerInv, Reads
  <2> DEFINE wanted(f) == {r \in Content[f] : Wanted(f, r)}
             count == [f \in steady |-> Cardinality(wanted(f))]
  <2>4. ASSUME NEW f \in steady
        PROVE  count[f] \in Nat /\ Volume[f] \in Nat /\ count[f] <= Volume[f]
    <3>1. f \in Files /\ IsFiniteSet(Matching(f)) /\ Cardinality(Matching(f)) \in Nat
      BY <2>1, MatchingFinite
    <3>2. wanted(f) \subseteq Matching(f)
      BY <2>2
    <3>3. Cardinality(wanted(f)) \in Nat
      BY <3>1, SubsetOfContentFinite
    <3> HIDE DEF wanted
    <3>4. Cardinality(wanted(f)) <= Cardinality(Matching(f))
      BY <3>1, <3>2, FS_Subset
    <3>5. wanted(f) # {} => listed[f] > 0
      BY <2>2 DEF wanted
    <3>6. wanted(f) = {} => Cardinality(wanted(f)) = 0
      BY FS_EmptySet
    <3> DEFINE n == Cardinality(Matching(f))
               k == Cardinality(wanted(f))
    <3>7. k <= listed[f] * n /\ listed[f] * n \in Nat
      <4>1. n \in Nat /\ k \in Nat /\ k <= n /\ listed[f] \in Nat
        BY <2>1, <3>1, <3>3, <3>4
      <4>2. k = 0 \/ listed[f] >= 1
        BY <3>5, <3>6, <4>1
      <4> HIDE DEF n, k
      <4>3. CASE k = 0
        BY <4>1, <4>3
      <4>4. CASE listed[f] >= 1
        <5>1. PICK i \in Nat : listed[f] = 1 + i
          BY <4>1, <4>4
        <5>2. listed[f] * n = n + i * n /\ i * n \in Nat
          BY <4>1, <5>1
        <5> QED  BY <4>1, <5>2
      <4> QED  BY <4>2, <4>3, <4>4
    <3> QED  BY <3>1, <3>3, <3>7 DEF Volume
  <2>5. total >= SumFunctionOnSet(count, steady)
    <3> HIDE DEF count
    <3>1. total = SumFunctionOnSet(Volume, Files)
      BY DEF AnswersInv, AnswerInv
    <3>2. /\ SumFunctionOnSet(Volume, steady) <= SumFunctionOnSet(Volume, Files)
          /\ SumFunctionOnSet(Volume, Files) \in Nat
      BY <2>1, VolumeType, FilesFinite, SumNat
    <3>3. IsFiniteSet(steady)
      BY <2>1, FilesFinite
    <3>4. \A f \in steady : /\ count[f] \in Int /\ Volume[f] \in Int
                            /\ count[f] <= Volume[f]
      BY <2>4
    <3>5. SumFunctionOnSet(count, steady) <= SumFunctionOnSet(Volume, steady)
      BY <3>3, <3>4, SumMonotone
    <3>6. /\ SumFunctionOnSet(count, steady) \in Int
          /\ SumFunctionOnSet(Volume, steady) \in Int
      BY <3>3, <3>4, SumInt
    <3> QED  BY <3>1, <3>2, <3>5, <3>6
  <2>6. total >= SumFunction(count)
    BY <2>5 DEF SumFunction
  <2>7. query.size > 0 => /\ SumFunction(result) <= total
                          /\ total <= query.size => total = SumFunction(result)
    BY ResultTotal
  <2> QED  BY <2>3, <2>6, <2>7 DEF Complete
<1> QED  BY <1>1, AnswersInductive, PTL

-----------------------------------------------------------------------------
(* The buckets of an aggregation.                                           *)

LEMMA ImageFinite ==
    ASSUME NEW F, IsFiniteSet(DOMAIN F)
    PROVE  LET T == {F[x] : x \in DOMAIN F} IN
           IsFiniteSet(T) /\ Cardinality(T) <= Cardinality(DOMAIN F)
<1> DEFINE T == {F[x] : x \in DOMAIN F}
           S == DOMAIN F
           G == [x \in S |-> F[x]]
<1>1. G \in Surjection(S, T)
  BY DEF Surjection
<1> HIDE DEF G, T
<1>2. IsFiniteSet(T) /\ Cardinality(T) <= Cardinality(S)
  BY <1>1, FS_Surjection
<1> QED  BY <1>2 DEF T

(* There are buckets of the heaviest values, for any number of them: those  *)
(* of all values but the lightest.                                          *)
LEMMA HeaviestExist ==
    ASSUME NEW V, IsFiniteSet(V), NEW w, \A v \in V : w[v] \in Int,
           NEW n \in Nat, n <= Cardinality(V)
    PROVE  \E B \in SUBSET V : Cardinality(B) = n /\ \A v \in B, u \in V \ B : w[v] >= w[u]
<1> DEFINE Heaviest(U, B) == Cardinality(B) = n /\ \A v \in B, u \in U \ B : w[v] >= w[u]
           P == {U \in SUBSET V : n <= Cardinality(U) =>
                     \E B \in SUBSET U : Heaviest(U, B)}
<1>1. ASSUME NEW U \in SUBSET V, \A W \in SUBSET U : W # U => W \in P
      PROVE  U \in P
  <2> SUFFICES ASSUME n <= Cardinality(U)
               PROVE  \E B \in SUBSET U : Heaviest(U, B)
    OBVIOUS
  <2>1. IsFiniteSet(U) /\ Cardinality(U) \in Nat
    BY FS_Subset, FS_CardinalityType
  <2>2. CASE n = Cardinality(U)
    <3>1. Heaviest(U, U)
      BY <2>2
    <3> QED  BY <3>1
  <2>3. CASE n < Cardinality(U)
    <3>1. U # {}
      BY <2>3, FS_EmptySet
    <3> DEFINE R == {p \in U \X U : w[p[1]] < w[p[2]]}
    <3>2. PICK x \in U : \A y \in U : <<y, x>> \notin R
      <4>1. /\ \A x, y, z \in U : <<x, y>> \in R /\ <<y, z>> \in R => <<x, z>> \in R
            /\ \A x \in U : <<x, x>> \notin R
        OBVIOUS
      <4> HIDE DEF R
      <4> QED  BY <2>1, <3>1, <4>1, Extremum
    <3>3. \A y \in U : w[y] >= w[x]
      <4>1. \A y \in U : <<y, x>> \notin R => w[y] >= w[x]
        OBVIOUS
      <4> HIDE DEF R
      <4> QED  BY <3>2, <4>1
    <3> HIDE DEF R
    <3>4. n <= Cardinality(U \ {x})
      <4>1. Cardinality(U \ {x}) = Cardinality(U) - 1
        BY <2>1, FS_RemoveElement
      <4> QED  BY <2>1, <2>3, <4>1
    <3>5. PICK B \in SUBSET (U \ {x}) : Heaviest(U \ {x}, B)
      BY <1>1, <3>4
    <3>6. Heaviest(U, B)
      BY <3>3, <3>5
    <3> QED  BY <3>6
  <2> QED  BY <2>1, <2>2, <2>3
<1>2. V \in P
  <2> HIDE DEF P
  <2> QED  BY <1>1, SubsetInduction
<1> QED  BY <1>2

SourceFields == {"provider", "project", "platform"}

LEMMA DirectoryOfSource ==
    \A f \in Files : \A field \in SourceFields : Directory[f][field] = Source[f][field]
  BY DEF Directory, Partition, SourceFields

SourcesOf(D) == {Source[f] : f \in D}

LEMMA BucketsFact ==
    ASSUME NEW D \in SUBSET Files, NEW E \in SUBSET D, NEW field \in SourceFields
    PROVE  LET values == {Source[f][field] : f \in E} IN
           /\ Buckets(E, field) \subseteq values
           /\ Cardinality(SourcesOf(D)) <= BucketLimit => Buckets(E, field) = values
<1> DEFINE values == {Source[f][field] : f \in E}
           values2 == {Directory[f][field] : f \in E}
           w == [v \in values |-> Cardinality({f \in E : Directory[f][field] = v})]
           n == IF Cardinality(values) < BucketLimit THEN Cardinality(values)
                ELSE BucketLimit
           B == Buckets(E, field)
<1>1. values2 = values
  BY DirectoryOfSource
<1>2. IsFiniteSet(values) /\ Cardinality(values) \in Nat
  <2> DEFINE F == [f \in E |-> Source[f][field]]
  <2>1. IsFiniteSet(DOMAIN F) /\ values = {F[f] : f \in DOMAIN F}
    BY FilesFinite
  <2> HIDE DEF F, values
  <2> QED  BY <2>1, ImageFinite, FS_CardinalityType
<1>3. \A v \in values : w[v] \in Int
  <2>1. ASSUME NEW v \in values
        PROVE  w[v] \in Nat
    <3> DEFINE C == {f \in E : Directory[f][field] = v}
    <3>1. C \in SUBSET Files /\ w[v] = Cardinality(C)
      OBVIOUS
    <3> HIDE DEF C
    <3>2. Cardinality(C) \in Nat
      BY <3>1, FilesFinite, FS_CardinalityType
    <3> HIDE DEF w
    <3> QED  BY <3>1, <3>2
  <2> HIDE DEF w
  <2> QED  BY <2>1
<1>4. n \in Nat /\ n <= Cardinality(values)
  BY <1>2, BucketLimitAssumption
<1> DEFINE Heaviest(C) ==
               /\ Cardinality(C) = IF Cardinality(values2) < BucketLimit
                                   THEN Cardinality(values2) ELSE BucketLimit
               /\ \A v \in C, u \in values2 \ C :
                      Cardinality({f \in E : Directory[f][field] = v}) >=
                      Cardinality({f \in E : Directory[f][field] = u})
<1>5. B = CHOOSE C \in SUBSET values2 : Heaviest(C)
  BY DEF Buckets
<1>6. B \in SUBSET values /\ Cardinality(B) = n
  <2>1. PICK C \in SUBSET values :
             /\ Cardinality(C) = n
             /\ \A v \in C, u \in values \ C : w[v] >= w[u]
    <3> HIDE DEF values, w, n
    <3> QED  BY <1>2, <1>3, <1>4, HeaviestExist
  <2>2. C \in SUBSET values2 /\ Heaviest(C)
    BY <1>1, <2>1
  <2>3. B \in SUBSET values2 /\ Heaviest(B)
    <3> HIDE DEF values2, Heaviest, B
    <3> QED  BY <1>5, <2>2
  <2> QED  BY <1>1, <2>3
<1> HIDE DEF Heaviest, values2
<1>7. ASSUME Cardinality(SourcesOf(D)) <= BucketLimit
      PROVE  B = values
  <2> DEFINE T == SourcesOf(D)
             F == [s \in T |-> s[field]]
             G == [f \in D |-> Source[f]]
             all == {F[s] : s \in DOMAIN F}
  <2>1. IsFiniteSet(T) /\ Cardinality(T) \in Nat
    <3>1. IsFiniteSet(DOMAIN G) /\ T = {G[f] : f \in DOMAIN G}
      BY FilesFinite DEF SourcesOf
    <3> HIDE DEF G, T
    <3> QED  BY <3>1, ImageFinite, FS_CardinalityType
  <2>2. DOMAIN F = T /\ values \subseteq all
    BY DEF SourcesOf
  <2> HIDE DEF T, F, all, values
  <2>3. IsFiniteSet(all) /\ Cardinality(all) <= Cardinality(T)
    BY <2>1, <2>2, ImageFinite DEF all
  <2>4. Cardinality(values) <= Cardinality(all) /\ Cardinality(all) \in Nat
    BY <2>2, <2>3, FS_Subset, FS_CardinalityType
  <2>5. Cardinality(T) <= BucketLimit
    BY <1>7 DEF T
  <2>6. n = Cardinality(values)
    BY <1>2, <2>1, <2>3, <2>4, <2>5, BucketLimitAssumption
  <2> HIDE DEF n, B
  <2> QED  BY <1>2, <1>6, <2>6, FS_Subset
<1> QED  BY <1>6, <1>7

(* What one platform of one project of one provider has in D.               *)
Group(D, s) == {f \in D : Source[f] = s}

LEMMA GroupsFact ==
    ASSUME NEW D \in SUBSET Files
    PROVE  /\ \A G \in Groups(D) : \E s \in SourcesOf(D) : G = Group(D, s)
           /\ Cardinality(SourcesOf(D)) <= BucketLimit =>
                  \A s \in SourcesOf(D) : Group(D, s) \in Groups(D)
<1> DEFINE V(v)       == Bucket(D, "provider", v)
           P(v, j)    == Bucket(V(v), "project", j)
           G(v, j, c) == Bucket(P(v, j), "platform", c)
<1>1. /\ \A v : V(v) = {f \in D : Source[f].provider = v}
      /\ \A v, j : P(v, j) = {f \in V(v) : Source[f].project = j}
      /\ \A v, j, c : G(v, j, c) = {f \in P(v, j) : Source[f].platform = c}
  BY DirectoryOfSource DEF Bucket, SourceFields
<1>2. ASSUME NEW X
      PROVE  X \in Groups(D) <=>
             \E v \in Buckets(D, "provider") : \E j \in Buckets(V(v), "project") :
             \E c \in Buckets(P(v, j), "platform") : X = G(v, j, c)
  BY DEF Groups
<1> HIDE DEF V, P, G
<1>3. \A v, j : V(v) \in SUBSET D /\ P(v, j) \in SUBSET D
  BY <1>1
<1>4. \A v, j, c : G(v, j, c) = {f \in D : /\ Source[f].provider = v
                                          /\ Source[f].project = j
                                          /\ Source[f].platform = c}
  BY <1>1
<1>5. \A f, g \in D : Source[f] = Source[g] <=> /\ Source[f].provider = Source[g].provider
                                              /\ Source[f].project = Source[g].project
                                              /\ Source[f].platform = Source[g].platform
  BY ContentAssumption
<1>6. \A g \in D : Group(D, Source[g]) =
                      G(Source[g].provider, Source[g].project, Source[g].platform)
  BY <1>4, <1>5 DEF Group
<1>7. ASSUME NEW X \in Groups(D)
      PROVE  \E s \in SourcesOf(D) : X = Group(D, s)
  <2>1. PICK v \in Buckets(D, "provider") : \E j \in Buckets(V(v), "project") :
             \E c \in Buckets(P(v, j), "platform") : X = G(v, j, c)
    BY <1>2
  <2>2. PICK j \in Buckets(V(v), "project") :
             \E c \in Buckets(P(v, j), "platform") : X = G(v, j, c)
    BY <2>1
  <2>3. PICK c \in Buckets(P(v, j), "platform") : X = G(v, j, c)
    BY <2>2
  <2>4. Buckets(P(v, j), "platform") \subseteq {Source[f].platform : f \in P(v, j)}
    BY <1>3, BucketsFact DEF SourceFields
  <2>5. PICK g \in P(v, j) : Source[g].platform = c
    BY <2>4
  <2>6. g \in D /\ Source[g].provider = v /\ Source[g].project = j
    BY <1>1
  <2> QED  BY <1>6, <2>3, <2>5, <2>6 DEF SourcesOf
<1>8. ASSUME Cardinality(SourcesOf(D)) <= BucketLimit, NEW g \in D
      PROVE  Group(D, Source[g]) \in Groups(D)
  <2> DEFINE v == Source[g].provider
             j == Source[g].project
             c == Source[g].platform
  <2>1. g \in V(v) /\ g \in P(v, j)
    BY <1>1
  <2>2. v \in Buckets(D, "provider")
    BY <1>8, BucketsFact DEF SourceFields
  <2>3. j \in Buckets(V(v), "project")
    <3>1. Buckets(V(v), "project") = {Source[f].project : f \in V(v)}
      BY <1>3, <1>8, BucketsFact DEF SourceFields
    <3> QED  BY <2>1, <3>1
  <2>4. c \in Buckets(P(v, j), "platform")
    <3>1. Buckets(P(v, j), "platform") = {Source[f].platform : f \in P(v, j)}
      BY <1>3, <1>8, BucketsFact DEF SourceFields
    <3> QED  BY <2>1, <3>1
  <2> QED  BY <1>2, <1>6, <2>2, <2>3, <2>4
<1> QED  BY <1>7, <1>8 DEF SourcesOf

-----------------------------------------------------------------------------
(* What is added up over the documents of a group are the statistics of all *)
(* of its rows taken together.                                              *)

LEMMA LeastUnique ==
    ASSUME NEW X \in SUBSET Int, NEW x \in X, \A y \in X : x <= y
    PROVE  Least(X) = x
<1>1. Least(X) \in X /\ \A y \in X : Least(X) <= y
  BY DEF Least
<1>2. Least(X) <= x /\ x <= Least(X) /\ Least(X) \in Int /\ x \in Int
  BY <1>1
<1> QED  BY <1>2

LEMMA GreatestUnique ==
    ASSUME NEW X \in SUBSET Int, NEW x \in X, \A y \in X : y <= x
    PROVE  Greatest(X) = x
<1>1. Greatest(X) \in X /\ \A y \in X : y <= Greatest(X)
  BY DEF Greatest
<1>2. Greatest(X) <= x /\ x <= Greatest(X) /\ Greatest(X) \in Int /\ x \in Int
  BY <1>1
<1> QED  BY <1>2

(* The least of the least ones is the least of all.                         *)
LEMMA LeastOfUnion ==
    ASSUME NEW G, IsFiniteSet(G), G # {}, NEW V,
           \A f \in G : V[f] \in SUBSET Int /\ IsFiniteSet(V[f]) /\ V[f] # {}
    PROVE  /\ {Least(V[f]) : f \in G} \in SUBSET Int
           /\ Least({Least(V[f]) : f \in G}) = Least(UNION {V[f] : f \in G})
<1> DEFINE M   == [f \in G |-> Least(V[f])]
           L   == {M[f] : f \in DOMAIN M}
           all == UNION {V[f] : f \in G}
<1>1. \A f \in G : M[f] \in V[f] /\ \A y \in V[f] : M[f] <= y
  BY LeastFact
<1>2. DOMAIN M = G /\ L = {Least(V[f]) : f \in G}
  OBVIOUS
<1> HIDE DEF M
<1>3. L \in SUBSET Int /\ L # {}
  BY <1>1, <1>2
<1>4. IsFiniteSet(L)
  BY <1>2, ImageFinite
<1>5. Least(L) \in L /\ \A y \in L : Least(L) <= y
  <2> HIDE DEF L
  <2> QED  BY <1>3, <1>4, LeastFact
<1>6. all \in SUBSET Int
  OBVIOUS
<1>7. Least(L) \in all /\ \A y \in all : Least(L) <= y
  <2> DEFINE l == Least(L)
  <2>1. l \in L /\ l \in Int /\ \A y \in L : l <= y
    BY <1>3, <1>5
  <2> HIDE DEF l
  <2>2. l \in all
    BY <1>1, <1>2, <2>1
  <2>3. ASSUME NEW f \in G, NEW y \in V[f]
        PROVE  l <= y
    <3>1. l <= M[f] /\ M[f] <= y /\ M[f] \in Int /\ y \in Int
      BY <1>1, <1>2, <2>1
    <3> QED  BY <2>1, <3>1
  <2>4. \A y \in all : l <= y
    BY <2>3
  <2> QED  BY <2>2, <2>4 DEF l
<1>8. Least(all) = Least(L)
  <2> HIDE DEF L, all
  <2> QED  BY <1>6, <1>7, LeastUnique
<1> QED  BY <1>2, <1>3, <1>8

LEMMA GreatestOfUnion ==
    ASSUME NEW G, IsFiniteSet(G), G # {}, NEW V,
           \A f \in G : V[f] \in SUBSET Int /\ IsFiniteSet(V[f]) /\ V[f] # {}
    PROVE  /\ {Greatest(V[f]) : f \in G} \in SUBSET Int
           /\ Greatest({Greatest(V[f]) : f \in G}) = Greatest(UNION {V[f] : f \in G})
<1> DEFINE M   == [f \in G |-> Greatest(V[f])]
           L   == {M[f] : f \in DOMAIN M}
           all == UNION {V[f] : f \in G}
<1>1. \A f \in G : M[f] \in V[f] /\ \A y \in V[f] : y <= M[f]
  BY GreatestFact
<1>2. DOMAIN M = G /\ L = {Greatest(V[f]) : f \in G}
  OBVIOUS
<1> HIDE DEF M
<1>3. L \in SUBSET Int /\ L # {}
  BY <1>1, <1>2
<1>4. IsFiniteSet(L)
  BY <1>2, ImageFinite
<1>5. Greatest(L) \in L /\ \A y \in L : y <= Greatest(L)
  <2> HIDE DEF L
  <2> QED  BY <1>3, <1>4, GreatestFact
<1>6. all \in SUBSET Int
  OBVIOUS
<1>7. Greatest(L) \in all /\ \A y \in all : y <= Greatest(L)
  <2> DEFINE l == Greatest(L)
  <2>1. l \in L /\ l \in Int /\ \A y \in L : y <= l
    BY <1>3, <1>5
  <2> HIDE DEF l
  <2>2. l \in all
    BY <1>1, <1>2, <2>1
  <2>3. ASSUME NEW f \in G, NEW y \in V[f]
        PROVE  y <= l
    <3>1. y <= M[f] /\ M[f] <= l /\ M[f] \in Int /\ y \in Int
      BY <1>1, <1>2, <2>1
    <3> QED  BY <2>1, <3>1
  <2>4. \A y \in all : y <= l
    BY <2>3
  <2> QED  BY <2>2, <2>4 DEF l
<1>8. Greatest(all) = Greatest(L)
  <2> HIDE DEF L, all
  <2> QED  BY <1>6, <1>7, GreatestUnique
<1> QED  BY <1>2, <1>3, <1>8

RowsOf(G) == UNION {Content[f] : f \in G}

LEMMA ValuesOfGroup ==
    ASSUME NEW G \in SUBSET Files, NEW field \in {"lat", "lon", "time", "depth"}
    PROVE  /\ Values(RowsOf(G), field) = UNION {Values(Content[f], field) : f \in G}
           /\ \A f \in G : LET V == Values(Content[f], field) IN
                 V \in SUBSET Int /\ IsFiniteSet(V) /\ V # {}
           /\ Values(RowsOf(G), field) \in SUBSET Int
           /\ IsFiniteSet(G)
<1>1. ASSUME NEW f \in G
      PROVE  LET V == Values(Content[f], field) IN
             V \in SUBSET Int /\ IsFiniteSet(V) /\ V # {}
  <2>1. PICK r \in Content[f] : TRUE
    BY ContentAssumption
  <2> QED  BY <2>1, RangeOfColumn
<1>2. Values(RowsOf(G), field) = UNION {Values(Content[f], field) : f \in G}
  BY DEF Values, RowsOf
<1> QED  BY <1>1, <1>2, FilesFinite

LEMMA BoundsOfGroup ==
    ASSUME NEW G \in SUBSET Files, G # {}
    PROVE  LET R == RowsOf(G) IN
           /\ LeastOf(G, "min_lat") = Least(Values(R, "lat"))
           /\ GreatestOf(G, "max_lat") = Greatest(Values(R, "lat"))
           /\ LeastOf(G, "min_lon") = Least(Values(R, "lon"))
           /\ GreatestOf(G, "max_lon") = Greatest(Values(R, "lon"))
           /\ LeastOf(G, "min_datetime") = Least(Values(R, "time"))
           /\ GreatestOf(G, "max_datetime") = Greatest(Values(R, "time"))
           /\ GreatestOf(G, "max_depth") = Greatest(Values(R, "depth"))
<1>1. ASSUME NEW column \in {"lat", "lon", "time", "depth"}, NEW field,
             \A f \in G : Document[f].stats[field] = Least(Values(Content[f], column))
      PROVE  LeastOf(G, field) = Least(Values(RowsOf(G), column))
  <2> DEFINE V == [f \in G |-> Values(Content[f], column)]
             L == {Least(V[f]) : f \in G}
  <2>1. \A f \in G : V[f] \in SUBSET Int /\ IsFiniteSet(V[f]) /\ V[f] # {}
    BY ValuesOfGroup
  <2>2. Values(RowsOf(G), column) = UNION {V[f] : f \in G}
    BY ValuesOfGroup
  <2>3. {Document[f].stats[field] : f \in G} = L
    BY <1>1
  <2>4. IsFiniteSet(G) /\ L # {}
    BY FilesFinite
  <2> HIDE DEF V
  <2>5. L \in SUBSET Int /\ Least(L) = Least(UNION {V[f] : f \in G})
    BY <2>1, <2>4, LeastOfUnion
  <2> HIDE DEF L
  <2>6. Field(G, field) = L
    BY <2>3, <2>5, ContentAssumption DEF Field
  <2> QED  BY <2>2, <2>4, <2>5, <2>6 DEF LeastOf
<1>2. ASSUME NEW column \in {"lat", "lon", "time", "depth"}, NEW field,
             \A f \in G : Document[f].stats[field] = Greatest(Values(Content[f], column))
      PROVE  GreatestOf(G, field) = Greatest(Values(RowsOf(G), column))
  <2> DEFINE V == [f \in G |-> Values(Content[f], column)]
             L == {Greatest(V[f]) : f \in G}
  <2>1. \A f \in G : V[f] \in SUBSET Int /\ IsFiniteSet(V[f]) /\ V[f] # {}
    BY ValuesOfGroup
  <2>2. Values(RowsOf(G), column) = UNION {V[f] : f \in G}
    BY ValuesOfGroup
  <2>3. {Document[f].stats[field] : f \in G} = L
    BY <1>2
  <2>4. IsFiniteSet(G)
    BY FilesFinite
  <2> HIDE DEF V
  <2>5. L \in SUBSET Int /\ Greatest(L) = Greatest(UNION {V[f] : f \in G})
    BY <2>1, <2>4, GreatestOfUnion
  <2> HIDE DEF L
  <2>6. Field(G, field) = L
    BY <2>3, <2>5, ContentAssumption DEF Field
  <2> QED  BY <2>2, <2>5, <2>6 DEF GreatestOf
<1>3. \A f \in G : LET s == Document[f].stats
                       V(column) == Values(Content[f], column) IN
         /\ s.min_lat = Least(V("lat")) /\ s.max_lat = Greatest(V("lat"))
         /\ s.min_lon = Least(V("lon")) /\ s.max_lon = Greatest(V("lon"))
         /\ s.min_datetime = Least(V("time")) /\ s.max_datetime = Greatest(V("time"))
         /\ s.max_depth = Greatest(V("depth"))
  BY DEF Document, Statistics
<1> QED  BY <1>1, <1>2, <1>3

Measured(R) == Values(R, "depth") \ {Missing}

(* A missing depth is the least depth there is.                             *)
LEMMA MinDepthMeasured ==
    ASSUME NEW f \in Files
    PROVE  MinDepth(Content[f]) = IF Measured(Content[f]) = {} THEN None
                                  ELSE Least(Measured(Content[f]))
<1> DEFINE V == Values(Content[f], "depth")
<1>1. /\ V \in SUBSET Int /\ IsFiniteSet(V) /\ V # {}
  <2>1. PICK r \in Content[f] : TRUE
    BY ContentAssumption
  <2> QED  BY <2>1, RangeOfColumn
<1>2. Missing \in Int /\ \A d \in V : d >= Missing
  BY ContentAssumption DEF Values, Rows
<1>3. Least(V) \in V /\ \A d \in V : Least(V) <= d
  <2> HIDE DEF V
  <2> QED  BY <1>1, LeastFact
<1>4. ASSUME Least(V) # Missing
      PROVE  V \ {Missing} = V
  <2> HIDE DEF V
  <2>1. ASSUME Missing \in V
        PROVE  FALSE
    <3>1. Least(V) <= Missing /\ Least(V) >= Missing /\ Least(V) \in Int
      BY <1>1, <1>2, <1>3, <2>1
    <3> QED  BY <1>2, <1>4, <3>1
  <2> QED  BY <2>1
<1> HIDE DEF V
<1>5. MinDepth(Content[f]) =
          IF Least(V) # Missing THEN Least(V)
          ELSE IF V \ {Missing} = {} THEN None ELSE Least(V \ {Missing})
  BY DEF MinDepth, V
<1> QED  BY <1>1, <1>4, <1>5 DEF Measured, V

LEMMA DepthsOfGroup ==
    ASSUME NEW G \in SUBSET Files, G # {}
    PROVE  LET M == Measured(RowsOf(G)) IN
           /\ LeastOf(G, "min_depth") = IF M = {} THEN None ELSE Min(M)
           /\ GreatestOf(G, "max_depth") = IF M = {} THEN Missing ELSE Max(M)
<1> DEFINE M == Measured(RowsOf(G))
           H == {f \in G : Measured(Content[f]) # {}}
           V == [f \in H |-> Measured(Content[f])]
           L == {Least(V[f]) : f \in H}
           W == Values(RowsOf(G), "depth")
<1>1. M = UNION {V[f] : f \in H}
  <2>1. W = UNION {Values(Content[f], "depth") : f \in G}
    BY ValuesOfGroup
  <2>2. M = W \ {Missing}
    BY DEF Measured
  <2>3. \A f \in G : Measured(Content[f]) = Values(Content[f], "depth") \ {Missing}
    BY DEF Measured
  <2> HIDE DEF M, W
  <2>4. M = UNION {Measured(Content[f]) : f \in G}
    BY <2>1, <2>2, <2>3
  <2>5. \A d : d \in M <=> \E f \in H : d \in V[f]
    BY <2>4
  <2> HIDE DEF H, V
  <2> QED  BY <2>5
<1>2. IsFiniteSet(H) /\ H \in SUBSET G
  BY FilesFinite
<1>3. \A f \in H : V[f] \in SUBSET Int /\ IsFiniteSet(V[f]) /\ V[f] # {}
  BY ValuesOfGroup, FS_RemoveElement DEF Measured
<1>4. Field(G, "min_depth") = L \ {None}
  <2>1. \A f \in G : Document[f].stats["min_depth"] = MinDepth(Content[f])
    BY DEF Document, Statistics
  <2>2. \A f \in G : MinDepth(Content[f]) =
                       IF f \in H THEN Least(V[f]) ELSE None
    BY MinDepthMeasured
  <2> HIDE DEF H, V
  <2>3. \A f \in G : Document[f].stats["min_depth"] =
                       IF f \in H THEN Least(V[f]) ELSE None
    BY <2>1, <2>2
  <2> QED  BY <1>2, <2>3 DEF Field
<1>5. W \in SUBSET Int /\ W # {} /\ IsFiniteSet(W) /\ \A d \in W : d >= Missing
  <2>1. RowsOf(G) \in SUBSET Rows /\ RowsOf(G) # {}
    <3>1. PICK f \in G : Content[f] # {}
      BY ContentAssumption
    <3> QED  BY <3>1 DEF RowsOf, Rows
  <2>2. IsFiniteSet(RowsOf(G))
    BY <2>1, RowsFinite, FS_Subset
  <2>3. \A r \in RowsOf(G) : r.depth \in Int /\ r.depth >= Missing
    BY <2>1, ContentAssumption
  <2> QED  BY <2>1, <2>2, <2>3, ValuesFinite DEF Values
<1>6. M = W \ {Missing} /\ Missing \in Int /\ None \notin Int
  BY ContentAssumption DEF Measured
<1>7. GreatestOf(G, "max_depth") = Greatest(W)
  BY BoundsOfGroup
<1> HIDE DEF M, V, W
<1>8. CASE M = {}
  <2>1. H = {}
    BY <1>1, <1>3, <1>8
  <2>2. W = {Missing}
    BY <1>5, <1>6, <1>8
  <2>3. Greatest(W) = Missing
    BY <1>6, <2>2, GreatestUnique
  <2>4. Field(G, "min_depth") = {}
    BY <1>4, <2>1
  <2> QED  BY <1>7, <1>8, <2>3, <2>4 DEF LeastOf, M
<1>9. CASE M # {}
  <2>1. H # {}
    BY <1>1, <1>9
  <2>2. L \in SUBSET Int /\ Least(L) = Least(M) /\ L # {}
    <3> HIDE DEF H
    <3> QED  BY <1>1, <1>2, <1>3, <2>1, LeastOfUnion
  <2> HIDE DEF L
  <2>3. Field(G, "min_depth") = L
    BY <1>4, <1>6, <2>2
  <2>4. M \in SUBSET Int /\ IsFiniteSet(M)
    BY <1>5, <1>6, FS_RemoveElement
  <2>5. Greatest(M) \in M /\ \A y \in M : y <= Greatest(M)
    BY <1>9, <2>4, GreatestFact
  <2>6. Greatest(W) = Greatest(M)
    <3>1. Greatest(M) \in W /\ Greatest(M) \in Int /\ Greatest(M) >= Missing
      BY <1>5, <1>6, <2>4, <2>5
    <3>2. \A y \in W : y <= Greatest(M)
      BY <1>6, <2>5, <3>1
    <3> QED  BY <1>5, <3>1, <3>2, GreatestUnique
  <2>7. Min(M) = Least(M) /\ Max(M) = Greatest(M)
    <3>1. Min(M) = Least(M)
      BY DEF Min, Least
    <3>2. Max(M) = Greatest(M)
      <4>1. Max(M) \in M /\ \A y \in M : y <= Max(M)
        BY <2>4, <2>5 DEF Max
      <4> QED  BY <2>4, <4>1, GreatestUnique
    <3> QED  BY <3>1, <3>2
  <2> QED  BY <1>7, <1>9, <2>2, <2>3, <2>6, <2>7 DEF LeastOf, M
<1> QED  BY <1>8, <1>9

LEMMA CountsOfGroup ==
    ASSUME NEW G \in SUBSET Files
    PROVE  LET R == RowsOf(G) IN
           /\ Total(G) = Cardinality(R)
           /\ \A c \in ObservationNames : ObservationCount(G, c) = Count(R, c)
<1>1. ASSUME NEW M \in [G -> SUBSET Rows], \A f \in G : M[f] \subseteq Content[f],
             NEW A, A = UNION {M[f] : f \in G},
             NEW n, \A f \in G : n[f] = Cardinality(M[f])
      PROVE  SumFunctionOnSet(n, G) = Cardinality(A)
  <2>1. \A f \in G : IsFiniteSet(M[f])
    BY <1>1, SubsetOfContentFinite
  <2>2. \A f, g \in G : f # g => M[f] \cap M[g] = {}
    BY <1>1, ContentAssumption
  <2>3. IsFiniteSet(G)
    BY FilesFinite
  <2> QED  BY <1>1, <2>1, <2>2, <2>3, SumCardinality
<1>2. Total(G) = Cardinality(RowsOf(G))
  <2> DEFINE M == [f \in G |-> Content[f]]
             n == [f \in G |-> Document[f].stats.total]
  <2>1. \A f \in G : n[f] = Cardinality(M[f])
    BY DEF Document, Statistics
  <2>2. Total(G) = SumFunctionOnSet(n, G)
    BY DEF Total, SumFunction
  <2>3. /\ RowsOf(G) = UNION {M[f] : f \in G}
        /\ M \in [G -> SUBSET Rows] /\ \A f \in G : M[f] \subseteq Content[f]
    BY DEF RowsOf, Rows
  <2> HIDE DEF M, n
  <2> QED  BY <1>1, <2>1, <2>2, <2>3
<1>3. ASSUME NEW c \in ObservationNames
      PROVE  ObservationCount(G, c) = Count(RowsOf(G), c)
  <2> DEFINE M == [f \in G |-> {r \in Content[f] : c \in r.observations}]
             n == [f \in G |-> Document[f].stats.observation_counts[c]]
             A == {r \in RowsOf(G) : c \in r.observations}
  <2>1. \A f \in G : n[f] = Cardinality(M[f])
    BY DEF Document, Statistics, Count
  <2>2. ObservationCount(G, c) = SumFunctionOnSet(n, G)
    BY DEF ObservationCount, SumFunction
  <2>3. /\ A = UNION {M[f] : f \in G}
        /\ M \in [G -> SUBSET Rows] /\ \A f \in G : M[f] \subseteq Content[f]
    BY DEF RowsOf, Rows
  <2>4. Count(RowsOf(G), c) = Cardinality(A)
    BY DEF Count
  <2> HIDE DEF M, n, A
  <2> QED  BY <1>1, <2>1, <2>2, <2>3, <2>4
<1> QED  BY <1>2, <1>3

LEMMA GroupStatistics ==
    ASSUME NEW G \in SUBSET Files, G # {}
    PROVE  LET R == RowsOf(G)
               M == Measured(R)
           IN  CoreStatistics(G) = [Statistics(R) EXCEPT
                   !.min_depth = IF M = {} THEN None ELSE Min(M),
                   !.max_depth = IF M = {} THEN Missing ELSE Max(M),
                   !.min_datetime = ToSecond(Least(Values(R, "time"))),
                   !.max_datetime = ToSecond(Greatest(Values(R, "time")))]
<1> DEFINE R     == RowsOf(G)
           M     == Measured(R)
           least == IF M = {} THEN None ELSE Min(M)
           most  == IF M = {} THEN Missing ELSE Max(M)
           V(field) == Values(R, field)
           counts == [c \in ObservationNames |-> Count(R, c)]
           earliest == Least(V("time"))
           latest   == Greatest(V("time"))
           S(low, high, from, to) ==
               [total |-> Cardinality(R),
                min_lat |-> Least(V("lat")), max_lat |-> Greatest(V("lat")),
                min_lon |-> Least(V("lon")), max_lon |-> Greatest(V("lon")),
                min_depth |-> low, max_depth |-> high,
                min_datetime |-> from, max_datetime |-> to,
                observation_counts |-> counts]
           answer == S(least, most, ToSecond(earliest), ToSecond(latest))
<1>1. [c \in ObservationNames |-> ObservationCount(G, c)] = counts
  BY CountsOfGroup
<1>2. Total(G) = Cardinality(R)
  BY CountsOfGroup
<1>3. LeastOf(G, "min_depth") = least /\ GreatestOf(G, "max_depth") = most
  BY DepthsOfGroup
<1>4. CoreStatistics(G) = answer
  <2> HIDE DEF least, most, counts, R
  <2> QED  BY <1>1, <1>2, <1>3, BoundsOfGroup DEF CoreStatistics, R
<1>5. [Statistics(R) EXCEPT
          !.min_depth = least, !.max_depth = most,
          !.min_datetime = ToSecond(earliest), !.max_datetime = ToSecond(latest)] = answer
  <2> DEFINE low  == MinDepth(R)
             high == Greatest(V("depth"))
             from == ToSecond(earliest)
             to   == ToSecond(latest)
  <2>1. Statistics(R) = S(low, high, earliest, latest)
    BY DEF Statistics
  <2> HIDE DEF R, V, counts, low, high, least, most, earliest, latest, from, to
  <2>2. [S(low, high, earliest, latest) EXCEPT !.min_depth = least] =
            S(least, high, earliest, latest)
    OBVIOUS
  <2>3. [S(least, high, earliest, latest) EXCEPT !.max_depth = most] =
            S(least, most, earliest, latest)
    OBVIOUS
  <2>4. [S(least, most, earliest, latest) EXCEPT !.min_datetime = from] =
            S(least, most, from, latest)
    OBVIOUS
  <2>5. [S(least, most, from, latest) EXCEPT !.max_datetime = to] = S(least, most, from, to)
    OBVIOUS
  <2>6. \A s : [s EXCEPT !.min_depth = least, !.max_depth = most,
                         !.min_datetime = from, !.max_datetime = to] =
                [[[[s EXCEPT !.min_depth = least] EXCEPT !.max_depth = most]
                     EXCEPT !.min_datetime = from] EXCEPT !.max_datetime = to]
    OBVIOUS
  <2> HIDE DEF S
  <2>7. [S(low, high, earliest, latest) EXCEPT
            !.min_depth = least, !.max_depth = most,
            !.min_datetime = from, !.max_datetime = to] = S(least, most, from, to)
    BY <2>2, <2>3, <2>4, <2>5, <2>6
  <2> QED  BY <2>1, <2>7 DEF from, to
<1> QED  BY <1>4, <1>5

(* The statistics of every platform reported are those of all the rows of   *)
(* the files selected: extrema of extrema, sums of counts and depths that   *)
(* are missing in some files, in all or in none.  No platform is left out   *)
(* as long as there are no more of them than buckets.                       *)
THEOREM StatisticsAgreeCorrect == Spec => []StatisticsAgree
<1>1. IInv => StatisticsAgree
  <2> SUFFICES ASSUME IInv, NEW args \in StatisticsRequests
               PROVE  LET reports == {Report(args, s) : s \in Sources(args)}
                          answer  == GetStatistics(args)
                      IN  /\ answer \subseteq reports
                          /\ Cardinality(Sources(args)) <= BucketLimit =>
                                 answer = reports
    BY DEF StatisticsAgree
  <2> DEFINE D == CountedFiles(args)
             Any(G) == CHOOSE f \in G : TRUE
             Entry(G) == [provider |-> Source[Any(G)].provider,
                          project |-> Source[Any(G)].project,
                          platform |-> Source[Any(G)].platform,
                          statistics |-> CoreStatistics(G)]
  <2>1. D \in SUBSET Files /\ Sources(args) = SourcesOf(D)
    BY DEF IInv, StageInv, CountedFiles, Sources, SourcesOf
  <2>2. GetStatistics(args) = {Entry(G) : G \in Groups(D)}
    BY DEF GetStatistics, SubCollectionStatistics, CountedFiles
  <2>3. ASSUME NEW s \in SourcesOf(D)
        PROVE  Entry(Group(D, s)) = Report(args, s)
    <3> DEFINE G == Group(D, s)
    <3>1. G \in SUBSET Files /\ G # {}
      BY <2>1 DEF Group, SourcesOf
    <3>2. Source[Any(G)] = s
      <4>1. Any(G) \in G
        <5> HIDE DEF G
        <5> QED  BY <3>1
      <4> QED  BY <4>1 DEF Group
    <3>3. GroupRows(args, s) = RowsOf(G)
      BY DEF GroupRows, RowsOf, Group
    <3> HIDE DEF G, Any, D
    <3>4. Report(args, s) = [provider |-> s.provider, project |-> s.project,
                             platform |-> s.platform,
                             statistics |-> CoreStatistics(G)]
      <4> DEFINE R == RowsOf(G)
                 M == Measured(R)
                 all == [Statistics(R) EXCEPT
                            !.min_depth = IF M = {} THEN None ELSE Min(M),
                            !.max_depth = IF M = {} THEN Missing ELSE Max(M),
                            !.min_datetime = ToSecond(Least(Values(R, "time"))),
                            !.max_datetime = ToSecond(Greatest(Values(R, "time")))]
      <4>1. CoreStatistics(G) = all
        BY <3>1, GroupStatistics
      <4>2. {r.depth : r \in R} \ {Missing} = M
        BY DEF Measured, Values
      <4> HIDE DEF R, M
      <4>3. GroupRows(args, s) = R
        BY <3>3 DEF R
      <4>4. Report(args, s) = [provider |-> s.provider, project |-> s.project,
                               platform |-> s.platform, statistics |-> all]
        BY <4>2, <4>3 DEF Report
      <4> QED  BY <4>1, <4>4
    <3> QED  BY <3>2, <3>4 DEF G
  <2> HIDE DEF D, Entry
  <2>4. \A G \in Groups(D) : \E s \in SourcesOf(D) : G = Group(D, s)
    BY <2>1, GroupsFact
  <2>5. Cardinality(SourcesOf(D)) <= BucketLimit =>
            \A s \in SourcesOf(D) : Group(D, s) \in Groups(D)
    BY <2>1, GroupsFact
  <2> QED  BY <2>1, <2>2, <2>3, <2>4, <2>5
<1> QED  BY <1>1, Inductive, PTL

-----------------------------------------------------------------------------
(* The files and the index change as the contract of the stats index lets   *)
(* them, so what is proved of a search holds with whatever implements that. *)
THEOREM UsesStatsIndex == Spec => Stats!Spec
<1>1. Init => Stats!Init
  BY DEF Init
<1>2. ASSUME [Next]_vars
      PROVE  [Stats!Next]_(Stats!vars)
  <2>1. ASSUME NEW f \in Files,
               CreateFile(f) \/ DeleteFile(f) \/ IndexFile(f) \/ UnindexFile(f)
        PROVE  Stats!Next
    BY <2>1 DEF CreateFile, DeleteFile, IndexFile, UnindexFile, Stats!Next
  <2>2. ASSUME \/ \E args \in Requests : Start(args) \/ Refuse(args)
               \/ SkipDirectory \/ ElasticsearchError \/ Search \/ UNCHANGED vars
        PROVE  UNCHANGED Stats!vars
    BY <2>2 DEF Start, Refuse, SkipDirectory, Search, NextPage, LastPage,
         ListDirectory, NothingFound, CountRows, ReturnRows, Fail, Respond,
         ElasticsearchError, files, vars, Stats!vars
  <2> QED  BY <1>2, <2>1, <2>2 DEF Next
<1> QED  BY <1>1, <1>2, PTL DEF Spec, Stats!Spec

=============================================================================
