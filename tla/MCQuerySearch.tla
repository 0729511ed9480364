--------------------------- MODULE MCQuerySearch ---------------------------
EXTENDS QuerySearch, TLC

MCMissing == -9

(* Depths are in metres, -9 is missing; latitudes and longitudes in degrees.*)
Row(id, lat, lon, time, depth, observations) ==
    [id |-> id, lat |-> lat, lon |-> lon, time |-> time, depth |-> depth,
     observations |-> observations]

From(project, platform) ==
    [provider |-> "p", project |-> project, platform |-> platform]

(* Files 1 and 2 share a directory, files 1, 2 and 4 their sort key but for *)
(* the URL; file 3 is of another platform, has no depths and cannot be read.*)
MCFiles   == 1 .. 4
MCSource  == <<From("j", 1), From("j", 1), From("j", 2), From("k", 1)>>
MCContent ==
    <<{Row(1, -1, 1, 1, MCMissing, {"salinity"}), Row(2, -2, 1, 3, 2, {"wind"})},
      {Row(3, -2, 1, 1, 4, {"salinity", "salinity_quality"})},
      {Row(4, -1, 0, 2, MCMissing, {})},
      {Row(5, -2, 1, 1, 0, {"wind"}), Row(6, -1, 2, 2, 0, {"wind"})}>>
MCColumns == {"depth", "salinity", "salinity_quality", "wind"}

Ask(from, to, depths, bbox) ==
    [startTime |-> from, endTime |-> to,
     minDepth |-> depths[1], maxDepth |-> depths[2], bbox |-> bbox]

World == <<-6, -5, 6, 5>>

Unparsed == Ask(0, 3, <<0, 9>>, World)

(* All rows in the ranges; two rows of one platform; with a variable below  *)
(* the surface; the count only; with a time that cannot be parsed; without  *)
(* a bound.                                                                 *)
MCRequests ==
    {Ask(1, 2, <<0, 9>>, World),
     Ask(1, 3, <<-9, 9>>, World)
        @@ [platform |-> {1}, provider |-> "p", project |-> "j", itemsPerPage |-> 2],
     Ask(1, 3, <<1, 9>>, World) @@ [variable |-> {"salinity"}],
     Ask(1, 3, <<0, 9>>, <<0, -1, 1, 5>>) @@ [itemsPerPage |-> 0],
     Unparsed,
     [startTime |-> 1, endTime |-> 3, bbox |-> World]}

MCUnparsable == {Unparsed}

MCStatisticsRequests ==
    {[startTime |-> 2, endTime |-> 4, minDepth |-> 0, maxDepth |-> 3],
     [endTime |-> 2, maxDepth |-> 3, bbox |-> <<0, -1, 1, 5>>],
     [startTime |-> 1, endTime |-> 2, project |-> "j", platform |-> {1, 2}]}

=============================================================================
