------------------------- MODULE ObservationColumns -------------------------
(***************************************************************************)
(* The observations of a JSON file on their way into the columns of a      *)
(* parquet file and back: validated in chunks and made floats              *)
(* (io_logic/sanitize_record.py, utils/parallel_json_validator.py,         *)
(* io_logic/ingest_new_file.py), given their column types by Spark, which  *)
(* looks at the values, and read by searches and statistics with the types *)
(* derived from the in-situ schema (io_logic/cdms_schema.py).              *)
(*                                                                         *)
(* A value is a record of its Python type and of the number it stands for. *)
(***************************************************************************)
EXTENDS Integers, Sequences, FiniteSets

CONSTANTS
    Types,     \* the "type" of every column in the schema, as a sequence;
               \* empty if the column has a "$ref" instead
    Qualities, \* the columns whose name ends with "_quality"
    Required,  \* the columns every observation has to have
    MinProperties, \* how many columns it has to have: 5
    ChunkSize, \* observations validated together: 1000
    Uploads    \* files: their observations, and whether to sanitize them

SchemaColumns == DOMAIN Types

ASSUME SchemaAssumption ==
    /\ Qualities \subseteq SchemaColumns /\ Required \subseteq SchemaColumns
    /\ \A c \in Qualities : Types[c] = <<>>
    /\ ChunkSize \in Nat \ {0}
    /\ \A u \in Uploads :
          /\ u.sanitize \in BOOLEAN
          /\ Len(u.observations) \in Nat \ {0}
          /\ DOMAIN u.observations = 1 .. Len(u.observations)

(* The numbers stand for contents of all kinds.                             *)
JsonValues == [type : {"int", "float", "str", "dict"}, value : Int]

ASSUME ValuesAssumption ==
    \A u \in Uploads : \A i \in DOMAIN u.observations :
        \A c \in DOMAIN u.observations[i] : u.observations[i][c] \in JsonValues

(* What in_situ_schema.json has: numbers, strings and references, numbers   *)
(* the conversion relies on, and one column of two types.                   *)
ASSUME ColumnTypesAssumption ==
    /\ \A c \in SchemaColumns :
          \/ Types[c] \in {<<"number">>, <<"string">>, <<>>}
          \/ c = "meta" /\ Types[c] = <<"string", "object">>
    /\ \A c \in SchemaColumns \cap {"depth", "wind_from_direction", "wind_to_direction"} :
          Types[c] = <<"number">>

VARIABLES
    upload,       \* the file
    pc,           \* where its ingestion stands
    unchecked,    \* the chunks still to validate
    errors,       \* those that are not valid
    observations, \* the records as they are in memory
    parquet       \* the columns stored, none before

vars == <<upload, pc, unchecked, errors, observations, parquet>>

-----------------------------------------------------------------------------
(* Validation: 16 processes check one chunk after another; the errors of    *)
(* all of them are put together.                                            *)

(* What fastjsonschema accepts: a whole number is an integer to it also     *)
(* when it is a float.                                                      *)
Accepts == [number |-> {"int", "float"}, integer |-> {"int", "float"},
            string |-> {"str"}, object |-> {"dict"}]

JsonTypes(c) ==
    IF Types[c] # <<>> THEN {Types[c][i] : i \in DOMAIN Types[c]}
    ELSE IF c \in Qualities THEN {"integer"} ELSE {"object"}

ValidObservation(o) ==
    /\ Required \subseteq DOMAIN o /\ DOMAIN o \subseteq SchemaColumns
    /\ Cardinality(DOMAIN o) >= MinProperties
    /\ \A c \in DOMAIN o : \E t \in JsonTypes(c) : o[c].type \in Accepts[t]

\* Mutant of ChunkList: an incomplete chunk at the end is dropped.
ChunkListWhole(s) ==
    [i \in 1 .. Len(s) \div ChunkSize |->
        SubSeq(s, (i - 1) * ChunkSize + 1, i * ChunkSize)]

ChunkList(s) ==
    [i \in 1 .. (Len(s) + ChunkSize - 1) \div ChunkSize |->
        SubSeq(s, (i - 1) * ChunkSize + 1,
               IF i * ChunkSize <= Len(s) THEN i * ChunkSize ELSE Len(s))]

Valid(chunk) == \A i \in DOMAIN chunk : ValidObservation(chunk[i])

(* Only with sanitize_record are the observations validated at all.         *)
Init ==
    /\ upload \in Uploads
    /\ pc = IF upload.sanitize THEN "validate" ELSE "convert"
    /\ unchecked = IF upload.sanitize THEN DOMAIN ChunkList(upload.observations)
                    ELSE {}
    /\ errors = {}
    /\ observations = upload.observations
    /\ parquet = <<>>

ValidateChunk ==
    /\ pc = "validate"
    /\ \E i \in unchecked :
          /\ unchecked' = unchecked \ {i}
          /\ errors' = IF Valid(ChunkList(observations)[i]) THEN errors
                       ELSE errors \cup {i}
    /\ UNCHANGED <<upload, pc, observations, parquet>>

(* All results are waited for.                                              *)
Refuse ==
    /\ pc = "validate" /\ unchecked = {} /\ errors # {}
    /\ pc' = "refused"
    /\ UNCHANGED <<upload, unchecked, errors, observations, parquet>>

-----------------------------------------------------------------------------
(* Conversion.                                                              *)

Float(v) == [v EXCEPT !.type = "float"]

\* Mutants of Sanitize: no number is converted; only the numbers remain.
SanitizeNothing(o) == o
SanitizeNumbers(o) ==
    [c \in {d \in DOMAIN o : Types[d] = <<"number">>} |-> Float(o[c])]

(* Columns of the type "number", given as such.                             *)
Sanitize(o) ==
    [c \in DOMAIN o |-> IF c \in SchemaColumns /\ Types[c] = <<"number">>
                        THEN Float(o[c]) ELSE o[c]]

(* The loop of ingest(), which fails for an observation that has the one    *)
(* direction without the other.                                             *)
Raises(o) ==
    "wind_to_direction" \in DOMAIN o /\ "wind_from_direction" \notin DOMAIN o

\* Mutant of Convert: the depth gets the place of the other direction.
ConvertDepth(o) ==
    [c \in DOMAIN o |-> IF c = "wind_from_direction" THEN Float(o.depth)
                        ELSE o[c]]

Convert(o) ==
    [c \in DOMAIN o |->
        IF c \in {"depth", "wind_from_direction"} THEN Float(o[c])
        ELSE IF c = "wind_to_direction" THEN Float(o.wind_from_direction)
        ELSE o[c]]

SanitizeRecords ==
    /\ pc = "validate" /\ unchecked = {} /\ errors = {}
    /\ pc' = "convert"
    /\ observations' = [i \in DOMAIN observations |-> Sanitize(observations[i])]
    /\ UNCHANGED <<upload, unchecked, errors, parquet>>

ConvertRecords ==
    /\ pc = "convert"
    /\ \A i \in DOMAIN observations : ~ Raises(observations[i])
    /\ pc' = "write"
    /\ observations' = [i \in DOMAIN observations |-> Convert(observations[i])]
    /\ UNCHANGED <<upload, unchecked, errors, parquet>>

-----------------------------------------------------------------------------
(* Columns.                                                                 *)

(* createDataFrame: the type of a column is that of all its values; two     *)
(* types are not merged.                                                    *)
InferredType == [int |-> "bigint", float |-> "double",
                 str |-> "string", dict |-> "map"]

ColumnsOf(s)    == UNION {DOMAIN s[i] : i \in DOMAIN s}
TypesIn(s, c)   ==
    {InferredType[s[i][c].type] : i \in {j \in DOMAIN s : c \in DOMAIN s[j]}}
StoredSchema(s) == [c \in ColumnsOf(s) |-> CHOOSE t \in TypesIn(s, c) : TRUE]

(* The columns create_df derives others from.                               *)
Partitioning == {"time", "platform", "latitude", "longitude"}

Merges(s) ==
    /\ Partitioning \subseteq ColumnsOf(s)
    /\ \A c \in ColumnsOf(s) : Cardinality(TypesIn(s, c)) = 1

WriteParquet ==
    /\ pc = "write"
    /\ Merges(observations)
    /\ pc' = "stored"
    /\ parquet' = StoredSchema(observations)
    /\ UNCHANGED <<upload, unchecked, errors, observations>>

(* An exception, which ends the request with 500.                           *)
Fail ==
    /\ \/ pc = "convert" /\ \E i \in DOMAIN observations : Raises(observations[i])
       \/ pc = "write" /\ ~ Merges(observations)
    /\ pc' = "failed"
    /\ UNCHANGED <<upload, unchecked, errors, observations, parquet>>

Next == ValidateChunk \/ Refuse \/ SanitizeRecords \/ ConvertRecords
            \/ WriteParquet \/ Fail

Spec == Init /\ [][Next]_vars

-----------------------------------------------------------------------------
(* Reading.                                                                 *)

(* get_schema_from_json: the first of several types counts.                 *)
JsonDatatype(c) ==
    IF Types[c] # <<>> THEN Types[c][1]
    ELSE IF c \in Qualities THEN "long" ELSE "platform"

SparkType == [number |-> "double", long |-> "bigint", string |-> "string",
              platform |-> "map"]

ReaderSchema == [c \in SchemaColumns |-> SparkType[JsonDatatype(c)]]

(* Spark converts no column of a parquet file to another type: whoever      *)
(* reads one gets an exception.                                             *)
Readable == \A c \in DOMAIN parquet \cap SchemaColumns : parquet[c] = ReaderSchema[c]

-----------------------------------------------------------------------------

TypeOK ==
    /\ upload \in Uploads
    /\ pc \in {"validate", "convert", "write", "refused", "stored", "failed"}
    /\ errors \cup unchecked \subseteq DOMAIN ChunkList(upload.observations)
    /\ DOMAIN observations = DOMAIN upload.observations
    /\ \A i \in DOMAIN observations :
          DOMAIN observations[i] = DOMAIN upload.observations[i]
    /\ pc = "stored" <=> parquet # <<>>

(* A file is refused if and only if one of its observations is not valid,   *)
(* wherever the chunks are cut and whichever of them is done first.         *)
RefusedIfInvalid ==
    upload.sanitize =>
        LET valid == \A i \in DOMAIN upload.observations :
                         ValidObservation(upload.observations[i])
        IN  /\ pc = "refused" => ~ valid
            /\ pc \in {"convert", "write", "stored", "failed"} => valid

(* Two translations of the schema that nothing holds together: what is      *)
(* stored has the types it is read with, whether numbers are written as 3   *)
(* or as 3.0.  Not so without sanitizing, and not for two kinds of values   *)
(* the schema lets through: a quality flag written as 1.0, a "meta" object. *)
SanitizedReadable ==
    /\ pc = "stored" /\ upload.sanitize
    /\ \A i \in DOMAIN upload.observations :
          \A c \in DOMAIN upload.observations[i] :
             /\ c \in Qualities => upload.observations[i][c].type = "int"
             /\ c = "meta" => upload.observations[i][c].type = "str"
    => Readable

(* What is stored has the values of the file in every column but one:       *)
(* "wind_to_direction" is overwritten.                                      *)
ValuesKept ==
    pc = "stored" =>
        \A i \in DOMAIN observations :
            LET before == upload.observations[i]
                after  == observations[i]
            IN  \A c \in DOMAIN before \ {"wind_to_direction"} :
                    after[c].value = before[c].value

=============================================================================
