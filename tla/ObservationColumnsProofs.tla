---------------------- MODULE ObservationColumnsProofs ----------------------
(***************************************************************************)
(* For any schema, files and chunk size: a file is refused exactly if one  *)
(* of its observations is not valid, and no conversion on the way to the   *)
(* columns changes a value, except that of "wind_to_direction", and the    *)
(* columns of a sanitized file have the types they are read with.          *)
(***************************************************************************)
EXTENDS ObservationColumns, TLAPS, SequenceTheorems

-----------------------------------------------------------------------------
(* Chunks.                                                                  *)

LEMMA Division ==
    ASSUME NEW n \in Nat, NEW d \in Nat \ {0}
    PROVE  /\ n \div d \in Nat
           /\ (n \div d) * d <= n
           /\ n < (n \div d) * d + d
  BY Z3

LEMMA ProductLess ==
    ASSUME NEW a \in Nat, NEW b \in Nat, NEW d \in Nat \ {0}, a * d < b * d
    PROVE  a < b
<1> SUFFICES ASSUME b <= a PROVE b * d <= a * d
  BY Z3
<1>1. PICK e \in Nat : a = b + e
  <2>1. a - b \in Nat /\ a = b + (a - b)
    OBVIOUS
  <2> QED  BY <2>1
<1>2. a * d = b * d + e * d
  BY <1>1, Z3
<1>3. e * d \in Nat /\ b * d \in Nat
  BY Z3
<1> QED  BY <1>2, <1>3

(* Every observation is in a chunk, and a chunk has nothing else.           *)
Chunks(s) == (Len(s) + ChunkSize - 1) \div ChunkSize

ChunkEnd(s, k) == IF k * ChunkSize <= Len(s) THEN k * ChunkSize ELSE Len(s)

LEMMA ChunkFacts ==
    ASSUME NEW s, Len(s) \in Nat, DOMAIN s = 1 .. Len(s), NEW k \in 1 .. Chunks(s)
    PROVE  LET c == ChunkList(s)[k] IN
           /\ DOMAIN c = 1 .. ChunkEnd(s, k) - (k - 1) * ChunkSize
           /\ \A i \in DOMAIN c : /\ (k - 1) * ChunkSize + i \in DOMAIN s
                                  /\ c[i] = s[(k - 1) * ChunkSize + i]
<1> DEFINE from == (k - 1) * ChunkSize
           to   == ChunkEnd(s, k)
<1>1. ChunkSize \in Nat \ {0} /\ k \in Nat \ {0}
  <2>1. ChunkSize \in Nat \ {0}
    BY SchemaAssumption
  <2>2. Chunks(s) \in Nat
    BY <2>1, Division DEF Chunks
  <2> QED  BY <2>1, <2>2
<1>2. from \in Nat /\ k * ChunkSize \in Nat
  BY <1>1, Z3
<1>3. to \in Nat /\ to <= Len(s)
  BY <1>2 DEF ChunkEnd
<1>4. ChunkList(s)[k] = SubSeq(s, from + 1, to)
  BY DEF ChunkList, Chunks, ChunkEnd
<1> HIDE DEF from, to
<1>5. \A i \in from + 1 .. to : i \in DOMAIN s /\ s[i] \in {s[j] : j \in DOMAIN s}
  BY <1>2, <1>3
<1>6. /\ SubSeq(s, from + 1, to) \in Seq({s[j] : j \in DOMAIN s})
      /\ Len(SubSeq(s, from + 1, to)) =
            IF from + 1 <= to THEN to - (from + 1) + 1 ELSE 0
      /\ \A i \in 1 .. to - (from + 1) + 1 :
            SubSeq(s, from + 1, to)[i] = s[from + 1 + i - 1]
  BY <1>2, <1>3, <1>5, SubSeqProperties
<1>7. DOMAIN SubSeq(s, from + 1, to) = 1 .. to - from
  <2>1. DOMAIN SubSeq(s, from + 1, to) = 1 .. Len(SubSeq(s, from + 1, to))
    BY <1>6, LenProperties
  <2> QED  BY <1>2, <1>3, <1>6, <2>1
<1>8. ASSUME NEW i \in 1 .. to - from
      PROVE  /\ from + i \in DOMAIN s
             /\ SubSeq(s, from + 1, to)[i] = s[from + i]
  <2>1. i \in 1 .. to - (from + 1) + 1 /\ from + 1 + i - 1 = from + i
    BY <1>2, <1>3
  <2>2. from + i \in 1 .. Len(s)
    BY <1>2, <1>3
  <2> QED  BY <1>6, <2>1, <2>2
<1> QED  BY <1>4, <1>7, <1>8 DEF from, to

LEMMA ChunkOf ==
    ASSUME NEW s, Len(s) \in Nat, DOMAIN s = 1 .. Len(s), NEW j \in DOMAIN s
    PROVE  \E k \in 1 .. Chunks(s) :
              \E i \in DOMAIN ChunkList(s)[k] : ChunkList(s)[k][i] = s[j]
<1> DEFINE q == (j - 1) \div ChunkSize
           k == q + 1
           i == j - q * ChunkSize
<1>1. ChunkSize \in Nat \ {0}
  BY SchemaAssumption
<1>2. j - 1 \in Nat /\ Len(s) + ChunkSize - 1 \in Nat
  BY <1>1
<1>3. q \in Nat /\ q * ChunkSize <= j - 1 /\ j - 1 < q * ChunkSize + ChunkSize
  BY <1>1, <1>2, Division
<1>4. /\ Chunks(s) \in Nat
      /\ Len(s) + ChunkSize - 1 < Chunks(s) * ChunkSize + ChunkSize
  BY <1>1, <1>2, Division DEF Chunks
<1> HIDE DEF q
<1>5. q * ChunkSize \in Nat /\ Chunks(s) * ChunkSize \in Nat
  BY <1>1, <1>3, <1>4, Z3
<1>6. q < Chunks(s)
  <2>1. q * ChunkSize < Chunks(s) * ChunkSize
    BY <1>1, <1>3, <1>4, <1>5
  <2> QED  BY <1>1, <1>3, <1>4, <2>1, ProductLess
<1>7. k \in 1 .. Chunks(s) /\ (k - 1) * ChunkSize = q * ChunkSize
  BY <1>3, <1>4, <1>6
<1>8. k * ChunkSize = q * ChunkSize + ChunkSize
  BY <1>1, <1>3, Z3
<1>9. i \in 1 .. ChunkEnd(s, k) - q * ChunkSize
  <2> DEFINE before == q * ChunkSize
  <2>1. ChunkEnd(s, k) = IF before + ChunkSize <= Len(s)
                         THEN before + ChunkSize ELSE Len(s)
    BY <1>8 DEF ChunkEnd
  <2>2. before \in Nat /\ before <= j - 1 /\ j - 1 < before + ChunkSize
    BY <1>3, <1>5
  <2> HIDE DEF before, k
  <2>3. j - before \in 1 .. ChunkEnd(s, k) - before
    BY <1>1, <2>1, <2>2
  <2> QED  BY <2>3 DEF before
<1>10. q * ChunkSize + i = j
  BY <1>5
<1> HIDE DEF k, i
<1>11. /\ DOMAIN ChunkList(s)[k] = 1 .. ChunkEnd(s, k) - (k - 1) * ChunkSize
       /\ \A h \in DOMAIN ChunkList(s)[k] :
             ChunkList(s)[k][h] = s[(k - 1) * ChunkSize + h]
  BY <1>7, ChunkFacts
<1>12. i \in DOMAIN ChunkList(s)[k] /\ ChunkList(s)[k][i] = s[j]
  BY <1>7, <1>9, <1>10, <1>11
<1> QED  BY <1>7, <1>12

AllValid(s) == \A i \in DOMAIN s : ValidObservation(s[i])

LEMMA ChunksValid ==
    ASSUME NEW s, Len(s) \in Nat, DOMAIN s = 1 .. Len(s)
    PROVE  AllValid(s) <=> \A k \in DOMAIN ChunkList(s) : Valid(ChunkList(s)[k])
<1>1. DOMAIN ChunkList(s) = 1 .. Chunks(s)
  BY DEF ChunkList, Chunks
<1>2. ASSUME AllValid(s), NEW k \in 1 .. Chunks(s)
      PROVE  Valid(ChunkList(s)[k])
  <2>1. \A i \in DOMAIN ChunkList(s)[k] :
            /\ (k - 1) * ChunkSize + i \in DOMAIN s
            /\ ChunkList(s)[k][i] = s[(k - 1) * ChunkSize + i]
    BY ChunkFacts
  <2> QED  BY <1>2, <2>1 DEF AllValid, Valid
<1>3. ASSUME \A k \in 1 .. Chunks(s) : Valid(ChunkList(s)[k]), NEW j \in DOMAIN s
      PROVE  ValidObservation(s[j])
  BY <1>3, ChunkOf DEF Valid
<1> QED  BY <1>1, <1>2, <1>3 DEF AllValid

-----------------------------------------------------------------------------
(* Validation.                                                              *)

(* The chunks that are done are sorted into right and wrong ones, and the   *)
(* conversion starts with files without wrong ones.                         *)
CheckInv ==
    LET chunks == ChunkList(upload.observations) IN
    /\ upload \in Uploads
    /\ pc \in {"validate", "convert", "write", "refused", "stored", "failed"}
    /\ upload.sanitize /\ pc = "validate" =>
          /\ observations = upload.observations
          /\ unchecked \subseteq DOMAIN chunks
          /\ errors = {k \in DOMAIN chunks \ unchecked : ~ Valid(chunks[k])}
    /\ upload.sanitize /\ pc = "refused" => ~ AllValid(upload.observations)
    /\ upload.sanitize /\ pc \in {"convert", "write", "stored", "failed"} =>
          AllValid(upload.observations)

LEMMA CheckInit == Init => CheckInv
<1> SUFFICES ASSUME Init PROVE CheckInv
  OBVIOUS
<1>1. CASE upload.sanitize
  BY <1>1 DEF Init, CheckInv
<1>2. CASE ~ upload.sanitize
  BY <1>2 DEF Init, CheckInv
<1> QED  BY <1>1, <1>2

LEMMA CheckStep == CheckInv /\ [Next]_vars => CheckInv'
<1> SUFFICES ASSUME CheckInv, [Next]_vars
             PROVE  CheckInv'
  OBVIOUS
<1> DEFINE chunks == ChunkList(upload.observations)
<1>1. AllValid(upload.observations) <=> \A k \in DOMAIN chunks : Valid(chunks[k])
  BY SchemaAssumption, ChunksValid DEF CheckInv
<1>2. CASE ValidateChunk
  <2>1. PICK k \in unchecked :
            /\ unchecked' = unchecked \ {k}
            /\ errors' = IF Valid(ChunkList(observations)[k]) THEN errors
                         ELSE errors \cup {k}
    BY <1>2 DEF ValidateChunk
  <2>2. pc = "validate" /\ UNCHANGED <<upload, pc, observations>>
    BY <1>2 DEF ValidateChunk
  <2>3. upload.sanitize => k \in DOMAIN chunks
    BY <2>1, <2>2 DEF CheckInv
  <2> QED  BY <2>1, <2>2, <2>3 DEF CheckInv
<1>3. CASE Refuse
  <2>1. upload.sanitize => ~ AllValid(upload.observations)
    BY <1>1, <1>3 DEF Refuse, CheckInv
  <2> QED  BY <1>3, <2>1 DEF Refuse, CheckInv, AllValid
<1>4. CASE SanitizeRecords
  <2>1. upload.sanitize => AllValid(upload.observations)
    BY <1>1, <1>4 DEF SanitizeRecords, CheckInv
  <2> QED  BY <1>4, <2>1 DEF SanitizeRecords, CheckInv, AllValid
<1>5. CASE ConvertRecords \/ WriteParquet \/ Fail
  BY <1>5 DEF ConvertRecords, WriteParquet, Fail, CheckInv, AllValid
<1>6. CASE UNCHANGED vars
  BY <1>6 DEF vars, CheckInv, AllValid
<1> QED  BY <1>2, <1>3, <1>4, <1>5, <1>6 DEF Next

(* Wherever the chunks are cut, however many there are, and in whatever     *)
(* order the processes finish them, a file is refused exactly if one of its *)
(* observations is not valid.                                               *)
THEOREM RefusedIfInvalidCorrect == Spec => []RefusedIfInvalid
<1>1. CheckInv => RefusedIfInvalid
  BY DEF CheckInv, RefusedIfInvalid, AllValid
<1> QED  BY <1>1, CheckInit, CheckStep, PTL DEF Spec

-----------------------------------------------------------------------------
(* Conversion.                                                              *)

KeptIn(before, after) ==
    /\ DOMAIN after = DOMAIN before
    /\ \A c \in DOMAIN before :
          /\ after[c] \in JsonValues
          /\ c # "wind_to_direction" => after[c].value = before[c].value

KeptInv ==
    /\ DOMAIN observations = DOMAIN upload.observations
    /\ \A i \in DOMAIN observations :
          KeptIn(upload.observations[i], observations[i])

LEMMA FloatFacts ==
    ASSUME NEW v \in JsonValues
    PROVE  Float(v) \in JsonValues /\ Float(v).value = v.value
  BY DEF Float, JsonValues

LEMMA SanitizeKeeps ==
    ASSUME NEW before, NEW o, KeptIn(before, o)
    PROVE  KeptIn(before, Sanitize(o))
<1>1. DOMAIN Sanitize(o) = DOMAIN o
  BY DEF Sanitize
<1>2. \A c \in DOMAIN o : Sanitize(o)[c] \in {o[c], Float(o[c])}
  BY DEF Sanitize
<1> QED  BY <1>1, <1>2, FloatFacts DEF KeptIn

LEMMA ConvertKeeps ==
    ASSUME NEW before, NEW o, KeptIn(before, o), ~ Raises(o)
    PROVE  KeptIn(before, Convert(o))
<1>1. DOMAIN Convert(o) = DOMAIN o
  BY DEF Convert
<1>2. ASSUME NEW c \in DOMAIN o, c # "wind_to_direction"
      PROVE  Convert(o)[c] \in {o[c], Float(o[c])}
  BY <1>2 DEF Convert
<1>3. "wind_to_direction" \in DOMAIN o =>
          Convert(o)["wind_to_direction"] \in JsonValues
  <2> SUFFICES ASSUME "wind_to_direction" \in DOMAIN o
               PROVE  Convert(o)["wind_to_direction"] \in JsonValues
    OBVIOUS
  <2>1. "wind_from_direction" \in DOMAIN o
    BY DEF Raises
  <2>2. Convert(o)["wind_to_direction"] = Float(o["wind_from_direction"])
    BY DEF Convert
  <2> QED  BY <2>1, <2>2, FloatFacts DEF KeptIn
<1> QED  BY <1>1, <1>2, <1>3, FloatFacts DEF KeptIn

LEMMA KeptStep == KeptInv /\ [Next]_vars => KeptInv'
<1> SUFFICES ASSUME KeptInv, [Next]_vars
             PROVE  KeptInv'
  OBVIOUS
<1>1. CASE SanitizeRecords
  BY <1>1, SanitizeKeeps DEF SanitizeRecords, KeptInv
<1>2. CASE ConvertRecords
  BY <1>2, ConvertKeeps DEF ConvertRecords, KeptInv
<1>3. CASE UNCHANGED <<upload, observations>>
  BY <1>3 DEF KeptInv
<1> QED
  BY <1>1, <1>2, <1>3 DEF Next, ValidateChunk, Refuse, WriteParquet, Fail, vars

(* No conversion, neither of sanitized nor of other files, changes a value  *)
(* or mixes up two columns, except for the one direction.                   *)
THEOREM ValuesKeptCorrect == Spec => []ValuesKept
<1>1. Init => KeptInv
  BY ValuesAssumption DEF Init, KeptInv, KeptIn
<1>2. KeptInv => ValuesKept
  BY DEF KeptInv, KeptIn, ValuesKept
<1> QED  BY <1>1, <1>2, KeptStep, PTL DEF Spec

-----------------------------------------------------------------------------
(* Types.                                                                   *)

(* The chunks, the observations and their columns stay what they were.      *)
THEOREM TypeCorrect == Spec => []TypeOK
<1>1. Init => TypeOK
  <2> SUFFICES ASSUME Init PROVE TypeOK
    OBVIOUS
  <2>1. upload.sanitize \in BOOLEAN
    BY SchemaAssumption DEF Init
  <2> QED  BY <2>1 DEF Init, TypeOK
<1>2. TypeOK /\ KeptInv /\ [Next]_vars => TypeOK'
  <2> SUFFICES ASSUME TypeOK, KeptInv, [Next]_vars
               PROVE  TypeOK'
    OBVIOUS
  <2>1. CASE ValidateChunk
    <3>1. PICK k \in unchecked :
              /\ unchecked' = unchecked \ {k}
              /\ errors' \in {errors, errors \cup {k}}
      BY <2>1 DEF ValidateChunk
    <3> QED  BY <2>1, <3>1 DEF ValidateChunk, TypeOK
  <2>2. CASE Refuse \/ Fail
    BY <2>2 DEF Refuse, Fail, TypeOK
  <2>3. CASE SanitizeRecords
    BY <2>3 DEF SanitizeRecords, Sanitize, TypeOK
  <2>4. CASE ConvertRecords
    BY <2>4 DEF ConvertRecords, Convert, TypeOK
  <2>5. CASE WriteParquet
    <3>1. "time" \in DOMAIN StoredSchema(observations)
      BY <2>5 DEF WriteParquet, Merges, Partitioning, StoredSchema
    <3>2. StoredSchema(observations) # <<>>
      BY <3>1
    <3> QED  BY <2>5, <3>2 DEF WriteParquet, TypeOK
  <2>6. CASE UNCHANGED vars
    BY <2>6 DEF vars, TypeOK
  <2> QED  BY <2>1, <2>2, <2>3, <2>4, <2>5, <2>6 DEF Next
<1>3. Init => KeptInv
  BY ValuesAssumption DEF Init, KeptInv, KeptIn
<1> QED  BY <1>1, <1>2, <1>3, KeptStep, PTL DEF Spec

(* Once sanitized, every number is a float and stays one; all else keeps    *)
(* the type it came with.                                                   *)
SanitizedIn(before, after) ==
    /\ DOMAIN after = DOMAIN before
    /\ \A c \in DOMAIN before :
          after[c].type = IF Types[c] = <<"number">> THEN "float" ELSE before[c].type

SanitizedInv ==
    upload.sanitize =>
        /\ pc = "validate" => observations = upload.observations
        /\ pc \in {"convert", "write", "stored"} =>
              /\ DOMAIN observations = DOMAIN upload.observations
              /\ \A i \in DOMAIN observations :
                    SanitizedIn(upload.observations[i], observations[i])
        /\ pc = "stored" => /\ Merges(observations)
                            /\ parquet = StoredSchema(observations)

LEMMA FloatType ==
    ASSUME NEW v \in JsonValues
    PROVE  Float(v).type = "float"
  BY DEF Float, JsonValues

LEMMA SanitizeTypes ==
    ASSUME NEW o, DOMAIN o \subseteq SchemaColumns,
           \A c \in DOMAIN o : o[c] \in JsonValues
    PROVE  SanitizedIn(o, Sanitize(o))
<1>1. DOMAIN Sanitize(o) = DOMAIN o
  BY DEF Sanitize
<1>2. ASSUME NEW c \in DOMAIN o
      PROVE  Sanitize(o)[c] = IF Types[c] = <<"number">> THEN Float(o[c]) ELSE o[c]
  BY <1>2 DEF Sanitize
<1> QED  BY <1>1, <1>2, FloatType DEF SanitizedIn

LEMMA ConvertTypes ==
    ASSUME NEW before, NEW o, SanitizedIn(before, o), KeptIn(before, o),
           DOMAIN before \subseteq SchemaColumns, ~ Raises(o)
    PROVE  SanitizedIn(before, Convert(o))
<1> DEFINE floats == {"depth", "wind_from_direction", "wind_to_direction"}
<1>1. DOMAIN Convert(o) = DOMAIN o /\ DOMAIN o = DOMAIN before
  BY DEF Convert, SanitizedIn
<1>2. ASSUME NEW c \in DOMAIN o
      PROVE  Convert(o)[c].type = IF Types[c] = <<"number">>
                                  THEN "float" ELSE before[c].type
  <2>1. CASE c \in {"depth", "wind_from_direction"}
    <3>1. Types[c] = <<"number">>
      BY <1>1, <2>1, ColumnTypesAssumption
    <3>2. Convert(o)[c] = Float(o[c]) /\ o[c] \in JsonValues
      BY <1>1, <2>1 DEF Convert, KeptIn
    <3> QED  BY <3>1, <3>2, FloatType
  <2>2. CASE c = "wind_to_direction"
    <3>1. Types[c] = <<"number">>
      BY <1>1, <2>2, ColumnTypesAssumption
    <3>2. "wind_from_direction" \in DOMAIN o
      BY <2>2 DEF Raises
    <3>3. Convert(o)[c] = Float(o["wind_from_direction"])
      BY <2>2 DEF Convert
    <3>4. o["wind_from_direction"] \in JsonValues
      BY <1>1, <3>2 DEF KeptIn
    <3> QED  BY <3>1, <3>3, <3>4, FloatType
  <2>3. CASE c \notin floats
    <3>1. Convert(o)[c] = o[c]
      BY <2>3 DEF Convert
    <3> QED  BY <1>1, <3>1 DEF SanitizedIn
  <2> QED  BY <2>1, <2>2, <2>3
<1> QED  BY <1>1, <1>2 DEF SanitizedIn

LEMMA SanitizedStep ==
    ASSUME CheckInv, CheckInv', KeptInv, SanitizedInv, [Next]_vars
    PROVE  SanitizedInv'
<1> SUFFICES ASSUME upload'.sanitize PROVE SanitizedInv'
  BY DEF SanitizedInv
<1>1. upload' = upload /\ upload.sanitize
  BY DEF Next, vars, ValidateChunk, Refuse, SanitizeRecords, ConvertRecords,
     WriteParquet, Fail
<1>2. pc \in {"convert", "write", "stored"} \/ pc' = "convert" =>
          \A i \in DOMAIN upload.observations :
              DOMAIN upload.observations[i] \subseteq SchemaColumns
  BY <1>1 DEF CheckInv, AllValid, ValidObservation
<1>3. CASE ValidateChunk
  BY <1>1, <1>3 DEF ValidateChunk, SanitizedInv
<1>4. CASE Refuse \/ Fail
  BY <1>4 DEF Refuse, Fail, SanitizedInv
<1>5. CASE SanitizeRecords
  <2>1. /\ observations = upload.observations /\ pc' = "convert"
        /\ observations' = [i \in DOMAIN observations |-> Sanitize(observations[i])]
    BY <1>1, <1>5 DEF SanitizeRecords, SanitizedInv
  <2>2. \A i \in DOMAIN observations :
            SanitizedIn(upload.observations[i], observations'[i])
    BY <1>2, <2>1, SanitizeTypes DEF KeptInv, KeptIn
  <2> QED  BY <1>1, <2>1, <2>2 DEF SanitizedInv
<1>6. CASE ConvertRecords
  <2>1. /\ pc = "convert" /\ pc' = "write"
        /\ observations' = [i \in DOMAIN observations |-> Convert(observations[i])]
        /\ \A i \in DOMAIN observations : ~ Raises(observations[i])
    BY <1>6 DEF ConvertRecords
  <2>2. \A i \in DOMAIN observations :
            SanitizedIn(upload.observations[i], observations'[i])
    BY <1>1, <1>2, <2>1, ConvertTypes DEF KeptInv, SanitizedInv
  <2> QED  BY <1>1, <2>1, <2>2 DEF SanitizedInv
<1>7. CASE WriteParquet
  BY <1>1, <1>7 DEF WriteParquet, SanitizedInv
<1>8. CASE UNCHANGED vars
  BY <1>8 DEF vars, SanitizedInv
<1> QED  BY <1>3, <1>4, <1>5, <1>6, <1>7, <1>8 DEF Next

(* The one type a column is read with is that of all its valid values,      *)
(* "meta" and quality flags of the type the reader expects presumed.        *)
LEMMA TypeRead ==
    ASSUME NEW before, ValidObservation(before), NEW after, SanitizedIn(before, after),
           NEW c \in DOMAIN before,
           c \in Qualities => before[c].type = "int",
           c = "meta" => before[c].type = "str"
    PROVE  c \in SchemaColumns /\ InferredType[after[c].type] = ReaderSchema[c]
<1>1. /\ c \in SchemaColumns
      /\ \E t \in JsonTypes(c) : before[c].type \in Accepts[t]
  BY DEF ValidObservation
<1>2. ReaderSchema[c] = SparkType[JsonDatatype(c)]
  BY <1>1 DEF ReaderSchema
<1>3. CASE Types[c] = <<"number">>
  <2>1. after[c].type = "float"
    BY <1>3 DEF SanitizedIn
  <2>2. JsonDatatype(c) = "number"
    BY <1>3 DEF JsonDatatype
  <2> QED  BY <1>1, <1>2, <2>1, <2>2 DEF InferredType, SparkType
<1>4. CASE Types[c] = <<"string">>
  <2>1. JsonTypes(c) = {"string"}
    BY <1>4 DEF JsonTypes
  <2>2. before[c].type = "str"
    BY <1>1, <2>1 DEF Accepts
  <2>3. after[c].type = "str"
    BY <1>4, <2>2 DEF SanitizedIn
  <2>4. JsonDatatype(c) = "string"
    BY <1>4 DEF JsonDatatype
  <2> QED  BY <1>1, <1>2, <2>3, <2>4 DEF InferredType, SparkType
<1>5. CASE Types[c] = <<>> /\ c \in Qualities
  <2>1. Types[c] # <<"number">>
    BY <1>5
  <2>2. before[c].type = "int"
    BY <1>1, <1>5 DEF Accepts, JsonTypes
  <2>3. after[c].type = "int"
    BY <2>1, <2>2 DEF SanitizedIn
  <2>4. JsonDatatype(c) = "long"
    BY <1>5 DEF JsonDatatype
  <2> QED  BY <1>1, <1>2, <2>3, <2>4 DEF InferredType, SparkType
<1>6. CASE Types[c] = <<>> /\ c \notin Qualities
  <2>1. JsonTypes(c) = {"object"}
    BY <1>6 DEF JsonTypes
  <2>2. before[c].type = "dict"
    BY <1>1, <2>1 DEF Accepts
  <2>3. after[c].type = "dict"
    BY <1>6, <2>2 DEF SanitizedIn
  <2>4. JsonDatatype(c) = "platform"
    BY <1>6 DEF JsonDatatype
  <2> QED  BY <1>1, <1>2, <2>3, <2>4 DEF InferredType, SparkType
<1>7. CASE c = "meta" /\ Types[c] = <<"string", "object">>
  <2>1. after[c].type = "str"
    BY <1>7 DEF SanitizedIn
  <2>2. JsonDatatype(c) = "string"
    BY <1>7 DEF JsonDatatype
  <2> QED  BY <1>1, <1>2, <2>1, <2>2 DEF InferredType, SparkType
<1> QED  BY <1>1, <1>3, <1>4, <1>5, <1>6, <1>7, ColumnTypesAssumption

(* Whatever numbers look like in a sanitized file, its columns are stored   *)
(* with the types searches and statistics read them with.                   *)
THEOREM SanitizedReadableCorrect == Spec => []SanitizedReadable
<1>1. Init => KeptInv /\ SanitizedInv
  <2> SUFFICES ASSUME Init PROVE KeptInv /\ SanitizedInv
    OBVIOUS
  <2>1. KeptInv
    BY ValuesAssumption DEF Init, KeptInv, KeptIn
  <2>2. SanitizedInv
    BY DEF Init, SanitizedInv
  <2> QED  BY <2>1, <2>2
<1>2. CheckInv /\ SanitizedInv => SanitizedReadable
  <2> SUFFICES ASSUME CheckInv, SanitizedInv, pc = "stored", upload.sanitize,
                      \A i \in DOMAIN upload.observations :
                          \A c \in DOMAIN upload.observations[i] :
                              /\ c \in Qualities =>
                                    upload.observations[i][c].type = "int"
                              /\ c = "meta" => upload.observations[i][c].type = "str",
                      NEW c \in DOMAIN parquet \cap SchemaColumns
               PROVE  parquet[c] = ReaderSchema[c]
    BY DEF SanitizedReadable, Readable
  <2>1. ASSUME NEW i \in DOMAIN observations, c \in DOMAIN observations[i]
        PROVE  InferredType[observations[i][c].type] = ReaderSchema[c]
    <3>1. /\ i \in DOMAIN upload.observations
          /\ SanitizedIn(upload.observations[i], observations[i])
          /\ ValidObservation(upload.observations[i])
      BY <2>1 DEF CheckInv, AllValid, SanitizedInv
    <3>2. c \in DOMAIN upload.observations[i]
      BY <2>1, <3>1 DEF SanitizedIn
    <3> QED  BY <3>1, <3>2, TypeRead
  <2>2. /\ c \in ColumnsOf(observations)
        /\ parquet[c] = CHOOSE t \in TypesIn(observations, c) : TRUE
    BY DEF SanitizedInv, StoredSchema
  <2>3. TypesIn(observations, c) = {ReaderSchema[c]}
    <3>1. PICK i \in DOMAIN observations : c \in DOMAIN observations[i]
      BY <2>2 DEF ColumnsOf
    <3> QED  BY <2>1, <3>1 DEF TypesIn
  <2> QED  BY <2>2, <2>3
<1>3. CheckInv /\ KeptInv /\ SanitizedInv /\ [Next]_vars => SanitizedInv'
  BY CheckStep, SanitizedStep
<1> QED  BY <1>1, <1>2, <1>3, CheckInit, CheckStep, KeptStep, PTL DEF Spec

=============================================================================
