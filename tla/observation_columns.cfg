SPECIFICATION Spec
CONSTANTS
    Types <- MCTypes
    Qualities = {"wind_speed_quality"}
    Required = {"time", "latitude", "longitude", "depth"}
    MinProperties = 5
    ChunkSize = 2
    Uploads <- MCUploads
INVARIANTS
    TypeOK
    RefusedIfInvalid
    SanitizedReadable
    ValuesKept
\* A file is ingested once.
CHECK_DEADLOCK FALSE
