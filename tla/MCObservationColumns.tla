------------------------ MODULE MCObservationColumns ------------------------
(* Files of up to three observations, validated in chunks of two.           *)
EXTENDS ObservationColumns, TLC

MCTypes ==
    [time |-> <<"string">>, latitude |-> <<"number">>, longitude |-> <<"number">>,
     depth |-> <<"number">>, wind_speed |-> <<"number">>, wind_speed_quality |-> <<>>,
     wind_from_direction |-> <<"number">>, wind_to_direction |-> <<"number">>,
     platform |-> <<>>, meta |-> <<"string", "object">>]

Value(t, n) == [type |-> t, value |-> n]

Plain == [time |-> Value("str", 1), latitude |-> Value("int", 2),
          longitude |-> Value("float", 3), depth |-> Value("int", 4),
          platform |-> Value("dict", 5)]

With(c, t, n) == (c :> Value(t, n)) @@ Plain
Without(c, o) == [d \in DOMAIN o \ {c} |-> o[d]]

(* Numbers in both forms, one direction and both, quality flags and "meta"  *)
(* in both forms, a wrong type, a missing and an unknown column.            *)
MCObservations ==
    {Plain, Without("depth", With("wind_speed", "int", 9)),
     Without("platform", With("wind_speed", "int", 9)), With("depth", "float", 6),
     With("wind_speed", "str", 0), With("unknown", "int", 0),
     With("wind_from_direction", "int", 7), With("wind_to_direction", "int", 8),
     ("wind_from_direction" :> Value("float", 7)) @@ With("wind_to_direction", "int", 8)}
    \cup {With("wind_speed", t, 9) : t \in {"int", "float"}}
    \cup {With("wind_speed_quality", t, 1) : t \in {"int", "float"}}
    \cup {With("meta", t, 0) : t \in {"str", "dict"}}

MCUploads ==
    [observations : UNION {[1 .. n -> MCObservations] : n \in 1 .. 3},
     sanitize : BOOLEAN]

=============================================================================
