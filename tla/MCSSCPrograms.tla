--------------------------- MODULE MCSSCPrograms ---------------------------
(* Small instances of SSCPrograms and SSCSensorDrivers for TLC. *)
EXTENDS SSCPrograms

Says(id, values, value) ==
    [kind |-> "measurement", id |-> id, values |-> values, value |-> value]

\* For each driver: values that differ to the application, one too few, one
\* out of range, a message of another kind.
SomeReadings ==
    [accel         |-> {Says(1025, 3, 1), Says(1025, 2, 1)},
     gyro          |-> {Says(1025, 4, 1), Says(1025, 2, 1)},
     mag           |-> {Says(1025, 3, 2), Says(769, 3, 2)},
     ambient_light |-> {Says(1025, 1, 0), Says(1025, 2, -5), Says(1025, 0, 5)},
     rotv          |-> {Says(1025, 4, -90), Says(1025, 4, 180), Says(1025, 3, 10)},
     proximity     |-> {Says(769, 1, 0), Says(1025, 1, 1), Says(1025, 0, 1), Says(769, 1, 2)}]

SomeMeasurements == UNION {SomeReadings[t] : t \in Types}

\* An acceleration and a turned mounting.
Turned == -1

============================================================================
