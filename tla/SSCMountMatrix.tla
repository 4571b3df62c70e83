--------------------------- MODULE SSCMountMatrix ---------------------------
(***************************************************************************)
(* The mount matrix of a sensor: how report_received reads it from the     *)
(* attributes (src/src/libssc-sensor.c) and how the accelerometer applies  *)
(* it to a measurement (src/src/libssc-sensor-accelerometer.c).            *)
(*                                                                         *)
(* A gfloat is a whole number of units, One of which make 1.0.  The matrix *)
(* is a function on 0 .. 8, row by row, as the code's j/3 and j%3 have it. *)
(***************************************************************************)
EXTENDS Integers, Sequences

CONSTANTS
    One,        \* units in 1.0
    Reports,    \* the values the firmware may report, each [has_f, f]
    Readings    \* the accelerations the sensor may measure

ASSUME MountAssumption ==
    /\ One \in Nat \ {0}
    /\ Reports \subseteq Seq([has_f : BOOLEAN, f : Int])
    /\ Readings \subseteq [0 .. 2 -> Int]

VARIABLES
    values,     \* the firmware's attribute
    matrix,     \* priv->mount_matrix
    phase,      \* "new", "read" (the attributes), "measured"
    reading,    \* what the sensor measured
    mounted     \* what the "measurement" signal says, in units of One squared

vars == <<values, matrix, phase, reading, mounted>>

Cells == 0 .. 8
Identity == [j \in Cells |-> IF j \in {0, 4, 8} THEN One ELSE 0]
Still == [i \in 0 .. 2 |-> 0]

TypeOK ==
    /\ values \in Reports
    /\ matrix \in [Cells -> Int]
    /\ phase \in {"new", "read", "measured"}
    /\ reading \in Readings \cup {Still}
    /\ mounted \in [0 .. 2 -> Int]

\* The first nine values, where there are so many and they are floats.
\* (mutants: one value too few; as many as there are)
CopyEight(m, vals) ==
    [j \in Cells |-> IF j + 1 < Len(vals) /\ vals[j + 1].has_f THEN vals[j + 1].f ELSE m[j]]
CopyAll(m, vals) ==
    [j \in Cells \cup 0 .. Len(vals) - 1 |->
        IF j < Len(vals) /\ vals[j + 1].has_f THEN vals[j + 1].f ELSE m[j]]
CopyValues(m, vals) ==
    [j \in Cells |-> IF j < Len(vals) /\ vals[j + 1].has_f THEN vals[j + 1].f ELSE m[j]]

\* The conversion of a gfloat to a gint drops the fraction.
Truncate(units) == IF units >= 0 THEN units \div One ELSE -((-units) \div One)

\* "gint sum" loses the fraction at every "sum += ...".
CellSum(m) ==
    LET sum[k \in 0 .. 9] ==
          IF k = 0 THEN 0 ELSE Truncate(sum[k - 1] * One + m[k - 1])
    IN  sum[9]

\* The fallback sets the diagonal and leaves the other cells.
Fallback(m) == [j \in Cells |-> IF j \in {0, 4, 8} THEN One ELSE m[j]]

Populate(m, vals) ==
    LET copied == CopyValues(m, vals)
    IN  IF CellSum(copied) = 0 THEN Fallback(copied) ELSE copied

\* The matrix applied to a reading: rows times the reading.
\* (mutant: rows and columns swapped, with one cell taken twice)
MountSlipped(m, r) ==
    [i \in 0 .. 2 |-> m[3 * i] * r[0] + m[3 * i + 1] * r[1] + m[3 * i + 1] * r[2]]
Mount(m, r) ==
    [i \in 0 .. 2 |-> m[3 * i] * r[0] + m[3 * i + 1] * r[1] + m[3 * i + 2] * r[2]]

Init ==
    /\ values \in Reports
    /\ matrix = Identity
    /\ phase = "new"
    /\ reading = Still /\ mounted = Still

ReadAttributes ==
    /\ phase = "new"
    /\ phase' = "read"
    /\ matrix' = Populate(matrix, values)
    /\ UNCHANGED <<values, reading, mounted>>

Measure ==
    /\ phase # "new"
    /\ phase' = "measured"
    /\ \E r \in Readings : reading' = r /\ mounted' = Mount(matrix, r)
    /\ UNCHANGED <<values, matrix>>

Next == ReadAttributes \/ Measure

Spec == Init /\ [][Next]_vars

-----------------------------------------------------------------------------
(* Properties *)

\* "Fallback to identity matrix in case matrix is all 0"
\* (libssc-sensor.c:409): the sensor is mounted as the firmware says, or,
\* where the firmware says nothing but zeros, along the device's axes.  This is
\* of firmware that reports a 3x3 matrix.  Of a 3x4 one the code takes "the
\* first 9 values" (line 402) and the documentation "only the first 3 columns"
\* (docs/Qualcomm-Sensorcore-Docs.md:1295): row by row these are different
\* values, and what such firmware says is left open.
FirmwareOrIdentity ==
    phase # "new" /\ Len(values) <= 9 =>
        LET said == CopyValues(Identity, values)
        IN  matrix = IF \A j \in Cells : said[j] = 0 THEN Identity ELSE said

\* Mounting along the axes neither stretches nor shrinks an acceleration,
\* where the first nine values are the matrix (as line 402 has it).
MagnitudeKept ==
    phase = "measured" =>
        mounted[0] * mounted[0] + mounted[1] * mounted[1] + mounted[2] * mounted[2]
          = One * One * (reading[0] * reading[0] + reading[1] * reading[1] + reading[2] * reading[2])

=============================================================================
