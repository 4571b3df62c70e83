-------------------------- MODULE MCSSCMountMatrix --------------------------
(* Small instances of SSCMountMatrix for TLC. *)
EXTENDS SSCMountMatrix, TLC

Float(n) == [has_f |-> TRUE, f |-> n]

\* A sensor soldered along the axes of the device: a permutation of the axes
\* with a sign for each.
Axes ==
    {[j \in Cells |-> IF p[j \div 3] = j % 3 THEN s[j \div 3] * One ELSE 0] :
        p \in Permutations(0 .. 2), s \in [0 .. 2 -> {-1, 1}]}

Nothing == [j \in Cells |-> 0]

\* Nine values, or twelve.  The first nine of the twelve are the matrix, which
\* is how the code reads them (libssc-sensor.c:402); the documentation's 3x4
\* matrix of which the first three columns count would have the others in
\* between (docs/Qualcomm-Sensorcore-Docs.md:1295).
Nine(m) == [j \in 1 .. 9 |-> Float(m[j - 1])]
Twelve(m) == Nine(m) \o <<Float(One), Float(3), Float(-One)>>

AxisReports ==
    {<<>>, [j \in 1 .. 9 |-> [has_f |-> FALSE, f |-> 0]]}
      \cup {Nine(m) : m \in Axes \cup {Nothing}} \cup {Twelve(m) : m \in Axes \cup {Nothing}}

SomeReadings == {[i \in 0 .. 2 |-> IF i = k THEN 2 ELSE i - 1] : k \in 0 .. 2}

=============================================================================
