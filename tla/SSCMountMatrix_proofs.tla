------------------------ MODULE SSCMountMatrix_proofs ------------------------
(***************************************************************************)
(* Theorems about the mount matrix: what the sum of its cells says of it,  *)
(* and what it does to a measurement.                                      *)
(***************************************************************************)
EXTENDS SSCMountMatrix, SequenceTheorems, TLAPS

\* The type of the values of a report, and of their number.
LEMMA ReportType ==
    ASSUME NEW vals \in Reports
    PROVE  Len(vals) \in Nat /\ \A j \in 1 .. Len(vals) : vals[j].f \in Int
<1>1. vals \in Seq([has_f : BOOLEAN, f : Int])
    BY MountAssumption
<1>2. Len(vals) \in Nat /\ \A j \in 1 .. Len(vals) : vals[j] \in [has_f : BOOLEAN, f : Int]
    BY <1>1, ElementOfSeq, LenProperties
<1> QED
    BY <1>2

\* Whatever is read is a matrix, and so is the fallback.
LEMMA MatrixType ==
    ASSUME NEW m \in [Cells -> Int], NEW vals \in Reports
    PROVE  /\ CopyValues(m, vals) \in [Cells -> Int] /\ Populate(m, vals) \in [Cells -> Int]
           /\ Identity \in [Cells -> Int]
<1>0. One \in Int
    BY MountAssumption
<1>1. CopyValues(m, vals) \in [Cells -> Int]
    BY ReportType DEF CopyValues, Cells
<1> DEFINE c == CopyValues(m, vals)
<1>2. Fallback(c) \in [Cells -> Int]
    BY <1>0, <1>1 DEF Fallback
<1>3. Populate(m, vals) \in {c, Fallback(c)}
    BY DEF Populate
<1> QED
    BY <1>0, <1>1, <1>2, <1>3 DEF Identity

\* A matrix applied to a reading is a reading.
LEMMA MountType ==
    ASSUME NEW m \in [Cells -> Int], NEW r \in [0 .. 2 -> Int]
    PROVE  Mount(m, r) \in [0 .. 2 -> Int]
<1> SUFFICES ASSUME NEW i \in 0 .. 2
             PROVE  m[3 * i] * r[0] + m[3 * i + 1] * r[1] + m[3 * i + 2] * r[2] \in Int
    BY DEF Mount
<1>1. 3 * i \in Cells /\ 3 * i + 1 \in Cells /\ 3 * i + 2 \in Cells
    BY DEF Cells
<1>2. m[3 * i] \in Int /\ m[3 * i + 1] \in Int /\ m[3 * i + 2] \in Int
    BY <1>1
<1>3. r[0] \in Int /\ r[1] \in Int /\ r[2] \in Int
    OBVIOUS
<1>4. \A a, b \in Int : a * b \in Int /\ a + b \in Int
    OBVIOUS
<1> QED
    BY <1>2, <1>3, <1>4

\* Every step keeps the types, with whatever the firmware reports.
LEMMA MountNextTypeOK == TypeOK /\ [Next]_vars => TypeOK'
<1> SUFFICES ASSUME TypeOK, [Next]_vars PROVE TypeOK'
    OBVIOUS
<1>1. CASE ReadAttributes
    BY <1>1, MatrixType DEF ReadAttributes, TypeOK
<1>2. CASE Measure
    BY <1>2, MountType, MountAssumption DEF Measure, TypeOK
<1>3. CASE UNCHANGED vars
    BY <1>3 DEF vars, TypeOK
<1> QED
    BY <1>1, <1>2, <1>3 DEF Next

\* Every mount matrix has nine cells and every measurement three values,
\* however many values the firmware reports and whatever they are.
THEOREM MountTypeCorrect == Spec => []TypeOK
<1>1. Init => TypeOK
    BY MountAssumption DEF Init, TypeOK, Identity, Still
<1> QED
    BY <1>1, MountNextTypeOK, PTL DEF Spec

-----------------------------------------------------------------------------
(* The sum that decides whether the firmware said anything *)

\* A whole number of Ones loses nothing in the conversion to a gint.
LEMMA TruncateWhole ==
    ASSUME NEW n \in Int
    PROVE  Truncate(n * One) = n
<1>0. One \in Nat \ {0}
    BY MountAssumption
<1>1. ASSUME NEW k \in Nat PROVE (k * One) \div One = k /\ k * One >= 0
    BY <1>0
<1>2. CASE n >= 0
    BY <1>0, <1>1, <1>2 DEF Truncate
<1>3. CASE n < 0
    <2>1. -n \in Nat /\ -(n * One) = (-n) * One /\ ~(n * One >= 0)
        BY <1>0, <1>3
    <2> QED
        BY <1>1, <2>1 DEF Truncate
<1> QED
    BY <1>2, <1>3

\* There is a function of the running sums, so CellSum is the last of them.
Runs(f, m) ==
    f = [k \in 0 .. 9 |-> IF k = 0 THEN 0 ELSE Truncate(f[k - 1] * One + m[k - 1])]

\* It is made by summing the nine cells one by one.
LEMMA RunsExists == ASSUME NEW m PROVE \E f : Runs(f, m)
<1> DEFINE next(v, j) == Truncate(v * One + m[j])
           v1 == next(0, 0)
           v2 == next(v1, 1)
           v3 == next(v2, 2)
           v4 == next(v3, 3)
           v5 == next(v4, 4)
           v6 == next(v5, 5)
           v7 == next(v6, 6)
           v8 == next(v7, 7)
           v9 == next(v8, 8)
<1> HIDE DEF v1, v2, v3, v4, v5, v6, v7, v8, v9, next
<1> DEFINE f == [k \in 0 .. 9 |->
             IF k = 0 THEN 0 ELSE IF k = 1 THEN v1 ELSE IF k = 2 THEN v2 ELSE IF k = 3 THEN v3
             ELSE IF k = 4 THEN v4 ELSE IF k = 5 THEN v5 ELSE IF k = 6 THEN v6
             ELSE IF k = 7 THEN v7 ELSE IF k = 8 THEN v8 ELSE v9]
<1>1. \A k \in 0 .. 9 : f[k] = IF k = 0 THEN 0 ELSE next(f[k - 1], k - 1)
    BY DEF v1, v2, v3, v4, v5, v6, v7, v8, v9
<1>2. f = [k \in 0 .. 9 |-> f[k]]
    OBVIOUS
<1> HIDE DEF f
<1>3. f = [k \in 0 .. 9 |-> IF k = 0 THEN 0 ELSE next(f[k - 1], k - 1)]
    BY <1>1, <1>2
<1> QED
    BY <1>3 DEF Runs, next

\* What the running sums are, one from the other.
LEMMA SumRuns ==
    ASSUME NEW m
    PROVE  \E f : /\ CellSum(m) = f[9] /\ f[0] = 0
                  /\ \A k \in 1 .. 9 : f[k] = Truncate(f[k - 1] * One + m[k - 1])
<1> DEFINE f == CHOOSE g : Runs(g, m)
<1>1. CellSum(m) = f[9]
    BY DEF CellSum, Runs
<1>2. Runs(f, m)
    BY RunsExists
<1> HIDE DEF f
<1>3. \A k \in 0 .. 9 : f[k] = IF k = 0 THEN 0 ELSE Truncate(f[k - 1] * One + m[k - 1])
    BY <1>2, Zenon DEF Runs
<1>4. f[0] = 0
    BY <1>3
<1>5. \A k \in 1 .. 9 : f[k] = Truncate(f[k - 1] * One + m[k - 1])
    BY <1>3
<1> QED
    BY <1>1, <1>4, <1>5

\* The cells are whole numbers, w of them.
Whole(m, w) == w \in [Cells -> Int] /\ \A j \in Cells : m[j] = w[j] * One

\* Of whole numbers nothing is lost: the sum is theirs.
LEMMA WholeSum ==
    ASSUME NEW m, NEW w, Whole(m, w)
    PROVE  CellSum(m) = w[0] + w[1] + w[2] + w[3] + w[4] + w[5] + w[6] + w[7] + w[8]
<1>0. One \in Int /\ \A j \in Cells : w[j] \in Int /\ m[j] = w[j] * One
    BY MountAssumption DEF Whole
<1>1. PICK f : /\ CellSum(m) = f[9] /\ f[0] = 0
               /\ \A k \in 1 .. 9 : f[k] = Truncate(f[k - 1] * One + m[k - 1])
    BY SumRuns
<1>2. ASSUME NEW j \in Cells, NEW v \in Int, f[j] = v
      PROVE  f[j + 1] = v + w[j] /\ v + w[j] \in Int
    <2>1. j + 1 \in 1 .. 9 /\ (j + 1) - 1 = j
        BY DEF Cells
    <2>2. f[j + 1] = Truncate(v * One + w[j] * One)
        BY <1>0, <1>1, <1>2, <2>1
    <2>3. v * One + w[j] * One = (v + w[j]) * One /\ v + w[j] \in Int
        BY <1>0
    <2> QED
        BY <2>2, <2>3, TruncateWhole
<1>3. 0 \in Int /\ f[0] = 0 /\ Cells = {0, 1, 2, 3, 4, 5, 6, 7, 8}
    BY <1>1 DEF Cells
<1>4. \A j \in Cells : f[j] \in Int => f[j + 1] = f[j] + w[j] /\ f[j + 1] \in Int
    BY <1>2
<1>5. f[1] = w[0] /\ f[1] \in Int
    BY <1>0, <1>3, <1>4
<1>6. f[2] = w[0] + w[1] /\ f[2] \in Int
    BY <1>3, <1>4, <1>5
<1>7. f[3] = w[0] + w[1] + w[2] /\ f[3] \in Int
    BY <1>3, <1>4, <1>6
<1>8. f[4] = w[0] + w[1] + w[2] + w[3] /\ f[4] \in Int
    BY <1>3, <1>4, <1>7
<1>9. f[5] = w[0] + w[1] + w[2] + w[3] + w[4] /\ f[5] \in Int
    BY <1>3, <1>4, <1>8
<1>10. f[6] = w[0] + w[1] + w[2] + w[3] + w[4] + w[5] /\ f[6] \in Int
    BY <1>3, <1>4, <1>9
<1>11. f[7] = w[0] + w[1] + w[2] + w[3] + w[4] + w[5] + w[6] /\ f[7] \in Int
    BY <1>3, <1>4, <1>10
<1>12. f[8] = w[0] + w[1] + w[2] + w[3] + w[4] + w[5] + w[6] + w[7] /\ f[8] \in Int
    BY <1>3, <1>4, <1>11
<1>13. f[9] = w[0] + w[1] + w[2] + w[3] + w[4] + w[5] + w[6] + w[7] + w[8]
    BY <1>3, <1>4, <1>12
<1> QED
    BY <1>1, <1>13

-----------------------------------------------------------------------------
(* What the firmware says is how the sensor is mounted *)

\* What the code reads the firmware to say (its first nine values), and where
\* that does not cancel out:
\* whole cells, whose sum is only zero where they all are.
Said(vals) == CopyValues(Identity, vals)
Telling(m) ==
    \E w : /\ Whole(m, w)
           /\ w[0] + w[1] + w[2] + w[3] + w[4] + w[5] + w[6] + w[7] + w[8] = 0 =>
                \A j \in Cells : w[j] = 0

\* Such a matrix is replaced exactly where it says nothing.
LEMMA PopulateTelling ==
    ASSUME NEW vals \in Reports, Telling(Said(vals))
    PROVE  Populate(Identity, vals) =
                IF \A j \in Cells : Said(vals)[j] = 0 THEN Identity ELSE Said(vals)
<1> DEFINE m == Said(vals)
<1>0. One \in Nat \ {0}
    BY MountAssumption
<1>1. PICK w : /\ Whole(m, w)
               /\ w[0] + w[1] + w[2] + w[3] + w[4] + w[5] + w[6] + w[7] + w[8] = 0 =>
                    \A j \in Cells : w[j] = 0
    BY DEF Telling
<1>2. \A a \in Int : a * One = 0 <=> a = 0
    BY <1>0
<1>3. (\A j \in Cells : m[j] = 0) <=> (\A j \in Cells : w[j] = 0)
    BY <1>1, <1>2 DEF Whole
<1>4. CellSum(m) = w[0] + w[1] + w[2] + w[3] + w[4] + w[5] + w[6] + w[7] + w[8]
    BY <1>1, WholeSum
<1>5. CellSum(m) = 0 <=> \A j \in Cells : m[j] = 0
    <2>1. (\A j \in Cells : w[j] = 0) => CellSum(m) = 0
        BY <1>4 DEF Cells
    <2> QED
        BY <1>1, <1>3, <1>4, <2>1
<1>6. (\A j \in Cells : m[j] = 0) => Fallback(m) = Identity
    BY DEF Fallback, Identity
<1> QED
    BY <1>5, <1>6 DEF Populate, Said

\* What is known of the matrix and of the measurement at every moment.
MountInv ==
    /\ TypeOK
    /\ phase = "new" => matrix = Identity
    /\ phase # "new" => matrix = Populate(Identity, values)
    /\ phase = "measured" => reading \in Readings /\ mounted = Mount(matrix, reading)

\* The attributes are read once, and every measurement is mounted after that.
LEMMA MountInvariant == Spec => []MountInv
<1>1. Init => MountInv
    BY MountAssumption DEF Init, MountInv, TypeOK, Identity, Still
<1>2. MountInv /\ [Next]_vars => MountInv'
    <2> SUFFICES ASSUME MountInv, [Next]_vars PROVE MountInv'
        OBVIOUS
    <2>1. TypeOK'
        BY MountNextTypeOK DEF MountInv
    <2>2. CASE ReadAttributes
        BY <2>1, <2>2 DEF ReadAttributes, MountInv
    <2>3. CASE Measure
        BY <2>1, <2>3 DEF Measure, MountInv
    <2>4. CASE UNCHANGED vars
        BY <2>1, <2>4 DEF vars, MountInv
    <2> QED
        BY <2>2, <2>3, <2>4 DEF Next
<1> QED
    BY <1>1, <1>2, PTL DEF Spec

\* A sensor is mounted as the firmware says, or along the device's axes where
\* the firmware says nothing, for every firmware whose 3x3 matrices have whole
\* cells that do not cancel out.
THEOREM FirmwareDecides ==
    ASSUME \A vals \in Reports : Len(vals) <= 9 => Telling(Said(vals))
    PROVE  Spec => []FirmwareOrIdentity
<1>1. MountInv => FirmwareOrIdentity
    <2> SUFFICES ASSUME MountInv, phase # "new", Len(values) <= 9 PROVE FirmwareOrIdentity
        BY DEF FirmwareOrIdentity
    <2>1. values \in Reports /\ matrix = Populate(Identity, values)
        BY DEF MountInv, TypeOK
    <2>2. matrix = IF \A j \in Cells : Said(values)[j] = 0 THEN Identity ELSE Said(values)
        BY <2>1, PopulateTelling
    <2> QED
        BY <2>2 DEF FirmwareOrIdentity, Said
<1> QED
    BY <1>1, MountInvariant, PTL

-----------------------------------------------------------------------------
(* Sensors soldered along the axes of the device *)

\* The axes are permuted, each with a sign: cell k of row i.
Permutes(p) == p \in [0 .. 2 -> 0 .. 2] /\ \A i, k \in 0 .. 2 : p[i] = p[k] => i = k
Along(m, p, s) ==
    \A i, k \in 0 .. 2 : m[3 * i + k] = IF p[i] = k THEN s[i] * One ELSE 0
AlongAxes(m) ==
    \E p : Permutes(p) /\ \E s \in [0 .. 2 -> {-1, 1}] : Along(m, p, s)

\* Such a matrix cannot be taken for one that says nothing: its cells sum up
\* to three signs.
LEMMA AxesTell ==
    ASSUME NEW m, AlongAxes(m)
    PROVE  Telling(m)
<1>1. PICK p, s : Permutes(p) /\ s \in [0 .. 2 -> {-1, 1}] /\ Along(m, p, s)
    BY DEF AlongAxes
<1> DEFINE w == [j \in Cells |->
             IF j \in {0, 1, 2} THEN (IF p[0] = j THEN s[0] ELSE 0)
             ELSE IF j \in {3, 4, 5} THEN (IF p[1] = j - 3 THEN s[1] ELSE 0)
             ELSE (IF p[2] = j - 6 THEN s[2] ELSE 0)]
<1>2. /\ p[0] \in {0, 1, 2} /\ p[1] \in {0, 1, 2} /\ p[2] \in {0, 1, 2}
      /\ s[0] \in {-1, 1} /\ s[1] \in {-1, 1} /\ s[2] \in {-1, 1}
    BY <1>1 DEF Permutes
<1>3. One \in Int /\ 0 * One = 0
    BY MountAssumption
<1>4. \A i, k \in 0 .. 2 : m[3 * i + k] = (IF p[i] = k THEN s[i] ELSE 0) * One
    BY <1>1, <1>3 DEF Along
<1>5. \A j \in Cells : m[j] = w[j] * One
    <2> SUFFICES ASSUME NEW j \in Cells PROVE m[j] = w[j] * One
        OBVIOUS
    <2>1. CASE j \in {0, 1, 2}
        <3>1. m[3 * 0 + j] = (IF p[0] = j THEN s[0] ELSE 0) * One /\ 3 * 0 + j = j
            BY <1>4, <2>1
        <3> QED
            BY <2>1, <3>1
    <2>2. CASE j \in {3, 4, 5}
        <3>1. j - 3 \in 0 .. 2 /\ 3 * 1 + (j - 3) = j
            BY <2>2
        <3>2. m[3 * 1 + (j - 3)] = (IF p[1] = j - 3 THEN s[1] ELSE 0) * One
            BY <1>4, <3>1
        <3> QED
            BY <2>2, <3>1, <3>2
    <2>3. CASE j \in {6, 7, 8}
        <3>1. j - 6 \in 0 .. 2 /\ 3 * 2 + (j - 6) = j
            BY <2>3
        <3>2. m[3 * 2 + (j - 6)] = (IF p[2] = j - 6 THEN s[2] ELSE 0) * One
            BY <1>4, <3>1
        <3> QED
            BY <2>3, <3>1, <3>2
    <2> QED
        BY <2>1, <2>2, <2>3 DEF Cells
<1>6. w \in [Cells -> Int]
    BY <1>2 DEF Cells
<1>7. /\ w[0] + w[1] + w[2] = s[0]
      /\ w[3] + w[4] + w[5] = s[1]
      /\ w[6] + w[7] + w[8] = s[2]
    <2>1. /\ w[0] = IF p[0] = 0 THEN s[0] ELSE 0
          /\ w[1] = IF p[0] = 1 THEN s[0] ELSE 0
          /\ w[2] = IF p[0] = 2 THEN s[0] ELSE 0
          /\ w[3] = IF p[1] = 0 THEN s[1] ELSE 0
          /\ w[4] = IF p[1] = 1 THEN s[1] ELSE 0
          /\ w[5] = IF p[1] = 2 THEN s[1] ELSE 0
          /\ w[6] = IF p[2] = 0 THEN s[2] ELSE 0
          /\ w[7] = IF p[2] = 1 THEN s[2] ELSE 0
          /\ w[8] = IF p[2] = 2 THEN s[2] ELSE 0
        BY DEF Cells
    <2> QED
        BY <1>2, <2>1
<1>8. \A j \in 0 .. 8 : w[j] \in Int
    BY <1>6 DEF Cells
<1> HIDE DEF w
<1>9. w[0] + w[1] + w[2] + w[3] + w[4] + w[5] + w[6] + w[7] + w[8] # 0
    BY <1>2, <1>7, <1>8
<1> QED
    BY <1>5, <1>6, <1>9 DEF Telling, Whole

\* A sensor may also lie as the device does.
LEMMA IdentityAlongAxes == AlongAxes(Identity)
<1> DEFINE p == [i \in 0 .. 2 |-> i]
           s == [i \in 0 .. 2 |-> 1]
<1>1. Permutes(p) /\ s \in [0 .. 2 -> {-1, 1}]
    BY DEF Permutes
<1>2. ASSUME NEW i \in 0 .. 2, NEW k \in 0 .. 2
      PROVE  Identity[3 * i + k] = IF p[i] = k THEN s[i] * One ELSE 0
    <2>1. 3 * i + k \in Cells /\ (3 * i + k \in {0, 4, 8} <=> i = k)
        BY DEF Cells
    <2>2. 1 * One = One
        BY MountAssumption
    <2> QED
        BY <2>1, <2>2 DEF Identity
<1>3. Along(Identity, p, s)
    BY <1>2 DEF Along
<1> HIDE DEF p, s
<1> QED
    BY <1>1, <1>3 DEF AlongAxes

\* Mounted along the axes an acceleration keeps its magnitude.
LEMMA AxesKeepMagnitude ==
    ASSUME NEW m, AlongAxes(m), NEW r \in [0 .. 2 -> Int]
    PROVE  LET a == Mount(m, r)
           IN  a[0] * a[0] + a[1] * a[1] + a[2] * a[2]
                 = One * One * (r[0] * r[0] + r[1] * r[1] + r[2] * r[2])
<1>0. One \in Int /\ r[0] \in Int /\ r[1] \in Int /\ r[2] \in Int
    BY MountAssumption
<1>1. PICK p, s : Permutes(p) /\ s \in [0 .. 2 -> {-1, 1}] /\ Along(m, p, s)
    BY DEF AlongAxes
<1> DEFINE a == Mount(m, r)
<1>2. ASSUME NEW i \in 0 .. 2
      PROVE  a[i] * a[i] = One * One * (r[p[i]] * r[p[i]])
    <2>1. a[i] = m[3 * i] * r[0] + m[3 * i + 1] * r[1] + m[3 * i + 2] * r[2]
        BY DEF Mount
    <2>2. p[i] \in {0, 1, 2} /\ s[i] \in {-1, 1}
        BY <1>1 DEF Permutes
    <2>3. /\ m[3 * i] = IF p[i] = 0 THEN s[i] * One ELSE 0
          /\ m[3 * i + 1] = IF p[i] = 1 THEN s[i] * One ELSE 0
          /\ m[3 * i + 2] = IF p[i] = 2 THEN s[i] * One ELSE 0
        <3>1. 3 * i + 0 = 3 * i /\ 0 \in 0 .. 2 /\ 1 \in 0 .. 2 /\ 2 \in 0 .. 2
            OBVIOUS
        <3> QED
            BY <1>1, <3>1 DEF Along
    <2>4. s[i] * One \in {One, -One}
        BY <1>0, <2>2
    <2>5. a[i] = (s[i] * One) * r[p[i]]
        BY <1>0, <2>1, <2>2, <2>3, <2>4
    <2>6. r[p[i]] \in Int
        BY <2>2
    <2>7. \A x, y \in Int : /\ (x * y) * (x * y) = x * x * (y * y)
                            /\ (-x * y) * (-x * y) = x * x * (y * y)
        OBVIOUS
    <2> HIDE DEF a
    <2> QED
        BY <1>0, <2>4, <2>5, <2>6, <2>7
<1>3. r[p[0]] * r[p[0]] + r[p[1]] * r[p[1]] + r[p[2]] * r[p[2]]
        = r[0] * r[0] + r[1] * r[1] + r[2] * r[2]
    <2> DEFINE q == [k \in 0 .. 2 |-> r[k] * r[k]]
    <2>1. /\ p[0] \in {0, 1, 2} /\ p[1] \in {0, 1, 2} /\ p[2] \in {0, 1, 2}
          /\ p[0] # p[1] /\ p[0] # p[2] /\ p[1] # p[2]
        BY <1>1 DEF Permutes
    <2>2. \A k \in 0 .. 2 : q[k] \in Int /\ q[k] = r[k] * r[k]
        OBVIOUS
    <2> HIDE DEF q
    <2>3. q[p[0]] + q[p[1]] + q[p[2]] = q[0] + q[1] + q[2]
        BY <2>1, <2>2
    <2> QED
        BY <2>1, <2>2, <2>3
<1>4. \A x, y, z, o \in Int : o * x + o * y + o * z = o * (x + y + z)
    OBVIOUS
<1>5. r[p[0]] \in Int /\ r[p[1]] \in Int /\ r[p[2]] \in Int
    BY <1>0, <1>1 DEF Permutes
<1>6. /\ One * One \in Int
      /\ r[p[0]] * r[p[0]] \in Int /\ r[p[1]] * r[p[1]] \in Int /\ r[p[2]] * r[p[2]] \in Int
    BY <1>0, <1>5
<1>7. One * One * (r[p[0]] * r[p[0]]) + One * One * (r[p[1]] * r[p[1]]) + One * One * (r[p[2]] * r[p[2]])
        = One * One * (r[p[0]] * r[p[0]] + r[p[1]] * r[p[1]] + r[p[2]] * r[p[2]])
    BY <1>4, <1>6
<1>8. /\ a[0] * a[0] = One * One * (r[p[0]] * r[p[0]])
      /\ a[1] * a[1] = One * One * (r[p[1]] * r[p[1]])
      /\ a[2] * a[2] = One * One * (r[p[2]] * r[p[2]])
    BY <1>2
<1> HIDE DEF a
<1>9. a[0] * a[0] + a[1] * a[1] + a[2] * a[2] = One * One * (r[0] * r[0] + r[1] * r[1] + r[2] * r[2])
    BY <1>3, <1>7, <1>8
<1> QED
    BY <1>9 DEF a

\* For firmware whose first nine values are always a matrix along the axes, or
\* nothing, a 3x3 matrix is taken as it says and no acceleration is stretched
\* or shrunk.
THEOREM AxesKept ==
    ASSUME \A vals \in Reports :
                AlongAxes(Said(vals)) \/ \A j \in Cells : Said(vals)[j] = 0
    PROVE  Spec => []FirmwareOrIdentity /\ []MagnitudeKept
<1>1. ASSUME NEW vals \in Reports
      PROVE  Telling(Said(vals))
    <2>1. CASE AlongAxes(Said(vals))
        BY <2>1, AxesTell
    <2>2. CASE \A j \in Cells : Said(vals)[j] = 0
        <3> DEFINE w == [j \in Cells |-> 0]
        <3>1. One \in Int /\ 0 * One = 0
            BY MountAssumption
        <3>2. Whole(Said(vals), w) /\ \A j \in Cells : w[j] = 0
            BY <2>2, <3>1 DEF Whole
        <3> HIDE DEF w
        <3> QED
            BY <3>2 DEF Telling
    <2> QED
        BY <2>1, <2>2
<1>2. Spec => []FirmwareOrIdentity
    BY <1>1, FirmwareDecides
<1>3. MountInv => MagnitudeKept
    <2> SUFFICES ASSUME MountInv, phase = "measured" PROVE MagnitudeKept
        BY DEF MagnitudeKept
    <2>1. /\ values \in Reports /\ matrix = Populate(Identity, values)
          /\ reading \in [0 .. 2 -> Int] /\ mounted = Mount(matrix, reading)
        BY MountAssumption DEF MountInv, TypeOK
    <2>2. matrix = IF \A j \in Cells : Said(values)[j] = 0 THEN Identity ELSE Said(values)
        BY <1>1, <2>1, PopulateTelling
    <2>3. AlongAxes(matrix)
        BY <2>1, <2>2, IdentityAlongAxes
    <2> QED
        BY <2>1, <2>3, AxesKeepMagnitude DEF MagnitudeKept
<1> QED
    BY <1>2, <1>3, MountInvariant, PTL

-----------------------------------------------------------------------------
(* Sensors that lie askew *)

\* A number smaller than one adds nothing to a sum that is a gint.
LEMMA TruncateFraction ==
    ASSUME NEW u \in Int, -One < u, u < One
    PROVE  Truncate(0 * One + u) = 0
<1>0. One \in Nat \ {0} /\ 0 * One + u = u
    BY MountAssumption
<1>1. ASSUME NEW k \in 0 .. One - 1 PROVE k \div One = 0
    BY <1>0
<1>2. CASE u >= 0
    BY <1>0, <1>1, <1>2 DEF Truncate
<1>3. CASE u < 0
    <2>1. -u \in 0 .. One - 1 /\ ~(u >= 0)
        BY <1>0, <1>3
    <2>2. (-u) \div One = 0
        BY <1>1, <2>1
    <2> QED
        BY <1>0, <2>1, <2>2 DEF Truncate
<1> QED
    BY <1>2, <1>3

\* Nine of them sum up to nothing.
LEMMA FractionsSum ==
    ASSUME NEW m \in [Cells -> Int], \A j \in Cells : -One < m[j] /\ m[j] < One
    PROVE  CellSum(m) = 0
<1>1. PICK f : /\ CellSum(m) = f[9] /\ f[0] = 0
               /\ \A k \in 1 .. 9 : f[k] = Truncate(f[k - 1] * One + m[k - 1])
    BY SumRuns
<1>2. \A j \in Cells : f[j] = 0 => f[j + 1] = 0
    <2> SUFFICES ASSUME NEW j \in Cells, f[j] = 0 PROVE f[j + 1] = 0
        OBVIOUS
    <2>1. j + 1 \in 1 .. 9 /\ (j + 1) - 1 = j
        BY DEF Cells
    <2>2. f[j + 1] = Truncate(0 * One + m[j])
        BY <1>1, <2>1
    <2> QED
        BY <2>2, TruncateFraction
<1>3. Cells = {0, 1, 2, 3, 4, 5, 6, 7, 8}
    BY DEF Cells
<1>4. f[1] = 0 /\ f[2] = 0 /\ f[3] = 0
    BY <1>1, <1>2, <1>3
<1>5. f[4] = 0 /\ f[5] = 0 /\ f[6] = 0
    BY <1>2, <1>3, <1>4
<1>6. f[7] = 0 /\ f[8] = 0 /\ f[9] = 0
    BY <1>2, <1>3, <1>5
<1> QED
    BY <1>1, <1>6

\* "Fallback to identity matrix in case matrix is all 0" (libssc-sensor.c:409)
\* falls back for more than that, and not to the identity: where no cell
\* reaches 1.0, as in every rotation that leaves no axis of the sensor along
\* one of the device, the diagonal is overwritten and the other cells are not.
THEOREM AskewIsOverwritten ==
    ASSUME NEW vals \in Reports, \A j \in Cells : -One < Said(vals)[j] /\ Said(vals)[j] < One
    PROVE  /\ \A j \in {0, 4, 8} : Populate(Identity, vals)[j] = One
           /\ \A j \in Cells \ {0, 4, 8} : Populate(Identity, vals)[j] = Said(vals)[j]
<1>1. Said(vals) \in [Cells -> Int]
    <2>1. Identity \in [Cells -> Int]
        BY MountAssumption DEF Identity
    <2> QED
        BY <2>1, MatrixType DEF Said
<1>2. CellSum(Said(vals)) = 0
    BY <1>1, FractionsSum
<1>3. Populate(Identity, vals) = Fallback(Said(vals))
    BY <1>2 DEF Populate, Said
<1>4. {0, 4, 8} \subseteq Cells
    BY DEF Cells
<1>5. \A j \in Cells : Populate(Identity, vals)[j] = IF j \in {0, 4, 8} THEN One ELSE Said(vals)[j]
    BY <1>3 DEF Fallback
<1> QED
    BY <1>4, <1>5

=============================================================================
