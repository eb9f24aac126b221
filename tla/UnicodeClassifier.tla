------------------------- MODULE UnicodeClassifier -------------------------
(***************************************************************************)
(* The tables generate_unicode_classifier.rs writes into the lexer and the *)
(* lookup it writes beside them: runs of scalars with a property, clipped  *)
(* to planes, both ends packed into one number, and a binary search with a *)
(* fixed number of steps that stops looking without a word.                *)
(***************************************************************************)
EXTENDS Naturals, Sequences

CONSTANTS
    FirstScalar, LastScalar,    \* 128 and 1114111
    PlaneSize,                  \* 65536
    Radix,                      \* 2097152, above every scalar
    SearchSteps,                \* 12
    TableLimit,                 \* 1024
    Properties                  \* sets of scalars a predicate may accept

Scalar == FirstScalar .. LastScalar
Plane == 0 .. LastScalar \div PlaneSize

ASSUME ClassifierAssumption ==
    /\ FirstScalar \in Nat \ {0} /\ LastScalar \in Nat /\ FirstScalar <= LastScalar
    /\ PlaneSize \in Nat \ {0} /\ Radix \in Nat /\ Radix > LastScalar
    /\ SearchSteps \in Nat /\ TableLimit \in Nat
    /\ Properties \subseteq SUBSET Scalar

\* The steps are enough to narrow a full table down to nothing: what is left of it
\* after each step, counted from the last, at most doubles and grows by one.  12
\* steps do for 1024 entries.
ASSUME SearchAssumption ==
    \E left \in [0 .. SearchSteps -> 0 .. TableLimit] :
        /\ left[0] = 0 /\ left[SearchSteps] = TableLimit
        /\ \A k \in 0 .. SearchSteps - 1 : left[k + 1] <= 2 * left[k] + 1

VARIABLES
    included,               \* the scalars the predicate accepts
    classifier_phase,
    scalar, start,          \* property_ranges: the scalar looked at, where a run began or 0
    ranges,
    plane, entry, tables,   \* emit_property: the plane and the range looked at, the planes' tables
    value, low, high, found, step   \* the lookup

classifierVars ==
    << included, classifier_phase, scalar, start, ranges, plane, entry, tables, value, low, high, found, step >>
scan == << scalar, start, ranges >>
emission == << plane, entry, tables >>
search == << value, low, high, found, step >>

----------------------------------------------------------------------------
ClassifierInit ==
    /\ included \in Properties
    /\ classifier_phase = "scan" /\ scalar = FirstScalar /\ start = 0
    /\ ranges = << >> /\ plane = 0 /\ entry = 1 /\ tables = [p \in Plane |-> << >>]
    /\ value = 0 /\ low = 0 /\ high = 0 /\ found = FALSE /\ step = 0

Scan ==
    /\ classifier_phase = "scan" /\ scalar <= LastScalar
    /\ start' = IF scalar \in included THEN (IF start = 0 THEN scalar ELSE start) ELSE 0
    /\ ranges' = IF start # 0 /\ scalar \notin included THEN Append(ranges, << start, scalar - 1 >>) ELSE ranges
    /\ scalar' = scalar + 1
    /\ UNCHANGED << included, classifier_phase, emission, search >>

\* Seeded fault: a run that reaches the last scalar is forgotten.
AllRangesButLast == ranges

\* The run still open after the last scalar is closed.
AllRanges == IF start = 0 THEN ranges ELSE Append(ranges, << start, LastScalar >>)

CloseRun ==
    /\ classifier_phase = "scan" /\ scalar > LastScalar
    /\ ranges' = AllRanges
    /\ classifier_phase' = "emit"
    /\ UNCHANGED << included, scalar, start, emission, search >>

Greater(m, n) == IF m >= n THEN m ELSE n
Lesser(m, n) == IF m <= n THEN m ELSE n

Clip(range, p) == << Greater(range[1], p * PlaneSize), Lesser(range[2], p * PlaneSize + PlaneSize - 1) >>

Pack(range) == range[1] * Radix + range[2]

\* The next range, clipped to the plane, if the two meet.
ClipRange ==
    /\ classifier_phase = "emit" /\ entry <= Len(ranges)
    /\ LET local == Clip(ranges[entry], plane)
       IN tables' = IF local[1] <= local[2] THEN [tables EXCEPT ![plane] = Append(@, Pack(local))] ELSE tables
    /\ entry' = entry + 1
    /\ UNCHANGED << included, classifier_phase, plane, scan, search >>

EndPlane ==
    /\ classifier_phase = "emit" /\ entry > Len(ranges) /\ Len(tables[plane]) <= TableLimit
    /\ entry' = 1 /\ plane' = plane + 1
    /\ classifier_phase' = IF plane + 1 \in Plane THEN "emit" ELSE "ready"
    /\ UNCHANGED << included, tables, scan, search >>

\* The assertion on a table's length stops the generator.
Refuse ==
    /\ classifier_phase = "emit" /\ entry > Len(ranges) /\ Len(tables[plane]) > TableLimit
    /\ classifier_phase' = "refused"
    /\ UNCHANGED << included, emission, scan, search >>

----------------------------------------------------------------------------
\* unicode_<name>: values outside the range, and planes without a table, are not.
Outside(v) == v < FirstScalar \/ v > LastScalar
Table(v) == tables[v \div PlaneSize]

Lookup(v) ==
    /\ classifier_phase = "ready"
    /\ value' = v /\ found' = FALSE /\ step' = 0 /\ low' = 0
    /\ IF Outside(v) \/ Table(v) = << >>
       THEN classifier_phase' = "answered" /\ high' = 0
       ELSE classifier_phase' = "search" /\ high' = Len(Table(v))
    /\ UNCHANGED << included, emission, scan >>

\* unicode_<name>_plane<p>: one iteration; table positions are counted from 0.
Step ==
    /\ classifier_phase = "search" /\ step < SearchSteps
    /\ step' = step + 1
    /\ LET active == low < high /\ ~found
           midpoint == IF active THEN (low + high) \div 2 ELSE 0
           packed == Table(value)[midpoint + 1]
           first == packed \div Radix
           last == packed % Radix
       IN /\ high' = IF active /\ value < first THEN midpoint ELSE high
          /\ low' = IF active /\ value >= first /\ value > last THEN midpoint + 1 ELSE low
          /\ found' = (found \/ (active /\ value >= first /\ value <= last))
    /\ UNCHANGED << included, classifier_phase, emission, scan, value >>

Answer ==
    /\ classifier_phase = "search" /\ step = SearchSteps
    /\ classifier_phase' = "answered"
    /\ UNCHANGED << included, emission, scan, search >>

ClassifierNext ==
    \/ Scan \/ CloseRun \/ ClipRange \/ EndPlane \/ Refuse
    \/ \E v \in 0 .. LastScalar + 1 : Lookup(v)
    \/ Step \/ Answer

ClassifierSpec == ClassifierInit /\ [][ClassifierNext]_classifierVars

----------------------------------------------------------------------------
\* Tables fit the bounded sequences of the lexer and every number in them holds
\* two scalars.
ClassifierTypeOK ==
    /\ included \subseteq Scalar
    /\ \A p \in Plane : \A i \in DOMAIN tables[p] : tables[p][i] \in 0 .. Radix * Radix - 1
    /\ classifier_phase \in {"ready", "search", "answered"} => \A p \in Plane : Len(tables[p]) <= TableLimit
    /\ low \in 0 .. TableLimit /\ high \in 0 .. TableLimit /\ step \in 0 .. SearchSteps

\* Every lookup says of a scalar what the predicate the table was made from says,
\* at the ends of runs, where a run is cut by a plane's end, and outside the table.
ClassifiesExactly == classifier_phase = "answered" => (found <=> value \in included)

\* A plane's table is in order and has no overlaps, which is what the search needs.
TablesAreSorted ==
    \A p \in Plane : \A i \in 1 .. Len(tables[p]) - 1 :
        tables[p][i] % Radix < tables[p][i + 1] \div Radix
=============================================================================
