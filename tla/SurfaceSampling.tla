---- MODULE SurfaceSampling ----
(***************************************************************************)
(* How a table of a surface is sampled (sample_grid): the rows of the grid *)
(* are dealt to worker threads in chunks, or sampled by the caller; cells  *)
(* without a value are then filled from their neighbours in the row.       *)
(*                                                                         *)
(* The matrix of one property in one region, in integers: the samples are  *)
(* to be such that the interpolations divide evenly.  Where a cell has no  *)
(* finite value (the source throws, or the point is two-phase) the code    *)
(* has NaN, NoValue here.  It fills M in place; the model keeps the        *)
(* samples beside it.                                                      *)
(***************************************************************************)
EXTENDS Integers, FiniteSets

CONSTANTS
    NT, NR,        \* rows and columns of the grid
    Settings,      \* values of SVDSBTL_SAMPLING_THREADS
    Processors,    \* values of std::thread::hardware_concurrency()
    Sample,        \* the source's value in each cell
    Finite,        \* sets of columns: where a row may have finite values
    NoValue

Rows == 0 .. NT - 1
Columns == 0 .. NR - 1

ASSUME SamplingAssumption ==
    /\ NT \in Nat \ {0, 1} /\ NR \in Nat \ {0, 1}
    /\ Settings \subseteq Int /\ Processors \subseteq Nat
    /\ Sample \in [Rows -> [Columns -> Int]]
    /\ Finite \subseteq SUBSET Columns
    /\ NoValue \notin Int

\* Where the code divides in floating point, the integers here divide evenly.
ASSUME EvenAssumption ==
    \A i \in Rows : \A a, b \in Columns : a < b => (Sample[i][b] - Sample[i][a]) % (b - a) = 0

VARIABLES
    n_threads,
    main,       \* where the caller is, and the next row or thread
    worker,     \* where each worker is, and its next row
    worker_factory_failed,
    M,          \* the samples
    filled,     \* M once it is filled
    sampled     \* history: how often each row was sampled

samplingVars == <<n_threads, main, worker, worker_factory_failed, M, filled, sampled>>

Unsampled == [i \in Rows |-> [j \in Columns |-> NoValue]]

SamplingInit ==
    /\ n_threads = 1
    /\ main = [at |-> "decide", next |-> 0]
    /\ worker = [t \in Rows |-> [at |-> "none", row |-> 0]]
    /\ worker_factory_failed = FALSE
    /\ M = Unsampled
    /\ filled = Unsampled
    /\ sampled = [i \in Rows |-> 0]

resolve_thread_count(setting, processors) ==
    IF setting > 0 THEN setting ELSE IF processors <= 1 THEN 1 ELSE processors

\* Parallel unless the setting says one thread or the source cannot be made
\* in a thread (REFPROP, or no names to make it from).
Decide(setting, processors, able) ==
    LET wanted == resolve_thread_count(setting, processors)
        parallel == wanted > 1 /\ able
    IN  /\ main.at = "decide"
        /\ n_threads' = IF ~parallel THEN 1 ELSE IF wanted < NT THEN wanted ELSE NT
        /\ main' = [main EXCEPT !.at = IF parallel THEN "spawn" ELSE "serial"]
        /\ UNCHANGED <<worker, worker_factory_failed, M, filled, sampled>>

\* sample_cell over the row i, some of whose cells get a finite value.
SampledRow(i, finite) ==
    /\ M' = [M EXCEPT ![i] = [j \in Columns |-> IF j \in finite THEN Sample[i][j] ELSE NoValue]]
    /\ sampled' = [sampled EXCEPT ![i] = @ + 1]

\* The caller goes column by column; what a cell gets does not depend on the order.
Serial(finite) ==
    /\ main.at = "serial"
    /\ SampledRow(main.next, finite)
    /\ main' = [at |-> IF main.next + 1 = NT THEN "fill" ELSE "serial", next |-> main.next + 1]
    /\ UNCHANGED <<n_threads, worker, worker_factory_failed, filled>>

\* Mutant of Chunk: rounded down.
Chunk_down == NT \div n_threads

Chunk == (NT + n_threads - 1) \div n_threads
Lo(t) == t * Chunk
Hi(t) == IF Lo(t) + Chunk < NT THEN Lo(t) + Chunk ELSE NT

Dealing == main.at = "spawn" /\ main.next < n_threads /\ Lo(main.next) < Hi(main.next)

Spawn ==
    /\ Dealing
    /\ worker' = [worker EXCEPT ![main.next] = [at |-> "start", row |-> Lo(main.next)]]
    /\ main' = [main EXCEPT !.next = @ + 1]
    /\ UNCHANGED <<n_threads, worker_factory_failed, M, filled, sampled>>

\* The system has no thread to give: the exception destroys the vector of
\* the workers, and with it threads that were not joined, if there are any.
SpawnThrow ==
    /\ Dealing
    /\ main' = [main EXCEPT !.at = IF main.next = 0 THEN "threw" ELSE "terminated"]
    /\ UNCHANGED <<n_threads, worker, worker_factory_failed, M, filled, sampled>>

SpawnEnd ==
    /\ main.at = "spawn" /\ ~Dealing
    /\ main' = [main EXCEPT !.at = "join"]
    /\ UNCHANGED <<n_threads, worker, worker_factory_failed, M, filled, sampled>>

\* A worker makes its source, or fails to and leaves its rows.
Start(t) ==
    /\ main.at # "terminated" /\ worker[t].at = "start"
    /\ \/ worker' = [worker EXCEPT ![t].at = "sampling"] /\ UNCHANGED worker_factory_failed
       \/ worker' = [worker EXCEPT ![t].at = "done"] /\ worker_factory_failed' = TRUE
    /\ UNCHANGED <<n_threads, main, M, filled, sampled>>

Work(t, finite) ==
    /\ main.at # "terminated" /\ worker[t].at = "sampling"
    /\ SampledRow(worker[t].row, finite)
    /\ worker' = [worker EXCEPT ![t] = [at |-> IF @.row + 1 = Hi(t) THEN "done" ELSE "sampling", row |-> @.row + 1]]
    /\ UNCHANGED <<n_threads, main, worker_factory_failed, filled>>

Join ==
    /\ main.at = "join"
    /\ \A t \in Rows : worker[t].at \in {"none", "done"}
    /\ main' = [main EXCEPT !.at = IF worker_factory_failed THEN "threw" ELSE "fill"]
    /\ UNCHANGED <<n_threads, worker, worker_factory_failed, M, filled, sampled>>

Least(S) == CHOOSE j \in S : \A k \in S : j <= k
Greatest(S) == CHOOSE j \in S : \A k \in S : k <= j
Good(row) == {j \in Columns : row[j] # NoValue}

\* Mutant of FilledRow: the cells of a gap are interpolated from the sample before it, with the step of the cell before.
FilledRow_fromSample(row) ==
    LET f[j \in Columns] ==
            IF j <= Least(Good(row)) THEN row[Least(Good(row))]
            ELSE IF j >= Greatest(Good(row)) THEN row[Greatest(Good(row))]
            ELSE IF row[j] # NoValue THEN row[j]
            ELSE LET k_lo == Greatest({k \in Good(row) : k < j})
                     k_hi == Least({k \in Good(row) : k > j})
                 IN  row[k_lo] + (row[k_hi] - row[k_lo]) \div (k_hi - (j - 1))
    IN  IF Good(row) = {} THEN row ELSE f

\* The ends take the first and the last sample.  A gap is filled from the
\* left: its first cell is interpolated between the sample before it and the
\* one after the gap, every other one between the cell just filled and that.
FilledRow(row) ==
    LET f[j \in Columns] ==
            IF j <= Least(Good(row)) THEN row[Least(Good(row))]
            ELSE IF j >= Greatest(Good(row)) THEN row[Greatest(Good(row))]
            ELSE IF row[j] # NoValue THEN row[j]
            ELSE LET k_lo == j - 1
                     k_hi == Least({k \in Good(row) : k > j})
                 IN  f[k_lo] + (row[k_hi] - f[k_lo]) \div (k_hi - k_lo)
    IN  IF Good(row) = {} THEN row ELSE f

Cells == Rows \X Columns
FiniteCells(m) == {c \in Cells : m[c[1]][c[2]] # NoValue}

\* nth_element(size / 2) of the finite values.
Median(m) ==
    LET cells == FiniteCells(m)
        Below(v) == Cardinality({c \in cells : m[c[1]][c[2]] < v})
        UpTo(v) == Cardinality({c \in cells : m[c[1]][c[2]] <= v})
        half == Cardinality(cells) \div 2
    IN  CHOOSE v \in {m[c[1]][c[2]] : c \in cells} : Below(v) <= half /\ half < UpTo(v)

\* Row by row, then rows without any sample take the median; a matrix without one is refused.
Fill ==
    LET rows == [i \in Rows |-> FilledRow(M[i])]
    IN  /\ main.at = "fill"
        /\ IF FiniteCells(M) = {} THEN main' = [main EXCEPT !.at = "threw"] /\ UNCHANGED filled
           ELSE /\ main' = [main EXCEPT !.at = "built"]
                /\ filled' = [i \in Rows |-> IF Good(M[i]) # {} THEN rows[i] ELSE [j \in Columns |-> Median(rows)]]
        /\ UNCHANGED <<n_threads, worker, worker_factory_failed, M, sampled>>

SamplingNext ==
    \/ \E setting \in Settings, processors \in Processors, able \in BOOLEAN : Decide(setting, processors, able)
    \/ \E finite \in Finite : Serial(finite)
    \/ Spawn \/ SpawnThrow \/ SpawnEnd
    \/ \E t \in Rows : Start(t) \/ \E finite \in Finite : Work(t, finite)
    \/ Join
    \/ Fill

SamplingSpec == SamplingInit /\ [][SamplingNext]_samplingVars

\* No row is ever sampled by two threads, and a table is filled only when
\* each of its rows has been sampled, however the chunks fall and whichever
\* workers had no source: the fill never papers over rows that were lost.
RowsSampledOnce ==
    /\ \A i \in Rows : sampled[i] <= 1
    /\ main.at \in {"fill", "built"} => \A i \in Rows : sampled[i] = 1

\* A row without samples is constant, with half of the others' values on either side.
TakesMedian(i) ==
    LET others == {c \in Cells : Good(M[c[1]]) # {}}
        Half(S) == 2 * Cardinality(S) >= Cardinality(others)
    IN  \A j \in Columns :
            /\ Half({c \in others : filled[c[1]][c[2]] <= filled[i][j]})
            /\ Half({c \in others : filled[c[1]][c[2]] >= filled[i][j]})
            /\ filled[i][j] = filled[i][0]

\* Every other row keeps its samples, is a straight line from sample to sample and
\* constant before the first and after the last.
Interpolates(i) ==
    LET good == Good(M[i])
    IN  \A a \in good :
            /\ filled[i][a] = M[i][a]
            /\ (\A k \in good : a <= k) => \A j \in 0 .. a : filled[i][j] = M[i][a]
            /\ (\A k \in good : k <= a) => \A j \in a .. NR - 1 : filled[i][j] = M[i][a]
            /\ \A b \in good :
                (a < b /\ \A k \in good : k <= a \/ b <= k) =>
                    \A j \in a .. b : (filled[i][j] - M[i][a]) * (b - a) = (M[i][b] - M[i][a]) * (j - a)

\* A table that is built is filled along its rows.  The code interpolates the first
\* cell of a gap between two samples, but every other one from the cell it has just
\* filled, which must come to the same line.
FilledAlongTheRows ==
    main.at = "built" => \A i \in Rows : IF Good(M[i]) = {} THEN TakesMedian(i) ELSE Interpolates(i)
====
