-------------------------- MODULE SyncerRefinement --------------------------
(* What the watermark of Syncer stands for: until a statement outlives the *)
(* lock under which it was sent, nothing up to it is missing from the      *)
(* mirror, elusive rows apart.  When in addition the source gives no stamp *)
(* twice and none late, Syncer implements Mirror.                          *)
EXTENDS SyncerProofs, FiniteSetTheorems

(* A stamp u of which no row is left behind when t has been reached.       *)
Below(u, t) == u < t \/ (Orderly /\ u = t)

CoveredTo(t) == \A n \in Nik : Below(src[n].ts, t) => mirror[n] = src[n] \/ Elusive(n)

(* A run that has read the watermark and has not failed.                   *)
Advancing(w) ==
    \/ pc[w] \in {"fetch", "upsert", "state", "finalize"}
    \/ pc[w] = "commit" /\ pendState[w] = "success"

(* A run: the mirror is complete to the stamp it has reached, and what is  *)
(* missing up to any row still to do is to be done as well.                *)
TodoInv(w) ==
    \A x \in todo[w] :
        /\ wm < x.row.ts /\ maxTs[w] <= x.row.ts
        /\ mirror[x.nik].ver <= x.row.ver
        /\ Orderly => mirror[x.nik].ts <= x.row.ts
        /\ \A y \in todo[w] :
              x.nik = y.nik \/ (Orderly /\ x.row.ts = y.row.ts) => x = y
        /\ \A n \in Nik : Below(src[n].ts, x.row.ts) =>
              \/ mirror[n] = src[n] \/ Elusive(n)
              \/ [nik |-> n, row |-> src[n]] \in todo[w]

ReachedInv(w) ==
    Advancing(w) => /\ CoveredTo(maxTs[w])
                    /\ maxTs[w] = wm \/ \E n \in Nik : mirror[n].ts = maxTs[w]
                    /\ pc[w] = "fetch" => maxTs[w] = wm

RunInv(w) ==
    /\ ReachedInv(w)
    /\ pc[w] # "upsert" => todo[w] = {}
    /\ TodoInv(w)

(* The mirror: complete to the watermark.                                  *)
TableInv ==
    /\ stray = {}
    /\ \A n \in Nik : src[n].ts <= wm => mirror[n] = src[n] \/ Elusive(n)

GapInv == TableInv /\ \A w \in Run : RunInv(w)

IInv ==
    /\ TypeOK /\ LockInv /\ Connected /\ RecordInv /\ WatermarkInv /\ AheadInv
    /\ loose = {} => GapInv

(* Nothing a run has sent has outlived its lock yet.                       *)
Tight == IInv /\ loose = {}

(* What is shown of every step that leaves it so.                          *)
Refines == Orderly => [Abstract!Next]_(Abstract!vars)
Forward == \A n \in Nik : mirror'[n].ver >= mirror[n].ver

-----------------------------------------------------------------------------
(* The query.  Its order is a strict total order on the rows of a table.   *)

LEMMA NewerRows ==
    ASSUME NEW table \in [Nik -> Row], NEW since \in Nat
    PROVE  /\ IsFiniteSet(NewerThan(table, since))
           /\ \A x \in NewerThan(table, since) :
                 /\ x.nik \in Nik /\ x.nik \in Nat /\ x.row.ts \in Nat
                 /\ x = [nik |-> x.nik, row |-> table[x.nik]]
<1> DEFINE T == {[nik |-> n, row |-> table[n]] : n \in Nik}
<1>1. [n \in Nik |-> [nik |-> n, row |-> table[n]]] \in Surjection(Nik, T)
  BY DEF Surjection
<1>2. IsFiniteSet(T)
  BY <1>1, FS_Surjection, NikAssumption
<1>3. NewerThan(table, since) \in SUBSET T
  BY DEF NewerThan
<1>4. \A x \in NewerThan(table, since) :
         /\ x.nik \in Nik /\ x.nik \in Nat /\ x.row.ts \in Nat
         /\ x = [nik |-> x.nik, row |-> table[x.nik]]
  BY NikAssumption DEF NewerThan, Row
<1> HIDE DEF T
<1> QED
  BY <1>2, <1>3, <1>4, FS_Subset

LEMMA CountTo ==
    ASSUME NEW c \in Nat
    PROVE  IsFiniteSet(0..(c - 1)) /\ Cardinality(0..(c - 1)) = c
<1>1. 0 \in Int /\ c - 1 \in Int
  OBVIOUS
<1>2. IsFiniteSet(0..(c - 1))
  BY <1>1, FS_Interval
<1>3. Cardinality(0..(c - 1)) = IF 0 > c - 1 THEN 0 ELSE (c - 1) - 0 + 1
  BY <1>1, FS_Interval
<1> QED
  BY <1>2, <1>3

(* The rows of S that the query puts before u.                             *)
Ahead(S, u) == {y \in S : Before(y, u)}

(* Numbering the rows in the query's order numbers them without a gap.     *)
LEMMA RankBijection ==
    ASSUME NEW table \in [Nik -> Row], NEW since \in Nat, NEW S, S = NewerThan(table, since)
    PROVE  [x \in S |-> Cardinality(Ahead(S, x))] \in Bijection(S, 0..(Cardinality(S) - 1))
<1> DEFINE f == [x \in S |-> Cardinality(Ahead(S, x))]
           T == 0..(Cardinality(S) - 1)
<1>1. IsFiniteSet(S) /\ Cardinality(S) \in Nat
  BY NewerRows, FS_CardinalityType
<1>2. \A x \in S : x.nik \in Nat /\ x.row.ts \in Nat
  BY NewerRows
<1>3. \A x, y \in S : x = y \/ Before(x, y) \/ Before(y, x)
  <2> SUFFICES ASSUME NEW x \in S, NEW y \in S, x.nik = y.nik PROVE x = y
    BY <1>2 DEF Before
  <2> QED
    BY NewerRows
<1>4. ASSUME NEW x \in S
      PROVE  /\ IsFiniteSet(Ahead(S, x)) /\ Cardinality(Ahead(S, x)) \in Nat
             /\ Cardinality(Ahead(S, x)) < Cardinality(S)
  <2>1. Ahead(S, x) \in SUBSET S /\ x \notin Ahead(S, x)
    BY <1>2 DEF Ahead, Before
  <2>2. IsFiniteSet(Ahead(S, x)) /\ Cardinality(Ahead(S, x)) \in Nat
    BY <1>1, <2>1, FS_Subset, FS_CardinalityType
  <2>3. Cardinality(Ahead(S, x)) <= Cardinality(S) /\ Cardinality(Ahead(S, x)) # Cardinality(S)
    BY <1>1, <2>1, FS_Subset
  <2> QED
    BY <1>1, <2>2, <2>3
<1>5. ASSUME NEW x \in S, NEW y \in S, Before(x, y)
      PROVE  Cardinality(Ahead(S, x)) < Cardinality(Ahead(S, y))
  <2>1. Ahead(S, x) \in SUBSET Ahead(S, y) /\ x \in Ahead(S, y) /\ x \notin Ahead(S, x)
    BY <1>2, <1>5 DEF Ahead, Before
  <2>2. /\ Cardinality(Ahead(S, x)) <= Cardinality(Ahead(S, y))
        /\ Cardinality(Ahead(S, x)) # Cardinality(Ahead(S, y))
    BY <1>4, <2>1, FS_Subset
  <2> QED
    BY <1>4, <2>2
<1>6. f \in Injection(S, T)
  <2>1. f \in [S -> T]
    BY <1>1, <1>4
  <2>2. ASSUME NEW x \in S, NEW y \in S, f[x] = f[y] PROVE x = y
    BY <1>3, <1>4, <1>5, <2>2
  <2> QED
    BY <2>1, <2>2 DEF Injection, IsInjective
<1>7. IsFiniteSet(T) /\ Cardinality(T) = Cardinality(S)
  BY <1>1, CountTo
<1> HIDE DEF f, T
<1>8. f \in Surjection(S, T)
  BY <1>6, <1>7, FS_Injection
<1> QED
  BY <1>6, <1>8 DEF f, T, Bijection

(* FetchKaryawanUpdatedSince returns a batch of the newer rows: all of     *)
(* them if they are at most SYNC_BATCH_SIZE, else exactly so many, and     *)
(* none that it leaves out comes before one that it returns.               *)
THEOREM FetchIsABatch ==
    ASSUME NEW table \in [Nik -> Row], NEW since \in Nat
    PROVE  LET S == NewerThan(table, since)
               B == FetchKaryawanUpdatedSince(table, since)
           IN  /\ B \subseteq S
               /\ Cardinality(B) =
                     IF Cardinality(S) <= BatchSize THEN Cardinality(S) ELSE BatchSize
               /\ \A x \in B, y \in S \ B : Before(x, y)
<1> DEFINE S == NewerThan(table, since)
           B == FetchKaryawanUpdatedSince(table, since)
           f == [x \in S |-> Cardinality(Ahead(S, x))]
           k == IF Cardinality(S) <= BatchSize THEN Cardinality(S) ELSE BatchSize
<1>1. B = {x \in S : f[x] < BatchSize}
  BY DEF FetchKaryawanUpdatedSince, FirstOf, Ahead
<1>2. f \in Bijection(S, 0..(Cardinality(S) - 1))
  BY RankBijection
<1>3. /\ f \in [S -> 0..(Cardinality(S) - 1)]
      /\ \A x, y \in S : f[x] = f[y] => x = y
      /\ \A i \in 0..(Cardinality(S) - 1) : \E x \in S : f[x] = i
  BY <1>2 DEF Bijection, Injection, IsInjective, Surjection
<1>4. Cardinality(S) \in Nat /\ IsFiniteSet(S) /\ BatchSize \in Nat
  BY NewerRows, FS_CardinalityType, BatchAssumption
<1>5. ASSUME NEW x \in S, NEW y \in S, Before(y, x) PROVE f[y] <= f[x]
  <2>1. Ahead(S, y) \in SUBSET Ahead(S, x) /\ Ahead(S, x) \in SUBSET S
    BY <1>5, NewerRows DEF Ahead, Before
  <2>2. IsFiniteSet(Ahead(S, x))
    BY <1>4, <2>1, FS_Subset
  <2> HIDE DEF S
  <2> QED
    BY <2>1, <2>2, FS_Subset
<1>6. \A x, y \in S : x = y \/ Before(x, y) \/ Before(y, x)
  <2> SUFFICES ASSUME NEW x \in S, NEW y \in S, x.nik = y.nik PROVE x = y
    BY NewerRows DEF Before
  <2> QED
    BY NewerRows
<1> HIDE DEF S, B, f
<1>7. Cardinality(B) = k
  <2> DEFINE g == [x \in B |-> f[x]]
  <2>1. k \in Nat /\ IsFiniteSet(0..(k-1)) /\ Cardinality(0..(k-1)) = k
    BY <1>4, CountTo
  <2>2. g \in [B -> 0..(k-1)]
    BY <1>1, <1>3, <1>4
  <2>3. g \in Injection(B, 0..(k-1))
    BY <1>1, <1>3, <2>2 DEF Injection, IsInjective
  <2>4. ASSUME NEW i \in 0..(k-1) PROVE \E x \in B : g[x] = i
    <3>1. i \in 0..(Cardinality(S) - 1) /\ i < BatchSize
      BY <1>4
    <3>2. PICK x \in S : f[x] = i
      BY <1>3, <3>1
    <3> QED
      BY <1>1, <3>1, <3>2
  <2>5. g \in Surjection(B, 0..(k-1))
    BY <2>2, <2>4 DEF Surjection
  <2> QED
    BY <2>1, <2>3, <2>5, FS_Injection
<1>8. ASSUME NEW x \in B, NEW y \in S \ B PROVE Before(x, y)
  <2>1. x \in S /\ f[x] < BatchSize /\ ~ f[y] < BatchSize /\ f[x] \in Nat /\ f[y] \in Nat
    BY <1>1, <1>3, <1>4
  <2> QED
    BY <1>4, <1>5, <1>6, <2>1
<1>9. B \subseteq S
  BY <1>1
<1> QED
  BY <1>7, <1>8, <1>9 DEF S, B

(* A row older than one of the batch has not been left out.                *)
LEMMA FetchCut ==
    ASSUME NEW table \in [Nik -> Row], NEW since \in Nat,
           NEW x \in FetchKaryawanUpdatedSince(table, since),
           NEW n \in Nik, table[n].ts > since, table[n].ts < x.row.ts
    PROVE  [nik |-> n, row |-> table[n]] \in FetchKaryawanUpdatedSince(table, since)
<1> DEFINE z == [nik |-> n, row |-> table[n]]
<1>1. z \in NewerThan(table, since)
  BY DEF NewerThan
<1>2. x \in NewerThan(table, since) /\ x.row.ts \in Nat /\ table[n].ts \in Nat
  BY FetchIsABatch, NewerRows DEF Row
<1>3. ~ Before(x, z)
  BY <1>2 DEF Before
<1> QED
  BY <1>1, <1>3, FetchIsABatch

-----------------------------------------------------------------------------
(* The invariant, step by step.                                            *)

LEMMA GapInit == TypeOK /\ Init => GapInv
BY DEF TypeOK, Init, GapInv, TableInv, RunInv, ReachedInv, TodoInv, Advancing

(* The data of every state, for the arithmetic.                            *)
LEMMA Numbers ==
    ASSUME IInv
    PROVE  /\ clock \in Nat /\ wm \in Nat /\ wm <= clock /\ wm \in marks
           /\ mirror \in [Nik -> Row] /\ src \in [Nik -> Row]
           /\ Orderly => late = {}
           /\ \A n \in Nik : /\ src[n].ts \in Nat /\ src[n].ver \in Nat
                             /\ mirror[n].ts \in Nat /\ mirror[n].ver \in Nat
                             /\ src[n].ts <= clock /\ NotAhead(mirror[n], n)
           /\ \A w \in Run :
                 /\ maxTs[w] \in Nat /\ maxTs[w] <= clock
                 /\ \A x \in todo[w] :
                       /\ x.nik \in Nik /\ x.nik \in Nat
                       /\ x.row \in Row /\ x.row.ts \in Nat /\ x.row.ver \in Nat
                       /\ x = [nik |-> x.nik, row |-> x.row]
                       /\ NotAhead(x.row, x.nik)
<1>1. TypeOK /\ AheadInv
  BY DEF IInv
<1>2. ASSUME NEW n \in Nik
      PROVE  /\ src[n].ts \in Nat /\ src[n].ver \in Nat
             /\ mirror[n].ts \in Nat /\ mirror[n].ver \in Nat
             /\ src[n].ts <= clock /\ NotAhead(mirror[n], n)
  BY <1>1 DEF TypeOK, AheadInv, SourceInv, Row
<1>3. ASSUME NEW w \in Run, NEW x \in todo[w]
      PROVE  /\ x.nik \in Nik /\ x.nik \in Nat
             /\ x.row \in Row /\ x.row.ts \in Nat /\ x.row.ver \in Nat
             /\ x = [nik |-> x.nik, row |-> x.row]
             /\ NotAhead(x.row, x.nik)
  <2>1. x \in Fetched
    BY <1>1 DEF TypeOK
  <2> QED
    BY <1>1, <2>1, NikAssumption DEF AheadInv, FromSource, Fetched, Row
<1> QED
  BY <1>1, <1>2, <1>3 DEF TypeOK, AheadInv, Orderly

(* While one run is past the lock the others have nothing in hand.         *)
LEMMA OthersQuiet ==
    ASSUME Tight, NEW w \in Run, Working(w), NEW v \in Run, v # w
    PROVE  pc[v] \in {"idle", "lock"} /\ todo[v] = {}
BY DEF Tight, IInv, LockInv, Connected, GapInv, RunInv, Working

(* What no step touched stays as it was.                                   *)
LEMMA RunFrame ==
    ASSUME NEW w \in Run, RunInv(w), UNCHANGED <<src, late, mirror, wm, marks>>,
           pc'[w] = pc[w], pendState'[w] = pendState[w], maxTs'[w] = maxTs[w],
           todo'[w] = todo[w]
    PROVE  RunInv(w)'
BY DEF RunInv, ReachedInv, TodoInv, CoveredTo, Elusive, Orderly, Advancing

LEMMA TableFrame ==
    ASSUME Tight, UNCHANGED <<source, mirror, watermark, stray>>
    PROVE  TableInv' /\ Forward /\ Refines /\ UNCHANGED <<src, late, clock, mirror, wm, marks>>
<1>1. UNCHANGED <<src, late, clock, mirror, wm, marks, stray>>
  BY DEF source, watermark
<1>2. Forward
  BY <1>1, Numbers DEF Tight, Forward
<1>3. Refines
  BY <1>1 DEF Refines, Abstract!vars
<1> QED
  BY <1>1, <1>2, <1>3 DEF Tight, IInv, GapInv, TableInv, Elusive, Orderly

(* The next row of the loop: it moves its employee forward, within what    *)
(* the source has had, and disturbs nothing the watermark covers.          *)
LEMMA UpsertRow ==
    ASSUME Tight, NEW w \in Run, NEW x \in todo[w],
           mirror' = [mirror EXCEPT ![x.nik] = x.row],
           UNCHANGED <<source, watermark, stray>>
    PROVE  TableInv' /\ Forward /\ Refines
<1> USE DEF Tight
<1>1. TodoInv(w)
  BY DEF IInv, GapInv, RunInv
<1>2. /\ wm < x.row.ts /\ mirror[x.nik].ver <= x.row.ver
      /\ Orderly => mirror[x.nik].ts <= x.row.ts
  BY <1>1 DEF TodoInv
<1>3. x.nik \in Nik /\ NotAhead(x.row, x.nik) /\ x.row.ts \in Nat
  BY Numbers
<1>4. UNCHANGED <<src, late, wm, marks, stray>>
  BY DEF source, watermark
<1>5. mirror'[x.nik] = x.row /\ \A n \in Nik \ {x.nik} : mirror'[n] = mirror[n]
  BY <1>3, Numbers
<1>6. x.nik \in late \/ ~ src[x.nik].ts <= wm
  BY <1>2, <1>3, Numbers DEF NotAhead
<1>7. TableInv'
  BY <1>4, <1>5, <1>6 DEF IInv, GapInv, TableInv, Elusive, Orderly
<1>8. Forward
  BY <1>2, <1>3, <1>5, Numbers DEF Forward
<1>9. Refines
  <2> SUFFICES ASSUME Orderly PROVE Abstract!Copy(x.nik)
    BY <1>3 DEF Refines, Abstract!Next
  <2> QED
    BY <1>2, <1>3, <1>4, Numbers DEF Abstract!Copy, NotAhead, Version
<1> QED
  BY <1>7, <1>8, <1>9

(* An upsert whose caller gives up, executed or not.                       *)
LEMMA UpsertMaybe ==
    ASSUME Tight, NEW w \in Run, MaybeUpserted(w), UNCHANGED <<source, watermark, stray>>
    PROVE  TableInv' /\ Forward /\ Refines
<1>1. CASE UNCHANGED mirror
  BY <1>1, TableFrame
<1>2. CASE ~ UNCHANGED mirror
  BY <1>2, UpsertRow DEF MaybeUpserted
<1> QED
  BY <1>1, <1>2

(* A run returns, whatever it has done: all runs but one have nothing in   *)
(* hand before, and that one has nothing in hand after.                    *)
LEMMA ReturnRuns ==
    ASSUME Tight, NEW w \in Run, NEW r, Return(w, r),
           Working(w) \/ UNCHANGED <<src, late, mirror, wm, marks>>
    PROVE  \A v \in Run : RunInv(v)'
<1> USE DEF Tight
<1>1. pc'[w] = "idle" /\ todo'[w] = {}
  BY DEF IInv, TypeOK, Return, Goto
<1>2. RunInv(w)'
  BY <1>1 DEF RunInv, ReachedInv, TodoInv, Advancing
<1>3. ASSUME NEW v \in Run, v # w
      PROVE  /\ pc'[v] = pc[v] /\ pendState'[v] = pendState[v] /\ maxTs'[v] = maxTs[v]
             /\ todo'[v] = todo[v]
  BY <1>3 DEF IInv, TypeOK, Return, EndTx, Goto
<1>4. ASSUME NEW v \in Run, v # w, Working(w) PROVE RunInv(v)'
  <2>1. pc'[v] \in {"idle", "lock"} /\ todo'[v] = {}
    BY <1>3, <1>4, OthersQuiet
  <2> QED
    BY <2>1 DEF RunInv, ReachedInv, TodoInv, Advancing
<1>5. ASSUME NEW v \in Run, v # w, UNCHANGED <<src, late, mirror, wm, marks>> PROVE RunInv(v)'
  BY <1>3, <1>5, RunFrame DEF IInv, GapInv
<1> QED
  BY <1>2, <1>4, <1>5

(* The step of a run past the lock: only its own part needs an argument.   *)
LEMMA OthersStay ==
    ASSUME Tight, NEW w \in Run, Working(w), RunInv(w)',
           \A v \in Run \ {w} : pc'[v] = pc[v] /\ todo'[v] = todo[v]
    PROVE  \A v \in Run : RunInv(v)'
<1> SUFFICES ASSUME NEW v \in Run, v # w PROVE RunInv(v)'
  OBVIOUS
<1>1. pc'[v] \in {"idle", "lock"} /\ todo'[v] = {}
  BY OthersQuiet
<1> QED
  BY <1>1 DEF RunInv, ReachedInv, TodoInv, Advancing

(* A write that becomes visible late changes only a row that is elusive    *)
(* from then on.                                                           *)
LEMMA WriteLateStep ==
    ASSUME Tight, NEW n \in Nik, SourceWriteLate(n)
    PROVE  GapInv' /\ Forward /\ Refines
<1> USE DEF Tight
<1>1. /\ UNCHANGED <<mirror, wm, marks, stray, pc, pendState, maxTs, todo>>
      /\ n \in late' /\ ~ Orderly
      /\ \A m \in Nik \ {n} : src'[m] = src[m] /\ (m \in late' <=> m \in late)
  BY Numbers DEF SourceWriteLate, Fault, Orderly, postgres, watermark, runs, pending
<1>2. Elusive(n)' /\ \A m \in Nik \ {n} : Elusive(m)' <=> Elusive(m)
  BY <1>1 DEF Elusive, Orderly
<1>3. TableInv'
  BY <1>1, <1>2 DEF IInv, GapInv, TableInv
<1>4. \A t : CoveredTo(t) => CoveredTo(t)'
  BY <1>1, <1>2 DEF CoveredTo, Below, Orderly
<1>5. ASSUME NEW w \in Run PROVE RunInv(w)'
  <2>1. RunInv(w)
    BY DEF IInv, GapInv
  <2>2. ReachedInv(w)'
    BY <1>1, <1>4, <2>1 DEF RunInv, ReachedInv, Advancing
  <2>3. TodoInv(w)'
    BY <1>1, <1>2, <2>1 DEF RunInv, TodoInv, Below, Orderly
  <2> QED
    BY <1>1, <2>1, <2>2, <2>3 DEF RunInv
<1> QED
  BY <1>1, <1>3, <1>5, Numbers DEF GapInv, Forward, Refines

(* A write of the source: not older than any stamp seen so far, and when   *)
(* it is as old as the watermark it is tied with it.                       *)
LEMMA WriteStep ==
    ASSUME Tight, NEW n \in Nik, SourceWrite(n)
    PROVE  GapInv' /\ Forward /\ Refines
<1> USE DEF Tight
<1>1. PICK now \in {clock, clock + 1} :
          /\ StrictSource => now > clock
          /\ clock' = now
          /\ src' = [src EXCEPT ![n] = [ver |-> writes + 1, ts |-> now]]
  BY DEF SourceWrite
<1>2. /\ UNCHANGED <<mirror, wm, marks, stray, pc, pendState, maxTs, todo>>
      /\ late' = late \ {n} /\ writes < MaxWrites /\ writes \in Nat
  BY DEF SourceWrite, postgres, watermark, runs, pending, IInv, TypeOK
<1>3. now \in Nat /\ clock <= now /\ (Orderly => clock < now)
  BY <1>1, Numbers DEF Orderly
<1>4. /\ src'[n].ts = now /\ src'[n].ver = writes + 1
      /\ \A m \in Nik \ {n} : src'[m] = src[m]
  BY <1>1, Numbers
<1>5. \A t \in Nat : t <= clock => ~ Below(src'[n].ts, t)
  BY <1>3, <1>4, Numbers DEF Below, Orderly
<1>6. \A m \in Nik \ {n} : Elusive(m)' <=> Elusive(m)
  BY <1>2, <1>4 DEF Elusive, Orderly
<1>7. TableInv'
  <2> SUFFICES ASSUME NEW m \in Nik, src'[m].ts <= wm PROVE mirror'[m] = src'[m] \/ Elusive(m)'
    BY <1>2 DEF IInv, GapInv, TableInv
  <2>1. CASE m = n
    <3>1. ~ Orderly /\ src'[m].ts = wm
      BY <1>3, <1>4, <2>1, Numbers
    <3> QED
      BY <1>2, <3>1, Numbers DEF Elusive, Orderly
  <2>2. CASE m # n
    BY <1>2, <1>4, <1>6, <2>2 DEF IInv, GapInv, TableInv
  <2> QED
    BY <2>1, <2>2
<1>8. \A t \in Nat : t <= clock /\ CoveredTo(t) => CoveredTo(t)'
  BY <1>2, <1>4, <1>5, <1>6 DEF CoveredTo
<1>9. ASSUME NEW w \in Run PROVE RunInv(w)'
  <2>1. RunInv(w)
    BY DEF IInv, GapInv
  <2>2. ReachedInv(w)'
    BY <1>2, <1>8, <2>1, Numbers DEF RunInv, ReachedInv, Advancing
  <2>3. TodoInv(w)'
    <3> SUFFICES ASSUME NEW x \in todo[w], NEW m \in Nik, Below(src'[m].ts, x.row.ts)
        PROVE  \/ mirror'[m] = src'[m] \/ Elusive(m)'
               \/ [nik |-> m, row |-> src'[m]] \in todo'[w]
      BY <1>2, <2>1 DEF RunInv, TodoInv
    <3>1. x.row.ts \in Nat /\ x.row.ts <= clock
      BY Numbers DEF NotAhead
    <3>2. m # n
      BY <1>5, <3>1
    <3> QED
      BY <1>2, <1>4, <1>6, <2>1, <3>2 DEF RunInv, TodoInv
  <2> QED
    BY <1>2, <2>1, <2>2, <2>3 DEF RunInv
<1>10. Forward
  BY <1>2, Numbers DEF Forward
<1>11. Refines
  <2> SUFFICES ASSUME Orderly PROVE Abstract!SourceChanges(n)
    BY DEF Refines, Abstract!Next
  <2> DEFINE r == [ver |-> writes + 1, ts |-> now]
  <2>1. now <= MaxWrites /\ writes + 1 <= MaxWrites
    BY <1>1, <1>2, Numbers, BoundAssumption DEF IInv, AheadInv, SourceInv
  <2>2. r \in [ver : 0..MaxWrites, ts : 0..MaxWrites]
    BY <1>2, <1>3, <2>1, BoundAssumption
  <2>3. r.ts > wm /\ \A m \in Nik : r.ts > src[m].ts
    BY <1>3, Numbers
  <2> QED
    BY <1>1, <1>2, <2>2, <2>3 DEF Abstract!SourceChanges
<1> QED
  BY <1>7, <1>9, <1>10, <1>11 DEF GapInv

(* The fetch: whatever the source holds between the watermark and the last *)
(* row fetched has been fetched with it, rows that share its stamp apart.  *)
LEMMA FetchRun ==
    ASSUME Tight, NEW w \in Run, Fetch(w)
    PROVE  RunInv(w)'
<1> USE DEF Tight
<1> DEFINE B == FetchKaryawanUpdatedSince(src, wm)
<1>1. /\ pc[w] = "fetch" /\ pc'[w] = IF todo'[w] = {} THEN "state" ELSE "upsert"
      /\ maxTs'[w] = maxTs[w] /\ UNCHANGED <<src, late, mirror, wm, marks>>
      /\ todo'[w] = FetchKaryawanUpdatedSince(src, maxTs[w])
  BY DEF Fetch, Goto, IInv, TypeOK, source, postgres, watermark
<1>2. ReachedInv(w) /\ Advancing(w)
  BY <1>1 DEF IInv, GapInv, RunInv, Advancing
<1>3. maxTs[w] = wm /\ todo'[w] = B
  BY <1>1, <1>2 DEF ReachedInv
<1>4. ReachedInv(w)'
  BY <1>1, <1>2 DEF ReachedInv, CoveredTo, Elusive, Orderly
<1>5. ASSUME NEW x \in B
      PROVE  /\ x.nik \in Nik /\ x.row = src[x.nik] /\ x.row.ts > wm
             /\ x = [nik |-> x.nik, row |-> src[x.nik]]
  BY <1>5 DEF FetchKaryawanUpdatedSince, FirstOf, NewerThan
<1> HIDE DEF B
<1>6. ASSUME NEW x \in B
      PROVE  /\ wm < x.row.ts /\ maxTs[w] <= x.row.ts
             /\ mirror[x.nik].ver <= x.row.ver
             /\ Orderly => mirror[x.nik].ts <= x.row.ts
  BY <1>3, <1>5, Numbers DEF NotAhead
<1>7. ASSUME NEW x \in B, NEW y \in B,
             x.nik = y.nik \/ (Orderly /\ x.row.ts = y.row.ts)
      PROVE  x = y
  <2>1. x.nik = y.nik
    BY <1>5, <1>7, Numbers DEF IInv, AheadInv, SourceInv, Epoch
  <2> QED
    BY <1>5, <2>1
<1>8. ASSUME NEW x \in B, NEW n \in Nik, Below(src[n].ts, x.row.ts)
      PROVE  mirror[n] = src[n] \/ Elusive(n) \/ [nik |-> n, row |-> src[n]] \in B
  <2>1. CASE src[n].ts <= wm
    BY <2>1 DEF IInv, GapInv, TableInv
  <2>2. CASE src[n].ts > wm /\ src[n].ts < x.row.ts
    BY <2>2, FetchCut, Numbers DEF B
  <2>3. CASE src[n].ts > wm /\ Orderly /\ src[n].ts = x.row.ts
    <3>1. n = x.nik
      BY <1>5, <2>3, Numbers DEF IInv, AheadInv, SourceInv, Epoch
    <3> QED
      BY <1>5, <3>1
  <2> QED
    BY <1>5, <1>8, <2>1, <2>2, <2>3, Numbers DEF Below, Orderly
<1>9. TodoInv(w)'
  BY <1>1, <1>3, <1>6, <1>7, <1>8 DEF TodoInv, Below, Elusive, Orderly
<1> QED
  BY <1>1, <1>4, <1>9 DEF RunInv

(* One row of the loop: the stamp the run has reached becomes that of the  *)
(* row, and everything before it is now in the mirror.                     *)
LEMMA UpsertRun ==
    ASSUME Tight, NEW w \in Run, Upsert(w)
    PROVE  RunInv(w)' /\ TableInv' /\ Forward /\ Refines
<1> USE DEF Tight
<1>1. PICK x \in todo[w] :
          /\ NextRow(w, x)
          /\ mirror' = [mirror EXCEPT ![x.nik] = x.row]
          /\ maxTs'  = [maxTs EXCEPT ![w] = IF x.row.ts > @ THEN x.row.ts ELSE @]
          /\ todo'   = [todo EXCEPT ![w] = @ \ {x}]
  BY DEF Upsert
<1>2. /\ UNCHANGED <<source, watermark, stray>> /\ UNCHANGED <<src, late, wm, marks>>
      /\ pc'[w] = IF todo'[w] = {} THEN "state" ELSE "upsert"
  BY DEF Upsert, Goto, source, watermark, IInv, TypeOK
<1>3. TableInv' /\ Forward /\ Refines
  BY <1>1, <1>2, UpsertRow
<1>4. TodoInv(w) /\ maxTs[w] <= x.row.ts
  BY DEF IInv, GapInv, RunInv, TodoInv
<1>5. /\ NotAhead(x.row, x.nik) /\ x.nik \in Nik /\ maxTs[w] \in Nat
      /\ x.row.ts \in Nat /\ x.row.ver \in Nat
  BY Numbers
<1>6. maxTs'[w] = x.row.ts /\ todo'[w] = todo[w] \ {x}
  BY <1>1, <1>4, <1>5 DEF IInv, TypeOK
<1>7. mirror'[x.nik] = x.row /\ \A n \in Nik \ {x.nik} : mirror'[n] = mirror[n]
  BY <1>1, <1>5, Numbers
<1>8. ASSUME NEW y \in todo[w] \ {x}
      PROVE  /\ y.nik # x.nik /\ x.row.ts <= y.row.ts /\ ~ Below(y.row.ts, x.row.ts)
             /\ y.nik \in Nik /\ y.row.ts \in Nat /\ y.row.ver \in Nat
  <2>1. x.nik # y.nik /\ ~ (Orderly /\ x.row.ts = y.row.ts)
    BY <1>4 DEF TodoInv
  <2>2. ~ y.row.ts < x.row.ts
    BY <1>1 DEF NextRow, Before
  <2> QED
    BY <1>5, <2>1, <2>2, Numbers DEF Below, Orderly
<1>9. CoveredTo(x.row.ts)'
  <2> SUFFICES ASSUME NEW n \in Nik, Below(src[n].ts, x.row.ts), ~ Elusive(n)
      PROVE  mirror'[n] = src[n]
    BY <1>2 DEF CoveredTo, Below, Elusive, Orderly
  <2>1. CASE n = x.nik
    BY <1>5, <1>7, <2>1, Numbers DEF NotAhead, Below, Elusive, Orderly
  <2>2. CASE n # x.nik
    <3> DEFINE z == [nik |-> n, row |-> src[n]]
    <3>1. mirror[n] = src[n] \/ z \in todo[w]
      BY <1>4 DEF TodoInv
    <3>2. z \notin todo[w] \ {x} /\ z # x
      BY <1>8, <2>2
    <3> QED
      BY <1>7, <2>2, <3>1, <3>2
  <2> QED
    BY <2>1, <2>2
<1>10. ReachedInv(w)'
  BY <1>2, <1>5, <1>6, <1>7, <1>9 DEF ReachedInv
<1>11. ASSUME NEW y \in todo[w] \ {x}, NEW n \in Nik, Below(src[n].ts, y.row.ts), ~ Elusive(n)
       PROVE  mirror'[n] = src[n] \/ [nik |-> n, row |-> src[n]] \in todo[w] \ {x}
  <2>1. mirror[n] = src[n] \/ [nik |-> n, row |-> src[n]] \in todo[w]
    BY <1>4, <1>11 DEF TodoInv
  <2>2. CASE n = x.nik /\ mirror[n] = src[n]
    <3>1. /\ src[n].ver <= x.row.ver /\ x.row.ver <= src[n].ver
          /\ src[n].ver \in Nat
      BY <1>4, <1>5, <2>2, Numbers DEF TodoInv, NotAhead
    <3>2. x.row.ver = src[n].ver
      BY <1>5, <3>1
    <3> QED
      BY <1>5, <1>7, <2>2, <3>2 DEF NotAhead
  <2>3. CASE [nik |-> n, row |-> src[n]] = x
    BY <1>7, <2>3
  <2>4. CASE n # x.nik
    BY <1>7, <2>1, <2>4
  <2> QED
    BY <2>1, <2>2, <2>3, <2>4
<1>12. TodoInv(w)'
  <2> SUFFICES ASSUME NEW y \in todo[w] \ {x}
      PROVE  /\ wm < y.row.ts /\ x.row.ts <= y.row.ts
             /\ mirror'[y.nik].ver <= y.row.ver
             /\ Orderly => mirror'[y.nik].ts <= y.row.ts
             /\ \A u \in todo[w] :
                   y.nik = u.nik \/ (Orderly /\ y.row.ts = u.row.ts) => y = u
    BY <1>2, <1>6, <1>11 DEF TodoInv, Below, Elusive, Orderly
  <2>1. y.nik \in Nik \ {x.nik} /\ x.row.ts <= y.row.ts
    BY <1>8
  <2> QED
    BY <1>4, <1>7, <2>1 DEF TodoInv
<1> QED
  BY <1>2, <1>3, <1>10, <1>12 DEF RunInv

(* The transaction's writes: the watermark moves to what the run reached,  *)
(* and the rows it ties with are excused from then on.                     *)
LEMMA VisibleStep ==
    ASSUME Tight, NEW w \in Run, pc[w] = "commit", MakeVisible(w), UNCHANGED source
    PROVE  TableInv' /\ Forward /\ Refines
<1> USE DEF Tight
<1>1. UNCHANGED <<src, late, clock, mirror, stray>>
  BY DEF MakeVisible, source
<1>2. Forward
  BY <1>1, Numbers DEF Forward
<1>3. CASE pendState[w] # "success"
  <2>1. UNCHANGED watermark
    BY <1>3, Numbers DEF MakeVisible, MoveWatermark, watermark
  <2> QED
    BY <1>1, <2>1, TableFrame
<1>4. CASE pendState[w] = "success"
  <2>1. wm' = maxTs[w] /\ marks' = marks \cup {maxTs[w]}
    BY <1>4 DEF MakeVisible, MoveWatermark
  <2>2. /\ CoveredTo(maxTs[w]) /\ maxTs[w] >= wm /\ maxTs[w] \in Nat
        /\ maxTs[w] = wm \/ \E n \in Nik : mirror[n].ts = maxTs[w]
    BY <1>4, Numbers DEF IInv, GapInv, RunInv, ReachedInv, Advancing, WatermarkInv
  <2>3. TableInv'
    <3> SUFFICES ASSUME NEW n \in Nik, src[n].ts <= maxTs[w], mirror[n] # src[n]
        PROVE  Elusive(n)'
      BY <1>1, <2>1 DEF IInv, GapInv, TableInv
    <3>1. CASE Below(src[n].ts, maxTs[w])
      BY <1>1, <2>1, <2>2, <3>1 DEF CoveredTo, Elusive, Orderly
    <3>2. CASE ~ Below(src[n].ts, maxTs[w])
      <4>1. ~ Orderly /\ src[n].ts = maxTs[w]
        BY <2>2, <3>2, Numbers DEF Below, Orderly
      <4> QED
        BY <1>1, <2>1, <4>1 DEF Elusive, Orderly
    <3> QED
      BY <3>1, <3>2
  <2>4. Refines
    <3> SUFFICES ASSUME Orderly PROVE UNCHANGED wm \/ Abstract!Advance
      BY <1>1 DEF Refines, Abstract!Next, Abstract!vars
    <3>1. \A n \in Nik : src[n].ts <= maxTs[w] => mirror[n] = src[n]
      BY <2>2, Numbers DEF CoveredTo, Below, Elusive, Orderly
    <3> QED
      BY <1>1, <2>1, <2>2, <3>1 DEF Abstract!Advance, Abstract!CoveredUpTo
  <2> QED
    BY <1>2, <2>3, <2>4
<1> QED
  BY <1>3, <1>4

(* Every step after which still no statement has outlived its lock.        *)
LEMMA GapStep ==
    ASSUME IInv, [Next]_vars, loose' = {}
    PROVE  GapInv' /\ Forward /\ Refines
<1>a. Tight
  BY LooseGrows DEF Tight
<1>b. IInv /\ TableInv /\ \A w \in Run : RunInv(w)
  BY <1>a DEF Tight, IInv, GapInv
<1>1. ASSUME NEW n \in Nik, SourceWrite(n) \/ SourceWriteLate(n)
      PROVE  GapInv' /\ Forward /\ Refines
  BY <1>a, <1>1, WriteStep, WriteLateStep
  (* Steps before the run has anything in hand.                            *)
<1>2. ASSUME NEW w \in Run, Begin(w) \/ AcquireLock(w) \/ InsertRun(w)
      PROVE  GapInv' /\ Forward /\ Refines
  <2>1. /\ UNCHANGED <<source, mirror, watermark, stray, todo, maxTs, pendState>>
        /\ pc'[w] \in {"lock", "insert", "readWatermark"}
        /\ pc[w] \in {"idle", "lock", "insert"}
        /\ \A v \in Run \ {w} : pc'[v] = pc[v]
    BY <1>2 DEF IInv, TypeOK, Begin, AcquireLock, InsertRun, Goto, postgres, pending
  <2>2. TableInv' /\ Forward /\ Refines /\ UNCHANGED <<src, late, mirror, wm, marks>>
    BY <1>a, <2>1, TableFrame
  <2>3. RunInv(w)'
    BY <1>b, <2>1 DEF RunInv, ReachedInv, TodoInv, Advancing
  <2>4. \A v \in Run \ {w} : RunInv(v)'
    BY <1>b, <2>1, <2>2, RunFrame
  <2> QED
    BY <2>2, <2>3, <2>4 DEF GapInv
<1>3. ASSUME NEW w \in Run, ReadWatermark(w) PROVE GapInv' /\ Forward /\ Refines
  <2>1. /\ UNCHANGED <<source, mirror, watermark, stray, todo>>
        /\ pc'[w] = "fetch" /\ maxTs'[w] = wm /\ pc[w] = "readWatermark"
        /\ \A v \in Run \ {w} : pc'[v] = pc[v]
    BY <1>3 DEF IInv, TypeOK, ReadWatermark, Goto, postgres
  <2>2. TableInv' /\ Forward /\ Refines /\ UNCHANGED <<src, late, mirror, wm, marks>>
    BY <1>a, <2>1, TableFrame
  <2>3. todo'[w] = {}
    BY <1>b, <2>1 DEF RunInv
  <2>4. CoveredTo(wm)'
    BY <1>b, <2>2, Numbers DEF TableInv, CoveredTo, Below, Elusive, Orderly
  <2>5. RunInv(w)'
    BY <2>1, <2>2, <2>3, <2>4 DEF RunInv, ReachedInv, TodoInv
  <2> QED
    BY <1>a, <2>1, <2>2, <2>5, OthersStay DEF GapInv, Working
<1>4. ASSUME NEW w \in Run, Fetch(w) PROVE GapInv' /\ Forward /\ Refines
  <2>1. /\ UNCHANGED <<source, mirror, watermark, stray>> /\ Working(w)
        /\ \A v \in Run \ {w} : pc'[v] = pc[v] /\ todo'[v] = todo[v]
    BY <1>b, <1>4 DEF IInv, TypeOK, Fetch, Goto, postgres, Working
  <2> QED
    BY <1>a, <1>4, <2>1, FetchRun, OthersStay, TableFrame DEF GapInv
<1>5. ASSUME NEW w \in Run, Upsert(w) PROVE GapInv' /\ Forward /\ Refines
  <2>1. Working(w) /\ \A v \in Run \ {w} : pc'[v] = pc[v] /\ todo'[v] = todo[v]
    BY <1>b, <1>5 DEF IInv, TypeOK, Upsert, Goto, Working
  <2> QED
    BY <1>a, <1>5, <2>1, UpsertRun, OthersStay DEF GapInv
<1>6. ASSUME NEW w \in Run, WriteState(w) \/ FinalizeRun(w) \/ MarkRunFailed(w)
      PROVE  GapInv' /\ Forward /\ Refines
  <2>1. /\ UNCHANGED <<source, mirror, watermark, stray, todo, maxTs>> /\ Working(w)
        /\ \A v \in Run \ {w} : pc'[v] = pc[v]
        /\ pc[w] # "upsert" /\ pc'[w] \notin {"upsert", "fetch"}
        /\ (Advancing(w)' => Advancing(w))
    BY <1>b, <1>6 DEF IInv, TypeOK, WriteState, FinalizeRun, MarkRunFailed, Goto, postgres,
                      Working, Advancing
  <2>2. TableInv' /\ Forward /\ Refines /\ UNCHANGED <<src, late, mirror, wm, marks>>
    BY <1>a, <2>1, TableFrame
  <2>3. RunInv(w)'
    BY <1>b, <2>1, <2>2 DEF RunInv, ReachedInv, TodoInv, CoveredTo, Elusive, Orderly
  <2> QED
    BY <1>a, <2>1, <2>2, <2>3, OthersStay DEF GapInv
<1>7. ASSUME NEW w \in Run, Commit(w) \/ CommitReplyLost(w)
      PROVE  GapInv' /\ Forward /\ Refines
  <2>1. /\ pc[w] = "commit" /\ MakeVisible(w) /\ UNCHANGED source /\ Working(w)
        /\ \E r : Return(w, r)
    BY <1>7 DEF Commit, CommitReplyLost, Working
  <2> QED
    BY <1>a, <2>1, VisibleStep, ReturnRuns DEF GapInv
<1>8. ASSUME NEW w \in Run, TxStatementFails(w) \/ FindTxGone(w)
      PROVE  GapInv' /\ Forward /\ Refines
  <2>1. Return(w, "error") /\ UNCHANGED <<source, mirror, watermark, stray>>
    BY <1>8 DEF TxStatementFails, FindTxGone, postgres
  <2> QED
    BY <1>a, <2>1, ReturnRuns, TableFrame DEF GapInv
<1>9. ASSUME NEW w \in Run, Kill(w) PROVE GapInv' /\ Forward /\ Refines
  <2>1. Return(w, "error") /\ MaybeUpserted(w) /\ UNCHANGED <<source, watermark, stray>>
    BY <1>9 DEF Kill
  <2>2. Working(w) \/ UNCHANGED <<src, late, mirror, wm, marks>>
    BY <2>1 DEF MaybeUpserted, Working, source, watermark
  <2> QED
    BY <1>a, <2>1, <2>2, ReturnRuns, UpsertMaybe DEF GapInv
<1>10. ASSUME NEW w \in Run, PoolStatementFails(w) PROVE GapInv' /\ Forward /\ Refines
  <2>1. /\ MaybeUpserted(w) /\ UNCHANGED <<source, watermark, stray>> /\ Working(w)
        /\ pc'[w] = "markFailed" /\ todo'[w] = {}
        /\ \A v \in Run \ {w} : pc'[v] = pc[v] /\ todo'[v] = todo[v]
    BY <1>b, <1>10 DEF IInv, TypeOK, PoolStatementFails, PoolStatements, Goto, Working
  <2>2. RunInv(w)'
    BY <2>1 DEF RunInv, ReachedInv, TodoInv, Advancing
  <2> QED
    BY <1>a, <2>1, <2>2, OthersStay, UpsertMaybe DEF GapInv
<1>11. CASE CleanupStaleRuns \/ UNCHANGED vars
  <2>1. UNCHANGED <<source, mirror, watermark, stray, pc, pendState, maxTs, todo>>
    BY <1>11 DEF CleanupStaleRuns, vars, postgres, pending, runs
  <2> QED
    BY <1>a, <1>b, <2>1, RunFrame, TableFrame DEF GapInv
<1>12. ~ ExecuteStray /\ \A w \in Run : ~ KillLeavingUpsert(w) /\ ~ LoseConnection(w)
  BY <1>b DEF TableInv, ExecuteStray, KillLeavingUpsert, LoseConnection, Fault, LooseKinds
<1> QED
  BY <1>1, <1>2, <1>3, <1>4, <1>5, <1>6, <1>7, <1>8, <1>9, <1>10, <1>11, <1>12
     DEF Next, Step, Failure

LEMMA InvAlways == Spec => []IInv
<1>1. Init => IInv
  BY InitType, LockInit, RecordInit, WatermarkInit, AheadInit, GapInit
     DEF IInv, Init, Connected
<1>2. IInv /\ [Next]_vars => IInv'
  <2> SUFFICES ASSUME IInv, [Next]_vars PROVE IInv'
    OBVIOUS
  <2>1. (loose = {} => GapInv)'
    BY GapStep
  <2> QED
    BY <2>1, StepType, LockStep, ConnectedStep, RecordStep, WatermarkStep, AheadStep DEF IInv
<1> QED
  BY <1>1, <1>2, PTL DEF Spec

-----------------------------------------------------------------------------
(* No run, failed run or overlap of runs ever leaves a gap behind the      *)
(* watermark, as long as nothing a run has sent outlives its lock: none at *)
(* all if stamps are distinct and in order, and else only rows stamped in  *)
(* a second at which the watermark has stood, or that came late.           *)
THEOREM NoGapBehindWatermark == Spec => []MirrorCoversWatermark
<1>1. IInv => MirrorCoversWatermark
  BY DEF IInv, GapInv, TableInv, MirrorCoversWatermark
<1> QED
  BY <1>1, InvAlways, PTL

(* When the query would return nothing the mirror is the source, elusive   *)
(* rows apart: what a run has to show for itself when it finds nothing to do.   *)
THEOREM NothingNewMeansEqual ==
    Spec => [](loose = {} /\ NewerThan(src, wm) = {}
               => \A n \in Nik : mirror[n] = src[n] \/ Elusive(n))
<1>1. IInv => (loose = {} /\ NewerThan(src, wm) = {}
               => \A n \in Nik : mirror[n] = src[n] \/ Elusive(n))
  <2> SUFFICES ASSUME IInv, loose = {}, NewerThan(src, wm) = {}, NEW n \in Nik
               PROVE  mirror[n] = src[n] \/ Elusive(n)
    OBVIOUS
  <2>1. [nik |-> n, row |-> src[n]] \notin NewerThan(src, wm)
    OBVIOUS
  <2>2. ~ src[n].ts > wm
    BY <2>1 DEF NewerThan
  <2>3. src[n].ts <= wm
    BY <2>2, Numbers
  <2> QED
    BY <2>3 DEF IInv, GapInv, TableInv
<1> QED
  BY <1>1, InvAlways, PTL

(* No row of the mirror is replaced by an older version of itself, in the  *)
(* same circumstances and also when stamps repeat or come late.           *)
THEOREM RowsNeverGoBack == Spec => NoRowGoesBack
<1>1. IInv /\ [Next]_vars
      => [loose' = {} => \A n \in Nik : mirror'[n].ver >= mirror[n].ver]_vars
  BY GapStep DEF Forward
<1> QED
  BY <1>1, InvAlways, PTL DEF Spec, NoRowGoesBack

(* Over a source with distinct stamps that come in order, where no fault   *)
(* makes a statement outlive its lock, the detailed specification          *)
(* implements Mirror.                                                      *)
THEOREM SyncerImplementsMirror ==
    ASSUME Orderly, Faults \cap LooseKinds = {}
    PROVE  Spec => ImplementsMirror
<1>1. Init => Abstract!Init
  BY DEF Init, Abstract!Init
<1>2. IInv /\ IInv' /\ [Next]_vars => [Abstract!Next]_(Abstract!vars)
  <2> SUFFICES ASSUME IInv, IInv', [Next]_vars PROVE [Abstract!Next]_(Abstract!vars)
    OBVIOUS
  <2>1. loose' = {}
    BY DEF IInv, TypeOK
  <2> QED
    BY <2>1, GapStep DEF Refines
<1> QED
  BY <1>1, <1>2, InvAlways, PTL DEF Spec, ImplementsMirror, Abstract!Spec
=============================================================================
