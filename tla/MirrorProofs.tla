---------------------------- MODULE MirrorProofs ----------------------------
(* The abstract specification keeps its promise.                           *)
EXTENDS Mirror, TLAPS

MirrorInv == TypeOK /\ Covered

LEMMA InvInit == ASSUME RowsAreStamped PROVE Init => MirrorInv
BY DEF RowsAreStamped, Init, MirrorInv, TypeOK, Covered, CoveredUpTo

LEMMA InvStep ==
    ASSUME RowsAreStamped, MirrorInv, [Next]_vars
    PROVE  MirrorInv'
<1> USE DEF RowsAreStamped, MirrorInv, TypeOK, Covered, CoveredUpTo
<1>1. ASSUME NEW n \in Nik, SourceChanges(n) PROVE MirrorInv'
  BY <1>1 DEF SourceChanges
<1>2. ASSUME NEW n \in Nik, Copy(n) PROVE MirrorInv'
  <2>1. PICK r \in Row : /\ mirror[n].ts <= r.ts
                         /\ r.ts <= src[n].ts
                         /\ r.ts = src[n].ts => r = src[n]
                         /\ mirror' = [mirror EXCEPT ![n] = r]
    BY <1>2 DEF Copy
  <2>2. UNCHANGED <<src, wm>>
    BY <1>2 DEF Copy
  (* Behind the watermark n is already level, so the copy repeats it.      *)
  <2>3. ASSUME src[n].ts <= wm PROVE r = src[n]
    <3>1. mirror[n] = src[n]
      BY <2>3
    <3>2. r.ts \in Nat /\ src[n].ts \in Nat
      BY <2>1
    <3>3. src[n].ts <= r.ts /\ r.ts <= src[n].ts
      BY <2>1, <3>1
    <3>4. r.ts = src[n].ts
      BY <3>2, <3>3
    <3> QED
      BY <2>1, <3>4
  <2> QED
    BY <2>1, <2>2, <2>3
<1>3. CASE Advance
  BY <1>3 DEF Advance
<1>4. CASE UNCHANGED vars
  BY <1>4 DEF vars
<1> QED
  BY <1>1, <1>2, <1>3, <1>4 DEF Next

(* Nothing the source held up to the watermark is missing in the mirror.   *)
THEOREM AlwaysCovered ==
    ASSUME RowsAreStamped
    PROVE  Spec => []Covered
<1>1. Init => MirrorInv
  BY InvInit
<1>2. MirrorInv /\ [Next]_vars => MirrorInv'
  BY InvStep
<1>3. MirrorInv => Covered
  BY DEF MirrorInv
<1> QED
  BY <1>1, <1>2, <1>3, PTL DEF Spec
=============================================================================
