------------------------------- MODULE Mirror -------------------------------
(***************************************************************************)
(* What the sync promises, without saying how it is run: a local mirror of *)
(* the source table and a watermark such that everything the source held   *)
(* up to the watermark is in the mirror.  Rows are copied one at a time,   *)
(* never back to an older version, and the watermark moves forward over    *)
(* what has been copied.  Runs, locks, transactions and failures are the   *)
(* business of Syncer, which implements this specification.                *)
(***************************************************************************)
EXTENDS Naturals

CONSTANTS
    Nik,    \* the employees
    Row,    \* what the row of an employee may hold; r.ts is its stamp
    NoRow,  \* an employee who is not in the table
    Epoch   \* older than every stamp

RowsAreStamped == /\ \A r \in Row : r.ts \in Nat
                  /\ NoRow \in Row /\ NoRow.ts = Epoch

VARIABLES
    src,     \* the source table
    mirror,  \* the karyawan table
    wm       \* the watermark
vars == <<src, mirror, wm>>

Init ==
    /\ src    = [n \in Nik |-> NoRow]
    /\ mirror = [n \in Nik |-> NoRow]
    /\ wm     = Epoch

(* Everything stamped at or before t is in the mirror as the source has it *)
CoveredUpTo(t) == \A n \in Nik : src[n].ts <= t => mirror[n] = src[n]

SourceChanges(n) ==
    /\ \E r \in Row :
          /\ \A m \in Nik : r.ts > src[m].ts
          /\ r.ts > wm
          /\ src' = [src EXCEPT ![n] = r]
    /\ UNCHANGED <<mirror, wm>>

(* A row moves forward to a version the source has, or had meanwhile.      *)
Copy(n) ==
    /\ \E r \in Row :
          /\ mirror[n].ts <= r.ts
          /\ r.ts <= src[n].ts
          /\ r.ts = src[n].ts => r = src[n]
          /\ mirror' = [mirror EXCEPT ![n] = r]
    /\ UNCHANGED <<src, wm>>

(* The watermark moves on to the stamp of a row of the mirror.             *)
Advance ==
    /\ \E n \in Nik :
          /\ mirror[n].ts >= wm
          /\ CoveredUpTo(mirror[n].ts)
          /\ wm' = mirror[n].ts
    /\ UNCHANGED <<src, mirror>>

Next == \/ \E n \in Nik : SourceChanges(n) \/ Copy(n)
        \/ Advance

Spec == Init /\ [][Next]_vars

-----------------------------------------------------------------------------
(* Type invariant.                                                         *)
TypeOK == src \in [Nik -> Row] /\ mirror \in [Nik -> Row] /\ wm \in Nat

(* The promise of the watermark: nothing older is missing or out of date.  *)
Covered == CoveredUpTo(wm)
=============================================================================
