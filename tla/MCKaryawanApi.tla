--------------------------- MODULE MCKaryawanApi ---------------------------
EXTENDS KaryawanApi
CONSTANTS it, hr

(* All rows there can be, and those of employees who have not left.        *)
AllRows  == [dept : Dept, gone : BOOLEAN]
HereRows == [dept : Dept, gone : {FALSE}]
=============================================================================
