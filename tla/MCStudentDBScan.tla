-------------------------- MODULE MCStudentDBScan --------------------------
(***************************************************************************)
(* A small instance of StudentDBScan for TLC.                              *)
(***************************************************************************)
EXTENDS StudentDBScan

AnyId == 0..MaxId + 1
=============================================================================
