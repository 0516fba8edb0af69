---------------------------- MODULE MCStudentDB ----------------------------
(***************************************************************************)
(* Small instances of StudentDB for TLC.                                   *)
(***************************************************************************)
EXTENDS StudentDB

NoDelete    == OptionLetters \ {"d"}
AnyId       == 0..MaxId + 1
PositiveIds == 1..MaxId + 1
=============================================================================
