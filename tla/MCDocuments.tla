------------------------------ MODULE MCDocuments ------------------------------
(* Documents for TLC: two sets of answers that differ in the file names and  *)
(* in the documents they call for.                                           *)
EXTENDS Documents

CONSTANTS ana, ion

TwoAnswers == {[name |-> ana, member |-> TRUE], [name |-> ion, member |-> FALSE]}
===============================================================================
