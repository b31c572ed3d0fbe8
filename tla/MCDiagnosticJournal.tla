-------------------------- MODULE MCDiagnosticJournal --------------------------
(* A small instance of DiagnosticJournal.  The threads are interchangeable, *)
(* but liveness is checked, so that no symmetry is declared.                *)
EXTENDS DiagnosticJournal

CONSTANTS loop, mqtt
MCThreads == {loop, mqtt}
===============================================================================
