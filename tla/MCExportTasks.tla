---------------------------- MODULE MCExportTasks ----------------------------
(* Small instances of ExportTasks for TLC.                                 *)
EXTENDS ExportTasks, TLC

CONSTANTS e1, p1, p2, p3
=============================================================================
