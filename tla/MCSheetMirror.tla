---------------------------- MODULE MCSheetMirror ----------------------------
(* Instances of SheetMirror for TLC.                                         *)
EXTENDS SheetMirror

AllCalls == {"context", "fetch", "header", "create", "check", "scan",
             "update", "append", "write", "clear", "drop"}

(* Every call but those after which a tab may be left without its header.    *)
RowCalls == {"context", "fetch", "check", "scan", "update", "append", "drop"}
===============================================================================
