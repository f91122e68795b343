------------------------------- MODULE MCClients -------------------------------
(* The programs on an agent's host for TLC: the sync of session files        *)
(* (CursorSync), and the export and upload of a chat (TelegramExport); each  *)
(* behaviour follows one.                                                    *)
EXTENDS MCCursorSync, TelegramExport

VARIABLE side    \* "sync" or "export"

\* A chat of two months, of which the third message has another type.
Calendar == <<1, 1, 2, 2>>

ClientsInit == side \in {"sync", "export"} /\ Init /\ ExportInit

ClientsNext ==
  /\ \/ side = "sync" /\ Next /\ UNCHANGED exportVars
     \/ side = "export" /\ ExportNext /\ UNCHANGED vars
  /\ UNCHANGED side

(* The fairness of Spec and of ExportFairSpec, for the side that goes on.    *)
ClientsSpec ==
  /\ ClientsInit /\ [][ClientsNext]_<<side, vars, exportVars>>
  /\ WF_vars(side = "sync" /\ Client)
  /\ WF_exportVars(side = "export" /\ Export) /\ WF_exportVars(side = "export" /\ Upload)
===============================================================================
