----------------------------- MODULE MCMaintenance -----------------------------
(* The maintenance of a store for TLC: pi-memoryd is started to migrate an   *)
(* old store (Migration) or to delete a host (HostDeletion), and each        *)
(* behaviour follows one. A host has an object and a posted record, another, *)
(* whose name begins with the first's, has an object.                        *)
EXTENDS MCMigration, HostDeletion

CONSTANTS box, box2, log, log2, note

VARIABLE flag    \* "migrate-from" or "delete-host"

MCHostOf(i) == IF i = log2 THEN box2 ELSE box
MCExtends(g, h) == g = box2 /\ h = box

(* While a host is deleted, the migration of a store with a duplicate rests. *)
MaintenanceInit ==
  /\ flag \in {"migrate-from", "delete-host"} /\ Init /\ DeletionInit
  /\ flag = "delete-host" => source = ChunkTwice

MaintenanceNext ==
  /\ \/ flag = "migrate-from" /\ Next /\ UNCHANGED deletionVars
     \/ flag = "delete-host" /\ DeletionNext /\ UNCHANGED vars
  /\ UNCHANGED flag

Deleting == flag = "delete-host"

(* The fairness of Migration's Spec and of DeletionFairSpec.                 *)
MaintenanceSpec ==
  /\ MaintenanceInit /\ [][MaintenanceNext]_<<flag, vars, deletionVars>>
  /\ WF_vars(~Deleting /\ Run)
  /\ WF_deletionVars(Deleting /\ Boot) /\ WF_deletionVars(Deleting /\ OpenRegistry)
  /\ WF_deletionVars(Deleting /\ ToolStep)
  /\ \A o \in Objects : WF_deletionVars(Deleting /\ Scan(o))
  /\ \A p \in Posts : WF_deletionVars(Deleting /\ Write(p))

(* Where hosts are deleted, an ended deletion never keeps objects out.       *)
HostsRefilled == Deleting => Refilled
=============================================================================
