------------------------------ MODULE MCDashboard ------------------------------
(***************************************************************************)
(* What a dashboard shows of a cluster and does to it, composed of the     *)
(* modules that model one report or one kind of call each. They share      *)
(* nothing but the cluster they are about, so an instance follows one of   *)
(* them at a time, its subject.                                            *)
(***************************************************************************)
EXTENDS ClusterSummary, SharedStorage, HAStatus, GuestReport, Access, NodeReports, BackupLog,
        SchemaRoutes, Commands

CONSTANTS n1, n2, n3, g1, g2, g3, r1, r2

VARIABLE subject

Subjects == {"summary", "storage", "ha", "master", "filesystems", "interfaces", "grants",
             "routes", "smart", "replication", "lists", "backups", "schema",
             "commands"}

reportVars ==
    <<rows, words, mounts, held, crm, armed, mode, queued, now, seen, report, skew, filesystems,
      interfaces, granted, asked, smart, jobs, minute, about, listing, started, finished, holder,
      source, schema, table>>

vars == <<subject, reportVars, commandVars>>

Init ==
    /\ subject \in Subjects
    /\ SummaryInit /\ StorageInit /\ HAInit /\ MasterInit /\ FilesystemsInit /\ InterfacesInit
    /\ GrantsInit /\ AskedInit /\ SmartInit /\ ReplicationInit /\ ReportsInit /\ BackupInit
    /\ SchemaInit /\ CommandsInit
    /\ subject = "commands" \/ location = [v \in Machines |-> n1]
    /\ subject = "ha" \/ armed = "armed"
    /\ subject = "master" \/ (now = 0 /\ skew = 0)
    /\ subject = "replication" \/ \A j \in Jobs : jobs[j].lastSync = NoNumber
    /\ subject = "lists" \/ about = "ports"

\* The variables of the modules that are not the subject's.
Unless(s, vs) == subject = s \/ UNCHANGED vs

Next ==
    /\ UNCHANGED subject
    /\ Unless("summary", summaryVars) /\ Unless("storage", storageVars) /\ Unless("ha", haVars)
    /\ Unless("master", masterVars)
    /\ Unless("filesystems", filesystems) /\ Unless("interfaces", interfaces)
    /\ Unless("grants", granted) /\ Unless("routes", asked) /\ Unless("smart", smart)
    /\ Unless("replication", replicationVars) /\ Unless("lists", listVars)
    /\ Unless("backups", logVars)
    /\ Unless("schema", schemaVars) /\ Unless("commands", commandVars)
    /\ \/ subject = "summary" /\ SummaryNext
       \/ subject = "storage" /\ StorageNext
       \/ subject = "ha" /\ HANext
       \/ subject = "master" /\ MasterNext
       \/ subject = "filesystems" /\ FilesystemsNext
       \/ subject = "interfaces" /\ InterfacesNext
       \/ subject = "grants" /\ GrantsNext
       \/ subject = "routes" /\ AskedNext
       \/ subject = "smart" /\ SmartNext
       \/ subject = "replication" /\ ReplicationNext
       \/ subject = "lists" /\ ReportsNext
       \/ subject = "backups" /\ BackupNext
       \/ subject = "schema" /\ SchemaNext
       \/ subject = "commands" /\ CommandsNext

Spec == Init /\ [][Next]_vars

TypeOK ==
    /\ subject \in Subjects
    /\ SummaryTypeOK /\ StorageTypeOK /\ HATypeOK /\ MasterTypeOK
    /\ GuestTypeOK /\ AccessTypeOK /\ NodeTypeOK
    /\ ReportsTypeOK /\ BackupTypeOK /\ SchemaTypeOK
    /\ CommandsTypeOK

-------------------------------------------------------------------------------
(* The instance: nodes of different sizes, an ACL with the root, the two    *)
(* folders that are granted on and one entry in each.                       *)

CoresOfNodes == n1 :> 0 @@ n2 :> 2 @@ n3 :> 4
KindOfGuests == g1 :> "qemu" @@ g2 :> "lxc" @@ g3 :> "qemu"
HostOfGuests == g1 :> n1 @@ g2 :> n2 @@ g3 :> n2
SkewsOfTheClock == {-10, 0, 10}
MemoryOfNodes == n1 :> 1 @@ n2 :> 2 @@ n3 :> 1
ParametersOfRoutes == r1 :> {"node"} @@ r2 :> {}
ShapeOfChecks ==
    "none"        :> Combined("none", {})
    @@ "audit"    :> Perm({"Sys.Audit"}, FALSE, {})
    @@ "power"    :> Perm({"VM.PowerMgmt"}, FALSE, {})
    @@ "both"     :> Perm({"Sys.Audit", "VM.PowerMgmt"}, FALSE, {})
    @@ "any"      :> Perm({"Sys.Audit", "VM.PowerMgmt"}, TRUE, {})
    @@ "optional" :> Perm({"Sys.Audit"}, FALSE, {"node"})
    @@ "or"       :> Combined("or", {"audit", "power"})
    @@ "and"      :> Combined("and", {"audit", "power"})
    @@ "nested"   :> Combined("or", {"audit", "and"})
ChecksOfRoutes == r1 :> DOMAIN ShapeOfChecks \ {"audit", "power"} @@ r2 :> {"audit"}
AclPaths == {<< >>, <<"nodes">>, <<"nodes", "pve1">>, <<"vms">>, <<"vms", "101">>}

Symmetry == Permutations(Callers)
===============================================================================
