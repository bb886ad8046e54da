----------------------------- MODULE PrivilegeData -----------------------------
(***************************************************************************)
(* CHECKS of _privilege_data.py: what Proxmox checks before it answers a   *)
(* route, one entry per route the library calls that states a check, in    *)
(* the order of the table. A path is the sequence of its segments.         *)
(***************************************************************************)
EXTENDS Naturals, Sequences

On(path, privileges, anyOf) ==
    [path |-> path, privileges |-> privileges, anyOf |-> anyOf]

OnRoot(privileges) == On(<< >>, privileges, FALSE)
OnNode(privileges) == On(<<"nodes", "{node}">>, privileges, FALSE)
OnGuest(privileges) == On(<<"vms", "{vmid}">>, privileges, FALSE)
AnyOnGuest(privileges) == On(<<"vms", "{vmid}">>, privileges, TRUE)

Node(rest) == <<"nodes", "{node}">> \o rest
Guest(kind, rest) == <<"nodes", "{node}", kind, "{vmid}">> \o rest

Route(method, template, alternatives) ==
    [method |-> method, template |-> template, alternatives |-> alternatives]

Audit == {"Sys.Audit"}
Agent == {"VM.GuestAgent.Audit", "VM.GuestAgent.Unrestricted"}
Config == {"VM.Config.Disk", "VM.Config.CPU", "VM.Config.Memory",
           "VM.Config.Network", "VM.Config.Options"}

ClusterReads == <<
    Route("GET", <<"cluster", "backup-info", "not-backed-up">>, <<OnRoot(Audit)>>),
    Route("GET", <<"cluster", "ceph", "status">>,
          <<On(<< >>, {"Sys.Audit", "Datastore.Audit"}, TRUE)>>),
    Route("GET", <<"cluster", "ha", "status", "current">>, <<OnRoot(Audit)>>),
    Route("GET", <<"cluster", "status">>, <<OnRoot(Audit)>>)>>

NodeReads == <<
    Route("GET", Node(<<"apt", "update">>), <<OnNode({"Sys.Modify"})>>),
    Route("GET", Node(<<"disks", "list">>), <<OnRoot(Audit), OnNode(Audit)>>),
    Route("GET", Node(<<"disks", "smart">>), <<OnRoot(Audit)>>),
    Route("GET", Node(<<"disks", "zfs">>), <<OnRoot(Audit)>>)>>

GuestReads == <<
    Route("GET", Guest("lxc", <<"interfaces">>), <<OnGuest({"VM.Audit"})>>),
    Route("GET", Guest("lxc", <<"snapshot">>), <<OnGuest({"VM.Audit"})>>),
    Route("GET", Guest("lxc", <<"status", "current">>), <<OnGuest({"VM.Audit"})>>),
    Route("GET", Guest("qemu", <<"agent", "get-fsinfo">>), <<AnyOnGuest(Agent)>>),
    Route("GET", Guest("qemu", <<"agent", "network-get-interfaces">>), <<AnyOnGuest(Agent)>>),
    Route("GET", Guest("qemu", <<"snapshot">>), <<OnGuest({"VM.Audit"})>>),
    Route("GET", Guest("qemu", <<"status", "current">>), <<OnGuest({"VM.Audit"})>>),
    Route("GET", Node(<<"status">>), <<OnNode(Audit)>>)>>

Power(kind, commands) ==
    [i \in 1..Len(commands) |->
        Route("POST", Guest(kind, <<"status", commands[i]>>), <<OnGuest({"VM.PowerMgmt"})>>)]

CommandRoutes == <<
    Route("POST", <<"cluster", "ha", "status", "arm-ha">>, <<OnRoot({"Sys.Console"})>>),
    Route("POST", <<"cluster", "ha", "status", "disarm-ha">>, <<OnRoot({"Sys.Console"})>>),
    Route("POST", Guest("lxc", <<"snapshot">>), <<OnGuest({"VM.Snapshot"})>>) >>
  \o Power("lxc", <<"reboot", "resume", "shutdown", "start", "stop", "suspend">>)
  \o <<Route("POST", Guest("qemu", <<"agent", "ping">>), <<AnyOnGuest(Agent)>>),
       Route("POST", Guest("qemu", <<"snapshot">>), <<OnGuest({"VM.Snapshot"})>>)>>
  \o Power("qemu", <<"reboot", "reset", "resume", "shutdown", "start", "stop", "suspend">>)
  \o <<Route("POST", Node(<<"status">>), <<OnNode({"Sys.PowerMgmt"})>>),
       Route("POST", Node(<<"wakeonlan">>), <<OnNode({"Sys.PowerMgmt"})>>)>>

ConfigRoutes == <<
    Route("PUT", Guest("lxc", <<"config">>), <<AnyOnGuest(Config)>>),
    Route("PUT", Guest("qemu", <<"config">>),
          <<AnyOnGuest(Config \cup {"VM.Config.CDROM", "VM.Config.HWType",
                                    "VM.Config.Cloudinit"})>>)>>

CHECKS == ClusterReads \o NodeReads \o GuestReads \o CommandRoutes \o ConfigRoutes
===============================================================================
