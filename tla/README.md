# A verification of aioproxmox in TLA+

`aioproxmox` is an asyncio client of the Proxmox VE API. Most of it turns
JSON into dataclasses. The part that is hard to get right is small: the
request pipeline of `src/aioproxmox/__init__.py`, in which any number of tasks
share one client, one ticket and one choice of host, and move that choice to
another node of the cluster when the host stops answering. This project models
that part first, checks it with TLC, and proves what matters most about it
with TLAPS for any number of hosts and tasks.

## 1. Inventory

### Components

| Component | Source | State it keeps | Operations |
|---|---|---|---|
| `ProxmoxVE` (client) | `__init__.py` 210-522 | `_hosts`, `_host_index`, `base_url`, `_switch_lock`, `cluster_resources`, `cluster_cache`, `permissions` | `connect`, `request`, `failover`, `learn_hosts`, `learn_hosts_from_cluster` |
| `ProxmoxHTTPAuth` | `__init__.py` 62-179 | ticket, CSRF token, `birth_time`, `base_url` (set by the client) | `async_init`, `check_and_refresh`, `relogin` |
| `ProxmoxHTTPApiTokenAuth` | `__init__.py` 182-202 | none that changes | headers only |
| Endpoints | `endpoints.py` | none of their own | each builds a path and calls `client.request` |
| - of which stateful | `endpoints.py` 213-242, 340-369, 445-450, 724-734 | write `client.cluster_resources`, `cluster_cache`, `permissions` | `current`, `permissions`, `resources` |
| Node lookup and cache | `helpers.py`, `model/pve.py` 475-560 | pure | `pve_find_node_in_cache`, `pve_cluster_cache`, `deserialize_resource_list` |
| Permissions, privileges | `model/__init__.py`, `privileges.py` | pure | `has_permission`, `required_privileges`, `privileges_for` |
| Payloads | `model/{health,summary,disks,guest,storage,pve}.py` | pure | conversions of answers |
| Scripts, schema | `script/`, `schema/`, and the tests that compare them | the schema, the source, the generated table | refresh, generate, compare |

### How they interact

Every endpoint method calls `client.request`. `request` first awaits
`auth.check_and_refresh`, then `_request_once`, which reads `base_url` and the
ticket when it is called. Both can fail on the connection, and then `request`
awaits `failover`, the only place that takes `_switch_lock`. `failover` asks
the host in use (`_answers`), points the client *and* the authentication at
each candidate in turn (`_use_host`) and asks that. `learn_hosts` is
synchronous and takes no lock: the owner of the client may call it whenever
every task is suspended at an await. A task can be cancelled at any await.

### What is hard

* **Interleaving**: all shared state is read and written between awaits, by as
  many tasks as the consumer polls with; only `failover` is serialised.
* **Stale reads**: `failover` keeps an index and a loop bound across awaits
  while the list they refer to can change.
* **Failure in the middle**: cancellation or an unexpected exception inside a
  probe ends a walk that is half done.
* **Retry**: requests, renewals and logins are repeated after a failure that
  may have been a lost answer.
* **Ordering**: answers to concurrent `resources()` and ticket calls are
  stored in the order they arrive.
* **Convergence**: after outages, overtaken answers and lost tickets the client
  must end up right by itself, and stay right.
* **Drift**: the table of privileges is generated from a schema and a source
  that change apart from it.

`PROJECT.json` lists each hazard at its line with the properties that cover it.

### What makes each component correct

* *Client*: the host in use is listed and has answered; the configured host
  stays first; a switch is made by one task, to a host that answered, away
  from one whose silence it observed; a walk gives up only where nobody
  answered; the lock is never leaked; every request ends; after the last
  outage the client returns to a host that answers.
* *Authentication*: a task that sends a request after a refresh sends a ticket
  that was valid when it was stored; a refused renewal falls back to the
  password; half a login (first factor only) is not used as a whole one.
* *Node lookup*: a guest is addressed on a node that the cluster named for it;
  the cache and the collection agree.
* *Permissions and payloads*: each conversion agrees with the rule its
  docstring gives.

## 2. Modules

| Module | Models | Extends / instances |
|---|---|---|
| `HostList` | the list of hosts: what `learn_hosts` keeps, as a relation | |
| `LearnHosts` | the loop of `learn_hosts`, one entry at a time | `HostList` |
| `ProxmoxVE` | tasks, requests, ticket calls, the switch lock, walks, learning | `HostList`, instance of `HostChoice` |
| `HostChoice` | what the client promises about its host, in four actions | |
| `ProxmoxHTTPAuth` | the shared ticket: its age and kind, renewals, logins with one or two factors, a 401 | |
| `ClusterView` | `cluster_resources` and `cluster_cache`, and the lookup in `current()` | `Lists` |
| `Commands` | the endpoints that change the cluster, and how often `request` sends them | |
| `HAStatus` | `HAStatus.from_api`, `crm_master_stale`, `arm_ha`, `disarm_ha` | |
| `ClusterSummary` | `ClusterSummary.from_resources` over rows that may not parse | |
| `BackupLog` | `tasks()` of a node, `LastBackup`, `RunningBackup` | `Lists` |
| `SharedStorage` | `shared_storage` | |
| `GuestReport` | `guest_disk_usage`, `primary_address` | `Lists` |
| `NodeHealth` | `SmartSummary`, `ReplicationHealth` | `Lists` |
| `NodeReports` | `serving_certificate`, the checks of `CephStatus`, `snapshots_taken`, `node_mac_addresses` | `NodeHealth` |
| `SchemaRoutes` | `collect`, `alternatives`, `entries`, the tests that hold source, schema and table together | |
| `Access` | `PVEPermissions.has_permission`, `required_privileges`, `privileges_for` | `PrivilegeData` |
| `PrivilegeData` | the table `CHECKS`, entry by entry | |
| `MCProxmoxVE`, `MCLearnHosts`, `MCProxmoxHTTPAuth`, `MCClusterView` | instances for TLC | the module each names |
| `MCDashboard` | the modules of one call or one report each, composed | all of them |
| `Lists` | loops and comprehensions that build a list from a list | |
| `ListsProofs` | what these keep, lose and put in which place | `Lists` |
| `HostListProofs`, `LearnHostsProofs`, `ProxmoxVEProofs`, `ProxmoxHTTPAuthProofs`, `ClusterViewProofs` | lemmas and theorems | the module each names |
| `ReportsProofs` | lemmas and theorems about the reports | the modules of the reports, `ListsProofs` |
| `DashboardProofs` | lemmas and theorems about rights, the schema and commands, and about the composition | `MCDashboard`, `ReportsProofs` |

### How `ProxmoxVE` corresponds to the code

A coroutine runs without interruption between two awaits, so one step is the
code between two suspensions. `frame[t].pc` names the await a task is at:

| `pc` | the task awaits |
|---|---|
| `signin` | the first login, in `connect()` |
| `renew`, `login` | `_get_new_tokens` in `check_and_refresh`: the renewal, and the login after a refused one |
| `request` | the first `_request_once` |
| `relogin` | `auth.relogin()` after a 401 |
| `again` | the second `_request_once` |
| `lock` | `_switch_lock` |
| `verify`, `walk` | `_answers()` for the host in use, and for a candidate |

`hosts`, `index` and `baseUrl` are `_hosts`, `_host_index` and the host inside
`base_url`; they are kept apart because the code keeps them apart, and three
of the findings live in the gap. `old` is the ticket's age as
`check_and_refresh` sees it. `lockQ` is the lock with its FIFO of waiters.
`walk` holds the local variables of the failover that owns the lock. `up` is
the environment. `vouched` and `frame[t].silent` are history variables for the
properties.

What is left open: a host that is up may grant or refuse any ticket and answer
or refuse any request; a request, other than a ticket call or `version`, may
fail on the connection although the host is up, since hosts forward what names
another node. `learn_hosts` is called with the lists in `Learnable`, at the
moments `AddWhile` and `ReplaceWhile` allow (`"settled"`, `"switching"`): with
`"switching"` in them the model shows the findings, and the properties that
survive are checked with it too. `CancelAt` says at which awaits a caller may
cancel its task.

`LearnHosts` justifies that `ProxmoxVE` takes `learn_hosts` for one step and
its result for a relation: the loop is shown to produce exactly that relation.

### How the other modules correspond to the code

**`ProxmoxHTTPAuth`.** Here the hosts are one server, and a failover is one
step that says whether it moved; the ticket is what is followed. `pc` names the
await again: `signin`, `renew`, `login`, `relogin` are calls of
`_get_new_tokens` (with a `2` appended while the second factor is on its way),
`request`, `repeat` (after `relogin`) and `moved` (after a failover) are calls
of `_request_once`. A ticket has a `kind` (`none`; `half`, the challenge that
`_get_new_tokens` stores before it answers it; `whole`), an age in hours capped
at 2 (renewed from 1, expired at 2), and is `dead` once the server drops it.
The server answers in one step (`Serve`, `ServeRequest`) and the task stores
the answer in a later one, so the answers of two tasks overtake each other.
`age` is what `birth_time` says, `ticket.age` the truth; the difference is what
`NeverSendsExpired` is about. `GetsInAgain` is about the end: whatever state an
outage left the ticket and the tasks in, a client that is used gets in again.

**`ClusterView`.** `world` is the cluster, `resources` and `cache` the two
attributes, `known` whether `cluster_resources` was ever assigned. A call is
served and received in two steps, as above. The status of a VM may end in an
error although the guest is there: `QmpStatus` has no unknown member. Both `current()` methods look in
`resources`, fetch (`fallback`) where the guest is not there, and end with the
status call (`ask`).

**`Commands`.** A command is what it names: a guest on a node, which may have
left it, or a node or the cluster, which may not. The cluster keeps `tasks`, the copies it has queued; a call goes
through `first`, then `relogin` or `failover`, then `second`, in the order of
`request`. Two things the endpoints do before they send anything are in it
(`vzdump` and `disarm_ha` refusing their arguments), and one that they do
wrong: `snapshot` hands `request` an argument it does not have. What a backup
covers, the selections in `extra` included, is data of the command.

**`SchemaRoutes`.** Three files: `source` (per route, how `endpoints.py` calls
it and what the call sends), `schema` (the trimmed API) and `table` (`CHECKS`).
`Refresh` is a release of Proxmox followed by `refresh_pve_api.py`, `EditSource`
a change of a call, `Generate` a run of the generator, which raises - and writes
nothing - where one check is not described. A check is a tree of `perm`, `or`
and `and`: `CheckNames` are its nodes, `Shape` says what each is and which parts
it has, and `ChecksAreNested` that no check is within itself. The ACL paths are
data. `Conforms` and `TableIsCurrent` are the two tests.

**`BackupLog`.** The node's task log, with the one lock backups wait for. The
lists are what `tasks()` returns with the filters callers use; `LastBackup` and
`RunningBackup` read them.

**The reports.** `HAStatus`, `ClusterSummary`, `SharedStorage`, `GuestReport`,
`NodeHealth`, `NodeReports`, `BackupLog` and `Access` are pure functions in the
code, called on each poll.
A module has the cluster's part as state - nodes fail, mounts are lost, disks
are mounted again, jobs stop, privileges are revoked - and the function as
operators on it. What can go wrong in such code shows between two polls, so
most of the properties are about a step: this change of the cluster must not
change that figure, or only in this direction.
Two of them are about what is kept between polls. In `HAStatus` the master stamps
the cluster's clock (`now`, `seen`) as often or as seldom as it likes; a client
fetches the stamp when it likes, keeps it (`report`), and asks
`crm_master_stale()` of it at any later time by a clock that may be ahead or
behind (`skew`) and may be set in between. In `GuestReport` each poll may report
any interfaces of different names, in any order, with their own addresses, and
addresses not worth showing, in any order.
These modules, `SchemaRoutes` and `Commands`
share no state; an instance of `MCDashboard` follows one of them at a time
(`subject`), which is why its state space is the sum of theirs and not the
product.

## 3. What is checked

Distinct states are those TLC reports.

| Run | Result | States | What it shows |
|---|---|---|---|
| `safety` | pass | 125,256 | the host list stays sound under learning at any moment and replacing between failovers; a walk's start and candidate stay valid; between walks the host in use has answered, whatever is cancelled outside one; a switch goes to a host that answered, away from one that stayed silent; a repeat goes elsewhere; all of it implements `HostChoice` |
| `end` | pass | 82,816 | with tasks cancelled at any await and lists replaced under a walk, the lock is held by exactly the task that probes, never leaks, and every request ends |
| `recover` | pass | 70,208 | once hosts stop changing, a client that is polled settles on one that answers; a walk gives up only after every other host was silent |
| `loop` | pass | 127,644 | the loop of `learn_hosts` computes the relation `ProxmoxVE` uses, and keeps the list sound, for every list of up to 3 hosts and every argument of up to 4 entries |
| `tickets` | pass | 185,604 | no request goes out with a ticket about to run out; the right password always gets in; a repeat after a login is refused only where its ticket was dropped; after any outage a client in use gets in again |
| `view` | pass | 146,247 | the two lookups agree however answers overtake each other; "not found" is said on this call's own evidence; a guest that never moves is asked for on its node; the tables of a polled client become, and stay, what a settled cluster has |
| `dashboard` | pass | 145,405 | the properties of the reports, of `Commands` and of `SchemaRoutes`, listed in `PROJECT.json` |
| `renewal_walk` | violation | about 1,900 | finding 1 |
| `cancelled_probe` | violation | about 400 | finding 2 |
| `replace_while_switching` | violation | about 2,200 | finding 3 |
| `refused_after_failover` | violation | 243 | finding 4 |
| `code_lost` | violation | 67 | finding 5 |

`PROJECT.json` names, for each property, a change of a definition of the kind a
bug would be (a dropped guard, a swapped order, an off-by-one) under which the
same run fails. Those variants stand beside the definitions they change, marked
`mutant of`, and no run uses them.

### Bounds, and why they are enough

* **Two tasks** in `ProxmoxVE`, `ProxmoxHTTPAuth`, `ClusterView`, `Commands`.
  The interactions are pairwise: one owner of the lock and one waiter, one
  writer of the ticket and one reader, one older answer and one newer. The
  theorems cover any number for the properties they state. Tasks are symmetric
  in `safety` and, as callers, in `dashboard`; the runs that check liveness
  (`end`, `recover`, `tickets`, `view`) use no symmetry.
* **Three hosts**: the one in use, the next candidate, and one beyond it, which
  is what a walk needs to wrap around. The lists learned (`Peers`,
  `MixedPeers`) hold an empty argument, a repetition, the client's own host and
  an entry that is no address.
* **Ages 0..2 hours**: the code tells apart less than an hour, at least an
  hour, and (on the server) at least two.
* **`ClusterView`**: two nodes, every guest at first on the same one (`Home`;
  the movable one reaches the other), a VM that migrates, a container that does not,
  a storage and a row of a type the client does not know, in an order
  in which no kind comes first. The client starts unconnected, and connected states follow.
* **`Commands`**: three calls by two callers, two nodes, one guest that is
  migrated; up to two lost answers per call. `MaxCalls` bounds the calls.
* **Reports**: three nodes of different sizes and loads, one of which reports no
  cores, three guests of which
  one is a template; three nodes that mount a storage; two HA services; instants
  (`Instants`) on both sides of the 30 s limit, from the start and from each
  other, with a clock that is right or 10 s off (`Skews`); two devices and three
  mounts (`MaxMounts`); two interfaces, each with up to two of an IPv4, an IPv6
  and one address that is not shown (`Noise`, `MaxInterfaces`), so that every
  report can follow every other; up to two SMART lines (`MaxLines`); two jobs,
  which before they first run report no sync or a sync at 0, and
  three minutes (`LastMinute`); lists of up to three entries (`MaxEntries`) at two `Times`;
  three tasks in a node's log (`MaxTasks`): one backup that holds the lock, one
  that waits and one other; the root, the two folders that are granted on and
  an entry in each, two grants (`MaxGrants`) and one change (`MaxChanges`) after
  them. `CHECK_DEADLOCK FALSE` there and in `loop`, because a bounded instance
  and a finished loop stop.
* **`SchemaRoutes`**: two routes, since the generator stops at one for another's
  sake; on one of them every shape of check, on the other a plain one.

### Fairness

`FairSpec` gives weak fairness to `TaskStep(t)`, the end of the call a task
awaits: every HTTP call has a timeout of its own, the lock is FIFO, and the
event loop runs what is ready. Nothing is assumed of hosts, of cancellation or
of learning. In `ProxmoxHTTPAuth`, weak fairness covers the next step of each
task, the start of a request included: the consumer polls, and what a call
awaits comes to an end. In `ClusterView` every call ends (weak fairness), and
some caller keeps polling and gets through again and again (strong fairness of
the start, the answer and the receipt of a poll): polls may fail any number of
times in between. `PollingSpec`, for `Recovers` only, adds strong fairness of
`StartRequest(t)`: the consumer polls. Without it a client that is no longer
used may rest on a dead host, which is no fault of its own.

## 4. What is proved

TLAPS checks the following for every value of the constants. The named
assumptions stand in the modules that declare the constants.

* **`LearnHostsProofs`**: the loop, for every list and argument, ends in what
  the relation of `HostList` says, with the configured host first and no host
  twice. The invariant states what has been collected after each entry.
* **`ProxmoxVEProofs`**: `TypeOK`, and `LockDiscipline` for any number of tasks
  with cancellation anywhere. They are inductive together: that a woken task
  is the new owner needs the queue to hold exactly the tasks inside
  `failover`, without repetition.
  Then `HostListOK` and `WalkOK` for any hosts, tasks and learned lists, where lists are *replaced* only between failovers (they may
  grow during one); and, if besides nobody is cancelled while it waits for a
  candidate's answer, `InUseHasAnswered`,
  `SwitchIsProven`, `GivesUpOnlyOnSilence`, `RepeatIsElsewhere` and the
  refinement `ImplementsHostChoice`: each step is one of the actions of
  `HostChoice`, or leaves the host alone. Findings 2 and 3 show that neither
  condition can be dropped. Of the nine awaits this is the only one where a
  cancellation does harm: there TLC refutes each of the last four in a few
  steps; in a request, a login, the queue for the lock, or while the failed
  host is asked again, cancelled tasks disturb nothing.
  The invariant has three layers. `HostInv` is what a
  failover relies on across its awaits: the list that bounds its loop is no
  longer than the one it indexes, its start is not the candidate in use, and it
  is the host that answered last. `SilenceInv` says what a walk has seen: while
  its list does not change, it has found silent every host between its start
  and its candidate, in the order of the list, with the wrap; after a failed
  request its start too, and nobody else.
  `SettledInv` says that the host the client has settled on is the one that
  vouched for it, and that it, the configured host and the host in use are all
  listed. Proving this showed that two properties were stated too strongly: with
  four hosts, a list that grows during a walk makes the walk ask a host twice
  and pass one by. Both now say "unless the list has grown"; what happens then
  is `PassesNobodyBy` in section 5.
* **`ProxmoxHTTPAuthProofs`**: `TypeOK`, `NeverSendsExpired`,
  `RepeatIsRefusedOnlyIfDropped` and `PasswordIsEnough`, for any number of
  tasks and any accounts. The invariant relates two clocks: the age the client
  believes is never less than the ticket's true age (`TicketNotOlder`), and
  for a task that is past its refresh that age is no more than the time since
  its request began (`ClockInv`). `PasswordInv` says that where the password is all there is, no
  login is refused or half done.
* **`ClusterViewProofs`**: `TypeOK`, `LookupsAgree`, `NotFoundMeansUnlisted` and
  `SettledGuestIsAddressed`, for any nodes, guests, order of the rows and number
  of callers. What `deserialize_resource_list` keeps of an answer is `Only`
  the rows that parse (`ListsProofs`).
  The invariant is that of every list on its way, and of the one stored, no two
  rows differ about a guest, and one that never moves is on its node (`Consistent`);
  that the cache is `CacheOf` the list it was stored with; and that what a call
  holds between two awaits is what it looked up.
* **`ListsProofs`**, no theorem of its own but what the others rest on. The
  code selects, flattens and reorders lists; `Lists` has this as functions over
  the length of what was read, with the test as a set, since a lemma that takes
  the test as an operator is out of the provers' reach. That these functions are
  defined for lists of any length is proved by taking a shortest list on which
  one fails. The lemmas say what `Only` and `Flat` make of a list that is put
  together of two (`OnlyCat`), reversed (`OnlyReversed`) or selected from twice
  (`OnlyOnly`), what is in it (`OnlyKeeps`, `FlatRange`) and what comes first
  (`OnlyHead`).
* **`ReportsProofs`**, the reports for any cluster:
  `MasterIsNotMisjudged`, `DisarmingHidesNothing`; `FiguresAreOfTheLiving` and
  `OutageIsNoRelief`; `AMountLostChangesNoFigure`; `LagIsNotHidden`;
  `MountedAgainChangesNothing`; `PrimaryChangesWithCause`;
  `BackupShownIsTheLastOne`; `NoiseChangesNothing`.
  For the master the invariant (`MasterInv`) is that a stamp that is kept is no
  later than the last one made, and is that very stamp unless the master has
  stamped since the fetch.
  The substance is mostly in the functions. Sums over nodes and
  devices of any number rest on an induction over finite sets
  (`SubsetInduction`): a function that follows the rule of the library's sum
  exists, is unique, is the same whichever element is taken first, and grows
  with its terms. `MeanIsBetween` and `MeanWithout` are about the weighted CPU:
  the mean lies between the least and the most loaded node, and taking out a
  node that is lighter than the mean does not lower it, nor a heavier one raise it.
  The address of a guest (`PrimaryChangesOnlyWithCause`) compares any two
  reports: the one shown is the first of its sort and stands ahead of every other
  (`PrimaryIsFirst`, `PrimaryIsAhead`). The noise (`NoiseIsNotShown`) is
  about one element more or less at any place of a list; of the order of the
  snapshots it is proved that the places are a permutation of the indexes
  (`PlacesAreIndexes`), so that sorting loses nothing and shows nothing twice.
  For the log, the invariant (`BackupInv`) is that a lock that is held is held by
  a backup in progress, that nobody waits for a free one, and that a task ends
  once: then the archive holds each task that ended exactly once, newest end
  first, whatever filter is applied before whatever limit.
* **`DashboardProofs`**, four parts.
  *Rights* (`RouteFindsItself`, `RefusalIsForetold`): the lemmas say that
  a path filled in is matched by its template and gives the same names back
  (`FilledIsMatched`, `FilledIsReadBack`, `MatchedIsFilled`), that two routes of
  the table fit no common path (`RoutesAreApart`), and that for a path of up to
  two segments, which is all the table states, looking at the path, its parent
  and the root is all of Proxmox's inheritance (`InheritanceIsAgreed`).
  *The schema* (`PassingTestsMeanAgreement`), with checks combined to any depth:
  `ChecksAreNested` gives an induction over checks (`CheckInduction`) and that
  what is read of a check from what is read of its parts is well defined
  (`CheckRecursion`); with it, a description the generator could write, of a check that does not
  depend on what is sent, tells any caller what Proxmox decides
  (`DescribedRight`), in both directions.
  *Commands* (`TwiceOnlyAfterALoss`, `VerdictIsHonest`), for any callers, calls, nodes and guests: the
  invariant counts the copies a call may have queued at each stage (`Fits`);
  that one call's step leaves the counts of the others alone needs the calls
  to be numbered apart (`NumberedApart`), and that a queued copy is a new one
  needs the copies of a call to be numbered from 0 (`CopiesCounted`).
  *The composition*: every part of `MCDashboard` behaves as its own
  specification says or stands still, so `Spec` has `TypeOK` and all of the
  properties of the parts (`DashboardTypeCorrect`, `DashboardDoesNotMislead`,
  `DashboardActsAsTold`) - the very statements that the run `dashboard` checks.

Every invariant and every action property that a passing run checks is thus a
theorem, where the instance's constants satisfy the conditions above.

The assumptions are those about the constants, and one about data:
`TableAssumption` (`Access`) says of the table `CHECKS`, which is no constant
but 38 concrete entries, that its methods are among `Methods`, each template
names a variable once, each check is of the root, a node or a guest the template names, and two routes of
one method and length differ in a literal segment. TLC evaluates it over the
whole table in `dashboard`; the provers are not made to enumerate it. A table
generated anew that broke it would be refused there first.

Only model-checked is liveness (`RequestsEnd`, `Recovers`, `GetsInAgain`,
`ViewConverges`), which the prover does not handle under fairness; and of what
the code does not promise (section 5) there are the counterexamples of TLC, not
proofs.

## 5. Where the code does not do what it says

Each of the first five is a run whose counterexample TLC prints.

1. **Renewals walk away from a living host** (`renewal_walk`,
   `__init__.py:433`). The failover of a failed renewal asks the host in use no
   more and names no `from_host`. Two renewals that fail on one dead host walk
   one after the other, the second away from the host the first found.
2. **A cancelled probe leaves the client on its candidate**
   (`cancelled_probe`, `__init__.py:400`). The candidate is in use before it is
   asked, and only a walk that ends by itself goes back.
3. **`learn_hosts(replace=True)` during a walk** (`replace_while_switching`,
   `__init__.py:409`) shortens the list under the walk's `start`: every later
   request raises `IndexError`.
4. **A 401 after a failover is final** (`refused_after_failover`,
   `__init__.py:448`), although a login would have helped.
5. **`ProxmoxVE` turns the one-time password into a bool** (`code_lost`,
   `__init__.py:268`): no account with a second factor gets in through it.

The modules also state stronger properties that TLC refutes, kept as
definitions at the end of each module so that a change that makes one true can
be checked at once:

| Definition | What happens instead |
|---|---|
| `OnlyAnsweringHostsAreSent` (`ProxmoxVE`) | other tasks send requests and ticket calls to a candidate that is still being asked |
| `PassesNobodyBy` (`ProxmoxVE`, four hosts, lists that grow during a walk) | a list that changes under a walk makes it try a host twice and pass by one that would have answered |
| `CurrentLooksForTheGuest` (`ClusterView`) | `current()` before `connect()` ends in `AttributeError` |
| `VanishedStaysEvicted` (`ClusterView`) | an older answer, stored later, brings a removed guest back |
| `AnErrorMeansNothingRan` (`Commands`) | after a lost answer the repeat is refused, and the error hides a copy that runs |
| `OfflineNodesAreNamed` (`ClusterSummary`) | the row of a node that is off long enough loses its figures and does not parse: the node is neither named nor counted |
| `RunningBackupRuns` (`BackupLog`) | of two runs in progress the newest is shown, which may be waiting for the lock the other holds |
| `LimitHidesNoBackup` (`BackupLog`) | a list limited before it is filtered misses the last backup behind other tasks |
| `OptionsAreDescribed` (`SchemaRoutes`) | `alternatives()` drops `require_param` where its docstring says it raises: a privilege reads as required of calls that need none |
| `EveryCallIsHeldAgainstTheSchema` (`SchemaRoutes`) | a call with named method or path, and a payload that is not written out, are not compared with the schema |
| `StaleMeansSilent` (`HAStatus`) | a report that is kept turns stale although the master goes on stamping: the age is of the stamp as fetched |
| `PrimaryDoesNotFlap` (`GuestReport`) | the address shown changes, though the guest keeps it, when an interface listed ahead of it gains an address of its sort, or two change places |
| `TotalOnlyWhenAllReported` (`GuestReport`) | used and total are summed over different sets of filesystems |
| `DeepPathsInherit` (`Access`) | `has_permission` looks at a path, its parent and the root only |

Three more are seen in reading rather than in a run: `snapshot()` passes `data=`
to a `request()` without such a parameter, so it raises `TypeError`;
`_answers()` takes a host that answers something other than JSON for a silent
one; `learn_hosts_from_cluster()` lets a connection error of its own call reach
the caller.

## 6. What is not modelled

* **Subscription, Ceph's totals, guests without a backup, package updates, load
  average, ZFS pools, agent calls**: conversions of one answer into a dataclass,
  without a choice between entries or a decision that depends on an earlier
  answer.
* **Wording, logging, encoding of parameters**: data that no property tells
  apart. `_request_once` is a call that is answered, refused or lost.
* **What a guest's or node's row carries besides what the lookups and sums
  read**.
* **The download of the schema, the rendering of the generated module and
  `live_test.py`**: input and output.
* **PVECapabilities**: filled from the login's answer and not read again.
* **Proxmox itself** is modelled from how the code uses it: it may grant or
  refuse any ticket, answer or refuse any request, forward what names another
  node, and queue what it accepts. `PROJECT.json` marks these definitions
  external.

## 7. Plan

Order of the work, by how much depends on it; done so far is what sections 3
and 4 describe.

1. *Composition*: `ProxmoxHTTPAuth` and `ProxmoxVE` share a client; a module
   that gives the ticket's kinds to the walks would show what a half ticket
   does on a candidate.
2. *Refinement of the login*: an abstract ticket that is granted, ages and is
   dropped, which `ProxmoxHTTPAuth` implements as `ProxmoxVE` does `HostChoice`.
3. *Growth*: three tasks where time allows.
