--------------------------------- MODULE Access ---------------------------------
(***************************************************************************)
(* What a caller can know of its own rights before it makes a call: the    *)
(* permissions it fetches (PVEPermissions, model/__init__.py), and what a  *)
(* route requires (privileges.py over the table of PrivilegeData), while   *)
(* privileges are granted and revoked, and while it asks about one path    *)
(* after another.                                                          *)
(***************************************************************************)
EXTENDS Naturals, Sequences, FiniteSets, SequencesExt, PrivilegeData

CONSTANTS
    Paths,        \* the ACL paths something may be granted on
    Privileges,
    Values,       \* names of nodes and guests, as they stand in a path
    Methods,
    MaxChanges,   \* bound on what is changed in a path asked about
    MaxGrants     \* bound on what is granted at a time

ASSUME AccessAssumption ==
    /\ Paths \subseteq Seq(STRING) /\ Privileges \subseteq STRING
    /\ Values \subseteq STRING /\ Methods \subseteq STRING /\ "GET" \in Methods
    /\ MaxGrants \in Nat /\ MaxChanges \in Nat

VARIABLES
    granted,   \* the access/permissions map: <<path, privilege, value>>
    asked      \* the method and path privileges_for() is asked about

Grants == Paths \X Privileges \X {0, 1}

-------------------------------------------------------------------------------
(* PVEPermissions.                                                         *)

\* from_api_response(): the privileges whose value is 1.
Compiled(raw) ==
    LET held == {g \in raw : g[3] = 1} IN
    [p \in {g[1] : g \in held} |-> {g[2] : g \in {h \in held : h[1] = p}}]

\* A path, its parent and the root. The parent of `/vms` comes out as the
\* empty string, which names nothing.
ParentOnly(path) ==   \* mutant of LookedUp: the root forgotten
    {path} \cup (IF Len(path) >= 2 THEN {Front(path)} ELSE {})

LookedUp(path) ==
    {path, << >>} \cup (IF Len(path) >= 2 THEN {Front(path)} ELSE {})

HasPermission(perms, path, privilege) ==
    \E p \in LookedUp(path) \cap DOMAIN perms : privilege \in perms[p]

-------------------------------------------------------------------------------
(* privileges.py. None is << >>: a check has one alternative at least.     *)

IsVariable(segment) == segment \in {"{node}", "{vmid}"}

\* What the table is like, which the lookups below rely on: its methods are those
\* asked by; a template is not empty and has a variable at most once; a check is
\* stated of the root, of a node or of a guest, and of one the template names; and
\* two routes that answer the same method differ in their length or in a segment
\* that neither leaves open.
ASSUME TableAssumption ==
    /\ CHECKS \in Seq([method : STRING, template : Seq(STRING) \ {<< >>},
                       alternatives : Seq([path : Seq(STRING), privileges : SUBSET STRING,
                                           anyOf : BOOLEAN])])
    /\ \A r \in Range(CHECKS) :
          /\ r.method \in Methods
          /\ \A i, j \in 1..Len(r.template) :
                IsVariable(r.template[i]) /\ r.template[i] = r.template[j] => i = j
          /\ \A k \in 1..Len(r.alternatives) :
                LET path == r.alternatives[k].path IN
                /\ Len(path) <= 2
                /\ \A i \in 1..Len(path) : IsVariable(path[i]) => path[i] \in Range(r.template)
    /\ \A k, l \in 1..Len(CHECKS) :
          LET s == CHECKS[k].template
              t == CHECKS[l].template
          IN k # l /\ CHECKS[k].method = CHECKS[l].method /\ Len(s) = Len(t) =>
                \E i \in 1..Len(s) : ~IsVariable(s[i]) /\ ~IsVariable(t[i]) /\ s[i] # t[i]

\* The values a path gives to the variables of a template.
Filling(template, parts) ==
    LET at(v) == CHOOSE i \in 1..Len(template) : template[i] = v IN
    [v \in {template[i] : i \in {j \in 1..Len(template) : IsVariable(template[j])}} |->
        parts[at(v)]]

MatchesByLength(template, parts) ==   \* mutant of Matches: any path as long
    Len(template) = Len(parts) /\ Head(template) = Head(parts)

Matches(template, parts) ==
    /\ Len(template) = Len(parts)
    /\ \A i \in 1..Len(parts) : IsVariable(template[i]) \/ template[i] = parts[i]

Substituted(alternatives, values) ==
    LET fill(path) ==
            [i \in 1..Len(path) |-> IF path[i] \in DOMAIN values THEN values[path[i]]
                                                                 ELSE path[i]]
    IN [k \in 1..Len(alternatives) |-> [alternatives[k] EXCEPT !.path = fill(@)]]

RequiredPrivileges(method, template) ==
    LET i == SelectInSeq(CHECKS, LAMBDA r : r.method = method /\ r.template = template)
    IN IF i = 0 THEN << >> ELSE CHECKS[i].alternatives

\* The first route of the table that the path fits.
PrivilegesFor(method, parts) ==
    LET i == SelectInSeq(CHECKS,
                 LAMBDA r : r.method = method /\ Matches(r.template, parts))
    IN IF i = 0 THEN << >>
       ELSE Substituted(CHECKS[i].alternatives, Filling(CHECKS[i].template, parts))

-------------------------------------------------------------------------------
(* The steps.                                                              *)

Grant ==
    /\ Cardinality(granted) < MaxGrants
    /\ \E g \in Grants :
          /\ \A h \in granted : <<h[1], h[2]>> # <<g[1], g[2]>>
          /\ granted' = granted \cup {g}

Revoke == \E g \in granted : granted' = granted \ {g}

GrantsInit == granted = {}
GrantsNext == Grant \/ Revoke

Filled(template, n, g) ==
    [i \in 1..Len(template) |-> IF template[i] = "{node}" THEN n
                                ELSE IF template[i] = "{vmid}" THEN g ELSE template[i]]

\* A route of the table, with names filled in.
AskRoute ==
    /\ asked.path = << >>
    /\ \E r \in Range(CHECKS), n, g \in Values :
          asked' = [method |-> r.method, path |-> Filled(r.template, n, g), changes |-> 0]

\* The same path by another method, cut short, run on, or one segment changed.
AskOther ==
    /\ asked.path # << >> /\ asked.changes < MaxChanges
    /\ \E other \in
          [method : Methods, path : {asked.path}]
            \cup [method : {asked.method},
                  path : {Front(asked.path)}
                           \cup {Append(asked.path, v) : v \in Values}
                           \cup {[asked.path EXCEPT ![i] = v] :
                                   i \in 1..Len(asked.path), v \in Values}] :
          asked' = [method |-> other.method, path |-> other.path,
                    changes |-> asked.changes + 1]

AskedInit == asked = [method |-> "GET", path |-> << >>, changes |-> 0]
AskedNext == AskRoute \/ AskOther

-------------------------------------------------------------------------------
(* Properties.                                                             *)

AccessTypeOK ==
    /\ granted \subseteq Grants
    /\ \A g, h \in granted : <<g[1], g[2]>> = <<h[1], h[2]>> => g = h
    /\ asked.method \in Methods /\ asked.changes <= MaxChanges

\* How Proxmox inherits: what is granted on a path, or on any path above it.
Holds(raw, path, privilege) ==
    \E k \in 0..Len(path) : <<SubSeq(path, 1, k), privilege, 1>> \in raw

Satisfied(check, has(_, _)) ==
    \E k \in 1..Len(check) :
        LET one(p) == has(check[k].path, p) IN
        IF check[k].anyOf THEN \E p \in check[k].privileges : one(p)
                          ELSE \A p \in check[k].privileges : one(p)

\* "a caller can say what is missing before it makes the call" (privileges.py):
\* whatever is granted or revoked, for every route of the table, filled in with
\* any names, what the client works out from permissions it then fetches is
\* what Proxmox decides.
Foretold(raw) ==
    \A r \in Range(CHECKS), n, g \in Values :
        LET mine(path, p) == HasPermission(Compiled(raw), path, p)
            theirs(path, p) == Holds(raw, path, p)
            required == RequiredPrivileges(r.method, r.template)
            filled == [k \in 1..Len(required) |->
                          [required[k] EXCEPT !.path = Filled(@, n, g)]]
        IN Satisfied(PrivilegesFor(r.method, Filled(r.template, n, g)), mine)
             = Satisfied(filled, theirs)

RefusalIsForetold == [][granted' # granted => Foretold(granted')]_granted

\* "finds the template the path belongs to and hands back the check with the
\* node filled in" (privileges_for), "is not answered with a guess"
\* (test_privileges.py): the answer is the check of a route which the path
\* is, filled in with the names the path gives it, and there is none where the
\* path is no route's.
Finds(method, path) ==
    LET names == Range(path)
        fits == {c \in Range(CHECKS) \X names \X names :
                    c[1].method = method /\ Filled(c[1].template, c[2], c[3]) = path}
        answers == {[k \in 1..Len(c[1].alternatives) |->
                        [c[1].alternatives[k] EXCEPT !.path = Filled(@, c[2], c[3])]] : c \in fits}
    IN PrivilegesFor(method, path) \in (IF fits = {} THEN {<< >>} ELSE answers)

RouteFindsItself == [][asked' # asked => Finds(asked'.method, asked'.path)]_asked

-------------------------------------------------------------------------------
(* A stronger property, which this code does not satisfy.                  *)

\* "Check privilege using ProxmoxVE ACL inheritance" (has_permission): for any
\* path. The code looks at the parent and at the root, so a path of three
\* segments, such as /sdn/zones/lan, inherits nothing from its first.
DeepPathsInherit ==
    \A path \in Paths, p \in Privileges :
        HasPermission(Compiled(granted), path, p) = Holds(granted, path, p)
===============================================================================
