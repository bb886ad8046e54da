------------------------------ MODULE SchemaRoutes ------------------------------
(***************************************************************************)
(* How the library is held against Proxmox's API schema: what is read of   *)
(* the calls in endpoints.py (script/routes.py), the table of privileges   *)
(* generated from the schema (script/generate_privileges.py) and the tests *)
(* that compare the three, while Proxmox releases change the schema, the   *)
(* source is edited, and either is committed with or without the table.    *)
(***************************************************************************)
EXTENDS FiniteSets

CONSTANTS
    Routes,           \* a method and a path, called or not
    Parameters,       \* per route: the names a payload for it may hold
    RoutePrivileges,
    CheckNames,       \* the checks that releases state, and the parts of these
    Shape,            \* what each of them is
    NoCheck,          \* where none is stated
    Checks            \* per route: the checks a release may state for it

Shapes ==
    [kind : {"perm", "or", "and", "none"}, privileges : SUBSET RoutePrivileges, anyOf : BOOLEAN,
     required : SUBSET UNION {Parameters[r] : r \in Routes}, parts : SUBSET CheckNames]

ASSUME SchemaRoutesAssumption ==
    /\ Checks \in [Routes -> SUBSET CheckNames] /\ DOMAIN Parameters = Routes
    /\ Shape \in [CheckNames -> Shapes]
    /\ NoCheck \in CheckNames /\ Shape[NoCheck].kind = "none"

\* A check is a list in a list: none is within itself.
ASSUME ChecksAreNested ==
    \A S \in SUBSET CheckNames : S # {} => \E c \in S : Shape[c].parts \cap S = {}

VARIABLES
    source,   \* per route: the call of it in endpoints.py
    schema,   \* per route: its entry in schema/pve_api.json
    table     \* CHECKS of _privilege_data.py, alternatives by route

schemaVars == <<source, schema, table>>

-------------------------------------------------------------------------------
(* Checks, as the schema states them: a leaf, or several combined. A leaf  *)
(* may apply only where a parameter is sent (`require_param`).             *)

Perm(privileges, anyOf, required) ==
    [kind |-> "perm", privileges |-> privileges, anyOf |-> anyOf, required |-> required,
     parts |-> {}]
Combined(kind, parts) ==
    [kind |-> kind, privileges |-> {}, anyOf |-> FALSE, required |-> {}, parts |-> parts]

Suffices(privileges, anyOf, held) ==
    IF anyOf THEN privileges \cap held # {} ELSE privileges \subseteq held

\* What Proxmox makes of one, for a caller who holds privileges.
Allows(check, held, sent) ==
    LET allows[c \in CheckNames] ==
            \/ /\ Shape[c].kind = "perm"
               /\ \/ Shape[c].required # {} /\ Shape[c].required \cap sent = {}
                  \/ Suffices(Shape[c].privileges, Shape[c].anyOf, held)
            \/ Shape[c].kind = "or" /\ \E part \in Shape[c].parts : allows[part]
            \/ Shape[c].kind = "and" /\ \A part \in Shape[c].parts : allows[part]
            \/ Shape[c].kind = "none"
    IN allows[check]

-------------------------------------------------------------------------------
(* generate_privileges.py.                                                 *)

Unsupported == [privileges |-> {"UnsupportedCheck"}, anyOf |-> FALSE]
Alternative(s) == [privileges |-> s.privileges, anyOf |-> s.anyOf]

AlternativesOfAnyShape(check) ==   \* mutant of Alternatives: every list flattened
    LET found[c \in CheckNames] ==
            IF Shape[c].kind = "perm" THEN {Alternative(Shape[c])}
            ELSE UNION {found[part] : part \in Shape[c].parts}
    IN found[check]

\* Whatever else than a leaf or an `or` is in it, the check is not described.
Alternatives(check) ==
    LET found[c \in CheckNames] ==
            IF Shape[c].kind = "perm" THEN {Alternative(Shape[c])}
            ELSE IF Shape[c].kind = "or" THEN UNION {found[part] : part \in Shape[c].parts}
            ELSE {Unsupported}
    IN found[check]

\* The calls in the source: "spelled" names its path, itself or by a factory,
\* "built" makes it in a way that is not read, "keyword" passes method or path
\* by name and is not seen to be a call.
NotCalled == [style |-> "none", sent |-> {}, shown |-> TRUE]
Calls(r) ==
    {NotCalled} \cup [style : {"built", "keyword"}, sent : {{}}, shown : {TRUE}]
      \cup {c \in [style : {"spelled"}, sent : SUBSET Parameters[r], shown : BOOLEAN] :
                c.sent = {} => c.shown}

\* collect(): the routes that are read, and the parameters that are: those of
\* a dictionary written out in the call.
Collected(src) == {r \in Routes : src[r].style = "spelled"}
Visible(call) == IF call.shown THEN call.sent ELSE {}

Absent == [listed |-> FALSE, parameters |-> {}, check |-> NoCheck]
EntriesOf(r) ==
    {Absent} \cup [listed : {TRUE}, parameters : SUBSET Parameters[r], check : Checks[r]]

\* entries(): of the routes collected, those for which a check is stated.
Entries(src, file) ==
    [r \in {c \in Collected(src) : file[c].check # NoCheck} |-> Alternatives(file[r].check)]

Describes(entries) == \A r \in DOMAIN entries : Unsupported \notin entries[r]

-------------------------------------------------------------------------------
(* The tests.                                                              *)

\* test_schema_conformance.py.
Conforms ==
    /\ \A r \in Routes : source[r].style # "built"
    /\ \A r \in Collected(source) :
          schema[r].listed /\ Visible(source[r]) \subseteq schema[r].parameters

\* test_the_generated_data_is_what_the_schema_says: entries() raises on a check
\* that is not described.
TableIsCurrent ==
    LET entries == Entries(source, schema) IN Describes(entries) /\ table = entries

-------------------------------------------------------------------------------
(* The steps.                                                              *)

\* refresh_pve_api.py after a release.
Refresh(r) ==
    /\ \E entry \in EntriesOf(r) : schema' = [schema EXCEPT ![r] = entry]
    /\ UNCHANGED <<source, table>>

EditSource(r) ==
    /\ \E call \in Calls(r) : source' = [source EXCEPT ![r] = call]
    /\ UNCHANGED <<schema, table>>

\* generate_privileges.py writes all of the table, or raises before it writes.
Generate ==
    /\ Describes(Entries(source, schema))
    /\ table' = Entries(source, schema)
    /\ UNCHANGED <<source, schema>>

SchemaInit ==
    /\ source = [r \in Routes |-> NotCalled]
    /\ schema = [r \in Routes |-> Absent]
    /\ table = Entries(source, schema)

SchemaNext == Generate \/ \E r \in Routes : Refresh(r) \/ EditSource(r)

-------------------------------------------------------------------------------
(* Properties.                                                             *)

SchemaTypeOK ==
    /\ DOMAIN source = Routes /\ DOMAIN schema = Routes
    /\ \A r \in Routes : source[r] \in Calls(r) /\ schema[r] \in EntriesOf(r)
    /\ DOMAIN table \subseteq Routes

\* Whether a caller is told that the privileges it holds are enough.
Told(r, held) ==
    r \in DOMAIN table => \E a \in table[r] : Suffices(a.privileges, a.anyOf, held)

ToldRight(r, sent) ==
    \A held \in SUBSET RoutePrivileges : Told(r, held) <=> Allows(schema[r].check, held, sent)

IsUnconditional(check) ==
    LET always[c \in CheckNames] ==
            Shape[c].required = {} /\ \A part \in Shape[c].parts : always[part]
    IN always[check]

\* "this is what says so, instead of the library quietly naming the privilege
\* of a Proxmox release ago" (test_privileges.py), "raises instead of being
\* flattened into something that reads true but is not" (alternatives): where
\* the tests pass, whatever releases, edits and runs of the generator led there,
\* a call that can be read is one the schema lists, what is seen to be sent is
\* taken, and the table, which holds nothing else, tells any caller what Proxmox
\* decides, unless a check depends on what is sent.
PassingTestsMeanAgreement ==
    Conforms /\ TableIsCurrent =>
        /\ \A r \in Collected(source) :
              /\ schema[r].listed /\ Visible(source[r]) \subseteq schema[r].parameters
              /\ IsUnconditional(schema[r].check) => ToldRight(r, source[r].sent)
        /\ DOMAIN table \subseteq Collected(source)

-------------------------------------------------------------------------------
(* Stronger properties, which this code does not satisfy.                  *)

\* The same of every call: one that passes method or path by name is not read,
\* nor are the parameters of a payload that is not written out in the call.
EveryCallIsHeldAgainstTheSchema ==
    Conforms /\ TableIsCurrent =>
        \A r \in Routes : source[r] # NotCalled =>
            schema[r].listed /\ source[r].sent \subseteq schema[r].parameters

\* alternatives() drops `require_param` and what follows, rather than raise: the
\* privilege then reads as required of a call that does not send the parameter.
OptionsAreDescribed ==
    Conforms /\ TableIsCurrent =>
        \A r \in Collected(source) : ToldRight(r, source[r].sent)
===============================================================================
