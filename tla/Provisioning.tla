---------------------------- MODULE Provisioning ----------------------------
(***************************************************************************)
(* The PostgreSQL server under the application: provision_database and     *)
(* verify_database (config/postgres.py) as tools/provision_postgres.py and *)
(* the local settings run them.                                            *)
(*                                                                         *)
(* Nothing here is one transaction: the connections are in autocommit, so  *)
(* every statement takes effect by itself and a run that dies leaves what  *)
(* it has done.  Runs of one server overlap (every manage.py command of a  *)
(* local checkout provisions) and take turns on an advisory lock, which    *)
(* ends with the first connection: the privileges on the schema are set    *)
(* over a second one, without it.                                          *)
(***************************************************************************)
EXTENDS FiniteSets, Naturals

CONSTANTS
    Runs,         \* commands that provision or verify
    Others,       \* names that databases beside the application's may have
    Tolerated,    \* those that a dedicated server may have
    Secrets,      \* passwords
    Urls,         \* the password in staging's application URL, if it has one
    Starts,       \* states of the server before the runs
    MaxChanges,   \* other databases created and dropped meanwhile, at most
    None          \* no run, no password

ASSUME NoneAssumption == None \notin Runs \cup Secrets
ASSUME UrlsAssumption == Urls \subseteq Secrets \cup {None}
ASSUME OthersAssumption == IsFiniteSet(Others)
ASSUME ToleratedAssumption == Tolerated \subseteq Others
ASSUME BoundsAssumption == MaxChanges \in Nat

VARIABLES
    environment, \* which environment the server belongs to, and whether it is of
                 \* the major version that the environment requires
    role,       \* the application's role
    password,   \* its password, which somebody has set by hand if it has one
    database,   \* the application's database, its owner and its privileges
    schema,     \* the privileges on its schema public
    other,      \* the other databases
    advisory,   \* holder of pg_advisory_lock
    pc,         \* the statement each run executes next
    req,        \* what each run was started for
    reads,      \* what it has read so far
    changes,    \* other databases created and dropped so far
    witnessed   \* history: what happened behind a run's back

privileges == <<role, password, database, schema>>
server == <<privileges, other>>
vars == <<environment, server, advisory, pc, req, reads, changes, witnessed>>

-----------------------------------------------------------------------------
(* The server and the runs.                                                *)

\* bare: CREATE ROLE without attributes; wide: an earlier role that may log in
\* and is more than the application needs (superuser, createdb, createrole).
Roles == {"absent", "bare", "wide", "confined"}

\* public: PUBLIC has privileges on it; granted: the role may connect.
Database == [exists : BOOLEAN, owner : {"admin", "role"}, public : BOOLEAN,
             granted : BOOLEAN]

\* public: PUBLIC may create in it; granted: the role may.
Schema == [public : BOOLEAN, granted : BOOLEAN]

\* public: PUBLIC may connect; admin: the provisioning role may by a grant.
OtherDatabase == [exists : BOOLEAN, public : BOOLEAN, admin : BOOLEAN]

NoDatabase == [exists |-> FALSE, public |-> FALSE, admin |-> FALSE]

NewDatabase == [exists |-> TRUE, public |-> TRUE, admin |-> FALSE]

ASSUME StartsAssumption ==
    Starts \subseteq
        {s \in [role : Roles, password : Secrets \cup {None}, database : Database,
                schema : Schema, other : [Others -> OtherDatabase]] :
            \A d \in Others : s.other[d].exists => s.other[d].public \/ s.other[d].admin}

Environments == [name : {"local", "staging"}, supported : BOOLEAN]

\* setup: a settings module provisions; provision: the tool provisions and then
\* verifies; verify: the tool only verifies.
Request == [op : {"none", "setup", "provision", "verify"}, dedicated : BOOLEAN,
            password : Secrets \cup {None}]

NoRequest == [op |-> "none", dedicated |-> FALSE, password |-> None]

\* The local commands all provision, over a URL without a password; provisioning
\* of staging may allow a shared server (PICAFRESA_ALLOW_SHARED_STAGING_SERVER).
Commands ==
    IF environment.name = "local"
       THEN {c \in Request : c.op \in {"setup", "provision"} /\ c.dedicated /\ c.password = None}
       ELSE {c \in Request : c.op \in {"provision", "verify"} /\ c.password \in Urls}

\* found: the other databases still to be closed; stale: another run has changed
\* the schema's row since this run's statement read it.
Reads == [found : SUBSET Others, next : Others \cup {None}, stale : BOOLEAN]

NoReads == [found |-> {}, next |-> None, stale |-> FALSE]

\* While the first connection holds the advisory lock.
Locked == {"others", "findRole", "createRole", "confine", "setPassword",
           "findDatabase", "createDatabase", "closeDatabase", "grantConnect",
           "list", "grantAdmin", "closeOther", "disconnect"}

\* Over the second connection, and while verifying.
Unlocked == {"version", "lock", "readSchema", "closeSchema", "rereadSchema",
             "grantSchema", "verifyVersion", "inspect"}

Working == Locked \cup Unlocked

Ended == {"done", "verified", "wrongVersion", "crowded", "error", "unreachable",
          "excessive", "crashed"}

\* What may happen behind a run's back: other databases dropped and created since
\* it listed them.
Facts == {"dropped", "created"}

\* Past the last statement of provision_database.
HasProvisioned(r) ==
    /\ req[r].op \in {"setup", "provision"}
    /\ pc[r] \in {"done", "verifyVersion", "inspect", "verified", "unreachable", "excessive"}

Seen(r, fact) ==
    IF pc[r] = "idle" THEN {} ELSE witnessed[r] \cup {fact}

-----------------------------------------------------------------------------
(* What every statement is built from.                                     *)

\* Mutant: the lock outlives a connection that is not closed in order.
LockOutlives(r) == advisory' = IF pc[r] = "disconnect" THEN None ELSE advisory

\* pg_advisory_lock of a session ends with its connection.
Disconnected(r) == advisory' = IF advisory = r THEN None ELSE advisory

Goto(r, next) == pc' = [pc EXCEPT ![r] = next]

Quiet == UNCHANGED <<environment, req, changes>>

\* A statement that changes nothing on the server.
Continue(r, next, read) ==
    /\ Goto(r, next)
    /\ reads' = [reads EXCEPT ![r] = read]
    /\ UNCHANGED <<server, advisory, witnessed>> /\ Quiet

\* The command ends; both of its connections are closed.
End(r, how) ==
    /\ Goto(r, how)
    /\ Disconnected(r)
    /\ reads' = [reads EXCEPT ![r] = [NoReads EXCEPT !.stale = reads[r].stale /\ how = "error"]]
    /\ UNCHANGED <<server, witnessed>> /\ Quiet

\* A statement over the first connection that changes a privilege or a role.
Privilege(r, next) ==
    /\ Goto(r, next)
    /\ UNCHANGED <<other, advisory, reads>> /\ Quiet

Start(r, command) ==
    /\ pc[r] = "idle"
    /\ req' = [req EXCEPT ![r] = command]
    /\ Goto(r, IF command.op = "verify" THEN "verifyVersion" ELSE "version")
    /\ UNCHANGED <<environment, server, advisory, reads, changes, witnessed>>

-----------------------------------------------------------------------------
(* provision_database over the administrator's connection.                 *)

RequireVersion(r) ==
    /\ pc[r] = "version"
    /\ IF environment.supported THEN Continue(r, "lock", NoReads) ELSE End(r, "wrongVersion")

\* Mutant: the advisory lock is not waited for.
TakeLockAnyway(r) ==
    /\ pc[r] = "lock"
    /\ advisory' = r
    /\ Goto(r, IF req[r].dedicated THEN "others" ELSE "findRole")
    /\ UNCHANGED <<server, reads, witnessed>> /\ Quiet

TakeLock(r) ==
    /\ pc[r] = "lock"
    /\ advisory = None
    /\ advisory' = r
    /\ Goto(r, IF req[r].dedicated THEN "others" ELSE "findRole")
    /\ UNCHANGED <<server, reads, witnessed>> /\ Quiet

Existing == {d \in Others : other[d].exists}

FindUnexpected(r) ==
    /\ pc[r] = "others"
    /\ IF Existing \subseteq Tolerated THEN Continue(r, "findRole", reads[r])
                                       ELSE End(r, "crowded")

FindRole(r) ==
    /\ pc[r] = "findRole"
    /\ Continue(r, IF role = "absent" THEN "createRole" ELSE "confine", reads[r])

\* CREATE ROLE fails when there is one.
CreateRole(r) ==
    /\ pc[r] = "createRole"
    /\ IF role # "absent" THEN End(r, "error")
       ELSE /\ role' = "bare"
            /\ Privilege(r, "confine")
            /\ UNCHANGED <<password, database, schema, witnessed>>

\* ALTER ROLE ... LOGIN NOSUPERUSER NOCREATEDB NOCREATEROLE ...
Confine(r) ==
    /\ pc[r] = "confine"
    /\ role' = "confined"
    /\ Privilege(r, IF req[r].password = None THEN "findDatabase" ELSE "setPassword")
    /\ UNCHANGED <<password, database, schema, witnessed>>

\* ALTER ROLE ... PASSWORD %s: psycopg 3 sends the parameter to the server, which
\* takes none in a utility statement (a syntax error at $1).
SetPassword(r) ==
    /\ pc[r] = "setPassword"
    /\ End(r, "error")

FindDatabase(r) ==
    /\ pc[r] = "findDatabase"
    /\ Continue(r, IF database.exists THEN "closeDatabase" ELSE "createDatabase", reads[r])

\* CREATE DATABASE by the administrator; everybody may connect to a new one.
CreateDatabase(r) ==
    /\ pc[r] = "createDatabase"
    /\ IF database.exists THEN End(r, "error")
       ELSE /\ database' = [exists |-> TRUE, owner |-> "admin", public |-> TRUE,
                            granted |-> FALSE]
            /\ schema' = [public |-> FALSE, granted |-> FALSE]
            /\ Privilege(r, "closeDatabase")
            /\ UNCHANGED <<role, password, witnessed>>

\* Mutant: a run starts from privileges of its own (REVOKE ALL ... CASCADE).
CloseToAll(r) ==
    /\ pc[r] = "closeDatabase"
    /\ database' = [database EXCEPT !.public = FALSE, !.granted = FALSE]
    /\ Privilege(r, "grantConnect")
    /\ UNCHANGED <<role, password, schema, witnessed>>

\* REVOKE ALL ON DATABASE ... FROM PUBLIC
CloseDatabase(r) ==
    /\ pc[r] = "closeDatabase"
    /\ database' = [database EXCEPT !.public = FALSE]
    /\ Privilege(r, "grantConnect")
    /\ UNCHANGED <<role, password, schema, witnessed>>

\* GRANT CONNECT ON DATABASE ... TO the role
GrantConnect(r) ==
    /\ pc[r] = "grantConnect"
    /\ database' = [database EXCEPT !.granted = TRUE]
    /\ Privilege(r, IF req[r].dedicated THEN "list" ELSE "disconnect")
    /\ UNCHANGED <<role, password, schema, witnessed>>

\* On a dedicated server: every other database, one after the other.
ListOthers(r) ==
    /\ pc[r] = "list"
    /\ Goto(r, IF Existing = {} THEN "disconnect" ELSE "grantAdmin")
    /\ reads' = [reads EXCEPT ![r].found = Existing]
    /\ witnessed' = [witnessed EXCEPT ![r] = {}]
    /\ UNCHANGED <<server, advisory>> /\ Quiet

\* Mutant: REVOKE comes before GRANT.
CloseOtherFirst(r) ==
    /\ pc[r] = "grantAdmin"
    /\ \E d \in reads[r].found :
          IF ~other[d].exists THEN End(r, "error")
          ELSE /\ other' = [other EXCEPT ![d].public = FALSE]
               /\ reads' = [reads EXCEPT ![r].next = d]
               /\ Goto(r, "closeOther")
               /\ UNCHANGED <<privileges, advisory, witnessed>> /\ Quiet

\* GRANT CONNECT ON DATABASE ... TO the provisioning role; the database may be
\* gone since the list was read.
GrantAdmin(r) ==
    /\ pc[r] = "grantAdmin"
    /\ \E d \in reads[r].found :
          IF ~other[d].exists THEN End(r, "error")
          ELSE /\ other' = [other EXCEPT ![d].admin = TRUE]
               /\ reads' = [reads EXCEPT ![r].next = d]
               /\ Goto(r, "closeOther")
               /\ UNCHANGED <<privileges, advisory, witnessed>> /\ Quiet

\* Mutant: only the first database of the list is closed.
CloseOne(r) ==
    LET d == reads[r].next IN
        /\ pc[r] = "closeOther"
        /\ IF ~other[d].exists THEN End(r, "error")
           ELSE /\ other' = [other EXCEPT ![d].public = FALSE]
                /\ reads' = [reads EXCEPT ![r].found = @ \ {d}, ![r].next = None]
                /\ Goto(r, "disconnect")
                /\ UNCHANGED <<privileges, advisory, witnessed>> /\ Quiet

\* REVOKE CONNECT ON DATABASE ... FROM PUBLIC
CloseOther(r) ==
    LET d == reads[r].next IN
        /\ pc[r] = "closeOther"
        /\ IF ~other[d].exists THEN End(r, "error")
           ELSE /\ other' = [other EXCEPT ![d].public = FALSE]
                /\ reads' = [reads EXCEPT ![r].found = @ \ {d}, ![r].next = None]
                /\ Goto(r, IF reads[r].found = {d} THEN "disconnect" ELSE "grantAdmin")
                /\ UNCHANGED <<privileges, advisory, witnessed>> /\ Quiet

-----------------------------------------------------------------------------
(* provision_database over the connection to the application's database.   *)
(* GRANT and REVOKE replace the catalog row that they have read; of two    *)
(* that overlap the second fails ("tuple concurrently updated").           *)

Disconnect(r) ==
    /\ pc[r] = "disconnect"
    /\ Disconnected(r)
    /\ Goto(r, "readSchema")
    /\ UNCHANGED <<server, reads, witnessed>> /\ Quiet

ReadSchema(r) ==
    \/ /\ pc[r] = "readSchema"
       /\ Continue(r, "closeSchema", [reads[r] EXCEPT !.stale = FALSE])
    \/ /\ pc[r] = "rereadSchema"
       /\ Continue(r, "grantSchema", [reads[r] EXCEPT !.stale = FALSE])

WriteSchema(r, privilege, next) ==
    /\ schema' = privilege
    /\ reads' = [q \in Runs |-> IF q # r /\ pc[q] \in {"closeSchema", "grantSchema"}
                                   THEN [reads[q] EXCEPT !.stale = TRUE] ELSE reads[q]]
    /\ Goto(r, next)
    /\ UNCHANGED <<role, password, database, other, advisory, witnessed>> /\ Quiet

\* REVOKE CREATE ON SCHEMA public FROM PUBLIC
CloseSchema(r) ==
    /\ pc[r] = "closeSchema"
    /\ IF reads[r].stale THEN End(r, "error")
       ELSE WriteSchema(r, [schema EXCEPT !.public = FALSE], "rereadSchema")

\* GRANT USAGE, CREATE ON SCHEMA public TO the role
GrantSchema(r) ==
    /\ pc[r] = "grantSchema"
    /\ IF reads[r].stale THEN End(r, "error")
       ELSE WriteSchema(r, [schema EXCEPT !.granted = TRUE],
                        IF req[r].op = "setup" THEN "done" ELSE "verifyVersion")

-----------------------------------------------------------------------------
(* verify_database over a connection of the application's role.            *)

\* Without a password in the URL the role authenticates in some other way.
CanConnect(r) ==
    /\ role \in {"wide", "confined"}
    /\ req[r].password \in {None, password}
    /\ database.exists /\ (database.public \/ database.granted \/ database.owner = "role")

\* _require_least_privilege
LeastPrivilege(r) ==
    /\ role = "confined"
    /\ database.owner # "role"
    /\ schema.public \/ schema.granted
    /\ req[r].dedicated => \A d \in Existing : ~other[d].public

ConnectAsApplication(r) ==
    /\ pc[r] = "verifyVersion"
    /\ IF ~CanConnect(r) THEN End(r, "unreachable")
       ELSE IF environment.supported THEN Continue(r, "inspect", reads[r])
       ELSE End(r, "wrongVersion")

\* One SELECT reads everything that is judged.
Inspect(r) ==
    /\ pc[r] = "inspect"
    /\ End(r, IF LeastPrivilege(r) THEN "verified" ELSE "excessive")

\* The command is killed, or loses its connection.
Crash(r) == pc[r] \in Working /\ End(r, "crashed")

-----------------------------------------------------------------------------
(* Test runs and people create and drop other databases.                   *)

ChangeOther(d, row, fact) ==
    /\ changes < MaxChanges
    /\ changes' = changes + 1
    /\ other' = [other EXCEPT ![d] = row]
    /\ witnessed' = [r \in Runs |-> Seen(r, fact)]
    /\ UNCHANGED <<environment, privileges, advisory, pc, req, reads>>

CreateOther(d) == ~other[d].exists /\ ChangeOther(d, NewDatabase, "created")

DropOther(d) == other[d].exists /\ ChangeOther(d, NoDatabase, "dropped")

-----------------------------------------------------------------------------
Init ==
    /\ environment \in Environments
    /\ \E s \in Starts : /\ role = s.role /\ password = s.password
                         /\ database = s.database /\ schema = s.schema
                         /\ other = s.other
    /\ advisory = None
    /\ pc = [r \in Runs |-> "idle"]
    /\ req = [r \in Runs |-> NoRequest]
    /\ reads = [r \in Runs |-> NoReads]
    /\ changes = 0
    /\ witnessed = [r \in Runs |-> {}]

Statement(r) ==
    \/ RequireVersion(r) \/ TakeLock(r) \/ FindUnexpected(r)
    \/ FindRole(r) \/ CreateRole(r) \/ Confine(r) \/ SetPassword(r)
    \/ FindDatabase(r) \/ CreateDatabase(r) \/ CloseDatabase(r) \/ GrantConnect(r)
    \/ ListOthers(r) \/ GrantAdmin(r) \/ CloseOther(r) \/ Disconnect(r)
    \/ ReadSchema(r) \/ CloseSchema(r) \/ GrantSchema(r)
    \/ ConnectAsApplication(r) \/ Inspect(r)

\* No command is running.
Quiescent == (\A r \in Runs : pc[r] \notin Working) /\ UNCHANGED vars

Next ==
    \/ \E r \in Runs : Statement(r) \/ Crash(r) \/ \E command \in Commands : Start(r, command)
    \/ \E d \in Others : CreateOther(d) \/ DropOther(d)
    \/ Quiescent

\* Of the commands that are not waiting for the lock some one executes its next
\* statement; commands are finite, so this is enough for all of them.
Fairness == WF_vars(\E r \in Runs : Statement(r))

Spec == Init /\ [][Next]_vars

FairSpec == Spec /\ Fairness

-----------------------------------------------------------------------------
(* Properties.                                                             *)

\* The shape of the state.
TypeOK ==
    /\ environment \in Environments
    /\ role \in Roles
    /\ password \in Secrets \cup {None}
    /\ database \in Database
    /\ schema \in Schema
    /\ other \in [Others -> OtherDatabase]
    /\ advisory \in Runs \cup {None}
    /\ pc \in [Runs -> {"idle"} \cup Working \cup Ended]
    /\ req \in [Runs -> Request]
    /\ reads \in [Runs -> Reads]
    /\ changes \in 0..MaxChanges
    /\ witnessed \in [Runs -> SUBSET Facts]

Provisioned ==
    /\ role = "confined"
    /\ database.exists /\ ~database.public /\ database.granted
    /\ ~schema.public /\ schema.granted

\* Whatever died half-way before, a run that completes leaves everything that the
\* application needs and nothing that it must not have, and whatever later or
\* overlapping runs do, or leave undone, never takes that away: the statements
\* of provision_database are idempotent in any interleaving.
SuccessIsLasting ==
    \A r \in Runs : HasProvisioned(r) =>
        /\ Provisioned
        /\ req[r].dedicated /\ "created" \notin witnessed[r] =>
              \A d \in Existing : ~other[d].public

\* The provisioning role can connect to every database at every instant, also
\* between the two statements that close one and after a run that died there,
\* unless the database is dropped and created again between them.
AdminKeepsConnect ==
    \/ \A d \in Existing : other[d].public \/ other[d].admin
    \/ \E r \in Runs : {"dropped", "created"} \subseteq witnessed[r]

\* A statement only fails because the URL has a password, because a database of
\* the list was dropped or because the unlocked statements on the schema overlap
\* with another run's; check and creation of role and database never collide
\* with another run's.
ErrorsAreExplained ==
    \A r \in Runs : pc[r] = "error" =>
        \/ req[r].password # None
        \/ reads[r].stale \/ "dropped" \in witnessed[r]

\* What the tool has provisioned it can always connect to, and when it refuses its
\* own result, somebody else had a hand in it: the role owned the database
\* before, or a database was created since the others were closed.  Over a URL
\* with a password the tool never gets as far as judging anything.
RefusalsAreExplained ==
    \A r \in Runs : req[r].op = "provision" =>
        /\ pc[r] # "unreachable"
        /\ pc[r] = "excessive" =>
              /\ req[r].password = None
              /\ \/ database.owner = "role"
                 \/ req[r].dedicated /\ "created" \in witnessed[r]

\* Commands that have been started all end: nobody waits for the advisory lock of
\* a run that has died.
EveryRunEnds == []<>(\A r \in Runs : pc[r] \notin Working)
=============================================================================
