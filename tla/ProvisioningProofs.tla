------------------------- MODULE ProvisioningProofs -------------------------
(***************************************************************************)
(* Safety of Provisioning for every set of runs, databases and passwords.  *)
(* The inductive invariant IInv says what the statements of a run before   *)
(* its pc have achieved and nobody takes away; LoopInv, at the end, that a *)
(* run which holds the advisory lock is on its way to releasing it.        *)
(***************************************************************************)
EXTENDS Provisioning, FiniteSetTheorems, TLAPS

\* The statements after each achievement of provision_database, and the ends.
Closing == {"grantAdmin", "closeOther"}
Concluded == {"done", "verifyVersion", "inspect", "verified", "unreachable", "excessive"}
Granted == {"rereadSchema", "grantSchema"} \cup Concluded
Listed == Closing \cup {"disconnect", "readSchema", "closeSchema"} \cup Granted
Connectable == {"list"} \cup Listed
Secured == {"grantConnect"} \cup Connectable
Created == {"closeDatabase"} \cup Secured
Known == {"findDatabase", "createDatabase"} \cup Created
Restricted == {"setPassword"} \cup Known

\* Once it has listed the other databases, or ended, a run forgets nothing that it
\* has witnessed.
Remembering == Listed \cup Ended

Provisions(r) == req[r].op \in {"setup", "provision"}

\* What each run was started for, and what its lock protects.
PlaceOK(r) ==
    /\ pc[r] \in Working \ {"verifyVersion", "inspect"} => Provisions(r)
    /\ pc[r] = "setPassword" => req[r].password # None
    /\ pc[r] \in Locked => advisory = r
    /\ pc[r] = "createRole" => role = "absent"
    /\ pc[r] = "createDatabase" => ~database.exists

\* What it has achieved.
ProgressOK(r) ==
    Provisions(r) =>
        /\ pc[r] \in Restricted => role = "confined"
        /\ pc[r] \in Created => database.exists
        /\ pc[r] \in Secured => ~database.public
        /\ pc[r] \in Connectable => database.granted
        /\ pc[r] \in Granted => ~schema.public
        /\ pc[r] \in Concluded => schema.granted

\* No run with a password in its URL comes any further than SetPassword.
PasswordOK(r) == Provisions(r) /\ pc[r] \in Known => req[r].password = None

\* The databases that it has still to close.
Pending(r) == IF pc[r] \in Closing THEN reads[r].found ELSE {}

\* What it has closed of a dedicated server, and what it is closing.
ClosedOK(r) ==
    Provisions(r) /\ req[r].dedicated /\ pc[r] \in Listed =>
        \/ "created" \in witnessed[r]
        \/ \A d \in Others : other[d].exists => d \in Pending(r) \/ ~other[d].public

ClosingOK(r) ==
    /\ \A d \in Pending(r) : other[d].exists \/ "dropped" \in witnessed[r]
    /\ pc[r] = "closeOther" =>
          LET d == reads[r].next IN
              /\ d \in reads[r].found
              /\ \/ other[d].exists /\ other[d].admin
                 \/ "dropped" \in witnessed[r] /\ ~other[d].exists
                 \/ {"dropped", "created"} \subseteq witnessed[r]

\* Why it ended.
EndOK(r) ==
    /\ pc[r] = "error" =>
          req[r].password # None \/ reads[r].stale \/ "dropped" \in witnessed[r]
    /\ req[r].op = "provision" =>
          /\ pc[r] = "excessive" =>
                \/ database.owner = "role"
                \/ req[r].dedicated /\ "created" \in witnessed[r]
          /\ pc[r] # "unreachable"

RunOK(r) ==
    /\ PlaceOK(r) /\ ProgressOK(r) /\ PasswordOK(r)
    /\ ClosedOK(r) /\ ClosingOK(r) /\ EndOK(r)

AdminOK ==
    \/ \A d \in Others : other[d].exists => other[d].public \/ other[d].admin
    \/ \E r \in Runs : pc[r] \in Remembering /\ {"dropped", "created"} \subseteq witnessed[r]

IInv == TypeOK /\ (\A r \in Runs : RunOK(r)) /\ AdminOK

-----------------------------------------------------------------------------
LEMMA InitIInv == Init => IInv
<1> SUFFICES ASSUME Init PROVE IInv
  OBVIOUS
<1>1. NoRequest \in Request /\ NoReads \in Reads
  BY DEF NoRequest, Request, NoReads, Reads
<1>2. PICK s \in Starts : /\ role = s.role /\ password = s.password /\ database = s.database
                         /\ schema = s.schema /\ other = s.other
  BY DEF Init
<1>3. /\ s \in [role : Roles, password : Secrets \cup {None}, database : Database,
                schema : Schema, other : [Others -> OtherDatabase]]
      /\ \A d \in Others : s.other[d].exists => s.other[d].public \/ s.other[d].admin
  BY StartsAssumption
<1>4. /\ role \in Roles /\ password \in Secrets \cup {None} /\ database \in Database
      /\ schema \in Schema /\ other \in [Others -> OtherDatabase]
  BY <1>2, <1>3
<1>5. TypeOK
  BY <1>1, <1>4, BoundsAssumption DEF Init, TypeOK
<1>6. ASSUME NEW r \in Runs PROVE RunOK(r)
  <2>1. pc[r] = "idle"
    BY DEF Init
  <2>2. QED
    BY <2>1 DEF RunOK, PlaceOK, ProgressOK, PasswordOK, ClosedOK, ClosingOK, EndOK, Pending,
                Working, Locked, Unlocked, Restricted, Known, Created, Secured, Connectable,
                Listed, Granted, Concluded, Closing
<1>7. AdminOK
  BY <1>2, <1>3 DEF AdminOK
<1>8. QED
  BY <1>5, <1>6, <1>7 DEF IInv

-----------------------------------------------------------------------------
(* What a step leaves of the achievements of others.                       *)

\* What a run that is under way may count on when another one makes a step.
ServerKept(q) ==
    /\ role = "confined" => role' = "confined"
    /\ database.exists =>
          /\ database'.exists /\ database'.owner = database.owner
          /\ ~database.public => ~database'.public
          /\ database.granted => database'.granted
          /\ ~schema.public => ~schema'.public
          /\ schema.granted => schema'.granted
    /\ advisory = q => advisory' = q /\ UNCHANGED <<role, database>>
    /\ \A d \in Others :
          /\ \/ other'[d].exists => other[d].exists /\ (other'[d].public => other[d].public)
             \/ "created" \in witnessed'[q]
          /\ other[d].exists =>
                \/ other'[d].exists /\ (other[d].admin => other'[d].admin)
                \/ ~other'[d].exists /\ "dropped" \in witnessed'[q]
    /\ witnessed[q] \subseteq witnessed'[q]

\* A run stays where it is, with what it has read.
Still(q) ==
    /\ pc'[q] = pc[q] /\ req'[q] = req[q]
    /\ reads'[q].found = reads[q].found /\ reads'[q].next = reads[q].next
    /\ reads[q].stale => reads'[q].stale

LEMMA Kept ==
    ASSUME TypeOK, NEW q \in Runs, RunOK(q), Still(q), pc[q] = "idle" \/ ServerKept(q)
    PROVE  RunOK(q)'
<1>1. CASE pc[q] = "idle"
  <2>1. pc'[q] = "idle"
    BY <1>1 DEF Still
  <2>2. QED
    BY <2>1 DEF RunOK, PlaceOK, ProgressOK, PasswordOK, ClosedOK, ClosingOK, EndOK, Pending,
                Working, Locked, Unlocked, Restricted, Known, Created, Secured, Connectable,
                Listed, Granted, Concluded, Closing
<1>2. CASE ServerKept(q)
  <2>1. PlaceOK(q)'
    BY <1>2 DEF RunOK, PlaceOK, ServerKept, Still, Provisions, Locked
  <2>2. ProgressOK(q)'
    BY <1>2
    DEF RunOK, ProgressOK, ServerKept, Still, Provisions, Restricted, Known, Created,
        Secured, Connectable, Listed, Granted, Concluded, Closing
  <2>3. PasswordOK(q)'
    BY <1>2 DEF RunOK, PlaceOK, PasswordOK, ServerKept, Still, Provisions
  <2>4. Pending(q)' = Pending(q) /\ Pending(q) \subseteq Others
    BY DEF Still, Pending, TypeOK, Reads
  <2>5. ClosedOK(q)'
    BY <1>2, <2>4 DEF RunOK, ClosedOK, ServerKept, Still, Provisions
  <2>6. ClosingOK(q)'
    <3>1. \A d \in Pending(q)' : other'[d].exists \/ "dropped" \in witnessed'[q]
      BY <1>2, <2>4 DEF RunOK, ClosingOK, ServerKept
    <3>2. CASE pc[q] = "closeOther"
      <4> PICK d : d = reads[q].next
        OBVIOUS
      <4>1. d \in reads[q].found /\ d \in Others
        BY <3>2 DEF RunOK, ClosingOK, TypeOK, Reads
      <4>2. \/ other'[d].exists /\ other'[d].admin
            \/ "dropped" \in witnessed'[q] /\ ~other'[d].exists
            \/ {"dropped", "created"} \subseteq witnessed'[q]
        BY <1>2, <3>2, <4>1 DEF RunOK, ClosingOK, ServerKept
      <4>3. QED
        BY <3>1, <4>1, <4>2 DEF ClosingOK, Still
    <3>3. CASE pc[q] # "closeOther"
      BY <3>1, <3>3 DEF ClosingOK, Still
    <3>4. QED
      BY <3>2, <3>3
  <2>7. EndOK(q)'
    <3>1. pc[q] = "excessive" /\ req[q].op = "provision" => database.exists
      BY DEF RunOK, ProgressOK, Provisions, Created, Secured, Connectable, Listed, Granted,
             Concluded
    <3>2. QED
      BY <1>2, <3>1 DEF RunOK, EndOK, ServerKept, Still
  <2>8. QED
    BY <2>1, <2>2, <2>3, <2>5, <2>6, <2>7 DEF RunOK
<1>3. QED
  BY <1>1, <1>2

\* A step of one run that the others survive.
LEMMA StepSafe ==
    ASSUME IInv, NEW r \in Runs, TypeOK', RunOK(r)',
           \A q \in Runs \ {r} : Still(q) /\ (pc[q] = "idle" \/ ServerKept(q)),
           pc[r] \in Remembering => pc'[r] \in Remembering /\ witnessed[r] \subseteq witnessed'[r],
           UNCHANGED other \/ AdminOK'
    PROVE  IInv'
<1>1. \A q \in Runs : RunOK(q)'
  BY Kept DEF IInv
<1>2. ASSUME UNCHANGED other PROVE AdminOK'
  <2>1. CASE \A d \in Others : other[d].exists => other[d].public \/ other[d].admin
    BY <1>2, <2>1 DEF AdminOK
  <2>2. ASSUME NEW q \in Runs, pc[q] \in Remembering, {"dropped", "created"} \subseteq witnessed[q]
        PROVE  AdminOK'
    <3>1. pc'[q] \in Remembering /\ witnessed[q] \subseteq witnessed'[q]
      BY <2>2 DEF Still, ServerKept, Remembering, Listed, Closing, Granted, Concluded, Ended
    <3>2. QED
      BY <2>2, <3>1 DEF AdminOK
  <2>3. QED
    BY <2>1, <2>2 DEF IInv, AdminOK
<1>3. QED
  BY <1>1, <1>2 DEF IInv

\* Steps that leave the server to others as it was.
LEMMA Untouched ==
    ASSUME TypeOK, NEW q \in Runs, UNCHANGED <<role, password, database, schema, other>>,
           advisory = q => advisory' = q, witnessed'[q] = witnessed[q]
    PROVE  ServerKept(q)
<1>1. role' = role /\ password' = password /\ database' = database /\ schema' = schema
      /\ other' = other
  OBVIOUS
<1>2. QED
  BY <1>1 DEF ServerKept

\* A statement that changes nothing on the server.
LEMMA ContinueSafe ==
    ASSUME IInv, NEW r \in Runs, NEW next \in Working, NEW read \in Reads,
           Continue(r, next, read), RunOK(r)',
           pc[r] \in Remembering => next \in Remembering
    PROVE  IInv'
<1>1. /\ TypeOK /\ pc' = [pc EXCEPT ![r] = next] /\ reads' = [reads EXCEPT ![r] = read]
      /\ UNCHANGED <<role, password, database, schema, other, advisory, witnessed>>
      /\ UNCHANGED <<environment, req, changes>>
  BY DEF Continue, Goto, Quiet, server, privileges, IInv
<1>2. TypeOK'
  BY <1>1 DEF TypeOK
<1>3. \A q \in Runs \ {r} : Still(q)
  BY <1>1 DEF Still, TypeOK
<1>4. \A q \in Runs \ {r} : ServerKept(q)
  BY <1>1, Untouched
<1>5. pc'[r] = next /\ witnessed'[r] = witnessed[r]
  BY <1>1 DEF TypeOK
<1>6. QED
  BY <1>1, <1>2, <1>3, <1>4, <1>5, StepSafe

\* The end of a run: what it has achieved stays, and why it ends is known.
LEMMA EndSafe ==
    ASSUME IInv, NEW r \in Runs, NEW how \in Ended \ {"done"}, End(r, how), pc[r] \in Working,
           how \in Concluded => pc[r] \in Concluded,
           how = "error" =>
               req[r].password # None \/ reads[r].stale \/ "dropped" \in witnessed[r],
           how = "excessive" /\ req[r].op = "provision" =>
               database.owner = "role" \/ (req[r].dedicated /\ "created" \in witnessed[r]),
           how = "unreachable" => req[r].op # "provision"
    PROVE  IInv'
<1>1. PICK stale : stale = (reads[r].stale /\ how = "error") /\ stale \in BOOLEAN
  OBVIOUS
<1>2. PICK read : read = [NoReads EXCEPT !.stale = stale]
  OBVIOUS
<1>3. /\ TypeOK /\ RunOK(r) /\ pc' = [pc EXCEPT ![r] = how]
      /\ reads' = [reads EXCEPT ![r] = read] /\ Disconnected(r)
      /\ UNCHANGED <<role, password, database, schema, other, witnessed>>
      /\ UNCHANGED <<environment, req, changes>>
  BY <1>1, <1>2 DEF End, Goto, Quiet, server, privileges, IInv
<1>4. read \in Reads /\ read.stale = stale
  BY <1>1, <1>2 DEF NoReads, Reads
<1>5. TypeOK'
  BY <1>3, <1>4 DEF TypeOK, Disconnected
<1>6. \A q \in Runs \ {r} : Still(q)
  BY <1>3 DEF Still, TypeOK
<1>7. \A q \in Runs \ {r} : ServerKept(q)
  BY <1>3, Untouched DEF Disconnected
<1>8. pc'[r] = how /\ witnessed'[r] = witnessed[r] /\ reads'[r] = read
  BY <1>3 DEF TypeOK
<1>9. RunOK(r)'
  <2>1. how \notin Working /\ how \notin Locked /\ how \notin Closing /\ how # "closeOther"
        /\ (how \in Listed \cup Connectable \cup Secured \cup Created \cup Known \cup Restricted
              \cup Granted => how \in Concluded)
    BY DEF Ended, Working, Locked, Unlocked, Closing, Listed, Connectable, Secured, Created,
           Known, Restricted, Granted, Concluded
  <2>2. PlaceOK(r)' /\ ClosingOK(r)' /\ Pending(r)' = {}
    BY <1>8, <2>1 DEF PlaceOK, ClosingOK, Pending, Locked
  <2>3. ProgressOK(r)'
    BY <1>3, <1>8, <2>1
    DEF RunOK, ProgressOK, Provisions, Restricted, Known, Created, Secured, Connectable,
        Listed, Granted
  <2>4. PasswordOK(r)'
    BY <1>3, <1>8, <2>1
    DEF RunOK, PasswordOK, Provisions, Known, Created, Secured, Connectable, Listed,
        Granted
  <2>5. ClosedOK(r)'
    <3>1. how \in Concluded => Pending(r) = {}
      BY DEF Pending, Concluded, Closing
    <3>2. QED
      BY <1>3, <1>8, <2>1, <3>1 DEF RunOK, ClosedOK, Provisions, Listed, Granted
  <2>6. EndOK(r)'
    BY <1>1, <1>3, <1>4, <1>8 DEF EndOK
  <2>7. QED
    BY <2>2, <2>3, <2>4, <2>5, <2>6 DEF RunOK
<1>10. pc'[r] \in Remembering
  BY <1>8 DEF Remembering
<1>11. QED
  BY <1>3, <1>5, <1>6, <1>7, <1>8, <1>9, <1>10, StepSafe

-----------------------------------------------------------------------------
(* Statements that only read.                                              *)

\* After Continue a run is where it says, and the server as it was.
LEMMA Continued ==
    ASSUME TypeOK, NEW r \in Runs, NEW next, NEW read, Continue(r, next, read)
    PROVE  /\ pc'[r] = next /\ reads'[r] = read /\ req' = req /\ witnessed' = witnessed
           /\ UNCHANGED <<role, password, database, schema, other, advisory>>
BY DEF Continue, Goto, Quiet, server, privileges, TypeOK

LEMMA RequireVersionStep == ASSUME IInv, NEW r \in Runs, RequireVersion(r) PROVE IInv'
<1>1. TypeOK /\ RunOK(r) /\ pc[r] = "version" /\ NoReads \in Reads
  BY DEF RequireVersion, IInv, NoReads, Reads
<1>2. CASE Continue(r, "lock", NoReads)
  <2>1. RunOK(r)'
    BY <1>1, <1>2, Continued
    DEF RunOK, PlaceOK, ProgressOK, PasswordOK, ClosedOK, ClosingOK, EndOK, Pending,
        Provisions, Working, Locked, Unlocked, Restricted, Known, Created, Secured,
        Connectable, Listed, Granted, Concluded, Closing
  <2>2. QED
    BY <1>1, <1>2, <2>1, ContinueSafe
    DEF Working, Unlocked, Remembering, Ended, Restricted, Known, Created, Secured,
        Connectable, Listed, Granted, Concluded, Closing
<1>3. CASE End(r, "wrongVersion")
  BY <1>1, <1>3, EndSafe DEF Ended, Concluded, Working, Unlocked
<1>4. QED
  BY <1>2, <1>3 DEF RequireVersion

LEMMA FindUnexpectedStep == ASSUME IInv, NEW r \in Runs, FindUnexpected(r) PROVE IInv'
<1>1. TypeOK /\ RunOK(r) /\ pc[r] = "others" /\ reads[r] \in Reads
  BY DEF FindUnexpected, IInv, TypeOK
<1>2. CASE Continue(r, "findRole", reads[r])
  <2>1. RunOK(r)'
    BY <1>1, <1>2, Continued
    DEF RunOK, PlaceOK, ProgressOK, PasswordOK, ClosedOK, ClosingOK, EndOK, Pending,
        Provisions, Working, Locked, Unlocked, Restricted, Known, Created, Secured,
        Connectable, Listed, Granted, Concluded, Closing
  <2>2. QED
    BY <1>1, <1>2, <2>1, ContinueSafe
    DEF Working, Locked, Remembering, Ended, Restricted, Known, Created, Secured,
        Connectable, Listed, Granted, Concluded, Closing
<1>3. CASE End(r, "crowded")
  BY <1>1, <1>3, EndSafe DEF Ended, Concluded, Working, Locked
<1>4. QED
  BY <1>2, <1>3 DEF FindUnexpected

LEMMA FindRoleStep == ASSUME IInv, NEW r \in Runs, FindRole(r) PROVE IInv'
<1>1. TypeOK /\ RunOK(r) /\ pc[r] = "findRole" /\ reads[r] \in Reads
  BY DEF FindRole, IInv, TypeOK
<1>2. PICK next : next = IF role = "absent" THEN "createRole" ELSE "confine"
  OBVIOUS
<1>3. Continue(r, next, reads[r])
  BY <1>2 DEF FindRole
<1>4. RunOK(r)'
  BY <1>1, <1>2, <1>3, Continued
  DEF RunOK, PlaceOK, ProgressOK, PasswordOK, ClosedOK, ClosingOK, EndOK, Pending,
      Provisions, Working, Locked, Unlocked, Restricted, Known, Created, Secured,
      Connectable, Listed, Granted, Concluded, Closing
<1>5. QED
  BY <1>1, <1>2, <1>3, <1>4, ContinueSafe
  DEF Working, Locked, Remembering, Ended, Restricted, Known, Created, Secured,
      Connectable, Listed, Granted, Concluded, Closing

LEMMA FindDatabaseStep == ASSUME IInv, NEW r \in Runs, FindDatabase(r) PROVE IInv'
<1>1. TypeOK /\ RunOK(r) /\ pc[r] = "findDatabase" /\ reads[r] \in Reads
  BY DEF FindDatabase, IInv, TypeOK
<1>2. PICK next : next = IF database.exists THEN "closeDatabase" ELSE "createDatabase"
  OBVIOUS
<1>3. Continue(r, next, reads[r])
  BY <1>2 DEF FindDatabase
<1>4. RunOK(r)'
  BY <1>1, <1>2, <1>3, Continued
  DEF RunOK, PlaceOK, ProgressOK, PasswordOK, ClosedOK, ClosingOK, EndOK, Pending,
      Provisions, Working, Locked, Unlocked, Restricted, Known, Created, Secured,
      Connectable, Listed, Granted, Concluded, Closing
<1>5. QED
  BY <1>1, <1>2, <1>3, <1>4, ContinueSafe
  DEF Working, Locked, Remembering, Ended, Restricted, Known, Created, Secured,
      Connectable, Listed, Granted, Concluded, Closing

LEMMA ReadSchemaStep == ASSUME IInv, NEW r \in Runs, ReadSchema(r) PROVE IInv'
<1>1. PICK read : read = [reads[r] EXCEPT !.stale = FALSE]
  OBVIOUS
<1>2. /\ TypeOK /\ RunOK(r) /\ reads[r] \in Reads
      /\ \/ pc[r] = "readSchema" /\ Continue(r, "closeSchema", read)
         \/ pc[r] = "rereadSchema" /\ Continue(r, "grantSchema", read)
  BY <1>1 DEF ReadSchema, IInv, TypeOK
<1>3. read \in Reads
  BY <1>1, <1>2 DEF Reads
<1>4. RunOK(r)'
  BY <1>2, Continued
  DEF RunOK, PlaceOK, ProgressOK, PasswordOK, ClosedOK, ClosingOK, EndOK, Pending,
      Provisions, Working, Locked, Unlocked, Restricted, Known, Created, Secured,
      Connectable, Listed, Granted, Concluded, Closing
<1>5. QED
  BY <1>2, <1>3, <1>4, ContinueSafe
  DEF Working, Unlocked, Remembering, Ended, Restricted, Known, Created, Secured,
      Connectable, Listed, Granted, Concluded, Closing

LEMMA ConnectStep == ASSUME IInv, NEW r \in Runs, ConnectAsApplication(r) PROVE IInv'
<1>1. TypeOK /\ RunOK(r) /\ pc[r] = "verifyVersion" /\ reads[r] \in Reads
  BY DEF ConnectAsApplication, IInv, TypeOK
<1>2. CASE ~CanConnect(r) /\ End(r, "unreachable")
  <2>1. ASSUME req[r].op = "provision" PROVE FALSE
    <3>1. role = "confined" /\ database.exists /\ database.granted
      BY <1>1, <2>1
      DEF RunOK, ProgressOK, Provisions, Restricted, Known, Created, Secured,
          Connectable, Listed, Granted, Concluded, Closing
    <3>2. req[r].password = None
      BY <1>1, <2>1
      DEF RunOK, PasswordOK, Provisions, Known, Created, Secured, Connectable, Listed,
          Granted, Concluded, Closing
    <3>3. QED
      BY <1>2, <3>1, <3>2 DEF CanConnect
  <2>2. QED
    BY <1>1, <1>2, <2>1, EndSafe DEF Ended, Concluded, Working, Unlocked
<1>3. CASE Continue(r, "inspect", reads[r])
  <2>1. RunOK(r)'
    BY <1>1, <1>3, Continued
    DEF RunOK, PlaceOK, ProgressOK, PasswordOK, ClosedOK, ClosingOK, EndOK, Pending,
        Provisions, Working, Locked, Unlocked, Restricted, Known, Created, Secured,
        Connectable, Listed, Granted, Concluded, Closing
  <2>2. QED
    BY <1>1, <1>3, <2>1, ContinueSafe
    DEF Working, Unlocked, Remembering, Ended, Restricted, Known, Created, Secured,
        Connectable, Listed, Granted, Concluded, Closing
<1>4. CASE End(r, "wrongVersion")
  BY <1>1, <1>4, EndSafe DEF Ended, Concluded, Working, Unlocked
<1>5. QED
  BY <1>2, <1>3, <1>4 DEF ConnectAsApplication

LEMMA InspectStep == ASSUME IInv, NEW r \in Runs, Inspect(r) PROVE IInv'
<1>1. TypeOK /\ RunOK(r) /\ pc[r] = "inspect"
  BY DEF Inspect, IInv
<1>2. CASE LeastPrivilege(r) /\ End(r, "verified")
  BY <1>1, <1>2, EndSafe DEF Ended, Concluded, Working, Unlocked
<1>3. CASE ~LeastPrivilege(r) /\ End(r, "excessive")
  <2>1. ASSUME req[r].op = "provision"
        PROVE  database.owner = "role" \/ (req[r].dedicated /\ "created" \in witnessed[r])
    <3>1. role = "confined" /\ schema.granted
      BY <1>1, <2>1
      DEF RunOK, ProgressOK, Provisions, Restricted, Known, Created, Secured,
          Connectable, Listed, Granted, Concluded, Closing
    <3>2. req[r].dedicated =>
            "created" \in witnessed[r] \/ \A d \in Others : other[d].exists => ~other[d].public
      BY <1>1, <2>1
      DEF RunOK, ClosedOK, Provisions, Pending, Restricted, Known, Created, Secured,
          Connectable, Listed, Granted, Concluded, Closing
    <3>3. CASE database.owner # "role"
      <4>1. PICK d \in Existing : req[r].dedicated /\ other[d].public
        BY <1>3, <3>1, <3>3 DEF LeastPrivilege
      <4>2. QED
        BY <3>2, <4>1 DEF Existing
    <3>4. QED
      BY <3>3
  <2>2. QED
    BY <1>1, <1>3, <2>1, EndSafe DEF Ended, Concluded, Working, Unlocked
<1>4. QED
  BY <1>2, <1>3 DEF Inspect

LEMMA CrashStep == ASSUME IInv, NEW r \in Runs, Crash(r) PROVE IInv'
  BY EndSafe DEF Crash, Ended, Concluded

-----------------------------------------------------------------------------
(* Statements under the advisory lock.                                     *)

\* A statement that changes a privilege or a role, by the holder of the lock.
LEMMA PrivilegeSafe ==
    ASSUME IInv, NEW r \in Runs, NEW next \in Locked, Privilege(r, next),
           pc[r] \in Locked \ {"list", "grantAdmin", "closeOther", "disconnect"},
           role' \in Roles, password' \in Secrets \cup {None}, database' \in Database,
           schema' \in Schema, witnessed' \in [Runs -> SUBSET Facts],
           RunOK(r)',
           role = "confined" => role' = "confined",
           database.exists =>
               /\ database'.exists /\ database'.owner = database.owner /\ schema' = schema
               /\ ~database.public => ~database'.public
               /\ database.granted => database'.granted,
           \A q \in Runs \ {r} : pc[q] # "idle" =>
               witnessed[q] \subseteq witnessed'[q]
    PROVE  IInv'
<1>1. /\ TypeOK /\ RunOK(r) /\ UNCHANGED <<environment, other, advisory, reads, req, changes>>
      /\ pc' = [pc EXCEPT ![r] = next]
  BY DEF Privilege, Goto, Quiet, IInv
<1>2. TypeOK'
  BY <1>1 DEF TypeOK, Working
<1>3. \A q \in Runs \ {r} : Still(q)
  BY <1>1 DEF Still, TypeOK
<1>4. ASSUME NEW q \in Runs \ {r}, pc[q] # "idle" PROVE ServerKept(q)
  <2>1. advisory # q
    BY <1>1 DEF RunOK, PlaceOK
  <2>2. other' = other
    BY <1>1
  <2>3. witnessed[q] \subseteq witnessed'[q]
    BY <1>4
  <2>4. database.exists =>
          (~schema.public => ~schema'.public) /\ (schema.granted => schema'.granted)
    OBVIOUS
  <2>5. QED
    BY <2>1, <2>2, <2>3, <2>4 DEF ServerKept
<1>5. pc[r] \notin Remembering
  BY
  DEF Remembering, Ended, Locked, Restricted, Known, Created, Secured, Connectable,
      Listed, Granted, Concluded, Closing
<1>6. QED
  BY <1>1, <1>2, <1>3, <1>4, <1>5, StepSafe

LEMMA CreateRoleStep == ASSUME IInv, NEW r \in Runs, CreateRole(r) PROVE IInv'
<1>1. TypeOK /\ RunOK(r) /\ pc[r] = "createRole" /\ role = "absent"
  BY DEF CreateRole, IInv, RunOK, PlaceOK
<1>2. /\ role' = "bare" /\ Privilege(r, "confine")
      /\ UNCHANGED <<password, database, schema, witnessed>>
  BY <1>1 DEF CreateRole
<1>3. /\ pc'[r] = "confine" /\ UNCHANGED <<req, advisory>>
  BY <1>1, <1>2 DEF Privilege, Goto, Quiet, TypeOK
<1>4. RunOK(r)'
  BY <1>1, <1>3
  DEF RunOK, PlaceOK, ProgressOK, PasswordOK, ClosedOK, ClosingOK, EndOK, Pending,
      Provisions, Working, Locked, Unlocked, Restricted, Known, Created, Secured,
      Connectable, Listed, Granted, Concluded, Closing
<1>5. QED
  BY <1>1, <1>2, <1>4, PrivilegeSafe DEF TypeOK, Roles, Locked

LEMMA ConfineStep == ASSUME IInv, NEW r \in Runs, Confine(r) PROVE IInv'
<1>1. TypeOK /\ RunOK(r) /\ pc[r] = "confine"
  BY DEF Confine, IInv
<1>2. PICK next : next = IF req[r].password = None THEN "findDatabase" ELSE "setPassword"
  OBVIOUS
<1>3. /\ role' = "confined" /\ Privilege(r, next)
      /\ UNCHANGED <<password, database, schema, witnessed>>
  BY <1>2 DEF Confine
<1>4. /\ pc'[r] = next /\ UNCHANGED <<req, advisory>>
  BY <1>1, <1>3 DEF Privilege, Goto, Quiet, TypeOK
<1>5. RunOK(r)'
  BY <1>1, <1>2, <1>3, <1>4
  DEF RunOK, PlaceOK, ProgressOK, PasswordOK, ClosedOK, ClosingOK, EndOK, Pending,
      Provisions, Working, Locked, Unlocked, Restricted, Known, Created, Secured,
      Connectable, Listed, Granted, Concluded, Closing
<1>6. QED
  BY <1>1, <1>2, <1>3, <1>5, PrivilegeSafe DEF TypeOK, Roles, Locked

LEMMA SetPasswordStep == ASSUME IInv, NEW r \in Runs, SetPassword(r) PROVE IInv'
<1>1. pc[r] = "setPassword" /\ req[r].password # None /\ End(r, "error")
  BY DEF SetPassword, IInv, RunOK, PlaceOK
<1>2. QED
  BY <1>1, EndSafe DEF Ended, Concluded, Working, Locked

LEMMA CreateDatabaseStep == ASSUME IInv, NEW r \in Runs, CreateDatabase(r) PROVE IInv'
<1>1. TypeOK /\ RunOK(r) /\ pc[r] = "createDatabase" /\ ~database.exists
  BY DEF CreateDatabase, IInv, RunOK, PlaceOK
<1>2. /\ database' = [exists |-> TRUE, owner |-> "admin", public |-> TRUE, granted |-> FALSE]
      /\ schema' = [public |-> FALSE, granted |-> FALSE]
      /\ Privilege(r, "closeDatabase") /\ UNCHANGED <<role, password, witnessed>>
  BY <1>1 DEF CreateDatabase
<1>3. /\ pc'[r] = "closeDatabase" /\ UNCHANGED <<req, advisory>>
  BY <1>1, <1>2 DEF Privilege, Goto, Quiet, TypeOK
<1>4. database' \in Database /\ schema' \in Schema /\ database'.exists
  BY <1>2 DEF Database, Schema
<1>5. RunOK(r)'
  BY <1>1, <1>2, <1>3, <1>4
  DEF RunOK, PlaceOK, ProgressOK, PasswordOK, ClosedOK, ClosingOK, EndOK, Pending,
      Provisions, Working, Locked, Unlocked, Restricted, Known, Created, Secured,
      Connectable, Listed, Granted, Concluded, Closing
<1>6. QED
  BY <1>1, <1>2, <1>4, <1>5, PrivilegeSafe DEF TypeOK, Locked

LEMMA CloseDatabaseStep == ASSUME IInv, NEW r \in Runs, CloseDatabase(r) PROVE IInv'
<1>1. TypeOK /\ RunOK(r) /\ pc[r] = "closeDatabase" /\ database \in Database
  BY DEF CloseDatabase, IInv, TypeOK
<1>2. /\ database' = [database EXCEPT !.public = FALSE] /\ Privilege(r, "grantConnect")
      /\ UNCHANGED <<role, password, schema, witnessed>>
  BY DEF CloseDatabase
<1>3. /\ pc'[r] = "grantConnect" /\ UNCHANGED <<req, advisory>>
  BY <1>1, <1>2 DEF Privilege, Goto, Quiet, TypeOK
<1>4. /\ database' \in Database /\ ~database'.public /\ database'.owner = database.owner
      /\ database'.exists = database.exists /\ database'.granted = database.granted
  BY <1>1, <1>2 DEF Database
<1>5. RunOK(r)'
  BY <1>1, <1>2, <1>3, <1>4
  DEF RunOK, PlaceOK, ProgressOK, PasswordOK, ClosedOK, ClosingOK, EndOK, Pending,
      Provisions, Working, Locked, Unlocked, Restricted, Known, Created, Secured,
      Connectable, Listed, Granted, Concluded, Closing
<1>6. QED
  BY <1>1, <1>2, <1>4, <1>5, PrivilegeSafe DEF TypeOK, Locked

LEMMA GrantConnectStep == ASSUME IInv, NEW r \in Runs, GrantConnect(r) PROVE IInv'
<1>1. TypeOK /\ RunOK(r) /\ pc[r] = "grantConnect" /\ database \in Database
  BY DEF GrantConnect, IInv, TypeOK
<1>2. PICK next : next = IF req[r].dedicated THEN "list" ELSE "disconnect"
  OBVIOUS
<1>3. /\ database' = [database EXCEPT !.granted = TRUE] /\ Privilege(r, next)
      /\ UNCHANGED <<role, password, schema, witnessed>>
  BY <1>2 DEF GrantConnect
<1>4. /\ pc'[r] = next /\ UNCHANGED <<req, advisory>>
  BY <1>1, <1>3 DEF Privilege, Goto, Quiet, TypeOK
<1>5. /\ database' \in Database /\ database'.granted /\ database'.owner = database.owner
      /\ database'.exists = database.exists /\ database'.public = database.public
  BY <1>1, <1>3 DEF Database
<1>6. RunOK(r)'
  BY <1>1, <1>2, <1>3, <1>4, <1>5
  DEF RunOK, PlaceOK, ProgressOK, PasswordOK, ClosedOK, ClosingOK, EndOK, Pending,
      Provisions, Working, Locked, Unlocked, Restricted, Known, Created, Secured,
      Connectable, Listed, Granted, Concluded, Closing
<1>7. QED
  BY <1>1, <1>2, <1>3, <1>5, <1>6, PrivilegeSafe DEF TypeOK, Locked

LEMMA TakeLockStep == ASSUME IInv, NEW r \in Runs, TakeLock(r) PROVE IInv'
<1>1. PICK next : next = IF req[r].dedicated THEN "others" ELSE "findRole"
  OBVIOUS
<1>2. /\ TypeOK /\ RunOK(r) /\ pc[r] = "lock" /\ advisory = None /\ advisory' = r
      /\ pc' = [pc EXCEPT ![r] = next] /\ UNCHANGED <<environment, reads, req, changes>>
      /\ UNCHANGED <<role, password, database, schema, other, witnessed>>
  BY <1>1 DEF TakeLock, IInv, Goto, Quiet, server, privileges
<1>3. TypeOK' /\ pc'[r] = next
  BY <1>1, <1>2 DEF TypeOK, Working, Locked
<1>4. \A q \in Runs \ {r} : Still(q) /\ ServerKept(q)
  BY <1>2, NoneAssumption, Untouched DEF Still, TypeOK
<1>5. RunOK(r)'
  BY <1>1, <1>2, <1>3
  DEF RunOK, PlaceOK, ProgressOK, PasswordOK, ClosedOK, ClosingOK, EndOK, Pending,
      Provisions, Working, Locked, Unlocked, Restricted, Known, Created, Secured,
      Connectable, Listed, Granted, Concluded, Closing
<1>6. pc[r] \notin Remembering
  BY <1>2
  DEF Remembering, Ended, Restricted, Known, Created, Secured, Connectable, Listed,
      Granted, Concluded, Closing
<1>7. QED
  BY <1>2, <1>3, <1>4, <1>5, <1>6, StepSafe

LEMMA ListOthersStep == ASSUME IInv, NEW r \in Runs, ListOthers(r) PROVE IInv'
<1>1. PICK next : next = IF Existing = {} THEN "disconnect" ELSE "grantAdmin"
  OBVIOUS
<1>2. /\ TypeOK /\ RunOK(r) /\ pc[r] = "list"
      /\ pc' = [pc EXCEPT ![r] = next] /\ reads' = [reads EXCEPT ![r].found = Existing]
      /\ witnessed' = [witnessed EXCEPT ![r] = {}] /\ UNCHANGED <<environment, req, changes>>
      /\ UNCHANGED <<role, password, database, schema, other, advisory>>
  BY <1>1 DEF ListOthers, IInv, Goto, Quiet, server, privileges
<1>3. Existing \in SUBSET Others
  BY DEF Existing
<1>4. /\ reads'[r] \in Reads /\ reads'[r].found = Existing
      /\ \A q \in Runs \ {r} : reads'[q] = reads[q]
  BY <1>2, <1>3 DEF TypeOK, Reads
<1>5. TypeOK' /\ pc'[r] = next
  <2>1. reads' = [reads EXCEPT ![r] = reads'[r]]
    BY <1>2 DEF TypeOK
  <2>2. reads' \in [Runs -> Reads]
    BY <1>2, <1>4, <2>1 DEF TypeOK
  <2>3. QED
    BY <1>1, <1>2, <2>2 DEF TypeOK, Working, Locked
<1>6. \A q \in Runs \ {r} : Still(q) /\ ServerKept(q)
  <2>1. \A q \in Runs \ {r} : witnessed'[q] = witnessed[q]
    BY <1>2 DEF TypeOK
  <2>2. QED
    BY <1>2, <1>4, <2>1, Untouched DEF Still, TypeOK
<1>7. RunOK(r)'
  <2>1. Pending(r)' = IF next = "grantAdmin" THEN Existing ELSE {}
    BY <1>1, <1>4, <1>5 DEF Pending, Closing
  <2>2. \A d \in Others : other'[d].exists => d \in Pending(r)'
    BY <1>1, <1>2, <2>1 DEF Existing
  <2>3. \A d \in Pending(r)' : other'[d].exists
    BY <1>2, <2>1 DEF Existing
  <2>4. ClosedOK(r)' /\ ClosingOK(r)'
    BY <1>1, <1>5, <2>2, <2>3 DEF ClosedOK, ClosingOK
  <2>5. PlaceOK(r)' /\ ProgressOK(r)' /\ PasswordOK(r)' /\ EndOK(r)'
    BY <1>1, <1>2, <1>5
    DEF RunOK, PlaceOK, ProgressOK, PasswordOK, EndOK, Provisions, Working, Locked,
        Unlocked, Restricted, Known, Created, Secured, Connectable, Listed, Granted,
        Concluded, Closing
  <2>6. QED
    BY <2>4, <2>5 DEF RunOK
<1>8. pc[r] \notin Remembering
  BY <1>2
  DEF Remembering, Ended, Restricted, Known, Created, Secured, Connectable, Listed,
      Granted, Concluded, Closing
<1>9. QED
  BY <1>2, <1>5, <1>6, <1>7, <1>8, StepSafe

\* A database that was listed is there, or was dropped since.
LEMMA GrantAdminStep == ASSUME IInv, NEW r \in Runs, GrantAdmin(r) PROVE IInv'
<1>1. /\ TypeOK /\ RunOK(r) /\ pc[r] = "grantAdmin" /\ Pending(r) = reads[r].found
      /\ reads[r] \in Reads /\ reads[r].found \subseteq Others
  BY DEF GrantAdmin, IInv, Pending, Closing, TypeOK, Reads
<1>2. PICK d \in reads[r].found :
         IF ~other[d].exists THEN End(r, "error")
         ELSE /\ other' = [other EXCEPT ![d].admin = TRUE]
              /\ reads' = [reads EXCEPT ![r].next = d]
              /\ Goto(r, "closeOther")
              /\ UNCHANGED <<privileges, advisory, witnessed>> /\ Quiet
  BY DEF GrantAdmin
<1>3. CASE ~other[d].exists
  <2>1. "dropped" \in witnessed[r]
    BY <1>1, <1>2, <1>3 DEF RunOK, ClosingOK
  <2>2. QED
    BY <1>1, <1>2, <1>3, <2>1, EndSafe DEF Ended, Concluded, Working, Locked
<1>4. CASE other[d].exists
  <2>1. /\ other' = [other EXCEPT ![d].admin = TRUE] /\ reads' = [reads EXCEPT ![r].next = d]
        /\ pc' = [pc EXCEPT ![r] = "closeOther"] /\ UNCHANGED <<environment, req, changes>>
        /\ UNCHANGED <<role, password, database, schema, advisory, witnessed>>
    BY <1>2, <1>4 DEF Goto, Quiet, privileges
  <2>2. d \in Others /\ other[d] \in OtherDatabase /\ other \in [Others -> OtherDatabase]
    BY <1>1, <1>2 DEF TypeOK
  <2>3. /\ other'[d] \in OtherDatabase /\ other'[d].admin
        /\ other'[d].exists = other[d].exists /\ other'[d].public = other[d].public
        /\ \A e \in Others \ {d} : other'[e] = other[e]
    BY <2>1, <2>2 DEF OtherDatabase
  <2>4. /\ reads'[r] \in Reads /\ reads'[r].next = d /\ reads'[r].found = reads[r].found
        /\ \A q \in Runs \ {r} : reads'[q] = reads[q]
    BY <1>1, <2>1, <2>2 DEF TypeOK, Reads
  <2>5. TypeOK' /\ pc'[r] = "closeOther"
    <3>1. /\ reads' = [reads EXCEPT ![r] = reads'[r]] /\ other' = [other EXCEPT ![d] = other'[d]]
      BY <1>1, <2>1, <2>2 DEF TypeOK
    <3>2. reads' \in [Runs -> Reads] /\ other' \in [Others -> OtherDatabase]
      BY <1>1, <2>2, <2>3, <2>4, <3>1 DEF TypeOK
    <3>3. QED
      BY <1>1, <2>1, <3>2 DEF TypeOK, Working, Locked
  <2>6. \A e \in Others : /\ other'[e].exists = other[e].exists
                          /\ other'[e].public = other[e].public
                          /\ other[e].admin => other'[e].admin
    BY <2>2, <2>3
  <2>7. ASSUME NEW q \in Runs \ {r} PROVE Still(q) /\ ServerKept(q)
    <3>1. Still(q)
      BY <1>1, <2>1, <2>4 DEF Still, TypeOK
    <3>2. ServerKept(q)
      <4>1. \A e \in Others :
                /\ other'[e].exists => other[e].exists /\ (other'[e].public => other[e].public)
                /\ other[e].exists => other'[e].exists /\ (other[e].admin => other'[e].admin)
        BY <2>6
      <4>2. role' = role /\ password' = password /\ database' = database /\ schema' = schema
            /\ advisory' = advisory /\ witnessed'[q] = witnessed[q]
        BY <2>1
      <4>3. QED
        BY <4>1, <4>2 DEF ServerKept
    <3>3. QED
      BY <3>1, <3>2
  <2>8. RunOK(r)'
    <3>1. Pending(r)' = Pending(r)
      BY <1>1, <2>4, <2>5 DEF Pending, Closing
    <3>2. ClosedOK(r)'
      BY <1>1, <2>1, <2>5, <2>6, <3>1
      DEF RunOK, ClosedOK, Provisions, Restricted, Known, Created, Secured, Connectable,
          Listed, Granted, Concluded, Closing
    <3>3. ClosingOK(r)'
      BY <1>1, <1>2, <1>4, <2>1, <2>3, <2>4, <2>6, <3>1 DEF RunOK, ClosingOK
    <3>4. PlaceOK(r)' /\ ProgressOK(r)' /\ PasswordOK(r)' /\ EndOK(r)'
      BY <1>1, <2>1, <2>5
      DEF RunOK, PlaceOK, ProgressOK, PasswordOK, EndOK, Provisions, Working, Locked,
          Unlocked, Restricted, Known, Created, Secured, Connectable, Listed, Granted,
          Concluded, Closing
    <3>5. QED
      BY <3>2, <3>3, <3>4 DEF RunOK
  <2>9. AdminOK'
    <3>1. CASE \A e \in Others : other[e].exists => other[e].public \/ other[e].admin
      <4>1. \A e \in Others : other'[e].exists => other'[e].public \/ other'[e].admin
        BY <2>6, <3>1
      <4>2. QED
        BY <4>1 DEF AdminOK
    <3>2. ASSUME NEW q \in Runs, pc[q] \in Remembering, {"dropped", "created"} \subseteq witnessed[q]
          PROVE  AdminOK'
      <4>1. pc'[q] \in Remembering /\ witnessed'[q] = witnessed[q]
        BY <1>1, <2>1, <3>2 DEF TypeOK, Remembering, Listed, Closing
      <4>2. QED
        BY <3>2, <4>1 DEF AdminOK
    <3>3. QED
      BY <3>1, <3>2 DEF IInv, AdminOK
  <2>10. pc'[r] \in Remembering /\ witnessed' = witnessed
    BY <2>1, <2>5 DEF Remembering, Listed, Closing
  <2>11. QED
    BY <2>5, <2>7, <2>8, <2>9, <2>10, StepSafe
<1>5. QED
  BY <1>3, <1>4

\* What is closed has been granted before, unless it is another database by now.
LEMMA CloseOtherStep == ASSUME IInv, NEW r \in Runs, CloseOther(r) PROVE IInv'
<1> PICK d : d = reads[r].next
  OBVIOUS
<1>1. /\ TypeOK /\ RunOK(r) /\ pc[r] = "closeOther" /\ Pending(r) = reads[r].found
      /\ reads[r] \in Reads /\ reads[r].found \subseteq Others
      /\ d \in reads[r].found
      /\ \/ other[d].exists /\ other[d].admin
         \/ "dropped" \in witnessed[r] /\ ~other[d].exists
         \/ {"dropped", "created"} \subseteq witnessed[r]
  BY DEF CloseOther, IInv, Pending, Closing, TypeOK, Reads, RunOK, ClosingOK
<1>2. CASE ~other[d].exists
  <2>1. End(r, "error") /\ "dropped" \in witnessed[r]
    BY <1>1, <1>2 DEF CloseOther
  <2>2. QED
    BY <1>1, <2>1, EndSafe DEF Ended, Concluded, Working, Locked
<1>3. CASE other[d].exists
  <2> PICK next : next = IF reads[r].found = {d} THEN "disconnect" ELSE "grantAdmin"
    OBVIOUS
  <2> PICK left : left = reads[r].found \ {d}
    OBVIOUS
  <2> PICK read : read = [reads[r] EXCEPT !.found = left, !.next = None]
    OBVIOUS
  <2>1. /\ other' = [other EXCEPT ![d].public = FALSE]
        /\ reads' = [reads EXCEPT ![r].found = @ \ {d}, ![r].next = None]
        /\ pc' = [pc EXCEPT ![r] = next] /\ UNCHANGED <<environment, req, changes>>
        /\ UNCHANGED <<role, password, database, schema, advisory, witnessed>>
    BY <1>3 DEF CloseOther, Goto, Quiet, privileges
  <2>2. d \in Others /\ other[d] \in OtherDatabase /\ other \in [Others -> OtherDatabase]
    BY <1>1 DEF TypeOK
  <2>3. /\ other'[d] \in OtherDatabase /\ ~other'[d].public
        /\ other'[d].exists = other[d].exists /\ other'[d].admin = other[d].admin
        /\ \A e \in Others \ {d} : other'[e] = other[e]
    BY <2>1, <2>2 DEF OtherDatabase
  <2>4. read \in Reads /\ read.found = left /\ read.next = None
    BY <1>1 DEF Reads
  <2>5. reads' = [reads EXCEPT ![r] = read]
    BY <1>1, <2>1 DEF TypeOK, Reads
  <2>6. TypeOK' /\ pc'[r] = next /\ reads'[r] = read
    <3>1. other' = [other EXCEPT ![d] = other'[d]]
      BY <1>1, <2>1, <2>2 DEF TypeOK
    <3>2. reads' \in [Runs -> Reads] /\ other' \in [Others -> OtherDatabase]
      BY <1>1, <2>2, <2>3, <2>4, <2>5, <3>1 DEF TypeOK
    <3>3. QED
      BY <1>1, <2>1, <2>5, <3>2 DEF TypeOK, Working, Locked
  <2>7. \A e \in Others : /\ other'[e].exists = other[e].exists
                          /\ other'[e].admin = other[e].admin
                          /\ other'[e].public => other[e].public
    BY <2>2, <2>3
  <2>8. ASSUME NEW q \in Runs \ {r} PROVE Still(q) /\ ServerKept(q)
    <3>1. Still(q)
      BY <1>1, <2>1, <2>5 DEF Still, TypeOK
    <3>2. ServerKept(q)
      <4>1. \A e \in Others :
                /\ other'[e].exists => other[e].exists /\ (other'[e].public => other[e].public)
                /\ other[e].exists => other'[e].exists /\ (other[e].admin => other'[e].admin)
        BY <2>7
      <4>2. role' = role /\ password' = password /\ database' = database /\ schema' = schema
            /\ advisory' = advisory /\ witnessed'[q] = witnessed[q]
        BY <2>1
      <4>3. QED
        BY <4>1, <4>2 DEF ServerKept
    <3>3. QED
      BY <3>1, <3>2
  <2>9. RunOK(r)'
    <3>1. Pending(r)' = left
      BY <2>4, <2>6 DEF Pending, Closing
    <3>2. ClosedOK(r)'
      <4>1. \A e \in Others : other'[e].exists /\ (e \in Pending(r) \/ ~other[e].public) =>
                e \in left \/ ~other'[e].public
        BY <1>1, <2>3, <2>7
      <4>2. QED
        BY <1>1, <2>1, <2>6, <2>7, <3>1, <4>1
        DEF RunOK, ClosedOK, Provisions, Restricted, Known, Created, Secured,
            Connectable, Listed, Granted, Concluded, Closing
    <3>3. ClosingOK(r)'
      BY <1>1, <2>1, <2>6, <2>7, <3>1 DEF RunOK, ClosingOK
    <3>4. PlaceOK(r)' /\ ProgressOK(r)' /\ PasswordOK(r)' /\ EndOK(r)'
      BY <1>1, <2>1, <2>6
      DEF RunOK, PlaceOK, ProgressOK, PasswordOK, EndOK, Provisions, Working, Locked,
          Unlocked, Restricted, Known, Created, Secured, Connectable, Listed, Granted,
          Concluded, Closing
    <3>5. QED
      BY <3>2, <3>3, <3>4 DEF RunOK
  <2>10. pc'[r] \in Remembering /\ witnessed' = witnessed
    BY <2>1, <2>6 DEF Remembering, Listed, Closing
  <2>11. AdminOK'
    <3>1. ASSUME NEW q \in Runs, pc[q] \in Remembering, {"dropped", "created"} \subseteq witnessed[q]
          PROVE  AdminOK'
      <4>1. pc'[q] \in Remembering /\ witnessed'[q] = witnessed[q]
        BY <1>1, <2>1, <2>10, <3>1 DEF TypeOK
      <4>2. QED
        BY <3>1, <4>1 DEF AdminOK
    <3>2. CASE other[d].admin /\ \A e \in Others : other[e].exists => other[e].public \/ other[e].admin
      <4>1. \A e \in Others : other'[e].exists => other'[e].public \/ other'[e].admin
        BY <2>3, <3>2
      <4>2. QED
        BY <4>1 DEF AdminOK
    <3>3. CASE ~other[d].admin
      BY <1>1, <1>3, <3>1, <3>3 DEF Remembering, Listed, Closing
    <3>4. QED
      BY <3>1, <3>2, <3>3 DEF IInv, AdminOK
  <2>12. QED
    BY <2>6, <2>8, <2>9, <2>10, <2>11, StepSafe
<1>4. QED
  BY <1>2, <1>3

-----------------------------------------------------------------------------
(* Statements over the second connection.                                  *)

LEMMA DisconnectStep == ASSUME IInv, NEW r \in Runs, Disconnect(r) PROVE IInv'
<1>1. /\ TypeOK /\ RunOK(r) /\ pc[r] = "disconnect" /\ Disconnected(r)
      /\ pc' = [pc EXCEPT ![r] = "readSchema"] /\ UNCHANGED <<environment, reads, req, changes>>
      /\ UNCHANGED <<role, password, database, schema, other, witnessed>>
  BY DEF Disconnect, IInv, Goto, Quiet, server, privileges
<1>2. TypeOK' /\ pc'[r] = "readSchema"
  BY <1>1 DEF TypeOK, Working, Unlocked, Disconnected
<1>3. \A q \in Runs \ {r} : Still(q) /\ ServerKept(q)
  BY <1>1, Untouched DEF Still, TypeOK, Disconnected
<1>4. RunOK(r)'
  BY <1>1, <1>2
  DEF RunOK, PlaceOK, ProgressOK, PasswordOK, ClosedOK, ClosingOK, EndOK, Pending,
      Provisions, Working, Locked, Unlocked, Restricted, Known, Created, Secured,
      Connectable, Listed, Granted, Concluded, Closing
<1>5. pc'[r] \in Remembering /\ witnessed' = witnessed
  BY <1>1, <1>2
  DEF Remembering, Restricted, Known, Created, Secured, Connectable, Listed, Granted,
      Concluded, Closing
<1>6. QED
  BY <1>1, <1>2, <1>3, <1>4, <1>5, StepSafe

\* A privilege on the schema is written, and overlapping statements fail.
LEMMA WriteSchemaSafe ==
    ASSUME IInv, NEW r \in Runs, NEW privilege \in Schema, NEW next \in Granted,
           WriteSchema(r, privilege, next), pc[r] \in {"closeSchema", "grantSchema"},
           ~schema.public => ~privilege.public, schema.granted => privilege.granted,
           RunOK(r)'
    PROVE  IInv'
<1>1. /\ TypeOK /\ schema' = privilege /\ pc' = [pc EXCEPT ![r] = next]
      /\ reads' = [q \in Runs |-> IF q # r /\ pc[q] \in {"closeSchema", "grantSchema"}
                                     THEN [reads[q] EXCEPT !.stale = TRUE] ELSE reads[q]]
      /\ UNCHANGED <<environment, req, changes>>
      /\ UNCHANGED <<role, password, database, other, advisory, witnessed>>
  BY DEF WriteSchema, Goto, Quiet, IInv
<1>2. \A q \in Runs : /\ reads'[q] \in Reads /\ reads'[q].found = reads[q].found
                      /\ reads'[q].next = reads[q].next
                      /\ reads[q].stale => reads'[q].stale
  <2> TAKE q \in Runs
  <2>1. reads[q] \in Reads
    BY <1>1 DEF TypeOK
  <2>2. CASE reads'[q] = reads[q]
    BY <2>1, <2>2
  <2>3. CASE reads'[q] = [reads[q] EXCEPT !.stale = TRUE]
    BY <2>1, <2>3 DEF Reads
  <2>4. QED
    BY <1>1, <2>2, <2>3
<1>3. TypeOK'
  <2>1. reads' \in [Runs -> Reads]
    BY <1>1, <1>2
  <2>2. QED
    BY <1>1, <2>1 DEF TypeOK, Working, Unlocked, Ended, Granted, Concluded
<1>4. ASSUME NEW q \in Runs \ {r} PROVE Still(q) /\ ServerKept(q)
  <2>1. Still(q)
    BY <1>1, <1>2 DEF Still, TypeOK
  <2>2. role' = role /\ password' = password /\ database' = database /\ other' = other
        /\ advisory' = advisory /\ witnessed'[q] = witnessed[q]
    BY <1>1
  <2>3. ServerKept(q)
    BY <1>1, <2>2 DEF ServerKept
  <2>4. QED
    BY <2>1, <2>3
<1>5. pc'[r] \in Remembering /\ witnessed' = witnessed
  BY <1>1 DEF TypeOK, Remembering, Listed
<1>6. QED
  BY <1>1, <1>3, <1>4, <1>5, StepSafe

LEMMA CloseSchemaStep == ASSUME IInv, NEW r \in Runs, CloseSchema(r) PROVE IInv'
<1>1. /\ TypeOK /\ RunOK(r) /\ pc[r] = "closeSchema" /\ schema \in Schema
  BY DEF CloseSchema, IInv, TypeOK
<1>2. CASE reads[r].stale /\ End(r, "error")
  BY <1>1, <1>2, EndSafe DEF Ended, Concluded, Working, Unlocked
<1>3. CASE WriteSchema(r, [schema EXCEPT !.public = FALSE], "rereadSchema")
  <2> PICK privilege : privilege = [schema EXCEPT !.public = FALSE]
    OBVIOUS
  <2>1. privilege \in Schema /\ ~privilege.public /\ privilege.granted = schema.granted
    BY <1>1 DEF Schema
  <2>2. /\ pc'[r] = "rereadSchema" /\ schema' = privilege
        /\ UNCHANGED <<req, role, password, database, other, advisory, witnessed>>
    BY <1>1, <1>3 DEF WriteSchema, Goto, Quiet, TypeOK
  <2>3. RunOK(r)'
    BY <1>1, <2>1, <2>2
    DEF RunOK, PlaceOK, ProgressOK, PasswordOK, ClosedOK, ClosingOK, EndOK, Pending,
        Provisions, Working, Locked, Unlocked, Restricted, Known, Created, Secured,
        Connectable, Listed, Granted, Concluded, Closing
  <2>4. QED
    BY <1>1, <1>3, <2>1, <2>3, WriteSchemaSafe DEF Granted
<1>4. QED
  BY <1>2, <1>3 DEF CloseSchema

LEMMA GrantSchemaStep == ASSUME IInv, NEW r \in Runs, GrantSchema(r) PROVE IInv'
<1>1. /\ TypeOK /\ RunOK(r) /\ pc[r] = "grantSchema" /\ schema \in Schema
  BY DEF GrantSchema, IInv, TypeOK
<1>2. CASE reads[r].stale /\ End(r, "error")
  BY <1>1, <1>2, EndSafe DEF Ended, Concluded, Working, Unlocked
<1>3. ASSUME NEW next \in {"done", "verifyVersion"},
             WriteSchema(r, [schema EXCEPT !.granted = TRUE], next)
      PROVE  IInv'
  <2> PICK privilege : privilege = [schema EXCEPT !.granted = TRUE]
    OBVIOUS
  <2>1. privilege \in Schema /\ privilege.granted /\ privilege.public = schema.public
    BY <1>1 DEF Schema
  <2>2. /\ pc'[r] = next /\ schema' = privilege
        /\ UNCHANGED <<req, role, password, database, other, advisory, witnessed>>
    BY <1>1, <1>3 DEF WriteSchema, Goto, Quiet, TypeOK
  <2>3. RunOK(r)'
    BY <1>1, <2>1, <2>2
    DEF RunOK, PlaceOK, ProgressOK, PasswordOK, ClosedOK, ClosingOK, EndOK, Pending,
        Provisions, Working, Locked, Unlocked, Restricted, Known, Created, Secured,
        Connectable, Listed, Granted, Concluded, Closing
  <2>4. QED
    BY <1>1, <1>3, <2>1, <2>3, WriteSchemaSafe DEF Granted, Concluded
<1>4. QED
  BY <1>2, <1>3 DEF GrantSchema

-----------------------------------------------------------------------------
(* Runs start, and other databases come and go.                            *)

LEMMA StartStep ==
    ASSUME IInv, NEW r \in Runs, NEW command \in Commands, Start(r, command) PROVE IInv'
<1> PICK first : first = IF command.op = "verify" THEN "verifyVersion" ELSE "version"
  OBVIOUS
<1>1. /\ TypeOK /\ pc[r] = "idle" /\ req' = [req EXCEPT ![r] = command]
      /\ pc' = [pc EXCEPT ![r] = first] /\ UNCHANGED <<environment, reads, changes, advisory>>
      /\ UNCHANGED <<role, password, database, schema, other, witnessed>>
  BY DEF Start, IInv, Goto, server, privileges
<1>2. command \in Request /\ command.op \in {"setup", "provision", "verify"}
  BY DEF Commands
<1>3. TypeOK' /\ pc'[r] = first /\ req'[r] = command
  BY <1>1, <1>2 DEF TypeOK, Working, Unlocked
<1>4. \A q \in Runs \ {r} : Still(q) /\ ServerKept(q)
  BY <1>1, Untouched DEF Still, TypeOK
<1>5. RunOK(r)'
  BY <1>2, <1>3
  DEF RunOK, PlaceOK, ProgressOK, PasswordOK, ClosedOK, ClosingOK, EndOK, Pending,
      Provisions, Working, Locked, Unlocked, Restricted, Known, Created, Secured,
      Connectable, Listed, Granted, Concluded, Closing
<1>6. pc[r] \notin Remembering
  BY <1>1
  DEF Remembering, Ended, Restricted, Known, Created, Secured, Connectable, Listed,
      Granted, Concluded, Closing
<1>7. QED
  BY <1>1, <1>3, <1>4, <1>5, <1>6, StepSafe

\* Every run under way witnesses that a database is created or dropped.
LEMMA ChangeSafe ==
    ASSUME IInv, NEW d \in Others, NEW row \in {NewDatabase, NoDatabase},
           NEW fact \in {"created", "dropped"}, ChangeOther(d, row, fact),
           row.exists <=> fact = "created", fact = "created" => ~other[d].exists
    PROVE  IInv'
<1>1. /\ TypeOK /\ changes < MaxChanges /\ changes' = changes + 1
      /\ other' = [other EXCEPT ![d] = row]
      /\ witnessed' = [r \in Runs |-> Seen(r, fact)]
      /\ UNCHANGED <<role, password, database, schema, advisory, pc, req, reads, environment>>
  BY DEF ChangeOther, IInv, privileges
<1>2. row \in OtherDatabase /\ (row.exists => row.public)
  <2>1. CASE row = NewDatabase
    BY <2>1 DEF NewDatabase, OtherDatabase
  <2>2. CASE row = NoDatabase
    BY <2>2 DEF NoDatabase, OtherDatabase
  <2>3. QED
    BY <2>1, <2>2
<1>3. /\ other'[d] = row /\ \A e \in Others \ {d} : other'[e] = other[e]
      /\ other' \in [Others -> OtherDatabase]
  BY <1>1, <1>2 DEF TypeOK
<1>4. \A r \in Runs : pc[r] # "idle" => witnessed'[r] = witnessed[r] \cup {fact}
  BY <1>1 DEF Seen
<1>5. TypeOK'
  <2>1. \A r \in Runs : Seen(r, fact) \in SUBSET Facts
    BY <1>1 DEF Seen, TypeOK, Facts
  <2>2. witnessed' \in [Runs -> SUBSET Facts]
    BY <1>1, <2>1
  <2>3. changes' \in 0..MaxChanges
    BY <1>1, BoundsAssumption DEF TypeOK
  <2>4. QED
    BY <1>1, <1>3, <2>2, <2>3 DEF TypeOK
<1>6. ASSUME NEW q \in Runs, pc[q] # "idle" PROVE ServerKept(q)
  <2>1. fact \in witnessed'[q] /\ witnessed[q] \subseteq witnessed'[q]
    BY <1>4, <1>6
  <2>2. ASSUME NEW e \in Others
        PROVE  /\ \/ other'[e].exists => other[e].exists /\ (other'[e].public => other[e].public)
                  \/ "created" \in witnessed'[q]
               /\ other[e].exists =>
                     \/ other'[e].exists /\ (other[e].admin => other'[e].admin)
                     \/ ~other'[e].exists /\ "dropped" \in witnessed'[q]
    <3>1. CASE e # d
      BY <1>3, <3>1
    <3>2. CASE e = d /\ fact = "dropped"
      BY <1>3, <2>1, <3>2
    <3>3. CASE e = d /\ fact = "created"
      BY <1>3, <2>1, <3>3
    <3>4. QED
      BY <3>1, <3>2, <3>3
  <2>3. role' = role /\ password' = password /\ database' = database /\ schema' = schema
        /\ advisory' = advisory
    BY <1>1
  <2>4. QED
    BY <2>1, <2>2, <2>3 DEF ServerKept
<1>7. \A q \in Runs : RunOK(q)'
  BY <1>1, <1>6, Kept DEF IInv, Still
<1>8. AdminOK'
  <2>1. CASE \A e \in Others : other[e].exists => other[e].public \/ other[e].admin
    <3>1. \A e \in Others : other'[e].exists => other'[e].public \/ other'[e].admin
      BY <1>2, <1>3, <2>1
    <3>2. QED
      BY <3>1 DEF AdminOK
  <2>2. ASSUME NEW q \in Runs, pc[q] \in Remembering, {"dropped", "created"} \subseteq witnessed[q]
        PROVE  AdminOK'
    <3>1. pc[q] # "idle"
      BY <2>2
      DEF Remembering, Ended, Restricted, Known, Created, Secured, Connectable, Listed,
          Granted, Concluded, Closing
    <3>2. pc'[q] = pc[q] /\ witnessed[q] \subseteq witnessed'[q]
      BY <1>1, <1>4, <3>1
    <3>3. QED
      BY <2>2, <3>2 DEF AdminOK
  <2>3. QED
    BY <2>1, <2>2 DEF IInv, AdminOK
<1>9. QED
  BY <1>5, <1>7, <1>8 DEF IInv

LEMMA Stutter == ASSUME IInv, UNCHANGED vars PROVE IInv'
<1>1. /\ UNCHANGED <<role, password, database, schema, other, advisory, pc, req, reads, witnessed>>
      /\ UNCHANGED <<environment, changes>> /\ TypeOK
  BY DEF vars, server, privileges, IInv
<1>2. TypeOK' /\ AdminOK'
  BY <1>1 DEF IInv, TypeOK, AdminOK
<1>3. \A q \in Runs : RunOK(q)'
  BY <1>1, Untouched, Kept DEF IInv, Still
<1>4. QED
  BY <1>2, <1>3 DEF IInv

-----------------------------------------------------------------------------
LEMMA StepIInv == ASSUME IInv, [Next]_vars PROVE IInv'
<1>1. ASSUME NEW r \in Runs, Statement(r) PROVE IInv'
  BY <1>1, RequireVersionStep, TakeLockStep, FindUnexpectedStep, FindRoleStep, CreateRoleStep,
     ConfineStep, SetPasswordStep, FindDatabaseStep, CreateDatabaseStep, CloseDatabaseStep,
     GrantConnectStep, ListOthersStep, GrantAdminStep, CloseOtherStep, DisconnectStep,
     ReadSchemaStep, CloseSchemaStep, GrantSchemaStep, ConnectStep, InspectStep
  DEF Statement
<1>2. ASSUME NEW d \in Others, CreateOther(d) \/ DropOther(d) PROVE IInv'
  BY <1>2, ChangeSafe DEF CreateOther, DropOther, NewDatabase, NoDatabase
<1>3. QED
  BY <1>1, <1>2, CrashStep, StartStep, Stutter DEF Next, Quiescent

LEMMA Invariance == Spec => []IInv
<1>1. Init => IInv
  BY InitIInv
<1>2. IInv /\ [Next]_vars => IInv'
  BY StepIInv
<1>3. QED
  BY <1>1, <1>2, PTL DEF Spec

\* The server, the runs and what they have read keep their shape.
THEOREM TypeCorrect == Spec => []TypeOK
<1>1. IInv => TypeOK
  BY DEF IInv
<1>2. QED
  BY <1>1, Invariance, PTL

\* For any number of runs of provision_database in any interleaving, dying anywhere:
\* what a run that completes has left is never taken away.
THEOREM LastingSuccess == Spec => []SuccessIsLasting
<1>1. IInv => SuccessIsLasting
  <2> SUFFICES ASSUME IInv, NEW r \in Runs, HasProvisioned(r)
               PROVE  /\ Provisioned
                      /\ req[r].dedicated /\ "created" \notin witnessed[r] =>
                            \A d \in Existing : ~other[d].public
    BY DEF SuccessIsLasting
  <2>1. Provisions(r) /\ pc[r] \in Concluded /\ RunOK(r)
    BY DEF HasProvisioned, Provisions, Concluded, IInv
  <2>2. Provisioned
    BY <2>1
    DEF RunOK, ProgressOK, Provisioned, Restricted, Known, Created, Secured, Connectable,
        Listed, Granted, Concluded, Closing
  <2>3. Pending(r) = {} /\ pc[r] \in Listed
    BY <2>1 DEF Pending, Closing, Concluded, Listed, Granted
  <2>4. QED
    BY <2>1, <2>2, <2>3 DEF RunOK, ClosedOK, Existing
<1>2. QED
  BY <1>1, Invariance, PTL

\* For any number of runs, lists and databases: the provisioning role can always
\* connect everywhere, unless a database is replaced between two statements.
THEOREM AdminConnects == Spec => []AdminKeepsConnect
<1>1. IInv => AdminKeepsConnect
  BY DEF IInv, AdminOK, AdminKeepsConnect, Existing
<1>2. QED
  BY <1>1, Invariance, PTL

\* For any number of runs: a statement fails because the URL has a password or for
\* what others do; no check under the advisory lock is stale when it is used.
THEOREM ErrorsExplained == Spec => []ErrorsAreExplained
<1>1. IInv => ErrorsAreExplained
  BY DEF IInv, RunOK, EndOK, ErrorsAreExplained
<1>2. QED
  BY <1>1, Invariance, PTL

\* For any number of runs: what the tool has provisioned it can always connect to,
\* and refuses only for what somebody else has done; over a URL with a password
\* it never comes that far.
THEOREM RefusalsExplained == Spec => []RefusalsAreExplained
<1>1. IInv => RefusalsAreExplained
  BY DEF IInv, RunOK, PasswordOK, EndOK, RefusalsAreExplained, Provisions, Known, Created,
         Secured, Connectable, Listed, Granted, Concluded
<1>2. QED
  BY <1>1, Invariance, PTL

-----------------------------------------------------------------------------
(* Progress.  That runs end rests on two facts: nothing can keep a run busy *)
(* for ever, and runs never all wait.                                       *)

\* Statements a run has ahead of it, the one it executes next included, at most,
\* when it has so many databases to close.
AheadAt(statement, found) ==
    CASE statement = "inspect" -> 1
      [] statement = "verifyVersion" -> 2
      [] statement = "grantSchema" -> 3
      [] statement = "rereadSchema" -> 4
      [] statement = "closeSchema" -> 5
      [] statement = "readSchema" -> 6
      [] statement = "disconnect" -> 7
      [] statement = "closeOther" -> 2 * found + 6
      [] statement = "grantAdmin" -> 2 * found + 7
      [] statement = "list" -> 2 * Cardinality(Others) + 8
      [] statement = "grantConnect" -> 2 * Cardinality(Others) + 9
      [] statement = "closeDatabase" -> 2 * Cardinality(Others) + 10
      [] statement = "createDatabase" -> 2 * Cardinality(Others) + 11
      [] statement = "findDatabase" -> 2 * Cardinality(Others) + 12
      [] statement = "setPassword" -> 2 * Cardinality(Others) + 13
      [] statement = "confine" -> 2 * Cardinality(Others) + 14
      [] statement = "createRole" -> 2 * Cardinality(Others) + 15
      [] statement = "findRole" -> 2 * Cardinality(Others) + 16
      [] statement = "others" -> 2 * Cardinality(Others) + 17
      [] statement = "lock" -> 2 * Cardinality(Others) + 18
      [] statement = "version" -> 2 * Cardinality(Others) + 19
      [] OTHER -> 0

Ahead(r) == AheadAt(pc[r], Cardinality(reads[r].found))

\* Every statement brings its run closer to an end, and nothing that others do
\* takes a run further from it or revives one that has ended: a run has no more
\* than nineteen statements and two for each other database of the server.
StatementsRunOut ==
    [][\A r \in Runs :
          /\ Statement(r) \/ Crash(r) => Ahead(r)' < Ahead(r)
          /\ pc[r] # "idle" => Ahead(r)' < Ahead(r) \/ (pc'[r] = pc[r] /\ Ahead(r)' = Ahead(r))
          /\ pc[r] \in Ended => pc'[r] = pc[r]]_vars

\* From one statement to the next, the loop over the other databases apart.
GoesOn(a, b) ==
    \/ a = "version" /\ b = "lock"
    \/ a = "lock" /\ b \in {"others", "findRole"}
    \/ a = "others" /\ b = "findRole"
    \/ a = "findRole" /\ b \in {"createRole", "confine"}
    \/ a = "createRole" /\ b = "confine"
    \/ a = "confine" /\ b \in {"setPassword", "findDatabase"}
    \/ a = "findDatabase" /\ b \in {"createDatabase", "closeDatabase"}
    \/ a = "createDatabase" /\ b = "closeDatabase"
    \/ a = "closeDatabase" /\ b = "grantConnect"
    \/ a = "grantConnect" /\ b \in {"list", "disconnect"}
    \/ a = "list" /\ b = "disconnect"
    \/ a = "disconnect" /\ b = "readSchema"
    \/ a = "readSchema" /\ b = "closeSchema"
    \/ a = "closeSchema" /\ b = "rereadSchema"
    \/ a = "rereadSchema" /\ b = "grantSchema"
    \/ a = "grantSchema" /\ b = "verifyVersion"
    \/ a = "verifyVersion" /\ b = "inspect"

\* The loop: GRANT and REVOKE for each database that was listed.
EntersLoop(r) ==
    /\ pc[r] = "list" /\ pc'[r] = "grantAdmin"
    /\ reads'[r].found = Existing /\ Existing # {}

GrantsOne(r) ==
    pc[r] = "grantAdmin" /\ pc'[r] = "closeOther" /\ reads'[r].found = reads[r].found

ClosesOne(r) ==
    /\ pc[r] = "closeOther"
    /\ reads'[r].found = reads[r].found \ {reads[r].next}
    /\ pc'[r] = IF reads'[r].found = {} THEN "disconnect" ELSE "grantAdmin"

\* What a statement does to its run, and to the lock.
LEMMA StatementEffect ==
    ASSUME IInv, NEW r \in Runs, Statement(r) \/ Crash(r)
    PROVE  /\ pc[r] \in Working
           /\ \A q \in Runs \ {r} : pc'[q] = pc[q] /\ reads'[q].found = reads[q].found
           /\ \/ pc'[r] \in Ended /\ Disconnected(r)
              \/ /\ GoesOn(pc[r], pc'[r]) \/ EntersLoop(r) \/ GrantsOne(r) \/ ClosesOne(r)
                 /\ \/ pc[r] = "lock" /\ advisory' = r
                    \/ pc[r] = "disconnect" /\ Disconnected(r)
                    \/ pc[r] \notin {"lock", "disconnect"} /\ advisory' = advisory
              \/ pc[r] = "grantSchema" /\ pc'[r] = "done" /\ advisory' = advisory
<1> DEFINE Moved == GoesOn(pc[r], pc'[r]) \/ EntersLoop(r) \/ GrantsOne(r) \/ ClosesOne(r)
           Effect ==
      /\ pc[r] \in Working
      /\ \A q \in Runs \ {r} : pc'[q] = pc[q] /\ reads'[q].found = reads[q].found
      /\ \/ pc'[r] \in Ended /\ Disconnected(r)
         \/ /\ Moved
            /\ \/ pc[r] = "lock" /\ advisory' = r
               \/ pc[r] = "disconnect" /\ Disconnected(r)
               \/ pc[r] \notin {"lock", "disconnect"} /\ advisory' = advisory
         \/ pc[r] = "grantSchema" /\ pc'[r] = "done" /\ advisory' = advisory
<1>1. /\ pc \in [Runs -> {"idle"} \cup Working \cup Ended]
      /\ reads \in [Runs -> Reads]
  BY DEF IInv, TypeOK
<1>2. ASSUME NEW how \in Ended, End(r, how), pc[r] \in Working PROVE Effect
  BY <1>1, <1>2 DEF End, Goto
<1>3. ASSUME NEW next, Goto(r, next), GoesOn(pc[r], next),
             \A q \in Runs \ {r} : reads'[q] = reads[q],
             advisory' = advisory, pc[r] \notin {"lock", "disconnect"}
      PROVE  Effect
  <2>1. pc'[r] = next /\ \A q \in Runs \ {r} : pc'[q] = pc[q]
    BY <1>1, <1>3 DEF Goto
  <2>2. pc[r] \in Working
    BY <1>3 DEF GoesOn, Working, Locked, Unlocked
  <2>3. QED
    BY <1>3, <2>1, <2>2
<1>4. ASSUME NEW next, NEW read, Continue(r, next, read), GoesOn(pc[r], next),
             pc[r] \notin {"lock", "disconnect"}
      PROVE  Effect
  BY <1>1, <1>3, <1>4 DEF Continue
<1>5. ASSUME NEW next, Privilege(r, next), GoesOn(pc[r], next),
             pc[r] \notin {"lock", "disconnect"}
      PROVE  Effect
  BY <1>3, <1>5 DEF Privilege
<1> HIDE DEF Effect
<1>6. ASSUME RequireVersion(r) PROVE Effect
  BY <1>2, <1>4, <1>6 DEF RequireVersion, Working, Unlocked, Ended, GoesOn
<1>7. ASSUME TakeLock(r) PROVE Effect
  <2>1. PICK next \in {"others", "findRole"} : Goto(r, next)
    BY <1>7 DEF TakeLock
  <2>2. pc[r] = "lock" /\ advisory' = r /\ reads' = reads
    BY <1>7 DEF TakeLock
  <2>3. QED
    BY <1>1, <2>1, <2>2 DEF Goto, GoesOn, Working, Unlocked, Effect
<1>8. ASSUME FindUnexpected(r) \/ FindRole(r) PROVE Effect
  BY <1>2, <1>4, <1>8 DEF FindUnexpected, FindRole, Working, Locked, Ended, GoesOn
<1>9. ASSUME CreateRole(r) PROVE Effect
  BY <1>2, <1>5, <1>9 DEF CreateRole, Working, Locked, Ended, GoesOn
<1>10. ASSUME Confine(r) \/ SetPassword(r) \/ CloseDatabase(r) PROVE Effect
  <2>1. CASE SetPassword(r)
    BY <1>2, <2>1 DEF SetPassword, Working, Locked, Ended
  <2>2. CASE Confine(r) \/ CloseDatabase(r)
    BY <1>5, <2>2 DEF Confine, CloseDatabase, GoesOn
  <2>3. QED
    BY <1>10, <2>1, <2>2
<1>11. ASSUME FindDatabase(r) PROVE Effect
  BY <1>4, <1>11 DEF FindDatabase, GoesOn
<1>12. ASSUME CreateDatabase(r) PROVE Effect
  BY <1>2, <1>5, <1>12 DEF CreateDatabase, Working, Locked, Ended, GoesOn
<1>13. ASSUME GrantConnect(r) PROVE Effect
  BY <1>5, <1>13 DEF GrantConnect, GoesOn
<1>14. ASSUME ListOthers(r) PROVE Effect
  <2>1. /\ pc[r] = "list" /\ reads' = [reads EXCEPT ![r].found = Existing]
        /\ Goto(r, IF Existing = {} THEN "disconnect" ELSE "grantAdmin")
        /\ advisory' = advisory
    BY <1>14 DEF ListOthers
  <2>2. reads'[r].found = Existing /\ \A q \in Runs \ {r} : reads'[q] = reads[q]
    BY <1>1, <2>1 DEF Reads
  <2>3. CASE Existing = {}
    BY <1>3, <2>1, <2>2, <2>3 DEF GoesOn
  <2>4. CASE Existing # {}
    BY <1>1, <2>1, <2>2, <2>4 DEF Goto, EntersLoop, Working, Locked, Effect
  <2>5. QED
    BY <2>3, <2>4
<1>15. ASSUME GrantAdmin(r) PROVE Effect
  <2>1. pc[r] = "grantAdmin"
    BY <1>15 DEF GrantAdmin
  <2>2. CASE End(r, "error")
    BY <1>2, <2>1, <2>2 DEF Working, Locked, Ended
  <2>3. CASE ~End(r, "error")
    <3>1. PICK d : reads' = [reads EXCEPT ![r].next = d]
      BY <1>15, <2>3 DEF GrantAdmin
    <3>2. Goto(r, "closeOther") /\ advisory' = advisory
      BY <1>15, <2>3 DEF GrantAdmin
    <3>3. \A q \in Runs : reads'[q].found = reads[q].found
      BY <1>1, <3>1 DEF Reads
    <3>4. QED
      BY <1>1, <2>1, <3>2, <3>3 DEF Goto, GrantsOne, Working, Locked, Effect
  <2>4. QED
    BY <2>2, <2>3
<1>16. ASSUME CloseOther(r) PROVE Effect
  <2>1. pc[r] = "closeOther" /\ reads[r].next \in reads[r].found
    BY <1>16 DEF CloseOther, IInv, RunOK, ClosingOK
  <2>2. CASE End(r, "error")
    BY <1>2, <2>1, <2>2 DEF Working, Locked, Ended
  <2>3. CASE ~End(r, "error")
    <3> DEFINE d == reads[r].next
    <3>1. /\ reads' = [reads EXCEPT ![r].found = @ \ {d}, ![r].next = None]
          /\ Goto(r, IF reads[r].found = {d} THEN "disconnect" ELSE "grantAdmin")
          /\ advisory' = advisory
      BY <1>16, <2>3 DEF CloseOther
    <3>2. /\ reads'[r].found = reads[r].found \ {d}
          /\ \A q \in Runs \ {r} : reads'[q].found = reads[q].found
      BY <1>1, <3>1 DEF Reads
    <3>3. reads'[r].found = {} <=> reads[r].found = {d}
      BY <2>1, <3>2
    <3>4. QED
      BY <1>1, <2>1, <3>1, <3>2, <3>3 DEF Goto, ClosesOne, Working, Locked, Effect
  <2>4. QED
    BY <2>2, <2>3
<1>17. ASSUME Disconnect(r) PROVE Effect
  BY <1>1, <1>17 DEF Disconnect, Goto, GoesOn, Working, Locked, Effect
<1>18. ASSUME ReadSchema(r) PROVE Effect
  BY <1>4, <1>18 DEF ReadSchema, GoesOn
<1>19. ASSUME NEW privilege, NEW next, WriteSchema(r, privilege, next),
              GoesOn(pc[r], next) \/ (pc[r] = "grantSchema" /\ next = "done"),
              pc[r] \in {"closeSchema", "grantSchema"}
       PROVE  Effect
  <2>1. Goto(r, next) /\ advisory' = advisory
    BY <1>19 DEF WriteSchema
  <2>2. \A q \in Runs : reads'[q].found = reads[q].found
    BY <1>1, <1>19 DEF WriteSchema, Reads
  <2>3. pc'[r] = next /\ \A q \in Runs \ {r} : pc'[q] = pc[q]
    BY <1>1, <2>1 DEF Goto
  <2>4. QED
    BY <1>19, <2>1, <2>2, <2>3 DEF Working, Unlocked, Effect
<1>20. ASSUME CloseSchema(r) PROVE Effect
  BY <1>2, <1>19, <1>20 DEF CloseSchema, Working, Unlocked, Ended, GoesOn
<1>21. ASSUME GrantSchema(r) PROVE Effect
  BY <1>2, <1>19, <1>21 DEF GrantSchema, Working, Unlocked, Ended, GoesOn
<1>22. ASSUME ConnectAsApplication(r) PROVE Effect
  BY <1>2, <1>4, <1>22 DEF ConnectAsApplication, Working, Unlocked, Ended, GoesOn
<1>23. ASSUME Inspect(r) PROVE Effect
  BY <1>2, <1>23 DEF Inspect, Working, Unlocked, Ended
<1>24. ASSUME Crash(r) PROVE Effect
  BY <1>2, <1>24 DEF Crash, Ended
<1>25. Effect
  BY <1>6, <1>7, <1>8, <1>9, <1>10, <1>11, <1>12, <1>13, <1>14, <1>15, <1>16, <1>17, <1>18,
     <1>20, <1>21, <1>22, <1>23, <1>24 DEF Statement
<1>26. QED
  BY <1>25 DEF Effect

\* A holder of the lock is on its way to the end of its connection, and a run
\* that is to close databases has some to close.
LoopOK(r) ==
    /\ pc[r] \in Closing => reads[r].found # {}
    /\ advisory = r => pc[r] \in Locked

LoopInv == \A r \in Runs : LoopOK(r)

LEMMA InitLoop == Init => LoopInv
BY NoneAssumption DEF Init, LoopInv, LoopOK, Closing

LEMMA StepLoop == IInv /\ LoopInv /\ [Next]_vars => LoopInv'
<1> SUFFICES ASSUME IInv, LoopInv, [Next]_vars, NEW q \in Runs
             PROVE  LoopOK(q)'
  BY DEF LoopInv
<1>0. /\ LoopOK(q) /\ advisory \in Runs \cup {None} /\ pc \in [Runs -> {"idle"} \cup Working \cup Ended]
      /\ pc[q] \in Closing => Provisions(q)
  BY DEF LoopInv, IInv, TypeOK, RunOK, PlaceOK, Closing, Working, Locked
<1>1. ASSUME NEW r \in Runs, Statement(r) \/ Crash(r) PROVE LoopOK(q)'
  <2>1. /\ pc[r] \in Working
        /\ q # r => pc'[q] = pc[q] /\ reads'[q].found = reads[q].found
    BY <1>1, StatementEffect
  <2>2. CASE q # r
    <3>1. advisory' = q => advisory = q
      BY <1>1, <2>2, StatementEffect, NoneAssumption DEF Disconnected
    <3>2. QED
      BY <1>0, <2>1, <2>2, <3>1 DEF LoopOK
  <2>3. CASE q = r
    <3>1. CASE pc'[r] \in Ended /\ Disconnected(r)
      BY <2>3, <3>1, NoneAssumption DEF Disconnected, LoopOK, Ended, Closing
    <3>2. CASE pc[r] = "grantSchema" /\ pc'[r] = "done" /\ advisory' = advisory
      BY <1>0, <2>3, <3>2 DEF LoopOK, Locked, Closing
    <3>3. CASE /\ GoesOn(pc[r], pc'[r]) \/ EntersLoop(r) \/ GrantsOne(r) \/ ClosesOne(r)
               /\ \/ pc[r] = "lock" /\ advisory' = r
                  \/ pc[r] = "disconnect" /\ Disconnected(r)
                  \/ pc[r] \notin {"lock", "disconnect"} /\ advisory' = advisory
      <4>1. pc'[r] \in Closing => reads'[r].found # {}
        BY <1>0, <2>3, <3>3 DEF LoopOK, GoesOn, EntersLoop, GrantsOne, ClosesOne, Closing
      <4>2. CASE pc[r] = "disconnect"
        BY <2>3, <3>3, <4>1, <4>2, NoneAssumption DEF Disconnected, LoopOK
      <4>3. CASE pc[r] # "disconnect"
        <5>1. pc[r] \in Locked \/ pc[r] = "lock" => pc'[r] \in Locked
          BY <3>3, <4>3 DEF GoesOn, EntersLoop, GrantsOne, ClosesOne, Locked
        <5>2. QED
          BY <1>0, <2>3, <3>3, <4>1, <4>3, <5>1 DEF LoopOK
      <4>4. QED
        BY <4>2, <4>3
    <3>4. QED
      BY <1>1, <3>1, <3>2, <3>3, StatementEffect
  <2>4. QED
    BY <2>2, <2>3
<1>2. ASSUME NEW r \in Runs, NEW command, Start(r, command) PROVE LoopOK(q)'
  <2>1. pc[r] = "idle" /\ UNCHANGED <<advisory, reads>>
    BY <1>2 DEF Start
  <2>2. pc'[r] \in {"verifyVersion", "version"} /\ \A p \in Runs \ {r} : pc'[p] = pc[p]
    BY <1>0, <1>2 DEF Start, Goto
  <2>3. QED
    BY <1>0, <2>1, <2>2 DEF LoopOK, Closing, Locked
<1>3. CASE (\E d \in Others : CreateOther(d) \/ DropOther(d)) \/ Quiescent \/ UNCHANGED vars
  BY <1>0, <1>3 DEF CreateOther, DropOther, ChangeOther, Quiescent, vars, LoopOK
<1>4. QED
  BY <1>1, <1>2, <1>3 DEF Next

LEMMA FoundFinite ==
    ASSUME IInv, NEW r \in Runs
    PROVE  /\ IsFiniteSet(reads[r].found) /\ Cardinality(reads[r].found) \in Nat
           /\ Cardinality(Others) \in Nat
           /\ IsFiniteSet(Existing) /\ Cardinality(Existing) <= Cardinality(Others)
           /\ Cardinality(Existing) \in Nat
<1>1. reads[r].found \subseteq Others /\ Existing \subseteq Others
  BY DEF IInv, TypeOK, Reads, Existing
<1>2. QED
  BY <1>1, OthersAssumption, FS_Subset, FS_CardinalityType

LEMMA StatementDescends ==
    ASSUME IInv, LoopInv, NEW r \in Runs, Statement(r) \/ Crash(r)
    PROVE  Ahead(r)' < Ahead(r)
<1> DEFINE k == Cardinality(reads[r].found)
<1>1. k \in Nat /\ Cardinality(Others) \in Nat
  BY FoundFinite
<1>2. CASE pc'[r] \in Ended
  <2>1. Ahead(r)' = 0
    BY <1>2 DEF Ahead, AheadAt, Ended
  <2>2. pc[r] \in Working
    BY StatementEffect
  <2>3. Ahead(r) > 0
    BY <1>1, <2>2 DEF Ahead, AheadAt, Working, Locked, Unlocked
  <2>4. QED
    BY <2>1, <2>3
<1>3. CASE GoesOn(pc[r], pc'[r])
  BY <1>1, <1>3 DEF GoesOn, Ahead, AheadAt
<1>4. CASE EntersLoop(r)
  <2>1. Ahead(r) = 2 * Cardinality(Others) + 8
    BY <1>4 DEF EntersLoop, Ahead, AheadAt
  <2>2. Ahead(r)' = 2 * Cardinality(Existing) + 7
    BY <1>4 DEF EntersLoop, Ahead, AheadAt
  <2>3. QED
    BY <1>1, <2>1, <2>2, FoundFinite
<1>5. CASE GrantsOne(r)
  BY <1>1, <1>5 DEF GrantsOne, Ahead, AheadAt
<1>6. CASE ClosesOne(r)
  <2>1. reads[r].next \in reads[r].found
    BY <1>6 DEF ClosesOne, IInv, RunOK, ClosingOK
  <2>2. Cardinality(reads'[r].found) = k - 1 /\ k > 0
    <3>1. reads'[r].found = reads[r].found \ {reads[r].next} /\ reads[r].found # {}
      BY <1>6, <2>1 DEF ClosesOne
    <3>2. Cardinality(reads'[r].found) = k - 1
      BY <2>1, <3>1, FoundFinite, FS_RemoveElement
    <3>3. k # 0
      BY <3>1, FoundFinite, FS_EmptySet
    <3>4. QED
      BY <1>1, <3>2, <3>3
  <2>3. Ahead(r) = 2 * k + 6
    BY <1>6 DEF ClosesOne, Ahead, AheadAt
  <2>4. Ahead(r)' \in {7, 2 * (k - 1) + 7}
    BY <1>6, <2>2 DEF ClosesOne, Ahead, AheadAt
  <2>5. QED
    BY <1>1, <2>2, <2>3, <2>4
<1>7. QED
  BY <1>2, <1>3, <1>4, <1>5, <1>6, StatementEffect DEF Ended

THEOREM LockIsPassedOn == Spec => []LoopInv
BY InitLoop, StepLoop, Invariance, PTL DEF Spec

\* No run can be kept busy for ever, not even by a server full of databases.
THEOREM EndsApproach == Spec => StatementsRunOut
<1>1. IInv /\ LoopInv /\ [Next]_vars =>
        [\A r \in Runs :
            /\ Statement(r) \/ Crash(r) => Ahead(r)' < Ahead(r)
            /\ pc[r] # "idle" =>
                  Ahead(r)' < Ahead(r) \/ (pc'[r] = pc[r] /\ Ahead(r)' = Ahead(r))
            /\ pc[r] \in Ended => pc'[r] = pc[r]]_vars
  <2> SUFFICES ASSUME IInv, LoopInv, [Next]_vars, NEW r \in Runs
               PROVE  /\ Statement(r) \/ Crash(r) => Ahead(r)' < Ahead(r)
                      /\ pc[r] # "idle" =>
                            Ahead(r)' < Ahead(r) \/ (pc'[r] = pc[r] /\ Ahead(r)' = Ahead(r))
                      /\ pc[r] \in Ended => pc'[r] = pc[r]
    OBVIOUS
  <2>1. Statement(r) \/ Crash(r) => Ahead(r)' < Ahead(r) /\ pc[r] \in Working
    BY StatementDescends, StatementEffect
  <2>2. ASSUME pc'[r] = pc[r], reads'[r].found = reads[r].found
        PROVE  pc'[r] = pc[r] /\ Ahead(r)' = Ahead(r)
    BY <2>2 DEF Ahead
  <2>3. ASSUME NEW q \in Runs, NEW command, Start(q, command)
        PROVE  pc[q] = "idle" /\ (q # r => pc'[r] = pc[r] /\ reads'[r].found = reads[r].found)
    BY <2>3 DEF Start, Goto, IInv, TypeOK
  <2>4. CASE (\E d \in Others : CreateOther(d) \/ DropOther(d)) \/ Quiescent \/ UNCHANGED vars
    BY <2>1, <2>2, <2>4 DEF CreateOther, DropOther, ChangeOther, Quiescent, vars
  <2>5. CASE \E q \in Runs \ {r} : Statement(q) \/ Crash(q) \/ \E command \in Commands : Start(q, command)
    BY <2>1, <2>2, <2>3, <2>5, StatementEffect
  <2>6. CASE Statement(r) \/ Crash(r) \/ \E command \in Commands : Start(r, command)
    BY <2>1, <2>3, <2>6 DEF Working, Locked, Unlocked, Ended
  <2>7. QED
    BY <2>4, <2>5, <2>6 DEF Next
<1>2. QED
  BY <1>1, Invariance, LockIsPassedOn, PTL DEF Spec, StatementsRunOut

\* A run that waits for nothing and has what its statement works on.
Ready(r) ==
    /\ pc[r] \in Working
    /\ pc[r] = "lock" => advisory = None
    /\ pc[r] = "grantAdmin" => reads[r].found # {}

SomebodyIsReady ==
    (\E r \in Runs : pc[r] \in Working) => \E r \in Runs : Ready(r)

\* However many runs overlap, they never all wait: whoever holds the advisory
\* lock is at a statement that waits for nothing, and a run that has ended does
\* not hold it.
THEOREM SomebodyAlwaysReady == Spec => []SomebodyIsReady
<1>1. IInv /\ LoopInv => SomebodyIsReady
  <2> SUFFICES ASSUME IInv, LoopInv, NEW r \in Runs, pc[r] = "lock", advisory # None
               PROVE  \E q \in Runs : Ready(q)
    BY DEF SomebodyIsReady, Ready, LoopInv, LoopOK, Closing
  <2>1. advisory \in Runs /\ pc[advisory] \in Locked
    BY DEF IInv, TypeOK, LoopInv, LoopOK
  <2>2. pc[advisory] = "grantAdmin" => reads[advisory].found # {}
    BY <2>1 DEF LoopInv, LoopOK, Closing
  <2>3. QED
    BY <2>1, <2>2 DEF Ready, Working, Locked
<1>2. QED
  BY <1>1, Invariance, LockIsPassedOn, PTL
=============================================================================
