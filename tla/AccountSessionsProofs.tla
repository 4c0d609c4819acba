----------------------- MODULE AccountSessionsProofs -----------------------
(***************************************************************************)
(* Proofs about the sessions of an account, for any number of requests and *)
(* of session keys.                                                        *)
(*                                                                         *)
(* A step runs one statement of one request.  What the other requests rely *)
(* on survives it: a deleted row stays deleted, a row keeps the request    *)
(* that opened it, and a signed one never loses its track but to an        *)
(* invalidation that history then remembers.  Moves(r) is that frame;      *)
(* OthersHold and RowHolds use it once for all statements, and every       *)
(* statement has a lemma about its own request and the rows it writes.     *)
(***************************************************************************)
EXTENDS AccountSessions, TLAPS

Request == [op : Operations \cup {"none"}, key : Keys \cup {None},
            email : Requests \cup {None}, password : Requests \cup {None},
            over : BOOLEAN]

Reads == [hash : Requests \cup {None}, key : Keys \cup {None}, keys : SUBSET Keys]

TypeOK ==
    /\ active \in BOOLEAN
    /\ password \in Requests \cup {None}
    /\ email \in Requests \cup {None}
    /\ session \in [Keys -> Row]
    /\ tracked \subseteq Keys
    /\ pc \in [Requests -> {"idle"} \cup Working \cup Answered]
    /\ req \in [Requests -> Request]
    /\ reads \in [Requests -> Reads]
    /\ before \in [Requests -> SUBSET Keys]
    /\ listed \in [Requests -> SUBSET Keys]
    /\ untracked \subseteq Keys

SignsIn(r) == req[r].op \in {"login", "activate"}

Gone(k) == session[k].state = "deleted"

\* Keys an AccountSession row names, or named when it was deleted unread.
Known == tracked \cup untracked

\* The password a sign-in is for.
Proof(r) == IF req[r].op = "login" THEN req[r].password ELSE r

\* Which statements belong to which operation.
Flow(r) ==
    /\ pc[r] = "authenticate" => req[r].op = "login"
    /\ pc[r] = "activate" => req[r].op = "activate"
    /\ pc[r] \in {"create", "insert", "store"} => SignsIn(r)
    /\ pc[r] = "load" => req[r].op \in {"browse", "confirm"}
    /\ pc[r] \in {"change", "readKeys", "deleteSessions", "deleteTracked"} =>
          req[r].op \in {"reset", "confirm"}
    /\ pc[r] = "discard" => req[r].op = "logout"
    /\ pc[r] = "flush" => req[r].op \in {"logout", "leave", "confirm"}
    /\ pc[r] # "idle" /\ req[r].op \in {"browse", "confirm", "logout", "leave"} =>
          req[r].key \in Keys
    /\ pc[r] = "change" /\ req[r].op = "confirm" => reads[r].key \in Keys
    /\ pc[r] = "track" => /\ req[r].op \in {"login", "activate", "browse", "confirm"}
                          /\ reads[r].key \in Keys

\* A sign-in carries the hash it checked or set; the row it opened is its own,
\* and is tracked before it is stored.
SigningIn(r) ==
    /\ pc[r] \in {"create", "insert", "track", "store"} /\ SignsIn(r) =>
          reads[r].hash = Proof(r)
    /\ pc[r] \in {"track", "store"} /\ SignsIn(r) =>
          /\ reads[r].key \in Keys
          /\ session[reads[r].key].opener = r
          /\ session[reads[r].key].state # "unused"
    /\ pc[r] = "store" => Gone(reads[r].key) \/ reads[r].key \in Known

\* A session that survives although nobody deleted its row unread: it replaced
\* one of another account and was not tracked when r arrived.
Strays(r, k) == session[k].over /\ k \notin listed[r]

\* The keys an invalidation read are gone once it deleted them; a session that
\* was signed in when the change of address arrived is gone, among those keys,
\* has lost its track or never had one.
Invalidating(r) ==
    /\ reads[r].keys # {} =>
          pc[r] \in {"deleteSessions", "deleteTracked", "flush", "ok", "crashed"}
    /\ pc[r] \in {"deleteTracked", "flush", "ok"} => \A k \in reads[r].keys : Gone(k)
    /\ pc[r] = "discard" => Gone(req[r].key)
    /\ pc[r] # "idle" => \A k \in before[r] : session[k].state \in {"signed", "deleted"}
    /\ email = r => pc[r] \in {"readKeys", "deleteSessions", "deleteTracked", "flush",
                               "ok", "crashed"}
    /\ email = r \/ reads[r].keys # {} => req[r].op \in {"reset", "confirm"}
    /\ /\ req[r].op = "confirm" /\ email = r
       /\ pc[r] \in {"deleteSessions", "deleteTracked", "flush", "ok"}
       => \A k \in before[r] : \/ Gone(k) \/ k \in untracked \/ k \in reads[r].keys
                              \/ Strays(r, k)

\* What was tracked when a request arrived keeps its row's trace or is gone.
ListedOK(r) == pc[r] # "idle" => \A k \in listed[r] : Gone(k) \/ k \in Known

RequestOK(r) == Flow(r) /\ SigningIn(r) /\ Invalidating(r)

\* A row was opened by a request that has arrived; a signed one is tracked, lost
\* its track or replaced another account's, and carries the password its sign-in
\* was for.
SessionOK(k) ==
    /\ session[k].opener # None => pc[session[k].opener] # "idle"
    /\ Signed(k) => k \in Known \/ session[k].over
    /\ Signed(k) => IF session[k].opener = None THEN session[k].hash = None
                    ELSE /\ SignsIn(session[k].opener)
                         /\ session[k].hash = Proof(session[k].opener)

IInv ==
    /\ TypeOK
    /\ \A r \in Requests : RequestOK(r)
    /\ \A r \in Requests : ListedOK(r)
    /\ \A k \in Keys : SessionOK(k)

-----------------------------------------------------------------------------
(* What every step keeps.                                                  *)

\* What a step may do to the row of a key and to its track.
Keeps(k) ==
    /\ session[k].state # "unused" => /\ session'[k].opener = session[k].opener
                                      /\ session'[k].over = session[k].over
                                      /\ session'[k].state # "unused"
    /\ Gone(k) => session'[k].state = "deleted"
    /\ Signed(k) => session'[k].state \in {"signed", "deleted"}
    /\ k \in Known => session'[k].state = "deleted" \/ k \in tracked' \cup untracked'

\* A statement of request r.
Moves(r) ==
    /\ \A q \in Requests \ {r} : /\ pc'[q] = pc[q] /\ req'[q] = req[q]
                                 /\ reads'[q] = reads[q] /\ before'[q] = before[q]
                                 /\ listed'[q] = listed[q]
    /\ pc'[r] # "idle"
    /\ pc[r] = "idle" => listed'[r] \subseteq tracked'
    /\ pc[r] # "idle" => /\ req'[r] = req[r] /\ before'[r] = before[r]
                         /\ listed'[r] = listed[r]
    /\ email' \in {email, r}
    /\ untracked \subseteq untracked'
    /\ \A k \in Keys : Keeps(k)

LEMMA OthersHold ==
    ASSUME IInv, NEW r \in Requests, Moves(r), NEW q \in Requests \ {r}
    PROVE  RequestOK(q)'
<1> USE DEF Moves
<1>1. /\ pc'[q] = pc[q] /\ req'[q] = req[q] /\ reads'[q] = reads[q]
      /\ before'[q] = before[q] /\ listed'[q] = listed[q]
  OBVIOUS
<1>2. RequestOK(q)
  BY DEF IInv
<1>3. q # None /\ (email' = q => email = q)
  BY NoneAssumption
<1>4. /\ before[q] \in SUBSET Keys /\ listed[q] \in SUBSET Keys
      /\ reads[q] \in Reads /\ req[q] \in Request
  BY DEF IInv, TypeOK
<1>5. \A k \in Keys : Keeps(k)
  OBVIOUS
<1>6. untracked \subseteq untracked'
  OBVIOUS
<1> HIDE DEF Moves
<1>7. Flow(q)'
  BY <1>1, <1>2 DEF RequestOK, Flow, SignsIn
<1>8. SigningIn(q)'
  <2>1. CASE pc[q] \in {"track", "store"} /\ SignsIn(q)
    <3>1. /\ reads[q].key \in Keys /\ session[reads[q].key].opener = q
          /\ session[reads[q].key].state # "unused" /\ reads[q].hash = Proof(q)
      BY <2>1, <1>2 DEF RequestOK, SigningIn
    <3>2. Keeps(reads[q].key)
      BY <3>1, <1>5
    <3>3. pc[q] = "store" => Gone(reads[q].key) \/ reads[q].key \in Known
      BY <1>2 DEF RequestOK, SigningIn
    <3>4. QED
      BY <1>1, <3>1, <3>2, <3>3 DEF SigningIn, Keeps, SignsIn, Proof, Gone, Known
  <2>2. CASE ~(pc[q] \in {"track", "store"} /\ SignsIn(q))
    <3>1. pc[q] # "store"
      BY <2>2, <1>2 DEF RequestOK, Flow
    <3>2. QED
      BY <1>1, <1>2, <2>2, <3>1 DEF RequestOK, SigningIn, SignsIn, Proof
  <2>3. QED
    BY <2>1, <2>2
<1>9. Invalidating(q)'
  <2>1. reads'[q].keys # {} =>
          pc'[q] \in {"deleteSessions", "deleteTracked", "flush", "ok", "crashed"}
    BY <1>1, <1>2 DEF RequestOK, Invalidating
  <2>2. pc'[q] \in {"deleteTracked", "flush", "ok"} =>
          \A k \in reads'[q].keys : session'[k].state = "deleted"
    BY <1>1, <1>2, <1>4, <1>5 DEF RequestOK, Invalidating, Reads, Keeps
  <2>3. pc'[q] = "discard" => session'[req'[q].key].state = "deleted"
    BY <1>1, <1>2, <1>5 DEF RequestOK, Flow, Invalidating, Keeps
  <2>4. pc'[q] # "idle" => \A k \in before'[q] : session'[k].state \in {"signed", "deleted"}
    BY <1>1, <1>2, <1>4, <1>5 DEF RequestOK, Invalidating, Keeps, Gone, Signed
  <2>5. email' = q => pc'[q] \in {"readKeys", "deleteSessions", "deleteTracked", "flush",
                                  "ok", "crashed"}
    BY <1>1, <1>2, <1>3 DEF RequestOK, Invalidating
  <2>6. ASSUME req'[q].op = "confirm", email' = q,
               pc'[q] \in {"deleteSessions", "deleteTracked", "flush", "ok"},
               NEW k \in before'[q]
        PROVE  \/ session'[k].state = "deleted" \/ k \in untracked' \/ k \in reads'[q].keys
               \/ Strays(q, k)'
    <3>1. Gone(k) \/ k \in untracked \/ k \in reads[q].keys \/ Strays(q, k)
      BY <1>1, <1>2, <1>3, <2>6 DEF RequestOK, Invalidating
    <3>2. Keeps(k)
      BY <1>1, <1>4, <1>5
    <3>3. session[k].state \in {"signed", "deleted"}
      BY <1>1, <1>2, <2>6 DEF RequestOK, Invalidating
    <3>4. QED
      BY <1>1, <1>6, <3>1, <3>2, <3>3 DEF Keeps, Strays
  <2>7. email' = q \/ reads'[q].keys # {} => req'[q].op \in {"reset", "confirm"}
    BY <1>1, <1>2, <1>3 DEF RequestOK, Invalidating
  <2>8. QED
    BY <2>1, <2>2, <2>3, <2>4, <2>5, <2>6, <2>7 DEF Invalidating, Gone
<1>10. QED
  BY <1>7, <1>8, <1>9 DEF RequestOK

\* A row the step leaves alone, or deletes, is as good as it was.
LEMMA RowHolds ==
    ASSUME IInv, NEW r \in Requests, Moves(r), NEW k \in Keys,
           \/ session'[k] = session[k]
           \/ session'[k].state = "deleted" /\ session'[k].opener = session[k].opener
    PROVE  SessionOK(k)'
<1> DEFINE o == session[k].opener
<1>1. SessionOK(k) /\ session[k] \in Row /\ Keeps(k)
  BY DEF IInv, TypeOK, Moves
<1>2. session'[k].opener = o /\ o \in Requests \cup {None}
  BY <1>1 DEF Row
<1>3. o # None => pc[o] # "idle" /\ o \in Requests
  BY <1>1, <1>2 DEF SessionOK
<1>4. o # None => pc'[o] # "idle" /\ req'[o] = req[o]
  BY <1>3 DEF Moves
<1>5. session'[k].state = "signed" =>
         /\ session'[k] = session[k]
         /\ k \in tracked' \cup untracked' \/ session'[k].over
  BY <1>1 DEF SessionOK, Keeps, Signed, Known
<1>6. QED
  BY <1>1, <1>2, <1>4, <1>5 DEF SessionOK, Signed, Known, SignsIn, Proof

LEMMA StepHolds ==
    ASSUME IInv, NEW r \in Requests, Moves(r), TypeOK', RequestOK(r)',
           \A k \in Keys : SessionOK(k)'
    PROVE  IInv'
<1>1. \A q \in Requests : RequestOK(q)'
  BY OthersHold
<1>2. ASSUME NEW q \in Requests PROVE ListedOK(q)'
  <2>1. CASE pc[q] = "idle"
    BY <2>1 DEF Moves, ListedOK, Known
  <2>2. CASE pc[q] # "idle"
    <3>1. listed'[q] = listed[q] /\ listed[q] \in SUBSET Keys
      BY <2>2 DEF Moves, IInv, TypeOK
    <3>2. \A k \in Keys : Keeps(k)
      BY DEF Moves
    <3>3. \A k \in listed[q] : Gone(k) \/ k \in Known
      BY <2>2 DEF IInv, ListedOK
    <3>4. QED
      BY <3>1, <3>2, <3>3 DEF ListedOK, Keeps, Gone, Known
  <2>3. QED
    BY <2>1, <2>2
<1>3. QED
  BY <1>1, <1>2 DEF IInv

-----------------------------------------------------------------------------
(* One lemma for each statement.                                           *)

\* What the continuation leaves of a request.
LEMMA Continued ==
    ASSUME IInv, NEW r \in Requests, NEW next, Continue(r, next)
    PROVE  /\ pc'[r] = next /\ req' = req /\ before' = before /\ listed' = listed
           /\ \A q \in Requests \ {r} : pc'[q] = pc[q]
           /\ next \in Working \cup Answered => pc' \in [Requests -> {"idle"} \cup Working \cup Answered]
  BY DEF IInv, TypeOK, Continue

\* A change of one request's reads.
LEMMA Noted ==
    ASSUME IInv, NEW r \in Requests, NEW note \in Reads, reads' = [reads EXCEPT ![r] = note]
    PROVE  /\ reads'[r] = note /\ reads' \in [Requests -> Reads]
           /\ \A q \in Requests \ {r} : reads'[q] = reads[q]
  BY DEF IInv, TypeOK

\* Rows and tracks that stay keep everything.
LEMMA StillKept ==
    ASSUME IInv, UNCHANGED <<session, tracked, untracked>>
    PROVE  \A k \in Keys : Keeps(k)
  BY DEF Keeps, Gone, Signed, Known, IInv, TypeOK, Row

LEMMA ArriveHolds ==
    ASSUME IInv, NEW r \in Requests, NEW op \in Operations, NEW key \in Keys \cup {None},
           NEW over \in BOOLEAN, NEW first, Arrive(r, op, key, over, first),
           \/ op = "login" /\ first = "authenticate"
           \/ op = "activate" /\ first = "activate"
           \/ op = "reset" /\ first = "change"
           \/ op \in {"browse", "confirm"} /\ first = "load" /\ key \in Keys
           \/ op \in {"logout", "leave"} /\ first = "flush" /\ key \in Keys
    PROVE  IInv'
<1>1. /\ pc[r] = "idle"
      /\ req' = [req EXCEPT ![r] = [op |-> op, key |-> key, email |-> email,
                                    password |-> password, over |-> over]]
      /\ pc' = [pc EXCEPT ![r] = first]
      /\ before' = [before EXCEPT ![r] = {k \in Keys : Authenticates(k)}]
      /\ listed' = [listed EXCEPT ![r] = tracked]
      /\ UNCHANGED <<account, session, tracked, reads, untracked>>
  BY DEF Arrive
<1>2. first \in {"authenticate", "activate", "change", "load", "flush"}
      /\ first \in Working /\ first # "idle"
  BY DEF Working
<1>3. TypeOK /\ RequestOK(r)
  BY DEF IInv
<1>4. /\ pc'[r] = first /\ req'[r].op = op /\ req'[r].key = key
      /\ before'[r] = {k \in Keys : Authenticates(k)} /\ reads'[r] = reads[r]
      /\ listed'[r] = tracked
  BY <1>1, <1>3 DEF TypeOK
<1>5. TypeOK'
  BY <1>1, <1>2, <1>3 DEF TypeOK, Request, account
<1>6. \A k \in Keys : Keeps(k)
  BY <1>1, StillKept
<1>7. Moves(r)
  BY <1>1, <1>2, <1>3, <1>4, <1>6 DEF Moves, account, TypeOK
<1>8. reads[r].keys = {} /\ email # r
  BY <1>1, <1>3 DEF RequestOK, Invalidating
<1>9. RequestOK(r)'
  <2>1. Flow(r)'
    BY <1>2, <1>4 DEF Flow, SignsIn
  <2>2. SigningIn(r)'
    BY <1>2, <1>4 DEF SigningIn
  <2>3. email' = email
    BY <1>1 DEF account
  <2>4. \A k \in before'[r] : session'[k].state \in {"signed", "deleted"}
    BY <1>1, <1>4 DEF Authenticates, Signed
  <2>5. Invalidating(r)'
    BY <1>2, <1>4, <1>8, <2>3, <2>4 DEF Invalidating
  <2>6. QED
    BY <2>1, <2>2, <2>5 DEF RequestOK
<1>10. \A k \in Keys : SessionOK(k)'
  BY <1>1, <1>7, RowHolds
<1>11. QED
  BY <1>5, <1>7, <1>9, <1>10, StepHolds

LEMMA ArrivalHolds ==
    ASSUME IInv, NEW r \in Requests, Arrival(r)
    PROVE  IInv'
<1>1. ASSUME NEW over \in BOOLEAN, Login(r, over) PROVE IInv'
  BY <1>1, ArriveHolds DEF Login, Operations
<1>2. ASSUME NEW over \in BOOLEAN, Activate(r, over) PROVE IInv'
  BY <1>2, ArriveHolds DEF Activate, Operations
<1>3. CASE ResetPassword(r)
  BY <1>3, ArriveHolds DEF ResetPassword, Operations
<1>4. ASSUME NEW k \in Keys, Browse(r, k) PROVE IInv'
  BY <1>4, ArriveHolds DEF Browse, Operations
<1>5. ASSUME NEW k \in Keys, Logout(r, k) PROVE IInv'
  BY <1>5, ArriveHolds DEF Logout, Operations
<1>6. ASSUME NEW k \in Keys, ConfirmEmailChange(r, k) PROVE IInv'
  BY <1>6, ArriveHolds DEF ConfirmEmailChange, Operations
<1>7. ASSUME NEW k \in Keys, SignInOther(r, k) PROVE IInv'
  BY <1>7, ArriveHolds DEF SignInOther, Operations
<1>8. QED
  BY <1>1, <1>2, <1>3, <1>4, <1>5, <1>6, <1>7 DEF Arrival

LEMMA CrashHolds ==
    ASSUME IInv, NEW r \in Requests, Crash(r)
    PROVE  IInv'
<1>1. /\ pc[r] \in Working /\ Continue(r, "crashed")
      /\ UNCHANGED <<account, session, tracked, reads, untracked>>
  BY DEF Crash
<1>2. TypeOK /\ RequestOK(r)
  BY DEF IInv
<1>3. /\ pc'[r] = "crashed" /\ req' = req /\ before' = before /\ listed' = listed
      /\ \A q \in Requests \ {r} : pc'[q] = pc[q]
      /\ pc' \in [Requests -> {"idle"} \cup Working \cup Answered]
  BY <1>1, Continued DEF Answered
<1>4. TypeOK'
  BY <1>1, <1>2, <1>3 DEF TypeOK, account
<1>5. Moves(r)
  BY <1>1, <1>3, StillKept DEF Moves, account, Working
<1>6. pc[r] # "idle"
  BY <1>1 DEF Working
<1>7. RequestOK(r)'
  BY <1>1, <1>2, <1>3, <1>6 DEF RequestOK, Flow, SigningIn, Invalidating, account
<1>8. \A k \in Keys : SessionOK(k)'
  BY <1>1, <1>5, RowHolds
<1>9. QED
  BY <1>4, <1>5, <1>7, <1>8, StepHolds

LEMMA AuthenticateHolds ==
    ASSUME IInv, NEW r \in Requests, Authenticate(r)
    PROVE  IInv'
<1>1. /\ pc[r] = "authenticate"
      /\ UNCHANGED <<account, session, tracked, untracked>>
  BY DEF Authenticate
<1>2. TypeOK /\ RequestOK(r)
  BY DEF IInv
<1>3. /\ reads[r] \in Reads /\ reads[r].keys = {} /\ email # r /\ req[r].op = "login"
      /\ password \in Requests \cup {None}
  BY <1>1, <1>2 DEF RequestOK, Flow, Invalidating, TypeOK
<1>4. \/ /\ Continue(r, Opening(r)) /\ req[r].password = password
         /\ reads' = [reads EXCEPT ![r] = [reads[r] EXCEPT !.hash = password]]
      \/ Continue(r, "denied") /\ UNCHANGED reads
  BY <1>2 DEF Authenticate, TypeOK
<1>5. [reads[r] EXCEPT !.hash = password] \in Reads
      /\ [reads[r] EXCEPT !.hash = password].hash = password
      /\ [reads[r] EXCEPT !.hash = password].keys = {}
  BY <1>3 DEF Reads
<1>6. /\ pc'[r] \in {"create", "insert", "denied"} /\ req' = req /\ before' = before /\ listed' = listed
      /\ \A q \in Requests \ {r} : pc'[q] = pc[q]
      /\ pc' \in [Requests -> {"idle"} \cup Working \cup Answered]
  BY <1>4, Continued DEF Answered, Working, Opening
<1>7. /\ reads' \in [Requests -> Reads]
      /\ \A q \in Requests \ {r} : reads'[q] = reads[q]
      /\ reads'[r].keys = {}
      /\ pc'[r] # "denied" => reads'[r].hash = req[r].password
  <2>1. CASE Continue(r, Opening(r)) /\ req[r].password = password
             /\ reads' = [reads EXCEPT ![r] = [reads[r] EXCEPT !.hash = password]]
    BY <1>5, <2>1, Noted
  <2>2. CASE Continue(r, "denied") /\ UNCHANGED reads
    BY <1>2, <1>3, <2>2, Continued DEF TypeOK
  <2>3. QED
    BY <1>4, <2>1, <2>2
<1>8. TypeOK'
  BY <1>1, <1>2, <1>6, <1>7 DEF TypeOK, account
<1>9. Moves(r)
  BY <1>1, <1>6, <1>7, StillKept DEF Moves, account
<1>10. RequestOK(r)'
  <2>1. Flow(r)' /\ SigningIn(r)'
    BY <1>3, <1>6, <1>7 DEF Flow, SigningIn, SignsIn, Proof
  <2>2. Invalidating(r)'
    BY <1>1, <1>2, <1>3, <1>6, <1>7 DEF RequestOK, Invalidating, account
  <2>3. QED
    BY <2>1, <2>2 DEF RequestOK
<1>11. \A k \in Keys : SessionOK(k)'
  BY <1>1, <1>9, RowHolds
<1>12. QED
  BY <1>8, <1>9, <1>10, <1>11, StepHolds

LEMMA CommitActivationHolds ==
    ASSUME IInv, NEW r \in Requests, CommitActivation(r)
    PROVE  IInv'
<1>1. /\ pc[r] = "activate"
      /\ UNCHANGED <<session, tracked, untracked>>
  BY DEF CommitActivation
<1>2. TypeOK /\ RequestOK(r)
  BY DEF IInv
<1>3. /\ reads[r] \in Reads /\ reads[r].keys = {} /\ email # r /\ req[r].op = "activate"
  BY <1>1, <1>2 DEF RequestOK, Flow, Invalidating, TypeOK
<1>4. \/ /\ Continue(r, Opening(r)) /\ active' = TRUE /\ password' = r /\ email' = email
         /\ reads' = [reads EXCEPT ![r] = [reads[r] EXCEPT !.hash = r]]
      \/ Continue(r, "denied") /\ UNCHANGED account /\ UNCHANGED reads
  BY <1>2 DEF CommitActivation, TypeOK
<1>5. [reads[r] EXCEPT !.hash = r] \in Reads
      /\ [reads[r] EXCEPT !.hash = r].hash = r
      /\ [reads[r] EXCEPT !.hash = r].keys = {}
  BY <1>3 DEF Reads
<1>6. /\ pc'[r] \in {"create", "insert", "denied"} /\ req' = req /\ before' = before /\ listed' = listed
      /\ \A q \in Requests \ {r} : pc'[q] = pc[q]
      /\ pc' \in [Requests -> {"idle"} \cup Working \cup Answered]
  BY <1>4, Continued DEF Answered, Working, Opening
<1>7. /\ reads' \in [Requests -> Reads]
      /\ \A q \in Requests \ {r} : reads'[q] = reads[q]
      /\ reads'[r].keys = {}
      /\ pc'[r] # "denied" => reads'[r].hash = r
  <2>1. CASE reads' = [reads EXCEPT ![r] = [reads[r] EXCEPT !.hash = r]]
    BY <1>5, <2>1, Noted
  <2>2. CASE Continue(r, "denied") /\ UNCHANGED reads
    BY <1>2, <1>3, <2>2, Continued DEF TypeOK
  <2>3. QED
    BY <1>4, <2>1, <2>2
<1>8. /\ active' \in BOOLEAN /\ password' \in Requests \cup {None} /\ email' = email
  BY <1>2, <1>4 DEF TypeOK, account
<1>9. TypeOK'
  BY <1>1, <1>2, <1>6, <1>7, <1>8 DEF TypeOK
<1>10. Moves(r)
  BY <1>1, <1>6, <1>7, <1>8, StillKept DEF Moves
<1>11. RequestOK(r)'
  <2>1. Flow(r)' /\ SigningIn(r)'
    BY <1>3, <1>6, <1>7 DEF Flow, SigningIn, SignsIn, Proof
  <2>2. Invalidating(r)'
    BY <1>1, <1>2, <1>3, <1>6, <1>7, <1>8 DEF RequestOK, Invalidating
  <2>3. QED
    BY <2>1, <2>2 DEF RequestOK
<1>12. \A k \in Keys : SessionOK(k)'
  BY <1>1, <1>10, RowHolds
<1>13. QED
  BY <1>9, <1>10, <1>11, <1>12, StepHolds

\* Deleting rows keeps what the others rely on.
LEMMA DeletedRows ==
    ASSUME IInv, NEW ks \in SUBSET Keys, session' = Deleted(ks)
    PROVE  /\ session' \in [Keys -> Row]
           /\ \A k \in ks : session'[k].state = "deleted"
           /\ \A k \in Keys : /\ session'[k].opener = session[k].opener
                              /\ session'[k].over = session[k].over
                              /\ \/ session'[k] = session[k]
                                 \/ session'[k].state = "deleted"
<1>1. session \in [Keys -> Row]
  BY DEF IInv, TypeOK
<1>2. \A k \in Keys : session'[k] = IF k \in ks THEN [session[k] EXCEPT !.state = "deleted"]
                                                ELSE session[k]
  BY DEF Deleted
<1>3. \A k \in Keys : session[k] \in Row
  BY <1>1
<1>4. \A k \in Keys : /\ [session[k] EXCEPT !.state = "deleted"] \in Row
                      /\ [session[k] EXCEPT !.state = "deleted"].state = "deleted"
                      /\ [session[k] EXCEPT !.state = "deleted"].opener = session[k].opener
                      /\ [session[k] EXCEPT !.state = "deleted"].over = session[k].over
  BY <1>3 DEF Row
<1>5. session' = [k \in Keys |-> session'[k]]
  BY DEF Deleted
<1>6. QED
  BY <1>2, <1>3, <1>4, <1>5

\* A step that deletes rows, or none, and takes no track from a row that stays.
LEMMA RowsKept ==
    ASSUME IInv,
           \A k \in Keys : /\ session'[k].opener = session[k].opener
                           /\ session'[k].over = session[k].over
                           /\ \/ session'[k] = session[k]
                              \/ session'[k].state = "deleted",
           \A k \in Known : session'[k].state = "deleted" \/ k \in tracked' \cup untracked'
    PROVE  \A k \in Keys : Keeps(k)
  BY DEF Keeps, Gone, Signed

LEMMA CreateSessionHolds ==
    ASSUME IInv, NEW r \in Requests, NEW k \in Keys, CreateSession(r, k)
    PROVE  IInv'
<1> DEFINE row == [Unused EXCEPT !.state = "empty", !.opener = r]
<1>1. /\ pc[r] = "create" /\ session[k] = Unused
      /\ session' = [session EXCEPT ![k] = row]
      /\ Continue(r, "track")
      /\ UNCHANGED <<account, tracked, untracked>>
  BY DEF CreateSession
<1>2. TypeOK /\ RequestOK(r)
  BY DEF IInv
<1>3. /\ reads[r] \in Reads /\ reads[r].keys = {} /\ email # r /\ SignsIn(r)
      /\ reads[r].hash = Proof(r)
  BY <1>1, <1>2 DEF RequestOK, Flow, SigningIn, Invalidating, TypeOK
<1>4. reads' = [reads EXCEPT ![r] = [reads[r] EXCEPT !.key = k]]
  BY <1>2 DEF CreateSession, TypeOK
<1>5. [reads[r] EXCEPT !.key = k] \in Reads
      /\ [reads[r] EXCEPT !.key = k].hash = reads[r].hash
      /\ [reads[r] EXCEPT !.key = k].key = k
      /\ [reads[r] EXCEPT !.key = k].keys = {}
  BY <1>3 DEF Reads
<1>6. /\ pc'[r] = "track" /\ req' = req /\ before' = before /\ listed' = listed
      /\ \A q \in Requests \ {r} : pc'[q] = pc[q]
      /\ pc' \in [Requests -> {"idle"} \cup Working \cup Answered]
  BY <1>1, Continued DEF Working
<1>7. /\ reads' \in [Requests -> Reads]
      /\ \A q \in Requests \ {r} : reads'[q] = reads[q]
      /\ reads'[r].keys = {} /\ reads'[r].key = k /\ reads'[r].hash = reads[r].hash
  BY <1>4, <1>5, Noted
<1>8. row \in Row /\ row.state = "empty" /\ row.opener = r
  BY DEF Row, Unused
<1>9. session[k].state = "unused"
  BY <1>1 DEF Unused
<1> HIDE DEF row
<1>10. /\ session' \in [Keys -> Row] /\ session'[k].state = "empty" /\ session'[k].opener = r
       /\ \A l \in Keys \ {k} : session'[l] = session[l]
  BY <1>1, <1>2, <1>8 DEF TypeOK
<1>11. TypeOK'
  BY <1>1, <1>2, <1>6, <1>7, <1>10 DEF TypeOK, account
<1>12. \A l \in Keys : Keeps(l)
  <2>1. Keeps(k)
    BY <1>1, <1>9 DEF Keeps, Gone, Signed, Known
  <2>2. \A l \in Keys \ {k} : Keeps(l)
    BY <1>1, <1>10 DEF Keeps, Gone, Signed, Known
  <2>3. QED
    BY <2>1, <2>2
<1>13. Moves(r)
  BY <1>1, <1>6, <1>7, <1>12 DEF Moves, account
<1>14. RequestOK(r)'
  <2>1. Flow(r)' /\ SigningIn(r)'
    BY <1>3, <1>6, <1>7, <1>10 DEF Flow, SigningIn, SignsIn, Proof
  <2>2. \A l \in before[r] : l \in Keys /\ session[l].state \in {"signed", "deleted"}
    BY <1>1, <1>2 DEF RequestOK, Invalidating, TypeOK
  <2>3. \A l \in before'[r] : session'[l].state \in {"signed", "deleted"}
    BY <1>6, <1>9, <1>10, <2>2
  <2>4. Invalidating(r)'
    BY <1>1, <1>3, <1>6, <1>7, <2>3 DEF Invalidating, account
  <2>5. QED
    BY <2>1, <2>4 DEF RequestOK
<1>15. \A l \in Keys : SessionOK(l)'
  <2>1. SessionOK(k)'
    BY <1>6, <1>10 DEF SessionOK, Signed
  <2>2. \A l \in Keys \ {k} : SessionOK(l)'
    BY <1>10, <1>13, RowHolds
  <2>3. QED
    BY <2>1, <2>2
<1>16. QED
  BY <1>11, <1>13, <1>14, <1>15, StepHolds

LEMMA InsertSessionHolds ==
    ASSUME IInv, NEW r \in Requests, NEW k \in Keys, InsertSession(r, k)
    PROVE  IInv'
<1> DEFINE row == [state |-> "signed", hash |-> reads[r].hash, opener |-> r, over |-> TRUE]
<1>1. /\ pc[r] = "insert" /\ session[k] = Unused
      /\ session' = [session EXCEPT ![k] = row]
      /\ Continue(r, "ok")
      /\ UNCHANGED <<account, tracked, reads, untracked>>
  BY DEF InsertSession
<1>2. TypeOK /\ RequestOK(r)
  BY DEF IInv
<1>3. /\ reads[r] \in Reads /\ reads[r].keys = {} /\ email # r /\ SignsIn(r)
      /\ reads[r].hash = Proof(r)
  BY <1>1, <1>2 DEF RequestOK, Flow, SigningIn, Invalidating, TypeOK
<1>4. /\ pc'[r] = "ok" /\ req' = req /\ before' = before /\ listed' = listed
      /\ \A q \in Requests \ {r} : pc'[q] = pc[q]
      /\ pc' \in [Requests -> {"idle"} \cup Working \cup Answered]
  BY <1>1, Continued DEF Answered
<1>5. /\ row \in Row /\ row.state = "signed" /\ row.opener = r /\ row.over
      /\ row.hash = Proof(r)
  BY <1>3 DEF Row, Reads
<1>6. session[k].state = "unused"
  BY <1>1 DEF Unused
<1> HIDE DEF row
<1>7. /\ session' \in [Keys -> Row] /\ session'[k] = row
      /\ \A l \in Keys \ {k} : session'[l] = session[l]
  BY <1>1, <1>2, <1>5 DEF TypeOK
<1>8. TypeOK'
  BY <1>1, <1>2, <1>4, <1>7 DEF TypeOK, account
<1>9. \A l \in Keys : Keeps(l)
  <2>1. Keeps(k)
    BY <1>1, <1>6 DEF Keeps, Gone, Signed, Known
  <2>2. \A l \in Keys \ {k} : Keeps(l)
    BY <1>1, <1>7 DEF Keeps, Gone, Signed, Known
  <2>3. QED
    BY <2>1, <2>2
<1>10. Moves(r)
  BY <1>1, <1>4, <1>9 DEF Moves, account
<1>11. RequestOK(r)'
  <2>1. Flow(r)' /\ SigningIn(r)'
    BY <1>1, <1>2, <1>4 DEF RequestOK, Flow, SigningIn
  <2>2. \A l \in before[r] : l \in Keys /\ session[l].state \in {"signed", "deleted"}
    BY <1>1, <1>2 DEF RequestOK, Invalidating, TypeOK
  <2>3. \A l \in before'[r] : session'[l].state \in {"signed", "deleted"}
    BY <1>4, <1>6, <1>7, <2>2
  <2>4. Invalidating(r)'
    BY <1>1, <1>3, <1>4, <2>3 DEF Invalidating, account
  <2>5. QED
    BY <2>1, <2>4 DEF RequestOK
<1>12. \A l \in Keys : SessionOK(l)'
  <2>1. SessionOK(k)'
    BY <1>3, <1>4, <1>5, <1>7, NoneAssumption DEF SessionOK, Signed, SignsIn, Proof
  <2>2. \A l \in Keys \ {k} : SessionOK(l)'
    BY <1>7, <1>10, RowHolds
  <2>3. QED
    BY <2>1, <2>2
<1>13. QED
  BY <1>8, <1>10, <1>11, <1>12, StepHolds

LEMMA TrackHolds ==
    ASSUME IInv, NEW r \in Requests, Track(r)
    PROVE  IInv'
<1> DEFINE next == IF req[r].op \in {"login", "activate"} THEN "store" ELSE "ok"
<1>1. /\ pc[r] = "track" /\ tracked' = tracked \cup {reads[r].key}
      /\ Continue(r, next)
      /\ UNCHANGED <<account, session, reads, untracked>>
  BY DEF Track
<1>2. TypeOK /\ RequestOK(r)
  BY DEF IInv
<1>3. reads[r].key \in Keys /\ reads[r].keys = {} /\ email # r
  BY <1>1, <1>2 DEF RequestOK, Flow, Invalidating
<1>4. next \in {"store", "ok"} /\ (next = "store" <=> SignsIn(r)) /\ next \in Working \cup Answered
  BY DEF SignsIn, Working, Answered
<1> HIDE DEF next
<1>5. /\ pc'[r] = next /\ req' = req /\ before' = before /\ listed' = listed
      /\ \A q \in Requests \ {r} : pc'[q] = pc[q]
      /\ pc' \in [Requests -> {"idle"} \cup Working \cup Answered]
  BY <1>1, <1>4, Continued
<1>6. TypeOK'
  BY <1>1, <1>2, <1>3, <1>5 DEF TypeOK, account
<1>7. \A k \in Keys : Keeps(k)
  BY <1>1, RowsKept DEF Known
<1>8. Moves(r)
  BY <1>1, <1>4, <1>5, <1>7 DEF Moves, account
<1>9. RequestOK(r)'
  <2>1. Flow(r)'
    BY <1>1, <1>2, <1>4, <1>5 DEF RequestOK, Flow, SignsIn
  <2>2. SigningIn(r)'
    BY <1>1, <1>2, <1>4, <1>5 DEF RequestOK, SigningIn, SignsIn, Proof, Known, Gone
  <2>3. \A k \in before[r] : session[k].state \in {"signed", "deleted"}
    BY <1>1, <1>2 DEF RequestOK, Invalidating
  <2>4. Invalidating(r)'
    BY <1>1, <1>3, <1>4, <1>5, <2>3 DEF Invalidating, account
  <2>5. QED
    BY <2>1, <2>2, <2>4 DEF RequestOK
<1>10. \A k \in Keys : SessionOK(k)'
  BY <1>1, <1>8, RowHolds
<1>11. QED
  BY <1>6, <1>8, <1>9, <1>10, StepHolds

LEMMA StoreSessionHolds ==
    ASSUME IInv, NEW r \in Requests, StoreSession(r)
    PROVE  IInv'
<1>1. /\ pc[r] = "store"
      /\ UNCHANGED <<account, tracked, reads, untracked>>
  BY DEF StoreSession
<1>2. TypeOK /\ RequestOK(r)
  BY DEF IInv
<1>3. SignsIn(r)
  BY <1>1, <1>2 DEF RequestOK, Flow
<1>k. PICK k \in Keys : k = reads[r].key
  BY <1>1, <1>2, <1>3 DEF RequestOK, SigningIn
<1> DEFINE row == [session[k] EXCEPT !.state = "signed", !.hash = reads[r].hash]
<1>4. /\ session[k].opener = r /\ session[k] \in Row
      /\ reads[r].hash = Proof(r) /\ reads[r].keys = {} /\ email # r
      /\ Gone(k) \/ k \in Known
      /\ reads[r].hash \in Requests \cup {None}
  BY <1>1, <1>2, <1>3, <1>k DEF RequestOK, SigningIn, Invalidating, TypeOK, Reads
<1>5. \/ session[k].state = "empty" /\ session' = [session EXCEPT ![k] = row]
                                    /\ Continue(r, "ok")
      \/ session' = session /\ Continue(r, "interrupted")
  <2>1. CASE session[k].state = "empty"
    <3>1. session' = [session EXCEPT ![k].state = "signed", ![k].hash = reads[r].hash]
          /\ Continue(r, "ok")
      BY <2>1, <1>k DEF StoreSession
    <3>2. session' = [session EXCEPT ![k] = row]
      BY <3>1, <1>2, <1>4 DEF TypeOK, Row
    <3>3. QED
      BY <2>1, <3>1, <3>2
  <2>2. CASE session[k].state # "empty"
    BY <2>2, <1>k DEF StoreSession
  <2>3. QED
    BY <2>1, <2>2
<1>6. /\ row \in Row /\ row.state = "signed" /\ row.hash = Proof(r) /\ row.opener = r
  BY <1>4 DEF Row
<1> HIDE DEF row
<1>7. /\ pc'[r] \in {"ok", "interrupted"} /\ req' = req /\ before' = before /\ listed' = listed
      /\ \A q \in Requests \ {r} : pc'[q] = pc[q]
      /\ pc' \in [Requests -> {"idle"} \cup Working \cup Answered]
  BY <1>5, Continued DEF Answered
<1>8. /\ session' \in [Keys -> Row] /\ session'[k].opener = r
      /\ \A l \in Keys \ {k} : session'[l] = session[l]
      /\ \/ session'[k] = session[k]
         \/ session[k].state = "empty" /\ session'[k] = row
  <2>1. session \in [Keys -> Row]
    BY <1>2 DEF TypeOK
  <2>2. QED
    BY <2>1, <1>4, <1>5, <1>6
<1>9. TypeOK'
  BY <1>1, <1>2, <1>7, <1>8 DEF TypeOK, account
<1>10. \A l \in Keys : Keeps(l)
  <2>1. Keeps(k)
    <3>1. row.over = session[k].over
      BY <1>4 DEF row, Row
    <3>2. QED
      BY <1>1, <1>4, <1>6, <1>8, <3>1 DEF Keeps, Gone, Signed, Known
  <2>2. \A l \in Keys \ {k} : Keeps(l)
    BY <1>1, <1>8 DEF Keeps, Gone, Signed, Known
  <2>3. QED
    BY <2>1, <2>2
<1>11. Moves(r)
  BY <1>1, <1>7, <1>10 DEF Moves, account
<1>12. RequestOK(r)'
  <2>1. Flow(r)' /\ SigningIn(r)'
    BY <1>1, <1>2, <1>7 DEF RequestOK, Flow, SigningIn
  <2>2. \A l \in before[r] : l \in Keys /\ session[l].state \in {"signed", "deleted"}
    BY <1>1, <1>2 DEF RequestOK, Invalidating, TypeOK
  <2>3. \A l \in before'[r] : session'[l].state \in {"signed", "deleted"}
    BY <1>6, <1>7, <1>8, <2>2
  <2>4. Invalidating(r)'
    BY <1>1, <1>4, <1>7, <2>3 DEF Invalidating, account
  <2>5. QED
    BY <2>1, <2>4 DEF RequestOK
<1>13. \A l \in Keys : SessionOK(l)'
  <2>1. CASE session'[k] = session[k]
    BY <2>1, <1>8, <1>11, RowHolds
  <2>2. CASE session[k].state = "empty" /\ session'[k] = row
    <3>1. k \in tracked' \cup untracked'
      BY <1>1, <1>4, <2>2 DEF Gone, Known
    <3>2. SessionOK(k)'
      BY <1>3, <1>6, <1>7, <2>2, <3>1, NoneAssumption
         DEF SessionOK, Signed, Known, SignsIn, Proof
    <3>3. QED
      BY <1>8, <1>11, <3>2, RowHolds
  <2>3. QED
    BY <1>8, <2>1, <2>2
<1>14. QED
  BY <1>9, <1>11, <1>12, <1>13, StepHolds

LEMMA LoadSessionHolds ==
    ASSUME IInv, NEW r \in Requests, LoadSession(r)
    PROVE  IInv'
<1> DEFINE k == req[r].key
<1>1. /\ pc[r] = "load" /\ UNCHANGED <<account, tracked, untracked>>
  BY DEF LoadSession
<1>2. TypeOK /\ RequestOK(r)
  BY DEF IInv
<1>3. /\ k \in Keys /\ reads[r] \in Reads /\ reads[r].keys = {} /\ email # r
      /\ req[r].op \in {"browse", "confirm"}
  BY <1>1, <1>2 DEF RequestOK, Flow, Invalidating, TypeOK
<1>4. reads' = [reads EXCEPT ![r] = [reads[r] EXCEPT !.key = k]]
  BY <1>2 DEF LoadSession, TypeOK
<1>5. [reads[r] EXCEPT !.key = k] \in Reads
      /\ [reads[r] EXCEPT !.key = k].key = k
      /\ [reads[r] EXCEPT !.key = k].keys = {}
  BY <1>3 DEF Reads
<1>6. \/ Continue(r, "change") /\ req[r].op = "confirm"
      \/ Continue(r, "track")
      \/ Continue(r, "denied")
  BY DEF LoadSession
<1>7. /\ pc'[r] \in {"change", "track", "denied"} /\ req' = req /\ before' = before /\ listed' = listed
      /\ pc'[r] = "change" => req[r].op = "confirm"
      /\ \A q \in Requests \ {r} : pc'[q] = pc[q]
      /\ pc' \in [Requests -> {"idle"} \cup Working \cup Answered]
  BY <1>6, Continued DEF Working, Answered
<1> HIDE DEF k
<1>8. /\ reads' \in [Requests -> Reads]
      /\ \A q \in Requests \ {r} : reads'[q] = reads[q]
      /\ reads'[r].keys = {} /\ reads'[r].key = k
  BY <1>4, <1>5, Noted
<1>9. session' = Deleted({k}) \/ session' = session
  BY DEF LoadSession, k
<1>10. /\ session' \in [Keys -> Row]
       /\ \A l \in Keys : /\ session'[l].opener = session[l].opener
                          /\ session'[l].over = session[l].over
                          /\ session'[l] = session[l] \/ session'[l].state = "deleted"
  BY <1>2, <1>3, <1>9, DeletedRows DEF TypeOK
<1>11. TypeOK'
  BY <1>1, <1>2, <1>7, <1>8, <1>10 DEF TypeOK, account
<1>12. \A l \in Keys : Keeps(l)
  BY <1>1, <1>10, RowsKept DEF Known
<1>13. Moves(r)
  BY <1>1, <1>7, <1>8, <1>12 DEF Moves, account
<1>14. RequestOK(r)'
  <2>1. Flow(r)'
    BY <1>1, <1>2, <1>3, <1>7, <1>8 DEF RequestOK, Flow
  <2>2. SigningIn(r)'
    BY <1>3, <1>7 DEF SigningIn, SignsIn
  <2>3. \A l \in before[r] : l \in Keys /\ session[l].state \in {"signed", "deleted"}
    BY <1>1, <1>2 DEF RequestOK, Invalidating, TypeOK
  <2>4. \A l \in before'[r] : session'[l].state \in {"signed", "deleted"}
    BY <1>7, <1>10, <2>3
  <2>5. Invalidating(r)'
    BY <1>1, <1>3, <1>7, <1>8, <2>4 DEF Invalidating, account
  <2>6. QED
    BY <2>1, <2>2, <2>5 DEF RequestOK
<1>15. \A l \in Keys : SessionOK(l)'
  BY <1>10, <1>13, RowHolds
<1>16. QED
  BY <1>11, <1>13, <1>14, <1>15, StepHolds

LEMMA CommitChangeHolds ==
    ASSUME IInv, NEW r \in Requests, CommitChange(r)
    PROVE  IInv'
<1>1. pc[r] = "change" /\ UNCHANGED <<session, tracked, reads, untracked>>
  BY DEF CommitChange
<1>2. TypeOK /\ RequestOK(r)
  BY DEF IInv
<1>3. /\ reads[r].keys = {} /\ email # r /\ req[r].op \in {"reset", "confirm"}
      /\ req[r].op = "confirm" => req[r].key \in Keys /\ reads[r].key \in Keys
  BY <1>1, <1>2 DEF RequestOK, Flow, Invalidating
<1>4. \/ /\ Continue(r, "readKeys")
         /\ active' = active /\ password' \in {password, r} /\ email' \in {email, r}
      \/ Continue(r, "denied") /\ UNCHANGED account
      \/ Continue(r, "track") /\ req[r].op = "confirm" /\ UNCHANGED account
  BY <1>3 DEF CommitChange
<1>5. /\ pc'[r] \in {"readKeys", "denied", "track"} /\ req' = req /\ before' = before /\ listed' = listed
      /\ pc'[r] = "track" => req[r].op = "confirm"
      /\ \A q \in Requests \ {r} : pc'[q] = pc[q]
      /\ pc' \in [Requests -> {"idle"} \cup Working \cup Answered]
  BY <1>4, Continued DEF Answered, Working
<1>6. /\ active' = active /\ password' \in {password, r} /\ email' \in {email, r}
      /\ email' = r => pc'[r] = "readKeys"
  BY <1>2, <1>3, <1>4, Continued DEF account
<1>7. TypeOK'
  BY <1>1, <1>2, <1>5, <1>6 DEF TypeOK
<1>8. Moves(r)
  BY <1>1, <1>5, <1>6, StillKept DEF Moves
<1>9. RequestOK(r)'
  <2>1. Flow(r)'
    BY <1>1, <1>3, <1>5 DEF Flow, SignsIn
  <2>2. SigningIn(r)'
    BY <1>3, <1>5 DEF SigningIn, SignsIn
  <2>3. \A k \in before[r] : session[k].state \in {"signed", "deleted"}
    BY <1>1, <1>2 DEF RequestOK, Invalidating
  <2>4. Invalidating(r)'
    BY <1>1, <1>3, <1>5, <1>6, <2>3 DEF Invalidating
  <2>5. QED
    BY <2>1, <2>2, <2>4 DEF RequestOK
<1>10. \A k \in Keys : SessionOK(k)'
  BY <1>1, <1>8, RowHolds
<1>11. QED
  BY <1>7, <1>8, <1>9, <1>10, StepHolds

LEMMA ReadKeysHolds ==
    ASSUME IInv, NEW r \in Requests, ReadKeys(r)
    PROVE  IInv'
<1>1. /\ pc[r] = "readKeys" /\ Continue(r, "deleteSessions")
      /\ UNCHANGED <<account, session, tracked, untracked>>
  BY DEF ReadKeys
<1>2. TypeOK /\ RequestOK(r)
  BY DEF IInv
<1>3. reads[r] \in Reads /\ tracked \in SUBSET Keys /\ req[r].op \in {"reset", "confirm"}
      /\ (req[r].op = "confirm" => req[r].key \in Keys)
  BY <1>1, <1>2 DEF RequestOK, Flow, TypeOK
<1>4. reads' = [reads EXCEPT ![r] = [reads[r] EXCEPT !.keys = tracked]]
  BY <1>2 DEF ReadKeys, TypeOK
<1>5. [reads[r] EXCEPT !.keys = tracked] \in Reads
      /\ [reads[r] EXCEPT !.keys = tracked].keys = tracked
  BY <1>3 DEF Reads
<1>6. /\ pc'[r] = "deleteSessions" /\ req' = req /\ before' = before /\ listed' = listed
      /\ \A q \in Requests \ {r} : pc'[q] = pc[q]
      /\ pc' \in [Requests -> {"idle"} \cup Working \cup Answered]
  BY <1>1, Continued DEF Working
<1>7. /\ reads' \in [Requests -> Reads] /\ reads'[r].keys = tracked
      /\ \A q \in Requests \ {r} : reads'[q] = reads[q]
  BY <1>4, <1>5, Noted
<1>8. TypeOK'
  BY <1>1, <1>2, <1>6, <1>7 DEF TypeOK, account
<1>9. Moves(r)
  BY <1>1, <1>6, <1>7, StillKept DEF Moves, account
<1>10. RequestOK(r)'
  <2>1. Flow(r)' /\ SigningIn(r)'
    BY <1>3, <1>6 DEF Flow, SigningIn
  <2>2. \A k \in before[r] : k \in Keys /\ session[k].state \in {"signed", "deleted"}
    BY <1>1, <1>2 DEF RequestOK, Invalidating, TypeOK
  <2>3. \A k \in before[r] : \/ Gone(k) \/ k \in untracked \/ k \in tracked
                             \/ Strays(r, k)
    <3>1. ListedOK(r) /\ \A k \in Keys : SessionOK(k)
      BY DEF IInv
    <3>2. QED
      BY <1>1, <2>2, <3>1 DEF ListedOK, SessionOK, Signed, Gone, Known, Strays
  <2>4. Invalidating(r)'
    BY <1>1, <1>3, <1>6, <1>7, <2>2, <2>3 DEF Invalidating, account, Gone, Strays
  <2>5. QED
    BY <2>1, <2>4 DEF RequestOK
<1>11. \A k \in Keys : SessionOK(k)'
  BY <1>1, <1>9, RowHolds
<1>12. QED
  BY <1>8, <1>9, <1>10, <1>11, StepHolds

LEMMA DeleteSessionsHolds ==
    ASSUME IInv, NEW r \in Requests, DeleteSessions(r)
    PROVE  IInv'
<1>1. /\ pc[r] = "deleteSessions" /\ session' = Deleted(reads[r].keys)
      /\ Continue(r, "deleteTracked")
      /\ UNCHANGED <<account, tracked, reads, untracked>>
  BY DEF DeleteSessions
<1>2. TypeOK /\ RequestOK(r)
  BY DEF IInv
<1>3. reads[r].keys \in SUBSET Keys /\ req[r].op \in {"reset", "confirm"}
      /\ (req[r].op = "confirm" => req[r].key \in Keys)
  BY <1>1, <1>2 DEF RequestOK, Flow, TypeOK, Reads
<1>4. /\ pc'[r] = "deleteTracked" /\ req' = req /\ before' = before /\ listed' = listed
      /\ \A q \in Requests \ {r} : pc'[q] = pc[q]
      /\ pc' \in [Requests -> {"idle"} \cup Working \cup Answered]
  BY <1>1, Continued DEF Working
<1>5. /\ session' \in [Keys -> Row]
      /\ \A k \in reads[r].keys : session'[k].state = "deleted"
      /\ \A k \in Keys : /\ session'[k].opener = session[k].opener
                         /\ session'[k].over = session[k].over
                         /\ session'[k] = session[k] \/ session'[k].state = "deleted"
  BY <1>1, <1>3, DeletedRows
<1>6. TypeOK'
  BY <1>1, <1>2, <1>4, <1>5 DEF TypeOK, account
<1>7. \A k \in Keys : Keeps(k)
  BY <1>1, <1>5, RowsKept DEF Known
<1>8. Moves(r)
  BY <1>1, <1>4, <1>7 DEF Moves, account
<1>9. RequestOK(r)'
  <2>1. Flow(r)' /\ SigningIn(r)'
    BY <1>3, <1>4 DEF Flow, SigningIn
  <2>2. \A k \in before[r] : /\ k \in Keys
                             /\ session'[k].state \in {"signed", "deleted"}
    BY <1>1, <1>2, <1>5 DEF RequestOK, Invalidating, TypeOK
  <2>3. /\ email' = email /\ untracked' = untracked /\ reads' = reads
        /\ email = r /\ req[r].op = "confirm" =>
             \A k \in before[r] : \/ Gone(k) \/ k \in untracked \/ k \in reads[r].keys
                                  \/ Strays(r, k)
    BY <1>1, <1>2 DEF RequestOK, Invalidating, account
  <2>4. email = r /\ req[r].op = "confirm" =>
             \A k \in before[r] : \/ session'[k].state = "deleted" \/ k \in untracked
                                  \/ Strays(r, k)'
    BY <1>4, <1>5, <2>2, <2>3 DEF Gone, Strays
  <2>5. Invalidating(r)'
    BY <1>3, <1>4, <1>5, <2>2, <2>3, <2>4 DEF Invalidating, Gone
  <2>6. QED
    BY <2>1, <2>5 DEF RequestOK
<1>10. \A k \in Keys : SessionOK(k)'
  BY <1>5, <1>8, RowHolds
<1>11. QED
  BY <1>6, <1>8, <1>9, <1>10, StepHolds

LEMMA DeleteTrackedHolds ==
    ASSUME IInv, NEW r \in Requests, DeleteTracked(r)
    PROVE  IInv'
<1> DEFINE next == IF req[r].op = "confirm" THEN "flush" ELSE "ok"
<1>1. /\ pc[r] = "deleteTracked" /\ tracked' = {}
      /\ untracked' = untracked \cup (tracked \ reads[r].keys)
      /\ Continue(r, next)
      /\ UNCHANGED <<account, session, reads>>
  BY DEF DeleteTracked
<1>2. TypeOK /\ RequestOK(r)
  BY DEF IInv
<1>3. req[r].op = "confirm" => req[r].key \in Keys
  BY <1>1, <1>2 DEF RequestOK, Flow
<1>4. next \in {"flush", "ok"} /\ (next = "flush" => req[r].op = "confirm")
      /\ next \in Working \cup Answered
  BY DEF Working, Answered
<1> HIDE DEF next
<1>5. /\ pc'[r] = next /\ req' = req /\ before' = before /\ listed' = listed
      /\ \A q \in Requests \ {r} : pc'[q] = pc[q]
      /\ pc' \in [Requests -> {"idle"} \cup Working \cup Answered]
  BY <1>1, <1>4, Continued
<1>6. TypeOK'
  BY <1>1, <1>2, <1>5 DEF TypeOK, account
<1>7. \A k \in reads[r].keys : Gone(k)
  BY <1>1, <1>2 DEF RequestOK, Invalidating
<1>8. \A k \in Keys : Keeps(k)
  BY <1>1, <1>7, RowsKept DEF Known, Gone
<1>9. Moves(r)
  BY <1>1, <1>4, <1>5, <1>8 DEF Moves, account
<1>10. RequestOK(r)'
  <2>1. Flow(r)' /\ SigningIn(r)'
    BY <1>1, <1>2, <1>3, <1>4, <1>5 DEF RequestOK, Flow, SigningIn
  <2>2. Invalidating(r)'
    BY <1>1, <1>2, <1>4, <1>5 DEF RequestOK, Invalidating, account, Gone, Strays
  <2>3. QED
    BY <2>1, <2>2 DEF RequestOK
<1>11. \A k \in Keys : SessionOK(k)'
  BY <1>1, <1>9, RowHolds
<1>12. QED
  BY <1>6, <1>9, <1>10, <1>11, StepHolds

LEMMA FlushHolds ==
    ASSUME IInv, NEW r \in Requests, Flush(r)
    PROVE  IInv'
<1> DEFINE next == IF req[r].op = "logout" THEN "discard" ELSE "ok"
<1>1. /\ pc[r] = "flush" /\ session' = Deleted({req[r].key})
      /\ Continue(r, next)
      /\ UNCHANGED <<account, tracked, reads, untracked>>
  BY DEF Flush
<1>2. TypeOK /\ RequestOK(r)
  BY DEF IInv
<1>3. req[r].key \in Keys /\ reads[r].keys \in SUBSET Keys
  BY <1>1, <1>2 DEF RequestOK, Flow, TypeOK, Reads
<1>4. next \in {"discard", "ok"} /\ (next = "discard" => req[r].op = "logout")
      /\ next \in Working \cup Answered
  BY DEF Working, Answered
<1> HIDE DEF next
<1>5. /\ pc'[r] = next /\ req' = req /\ before' = before /\ listed' = listed
      /\ \A q \in Requests \ {r} : pc'[q] = pc[q]
      /\ pc' \in [Requests -> {"idle"} \cup Working \cup Answered]
  BY <1>1, <1>4, Continued
<1>6. /\ session' \in [Keys -> Row] /\ session'[req[r].key].state = "deleted"
      /\ \A k \in Keys : /\ session'[k].opener = session[k].opener
                         /\ session'[k].over = session[k].over
                         /\ session'[k] = session[k] \/ session'[k].state = "deleted"
  BY <1>1, <1>3, DeletedRows
<1>7. TypeOK'
  BY <1>1, <1>2, <1>5, <1>6 DEF TypeOK, account
<1>8. \A k \in Keys : Keeps(k)
  BY <1>1, <1>6, RowsKept DEF Known
<1>9. Moves(r)
  BY <1>1, <1>4, <1>5, <1>8 DEF Moves, account
<1>10. RequestOK(r)'
  <2>1. Flow(r)' /\ SigningIn(r)'
    BY <1>1, <1>2, <1>3, <1>4, <1>5 DEF RequestOK, Flow, SigningIn
  <2>2. \A k \in before[r] : /\ k \in Keys
                             /\ session'[k].state \in {"signed", "deleted"}
    BY <1>1, <1>2, <1>6 DEF RequestOK, Invalidating, TypeOK
  <2>3. /\ email' = email /\ untracked' = untracked /\ reads' = reads
        /\ email = r /\ req[r].op = "confirm" =>
             \A k \in before[r] : \/ Gone(k) \/ k \in untracked \/ k \in reads[r].keys
                                  \/ Strays(r, k)
        /\ \A k \in reads[r].keys : Gone(k)
        /\ next = "discard" => email # r /\ reads[r].keys = {}
    BY <1>1, <1>2, <1>4 DEF RequestOK, Invalidating, account
  <2>4. /\ \A k \in reads[r].keys : session'[k].state = "deleted"
        /\ email = r /\ req[r].op = "confirm" =>
             \A k \in before[r] : \/ session'[k].state = "deleted" \/ k \in untracked
                                  \/ Strays(r, k)'
    BY <1>3, <1>5, <1>6, <2>2, <2>3 DEF Gone, Strays
  <2>5. Invalidating(r)'
    BY <1>2, <1>4, <1>5, <1>6, <2>2, <2>3, <2>4 DEF RequestOK, Invalidating, Gone
  <2>6. QED
    BY <2>1, <2>5 DEF RequestOK
<1>11. \A k \in Keys : SessionOK(k)'
  BY <1>6, <1>9, RowHolds
<1>12. QED
  BY <1>7, <1>9, <1>10, <1>11, StepHolds

LEMMA DiscardHolds ==
    ASSUME IInv, NEW r \in Requests, Discard(r)
    PROVE  IInv'
<1>1. /\ pc[r] = "discard" /\ tracked' = tracked \ {req[r].key}
      /\ Continue(r, "ok")
      /\ UNCHANGED <<account, session, reads, untracked>>
  BY DEF Discard
<1>2. TypeOK /\ RequestOK(r)
  BY DEF IInv
<1>3. Gone(req[r].key) /\ reads[r].keys = {} /\ email # r
  BY <1>1, <1>2 DEF RequestOK, Flow, Invalidating
<1>4. /\ pc'[r] = "ok" /\ req' = req /\ before' = before /\ listed' = listed
      /\ \A q \in Requests \ {r} : pc'[q] = pc[q]
      /\ pc' \in [Requests -> {"idle"} \cup Working \cup Answered]
  BY <1>1, Continued DEF Answered
<1>5. TypeOK'
  BY <1>1, <1>2, <1>4 DEF TypeOK, account
<1>6. \A k \in Keys : Keeps(k)
  BY <1>1, <1>3, RowsKept DEF Known, Gone
<1>7. Moves(r)
  BY <1>1, <1>4, <1>6 DEF Moves, account
<1>8. RequestOK(r)'
  <2>1. Flow(r)' /\ SigningIn(r)'
    BY <1>1, <1>2, <1>4 DEF RequestOK, Flow, SigningIn
  <2>2. Invalidating(r)'
    BY <1>1, <1>2, <1>3, <1>4 DEF RequestOK, Invalidating, account
  <2>3. QED
    BY <2>1, <2>2 DEF RequestOK
<1>9. \A k \in Keys : SessionOK(k)'
  BY <1>1, <1>7, RowHolds
<1>10. QED
  BY <1>5, <1>7, <1>8, <1>9, StepHolds

-----------------------------------------------------------------------------
(* The invariant, and what it says of sessions.                            *)

LEMMA InitIInv == Init => IInv
<1> SUFFICES ASSUME Init PROVE IInv
  OBVIOUS
<1>1. /\ active \in BOOLEAN /\ password = None /\ email = None
      /\ tracked = IF active THEN Early ELSE {}
      /\ untracked = {}
      /\ pc = [r \in Requests |-> "idle"]
      /\ req = [r \in Requests |-> NoRequest]
      /\ reads = [r \in Requests |-> NoReads]
      /\ before = [r \in Requests |-> {}]
      /\ listed = [r \in Requests |-> {}]
  BY DEF Init
<1>2. Early \subseteq Keys
  BY SetsAssumption
<1>3. /\ [Unused EXCEPT !.state = "signed"] \in Row /\ Unused \in Row
      /\ [Unused EXCEPT !.state = "signed"].hash = None
      /\ [Unused EXCEPT !.state = "signed"].opener = None
  BY DEF Unused, Row
<1>4. session \in [Keys -> Row]
      /\ \A k \in Keys : /\ session[k].opener = None /\ session[k].hash = None
                         /\ session[k].state = "signed" => k \in tracked
  BY <1>1, <1>3 DEF Init, Row, Unused
<1>5. NoRequest \in Request /\ NoRequest.op = "none" /\ NoReads \in Reads /\ NoReads.keys = {}
  BY DEF NoRequest, NoReads, Request, Reads, Operations
<1>6. TypeOK
  BY <1>1, <1>2, <1>4, <1>5 DEF TypeOK
<1>7. \A r \in Requests : /\ pc[r] = "idle" /\ req[r].op = "none" /\ reads[r].keys = {}
                          /\ email # r
  BY <1>1, <1>5, NoneAssumption
<1>8. \A r \in Requests : RequestOK(r)
  BY <1>7 DEF RequestOK, Flow, SigningIn, Invalidating
<1>9. \A k \in Keys : SessionOK(k)
  BY <1>4 DEF SessionOK, Signed, Known
<1>10. \A r \in Requests : ListedOK(r)
  BY <1>7 DEF ListedOK
<1>11. QED
  BY <1>6, <1>8, <1>9, <1>10 DEF IInv

LEMMA StepIInv == IInv /\ [Next]_vars => IInv'
<1> SUFFICES ASSUME IInv, [Next]_vars
             PROVE  IInv'
  OBVIOUS
<1>1. CASE UNCHANGED vars
  BY <1>1 DEF vars, account, IInv, TypeOK, RequestOK, Flow, SigningIn, Invalidating,
              Strays, ListedOK,
              SessionOK, Signed, Gone, Known, SignsIn, Proof
<1>2. CASE Quiescent
  BY <1>1, <1>2 DEF Quiescent
<1>3. ASSUME NEW r \in Requests, Arrival(r) PROVE IInv'
  BY <1>3, ArrivalHolds
<1>4. ASSUME NEW r \in Requests, Crash(r) PROVE IInv'
  BY <1>4, CrashHolds
<1>5. ASSUME NEW r \in Requests, Statement(r) PROVE IInv'
  BY <1>5, AuthenticateHolds, CommitActivationHolds, CreateSessionHolds, TrackHolds,
     InsertSessionHolds, StoreSessionHolds, LoadSessionHolds, CommitChangeHolds, ReadKeysHolds,
     DeleteSessionsHolds, DeleteTrackedHolds, FlushHolds, DiscardHolds DEF Statement
<1>6. QED
  BY <1>1, <1>2, <1>3, <1>4, <1>5 DEF Next

\* Whatever requests arrive and wherever they stop, IInv holds.
THEOREM Invariance == Spec => []IInv
  BY InitIInv, StepIInv, PTL DEF Spec

\* A session that authenticates belongs to a sign-in that gave, or set, the
\* password the account has now: no reset leaves one of the old password behind,
\* whatever sign-ins it overlaps.
THEOREM OldPasswordsAreOut == Spec => []SignedInWithThePassword
<1>1. IInv => SignedInWithThePassword
  <2> SUFFICES ASSUME IInv, NEW k \in Keys, Authenticates(k)
               PROVE  LET r == session[k].opener IN
                        \/ r = None /\ password = None
                        \/ r # None /\ req[r].op = "login" /\ req[r].password = password
                        \/ r # None /\ req[r].op = "activate" /\ password = r
    BY DEF SignedInWithThePassword
  <2>1. Signed(k) /\ session[k].hash = password /\ SessionOK(k)
    BY DEF Authenticates, IInv
  <2>2. CASE session[k].opener = None
    BY <2>1, <2>2 DEF SessionOK
  <2>3. CASE session[k].opener # None
    BY <2>1, <2>3 DEF SessionOK, SignsIn, Proof
  <2>4. QED
    BY <2>2, <2>3
<1>2. QED
  BY <1>1, Invariance, PTL

\* Every key an invalidation read is out for good once it answers, also when the
\* sign-in that drew the key was still writing the row.
THEOREM KeysReadStayOut == Spec => []InvalidatedStayOut
<1>1. IInv => InvalidatedStayOut
  BY DEF IInv, RequestOK, Invalidating, InvalidatedStayOut, Gone
<1>2. QED
  BY <1>1, Invariance, PTL

\* After a confirmed change of address, an earlier session is still signed in only
\* if another invalidation had deleted its AccountSession row unread, or if it
\* replaced one of another account and had no such row when the change arrived.
THEOREM OnlyTracklessSurvive == Spec => []SurvivorsLostTheirTrack
<1>1. IInv => SurvivorsLostTheirTrack
  <2> SUFFICES ASSUME IInv, NEW r \in Requests, req[r].op = "confirm", pc[r] = "ok",
                      email = r, NEW k \in before[r], Authenticates(k)
               PROVE  k \in untracked \/ (session[k].over /\ k \notin listed[r])
    BY DEF SurvivorsLostTheirTrack
  <2>1. Invalidating(r)
    BY DEF IInv, RequestOK
  <2>2. Gone(k) \/ k \in untracked \/ Strays(r, k)
    BY <2>1 DEF Invalidating
  <2>3. ~Gone(k)
    BY DEF Authenticates, Signed, Gone
  <2>4. QED
    BY <2>2, <2>3 DEF Strays
<1>2. QED
  BY <1>1, Invariance, PTL
=============================================================================
