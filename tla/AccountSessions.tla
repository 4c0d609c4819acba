-------------------------- MODULE AccountSessions --------------------------
(***************************************************************************)
(* The sessions of one account: signing in, the middleware that tracks     *)
(* sessions, signing out, and the invalidation that follows a password     *)
(* reset or a change of address (accounts/views.py, accounts/services.py,  *)
(* accounts/middleware.py over Django's database sessions).                *)
(*                                                                         *)
(* Nothing here runs in a transaction: every statement commits.  The       *)
(* commits of activate_account, reset_password and confirm_email_change    *)
(* are single steps; AccountProofs looks into them.                        *)
(***************************************************************************)
CONSTANTS
    Requests,  \* HTTP requests
    Keys,      \* session keys; one is never drawn twice
    Early,     \* the sessions that were signed in and tracked at the start
    Ops,       \* the operations requests may ask for
    None       \* no key and no request

Operations == {"login", "activate", "browse", "logout", "leave", "confirm", "reset"}

ASSUME NoneAssumption == None \notin Requests \cup Keys
ASSUME SetsAssumption == Early \subseteq Keys /\ Ops \subseteq Operations

VARIABLES
    active,     \* the account is active and verified
    password,   \* the request that set the password, None for the first
    email,      \* the request that set the address, None for the first
    session,    \* Session rows
    tracked,    \* keys with an AccountSession row
    pc,         \* the statement each request runs next
    req,        \* what each request asks for
    reads,      \* what it has read or created so far
    before,     \* history: sessions signed in when the request arrived
    listed,     \* history: sessions tracked when the request arrived
    untracked   \* history: keys whose row an invalidation deleted unread

account == <<active, password, email>>
vars == <<account, session, tracked, pc, req, reads, before, listed, untracked>>

-----------------------------------------------------------------------------
(* Rows and requests.                                                      *)

\* A session row is empty from cycle_key to the end of its first request.
\* hash is the password it was signed in with, opener the request that did;
\* over: in place of a session of another account, which was flushed.
Row == [state : {"unused", "empty", "signed", "deleted"},
        hash : Requests \cup {None}, opener : Requests \cup {None}, over : BOOLEAN]

Unused == [state |-> "unused", hash |-> None, opener |-> None, over |-> FALSE]

Signed(k) == session[k].state = "signed"

\* get_user compares the session's hash with that of the user's password.
Authenticates(k) == Signed(k) /\ session[k].hash = password /\ active

\* over: the browser that signs in holds a session of another account.
NoRequest == [op |-> "none", key |-> None, email |-> None, password |-> None,
              over |-> FALSE]

NoReads == [hash |-> None, key |-> None, keys |-> {}]

Working == {"authenticate", "activate", "create", "insert", "track", "store", "load",
            "change", "readKeys", "deleteSessions", "deleteTracked", "flush",
            "discard"}

Answered == {"ok", "denied", "interrupted", "crashed"}

Deleted(ks) == [k \in Keys |-> IF k \in ks THEN [session[k] EXCEPT !.state = "deleted"]
                                          ELSE session[k]]

Continue(r, next) ==
    /\ pc' = [pc EXCEPT ![r] = next]
    /\ UNCHANGED <<req, before, listed>>

-----------------------------------------------------------------------------
(* Requests arrive; visitors who sign in know the current credentials.     *)
(* Signing in may happen in a browser with a session of another account:   *)
(* activate asks nobody to sign out first, and neither does the admin's    *)
(* login nor AccountLoginView when that account has been deactivated.      *)

Arrive(r, op, key, over, first) ==
    /\ pc[r] = "idle"
    /\ op \in Ops
    /\ req' = [req EXCEPT ![r] = [op |-> op, key |-> key, email |-> email,
                                  password |-> password, over |-> over]]
    /\ pc' = [pc EXCEPT ![r] = first]
    /\ before' = [before EXCEPT ![r] = {k \in Keys : Authenticates(k)}]
    /\ listed' = [listed EXCEPT ![r] = tracked]
    /\ UNCHANGED <<account, session, tracked, reads, untracked>>

Login(r, over) == Arrive(r, "login", None, over, "authenticate")

Activate(r, over) == Arrive(r, "activate", None, over, "activate")

\* Any page behind login_required.
Browse(r, k) == Signed(k) /\ Arrive(r, "browse", k, FALSE, "load")

Logout(r, k) == Signed(k) /\ Arrive(r, "logout", k, FALSE, "flush")

\* Another account signs in over the session: login() flushes it, and nothing
\* forgets its AccountSession row.
SignInOther(r, k) == Signed(k) /\ Arrive(r, "leave", k, FALSE, "flush")

ConfirmEmailChange(r, k) == Signed(k) /\ Arrive(r, "confirm", k, FALSE, "load")

ResetPassword(r) == active /\ Arrive(r, "reset", None, FALSE, "change")

-----------------------------------------------------------------------------
(* Signing in: authenticate, login, the middlewares on the way out.        *)

\* login() cycles the key of a visitor's session and flushes another account's.
Opening(r) == IF req[r].over THEN "insert" ELSE "create"

Authenticate(r) ==
    /\ pc[r] = "authenticate"
    /\ IF active /\ req[r].email = email /\ req[r].password = password
          THEN /\ reads' = [reads EXCEPT ![r].hash = password]
               /\ Continue(r, Opening(r))
          ELSE Continue(r, "denied") /\ UNCHANGED reads
    /\ UNCHANGED <<account, session, tracked, untracked>>

CommitActivation(r) ==
    /\ pc[r] = "activate"
    /\ IF active
          THEN Continue(r, "denied") /\ UNCHANGED <<account, reads>>
          ELSE /\ active' = TRUE /\ password' = r /\ UNCHANGED email
               /\ reads' = [reads EXCEPT ![r].hash = r]
               /\ Continue(r, Opening(r))
    /\ UNCHANGED <<session, tracked, untracked>>

\* cycle_key draws a key and inserts an empty row.
CreateSession(r, k) ==
    /\ pc[r] = "create"
    /\ session[k] = Unused
    /\ session' = [session EXCEPT ![k] = [Unused EXCEPT !.state = "empty",
                                                        !.opener = r]]
    /\ reads' = [reads EXCEPT ![r].key = k]
    /\ Continue(r, "track")
    /\ UNCHANGED <<account, tracked, untracked>>

\* A flushed session has no key: AccountSessionMiddleware does not track it, and
\* SessionMiddleware then inserts it under a new key, signed in.
InsertSession(r, k) ==
    /\ pc[r] = "insert"
    /\ session[k] = Unused
    /\ session' = [session EXCEPT ![k] = [state |-> "signed", hash |-> reads[r].hash,
                                          opener |-> r, over |-> TRUE]]
    /\ Continue(r, "ok")
    /\ UNCHANGED <<account, tracked, reads, untracked>>

\* Mutant: only pages after the sign-in track the session.
TrackOnlyPages(r) ==
    /\ pc[r] = "track"
    /\ tracked' = IF req[r].op = "browse" THEN tracked \cup {reads[r].key} ELSE tracked
    /\ Continue(r, IF req[r].op = "browse" THEN "ok" ELSE "store")
    /\ UNCHANGED <<account, session, reads, untracked>>

\* AccountSessionMiddleware, when the response of an authenticated request is
\* there, whatever became of the session's row meanwhile.
Track(r) ==
    /\ pc[r] = "track"
    /\ tracked' = tracked \cup {reads[r].key}
    /\ Continue(r, IF req[r].op \in {"login", "activate"} THEN "store" ELSE "ok")
    /\ UNCHANGED <<account, session, reads, untracked>>

\* Mutant: the session takes the hash of the password of now.
StoreFreshHash(r) ==
    LET k == reads[r].key IN
        /\ pc[r] = "store"
        /\ session' = IF session[k].state = "empty"
                         THEN [session EXCEPT ![k].state = "signed", ![k].hash = password]
                         ELSE session
        /\ Continue(r, IF session[k].state = "empty" THEN "ok" ELSE "interrupted")
        /\ UNCHANGED <<account, tracked, reads, untracked>>

\* Mutant: a row that was deleted is inserted again.
StoreAnew(r) ==
    LET k == reads[r].key IN
        /\ pc[r] = "store"
        /\ session' = [session EXCEPT ![k].state = "signed", ![k].hash = reads[r].hash]
        /\ Continue(r, "ok")
        /\ UNCHANGED <<account, tracked, reads, untracked>>

\* SessionMiddleware updates the row; SessionInterrupted if it was deleted.
StoreSession(r) ==
    LET k == reads[r].key IN
        /\ pc[r] = "store"
        /\ IF session[k].state = "empty"
              THEN /\ session' = [session EXCEPT ![k].state = "signed",
                                                 ![k].hash = reads[r].hash]
                   /\ Continue(r, "ok")
              ELSE Continue(r, "interrupted") /\ UNCHANGED session
        /\ UNCHANGED <<account, tracked, reads, untracked>>

-----------------------------------------------------------------------------
(* Pages, signing out, and the two changes that invalidate sessions.       *)

\* get_user; a session with another password's hash is flushed.
LoadSession(r) ==
    LET k == req[r].key IN
        /\ pc[r] = "load"
        /\ reads' = [reads EXCEPT ![r].key = k]
        /\ IF Authenticates(k)
              THEN Continue(r, IF req[r].op = "confirm" THEN "change" ELSE "track")
              ELSE Continue(r, "denied")
        /\ session' = IF Signed(k) /\ session[k].hash # password
                         THEN Deleted({k}) ELSE session
        /\ UNCHANGED <<account, tracked, untracked>>

\* reset_password or confirm_email_change commits, or finds its code invalid.
CommitChange(r) ==
    /\ pc[r] = "change"
    /\ \/ /\ IF req[r].op = "reset" THEN password' = r /\ UNCHANGED <<active, email>>
                                    ELSE email' = r /\ UNCHANGED <<active, password>>
          /\ Continue(r, "readKeys")
       \/ /\ Continue(r, IF req[r].op = "reset" THEN "denied" ELSE "track")
          /\ UNCHANGED account
    /\ UNCHANGED <<session, tracked, reads, untracked>>

ReadKeys(r) ==
    /\ pc[r] = "readKeys"
    /\ reads' = [reads EXCEPT ![r].keys = tracked]
    /\ Continue(r, "deleteSessions")
    /\ UNCHANGED <<account, session, tracked, untracked>>

DeleteSessions(r) ==
    /\ pc[r] = "deleteSessions"
    /\ session' = Deleted(reads[r].keys)
    /\ Continue(r, "deleteTracked")
    /\ UNCHANGED <<account, tracked, reads, untracked>>

\* All rows of the user, those tracked since the keys were read as well.
DeleteTracked(r) ==
    /\ pc[r] = "deleteTracked"
    /\ tracked' = {}
    /\ untracked' = untracked \cup (tracked \ reads[r].keys)
    /\ Continue(r, IF req[r].op = "confirm" THEN "flush" ELSE "ok")
    /\ UNCHANGED <<account, session, reads>>

\* logout()
Flush(r) ==
    /\ pc[r] = "flush"
    /\ session' = Deleted({req[r].key})
    /\ Continue(r, IF req[r].op = "logout" THEN "discard" ELSE "ok")
    /\ UNCHANGED <<account, tracked, reads, untracked>>

Discard(r) ==
    /\ pc[r] = "discard"
    /\ tracked' = tracked \ {req[r].key}
    /\ Continue(r, "ok")
    /\ UNCHANGED <<account, session, reads, untracked>>

Crash(r) ==
    /\ pc[r] \in Working
    /\ Continue(r, "crashed")
    /\ UNCHANGED <<account, session, tracked, reads, untracked>>

-----------------------------------------------------------------------------
\* Either an account with sessions or one that awaits activation.
Init ==
    /\ active \in BOOLEAN
    /\ password = None /\ email = None
    /\ session = [k \in Keys |-> IF active /\ k \in Early
                                    THEN [Unused EXCEPT !.state = "signed"] ELSE Unused]
    /\ tracked = IF active THEN Early ELSE {}
    /\ pc = [r \in Requests |-> "idle"]
    /\ req = [r \in Requests |-> NoRequest]
    /\ reads = [r \in Requests |-> NoReads]
    /\ before = [r \in Requests |-> {}]
    /\ listed = [r \in Requests |-> {}]
    /\ untracked = {}

Arrival(r) ==
    \/ \E over \in BOOLEAN : Login(r, over) \/ Activate(r, over)
    \/ ResetPassword(r)
    \/ \E k \in Keys : \/ Browse(r, k) \/ ConfirmEmailChange(r, k)
                       \/ Logout(r, k) \/ SignInOther(r, k)

Statement(r) ==
    \/ Authenticate(r) \/ CommitActivation(r)
    \/ \E k \in Keys : CreateSession(r, k) \/ InsertSession(r, k)
    \/ Track(r) \/ StoreSession(r)
    \/ LoadSession(r) \/ CommitChange(r)
    \/ ReadKeys(r) \/ DeleteSessions(r) \/ DeleteTracked(r)
    \/ Flush(r) \/ Discard(r)

\* No request can run on: the site waits for more, or keys have run out.
Quiescent == (\A r \in Requests : pc[r] \notin Working \ {"create", "insert"}) /\ UNCHANGED vars

Next ==
    \/ \E r \in Requests : Arrival(r) \/ Statement(r) \/ Crash(r)
    \/ Quiescent

Spec == Init /\ [][Next]_vars

-----------------------------------------------------------------------------
(* Properties.                                                             *)

\* Whoever is signed in gave, or set, the password the account has now: a
\* reset ends the sessions of the old password, also those whose sign-in it
\* overlapped and whose rows invalidate_user_sessions did not see.
SignedInWithThePassword ==
    \A k \in Keys : Authenticates(k) =>
        LET r == session[k].opener IN
            \/ r = None /\ password = None
            \/ r # None /\ req[r].op = "login" /\ req[r].password = password
            \/ r # None /\ req[r].op = "activate" /\ password = r

\* A session whose key an invalidation has read never comes back, though its
\* own sign-in may still have been writing the row (invalidate_user_sessions
\* against SessionMiddleware).
InvalidatedStayOut ==
    \A r \in Requests : req[r].op \in {"reset", "confirm"} /\ pc[r] = "ok" =>
        \A k \in reads[r].keys : session[k].state = "deleted"

\* A session that was signed in when a change of address arrived survives its
\* answer only if an invalidation had once deleted its AccountSession row without
\* having read it, or if it was signed in over a session of another account and
\* no page of it had been answered yet (email_change_confirm, activate).
SurvivorsLostTheirTrack ==
    \A r \in Requests : req[r].op = "confirm" /\ pc[r] = "ok" /\ email = r =>
        \A k \in before[r] : Authenticates(k) =>
            \/ k \in untracked
            \/ session[k].over /\ k \notin listed[r]

=============================================================================
