------------------------------- MODULE SlotSession -------------------------------
(***************************************************************************)
(* The Telegram session of one account: core/telegram_client.py with the   *)
(* login endpoints of main.py and the logout of account_manager.py.        *)
(* Operations share the client on the session file behind the slot lock,   *)
(* but for those that get_client lends it to: they go on without the lock. *)
(* A login reserves the account, takes the file away and asks for a code   *)
(* through a client of its own, behind the login lock; the code is         *)
(* verified by a second request.  Coroutines of one event loop interleave  *)
(* at their awaits.                                                        *)
(***************************************************************************)
EXTENDS Integers, FiniteSets

CONSTANTS Op,         \* operations on the account's groups and chats
          Request,    \* requests to send a code, to verify one, to log out
          LoginDrops  \* whether the login client may lose its connection

VARIABLES op,         \* how far run_group_operation or run_dm_operation is
          request,    \* how far a request is
          client,     \* _clients[slot]: it is there, connected
          loginClient,\* _login_clients[slot]
          hung,       \* who waits for _login_lock while it holds it
          exclusive,  \* the slot is in _login_exclusive
          main,       \* what the session file is good for
          code,       \* login_state[slot]: a code was sent
          pending,    \* login_pending.json
          alone,      \* history: no two requests were under way at once
          loggedIn    \* history: a login succeeded and no request came since

vars == <<op, request, client, loginClient, hung, exclusive, main, code, pending, alone, loggedIn>>

(* waiting for the slot lock; connecting and using with it held; lent: the *)
(* operation has the client that get_client returned, and not the lock.    *)
OpStage == {"idle", "waiting", "connecting", "using", "lent"}

(* A send: release (also while the worker stops), abandon, unlink (the     *)
(* two halves of abandon_slot_session), purge, get (in get_login_client),  *)
(* asking (send_code_request), again (in get_login_client).  A verify:     *)
(* get1, signing, get2, checking, get3, commit, complete.  A logout:       *)
(* leave, then the same two halves as bye and unlink2, release2, forget.   *)
(* failed: in finalize_login_exclusive after an error.                     *)
Preparing == {"release", "abandon", "unlink", "purge"}
Asking == {"get", "asking", "again"}
Verifying == {"get1", "signing", "get2", "checking", "get3", "commit", "complete"}
Leaving == {"leave", "bye", "unlink2", "release2", "forget"}
RequestStage == {"new", "failed", "over"}
                \union Preparing \union Asking \union Verifying \union Leaving

Getting == {"get", "again", "get1", "get2", "get3"}

Nobody == "nobody"

ASSUME SessionAssumption ==
  /\ IsFiniteSet(Op) /\ IsFiniteSet(Request)
  /\ Op \intersect Request = {} /\ Nobody \notin Op \union Request
  /\ LoginDrops \in BOOLEAN

(* Types; who waits for the login lock for ever is in get_login_client.    *)
TypeOK ==
  /\ op \in [Op -> OpStage] /\ request \in [Request -> RequestStage]
  /\ client \in BOOLEAN /\ loginClient \in {"none", "up", "down"}
  /\ hung \in {Nobody} \union {r \in Request : request[r] \in Getting}
  /\ exclusive \in BOOLEAN
  /\ main \in {"none", "blank", "old", "committed"}
  /\ code \in BOOLEAN /\ pending \in BOOLEAN
  /\ alone \in BOOLEAN /\ loggedIn \in BOOLEAN

Init ==
  /\ op = [o \in Op |-> "idle"] /\ request = [r \in Request |-> "new"]
  /\ client = FALSE /\ loginClient = "none" /\ hung = Nobody
  /\ exclusive = FALSE /\ main = "old"
  /\ code = FALSE /\ pending = FALSE
  /\ alone = TRUE /\ loggedIn = FALSE

SlotFree == \A o \in Op : op[o] \in {"idle", "waiting", "lent"}
LoginFree == hung = Nobody

Active(r) == request[r] \notin {"new", "over"}
Alone(r) == \A q \in Request \ {r} : ~Active(q)

---------------------------------------------------------------------------
(* Operations: run_group_operation, run_dm_operation and get_client.       *)

Use(o, from, to) == op[o] = from /\ op' = [op EXCEPT ![o] = to]

opOnly == <<request, loginClient, hung, exclusive, code, pending, alone, loggedIn>>

(* A reserved slot is refused at once.                                     *)
OpEnters(o) ==
  /\ ~exclusive
  /\ Use(o, "idle", "waiting")
  /\ UNCHANGED <<client, main, opOnly>>

EnsureConnected_Unchecked(o, from) ==
  \/ /\ ~client
     /\ Use(o, from, "connecting") /\ UNCHANGED <<client, main, opOnly>>
  \/ /\ client
     /\ Use(o, from, "using") /\ UNCHANGED <<client, main, opOnly>>

(* _ensure_connected_unlocked, with the slot lock: reserved, reconnecting, *)
(* or connected.                                                           *)
EnsureConnected(o, from) ==
  \/ /\ exclusive
     /\ Use(o, from, "idle") /\ UNCHANGED <<client, main, opOnly>>
  \/ /\ ~exclusive /\ ~client
     /\ Use(o, from, "connecting") /\ UNCHANGED <<client, main, opOnly>>
  \/ /\ ~exclusive /\ client
     /\ Use(o, from, "using") /\ UNCHANGED <<client, main, opOnly>>

OpTakesLock(o) == SlotFree /\ EnsureConnected(o, "waiting")

(* Telethon creates the session file when there is none.                   *)
OpConnects(o) ==
  /\ Use(o, "connecting", "using")
  /\ client' = TRUE
  /\ main' = IF main = "none" THEN "blank" ELSE main
  /\ UNCHANGED opOnly

OpConnectFails_KeepsLock(o) ==
  /\ Use(o, "connecting", "connecting")
  /\ UNCHANGED <<client, main, opOnly>>

OpConnectFails(o) ==
  /\ Use(o, "connecting", "idle")
  /\ UNCHANGED <<client, main, opOnly>>

OpEnds(o) ==
  /\ Use(o, "using", "idle")
  /\ UNCHANGED <<client, main, opOnly>>

(* get_client returns: the lock goes, the client stays in use, and nothing *)
(* keeps it from being disconnected or abandoned until its user is done.   *)
OpLends(o) ==
  /\ Use(o, "using", "lent")
  /\ UNCHANGED <<client, main, opOnly>>

OpReturns(o) ==
  /\ Use(o, "lent", "idle")
  /\ UNCHANGED <<client, main, opOnly>>

(* A session error: disconnect, and try again with the lock held; the next *)
(* attempt comes after a sleep, so the check is that of OpRetries.         *)
OpRetries(o) ==
  /\ op[o] = "using"
  /\ op' = [op EXCEPT ![o] = IF exclusive THEN "idle" ELSE "connecting"]
  /\ client' = FALSE
  /\ UNCHANGED <<main, opOnly>>

OpStep(o) ==
  \/ OpTakesLock(o) \/ OpConnects(o) \/ OpConnectFails(o) \/ OpEnds(o) \/ OpRetries(o)
  \/ OpLends(o) \/ OpReturns(o)

---------------------------------------------------------------------------
(* Steps that login and logout share.                                      *)

Move(r, from, to) == request[r] = from /\ request' = [request EXCEPT ![r] = to]

Enter(r, to) ==
  /\ Move(r, "new", to)
  /\ alone' = (alone /\ Alone(r))
  /\ loggedIn' = FALSE

(* finalize_login_exclusive as far as release_login_client.                *)
Fail_KeepsReservation(r) ==
  /\ request' = [request EXCEPT ![r] = "failed"]
  /\ UNCHANGED exclusive

Fail(r) ==
  /\ request' = [request EXCEPT ![r] = "failed"]
  /\ exclusive' = FALSE

(* release_login_client: the lock, and the client disconnected.            *)
ReleaseLogin(r, from, to) ==
  /\ LoginFree
  /\ Move(r, from, to)
  /\ loginClient' = "none"

FailEnds(r) ==
  /\ ReleaseLogin(r, "failed", "over")
  /\ UNCHANGED <<op, client, hung, exclusive, main, code, pending, alone, loggedIn>>

(* release_session: disconnected under the slot lock.                      *)
ReleaseSession(r, from, to) ==
  /\ SlotFree
  /\ Move(r, from, to)
  /\ client' = FALSE
  /\ UNCHANGED <<op, loginClient, hung, exclusive, main, code, pending, alone, loggedIn>>

(* abandon_slot_session: the reference goes, the connection stays.         *)
Abandon(r, from, to) ==
  /\ SlotFree
  /\ Move(r, from, to)
  /\ client' = FALSE
  /\ UNCHANGED <<op, loginClient, hung, exclusive, main, code, pending, alone, loggedIn>>

Unlink(r, from, to) ==
  /\ ReleaseLogin(r, from, to)
  /\ UNCHANGED <<op, client, hung, exclusive, main, code, pending, alone, loggedIn>>

(* purge_all_session_artifacts: the file, its backup and the pending code. *)
Purge(r, from, to) ==
  /\ Move(r, from, to)
  /\ main' = "none" /\ pending' = FALSE
  /\ UNCHANGED <<op, client, loginClient, hung, exclusive, alone, loggedIn>>

(* get_login_client, with the login lock: the client that is there, a new  *)
(* one, no connection; or release_login_client with the lock held, for     *)
(* ever.                                                                   *)
GetLogin(r, from, to) ==
  /\ request[r] = from /\ LoginFree
  /\ \/ /\ loginClient \in {"up", "none"}
        /\ loginClient' = "up" /\ Move(r, from, to)
        /\ UNCHANGED <<hung, exclusive>>
     \/ /\ loginClient = "none"
        /\ Fail(r)
        /\ UNCHANGED <<loginClient, hung>>
     \/ /\ loginClient = "down"
        /\ hung' = r
        /\ UNCHANGED <<request, loginClient, exclusive>>
  /\ UNCHANGED <<op, client, main, code, pending, alone, loggedIn>>

LoginDisconnects ==
  /\ LoginDrops /\ loginClient = "up"
  /\ loginClient' = "down"
  /\ UNCHANGED <<op, request, client, hung, exclusive, main, code, pending, alone, loggedIn>>

---------------------------------------------------------------------------
(* send_otp.                                                               *)

SendCode(r) ==
  /\ Enter(r, "release")
  /\ exclusive' = TRUE
  /\ UNCHANGED <<op, client, loginClient, hung, main, code, pending>>

(* wait_for of four seconds around release_session.                        *)
ReleaseTimesOut(r) ==
  /\ Move(r, "release", "abandon")
  /\ UNCHANGED <<op, client, loginClient, hung, exclusive, main, code, pending, alone, loggedIn>>

(* wait_for of 45 seconds until purged, of 55 seconds until code sent: the *)
(* cancelled coroutine lets go of the login lock.                          *)
SendTimesOut(r) ==
  /\ request[r] \in Preparing \union {"get", "asking"}
  /\ Fail(r)
  /\ hung' = IF hung = r THEN Nobody ELSE hung
  /\ pending' = FALSE
  /\ UNCHANGED <<op, client, loginClient, main, code, alone, loggedIn>>

(* send_code_request is answered or refused.                               *)
CodeSent(r) ==
  /\ request[r] = "asking"
  /\ \/ Move(r, "asking", "again") /\ UNCHANGED <<exclusive, pending>>
     \/ Fail(r) /\ pending' = FALSE
  /\ UNCHANGED <<op, client, loginClient, hung, main, code, alone, loggedIn>>

(* The last get_login_client has no timeout; then login_state and the file *)
(* are written.                                                            *)
SendEnds(r) ==
  /\ request[r] = "again" /\ LoginFree
  /\ \/ /\ loginClient \in {"up", "none"}
        /\ loginClient' = "up" /\ Move(r, "again", "over")
        /\ code' = TRUE /\ pending' = TRUE
        /\ UNCHANGED <<hung, exclusive>>
     \/ /\ loginClient = "none"
        /\ Fail(r) /\ pending' = FALSE
        /\ UNCHANGED <<loginClient, hung, code>>
     \/ /\ loginClient = "down"
        /\ hung' = r
        /\ UNCHANGED <<request, loginClient, exclusive, code, pending>>
  /\ UNCHANGED <<op, client, main, alone, loggedIn>>

SendStep(r) ==
  \/ ReleaseSession(r, "release", "abandon") \/ ReleaseTimesOut(r)
  \/ Abandon(r, "abandon", "unlink") \/ Unlink(r, "unlink", "purge")
  \/ (Purge(r, "purge", "get") /\ UNCHANGED code)
  \/ GetLogin(r, "get", "asking") \/ SendTimesOut(r)
  \/ CodeSent(r) \/ SendEnds(r)

---------------------------------------------------------------------------
(* verify_otp and complete_login.                                          *)

Verify(r) ==
  /\ code \/ pending
  /\ Enter(r, "get1")
  /\ code' = TRUE
  /\ UNCHANGED <<op, client, loginClient, hung, exclusive, main, pending>>

(* sign_in: the code is right, or the request fails and may be repeated.   *)
SignedIn(r) ==
  /\ request[r] = "signing"
  /\ \/ Move(r, "signing", "get2") /\ UNCHANGED exclusive
     \/ Fail(r)
  /\ UNCHANGED <<op, client, loginClient, hung, main, code, pending, alone, loggedIn>>

(* is_user_authorized says yes, or the request fails.                      *)
Authorized(r) ==
  /\ request[r] = "checking"
  /\ \/ Move(r, "checking", "get3") /\ UNCHANGED exclusive
     \/ Fail(r)
  /\ UNCHANGED <<op, client, loginClient, hung, main, code, pending, alone, loggedIn>>

(* Not authorized; or get_me shows a phone that is logged in on another    *)
(* slot.                                                                   *)
NotAuthorized(r) ==
  /\ request[r] \in {"checking", "commit"}
  /\ Fail(r)
  /\ pending' = FALSE
  /\ UNCHANGED <<op, client, loginClient, hung, main, code, alone, loggedIn>>

(* get_me raises.                                                          *)
GetMeFails(r) ==
  /\ request[r] = "commit"
  /\ Fail(r)
  /\ UNCHANGED <<op, client, loginClient, hung, main, code, pending, alone, loggedIn>>

Commit_Forgets(r) ==
  /\ LoginFree
  /\ Move(r, "commit", "complete")
  /\ loginClient' = "none" /\ main' = main
  /\ code' = FALSE /\ pending' = FALSE /\ exclusive' = FALSE
  /\ UNCHANGED <<op, client, hung, alone, loggedIn>>

(* commit_login_session writes the session file; then complete_login up to *)
(* release_login_client.                                                   *)
Commit(r) ==
  /\ LoginFree
  /\ Move(r, "commit", "complete")
  /\ loginClient' = "none" /\ main' = "committed"
  /\ code' = FALSE /\ pending' = FALSE /\ exclusive' = FALSE
  /\ UNCHANGED <<op, client, hung, alone, loggedIn>>

Complete(r) ==
  /\ ReleaseLogin(r, "complete", "over")
  /\ loggedIn' = TRUE
  /\ UNCHANGED <<op, client, hung, exclusive, main, code, pending, alone>>

VerifyStep(r) ==
  \/ GetLogin(r, "get1", "signing") \/ SignedIn(r) \/ GetLogin(r, "get2", "checking")
  \/ Authorized(r) \/ GetLogin(r, "get3", "commit")
  \/ GetMeFails(r) \/ NotAuthorized(r) \/ Commit(r) \/ Complete(r)

---------------------------------------------------------------------------
(* logout_account.                                                         *)

Logout(r) ==
  /\ Enter(r, "leave")
  /\ exclusive' = FALSE
  /\ UNCHANGED <<op, client, loginClient, hung, main, code, pending>>

LogoutStep(r) ==
  \/ ReleaseSession(r, "leave", "bye")
  \/ Abandon(r, "bye", "unlink2") \/ Unlink(r, "unlink2", "release2")
  \/ ReleaseSession(r, "release2", "forget")
  \/ (Purge(r, "forget", "over") /\ code' = FALSE)

---------------------------------------------------------------------------
Next ==
  \/ \E o \in Op : OpEnters(o) \/ OpStep(o)
  \/ \E r \in Request :
       \/ SendCode(r) \/ Verify(r) \/ Logout(r)
       \/ SendStep(r) \/ VerifyStep(r) \/ LogoutStep(r) \/ FailEnds(r)
  \/ LoginDisconnects

Spec == Init /\ [][Next]_vars

(* Operations end after some attempts, so the slot lock is handed on; it   *)
(* and the login lock serve their waiters in order.                        *)
Fairness ==
  /\ \A o \in Op : WF_vars(OpEnds(o) \/ OpLends(o) \/ OpConnectFails(o))
  /\ \A r \in Request :
       SF_vars(SendStep(r) \/ VerifyStep(r) \/ LogoutStep(r) \/ FailEnds(r))

FairSpec == Spec /\ Fairness

---------------------------------------------------------------------------
(* Properties.                                                             *)

(* While a login that met no other request asks for its code or verifies   *)
(* it under the reservation, no operation has or opens a client on the     *)
(* session file that was taken away: what entered before the reservation   *)
(* is refused when it gets the lock.  It says nothing of a client that     *)
(* get_client lent before: that one is disconnected by the release, or     *)
(* stays with its user if the release timed out.                           *)
QuietLogin ==
  alone /\ exclusive /\ (\E r \in Request : request[r] \in Asking \union Verifying) =>
    ~client /\ SlotFree /\ main = "none"

(* The account is reserved only while a login is under way or a sent code  *)
(* waits to be verified: no timeout and no refusal leaves it reserved, so  *)
(* that the worker could never use it again.  A logout in the middle of a  *)
(* send does: it clears the reservation first and login_state last.        *)
ReservedForALogin ==
  alone /\ exclusive => code \/ \E r \in Request : Active(r)

(* A login that reported success leaves its session on disk until the next *)
(* request: no operation, and no step of the requests before it, replaces  *)
(* or removes it.  Overlapping requests may, since each purges the file.   *)
LoginSticks == alone /\ loggedIn => main = "committed"

(* However operations and other requests hold the locks, in the end no     *)
(* request is under way, unless someone got a login client without         *)
(* connection: then get_login_client waits for the lock that it holds.     *)
RequestsEnd == <>[]((\A r \in Request : ~Active(r)) \/ hung # Nobody)

(* get_login_client replaces a client that lost its connection.            *)
ClientReplaced == \A r \in Request : request[r] = "get2" ~> request[r] # "get2"
=============================================================================
