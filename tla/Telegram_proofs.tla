---------------------------- MODULE Telegram_proofs ----------------------------
(***************************************************************************)
(* An account on Telegram: the logins on its session (SlotSession), and a  *)
(* chat that it has (AutoReply).                                           *)
(*                                                                         *)
(* The session, for any operations and requests, any timeouts and lost     *)
(* connections.  Its properties speak of requests that did not overlap, so *)
(* the invariant follows the one request that is under way: what it has    *)
(* made sure of at each of its stages.                                     *)
(*                                                                         *)
(* The chat, for any number of messages and upsets and any sizes of syncs. *)
(* The invariant counts the replies to a message that were sent or will be *)
(* whatever the list says: they are one more than the upsets only if other *)
(* messages follow that message in the list or its reply is on its way     *)
(* there, and then no look at the list finds it unanswered.                *)
(***************************************************************************)
EXTENDS SlotSession, AutoReply, FiniteSetTheorems, SequenceTheorems, WellFoundedInduction, TLAPS

(* The session.                                                            *)

OneAtATime == alone => \A r, q \in Request : Active(r) /\ Active(q) => r = q

(* A request that failed, completed or logs out has given up the           *)
(* reservation.                                                            *)
GivenUp == {"failed", "complete"} \union Leaving
NotReserved == alone => \A r \in Request : request[r] \in GivenUp => ~exclusive

(* Past abandon_slot_session no operation has a client, nor gets one under *)
(* the reservation.                                                        *)
Detached ==
  alone /\ exclusive /\ (\A r \in Request : request[r] \notin {"release", "abandon"}) =>
    ~client /\ SlotFree

(* Past the purge there is no file either, until the login is committed.   *)
Purged ==
  alone /\ exclusive /\ (\A r \in Request : request[r] \notin Preparing) => main = "none"

Committed == alone => \A r \in Request : request[r] = "complete" => main = "committed"

(* Whoever comes after a login takes its success away.                     *)
Settled == alone /\ loggedIn => \A r \in Request : ~Active(r)

Safe ==
  /\ OneAtATime /\ NotReserved /\ ReservedForALogin
  /\ Detached /\ Purged /\ Committed /\ Settled /\ LoginSticks

SessionInv == TypeOK /\ Safe

---------------------------------------------------------------------------

LEMMA SessionInitHolds == Init => SessionInv
BY SessionAssumption DEF Init, SessionInv, Safe, TypeOK, OneAtATime, NotReserved, ReservedForALogin, Detached, Purged,
  Committed, Settled, LoginSticks, Active, OpStage, RequestStage, GivenUp, Leaving, Preparing

(* An operation touches its stage, the shared client and a file that is    *)
(* not there.                                                              *)
OpEffect(o) ==
  /\ \E s \in OpStage : op' = [op EXCEPT ![o] = s]
  /\ client' \in BOOLEAN
  /\ main' = main \/ (main = "none" /\ main' = "blank")
  /\ UNCHANGED opOnly

LEMMA OpEffects ==
  ASSUME TypeOK, NEW o \in Op, OpEnters(o) \/ OpStep(o)
  PROVE  OpEffect(o)
BY DEF TypeOK, OpEffect, OpEnters, OpStep, OpTakesLock, EnsureConnected, OpConnects, OpConnectFails, OpEnds,
  OpLends, OpReturns, OpRetries, Use, OpStage, opOnly

LEMMA OpSteps ==
  ASSUME SessionInv, NEW o \in Op, OpEnters(o) \/ OpStep(o)
  PROVE  SessionInv'
<1> USE DEF SessionInv, Safe
<1>1. OpEffect(o)
  BY OpEffects
<1>2. TypeOK'
  <2>1. op' \in [Op -> OpStage]
    BY <1>1 DEF OpEffect, TypeOK
  <2> QED
    BY <1>1, <2>1 DEF OpEffect, TypeOK, opOnly
<1>3. Detached'
  BY <1>1 DEF TypeOK, Detached, SlotFree, OpEffect, OpEnters, OpStep, OpTakesLock, EnsureConnected, OpConnects,
    OpConnectFails, OpEnds, OpLends, OpReturns, OpRetries, Use, opOnly
<1>4. Purged'
  BY <1>1 DEF TypeOK, Detached, Purged, SlotFree, OpEffect, OpEnters, OpStep, OpTakesLock, EnsureConnected,
    OpConnects, OpConnectFails, OpEnds, OpLends, OpReturns, OpRetries, Use, opOnly, Preparing
<1> QED
  BY <1>1, <1>2, <1>3, <1>4
  DEF OpEffect, opOnly, OneAtATime, NotReserved, ReservedForALogin, Committed, Settled, LoginSticks, Active

---------------------------------------------------------------------------
(* The steps of a request: the others stay where they are.                 *)

RequestSteps(r) ==
  SendCode(r) \/ Verify(r) \/ Logout(r) \/ SendStep(r) \/ VerifyStep(r) \/ LogoutStep(r) \/ FailEnds(r)

FieldsType ==
  /\ op' = op /\ client' \in BOOLEAN /\ loginClient' \in {"none", "up", "down"}
  /\ exclusive' \in BOOLEAN /\ main' \in {"none", "blank", "old", "committed"}
  /\ code' \in BOOLEAN /\ pending' \in BOOLEAN
  /\ alone' \in BOOLEAN /\ loggedIn' \in BOOLEAN

(* A request moves, and does not hang; or it hangs in get_login_client.    *)
Moves(r) ==
  \/ /\ \E s \in RequestStage : request' = [request EXCEPT ![r] = s]
     /\ (hung' = hung /\ (request[r] \notin Getting \/ hung # r)) \/ hung' = Nobody
  \/ request' = request /\ hung' = r /\ request[r] \in Getting

LEMMA MovesType ==
  ASSUME TypeOK, NEW r \in Request, FieldsType, Moves(r)
  PROVE  TypeOK'
<1>1. request' \in [Request -> RequestStage]
  BY DEF TypeOK, Moves
<1>2. hung' \in {Nobody} \union {q \in Request : request'[q] \in Getting}
  BY DEF TypeOK, Moves
<1> QED
  BY <1>1, <1>2 DEF TypeOK, FieldsType

LEMMA FailMoves ==
  ASSUME TypeOK, NEW r \in Request, Fail(r),
         (hung' = hung /\ (request[r] \notin Getting \/ hung # r)) \/ hung' = Nobody
  PROVE  Moves(r) /\ exclusive' = FALSE
  BY DEF Fail, Moves, RequestStage

LEMMA TypeKept ==
  ASSUME TypeOK, NEW r \in Request, RequestSteps(r)
  PROVE  TypeOK'
<1> SUFFICES FieldsType /\ Moves(r)
  BY MovesType
<1>0. /\ Preparing \union Asking \union Verifying \union Leaving \union {"failed", "over"} \subseteq RequestStage
      /\ Getting = {"get", "again", "get1", "get2", "get3"}
  BY DEF RequestStage, Getting
<1>1. ASSUME NEW from, NEW to \in RequestStage, from \notin Getting,
             ReleaseSession(r, from, to) \/ Abandon(r, from, to) \/ Unlink(r, from, to)
      PROVE  FieldsType /\ Moves(r)
  BY <1>1 DEF TypeOK, FieldsType, Moves, ReleaseSession, Abandon, Unlink, ReleaseLogin, LoginFree, Move
<1>2. ASSUME NEW from \in Getting, NEW to \in RequestStage, GetLogin(r, from, to)
      PROVE  FieldsType /\ Moves(r)
  BY <1>0, <1>2 DEF TypeOK, FieldsType, Moves, GetLogin, LoginFree, Fail, Move
<1>3. CASE SendCode(r) \/ Logout(r)
  BY <1>0, <1>3 DEF TypeOK, FieldsType, Moves, Preparing, Leaving, SendCode, Logout, Enter, Alone, Move
<1>4. CASE Verify(r) \/ FailEnds(r)
  BY <1>0, <1>4 DEF TypeOK, FieldsType, Moves, Verifying, Verify, FailEnds, Enter, Alone, ReleaseLogin, LoginFree, Move
<1>5. CASE SendStep(r)
  <2>1. {"release", "abandon", "unlink", "purge", "get", "asking"} \subseteq RequestStage
    BY <1>0 DEF Preparing, Asking
  <2>2. CASE ReleaseSession(r, "release", "abandon") \/ Abandon(r, "abandon", "unlink") \/ Unlink(r, "unlink", "purge")
    BY <1>0, <1>1, <2>1, <2>2
  <2>3. CASE ReleaseTimesOut(r) \/ (Purge(r, "purge", "get") /\ UNCHANGED code)
    BY <1>0, <2>1, <2>3 DEF TypeOK, FieldsType, Moves, ReleaseTimesOut, Purge, Move
  <2>4. CASE GetLogin(r, "get", "asking")
    BY <1>0, <1>2, <2>1, <2>4
  <2>5. CASE SendTimesOut(r)
    BY <1>0, <2>5, FailMoves DEF TypeOK, FieldsType, SendTimesOut
  <2>6. CASE CodeSent(r)
    <3>1. "again" \in RequestStage /\ request[r] \notin Getting /\ hung' = hung
      BY <1>0, <2>6 DEF Asking, CodeSent
    <3>2. (Move(r, "asking", "again") /\ UNCHANGED exclusive) \/ (Fail(r) /\ exclusive' = FALSE)
      BY <2>6 DEF CodeSent, Fail
    <3>3. Moves(r)
      BY <3>1, <3>2, FailMoves DEF Moves, Move
    <3> QED
      BY <2>6, <3>2, <3>3 DEF TypeOK, FieldsType, CodeSent
  <2>7. CASE SendEnds(r)
    <3>1. request[r] \in Getting /\ hung = Nobody /\ "over" \in RequestStage
      BY <1>0, <2>7 DEF SendEnds, LoginFree
    <3>2. \/ Move(r, "again", "over") /\ UNCHANGED hung
          \/ Fail(r) /\ UNCHANGED hung
          \/ request' = request /\ hung' = r
      BY <2>7 DEF SendEnds
    <3>3. Moves(r)
      BY <3>1, <3>2, FailMoves DEF Moves, Move
    <3> QED
      BY <2>7, <3>3 DEF TypeOK, FieldsType, SendEnds, Fail
  <2> QED
    BY <1>5, <2>2, <2>3, <2>4, <2>5, <2>6, <2>7 DEF SendStep
<1>6. CASE VerifyStep(r)
  <2>1. {"signing", "get2", "checking", "get3", "commit", "complete"} \subseteq RequestStage
    BY <1>0 DEF Verifying
  <2>2. CASE GetLogin(r, "get1", "signing") \/ GetLogin(r, "get2", "checking") \/ GetLogin(r, "get3", "commit")
    BY <1>0, <1>2, <2>1, <2>2
  <2>3. CASE SignedIn(r) \/ Authorized(r) \/ GetMeFails(r) \/ NotAuthorized(r)
    <3>1. request[r] \notin Getting /\ hung' = hung
      BY <1>0, <2>3 DEF SignedIn, Authorized, GetMeFails, NotAuthorized, Move
    <3>2. \/ (\E t \in {"get2", "get3"} : request' = [request EXCEPT ![r] = t]) /\ UNCHANGED exclusive
          \/ Fail(r)
      BY <2>3 DEF SignedIn, Authorized, GetMeFails, NotAuthorized, Move
    <3>3. Moves(r) /\ exclusive' \in BOOLEAN
      BY <2>1, <3>1, <3>2, FailMoves DEF Moves, TypeOK
    <3> QED
      BY <2>3, <3>3 DEF TypeOK, FieldsType, SignedIn, Authorized, GetMeFails, NotAuthorized
  <2>4. CASE Commit(r) \/ Complete(r)
    BY <1>0, <2>1, <2>4 DEF TypeOK, FieldsType, Moves, Commit, Complete, ReleaseLogin, LoginFree, Move
  <2> QED
    BY <1>6, <2>2, <2>3, <2>4 DEF VerifyStep
<1>7. CASE LogoutStep(r)
  <2>1. {"bye", "unlink2", "release2", "forget"} \subseteq RequestStage
    BY <1>0 DEF Leaving
  <2>2. CASE Purge(r, "forget", "over") /\ code' = FALSE
    BY <1>0, <2>2 DEF TypeOK, FieldsType, Moves, Purge, Move
  <2>3. CASE ReleaseSession(r, "leave", "bye") \/ Abandon(r, "bye", "unlink2")
    BY <1>0, <1>1, <2>1, <2>3
  <2>4. CASE Unlink(r, "unlink2", "release2") \/ ReleaseSession(r, "release2", "forget")
    BY <1>0, <1>1, <2>1, <2>4
  <2> QED
    BY <1>7, <2>2, <2>3, <2>4 DEF LogoutStep
<1> QED
  BY <1>3, <1>4, <1>5, <1>6, <1>7 DEF RequestSteps

Others(r) == \A q \in Request \ {r} : request[q] \in {"new", "over"}

(* Entering: whoever was under way, the requests are no longer alone.      *)
LEMMA EnterSteps ==
  ASSUME SessionInv, NEW r \in Request, SendCode(r) \/ Verify(r) \/ Logout(r)
  PROVE  Safe'
<1> USE DEF SessionInv, Safe, TypeOK
<1>1. alone' => alone /\ Others(r)
  BY DEF SendCode, Verify, Logout, Enter, Alone, Active, Others, RequestStage
<1>2. Others(r) => Others(r)' /\ \A q \in Request \ {r} : request'[q] = request[q]
  BY DEF SendCode, Verify, Logout, Enter, Move, Others
<1>3. request[r] = "new" /\ request'[r] \in {"release", "get1", "leave"} /\ ~loggedIn'
  BY DEF SendCode, Verify, Logout, Enter, Move
<1>4. OneAtATime' /\ Committed' /\ Settled' /\ LoginSticks'
  BY <1>1, <1>2, <1>3 DEF OneAtATime, Committed, Settled, LoginSticks, Others, Active
<1>5. CASE SendCode(r)
  BY <1>1, <1>2, <1>4, <1>5
  DEF SendCode, Enter, Move, Safe, NotReserved, ReservedForALogin, Detached, Purged, Others, Active, GivenUp,
    Leaving, Preparing
<1>6. CASE Verify(r)
  BY <1>1, <1>2, <1>4, <1>6
  DEF Verify, Enter, Move, Safe, NotReserved, ReservedForALogin, Detached, Purged, Others, Active, GivenUp,
    Leaving, Preparing, SlotFree
<1>7. CASE Logout(r)
  BY <1>1, <1>2, <1>4, <1>7
  DEF Logout, Safe, NotReserved, ReservedForALogin, Detached, Purged
<1> QED
  BY <1>5, <1>6, <1>7

(* Under way: alone, it is the only one.                                   *)
LEMMA OthersRest ==
  ASSUME SessionInv, NEW r \in Request, Active(r), alone
  PROVE  Others(r)
BY DEF SessionInv, Safe, OneAtATime, Others, Active

LEMMA SendSteps ==
  ASSUME SessionInv, NEW r \in Request, SendStep(r)
  PROVE  Safe'
<1> USE DEF SessionInv, Safe, TypeOK
<1>1. request[r] \in Preparing \union Asking /\ alone' = alone /\ loggedIn' = loggedIn
  BY DEF SendStep, ReleaseSession, ReleaseTimesOut, Abandon, Unlink, ReleaseLogin, Purge, GetLogin, SendTimesOut,
    CodeSent, SendEnds, Move, Preparing, Asking
<1>2. Active(r)
  BY <1>1 DEF Active, Preparing, Asking
<1>3. alone => Others(r) /\ ~loggedIn
  BY <1>2, OthersRest DEF Settled
<1>4. SUFFICES ASSUME alone PROVE Safe'
  BY <1>1 DEF Safe, OneAtATime, NotReserved, ReservedForALogin, Detached, Purged, Committed, Settled, LoginSticks
<1>5. \A q \in Request \ {r} : request'[q] = request[q]
  BY DEF SendStep, ReleaseSession, ReleaseTimesOut, Abandon, Unlink, ReleaseLogin, Purge, GetLogin, SendTimesOut,
    CodeSent, SendEnds, Move, Fail
<1>6. \/ request'[r] = "failed" /\ ~exclusive'
      \/ request'[r] = "over" /\ code'
      \/ request'[r] \in Preparing \union Asking /\ exclusive' = exclusive
  BY <1>1 DEF SendStep, ReleaseSession, ReleaseTimesOut, Abandon, Unlink, ReleaseLogin, Purge, GetLogin, SendTimesOut,
    CodeSent, SendEnds, Move, Fail, Preparing, Asking
<1>7. OneAtATime' /\ NotReserved' /\ ReservedForALogin' /\ Committed' /\ Settled' /\ LoginSticks'
  BY <1>1, <1>3, <1>4, <1>5, <1>6
  DEF OneAtATime, NotReserved, ReservedForALogin, Committed, Settled, LoginSticks, Others, Active, GivenUp,
    Leaving, Preparing, Asking
<1>8. Detached' /\ Purged'
  <2> USE DEF Detached, Purged, SlotFree, Preparing
  <2>1. CASE ReleaseSession(r, "release", "abandon") \/ ReleaseTimesOut(r)
    BY <1>3, <1>4, <1>5, <2>1 DEF ReleaseSession, ReleaseTimesOut, Move, Others
  <2>2. CASE Abandon(r, "abandon", "unlink")
    BY <1>3, <1>4, <1>5, <2>2 DEF Abandon, Move, Others
  <2>3. CASE Unlink(r, "unlink", "purge")
    BY <1>3, <1>4, <1>5, <2>3 DEF Unlink, ReleaseLogin, Move, Others
  <2>4. CASE Purge(r, "purge", "get")
    BY <1>3, <1>4, <1>5, <2>4 DEF Purge, Move, Others
  <2>5. CASE GetLogin(r, "get", "asking") \/ CodeSent(r) \/ SendEnds(r)
    <3>1. request[r] \in Asking /\ (exclusive' => exclusive) /\ UNCHANGED <<op, client, main>>
      BY <2>5 DEF GetLogin, CodeSent, SendEnds, Move, Fail, Asking
    <3>2. \A q \in Request : request[q] \notin Preparing
      BY <1>3, <1>4, <3>1 DEF Others, Asking
    <3> QED
      BY <1>4, <3>1, <3>2
  <2>6. CASE SendTimesOut(r)
    BY <2>6 DEF SendTimesOut, Fail
  <2> QED
    BY <2>1, <2>2, <2>3, <2>4, <2>5, <2>6 DEF SendStep
<1> QED
  BY <1>7, <1>8 DEF Safe

LEMMA VerifySteps ==
  ASSUME SessionInv, NEW r \in Request, VerifyStep(r)
  PROVE  Safe'
<1> USE DEF SessionInv, Safe, TypeOK
<1>1. request[r] \in Verifying /\ alone' = alone
  BY DEF VerifyStep, GetLogin, SignedIn, Authorized, GetMeFails, NotAuthorized, Commit, Complete,
    ReleaseLogin, Move, Verifying
<1>2. Active(r)
  BY <1>1 DEF Active, Verifying
<1>3. alone => Others(r) /\ ~loggedIn
  BY <1>2, OthersRest DEF Settled
<1>4. SUFFICES ASSUME alone PROVE Safe'
  BY <1>1 DEF Safe, OneAtATime, NotReserved, ReservedForALogin, Detached, Purged, Committed, Settled, LoginSticks
<1>5. (\A q \in Request \ {r} : request'[q] = request[q]) /\ UNCHANGED <<op, client>>
  BY DEF VerifyStep, GetLogin, SignedIn, Authorized, GetMeFails, NotAuthorized, Commit, Complete,
    ReleaseLogin, Move, Fail
<1>6. \/ request'[r] = "failed" /\ ~exclusive' /\ ~loggedIn'
      \/ request'[r] = "complete" /\ ~exclusive' /\ main' = "committed" /\ ~loggedIn'
      \/ request[r] = "complete" /\ request'[r] = "over" /\ UNCHANGED <<exclusive, main>>
      \/ request'[r] \in Verifying \ {"complete"} /\ UNCHANGED <<exclusive, main, loggedIn>>
  BY <1>1, <1>3, <1>4 DEF VerifyStep, GetLogin, SignedIn, Authorized, GetMeFails, NotAuthorized, Commit, Complete,
    ReleaseLogin, Move, Fail,
    Verifying
<1>7. OneAtATime' /\ NotReserved' /\ ReservedForALogin' /\ Committed' /\ Settled' /\ LoginSticks'
  BY <1>1, <1>3, <1>4, <1>5, <1>6
  DEF OneAtATime, NotReserved, ReservedForALogin, Committed, Settled, LoginSticks, Others, Active, GivenUp,
    Leaving, Verifying
<1>8. Detached' /\ Purged'
  BY <1>1, <1>3, <1>4, <1>5, <1>6
  DEF NotReserved, GivenUp, Detached, Purged, SlotFree, Preparing, Verifying, Others
<1> QED
  BY <1>7, <1>8 DEF Safe

(* A logout and a request that failed hold no reservation.                 *)
LEMMA LogoutSteps ==
  ASSUME SessionInv, NEW r \in Request, LogoutStep(r) \/ FailEnds(r)
  PROVE  Safe'
<1> USE DEF SessionInv, Safe, TypeOK
<1>1. request[r] \in Leaving \union {"failed"} /\ UNCHANGED <<alone, loggedIn, exclusive>>
  BY DEF LogoutStep, ReleaseSession, Abandon, Unlink, Purge, FailEnds, ReleaseLogin, Move, Leaving
<1>2. Active(r)
  BY <1>1 DEF Active, Leaving
<1>3. alone => Others(r) /\ ~loggedIn /\ ~exclusive
  BY <1>1, <1>2, OthersRest DEF Settled, NotReserved, GivenUp
<1>4. \A q \in Request \ {r} : request'[q] = request[q]
  BY DEF LogoutStep, ReleaseSession, Abandon, Unlink, Purge, FailEnds, ReleaseLogin, Move
<1>5. request'[r] \in Leaving \union {"over"}
  BY <1>1 DEF LogoutStep, ReleaseSession, Abandon, Unlink, Purge, FailEnds, ReleaseLogin, Move, Leaving
<1> QED
  BY <1>1, <1>3, <1>4, <1>5
  DEF Safe, OneAtATime, NotReserved, ReservedForALogin, Detached, Purged, Committed, Settled, LoginSticks, Others,
    Active, GivenUp, Leaving

LEMMA SessionStep == SessionInv /\ [Next]_vars => SessionInv'
<1> SUFFICES ASSUME SessionInv, [Next]_vars PROVE SessionInv'
  OBVIOUS
<1>1. CASE \E o \in Op : OpEnters(o) \/ OpStep(o)
  BY <1>1, OpSteps
<1>2. CASE \E r \in Request : \/ SendCode(r) \/ Verify(r) \/ Logout(r)
                             \/ SendStep(r) \/ VerifyStep(r) \/ LogoutStep(r) \/ FailEnds(r)
  <2>1. PICK r \in Request : RequestSteps(r)
    BY <1>2 DEF RequestSteps
  <2>2. TypeOK'
    BY <2>1, TypeKept DEF SessionInv
  <2>3. Safe'
    BY <2>1, EnterSteps, SendSteps, VerifySteps, LogoutSteps DEF RequestSteps
  <2> QED
    BY <2>2, <2>3 DEF SessionInv
<1>3. CASE LoginDisconnects \/ UNCHANGED vars
  BY <1>3 DEF LoginDisconnects, vars, SessionInv, Safe, TypeOK, OneAtATime, NotReserved, ReservedForALogin, Detached, Purged,
    Committed, Settled, LoginSticks, Active, SlotFree
<1> QED
  BY <1>1, <1>2, <1>3 DEF Next

---------------------------------------------------------------------------
(* The theorems.                                                           *)

(* The invariant holds in every state of every behaviour.                  *)
THEOREM SessionInvariantHolds == Spec => []SessionInv
BY SessionInitHolds, SessionStep, PTL DEF Spec

(* The state has its type: whoever waits for the login lock for ever is in *)
(* get_login_client.                                                       *)
THEOREM SessionTypeCorrect == Spec => []TypeOK
<1>1. SessionInv => TypeOK
  BY DEF SessionInv, Safe
<1> QED
  BY <1>1, SessionInvariantHolds, PTL

(* A login that met no other request asks for its code and verifies it     *)
(* with no operation on the session and the file away.                     *)
THEOREM LoginsAreQuiet == Spec => []QuietLogin
<1>1. SessionInv => QuietLogin
  <2> SUFFICES ASSUME SessionInv, alone, exclusive, NEW r \in Request, request[r] \in Asking \union Verifying
               PROVE  ~client /\ SlotFree /\ main = "none"
    BY DEF QuietLogin
  <2>1. \A q \in Request : request[q] \notin Preparing
    BY OthersRest DEF Others, Active, Asking, Verifying, Preparing
  <2> QED
    BY <2>1 DEF SessionInv, Safe, Detached, Purged, Preparing
<1> QED
  BY <1>1, SessionInvariantHolds, PTL

(* No timeout, refusal or error of a login leaves the account reserved.    *)
THEOREM ReservationsEnd == Spec => []ReservedForALogin
<1>1. SessionInv => ReservedForALogin
  BY DEF SessionInv, Safe
<1> QED
  BY <1>1, SessionInvariantHolds, PTL

(* Nothing replaces or removes the session of a login that succeeded       *)
(* before the next request comes.                                          *)
THEOREM LoginsStick == Spec => []LoginSticks
<1>1. SessionInv => LoginSticks
  BY DEF SessionInv, Safe
<1> QED
  BY <1>1, SessionInvariantHolds, PTL

(* The slot lock, however requests overlap: one operation at a time        *)
(* connects or uses the account's client with the lock held, and none has  *)
(* it disconnected under its hands meanwhile.  Operations that got the     *)
(* client lent are not bound by the lock: they use it next to the holder,  *)
(* and may lose it.                                                        *)
HoldsLock(o) == op[o] \in {"connecting", "using"}
LockGuardsClient ==
  /\ \A o, p \in Op : HoldsLock(o) /\ HoldsLock(p) => o = p
  /\ \A o \in Op : op[o] = "using" => client

LEMMA SessionIsTaken ==
  ASSUME TypeOK, LockGuardsClient, Next
  PROVE  LockGuardsClient'
<1> USE DEF TypeOK, LockGuardsClient, HoldsLock
<1>1. ASSUME NEW o \in Op, OpEnters(o) \/ OpStep(o)
      PROVE  LockGuardsClient'
  BY <1>1 DEF OpEnters, OpStep, OpTakesLock, EnsureConnected, OpConnects, OpConnectFails, OpEnds, OpLends,
    OpReturns, OpRetries, Use, SlotFree, opOnly
<1>2. ASSUME op' = op, client' = client \/ SlotFree
      PROVE  LockGuardsClient'
  BY <1>2 DEF SlotFree
<1>3. ASSUME NEW r \in Request, RequestSteps(r)
      PROVE  op' = op /\ (client' = client \/ SlotFree)
  BY <1>3 DEF RequestSteps, SendCode, Verify, Logout, SendStep, VerifyStep, LogoutStep, FailEnds, Enter,
    ReleaseSession, ReleaseTimesOut, Abandon, Unlink, Purge, GetLogin, SendTimesOut, CodeSent, SendEnds, SignedIn,
    Authorized, GetMeFails, NotAuthorized, Commit, Complete
<1>4. CASE LoginDisconnects
  BY <1>2, <1>4 DEF LoginDisconnects
<1> QED
  BY <1>1, <1>2, <1>3, <1>4 DEF Next, RequestSteps

(* Operations that hold the slot lock exclude each other, and no request   *)
(* disconnects the client under the one that holds it.                     *)
THEOREM SlotLockIsExclusive == Spec => []LockGuardsClient
<1>1. Init => LockGuardsClient
  BY DEF Init, LockGuardsClient, HoldsLock
<1>2. TypeOK /\ LockGuardsClient /\ [Next]_vars => LockGuardsClient'
  BY SessionIsTaken DEF LockGuardsClient, HoldsLock, vars
<1> QED
  BY <1>1, <1>2, SessionTypeCorrect, PTL DEF Spec

---------------------------------------------------------------------------
(* The chat.                                                               *)

(* Lists of messages: what the list has, each message once.                *)
Rec == [id : Id, label : Label]
Once(s) == \A j, k \in DOMAIN s : s[j].id = s[k].id => j = k
Lists == {s \in Seq(Rec) : Len(s) <= Keep /\ Once(s)}
From(s, S) == \A k \in DOMAIN s : s[k].id \in S
Grows(s, t) == Len(s) <= Len(t) /\ \A k \in DOMAIN s : t[k].id = s[k].id

(* What is in the list, collected or under way was written in the chat,    *)
(* and the list has a message once.                                        *)
Listed ==
  /\ From(store, DOMAIN tg) /\ Once(store)
  /\ events \subseteq DOMAIN tg /\ fetched \subseteq DOMAIN tg \union NotRunning
  /\ out.stage \in {"taken", "syncing"} => out.id \in DOMAIN tg

OutShape ==
  /\ out.by = "nobody" <=> out.stage = "idle"
  /\ out.stage = "idle" <=> out = Idle
  /\ out.stage \in {"thinking", "tagging"} => out.by = "ai"

(* A message that others follow in the list is not answered any more,      *)
(* unless something is deleted.                                            *)
Passed(i) == \E k \in DOMAIN store : k < Len(store) /\ store[k].id = i

(* Replies that will be sent whatever the list says.                       *)
QueueOwes(i) == IF \E k \in DOMAIN queue : queue[k].id = i /\ queue[k].force THEN 1 ELSE 0
OutOwes(i) ==
  IF /\ out.by = "ai" /\ out.to = i
     /\ out.stage = "sending" \/ (out.stage = "thinking" /\ out.force)
    THEN 1 ELSE 0
Spent(i) == Cardinality(RepliesTo(i)) + QueueOwes(i) + OutOwes(i)

(* The reply to the last message of the list, past its last look at it and *)
(* not in the list yet.                                                    *)
OnItsWay(i) ==
  /\ out.by = "ai" /\ out.to = i /\ store # <<>> /\ store[Len(store)].id = i
  /\ \/ out.stage = "sending"
     \/ out.stage = "taken" /\ \A k \in DOMAIN store : store[k].id # out.id

Budget ==
  \A i \in Id : /\ Spent(i) <= 1 + upsets
                /\ Spent(i) = 1 + upsets => Passed(i) \/ OnItsWay(i)

Shape == ChatTypeOK /\ Listed /\ OutShape

(* No chat has more messages than its list keeps: nothing is trimmed.      *)
RoomForAll == MaxId <= Keep

---------------------------------------------------------------------------
(* Induction over the natural numbers, for sets.                           *)

LEMMA LessIsWellFounded ==
  \E R : IsWellFoundedOn(R, Nat) /\ \A x, y \in Nat : <<y, x>> \in R <=> y < x
<1>1. \A x, y \in Nat : <<y, x>> \in OpToRel(<, Nat) <=> y < x
  BY DEF OpToRel
<1> QED
  BY <1>1, NatLessThanWellFounded, Zenon

LEMMA Least ==
  ASSUME NEW T \in SUBSET Nat, T # {}
  PROVE  \E n \in T : \A m \in T : n <= m
<1>1. PICK R : IsWellFoundedOn(R, Nat) /\ \A x, y \in Nat : <<y, x>> \in R <=> y < x
  BY LessIsWellFounded, Zenon
<1>2. PICK n \in T : \A m \in T : ~(<<m, n>> \in R)
  BY <1>1, WFMin
<1>3. \A m \in T : n \in Nat /\ m \in Nat /\ ~(m < n)
  BY <1>1, <1>2
<1> QED
  BY <1>3

LEMMA SetInduction ==
  ASSUME NEW T, 0 \in T, \A n \in Nat : n \in T => n + 1 \in T
  PROVE  \A n \in Nat : n \in T
<1> SUFFICES ASSUME Nat \ T # {} PROVE FALSE
  OBVIOUS
<1>1. PICK n \in Nat \ T : \A m \in Nat \ T : n <= m
  BY Least
<1>2. n # 0 /\ n - 1 \in Nat /\ n - 1 \in T
  BY <1>1
<1> QED
  BY <1>1, <1>2

---------------------------------------------------------------------------
(* Lists of messages.                                                      *)


LEMMA GrowsOn == \A s, t, u \in Seq(Rec) : Grows(s, s) /\ (Grows(s, t) /\ Grows(t, u) => Grows(s, u))
  BY DEF Grows

LEMMA EntryIs ==
  /\ \A m \in Rec : m.id \in Id /\ m.label \in Label
  /\ \A s \in Seq(Rec) : \A k \in DOMAIN s : s[k] \in Rec
<1>1. \A m \in Rec : m.id \in Id /\ m.label \in Label
  BY DEF Rec
<1>2. \A s \in Seq(Rec) : \A k \in DOMAIN s : s[k] \in Rec
  OBVIOUS
<1> QED
  BY <1>1, <1>2

(* A list that has as many messages as there are has every message.        *)
LEMMA FullHasAll ==
  ASSUME ChatAssumption, RoomForAll, NEW s \in Lists, Len(s) = Keep, NEW i \in Id
  PROVE  \E k \in DOMAIN s : s[k].id = i
<1> SUFFICES ASSUME \A k \in DOMAIN s : s[k].id # i PROVE FALSE
  OBVIOUS
<1> DEFINE T == Id \ {i}
           f == [k \in 1 .. Keep |-> s[k].id]
<1>1. MaxId \in Nat /\ Keep \in Nat /\ MaxId <= Keep /\ s \in Seq(Rec) /\ Once(s) /\ DOMAIN s = 1 .. Keep
  BY DEF ChatAssumption, RoomForAll, Lists
<1>2. f \in [1 .. Keep -> T]
  <2>1. \A k \in 1 .. Keep : s[k] \in Rec /\ s[k].id \in Id /\ s[k].id # i
    BY <1>1, EntryIs
  <2> QED
    BY <2>1
<1>3. IsFiniteSet(Id) /\ Cardinality(Id) = MaxId
  <2>1. 1 \in Int /\ MaxId \in Int /\ (1 > MaxId <=> MaxId = 0) /\ MaxId - 1 + 1 = MaxId
    BY <1>1
  <2> QED
    BY <2>1, FS_Interval DEF Id
<1>4. IsFiniteSet(T) /\ Cardinality(T) = MaxId - 1
  BY <1>3, FS_RemoveElement
<1>5. IsFiniteSet(1 .. Keep) /\ Cardinality(1 .. Keep) = Keep
  BY <1>1, FS_Interval
<1>6. Cardinality(T) < Cardinality(1 .. Keep)
  BY <1>1, <1>4, <1>5
<1>7. \E x, y \in 1 .. Keep : x # y /\ f[x] = f[y]
  <2> HIDE DEF f, T
  <2> QED
    BY <1>2, <1>4, <1>5, <1>6, FS_PigeonHole
<1> QED
  BY <1>1, <1>7 DEF Once

LEMMA RelabelledIs == \A old, label \in Label : Relabelled(old, label) \in Label
  BY DEF Label, Relabelled

(* append_message: a message that is there keeps its place.                *)
LEMMA AppendedIs ==
  ASSUME ChatAssumption, NEW s \in Lists, NEW m \in Rec
  PROVE  LET t == Appended(s, m)
         IN  /\ t \in Lists
             /\ \A S : From(s, S) /\ m.id \in S => From(t, S)
             /\ \E k \in DOMAIN t : t[k].id = m.id
             /\ RoomForAll => Grows(s, t)
             /\ RoomForAll /\ (\A k \in DOMAIN s : s[k].id # m.id) => Len(s) < Len(t)
<1> DEFINE t == Appended(s, m)
           have == \E k \in DOMAIN s : s[k].id = m.id
<1>1. s \in Seq(Rec) /\ Len(s) <= Keep /\ Once(s) /\ Keep \in Nat \ {0} /\ Len(s) \in Nat /\ m.id \in Id /\ m.label \in Label
  BY DEF Lists, ChatAssumption, Rec
<1>2. CASE have
  <2>1. t = [k \in DOMAIN s |-> IF s[k].id = m.id
                                 THEN [s[k] EXCEPT !.label = Relabelled(s[k].label, m.label)] ELSE s[k]]
    BY <1>2 DEF Appended
  <2> HIDE DEF t
  <2>2. \A k \in DOMAIN s : s[k] \in Rec /\ s[k].label \in Label
    BY <1>1, EntryIs
  <2>3. \A k \in DOMAIN s : Relabelled(s[k].label, m.label) \in Label
    BY <1>1, <2>2, RelabelledIs
  <2>4. \A k \in DOMAIN s : t[k] \in Rec /\ t[k].id = s[k].id
    BY <2>1, <2>2, <2>3 DEF Rec
  <2>5. DOMAIN t = 1 .. Len(s) /\ t = [k \in 1 .. Len(s) |-> t[k]]
    BY <1>1, <2>1
  <2>6. t \in Seq(Rec) /\ Len(t) = Len(s)
    <3>1. \A k \in 1 .. Len(s) : t[k] \in Rec
      BY <1>1, <2>4
    <3>2. t \in [1 .. Len(s) -> Rec]
      BY <2>5, <3>1
    <3> QED
      BY <1>1, <3>2
  <2>7. t \in Lists
    BY <1>1, <2>4, <2>5, <2>6 DEF Lists, Once
  <2>8. /\ \A S : From(s, S) /\ m.id \in S => From(t, S)
        /\ \E k \in DOMAIN t : t[k].id = m.id
        /\ Grows(s, t)
    BY <1>1, <1>2, <2>4, <2>5, <2>6 DEF From, Grows
  <2> QED
    BY <1>2, <2>7, <2>8 DEF t
<1>3. CASE ~have
  <2> DEFINE u == IF Len(s) = Keep THEN Tail(s) ELSE s
  <2>1. t = Append(u, m)
    BY <1>3 DEF Appended
  <2>2. /\ u \in Seq(Rec) /\ Len(u) < Keep /\ Once(u) /\ \A S : From(s, S) => From(u, S)
        /\ \A k \in DOMAIN u : u[k].id # m.id
    <3>1. CASE Len(s) = Keep
      <4>1. u = Tail(s) /\ Len(u) = Len(s) - 1 /\ \A k \in DOMAIN u : k + 1 \in DOMAIN s /\ u[k] = s[k + 1]
        BY <1>1, <3>1
      <4>2. u \in Seq(Rec)
        BY <1>1, <3>1
      <4> HIDE DEF u
      <4> QED
        BY <1>1, <1>3, <3>1, <4>1, <4>2 DEF Once, From
    <3>2. CASE Len(s) # Keep
      BY <1>1, <1>3, <3>2
    <3> QED
      BY <3>1, <3>2
  <2>3. RoomForAll => u = s
    BY <1>1, <1>3, FullHasAll
  <2> HIDE DEF t, u
  <2>4. /\ t \in Seq(Rec) /\ Len(t) = Len(u) + 1 /\ t[Len(u) + 1] = m
        /\ \A k \in DOMAIN u : t[k] = u[k] /\ k \in DOMAIN t
        /\ \A k \in DOMAIN t : k \in DOMAIN u \/ k = Len(u) + 1
    BY <2>1, <2>2
  <2>5. t \in Lists
    BY <2>2, <2>4, <1>1 DEF Lists, Once
  <2>6. \A S : From(s, S) /\ m.id \in S => From(t, S)
    BY <2>2, <2>4 DEF From
  <2>7. \E k \in DOMAIN t : t[k].id = m.id
    BY <2>2, <2>4
  <2>8. RoomForAll => Grows(s, t) /\ Len(s) < Len(t)
    BY <2>2, <2>3, <2>4, <1>1 DEF Grows
  <2> QED
    BY <2>5, <2>6, <2>7, <2>8 DEF t
<1> QED
  BY <1>2, <1>3

LEMMA RecordIs == \A i \in Id : Record(i) \in Rec /\ Record(i).id = i
  BY DEF Record, Rec, Label

(* A sync appends message by message; so its list is well-defined.         *)
Put(ids, i, t) == IF i \in ids THEN Appended(t, Record(i)) ELSE t
UpTo(s, ids, f, n) == f = [i \in 0 .. n |-> IF i = 0 THEN s ELSE Put(ids, i, f[i - 1])]

LEMMA UpToExists ==
  ASSUME NEW s, NEW ids
  PROVE  \A n \in Nat : \E f : UpTo(s, ids, f, n)
<1> DEFINE T == {n \in Nat : \E f : UpTo(s, ids, f, n)}
<1>1. 0 \in T
  <2>1. UpTo(s, ids, [i \in 0 .. 0 |-> s], 0)
    BY DEF UpTo
  <2> QED
    BY <2>1
<1>2. ASSUME NEW n \in T PROVE n + 1 \in T
  <2>1. PICK f : UpTo(s, ids, f, n)
    OBVIOUS
  <2> DEFINE g == [i \in 0 .. (n + 1) |-> IF i = n + 1 THEN Put(ids, n + 1, f[n]) ELSE f[i]]
  <2>2. \A i \in 0 .. (n + 1) : g[i] = IF i = 0 THEN s ELSE Put(ids, i, g[i - 1])
    BY <2>1 DEF UpTo
  <2>3. UpTo(s, ids, g, n + 1)
    BY <2>2 DEF UpTo
  <2> QED
    BY <2>3
<1> HIDE DEF T
<1>3. \A n \in Nat : n \in T
  <2>1. \A n \in Nat : n \in T => n + 1 \in T
    BY <1>2
  <2> QED
    BY <1>1, <2>1, SetInduction
<1> QED
  BY <1>3 DEF T

LEMMA SyncedIsLast ==
  ASSUME ChatAssumption, NEW s, NEW ids
  PROVE  \E f : UpTo(s, ids, f, MaxId) /\ Synced(s, ids) = f[MaxId]
<1>1. \E f : UpTo(s, ids, f, MaxId)
  BY UpToExists DEF ChatAssumption
<1>2. \E f : f = [i \in 0 .. MaxId |-> IF i = 0 THEN s
                                       ELSE IF i \in ids THEN Appended(f[i - 1], Record(i)) ELSE f[i - 1]]
  BY <1>1 DEF UpTo, Put
<1> DEFINE g == CHOOSE f : f = [i \in 0 .. MaxId |-> IF i = 0 THEN s
                                       ELSE IF i \in ids THEN Appended(f[i - 1], Record(i)) ELSE f[i - 1]]
<1>3. g = [i \in 0 .. MaxId |-> IF i = 0 THEN s
                                 ELSE IF i \in ids THEN Appended(g[i - 1], Record(i)) ELSE g[i - 1]]
  BY <1>2
<1>4. UpTo(s, ids, g, MaxId)
  BY <1>3 DEF UpTo, Put
<1>5. Synced(s, ids) = g[MaxId]
  BY DEF Synced
<1> QED
  BY <1>4, <1>5

(* A sync keeps what the list has and adds what was collected.             *)
LEMMA SyncedIs ==
  ASSUME ChatAssumption, NEW s \in Lists, NEW ids \in SUBSET Id
  PROVE  LET t == Synced(s, ids)
         IN  /\ t \in Lists
             /\ \A S : From(s, S) /\ ids \subseteq S => From(t, S)
             /\ RoomForAll => Grows(s, t)
<1>1. PICK f : UpTo(s, ids, f, MaxId) /\ Synced(s, ids) = f[MaxId]
  BY SyncedIsLast
<1> DEFINE Good(t) == /\ t \in Lists
                      /\ \A S : From(s, S) /\ ids \subseteq S => From(t, S)
                      /\ RoomForAll => Grows(s, t)
           T == {n \in Nat : n <= MaxId => Good(f[n])}
<1>2. 0 \in T
  <2>1. f[0] = s /\ s \in Seq(Rec)
    BY <1>1 DEF UpTo, ChatAssumption, Lists
  <2> QED
    BY <2>1, GrowsOn
<1>3. ASSUME NEW n \in T, n + 1 <= MaxId PROVE Good(f[n + 1])
  <2>1. n + 1 \in 0 .. MaxId /\ n + 1 \in Id /\ n + 1 # 0 /\ n + 1 - 1 = n /\ n <= MaxId
    BY <1>3 DEF ChatAssumption, Id
  <2>2. f[n + 1] = Put(ids, n + 1, f[n])
    BY <1>1, <2>1 DEF UpTo
  <2>3. Good(f[n])
    BY <2>1
  <2>4. CASE n + 1 \notin ids
    BY <2>2, <2>3, <2>4 DEF Put
  <2>5. CASE n + 1 \in ids
    <3> DEFINE t == f[n]
               u == Appended(t, Record(n + 1))
    <3>1. f[n + 1] = u
      BY <2>2, <2>5 DEF Put
    <3>2. /\ u \in Lists
          /\ \A S : From(t, S) /\ n + 1 \in S => From(u, S)
          /\ RoomForAll => Grows(t, u)
      BY <2>1, <2>3, AppendedIs, RecordIs
    <3>3. \A S : From(s, S) /\ ids \subseteq S => From(u, S)
      BY <2>3, <2>5, <3>2
    <3>4. RoomForAll => Grows(s, u)
      BY <2>3, <3>2, GrowsOn DEF Lists
    <3> HIDE DEF u
    <3> QED
      BY <3>1, <3>2, <3>3, <3>4
  <2> QED
    BY <2>4, <2>5
<1> HIDE DEF Good
<1>4. \A n \in Nat : n \in T
  <2>1. \A n \in Nat : n \in T => n + 1 \in T
    BY <1>3
  <2> HIDE DEF T
  <2> QED
    BY <1>2, <2>1, SetInduction
<1>5. Good(f[MaxId])
  BY <1>4 DEF ChatAssumption
<1> QED
  BY <1>1, <1>5 DEF Good

(* A deletion, and the label that a reply gets.                            *)
LEMMA RemovedIs ==
  ASSUME ChatAssumption, NEW s \in Lists, NEW n \in DOMAIN s
  PROVE  LET t == RemoveAt(s, n)
         IN  t \in Lists /\ \A S : From(s, S) => From(t, S)
<1> DEFINE t == RemoveAt(s, n)
<1>1. s \in Seq(Rec) /\ Once(s) /\ Len(s) <= Keep /\ n \in 1 .. Len(s) /\ Len(s) \in Nat
  BY DEF Lists
<1>2. /\ t \in Seq(Rec) /\ Len(t) = Len(s) - 1
      /\ \A k \in 1 .. Len(s) - 1 : t[k] = IF k < n THEN s[k] ELSE s[k + 1]
  <2> DEFINE a == SubSeq(s, 1, n - 1)
             b == SubSeq(s, n + 1, Len(s))
  <2>1. a \in Seq(Rec) /\ Len(a) = n - 1 /\ \A k \in 1 .. n - 1 : a[k] = s[k]
    BY <1>1
  <2>2. b \in Seq(Rec) /\ Len(b) = Len(s) - n /\ \A k \in 1 .. Len(s) - n : b[k] = s[n + k]
    BY <1>1
  <2>3. t = a \o b
    BY DEF RemoveAt
  <2> HIDE DEF a, b, t
  <2>4. t \in Seq(Rec) /\ Len(t) = Len(s) - 1
    BY <1>1, <2>1, <2>2, <2>3
  <2>5. ASSUME NEW k \in 1 .. Len(s) - 1
        PROVE  t[k] = IF k < n THEN s[k] ELSE s[k + 1]
    <3>1. CASE k < n
      BY <1>1, <2>1, <2>2, <2>3, <3>1
    <3>2. CASE ~(k < n)
      <4>1. k - (n - 1) \in 1 .. Len(s) - n /\ n + (k - (n - 1)) = k + 1
        BY <1>1, <3>2
      <4>2. t[k] = b[k - Len(a)]
        <5>1. Len(a) = n - 1 /\ Len(a) + Len(b) = Len(s) - 1 /\ k \in 1 .. Len(s) - 1 /\ ~(k <= n - 1)
          BY <1>1, <2>1, <2>2, <3>2
        <5>2. \A i \in 1 .. Len(s) - 1 : t[i] = IF i <= Len(a) THEN a[i] ELSE b[i - Len(a)]
          <6>1. a \in Seq(Rec) /\ b \in Seq(Rec)
            BY <2>1, <2>2
          <6>2. \A i \in 1 .. Len(a) + Len(b) : (a \o b)[i] = IF i <= Len(a) THEN a[i] ELSE b[i - Len(a)]
            BY <6>1, ConcatProperties
          <6> QED
            BY <2>3, <5>1, <6>2
        <5> QED
          BY <5>1, <5>2
      <4> QED
        BY <2>1, <2>2, <3>2, <4>1, <4>2
    <3> QED
      BY <3>1, <3>2
  <2> QED
    BY <2>4, <2>5
<1>3. DOMAIN t = 1 .. Len(s) - 1 /\ DOMAIN s = 1 .. Len(s)
  BY <1>1, <1>2
<1> HIDE DEF t
<1>4. Once(t)
  <2> DEFINE h(k) == IF k < n THEN k ELSE k + 1
  <2>1. \A k \in DOMAIN t : h(k) \in DOMAIN s /\ t[k] = s[h(k)]
    BY <1>1, <1>2, <1>3
  <2>2. \A j, k \in DOMAIN t : h(j) = h(k) => j = k
    BY <1>1, <1>3
  <2> HIDE DEF h
  <2> QED
    BY <1>1, <2>1, <2>2 DEF Once
<1>5. \A S : From(s, S) => From(t, S)
  <2>1. \A k \in DOMAIN t : (t[k] = s[k] /\ k \in DOMAIN s) \/ (t[k] = s[k + 1] /\ k + 1 \in DOMAIN s)
    BY <1>1, <1>2, <1>3
  <2> QED
    BY <2>1 DEF From
<1>6. Len(t) <= Keep
  BY <1>1, <1>2 DEF ChatAssumption
<1> QED
  BY <1>2, <1>4, <1>5, <1>6 DEF t, Lists

LEMMA TaggedIs ==
  ASSUME NEW s \in Lists, NEW i
  PROVE  LET t == [k \in DOMAIN s |-> IF s[k].id = i THEN [s[k] EXCEPT !.label = "tagged"] ELSE s[k]]
         IN  t \in Lists /\ Grows(s, t) /\ \A S : From(s, S) => From(t, S)
<1> DEFINE t == [k \in DOMAIN s |-> IF s[k].id = i THEN [s[k] EXCEPT !.label = "tagged"] ELSE s[k]]
<1>1. s \in Seq(Rec) /\ Once(s) /\ Len(s) <= Keep /\ DOMAIN s = 1 .. Len(s) /\ Len(s) \in Nat
  BY DEF Lists
<1>2. \A k \in DOMAIN s : s[k] \in Rec
  BY <1>1, EntryIs
<1>3. \A k \in DOMAIN s : t[k] \in Rec /\ t[k].id = s[k].id
  BY <1>2 DEF Rec, Label
<1>4. t \in [1 .. Len(s) -> Rec]
  BY <1>1, <1>3
<1> HIDE DEF t
<1>5. t \in Seq(Rec) /\ Len(t) = Len(s) /\ DOMAIN t = DOMAIN s
  BY <1>1, <1>4
<1>6. Once(t) /\ Grows(s, t) /\ \A S : From(s, S) => From(t, S)
  BY <1>1, <1>3, <1>5 DEF Once, Grows, From
<1> QED
  BY <1>1, <1>5, <1>6 DEF t, Lists

---------------------------------------------------------------------------
(* The chat on Telegram and the replies in it.                             *)

TgRec == [by : {"client", "phone", "manual", "ai"}, to : Id \union {0}]

LEMMA WritesIs ==
  ASSUME ChatAssumption, ChatTypeOK, NEW by \in {"client", "phone", "manual", "ai"}, NEW to \in Id \union {0},
         Writes(by, to)
  PROVE  LET n == Len(tg) + 1
         IN  /\ tg' \in Seq(TgRec) /\ Len(tg') <= MaxId
             /\ n \in Id /\ n \notin DOMAIN tg /\ DOMAIN tg' = DOMAIN tg \union {n}
             /\ tg'[n] = [by |-> by, to |-> to] /\ \A j \in DOMAIN tg : tg'[j] = tg[j]
             /\ events' \subseteq events \union {n} /\ fresh' \subseteq fresh \union {n}
<1> DEFINE r == [by |-> by, to |-> to]
<1>1. tg \in Seq(TgRec) /\ Len(tg) < MaxId /\ MaxId \in Nat /\ Len(tg) \in Nat /\ tg' = Append(tg, r)
  BY DEF ChatTypeOK, TgRec, Writes, ChatAssumption
<1>2. r \in TgRec
  BY DEF TgRec
<1> HIDE DEF r
<1>3. /\ tg' \in Seq(TgRec) /\ Len(tg') = Len(tg) + 1 /\ tg'[Len(tg) + 1] = r
      /\ \A j \in DOMAIN tg : tg'[j] = tg[j]
  BY <1>1, <1>2
<1>4. DOMAIN tg = 1 .. Len(tg) /\ DOMAIN tg' = 1 .. Len(tg) + 1
  BY <1>1, <1>3
<1>5. events' \subseteq events \union {Len(tg) + 1} /\ fresh' \subseteq fresh \union {Len(tg) + 1}
  BY DEF Writes
<1> QED
  BY <1>1, <1>3, <1>4, <1>5 DEF r, Id

LEMMA RepliesFinite ==
  ASSUME ChatTypeOK, NEW i
  PROVE  IsFiniteSet(RepliesTo(i)) /\ Cardinality(RepliesTo(i)) \in Nat
<1>1. Len(tg) \in Nat /\ DOMAIN tg = 1 .. Len(tg)
  BY DEF ChatTypeOK
<1>2. IsFiniteSet(DOMAIN tg)
  BY <1>1, FS_Interval
<1>3. RepliesTo(i) \in SUBSET DOMAIN tg
  BY DEF RepliesTo
<1> QED
  BY <1>2, <1>3, FS_Subset, FS_CardinalityType

LEMMA RepliesAfterWrites ==
  ASSUME ChatAssumption, ChatTypeOK, NEW by \in {"client", "phone", "manual", "ai"}, NEW to \in Id \union {0},
         Writes(by, to), NEW i
  PROVE  Cardinality(RepliesTo(i)') = Cardinality(RepliesTo(i)) + IF by = "ai" /\ to = i THEN 1 ELSE 0
<1> DEFINE n == Len(tg) + 1
<1>1. /\ n \notin DOMAIN tg /\ DOMAIN tg' = DOMAIN tg \union {n}
      /\ tg'[n] = [by |-> by, to |-> to] /\ \A j \in DOMAIN tg : tg'[j] = tg[j]
  BY WritesIs
<1> HIDE DEF n
<1>2. RepliesTo(i)' = {j \in DOMAIN tg' : tg'[j].by = "ai" /\ tg'[j].to = i}
  BY DEF RepliesTo
<1>3. CASE by = "ai" /\ to = i
  <2>1. RepliesTo(i)' = RepliesTo(i) \union {n} /\ n \notin RepliesTo(i)
    BY <1>1, <1>2, <1>3 DEF RepliesTo
  <2> QED
    BY <1>3, <2>1, RepliesFinite, FS_AddElement
<1>4. CASE ~(by = "ai" /\ to = i)
  <2>1. RepliesTo(i)' = RepliesTo(i)
    BY <1>1, <1>2, <1>4 DEF RepliesTo
  <2> QED
    BY <1>4, <2>1, RepliesFinite
<1> QED
  BY <1>3, <1>4

---------------------------------------------------------------------------
(* What a step may do to the budget.                                       *)

Amounts == \A i \in Id : /\ QueueOwes(i) \in 0 .. 1 /\ OutOwes(i) \in 0 .. 1
                         /\ Cardinality(RepliesTo(i)) \in Nat /\ Spent(i) \in Nat

LEMMA AmountsType == ChatTypeOK => Amounts
<1> SUFFICES ASSUME ChatTypeOK, NEW i \in Id
             PROVE  /\ QueueOwes(i) \in 0 .. 1 /\ OutOwes(i) \in 0 .. 1
                    /\ Cardinality(RepliesTo(i)) \in Nat /\ Spent(i) \in Nat
  BY DEF Amounts
<1> QED
  BY RepliesFinite DEF QueueOwes, OutOwes, Spent

LEMMA UpsetsType == ChatAssumption /\ ChatTypeOK => upsets \in Nat
  BY DEF ChatAssumption, ChatTypeOK

LEMMA AmountsTypeNext == ChatTypeOK' => Amounts'
  BY AmountsType, PTL

SpendsNoMore == \A i \in Id : Spent(i)' <= Spent(i)
StaysPassed == \A i \in Id : /\ Passed(i) => Passed(i)'
                             /\ OnItsWay(i) => Passed(i)' \/ OnItsWay(i)'

LEMMA CalmBudget ==
  ASSUME ChatAssumption, ChatTypeOK, ChatTypeOK', Budget, SpendsNoMore, StaysPassed, upsets' = upsets
  PROVE  Budget'
<1> SUFFICES ASSUME NEW i \in Id
             PROVE  /\ Spent(i)' <= 1 + upsets'
                    /\ Spent(i)' = 1 + upsets' => Passed(i)' \/ OnItsWay(i)'
  BY DEF Budget
<1>1. Spent(i) \in Nat /\ Spent(i)' \in Nat /\ upsets \in Nat
  BY AmountsType, AmountsTypeNext, UpsetsType DEF Amounts
<1> QED
  BY <1>1 DEF Budget, SpendsNoMore, StaysPassed

LEMMA UpsetBudget ==
  ASSUME ChatAssumption, ChatTypeOK, ChatTypeOK', Budget, SpendsNoMore, upsets' = upsets + 1
  PROVE  Budget'
<1> SUFFICES ASSUME NEW i \in Id
             PROVE  /\ Spent(i)' <= 1 + upsets'
                    /\ Spent(i)' = 1 + upsets' => Passed(i)' \/ OnItsWay(i)'
  BY DEF Budget
<1>1. Spent(i) \in Nat /\ Spent(i)' \in Nat /\ upsets \in Nat
  BY AmountsType, AmountsTypeNext, UpsetsType DEF Amounts
<1> QED
  BY <1>1 DEF Budget, SpendsNoMore

(* What is owed does not grow with the queue or the task in hand.          *)
LEMMA OwesNoMore ==
  ASSUME ChatTypeOK, ChatTypeOK',
         \A i \in Id : /\ Cardinality(RepliesTo(i)') = Cardinality(RepliesTo(i))
                       /\ QueueOwes(i)' + OutOwes(i)' <= QueueOwes(i) + OutOwes(i)
  PROVE  SpendsNoMore
<1> SUFFICES ASSUME NEW i \in Id PROVE Spent(i)' <= Spent(i)
  BY DEF SpendsNoMore
<1>1. /\ QueueOwes(i) \in 0 .. 1 /\ OutOwes(i) \in 0 .. 1 /\ Cardinality(RepliesTo(i)) \in Nat
      /\ QueueOwes(i)' \in 0 .. 1 /\ OutOwes(i)' \in 0 .. 1
  BY AmountsType, AmountsTypeNext DEF Amounts
<1>2. Spent(i)' = Cardinality(RepliesTo(i)') + QueueOwes(i)' + OutOwes(i)'
  BY DEF Spent
<1> QED
  BY <1>1, <1>2 DEF Spent

LEMMA SameReplies == tg' = tg => \A i \in Id : Cardinality(RepliesTo(i)') = Cardinality(RepliesTo(i))
  BY DEF RepliesTo

LEMMA SameOwed ==
  /\ queue' = queue => \A i \in Id : QueueOwes(i)' = QueueOwes(i)
  /\ out' = out => \A i \in Id : OutOwes(i)' = OutOwes(i)
  BY DEF QueueOwes, OutOwes

(* The list grows: what was passed stays so, and the last message is still *)
(* the last or passed.                                                     *)
LEMMA GrowsPasses ==
  ASSUME store \in Lists, store' \in Lists, Grows(store, store')
  PROVE  \A i \in Id : /\ Passed(i) => Passed(i)'
                       /\ OnItsWay(i) => Passed(i)' \/ (Len(store') = Len(store) /\ (out' = out => OnItsWay(i)'))
<1> SUFFICES ASSUME NEW i \in Id
             PROVE  /\ Passed(i) => Passed(i)'
                    /\ OnItsWay(i) => Passed(i)' \/ (Len(store') = Len(store) /\ (out' = out => OnItsWay(i)'))
  OBVIOUS
<1>1. /\ Len(store) \in Nat /\ Len(store') \in Nat /\ Len(store) <= Len(store')
      /\ DOMAIN store = 1 .. Len(store) /\ DOMAIN store' = 1 .. Len(store')
      /\ \A k \in DOMAIN store : k \in DOMAIN store' /\ store'[k].id = store[k].id
  BY DEF Lists, Grows
<1>2. Passed(i) => Passed(i)'
  BY <1>1 DEF Passed
<1>3. ASSUME OnItsWay(i) PROVE Len(store) \in DOMAIN store /\ store[Len(store)].id = i /\ store # <<>>
  BY <1>1, <1>3 DEF OnItsWay, Lists
<1>4. ASSUME OnItsWay(i), Len(store') # Len(store) PROVE Passed(i)'
  <2>1. Len(store) \in DOMAIN store /\ store[Len(store)].id = i
    BY <1>3, <1>4
  <2>2. Len(store) < Len(store')
    <3> DEFINE m == Len(store)
               n == Len(store')
    <3>1. m \in Nat /\ n \in Nat /\ m <= n /\ n # m
      BY <1>1, <1>4
    <3> HIDE DEF m, n
    <3>2. m < n
      BY <3>1
    <3> QED
      BY <3>2 DEF m, n
  <2> QED
    BY <1>1, <2>1, <2>2 DEF Passed
<1>5. ASSUME OnItsWay(i), Len(store') = Len(store), out' = out PROVE OnItsWay(i)'
  <2>1. store' # <<>> /\ store'[Len(store')].id = i
    BY <1>1, <1>3, <1>5
  <2>2. DOMAIN store' = DOMAIN store
    BY <1>1, <1>5
  <2> QED
    BY <1>1, <1>5, <2>1, <2>2 DEF OnItsWay
<1> QED
  BY <1>2, <1>4, <1>5

---------------------------------------------------------------------------
(* The steps: the shape of the chat and its tasks, then the budget.        *)

(* A step keeps the shape and, of a list with room, the budget.            *)
Keeps == Shape' /\ (RoomForAll /\ Budget => Budget')

LEMMA StoreIs == ChatAssumption /\ Shape => store \in Lists /\ From(store, DOMAIN tg) /\ DOMAIN tg \subseteq Id
<1> SUFFICES ASSUME ChatAssumption, Shape PROVE store \in Lists /\ From(store, DOMAIN tg) /\ DOMAIN tg \subseteq Id
  OBVIOUS
<1>1. store \in Seq(Rec) /\ Len(store) <= Keep
  BY DEF Shape, ChatTypeOK, Rec
<1>2. tg \in Seq(TgRec) /\ Len(tg) <= MaxId /\ DOMAIN tg \subseteq 1 .. MaxId
  BY DEF ChatAssumption, Shape, ChatTypeOK, TgRec
<1> QED
  BY <1>1, <1>2 DEF ChatAssumption, Shape, Listed, Lists, Id

LEMMA Initially == ASSUME ChatAssumption, ChatInit PROVE Shape /\ Budget
<1>1. ChatTypeOK
  <2>1. /\ tg \in Seq([by : {"client", "phone", "manual", "ai"}, to : Id \union {0}]) /\ Len(tg) <= MaxId
        /\ store \in Seq([id : Id, label : Label]) /\ Len(store) <= Keep
        /\ queue \in Seq([id : Id, force : BOOLEAN]) /\ Len(queue) <= 1
    BY DEF ChatInit, ChatAssumption
  <2>2. out \in [by : {"nobody", "manual", "ai"}, to : Id \union {0}, stage : Stage,
                 id : Id \union {0}, force : BOOLEAN]
    BY DEF ChatInit, Idle, Stage
  <2>3. gone \subseteq Id /\ events \subseteq Id /\ asks \subseteq Id /\ fresh \subseteq Id
    BY DEF ChatInit
  <2>4. listening \in BOOLEAN /\ desk \in BOOLEAN /\ barred \in BOOLEAN /\ touched \in BOOLEAN /\ lead \in Lead
    BY DEF ChatInit, Lead
  <2>5. fetched \in (SUBSET Id) \union {NotRunning} /\ upsets \in 0 .. MaxUpsets
    BY DEF ChatInit, ChatAssumption
  <2> QED
    BY <2>1, <2>2, <2>3, <2>4, <2>5 DEF ChatTypeOK
<1>2. Listed /\ OutShape
  BY DEF ChatInit, Listed, OutShape, Once, From, NotRunning, Idle
<1>3. Budget
  <2>1. \A i \in Id : RepliesTo(i) = {} /\ QueueOwes(i) = 0 /\ OutOwes(i) = 0
    BY DEF ChatInit, RepliesTo, QueueOwes, OutOwes, Idle
  <2>2. Cardinality({}) = 0
    BY FS_EmptySet
  <2>3. ASSUME NEW i \in Id PROVE Spent(i) = 0
    <3>1. Cardinality(RepliesTo(i)) = 0
      BY <2>1, <2>2, Zenon
    <3> QED
      BY <2>1, <3>1 DEF Spent
  <2>4. upsets = 0
    BY DEF ChatInit
  <2> QED
    BY <2>3, <2>4 DEF Budget
<1> QED
  BY <1>1, <1>2, <1>3 DEF Shape

LEMMA UpsetIs == ChatAssumption /\ ChatTypeOK /\ Upset => upsets' = upsets + 1 /\ upsets' \in 0 .. MaxUpsets
  BY DEF ChatAssumption, ChatTypeOK, Upset

(* A message, and what else leaves the list and the tasks alone.           *)
LEMMA MessageKeeps ==
  ASSUME ChatAssumption, Shape, Message
  PROVE  Keeps
<1>1. PICK by \in {"client", "phone"} : Writes(by, 0)
  BY DEF Message
<1> DEFINE n == Len(tg) + 1
<1>2. /\ tg' \in Seq(TgRec) /\ Len(tg') <= MaxId
      /\ n \in Id /\ n \notin DOMAIN tg /\ DOMAIN tg' = DOMAIN tg \union {n}
      /\ events' \subseteq events \union {n} /\ fresh' \subseteq fresh \union {n}
  BY <1>1, WritesIs DEF Shape
<1> HIDE DEF n
<1>3. UNCHANGED <<gone, store, listening, fetched, asks, queue, desk, out, lead, barred, touched, upsets>>
  BY DEF Message
<1>4. ChatTypeOK'
  BY <1>2, <1>3 DEF Shape, ChatTypeOK, TgRec
<1>5. Listed' /\ OutShape'
  BY <1>2, <1>3 DEF Shape, Listed, OutShape, From
<1>6. SpendsNoMore
  <2>1. \A i \in Id : Cardinality(RepliesTo(i)') = Cardinality(RepliesTo(i))
    BY <1>1, RepliesAfterWrites, AmountsType DEF Shape, Amounts
  <2> QED
    BY <1>3, <1>4, <2>1, SameOwed, OwesNoMore, AmountsType DEF Shape, Amounts
<1>7. StaysPassed
  BY <1>3 DEF StaysPassed, Passed, OnItsWay
<1> QED
  BY <1>3, <1>4, <1>5, <1>6, <1>7, CalmBudget DEF Shape, Keeps

(* The steps that leave Telegram, the list and what is owed alone.         *)
LEMMA QuietBudget ==
  ASSUME ChatAssumption, Shape, Budget, ChatTypeOK', UNCHANGED <<tg, store, queue, out>>,
         upsets' = upsets \/ upsets' = upsets + 1
  PROVE  Budget'
<1>1. SpendsNoMore
  BY SameOwed, SameReplies, OwesNoMore, AmountsType DEF Shape, Amounts
<1>2. StaysPassed
  BY DEF StaysPassed, Passed, OnItsWay
<1> QED
  BY <1>1, <1>2, CalmBudget, UpsetBudget DEF Shape

LEMMA LatestIs == \A S, k : Latest(S, k) \subseteq S
  BY DEF Latest

LEMMA QuietKeeps ==
  ASSUME ChatAssumption, Shape,
         Detach \/ Attach \/ TimePasses \/ LightFetch \/ OpenFetch \/ Toggle \/ LastRefusal
  PROVE  Keeps
<1>1. /\ UNCHANGED <<tg, gone, store, queue, desk, out, asks, events>>
      /\ listening' \in BOOLEAN /\ fresh' \subseteq fresh /\ touched' \in BOOLEAN
      /\ lead' \in Lead /\ barred' \in BOOLEAN
  BY DEF Shape, ChatTypeOK, Detach, Attach, TimePasses, LightFetch, OpenFetch, Toggle, LastRefusal, chat, tasks, Lead
<1>2. upsets' = upsets \/ (upsets' = upsets + 1 /\ upsets' \in 0 .. MaxUpsets)
  BY UpsetIs DEF Shape, Detach, Attach, TimePasses, LightFetch, OpenFetch, Toggle, LastRefusal, chat
<1>3. fetched' = fetched \/ fetched' \subseteq DOMAIN tg
  BY LatestIs DEF Detach, Attach, TimePasses, LightFetch, OpenFetch, Toggle, LastRefusal, Collect, OnTelegram
<1>4. DOMAIN tg \subseteq Id
  BY StoreIs DEF Shape
<1>5. ChatTypeOK'
  BY <1>1, <1>2, <1>3, <1>4 DEF Shape, ChatTypeOK
<1>6. Listed' /\ OutShape'
  BY <1>1, <1>3 DEF Shape, Listed, OutShape, From, Once
<1>7. RoomForAll /\ Budget => Budget'
  BY <1>1, <1>2, <1>5, QuietBudget
<1> QED
  BY <1>5, <1>6, <1>7 DEF Shape, Keeps

(* The list grows by what was written in the chat.                         *)
LEMMA GrowBudget ==
  ASSUME ChatAssumption, Shape, Budget, ChatTypeOK', store' \in Lists, Grows(store, store'),
         UNCHANGED <<tg, queue, out, upsets>>
  PROVE  Budget'
<1>1. SpendsNoMore
  BY SameOwed, SameReplies, OwesNoMore, AmountsType DEF Shape, Amounts
<1>2. StaysPassed
  BY GrowsPasses, StoreIs DEF Shape, StaysPassed
<1> QED
  BY <1>1, <1>2, CalmBudget DEF Shape

LEMMA ListTypes ==
  ASSUME store' \in Lists
  PROVE  store' \in Seq([id : Id, label : Label]) /\ Len(store') <= Keep /\ Once(store')
  BY DEF Lists, Rec

LEMMA HandleEventKeeps ==
  ASSUME ChatAssumption, Shape, NEW i \in events, HandleEvent(i)
  PROVE  Keeps
<1>1. i \in Id /\ i \in DOMAIN tg
  BY DEF Shape, ChatTypeOK, Listed
<1>2. store \in Lists /\ From(store, DOMAIN tg) /\ store' = Appended(store, Record(i))
  BY StoreIs DEF Shape, HandleEvent
<1>3. store' \in Lists /\ (RoomForAll => Grows(store, store')) /\ From(store', DOMAIN tg)
  BY <1>1, <1>2, RecordIs, AppendedIs
<1>4. /\ UNCHANGED <<tg, gone, listening, fetched, queue, desk, out, lead, fresh, barred, upsets>>
      /\ events' \subseteq events /\ asks' \subseteq asks \union {i} /\ touched' \in BOOLEAN
  BY DEF HandleEvent, Shape, ChatTypeOK
<1>5. ChatTypeOK'
  BY <1>1, <1>3, <1>4, ListTypes DEF Shape, ChatTypeOK
<1>6. Listed' /\ OutShape'
  BY <1>3, <1>4, ListTypes DEF Shape, Listed, OutShape, From
<1>7. RoomForAll /\ Budget => Budget'
  BY <1>3, <1>4, <1>5, GrowBudget
<1> QED
  BY <1>5, <1>6, <1>7 DEF Shape, Keeps

(* A sync is applied.                                                      *)
LEMMA ApplyIs ==
  ASSUME ChatAssumption, Shape, Apply
  PROVE  /\ store' \in Lists /\ (RoomForAll => Grows(store, store')) /\ From(store', DOMAIN tg)
         /\ fetched' = NotRunning
<1>1. fetched \in SUBSET Id /\ 0 \notin Id
  BY DEF Shape, ChatTypeOK, Apply, Id
<1>2. fetched \subseteq DOMAIN tg
  BY <1>1 DEF Shape, Listed, NotRunning
<1>3. store \in Lists /\ From(store, DOMAIN tg) /\ store' = Synced(store, fetched) /\ fetched' = NotRunning
  BY StoreIs DEF Shape, Apply
<1> QED
  BY <1>1, <1>2, <1>3, SyncedIs

LEMMA SyncAppliesKeeps ==
  ASSUME ChatAssumption, Shape, SyncApplies
  PROVE  Keeps
<1>1. store' \in Lists /\ (RoomForAll => Grows(store, store')) /\ From(store', DOMAIN tg) /\ fetched' = NotRunning
  BY ApplyIs DEF SyncApplies
<1>2. UNCHANGED <<tg, gone, listening, events, asks, queue, desk, out, lead, fresh, barred, touched, upsets>>
  BY DEF SyncApplies, chat, tasks
<1>3. ChatTypeOK'
  BY <1>1, <1>2, ListTypes DEF Shape, ChatTypeOK
<1>4. Listed' /\ OutShape'
  BY <1>1, <1>2, ListTypes DEF Shape, Listed, OutShape, From, NotRunning
<1>5. RoomForAll /\ Budget => Budget'
  BY <1>1, <1>2, <1>3, GrowBudget
<1> QED
  BY <1>3, <1>4, <1>5 DEF Shape, Keeps

(* What is deleted may bring any message back to the end of the list.      *)
LEMMA DeleteKeeps ==
  ASSUME ChatAssumption, Shape, DeleteMessage \/ DeleteConversation
  PROVE  Keeps
<1>1. store \in Lists /\ From(store, DOMAIN tg) /\ DOMAIN tg \subseteq Id
  BY StoreIs DEF Shape
<1>2. store' \in Lists /\ From(store', DOMAIN tg) /\ gone' \subseteq Id
  <2>1. CASE DeleteConversation
    BY <2>1 DEF DeleteConversation, Lists, From, Once, ChatAssumption, Shape, ChatTypeOK
  <2>2. CASE DeleteMessage
    <3>1. PICK k \in DOMAIN store : gone' = gone \union {store[k].id} /\ store' = RemoveAt(store, k)
      BY <2>2 DEF DeleteMessage, Ours
    <3>2. store[k].id \in Id
      BY <1>1 DEF From
    <3> QED
      BY <1>1, <3>1, <3>2, RemovedIs DEF Shape, ChatTypeOK
  <2> QED
    BY <2>1, <2>2
<1>3. /\ UNCHANGED <<tg, listening, events, fetched, out, fresh, barred, asks, queue, desk, lead>>
      /\ touched' \in BOOLEAN /\ upsets' = upsets + 1 /\ upsets' \in 0 .. MaxUpsets
  <2>1. Upset /\ UNCHANGED <<tg, listening, events, fetched, out, fresh, barred, tasks>>
    BY DEF DeleteMessage, DeleteConversation
  <2>2. touched' = touched \/ touched' = FALSE
    BY DEF DeleteMessage, DeleteConversation
  <2> QED
    BY <2>1, <2>2, UpsetIs DEF Shape, ChatTypeOK, tasks
<1>4. ChatTypeOK'
  BY <1>2, <1>3, ListTypes DEF Shape, ChatTypeOK
<1>5. Listed' /\ OutShape'
  BY <1>2, <1>3, ListTypes DEF Shape, Listed, OutShape, From
<1>6. SpendsNoMore
  BY <1>3, <1>4, SameOwed, SameReplies, OwesNoMore, AmountsType DEF Shape, Amounts
<1> QED
  BY <1>3, <1>4, <1>5, <1>6, UpsetBudget DEF Shape, Keeps

---------------------------------------------------------------------------
(* The steps that schedule a reply.                                        *)

LEMMA ClientIsLastIs ==
  ASSUME ChatAssumption, Shape, ClientIsLast
  PROVE  /\ store # <<>> /\ Len(store) \in DOMAIN store /\ Last(store) = store[Len(store)]
         /\ Last(store).id \in Id /\ ~Passed(Last(store).id)
<1> DEFINE n == Len(store)
<1>1. store \in Seq(Rec) /\ Once(store) /\ store # <<>> /\ DOMAIN store = 1 .. n /\ n \in Nat
  BY StoreIs DEF Lists, ClientIsLast
<1>2. n \in DOMAIN store
  BY <1>1
<1>3. Last(store) = store[n] /\ store[n].id \in Id
  BY <1>1, <1>2, EntryIs DEF Last
<1>4. ~Passed(store[n].id)
  BY <1>1, <1>2 DEF Passed, Once
<1> QED
  BY <1>1, <1>2, <1>3, <1>4

LEMMA ResumedIs == lead \in Lead => Resumed \in Lead
  BY DEF Lead, Resumed

(* maybe_schedule_ai_reply forces no reply.                                *)
LEMMA ScheduleIs ==
  ASSUME ChatTypeOK, NEW i, Schedule(i)
  PROVE  /\ lead' \in Lead
         /\ queue' = queue \/ queue' = <<[id |-> i, force |-> FALSE]>>
<1>1. lead \in Lead /\ Resumed \in Lead
  BY ResumedIs DEF ChatTypeOK
<1>2. CASE Skips
  BY <1>1, <1>2 DEF Skips
<1>3. CASE Locks
  BY <1>3 DEF Locks, Lead
<1>4. CASE Decides(i)
  BY <1>1, <1>4 DEF Decides, Lead
<1> QED
  BY <1>2, <1>3, <1>4 DEF Schedule

LEMMA QueueTypes ==
  ASSUME ChatTypeOK, NEW i \in Id, NEW f \in BOOLEAN
  PROVE  LET q == <<[id |-> i, force |-> f]>>
         IN  q \in Seq([id : Id, force : BOOLEAN]) /\ Len(q) <= 1
  OBVIOUS

(* The budget of a step that schedules at most a reply that may be         *)
(* dropped, or drops what waits.                                           *)
LEMMA ScheduleBudget ==
  ASSUME ChatAssumption, Shape, Budget, ChatTypeOK', UNCHANGED <<tg, store, out, upsets>>,
         queue' = queue \/ \A k \in DOMAIN queue' : ~queue'[k].force
  PROVE  Budget'
<1>1. \A i \in Id : QueueOwes(i)' <= QueueOwes(i)
  BY AmountsType DEF Shape, Amounts, QueueOwes
<1>2. \A i \in Id : OutOwes(i)' = OutOwes(i) /\ QueueOwes(i) \in 0 .. 1 /\ OutOwes(i) \in 0 .. 1 /\ QueueOwes(i)' \in 0 .. 1
  BY SameOwed, AmountsType, AmountsTypeNext DEF Shape, Amounts
<1>3. \A i \in Id : QueueOwes(i)' + OutOwes(i)' <= QueueOwes(i) + OutOwes(i)
  BY <1>1, <1>2
<1>4. SpendsNoMore
  BY <1>3, SameReplies, OwesNoMore DEF Shape
<1>5. StaysPassed
  BY DEF StaysPassed, Passed, OnItsWay
<1> QED
  BY <1>4, <1>5, CalmBudget DEF Shape

LEMMA SchedulesKeeps ==
  ASSUME ChatAssumption, Shape, EventAsks \/ Sweep \/ DeskAsks
  PROVE  Keeps
<1>1. UNCHANGED <<tg, gone, store, listening, events, fetched, out, fresh, barred, touched, upsets>>
  BY DEF EventAsks, Sweep, DeskAsks, chat
<1>2. /\ asks' \subseteq asks /\ desk' \in BOOLEAN /\ lead' \in Lead
      /\ \/ queue' = queue \/ queue' = <<>>
         \/ \E i \in Id : queue' = <<[id |-> i, force |-> FALSE]>>
  <2>1. CASE EventAsks
    <3>1. PICK i \in asks : asks' = asks \ {i} /\ Schedule(i)
      BY <2>1 DEF EventAsks
    <3>2. i \in Id /\ desk' = desk /\ desk \in BOOLEAN
      BY <2>1 DEF Shape, ChatTypeOK, EventAsks
    <3> QED
      BY <3>1, <3>2, ScheduleIs DEF Shape
  <2>2. CASE Sweep
    <3>1. UNCHANGED <<asks, desk>> /\ desk \in BOOLEAN /\ Last(store).id \in Id
      BY <2>2, ClientIsLastIs DEF Sweep, Pending, Shape, ChatTypeOK
    <3>2. CASE Decides(Last(store).id)
      BY <3>1, <3>2, ScheduleIs DEF Schedule, Shape
    <3>3. CASE lead' = Resumed /\ UNCHANGED queue
      BY <3>1, <3>3, ResumedIs DEF Shape, ChatTypeOK
    <3> QED
      BY <2>2, <3>2, <3>3 DEF Sweep
  <2>3. CASE DeskAsks
    BY <2>3 DEF DeskAsks, Shape, ChatTypeOK
  <2> QED
    BY <2>1, <2>2, <2>3
<1>3. queue' \in Seq([id : Id, force : BOOLEAN]) /\ Len(queue') <= 1
  <2>1. CASE queue' = queue
    BY <2>1 DEF Shape, ChatTypeOK
  <2>2. CASE queue' = <<>>
    BY <2>2
  <2>3. CASE \E i \in Id : queue' = <<[id |-> i, force |-> FALSE]>>
    BY <2>3, QueueTypes DEF Shape
  <2> QED
    BY <1>2, <2>1, <2>2, <2>3
<1>4. ChatTypeOK'
  BY <1>1, <1>2, <1>3 DEF Shape, ChatTypeOK
<1>5. Listed' /\ OutShape'
  BY <1>1 DEF Shape, Listed, OutShape, From, Once
<1>6. queue' = queue \/ \A k \in DOMAIN queue' : ~queue'[k].force
  BY <1>2
<1> QED
  BY <1>1, <1>4, <1>5, <1>6, ScheduleBudget DEF Shape, Keeps

(* The catch-up forces a reply to the last message of the list.            *)
LEMMA CatchUpKeeps ==
  ASSUME ChatAssumption, Shape, CatchUp
  PROVE  Keeps
<1> DEFINE l == Last(store).id
<1>1. ClientIsLast /\ Upset /\ queue = <<>> /\ queue' = <<[id |-> l, force |-> TRUE]>> /\ lead' = Resumed
  BY DEF CatchUp, Pending, Busy
<1>2. UNCHANGED <<tg, gone, store, listening, events, fetched, out, fresh, barred, touched, asks, desk>>
  BY DEF CatchUp
<1>3. l \in Id /\ ~Passed(l)
  BY <1>1, ClientIsLastIs DEF Shape
<1> HIDE DEF l
<1>4. /\ upsets' = upsets + 1 /\ upsets' \in 0 .. MaxUpsets /\ lead' \in Lead
      /\ queue' \in Seq([id : Id, force : BOOLEAN]) /\ Len(queue') <= 1
  BY <1>1, <1>3, UpsetIs, ResumedIs, QueueTypes DEF Shape, ChatTypeOK
<1>5. ChatTypeOK'
  BY <1>2, <1>4 DEF Shape, ChatTypeOK
<1>6. Listed' /\ OutShape'
  BY <1>2 DEF Shape, Listed, OutShape, From, Once
<1>7. ASSUME Budget, NEW i \in Id
      PROVE  /\ Spent(i)' <= 1 + upsets'
             /\ Spent(i)' = 1 + upsets' => Passed(i)' \/ OnItsWay(i)'
  <2>1. /\ Spent(i) \in Nat /\ Spent(i)' \in Nat /\ upsets \in Nat /\ Cardinality(RepliesTo(i)) \in Nat
        /\ OutOwes(i) \in 0 .. 1
    <3>1. Amounts /\ Amounts' /\ upsets \in Nat
      BY <1>5, AmountsType, AmountsTypeNext, UpsetsType DEF Shape
    <3> QED
      BY <3>1 DEF Amounts
  <2>2. /\ Spent(i) <= 1 + upsets
        /\ Spent(i) = 1 + upsets => Passed(i) \/ OnItsWay(i)
    BY <1>7 DEF Shape, Budget
  <2>3. /\ QueueOwes(i) = 0 /\ QueueOwes(i)' = IF i = l THEN 1 ELSE 0
    BY <1>1 DEF QueueOwes
  <2>4. Spent(i)' = Spent(i) + IF i = l THEN 1 ELSE 0
    BY <1>2, <2>1, <2>3, SameOwed, SameReplies DEF Spent
  <2>5. Passed(i)' = Passed(i) /\ OnItsWay(i)' = OnItsWay(i)
    BY <1>2 DEF Passed, OnItsWay
  <2> QED
    BY <1>3, <1>4, <2>1, <2>2, <2>4, <2>5
<1>8. RoomForAll /\ Budget => Budget'
  BY <1>7 DEF Budget
<1> QED
  BY <1>5, <1>6, <1>8 DEF Shape, Keeps

---------------------------------------------------------------------------
(* The queue processor.                                                    *)

LEMMA NotOnItsWay == out.stage \notin {"sending", "taken"} => \A i \in Id : ~OnItsWay(i)
  BY DEF OnItsWay

(* The budget of a task that goes on without a look at the list.           *)
LEMMA TaskBudget ==
  ASSUME ChatAssumption, Shape, Budget, ChatTypeOK', tg' = tg,
         store' = store \/ (store' \in Lists /\ Grows(store, store')),
         \A i \in Id : QueueOwes(i)' + OutOwes(i)' <= QueueOwes(i) + OutOwes(i),
         \/ upsets' = upsets /\ out.stage \notin {"sending", "taken"}
         \/ upsets' = upsets + 1
  PROVE  Budget'
<1>1. SpendsNoMore
  BY SameReplies, OwesNoMore DEF Shape
<1>2. CASE upsets' = upsets + 1
  BY <1>1, <1>2, UpsetBudget DEF Shape
<1>3. CASE upsets' = upsets /\ out.stage \notin {"sending", "taken"}
  <2>1. store \in Lists
    BY StoreIs DEF Shape
  <2>2. store \in Seq(Rec) /\ (store' = store => store' \in Lists /\ Grows(store, store'))
    BY <2>1, GrowsOn DEF Lists
  <2>3. StaysPassed
    BY <1>3, <2>1, <2>2, NotOnItsWay, GrowsPasses DEF StaysPassed
  <2> QED
    BY <1>1, <1>3, <2>3, CalmBudget DEF Shape
<1> QED
  BY <1>2, <1>3

LEMMA OutTypes ==
  ASSUME ChatTypeOK
  PROVE  /\ out.by \in {"nobody", "manual", "ai"} /\ out.to \in Id \union {0} /\ out.stage \in Stage
         /\ out.id \in Id \union {0} /\ out.force \in BOOLEAN
         /\ Idle \in [by : {"nobody", "manual", "ai"}, to : Id \union {0}, stage : Stage,
                      id : Id \union {0}, force : BOOLEAN]
  BY DEF ChatTypeOK, Idle, Stage

LEMMA TakeDeskKeeps ==
  ASSUME ChatAssumption, Shape, TakeDesk
  PROVE  Keeps
<1>1. /\ out = Idle /\ out' = [Idle EXCEPT !.by = "manual", !.stage = "sending"] /\ desk' = FALSE
      /\ UNCHANGED <<tg, gone, store, listening, events, fetched, fresh, barred, touched, asks, queue, lead, upsets>>
  BY DEF TakeDesk, chat
<1>2. ChatTypeOK'
  <2>1. out' \in [by : {"nobody", "manual", "ai"}, to : Id \union {0}, stage : Stage,
                  id : Id \union {0}, force : BOOLEAN]
    BY <1>1 DEF Idle, Stage
  <2> QED
    BY <1>1, <2>1 DEF Shape, ChatTypeOK
<1>3. Listed' /\ OutShape'
  BY <1>1 DEF Shape, Listed, OutShape, From, Once, Idle
<1>4. \A i \in Id : OutOwes(i) = 0 /\ OutOwes(i)' = 0 /\ QueueOwes(i)' = QueueOwes(i) /\ QueueOwes(i) \in 0 .. 1
  BY <1>1, SameOwed, AmountsType DEF OutOwes, Idle, Shape, Amounts
<1>5. \A i \in Id : QueueOwes(i)' + OutOwes(i)' <= QueueOwes(i) + OutOwes(i)
  BY <1>4
<1>6. out.stage \notin {"sending", "taken"}
  BY <1>1 DEF Idle
<1> QED
  BY <1>1, <1>2, <1>3, <1>5, <1>6, TaskBudget DEF Shape, Keeps

(* A reply that was forced stays so: it is owed by the task in hand.       *)
LEMMA TakeReplyKeeps ==
  ASSUME ChatAssumption, Shape, TakeReply
  PROVE  Keeps
<1> DEFINE t == Head(queue)
           took == [Idle EXCEPT !.by = "ai", !.to = t.id, !.stage = "thinking", !.force = t.force]
<1>1. /\ out = Idle /\ queue # <<>> /\ queue' = <<>> /\ out' \in {took, Idle}
      /\ UNCHANGED <<tg, gone, store, listening, events, fetched, fresh, barred, touched, asks, desk, upsets>>
  BY DEF TakeReply, chat
<1>2. lead' \in Lead
  BY DEF TakeReply, Shape, ChatTypeOK, Lead
<1>3. 1 \in DOMAIN queue /\ t = queue[1] /\ t \in [id : Id, force : BOOLEAN]
  <2> DEFINE Task == [id : Id, force : BOOLEAN]
  <2>1. queue \in Seq(Task) /\ queue # <<>>
    BY <1>1 DEF Shape, ChatTypeOK
  <2> HIDE DEF Task
  <2>2. 1 \in DOMAIN queue /\ Head(queue) = queue[1] /\ Head(queue) \in Task
    BY <2>1
  <2> QED
    BY <2>2 DEF Task
<1> HIDE DEF t
<1>4. took \in [by : {"nobody", "manual", "ai"}, to : Id \union {0}, stage : Stage,
                id : Id \union {0}, force : BOOLEAN]
  BY <1>3 DEF Idle, Stage
<1>5. took.by = "ai" /\ took.to = t.id /\ took.stage = "thinking" /\ took.force = t.force
  BY DEF Idle
<1> HIDE DEF took
<1>6. ChatTypeOK'
  <2>1. queue' \in Seq([id : Id, force : BOOLEAN]) /\ Len(queue') <= 1
    BY <1>1
  <2>2. out' \in [by : {"nobody", "manual", "ai"}, to : Id \union {0}, stage : Stage,
                  id : Id \union {0}, force : BOOLEAN]
    BY <1>1, <1>4, OutTypes DEF Shape
  <2> QED
    BY <1>1, <1>2, <2>1, <2>2 DEF Shape, ChatTypeOK
<1>7. Listed' /\ OutShape'
  BY <1>1, <1>5 DEF Shape, Listed, OutShape, From, Once, Idle
<1>8. ASSUME NEW i \in Id PROVE QueueOwes(i)' + OutOwes(i)' <= QueueOwes(i) + OutOwes(i)
  <2>1. OutOwes(i) = 0 /\ QueueOwes(i)' = 0 /\ QueueOwes(i) \in 0 .. 1 /\ OutOwes(i)' \in 0 .. 1
    BY <1>1, <1>6, AmountsType, AmountsTypeNext DEF OutOwes, QueueOwes, Idle, Shape, Amounts
  <2>2. ASSUME OutOwes(i)' = 1 PROVE QueueOwes(i) = 1
    <3>1. out' = took /\ t.id = i /\ t.force
      BY <1>1, <1>5, <2>2 DEF OutOwes, Idle
    <3> QED
      BY <1>3, <3>1 DEF QueueOwes
  <2> QED
    BY <2>1, <2>2
<1>9. out.stage \notin {"sending", "taken"}
  BY <1>1 DEF Idle
<1> QED
  BY <1>1, <1>6, <1>7, <1>8, <1>9, TaskBudget DEF Shape, Keeps

(* After the pause of typing: a reply that was not forced goes to the last *)
(* message of the list only, which nothing has passed yet.                 *)
LEMMA TypesKeeps ==
  ASSUME ChatAssumption, Shape, Types
  PROVE  Keeps
<1> DEFINE goes == out.force \/ StillUnanswered(out.to)
<1>1. out.stage = "thinking" /\ out.by = "ai" /\ ~(out = Idle)
  BY DEF Types, Shape, OutShape, Idle
<1>2. out' = IF goes THEN [out EXCEPT !.stage = "sending"] ELSE Idle
  BY DEF Types
<1>3. /\ UNCHANGED <<tg, gone, store, listening, events, fetched, fresh, barred, touched, asks>>
      /\ UNCHANGED <<queue, desk, lead, upsets>>
  BY DEF Types, chat, tasks
<1>4. ASSUME goes
      PROVE  out'.by = "ai" /\ out'.to = out.to /\ out'.stage = "sending" /\ out'.force = out.force
  BY <1>1, <1>2, <1>4 DEF Shape, ChatTypeOK
<1>5. ChatTypeOK'
  <2>1. out' \in [by : {"nobody", "manual", "ai"}, to : Id \union {0}, stage : Stage,
                  id : Id \union {0}, force : BOOLEAN]
    BY <1>2, OutTypes DEF Shape, ChatTypeOK, Stage
  <2> QED
    BY <1>3, <2>1 DEF Shape, ChatTypeOK
<1>6. Listed' /\ OutShape'
  <2>1. (out'.stage = "sending" /\ out'.by = "ai") \/ out' = Idle
    BY <1>2, <1>4
  <2> QED
    BY <1>3, <2>1 DEF Shape, Listed, OutShape, From, Once, Idle
<1>7. ASSUME Budget, NEW i \in Id
      PROVE  /\ Spent(i)' <= 1 + upsets'
             /\ Spent(i)' = 1 + upsets' => Passed(i)' \/ OnItsWay(i)'
  <2>1. /\ Spent(i) \in Nat /\ Spent(i)' \in Nat /\ upsets \in Nat /\ upsets' = upsets
        /\ Cardinality(RepliesTo(i)) \in Nat /\ QueueOwes(i) \in 0 .. 1 /\ OutOwes(i) \in 0 .. 1
    <3>1. Amounts /\ Amounts' /\ upsets \in Nat
      BY <1>5, AmountsType, AmountsTypeNext, UpsetsType DEF Shape
    <3> QED
      BY <1>3, <3>1 DEF Amounts
  <2>2. /\ Spent(i) <= 1 + upsets
        /\ Spent(i) = 1 + upsets => Passed(i)
    BY <1>1, <1>7, NotOnItsWay DEF Budget
  <2>3. Spent(i)' = Spent(i) - OutOwes(i) + OutOwes(i)' /\ Passed(i)' = Passed(i)
    <3>1. Cardinality(RepliesTo(i)') = Cardinality(RepliesTo(i)) /\ QueueOwes(i)' = QueueOwes(i)
      BY <1>3, SameOwed, SameReplies
    <3>2. Passed(i)' = Passed(i)
      BY <1>3 DEF Passed
    <3>3. OutOwes(i)' \in 0 .. 1
      BY <1>5, AmountsTypeNext DEF Amounts
    <3> QED
      BY <2>1, <3>1, <3>2, <3>3 DEF Spent
  <2>4. CASE ~goes \/ out.to # i \/ out.force
    <3>1. OutOwes(i)' = IF goes THEN OutOwes(i) ELSE 0
      BY <1>1, <1>2, <1>4, <2>4 DEF OutOwes, Idle
    <3> QED
      BY <2>1, <2>2, <2>3, <3>1
  <2>5. CASE goes /\ out.to = i /\ ~out.force
    <3>1. OutOwes(i) = 0 /\ OutOwes(i)' = 1
      BY <1>1, <1>4, <2>5 DEF OutOwes
    <3>2. ClientIsLast /\ Last(store).id = i
      BY <2>5 DEF StillUnanswered
    <3>3. store # <<>> /\ store[Len(store)].id = i /\ ~Passed(i)
      BY <3>2, ClientIsLastIs DEF Shape
    <3>4. OnItsWay(i)'
      BY <1>3, <1>4, <2>5, <3>3 DEF OnItsWay
    <3> QED
      BY <2>1, <2>2, <2>3, <3>1, <3>3, <3>4
  <2> QED
    BY <2>4, <2>5
<1>8. RoomForAll /\ Budget => Budget'
  BY <1>7 DEF Budget
<1> QED
  BY <1>5, <1>6, <1>8 DEF Shape, Keeps

(* Telegram takes the reply that was owed.                                 *)
LEMMA TakesKeeps ==
  ASSUME ChatAssumption, Shape, Takes
  PROVE  Keeps
<1> DEFINE n == Len(tg) + 1
<1>1. /\ out.stage = "sending" /\ Writes(out.by, out.to) /\ out' = [out EXCEPT !.stage = "taken", !.id = Len(tg) + 1]
      /\ UNCHANGED <<gone, store, listening, fetched, barred, touched, upsets, asks, queue, desk, lead>>
  BY DEF Takes, tasks
<1>2. out.by \in {"manual", "ai"} /\ out.to \in Id \union {0}
  BY <1>1, OutTypes DEF Shape, OutShape, Idle
<1>3. /\ tg' \in Seq(TgRec) /\ Len(tg') <= MaxId
      /\ n \in Id /\ n \notin DOMAIN tg /\ DOMAIN tg' = DOMAIN tg \union {n}
      /\ events' \subseteq events \union {n} /\ fresh' \subseteq fresh \union {n}
  BY <1>1, <1>2, WritesIs DEF Shape
<1>4. out'.by = out.by /\ out'.to = out.to /\ out'.stage = "taken" /\ out'.id = n /\ out'.force = out.force
  BY <1>1 DEF Shape, ChatTypeOK
<1>5. ChatTypeOK'
  <2>1. out' \in [by : {"nobody", "manual", "ai"}, to : Id \union {0}, stage : Stage,
                  id : Id \union {0}, force : BOOLEAN]
    <3> HIDE DEF n
    <3> QED
      BY <1>1, <1>3 DEF Shape, ChatTypeOK, Stage, n
  <2> HIDE DEF n
  <2> QED
    BY <1>1, <1>3, <2>1 DEF Shape, ChatTypeOK, TgRec
<1> HIDE DEF n
<1>6. Listed' /\ OutShape'
  BY <1>1, <1>2, <1>3, <1>4 DEF Shape, Listed, OutShape, From, Once, Idle
<1>7. ASSUME NEW i \in Id PROVE Spent(i)' <= Spent(i)
  <2>1. /\ Cardinality(RepliesTo(i)) \in Nat /\ QueueOwes(i) \in 0 .. 1 /\ OutOwes(i) \in 0 .. 1
    BY AmountsType DEF Shape, Amounts
  <2>2. Cardinality(RepliesTo(i)') = Cardinality(RepliesTo(i)) + IF out.by = "ai" /\ out.to = i THEN 1 ELSE 0
    BY <1>1, <1>2, RepliesAfterWrites DEF Shape
  <2>3. OutOwes(i) = (IF out.by = "ai" /\ out.to = i THEN 1 ELSE 0) /\ OutOwes(i)' = 0 /\ QueueOwes(i)' = QueueOwes(i)
    BY <1>1, <1>4, SameOwed DEF OutOwes
  <2> QED
    BY <2>1, <2>2, <2>3 DEF Spent
<1>8. StaysPassed
  <2>1. \A k \in DOMAIN store : store[k].id # n
    BY <1>3 DEF Shape, Listed, From
  <2> QED
    BY <1>1, <1>4, <2>1 DEF StaysPassed, Passed, OnItsWay
<1> QED
  BY <1>1, <1>5, <1>6, <1>7, <1>8, CalmBudget DEF Shape, Keeps, SpendsNoMore

(* The task ends: at its send or sync by an upset only.                    *)
LEMMA FailsKeeps ==
  ASSUME ChatAssumption, Shape, Declines \/ SendFails
  PROVE  Keeps
<1>1. /\ UNCHANGED <<tg, gone, store, listening, events, fresh, barred, touched, asks, queue, desk>>
      /\ out' = Idle /\ fetched' \in {fetched, NotRunning}
  BY DEF Declines, SendFails, tasks
<1>2. \/ upsets' = upsets /\ out.stage \notin {"sending", "taken"}
      \/ upsets' = upsets + 1 /\ upsets' \in 0 .. MaxUpsets
  BY UpsetIs DEF Declines, SendFails, Shape
<1>3. lead' \in Lead
  BY DEF Declines, SendFails, tasks, Shape, ChatTypeOK, Lead
<1>4. ChatTypeOK'
  BY <1>1, <1>2, <1>3, OutTypes DEF Shape, ChatTypeOK
<1>5. Listed' /\ OutShape'
  BY <1>1 DEF Shape, Listed, OutShape, From, Once, Idle
<1>6. \A i \in Id : OutOwes(i) \in 0 .. 1 /\ OutOwes(i)' = 0 /\ QueueOwes(i)' = QueueOwes(i) /\ QueueOwes(i) \in 0 .. 1
  BY <1>1, SameOwed, AmountsType DEF OutOwes, Idle, Shape, Amounts
<1>7. \A i \in Id : QueueOwes(i)' + OutOwes(i)' <= QueueOwes(i) + OutOwes(i)
  BY <1>6
<1> QED
  BY <1>1, <1>2, <1>4, <1>5, <1>7, TaskBudget DEF Shape, Keeps

(* A send that is repeated is owed once more, and paid by its upset; what  *)
(* was passed or on its way still is.                                      *)
LEMMA SendsAgainKeeps ==
  ASSUME ChatAssumption, Shape, SendsAgain
  PROVE  Keeps
<1>1. /\ UNCHANGED <<tg, gone, store, listening, events, fresh, barred, touched, asks, queue, desk, lead>>
      /\ out.stage \in {"taken", "syncing"} /\ out' = [out EXCEPT !.stage = "sending", !.id = 0]
      /\ fetched' \in {fetched, NotRunning} /\ Upset
  BY DEF SendsAgain, tasks
<1>2. out.by \in {"manual", "ai"}
  BY <1>1, OutTypes DEF Shape, OutShape, Idle
<1>3. out'.by = out.by /\ out'.to = out.to /\ out'.stage = "sending" /\ out'.id = 0 /\ out'.force = out.force
  BY <1>1 DEF Shape, ChatTypeOK
<1>4. upsets' = upsets + 1 /\ upsets' \in 0 .. MaxUpsets
  BY <1>1, UpsetIs DEF Shape
<1>5. ChatTypeOK'
  <2>1. out' \in [by : {"nobody", "manual", "ai"}, to : Id \union {0}, stage : Stage,
                  id : Id \union {0}, force : BOOLEAN]
    BY <1>1 DEF Shape, ChatTypeOK, Stage
  <2> QED
    BY <1>1, <1>4, <2>1 DEF Shape, ChatTypeOK
<1>6. Listed' /\ OutShape'
  BY <1>1, <1>2, <1>3 DEF Shape, Listed, OutShape, From, Once, Idle
<1>7. ASSUME Budget, NEW i \in Id
      PROVE  /\ Spent(i)' <= 1 + upsets'
             /\ Spent(i)' = 1 + upsets' => Passed(i)' \/ OnItsWay(i)'
  <2>1. /\ Spent(i) \in Nat /\ upsets \in Nat
        /\ Cardinality(RepliesTo(i)) \in Nat /\ QueueOwes(i) \in 0 .. 1
    BY AmountsType, UpsetsType DEF Shape, Amounts
  <2>2. /\ Spent(i) <= 1 + upsets
        /\ Spent(i) = 1 + upsets => Passed(i) \/ OnItsWay(i)
    BY <1>7 DEF Budget
  <2>3. OutOwes(i) = 0 /\ OutOwes(i)' \in 0 .. 1 /\ QueueOwes(i)' = QueueOwes(i)
    BY <1>1, <1>5, SameOwed, AmountsTypeNext DEF OutOwes, Amounts
  <2>4. Spent(i)' = Spent(i) + OutOwes(i)'
    BY <1>1, <2>1, <2>3, SameReplies DEF Spent
  <2>5. (Passed(i) => Passed(i)') /\ (OnItsWay(i) => OnItsWay(i)')
    BY <1>1, <1>3 DEF Passed, OnItsWay
  <2> QED
    BY <1>4, <2>1, <2>2, <2>3, <2>4, <2>5
<1>8. RoomForAll /\ Budget => Budget'
  BY <1>7 DEF Budget
<1> QED
  BY <1>5, <1>6, <1>8 DEF Shape, Keeps

(* The message that was sent comes after the one it answers.               *)
LEMMA SavesKeeps ==
  ASSUME ChatAssumption, Shape, Saves
  PROVE  Keeps
<1> DEFINE m == [id |-> out.id, label |-> out.by]
<1>1. /\ out.stage = "taken" /\ out' = [out EXCEPT !.stage = "syncing"] /\ store' = Appended(store, m)
      /\ UNCHANGED <<tg, gone, listening, events, fresh, barred, upsets, touched, asks, queue, desk, lead>>
  BY DEF Saves, chat, tasks
<1>2. fetched' \subseteq DOMAIN tg
  BY LatestIs DEF Saves, Collect, OnTelegram
<1>3. store \in Lists /\ From(store, DOMAIN tg) /\ DOMAIN tg \subseteq Id
  BY StoreIs DEF Shape
<1>4. out.by \in {"manual", "ai"} /\ out.id \in DOMAIN tg
  BY <1>1, OutTypes DEF Shape, OutShape, Idle, Listed
<1>5. m \in Rec /\ m.id = out.id
  BY <1>3, <1>4 DEF Rec, Label
<1> HIDE DEF m
<1>6. /\ store' \in Lists /\ From(store', DOMAIN tg) /\ (RoomForAll => Grows(store, store'))
      /\ RoomForAll /\ (\A k \in DOMAIN store : store[k].id # out.id) => Len(store) < Len(store')
  BY <1>1, <1>3, <1>4, <1>5, AppendedIs
<1>7. out'.by = out.by /\ out'.to = out.to /\ out'.stage = "syncing" /\ out'.id = out.id /\ out'.force = out.force
  BY <1>1 DEF Shape, ChatTypeOK
<1>8. ChatTypeOK'
  <2>1. out' \in [by : {"nobody", "manual", "ai"}, to : Id \union {0}, stage : Stage,
                  id : Id \union {0}, force : BOOLEAN]
    BY <1>1 DEF Shape, ChatTypeOK, Stage
  <2> QED
    BY <1>1, <1>2, <1>3, <1>6, <2>1, ListTypes DEF Shape, ChatTypeOK
<1>9. Listed' /\ OutShape'
  BY <1>1, <1>2, <1>4, <1>6, <1>7, ListTypes DEF Shape, Listed, OutShape, From, Idle
<1>10. SpendsNoMore
  <2>1. \A i \in Id : OutOwes(i) = 0 /\ OutOwes(i)' = 0 /\ QueueOwes(i)' = QueueOwes(i) /\ QueueOwes(i) \in 0 .. 1
    BY <1>1, <1>7, SameOwed, AmountsType DEF OutOwes, Shape, Amounts
  <2>2. \A i \in Id : QueueOwes(i)' + OutOwes(i)' <= QueueOwes(i) + OutOwes(i)
    BY <2>1
  <2> QED
    BY <1>1, <1>8, <2>2, SameReplies, OwesNoMore DEF Shape
<1>11. ASSUME RoomForAll PROVE StaysPassed
  <2>1. ASSUME NEW i \in Id, OnItsWay(i) PROVE Len(store) < Len(store')
    BY <1>1, <1>6, <1>11, <2>1 DEF OnItsWay
  <2>2. Len(store) \in Nat /\ Len(store') \in Nat
    BY <1>3, <1>6 DEF Lists
  <2> QED
    BY <1>3, <1>6, <1>11, <2>1, <2>2, GrowsPasses DEF StaysPassed
<1> QED
  BY <1>1, <1>8, <1>9, <1>10, <1>11, CalmBudget DEF Shape, Keeps

(* The sync of the send, and the label of the reply.                       *)
LEMMA FinishesKeeps ==
  ASSUME ChatAssumption, Shape, SendSyncs \/ Tags
  PROVE  Keeps
<1>1. /\ store' \in Lists /\ (RoomForAll => Grows(store, store')) /\ From(store', DOMAIN tg)
      /\ fetched' \in {fetched, NotRunning} /\ touched' \in BOOLEAN
  <2>1. CASE SendSyncs
    <3>1. Apply /\ touched' = TRUE
      BY <2>1 DEF SendSyncs
    <3> QED
      BY <3>1, ApplyIs
  <2>2. CASE Tags
    <3>1. store \in Lists /\ From(store, DOMAIN tg)
      BY StoreIs DEF Shape
    <3>2. fetched' = fetched /\ touched' = touched /\ touched \in BOOLEAN
      BY <2>2 DEF Tags, Shape, ChatTypeOK
    <3>3. store' = [k \in DOMAIN store |-> IF store[k].id = out.id THEN [store[k] EXCEPT !.label = "tagged"]
                                           ELSE store[k]]
      BY <2>2 DEF Tags
    <3> QED
      BY <3>1, <3>2, <3>3, TaggedIs
  <2> QED
    BY <2>1, <2>2
<1>2. UNCHANGED <<tg, gone, listening, events, fresh, barred, upsets, asks, queue, desk, lead>>
  BY DEF SendSyncs, Tags, chat, tasks
<1>3. out.stage \in {"syncing", "tagging"} /\ (out' = Idle \/ (out.by = "ai" /\ out' = [out EXCEPT !.stage = "tagging"]))
  BY DEF SendSyncs, Tags
<1>4. out' = Idle \/ (out'.stage = "tagging" /\ out'.by = "ai")
  BY <1>3 DEF Shape, ChatTypeOK
<1>5. ChatTypeOK'
  <2>1. out' \in [by : {"nobody", "manual", "ai"}, to : Id \union {0}, stage : Stage,
                  id : Id \union {0}, force : BOOLEAN]
    BY <1>3, OutTypes DEF Shape, ChatTypeOK, Stage
  <2> QED
    BY <1>1, <1>2, <2>1, ListTypes DEF Shape, ChatTypeOK
<1>6. Listed' /\ OutShape'
  BY <1>1, <1>2, <1>4, ListTypes DEF Shape, Listed, OutShape, From, Idle, NotRunning
<1>7. \A i \in Id : OutOwes(i) = 0 /\ OutOwes(i)' = 0 /\ QueueOwes(i)' = QueueOwes(i) /\ QueueOwes(i) \in 0 .. 1
  BY <1>2, <1>3, <1>4, SameOwed, AmountsType DEF OutOwes, Shape, Amounts, Idle
<1>8. \A i \in Id : QueueOwes(i)' + OutOwes(i)' <= QueueOwes(i) + OutOwes(i)
  BY <1>7
<1> QED
  BY <1>1, <1>2, <1>3, <1>5, <1>6, <1>8, TaskBudget DEF Shape, Keeps

LEMMA ChatStep ==
  ASSUME ChatAssumption, Shape, [ChatNext]_chatVars
  PROVE  Keeps
<1>1. CASE UNCHANGED chatVars
  <2>1. /\ UNCHANGED <<tg, gone, store, listening, events, fetched, asks, queue, desk, out, lead>>
        /\ UNCHANGED <<fresh, barred, touched, upsets>>
    BY <1>1 DEF chatVars
  <2>2. ChatTypeOK' /\ Listed' /\ OutShape'
    BY <2>1 DEF Shape, ChatTypeOK, Listed, OutShape, From, Once
  <2> QED
    BY <2>1, <2>2, QuietBudget DEF Shape, Keeps
<1>2. CASE Message
  BY <1>2, MessageKeeps
<1>3. CASE Detach \/ Attach \/ TimePasses \/ LightFetch \/ OpenFetch \/ Toggle \/ LastRefusal
  BY <1>3, QuietKeeps
<1>4. CASE \E i \in events : HandleEvent(i)
  BY <1>4, HandleEventKeeps
<1>5. CASE SyncApplies
  BY <1>5, SyncAppliesKeeps
<1>6. CASE DeleteMessage \/ DeleteConversation
  BY <1>6, DeleteKeeps
<1>7. CASE EventAsks \/ Sweep \/ DeskAsks
  BY <1>7, SchedulesKeeps
<1>8. CASE CatchUp
  BY <1>8, CatchUpKeeps
<1>9. CASE TakeDesk
  BY <1>9, TakeDeskKeeps
<1>10. CASE TakeReply
  BY <1>10, TakeReplyKeeps
<1>11. CASE Types
  BY <1>11, TypesKeeps
<1>12. CASE Takes
  BY <1>12, TakesKeeps
<1>13. CASE Declines \/ SendFails
  BY <1>13, FailsKeeps
<1>14. CASE Saves
  BY <1>14, SavesKeeps
<1>15. CASE SendSyncs \/ Tags
  BY <1>15, FinishesKeeps
<1>16. CASE SendsAgain
  BY <1>16, SendsAgainKeeps
<1> QED
  BY <1>1, <1>2, <1>3, <1>4, <1>5, <1>6, <1>7, <1>8, <1>9, <1>10, <1>11, <1>12, <1>13, <1>14, <1>15, <1>16
     DEF ChatNext, Process

LEMMA ShapeHolds == ChatSpec => []Shape
<1> USE ChatAssumption
<1>1. ChatInit => Shape
  BY Initially
<1>2. Shape /\ [ChatNext]_chatVars => Shape'
  BY ChatStep DEF Keeps
<1> QED
  BY <1>1, <1>2, PTL DEF ChatSpec

LEMMA BudgetHolds == ASSUME RoomForAll PROVE ChatSpec => []Budget
<1> USE ChatAssumption
<1>1. ChatInit => Budget
  BY Initially
<1>2. Shape /\ Budget /\ [ChatNext]_chatVars => Budget'
  BY ChatStep, RoomForAll DEF Keeps
<1> QED
  BY <1>1, <1>2, ShapeHolds, PTL DEF ChatSpec

(* The types of the chat: among them, that the list never has more than    *)
(* _MAX_MESSAGES_PER_CHAT messages, and the account queue one reply.       *)
THEOREM ChatTypeCorrect == ChatSpec => []ChatTypeOK
<1>1. Shape => ChatTypeOK
  BY DEF Shape
<1> QED
  BY <1>1, ShapeHolds, PTL

(* However live updates, syncs, sweeps and the queue of a chat interleave, *)
(* append_message and its callers leave a message in the list once, and    *)
(* only messages that were written in the chat.                            *)
ListIsSound == Once(store) /\ From(store, DOMAIN tg)
THEOREM ListHoldsOnce == ChatSpec => []ListIsSound
<1>1. Shape => ListIsSound
  BY DEF Shape, Listed, ListIsSound
<1> QED
  BY <1>1, ShapeHolds, PTL

(* A client's message gets one automatic reply, and one more for every     *)
(* repeated or failed send or operation out of the ordinary at most: the   *)
(* repeats within run_dm_operation and generate_and_send are steps of      *)
(* their own.  The chat is never longer than the list that _trim_messages  *)
(* leaves of it.                                                           *)
THEOREM RepliesAreBudgeted == ASSUME RoomForAll PROVE ChatSpec => []RepliesNeedUpsets
<1>1. ChatAssumption /\ Shape /\ Budget => RepliesNeedUpsets
  <2> SUFFICES ASSUME ChatAssumption, Shape, Budget, NEW i \in DOMAIN tg
               PROVE  Cardinality(RepliesTo(i)) <= 1 + upsets
    BY DEF RepliesNeedUpsets
  <2>1. i \in Id
    BY StoreIs
  <2>2. /\ QueueOwes(i) \in 0 .. 1 /\ OutOwes(i) \in 0 .. 1 /\ Cardinality(RepliesTo(i)) \in Nat
        /\ Spent(i) <= 1 + upsets /\ upsets \in Nat
    BY <2>1, AmountsType, UpsetsType DEF Shape, Amounts, Budget
  <2> QED
    BY <2>2 DEF Spent
<1> QED
  BY <1>1, ChatAssumption, RoomForAll, ShapeHolds, BudgetHolds, PTL

================================================================================
