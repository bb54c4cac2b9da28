------------------------------- MODULE Login --------------------------------
(***************************************************************************)
(* Everyone who proves a password: the web client's sign-in, the Basic     *)
(* authentication of JMAP, the compose endpoint and the assistant, IMAP    *)
(* LOGIN and SMTP AUTH, all behind one limiter of failed attempts; the web *)
(* sessions that keep a password; the change of a password in place; and   *)
(* the /v1 proxy, which hands a session's password to an engine that signs *)
(* in over IMAP from its own address.                                      *)
(*                                                                         *)
(* The requests of several clients interleave between the calls that take  *)
(* a lock.  Time is the age of each recorded failure, in ticks; a session  *)
(* may expire at any moment.                                               *)
(***************************************************************************)
EXTENDS Identity, SequencesExt

CONSTANTS
  Client, Ip, EngineIp,
  Person,    \* the accounts people sign in to
  Token, NoToken,
  MaxFailures, Window, Lockout,  \* authlimit.Config, in ticks
  Scope,     \* sets of kinds of event; a behaviour has the events of one of them
  Pg,        \* sessions are in Postgres and outlive the process
  MaxFaults  \* bound on failed writes, accounts that do not open and restarts

ASSUME LimitAssumption == MaxFailures \in Nat \ {0} /\ Window \in Nat \ {0} /\ Lockout \in Nat \ {0}
ASSUME ClientAssumption == Person \subseteq User /\ EngineIp \notin Ip /\ Pg \in BOOLEAN /\ MaxFaults \in Nat /\ NoToken \notin Token

Key == Ip \cup {EngineIp} \cup Person

VARIABLES
  fails,   \* Limiter.fails: the ages of failures, oldest first
  req,     \* each client's request
  sess,    \* the session store
  gone,    \* history: sessions that were signed out, dropped or never stored
  refused, \* history: sessions with a DELETE or an UPDATE that Postgres refused
  behind,  \* history: sessions whose account got another password elsewhere
  faults,
  scope    \* bound: the kinds of event that occur

loginVars == <<fails, req, sess, gone, refused, behind, faults, scope>>

Idle == [at |-> "idle", kind |-> "none", ip |-> EngineIp, user |-> ConfigUser,
         pass |-> NoPass, new |-> NoPass, tok |-> NoToken]
NoSession == [user |-> ConfigUser, pass |-> NoPass, fresh |-> FALSE]

LoginInit ==
  /\ fails = [k \in Key |-> <<>>]
  /\ req = [c \in Client |-> Idle]
  /\ sess = [t \in Token |-> NoSession]
  /\ gone = {} /\ refused = {} /\ behind = {} /\ faults = 0 /\ scope \in Scope

Fault(b) == IF b THEN "fault" \in scope /\ faults < MaxFaults /\ faults' = faults + 1 ELSE UNCHANGED faults

-----------------------------------------------------------------------------
(* The limiter.                                                            *)

Full(k) == Len(fails[k]) >= MaxFailures
Locked(k) == Full(k) /\ Last(fails[k]) < Lockout

\* AnyLocked forgets a lockout that is over, and looks at the account only when the
\* address is not locked.
Looked(ip, u) ==
  [k \in Key |-> IF \/ k = ip /\ ~Locked(k) /\ Full(k)
                    \/ k = u /\ ~Locked(ip) /\ ~Locked(k) /\ Full(k)
                 THEN <<>> ELSE fails[k]]

AnyLocked(ip, u) == Locked(ip) \/ Locked(u)

Fail(ip, u) ==
  [k \in Key |-> IF k \in {ip, u} THEN Append(SelectSeq(fails[k], LAMBDA a : a < Window), 0) ELSE fails[k]]

Success(ip, u) == [k \in Key |-> IF k \in {ip, u} THEN <<>> ELSE fails[k]]

\* Past both periods an age makes no difference.
MaxAge == IF Window > Lockout THEN Window ELSE Lockout
Older(s) == [i \in 1 .. Len(s) |-> IF s[i] < MaxAge THEN s[i] + 1 ELSE s[i]]

Tick ==
  /\ \E k \in Key : fails[k] # Older(fails[k])
  /\ fails' = [k \in Key |-> Older(fails[k])]
  /\ UNCHANGED <<idVars, req, sess, gone, refused, behind, faults>>

-----------------------------------------------------------------------------
(* Sessions.                                                               *)

Stored(t) == sess[t] # NoSession
Got(t) == Stored(t) /\ sess[t].fresh

\* A statement to the store; Postgres may refuse it, and nobody looks at its error.
Statement(ok) == (~ok => Pg) /\ Fault(~ok)

Delete(t, ok) ==
  /\ Statement(ok)
  /\ sess' = IF ok THEN [sess EXCEPT ![t] = NoSession] ELSE sess
  /\ gone' = gone \cup {t}
  /\ refused' = IF ok THEN refused \ {t} ELSE refused \cup {t}

\* get drops a session whose time is over; a SELECT that is refused finds nothing.
Reading(t, ok) ==
  IF Stored(t) /\ ~Got(t) THEN Delete(t, ok) ELSE Statement(ok) /\ UNCHANGED <<sess, gone, refused>>

\* Mutant of SetPass: what is written back is the session read at the start.
SetPassAnyway(t, u, p, ok) ==
  /\ Statement(ok)
  /\ sess' = IF ok THEN [sess EXCEPT ![t] = [user |-> u, pass |-> p, fresh |-> TRUE]] ELSE sess
  /\ refused' = IF ok THEN refused ELSE refused \cup {t}

SetPass(t, u, p, ok) ==
  /\ Statement(ok)
  /\ sess' = IF ok /\ Stored(t) THEN [sess EXCEPT ![t].pass = p] ELSE sess
  /\ refused' = IF ok THEN refused ELSE refused \cup {t}

Expire(t) ==
  /\ Got(t)
  /\ sess' = [sess EXCEPT ![t].fresh = FALSE]
  /\ UNCHANGED <<idVars, fails, req, gone, refused, behind, faults>>

\* prune, which runs beside the request that created a session; refused, it changes
\* nothing.
Prune ==
  LET old == {t \in Token : Stored(t) /\ ~sess[t].fresh}
  IN  /\ Pg /\ old # {}
      /\ sess' = [t \in Token |-> IF t \in old THEN NoSession ELSE sess[t]]
      /\ gone' = gone \cup old
      /\ refused' = refused \ old
      /\ UNCHANGED <<idVars, fails, req, behind, faults>>

\* Answered ok whatever became of the row.
Logout(t, ok) ==
  /\ Stored(t) /\ Delete(t, ok)
  /\ UNCHANGED <<idVars, fails, req, behind>>

-----------------------------------------------------------------------------
(* Requests.                                                               *)

Go(c, r) == req' = [req EXCEPT ![c] = r]
Done(c) == Go(c, Idle)
At(c, where) == req[c].at = where

\* Mutant of Begin: a refused attempt starts the lockout again.
BeginAgain(c, r) ==
  /\ fails' = [k \in Key |-> IF k \in {r.ip, r.user} /\ Locked(k) THEN [fails[k] EXCEPT ![Len(fails[k])] = 0] ELSE Looked(r.ip, r.user)[k]]
  /\ IF AnyLocked(r.ip, r.user) THEN Done(c) ELSE Go(c, [r EXCEPT !.at = "check"])

\* authGuard.begin and the other doors: refused while the address or the account is
\* locked, without a look at the password.
Begin(c, r) ==
  /\ fails' = Looked(r.ip, r.user)
  /\ IF AnyLocked(r.ip, r.user) THEN Done(c) ELSE Go(c, [r EXCEPT !.at = "check"])

Unused == {t \in Token : ~Stored(t) /\ t \notin gone}

Present(c, kind, ip, u, p) ==
  /\ At(c, "idle")
  /\ Begin(c, [Idle EXCEPT !.kind = kind, !.ip = ip, !.user = u, !.pass = p])
  /\ UNCHANGED <<idVars, sess, gone, refused, behind, faults>>

\* POST login of the web client, which is about to need a new token.
SignIn(c, ip, u, p) ==
  /\ Cardinality({d \in Client : req[d].kind = "login"}) < Cardinality(Unused)
  /\ Present(c, "login", ip, u, p)

\* The doors that bring a password along: IMAP LOGIN, SMTP AUTH, and the Basic
\* authentication of JMAP and of the compose endpoint.
ImapLogin(c, ip, u, p) == Present(c, "other", ip, u, p)
SubmitAuth(c, ip, u, p) == Present(c, "other", ip, u, p)
WithAuth(c, ip, u, p) == Present(c, "other", ip, u, p)
Compose(c, ip, u, p) == Present(c, "other", ip, u, p)

\* POST account/password: the session, then the same door for the current password.
Change(c, t, ip, current, new, ok) ==
  /\ At(c, "idle") /\ Stored(t)
  /\ Reading(t, ok)
  /\ IF Got(t) /\ ok
     THEN Begin(c, [Idle EXCEPT !.kind = "change", !.ip = ip, !.user = sess[t].user, !.pass = current, !.new = new, !.tok = t])
     ELSE UNCHANGED <<fails, req>>
  /\ UNCHANGED <<idVars, behind>>

\* V1Auth finds the session...
V1(c, t, ok) ==
  /\ At(c, "idle") /\ Stored(t)
  /\ Reading(t, ok)
  /\ IF Got(t) /\ ok THEN Go(c, [Idle EXCEPT !.at = "v1", !.kind = "engine", !.user = sess[t].user, !.tok = t]) ELSE UNCHANGED req
  /\ UNCHANGED <<idVars, fails, behind>>

\* ...and v1Handler looks for it again; the engine signs in with what it has now.
Forward(c, ok) ==
  LET t == req[c].tok IN
  /\ At(c, "v1")
  /\ Reading(t, ok)
  /\ IF Got(t) /\ ok THEN Begin(c, [req[c] EXCEPT !.user = sess[t].user, !.pass = sess[t].pass])
     ELSE Done(c) /\ UNCHANGED fails
  /\ UNCHANGED <<idVars, behind>>

\* AuthIMAP: the password, and the account must open; either way it is an error.
Check(c, opens) ==
  /\ At(c, "check")
  /\ Fault(~opens)
  /\ Go(c, [req[c] EXCEPT !.at = IF Authenticate(req[c].user, req[c].pass) /\ opens THEN "passed" ELSE "failed"])
  /\ UNCHANGED <<idVars, fails, sess, gone, refused, behind>>

Failed(c) ==
  /\ At(c, "failed")
  /\ fails' = Fail(req[c].ip, req[c].user)
  /\ Done(c)
  /\ UNCHANGED <<idVars, sess, gone, refused, behind, faults>>

\* A correct password clears both keys; what follows touches nothing of the limiter.
Passes(c, kinds) ==
  /\ At(c, "passed") /\ req[c].kind \in kinds
  /\ fails' = Success(req[c].ip, req[c].user)

Served(c) ==
  /\ Passes(c, {"other", "engine"})
  /\ Done(c)
  /\ UNCHANGED <<idVars, sess, gone, refused, behind, faults>>

\* The session of a new sign-in; Postgres may refuse the row, which nobody looks at.
Create(c, t, stored) ==
  LET r == req[c] IN
  /\ Passes(c, {"login"}) /\ t \in Unused
  /\ Statement(stored)
  /\ sess' = IF stored THEN [sess EXCEPT ![t] = [user |-> r.user, pass |-> r.pass, fresh |-> TRUE]] ELSE sess
  /\ gone' = IF stored THEN gone ELSE gone \cup {t}
  /\ behind' = IF stored /\ ~Authenticate(r.user, r.pass) THEN behind \cup {t} ELSE behind
  /\ Done(c)
  /\ UNCHANGED <<idVars, refused>>

\* Upsert of the new password.  Other sessions of the account keep the old one, and so
\* does this one when the write fails or another change is about to rotate it.
Upsert(c, saved) ==
  LET r == req[c]
      Late(t) == t # r.tok \/ ~saved \/ \E d \in Client \ {c} : At(d, "rotate") /\ req[d].tok = t
  IN  /\ Passes(c, {"change"})
      /\ Fault(~saved)
      /\ Put(r.user, r.new, saved)
      /\ behind' = behind \cup {t \in Token : sess[t].user = r.user /\ Stored(t) /\ Late(t)}
      /\ IF saved THEN Go(c, [r EXCEPT !.at = "rotate"]) ELSE Done(c)
      /\ UNCHANGED <<sess, gone, refused>>

\* Mutant of Rotate: the session keeps the password that was current.
RotateBack(c, ok) ==
  /\ At(c, "rotate")
  /\ SetPass(req[c].tok, req[c].user, req[c].pass, ok)
  /\ Done(c)
  /\ UNCHANGED <<idVars, fails, gone, behind>>

Rotate(c, ok) ==
  /\ At(c, "rotate")
  /\ SetPass(req[c].tok, req[c].user, req[c].new, ok)
  /\ Done(c)
  /\ UNCHANGED <<idVars, fails, gone, behind>>

Restart ==
  /\ Fault(TRUE)
  /\ Reopen
  /\ fails' = [k \in Key |-> <<>>]
  /\ req' = [c \in Client |-> Idle]
  /\ sess' = IF Pg THEN sess ELSE [t \in Token |-> NoSession]
  /\ gone' = IF Pg THEN gone ELSE gone \cup {t \in Token : Stored(t)}
  /\ behind' = behind \cup {t \in Token : sess[t].pass # users'[sess[t].user]}
  /\ UNCHANGED refused

LoginStep ==
  \/ "time" \in scope /\ (Tick \/ \E t \in Token : Expire(t))
  \/ Prune \/ Restart
  \/ \E t \in Token, ok \in BOOLEAN : Logout(t, ok)
  \/ \E c \in Client :
       \/ \E ip \in Ip, u \in Person, p \in Pass :
            \/ "login" \in scope /\ SignIn(c, ip, u, p)
            \/ "other" \in scope /\ (ImapLogin(c, ip, u, p) \/ SubmitAuth(c, ip, u, p) \/ WithAuth(c, ip, u, p) \/ Compose(c, ip, u, p))
       \/ "change" \in scope /\ \E t \in Token, ip \in Ip, p, q \in Pass, ok \in BOOLEAN : Change(c, t, ip, p, q, ok)
       \/ "v1" \in scope /\ \E t \in Token, ok \in BOOLEAN : V1(c, t, ok)
       \/ \E ok \in BOOLEAN : Check(c, ok) \/ Upsert(c, ok) \/ Forward(c, ok) \/ Rotate(c, ok)
       \/ \E t \in Token, ok \in BOOLEAN : Create(c, t, ok)
       \/ Failed(c) \/ Served(c)

LoginNext == LoginStep /\ UNCHANGED scope

LoginSpec == IdInit /\ LoginInit /\ [][LoginNext]_<<idVars, loginVars>>

Finish(c) ==
  (\E ok \in BOOLEAN : Check(c, ok)) \/ Failed(c)

\* Time passes, and a request that has begun to check a password finishes.
LoginFairness ==
  /\ WF_<<idVars, loginVars>>("time" \in scope /\ Tick /\ UNCHANGED scope)
  /\ \A c \in Client : WF_<<idVars, loginVars>>(Finish(c) /\ UNCHANGED scope)

-----------------------------------------------------------------------------
(* Properties.                                                             *)

LoginTypeOK ==
  /\ fails \in [Key -> Seq(0 .. MaxAge)]
  /\ \A c \in Client : req[c].at \in {"idle", "v1", "check", "failed", "passed", "rotate"}
  /\ \A t \in Token : sess[t] \in [user : User, pass : Pass \cup {NoPass}, fresh : BOOLEAN]
  /\ gone \subseteq Token /\ refused \subseteq Token /\ behind \subseteq Token /\ faults \in 0 .. MaxFaults


\* A lockout ends, whatever others try meanwhile: attempts that are refused do not
\* prolong it.
LockoutEnds == \A k \in Key : Locked(k) /\ "time" \in scope ~> ~Locked(k)

\* A session that was signed out, has expired or was dropped stays away, also when a
\* password change that began before is still to rotate it; unless Postgres refused the
\* DELETE, which leaves the session in place behind an answer of ok.
SignedOutStays == \A t \in gone \ refused : ~Stored(t)

\* The password kept in a session is the account's own, so that /v1 keeps working
\* after a change, unless the account got another one elsewhere since or Postgres
\* refused the UPDATE, which nobody is told of.
SessionsCurrent ==
  \A t \in Token :
    Stored(t) /\ sess[t].pass # users[sess[t].user] =>
      t \in behind \cup refused \/ \E c \in Client : At(c, "rotate") /\ req[c].tok = t

\* A web session is what its owner made of it, as far as the store took the statements:
\* it ends when it was signed out, and until then it works.
SessionsHold == SignedOutStays /\ SessionsCurrent
=============================================================================
