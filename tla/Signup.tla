------------------------------- MODULE Signup -------------------------------
(***************************************************************************)
(* Who may open an account: self-serve signup behind a rate limit and a    *)
(* proof of work (internal/signup, internal/seam/altcha), and the broker's *)
(* provisioning endpoint (cmd/vulos-mail/admin.go).  Time is in ticks, a   *)
(* fraction of a second, because expiry is written in whole seconds.       *)
(***************************************************************************)
EXTENDS Identity, Integers

CONSTANTS
  Party,         \* applicants, each with one request at a time, all from one address
  Challenge,
  NewPass,       \* passwords that applicants choose
  Second, ChallengeTtl,   \* ticks; ChallengeTtl is altcha's ten minutes
  Burst, Cost,   \* signups at once, and the ticks that refill one
  MaxNow,        \* bound on the clock
  MaxTrouble     \* bound on failed writes and restarts

ASSUME SignupAssumption ==
  /\ NewPass \subseteq Pass
  /\ Second \in Nat \ {0} /\ ChallengeTtl \in Nat \ {0} /\ Burst \in Nat \ {0} /\ Cost \in Nat \ {0}
  /\ MaxNow \in Nat /\ MaxTrouble \in Nat

VARIABLES
  now,
  issued,    \* when a challenge was issued
  used,      \* Gate.used
  bucket,    \* the address's bucket, its level in ticks
  app,       \* each party's request
  accepted,  \* history: how often this process accepted a challenge
  admitted,  \* history: requests let through by the rate limit since the process began
  began,     \* history: when that was
  given,     \* history: who was told that an address is theirs
  trouble

signupVars == <<now, issued, used, bucket, app, accepted, admitted, began, given, trouble>>

Never == -1
Fresh == [ch |-> CHOOSE c \in Challenge : TRUE, at |-> "idle", user |-> ConfigUser]
Volatile ==
  /\ used' = [c \in Challenge |-> Never] /\ bucket' = [level |-> Burst * Cost, last |-> now]
  /\ app' = [a \in Party |-> Fresh] /\ accepted' = [c \in Challenge |-> 0]
  /\ admitted' = 0 /\ began' = now

SignupInit ==
  /\ now = 0 /\ issued = [c \in Challenge |-> Never] /\ used = [c \in Challenge |-> Never]
  /\ bucket = [level |-> Burst * Cost, last |-> 0] /\ app = [a \in Party |-> Fresh]
  /\ accepted = [c \in Challenge |-> 0] /\ admitted = 0 /\ began = 0
  /\ given = [u \in User |-> {}] /\ trouble = 0

Trouble(b) == IF b THEN trouble < MaxTrouble /\ trouble' = trouble + 1 ELSE UNCHANGED trouble
GoTo(a, r) == app' = [app EXCEPT ![a] = r]
Stage(a, s) == app[a].at = s

SignupTick ==
  /\ now < MaxNow /\ now' = now + 1
  /\ UNCHANGED <<idVars, issued, used, bucket, app, accepted, admitted, began, given, trouble>>

Issue(c) ==
  /\ issued[c] = Never /\ issued' = [issued EXCEPT ![c] = now]
  /\ UNCHANGED <<idVars, now, used, bucket, app, accepted, admitted, began, given, trouble>>

\* Mutant of Refilled: the time of the refill is not recorded.
RefilledAgain ==
  LET level == bucket.level + (now - bucket.last)
  IN  [level |-> IF level > Burst * Cost THEN Burst * Cost ELSE level, last |-> bucket.last]

Refilled ==
  LET level == bucket.level + (now - bucket.last)
  IN  [level |-> IF level > Burst * Cost THEN Burst * Cost ELSE level, last |-> now]

\* The expiry is read from the salt that comes with the solution.  Salt and number are
\* hashed as one string of digits, so a solution may draw the line between them
\* elsewhere (`moved') and then carries another expiry, or none.
Expired(c, moved) == ~moved /\ now \div Second > (issued[c] + ChallengeTtl) \div Second

\* POST signup: the rate limit first, then what is wrong with the form, then the
\* signature and the expiry of the challenge, without a lock.
Apply(a, u, c, moved) ==
  /\ Stage(a, "idle") /\ issued[c] # Never
  /\ IF Refilled.level < Cost
     THEN bucket' = Refilled /\ UNCHANGED <<app, admitted>>
     ELSE /\ bucket' = [Refilled EXCEPT !.level = @ - Cost]
          /\ admitted' = admitted + 1
          /\ IF Expired(c, moved) THEN UNCHANGED app
             ELSE GoTo(a, [ch |-> c, at |-> "solved", user |-> u])
  /\ UNCHANGED <<idVars, now, issued, used, accepted, began, given, trouble>>

\* Mutant of Kept: an entry is dropped when its time is reached.
KeptShort(c) == IF used[c] <= now - ChallengeTtl THEN Never ELSE used[c]

\* What gcLocked leaves of the challenges that were used.
Kept(c) == IF used[c] < now - ChallengeTtl THEN Never ELSE used[c]

\* The end of Verify, under the lock.
Use(a) ==
  LET c == app[a].ch IN
  /\ Stage(a, "solved")
  /\ IF Kept(c) # Never
     THEN /\ GoTo(a, Fresh) /\ used' = [d \in Challenge |-> Kept(d)] /\ UNCHANGED accepted
     ELSE /\ GoTo(a, [app[a] EXCEPT !.at = "verified"])
          /\ used' = [d \in Challenge |-> IF d = c THEN now ELSE Kept(d)]
          /\ accepted' = [accepted EXCEPT ![c] = @ + 1]
  /\ UNCHANGED <<idVars, now, issued, bucket, admitted, began, given, trouble>>

\* Mutant of Provision: whether the account exists was looked at before.
ProvisionUnchecked(a, p, saved) ==
  /\ Put(app[a].user, p, saved) /\ Trouble(~saved)
  /\ given' = IF saved THEN [given EXCEPT ![app[a].user] = @ \cup {a}] ELSE given

\* Identity.Provision and the answer: an account that exists is refused under the lock.
Provision(a, p, saved) ==
  LET u == app[a].user IN
  IF Exists(u) THEN saved /\ UNCHANGED <<idVars, given, trouble>>
  ELSE /\ Put(u, p, saved) /\ Trouble(~saved)
       /\ given' = IF saved THEN [given EXCEPT ![u] = @ \cup {a}] ELSE given

\* Self-serve signup and the broker's call end alike: to the broker "exists" is a success.
Settle(a, p, saved) ==
  /\ app[a].at \in {"verified", "absent"}
  /\ Provision(a, p, saved)
  /\ GoTo(a, Fresh)
  /\ UNCHANGED <<now, issued, used, bucket, accepted, admitted, began>>

\* The broker's call looks first, and leaves an account that is there as it is.
Ensure(a, u) ==
  /\ Stage(a, "idle") /\ ~Exists(u)
  /\ GoTo(a, [Fresh EXCEPT !.at = "absent", !.user = u])
  /\ UNCHANGED <<idVars, now, issued, used, bucket, accepted, admitted, began, given, trouble>>

\* A restart with the configured secret: challenges stay good, what was used is forgotten.
SignupRestart ==
  /\ Trouble(TRUE) /\ Reopen /\ Volatile
  /\ UNCHANGED <<now, issued, given>>

SignupNext ==
  \/ SignupTick \/ SignupRestart
  \/ \E c \in Challenge : Issue(c)
  \/ \E a \in Party : Use(a)
  \/ \E a \in Party, u \in User :
       \/ Ensure(a, u)
       \/ \E c \in Challenge, moved \in BOOLEAN : Apply(a, u, c, moved)
  \/ \E a \in Party, p \in NewPass, saved \in BOOLEAN : Settle(a, p, saved)

SignupSpec == IdInit /\ SignupInit /\ [][SignupNext]_<<idVars, signupVars>>

-----------------------------------------------------------------------------
SignupTypeOK ==
  /\ now \in 0 .. MaxNow /\ bucket.level \in 0 .. Burst * Cost /\ bucket.last \in 0 .. now
  /\ \A c \in Challenge : issued[c] \in Never .. now /\ used[c] \in Never .. now
  /\ \A a \in Party : app[a].at \in {"idle", "solved", "verified", "absent"}
  /\ given \in [User -> SUBSET Party]

\* One proof of work opens the gate once while the challenge is good, and after that no
\* more than once in any stretch of its length: as long as it is on the list of used
\* ones, whoever presents it, with whatever expiry, and whenever the list is cleaned.
SolutionOnce ==
  \A c \in Challenge : accepted[c] > 0 => (accepted[c] - 1) * (ChallengeTtl + 1) <= now - issued[c]

\* No schedule of attempts gets more signups through than the burst and the rate.
RateHeld == admitted * Cost <= Burst * Cost + (now - began)

\* An address is given to one party, however requests race, writes fail and the
\* process restarts.
GivenOnce == \A u \in User : Cardinality(given[u]) <= 1

\* The limits of signup: a solved challenge passes once in the length of its lifetime,
\* an address on the network gets no more attempts than the bucket holds and refills,
\* and a mail address is given to one applicant.
SignupHolds == SolutionOnce /\ RateHeld /\ GivenOnce
=============================================================================
