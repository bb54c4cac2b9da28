---------------------------- MODULE AccessProofs ----------------------------
(***************************************************************************)
(* Proofs about who is let in: web sessions and password changes, signup,  *)
(* the cached answers of the control plane, the address that limits are    *)
(* keyed by, the policy of a sender's domain and the header of its mail,   *)
(* each for any number of clients, requests, messages and lines and        *)
(* without the bounds of TLC's runs.                                       *)
(***************************************************************************)
EXTENDS Login, Signup, KeyCache, ClientAddr, EmailAuth, ListProofs

-----------------------------------------------------------------------------
(* The invariants.                                                         *)

\* What people were told of their passwords, in memory and on disk.
Accounts == IdTypeOK /\ AckedSurvives

\* What a request carries, by what it is for.
Request ==
  [at : {"idle", "v1", "check", "failed", "passed", "rotate"}, kind : {"none", "login", "other", "change", "engine"},
   ip : Ip \cup {EngineIp}, user : User, pass : Pass \cup {NoPass}, new : Pass \cup {NoPass}, tok : Token \cup {NoToken}]
WellMade(r) ==
  /\ r \in Request
  /\ r.kind = "login" => r.pass \in Pass
  /\ r.kind = "change" => r.new \in Pass /\ r.tok \in Token
  /\ r.at = "v1" => r.kind = "engine" /\ r.tok \in Token
  /\ r.at = "rotate" => r.kind = "change"
Requests == req = [c \in Client |-> req[c]] /\ \A c \in Client : WellMade(req[c])

\* A stored session has a password, which sets it apart from NoSession.
Sessions ==
  /\ sess \in [Token -> [user : User, pass : Pass \cup {NoPass}, fresh : BOOLEAN]]
  /\ gone \subseteq Token /\ refused \subseteq Token /\ behind \subseteq Token
  /\ \A t \in Token : Stored(t) => sess[t].pass \in Pass
  /\ SignedOutStays

\* The session that a password change is about to rotate is the account's, or gone; and
\* once the password is changed, what it is to be rotated to is the account's.
Changing(r) ==
  r.kind = "change" =>
    /\ IF Stored(r.tok) THEN sess[r.tok].user = r.user ELSE r.tok \in gone
    /\ r.at = "rotate" /\ Stored(r.tok) /\ r.tok \notin behind => users[r.user] = r.new
Changes == \A c \in Client : Changing(req[c])

LoginInv == Accounts /\ Requests /\ Sessions /\ Changes /\ SessionsCurrent

-----------------------------------------------------------------------------
Times ==
  /\ now \in Nat /\ began \in 0 .. now
  /\ issued \in [Challenge -> Int] /\ used \in [Challenge -> Int]
  /\ \A c \in Challenge : issued[c] \in Never .. now /\ used[c] \in Never .. now

Applicants ==
  /\ app = [a \in Party |-> app[a]]
  /\ \A a \in Party : app[a].user \in User
  /\ \A a \in Party : app[a].at = "solved" => app[a].ch \in Challenge /\ issued[app[a].ch] # Never

\* The list dates the last of a challenge's acceptances; once it is off the list, as
\* many stretches have gone by as there were acceptances.
Stretches(n) == n * (ChallengeTtl + 1)
Spent(c) ==
  accepted[c] > 0 =>
    /\ issued[c] # Never
    /\ used[c] # Never => used[c] >= issued[c] /\ Stretches(accepted[c] - 1) <= used[c] - issued[c]
    /\ used[c] = Never => Stretches(accepted[c]) <= now - issued[c]
Solutions == accepted \in [Challenge -> Nat] /\ \A c \in Challenge : Spent(c)

\* What was let through and what the bucket still holds came from the first filling and
\* from the time that was credited.
Credit ==
  /\ admitted \in Nat
  /\ bucket \in [level : 0 .. Burst * Cost, last : began .. now]
  /\ admitted * Cost + bucket.level <= Burst * Cost + (bucket.last - began)

\* Whoever was told that an address is theirs has it in memory and on disk.
Owners ==
  /\ given \in [User -> SUBSET Party]
  /\ \A u \in User :
       /\ given[u] = {} \/ \E a \in Party : given[u] = {a}
       /\ given[u] # {} => users[u] # NoPass /\ disk[u] # NoPass

SignupInv == Accounts /\ Times /\ Applicants /\ Solutions /\ Credit /\ Owners

-----------------------------------------------------------------------------
\* An answer on its way was right within the request's time, and a remembered one within
\* a timeout of when it arrived.
CacheInv ==
  /\ good \in BOOLEAN /\ was \in [BOOLEAN -> 0 .. Horizon] /\ cache \in [good : BOOLEAN, age : 0 .. Horizon]
  /\ ask = [k \in Asker |-> ask[k]]
  /\ \A k \in Asker : ask[k] \in [at : {"idle", "sent", "answered"}, good : BOOLEAN, age : 0 .. Timeout]
  /\ was[good] = 0
  /\ \A k \in Asker : ask[k].at = "answered" => was[ask[k].good] <= ask[k].age
  /\ cache.age < CacheTtl => was[cache.good] <= cache.age + Timeout


-----------------------------------------------------------------------------
(* The cached answers: the proofs.                                         *)

\* The numbers that ages are capped by.
LEMMA HorizonFacts == CacheTtl \in Nat /\ Timeout \in Nat /\ Horizon \in Nat /\ Horizon = CacheTtl + Timeout + 1
BY CacheAssumption DEF Horizon

\* Nothing was asked and nothing is remembered.
LEMMA CacheStart == CacheInit => CacheInv
<1> SUFFICES ASSUME CacheInit PROVE CacheInv
  OBVIOUS
<1>1. good \in BOOLEAN /\ was = [v \in BOOLEAN |-> IF v = good THEN 0 ELSE Horizon] /\ cache = Absent
      /\ ask = [k \in Asker |-> Quiet]
  BY DEF CacheInit
<1>2. was \in [BOOLEAN -> 0 .. Horizon] /\ was[good] = 0
  <2>1. 0 \in 0 .. Horizon /\ Horizon \in 0 .. Horizon
    BY HorizonFacts
  <2> QED
    BY <1>1, <2>1, Zenon
<1>3. cache \in [good : BOOLEAN, age : 0 .. Horizon] /\ ~(cache.age < CacheTtl)
  BY <1>1, HorizonFacts DEF Absent
<1>4. /\ ask = [k \in Asker |-> ask[k]]
      /\ \A k \in Asker : ask[k] \in [at : {"idle", "sent", "answered"}, good : BOOLEAN, age : 0 .. Timeout]
      /\ \A k \in Asker : ask[k].at # "answered"
  BY <1>1, HorizonFacts DEF Quiet
<1> QED
  BY <1>1, <1>2, <1>3, <1>4 DEF CacheInv

\* Time passes for what was decided, what is remembered and what is under way alike.
LEMMA CacheTickInv == CacheInv /\ CacheTick => CacheInv'
<1> SUFFICES ASSUME CacheInv, CacheTick PROVE CacheInv'
  OBVIOUS
<1>1. /\ \A k \in Asker : ask[k].at = "idle" \/ ask[k].age < Timeout
      /\ was' = [v \in BOOLEAN |-> IF v = good THEN 0 ELSE Aged(was[v])]
      /\ cache' = [cache EXCEPT !.age = Aged(@)]
      /\ ask' = [k \in Asker |-> IF ask[k].at = "idle" THEN Quiet ELSE [ask[k] EXCEPT !.age = @ + 1]]
      /\ good' = good
  BY DEF CacheTick
<1>2. ASSUME NEW n \in 0 .. Horizon
      PROVE  Aged(n) \in 0 .. Horizon /\ n <= Aged(n) /\ Aged(n) <= n + 1 /\ (n < Horizon => Aged(n) = n + 1)
  BY HorizonFacts DEF Aged
<1>3. was' \in [BOOLEAN -> 0 .. Horizon] /\ was'[good'] = 0
  <2>1. \A v \in BOOLEAN : was[v] \in 0 .. Horizon /\ Aged(was[v]) \in 0 .. Horizon /\ 0 \in 0 .. Horizon
    BY <1>2, HorizonFacts DEF CacheInv
  <2>2. good \in BOOLEAN
    BY DEF CacheInv
  <2> QED
    BY <1>1, <2>1, <2>2, Zenon
<1>4. \A v \in BOOLEAN : was'[v] <= was[v] + 1
  <2> SUFFICES ASSUME NEW v \in BOOLEAN PROVE was'[v] <= was[v] + 1
    OBVIOUS
  <2>1. was[v] \in 0 .. Horizon
    BY DEF CacheInv
  <2>2. was'[v] = 0 \/ was'[v] = Aged(was[v])
    BY <1>1, Zenon
  <2> QED
    BY <1>2, <2>1, <2>2
<1>5. /\ cache' \in [good : BOOLEAN, age : 0 .. Horizon]
      /\ cache'.age < CacheTtl => was'[cache'.good] <= cache'.age + Timeout
  <2>1. cache.age \in 0 .. Horizon /\ cache.good \in BOOLEAN /\ cache'.good = cache.good /\ cache'.age = Aged(cache.age)
    BY <1>1 DEF CacheInv
  <2>2. cache' \in [good : BOOLEAN, age : 0 .. Horizon]
    BY <1>1, <1>2, <2>1 DEF CacheInv
  <2>3. ASSUME cache'.age < CacheTtl PROVE was'[cache'.good] <= cache'.age + Timeout
    <3>1. cache.age < CacheTtl /\ cache'.age = cache.age + 1
      BY <1>2, <2>1, <2>3, HorizonFacts
    <3>2. was[cache.good] <= cache.age + Timeout
      BY <3>1 DEF CacheInv
    <3>3. was'[cache.good] <= was[cache.good] + 1 /\ was[cache.good] \in Nat /\ was'[cache.good] \in Nat
      BY <1>3, <1>4, <2>1 DEF CacheInv
    <3> QED
      BY <2>1, <3>1, <3>2, <3>3, HorizonFacts
  <2> QED
    BY <2>2, <2>3
<1>6. ASSUME NEW k \in Asker
      PROVE  /\ ask'[k] \in [at : {"idle", "sent", "answered"}, good : BOOLEAN, age : 0 .. Timeout]
             /\ ask'[k].at = "answered" => was'[ask'[k].good] <= ask'[k].age
  <2>1. ask[k] \in [at : {"idle", "sent", "answered"}, good : BOOLEAN, age : 0 .. Timeout]
    BY DEF CacheInv
  <2>2. CASE ask[k].at = "idle"
    BY <1>1, <2>2, HorizonFacts DEF Quiet
  <2>3. CASE ask[k].at # "idle"
    <3>1. ask[k].age < Timeout /\ ask'[k] = [ask[k] EXCEPT !.age = @ + 1]
      BY <1>1, <2>3
    <3>2. /\ ask'[k] \in [at : {"idle", "sent", "answered"}, good : BOOLEAN, age : 0 .. Timeout]
          /\ ask'[k].at = ask[k].at /\ ask'[k].good = ask[k].good /\ ask'[k].age = ask[k].age + 1
      BY <2>1, <3>1, HorizonFacts
    <3>3. ASSUME ask[k].at = "answered" PROVE was'[ask[k].good] <= ask[k].age + 1
      <4>1. was[ask[k].good] <= ask[k].age
        BY <3>3 DEF CacheInv
      <4>2. was'[ask[k].good] <= was[ask[k].good] + 1 /\ was[ask[k].good] \in Nat /\ was'[ask[k].good] \in Nat
        BY <1>3, <1>4, <2>1 DEF CacheInv
      <4> QED
        BY <2>1, <4>1, <4>2
    <3> QED
      BY <3>2, <3>3
  <2> QED
    BY <2>2, <2>3
<1>7. ask' = [k \in Asker |-> ask'[k]]
  BY <1>1
<1> QED
  BY <1>1, <1>3, <1>5, <1>6, <1>7 DEF CacheInv

\* The control plane changes its mind; what it said before was right until now.
LEMMA DecideInv == CacheInv /\ Decide => CacheInv'
<1> SUFFICES ASSUME CacheInv, Decide PROVE CacheInv'
  OBVIOUS
<1>1. good \in BOOLEAN /\ good' = ~good /\ was' = [was EXCEPT ![~good] = 0] /\ cache' = cache /\ ask' = ask
      /\ was \in [BOOLEAN -> 0 .. Horizon] /\ 0 \in 0 .. Horizon
  BY HorizonFacts DEF Decide, CacheInv
<1>2. was' \in [BOOLEAN -> 0 .. Horizon] /\ was'[good'] = 0 /\ good' \in BOOLEAN
  BY <1>1, Zenon
<1>3. \A v \in BOOLEAN : was'[v] = 0 \/ was'[v] = was[v]
  BY <1>1, Zenon
<1>4. \A v \in BOOLEAN : was'[v] <= was[v]
  <2>1. \A v \in BOOLEAN : was[v] \in Nat
    BY <1>1
  <2> QED
    BY <1>3, <2>1
<1>5. ASSUME NEW k \in Asker, ask[k].at = "answered" PROVE was'[ask[k].good] <= ask[k].age
  <2>1. was[ask[k].good] <= ask[k].age /\ ask[k].good \in BOOLEAN /\ ask[k].age \in Nat
    BY <1>5, HorizonFacts DEF CacheInv
  <2>2. was'[ask[k].good] <= was[ask[k].good] /\ was[ask[k].good] \in Nat /\ was'[ask[k].good] \in Nat
    BY <1>1, <1>2, <1>4, <2>1
  <2> QED
    BY <2>1, <2>2
<1>6. ASSUME cache.age < CacheTtl PROVE was'[cache.good] <= cache.age + Timeout
  <2>1. was[cache.good] <= cache.age + Timeout /\ cache.good \in BOOLEAN /\ cache.age \in Nat
    BY <1>6, HorizonFacts DEF CacheInv
  <2>2. was'[cache.good] <= was[cache.good] /\ was[cache.good] \in Nat /\ was'[cache.good] \in Nat
    BY <1>1, <1>2, <1>4, <2>1
  <2> QED
    BY <2>1, <2>2, HorizonFacts
<1> QED
  BY <1>1, <1>2, <1>5, <1>6 DEF CacheInv

\* A request is sent or given up.
LEMMA SendInv ==
  ASSUME CacheInv, NEW k \in Asker, Send(k) \/ Lost(k)
  PROVE  CacheInv'
<1>1. \E s \in {"idle", "sent"} : ask' = [ask EXCEPT ![k] = [at |-> s, good |-> FALSE, age |-> 0]]
  BY DEF Send, Lost, Quiet
<1>2. good' = good /\ was' = was /\ cache' = cache
  BY DEF Send, Lost
<1>3. PICK s \in {"idle", "sent"} : ask' = [ask EXCEPT ![k] = [at |-> s, good |-> FALSE, age |-> 0]]
  BY <1>1
<1> DEFINE r == [at |-> s, good |-> FALSE, age |-> 0]
<1>4. r \in [at : {"idle", "sent", "answered"}, good : BOOLEAN, age : 0 .. Timeout] /\ r.at # "answered"
  BY HorizonFacts
<1>5. /\ ask' = [j \in Asker |-> ask'[j]] /\ ask'[k] = r
      /\ \A j \in Asker : j # k => ask'[j] = ask[j]
  BY <1>3 DEF CacheInv
<1> QED
  BY <1>2, <1>4, <1>5 DEF CacheInv

\* The control plane answers with what holds at that moment.
LEMMA AnswerInv ==
  ASSUME CacheInv, NEW k \in Asker, Answer(k)
  PROVE  CacheInv'
<1>1. /\ ask' = [ask EXCEPT ![k].at = "answered", ![k].good = good]
      /\ good' = good /\ was' = was /\ cache' = cache
  BY DEF Answer
<1> DEFINE r == [ask[k] EXCEPT !.at = "answered", !.good = good]
<1>2. /\ r \in [at : {"idle", "sent", "answered"}, good : BOOLEAN, age : 0 .. Timeout]
      /\ r.good = good /\ r.age = ask[k].age /\ r.age \in Nat
  <2>1. ask[k] \in [at : {"idle", "sent", "answered"}, good : BOOLEAN, age : 0 .. Timeout] /\ good \in BOOLEAN
    BY DEF CacheInv
  <2>2. r \in [at : {"idle", "sent", "answered"}, good : BOOLEAN, age : 0 .. Timeout] /\ r.good = good /\ r.age = ask[k].age
    BY <2>1, Zenon
  <2>3. ask[k].age \in Nat
    BY <2>1, HorizonFacts
  <2> QED
    BY <2>2, <2>3
<1>3. /\ ask' = [j \in Asker |-> ask'[j]] /\ ask'[k] = r
      /\ \A j \in Asker : j # k => ask'[j] = ask[j]
  BY <1>1 DEF CacheInv
<1> HIDE DEF r
<1>4. was[good] = 0
  BY Zenon DEF CacheInv
<1>5. was'[ask'[k].good] <= ask'[k].age
  <2>1. was'[ask'[k].good] = 0
    BY <1>1, <1>2, <1>3, <1>4, Zenon
  <2> QED
    BY <1>2, <1>3, <2>1
<1> QED
  BY <1>1, <1>2, <1>3, <1>5 DEF CacheInv

\* An answer arrives, possibly after one that was given later.
LEMMA RememberInv ==
  ASSUME CacheInv, NEW k \in Asker, Remember(k)
  PROVE  CacheInv'
<1>1. /\ ask[k].at = "answered" /\ cache' = [good |-> ask[k].good, age |-> 0]
      /\ ask' = [ask EXCEPT ![k] = Quiet] /\ good' = good /\ was' = was
  BY DEF Remember
<1>2. ask[k].good \in BOOLEAN /\ ask[k].age \in 0 .. Timeout /\ was[ask[k].good] <= ask[k].age
  BY <1>1 DEF CacheInv
<1>3. cache' \in [good : BOOLEAN, age : 0 .. Horizon] /\ cache'.age = 0 /\ cache'.good = ask[k].good
  BY <1>1, <1>2, HorizonFacts
<1>4. was'[cache'.good] <= cache'.age + Timeout
  <2>1. was[ask[k].good] \in Nat
    BY <1>2, HorizonFacts DEF CacheInv
  <2> QED
    BY <1>1, <1>2, <1>3, <2>1, HorizonFacts
<1>5. /\ ask' = [j \in Asker |-> ask'[j]] /\ ask'[k] = Quiet
      /\ \A j \in Asker : j # k => ask'[j] = ask[j]
  BY <1>1 DEF CacheInv
<1>6. Quiet \in [at : {"idle", "sent", "answered"}, good : BOOLEAN, age : 0 .. Timeout] /\ Quiet.at # "answered"
  BY HorizonFacts DEF Quiet
<1> QED
  BY <1>1, <1>3, <1>4, <1>5, <1>6 DEF CacheInv

\* The inductive invariant of the cached answers.
THEOREM CacheInvariant == CacheSpec => []CacheInv
<1>1. CacheInit => CacheInv
  BY CacheStart
<1>2. CacheInv /\ [CacheNext]_cacheVars => CacheInv'
  <2> SUFFICES ASSUME CacheInv, [CacheNext]_cacheVars PROVE CacheInv'
    OBVIOUS
  <2>1. CASE UNCHANGED cacheVars
    BY <2>1 DEF CacheInv, cacheVars
  <2>2. ASSUME NEW k \in Asker, Hit(k) PROVE UNCHANGED cacheVars
    BY <2>2 DEF Hit
  <2> QED
    BY <2>1, <2>2, CacheTickInv, DecideInv, SendInv, AnswerInv, RememberInv DEF CacheNext
<1> QED
  BY <1>1, <1>2, PTL DEF CacheSpec

\* An answer that may be used from the cache was right less than the cache's time and one
\* timeout ago: a revoked key and a suspended account stop working by then, however many
\* requests there are and in whatever order their answers arrive.
THEOREM DecisionsTakeHold == CacheSpec => []AnswersAreRecent
<1>1. CacheInv => AnswersAreRecent
  <2> SUFFICES ASSUME CacheInv, FromCache PROVE was[cache.good] < CacheTtl + Timeout
    BY DEF AnswersAreRecent
  <2>1. cache.age < CacheTtl
    BY DEF FromCache
  <2>2. was[cache.good] <= cache.age + Timeout /\ cache.age \in 0 .. Horizon /\ was[cache.good] \in 0 .. Horizon
    BY <2>1 DEF CacheInv
  <2> QED
    BY <2>1, <2>2, HorizonFacts
<1> QED
  BY <1>1, CacheInvariant, PTL

-----------------------------------------------------------------------------
(* The account store: the proofs.                                          *)

\* The account of the configuration, at the start.
LEMMA AccountsStart == IdInit => Accounts
BY PassAssumption DEF IdInit, Start, Accounts, IdTypeOK, AckedSurvives

\* A password that was saved is what everybody was told; one that was not may be either.
LEMMA PutAccounts ==
  ASSUME Accounts, NEW u \in User, NEW p \in Pass, NEW saved \in BOOLEAN, Put(u, p, saved)
  PROVE  /\ Accounts'
         /\ users'[u] = p /\ \A v \in User : v # u => users'[v] = users[v]
         /\ disk' = users' \/ disk' = disk
         /\ saved => disk' = users'
<1>1. /\ users' = [users EXCEPT ![u] = p] /\ (disk' = users' \/ disk' = disk) /\ (saved => disk' = users')
      /\ may' = [may EXCEPT ![u] = IF saved THEN {p} ELSE @ \cup {p}]
  BY DEF Put
<1>2. /\ users \in [User -> Pass \cup {NoPass}] /\ disk \in [User -> Pass \cup {NoPass}]
      /\ may \in [User -> SUBSET (Pass \cup {NoPass})]
      /\ \A v \in User : disk[v] \in may[v] /\ users[v] \in may[v]
  BY DEF Accounts, IdTypeOK, AckedSurvives
<1>3. IdTypeOK'
  BY <1>1, <1>2 DEF IdTypeOK
<1>4. AckedSurvives'
  <2>1. CASE saved
    <3>1. disk' = users' /\ may' = [may EXCEPT ![u] = {p}]
      BY <1>1, <2>1
    <3> QED
      BY <1>1, <1>2, <3>1 DEF AckedSurvives
  <2>2. CASE ~saved
    <3>1. may' = [may EXCEPT ![u] = @ \cup {p}]
      BY <1>1, <2>2
    <3> QED
      BY <1>1, <1>2, <3>1 DEF AckedSurvives
  <2> QED
    BY <2>1, <2>2
<1> QED
  BY <1>1, <1>2, <1>3, <1>4 DEF Accounts

\* A restart reads the file, and puts the account of the configuration into it.
LEMMA ReopenAccounts ==
  ASSUME Accounts, Reopen
  PROVE  /\ Accounts' /\ users' = disk'
         /\ \A u \in User : disk'[u] = disk[u] \/ disk'[u] \in Pass
<1>1. /\ disk' = [disk EXCEPT ![ConfigUser] = ConfigPass] /\ users' = disk'
      /\ may' = [may EXCEPT ![ConfigUser] = {ConfigPass}]
  BY DEF Reopen
<1> QED
  BY <1>1, PassAssumption DEF Accounts, IdTypeOK, AckedSurvives

-----------------------------------------------------------------------------
(* Signup: the proofs.                                                     *)

\* The capacity of a bucket.
LEMMA BucketSize == Burst * Cost \in Nat /\ Cost \in Nat
BY SignupAssumption

\* One stretch more.
LEMMA OneMore ==
  /\ ChallengeTtl \in Nat
  /\ \A n \in Nat : Stretches(n) \in Nat /\ Stretches(n + 1) = Stretches(n) + (ChallengeTtl + 1)
  /\ Stretches(0) = 0
<1>1. ChallengeTtl \in Nat
  BY SignupAssumption
<1>2. ASSUME NEW n \in Nat PROVE Stretches(n) \in Nat /\ Stretches(n + 1) = Stretches(n) + (ChallengeTtl + 1)
  BY <1>1 DEF Stretches
<1>3. Stretches(0) = 0
  BY <1>1 DEF Stretches
<1> QED
  BY <1>1, <1>2, <1>3

\* No challenge, no request and a full bucket.
LEMMA SignupStart == IdInit /\ SignupInit => SignupInv
<1> SUFFICES ASSUME IdInit, SignupInit PROVE SignupInv
  OBVIOUS
<1>1. Accounts
  BY AccountsStart
<1>2. Times
  BY DEF SignupInit, Times, Never
<1>3. Applicants
  BY PassAssumption DEF SignupInit, Applicants, Fresh
<1>4. Solutions
  BY DEF SignupInit, Solutions, Spent
<1>5. Credit
  <2>1. admitted = 0 /\ began = 0 /\ now = 0 /\ bucket = [level |-> Burst * Cost, last |-> 0]
    BY DEF SignupInit
  <2>2. 0 * Cost = 0
    BY BucketSize
  <2> DEFINE K == Burst * Cost
  <2>3. K \in Nat
    BY BucketSize
  <2> HIDE DEF K
  <2>4. bucket \in [level : 0 .. K, last : began .. now] /\ admitted * Cost + bucket.level <= K + (bucket.last - began)
    <3>1. bucket = [level |-> K, last |-> 0]
      BY <2>1 DEF K
    <3> QED
      BY <2>1, <2>2, <2>3, <3>1
  <2> QED
    BY <2>1, <2>4 DEF Credit, K
<1>6. Owners
  BY DEF SignupInit, Owners
<1> QED
  BY <1>1, <1>2, <1>3, <1>4, <1>5, <1>6 DEF SignupInv

\* Time passes; a challenge is issued, once.
LEMMA TickInv ==
  ASSUME SignupInv, SignupTick \/ \E c \in Challenge : Issue(c)
  PROVE  SignupInv'
<1>1. /\ UNCHANGED <<users, disk, may, used, bucket, app, accepted, admitted, began, given>>
      /\ now' \in {now, now + 1}
  BY DEF SignupTick, Issue, idVars
<1>2. issued' = issued \/ \E c \in Challenge : issued[c] = Never /\ now' = now /\ issued' = [issued EXCEPT ![c] = now]
  BY DEF SignupTick, Issue
<1>3. now \in Nat /\ now' \in Nat /\ now <= now'
  BY <1>1 DEF SignupInv, Times
<1>4. Times'
  <2>1. CASE issued' = issued
    BY <1>1, <1>3, <2>1 DEF SignupInv, Times, Never
  <2>2. CASE \E c \in Challenge : issued[c] = Never /\ now' = now /\ issued' = [issued EXCEPT ![c] = now]
    BY <1>1, <1>3, <2>2 DEF SignupInv, Times, Never
  <2> QED
    BY <1>2, <2>1, <2>2
<1>5. \A c \in Challenge : issued[c] # Never => issued'[c] = issued[c]
  BY <1>2 DEF SignupInv, Times
<1>6. Applicants'
  <2>1. now # Never
    BY <1>3 DEF Never
  <2> QED
    BY <1>1, <1>2, <1>5, <2>1 DEF SignupInv, Applicants, Times
<1>7. Solutions'
  <2>1. \A c \in Challenge : issued[c] \in Int /\ used[c] \in Int
    BY DEF SignupInv, Times
  <2>2. ASSUME NEW c \in Challenge PROVE Spent(c)'
    <3> SUFFICES ASSUME accepted[c] > 0
                 PROVE  /\ issued'[c] # Never
                        /\ used[c] # Never => used[c] >= issued'[c] /\ Stretches(accepted[c] - 1) <= used[c] - issued'[c]
                        /\ used[c] = Never => Stretches(accepted[c]) <= now' - issued'[c]
      BY <1>1 DEF Spent, Stretches
    <3>1. Spent(c) /\ accepted[c] \in Nat
      BY DEF SignupInv, Solutions
    <3>2. issued[c] # Never /\ issued'[c] = issued[c]
      BY <1>5, <3>1 DEF Spent
    <3>3. used[c] # Never => used[c] >= issued[c] /\ Stretches(accepted[c] - 1) <= used[c] - issued[c]
      BY <3>1 DEF Spent
    <3>4. used[c] = Never => Stretches(accepted[c]) <= now - issued[c]
      BY <3>1 DEF Spent
    <3>5. Stretches(accepted[c]) \in Nat
      BY <3>1, OneMore
    <3> QED
      BY <1>3, <2>1, <3>2, <3>3, <3>4, <3>5
  <2> QED
    BY <1>1, <2>2 DEF SignupInv, Solutions
<1>8. Credit'
  <2>1. bucket'.last \in began .. now' /\ bucket' = bucket
    BY <1>1, <1>3 DEF SignupInv, Credit, Times
  <2>2. bucket' \in [level : 0 .. Burst * Cost, last : began .. now']
    BY <2>1 DEF SignupInv, Credit
  <2> QED
    BY <1>1, <2>2 DEF SignupInv, Credit
<1>9. Accounts' /\ Owners'
  BY <1>1 DEF SignupInv, Accounts, IdTypeOK, AckedSurvives, Owners
<1> QED
  BY <1>4, <1>6, <1>7, <1>8, <1>9 DEF SignupInv

\* The rate limit, and the challenge as it stands.
LEMMA ApplyInv ==
  ASSUME SignupInv, NEW a \in Party, NEW u \in User, NEW c \in Challenge, NEW moved \in BOOLEAN, Apply(a, u, c, moved)
  PROVE  SignupInv'
<1>1. /\ issued[c] # Never /\ UNCHANGED <<users, disk, may, now, issued, used, accepted, began, given>>
      /\ app' = app \/ app' = [app EXCEPT ![a] = [ch |-> c, at |-> "solved", user |-> u]]
  BY DEF Apply, GoTo, idVars
<1>2. \/ bucket' = Refilled /\ admitted' = admitted
      \/ Refilled.level >= Cost /\ bucket' = [Refilled EXCEPT !.level = @ - Cost] /\ admitted' = admitted + 1
  <2>1. Refilled.level \in Int /\ Cost \in Int
    BY BucketSize DEF Refilled, SignupInv, Credit, Times
  <2> QED
    BY <2>1 DEF Apply
<1>3. Credit'
  <2> DEFINE K == Burst * Cost
             A == admitted * Cost
             free == Refilled.level
  <2>1. K \in Nat /\ Cost \in Nat /\ admitted \in Nat
    BY BucketSize DEF SignupInv, Credit
  <2>2. A \in Nat /\ (admitted + 1) * Cost = A + Cost
    BY <2>1
  <2>3. /\ now \in Nat /\ began \in 0 .. now /\ bucket.level \in 0 .. K /\ bucket.last \in began .. now
        /\ A + bucket.level <= K + (bucket.last - began)
    BY DEF SignupInv, Times, Credit
  <2> HIDE DEF K, A
  <2>4. /\ Refilled = [level |-> free, last |-> now] /\ free \in 0 .. K /\ free <= bucket.level + (now - bucket.last)
    <3>1. free = IF bucket.level + (now - bucket.last) > K THEN K ELSE bucket.level + (now - bucket.last)
      BY DEF Refilled, K
    <3>2. Refilled = [level |-> free, last |-> now]
      BY DEF Refilled
    <3> HIDE DEF free
    <3> QED
      BY <2>1, <2>3, <3>1, <3>2
  <2> HIDE DEF free
  <2>5. A + free <= K + (now - began)
    BY <2>1, <2>2, <2>3, <2>4
  <2>6. CASE bucket' = Refilled /\ admitted' = admitted
    <3>1. bucket'.level = free /\ bucket'.last = now
      BY <2>4, <2>6
    <3>2. bucket' \in [level : 0 .. K, last : began .. now]
      BY <2>3, <2>4, <2>6
    <3> QED
      BY <1>1, <2>1, <2>5, <2>6, <3>1, <3>2 DEF Credit, K, A
  <2>7. CASE free >= Cost /\ bucket' = [Refilled EXCEPT !.level = @ - Cost] /\ admitted' = admitted + 1
    <3>1. bucket' = [level |-> free - Cost, last |-> now]
      BY <2>4, <2>7
    <3>2. bucket' \in [level : 0 .. K, last : began .. now] /\ (A + Cost) + bucket'.level <= K + (bucket'.last - began)
      BY <2>1, <2>2, <2>3, <2>4, <2>5, <2>7, <3>1
    <3>3. admitted' * Cost = A + Cost /\ admitted' \in Nat
      BY <2>1, <2>2, <2>7
    <3> QED
      BY <1>1, <3>2, <3>3 DEF Credit, K
  <2> QED
    BY <1>2, <2>6, <2>7 DEF free
<1>4. Applicants'
  BY <1>1 DEF SignupInv, Applicants
<1> QED
  BY <1>1, <1>3, <1>4 DEF SignupInv, Accounts, IdTypeOK, AckedSurvives, Times, Solutions, Spent, Stretches, Owners

\* The end of Verify: what gcLocked drops was used a stretch ago.
LEMMA UseInv ==
  ASSUME SignupInv, NEW a \in Party, Use(a)
  PROVE  SignupInv'
<1> DEFINE c == app[a].ch
<1>1. /\ app[a].at = "solved" /\ UNCHANGED <<users, disk, may, now, issued, bucket, admitted, began, given>>
      /\ \/ /\ app' = [app EXCEPT ![a] = Fresh] /\ used' = [d \in Challenge |-> Kept(d)] /\ accepted' = accepted
         \/ /\ Kept(c) = Never /\ app' = [app EXCEPT ![a] = [app[a] EXCEPT !.at = "verified"]]
            /\ used' = [d \in Challenge |-> IF d = c THEN now ELSE Kept(d)]
            /\ accepted' = [accepted EXCEPT ![c] = @ + 1]
  BY DEF Use, Stage, GoTo, idVars
<1>2. c \in Challenge /\ issued[c] # Never
  BY <1>1 DEF SignupInv, Applicants
<1>3. /\ now \in Nat /\ ChallengeTtl \in Nat
      /\ \A d \in Challenge : issued[d] \in Never .. now /\ used[d] \in Never .. now
  BY SignupAssumption DEF SignupInv, Times
<1>4. \A d \in Challenge : Kept(d) \in Never .. now /\ Kept(d) \in {Never, used[d]} /\ (used[d] >= now - ChallengeTtl => Kept(d) = used[d])
  BY <1>3 DEF Kept, Never
<1>5. Times'
  <2>1. \A d \in Challenge : used'[d] \in Never .. now
    BY <1>1, <1>3, <1>4 DEF Never
  <2>2. used' = [d \in Challenge |-> used'[d]]
    BY <1>1
  <2>3. used' \in [Challenge -> Int]
    BY <1>3, <2>1, <2>2 DEF Never
  <2> QED
    BY <1>1, <2>1, <2>3 DEF SignupInv, Times
<1>6. Applicants'
  <2>1. Fresh.user \in User /\ Fresh.at # "solved"
    BY PassAssumption DEF Fresh
  <2> DEFINE r == [app[a] EXCEPT !.at = "verified"]
  <2>2. r.user \in User /\ r.at # "solved"
    BY DEF SignupInv, Applicants
  <2> HIDE DEF r
  <2>3. app' = [app EXCEPT ![a] = Fresh] \/ app' = [app EXCEPT ![a] = r]
    BY <1>1 DEF r
  <2> QED
    BY <1>1, <2>1, <2>2, <2>3 DEF SignupInv, Applicants
<1>7. Solutions'
  <2>1. accepted \in [Challenge -> Nat] /\ \A d \in Challenge : Spent(d)
    BY DEF SignupInv, Solutions
  <2>2. ASSUME NEW d \in Challenge, accepted[d] > 0
        PROVE  /\ issued[d] # Never
               /\ Kept(d) # Never => Kept(d) >= issued[d] /\ Stretches(accepted[d] - 1) <= Kept(d) - issued[d]
               /\ Kept(d) = Never => Stretches(accepted[d]) <= now - issued[d]
    <3>1. /\ issued[d] # Never
          /\ used[d] # Never => used[d] >= issued[d] /\ Stretches(accepted[d] - 1) <= used[d] - issued[d]
          /\ used[d] = Never => Stretches(accepted[d]) <= now - issued[d]
      BY <2>1, <2>2 DEF Spent
    <3>2. accepted[d] - 1 \in Nat
      BY <2>1, <2>2
    <3>3. Stretches(accepted[d] - 1) \in Nat /\ Stretches(accepted[d]) = Stretches(accepted[d] - 1) + (ChallengeTtl + 1)
      <4>1. (accepted[d] - 1) + 1 = accepted[d]
        BY <2>1
      <4>2. \A n \in Nat : Stretches(n) \in Nat /\ Stretches(n + 1) = Stretches(n) + (ChallengeTtl + 1)
        BY OneMore
      <4>3. /\ Stretches(accepted[d] - 1) \in Nat
            /\ Stretches((accepted[d] - 1) + 1) = Stretches(accepted[d] - 1) + (ChallengeTtl + 1)
        BY <3>2, <4>2
      <4> QED
        BY <4>1, <4>3
    <3>4. issued[d] \in Int /\ used[d] \in Int /\ Kept(d) = IF used[d] < now - ChallengeTtl THEN Never ELSE used[d]
      BY <1>3 DEF Kept, Never
    <3> QED
      BY <1>3, <3>1, <3>3, <3>4 DEF Never
  <2>3. CASE used' = [d \in Challenge |-> Kept(d)] /\ accepted' = accepted
    <3>1. ASSUME NEW d \in Challenge PROVE Spent(d)'
      BY <1>1, <2>2, <2>3 DEF Spent, Stretches
    <3> QED
      BY <2>1, <2>3, <3>1 DEF Solutions
  <2>4. CASE /\ Kept(c) = Never
             /\ used' = [d \in Challenge |-> IF d = c THEN now ELSE Kept(d)]
             /\ accepted' = [accepted EXCEPT ![c] = @ + 1]
    <3>0. Kept(c) = Never
      BY <2>4
    <3>1. PICK e \in Challenge : e = c
      BY <1>2
    <3>2. /\ Kept(e) = Never /\ issued[e] # Never
          /\ used' = [d \in Challenge |-> IF d = e THEN now ELSE Kept(d)]
          /\ accepted' = [accepted EXCEPT ![e] = @ + 1]
      BY <1>2, <2>4, <3>0, <3>1
    <3> HIDE DEF c
    <3>3. accepted' \in [Challenge -> Nat] /\ \A d \in Challenge : d # e => accepted'[d] = accepted[d] /\ used'[d] = Kept(d)
      BY <2>1, <3>2
    <3>4. ASSUME NEW d \in Challenge, d # e PROVE Spent(d)'
      BY <1>1, <2>2, <3>3, <3>4 DEF Spent, Stretches
    <3>5. Spent(e)'
      <4>1. accepted'[e] = accepted[e] + 1 /\ used'[e] = now /\ accepted[e] \in Nat
        BY <2>1, <3>2
      <4>2. issued[e] \in Int /\ now >= issued[e] /\ now # Never
        BY <1>3 DEF Never
      <4>3. Stretches(accepted[e]) <= now - issued[e]
        <5>1. CASE accepted[e] > 0
          BY <2>2, <3>2, <5>1
        <5>2. CASE accepted[e] = 0
          BY <1>3, <4>2, <5>2, OneMore
        <5> QED
          BY <4>1, <5>1, <5>2
      <4>4. accepted'[e] - 1 = accepted[e]
        BY <4>1
      <4>5. Stretches(accepted[e])' = Stretches(accepted'[e])
        BY DEF Stretches
      <4>6. Stretches(accepted'[e] - 1) <= now - issued[e]
        BY <4>3, <4>4
      <4> QED
        BY <1>1, <3>2, <4>1, <4>2, <4>6 DEF Spent, Stretches
    <3> QED
      BY <3>3, <3>4, <3>5 DEF Solutions
  <2> QED
    BY <1>1, <2>3, <2>4
<1> QED
  BY <1>1, <1>5, <1>6, <1>7 DEF SignupInv, Accounts, IdTypeOK, AckedSurvives, Credit, Owners

\* A request for an address that is there is refused, by the broker without a trace.
LEMMA EnsureInv ==
  ASSUME SignupInv, NEW a \in Party, NEW u \in User, Ensure(a, u)
  PROVE  SignupInv'
<1>1. /\ app' = [app EXCEPT ![a] = [Fresh EXCEPT !.at = "absent", !.user = u]]
      /\ UNCHANGED <<users, disk, may, now, issued, used, bucket, accepted, admitted, began, given>>
  BY DEF Ensure, GoTo, idVars
<1> DEFINE r == [Fresh EXCEPT !.at = "absent", !.user = u]
<1>2. r.user \in User /\ r.at # "solved"
  BY DEF Fresh
<1> HIDE DEF r
<1>3. Applicants'
  BY <1>1, <1>2 DEF SignupInv, Applicants, r
<1> QED
  BY <1>1, <1>3 DEF SignupInv, Accounts, IdTypeOK, AckedSurvives, Times, Solutions, Spent, Stretches, Credit, Owners

\* An account is created for one applicant, in memory and on disk before the answer.
LEMMA SettleInv ==
  ASSUME SignupInv, NEW a \in Party, NEW p \in NewPass, NEW saved \in BOOLEAN, Settle(a, p, saved)
  PROVE  SignupInv'
<1>1. /\ Provision(a, p, saved) /\ app' = [app EXCEPT ![a] = Fresh]
      /\ UNCHANGED <<now, issued, used, bucket, accepted, admitted, began>>
  BY DEF Settle, GoTo
<1>2. Applicants'
  <2>1. Fresh.user \in User /\ Fresh.at # "solved"
    BY PassAssumption DEF Fresh
  <2> QED
    BY <1>1, <2>1 DEF SignupInv, Applicants
<1>3. Accounts' /\ Owners'
  <2>1. PICK u \in User : u = app[a].user
    BY DEF SignupInv, Applicants
  <2>2. CASE UNCHANGED <<users, disk, may, given>>
    BY <2>2 DEF SignupInv, Accounts, IdTypeOK, AckedSurvives, Owners
  <2>3. CASE /\ users[u] = NoPass /\ Put(u, p, saved)
             /\ given' = IF saved THEN [given EXCEPT ![u] = @ \cup {a}] ELSE given
    <3>1. p \in Pass /\ p # NoPass
      BY SignupAssumption, PassAssumption
    <3>2. /\ Accounts' /\ users'[u] = p /\ (\A v \in User : v # u => users'[v] = users[v])
          /\ (disk' = users' \/ disk' = disk) /\ (saved => disk' = users')
      BY <2>3, <3>1, PutAccounts DEF SignupInv
    <3>3. given[u] = {} /\ given \in [User -> SUBSET Party]
      BY <2>3 DEF SignupInv, Owners
    <3>4. CASE saved
      <4>1. given' = [given EXCEPT ![u] = {a}] /\ disk' = users'
        BY <2>3, <3>2, <3>3, <3>4
      <4> QED
        BY <3>1, <3>2, <3>3, <4>1 DEF SignupInv, Owners
    <3>5. CASE ~saved
      <4>1. given' = given
        BY <2>3, <3>5
      <4> QED
        BY <3>1, <3>2, <3>3, <4>1 DEF SignupInv, Owners
    <3> QED
      BY <3>4, <3>5
  <2> QED
    BY <1>1, <2>1, <2>2, <2>3 DEF Provision, Exists, idVars
<1> QED
  BY <1>1, <1>2, <1>3 DEF SignupInv, Times, Solutions, Spent, Stretches, Credit

\* A restart forgets what was used and what was spent, and starts the count again.
LEMMA SignupRestartInv == SignupInv /\ SignupRestart => SignupInv'
<1> SUFFICES ASSUME SignupInv, SignupRestart PROVE SignupInv'
  OBVIOUS
<1>1. Reopen /\ Volatile /\ now' = now /\ issued' = issued /\ given' = given
  BY DEF SignupRestart
<1>2. Accounts' /\ users' = disk' /\ \A u \in User : disk'[u] = disk[u] \/ disk'[u] \in Pass
  BY <1>1, ReopenAccounts DEF SignupInv
<1>3. Owners'
  BY <1>1, <1>2, PassAssumption DEF SignupInv, Owners
<1>4. Times'
  BY <1>1 DEF Volatile, SignupInv, Times, Never
<1>5. Applicants'
  BY <1>1, PassAssumption DEF Volatile, Applicants, Fresh
<1>6. Solutions'
  BY <1>1 DEF Volatile, Solutions, Spent
<1>7. Credit'
  <2> DEFINE K == Burst * Cost
  <2>1. K \in Nat /\ 0 * Cost = 0 /\ now \in Nat
    BY BucketSize DEF SignupInv, Times
  <2>2. admitted' = 0 /\ began' = now /\ bucket' = [level |-> K, last |-> now]
    BY <1>1 DEF Volatile
  <2> HIDE DEF K
  <2>3. bucket' \in [level : 0 .. K, last : began' .. now'] /\ admitted' * Cost + bucket'.level <= K + (bucket'.last - began')
    BY <1>1, <2>1, <2>2
  <2> QED
    BY <2>2, <2>3 DEF Credit, K
<1> QED
  BY <1>2, <1>3, <1>4, <1>5, <1>6, <1>7 DEF SignupInv

\* The inductive invariant of signup.
THEOREM SignupInvariant == SignupSpec => []SignupInv
<1>1. IdInit /\ SignupInit => SignupInv
  BY SignupStart
<1>2. SignupInv /\ [SignupNext]_<<idVars, signupVars>> => SignupInv'
  <2> SUFFICES ASSUME SignupInv, [SignupNext]_<<idVars, signupVars>> PROVE SignupInv'
    OBVIOUS
  <2>1. CASE UNCHANGED <<idVars, signupVars>>
    BY <2>1 DEF idVars, signupVars, SignupInv, Accounts, IdTypeOK, AckedSurvives, Times, Applicants, Solutions, Spent, Stretches, Credit, Owners
  <2> QED
    BY <2>1, TickInv, ApplyInv, UseInv, EnsureInv, SettleInv, SignupRestartInv DEF SignupNext
<1> QED
  BY <1>1, <1>2, PTL DEF SignupSpec

\* A solved challenge opens the gate once while it is good and later no more than once in
\* the length of its lifetime, with whatever expiry it is presented and although the
\* list of used ones is cleaned on the way; the attempts that pass the rate limit stay within the
\* burst and what time refills; and an address is given to one applicant, through races
\* of signup and broker, failed writes and restarts.
THEOREM SignupIsLimited == SignupSpec => []SignupHolds
<1>1. SignupInv => SignupHolds
  <2> SUFFICES ASSUME SignupInv PROVE SolutionOnce /\ RateHeld /\ GivenOnce
    BY DEF SignupHolds
  <2>1. SolutionOnce
    <3> SUFFICES ASSUME NEW c \in Challenge, accepted[c] > 0 PROVE Stretches(accepted[c] - 1) <= now - issued[c]
      BY DEF SolutionOnce, Stretches
    <3>1. Spent(c) /\ accepted[c] \in Nat /\ issued[c] \in Int /\ used[c] \in Never .. now /\ now \in Nat
      BY DEF SignupInv, Solutions, Times
    <3>2. /\ used[c] # Never => Stretches(accepted[c] - 1) <= used[c] - issued[c]
          /\ used[c] = Never => Stretches(accepted[c]) <= now - issued[c]
      BY <3>1 DEF Spent
    <3>3. accepted[c] - 1 \in Nat /\ (accepted[c] - 1) + 1 = accepted[c]
      BY <3>1
    <3>4. ChallengeTtl \in Nat /\ \A n \in Nat : Stretches(n) \in Nat /\ Stretches(n + 1) = Stretches(n) + (ChallengeTtl + 1)
      BY OneMore
    <3>5. Stretches(accepted[c] - 1) \in Nat /\ Stretches((accepted[c] - 1) + 1) = Stretches(accepted[c] - 1) + (ChallengeTtl + 1)
      BY <3>3, <3>4
    <3>6. Stretches(accepted[c]) = Stretches(accepted[c] - 1) + (ChallengeTtl + 1)
      BY <3>3, <3>5
    <3> QED
      BY <3>1, <3>2, <3>4, <3>5, <3>6 DEF Never
  <2>2. RateHeld
    <3> DEFINE K == Burst * Cost
               A == admitted * Cost
    <3>1. K \in Nat /\ A \in Nat
      BY BucketSize DEF SignupInv, Credit
    <3>2. /\ bucket.level \in 0 .. K /\ bucket.last \in began .. now /\ began \in 0 .. now /\ now \in Nat
          /\ A + bucket.level <= K + (bucket.last - began)
      BY DEF SignupInv, Credit, Times
    <3> HIDE DEF K, A
    <3>3. A <= K + (now - began)
      BY <3>1, <3>2
    <3> QED
      BY <3>3 DEF RateHeld, K, A
  <2>3. GivenOnce
    <3> SUFFICES ASSUME NEW u \in User PROVE Cardinality(given[u]) <= 1
      BY DEF GivenOnce
    <3>1. given[u] = {} \/ \E a : given[u] = {a}
      BY DEF SignupInv, Owners
    <3>2. Cardinality(given[u]) = 0 \/ Cardinality(given[u]) = 1
      BY <3>1, FS_EmptySet, FS_Singleton
    <3> QED
      BY <3>2
  <2> QED
    BY <2>1, <2>2, <2>3
<1> QED
  BY <1>1, SignupInvariant, PTL

-----------------------------------------------------------------------------
(* Web sessions and password changes: the proofs.                          *)

\* What stands for no session is none, and its password none.
LEMMA NoSessionFacts == NoSession \in [user : User, pass : Pass \cup {NoPass}, fresh : BOOLEAN] /\ NoSession.pass \notin Pass
BY PassAssumption DEF NoSession

\* A client between requests.
LEMMA IdleWellMade == WellMade(Idle) /\ Idle.kind = "none" /\ Idle.at = "idle"
BY PassAssumption DEF WellMade, Request, Idle

\* Nobody has signed in.
LEMMA LoginStart == IdInit /\ LoginInit => LoginInv
<1> SUFFICES ASSUME IdInit, LoginInit PROVE LoginInv
  OBVIOUS
<1>1. Accounts
  BY AccountsStart
<1>2. Requests
  BY IdleWellMade DEF LoginInit, Requests
<1>3. \A t \in Token : sess[t] = NoSession
  BY DEF LoginInit
<1>4. Sessions
  BY <1>3, NoSessionFacts DEF LoginInit, Sessions, Stored, SignedOutStays
<1>5. Changes
  BY DEF LoginInit, Changes, Changing, Idle
<1>6. SessionsCurrent
  BY <1>3 DEF SessionsCurrent, Stored
<1> QED
  BY <1>1, <1>2, <1>4, <1>5, <1>6 DEF LoginInv

\* A step that leaves accounts and sessions alone, and sets one request to one that
\* rotates nothing, unless it was rotating before.
LEMMA RequestStep ==
  ASSUME LoginInv, NEW c \in Client, NEW r, WellMade(r), req' = [req EXCEPT ![c] = r],
         r.kind = "change" =>
           IF Stored(r.tok) THEN sess[r.tok].user = r.user ELSE r.tok \in gone,
         r.at # "rotate", ~At(c, "rotate"),
         UNCHANGED <<users, disk, may, sess, gone, refused, behind>>
  PROVE  LoginInv'
<1>1. req' = [d \in Client |-> req'[d]] /\ req'[c] = r /\ \A d \in Client : d # c => req'[d] = req[d]
  BY DEF LoginInv, Requests
<1>2. Requests'
  <2>1. \A d \in Client : WellMade(req'[d])
    BY <1>1 DEF LoginInv, Requests
  <2> QED
    BY <1>1, <2>1 DEF Requests, WellMade, Request
<1>3. Accounts' /\ Sessions'
  BY DEF LoginInv, Accounts, IdTypeOK, AckedSurvives, Sessions, Stored, SignedOutStays
<1>4. Changes'
  <2> SUFFICES ASSUME NEW d \in Client PROVE Changing(req[d])'
    BY DEF Changes
  <2>1. CASE d = c
    BY <1>1, <2>1 DEF Changing, Stored
  <2>2. CASE d # c
    BY <1>1, <2>2 DEF LoginInv, Changes, Changing, Stored
  <2> QED
    BY <2>1, <2>2
<1>5. SessionsCurrent'
  BY <1>1 DEF LoginInv, SessionsCurrent, Stored, At
<1> QED
  BY <1>2, <1>3, <1>4, <1>5 DEF LoginInv

\* Sessions that people were told are over (`said'), of which some could be removed.
Drop(old, said) ==
  /\ old \subseteq said /\ said \subseteq Token
  /\ sess' = [t \in Token |-> IF t \in old THEN NoSession ELSE sess[t]]
  /\ gone' = gone \cup said /\ refused' = (refused \ old) \cup (said \ old)

\* A step that only takes sessions away, and ends requests that rotate nothing.
LEMMA DropStep ==
  ASSUME LoginInv, NEW old, NEW said, Drop(old, said),
         req' = [d \in Client |-> req'[d]],
         \A d \in Client : req'[d] = req[d] \/ (req'[d] = Idle /\ ~At(d, "rotate")),
         UNCHANGED <<users, disk, may, behind>>
  PROVE  LoginInv'
<1>1. /\ \A t \in Token : (t \in old /\ sess'[t] = NoSession /\ t \in gone') \/ (t \notin old /\ sess'[t] = sess[t])
      /\ gone' = gone \cup said /\ refused' = (refused \ old) \cup (said \ old) /\ said \subseteq Token
  BY DEF Drop
<1>2. Sessions'
  <2>1. sess' \in [Token -> [user : User, pass : Pass \cup {NoPass}, fresh : BOOLEAN]]
    BY NoSessionFacts DEF LoginInv, Sessions, Drop
  <2> QED
    BY <1>1, <2>1 DEF LoginInv, Sessions, Stored, SignedOutStays
<1>3. Changes'
  <2> SUFFICES ASSUME NEW d \in Client, req'[d].kind = "change" PROVE Changing(req[d])'
    BY DEF Changes, Changing
  <2>1. req'[d] = req[d]
    BY IdleWellMade
  <2>2. req[d].tok \in Token
    BY <2>1 DEF LoginInv, Requests, WellMade
  <2> QED
    BY <1>1, <2>1, <2>2 DEF LoginInv, Changes, Changing, Stored
<1>4. SessionsCurrent'
  BY <1>1 DEF LoginInv, SessionsCurrent, Stored, At
<1>5. Requests'
  <2>1. \A d \in Client : WellMade(req'[d])
    BY IdleWellMade DEF LoginInv, Requests
  <2> QED
    BY <2>1 DEF Requests, WellMade, Request
<1> QED
  BY <1>2, <1>3, <1>4, <1>5 DEF LoginInv, Accounts, IdTypeOK, AckedSurvives

\* The door: locked, or the password is looked at next.
LEMMA BeginStep ==
  ASSUME LoginInv, NEW c \in Client, NEW r, WellMade(r), Begin(c, r), ~At(c, "rotate"),
         r.kind = "change" => IF Stored(r.tok) THEN sess[r.tok].user = r.user ELSE r.tok \in gone,
         UNCHANGED <<users, disk, may, sess, gone, refused, behind>>
  PROVE  LoginInv'
<1> DEFINE s == [r EXCEPT !.at = "check"]
<1>1. WellMade(s) /\ s.kind = r.kind /\ s.tok = r.tok /\ s.user = r.user /\ s.at = "check"
  BY DEF WellMade, Request
<1>2. req' = [req EXCEPT ![c] = Idle] \/ req' = [req EXCEPT ![c] = s]
  BY DEF Begin, Done, Go
<1> HIDE DEF s
<1> QED
  BY <1>1, <1>2, IdleWellMade, RequestStep

\* The doors that bring a password along.
LEMMA PresentInv ==
  ASSUME LoginInv, NEW c \in Client, NEW kind \in {"login", "other"}, NEW ip \in Ip, NEW u \in Person, NEW p \in Pass,
         Present(c, kind, ip, u, p)
  PROVE  LoginInv'
<1> DEFINE r == [Idle EXCEPT !.kind = kind, !.ip = ip, !.user = u, !.pass = p]
<1>1. WellMade(r) /\ r.kind # "change"
  BY PassAssumption, ClientAssumption DEF WellMade, Request, Idle
<1>2. Begin(c, r) /\ ~At(c, "rotate") /\ UNCHANGED <<users, disk, may, sess, gone, refused, behind>>
  BY DEF Present, At, idVars
<1> HIDE DEF r
<1> QED
  BY <1>1, <1>2, BeginStep

\* A session that is taken away, or stays because the statement was refused.
LEMMA DeleteFacts ==
  ASSUME LoginInv, NEW t \in Token, NEW ok \in BOOLEAN, Delete(t, ok)
  PROVE  \E old, said : Drop(old, said)
<1>1. sess = [x \in Token |-> sess[x]]
  BY DEF LoginInv, Sessions
<1>2. CASE ok
  <2>1. Drop({t}, {t})
    BY <1>1, <1>2 DEF Delete, Drop
  <2> QED
    BY <2>1
<1>3. CASE ~ok
  <2>1. Drop({}, {t})
    BY <1>1, <1>3 DEF Delete, Drop
  <2> QED
    BY <2>1
<1> QED
  BY <1>2, <1>3

\* A session that is read: it is there, or was just dropped, or is not there.
LEMMA ReadingFacts ==
  ASSUME LoginInv, NEW t \in Token, NEW ok \in BOOLEAN, Reading(t, ok)
  PROVE  \/ Got(t) /\ ok /\ UNCHANGED <<sess, gone, refused>>
         \/ ~(Got(t) /\ ok) /\ \E old, said : Drop(old, said)
<1>1. sess = [x \in Token |-> sess[x]]
  BY DEF LoginInv, Sessions
<1>2. CASE Stored(t) /\ ~Got(t)
  <2>1. Delete(t, ok)
    BY <1>2, Zenon DEF Reading
  <2> QED
    BY <1>2, <2>1, DeleteFacts
<1>3. CASE ~(Stored(t) /\ ~Got(t))
  <2>1. sess' = sess /\ gone' = gone /\ refused' = refused
    BY <1>3, Zenon DEF Reading
  <2>2. Drop({}, {})
    BY <1>1, <2>1 DEF Drop
  <2>3. CASE Got(t) /\ ok
    BY <2>1, <2>3
  <2>4. CASE ~(Got(t) /\ ok)
    BY <2>2, <2>4
  <2> QED
    BY <2>3, <2>4
<1> QED
  BY <1>2, <1>3

\* The start of a password change: the session, and the door.
LEMMA ChangeInv ==
  ASSUME LoginInv, NEW c \in Client, NEW t \in Token, NEW ip \in Ip, NEW p \in Pass, NEW q \in Pass,
         NEW ok \in BOOLEAN, Change(c, t, ip, p, q, ok)
  PROVE  LoginInv'
<1> DEFINE r == [Idle EXCEPT !.kind = "change", !.ip = ip, !.user = sess[t].user, !.pass = p, !.new = q, !.tok = t]
<1>1. /\ Reading(t, ok) /\ ~At(c, "rotate") /\ UNCHANGED <<users, disk, may, behind>>
      /\ IF Got(t) /\ ok THEN Begin(c, r) ELSE UNCHANGED <<fails, req>>
  BY Zenon DEF Change, At, idVars
<1>2. CASE Got(t) /\ ok /\ UNCHANGED <<sess, gone, refused>>
  <2>1. Begin(c, r) /\ Stored(t)
    BY <1>1, <1>2, Zenon DEF Got
  <2>2. sess[t].user \in User
    BY DEF LoginInv, Sessions
  <2>3. WellMade(r) /\ r.tok = t /\ r.user = sess[t].user
    BY <2>2, PassAssumption, ClientAssumption DEF WellMade, Request, Idle
  <2> HIDE DEF r
  <2> QED
    BY <1>1, <1>2, <2>1, <2>3, BeginStep
<1>3. CASE ~(Got(t) /\ ok)
  <2>1. PICK old, said : Drop(old, said)
    BY <1>1, <1>3, ReadingFacts
  <2>2. req' = req /\ req = [d \in Client |-> req[d]]
    BY <1>1, <1>3, Zenon DEF LoginInv, Requests
  <2> QED
    BY <1>1, <2>1, <2>2, DropStep
<1> QED
  BY <1>1, <1>2, <1>3, ReadingFacts

\* V1Auth and v1Handler: the session, twice, and the door.
LEMMA V1Inv ==
  ASSUME LoginInv, NEW c \in Client, NEW t \in Token, NEW ok \in BOOLEAN, V1(c, t, ok)
  PROVE  LoginInv'
<1> DEFINE r == [Idle EXCEPT !.at = "v1", !.kind = "engine", !.user = sess[t].user, !.tok = t]
<1>1. /\ Reading(t, ok) /\ ~At(c, "rotate") /\ UNCHANGED <<users, disk, may, behind>>
      /\ IF Got(t) /\ ok THEN req' = [req EXCEPT ![c] = r] ELSE req' = req
  BY Zenon DEF V1, At, Go, idVars
<1>2. CASE Got(t) /\ ok /\ UNCHANGED <<sess, gone, refused>>
  <2>1. req' = [req EXCEPT ![c] = r]
    BY <1>1, <1>2, Zenon
  <2>2. sess[t].user \in User
    BY DEF LoginInv, Sessions
  <2>3. WellMade(r) /\ r.kind = "engine" /\ r.at = "v1"
    BY <2>2, PassAssumption, ClientAssumption DEF WellMade, Request, Idle
  <2> HIDE DEF r
  <2> QED
    BY <1>1, <1>2, <2>1, <2>3, RequestStep
<1>3. CASE ~(Got(t) /\ ok)
  <2>1. PICK old, said : Drop(old, said)
    BY <1>1, <1>3, ReadingFacts
  <2>2. req' = req /\ req = [d \in Client |-> req[d]]
    BY <1>1, <1>3, Zenon DEF LoginInv, Requests
  <2> QED
    BY <1>1, <2>1, <2>2, DropStep
<1> QED
  BY <1>1, <1>2, <1>3, ReadingFacts

\* The second look at the session, and the engine's own door.
LEMMA ForwardInv ==
  ASSUME LoginInv, NEW c \in Client, NEW ok \in BOOLEAN, Forward(c, ok)
  PROVE  LoginInv'
<1>1. PICK t \in Token : t = req[c].tok
  BY DEF Forward, At, LoginInv, Requests, WellMade
<1> DEFINE r == [req[c] EXCEPT !.user = sess[t].user, !.pass = sess[t].pass]
<1>2. /\ At(c, "v1") /\ Reading(t, ok) /\ ~At(c, "rotate") /\ UNCHANGED <<users, disk, may, behind>>
      /\ IF Got(t) /\ ok THEN Begin(c, r) ELSE Done(c)
  BY <1>1, Zenon DEF Forward, At, idVars
<1>3. CASE Got(t) /\ ok /\ UNCHANGED <<sess, gone, refused>>
  <2>1. Begin(c, r)
    BY <1>2, <1>3, Zenon
  <2>2. sess[t].user \in User /\ sess[t].pass \in Pass \cup {NoPass}
    BY DEF LoginInv, Sessions
  <2>3. WellMade(req[c]) /\ req[c].kind = "engine"
    BY <1>2 DEF At, LoginInv, Requests, WellMade
  <2>4. WellMade(r) /\ r.kind = "engine"
    BY <2>2, <2>3 DEF WellMade, Request
  <2> HIDE DEF r
  <2> QED
    BY <1>2, <1>3, <2>1, <2>4, BeginStep
<1>4. CASE ~(Got(t) /\ ok)
  <2>1. PICK old, said : Drop(old, said)
    BY <1>2, <1>4, ReadingFacts
  <2>2. req' = [req EXCEPT ![c] = Idle] /\ req = [d \in Client |-> req[d]]
    BY <1>2, <1>4, Zenon DEF Done, Go, LoginInv, Requests
  <2>3. req' = [d \in Client |-> req'[d]] /\ \A d \in Client : req'[d] = req[d] \/ (req'[d] = Idle /\ ~At(d, "rotate"))
    BY <1>2, <2>2
  <2> QED
    BY <1>2, <2>1, <2>3, DropStep
<1> QED
  BY <1>2, <1>3, <1>4, ReadingFacts

\* The password is looked at; a request ends.
LEMMA CheckInv ==
  ASSUME LoginInv, NEW c \in Client, (\E b \in BOOLEAN : Check(c, b)) \/ Failed(c) \/ Served(c)
  PROVE  LoginInv'
<1>1. /\ ~At(c, "rotate") /\ UNCHANGED <<users, disk, may, sess, gone, refused, behind>>
      /\ \/ req' = [req EXCEPT ![c] = Idle]
         \/ \E s \in {"passed", "failed"} : req' = [req EXCEPT ![c] = [req[c] EXCEPT !.at = s]]
  BY DEF Check, Failed, Served, Passes, At, Go, Done, idVars
<1>2. CASE req' = [req EXCEPT ![c] = Idle]
  BY <1>1, <1>2, IdleWellMade, RequestStep
<1>3. ASSUME NEW s \in {"passed", "failed"}, req' = [req EXCEPT ![c] = [req[c] EXCEPT !.at = s]]
      PROVE  LoginInv'
  <2> DEFINE r == [req[c] EXCEPT !.at = s]
  <2>1. WellMade(req[c]) /\ Changing(req[c])
    BY DEF LoginInv, Requests, Changes
  <2>2. WellMade(r) /\ r.at = s /\ r.kind = req[c].kind /\ r.tok = req[c].tok /\ r.user = req[c].user
    BY <2>1 DEF WellMade, Request
  <2>3. r.kind = "change" => IF Stored(r.tok) THEN sess[r.tok].user = r.user ELSE r.tok \in gone
    BY <2>1, <2>2 DEF Changing
  <2>4. req' = [req EXCEPT ![c] = r] /\ r.at # "rotate"
    BY <1>3, <2>2
  <2> HIDE DEF r
  <2> QED
    BY <1>1, <2>2, <2>3, <2>4, RequestStep
<1> QED
  BY <1>1, <1>2, <1>3

\* A session's time is over; it is still there until somebody looks.
LEMMA ExpireInv ==
  ASSUME LoginInv, NEW t \in Token, Expire(t)
  PROVE  LoginInv'
<1>1. Stored(t) /\ sess' = [sess EXCEPT ![t].fresh = FALSE] /\ UNCHANGED <<users, disk, may, req, gone, refused, behind>>
  BY DEF Expire, Got, idVars
<1>2. sess \in [Token -> [user : User, pass : Pass \cup {NoPass}, fresh : BOOLEAN]] /\ sess[t].pass \in Pass
  BY <1>1 DEF LoginInv, Sessions
<1>3. /\ sess' \in [Token -> [user : User, pass : Pass \cup {NoPass}, fresh : BOOLEAN]]
      /\ \A x \in Token : sess'[x].user = sess[x].user /\ sess'[x].pass = sess[x].pass /\ (x # t => sess'[x] = sess[x])
  <2> DEFINE n == [sess[t] EXCEPT !.fresh = FALSE]
  <2>1. n \in [user : User, pass : Pass \cup {NoPass}, fresh : BOOLEAN] /\ n.user = sess[t].user /\ n.pass = sess[t].pass
    BY <1>2
  <2>2. sess' = [sess EXCEPT ![t] = n]
    BY <1>1
  <2> HIDE DEF n
  <2> QED
    BY <1>2, <2>1, <2>2
<1>4. \A x \in Token : Stored(x)' <=> Stored(x)
  BY <1>1, <1>2, <1>3, NoSessionFacts DEF Stored
<1>5. Sessions'
  BY <1>1, <1>3, <1>4 DEF LoginInv, Sessions, SignedOutStays
<1>6. Changes'
  <2> SUFFICES ASSUME NEW d \in Client, req[d].kind = "change" PROVE Changing(req[d])'
    BY <1>1 DEF Changes, Changing
  <2>1. req[d].tok \in Token
    BY DEF LoginInv, Requests, WellMade
  <2>2. Stored(req[d].tok)' <=> Stored(req[d].tok)
    BY <1>1, <1>4, <2>1 DEF Stored
  <2> QED
    BY <1>1, <1>3, <2>1, <2>2 DEF LoginInv, Changes, Changing
<1>7. SessionsCurrent'
  BY <1>1, <1>3, <1>4 DEF LoginInv, SessionsCurrent, At
<1> QED
  BY <1>1, <1>5, <1>6, <1>7 DEF LoginInv, Accounts, IdTypeOK, AckedSurvives, Requests, WellMade, Request

\* A sign-in creates a session under a token that nobody had.
LEMMA CreateInv ==
  ASSUME LoginInv, NEW c \in Client, NEW t \in Token, NEW stored \in BOOLEAN, Create(c, t, stored)
  PROVE  LoginInv'
<1>1. /\ At(c, "passed") /\ req[c].kind = "login" /\ ~Stored(t) /\ t \notin gone
      /\ req' = [req EXCEPT ![c] = Idle] /\ UNCHANGED <<users, disk, may>>
  BY DEF Create, Passes, Unused, Done, Go, idVars
<1>2. req' = [d \in Client |-> req'[d]] /\ req'[c] = Idle /\ \A d \in Client : d # c => req'[d] = req[d]
  BY <1>1 DEF LoginInv, Requests
<1>3. WellMade(req[c]) /\ req[c].pass \in Pass /\ req[c].user \in User
  BY <1>1 DEF LoginInv, Requests, WellMade, Request
<1>4. CASE ~stored
  <2>1. sess' = sess /\ gone' = gone \cup {t} /\ behind' = behind /\ refused' = refused
    BY <1>4 DEF Create
  <2>2. Sessions'
    BY <1>1, <2>1 DEF LoginInv, Sessions, Stored, SignedOutStays
  <2>3. Requests'
    <3>1. \A d \in Client : WellMade(req'[d])
      BY <1>2, IdleWellMade DEF LoginInv, Requests
    <3> QED
      BY <1>2, <3>1 DEF Requests, WellMade, Request
  <2>4. Changes'
    <3> SUFFICES ASSUME NEW d \in Client, req'[d].kind = "change" PROVE Changing(req[d])'
      BY DEF Changes, Changing
    <3>1. req'[d] = req[d] /\ Changing(req[d])
      BY <1>2, IdleWellMade DEF LoginInv, Changes
    <3> QED
      BY <1>1, <2>1, <3>1 DEF Changing, Stored
  <2>5. SessionsCurrent'
    BY <1>1, <1>2, <2>1 DEF LoginInv, SessionsCurrent, Stored, At
  <2> QED
    BY <1>1, <2>2, <2>3, <2>4, <2>5 DEF LoginInv, Accounts, IdTypeOK, AckedSurvives
<1>5. CASE stored
  <2> DEFINE n == [user |-> req[c].user, pass |-> req[c].pass, fresh |-> TRUE]
  <2>1. sess' = [sess EXCEPT ![t] = n] /\ gone' = gone /\ refused' = refused
    BY <1>5 DEF Create
  <2>2. behind' = IF users[req[c].user] # req[c].pass THEN behind \cup {t} ELSE behind
    BY <1>5 DEF Create, Authenticate
  <2>3. /\ n \in [user : User, pass : Pass \cup {NoPass}, fresh : BOOLEAN]
        /\ n.user = req[c].user /\ n.pass = req[c].pass /\ n # NoSession
    BY <1>3, NoSessionFacts
  <2> HIDE DEF n
  <2>4. /\ sess' \in [Token -> [user : User, pass : Pass \cup {NoPass}, fresh : BOOLEAN]]
        /\ sess'[t] = n /\ \A x \in Token : x # t => sess'[x] = sess[x]
    BY <2>1, <2>3 DEF LoginInv, Sessions
  <2>5. Sessions'
    BY <1>1, <1>3, <2>1, <2>2, <2>3, <2>4 DEF LoginInv, Sessions, Stored, SignedOutStays
  <2>6. Requests'
    <3>1. \A d \in Client : WellMade(req'[d])
      BY <1>2, IdleWellMade DEF LoginInv, Requests
    <3> QED
      BY <1>2, <3>1 DEF Requests, WellMade, Request
  <2>7. Changes'
    <3> SUFFICES ASSUME NEW d \in Client, req'[d].kind = "change" PROVE Changing(req[d])'
      BY DEF Changes, Changing
    <3>1. d # c /\ req'[d] = req[d]
      BY <1>2, IdleWellMade
    <3>2. req[d].tok \in Token /\ Changing(req[d])
      BY <3>1 DEF LoginInv, Requests, WellMade, Changes
    <3>3. req[d].tok # t
      BY <1>1, <3>1, <3>2 DEF Changing
    <3> QED
      BY <1>1, <2>1, <2>2, <2>4, <3>1, <3>2, <3>3 DEF Changing, Stored
  <2>8. SessionsCurrent'
    <3> SUFFICES ASSUME NEW x \in Token, Stored(x)', sess'[x].pass # users'[sess'[x].user]
                 PROVE  x \in behind' \cup refused' \/ \E d \in Client : req'[d].at = "rotate" /\ req'[d].tok = x
      BY DEF SessionsCurrent, At
    <3>1. CASE x = t
      BY <1>1, <2>2, <2>3, <2>4, <3>1
    <3>2. CASE x # t
      <4>1. Stored(x) /\ sess[x].pass # users[sess[x].user]
        BY <1>1, <2>4, <3>2 DEF Stored
      <4>2. x \in behind \cup refused \/ \E d \in Client : req[d].at = "rotate" /\ req[d].tok = x
        BY <4>1 DEF LoginInv, SessionsCurrent, At
      <4> QED
        BY <1>1, <1>2, <2>1, <2>2, <4>2 DEF At
    <3> QED
      BY <3>1, <3>2
  <2> QED
    BY <1>1, <2>5, <2>6, <2>7, <2>8 DEF LoginInv, Accounts, IdTypeOK, AckedSurvives
<1> QED
  BY <1>4, <1>5

\* A new password: of the account's sessions one is about to get it, unless it is behind.
LEMMA UpsertInv ==
  ASSUME LoginInv, NEW c \in Client, NEW saved \in BOOLEAN, Upsert(c, saved)
  PROVE  LoginInv'
<1> DEFINE r == [req[c] EXCEPT !.at = "rotate"]
           Late(t) == t # req[c].tok \/ ~saved \/ \E d \in Client \ {c} : At(d, "rotate") /\ req[d].tok = t
           late == {t \in Token : sess[t].user = req[c].user /\ Stored(t) /\ Late(t)}
<1>1. /\ At(c, "passed") /\ req[c].kind = "change" /\ Put(req[c].user, req[c].new, saved)
      /\ behind' = behind \cup late
      /\ IF saved THEN req' = [req EXCEPT ![c] = r] ELSE req' = [req EXCEPT ![c] = Idle]
      /\ UNCHANGED <<sess, gone, refused>>
  BY DEF Upsert, Passes, Go, Done
<1>2. WellMade(req[c]) /\ Changing(req[c]) /\ req[c].new \in Pass /\ req[c].tok \in Token /\ req[c].user \in User
  BY <1>1 DEF LoginInv, Requests, Changes, WellMade, Request
<1>3. /\ Accounts' /\ users'[req[c].user] = req[c].new
      /\ \A v \in User : v # req[c].user => users'[v] = users[v]
  BY <1>1, <1>2, PutAccounts DEF LoginInv
<1>4. WellMade(r) /\ r.kind = "change" /\ r.tok = req[c].tok /\ r.user = req[c].user /\ r.new = req[c].new /\ r.at = "rotate"
  BY <1>1, <1>2 DEF WellMade, Request
<1> HIDE DEF r
<1>5. /\ req' = [d \in Client |-> req'[d]] /\ req'[c] \in {r, Idle} /\ (saved => req'[c] = r)
      /\ \A d \in Client : d # c => req'[d] = req[d]
  BY <1>1 DEF LoginInv, Requests
<1>6. Requests'
  <2>1. \A d \in Client : WellMade(req'[d])
    BY <1>4, <1>5, IdleWellMade DEF LoginInv, Requests
  <2> QED
    BY <1>5, <2>1 DEF Requests, WellMade, Request
<1>7. Sessions'
  BY <1>1 DEF LoginInv, Sessions, Stored, SignedOutStays
<1>8. \A t \in Token : sess[t].user \in User
  BY DEF LoginInv, Sessions
<1>9. Changes'
  <2> SUFFICES ASSUME NEW d \in Client, req'[d].kind = "change" PROVE Changing(req[d])'
    BY DEF Changes, Changing
  <2>1. CASE d = c
    <3>1. req'[d] = r
      BY <1>5, <2>1, IdleWellMade
    <3> QED
      BY <1>1, <1>2, <1>3, <1>4, <3>1 DEF Changing, Stored
  <2>2. CASE d # c
    <3>1. req'[d] = req[d] /\ req[d].tok \in Token /\ Changing(req[d]) /\ req[d].user \in User
      BY <1>5, <2>2 DEF LoginInv, Requests, WellMade, Request, Changes
    <3>2. IF Stored(req[d].tok)' THEN sess'[req[d].tok].user = req[d].user ELSE req[d].tok \in gone'
      BY <1>1, <2>2, <3>1 DEF Changing, Stored
    <3>3. ASSUME req[d].at = "rotate", Stored(req[d].tok), req[d].tok \notin behind'
          PROVE  users'[req[d].user] = req[d].new
      <4>1. users[req[d].user] = req[d].new /\ sess[req[d].tok].user = req[d].user
        BY <1>1, <2>2, <3>1, <3>3 DEF Changing, LoginInv, Sessions, SignedOutStays
      <4>2. req[d].user # req[c].user
        <5> SUFFICES ASSUME req[d].user = req[c].user PROVE FALSE
          OBVIOUS
        <5>1. CASE req[d].tok = req[c].tok
          <6>1. req[d].tok \in late
            BY <2>2, <3>1, <3>3, <4>1 DEF At
          <6> QED
            BY <1>1, <3>3, <6>1
        <5>2. CASE req[d].tok # req[c].tok
          <6>1. req[d].tok \in late
            BY <3>1, <3>3, <4>1, <5>2
          <6> QED
            BY <1>1, <3>3, <6>1
        <5> QED
          BY <5>1, <5>2
      <4> QED
        BY <1>3, <3>1, <4>1, <4>2
    <3> QED
      BY <1>1, <3>1, <3>2, <3>3 DEF Changing, Stored
  <2> QED
    BY <2>1, <2>2
<1>10. SessionsCurrent'
  <2> SUFFICES ASSUME NEW x \in Token, Stored(x), sess[x].pass # users'[sess[x].user], x \notin behind', x \notin refused
               PROVE  \E d \in Client : req'[d].at = "rotate" /\ req'[d].tok = x
    BY <1>1 DEF SessionsCurrent, At, Stored
  <2>1. x \notin behind /\ x \notin late
    BY <1>1
  <2>2. CASE sess[x].user = req[c].user
    <3>1. x = req[c].tok /\ saved
      BY <2>1, <2>2
    <3> QED
      BY <1>4, <1>5, <3>1
  <2>3. CASE sess[x].user # req[c].user
    <3>1. sess[x].pass # users[sess[x].user]
      BY <1>3, <1>8, <2>3
    <3>2. \E d \in Client : req[d].at = "rotate" /\ req[d].tok = x
      BY <2>1, <3>1 DEF LoginInv, SessionsCurrent, At
    <3> QED
      BY <1>1, <1>5, <3>2 DEF At
  <2> QED
    BY <2>2, <2>3
<1> QED
  BY <1>3, <1>6, <1>7, <1>9, <1>10 DEF LoginInv

\* The session of a change gets the new password, if it is still there.
LEMMA RotateInv ==
  ASSUME LoginInv, NEW c \in Client, NEW ok \in BOOLEAN, Rotate(c, ok)
  PROVE  LoginInv'
<1>1. /\ At(c, "rotate") /\ SetPass(req[c].tok, req[c].user, req[c].new, ok) /\ req' = [req EXCEPT ![c] = Idle]
      /\ UNCHANGED <<users, disk, may, gone, behind>>
  BY DEF Rotate, Done, Go, idVars
<1>2. /\ WellMade(req[c]) /\ Changing(req[c]) /\ req[c].kind = "change" /\ req[c].new \in Pass /\ req[c].tok \in Token
  BY <1>1 DEF At, LoginInv, Requests, Changes, WellMade
<1>3. PICK t \in Token : t = req[c].tok
  BY <1>2
<1> DEFINE n == [sess[t] EXCEPT !.pass = req[c].new]
<1>4. sess \in [Token -> [user : User, pass : Pass \cup {NoPass}, fresh : BOOLEAN]]
  BY DEF LoginInv, Sessions
<1>5. /\ n \in [user : User, pass : Pass \cup {NoPass}, fresh : BOOLEAN] /\ n.pass = req[c].new /\ n.user = sess[t].user
  BY <1>2, <1>4
<1>6. /\ IF ok /\ Stored(t) THEN sess' = [sess EXCEPT ![t] = n] ELSE sess' = sess
      /\ refused' = IF ok THEN refused ELSE refused \cup {t}
  BY <1>1, <1>3 DEF SetPass
<1>7. n # NoSession
  BY <1>2, <1>5, NoSessionFacts
<1> HIDE DEF n
<1>8. /\ sess' \in [Token -> [user : User, pass : Pass \cup {NoPass}, fresh : BOOLEAN]]
      /\ \A x \in Token : sess'[x].user = sess[x].user /\ (x # t => sess'[x] = sess[x])
      /\ ok /\ Stored(t) => sess'[t] = n
      /\ ~(ok /\ Stored(t)) => sess'[t] = sess[t]
  BY <1>4, <1>5, <1>6
<1>9. \A x \in Token : Stored(x)' <=> Stored(x)
  BY <1>7, <1>8 DEF Stored
<1>10. req' = [d \in Client |-> req'[d]] /\ req'[c] = Idle /\ \A d \in Client : d # c => req'[d] = req[d]
  BY <1>1 DEF LoginInv, Requests
<1>11. Requests'
  <2>1. \A d \in Client : WellMade(req'[d])
    BY <1>10, IdleWellMade DEF LoginInv, Requests
  <2> QED
    BY <1>10, <2>1 DEF Requests, WellMade, Request
<1>12. Sessions'
  <2>1. \A x \in Token : Stored(x) => sess'[x].pass \in Pass
    BY <1>2, <1>5, <1>8 DEF LoginInv, Sessions
  <2> QED
    BY <1>1, <1>6, <1>8, <1>9, <2>1 DEF LoginInv, Sessions, SignedOutStays
<1>13. Changes'
  <2> SUFFICES ASSUME NEW d \in Client, req'[d].kind = "change" PROVE Changing(req[d])'
    BY DEF Changes, Changing
  <2>1. d # c /\ req'[d] = req[d]
    BY <1>10, IdleWellMade
  <2>2. req[d].tok \in Token /\ Changing(req[d])
    BY <2>1 DEF LoginInv, Requests, WellMade, Changes
  <2>3. Stored(req[d].tok)' <=> Stored(req[d].tok)
    <3>1. PICK x \in Token : x = req[d].tok
      BY <2>2
    <3> QED
      BY <1>9, <2>1, <3>1 DEF Stored
  <2> QED
    BY <1>1, <1>8, <2>1, <2>2, <2>3 DEF Changing
<1>14. SessionsCurrent'
  <2> SUFFICES ASSUME NEW x \in Token, Stored(x)', sess'[x].pass # users[sess'[x].user], x \notin behind, x \notin refused'
               PROVE  \E d \in Client : req'[d].at = "rotate" /\ req'[d].tok = x
    BY <1>1 DEF SessionsCurrent, At
  <2>1. Stored(x) /\ x \notin refused /\ (x = t => ok)
    BY <1>6, <1>9
  <2>2. CASE x = t
    <3>2. sess[t].user = req[c].user /\ users[req[c].user] = req[c].new
      BY <1>1, <1>2, <1>3, <2>1, <2>2 DEF Changing, At
    <3>3. sess'[x].pass = req[c].new /\ sess'[x].user = req[c].user
      BY <1>5, <1>8, <2>1, <2>2, <3>2
    <3> QED
      BY <3>2, <3>3
  <2>3. CASE x # t
    <3>1. sess[x].pass # users[sess[x].user]
      BY <1>8, <2>3
    <3>2. PICK d \in Client : req[d].at = "rotate" /\ req[d].tok = x
      BY <2>1, <3>1 DEF LoginInv, SessionsCurrent, At
    <3>3. d # c
      BY <1>3, <2>3, <3>2
    <3> QED
      BY <1>10, <3>2, <3>3
  <2> QED
    BY <2>2, <2>3
<1> QED
  BY <1>1, <1>11, <1>12, <1>13, <1>14 DEF LoginInv, Accounts, IdTypeOK, AckedSurvives

\* A restart ends all requests, and without Postgres all sessions.
LEMMA RestartInv == LoginInv /\ Restart => LoginInv'
<1> SUFFICES ASSUME LoginInv, Restart PROVE LoginInv'
  OBVIOUS
<1>1. /\ Reopen /\ req' = [c \in Client |-> Idle]
      /\ behind' = behind \cup {t \in Token : sess[t].pass # users'[sess[t].user]}
      /\ refused' = refused
      /\ \/ sess' = sess /\ gone' = gone
         \/ sess' = [t \in Token |-> NoSession] /\ gone' = gone \cup {t \in Token : Stored(t)}
  BY DEF Restart
<1>2. Accounts'
  BY <1>1, ReopenAccounts DEF LoginInv
<1>3. Requests'
  <2>1. \A d \in Client : WellMade(req'[d])
    BY <1>1, IdleWellMade
  <2> QED
    BY <1>1, <2>1 DEF Requests, WellMade, Request
<1>4. Sessions'
  <2>1. CASE sess' = sess /\ gone' = gone
    BY <1>1, <2>1 DEF LoginInv, Sessions, Stored, SignedOutStays
  <2>2. CASE sess' = [t \in Token |-> NoSession] /\ gone' = gone \cup {t \in Token : Stored(t)}
    <3>1. sess' \in [Token -> [user : User, pass : Pass \cup {NoPass}, fresh : BOOLEAN]] /\ \A t \in Token : sess'[t] = NoSession
      BY <2>2, NoSessionFacts
    <3>2. gone' \subseteq Token /\ refused' \subseteq Token /\ behind' \subseteq Token
      BY <1>1, <2>2 DEF LoginInv, Sessions
    <3> QED
      BY <3>1, <3>2 DEF Sessions, Stored, SignedOutStays
  <2> QED
    BY <1>1, <2>1, <2>2
<1>5. Changes'
  BY <1>1, IdleWellMade DEF Changes, Changing
<1>6. SessionsCurrent'
  <2>1. CASE sess' = sess
    BY <1>1, <2>1 DEF SessionsCurrent
  <2>2. CASE sess' = [t \in Token |-> NoSession]
    BY <2>2 DEF SessionsCurrent, Stored
  <2> QED
    BY <1>1, <2>1, <2>2
<1> QED
  BY <1>2, <1>3, <1>4, <1>5, <1>6 DEF LoginInv

\* Sign-out, and prune.
LEMMA LogoutInv ==
  ASSUME LoginInv, Prune \/ \E t \in Token, ok \in BOOLEAN : Logout(t, ok)
  PROVE  LoginInv'
<1>1. UNCHANGED <<users, disk, may, req, behind>> /\ req = [d \in Client |-> req[d]]
  BY DEF Prune, Logout, idVars, LoginInv, Requests
<1>2. \E old, said : Drop(old, said)
  <2>1. CASE Prune
    <3> DEFINE over == {t \in Token : Stored(t) /\ ~sess[t].fresh}
    <3>1. Drop(over, over)
      BY <2>1 DEF Prune, Drop
    <3> QED
      BY <3>1
  <2>2. ASSUME NEW t \in Token, NEW ok \in BOOLEAN, Logout(t, ok)
        PROVE  \E old, said : Drop(old, said)
    BY <2>2, DeleteFacts DEF Logout
  <2> QED
    BY <2>1, <2>2
<1>3. req' = [d \in Client |-> req'[d]] /\ \A d \in Client : req'[d] = req[d]
  BY <1>1
<1>4. PICK old, said : Drop(old, said)
  BY <1>2
<1> QED
  BY <1>1, <1>3, <1>4, DropStep

\* The inductive invariant of sign-in.
THEOREM LoginInvariant == LoginSpec => []LoginInv
<1>1. IdInit /\ LoginInit => LoginInv
  BY LoginStart
<1>2. LoginInv /\ [LoginNext]_<<idVars, loginVars>> => LoginInv'
  <2> SUFFICES ASSUME LoginInv, [LoginNext]_<<idVars, loginVars>> PROVE LoginInv'
    OBVIOUS
  <2>1. CASE UNCHANGED <<users, disk, may, req, sess, gone, refused, behind>>
    BY <2>1 DEF LoginInv, Accounts, IdTypeOK, AckedSurvives, Requests, WellMade, Request, Sessions, Stored,
                SignedOutStays, Changes, Changing, SessionsCurrent, At
  <2>2. CASE UNCHANGED <<idVars, loginVars>>
    BY <2>1, <2>2 DEF idVars, loginVars
  <2>3. CASE Tick
    BY <2>1, <2>3 DEF Tick, idVars
  <2>4. ASSUME NEW c \in Client, NEW ip \in Ip, NEW u \in Person, NEW p \in Pass,
               \/ SignIn(c, ip, u, p) \/ ImapLogin(c, ip, u, p) \/ SubmitAuth(c, ip, u, p)
               \/ WithAuth(c, ip, u, p) \/ Compose(c, ip, u, p)
        PROVE  LoginInv'
    BY <2>4, PresentInv DEF SignIn, ImapLogin, SubmitAuth, WithAuth, Compose
  <2> QED
    BY <2>2, <2>3, <2>4, ExpireInv, LogoutInv, RestartInv, ChangeInv, V1Inv, ForwardInv, CheckInv, CreateInv, UpsertInv, RotateInv
       DEF LoginNext, LoginStep
<1> QED
  BY <1>1, <1>2, PTL DEF LoginSpec

\* A session that was signed out, dropped or expired does not come back, also when a
\* password change that began before rotates it; and a session's password is the
\* account's, or about to be, unless the account got another one elsewhere.  Left out
\* of both are the sessions with a DELETE or an UPDATE that Postgres refused.  For any
\* number of clients, tokens and failures.
THEOREM SessionsAreHeld == LoginSpec => []SessionsHold
<1>1. LoginInv => SessionsHold
  BY DEF LoginInv, Sessions, SessionsHold
<1> QED
  BY <1>1, LoginInvariant, PTL

\* What a restart finds of a password is what its owner was told, under any schedule of
\* changes, failed writes of the file and restarts.
THEOREM PasswordsSurvive == LoginSpec => []AckedSurvives
<1>1. LoginInv => AckedSurvives
  BY DEF LoginInv, Accounts
<1> QED
  BY <1>1, LoginInvariant, PTL

\* The same of the accounts that signup and the broker create.
THEOREM NewAccountsSurvive == SignupSpec => []AckedSurvives
<1>1. SignupInv => AckedSurvives
  BY DEF SignupInv, Accounts
<1> QED
  BY <1>1, SignupInvariant, PTL
-----------------------------------------------------------------------------
(* ClientAddr: what the trusted proxies wrote is at the end.                *)

\* Behind an address that is not trusted the header has its name, and after it only
\* trusted proxies.
AddrInv ==
  /\ wire.xff \in Seq(Address \cup {Nowhere}) /\ wire.peer \in Address /\ source \in Address
  /\ wire.first \in 0 .. Len(wire.xff) /\ (wire.first = 0 => wire.xff = <<>>)
  /\ ~IpTrusted(source) =>
       \/ wire.peer = source
       \/ /\ IpTrusted(wire.peer)
          /\ \E i \in 1 .. Len(wire.xff) :
               wire.xff[i] = source /\ \A j \in i + 1 .. Len(wire.xff) : IpTrusted(wire.xff[j])

\* What a client or a relay sends.
LEMMA SentInv ==
  ASSUME NEW p \in Address, NEW h \in Headers, Sendable(h)
  PROVE  LET w == Carrying(p, h)
         IN  /\ w.xff \in Seq(Address \cup {Nowhere}) /\ w.peer = p
             /\ w.first \in 0 .. Len(w.xff) /\ (w.first = 0 => w.xff = <<>>)
<1>1. PICK n \in 0 .. MaxForged, k \in 0 .. MaxForged : \E s \in [1 .. n -> Address \cup {Nowhere}] : h = [xff |-> s, first |-> k]
  BY DEF Headers
<1>1a. PICK s \in [1 .. n -> Address \cup {Nowhere}] : h = [xff |-> s, first |-> k]
  BY <1>1
<1>2. MaxForged \in Nat
  BY ProxyAssumption
<1>3. s \in Seq(Address \cup {Nowhere})
  BY <1>1, <1>2
<1>4. h.xff = s /\ h.first = k /\ k \in Nat
  BY <1>1a, <1>2
<1>5. Len(s) \in Nat
  BY <1>3
<1> QED
  BY <1>3, <1>4, <1>5 DEF Carrying, Sendable

\* A trusted proxy adds the name of its peer.
LEMMA TrustedProxyInv ==
  ASSUME AddrInv, NEW p \in Address, NEW own \in BOOLEAN, TrustedProxy(p, own)
  PROVE  AddrInv'
<1> DEFINE s == wire.xff
           new == Append(s, wire.peer)
<1>1. /\ IpTrusted(p) /\ source' = source /\ wire'.peer = p /\ wire'.xff = new
      /\ wire'.first \in {wire.first, Len(s) + 1} /\ (wire'.first = 0 => FALSE)
  <2>1. Len(s) \in Nat
    BY DEF AddrInv
  <2> QED
    BY <2>1 DEF TrustedProxy
<1>2. s \in Seq(Address \cup {Nowhere}) /\ wire.peer \in Address /\ wire.first \in 0 .. Len(s)
  BY DEF AddrInv
<1>3. /\ new \in Seq(Address \cup {Nowhere}) /\ Len(new) = Len(s) + 1 /\ Len(s) \in Nat
      /\ new[Len(s) + 1] = wire.peer /\ \A i \in 1 .. Len(s) : new[i] = s[i]
  BY <1>2
<1>4. ASSUME ~IpTrusted(source)
      PROVE  \E i \in 1 .. Len(new) : new[i] = source /\ \A j \in i + 1 .. Len(new) : IpTrusted(new[j])
  <2>1. CASE wire.peer = source
    <3>1. \A j \in Len(s) + 1 + 1 .. Len(new) : FALSE
      BY <1>3
    <3> QED
      BY <1>3, <2>1, <3>1
  <2>2. CASE wire.peer # source
    <3>1. PICK i \in 1 .. Len(s) : s[i] = source /\ \A j \in i + 1 .. Len(s) : IpTrusted(s[j])
      BY <1>4, <2>2 DEF AddrInv
    <3>2. IpTrusted(wire.peer)
      BY <1>4, <2>2 DEF AddrInv
    <3>3. ASSUME NEW j \in i + 1 .. Len(new) PROVE IpTrusted(new[j])
      <4>1. CASE j = Len(s) + 1
        BY <1>3, <3>2, <4>1
      <4>2. CASE j # Len(s) + 1
        <5>1. j \in i + 1 .. Len(s) /\ new[j] = s[j]
          BY <1>3, <4>2
        <5> QED
          BY <3>1, <5>1
      <4> QED
        BY <4>1, <4>2
    <3>4. i \in 1 .. Len(new) /\ new[i] = source
      BY <1>3, <3>1
    <3> QED
      BY <3>3, <3>4
  <2> QED
    BY <2>1, <2>2
<1> HIDE DEF new
<1>5. wire'.first \in 0 .. Len(new)
  BY <1>1, <1>2, <1>3
<1>6. source' \in Address /\ wire'.peer \in Address
  BY <1>1 DEF AddrInv
<1> QED
  BY <1>1, <1>3, <1>4, <1>5, <1>6 DEF AddrInv

\* The header keeps the name of the source through every chain of proxies.
THEOREM AddrInvariant == AddrSpec => []AddrInv
<1>1. AddrInit => AddrInv
  <2> SUFFICES ASSUME AddrInit PROVE AddrInv
    OBVIOUS
  <2>1. PICK a \in Address, h \in Headers : Sendable(h) /\ wire = Carrying(a, h) /\ source = a
    BY DEF AddrInit
  <2> QED
    BY <2>1, SentInv DEF AddrInv
<1>2. AddrInv /\ [AddrNext]_addrVars => AddrInv'
  <2> SUFFICES ASSUME AddrInv, [AddrNext]_addrVars PROVE AddrInv'
    OBVIOUS
  <2>1. ASSUME NEW p \in Address, NEW own \in BOOLEAN, TrustedProxy(p, own) PROVE AddrInv'
    BY <2>1, TrustedProxyInv
  <2>2. ASSUME NEW p \in Address, NEW h \in Headers, Relay(p, h) PROVE AddrInv'
    <3>1. Sendable(h) /\ wire' = Carrying(p, h) /\ source' = p
      BY <2>2 DEF Relay
    <3> QED
      BY <3>1, SentInv DEF AddrInv
  <2>3. CASE UNCHANGED addrVars
    BY <2>3 DEF addrVars, AddrInv
  <2> QED
    BY <2>1, <2>2, <2>3 DEF AddrNext
<1> QED
  BY <1>1, <1>2, PTL DEF AddrSpec

\* Nothing that is written before the trusted proxies moves the key of a limit, for any
\* header, any allowlist and any number of proxies.
THEOREM KeysAreGenuine == AddrSpec => []KeyIsGenuine
<1>1. ASSUME AddrInv PROVE KeyIsGenuine
  <2> DEFINE s == wire.xff
             far == {i \in DOMAIN s : s[i] # Nowhere /\ ~IpTrusted(s[i])}
  <2> SUFFICES ASSUME wire.first = Len(s), ~IpTrusted(source) PROVE ClientIP(wire) = source
    BY DEF KeyIsGenuine, SignupClientIP
  <2>1. CASE wire.peer = source
    BY <2>1 DEF ClientIP
  <2>2. CASE wire.peer # source
    <3>1. /\ s \in Seq(Address \cup {Nowhere}) /\ IpTrusted(wire.peer) /\ Len(s) \in Nat /\ source \in Address
          /\ DOMAIN s = 1 .. Len(s)
      BY <1>1, <2>2 DEF AddrInv
    <3>2. PICK i \in 1 .. Len(s) : s[i] = source /\ \A j \in i + 1 .. Len(s) : IpTrusted(s[j])
      BY <1>1, <2>2 DEF AddrInv
    <3>3. wire.first # 0 /\ SubSeq(s, 1, wire.first) = s
      BY <3>1, <3>2
    <3>4. ClientIP(wire) = FirstUntrusted(s, wire.peer)
      BY <3>1, <3>3 DEF ClientIP
    <3>5. i \in far /\ \A j \in far : j <= i /\ j \in Nat
      BY <3>1, <3>2, ProxyAssumption
    <3>6. (CHOOSE k \in far : \A j \in far : k >= j) = i
      <4> DEFINE c == CHOOSE k \in far : \A j \in far : k >= j
      <4>1. c \in far /\ \A j \in far : c >= j
        <5> HIDE DEF far
        <5> QED
          BY <3>2, <3>5
      <4> HIDE DEF far, c
      <4>2. c = i
        BY <3>2, <3>5, <4>1
      <4> QED
        BY <4>2 DEF c
    <3>7. FirstUntrusted(s, wire.peer) = s[i]
      <4> far # {}
        BY <3>5
      <4> QED
        BY <3>6 DEF FirstUntrusted
    <3> QED
      BY <3>2, <3>4, <3>7
  <2> QED
    BY <2>1, <2>2
<1> QED
  BY AddrInvariant, <1>1, PTL
-----------------------------------------------------------------------------
(* EmailAuth: the policy of a domain.                                       *)

\* A message has the verdict on what is left of it.
AuthInv ==
  /\ inbound.msg \in Arrival
  /\ inbound.fate = "new" \/ inbound.fate = VerifyVerdict(inbound.msg, inbound.raw)
  /\ inbound.fate = "new" \/ inbound.raw = StripAuthResults(inbound.msg.raw)

\* Of two aligned domains, both below a top-level one, one organisation has both.
LEMMA AlignedIsOneOrg ==
  ASSUME NEW a \in Seq(STRING), NEW b \in Seq(STRING), Aligned(a, b)
  PROVE  Len(a) < 2 \/ Len(b) < 2 \/ Org(a) = Org(b)
<1> SUFFICES ASSUME ~(Len(a) < 2), ~(Len(b) < 2) PROVE Org(a) = Org(b)
  OBVIOUS
<1>1. ASSUME NEW s \in Seq(STRING), NEW t \in Seq(STRING), IsPrefix(s, t), ~(Len(s) < 2)
      PROVE  SubSeq(s, 1, 2) = SubSeq(t, 1, 2)
  <2>1. /\ Len(s) \in Nat /\ Len(t) \in Nat /\ Len(s) <= Len(t) /\ 2 <= Len(s)
        /\ SubSeq(s, 1, Len(s)) = SubSeq(t, 1, Len(s))
    BY <1>1 DEF IsPrefix
  <2>2. \A i \in 1 .. 2 : s[i] = SubSeq(s, 1, Len(s))[i] /\ t[i] = SubSeq(t, 1, Len(s))[i]
    BY <2>1
  <2>3. \A i \in 1 .. 2 : s[i] = t[i]
    BY <2>1, <2>2
  <2> QED
    BY <2>1, <2>3
<1>2. IsPrefix(a, b) \/ IsPrefix(b, a)
  BY DEF Aligned
<1> QED
  BY <1>1, <1>2 DEF Org

\* The verdict on any message under any record is what the domain asks for.
LEMMA VerdictHonours ==
  ASSUME NEW m \in Arrival, NEW raw
  PROVE  LET fate == VerifyVerdict(m, raw)
             single == HeaderFieldCount(raw) = 1 /\ m.author # <<>>
             strict == m.record \in {"p=reject", "p=quarantine"}
         IN  /\ fate = "inbox" => single /\ m.record # "temp" /\ (strict => Speaks(m))
             /\ fate = "junk" => single /\ m.record = "p=quarantine"
             /\ fate \in {"550", "junk"} /\ single => strict /\ m.author \notin Proven(m)
<1> DEFINE single == HeaderFieldCount(raw) = 1 /\ m.author # <<>>
           strict == m.record \in {"p=reject", "p=quarantine"}
           vouched == (SpfPasses(m) /\ Aligned(m.mailFrom, m.author)) \/ \E d \in m.dkim : Aligned(d, m.author)
           fate == VerifyVerdict(m, raw)
<1>1. /\ m.author \in Seq(STRING) /\ m.mailFrom \in Seq(STRING) /\ \A d \in m.dkim : d \in Seq(STRING)
      /\ m.record \in {"none", "temp", "p=none", "p=quarantine", "p=reject"}
  BY ArrivalAssumption
<1>2. FromMalformed(m, raw) <=> ~single
  BY DEF FromMalformed
<1>3. vouched => Speaks(m)
  <2>1. ASSUME SpfPasses(m), Aligned(m.mailFrom, m.author) PROVE Speaks(m)
    <3>1. m.mailFrom \in Proven(m)
      BY <2>1 DEF Proven
    <3> QED
      BY <1>1, <2>1, <3>1, AlignedIsOneOrg DEF Speaks
  <2>2. ASSUME NEW d \in m.dkim, Aligned(d, m.author) PROVE Speaks(m)
    <3>1. d \in Proven(m)
      BY DEF Proven
    <3> QED
      BY <1>1, <2>2, <3>1, AlignedIsOneOrg DEF Speaks
  <2> QED
    BY <2>1, <2>2
<1>4. ASSUME single, m.author \in Proven(m) PROVE vouched
  <2>1. Aligned(m.author, m.author)
    BY <1>1, <1>4 DEF Aligned, IsPrefix
  <2>2. m.author \in m.dkim \/ (SpfPasses(m) /\ m.author = m.mailFrom)
    BY <1>4 DEF Proven
  <2> QED
    BY <2>1, <2>2
<1>5. CASE ~single
  <2>1. EvalDMARC(m, raw) = "fail"
    BY <1>2, <1>5 DEF EvalDMARC
  <2>2. fate = "550"
    BY <1>2, <1>5, <2>1 DEF VerifyVerdict
  <2> QED
    BY <1>5, <2>2
<1>6. CASE single
  <2>1. CASE m.record \in {"none", "temp"}
    <3>1. EvalDMARC(m, raw) = m.record
      BY <1>2, <1>6, <2>1 DEF EvalDMARC
    <3>2. fate = IF m.record = "temp" THEN "451" ELSE "inbox"
      BY <1>2, <1>6, <2>1, <3>1 DEF VerifyVerdict
    <3> QED
      BY <1>6, <2>1, <3>2
  <2>2. CASE m.record \notin {"none", "temp"}
    <3> HIDE DEF vouched, single
    <3>1. EvalDMARC(m, raw) = IF vouched THEN "pass" ELSE "fail"
      BY <1>2, <1>6, <2>2 DEF EvalDMARC, vouched
    <3>2. fate = IF vouched \/ m.record = "p=none" THEN "inbox" ELSE IF m.record = "p=reject" THEN "550" ELSE "junk"
      BY <1>1, <1>2, <1>6, <2>2, <3>1 DEF VerifyVerdict
    <3> QED
      BY <1>1, <1>3, <1>4, <1>6, <2>2, <3>2 DEF single
  <2> QED
    BY <2>1, <2>2
<1> QED
  BY <1>5, <1>6

\* The inductive invariant of a message on its way in: it is stripped, then judged.
THEOREM AuthInvariant == AuthSpec => []AuthInv
<1>1. AuthInit => AuthInv
  BY DEF AuthInit, AuthInv
<1>2. AuthInv /\ [AuthNext]_authVars => AuthInv'
  <2> SUFFICES ASSUME AuthInv, [AuthNext]_authVars PROVE AuthInv'
    OBVIOUS
  <2>1. CASE AuthNext
    BY <2>1 DEF AuthInv, AuthNext, DataInbound
  <2>2. CASE UNCHANGED authVars
    BY <2>2 DEF AuthInv, authVars
  <2> QED
    BY <2>1, <2>2
<1> QED
  BY <1>1, <1>2, PTL DEF AuthSpec

\* What a domain's policy asks for happens, whatever domains, signatures and headers
\* there are.
THEOREM PolicyHolds == AuthSpec => []PolicyHonoured
<1>1. AuthInv => PolicyHonoured
  <2> SUFFICES ASSUME AuthInv PROVE PolicyHonoured
    OBVIOUS
  <2>1. CASE inbound.fate = "new"
    BY <2>1 DEF PolicyHonoured
  <2>2. CASE inbound.fate = VerifyVerdict(inbound.msg, inbound.raw)
    BY <2>2, VerdictHonours DEF AuthInv, PolicyHonoured
  <2> QED
    BY <2>1, <2>2 DEF AuthInv
<1> QED
  BY <1>1, AuthInvariant, PTL

-----------------------------------------------------------------------------
(* EmailAuth: the header of a message.  A line stays or goes with the line *)
(* that its field begins at, so that the fields that stay keep their       *)
(* continuation lines and get no others.                                   *)

\* The least element is the one that Min finds, and First too.
LEMMA MinIs ==
  ASSUME NEW S \in SUBSET Nat, NEW m \in S, \A y \in S : m <= y
  PROVE  Min(S) = m /\ First(S) = m
<1>1. Min(S) \in S /\ \A y \in S : Min(S) <= y
  BY DEF Min
<1>2. Min(S) \in Nat /\ m \in Nat /\ Min(S) <= m /\ m <= Min(S)
  BY <1>1
<1>3. Min(S) = m
  BY <1>2
<1> QED
  BY <1>3 DEF First

\* A line that continues none is its own field; one that does belongs to the last line
\* before it that begins a field.
LEMMA FieldFacts ==
  ASSUME NEW raw \in Seq(Line), NEW i \in 1 .. Len(raw)
  PROVE  /\ raw[i].is # "fold" => FieldOf(raw, i) = i
         /\ \A s \in 1 .. i :
              raw[s].is \notin {"fold", "empty"} /\ raw[i].is = "fold" =>
                /\ FieldOf(raw, i) \in 1 .. i /\ s <= FieldOf(raw, i)
                /\ raw[FieldOf(raw, i)].is \notin {"fold", "empty"}
<1> DEFINE S == {j \in 1 .. i : raw[j].is \notin {"fold", "empty"}}
<1>0. i \in Nat /\ Len(raw) \in Nat
  OBVIOUS
<1>1. raw[i].is # "fold" => FieldOf(raw, i) = i
  BY DEF FieldOf
<1>2. ASSUME NEW s \in 1 .. i, raw[s].is \notin {"fold", "empty"}, raw[i].is = "fold"
      PROVE  /\ FieldOf(raw, i) \in 1 .. i /\ s <= FieldOf(raw, i)
             /\ raw[FieldOf(raw, i)].is \notin {"fold", "empty"}
  <2>1. s \in S /\ S \in SUBSET (0 .. i)
    BY <1>2
  <2>2. \E m \in S : \A y \in S : y <= m
    BY <1>0, <2>1, HighestNumber
  <2>3. \A y \in S : y \in Nat
    OBVIOUS
  <2>4. FieldOf(raw, i) = Max(S)
    BY <1>2, <2>1 DEF FieldOf
  <2>5. Max(S) \in S /\ \A y \in S : y <= Max(S)
    <3> HIDE DEF S
    <3> QED
      BY <2>2, <2>3 DEF Max
  <2> QED
    BY <2>1, <2>4, <2>5
<1> QED
  BY <1>1, <1>2

\* The lines that stay, of a header that goes from line 1 to line n.
Stays(raw, n) == {i \in 1 .. n : raw[i].is # "empty" /\ ~IsUntrustedAuthTrace(raw, i)}

\* Of a header without empty lines: fields stay unless they are traces, and with them go
\* their continuation lines.
LEMMA StaysByField ==
  ASSUME NEW raw \in Seq(Line), NEW n \in 1 .. Len(raw), \A i \in 1 .. n : raw[i].is # "empty"
  PROVE  /\ \A i \in 1 .. n : raw[i].is \in {"from", "other"} => i \in Stays(raw, n)
         /\ \A i \in Stays(raw, n) : i \in 1 .. n /\ raw[i].is # "trace"
         /\ \A i \in 1 .. n, j \in 1 .. n :
              raw[i].is \in {"from", "other"} /\ i < j /\ (\A k \in i + 1 .. j : raw[k].is = "fold") => j \in Stays(raw, n)
         /\ \A i \in 1 .. n, j \in Stays(raw, n) :
              raw[i].is \in {"from", "other"} /\ i < j /\ raw[j].is = "fold" =>
                \/ \A k \in i + 1 .. j : raw[k].is = "fold"
                \/ \E s \in Stays(raw, n) : i < s /\ s < j /\ raw[s].is # "fold"
<1>0. n \in Nat /\ Len(raw) \in Nat /\ \A i \in 1 .. n : i \in 1 .. Len(raw) /\ i \in Nat
  OBVIOUS
<1>1. \A i \in 1 .. n : raw[i].is \notin {"fold", "trace"} => i \in Stays(raw, n)
  BY <1>0, FieldFacts DEF Stays, IsUntrustedAuthTrace
<1>2. \A i \in Stays(raw, n) : i \in 1 .. n /\ raw[i].is # "trace"
  BY <1>0, FieldFacts DEF Stays, IsUntrustedAuthTrace
<1>3. ASSUME NEW i \in 1 .. n, NEW j \in 1 .. n, raw[i].is \in {"from", "other"}, i < j,
             \A k \in i + 1 .. j : raw[k].is = "fold"
      PROVE  j \in Stays(raw, n)
  <2>1. i \in 1 .. j /\ raw[j].is = "fold" /\ raw[i].is \notin {"fold", "empty"}
    BY <1>0, <1>3
  <2>2. FieldOf(raw, j) \in 1 .. j /\ i <= FieldOf(raw, j) /\ raw[FieldOf(raw, j)].is \notin {"fold", "empty"}
    BY <1>0, <2>1, FieldFacts
  <2>3. FieldOf(raw, j) \notin i + 1 .. j
    BY <1>3, <2>2
  <2>4. FieldOf(raw, j) = i
    BY <1>0, <2>2, <2>3
  <2> QED
    BY <1>3, <2>4 DEF Stays, IsUntrustedAuthTrace
<1>4. ASSUME NEW i \in 1 .. n, NEW j \in Stays(raw, n), raw[i].is \in {"from", "other"}, i < j, raw[j].is = "fold",
             NEW k \in i + 1 .. j, raw[k].is # "fold"
      PROVE  \E s \in Stays(raw, n) : i < s /\ s < j /\ raw[s].is # "fold"
  <2>1. j \in 1 .. n /\ k \in 1 .. n /\ k \in 1 .. j /\ j \in Nat
    BY <1>0, <1>2, <1>4
  <2>2. raw[k].is \notin {"fold", "empty"}
    BY <1>4, <2>1
  <2> DEFINE s == FieldOf(raw, j)
  <2>3. s \in 1 .. j /\ k <= s /\ raw[s].is \notin {"fold", "empty"}
    BY <1>0, <1>4, <2>1, <2>2, FieldFacts
  <2>4. raw[s].is # "trace"
    BY DEF Stays, IsUntrustedAuthTrace
  <2> HIDE DEF s
  <2>5. s \in 1 .. n /\ i < s /\ s # j
    BY <1>0, <1>4, <2>1, <2>3
  <2>6. s \in Stays(raw, n)
    BY <1>1, <2>3, <2>4, <2>5
  <2>7. s < j
    BY <2>1, <2>3, <2>5
  <2> QED
    BY <2>3, <2>5, <2>6, <2>7
<1> QED
  BY <1>1, <1>2, <1>3, <1>4

\* The header h of a message, its first n lines, and what is left of it: the lines of
\* top, from the places kept.
StrippedTo(raw, n, h, kept, top) ==
  /\ raw \in Seq(Line) /\ n \in 1 .. Len(raw) /\ \A i \in 1 .. n : raw[i].is # "empty"
  /\ h \in Seq(Line) /\ Len(h) = n /\ \A i \in 1 .. n : h[i] = raw[i]
  /\ Ascends(kept, Stays(raw, n))
  /\ top \in Seq(Line) /\ Len(top) = Len(kept) /\ \A k \in 1 .. Len(kept) : top[k].is = raw[kept[k]].is

\* What is left of the fields of a header that is stripped are the same fields.
LEMMA FieldsStay ==
  ASSUME NEW raw, NEW n, NEW h, NEW kept, NEW top, StrippedTo(raw, n, h, kept, top)
  PROVE  Fields(top) = Fields(h)
<1>0. /\ raw \in Seq(Line) /\ n \in 1 .. Len(raw) /\ \A i \in 1 .. n : raw[i].is # "empty"
      /\ h \in Seq(Line) /\ Len(h) = n /\ \A i \in 1 .. n : h[i] = raw[i]
      /\ Ascends(kept, Stays(raw, n))
      /\ top \in Seq(Line) /\ Len(top) = Len(kept) /\ \A k \in 1 .. Len(kept) : top[k].is = raw[kept[k]].is
  BY DEF StrippedTo
<1> DEFINE K == Stays(raw, n)
           N == Len(kept)
           FO == {"from", "other"}
           X == {i \in DOMAIN h : h[i].is \in FO}
           Y == {k \in DOMAIN top : top[k].is \in FO}
           q == [m \in 1 .. Len(InOrder(Y)) |-> kept[InOrder(Y)[m]]]
<1>1. /\ n \in Nat /\ N \in Nat /\ kept \in Seq(K) /\ DOMAIN h = 1 .. n /\ DOMAIN top = 1 .. N
      /\ \A k \in 1 .. N : kept[k] \in K /\ kept[k] \in 1 .. n
      /\ \A j, k \in 1 .. N : j < k => kept[j] < kept[k]
      /\ \A x \in K : \E k \in 1 .. N : kept[k] = x
  <2>1. kept \in Seq(K) /\ n \in Nat /\ DOMAIN h = 1 .. n
    BY <1>0 DEF Ascends
  <2>2. K \subseteq 1 .. n
    BY DEF Stays
  <2> HIDE DEF K
  <2>3. N \in Nat /\ \A k \in 1 .. N : kept[k] \in K
    BY <2>1
  <2>4. DOMAIN top = 1 .. N
    BY <1>0
  <2> QED
    BY <1>0, <2>1, <2>2, <2>3, <2>4 DEF Ascends, K
<1>2. /\ \A i \in 1 .. n : raw[i].is \in FO => i \in K
      /\ \A i \in 1 .. n, j \in 1 .. n :
           raw[i].is \in FO /\ i < j /\ (\A k \in i + 1 .. j : raw[k].is = "fold") => j \in K
      /\ \A i \in 1 .. n, j \in K :
           raw[i].is \in FO /\ i < j /\ raw[j].is = "fold" =>
             \/ \A k \in i + 1 .. j : raw[k].is = "fold"
             \/ \E s \in K : i < s /\ s < j /\ raw[s].is # "fold"
  BY <1>0, StaysByField, ZenonT(30)
<1> HIDE DEF K, N
<1>3. \A j, k \in 1 .. N : kept[j] < kept[k] => j < k
  <2> SUFFICES ASSUME NEW j \in 1 .. N, NEW k \in 1 .. N, kept[j] < kept[k], ~(j < k) PROVE FALSE
    OBVIOUS
  <2>1. j \in Nat /\ k \in Nat /\ (k < j \/ k = j)
    OBVIOUS
  <2>2. kept[j] \in Nat /\ kept[k] \in Nat
    BY <1>1
  <2>3. k < j => kept[k] < kept[j]
    BY <1>1
  <2> QED
    BY <2>1, <2>2, <2>3
<1>4. ASSUME NEW k \in Y PROVE kept[k] \in X /\ h[kept[k]].is = top[k].is /\ Cardinality(Folds(top, k)) = Cardinality(Folds(h, kept[k]))
  <2>1. k \in 1 .. N /\ kept[k] \in 1 .. n /\ top[k].is = raw[kept[k]].is /\ top[k].is \in FO /\ h[kept[k]] = raw[kept[k]]
    BY <1>0, <1>1 DEF N
  <2> DEFINE i == kept[k]
             A == Folds(top, k)
             B == Folds(h, i)
             f == [m \in A |-> kept[m]]
  <2>2. i \in 1 .. n /\ raw[i].is \in FO
    BY <2>1
  <2>3. A = {m \in k + 1 .. N : \A l \in k + 1 .. m : top[l].is = "fold"}
    BY <1>0 DEF Folds, N
  <2>4. B = {j \in i + 1 .. n : \A l \in i + 1 .. j : h[l].is = "fold"}
    BY <1>0 DEF Folds
  <2> HIDE DEF i
  <2>5. \A m \in k + 1 .. N : m \in 1 .. N /\ k < m /\ i < kept[m] /\ top[m].is = raw[kept[m]].is
    BY <1>0, <1>1, <2>1 DEF i, N
  <2>6. \A j \in i + 1 .. n : j \in 1 .. n /\ i < j /\ h[j] = raw[j]
    BY <1>0, <1>1, <2>2
  <2> HIDE DEF A, B
  <2>7. ASSUME NEW m \in A PROVE kept[m] \in B
    <3>1. m \in k + 1 .. N /\ \A l \in k + 1 .. m : top[l].is = "fold"
      BY <2>3
    <3>2. m \in 1 .. N /\ kept[m] \in K /\ kept[m] \in 1 .. n /\ i < kept[m] /\ raw[kept[m]].is = "fold"
      <4>1. m \in 1 .. N /\ i < kept[m] /\ top[m].is = raw[kept[m]].is
        BY <2>5, <3>1
      <4>2. k \in Nat /\ m \in Nat /\ k + 1 <= m
        BY <2>1, <3>1, <4>1
      <4>3. m \in k + 1 .. m
        BY <4>2
      <4> QED
        BY <1>1, <3>1, <4>1, <4>3
    <3>3. ASSUME NEW s \in K, i < s, s < kept[m] PROVE raw[s].is = "fold"
      <4>1. PICK l \in 1 .. N : kept[l] = s
        BY <1>1
      <4>2. k < l /\ l < m
        BY <1>3, <2>1, <3>2, <3>3, <4>1 DEF i
      <4>3. l \in k + 1 .. N /\ l \in k + 1 .. m
        BY <1>1, <2>1, <3>2, <4>2
      <4> QED
        BY <2>5, <3>1, <4>1, <4>3
    <3>4. \A l \in i + 1 .. kept[m] : raw[l].is = "fold"
      BY <1>2, <2>2, <3>2, <3>3
    <3>5. kept[m] \in i + 1 .. n /\ \A l \in i + 1 .. kept[m] : l \in i + 1 .. n
      BY <1>1, <2>2, <3>2
    <3> QED
      BY <2>4, <2>6, <3>4, <3>5
  <2>8. ASSUME NEW j \in B PROVE \E m \in A : kept[m] = j
    <3>1. j \in i + 1 .. n /\ \A l \in i + 1 .. j : raw[l].is = "fold"
      <4>1. j \in i + 1 .. n /\ \A l \in i + 1 .. j : h[l].is = "fold"
        BY <2>4
      <4>2. \A l \in i + 1 .. j : l \in i + 1 .. n
        BY <1>1, <2>2, <4>1
      <4> QED
        BY <2>6, <4>1, <4>2
    <3>2. j \in K
      BY <1>2, <2>2, <2>6, <3>1
    <3>3. PICK m \in 1 .. N : kept[m] = j
      BY <1>1, <3>2
    <3>4. k < m
      BY <1>3, <2>1, <2>6, <3>1, <3>3 DEF i
    <3>5. m \in k + 1 .. N /\ \A l \in k + 1 .. m : l \in k + 1 .. N /\ l \in 1 .. N /\ (l < m \/ l = m)
      BY <1>1, <2>1, <3>3, <3>4
    <3>7. ASSUME NEW l \in k + 1 .. m PROVE kept[l] \in i + 1 .. j
      <4>1. l \in 1 .. N /\ l \in k + 1 .. N /\ (l < m \/ l = m)
        BY <3>5
      <4>2. kept[l] \in Nat /\ kept[m] \in Nat /\ i \in Nat
        <5>1. \A a \in 1 .. N : kept[a] \in Nat
          BY <1>1
        <5> QED
          BY <1>1, <2>2, <3>3, <4>1, <5>1
      <4>3. l < m => kept[l] < kept[m]
        BY <1>1, <4>1
      <4>4. i < kept[l]
        BY <2>5, <4>1
      <4> QED
        BY <3>3, <4>1, <4>2, <4>3, <4>4
    <3>8. m \in A
      BY <2>3, <2>5, <3>1, <3>5, <3>7
    <3> QED
      BY <3>3, <3>8
  <2>9. f \in Bijection(A, B)
    <3>1. f \in [A -> B]
      BY <2>7
    <3>2. \A a, b \in A : f[a] = f[b] => a = b
      <4> SUFFICES ASSUME NEW a \in A, NEW b \in A, kept[a] = kept[b] PROVE a = b
        OBVIOUS
      <4>1. a \in 1 .. N /\ b \in 1 .. N
        BY <2>3, <2>5
      <4>2. a \in Nat /\ b \in Nat /\ kept[a] \in Nat /\ kept[b] \in Nat /\ ~(a < b) /\ ~(b < a)
        BY <1>1, <4>1
      <4> QED
        BY <4>2
    <3>3. \A j \in B : \E a \in A : f[a] = j
      BY <2>8
    <3> QED
      BY <3>1, <3>2, <3>3 DEF Bijection, Injection, Surjection, IsInjective
  <2>10. IsFiniteSet(A)
    <3>1. A \subseteq k + 1 .. N /\ k + 1 \in Int /\ N \in Int
      BY <1>1, <2>1, <2>3
    <3>2. IsFiniteSet(k + 1 .. N)
      BY <3>1, FS_Interval
    <3> QED
      BY <3>1, <3>2, FS_Subset
  <2>11. Cardinality(A) = Cardinality(B)
    <3> HIDE DEF f
    <3>1. ExistsBijection(A, B)
      BY <2>9 DEF ExistsBijection
    <3> QED
      BY <2>10, <3>1, FS_Bijection
  <2> QED
    BY <1>1, <2>1, <2>11 DEF A, B, i
<1>5. ASSUME NEW x \in X PROVE \E k \in Y : kept[k] = x
  <2>1. x \in 1 .. n /\ raw[x].is \in FO
    BY <1>0, <1>1
  <2>2. PICK k \in 1 .. N : kept[k] = x
    BY <1>1, <1>2, <2>1
  <2> QED
    BY <1>0, <1>1, <2>1, <2>2 DEF N
<1>6. Y \subseteq 1 .. N /\ X \subseteq 1 .. n /\ \A x \in X : x \in Nat
  BY <1>1
<1> DEFINE b == InOrder(Y)
<1> HIDE DEF X, Y
<1>7. Ascends(b, Y) /\ Len(b) \in Nat /\ DOMAIN b = 1 .. Len(b) /\ \A m \in 1 .. Len(b) : b[m] \in Y
  <2>1. Y \in SUBSET Nat
    BY <1>1, <1>6
  <2>2. IsFiniteSet(1 .. N)
    BY <1>1, FS_Interval
  <2>3. IsFiniteSet(Y)
    BY <1>6, <2>2, FS_Subset
  <2>4. Ascends(b, Y)
    BY <2>1, <2>3, InOrderAscends
  <2>5. b \in Seq(Y)
    BY <2>4 DEF Ascends
  <2> HIDE DEF b
  <2> QED
    BY <2>4, <2>5
<1>8. Ascends(q, X) /\ Len(q) = Len(b)
  <2>1. \A m \in 1 .. Len(b) : kept[b[m]] \in X
    BY <1>4, <1>7
  <2>2. q \in Seq(X) /\ Len(q) = Len(b) /\ \A m \in 1 .. Len(b) : q[m] = kept[b[m]]
    <3> HIDE DEF b
    <3> QED
      BY <1>7, <2>1 DEF b
  <2>3. \A j, m \in 1 .. Len(b) : j < m => kept[b[j]] < kept[b[m]]
    <3> SUFFICES ASSUME NEW j \in 1 .. Len(b), NEW m \in 1 .. Len(b), j < m PROVE kept[b[j]] < kept[b[m]]
      OBVIOUS
    <3>1. b[j] < b[m] /\ b[j] \in 1 .. N /\ b[m] \in 1 .. N
      BY <1>6, <1>7 DEF Ascends
    <3> QED
      BY <1>1, <3>1
  <2>4. ASSUME NEW x \in X PROVE \E m \in 1 .. Len(b) : kept[b[m]] = x
    <3>1. PICK k \in Y : kept[k] = x
      BY <1>5
    <3>2. PICK m \in 1 .. Len(b) : b[m] = k
      BY <1>7 DEF Ascends
    <3> QED
      BY <3>1, <3>2
  <2> HIDE DEF q, b
  <2>5. \A j, m \in 1 .. Len(q) : j < m => q[j] < q[m]
    BY <2>2, <2>3
  <2>6. ASSUME NEW x \in X PROVE \E m \in 1 .. Len(q) : q[m] = x
    <3>1. PICK m \in 1 .. Len(b) : kept[b[m]] = x
      BY <2>4
    <3>2. m \in 1 .. Len(q) /\ q[m] = x
      BY <2>2, <3>1
    <3> QED
      BY <3>2
  <2> QED
    BY <2>2, <2>5, <2>6 DEF Ascends
<1>9. InOrder(X) = q
  <2> HIDE DEF q
  <2>1. X \in SUBSET Nat
    BY <1>6
  <2> QED
    BY <1>8, <2>1, AscendingIsInOrder
<1>10. Fields(top) = [m \in DOMAIN b |-> [is |-> top[b[m]].is, folds |-> Cardinality(Folds(top, b[m]))]]
  BY DEF Fields, Y
<1>11. Fields(h) = [m \in DOMAIN q |-> [is |-> h[q[m]].is, folds |-> Cardinality(Folds(h, q[m]))]]
  BY <1>9 DEF Fields, X
<1>12. DOMAIN q = 1 .. Len(b) /\ \A m \in 1 .. Len(b) : q[m] = kept[b[m]]
  OBVIOUS
<1> HIDE DEF b, q
<1>13. \A m \in 1 .. Len(b) : top[b[m]].is = h[q[m]].is /\ Cardinality(Folds(top, b[m])) = Cardinality(Folds(h, q[m]))
  BY <1>4, <1>7, <1>12
<1> QED
  BY <1>7, <1>10, <1>11, <1>12, <1>13

\* Where the lines of a message all end alike, both ways of looking for the end of the
\* header find its first empty line.
LEMMA BoundaryIsFirst ==
  ASSUME NEW raw \in Seq(Line), \A i, j \in DOMAIN raw : raw[i].crlf = raw[j].crlf,
         Blank(raw) # {}, raw[1].is # "empty"
  PROVE  \E e \in 2 .. Len(raw) :
           /\ Boundary(raw) = e /\ BytesIndexHeaderEnd(raw) = e
           /\ raw[e].is = "empty" /\ \A i \in 1 .. e - 1 : raw[i].is # "empty"
<1> DEFINE B == Blank(raw)
<1>1. Len(raw) \in Nat /\ DOMAIN raw = 1 .. Len(raw) /\ B \in SUBSET Nat
      /\ \A i \in B : i \in 2 .. Len(raw) /\ raw[i].is = "empty" /\ i - 1 \in 1 .. Len(raw) /\ i \in 1 .. Len(raw)
  BY DEF Blank
<1>2. \A i \in 2 .. Len(raw) : raw[i].is = "empty" => i \in B
  BY DEF Blank
<1> HIDE DEF B
<1>3. PICK e \in B : \A i \in B : e <= i
  BY <1>1, LeastNumber DEF B
<1>4. Min(B) = e /\ First(B) = e
  BY <1>1, <1>3, MinIs
<1>5. \A i \in 1 .. e - 1 : raw[i].is # "empty"
  <2> SUFFICES ASSUME NEW i \in 1 .. e - 1, raw[i].is = "empty" PROVE FALSE
    OBVIOUS
  <2>1. e \in Nat /\ e <= Len(raw)
    BY <1>1
  <2>2. i \in 2 .. Len(raw) /\ i \in Nat /\ ~(e <= i)
    BY <1>1, <2>1
  <2> QED
    BY <1>2, <1>3, <2>2
<1>6. Boundary(raw) = e
  <2> DEFINE wide == {i \in B : raw[i].crlf /\ raw[i - 1].crlf}
             thin == {i \in B : ~raw[i].crlf}
  <2>1. Boundary(raw) = IF wide # {} THEN Min(wide) ELSE First(thin)
    BY DEF Boundary, B
  <2>2. \A i, j \in 1 .. Len(raw) : raw[i].crlf = raw[j].crlf
    BY <1>1
  <2>3. CASE raw[e].crlf
    <3>1. wide = B
      BY <1>1, <2>2, <2>3
    <3> QED
      BY <1>3, <1>4, <2>1, <3>1
  <2>4. CASE ~raw[e].crlf
    <3>1. wide = {} /\ thin = B
      BY <1>1, <2>2, <2>4
    <3> QED
      BY <1>4, <2>1, <3>1
  <2> QED
    BY <2>3, <2>4
<1>7. BytesIndexHeaderEnd(raw) = e
  BY <1>4 DEF BytesIndexHeaderEnd, B
<1> QED
  BY <1>1, <1>5, <1>6, <1>7

\* A list from its a-th entry on.
LEMMA FromThe ==
  ASSUME NEW S, NEW s \in Seq(S), NEW a \in Nat, NEW m \in Nat, 1 <= a, Len(s) - a + 1 = m
  PROVE  /\ SubSeq(s, a, Len(s)) \in Seq(S) /\ Len(SubSeq(s, a, Len(s))) = m
         /\ \A i \in 1 .. m : SubSeq(s, a, Len(s))[i] = s[a + i - 1]
<1>1. Len(s) \in Nat
  OBVIOUS
<1> QED
  BY <1>1

\* The first empty line, of a message that is given by its header and the rest.
LEMMA HeaderEndsAt ==
  ASSUME NEW top \in Seq(Line), NEW n \in Nat, Len(top) = n, n >= 1, NEW rest \in Seq(Line), Len(rest) >= 1,
         rest[1].is = "empty", \A i \in 2 .. n : top[i].is # "empty"
  PROVE  /\ BytesIndexHeaderEnd(top \o rest) = n + 1 /\ HeaderOf(top \o rest) = top
         /\ SubSeq(top \o rest, n + 2, Len(top \o rest)) = SubSeq(rest, 2, Len(rest))
<1> DEFINE raw == top \o rest
<1>1. /\ raw \in Seq(Line) /\ Len(rest) \in Nat /\ Len(raw) = n + Len(rest)
      /\ \A i \in 1 .. n : raw[i] = top[i]
      /\ \A i \in 1 .. Len(rest) : raw[n + i] = rest[i]
  OBVIOUS
<1> HIDE DEF raw
<1>2. n + 1 \in Blank(raw) /\ Blank(raw) \in SUBSET Nat
  BY <1>1 DEF Blank
<1>3. \A i \in Blank(raw) : n + 1 <= i
  <2> SUFFICES ASSUME NEW i \in Blank(raw), ~(n + 1 <= i) PROVE FALSE
    OBVIOUS
  <2>1. i \in 2 .. Len(raw) /\ raw[i].is = "empty"
    BY DEF Blank
  <2>2. i \in 2 .. n /\ i \in 1 .. n
    BY <1>1, <2>1
  <2> QED
    BY <1>1, <2>1, <2>2
<1>4. BytesIndexHeaderEnd(raw) = n + 1
  BY <1>2, <1>3, MinIs DEF BytesIndexHeaderEnd
<1>5. HeaderOf(raw) = SubSeq(raw, 1, n)
  BY <1>4 DEF HeaderOf
<1>6. SubSeq(raw, 1, n) = top
  <2>1. SubSeq(raw, 1, n) \in Seq(Line) /\ Len(SubSeq(raw, 1, n)) = n /\ \A i \in 1 .. n : SubSeq(raw, 1, n)[i] = raw[i]
    BY <1>1
  <2> QED
    BY <1>1, <2>1
<1>7. SubSeq(raw, n + 2, Len(raw)) = SubSeq(rest, 2, Len(rest))
  <2> DEFINE x == SubSeq(raw, n + 2, Len(raw))
             y == SubSeq(rest, 2, Len(rest))
             m == Len(rest) - 1
  <2>1. /\ m \in Nat /\ Len(raw) - (n + 2) + 1 = m /\ Len(rest) - 2 + 1 = m
        /\ n + 2 \in Nat /\ 1 <= n + 2 /\ n + 2 <= Len(raw) + 1 /\ 2 <= Len(rest) + 1
    BY <1>1
  <2>2. x \in Seq(Line) /\ Len(x) = m /\ \A i \in 1 .. m : x[i] = raw[n + 2 + i - 1]
    BY <1>1, <2>1, FromThe
  <2>3. y \in Seq(Line) /\ Len(y) = m /\ \A i \in 1 .. m : y[i] = rest[2 + i - 1]
    BY <1>1, <2>1, FromThe
  <2> HIDE DEF x, y
  <2>5. ASSUME NEW i \in 1 .. m PROVE x[i] = y[i]
    <3>1. PICK j \in 1 .. Len(rest) : n + 2 + i - 1 = n + j /\ 2 + i - 1 = j
      <4>1. i + 1 \in 1 .. Len(rest) /\ n + 2 + i - 1 = n + (i + 1) /\ 2 + i - 1 = i + 1
        BY <1>1, <2>1
      <4> QED
        BY <4>1
    <3> QED
      BY <1>1, <2>2, <2>3, <3>1
  <2> HIDE DEF m
  <2>6. x = y
    BY <2>1, <2>2, <2>3, <2>5
  <2> QED
    BY <2>6 DEF x, y
<1> QED
  BY <1>4, <1>5, <1>6, <1>7 DEF raw

\* stripAuthResults takes the traces, with their continuation lines, and nothing else.
LEMMA StripTakesTraces ==
  ASSUME NEW came \in Seq(Line), \A i, j \in DOMAIN came : came[i].crlf = came[j].crlf,
         Blank(came) # {}, came[1].is # "empty", NEW goes, goes = StripAuthResults(came)
  PROVE  /\ \A l \in ToSet(HeaderOf(goes)) : l.is # "trace"
         /\ Fields(HeaderOf(goes)) = Fields(HeaderOf(came))
         /\ SubSeq(goes, BytesIndexHeaderEnd(goes) + 1, Len(goes)) = SubSeq(came, BytesIndexHeaderEnd(came) + 1, Len(came))
<1>1. PICK e \in 2 .. Len(came) :
        /\ Boundary(came) = e /\ BytesIndexHeaderEnd(came) = e
        /\ came[e].is = "empty" /\ \A i \in 1 .. e - 1 : came[i].is # "empty"
  BY BoundaryIsFirst
<1> DEFINE n == e - 1
           K == Stays(came, n)
           kept == InOrder(K)
           N == Len(kept)
           rest == SubSeq(came, e, Len(came))
           bare == <<[is |-> "empty", crlf |-> came[e].crlf]>>
           lines == [k \in DOMAIN kept |-> [is |-> came[kept[k]].is, crlf |-> k < Len(kept) \/ came[e].crlf]]
           h == SubSeq(came, 1, n)
<1>2. n \in 1 .. Len(came) /\ n \in Nat /\ e \in Nat /\ e # 0 /\ Len(came) \in Nat /\ n + 1 = e /\ e <= Len(came)
  <2>1. Len(came) \in Nat
    OBVIOUS
  <2> QED
    BY <2>1
<1>3. goes = (IF kept = <<>> THEN bare ELSE lines) \o rest
  BY <1>1, <1>2, Zenon DEF StripAuthResults, Stays
<1>4. /\ rest \in Seq(Line) /\ Len(rest) = Len(came) - e + 1 /\ Len(rest) >= 1 /\ rest[1] = came[e]
      /\ SubSeq(rest, 2, Len(rest)) = SubSeq(came, e + 1, Len(came))
  <2> DEFINE m == Len(came) - e
             x == SubSeq(came, e + 1, Len(came))
             y == SubSeq(rest, 2, Len(rest))
  <2>1. m \in Nat /\ Len(came) - e + 1 = m + 1 /\ Len(came) - (e + 1) + 1 = m
    BY <1>2
  <2>2. rest \in Seq(Line) /\ Len(rest) = m + 1 /\ \A i \in 1 .. m + 1 : rest[i] = came[e + i - 1]
    <3>1. 1 <= e /\ m + 1 \in Nat
      BY <1>2, <2>1
    <3>2. PICK c \in Nat : c = m + 1 /\ Len(came) - e + 1 = c
      BY <2>1, <3>1
    <3> HIDE DEF m
    <3>3. rest \in Seq(Line) /\ Len(rest) = c /\ \A i \in 1 .. c : rest[i] = came[e + i - 1]
      BY <1>2, <3>1, <3>2, FromThe
    <3> QED
      BY <3>2, <3>3
  <2>3. x \in Seq(Line) /\ Len(x) = m /\ \A i \in 1 .. m : x[i] = came[e + 1 + i - 1]
    <3>1. e + 1 \in Nat /\ 1 <= e + 1
      BY <1>2
    <3>2. m \in Nat /\ Len(came) - (e + 1) + 1 = m
      BY <2>1
    <3> HIDE DEF m
    <3> QED
      BY <3>1, <3>2, FromThe
  <2> HIDE DEF rest, x
  <2>4. y \in Seq(Line) /\ Len(y) = m /\ \A i \in 1 .. m : y[i] = rest[2 + i - 1]
    <3>1. 2 \in Nat /\ 1 <= 2 /\ Len(rest) - 2 + 1 = m
      BY <2>1, <2>2
    <3>2. m \in Nat /\ rest \in Seq(Line)
      BY <2>1, <2>2
    <3> HIDE DEF m
    <3> QED
      BY <3>1, <3>2, FromThe
  <2>5. /\ \A i \in 1 .. m : i + 1 \in 1 .. m + 1 /\ 2 + i - 1 = i + 1 /\ e + (i + 1) - 1 = e + 1 + i - 1
        /\ 1 \in 1 .. m + 1 /\ e + 1 - 1 = e
    BY <1>2, <2>1
  <2> HIDE DEF y
  <2>6. \A i \in 1 .. m : x[i] = y[i]
    BY <2>2, <2>3, <2>4, <2>5
  <2>7. x = y
    <3> HIDE DEF m
    <3> QED
      BY <2>1, <2>3, <2>4, <2>6
  <2>8. rest[1] = came[e]
    BY <2>2, <2>5
  <2>9. Len(rest) = Len(came) - e + 1 /\ Len(rest) >= 1
    BY <2>1, <2>2
  <2>10. SubSeq(rest, 2, Len(rest)) = SubSeq(came, e + 1, Len(came))
    BY <2>7 DEF x, y
  <2> QED
    BY <2>2, <2>8, <2>9, <2>10
<1>5. h \in Seq(Line) /\ Len(h) = n /\ (\A i \in 1 .. n : h[i] = came[i]) /\ HeaderOf(came) = h
  <2>1. h \in Seq(Line) /\ Len(h) = n /\ \A i \in 1 .. n : h[i] = came[i]
    BY <1>2
  <2> QED
    BY <1>1, <1>2, <2>1 DEF HeaderOf
<1> HIDE DEF rest, h
<1>6. Ascends(kept, K) /\ kept \in Seq(K) /\ N \in Nat /\ K \subseteq 1 .. n /\ DOMAIN kept = 1 .. N /\ \A k \in 1 .. N : kept[k] \in K
  <2>1. K \subseteq 1 .. n
    BY DEF Stays
  <2>2. IsFiniteSet(1 .. n)
    BY <1>2, FS_Interval
  <2> HIDE DEF K
  <2>3. K \in SUBSET Nat /\ IsFiniteSet(K)
    <3> HIDE DEF n
    <3>1. K \in SUBSET Nat
      BY <1>2, <2>1
    <3> QED
      BY <2>1, <2>2, <3>1, FS_Subset
  <2>4. Ascends(kept, K)
    BY <2>3, InOrderAscends
  <2>5. kept \in Seq(K)
    BY <2>4 DEF Ascends
  <2> HIDE DEF kept
  <2> QED
    BY <2>1, <2>4, <2>5
<1>7. \A i \in K : i \in 1 .. Len(came) /\ came[i].is # "trace" /\ came[i].is # "empty" /\ came[i] \in Line
  <2>1. \A i \in 1 .. n : i \in 1 .. Len(came) /\ came[i].is # "empty" /\ came[i] \in Line
    BY <1>1, <1>2
  <2> HIDE DEF n
  <2>2. \A i \in K : i \in 1 .. n /\ came[i].is # "trace"
    BY <1>2, <2>1, StaysByField
  <2> QED
    BY <2>1, <2>2
<1>8. \A i \in 1 .. n : came[i].is # "empty"
  BY <1>1
<1>13. came[e].crlf \in BOOLEAN
  <2>1. came[e] \in Line
    BY <1>2
  <2> QED
    BY <2>1 DEF Line
<1> HIDE DEF kept, K, n
<1>9. /\ lines \in Seq(Line) /\ Len(lines) = N
      /\ \A k \in 1 .. N : lines[k].is = came[kept[k]].is /\ lines[k].is # "empty" /\ lines[k].is # "trace"
  <2>1. \A k \in 1 .. N : came[kept[k]].is \in {"from", "trace", "other", "fold", "empty"}
    <3>1. \A l \in Line : l.is \in {"from", "trace", "other", "fold", "empty"}
      BY DEF Line
    <3> QED
      BY <1>6, <1>7, <3>1
  <2>2. came[e].crlf \in BOOLEAN
    BY <1>13
  <2>3. \A k \in 1 .. N : lines[k] = [is |-> came[kept[k]].is, crlf |-> k < N \/ came[e].crlf] /\ lines[k] \in Line
    BY <1>6, <2>1, <2>2 DEF Line
  <2>7. \A k \in 1 .. N : lines[k].is = came[kept[k]].is
    BY <1>6
  <2>4. DOMAIN lines = 1 .. N /\ lines = [k \in 1 .. N |-> lines[k]]
    BY <1>6
  <2> HIDE DEF lines
  <2>5. lines \in [1 .. N -> Line]
    BY <2>3, <2>4
  <2> HIDE DEF N
  <2>6. lines \in Seq(Line) /\ Len(lines) = N
    BY <1>6, <2>5
  <2>8. \A k \in 1 .. N : came[kept[k]].is # "empty" /\ came[kept[k]].is # "trace"
    BY <1>6, <1>7
  <2> QED
    BY <2>6, <2>7, <2>8
<1> HIDE DEF lines
<1>10. Fields(lines) = Fields(h)
  <2>1. Ascends(kept, Stays(came, n))
    BY <1>6 DEF K
  <2>2. Len(lines) = Len(kept) /\ \A k \in 1 .. Len(kept) : lines[k].is = came[kept[k]].is
    BY <1>9
  <2>3. lines \in Seq(Line) /\ h \in Seq(Line) /\ Len(h) = n /\ \A i \in 1 .. n : h[i] = came[i]
    BY <1>5, <1>9
  <2>4. n \in 1 .. Len(came)
    BY <1>2
  <2>5. StrippedTo(came, n, h, kept, lines)
    BY <1>8, <2>1, <2>2, <2>3, <2>4 DEF StrippedTo
  <2> QED
    BY <2>5, FieldsStay
<1>11. CASE kept = <<>>
  <2>1. goes = bare \o rest /\ bare \in Seq(Line) /\ Len(bare) = 1 /\ bare[1].is = "empty"
    <3>1. goes = bare \o rest
      BY <1>3, <1>11
    <3>2. [is |-> "empty", crlf |-> came[e].crlf] \in Line
      BY <1>13 DEF Line
    <3> QED
      BY <3>1, <3>2
  <2> HIDE DEF bare
  <2>2. BytesIndexHeaderEnd(goes) = 2 /\ HeaderOf(goes) = bare /\ SubSeq(goes, 3, Len(goes)) = SubSeq(rest, 2, Len(rest))
    <3>1. \A i \in 2 .. 1 : bare[i].is # "empty"
      OBVIOUS
    <3>2. 1 \in Nat /\ 1 + 1 = 2 /\ 1 + 2 = 3 /\ 1 >= 1 /\ rest[1].is = "empty"
      BY <1>1, <1>4
    <3> QED
      BY <1>4, <2>1, <3>1, <3>2, HeaderEndsAt
  <2>3. Fields(bare) = Fields(lines)
    <3>1. Len(lines) = 0 /\ DOMAIN lines = {} /\ DOMAIN bare = 1 .. 1
      BY <1>9, <1>11, <2>1 DEF N
    <3>2. {i \in DOMAIN bare : bare[i].is \in {"from", "other"}} = {} /\ {i \in DOMAIN lines : lines[i].is \in {"from", "other"}} = {}
      BY <2>1, <3>1
    <3>3. DOMAIN InOrder({}) = {}
      BY FS_EmptySet DEF InOrder
    <3> QED
      BY <3>2, <3>3 DEF Fields
  <2>4. ToSet(bare) = {bare[1]}
    BY <2>1 DEF ToSet
  <2>5. \A l \in ToSet(HeaderOf(goes)) : l.is # "trace"
    BY <2>1, <2>2, <2>4
  <2>6. Fields(HeaderOf(goes)) = Fields(HeaderOf(came))
    BY <1>5, <1>10, <2>2, <2>3
  <2>7. SubSeq(goes, 2 + 1, Len(goes)) = SubSeq(came, e + 1, Len(came))
    <3>1. 2 + 1 = 3
      OBVIOUS
    <3> QED
      BY <1>4, <2>2, <3>1, Zenon
  <2> QED
    BY <1>1, <2>2, <2>5, <2>6, <2>7
<1>12. CASE kept # <<>>
  <2>1. goes = lines \o rest /\ N >= 1
    BY <1>3, <1>6, <1>12
  <2>2. \A i \in 2 .. N : lines[i].is # "empty"
    <3>1. \A i \in 2 .. N : i \in 1 .. N
      BY <1>6
    <3> QED
      BY <1>9, <3>1
  <2>3. BytesIndexHeaderEnd(goes) = N + 1 /\ HeaderOf(goes) = lines /\ SubSeq(goes, N + 2, Len(goes)) = SubSeq(rest, 2, Len(rest))
    <3>1. rest[1].is = "empty" /\ Len(rest) >= 1 /\ rest \in Seq(Line)
      BY <1>1, <1>4
    <3> HIDE DEF N
    <3> QED
      BY <1>6, <1>9, <2>1, <2>2, <3>1, HeaderEndsAt, SMTT(30)
  <2>4. N + 1 + 1 = N + 2
    BY <1>6
  <2>5. \A l \in ToSet(lines) : l.is # "trace"
    BY <1>6, <1>9 DEF ToSet
  <2> QED
    BY <1>1, <1>4, <1>5, <1>10, <2>3, <2>4, <2>5
<1> QED
  BY <1>11, <1>12

\* What the MX says of a sender is its own finding, and it acts on it, for messages of
\* any lines: no claim of another is left in the header, and all else is.
THEOREM SenderIsChecked == AuthSpec => []SenderChecked
<1>1. AuthInv => TracesGone
  <2> SUFFICES ASSUME AuthInv PROVE TracesGone
    OBVIOUS
  <2> DEFINE came == inbound.msg.raw
             goes == inbound.raw
  <2>1. came \in Seq(Line)
    BY ArrivalAssumption DEF AuthInv
  <2>2. inbound.fate # "new" => goes = StripAuthResults(came)
    BY DEF AuthInv
  <2> HIDE DEF came, goes
  <2>3. ASSUME inbound.fate # "new", \A i, j \in DOMAIN came : came[i].crlf = came[j].crlf, Blank(came) # {}, came[1].is # "empty"
        PROVE  /\ \A l \in ToSet(HeaderOf(goes)) : l.is # "trace"
               /\ Fields(HeaderOf(goes)) = Fields(HeaderOf(came))
               /\ SubSeq(goes, BytesIndexHeaderEnd(goes) + 1, Len(goes)) = SubSeq(came, BytesIndexHeaderEnd(came) + 1, Len(came))
    BY <2>1, <2>2, <2>3, StripTakesTraces
  <2> QED
    BY <2>3 DEF TracesGone, came, goes
<1> QED
  BY <1>1, AuthInvariant, PolicyHolds, PTL DEF SenderChecked
=============================================================================
