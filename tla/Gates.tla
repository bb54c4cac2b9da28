------------------------------- MODULE Gates --------------------------------
(***************************************************************************)
(* The limits every outgoing message passes: the plan's daily cap, the     *)
(* tenant's daily quota and the abuse filter, in this order in SendRaw     *)
(* (JMAP, the web API, the compose endpoint), the filter first in an SMTP  *)
(* submission.  Each has a lock of its own, and the day may change between *)
(* them.  All of them go by the sender as the caller spelled it: the web   *)
(* API hands on the From of the request, a display name included, and what *)
(* is left of it after a change of case names the plan's counter, and what *)
(* follows its last "@" the tenant.                                        *)
(***************************************************************************)
EXTENDS Naturals, Sequences, FiniteSets

CONSTANTS
  Spelling,       \* the senders as callers spell them
  Bare,           \* those without a display name, as accounts sign in
  PlanKey,        \* what the plan's counter makes of a spelling (lower case)
  TenantFor,      \* what the tenant's counter makes of it (after the last "@")
  Sending,        \* messages on their way through the gates
  MaxSendPerDay,  \* seam.Plan
  MaxQuota, MaxBytes,  \* tenant.Quota
  MaxPerWindow,   \* abuse.Config
  MaxDay          \* bound on the days

ASSUME GatesAssumption == {MaxSendPerDay, MaxQuota, MaxBytes, MaxPerWindow} \subseteq Nat \ {0} /\ MaxDay \in Nat /\ Bare \subseteq Spelling

Day == 0 .. MaxDay
PlanKeys == {PlanKey[s] : s \in Spelling}
Tenants == {TenantFor[s] : s \in Spelling}

VARIABLES
  today,
  sends,      \* Manager.sends
  usage,      \* Quota.usage
  recent,     \* Filter.sends: how many of the window
  suspended,  \* Filter.suspended
  mess,       \* each message's request
  counted,    \* history: what each counter let pass today
  late        \* history: whether a request of the day before was counted today

gateVars == <<today, sends, usage, recent, suspended, mess, counted, late>>

Out == [at |-> <<>>, from |-> CHOOSE s \in Spelling : TRUE, stamp |-> 0]

Uncounted == [plan |-> [k \in PlanKeys |-> 0], quota |-> [t \in Tenants |-> [n |-> 0, bytes |-> 0]]]

GatesInit ==
  /\ today = 0 /\ suspended = {} /\ late = FALSE
  /\ sends = [k \in PlanKeys |-> [day |-> 0, n |-> 0]]
  /\ usage = [t \in Tenants |-> [day |-> 0, n |-> 0, bytes |-> 0]]
  /\ recent = [s \in Spelling |-> 0] /\ mess = [m \in Sending |-> Out]
  /\ counted = Uncounted

At(m, gate) == mess[m].at # <<>> /\ Head(mess[m].at) = gate
Refuse(m) == mess' = [mess EXCEPT ![m] = Out]
Pass(m) == IF Tail(mess[m].at) = <<>> THEN mess' = [mess EXCEPT ![m] = Out] ELSE mess' = [mess EXCEPT ![m].at = Tail(@)]

Begin(m, s, gates) ==
  /\ mess[m].at = <<>>
  /\ mess' = [mess EXCEPT ![m] = [at |-> gates, from |-> s, stamp |-> 0]]
  /\ UNCHANGED <<today, sends, usage, recent, suspended, counted, late>>

\* DATA of an SMTP submission: the sender is the account as it signed in.
Data(m, s) == Begin(m, s, <<"abuse", "plan", "count", "quota">>)

\* SendRaw, for JMAP's Submit with the account as it signed in...
SendRaw(m, s) == Begin(m, s, <<"plan", "count", "quota", "abuse">>)

\* ...and for the web API with the From of the request as it is, any spelling whose
\* address is the key's account, with a display name or without.
HandleSend(m, s) == SendRaw(m, s)

\* planFor and the date, before the lock.  An unknown plan and one without a cap let the
\* message pass uncounted; a suspended account is refused.
PlanFor(m, plan) ==
  /\ At(m, "plan")
  /\ CASE plan = "capped" -> mess' = [mess EXCEPT ![m].at = Tail(@), ![m].stamp = today]
       [] plan = "suspended" -> Refuse(m)
       [] OTHER -> mess' = [mess EXCEPT ![m].at = Tail(Tail(@))]
  /\ UNCHANGED <<today, sends, usage, recent, suspended, counted, late>>

\* allowPlanSend under its lock: the counter is for the day that was read before.
AllowPlanSend(m) ==
  LET k == PlanKey[mess[m].from]
      u == IF sends[k].day = mess[m].stamp THEN sends[k] ELSE [day |-> mess[m].stamp, n |-> 0]
  IN  /\ At(m, "count")
      /\ late' = (late \/ mess[m].stamp # today)
      /\ IF u.n >= MaxSendPerDay
         THEN Refuse(m) /\ sends' = [sends EXCEPT ![k] = u] /\ UNCHANGED counted
         ELSE /\ Pass(m) /\ sends' = [sends EXCEPT ![k] = [u EXCEPT !.n = @ + 1]]
              /\ counted' = [counted EXCEPT !.plan[k] = @ + 1]
      /\ UNCHANGED <<today, usage, recent, suspended>>

\* Mutant of QuotaDay: the day the request began.
QuotaDayEarly(m) == mess[m].stamp

\* Quota.Allow reads the clock under its lock.
QuotaDay(m) == today

Allow(m, size) ==
  LET d == QuotaDay(m)
      t == TenantFor[mess[m].from]
      u == IF usage[t].day = d THEN usage[t] ELSE [day |-> d, n |-> 0, bytes |-> 0]
  IN
  /\ At(m, "quota")
  /\ IF u.n >= MaxQuota \/ u.bytes + size > MaxBytes
     THEN Refuse(m) /\ usage' = [usage EXCEPT ![t] = u] /\ UNCHANGED counted
     ELSE /\ Pass(m) /\ usage' = [usage EXCEPT ![t] = [day |-> d, n |-> u.n + 1, bytes |-> u.bytes + size]]
          /\ counted' = [counted EXCEPT !.quota[t] = [n |-> @.n + 1, bytes |-> @.bytes + size]]
  /\ UNCHANGED <<today, sends, recent, suspended, late>>

\* Filter.Check: a burst suspends the account for good; nothing here reinstates it.
Check(m, burst) ==
  LET s == mess[m].from IN
  /\ At(m, "abuse")
  /\ suspended' = IF burst THEN suspended \cup {s} ELSE suspended
  /\ IF s \in suspended' \/ recent[s] >= MaxPerWindow THEN Refuse(m) /\ UNCHANGED recent
     ELSE Pass(m) /\ recent' = [recent EXCEPT ![s] = @ + 1]
  /\ UNCHANGED <<today, sends, usage, counted, late>>

\* The oldest send that is counted leaves the sliding window.
Leaves(s) ==
  /\ recent[s] > 0 /\ recent' = [recent EXCEPT ![s] = @ - 1]
  /\ UNCHANGED <<today, sends, usage, suspended, mess, counted, late>>

NextDay ==
  /\ today < MaxDay /\ today' = today + 1
  /\ counted' = Uncounted /\ late' = FALSE
  /\ UNCHANGED <<sends, usage, recent, suspended, mess>>

GatesNext ==
  \/ NextDay \/ \E s \in Spelling : Leaves(s)
  \/ \E m \in Sending :
       \/ AllowPlanSend(m)
       \/ \E size \in {1, 2} : Allow(m, size)
       \/ \E burst \in BOOLEAN : Check(m, burst)
       \/ \E plan \in {"capped", "suspended", "unlimited", "unknown"} : PlanFor(m, plan)
       \/ \E s \in Bare : Data(m, s) \/ SendRaw(m, s)
       \/ \E s \in Spelling : HandleSend(m, s)

GatesSpec == GatesInit /\ [][GatesNext]_gateVars

-----------------------------------------------------------------------------
GatesTypeOK ==
  /\ today \in Day /\ usage \in [Tenants -> [day : Day, n : 0 .. MaxQuota, bytes : 0 .. MaxBytes]] /\ suspended \subseteq Spelling
  /\ sends \in [PlanKeys -> [day : Day, n : 0 .. MaxSendPerDay]] /\ recent \in [Spelling -> 0 .. MaxPerWindow]

\* The daily limits hold on each day, however messages race and wherever midnight
\* falls: the tenant's always, and the plan's unless a message that had read the date
\* before midnight is counted after it, which starts the counter anew.  They are limits
\* of what the code takes for a tenant and for an account: a sender with a display name
\* is another one of both.
DailyLimits ==
  /\ \A t \in Tenants : counted.quota[t].n <= MaxQuota /\ counted.quota[t].bytes <= MaxBytes
  /\ ~late => \A k \in PlanKeys : counted.plan[k] <= MaxSendPerDay
=============================================================================
