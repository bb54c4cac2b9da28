------------------------------ MODULE OutQueue ------------------------------
(***************************************************************************)
(* The outbound queue: clients enqueue through mtaout.Scheduler.Enqueue,   *)
(* one goroutine runs Tick in a loop, mtaout.FileQueue keeps one file per  *)
(* message, deliverStatePersister saves the warmup and reputation gates,   *)
(* and the process may die and recover at any point.                       *)
(*                                                                         *)
(* A message is its queue id, which Enqueue draws at random for every      *)
(* message.  Tick holds Scheduler.mu while pc is "tick" or "sent"; nobody  *)
(* sees s.queue then, so `queue' is the pass's `remaining' meanwhile.      *)
(* A retry window is a flag: `wait' holds the messages whose NextAttempt   *)
(* lies ahead.  Tick reads the clock once, so time moves between passes.   *)
(***************************************************************************)
EXTENDS Naturals, Sequences, FiniteSets

CONSTANTS
  Msg,           \* messages, one per send and destination domain
  Tenant,        \* Msg -> tenant; every caller sets FromDomain to it too
  RcptDomain,    \* Msg -> destination domain
  MaxAttempts, MaxPerDomain,
  Schedule,      \* the warmup ramp; <<>> when no ramp is configured
  MinVolume,     \* the reputation gate's minimum; 0 when there is no gate
  BounceNum, BounceDen,  \* maxBounceRate as a fraction
  MaxFaults      \* bound on crashes and refused writes of a behaviour

ASSUME MsgAssumption == IsFiniteSet(Msg)
ASSUME LimitAssumption ==
  /\ MaxAttempts \in Nat \ {0} /\ MaxPerDomain \in Nat \ {0}
  /\ MinVolume \in Nat /\ BounceNum \in Nat /\ BounceDen \in Nat \ {0}
  /\ MaxFaults \in Nat
ASSUME ScheduleAssumption == Schedule \in Seq(Nat \ {0})

Tenants == {Tenant[m] : m \in Msg}
Domains == {RcptDomain[m] : m \in Msg}

VARIABLES
  client,     \* what the submitter of each message knows
  files,      \* the messages that have a queue file
  sAttempts,  \* Attempts in the file
  sWait,      \* the messages whose file has NextAttempt ahead
  queue,      \* Scheduler.queue
  attempts,   \* queued.attempts
  wait,       \* the messages whose queued.nextAttempt is ahead
  pc,         \* where the scheduler goroutine is
  todo,       \* what the pass has still to look at
  result,     \* what Send returned for Head(todo)
  perDomain,  \* dispatches of this pass per destination
  bounces,    \* bounces of this pass not yet called back
  gates,      \* Warmup and Reputation
  saved,      \* the state file of deliverStatePersister
  delivered,  \* history: messages a remote server accepted
  reported,   \* history: messages whose bounce callback ran
  dropped,    \* history: messages whose bounce a crash wiped out
  tries,      \* history: calls of Send per message
  faults      \* history: crashes and refused writes so far

store == <<files, sAttempts, sWait>>
memory == <<queue, attempts, wait>>
pass == <<todo, result, perDomain, bounces>>
history == <<delivered, reported, dropped, tries, faults>>
vars == <<client, store, memory, pc, pass, gates, saved, history>>

Elements(s) == {s[i] : i \in 1 .. Len(s)}

\* What the process would still try to send.
Work == Elements(queue) \cup Elements(todo)

-----------------------------------------------------------------------------
(* The gates.                                                              *)

NoRamp == [seen |-> FALSE, day |-> 0, used |-> 0]
NoStat == [delivered |-> 0, bounced |-> 0]
NoGates == [warm |-> [t \in Tenants |-> NoRamp], rep |-> [t \in Tenants |-> NoStat]]

\* day counts from the domain's first send; past the ramp its last cap holds.
capFor(day) ==
  IF day >= Len(Schedule) THEN Schedule[Len(Schedule)] ELSE Schedule[day + 1]

\* Mutant of Allow: one send more than the cap.
AllowOneMore(w) ==
  Schedule = <<>> \/ ~w.seen \/ w.used <= capFor(w.day)

\* Warmup.Allow
Allow(w) ==
  \/ Schedule = <<>>
  \/ IF w.seen THEN w.used < capFor(w.day) ELSE capFor(0) > 0

\* Warmup.Record; the first send starts the ramp.
RecordSend(w) ==
  IF Schedule = <<>> THEN w ELSE [w EXCEPT !.seen = TRUE, !.used = @ + 1]

\* dayIndex moves on and the new day's counter starts at zero.
NextDay(w) ==
  IF w.seen THEN [w EXCEPT !.day = IF @ < Len(Schedule) THEN @ + 1 ELSE @, !.used = 0]
  ELSE w

\* Reputation.Throttled; complaints have no caller and stay zero.
Throttled(r) ==
  /\ MinVolume > 0
  /\ r.delivered + r.bounced >= MinVolume
  /\ r.bounced * BounceDen > BounceNum * (r.delivered + r.bounced)

RecordDelivered(r) == IF MinVolume = 0 THEN r ELSE [r EXCEPT !.delivered = @ + 1]
RecordBounced(r) == IF MinVolume = 0 THEN r ELSE [r EXCEPT !.bounced = @ + 1]

\* Tick's four reasons to leave a message in the queue.
Held(m) ==
  \/ m \in wait
  \/ Throttled(gates.rep[Tenant[m]])
  \/ ~Allow(gates.warm[Tenant[m]])
  \/ perDomain[RcptDomain[m]] >= MaxPerDomain

-----------------------------------------------------------------------------
Init ==
  /\ client = [m \in Msg |-> "new"]
  /\ files = {} /\ sAttempts = [m \in Msg |-> 0] /\ sWait = {}
  /\ queue = <<>> /\ attempts = [m \in Msg |-> 0] /\ wait = {}
  /\ pc = "idle"
  /\ todo = <<>> /\ result = "Delivered"
  /\ perDomain = [d \in Domains |-> 0] /\ bounces = <<>>
  /\ gates = NoGates /\ saved = NoGates
  /\ delivered = {} /\ reported = {} /\ dropped = {}
  /\ tries = [m \in Msg |-> 0] /\ faults = 0

Fault(bad) ==
  /\ bad => faults < MaxFaults
  /\ faults' = IF bad THEN faults + 1 ELSE faults

-----------------------------------------------------------------------------
(* Submission.                                                             *)

\* Mutant of Add: the answer comes before the file is written.
AddUnwritten(m) ==
  /\ pc # "down" /\ client[m] = "new"
  /\ client' = [client EXCEPT ![m] = "added"]
  /\ UNCHANGED <<store, memory, pc, pass, gates, saved, history>>

\* Enqueue, first half: FileQueue.Add made the message durable.
Add(m) ==
  /\ pc # "down" /\ client[m] = "new"
  /\ files' = files \cup {m}
  /\ sAttempts' = [sAttempts EXCEPT ![m] = 0]
  /\ sWait' = sWait \ {m}
  /\ client' = [client EXCEPT ![m] = "added"]
  /\ UNCHANGED <<memory, pc, pass, gates, saved, history>>

\* Add fails and the submitter is told to retry later.  When only the sync of the
\* directory could not start, the file is in place all the same.
AddFails(m, renamed) ==
  /\ pc # "down" /\ client[m] = "new"
  /\ Fault(TRUE)
  /\ IF renamed
     THEN /\ files' = files \cup {m}
          /\ sAttempts' = [sAttempts EXCEPT ![m] = 0]
          /\ sWait' = sWait \ {m}
     ELSE UNCHANGED store
  /\ client' = [client EXCEPT ![m] = "refused"]
  /\ UNCHANGED <<memory, pc, pass, gates, saved, delivered, reported, dropped, tries>>

\* Enqueue, second half: append under Scheduler.mu, then the submitter gets its 250.
Accept(m) ==
  /\ client[m] = "added" /\ pc \in {"idle", "report"}
  /\ queue' = Append(queue, m)
  /\ attempts' = [attempts EXCEPT ![m] = 0]
  /\ wait' = wait \ {m}
  /\ client' = [client EXCEPT ![m] = "acked"]
  /\ UNCHANGED <<store, pc, pass, gates, saved, history>>

-----------------------------------------------------------------------------
(* One scheduling pass.                                                    *)

TickBegin ==
  /\ pc = "idle"
  /\ todo' = queue /\ queue' = <<>>
  /\ perDomain' = [d \in Domains |-> 0]
  /\ bounces' = <<>>
  /\ pc' = "tick"
  /\ UNCHANGED <<client, store, attempts, wait, result, gates, saved, history>>

Hold ==
  /\ pc = "tick" /\ todo # <<>> /\ Held(Head(todo))
  /\ queue' = Append(queue, Head(todo))
  /\ todo' = Tail(todo)
  /\ UNCHANGED <<client, store, attempts, wait, pc, result, perDomain, bounces, gates, saved, history>>

\* The counters move before Send, and the remote side has acted when it returns.
Send(r) ==
  /\ pc = "tick" /\ todo # <<>> /\ ~Held(Head(todo))
  /\ LET m == Head(todo) IN
       /\ perDomain' = [perDomain EXCEPT ![RcptDomain[m]] = @ + 1]
       /\ gates' = [gates EXCEPT !.warm[Tenant[m]] = RecordSend(@)]
       /\ tries' = [tries EXCEPT ![m] = @ + 1]
       /\ delivered' = IF r = "Delivered" THEN delivered \cup {m} ELSE delivered
  /\ result' = r
  /\ pc' = "sent"
  /\ UNCHANGED <<client, store, memory, todo, bounces, saved, reported, dropped, faults>>

\* removeDurable: best effort, the file stays when the delete is refused.
RemoveDurable(m, ok) ==
  /\ Fault(~ok)
  /\ files' = IF ok THEN files \ {m} ELSE files
  /\ sWait' = IF ok THEN sWait \ {m} ELSE sWait
  /\ UNCHANGED sAttempts

\* Mutant of UpdateDurable: the old file goes before the new one is written.
UpdateDeletesFirst(m, n, ok) ==
  /\ Fault(~ok)
  /\ files' = IF ok THEN files \cup {m} ELSE files \ {m}
  /\ sAttempts' = IF ok THEN [sAttempts EXCEPT ![m] = n] ELSE sAttempts
  /\ sWait' = IF ok THEN sWait \cup {m} ELSE sWait

\* Mutant of UpdateDurable: the retry state is never written.
UpdateForgotten(m, n, ok) ==
  /\ Fault(~ok)
  /\ UNCHANGED store

\* updateDurable: best effort, the file keeps its old state when it is refused.
UpdateDurable(m, n, ok) ==
  /\ Fault(~ok)
  /\ files' = IF ok THEN files \cup {m} ELSE files
  /\ sAttempts' = IF ok THEN [sAttempts EXCEPT ![m] = n] ELSE sAttempts
  /\ sWait' = IF ok THEN sWait \cup {m} ELSE sWait

\* Mutant of Settle: the delivered message stays queued.
SettleKeepsQueued(ok) ==
  /\ pc = "sent" /\ result = "Delivered"
  /\ RemoveDurable(Head(todo), ok)
  /\ queue' = Append(queue, Head(todo))
  /\ todo' = Tail(todo)
  /\ pc' = "tick"
  /\ UNCHANGED <<client, attempts, wait, result, perDomain, bounces, gates, saved, delivered, reported, dropped, tries>>

Settle(ok) ==
  /\ pc = "sent" /\ result = "Delivered"
  /\ LET m == Head(todo) IN
       /\ gates' = [gates EXCEPT !.rep[Tenant[m]] = RecordDelivered(@)]
       /\ RemoveDurable(m, ok)
  /\ todo' = Tail(todo)
  /\ pc' = "tick"
  /\ UNCHANGED <<client, memory, result, perDomain, bounces, saved, delivered, reported, dropped, tries>>

\* Mutant of Bounce: no callback is scheduled.
BounceSilently(ok) ==
  /\ pc = "sent"
  /\ \/ result = "PermFail"
     \/ result = "TempFail" /\ attempts[Head(todo)] + 1 >= MaxAttempts
  /\ RemoveDurable(Head(todo), ok)
  /\ todo' = Tail(todo)
  /\ pc' = "tick"
  /\ UNCHANGED <<client, memory, result, perDomain, bounces, gates, saved, delivered, reported, dropped, tries>>

\* A refusal for good, or one temporary refusal too many.
Bounce(ok) ==
  /\ pc = "sent"
  /\ LET m == Head(todo) IN
       /\ \/ result = "PermFail" /\ UNCHANGED attempts
          \/ /\ result = "TempFail" /\ attempts[m] + 1 >= MaxAttempts
             /\ attempts' = [attempts EXCEPT ![m] = @ + 1]
       /\ bounces' = Append(bounces, m)
       /\ gates' = [gates EXCEPT !.rep[Tenant[m]] = RecordBounced(@)]
       /\ RemoveDurable(m, ok)
  /\ todo' = Tail(todo)
  /\ pc' = "tick"
  /\ UNCHANGED <<client, queue, wait, result, perDomain, saved, delivered, reported, dropped, tries>>

Defer(ok) ==
  /\ pc = "sent" /\ result = "TempFail"
  /\ LET m == Head(todo) IN
       /\ attempts[m] + 1 < MaxAttempts
       /\ attempts' = [attempts EXCEPT ![m] = @ + 1]
       /\ wait' = wait \cup {m}
       /\ queue' = Append(queue, m)
       /\ UpdateDurable(m, attempts[m] + 1, ok)
  /\ todo' = Tail(todo)
  /\ pc' = "tick"
  /\ UNCHANGED <<client, result, perDomain, bounces, gates, saved, delivered, reported, dropped, tries>>

\* The lock is released; the bounce callbacks follow one by one.
TickEnd ==
  /\ pc = "tick" /\ todo = <<>>
  /\ pc' = IF bounces = <<>> THEN "idle" ELSE "report"
  /\ UNCHANGED <<client, store, memory, pass, gates, saved, history>>

\* Manager.HandleBounce for the oldest bounce of the pass.
Report ==
  /\ pc = "report"
  /\ reported' = reported \cup {Head(bounces)}
  /\ bounces' = Tail(bounces)
  /\ pc' = IF bounces' = <<>> THEN "idle" ELSE "report"
  /\ UNCHANGED <<client, store, memory, todo, result, perDomain, gates, saved, delivered, dropped, tries, faults>>

\* deliverStatePersister.save, from the scheduler goroutine between passes.
SaveState ==
  /\ pc = "idle"
  /\ saved' = gates
  /\ UNCHANGED <<client, store, memory, pc, pass, gates, history>>

-----------------------------------------------------------------------------
(* Time, crashes and restarts.                                             *)

\* The retry window of a message runs out, in memory and in its file.
Elapse(m) ==
  /\ pc \in {"idle", "down"} /\ m \in wait \cup sWait
  /\ wait' = wait \ {m} /\ sWait' = sWait \ {m}
  /\ UNCHANGED <<client, files, sAttempts, queue, attempts, pc, pass, gates, saved, history>>

\* 24 hours after the day's start for the domain t.
NewDay(t) ==
  /\ pc \in {"idle", "down"}
  /\ gates.warm[t].seen \/ saved.warm[t].seen
  /\ gates' = [gates EXCEPT !.warm[t] = NextDay(@)]
  /\ saved' = [saved EXCEPT !.warm[t] = NextDay(@)]
  /\ UNCHANGED <<client, store, memory, pc, pass, history>>

Crash ==
  /\ pc # "down" /\ Fault(TRUE)
  /\ pc' = "down"
  /\ client' = [m \in Msg |-> IF client[m] = "added" THEN "gone" ELSE client[m]]
  /\ dropped' = dropped \cup Elements(bounces)
  /\ queue' = <<>> /\ todo' = <<>> /\ bounces' = <<>>
  /\ attempts' = [m \in Msg |-> 0] /\ wait' = {}
  /\ perDomain' = [d \in Domains |-> 0]
  /\ gates' = NoGates
  /\ UNCHANGED <<store, result, saved, delivered, reported, tries>>

\* Load gives the files in the order of their random names.
Orders(S) == {f \in [1 .. Cardinality(S) -> S] : \A m \in S : \E i \in DOMAIN f : f[i] = m}

\* Mutant of Recover: the reputation counters are not restored.
RecoverWithoutReputation ==
  /\ pc = "down"
  /\ queue' \in Orders(files)
  /\ attempts' = sAttempts
  /\ wait' = sWait
  /\ gates' = [saved EXCEPT !.rep = NoGates.rep]
  /\ pc' = "idle"
  /\ UNCHANGED <<client, store, pass, saved, history>>

\* Startup: deliverState.load, then Scheduler.Recover, then the Tick loop.
Recover ==
  /\ pc = "down"
  /\ queue' \in Orders(files)
  /\ attempts' = sAttempts
  /\ wait' = sWait
  /\ gates' = saved
  /\ pc' = "idle"
  /\ UNCHANGED <<client, store, pass, saved, history>>

Scheduler ==
  \/ TickBegin
  \/ Hold
  \/ \E r \in {"Delivered", "TempFail", "PermFail"} : Send(r)
  \/ \E ok \in BOOLEAN : Settle(ok)
  \/ \E ok \in BOOLEAN : Bounce(ok)
  \/ \E ok \in BOOLEAN : Defer(ok)
  \/ TickEnd
  \/ Report

Next ==
  \/ \E m \in Msg : Add(m)
  \/ \E m \in Msg, renamed \in BOOLEAN : AddFails(m, renamed)
  \/ \E m \in Msg : Accept(m)
  \/ Scheduler
  \/ SaveState
  \/ \E m \in Msg : Elapse(m)
  \/ \E t \in Tenants : NewDay(t)
  \/ Crash
  \/ Recover

Spec == Init /\ [][Next]_vars

\* The loop never stops, a lock wait ends, a restart comes, and time passes: the
\* loop sleeps between passes, so a clock that runs is seen to run there.
Fairness ==
  /\ WF_vars(Scheduler)
  /\ \A m \in Msg : SF_vars(Accept(m)) /\ SF_vars(Elapse(m))
  /\ \A t \in Tenants : SF_vars(NewDay(t))
  /\ WF_vars(Recover)

FairSpec == Spec /\ Fairness

-----------------------------------------------------------------------------
(* Properties.                                                             *)

Ramps == [Tenants -> [seen : BOOLEAN, day : Nat, used : Nat]]
Stats == [Tenants -> [delivered : Nat, bounced : Nat]]

TypeOK ==
  /\ client \in [Msg -> {"new", "added", "acked", "refused", "gone"}]
  /\ files \in SUBSET Msg /\ sWait \in SUBSET Msg /\ wait \in SUBSET Msg
  /\ sAttempts \in [Msg -> Nat] /\ attempts \in [Msg -> Nat]
  /\ queue \in Seq(Msg) /\ todo \in Seq(Msg) /\ bounces \in Seq(Msg)
  /\ pc \in {"idle", "tick", "sent", "report", "down"}
  /\ result \in {"Delivered", "TempFail", "PermFail"}
  /\ perDomain \in [Domains -> Nat]
  /\ gates \in [warm : Ramps, rep : Stats] /\ saved \in [warm : Ramps, rep : Stats]
  /\ delivered \in SUBSET Msg /\ reported \in SUBSET Msg /\ dropped \in SUBSET Msg
  /\ tries \in [Msg -> Nat]
  /\ faults \in Nat

Answered(m) == m \in delivered \cup reported

\* Mail the submitter was given a 250 for is on disk until it was delivered, its
\* bounce was reported, or the bounce is waiting in memory for its callback.
\* The only acknowledged mail that goes missing is what `dropped' records.
AckedIsKept ==
  \A m \in Msg : client[m] = "acked" =>
    m \in files \/ Answered(m) \/ m \in Elements(bounces) \/ m \in dropped

\* Whatever the scheduler would try again is on disk and no further along there
\* than in memory; so dying at any point, inside a pass too, only repeats work.  In
\* the queue each message stands once, whatever Enqueue, Recover and the rebuilding
\* of the queue by Tick do; else one pass would send it twice.
WorkIsOnDisk ==
  /\ Work \subseteq files
  /\ pc # "down" => \A m \in Work : sAttempts[m] <= attempts[m] /\ attempts[m] < MaxAttempts
  /\ LET all == queue \o todo IN \A i, j \in 1 .. Len(all) : all[i] = all[j] => i = j

\* The queue's directory is the truth about accepted mail: none of it is only in
\* memory, and memory never runs ahead of it.
MailIsOnDisk == AckedIsKept /\ WorkIsOnDisk

\* A message whose file was deleted is finished: no update of its retry state,
\* crash or restart brings it back.
NoRevival ==
  [][\A m \in Msg : m \in files' \ files => client[m] = "new"]_vars

\* The attempt count climbs to the bounce across restarts: a message is sent at
\* most MaxAttempts times and once more for every crash and every refused write.
RetriesBounded == \A m \in Msg : tries[m] <= MaxAttempts + faults

\* The ramp is honoured and a restart never falls behind the state file: no day's
\* counter passes its cap, no ramp starts over, nothing saved as sent is forgotten.
RampHonoured ==
  Schedule # <<>> /\ pc # "down" => \A t \in Tenants :
    LET now == gates.warm[t]
        old == saved.warm[t]
    IN  /\ now.used <= capFor(now.day)
        /\ old.seen => now.seen /\ now.day >= old.day
        /\ old.seen /\ now.day = old.day => now.used >= old.used

\* A tenant that was throttled when the state was last saved is throttled in every
\* later process: nothing is sent for it, so nothing ever lifts the gate.
ThrottleSurvives ==
  pc # "down" => \A t \in Tenants : Throttled(saved.rep[t]) => Throttled(gates.rep[t])

\* What the sending gates had learnt when it was saved holds in every later process.
GatesSurvive == RampHonoured /\ ThrottleSurvives

\* Every acknowledged message is delivered, or its bounce reported, in the end,
\* unless a crash wiped out the bounce, or its tenant's reputation gate closes for
\* good: Tick then holds the message in every pass, without an attempt or a bounce.
EventuallyAnswered ==
  \A m \in Msg :
    client[m] = "acked" ~> Answered(m) \/ m \in dropped \/ []Throttled(gates.rep[Tenant[m]])

\* A submission whose message is on disk gets its answer: Enqueue does not wait
\* for ever behind the passes that hold the scheduler's lock.
EnqueueReturns == \A m \in Msg : client[m] = "added" ~> client[m] # "added"

\* Submitters hear from the queue, and senders of what became of their mail as long as
\* their tenant may send.
NobodyWaitsForever == EventuallyAnswered /\ EnqueueReturns
=============================================================================
