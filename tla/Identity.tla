----------------------------- MODULE Identity -------------------------------
(***************************************************************************)
(* The local account store (internal/seam/local): a map in memory and the  *)
(* file it is written to as a whole.  The map changes first; when the file *)
(* cannot be written the caller gets an error and the map stays changed.   *)
(***************************************************************************)
EXTENDS Naturals, FiniteSets

CONSTANTS User, Pass,
  NoPass,      \* the value of a user without an account
  ConfigUser,  \* VULOS_ACCOUNT, an account that the configuration seeds at each start
  ConfigPass   \* VULOS_PASSWORD

ASSUME PassAssumption == NoPass \notin Pass /\ ConfigPass \in Pass /\ ConfigUser \in User

VARIABLES
  users,  \* Identity.users
  disk,   \* accounts.json
  may     \* history: what people were told a password may be

idVars == <<users, disk, may>>

Start == [u \in User |-> IF u = ConfigUser THEN ConfigPass ELSE NoPass]
IdInit == users = Start /\ disk = Start /\ may = [u \in User |-> {Start[u]}]

Exists(u) == users[u] # NoPass
Authenticate(u, p) == users[u] = p

\* Mutant of Put: the answer does not wait for the file.
PutEarly(u, p, saved) ==
  /\ users' = [users EXCEPT ![u] = p]
  /\ disk' = IF saved THEN users' ELSE disk
  /\ may' = [may EXCEPT ![u] = {p}]

\* The tail of Provision and Upsert: the map, then saveLocked, a temporary file that
\* is renamed.  It writes what earlier saves failed to write too.
Put(u, p, saved) ==
  /\ users' = [users EXCEPT ![u] = p]
  /\ disk' = IF saved THEN users' ELSE disk
  /\ may' = [may EXCEPT ![u] = IF saved THEN {p} ELSE @ \cup {p}]

\* Opening the store, and the account the configuration names.
Reopen ==
  /\ disk' = [disk EXCEPT ![ConfigUser] = ConfigPass]
  /\ users' = disk'
  /\ may' = [may EXCEPT ![ConfigUser] = {ConfigPass}]

IdTypeOK ==
  /\ users \in [User -> Pass \cup {NoPass}] /\ disk \in [User -> Pass \cup {NoPass}]
  /\ may \in [User -> SUBSET (Pass \cup {NoPass})]

\* What a restart finds is what people were told: the last password that was
\* acknowledged, or one whose change failed since.
AckedSurvives == \A u \in User : disk[u] \in may[u] /\ users[u] \in may[u]
=============================================================================
