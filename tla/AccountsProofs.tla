--------------------------- MODULE AccountsProofs ---------------------------
(***************************************************************************)
(* Proofs about Accounts, for every set of containers, people and          *)
(* addresses, every number of attempts and outages, and every revision to  *)
(* start from: its inductive invariant AccountsInv.                        *)
(***************************************************************************)
EXTENDS Accounts, TLAPS

SvcState == [pc : {"upgrade", "migrate", "updated", "altering", "locked", "serving", "exited"},
             failures : 0..MaxAttempts, seen : 0..Head]

RunState == [pc : {"idle", "insert", "commit", "created", "refused", "error"},
             email : Emails \cup {NoEmail}, role : {"user", "admin"}]

UserRow == [email : Emails \cup {NoEmail}, role : {"user", "admin"}]

\* The pieces of the invariant that the proofs below cite most.
LEMMA Types ==
  ASSUME AccountsInv
  PROVE  /\ NoEmail \notin Emails /\ MaxAttempts \in Nat \ {0}
         /\ schema \in 0..4 /\ Start \in 0..4
         /\ WithUsers = 2 /\ WithOwners = 3 /\ Head = 4
         /\ users \in [People -> UserRow]
         /\ svc \in [Services -> SvcState] /\ run \in [People -> RunState]
         /\ \A p \in People : Inserting(p)
         /\ \A s \in Services : Upgrading(s)
  BY AccountsAssumption DEF AccountsAssumption, AccountsInv, TypeOK, Head, WithUsers,
     WithOwners, SvcState, RunState, UserRow

-----------------------------------------------------------------------------
(* Migrations *)

(***************************************************************************)
(* A step of container s, which leaves the others and all people alone,    *)
(* keeps the invariant if it keeps that of s, takes the schema's locks     *)
(* only when they are free, and changes the schema only under them.        *)
(***************************************************************************)
LEMMA BootStep ==
  ASSUME AccountsInv, NEW s \in Services, svc' \in [Services -> SvcState],
         \A o \in Services \ {s} : svc'[o] = svc[o],
         UNCHANGED <<users, run>>, schema' \in 0..4, outages' \in 0..MaxOutages,
         SchemaIsOwned',
         svc'[s].pc \notin {"serving", "exited"} => svc'[s].failures < MaxAttempts,
         svc'[s].pc = "locked" => svc'[s].seen = schema',
         \A o \in Services \ {s} : Apart(s, o)' /\ Apart(o, s)',
         schema' = schema \/ svc[s].pc = "locked"
  PROVE  AccountsInv'
<1> USE Types
<1>1. TypeOK'
  BY DEF AccountsInv, TypeOK, SvcState
<1>2. Upgrading(s)'
  BY DEF Upgrading
<1>3. ASSUME NEW o \in Services \ {s} PROVE Upgrading(o)'
  <2>1. Upgrading(o) /\ Upgrading(s) /\ Apart(s, o)
    BY DEF Upgrading
  <2>2. svc'[o].pc = "locked" => svc'[o].seen = schema'
    BY <2>1 DEF Upgrading, Apart
  <2>3. ASSUME NEW q \in Services \ {o} PROVE Apart(o, q)'
    <3>1. CASE q = s
      BY <3>1
    <3>2. CASE q # s
      BY <2>1, <3>2 DEF Upgrading, Apart
    <3> QED  BY <3>1, <3>2
  <2> QED  BY <2>1, <2>2, <2>3 DEF Upgrading
<1>4. OneAccountPerEmail' /\ \A p \in People : Inserting(p)'
  BY DEF AccountsInv, OneAccountPerEmail, Inserting, Taken
<1> QED  BY <1>1, <1>2, <1>3, <1>4 DEF AccountsInv

\* The upgrade goes to its next point under the locks that it needs there.
LEMMA ReachStep ==
  ASSUME AccountsInv, NEW s \in Services,
         NEW point \in {"migrate", "updated", "altering", "locked"}, Reach(s, point),
         svc[s].pc \in {"upgrade", "migrate", "updated", "altering", "locked"},
         point = "locked" => svc[s].seen = schema,
         \A o \in Services \ {s} :
            /\ point \in {"altering", "locked"} => svc[o].pc \notin {"altering", "locked"}
            /\ point = "locked" => svc[o].pc # "updated"
            /\ point = "updated" => svc[o].pc # "locked",
         UNCHANGED outages
  PROVE  AccountsInv'
<1> USE Types
<1>1. /\ svc' \in [Services -> SvcState]
      /\ \A o \in Services \ {s} : svc'[o] = svc[o]
      /\ svc'[s].pc = point /\ svc'[s].seen = svc[s].seen
      /\ svc'[s].failures = svc[s].failures
      /\ UNCHANGED <<schema, users, run>>
  BY DEF Reach, SvcState
<1>2. svc[s].failures < MaxAttempts
  BY DEF Upgrading
<1>3. \A o \in Services \ {s} : Apart(s, o)' /\ Apart(o, s)'
  BY <1>1 DEF Apart
<1>4. SchemaIsOwned' /\ outages' \in 0..MaxOutages
  BY <1>1 DEF AccountsInv, TypeOK, SchemaIsOwned, AdminExists
<1> QED  BY <1>1, <1>2, <1>3, <1>4, BootStep

LEMMA FailStep ==
  ASSUME AccountsInv, NEW s \in Services, UpgradeFails(s), outages' \in 0..MaxOutages,
         svc[s].pc \in {"upgrade", "migrate", "updated", "altering", "locked"}
  PROVE  AccountsInv'
<1> USE Types
<1> DEFINE n == svc[s].failures + 1
           state == Attempt(IF n < MaxAttempts THEN "upgrade" ELSE "exited", n)
<1>1. svc[s].failures \in 0..MaxAttempts /\ svc[s].failures < MaxAttempts
  BY DEF Upgrading, SvcState
<1>2. n \in 0..MaxAttempts
  BY <1>1
<1>3. state \in SvcState /\ state.failures = n
      /\ state.pc = IF n < MaxAttempts THEN "upgrade" ELSE "exited"
  BY <1>2, 0 \in 0..Head DEF Attempt, SvcState, Head
<1>4. svc' = [svc EXCEPT ![s] = state] /\ schema' = schema /\ UNCHANGED <<users, run>>
  BY DEF UpgradeFails
<1> HIDE DEF state
<1>5. /\ svc' \in [Services -> SvcState] /\ svc'[s] = state
      /\ \A o \in Services \ {s} : svc'[o] = svc[o]
  BY <1>3, <1>4
<1>6. SchemaIsOwned'
  BY <1>3, <1>4, <1>5 DEF AccountsInv, SchemaIsOwned, AdminExists
<1>7. \A o \in Services \ {s} : Apart(s, o)' /\ Apart(o, s)'
  BY <1>3, <1>5 DEF Apart
<1> QED  BY <1>3, <1>4, <1>5, <1>6, <1>7, BootStep

\* A container that is done with its upgrade has no lock and the whole schema.
LEMMA ServeStep ==
  ASSUME AccountsInv, NEW s \in Services, svc' = [svc EXCEPT ![s] = Serving],
         UNCHANGED <<users, run, outages>>, schema' = Head,
         schema = Head \/ (svc[s].pc = "locked" /\ ~NeedsAdmin(s))
  PROVE  AccountsInv'
<1> USE Types
<1>1. Serving \in SvcState /\ Serving.pc = "serving"
  BY 0 \in 0..Head /\ 0 \in 0..MaxAttempts DEF Serving, Attempt, SvcState, Head
<1>2. /\ svc' \in [Services -> SvcState] /\ svc'[s].pc = "serving"
      /\ \A o \in Services \ {s} : svc'[o] = svc[o]
  BY <1>1
<1>3. \A o \in Services \ {s} : Apart(s, o)' /\ Apart(o, s)'
  BY <1>2 DEF Apart
<1>4. Start < WithOwners => AdminExists
  <2>1. CASE schema = Head
    BY <2>1 DEF AccountsInv, SchemaIsOwned
  <2>2. CASE svc[s].pc = "locked" /\ ~NeedsAdmin(s)
    <3>1. svc[s].seen = schema
      BY <2>2 DEF Upgrading
    <3> QED  BY <2>2, <3>1 DEF NeedsAdmin, AccountsInv, SchemaIsOwned
  <2> QED  BY <2>1, <2>2
<1>5. SchemaIsOwned'
  BY <1>2, <1>4 DEF SchemaIsOwned, AdminExists
<1>6. schema' = schema \/ svc[s].pc = "locked"
  OBVIOUS
<1> QED  BY <1>2, <1>3, <1>5, <1>6, BootStep DEF AccountsInv, TypeOK

LEMMA ReadStep ==
  ASSUME AccountsInv, NEW s \in Services, ReadRevision(s)
  PROVE  AccountsInv'
<1> USE Types
<1>1. svc[s].pc = "upgrade" /\ UNCHANGED <<schema, users, run, outages>>
  BY DEF ReadRevision
<1>2. CASE schema = Head
  BY <1>1, <1>2, ServeStep DEF ReadRevision
<1>3. CASE schema # Head
  <2>1. /\ svc' \in [Services -> SvcState]
        /\ \A o \in Services \ {s} : svc'[o] = svc[o]
        /\ svc'[s].pc = "migrate" /\ svc'[s].failures = svc[s].failures
    BY <1>3 DEF ReadRevision, SvcState
  <2>2. svc[s].failures < MaxAttempts
    BY <1>1 DEF Upgrading
  <2>3. \A o \in Services \ {s} : Apart(s, o)' /\ Apart(o, s)'
    BY <2>1 DEF Apart
  <2>4. SchemaIsOwned'
    BY <1>1, <2>1 DEF AccountsInv, SchemaIsOwned, AdminExists
  <2> QED  BY <1>1, <2>1, <2>2, <2>3, <2>4, BootStep DEF AccountsInv, TypeOK
<1> QED  BY <1>2, <1>3

\* The UPDATE joins the holders of ROW EXCLUSIVE, unless one asked for more.
LEMMA UpdateStep ==
  ASSUME AccountsInv, NEW s \in Services, UpdateWatchlists(s)
  PROVE  AccountsInv'
<1>1. svc[s].pc = "migrate" /\ outages' = outages /\ outages \in 0..MaxOutages
  BY DEF UpdateWatchlists, AccountsInv, TypeOK
<1>2. CASE UpgradeFails(s)
  BY <1>1, <1>2, FailStep
<1>3. CASE OthersAt(s, {"altering", "locked"}) = {} /\ Reach(s, "updated")
  BY <1>1, <1>3, ReachStep DEF OthersAt
<1> QED  BY <1>2, <1>3 DEF UpdateWatchlists

\* The ALTER asks for the table alone, or is the victim of the deadlock.
LEMMA AlterStep ==
  ASSUME AccountsInv, NEW s \in Services, AlterWatchlists(s)
  PROVE  AccountsInv'
<1>1. svc[s].pc = "updated" /\ outages' = outages /\ outages \in 0..MaxOutages
  BY DEF AlterWatchlists, AccountsInv, TypeOK
<1>2. CASE UpgradeFails(s)
  BY <1>1, <1>2, FailStep
<1>3. CASE OthersAt(s, {"altering"}) = {} /\ Reach(s, "altering")
  <2>1. ASSUME NEW o \in Services \ {s} PROVE svc[o].pc \notin {"altering", "locked"}
    BY <1>1, <1>3, Types DEF OthersAt, Upgrading, Apart
  <2> QED  BY <1>1, <1>3, <2>1, ReachStep
<1> QED  BY <1>2, <1>3 DEF AlterWatchlists

LEMMA LockStep ==
  ASSUME AccountsInv, NEW s \in Services, LockSchema(s)
  PROVE  AccountsInv'
<1>1. /\ svc[s].pc \in {"migrate", "altering"}
      /\ outages' = outages /\ outages \in 0..MaxOutages
  BY DEF LockSchema, AccountsInv, TypeOK
<1>2. CASE UpgradeFails(s)
  BY <1>1, <1>2, FailStep
<1>3. CASE schema = svc[s].seen /\ Reach(s, "locked")
  <2>1. \A o \in Services \ {s} : svc[o].pc \notin {"updated", "altering", "locked"}
    BY DEF LockSchema, OthersAt
  <2> QED  BY <1>1, <1>3, <2>1, ReachStep
<1> QED  BY <1>2, <1>3 DEF LockSchema

LEMMA FinishStep ==
  ASSUME AccountsInv, NEW s \in Services, FinishUpgrade(s)
  PROVE  AccountsInv'
<1>1. svc[s].pc = "locked" /\ outages' = outages /\ outages \in 0..MaxOutages
  BY DEF FinishUpgrade, AccountsInv, TypeOK
<1>2. CASE UpgradeFails(s)
  BY <1>1, <1>2, FailStep
<1>3. CASE ~NeedsAdmin(s) /\ schema' = Head /\ svc' = [svc EXCEPT ![s] = Serving]
           /\ UNCHANGED <<users, run>>
  BY <1>1, <1>3, ServeStep
<1> QED  BY <1>2, <1>3 DEF FinishUpgrade

LEMMA OutageStep ==
  ASSUME AccountsInv, NEW s \in Services, Outage(s)
  PROVE  AccountsInv'
<1>1. outages' \in 0..MaxOutages
  BY AccountsAssumption DEF Outage, AccountsInv, TypeOK, AccountsAssumption
<1> QED  BY <1>1, FailStep DEF Outage

\* The operator's migration comes before any container has begun.
LEMMA MigrateStep ==
  ASSUME AccountsInv, MigrateUsers
  PROVE  AccountsInv'
<1> USE Types
<1>1. schema' = 2 /\ svc' = svc /\ UNCHANGED <<users, run, outages>>
  BY DEF MigrateUsers
<1>2. \A s \in Services : svc[s].pc = "upgrade"
  BY DEF MigrateUsers, Booting, Attempt
<1>3. TypeOK' /\ SchemaIsOwned'
  BY <1>1, <1>2 DEF AccountsInv, TypeOK, SchemaIsOwned
<1>4. \A s \in Services : Upgrading(s)'
  BY <1>1, <1>2 DEF Upgrading, Apart
<1>5. OneAccountPerEmail' /\ \A p \in People : Inserting(p)'
  BY <1>1 DEF AccountsInv, OneAccountPerEmail, Inserting, Taken
<1> QED  BY <1>3, <1>4, <1>5 DEF AccountsInv

-----------------------------------------------------------------------------
(* Accounts *)

(***************************************************************************)
(* A step of person p before the commit keeps the invariant if it keeps    *)
(* that of p, and leaves the addresses that others are committing alone.   *)
(***************************************************************************)
LEMMA PersonStep ==
  ASSUME AccountsInv, NEW p \in People, run' \in [People -> RunState],
         \A q \in People \ {p} : run'[q] = run[q],
         UNCHANGED <<schema, users, svc, outages>>, Inserting(p)'
  PROVE  AccountsInv'
<1> USE Types
<1>1. TypeOK'
  BY DEF AccountsInv, TypeOK, RunState
<1>2. OneAccountPerEmail' /\ SchemaIsOwned' /\ \A s \in Services : Upgrading(s)'
  BY DEF AccountsInv, OneAccountPerEmail, SchemaIsOwned, AdminExists, Upgrading, Apart
<1>3. ASSUME NEW q \in People \ {p} PROVE Inserting(q)'
  BY DEF Inserting, Taken
<1> QED  BY <1>1, <1>2, <1>3 DEF AccountsInv

\* register and seed_admin look for the address.
LEMMA AskStep ==
  ASSUME AccountsInv, NEW p \in People, NEW e \in Emails,
         \/ Register(p, e) \/ \E force \in BOOLEAN : Seed(p, e, force)
  PROVE  AccountsInv'
<1> USE Types
<1>1. PICK point \in {"insert", "refused"}, role \in {"user", "admin"} :
         Ask(p, point, e, role)
  BY DEF Register, Seed
<1>2. run[p].pc = "idle" /\ users[p] = NoUser
  BY DEF Register, Seed, Inserting
<1> DEFINE state == [pc |-> point, email |-> e, role |-> role]
<1>3. state \in RunState /\ state.pc = point /\ state.email = e
  BY DEF RunState
<1>4. run' = [run EXCEPT ![p] = state] /\ UNCHANGED <<schema, users, svc, outages>>
  BY <1>1 DEF Ask
<1> HIDE DEF state
<1>5. /\ run' \in [People -> RunState] /\ run'[p] = state
      /\ \A q \in People \ {p} : run'[q] = run[q]
  BY <1>3, <1>4
<1>6. Inserting(p)'
  BY <1>2, <1>3, <1>4, <1>5 DEF Inserting
<1> QED  BY <1>4, <1>5, <1>6, PersonStep

LEMMA InsertStep ==
  ASSUME AccountsInv, NEW p \in People, Insert(p) \/ Abort(p)
  PROVE  AccountsInv'
<1> USE Types
<1>1. run[p].pc \in {"insert", "commit"} /\ users[p] = NoUser /\ run[p].email \in Emails
  BY DEF Insert, Abort, Inserting
<1>2. PICK point \in {"idle", "error", "commit"} :
         /\ Go(p, point)
         /\ point = "commit" => Insert(p) /\ ~Taken(run[p].email)
  BY DEF Insert, Abort
<1>3. /\ run' \in [People -> RunState] /\ run'[p].pc = point /\ run'[p].email = run[p].email
      /\ \A q \in People \ {p} : run'[q] = run[q]
      /\ UNCHANGED <<schema, users, svc, outages>>
  BY <1>2 DEF Go, RunState
<1>4. point = "commit" =>
         /\ ~Taken(run[p].email)
         /\ \A q \in People \ {p} : run[q].pc = "commit" => run[q].email # run[p].email
  BY <1>2 DEF Insert
<1>5. Inserting(p)'
  BY <1>1, <1>3, <1>4 DEF Inserting, Taken
<1> QED  BY <1>3, <1>5, PersonStep

LEMMA CommitStep ==
  ASSUME AccountsInv, NEW p \in People, Commit(p)
  PROVE  AccountsInv'
<1> USE Types
<1> DEFINE row == [email |-> run[p].email, role |-> run[p].role]
<1>1. /\ run[p].pc = "commit" /\ users[p] = NoUser /\ run[p].email \in Emails
      /\ ~Taken(run[p].email)
      /\ \A q \in People \ {p} : run[q].pc = "commit" => run[q].email # run[p].email
  BY DEF Commit, Inserting
<1>2. row \in UserRow /\ row.email = run[p].email /\ row # NoUser
  BY <1>1 DEF UserRow, NoUser, RunState
<1>3. /\ users' = [users EXCEPT ![p] = row]
      /\ run' = [run EXCEPT ![p].pc = "created"] /\ UNCHANGED <<schema, svc, outages>>
  BY DEF Commit
<1> HIDE DEF row
<1>4. /\ run' \in [People -> RunState] /\ run'[p].pc = "created"
      /\ users' \in [People -> UserRow] /\ users'[p] = row
      /\ \A q \in People \ {p} : run'[q] = run[q] /\ users'[q] = users[q]
  BY <1>2, <1>3 DEF RunState
<1>5. TypeOK'
  BY <1>3, <1>4 DEF AccountsInv, TypeOK, RunState, UserRow
<1>6. OneAccountPerEmail'
  BY <1>1, <1>2, <1>4 DEF AccountsInv, OneAccountPerEmail, Taken
<1>7. AdminExists => AdminExists'
  BY <1>1, <1>4 DEF AdminExists
<1>8. SchemaIsOwned' /\ \A s \in Services : Upgrading(s)'
  BY <1>3, <1>7 DEF AccountsInv, SchemaIsOwned, Upgrading, Apart
<1>9. Inserting(p)'
  BY <1>1, <1>2, <1>4 DEF Inserting
<1>10. ASSUME NEW q \in People \ {p} PROVE Inserting(q)'
  BY <1>1, <1>2, <1>4 DEF Inserting, Taken
<1> QED  BY <1>5, <1>6, <1>8, <1>9, <1>10 DEF AccountsInv

-----------------------------------------------------------------------------
LEMMA InitInv == Init => AccountsInv
<1> SUFFICES ASSUME Init PROVE AccountsInv
  OBVIOUS
<1>1. NoUser \in UserRow /\ NoUser.email = NoEmail /\ Waiting \in RunState
      /\ Waiting.pc = "idle"
  BY DEF NoUser, UserRow, Waiting, RunState
<1>2. Booting \in SvcState /\ Booting.pc = "upgrade" /\ Booting.failures = 0
  BY AccountsAssumption DEF AccountsAssumption, Booting, Attempt, SvcState, Head
<1>3. TypeOK
  BY <1>1, <1>2, AccountsAssumption
     DEF AccountsAssumption, Init, TypeOK, SvcState, RunState, UserRow
<1>4. \A p \in People : Inserting(p)
  BY <1>1 DEF Init, Inserting
<1>5. ASSUME NEW s \in Services PROVE Upgrading(s)
  <2>1. svc[s].pc = "upgrade" /\ svc[s].failures = 0
    BY <1>2 DEF Init
  <2>2. \A o \in Services \ {s} : Apart(s, o)
    BY <2>1 DEF Apart
  <2> QED  BY <2>1, <2>2, AccountsAssumption DEF AccountsAssumption, Upgrading
<1>6. OneAccountPerEmail /\ SchemaIsOwned
  BY <1>2, AccountsAssumption
     DEF AccountsAssumption, Init, OneAccountPerEmail, SchemaIsOwned, WithOwners, Head
<1> QED  BY <1>3, <1>4, <1>5, <1>6 DEF AccountsInv

LEMMA NextInv == AccountsInv /\ [Next]_vars => AccountsInv'
<1> SUFFICES ASSUME AccountsInv, [Next]_vars PROVE AccountsInv'
  OBVIOUS
<1>1. CASE UNCHANGED vars
  BY <1>1 DEF vars, AccountsInv, TypeOK, OneAccountPerEmail, SchemaIsOwned, AdminExists,
              Inserting, Taken, Upgrading, Apart
<1>2. ASSUME NEW s \in Services, Boot(s) \/ Outage(s) PROVE AccountsInv'
  BY <1>2, ReadStep, UpdateStep, AlterStep, LockStep, FinishStep, OutageStep DEF Boot
<1>3. CASE MigrateUsers
  BY <1>3, MigrateStep
<1>4. ASSUME NEW p \in People, NEW e \in Emails,
             Register(p, e) \/ \E force \in BOOLEAN : Seed(p, e, force)
      PROVE  AccountsInv'
  BY <1>4, AskStep
<1>5. ASSUME NEW p \in People, Insert(p) \/ Commit(p) \/ Abort(p) PROVE AccountsInv'
  BY <1>5, InsertStep, CommitStep
<1> QED  BY <1>1, <1>2, <1>3, <1>4, <1>5 DEF Next

(***************************************************************************)
(* However many containers and people race: an address has one account, a  *)
(* database from before the owners reaches them only with an admin in it,  *)
(* and whoever serves has the whole schema (docker-entrypoint.sh, alembic, *)
(* AuthService.register, seed_admin).                                      *)
(***************************************************************************)
THEOREM AccountsInvariant == Spec => []AccountsInv
  BY InitInv, NextInv, PTL DEF Spec
=============================================================================
