------------------------------ MODULE Migrations ------------------------------
(***************************************************************************)
(* Bringing the database up to date when a container starts                *)
(* (database_functions/migrations.py).  A setup reads which migrations are *)
(* recorded; when none is, it looks at the tables for those that were      *)
(* there before anything was recorded, and records them.  It then runs the *)
(* missing ones in order, each committed and only then recorded.  A        *)
(* container may be killed anywhere, and its next start sets up again.     *)
(*                                                                         *)
(* Four of the migrations stand for all: 001 (the core tables), 004 (the   *)
(* first users), 008 (the tables of the gPodder client) and 100 (those of  *)
(* the gPodder server).  What one of them brings is a pair <<version, n>>. *)
(***************************************************************************)
EXTENDS Integers, FiniteSets

CONSTANTS
  Setups,        \* the containers that share the database
  DatabaseKinds, \* "postgresql", "mysql"
  TroubleKinds   \* the sets of faults to consider

SetupTroubles == {
  "users",    \* a container is killed, or fails, while it creates the first users
  "sql",      \* a statement fails
  "rivals" }  \* several setups run at once, as replicas do

ASSUME SetupAssumption ==
  /\ DatabaseKinds \subseteq {"postgresql", "mysql"}
  /\ \A set \in TroubleKinds : set \subseteq SetupTroubles

Versions == {1, 4, 8, 100}

Requires(v) == IF v \in {4, 8} THEN {1} ELSE {}
Size(v) == IF v = 8 THEN 1 ELSE 2
Parts(v) == {v} \X (1..Size(v))
AllParts == UNION {Parts(v) : v \in Versions}

VARIABLES
  database, upset,  \* which kind of database; what may go wrong
  schema,    \* what has been committed
  recorded,  \* schema_migrations
  given,     \* whether the table of users has given out the id 1, which no rollback takes back
  firstUser, \* whether the user of the background tasks has the id 1
  at,        \* where each setup is
  applied,   \* its list applied_migrations
  found,     \* what it has detected and not recorded yet
  current,   \* the migration it runs; 0 for none
  line,      \* the next statement
  work       \* what its transaction has done

setupVars == <<database, upset, schema, recorded, given, firstUser, at, applied, found, current, line, work>>
others == <<database, upset>>

Places == {"off", "read", "detect", "detectGpodder", "note", "choose", "run", "commit", "record", "succeeded", "failed"}

SetupTypeOK ==
  /\ database \in DatabaseKinds /\ upset \in TroubleKinds
  /\ schema \subseteq AllParts /\ recorded \subseteq Versions
  /\ given \in BOOLEAN /\ firstUser \in BOOLEAN
  /\ at \in [Setups -> Places]
  /\ applied \in [Setups -> SUBSET Versions] /\ found \in [Setups -> SUBSET Versions]
  /\ current \in [Setups -> Versions \cup {0}] /\ line \in [Setups -> 1..3]
  /\ work \in [Setups -> SUBSET AllParts]

\* An empty database, or that of an earlier release.
SetupInit ==
  /\ database \in DatabaseKinds /\ upset \in TroubleKinds
  /\ \E newest \in Versions \cup {0} : recorded = {v \in Versions : v <= newest}
  /\ schema = UNION {Parts(v) : v \in recorded}
  /\ given = (4 \in recorded) /\ firstUser = given
  /\ at = [s \in Setups |-> "off"]
  /\ applied = [s \in Setups |-> {}] /\ found = [s \in Setups |-> {}]
  /\ current = [s \in Setups |-> 0] /\ line = [s \in Setups |-> 1]
  /\ work = [s \in Setups |-> {}]

Stopped == {"off", "succeeded", "failed"}

\* A setup ends; what its transaction had done is undone.
EndSetup(s, place) ==
  /\ at' = [at EXCEPT ![s] = place]
  /\ applied' = [applied EXCEPT ![s] = {}] /\ found' = [found EXCEPT ![s] = {}]
  /\ current' = [current EXCEPT ![s] = 0] /\ line' = [line EXCEPT ![s] = 1]
  /\ work' = [work EXCEPT ![s] = {}]

-----------------------------------------------------------------------------
(* What is there already                                                   *)

StartSetup(s) ==
  /\ at[s] \in Stopped
  /\ "rivals" \in upset \/ \A t \in Setups : at[t] \in Stopped
  /\ at' = [at EXCEPT ![s] = "read"]
  /\ UNCHANGED <<others, schema, recorded, given, firstUser, applied, found, current, line, work>>

ReadApplied(s) ==
  /\ at[s] = "read"
  /\ applied' = [applied EXCEPT ![s] = recorded]
  /\ at' = [at EXCEPT ![s] = IF recorded = {} THEN "detect" ELSE "choose"]
  /\ UNCHANGED <<others, schema, recorded, given, firstUser, found, current, line, work>>

\* Mutant: the names are compared without their quotes.
LooksAppliedBoth(v) ==
  CASE v = 1 -> <<1, 1>> \in schema
    [] v = 4 -> {<<1, 1>>, <<4, 1>>} \subseteq schema
    [] OTHER -> FALSE

\* 001 is told by the tables it creates first.  With MySQL the names are compared
\* with their quotes, and no table has such a name.
LooksApplied(v) ==
  CASE v = 1 -> database = "postgresql" /\ <<1, 1>> \in schema
    [] v = 4 -> database = "postgresql" /\ {<<1, 1>>, <<4, 1>>} \subseteq schema
    [] OTHER -> FALSE

Detect(s) ==
  /\ at[s] = "detect"
  /\ found' = [found EXCEPT ![s] = {v \in Versions : LooksApplied(v)}]
  /\ at' = [at EXCEPT ![s] = "detectGpodder"]
  /\ UNCHANGED <<others, schema, recorded, given, firstUser, applied, current, line, work>>

\* One of the gPodder tables stands for all migrations of the gPodder server, among
\* them GpodderSyncState, which 008 creates.
DetectGpodder(s) ==
  /\ at[s] = "detectGpodder"
  /\ found' = [found EXCEPT ![s] = @ \cup {v \in {100} : schema \cap (Parts(8) \cup Parts(100)) # {}}]
  /\ at' = [at EXCEPT ![s] = IF found'[s] = {} THEN "choose" ELSE "note"]
  /\ UNCHANGED <<others, schema, recorded, given, firstUser, applied, current, line, work>>

\* Each is recorded in a transaction of its own; then the list is read again.
NoteFound(s) ==
  /\ at[s] = "note"
  /\ IF found[s] = {}
     THEN /\ applied' = [applied EXCEPT ![s] = recorded]
          /\ at' = [at EXCEPT ![s] = "choose"]
          /\ UNCHANGED <<recorded, found>>
     ELSE /\ \E v \in found[s] :
               /\ \A w \in found[s] : v <= w
               /\ recorded' = recorded \cup {v}
               /\ found' = [found EXCEPT ![s] = @ \ {v}]
          /\ UNCHANGED <<applied, at>>
  /\ UNCHANGED <<others, schema, given, firstUser, current, line, work>>

-----------------------------------------------------------------------------
(* What is missing                                                         *)

Pending(s) == Versions \ applied[s]

NothingPending(s) ==
  /\ at[s] = "choose"
  /\ Pending(s) = {}
  /\ EndSetup(s, "succeeded")
  /\ UNCHANGED <<others, schema, recorded, given, firstUser>>

ChooseNext(s) ==
  /\ at[s] = "choose"
  /\ \E v \in Pending(s) :
       /\ \A w \in Pending(s) : v <= w
       /\ IF Requires(v) \subseteq applied[s]
          THEN /\ current' = [current EXCEPT ![s] = v] /\ at' = [at EXCEPT ![s] = "run"]
               /\ UNCHANGED <<applied, found, line, work>>
          ELSE EndSetup(s, "failed")
  /\ UNCHANGED <<others, schema, recorded, given, firstUser>>

Part(s) == <<current[s], line[s]>>

\* MySQL commits a statement that changes the schema at once.
Transactional(v) == database = "postgresql" \/ v = 4

\* The settings of the first user name its id, 1.
Refers(s) == Part(s) = <<4, 2>>

Statement(s) ==
  /\ at[s] = "run"
  /\ \A t \in Setups \ {s} : Part(s) \notin work[t]
  /\ Refers(s) => firstUser
  /\ IF Transactional(current[s])
     THEN work' = [work EXCEPT ![s] = @ \cup {Part(s)}] /\ UNCHANGED schema
     ELSE schema' = schema \cup {Part(s)} /\ UNCHANGED work
  /\ IF Part(s) = <<4, 1>>
     THEN given' = TRUE /\ firstUser' = (IF <<4, 1>> \in schema THEN firstUser ELSE ~given)
     ELSE UNCHANGED <<given, firstUser>>
  /\ line' = [line EXCEPT ![s] = @ + 1]
  /\ at' = [at EXCEPT ![s] = IF line[s] = Size(current[s]) THEN "commit" ELSE "run"]
  /\ UNCHANGED <<others, recorded, applied, found, current>>

\* The setup returns False; the container goes on without it.
StatementFails(s) ==
  /\ at[s] = "run"
  /\ \/ "sql" \in upset
     \/ Refers(s) /\ ~firstUser
     \/ \E t \in Setups \ {s} : Part(s) \in work[t]
  /\ EndSetup(s, "failed")
  /\ UNCHANGED <<others, schema, recorded, given, firstUser>>

\* safe_execute_sql hides the error; with PostgreSQL what the transaction did is lost.
StatementSkipped(s) ==
  /\ at[s] = "run"
  /\ "sql" \in upset /\ current[s] = 100
  /\ work' = [work EXCEPT ![s] = {}]
  /\ line' = [line EXCEPT ![s] = @ + 1]
  /\ at' = [at EXCEPT ![s] = IF line[s] = Size(current[s]) THEN "commit" ELSE "run"]
  /\ UNCHANGED <<others, schema, recorded, given, firstUser, applied, found, current>>

CommitMigration(s) ==
  /\ at[s] = "commit"
  /\ schema' = schema \cup work[s]
  /\ work' = [work EXCEPT ![s] = {}]
  /\ at' = [at EXCEPT ![s] = "record"]
  /\ UNCHANGED <<others, recorded, given, firstUser, applied, found, current, line>>

RecordMigration(s) ==
  /\ at[s] = "record"
  /\ recorded' = recorded \cup {current[s]}
  /\ applied' = [applied EXCEPT ![s] = @ \cup {current[s]}]
  /\ at' = [at EXCEPT ![s] = "choose"]
  /\ current' = [current EXCEPT ![s] = 0] /\ line' = [line EXCEPT ![s] = 1]
  /\ UNCHANGED <<others, schema, given, firstUser, found, work>>

\* The ids that the transaction took are not given back.
KillSetup(s) ==
  /\ at[s] \notin Stopped
  /\ "users" \in upset \/ ~(current[s] = 4 /\ at[s] \in {"run", "commit"})
  /\ EndSetup(s, "off")
  /\ UNCHANGED <<others, schema, recorded, given, firstUser>>

SetupNext ==
  \E s \in Setups :
    \/ StartSetup(s) \/ ReadApplied(s) \/ Detect(s) \/ DetectGpodder(s) \/ NoteFound(s)
    \/ NothingPending(s) \/ ChooseNext(s) \/ Statement(s) \/ StatementFails(s)
    \/ StatementSkipped(s) \/ CommitMigration(s) \/ RecordMigration(s) \/ KillSetup(s)

SetupSpec == SetupInit /\ [][SetupNext]_setupVars

-----------------------------------------------------------------------------
(* Properties                                                              *)

\* "tracks applied migrations and ensures database schema changes are applied safely"
\* (migrations.py:4): wherever containers are killed, a migration is recorded only when
\* all it brings is there; no setup fails, so that each start can end what another
\* began; and one that succeeded has left nothing out.
Migrated ==
  upset = {} =>
    /\ \A v \in recorded : Parts(v) \subseteq schema
    /\ \A s \in Setups : at[s] # "failed"
    /\ \A s \in Setups : at[s] = "succeeded" => recorded = Versions
=============================================================================
