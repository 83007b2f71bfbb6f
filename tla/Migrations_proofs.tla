--------------------------- MODULE Migrations_proofs ---------------------------
(***************************************************************************)
(* Theorems about the setup of the database: types, and that a recorded    *)
(* migration has brought all it brings when nothing but kills goes wrong.  *)
(***************************************************************************)
EXTENDS Migrations, TLAPS

\* The migration a setup runs and the statement it has come to, whatever fails.
Lines(s) ==
  /\ current[s] = 0 <=> at[s] \notin {"run", "commit", "record"}
  /\ current[s] = 0 => line[s] = 1
  /\ at[s] = "run" => line[s] <= Size(current[s])
  /\ at[s] = "commit" => line[s] > 1

\* One setup at a time.
OneSetup == \A s, t \in Setups : at[s] \notin Stopped /\ at[t] \notin Stopped => s = t

\* What is recorded is there; with PostgreSQL a migration is there as a whole or not
\* at all, as are the first users with both.
Whole ==
  /\ \A v \in recorded : Parts(v) \subseteq schema
  /\ \A v \in Versions : Transactional(v) /\ Parts(v) \cap schema # {} => Parts(v) \subseteq schema

\* What needs the core tables comes after they are recorded.
AfterCore == 1 \in recorded \/ schema \cap (Parts(4) \cup Parts(8) \cup Parts(100)) = {}

\* The id 1 is free as long as the first user is neither there nor about to be.
Users ==
  \/ ~given /\ <<4, 1>> \notin schema
  \/ firstUser /\ <<4, 1>> \in schema
  \/ firstUser /\ \E s \in Setups : current[s] = 4 /\ line[s] > 1 /\ at[s] \in {"run", "commit"}

\* What a setup knows and has done, by where it is.
SetupInv(s) ==
  /\ at[s] # "failed"
  /\ at[s] = "succeeded" => recorded = Versions
  /\ at[s] \notin {"run", "commit"} => work[s] = {}
  /\ applied[s] \subseteq recorded
  /\ at[s] \in {"detect", "detectGpodder"} => recorded = {}
  /\ \A v \in found[s] : Parts(v) \subseteq schema
  /\ current[s] \notin {0, 1} => 1 \in recorded
  /\ current[s] = 4 /\ line[s] > 1 => firstUser
  /\ at[s] = "run" => \A n \in 1..Size(current[s]) : n < line[s] => <<current[s], n>> \in schema \cup work[s]
  /\ at[s] = "commit" => Parts(current[s]) \subseteq schema \cup work[s]
  /\ at[s] = "record" => Parts(current[s]) \subseteq schema
  /\ work[s] \subseteq Parts(current[s])
  /\ at[s] \in {"run", "commit"} /\ ~Transactional(current[s]) => work[s] = {}

QuietInv == OneSetup /\ Whole /\ AfterCore /\ Users /\ \A s \in Setups : SetupInv(s)

SetupIInv == SetupTypeOK /\ (\A s \in Setups : Lines(s)) /\ (upset = {} => QuietInv)

-----------------------------------------------------------------------------
(* The parts of migrations                                                 *)

LEMMA SizeFacts == ASSUME NEW v \in Versions PROVE Size(v) \in {1, 2}
  BY DEF Size

LEMMA PartFacts ==
  ASSUME NEW v \in Versions, NEW n \in 1..Size(v)
  PROVE <<v, n>> \in Parts(v) /\ <<v, n>> \in AllParts
  BY DEF Parts, AllParts

LEMMA PartsAll == ASSUME NEW v \in Versions PROVE Parts(v) \subseteq AllParts
  BY DEF AllParts

-----------------------------------------------------------------------------
(* Types                                                                   *)

LEMMA InitTypes == SetupInit => SetupTypeOK /\ \A s \in Setups : Lines(s)
  <1> SUFFICES ASSUME SetupInit PROVE SetupTypeOK /\ \A s \in Setups : Lines(s)
    OBVIOUS
  <1>1. recorded \subseteq Versions
    BY DEF SetupInit
  <1>2. schema \subseteq AllParts
    BY <1>1 DEF SetupInit, AllParts
  <1>3. given \in BOOLEAN /\ firstUser \in BOOLEAN
    BY DEF SetupInit
  <1>4. SetupTypeOK
    BY <1>1, <1>2, <1>3 DEF SetupInit, SetupTypeOK, Places
  <1>5. \A s \in Setups : Lines(s)
    BY DEF SetupInit, Lines
  <1> QED
    BY <1>4, <1>5

LEMMA EndTypes ==
  ASSUME SetupTypeOK, \A t \in Setups : Lines(t), NEW s \in Setups, NEW place \in Stopped, EndSetup(s, place),
         UNCHANGED <<others, schema, recorded, given, firstUser>>
  PROVE SetupTypeOK' /\ \A t \in Setups : Lines(t)'
  <1>1. place \in Places
    BY DEF Places, Stopped
  <1>2. SetupTypeOK'
    BY <1>1 DEF EndSetup, SetupTypeOK, others
  <1>3. \A t \in Setups : Lines(t)'
    BY DEF EndSetup, SetupTypeOK, Lines, Stopped
  <1> QED
    BY <1>2, <1>3

\* The statement a setup has come to is one of its migration.
LEMMA AtPart ==
  ASSUME SetupTypeOK, NEW s \in Setups, Lines(s), at[s] = "run"
  PROVE /\ current[s] \in Versions /\ line[s] \in 1..Size(current[s])
        /\ Part(s) \in Parts(current[s]) /\ Part(s) \in AllParts
  <1>1. current[s] \in Versions /\ line[s] \in 1..Size(current[s])
    BY SizeFacts DEF SetupTypeOK, Lines
  <1> QED
    BY <1>1, PartFacts DEF Part

LEMMA StatementTypes ==
  ASSUME SetupTypeOK, \A t \in Setups : Lines(t), NEW s \in Setups, Statement(s)
  PROVE SetupTypeOK' /\ \A t \in Setups : Lines(t)'
  <1>1. at[s] = "run" /\ Lines(s)
    BY DEF Statement
  <1>2. /\ current[s] \in Versions /\ line[s] \in 1..Size(current[s])
        /\ Part(s) \in AllParts
    BY <1>1, AtPart
  <1>3. Size(current[s]) \in {1, 2}
    BY <1>2, SizeFacts
  <1>4. line' \in [Setups -> 1..3]
    BY <1>2, <1>3 DEF Statement, SetupTypeOK
  <1>5. at' \in [Setups -> Places]
    BY DEF Statement, SetupTypeOK, Places
  <1>6. schema' \subseteq AllParts /\ work' \in [Setups -> SUBSET AllParts]
    <2>1. CASE Transactional(current[s])
      BY <2>1, <1>2 DEF Statement, SetupTypeOK
    <2>2. CASE ~Transactional(current[s])
      BY <2>2, <1>2 DEF Statement, SetupTypeOK
    <2> QED
      BY <2>1, <2>2
  <1>7. given' \in BOOLEAN /\ firstUser' \in BOOLEAN
    BY DEF Statement, SetupTypeOK
  <1>8. SetupTypeOK'
    BY <1>4, <1>5, <1>6, <1>7 DEF Statement, SetupTypeOK, others
  <1>9. \A t \in Setups : Lines(t)'
    BY <1>1, <1>2, <1>3 DEF Statement, SetupTypeOK, Lines
  <1> QED
    BY <1>8, <1>9

LEMMA SkippedTypes ==
  ASSUME SetupTypeOK, \A t \in Setups : Lines(t), NEW s \in Setups, StatementSkipped(s)
  PROVE SetupTypeOK' /\ \A t \in Setups : Lines(t)'
  <1>1. at[s] = "run" /\ Lines(s)
    BY DEF StatementSkipped
  <1>2. current[s] \in Versions /\ line[s] \in 1..Size(current[s])
    BY <1>1, AtPart
  <1>3. Size(current[s]) \in {1, 2}
    BY <1>2, SizeFacts
  <1>4. line' \in [Setups -> 1..3]
    BY <1>2, <1>3 DEF StatementSkipped, SetupTypeOK
  <1>5. at' \in [Setups -> Places]
    BY DEF StatementSkipped, SetupTypeOK, Places
  <1>6. SetupTypeOK'
    BY <1>4, <1>5 DEF StatementSkipped, SetupTypeOK, others
  <1>7. \A t \in Setups : Lines(t)'
    BY <1>1, <1>2, <1>3 DEF StatementSkipped, SetupTypeOK, Lines
  <1> QED
    BY <1>6, <1>7

LEMMA NextTypes ==
  ASSUME SetupTypeOK, \A t \in Setups : Lines(t), [SetupNext]_setupVars
  PROVE SetupTypeOK' /\ \A t \in Setups : Lines(t)'
  <1>1. ASSUME NEW s \in Setups, StartSetup(s)
        PROVE SetupTypeOK' /\ \A t \in Setups : Lines(t)'
    BY <1>1 DEF StartSetup, SetupTypeOK, Lines, others, Places, Stopped
  <1>2. ASSUME NEW s \in Setups, ReadApplied(s)
        PROVE SetupTypeOK' /\ \A t \in Setups : Lines(t)'
    BY <1>2 DEF ReadApplied, SetupTypeOK, Lines, others, Places
  <1>3. ASSUME NEW s \in Setups, Detect(s)
        PROVE SetupTypeOK' /\ \A t \in Setups : Lines(t)'
    BY <1>3 DEF Detect, SetupTypeOK, Lines, others, Places
  <1>4. ASSUME NEW s \in Setups, DetectGpodder(s)
        PROVE SetupTypeOK' /\ \A t \in Setups : Lines(t)'
    BY <1>4 DEF DetectGpodder, SetupTypeOK, Lines, others, Places, Versions
  <1>5. ASSUME NEW s \in Setups, NoteFound(s)
        PROVE SetupTypeOK' /\ \A t \in Setups : Lines(t)'
    BY <1>5 DEF NoteFound, SetupTypeOK, Lines, others, Places
  <1>6. ASSUME NEW s \in Setups, NothingPending(s)
        PROVE SetupTypeOK' /\ \A t \in Setups : Lines(t)'
    BY <1>6, EndTypes DEF NothingPending, Stopped
  <1>7. ASSUME NEW s \in Setups, ChooseNext(s)
        PROVE SetupTypeOK' /\ \A t \in Setups : Lines(t)'
    <2>1. PICK v \in Pending(s) :
            IF Requires(v) \subseteq applied[s]
            THEN /\ current' = [current EXCEPT ![s] = v] /\ at' = [at EXCEPT ![s] = "run"]
                 /\ UNCHANGED <<applied, found, line, work>>
            ELSE EndSetup(s, "failed")
      BY <1>7 DEF ChooseNext
    <2>2. v \in Versions /\ Size(v) \in {1, 2} /\ v # 0
      BY SizeFacts DEF Pending, Versions
    <2>3. CASE Requires(v) \subseteq applied[s]
      BY <1>7, <2>1, <2>2, <2>3 DEF ChooseNext, SetupTypeOK, Lines, others, Places
    <2>4. CASE ~(Requires(v) \subseteq applied[s])
      BY <1>7, <2>1, <2>4, EndTypes DEF ChooseNext, Stopped
    <2> QED
      BY <2>3, <2>4
  <1>8. ASSUME NEW s \in Setups, Statement(s)
        PROVE SetupTypeOK' /\ \A t \in Setups : Lines(t)'
    BY <1>8, StatementTypes
  <1>9. ASSUME NEW s \in Setups, StatementFails(s)
        PROVE SetupTypeOK' /\ \A t \in Setups : Lines(t)'
    BY <1>9, EndTypes DEF StatementFails, Stopped
  <1>10. ASSUME NEW s \in Setups, StatementSkipped(s)
         PROVE SetupTypeOK' /\ \A t \in Setups : Lines(t)'
    BY <1>10, SkippedTypes
  <1>11. ASSUME NEW s \in Setups, CommitMigration(s)
         PROVE SetupTypeOK' /\ \A t \in Setups : Lines(t)'
    BY <1>11 DEF CommitMigration, SetupTypeOK, Lines, others, Places
  <1>12. ASSUME NEW s \in Setups, RecordMigration(s)
         PROVE SetupTypeOK' /\ \A t \in Setups : Lines(t)'
    <2>1. current[s] \in Versions
      BY <1>12 DEF RecordMigration, SetupTypeOK, Lines
    <2> QED
      BY <1>12, <2>1 DEF RecordMigration, SetupTypeOK, Lines, others, Places
  <1>13. ASSUME NEW s \in Setups, KillSetup(s)
         PROVE SetupTypeOK' /\ \A t \in Setups : Lines(t)'
    BY <1>13, EndTypes DEF KillSetup, Stopped
  <1>14. CASE UNCHANGED setupVars
    BY <1>14 DEF setupVars, SetupTypeOK, Lines
  <1> QED
    BY <1>1, <1>2, <1>3, <1>4, <1>5, <1>6, <1>7, <1>8, <1>9, <1>10, <1>11, <1>12, <1>13, <1>14
    DEF SetupNext

-----------------------------------------------------------------------------
(* Without faults                                                          *)

LEMMA InitQuiet == SetupInit => QuietInv
  <1> SUFFICES ASSUME SetupInit PROVE QuietInv
    OBVIOUS
  <1> PICK newest \in Versions \cup {0} : recorded = {v \in Versions : v <= newest}
    BY DEF SetupInit
  <1>1. \A v \in Versions, w \in Versions : Parts(v) \cap Parts(w) # {} => v = w
    BY DEF Parts
  <1>2. \A v \in Versions : Parts(v) \subseteq schema \/ Parts(v) \cap schema = {}
    BY <1>1 DEF SetupInit
  <1>3. \A v \in Versions : v \in recorded => Parts(v) \subseteq schema
    BY DEF SetupInit
  <1>4. Whole
    BY <1>2, <1>3 DEF Whole
  <1>5. 1 \in recorded \/ recorded = {}
    BY DEF Versions
  <1>6. AfterCore
    BY <1>5 DEF AfterCore, SetupInit
  <1>7. <<4, 1>> \in Parts(4)
    BY DEF Parts, Size
  <1>8. 4 \notin recorded => <<4, 1>> \notin schema
    <2> SUFFICES ASSUME NEW v \in recorded, <<4, 1>> \in Parts(v) PROVE 4 \in recorded
      BY DEF SetupInit
    <2> QED
      BY DEF Parts
  <1>9. 4 \in recorded => <<4, 1>> \in schema
    BY <1>7, <1>3 DEF Versions
  <1>10. Users
    BY <1>8, <1>9 DEF Users, SetupInit
  <1>11. OneSetup /\ \A s \in Setups : SetupInv(s)
    BY DEF SetupInit, OneSetup, SetupInv, Stopped
  <1> QED
    BY <1>4, <1>6, <1>10, <1>11 DEF QuietInv

\* A setup that is not running is not touched by the one that is.
LEMMA OthersRest ==
  ASSUME SetupTypeOK, \A t \in Setups : Lines(t), QuietInv, NEW s \in Setups,
         at[s] \notin Stopped \/ \A t \in Setups : at[t] \in Stopped,
         \A t \in Setups \ {s} : at'[t] = at[t] /\ applied'[t] = applied[t] /\ found'[t] = found[t]
                                 /\ current'[t] = current[t] /\ line'[t] = line[t] /\ work'[t] = work[t],
         schema \subseteq schema', recorded \subseteq recorded', recorded' \subseteq Versions
  PROVE OneSetup' /\ \A t \in Setups \ {s} : SetupInv(t)'
  <1>1. \A t \in Setups \ {s} : at[t] \in Stopped
    BY DEF QuietInv, OneSetup
  <1>2. OneSetup'
    BY <1>1 DEF OneSetup, Stopped
  <1>3. ASSUME NEW t \in Setups \ {s} PROVE SetupInv(t)'
    <2>1. at[t] \in Stopped /\ SetupInv(t) /\ Lines(t)
      BY <1>1 DEF QuietInv
    <2>2. current[t] = 0 /\ work[t] = {}
      BY <2>1 DEF SetupInv, Lines, Stopped
    <2>3. at'[t] = at[t] /\ applied'[t] = applied[t] /\ found'[t] = found[t] /\ current'[t] = current[t] /\ work'[t] = work[t]
      OBVIOUS
    <2>4. at[t] = "succeeded" => recorded' = Versions
      BY <2>1 DEF SetupInv
    <2>5. \A v \in found[t] : Parts(v) \subseteq schema'
      BY <2>1 DEF SetupInv
    <2>6. applied[t] \subseteq recorded'
      BY <2>1 DEF SetupInv
    <2>7. at[t] \notin {"failed", "run", "commit", "record", "detect", "detectGpodder"}
      BY <2>1 DEF SetupInv, Stopped
    <2> QED
      BY <2>2, <2>3, <2>4, <2>5, <2>6, <2>7 DEF SetupInv
  <1> QED
    BY <1>2, <1>3

\* Where the tables stay as they are, only the setup that moves is left to look at.
LEMMA TablesRest ==
  ASSUME SetupTypeOK, \A t \in Setups : Lines(t), QuietInv, NEW s \in Setups,
         UNCHANGED <<database, schema, recorded, given, firstUser>>,
         at[s] \notin Stopped \/ \A t \in Setups : at[t] \in Stopped,
         ~(current[s] = 4 /\ at[s] \in {"run", "commit"}),
         \A t \in Setups \ {s} : at'[t] = at[t] /\ applied'[t] = applied[t] /\ found'[t] = found[t]
                                 /\ current'[t] = current[t] /\ line'[t] = line[t] /\ work'[t] = work[t],
         SetupInv(s)'
  PROVE QuietInv'
  <1>1. recorded \subseteq Versions
    BY DEF SetupTypeOK
  <1>2. OneSetup' /\ \A t \in Setups \ {s} : SetupInv(t)'
    BY <1>1, OthersRest
  <1>3. Whole' /\ AfterCore'
    BY DEF QuietInv, Whole, AfterCore, Parts, Transactional
  <1>4. Users'
    <2>1. ASSUME NEW t \in Setups, current[t] = 4, line[t] > 1, at[t] \in {"run", "commit"}
          PROVE current'[t] = 4 /\ line'[t] > 1 /\ at'[t] \in {"run", "commit"}
      BY <2>1
    <2> QED
      BY <2>1 DEF QuietInv, Users
  <1> QED
    BY <1>2, <1>3, <1>4 DEF QuietInv

LEMMA StartQuiet ==
  ASSUME SetupTypeOK, \A t \in Setups : Lines(t), upset = {}, QuietInv, NEW s \in Setups, StartSetup(s)
  PROVE QuietInv'
  <1>1. at[s] \in Stopped /\ \A t \in Setups : at[t] \in Stopped
    BY DEF StartSetup
  <1>2. SetupInv(s) /\ Lines(s)
    BY DEF QuietInv
  <1>3. SetupInv(s)'
    BY <1>1, <1>2 DEF StartSetup, SetupInv, Lines, SetupTypeOK, Stopped, Transactional, others
  <1> QED
    BY <1>1, <1>3, TablesRest DEF StartSetup, SetupTypeOK, Stopped, others

LEMMA ReadQuiet ==
  ASSUME SetupTypeOK, \A t \in Setups : Lines(t), QuietInv, NEW s \in Setups, ReadApplied(s)
  PROVE QuietInv'
  <1>1. at[s] = "read" /\ SetupInv(s) /\ Lines(s)
    BY DEF ReadApplied, QuietInv
  <1>2. SetupInv(s)'
    BY <1>1 DEF ReadApplied, SetupInv, Lines, SetupTypeOK, Transactional, others
  <1> QED
    BY <1>1, <1>2, TablesRest DEF ReadApplied, SetupTypeOK, Stopped, others

LEMMA DetectQuiet ==
  ASSUME SetupTypeOK, \A t \in Setups : Lines(t), QuietInv, NEW s \in Setups, Detect(s)
  PROVE QuietInv'
  <1>1. at[s] = "detect" /\ SetupInv(s) /\ Lines(s)
    BY DEF Detect, QuietInv
  <1>2. ASSUME NEW v \in Versions, LooksApplied(v) PROVE Parts(v) \subseteq schema
    <2>1. v \in {1, 4} /\ Transactional(v)
      BY <1>2 DEF LooksApplied, Transactional, Versions
    <2>2. <<v, 1>> \in schema /\ <<v, 1>> \in Parts(v)
      BY <1>2, <2>1 DEF LooksApplied, Parts, Size
    <2> QED
      BY <2>1, <2>2 DEF QuietInv, Whole
  <1>3. found'[s] = {v \in Versions : LooksApplied(v)}
    BY DEF Detect, SetupTypeOK
  <1>4. \A v \in found'[s] : Parts(v) \subseteq schema'
    BY <1>2, <1>3 DEF Detect
  <1>5. SetupInv(s)'
    BY <1>1, <1>4 DEF Detect, SetupInv, Lines, SetupTypeOK, Transactional, others
  <1> QED
    BY <1>1, <1>5, TablesRest DEF Detect, SetupTypeOK, Stopped, others

\* With nothing recorded none of the tables that tell of the gPodder server is there.
LEMMA DetectGpodderQuiet ==
  ASSUME SetupTypeOK, \A t \in Setups : Lines(t), QuietInv, NEW s \in Setups, DetectGpodder(s)
  PROVE QuietInv'
  <1>1. at[s] = "detectGpodder" /\ SetupInv(s) /\ Lines(s)
    BY DEF DetectGpodder, QuietInv
  <1>2. recorded = {}
    BY <1>1 DEF SetupInv
  <1>3. schema \cap (Parts(8) \cup Parts(100)) = {}
    BY <1>2 DEF QuietInv, AfterCore
  <1>4. found'[s] = found[s]
    BY <1>3 DEF DetectGpodder, SetupTypeOK
  <1>5. SetupInv(s)'
    BY <1>1, <1>4 DEF DetectGpodder, SetupInv, Lines, SetupTypeOK, Transactional, others
  <1> QED
    BY <1>1, <1>5, TablesRest DEF DetectGpodder, SetupTypeOK, Stopped, others

LEMMA NothingPendingQuiet ==
  ASSUME SetupTypeOK, \A t \in Setups : Lines(t), QuietInv, NEW s \in Setups, NothingPending(s)
  PROVE QuietInv'
  <1>1. at[s] = "choose" /\ SetupInv(s)
    BY DEF NothingPending, QuietInv
  <1>2. recorded = Versions
    BY <1>1 DEF NothingPending, Pending, SetupInv, SetupTypeOK
  <1>3. SetupInv(s)'
    BY <1>2 DEF NothingPending, EndSetup, SetupInv, SetupTypeOK, others
  <1> QED
    BY <1>1, <1>3, TablesRest DEF NothingPending, EndSetup, SetupTypeOK, Stopped, others

LEMMA KillQuiet ==
  ASSUME SetupTypeOK, \A t \in Setups : Lines(t), upset = {}, QuietInv, NEW s \in Setups, KillSetup(s)
  PROVE QuietInv'
  <1>1. at[s] \notin Stopped /\ ~(current[s] = 4 /\ at[s] \in {"run", "commit"})
    BY DEF KillSetup
  <1>2. SetupInv(s)'
    BY DEF KillSetup, EndSetup, SetupInv, SetupTypeOK, others
  <1> QED
    BY <1>1, <1>2, TablesRest DEF KillSetup, EndSetup, SetupTypeOK, others

\* The missing migrations come in order, so that what one requires is applied.
LEMMA ChooseQuiet ==
  ASSUME SetupTypeOK, \A t \in Setups : Lines(t), QuietInv, NEW s \in Setups, ChooseNext(s)
  PROVE QuietInv'
  <1>1. at[s] = "choose" /\ SetupInv(s) /\ Lines(s)
    BY DEF ChooseNext, QuietInv
  <1>2. PICK v \in Pending(s) :
          /\ \A w \in Pending(s) : v <= w
          /\ IF Requires(v) \subseteq applied[s]
             THEN /\ current' = [current EXCEPT ![s] = v] /\ at' = [at EXCEPT ![s] = "run"]
                  /\ UNCHANGED <<applied, found, line, work>>
             ELSE EndSetup(s, "failed")
    BY DEF ChooseNext
  <1>3. v \in Versions /\ (v # 1 => 1 \in applied[s])
    BY <1>2 DEF Pending, Versions
  <1>4. Requires(v) \subseteq applied[s]
    BY <1>3 DEF Requires
  <1>5. v # 1 => 1 \in recorded
    BY <1>1, <1>3 DEF SetupInv
  <1>6. /\ current' = [current EXCEPT ![s] = v] /\ at' = [at EXCEPT ![s] = "run"]
        /\ UNCHANGED <<applied, found, line, work>>
        /\ UNCHANGED <<others, schema, recorded, given, firstUser>>
    BY <1>2, <1>4 DEF ChooseNext
  <1>7. current[s] = 0 /\ line[s] = 1 /\ work[s] = {}
    BY <1>1 DEF Lines, SetupInv
  <1>8. SetupInv(s)'
    BY <1>1, <1>3, <1>5, <1>6, <1>7 DEF SetupInv, SetupTypeOK, Transactional, others
  <1> QED
    BY <1>1, <1>6, <1>8, TablesRest DEF SetupTypeOK, Stopped, others

LEMMA NoteQuiet ==
  ASSUME SetupTypeOK, \A t \in Setups : Lines(t), SetupTypeOK', QuietInv, NEW s \in Setups, NoteFound(s)
  PROVE QuietInv'
  <1>1. at[s] = "note" /\ SetupInv(s) /\ Lines(s)
    BY DEF NoteFound, QuietInv
  <1>2. CASE found[s] = {}
    <2>1. SetupInv(s)'
      BY <1>1, <1>2 DEF NoteFound, SetupInv, Lines, SetupTypeOK, Transactional, others
    <2> QED
      BY <1>1, <1>2, <2>1, TablesRest DEF NoteFound, SetupTypeOK, Stopped, others
  <1>3. CASE found[s] # {}
    <2>1. PICK v \in found[s] : recorded' = recorded \cup {v} /\ found' = [found EXCEPT ![s] = @ \ {v}]
      BY <1>3 DEF NoteFound
    <2>2. UNCHANGED <<others, schema, given, firstUser, applied, at, current, line, work>>
      BY <1>3 DEF NoteFound
    <2>3. v \in Versions /\ Parts(v) \subseteq schema
      BY <1>1, <2>1 DEF SetupInv, SetupTypeOK
    <2>4. current[s] = 0
      BY <1>1 DEF Lines
    <2>5. SetupInv(s)'
      BY <1>1, <2>1, <2>2, <2>4 DEF SetupInv, SetupTypeOK, Transactional, others
    <2>6. OneSetup' /\ \A t \in Setups \ {s} : SetupInv(t)'
      BY <1>1, <2>1, <2>2, <2>3, OthersRest DEF SetupTypeOK, Stopped
    <2>7. Whole' /\ AfterCore' /\ Users'
      BY <2>1, <2>2, <2>3 DEF QuietInv, Whole, AfterCore, Users, Parts, Transactional, others
    <2> QED
      BY <2>5, <2>6, <2>7 DEF QuietInv
  <1> QED
    BY <1>2, <1>3

\* A setup is alone, and the settings of the first user find it.
LEMMA NoneFails ==
  ASSUME SetupTypeOK, \A t \in Setups : Lines(t), upset = {}, QuietInv, NEW s \in Setups
  PROVE ~StatementFails(s) /\ ~StatementSkipped(s)
  <1>1. SetupInv(s)
    BY DEF QuietInv
  <1>2. Refers(s) => firstUser
    BY <1>1 DEF Refers, Part, SetupInv
  <1>3. ASSUME at[s] = "run", NEW t \in Setups \ {s} PROVE work[t] = {}
    <2>1. at[t] \in Stopped
      BY <1>3 DEF QuietInv, OneSetup, Stopped
    <2> QED
      BY <2>1 DEF QuietInv, SetupInv, Stopped
  <1> QED
    BY <1>2, <1>3 DEF StatementFails, StatementSkipped

\* What a statement makes of the first user and its id.
LEMMA StatementUsers ==
  ASSUME SetupTypeOK, \A t \in Setups : Lines(t), QuietInv, NEW s \in Setups, Statement(s)
  PROVE Users' /\ (current'[s] = 4 /\ line'[s] > 1 => firstUser')
  <1>1. at[s] = "run" /\ SetupInv(s) /\ Lines(s)
    BY DEF Statement, QuietInv
  <1>2. /\ current[s] \in Versions /\ line[s] \in 1..Size(current[s])
        /\ Size(current[s]) \in {1, 2}
    BY <1>1, AtPart, SizeFacts
  <1>3. \A t \in Setups \ {s} : current[t] = 0
    BY <1>1 DEF QuietInv, OneSetup, Lines, Stopped
  <1>4. line'[s] = line[s] + 1 /\ at'[s] \in {"run", "commit"} /\ current' = current
    BY DEF Statement, SetupTypeOK
  <1>5. CASE Part(s) = <<4, 1>>
    <2>1. current[s] = 4 /\ line[s] = 1
      BY <1>5 DEF Part
    <2>2. (~given /\ <<4, 1>> \notin schema) \/ (firstUser /\ <<4, 1>> \in schema)
      BY <1>3, <2>1 DEF QuietInv, Users
    <2>3. firstUser' = (IF <<4, 1>> \in schema THEN firstUser ELSE ~given)
      BY <1>5 DEF Statement
    <2>4. firstUser'
      BY <2>2, <2>3
    <2>5. current'[s] = 4 /\ line'[s] > 1
      BY <1>4, <2>1
    <2> QED
      BY <1>4, <2>4, <2>5 DEF Users
  <1>6. CASE Part(s) # <<4, 1>>
    <2>1. UNCHANGED <<given, firstUser>>
      BY <1>6 DEF Statement
    <2>2. current[s] = 4 => line[s] = 2
      BY <1>2, <1>6 DEF Part
    <2>3. current[s] = 4 => firstUser'
      BY <1>1, <2>1, <2>2 DEF SetupInv
    <2>4. CASE current[s] = 4
      <3>1. line'[s] > 1
        BY <1>2, <1>4
      <3>2. firstUser' /\ current'[s] = 4
        BY <1>4, <2>3, <2>4
      <3> QED
        BY <1>4, <3>1, <3>2 DEF Users
    <2>5. CASE current[s] # 4
      <3>1. (~given /\ <<4, 1>> \notin schema) \/ (firstUser /\ <<4, 1>> \in schema)
        BY <1>3, <2>5 DEF QuietInv, Users
      <3>2. <<4, 1>> \in schema' <=> <<4, 1>> \in schema
        BY <1>6 DEF Statement
      <3> QED
        BY <1>4, <2>1, <2>5, <3>1, <3>2 DEF Users
    <2> QED
      BY <2>4, <2>5
  <1> QED
    BY <1>5, <1>6

\* What is done of the migration, in the transaction or in the tables.
LEMMA StatementWork ==
  ASSUME SetupTypeOK, \A t \in Setups : Lines(t), QuietInv, NEW s \in Setups, Statement(s)
  PROVE /\ schema \subseteq schema' /\ schema' \cup work'[s] = schema \cup work[s] \cup {Part(s)}
        /\ work'[s] \subseteq Parts(current[s])
        /\ \A t \in Setups \ {s} : work'[t] = work[t]
        /\ Transactional(current[s]) => schema' = schema
        /\ ~Transactional(current[s]) => work'[s] = {} /\ schema' = schema \cup {Part(s)}
  <1>1. at[s] = "run" /\ SetupInv(s) /\ Lines(s)
    BY DEF Statement, QuietInv
  <1>2. Part(s) \in Parts(current[s])
    BY <1>1, AtPart
  <1>3. CASE Transactional(current[s])
    <2>1. work' = [work EXCEPT ![s] = @ \cup {Part(s)}] /\ schema' = schema
      BY <1>3 DEF Statement
    <2>2. work'[s] = work[s] \cup {Part(s)} /\ \A t \in Setups \ {s} : work'[t] = work[t]
      BY <2>1 DEF SetupTypeOK
    <2> QED
      BY <1>1, <1>2, <1>3, <2>1, <2>2 DEF SetupInv
  <1>4. CASE ~Transactional(current[s])
    <2>1. schema' = schema \cup {Part(s)} /\ work' = work /\ work[s] = {}
      BY <1>1, <1>4 DEF Statement, SetupInv
    <2> QED
      BY <1>4, <2>1
  <1> QED
    BY <1>3, <1>4

LEMMA StatementQuiet ==
  ASSUME SetupTypeOK, \A t \in Setups : Lines(t), QuietInv, NEW s \in Setups, Statement(s)
  PROVE QuietInv'
  <1>1. at[s] = "run" /\ SetupInv(s) /\ Lines(s)
    BY DEF Statement, QuietInv
  <1>2. /\ current[s] \in Versions /\ line[s] \in 1..Size(current[s])
        /\ Part(s) \in Parts(current[s]) /\ Size(current[s]) \in {1, 2}
    BY <1>1, AtPart, SizeFacts
  <1>3. /\ schema \subseteq schema' /\ schema' \cup work'[s] = schema \cup work[s] \cup {Part(s)}
        /\ work'[s] \subseteq Parts(current[s])
        /\ \A t \in Setups \ {s} : work'[t] = work[t]
        /\ Transactional(current[s]) => schema' = schema
        /\ ~Transactional(current[s]) => work'[s] = {} /\ schema' = schema \cup {Part(s)}
    BY StatementWork
  <1>4. /\ line'[s] = line[s] + 1 /\ at'[s] = (IF line[s] = Size(current[s]) THEN "commit" ELSE "run")
        /\ UNCHANGED <<others, recorded, applied, found, current>>
        /\ \A t \in Setups \ {s} : at'[t] = at[t] /\ line'[t] = line[t]
    BY DEF Statement, SetupTypeOK
  <1>5. Users' /\ (current'[s] = 4 /\ line'[s] > 1 => firstUser')
    BY StatementUsers
  <1>6. OneSetup' /\ \A t \in Setups \ {s} : SetupInv(t)'
    BY <1>1, <1>3, <1>4, OthersRest DEF SetupTypeOK, Stopped
  <1>7. \A v \in Versions : Part(s) \in Parts(v) => v = current[s]
    BY DEF Parts, Part
  <1>8. Whole'
    <2>1. \A v \in recorded' : Parts(v) \subseteq schema'
      BY <1>3, <1>4 DEF QuietInv, Whole
    <2>2. ASSUME NEW v \in Versions, Transactional(v)', Parts(v) \cap schema' # {} PROVE Parts(v) \subseteq schema'
      <3>1. Transactional(v)
        BY <1>4, <2>2 DEF Transactional, others
      <3>2. CASE Transactional(current[s])
        BY <1>3, <2>2, <3>1, <3>2 DEF QuietInv, Whole
      <3>3. CASE ~Transactional(current[s])
        <4>1. v # current[s] /\ schema' = schema \cup {Part(s)}
          BY <1>3, <3>1, <3>3
        <4>2. Parts(v) \cap schema # {}
          BY <1>7, <2>2, <4>1
        <4> QED
          BY <1>3, <3>1, <4>2 DEF QuietInv, Whole
      <3> QED
        BY <3>2, <3>3
    <2> QED
      BY <2>1, <2>2 DEF Whole
  <1>9. AfterCore'
    <2>1. CASE 1 \in recorded
      BY <1>4, <2>1 DEF AfterCore
    <2>2. CASE 1 \notin recorded
      <3>1. current[s] = 1
        BY <1>1, <1>2, <2>2 DEF SetupInv, Versions
      <3>2. schema' \subseteq schema \cup {Part(s)}
        BY <1>3
      <3>3. Part(s) \notin Parts(4) \cup Parts(8) \cup Parts(100)
        BY <1>7, <3>1 DEF Versions
      <3> QED
        BY <2>2, <3>2, <3>3 DEF QuietInv, AfterCore
    <2> QED
      BY <2>1, <2>2
  <1>10. \A n \in 1..Size(current[s]) : n < line'[s] => <<current[s], n>> \in schema' \cup work'[s]
    <2> SUFFICES ASSUME NEW n \in 1..Size(current[s]), n < line'[s] PROVE <<current[s], n>> \in schema' \cup work'[s]
      OBVIOUS
    <2>1. CASE n < line[s]
      BY <1>1, <1>3, <2>1 DEF SetupInv
    <2>2. CASE n = line[s]
      BY <1>3, <2>2 DEF Part
    <2> QED
      BY <1>2, <1>4, <2>1, <2>2
  <1>11. at'[s] = "commit" => Parts(current[s]) \subseteq schema' \cup work'[s]
    <2> SUFFICES ASSUME line[s] = Size(current[s]) PROVE Parts(current[s]) \subseteq schema' \cup work'[s]
      BY <1>4
    <2>1. \A n \in 1..Size(current[s]) : <<current[s], n>> \in schema' \cup work'[s]
      BY <1>2, <1>4, <1>10
    <2> QED
      BY <2>1 DEF Parts
  <1>12. \A v \in found'[s] : Parts(v) \subseteq schema'
    BY <1>1, <1>3, <1>4 DEF SetupInv
  <1>13. Transactional(current[s])' <=> Transactional(current[s])
    BY <1>4 DEF Transactional, others
  <1>14. SetupInv(s)'
    <2>1. at'[s] \in {"run", "commit"} /\ current'[s] = current[s] /\ applied'[s] = applied[s] /\ recorded' = recorded
      BY <1>4
    <2> QED
      BY <1>1, <1>3, <1>5, <1>10, <1>11, <1>12, <1>13, <2>1 DEF SetupInv
  <1> QED
    BY <1>5, <1>6, <1>8, <1>9, <1>14 DEF QuietInv

LEMMA CommitQuiet ==
  ASSUME SetupTypeOK, \A t \in Setups : Lines(t), QuietInv, NEW s \in Setups, CommitMigration(s)
  PROVE QuietInv'
  <1>1. at[s] = "commit" /\ SetupInv(s) /\ Lines(s)
    BY DEF CommitMigration, QuietInv
  <1>2. /\ schema' = schema \cup work[s] /\ work'[s] = {} /\ at'[s] = "record"
        /\ UNCHANGED <<others, recorded, given, firstUser, applied, found, current, line>>
        /\ \A t \in Setups \ {s} : at'[t] = at[t] /\ work'[t] = work[t]
    BY DEF CommitMigration, SetupTypeOK
  <1>3. current[s] \in Versions
    BY <1>1 DEF Lines, SetupTypeOK
  <1>4. Parts(current[s]) \subseteq schema' /\ work[s] \subseteq Parts(current[s])
    BY <1>1, <1>2 DEF SetupInv
  <1>5. \A v \in Versions : Parts(v) \cap Parts(current[s]) # {} => v = current[s]
    BY DEF Parts
  <1>6. OneSetup' /\ \A t \in Setups \ {s} : SetupInv(t)'
    BY <1>1, <1>2, OthersRest DEF SetupTypeOK, Stopped
  <1>7. Whole'
    <2>1. \A v \in recorded' : Parts(v) \subseteq schema'
      BY <1>2 DEF QuietInv, Whole
    <2>2. ASSUME NEW v \in Versions, Transactional(v)', Parts(v) \cap schema' # {} PROVE Parts(v) \subseteq schema'
      <3>1. Transactional(v)
        BY <1>2, <2>2 DEF Transactional, others
      <3>2. CASE v = current[s]
        BY <1>4, <3>2
      <3>3. CASE v # current[s]
        <4>1. Parts(v) \cap schema # {}
          BY <1>2, <1>4, <1>5, <2>2, <3>3
        <4> QED
          BY <1>2, <3>1, <4>1 DEF QuietInv, Whole
      <3> QED
        BY <3>2, <3>3
    <2> QED
      BY <2>1, <2>2 DEF Whole
  <1>8. AfterCore'
    <2>1. CASE 1 \in recorded
      BY <1>2, <2>1 DEF AfterCore
    <2>2. CASE 1 \notin recorded
      <3>1. current[s] = 1
        BY <1>1, <1>3, <2>2 DEF SetupInv, Versions
      <3>2. work[s] \cap (Parts(4) \cup Parts(8) \cup Parts(100)) = {}
        BY <1>4, <1>5, <3>1 DEF Versions
      <3> QED
        BY <1>2, <2>2, <3>2 DEF QuietInv, AfterCore
    <2> QED
      BY <2>1, <2>2
  <1>9. Users'
    <2>1. CASE current[s] = 4
      <3>1. <<4, 1>> \in schema'
        BY <1>4, <2>1 DEF Parts, Size
      <3>2. firstUser
        BY <1>1, <2>1 DEF Lines, SetupInv
      <3> QED
        BY <1>2, <3>1, <3>2 DEF Users
    <2>2. CASE current[s] # 4
      <3>1. \A t \in Setups \ {s} : current[t] = 0
        BY <1>1 DEF QuietInv, OneSetup, Lines, Stopped
      <3>2. (~given /\ <<4, 1>> \notin schema) \/ (firstUser /\ <<4, 1>> \in schema)
        BY <2>2, <3>1 DEF QuietInv, Users
      <3>3. <<4, 1>> \notin work[s]
        BY <1>4, <2>2 DEF Parts
      <3> QED
        BY <1>2, <3>2, <3>3 DEF Users
    <2> QED
      BY <2>1, <2>2
  <1>10. \A v \in found'[s] : Parts(v) \subseteq schema'
    BY <1>1, <1>2 DEF SetupInv
  <1>11. SetupInv(s)'
    BY <1>1, <1>2, <1>4, <1>10 DEF SetupInv
  <1> QED
    BY <1>6, <1>7, <1>8, <1>9, <1>11 DEF QuietInv

LEMMA RecordQuiet ==
  ASSUME SetupTypeOK, \A t \in Setups : Lines(t), SetupTypeOK', QuietInv, NEW s \in Setups, RecordMigration(s)
  PROVE QuietInv'
  <1>1. at[s] = "record" /\ SetupInv(s) /\ Lines(s)
    BY DEF RecordMigration, QuietInv
  <1>2. current[s] \in Versions /\ Parts(current[s]) \subseteq schema /\ work[s] = {}
    BY <1>1 DEF Lines, SetupInv, SetupTypeOK
  <1>3. /\ recorded' = recorded \cup {current[s]} /\ applied'[s] = applied[s] \cup {current[s]}
        /\ at'[s] = "choose" /\ current'[s] = 0 /\ line'[s] = 1
        /\ UNCHANGED <<others, schema, given, firstUser, found, work>>
        /\ \A t \in Setups \ {s} : at'[t] = at[t] /\ applied'[t] = applied[t]
                                   /\ current'[t] = current[t] /\ line'[t] = line[t]
    BY DEF RecordMigration, SetupTypeOK
  <1>4. OneSetup' /\ \A t \in Setups \ {s} : SetupInv(t)'
    BY <1>1, <1>3, OthersRest DEF SetupTypeOK, Stopped
  <1>5. Whole' /\ AfterCore'
    BY <1>2, <1>3 DEF QuietInv, Whole, AfterCore, Parts, Transactional, others
  <1>6. Users'
    <2>1. (~given /\ <<4, 1>> \notin schema) \/ (firstUser /\ <<4, 1>> \in schema)
      <3>1. \A t \in Setups : at[t] \notin {"run", "commit"}
        BY <1>1 DEF QuietInv, OneSetup, Stopped
      <3> QED
        BY <3>1 DEF QuietInv, Users
    <2> QED
      BY <1>3, <2>1 DEF Users
  <1>7. SetupInv(s)'
    BY <1>1, <1>2, <1>3 DEF SetupInv
  <1> QED
    BY <1>4, <1>5, <1>6, <1>7 DEF QuietInv

-----------------------------------------------------------------------------
(* The theorems                                                            *)

LEMMA QuietMigrated == SetupTypeOK /\ QuietInv => Migrated
  BY DEF QuietInv, Whole, SetupInv, Migrated

LEMMA SetupInvariant == SetupSpec => []SetupIInv
  <1>1. SetupInit => SetupIInv
    BY InitTypes, InitQuiet DEF SetupIInv
  <1>2. SetupIInv /\ [SetupNext]_setupVars => SetupIInv'
    <2> SUFFICES ASSUME SetupIInv, [SetupNext]_setupVars PROVE SetupIInv'
      OBVIOUS
    <2>1. SetupTypeOK /\ \A t \in Setups : Lines(t)
      BY DEF SetupIInv
    <2>2. SetupTypeOK' /\ \A t \in Setups : Lines(t)'
      BY <2>1, NextTypes
    <2>3. ASSUME upset' = {} PROVE QuietInv'
      <3>1. upset = {}
        <4>1. CASE UNCHANGED setupVars
          BY <2>3, <4>1 DEF setupVars
        <4>2. CASE SetupNext
          BY <2>3, <4>2 DEF SetupNext, StartSetup, ReadApplied, Detect, DetectGpodder, NoteFound, NothingPending,
             ChooseNext, Statement, StatementFails, StatementSkipped, CommitMigration, RecordMigration, KillSetup, others
        <4> QED
          BY <4>1, <4>2
      <3>2. QuietInv
        BY <3>1 DEF SetupIInv
      <3>3. CASE UNCHANGED setupVars
        BY <3>2, <3>3 DEF setupVars, QuietInv, OneSetup, Whole, AfterCore, Users, SetupInv, Transactional
      <3>4. CASE SetupNext
        <4> PICK s \in Setups :
              \/ StartSetup(s) \/ ReadApplied(s) \/ Detect(s) \/ DetectGpodder(s) \/ NoteFound(s)
              \/ NothingPending(s) \/ ChooseNext(s) \/ Statement(s) \/ StatementFails(s)
              \/ StatementSkipped(s) \/ CommitMigration(s) \/ RecordMigration(s) \/ KillSetup(s)
          BY <3>4 DEF SetupNext
        <4>1. CASE StartSetup(s)
          BY <2>1, <3>1, <3>2, <4>1, StartQuiet
        <4>2. CASE ReadApplied(s)
          BY <2>1, <3>2, <4>2, ReadQuiet
        <4>3. CASE Detect(s)
          BY <2>1, <3>2, <4>3, DetectQuiet
        <4>4. CASE DetectGpodder(s)
          BY <2>1, <3>2, <4>4, DetectGpodderQuiet
        <4>5. CASE NoteFound(s)
          BY <2>1, <2>2, <3>2, <4>5, NoteQuiet
        <4>6. CASE NothingPending(s)
          BY <2>1, <3>2, <4>6, NothingPendingQuiet
        <4>7. CASE ChooseNext(s)
          BY <2>1, <3>2, <4>7, ChooseQuiet
        <4>8. CASE Statement(s)
          BY <2>1, <3>2, <4>8, StatementQuiet
        <4>9. CASE StatementFails(s) \/ StatementSkipped(s)
          BY <2>1, <3>1, <3>2, <4>9, NoneFails
        <4>10. CASE CommitMigration(s)
          BY <2>1, <3>2, <4>10, CommitQuiet
        <4>11. CASE RecordMigration(s)
          BY <2>1, <2>2, <3>2, <4>11, RecordQuiet
        <4>12. CASE KillSetup(s)
          BY <2>1, <3>1, <3>2, <4>12, KillQuiet
        <4> QED
          BY <4>1, <4>2, <4>3, <4>4, <4>5, <4>6, <4>7, <4>8, <4>9, <4>10, <4>11, <4>12
      <3> QED
        BY <3>3, <3>4
    <2> QED
      BY <2>2, <2>3 DEF SetupIInv
  <1> QED
    BY <1>1, <1>2, PTL DEF SetupSpec

\* The tables, the record and each setup's locals keep their types, whatever fails and
\* however many setups there are (migrations.py).
THEOREM SetupTypesKept == SetupSpec => []SetupTypeOK
  <1>1. SetupIInv => SetupTypeOK
    BY DEF SetupIInv
  <1> QED
    BY <1>1, SetupInvariant, PTL

\* migrations.py:4, for any number of containers that set up one after the other and are
\* killed anywhere but in 004: what is recorded is there, and every setup can go on.
THEOREM MigrationsSafe == SetupSpec => []Migrated
  <1>1. SetupIInv => Migrated
    <2>1. SetupIInv /\ upset = {} => Migrated
      BY QuietMigrated DEF SetupIInv
    <2>2. upset # {} => Migrated
      BY DEF Migrated
    <2> QED
      BY <2>1, <2>2
  <1> QED
    BY <1>1, SetupInvariant, PTL
=============================================================================
