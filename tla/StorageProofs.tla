---------------------------- MODULE StorageProofs ----------------------------
(***************************************************************************)
(* Versions are true and handlers find the current schema, for any number  *)
(* of processes, databases to start from, pastes and faults.               *)
(*                                                                         *)
(* Only scripts change the schema, and what they do lasts: tables in use   *)
(* never go, retired ones never come back.  So what is true of the stored  *)
(* schema when a process reads it stays true, and each place in apply()    *)
(* stands for the migrations done by then.                                 *)
(*                                                                         *)
(* The stored roster is one whole paste, as long as nothing cuts a         *)
(* transaction in two: only a client at its rows has rows pending, only    *)
(* one client is, and what it has stored, pending and left makes up its    *)
(* paste.  A purge no longer sees what it has been through.                *)
(*                                                                         *)
(* What a copy between databases leaves behind, for any laptop's file, any *)
(* number of copies cut short anywhere, and hosted runs recorded at any    *)
(* moment: the strengthening says where the copy is in the file, and that  *)
(* a hosted row has been recorded there or may cross.                      *)
(***************************************************************************)
EXTENDS Storage, CopyTables, TLAPS

\* Migrations 1 to n have done what they do.
Done(n, facts) == \A i \in 1..n : Effective(i, facts)

\* What may become of the schema.
Lasting(old, new) ==
  /\ \A t \in Kept : Table(t) \in old => Table(t) \in new
  /\ Column("played") \in old => Column("played") \in new
  /\ \A t \in Retired : Table(t) \in new => Table(t) \in old
  /\ Table("my_roster") \in new => Table("my_roster") \in old \/ Column("played") \in new
  /\ \A t \in Tables : Secured(t) \in new => Table(t) \in new

-----------------------------------------------------------------------------
(* The invariant: the stored schema, what each connection has pending, and  *)
(* what each place in the code stands for.                                  *)

FactsAreSane(facts) ==
  /\ \A t \in Tables : Secured(t) \in facts => Table(t) \in facts
  /\ \A n \in 1..Latest : Version(n) \in facts => Done(n, facts)
  /\ Table("players") \in facts \/ Clean(facts)

ConnFields == {"up", "ins", "del"}
RunFields == {"at", "fresh", "next", "left", "aim"}

\* No transaction holds part of the schema, but its stamps and its security.
ConnIsSane(x, facts, postgres) ==
  /\ DOMAIN x = ConnFields
  /\ x.del \cap SchemaFacts = {}
  /\ \A t \in Tables : Table(t) \notin x.ins
  /\ Column("played") \notin x.ins
  /\ \A t \in Tables : Secured(t) \in x.ins => postgres /\ Table(t) \in facts
  /\ \A n \in 1..Latest : Version(n) \in x.ins => Done(n, facts)

DatabaseIsSane ==
  /\ DOMAIN conn = Clients
  /\ FactsAreSane(stored)
  /\ \A c \in Clients : ConnIsSane(conn[c], stored, dialect = "postgres")

Upgraded == {"stamped", "rls", "secure", "secured", "ready"} \cup HandlerLabels

PlaceIsTrue(r, facts, postgres) ==
  /\ DOMAIN r = RunFields
  /\ r.at = "baseline" => Clean(facts)
  /\ r.at = "read" /\ r.fresh => Done(Latest, facts)
  /\ r.at = "stampall" => r.next \in 1..Latest /\ Done(Latest, facts)
  /\ r.at \in {"migrate", "script"} => r.next \in 1..Latest + 1 /\ Done(r.next - 1, facts)
  /\ r.at = "script" => r.next \in 1..Latest
  /\ r.at = "stamp" => r.next \in 1..Latest /\ Done(r.next, facts)
  /\ r.at \in Upgraded => Done(Latest, facts)
  /\ r.at = "secure" => postgres /\ r.aim \subseteq Tables
  /\ r.at = "delete" => r.aim \cap SchemaFacts = {}

StorageInv ==
  /\ DatabaseIsSane
  /\ DOMAIN run = Clients
  /\ \A c \in Clients : PlaceIsTrue(run[c], stored, dialect = "postgres")

-----------------------------------------------------------------------------
(* Facts and migrations.                                                    *)

\* Facts of different kinds, or about different things, are different.
LEMMA FactsDiffer ==
  ASSUME NEW t, NEW u, NEW n, NEW k
  PROVE  /\ Table(t) = Table(u) <=> t = u
         /\ Version(n) = Version(k) <=> n = k
         /\ Secured(t) = Secured(u) <=> t = u
         /\ Table(t) # Version(n) /\ Table(t) # Secured(u) /\ Table(t) # Column(u)
         /\ Table(t) # Spot(k) /\ Table(t) # Yahoo(u)
         /\ Version(n) # Secured(u) /\ Version(n) # Column(u)
         /\ Version(n) # Spot(k) /\ Version(n) # Yahoo(u)
         /\ Secured(t) # Column(u) /\ Secured(t) # Spot(k) /\ Secured(t) # Yahoo(u)
         /\ Column(t) # Spot(k) /\ Column(t) # Yahoo(u)
         /\ Yahoo(u) # Spot(k)
  BY DEF Table, Version, Secured, Column, Spot, Yahoo

\* What each migration leaves behind.
LEMMA Effects ==
  ASSUME NEW facts
  PROVE  /\ Effective(1, facts) <=> Table("job_runs") \in facts
         /\ Effective(2, facts) <=> Table("rosters") \notin facts /\ Secured("rosters") \notin facts
         /\ Effective(3, facts) <=> Table("matchups") \notin facts /\ Secured("matchups") \notin facts
         /\ Effective(4, facts) <=>
              Table("league_settings") \notin facts /\ Secured("league_settings") \notin facts
         /\ Effective(5, facts) <=> Table("my_roster") \in facts
         /\ Effective(6, facts) <=> Column("played") \in facts
  BY DEF Effective, Removes, Drops

\* The six of them.
LEMMA DoneMeans ==
  ASSUME NEW facts
  PROVE  /\ Done(0, facts)
         /\ \A n \in 1..Latest : Done(n, facts) <=> Done(n - 1, facts) /\ Effective(n, facts)
         /\ \A m, n \in 0..Latest : m <= n /\ Done(n, facts) => Done(m, facts)
  BY DEF Done, Latest

\* What is true of the schema stays true.
LEMMA LastingKeeps ==
  ASSUME NEW old, NEW new, Lasting(old, new)
  PROVE  /\ Clean(old) => Clean(new)
         /\ \A i \in 1..Latest : Effective(i, old) => Effective(i, new)
         /\ \A n \in 0..Latest : Done(n, old) => Done(n, new)
<1>1. Clean(old) => Clean(new)
  BY DEF Lasting, Clean, Kept, Retired
<1>2. \A i \in 1..Latest : Effective(i, old) => Effective(i, new)
  <2>1. ASSUME NEW t \in Retired, Table(t) \notin old
        PROVE  Table(t) \notin new /\ Secured(t) \notin new
    BY <2>1 DEF Lasting, Tables
  <2> QED
    BY <2>1, Effects DEF Lasting, Kept, Retired, Latest
<1>3. \A n \in 0..Latest : Done(n, old) => Done(n, new)
  BY <1>2 DEF Done, Latest
<1> QED
  BY <1>1, <1>2, <1>3

\* A place stays true when the schema lasts.
LEMMA PlacesLast ==
  ASSUME NEW r, NEW old, NEW new, NEW postgres, Lasting(old, new), PlaceIsTrue(r, old, postgres)
  PROVE  PlaceIsTrue(r, new, postgres)
<1>1. r.at \in {"migrate", "script"} => r.next - 1 \in 0..Latest
  BY DEF PlaceIsTrue, Latest
<1>2. Latest \in 0..Latest /\ 1..Latest \subseteq 0..Latest
  BY DEF Latest
<1> QED
  BY <1>1, <1>2, LastingKeeps DEF PlaceIsTrue

\* The schema that does not change lasts.
LEMMA LastingReflexive ==
  ASSUME NEW facts, FactsAreSane(facts)
  PROVE  Lasting(facts, facts)
  BY DEF FactsAreSane, Lasting

\* The greatest stamp.
LEMMA MaxOfStamps ==
  ASSUME NEW S, S \subseteq 1..Latest, S # {}
  PROVE  Max(S) \in S /\ \A y \in S : Max(S) >= y
<1> DEFINE Above(k) == \A y \in S : y <= k
<1>1. \E x \in S : \A y \in S : x >= y
  <2>1. Above(6)
    BY DEF Latest
  <2>2. Above(6) => 6 \in S \/ Above(5)
    BY DEF Latest
  <2>3. Above(5) => 5 \in S \/ Above(4)
    BY DEF Latest
  <2>4. Above(4) => 4 \in S \/ Above(3)
    BY DEF Latest
  <2>5. Above(3) => 3 \in S \/ Above(2)
    BY DEF Latest
  <2>6. Above(2) => 2 \in S \/ Above(1)
    BY DEF Latest
  <2>7. Above(1) => 1 \in S
    <3>1. PICK x \in S : TRUE
      OBVIOUS
    <3> QED
      BY <3>1 DEF Latest
  <2> QED
    BY <2>1, <2>2, <2>3, <2>4, <2>5, <2>6, <2>7 DEF Latest
<1> QED
  BY <1>1 DEF Max

\* MAX(version) is the greatest stamp, and 0 when there is none.
LEMMA CurrentVersionIs ==
  ASSUME NEW facts
  PROVE  /\ CurrentVersion(facts) \in 0..Latest
         /\ CurrentVersion(facts) # 0 => Version(CurrentVersion(facts)) \in facts
         /\ \A n \in 1..Latest : Version(n) \in facts => n <= CurrentVersion(facts)
<1>1. Stamps(facts) \subseteq 1..Latest
  BY DEF Stamps
<1>2. CASE Stamps(facts) = {}
  BY <1>2 DEF CurrentVersion, Stamps, Latest
<1>3. CASE Stamps(facts) # {}
  <2>1. Max(Stamps(facts)) \in Stamps(facts) /\ \A y \in Stamps(facts) : Max(Stamps(facts)) >= y
    BY <1>1, <1>3, MaxOfStamps
  <2>2. CurrentVersion(facts) = Max(Stamps(facts))
    BY <1>3 DEF CurrentVersion
  <2> QED
    BY <2>1, <2>2 DEF Stamps, Latest
<1> QED
  BY <1>2, <1>3

-----------------------------------------------------------------------------
(* What a client sees, and what its statements do.                          *)

\* The facts have this schema, and the stamps on them are true.
HasTheSchema(facts) ==
  /\ \A t \in Tables : Table(t) \in facts <=> Table(t) \in stored
  /\ Column("played") \in facts <=> Column("played") \in stored
  /\ \A t \in Tables : Secured(t) \in facts => Table(t) \in stored
  /\ \A n \in 1..Latest : Version(n) \in facts => Done(n, stored)

\* The names of the facts the schema is made of.
LEMMA SchemaFactsAre ==
  /\ \A t \in Tables : Table(t) \in SchemaFacts /\ Secured(t) \in SchemaFacts
  /\ Column("played") \in SchemaFacts
  /\ \A n \in 1..Latest : Version(n) \in SchemaFacts
  BY DEF SchemaFacts, Latest

\* Every client sees the stored schema.
LEMMA EveryoneSees ==
  ASSUME DatabaseIsSane, NEW c \in Clients
  PROVE  HasTheSchema(Reads(c)) /\ HasTheSchema(View(c))
<1> USE SchemaFactsAre
<1>1. HasTheSchema(View(c))
  BY DEF DatabaseIsSane, FactsAreSane, ConnIsSane, HasTheSchema, View
<1>2. CASE conn[c].up
  BY <1>1, <1>2 DEF Reads, View, Live
<1>3. CASE ~conn[c].up
  <2>1. Reads(c) = stored
    BY <1>3 DEF Reads, Live, Idle
  <2> QED
    BY <1>1, <2>1 DEF DatabaseIsSane, FactsAreSane, HasTheSchema
<1> QED
  BY <1>1, <1>2, <1>3

\* Facts with the schema may be stored.
LEMMA StoringIsSane ==
  ASSUME DatabaseIsSane, NEW facts, HasTheSchema(facts)
  PROVE  Lasting(stored, facts) /\ FactsAreSane(facts)
<1>1. Lasting(stored, facts)
  BY DEF DatabaseIsSane, FactsAreSane, HasTheSchema, Lasting, Tables, Kept, Retired
<1>2. \A n \in 1..Latest : Done(n, stored) => Done(n, facts)
  BY <1>1, LastingKeeps DEF Latest
<1>3. Table("players") \in stored \/ Clean(stored)
  BY DEF DatabaseIsSane, FactsAreSane
<1>4. Table("players") \in facts \/ Clean(facts)
  BY <1>1, <1>3, LastingKeeps DEF Lasting, Kept
<1> QED
  BY <1>1, <1>2, <1>4 DEF HasTheSchema, FactsAreSane

\* A step of the database in the name of c.
DatabaseStep(c) ==
  /\ dialect' = dialect
  /\ DOMAIN conn' = Clients /\ \A d \in Clients \ {c} : conn'[d] = conn[d]
  /\ Lasting(stored, stored')
  /\ FactsAreSane(stored')
  /\ ConnIsSane(conn'[c], stored', dialect = "postgres")
  /\ \A d \in Clients \ {c} : \A t \in Tables :
       Secured(t) \in conn[d].ins => Table(t) \in stored'

\* A step of c's program.
ProgramStep(c) ==
  DOMAIN run' = Clients /\ \A d \in Clients \ {c} : run'[d] = run[d]

\* Together with a step of c's program, that keeps the invariant.
LEMMA StepKeeps ==
  ASSUME StorageInv, NEW c \in Clients, DatabaseStep(c),
         ProgramStep(c), PlaceIsTrue(run'[c], stored', dialect = "postgres")
  PROVE  StorageInv'
<1>1. \A d \in Clients \ {c} : conn'[d] = conn[d] /\ run'[d] = run[d]
  BY DEF DatabaseStep, ProgramStep
<1>2. DOMAIN conn' = Clients /\ DOMAIN run' = Clients
  BY DEF DatabaseStep, ProgramStep
<1>3. ASSUME NEW d \in Clients
      PROVE  ConnIsSane(conn'[d], stored', dialect = "postgres")
  <2>1. CASE d = c
    BY <2>1 DEF DatabaseStep
  <2>2. CASE d # c
    <3>1. \A n \in 1..Latest : Done(n, stored) => Done(n, stored')
      BY LastingKeeps DEF DatabaseStep, Latest
    <3> QED
      BY <1>1, <2>2, <3>1 DEF DatabaseStep, StorageInv, DatabaseIsSane, ConnIsSane
  <2> QED
    BY <2>1, <2>2
<1>4. ASSUME NEW d \in Clients
      PROVE  PlaceIsTrue(run'[d], stored', dialect = "postgres")
  <2>1. CASE d = c
    BY <2>1
  <2>2. CASE d # c
    <3>1. Lasting(stored, stored') /\ PlaceIsTrue(run[d], stored, dialect = "postgres")
      BY DEF StorageInv, DatabaseStep
    <3>2. PlaceIsTrue(run[d], stored', dialect = "postgres")
      BY <3>1, PlacesLast
    <3> QED
      BY <1>1, <2>2, <3>2
  <2> QED
    BY <2>1, <2>2
<1> QED
  BY <1>2, <1>3, <1>4 DEF StorageInv, DatabaseIsSane, DatabaseStep

\* A statement that stores nothing: what is pending grows by harmless facts.
LEMMA PendingStep ==
  ASSUME DatabaseIsSane, NEW c \in Clients, UNCHANGED <<dialect, stored>>,
         DOMAIN conn' = Clients, \A d \in Clients \ {c} : conn'[d] = conn[d],
         ConnIsSane(conn'[c], stored, dialect = "postgres")
  PROVE  DatabaseStep(c)
<1>1. Lasting(stored, stored) /\ FactsAreSane(stored)
  BY LastingReflexive DEF DatabaseIsSane
<1> QED
  BY <1>1 DEF DatabaseStep, DatabaseIsSane, ConnIsSane

\* A connection with nothing pending, and whatever a client's own is.
LEMMA IdleIsSane ==
  ASSUME NEW x, NEW facts, NEW postgres, DOMAIN x = ConnFields, x.ins = {}, x.del = {}
  PROVE  ConnIsSane(x, facts, postgres)
  BY DEF ConnIsSane

\* The connection the next statement runs on.
LEMMA LiveIsSane ==
  ASSUME DatabaseIsSane, NEW c \in Clients
  PROVE  ConnIsSane(Live(c), stored, dialect = "postgres")
<1>1. CASE conn[c].up
  BY <1>1 DEF Live, DatabaseIsSane
<1>2. CASE ~conn[c].up
  <2>1. Live(c) = Idle
    BY <1>2 DEF Live
  <2>2. DOMAIN Idle = ConnFields /\ Idle.ins = {} /\ Idle.del = {}
    BY DEF Idle, ConnFields
  <2> QED
    BY <2>1, <2>2, IdleIsSane
<1> QED
  BY <1>1, <1>2

\* Queries, refusals, rollbacks and lost connections.
LEMMA QuietStep ==
  ASSUME DatabaseIsSane, NEW c \in Clients,
         Query(c) \/ Refused(c) \/ Rollback(c) \/ Drop(c) \/ UNCHANGED dbVars
  PROVE  DatabaseStep(c) /\ stored' = stored
<1>1. UNCHANGED <<dialect, stored>>
  BY DEF Query, Refused, Rollback, Drop, dbVars
<1>2. DOMAIN conn = Clients /\ ConnIsSane(conn[c], stored, dialect = "postgres")
  BY DEF DatabaseIsSane
<1>3. DOMAIN conn' = Clients /\ \A d \in Clients \ {c} : conn'[d] = conn[d]
  BY <1>2 DEF Query, Refused, Rollback, Drop, dbVars
<1>4. conn'[c] \in {conn[c], Live(c), Idle, [up |-> FALSE, ins |-> {}, del |-> {}]}
  BY <1>2 DEF Query, Refused, Rollback, Drop, dbVars
<1>5. ConnIsSane(Idle, stored, dialect = "postgres")
  BY IdleIsSane DEF Idle, ConnFields
<1>6. ConnIsSane([up |-> FALSE, ins |-> {}, del |-> {}], stored, dialect = "postgres")
  BY IdleIsSane DEF ConnFields
<1>7. ConnIsSane(conn'[c], stored, dialect = "postgres")
  BY <1>2, <1>4, <1>5, <1>6, LiveIsSane
<1> QED
  BY <1>1, <1>3, <1>7, PendingStep

\* A statement that leaves the schema alone, but for a stamp or a security
\* that is due.
LEMMA WriteStep ==
  ASSUME DatabaseIsSane, NEW c \in Clients, NEW rm, NEW add, Execute(c, rm, add),
         rm \cap SchemaFacts = {},
         ConnIsSane([up |-> TRUE, ins |-> add, del |-> {}], stored, dialect = "postgres")
  PROVE  DatabaseStep(c) /\ stored' = stored
<1>1. UNCHANGED <<dialect, stored>> /\ conn' = [conn EXCEPT ![c] = Writes(c, rm, add)]
  BY DEF Execute
<1>2. ConnIsSane(Writes(c, rm, add), stored, dialect = "postgres")
  BY LiveIsSane DEF Writes, ConnIsSane, ConnFields
<1>3. /\ DOMAIN conn' = Clients /\ \A d \in Clients \ {c} : conn'[d] = conn[d]
      /\ conn'[c] = Writes(c, rm, add)
  BY <1>1 DEF DatabaseIsSane
<1> QED
  BY <1>1, <1>2, <1>3, PendingStep

\* A commit, by itself or with the row of job_runs.
LEMMA StoreStep ==
  ASSUME DatabaseIsSane, NEW c \in Clients,
         dialect' = dialect, conn' = [conn EXCEPT ![c] = Idle],
         stored' = View(c) \/ stored' = Reads(c)
  PROVE  DatabaseStep(c)
<1>1. HasTheSchema(stored')
  BY EveryoneSees
<1>2. Lasting(stored, stored') /\ FactsAreSane(stored')
  BY <1>1, StoringIsSane
<1>3. /\ DOMAIN conn' = Clients /\ \A d \in Clients \ {c} : conn'[d] = conn[d]
      /\ conn'[c] = Idle
  BY DEF DatabaseIsSane
<1>4. ConnIsSane(Idle, stored', dialect = "postgres")
  BY IdleIsSane DEF Idle, ConnFields
<1>5. \A d \in Clients \ {c} : \A t \in Tables :
        Secured(t) \in conn[d].ins => Table(t) \in stored'
  BY <1>1 DEF DatabaseIsSane, ConnIsSane, HasTheSchema
<1> QED
  BY <1>2, <1>3, <1>4, <1>5 DEF DatabaseStep

\* A script removes retired tables with their security, and adds tables in
\* use, the roster always with its column.
LEMMA ScriptStep ==
  ASSUME DatabaseIsSane, NEW c \in Clients, NEW rm, NEW add, ExecuteScript(c, rm, add),
         rm \subseteq UNION {Drops(t) : t \in Retired},
         \A t \in Retired : Table(t) \in rm => Secured(t) \in rm,
         add \subseteq {Table(t) : t \in Kept \cup {"schema_version"}} \cup {Column("played")},
         Table("my_roster") \in add => Column("played") \in add
  PROVE  DatabaseStep(c)
<1> DEFINE new == (View(c) \ rm) \cup add
<1>1. stored' = new /\ dialect' = dialect /\ conn' = [conn EXCEPT ![c] = Idle]
  BY DEF ExecuteScript
<1>2. HasTheSchema(View(c))
  BY EveryoneSees
<1>3. /\ \A t \in Tables \ Retired : Table(t) \notin rm
      /\ Column("played") \notin rm
      /\ \A n \in 1..Latest : Version(n) \notin rm
  <2>1. \A f \in rm : \E t \in Retired : f = Table(t) \/ f = Secured(t)
    BY DEF Drops
  <2>2. ASSUME NEW t \in Tables \ Retired, Table(t) \in rm
        PROVE  FALSE
    <3>1. PICK u \in Retired : Table(t) = Table(u) \/ Table(t) = Secured(u)
      BY <2>1, <2>2
    <3> QED
      BY <3>1, FactsDiffer
  <2>3. ASSUME Column("played") \in rm
        PROVE  FALSE
    <3>1. PICK u \in Retired : Column("played") = Table(u) \/ Column("played") = Secured(u)
      BY <2>1, <2>3
    <3> QED
      BY <3>1, FactsDiffer
  <2>4. \A n \in 1..Latest : Version(n) \notin rm
    BY <2>1, FactsDiffer
  <2> QED
    BY <2>2, <2>3, <2>4
<1>4. /\ \A t \in Retired : Table(t) \notin add
      /\ \A t \in Tables : Secured(t) \notin add
      /\ \A n \in 1..Latest : Version(n) \notin add
  BY FactsDiffer DEF Kept, Retired
<1>5. \A t \in Tables : Table(t) \in rm => Secured(t) \in rm
  BY <1>3
<1>6. \A t \in Tables : Table(t) \in stored /\ Secured(t) \notin rm => Table(t) \in new
  BY <1>2, <1>5 DEF HasTheSchema
<1>7. Lasting(stored, new)
  <2>1. \A t \in Kept : Table(t) \in stored => Table(t) \in new
    BY <1>2, <1>3 DEF HasTheSchema, Tables, Kept, Retired
  <2>2. Column("played") \in stored => Column("played") \in new
    BY <1>2, <1>3 DEF HasTheSchema
  <2>3. \A t \in Retired : Table(t) \in new => Table(t) \in stored
    BY <1>2, <1>4 DEF HasTheSchema, Tables
  <2>4. Table("my_roster") \in new => Table("my_roster") \in stored \/ Column("played") \in new
    BY <1>2 DEF HasTheSchema, Tables, Kept
  <2>5. \A t \in Tables : Secured(t) \in new => Table(t) \in new
    BY <1>2, <1>4, <1>6 DEF HasTheSchema
  <2> QED
    BY <2>1, <2>2, <2>3, <2>4, <2>5 DEF Lasting
<1>8. FactsAreSane(new)
  <2>1. \A n \in 1..Latest : Version(n) \in new => Done(n, stored)
    BY <1>2, <1>4 DEF HasTheSchema
  <2>2. \A n \in 1..Latest : Done(n, stored) => Done(n, new)
    BY <1>7, LastingKeeps DEF Latest
  <2>3. Table("players") \in stored \/ Clean(stored)
    BY DEF DatabaseIsSane, FactsAreSane
  <2>4. Table("players") \in new \/ Clean(new)
    BY <1>7, <2>3, LastingKeeps DEF Lasting, Kept
  <2>5. \A t \in Tables : Secured(t) \in new => Table(t) \in new
    BY <1>7 DEF Lasting
  <2> QED
    BY <2>1, <2>2, <2>4, <2>5 DEF FactsAreSane
<1>9. \A d \in Clients \ {c} : \A t \in Tables :
        Secured(t) \in conn[d].ins => Table(t) \in new
  <2> TAKE d \in Clients \ {c}
  <2> TAKE t \in Tables
  <2> HAVE Secured(t) \in conn[d].ins
  <2>1. dialect = "postgres" /\ Table(t) \in stored
    BY DEF DatabaseIsSane, ConnIsSane
  <2>2. Touched(d) \cap (rm \cup add) = {}
    BY <2>1 DEF ExecuteScript, Unlocked
  <2>3. Secured(t) \notin rm
    BY <2>2 DEF Touched
  <2> QED
    BY <1>6, <2>1, <2>3
<1>10. DOMAIN conn' = Clients /\ conn'[c] = Idle /\ \A d \in Clients \ {c} : conn'[d] = conn[d]
  BY <1>1 DEF DatabaseIsSane
<1>11. ConnIsSane(Idle, stored', dialect = "postgres")
  BY IdleIsSane DEF Idle, ConnFields
<1> QED
  BY <1>1, <1>7, <1>8, <1>9, <1>10, <1>11 DEF DatabaseStep

\* A place whose only meaning is that the schema is current.
LEMMA UpgradedPlace ==
  ASSUME NEW r, NEW facts, NEW postgres, DOMAIN r = RunFields,
         r.at \in (Upgraded \ {"secure", "delete"}) \cup {"off", "versions", "look", "record"},
         r.at \in Upgraded => Done(Latest, facts)
  PROVE  PlaceIsTrue(r, facts, postgres)
  BY DEF PlaceIsTrue, Upgraded, HandlerLabels

-----------------------------------------------------------------------------
(* The steps of apply().                                                    *)

LEMMA CreateVersionTableKeeps ==
  ASSUME StorageInv, NEW c \in Clients, CreateVersionTable(c)
  PROVE  StorageInv'
<1>1. ExecuteScript(c, {}, {Table("schema_version")}) /\ Goto(c, "look")
  BY DEF CreateVersionTable
<1>2. Table("my_roster") # Table("schema_version")
  BY FactsDiffer
<1>3. DatabaseStep(c)
  BY <1>1, <1>2, ScriptStep DEF StorageInv
<1>4. ProgramStep(c) /\ DOMAIN run'[c] = RunFields /\ run'[c].at = "look"
  BY <1>1 DEF Goto, ProgramStep, StorageInv, PlaceIsTrue, RunFields
<1>5. PlaceIsTrue(run'[c], stored', dialect = "postgres")
  BY <1>4, UpgradedPlace DEF Upgraded, HandlerLabels
<1> QED
  BY <1>3, <1>4, <1>5, StepKeeps

LEMMA LookKeeps ==
  ASSUME StorageInv, NEW c \in Clients, Look(c)
  PROVE  StorageInv'
<1>1. DatabaseStep(c) /\ stored' = stored
  BY QuietStep DEF Look, StorageInv
<1>2. ProgramStep(c) /\ DOMAIN run'[c] = RunFields
  BY DEF Look, ProgramStep, StorageInv, PlaceIsTrue, RunFields
<1>3. \/ run'[c].at = "baseline" /\ Table("players") \notin Reads(c)
      \/ run'[c].at = "read" /\ run'[c].fresh = FALSE
  BY DEF Look, HasTables, StorageInv, PlaceIsTrue, RunFields
<1>4. Table("players") \notin Reads(c) => Clean(stored)
  BY EveryoneSees DEF HasTheSchema, StorageInv, DatabaseIsSane, FactsAreSane, Tables, Kept
<1>5. PlaceIsTrue(run'[c], stored', dialect = "postgres")
  BY <1>1, <1>2, <1>3, <1>4 DEF PlaceIsTrue, Upgraded, HandlerLabels
<1> QED
  BY <1>1, <1>2, <1>5, StepKeeps

LEMMA CreateBaselineKeeps ==
  ASSUME StorageInv, NEW c \in Clients, CreateBaseline(c)
  PROVE  StorageInv'
<1>1. ExecuteScript(c, {}, Baseline(View(c))) /\ Goto(c, "read") /\ run[c].at = "baseline"
  BY DEF CreateBaseline, At
<1>2. /\ Baseline(View(c)) \subseteq
           {Table(t) : t \in Kept \cup {"schema_version"}} \cup {Column("played")}
      /\ Table("my_roster") \in Baseline(View(c)) => Column("played") \in Baseline(View(c))
  BY FactsDiffer DEF Baseline, Creates, Kept
<1>3. DatabaseStep(c)
  BY <1>1, <1>2, ScriptStep DEF StorageInv
<1>4. ProgramStep(c) /\ DOMAIN run'[c] = RunFields /\ run'[c].at = "read"
  BY <1>1 DEF Goto, ProgramStep, StorageInv, PlaceIsTrue, RunFields
<1>5. Done(Latest, stored')
  <2>1. Clean(stored)
    BY <1>1 DEF StorageInv, PlaceIsTrue
  <2>2. Clean(stored') /\ \A t \in Tables : Secured(t) \in stored' => Table(t) \in stored'
    BY <1>3, <2>1, LastingKeeps DEF DatabaseStep, FactsAreSane
  <2>3. stored' = View(c) \cup Baseline(View(c))
    BY <1>1 DEF ExecuteScript
  <2>4. \A t \in Kept : Table(t) \in stored'
    BY <2>3 DEF Baseline, Creates
  <2>5. \A i \in 1..Latest : Effective(i, stored')
    BY <2>2, <2>4, Effects DEF Clean, Kept, Retired, Tables, Latest
  <2> QED
    BY <2>5 DEF Done
<1>6. PlaceIsTrue(run'[c], stored', dialect = "postgres")
  BY <1>4, <1>5 DEF PlaceIsTrue, Upgraded, HandlerLabels
<1> QED
  BY <1>3, <1>4, <1>6, StepKeeps

LEMMA ReadVersionKeeps ==
  ASSUME StorageInv, NEW c \in Clients, ReadVersion(c)
  PROVE  StorageInv'
<1> DEFINE version == CurrentVersion(Reads(c))
<1>1. DatabaseStep(c) /\ stored' = stored
  BY QuietStep DEF ReadVersion, StorageInv
<1>2. ProgramStep(c) /\ DOMAIN run'[c] = RunFields
  BY DEF ReadVersion, ProgramStep, StorageInv, PlaceIsTrue, RunFields
<1>3. \/ run[c].fresh /\ run'[c].at = "stampall" /\ run'[c].next = 1
      \/ run'[c].at = "migrate" /\ run'[c].next = version + 1
  BY DEF ReadVersion, StorageInv, PlaceIsTrue, RunFields
<1>4. run[c].fresh => Done(Latest, stored)
  BY DEF ReadVersion, At, StorageInv, PlaceIsTrue
<1>5. version \in 0..Latest /\ Done(version, stored)
  <2>1. version \in 0..Latest /\ (version # 0 => Version(version) \in Reads(c))
    BY CurrentVersionIs
  <2>2. version # 0 => Done(version, stored)
    BY <2>1, EveryoneSees DEF HasTheSchema, StorageInv, Latest
  <2> QED
    BY <2>1, <2>2, DoneMeans
<1>6. version + 1 \in 1..Latest + 1 /\ (version + 1) - 1 = version /\ 1 \in 1..Latest
  BY <1>5 DEF Latest
<1>7. PlaceIsTrue(run'[c], stored', dialect = "postgres")
  BY <1>1, <1>2, <1>3, <1>4, <1>5, <1>6 DEF PlaceIsTrue, Upgraded, HandlerLabels
<1> QED
  BY <1>1, <1>2, <1>7, StepKeeps

LEMMA StampAllKeeps ==
  ASSUME StorageInv, NEW c \in Clients, StampAll(c)
  PROVE  StorageInv'
<1> DEFINE n == run[c].next
<1>1. n \in 1..Latest /\ Done(Latest, stored)
  BY DEF StampAll, At, StorageInv, PlaceIsTrue
<1>2. DatabaseStep(c) /\ stored' = stored
  <2>1. Execute(c, {}, {Version(n)}) /\ {} \cap SchemaFacts = {}
    BY DEF StampAll, InsertStamp
  <2>2. Done(n, stored)
    BY <1>1, DoneMeans DEF Latest
  <2>3. ConnIsSane([up |-> TRUE, ins |-> {Version(n)}, del |-> {}], stored, dialect = "postgres")
    BY <2>2, FactsDiffer DEF ConnIsSane, ConnFields
  <2> QED
    BY <2>1, <2>3, WriteStep DEF StorageInv
<1>3. ProgramStep(c) /\ DOMAIN run'[c] = RunFields
  BY DEF StampAll, ProgramStep, StorageInv, PlaceIsTrue, RunFields
<1>4. \/ run'[c].at = "stamped"
      \/ run'[c].at = "stampall" /\ run'[c].next \in 1..Latest
  BY <1>1 DEF StampAll, At, StorageInv, PlaceIsTrue, RunFields, Latest
<1>5. PlaceIsTrue(run'[c], stored', dialect = "postgres")
  BY <1>1, <1>2, <1>3, <1>4 DEF PlaceIsTrue, Upgraded, HandlerLabels
<1> QED
  BY <1>2, <1>3, <1>5, StepKeeps

LEMMA StampKeeps ==
  ASSUME StorageInv, NEW c \in Clients, Stamp(c)
  PROVE  StorageInv'
<1> DEFINE n == run[c].next
<1>1. n \in 1..Latest /\ Done(n, stored)
  BY DEF Stamp, At, StorageInv, PlaceIsTrue
<1>2. DatabaseStep(c) /\ stored' = stored
  <2>1. Execute(c, {}, {Version(n)}) /\ {} \cap SchemaFacts = {}
    BY DEF Stamp, InsertStamp
  <2>2. ConnIsSane([up |-> TRUE, ins |-> {Version(n)}, del |-> {}], stored, dialect = "postgres")
    BY <1>1, FactsDiffer DEF ConnIsSane, ConnFields
  <2> QED
    BY <2>1, <2>2, WriteStep DEF StorageInv
<1>3. ProgramStep(c) /\ DOMAIN run'[c] = RunFields
  BY DEF Stamp, ProgramStep, StorageInv, PlaceIsTrue, RunFields
<1>4. run'[c].at = "migrate" /\ run'[c].next = n + 1
  BY DEF Stamp, StorageInv, PlaceIsTrue, RunFields
<1>5. n + 1 \in 1..Latest + 1 /\ (n + 1) - 1 = n
  BY <1>1 DEF Latest
<1>6. PlaceIsTrue(run'[c], stored', dialect = "postgres")
  BY <1>1, <1>2, <1>3, <1>4, <1>5 DEF PlaceIsTrue, Upgraded, HandlerLabels
<1> QED
  BY <1>2, <1>3, <1>6, StepKeeps

LEMMA ShouldRunKeeps ==
  ASSUME StorageInv, NEW c \in Clients, ShouldRun(c)
  PROVE  StorageInv'
<1> DEFINE n == run[c].next
<1>1. n \in 1..Latest /\ Done(n - 1, stored)
  BY DEF ShouldRun, At, StorageInv, PlaceIsTrue, Latest
<1>2. DatabaseStep(c) /\ stored' = stored
  BY QuietStep DEF ShouldRun, StorageInv
<1>3. /\ ProgramStep(c) /\ DOMAIN run'[c] = RunFields
      /\ run'[c].next = n
      /\ \/ run'[c].at = "stamp" /\ n = 6 /\ Column("played") \in Reads(c)
         \/ run'[c].at = "script"
  BY DEF ShouldRun, Goto, Guarded, ProgramStep, StorageInv, PlaceIsTrue, RunFields
<1>4. n = 6 /\ Column("played") \in Reads(c) => Done(n, stored)
  BY <1>1, EveryoneSees, Effects, DoneMeans DEF HasTheSchema, StorageInv
<1>5. n \in 1..Latest + 1
  BY <1>1 DEF Latest
<1>6. PlaceIsTrue(run'[c], stored', dialect = "postgres")
  BY <1>1, <1>2, <1>3, <1>4, <1>5 DEF PlaceIsTrue, Upgraded, HandlerLabels
<1> QED
  BY <1>2, <1>3, <1>6, StepKeeps

\* What a migration removes is retired, and what it adds is in use.
LEMMA MigrationsAre ==
  ASSUME NEW n \in 1..Latest, NEW facts
  PROVE  /\ Removes(n) \subseteq UNION {Drops(t) : t \in Retired}
         /\ \A t \in Retired : Table(t) \in Removes(n) => Secured(t) \in Removes(n)
         /\ Adds(n, facts) \subseteq
              {Table(t) : t \in Kept \cup {"schema_version"}} \cup {Column("played")}
         /\ Table("my_roster") \in Adds(n, facts) => Column("played") \in Adds(n, facts)
<1>1. /\ Removes(n) \subseteq UNION {Drops(t) : t \in Retired}
      /\ \A t \in Retired : Table(t) \in Removes(n) => Secured(t) \in Removes(n)
  BY FactsDiffer DEF Removes, Drops, Retired
<1>2. \A t \in Kept : /\ Creates(t, facts) \subseteq {Table(t), Column("played")}
                      /\ Table("my_roster") \in Creates(t, facts) =>
                           Column("played") \in Creates(t, facts)
  BY FactsDiffer DEF Creates
<1>3. Adds(n, facts) \in {Creates("job_runs", facts), Creates("my_roster", facts),
                          {Column("played")}, {}}
  BY DEF Adds
<1> QED
  BY <1>1, <1>2, <1>3, FactsDiffer DEF Kept

LEMMA RunMigrationKeeps ==
  ASSUME StorageInv, NEW c \in Clients, RunMigration(c)
  PROVE  StorageInv'
<1> DEFINE n == run[c].next
           rm == Removes(n)
           add == Adds(n, View(c))
<1>1. n \in 1..Latest /\ Done(n - 1, stored)
  BY DEF RunMigration, At, StorageInv, PlaceIsTrue
<1>2. ExecuteScript(c, rm, add)
  BY DEF RunMigration
<1>3. DatabaseStep(c)
  BY <1>1, <1>2, ScriptStep, MigrationsAre DEF StorageInv
<1>4. /\ ProgramStep(c) /\ DOMAIN run'[c] = RunFields
      /\ run'[c].at = "stamp" /\ run'[c].next = n
  BY DEF RunMigration, Goto, ProgramStep, StorageInv, PlaceIsTrue, RunFields
<1>5. Done(n, stored')
  <2>1. Done(n - 1, stored')
    BY <1>1, <1>3, LastingKeeps DEF DatabaseStep, Latest
  <2>2. stored' = (View(c) \ rm) \cup add
    BY <1>2 DEF ExecuteScript
  <2>3. CASE n \in {2, 3, 4}
    <3>1. add = {}
      BY <2>3 DEF Adds
    <3>2. Removes(n) \cap stored' = {}
      BY <2>2, <3>1
    <3> QED
      BY <1>1, <2>1, <2>3, <3>2, DoneMeans DEF Effective
  <2>4. CASE n \in {1, 5, 6}
    <3>1. rm = {}
      BY <2>4 DEF Removes
    <3>2. Effective(n, stored')
      BY <2>2, <2>4, <3>1, Effects DEF Adds, Creates
    <3> QED
      BY <1>1, <2>1, <3>2, DoneMeans
  <2> QED
    BY <1>1, <2>3, <2>4 DEF Latest
<1>6. PlaceIsTrue(run'[c], stored', dialect = "postgres")
  BY <1>1, <1>4, <1>5 DEF PlaceIsTrue, Upgraded, HandlerLabels
<1> QED
  BY <1>3, <1>4, <1>6, StepKeeps

LEMMA ReplayKeeps ==
  ASSUME StorageInv, NEW c \in Clients, Replay(c)
  PROVE  StorageInv'
<1>1. ExecuteScript(c, {}, Baseline(View(c))) /\ Goto(c, "rls")
  BY DEF Replay
<1>2. Done(Latest, stored)
  BY DEF Replay, At, StorageInv, PlaceIsTrue, Latest
<1>3. /\ Baseline(View(c)) \subseteq
           {Table(t) : t \in Kept \cup {"schema_version"}} \cup {Column("played")}
      /\ Table("my_roster") \in Baseline(View(c)) => Column("played") \in Baseline(View(c))
  BY FactsDiffer DEF Baseline, Creates, Kept
<1>4. DatabaseStep(c)
  BY <1>1, <1>3, ScriptStep DEF StorageInv
<1>5. Done(Latest, stored')
  BY <1>2, <1>4, LastingKeeps DEF DatabaseStep, Latest
<1>6. ProgramStep(c) /\ DOMAIN run'[c] = RunFields /\ run'[c].at = "rls"
  BY <1>1 DEF Goto, ProgramStep, StorageInv, PlaceIsTrue, RunFields
<1>7. PlaceIsTrue(run'[c], stored', dialect = "postgres")
  BY <1>5, <1>6, UpgradedPlace DEF Upgraded, HandlerLabels
<1> QED
  BY <1>4, <1>6, <1>7, StepKeeps

LEMMA FindOpenKeeps ==
  ASSUME StorageInv, NEW c \in Clients, FindOpen(c)
  PROVE  StorageInv'
<1>1. DatabaseStep(c) /\ stored' = stored
  BY QuietStep DEF FindOpen, StorageInv
<1>2. Done(Latest, stored)
  BY DEF FindOpen, At, StorageInv, PlaceIsTrue, Upgraded
<1>3. ProgramStep(c) /\ DOMAIN run'[c] = RunFields
  BY DEF FindOpen, ProgramStep, StorageInv, PlaceIsTrue, RunFields
<1>4. \/ run'[c].at = "ready"
      \/ run'[c].at = "secure" /\ dialect = "postgres" /\ run'[c].aim \subseteq Tables
  BY DEF FindOpen, Open, StorageInv, PlaceIsTrue, RunFields
<1>5. PlaceIsTrue(run'[c], stored', dialect = "postgres")
  BY <1>1, <1>2, <1>3, <1>4 DEF PlaceIsTrue, Upgraded, HandlerLabels
<1> QED
  BY <1>1, <1>3, <1>5, StepKeeps

LEMMA SecureTableKeeps ==
  ASSUME StorageInv, NEW c \in Clients, SecureTable(c)
  PROVE  StorageInv'
<1>1. Done(Latest, stored) /\ dialect = "postgres" /\ run[c].aim \subseteq Tables
  BY DEF SecureTable, At, StorageInv, PlaceIsTrue, Upgraded
<1>2. PICK t \in run[c].aim :
        /\ run' = [run EXCEPT ![c].aim = run[c].aim \ {t},
                              ![c].at = IF run[c].aim = {t} THEN "secured" ELSE run[c].at]
        /\ \/ Table(t) \in Reads(c) /\ Execute(c, {}, {Secured(t)})
           \/ Refused(c)
  BY DEF SecureTable
<1>3. DatabaseStep(c) /\ stored' = stored
  <2>1. CASE Table(t) \in Reads(c) /\ Execute(c, {}, {Secured(t)})
    <3>1. t \in Tables /\ Table(t) \in stored
      BY <1>1, <1>2, <2>1, EveryoneSees DEF HasTheSchema, StorageInv
    <3>2. ConnIsSane([up |-> TRUE, ins |-> {Secured(t)}, del |-> {}], stored,
                     dialect = "postgres")
      BY <1>1, <3>1, FactsDiffer DEF ConnIsSane, ConnFields
    <3> QED
      BY <2>1, <3>2, WriteStep DEF StorageInv
  <2>2. CASE Refused(c)
    BY <2>2, QuietStep DEF StorageInv
  <2> QED
    BY <1>2, <2>1, <2>2
<1>4. ProgramStep(c) /\ DOMAIN run'[c] = RunFields
  BY <1>2 DEF ProgramStep, StorageInv, PlaceIsTrue, RunFields
<1>5. run[c].at = "secure"
  BY DEF SecureTable, At
<1>6. run'[c].at \in {"secure", "secured"} /\ run'[c].aim \subseteq Tables
  BY <1>1, <1>2, <1>5 DEF StorageInv, PlaceIsTrue, RunFields
<1>7. PlaceIsTrue(run'[c], stored', dialect = "postgres")
  BY <1>1, <1>3, <1>4, <1>6 DEF PlaceIsTrue, Upgraded, HandlerLabels
<1> QED
  BY <1>3, <1>4, <1>7, StepKeeps

-----------------------------------------------------------------------------
(* The other steps: wherever they lead, the schema is current if it has to  *)
(* be.                                                                      *)

\* Places that mean nothing of the schema.
Plain == {"off", "versions", "look", "record"}

\* A step that stays among the handlers, or goes to a plain place.
LEMMA HandlerStepKeeps ==
  ASSUME StorageInv, NEW c \in Clients, DatabaseStep(c), ProgramStep(c),
         DOMAIN run'[c] = RunFields,
         \/ run'[c].at \in Plain
         \/ run[c].at \in Upgraded /\ run'[c].at \in Upgraded \ {"secure", "delete"}
  PROVE  StorageInv'
<1>1. run[c].at \in Upgraded => Done(Latest, stored)
  BY DEF StorageInv, PlaceIsTrue
<1>2. Done(Latest, stored) => Done(Latest, stored')
  BY LastingKeeps DEF DatabaseStep, Latest
<1>3. PlaceIsTrue(run'[c], stored', dialect = "postgres")
  BY <1>1, <1>2, UpgradedPlace DEF Plain, Upgraded, HandlerLabels
<1> QED
  BY <1>3, StepKeeps

\* A commit is a step of the database.
LEMMA CommitStep ==
  ASSUME StorageInv, NEW c \in Clients, Commit(c)
  PROVE  DatabaseStep(c)
  BY StoreStep DEF Commit, StorageInv

LEMMA OtherApplyStepsKeep ==
  ASSUME StorageInv, NEW c \in Clients,
         CommitStamps(c) \/ MigrationFails(c) \/ CommitSecured(c) \/ ScriptOnDeadConnection(c)
  PROVE  StorageInv'
<1> USE DEF Goto, ProgramStep, StorageInv, PlaceIsTrue, RunFields
<1>1. CASE CommitStamps(c)
  <2>1. ProgramStep(c) /\ DOMAIN run'[c] = RunFields
        /\ run[c].at = "stamped" /\ run'[c].at = "rls"
    BY <1>1 DEF CommitStamps, At
  <2> QED
    BY <1>1, <2>1, CommitStep, HandlerStepKeeps DEF CommitStamps, Upgraded
<1>2. CASE CommitSecured(c)
  <2>1. ProgramStep(c) /\ DOMAIN run'[c] = RunFields
        /\ run[c].at = "secured" /\ run'[c].at = "ready"
    BY <1>2 DEF CommitSecured, At
  <2> QED
    BY <1>2, <2>1, CommitStep, HandlerStepKeeps DEF CommitSecured, Upgraded
<1>3. CASE MigrationFails(c) \/ ScriptOnDeadConnection(c)
  <2>1. StartupFails(c)
    BY <1>3 DEF MigrationFails, ScriptOnDeadConnection
  <2>2. ProgramStep(c) /\ DOMAIN run'[c] = RunFields /\ run'[c].at = "off"
    BY <2>1 DEF StartupFails, Stopped
  <2>3. DatabaseStep(c)
    BY <2>1, QuietStep DEF StartupFails
  <2> QED
    BY <2>2, <2>3, HandlerStepKeeps DEF Plain
<1> QED
  BY <1>1, <1>2, <1>3

\* Roster rows and Yahoo's data are no part of the schema.
LEMMA RowsAreNotSchema ==
  ASSUME NEW facts, NEW u
  PROVE  /\ SpotsIn(facts) \cap SchemaFacts = {} /\ EverySpot \cap SchemaFacts = {}
         /\ {Yahoo(u)} \cap SchemaFacts = {}
<1>1. ASSUME NEW f \in SchemaFacts, NEW k
      PROVE  f # Spot(k) /\ f # Yahoo(u)
  BY FactsDiffer DEF SchemaFacts
<1> QED
  BY <1>1 DEF SpotsIn, EverySpot

\* Rows may be written at any place.
LEMMA RowsAreHarmless ==
  ASSUME NEW add, NEW facts, NEW postgres, add \cap SchemaFacts = {}
  PROVE  ConnIsSane([up |-> TRUE, ins |-> add, del |-> {}], facts, postgres)
  BY SchemaFactsAre DEF ConnIsSane, ConnFields

\* Where an exception, or the end of a handler, leads.
LEMMA HandledIs ==
  ASSUME NEW c
  PROVE  Handled(c) \in Plain \cup (Upgraded \ {"secure", "delete"})
  BY DEF Handled, Plain, Upgraded

LEMMA SaveRosterKeeps ==
  ASSUME StorageInv, NEW c \in Clients, SaveRoster(c)
  PROVE  StorageInv'
<1>1. CASE BeginSave(c)
  <2>1. DatabaseStep(c) /\ stored' = stored
    BY <1>1, QuietStep DEF BeginSave, StorageInv
  <2>2. /\ ProgramStep(c) /\ DOMAIN run'[c] = RunFields
        /\ run'[c].at = "delete" /\ run'[c].aim = SpotsIn(Reads(c))
    BY <1>1 DEF BeginSave, ProgramStep, StorageInv, PlaceIsTrue, RunFields
  <2>3. Done(Latest, stored)
    BY <1>1 DEF BeginSave, At, StorageInv, PlaceIsTrue, Upgraded
  <2>4. PlaceIsTrue(run'[c], stored', dialect = "postgres")
    BY <2>1, <2>2, <2>3, RowsAreNotSchema DEF PlaceIsTrue, Upgraded, HandlerLabels
  <2> QED
    BY <2>1, <2>2, <2>4, StepKeeps
<1>2. CASE DeleteRoster(c)
  <2>1. Doomed(c) \cap SchemaFacts = {}
    BY <1>2, RowsAreNotSchema DEF Doomed, DeleteRoster, At, StorageInv, PlaceIsTrue
  <2>2. DatabaseStep(c)
    BY <1>2, <2>1, RowsAreHarmless, WriteStep DEF DeleteRoster, StorageInv
  <2>3. /\ ProgramStep(c) /\ DOMAIN run'[c] = RunFields
        /\ run[c].at = "delete" /\ run'[c].at = "insert"
    BY <1>2 DEF DeleteRoster, At, Goto, ProgramStep, StorageInv, PlaceIsTrue, RunFields
  <2> QED
    BY <2>2, <2>3, HandlerStepKeeps DEF Upgraded, HandlerLabels
<1>3. CASE InsertSpot(c)
  <2> DEFINE spot == Spot(Head(run[c].left))
  <2>1. {spot} \cap SchemaFacts = {}
    BY FactsDiffer DEF SchemaFacts
  <2>2. DatabaseStep(c)
    BY <1>3, <2>1, RowsAreHarmless, WriteStep DEF InsertSpot, StorageInv
  <2>3. /\ ProgramStep(c) /\ DOMAIN run'[c] = RunFields
        /\ run[c].at = "insert" /\ run'[c].at \in {"insert", "commit"}
    BY <1>3 DEF InsertSpot, At, ProgramStep, StorageInv, PlaceIsTrue, RunFields
  <2> QED
    BY <2>2, <2>3, HandlerStepKeeps DEF Upgraded, HandlerLabels
<1>4. CASE DuplicateSpot(c)
  <2>1. DatabaseStep(c)
    BY <1>4, QuietStep DEF DuplicateSpot, StorageInv
  <2>2. /\ ProgramStep(c) /\ DOMAIN run'[c] = RunFields
        /\ run[c].at = "insert" /\ run'[c].at = Handled(c)
    BY <1>4 DEF DuplicateSpot, At, Goto, ProgramStep, StorageInv, PlaceIsTrue, RunFields
  <2> QED
    BY <2>1, <2>2, HandledIs, HandlerStepKeeps DEF Upgraded, HandlerLabels
<1>5. CASE CommitRoster(c)
  <2>1. DatabaseStep(c)
    BY <1>5, CommitStep DEF CommitRoster
  <2>2. /\ ProgramStep(c) /\ DOMAIN run'[c] = RunFields
        /\ run[c].at = "commit" /\ run'[c].at = Handled(c)
    BY <1>5 DEF CommitRoster, At, Goto, ProgramStep, StorageInv, PlaceIsTrue, RunFields
  <2> QED
    BY <2>1, <2>2, HandledIs, HandlerStepKeeps DEF Upgraded, HandlerLabels
<1> QED
  BY <1>1, <1>2, <1>3, <1>4, <1>5 DEF SaveRoster

LEMMA PurgeKeeps ==
  ASSUME StorageInv, NEW c \in Clients, Purge(c)
  PROVE  StorageInv'
<1>1. CASE BeginPurge(c)
  <2>1. DatabaseStep(c)
    BY <1>1, QuietStep DEF BeginPurge, StorageInv
  <2>2. /\ ProgramStep(c) /\ DOMAIN run'[c] = RunFields
        /\ run[c].at = "ready" /\ run'[c].at = "purge"
    BY <1>1 DEF BeginPurge, At, ProgramStep, StorageInv, PlaceIsTrue, RunFields
  <2> QED
    BY <2>1, <2>2, HandlerStepKeeps DEF Upgraded, HandlerLabels
<1>2. CASE PurgeTable(c) \/ SkipTable(c)
  <2>1. ASSUME PurgeTable(c)
        PROVE  DatabaseStep(c)
    <3>1. {} \cap SchemaFacts = {}
      OBVIOUS
    <3>2. {Yahoo(Head(run[c].left))} \cap SchemaFacts = {}
      BY RowsAreNotSchema
    <3> QED
      BY <2>1, <3>1, <3>2, RowsAreHarmless, WriteStep DEF PurgeTable, StorageInv
  <2>2. DatabaseStep(c)
    BY <1>2, <2>1, QuietStep DEF SkipTable, StorageInv
  <2>3. /\ ProgramStep(c) /\ DOMAIN run'[c] = RunFields
        /\ run[c].at = "purge" /\ run'[c].at \in {"purge", "purged"}
    BY <1>2 DEF PurgeTable, SkipTable, NextTable, At, ProgramStep, StorageInv, PlaceIsTrue,
                RunFields
  <2> QED
    BY <2>2, <2>3, HandlerStepKeeps DEF Upgraded, HandlerLabels
<1>3. CASE CommitPurge(c)
  <2>1. DatabaseStep(c)
    BY <1>3, CommitStep DEF CommitPurge
  <2>2. /\ ProgramStep(c) /\ DOMAIN run'[c] = RunFields
        /\ run[c].at = "purged" /\ run'[c].at = Handled(c)
    BY <1>3 DEF CommitPurge, At, Goto, ProgramStep, StorageInv, PlaceIsTrue, RunFields
  <2> QED
    BY <2>1, <2>2, HandledIs, HandlerStepKeeps DEF Upgraded, HandlerLabels
<1> QED
  BY <1>1, <1>2, <1>3 DEF Purge

\* Connecting, finishing, and main's row of job_runs.
LEMMA ProcessStepsKeep ==
  ASSUME StorageInv, NEW c \in Clients, Connect(c) \/ Finish(c) \/ RecordAndClose(c)
  PROVE  StorageInv'
<1>1. CASE Connect(c)
  <2>1. Rollback(c)
    BY <1>1 DEF Connect, Rollback
  <2>2. DatabaseStep(c)
    BY <2>1, QuietStep DEF StorageInv
  <2>3. ProgramStep(c) /\ DOMAIN run'[c] = RunFields /\ run'[c].at = "versions"
    BY <1>1 DEF Connect, Stopped, ProgramStep, StorageInv, PlaceIsTrue, RunFields
  <2> QED
    BY <2>2, <2>3, HandlerStepKeeps DEF Plain
<1>2. CASE Finish(c)
  <2>1. DatabaseStep(c)
    BY <1>2, QuietStep DEF Finish, StorageInv
  <2>2. ProgramStep(c) /\ DOMAIN run'[c] = RunFields /\ run'[c].at = "record"
    BY <1>2 DEF Finish, Goto, ProgramStep, StorageInv, PlaceIsTrue, RunFields
  <2> QED
    BY <2>1, <2>2, HandlerStepKeeps DEF Plain
<1>3. CASE RecordAndClose(c)
  <2>1. DatabaseStep(c)
    BY <1>3, StoreStep DEF RecordAndClose, StorageInv
  <2>2. ProgramStep(c) /\ DOMAIN run'[c] = RunFields /\ run'[c].at = "off"
    BY <1>3 DEF RecordAndClose, Stopped, ProgramStep, StorageInv, PlaceIsTrue, RunFields
  <2> QED
    BY <2>1, <2>2, HandlerStepKeeps DEF Plain
<1> QED
  BY <1>1, <1>2, <1>3

\* Crashes, interrupts, lost connections and the other pages.
LEMMA FaultsKeep ==
  ASSUME StorageInv, NEW c \in Clients, Faulty(c)
  PROVE  StorageInv'
<1>1. CASE Crash(c)
  <2>1. DatabaseStep(c)
    BY <1>1, QuietStep DEF Crash, StorageInv
  <2>2. ProgramStep(c) /\ DOMAIN run'[c] = RunFields /\ run'[c].at = "off"
    BY <1>1 DEF Crash, Stopped, ProgramStep, StorageInv, PlaceIsTrue, RunFields
  <2> QED
    BY <2>1, <2>2, HandlerStepKeeps DEF Plain
<1>2. CASE Interrupt(c)
  <2>1. DatabaseStep(c)
    BY <1>2, QuietStep DEF Interrupt, StorageInv
  <2>2. ProgramStep(c) /\ DOMAIN run'[c] = RunFields /\ run'[c].at = "record"
    BY <1>2 DEF Interrupt, Goto, ProgramStep, StorageInv, PlaceIsTrue, RunFields
  <2> QED
    BY <2>1, <2>2, HandlerStepKeeps DEF Plain
<1>3. CASE LoseConnection(c) \/ PageFails(c)
  <2>1. DatabaseStep(c) /\ stored' = stored
    BY <1>3, QuietStep DEF LoseConnection, PageFails, StorageInv
  <2>2. ProgramStep(c) /\ run' = run
    BY <1>3 DEF LoseConnection, PageFails, ProgramStep, StorageInv
  <2>3. PlaceIsTrue(run'[c], stored', dialect = "postgres")
    BY <2>1, <2>2 DEF StorageInv
  <2> QED
    BY <2>1, <2>2, <2>3, StepKeeps
<1>4. CASE PageCommits(c)
  <2>1. DatabaseStep(c)
    BY <1>4, CommitStep DEF PageCommits
  <2>2. ProgramStep(c) /\ run' = run
    BY <1>4 DEF PageCommits, ProgramStep, StorageInv
  <2>3. PlaceIsTrue(run[c], stored, dialect = "postgres") /\ Lasting(stored, stored')
    BY <2>1 DEF StorageInv, DatabaseStep
  <2>4. PlaceIsTrue(run'[c], stored', dialect = "postgres")
    BY <2>2, <2>3, PlacesLast
  <2> QED
    BY <2>1, <2>2, <2>4, StepKeeps
<1>5. CASE GoneAtCommit(c)
  <2>1. DatabaseStep(c)
    BY <1>5, QuietStep DEF GoneAtCommit, StorageInv
  <2>2. /\ ProgramStep(c) /\ DOMAIN run'[c] = RunFields
        /\ run[c].at \in {"commit", "purged"} /\ run'[c].at = Handled(c)
    BY <1>5 DEF GoneAtCommit, Goto, ProgramStep, StorageInv, PlaceIsTrue, RunFields
  <2> QED
    BY <2>1, <2>2, HandledIs, HandlerStepKeeps DEF Upgraded, HandlerLabels
<1> QED
  BY <1>1, <1>2, <1>3, <1>4, <1>5 DEF Faulty

-----------------------------------------------------------------------------
\* Every database a behaviour may start from is sane.
LEMMA StorageInvInit == Init => StorageInv
<1> SUFFICES ASSUME Init
             PROVE  StorageInv
  OBVIOUS
<1>1. FactsAreSane(stored)
  <2>1. /\ \A n \in 1..CurrentVersion(stored) : Effective(n, stored)
        /\ \A t \in Tables : Secured(t) \in stored => Table(t) \in stored
        /\ Table("players") \in stored \/ Clean(stored)
    BY StartingAssumption DEF Init
  <2>2. CurrentVersion(stored) \in 0..Latest
    BY CurrentVersionIs
  <2>3. \A n \in 1..Latest : Version(n) \in stored => n <= CurrentVersion(stored)
    BY CurrentVersionIs
  <2>4. \A n \in 1..Latest : Version(n) \in stored => Done(n, stored)
    BY <2>1, <2>2, <2>3 DEF Done, Latest
  <2> QED
    BY <2>1, <2>4 DEF FactsAreSane
<1>2. \A c \in Clients : conn[c] = Idle /\ run[c] = Stopped
  BY DEF Init
<1>3. DatabaseIsSane
  BY <1>1, <1>2, IdleIsSane DEF Init, DatabaseIsSane, Idle, ConnFields
<1>4. PlaceIsTrue(Stopped, stored, dialect = "postgres")
  BY UpgradedPlace DEF Stopped, RunFields, Upgraded, HandlerLabels
<1> QED
  BY <1>2, <1>3, <1>4 DEF Init, StorageInv

\* Every step of every process, and every fault, keeps the invariant.
LEMMA StorageInvStep == StorageInv /\ [Next]_sessionVars => StorageInv'
<1> SUFFICES ASSUME StorageInv, [Next]_sessionVars
             PROVE  StorageInv'
  OBVIOUS
<1>1. ASSUME NEW c \in Clients, Apply(c)
      PROVE  StorageInv'
  BY <1>1, CreateVersionTableKeeps, LookKeeps, CreateBaselineKeeps, ReadVersionKeeps,
     StampAllKeeps, ShouldRunKeeps, RunMigrationKeeps, StampKeeps, ReplayKeeps,
     FindOpenKeeps, SecureTableKeeps, OtherApplyStepsKeep DEF Apply
<1>2. ASSUME NEW c \in Clients, Steps(c) \/ Faulty(c)
      PROVE  StorageInv'
  BY <1>1, <1>2, SaveRosterKeeps, PurgeKeeps, ProcessStepsKeep, FaultsKeep DEF Steps
<1>3. CASE UNCHANGED sessionVars
  <2>1. UNCHANGED <<dialect, stored, conn, run>>
    BY <1>3 DEF sessionVars, dbVars
  <2> QED
    BY <2>1 DEF StorageInv, DatabaseIsSane
<1> QED
  BY <1>2, <1>3 DEF Next

(***************************************************************************)
(* A recorded version is true, for any number of processes that upgrade,   *)
(* save, purge, crash and lose their connections on any database some      *)
(* version of the program has left (apply, src/schema.py:171).             *)
(***************************************************************************)
THEOREM VersionsAreTrue == Spec => []VersionIsTrue
<1>1. StorageInv => VersionIsTrue
  <2> SUFFICES ASSUME StorageInv
               PROVE  VersionIsTrue
    OBVIOUS
  <2>1. CurrentVersion(stored) \in 0..Latest
        /\ (CurrentVersion(stored) # 0 => Version(CurrentVersion(stored)) \in stored)
    BY CurrentVersionIs
  <2>2. Done(CurrentVersion(stored), stored)
    BY <2>1, DoneMeans DEF StorageInv, DatabaseIsSane, FactsAreSane, Latest
  <2> QED
    BY <2>2 DEF VersionIsTrue, Done
<1> QED
  BY StorageInvInit, StorageInvStep, <1>1, PTL DEF Spec

(***************************************************************************)
(* No handler and no page runs on an older schema, whoever else upgrades   *)
(* the same database (init_db, src/db.py:390).                             *)
(***************************************************************************)
THEOREM HandlersFindTheSchema == Spec => []ReadyMeansCurrent
<1>1. StorageInv => ReadyMeansCurrent
  BY DEF StorageInv, PlaceIsTrue, ReadyMeansCurrent, At, Handling, Upgraded, Done
<1> QED
  BY StorageInvInit, StorageInvStep, <1>1, PTL DEF Spec
-----------------------------------------------------------------------------
(* The roster.  What a save has yet to do, together with what its client    *)
(* already sees, is one of the pastes; and nobody else is at its rows.      *)

Rosters == {Named(p) : p \in Pastes}

\* Nothing is pending for the roster.
NoSpots(facts) == \A k \in Players : Spot(k) \notin facts

RosterFree(x) == NoSpots(x.ins) /\ NoSpots(x.del)

AtRows(c) == run[c].at \in {"insert", "commit"}

\* A dashboard keeps what a save that failed on SQLite has written.
MayHold(c) ==
  \/ AtRows(c) \/ At(c, "record")
  \/ c \in Dashboards /\ dialect = "sqlite" /\ run[c].at \in {"ready", "delete"}

SaveIsOnItsWay(c) ==
  /\ At(c, "delete") => run[c].left \in Pastes
  /\ At(c, "delete") /\ dialect = "postgres" => run[c].aim = SpotsIn(Reads(c))
  /\ AtRows(c) =>
       /\ run[c].left \in Seq(Players)
       /\ run[c].left = <<>> <=> At(c, "commit")
       /\ RosterIn(Reads(c)) \cup Named(run[c].left) \in Rosters
       /\ dialect = "sqlite" => Touched(c) # {}

\* No second client is at its rows, nor on Postgres in a save at all.
Alone(c) ==
  \A d \in Clients \ {c} :
     /\ ~(AtRows(c) /\ AtRows(d))
     /\ dialect = "postgres" => ~(Saving(c) /\ Saving(d))

PendingIsKnown(c) ==
  /\ MayHold(c) \/ RosterFree(conn[c])
  /\ ~conn[c].up => RosterFree(conn[c])

RosterGoesOn ==
  /\ RosterIn(stored) \in {{}} \cup Rosters
  /\ \A c \in Clients : SaveIsOnItsWay(c) /\ Alone(c)

RosterInv ==
  /\ dialect \in Dialects
  /\ \A c \in Clients : PendingIsKnown(c)
  /\ ~disturbed => RosterGoesOn

\* A step in the name of c alone.
OnlyBy(c) ==
  /\ dialect' = dialect
  /\ DOMAIN conn' = Clients /\ DOMAIN run' = Clients
  /\ \A d \in Clients \ {c} : conn'[d] = conn[d] /\ run'[d] = run[d]
  /\ disturbed => disturbed'

\* The stored roster stays what it is.
SameRoster == \A k \in Players : Spot(k) \in stored' <=> Spot(k) \in stored

\* The roster is told by its rows.
LEMMA RosterIsItsRows ==
  ASSUME NEW a, NEW b, \A k \in Players : Spot(k) \in a <=> Spot(k) \in b
  PROVE  RosterIn(a) = RosterIn(b) /\ SpotsIn(a) = SpotsIn(b)
BY DEF RosterIn, SpotsIn

\* What another client is doing is left alone.
LEMMA OthersGoOn ==
  ASSUME NEW c \in Clients, OnlyBy(c), SameRoster, NEW d \in Clients \ {c}, SaveIsOnItsWay(d)
  PROVE  SaveIsOnItsWay(d)'
<1>1. conn'[d] = conn[d] /\ run'[d] = run[d] /\ dialect' = dialect
  BY DEF OnlyBy
<1>2. Live(d)' = Live(d) /\ Touched(d)' = Touched(d)
  BY <1>1 DEF Live, Touched
<1>3. \A k \in Players : Spot(k) \in Reads(d)' <=> Spot(k) \in Reads(d)
  BY <1>2 DEF SameRoster, Reads
<1>4. RosterIn(Reads(d)') = RosterIn(Reads(d)) /\ SpotsIn(Reads(d)') = SpotsIn(Reads(d))
  BY <1>3, RosterIsItsRows
<1>5. RosterIn(Reads(d))' = RosterIn(Reads(d)) /\ SpotsIn(Reads(d))' = SpotsIn(Reads(d))
  BY <1>4 DEF RosterIn, SpotsIn
<1> QED
  BY <1>1, <1>2, <1>5 DEF SaveIsOnItsWay, At, AtRows

\* What a step of c has to keep.
LEMMA RosterStep ==
  ASSUME RosterInv, NEW c \in Clients, OnlyBy(c), PendingIsKnown(c)',
         ~disturbed' =>
            /\ (RosterIn(stored) \in {{}} \cup Rosters)'
            /\ \A d \in Clients : SaveIsOnItsWay(d)'
            /\ Alone(c)'
  PROVE  RosterInv'
<1>1. ASSUME NEW d \in Clients
      PROVE  PendingIsKnown(d)'
  BY <1>1 DEF RosterInv, PendingIsKnown, OnlyBy, MayHold, AtRows, At
<1>2. ASSUME ~disturbed', NEW d \in Clients
      PROVE  Alone(d)'
  <2>1. ~disturbed /\ RosterGoesOn
    BY <1>2 DEF RosterInv, OnlyBy
  <2>2. CASE d = c
    BY <1>2, <2>2
  <2>3. CASE d # c
    <3>1. Alone(d) /\ Alone(c)'
      BY <1>2, <2>1 DEF RosterGoesOn
    <3> QED
      BY <2>3, <3>1 DEF Alone, OnlyBy, AtRows, Saving
  <2> QED
    BY <2>2, <2>3
<1> QED
  BY <1>1, <1>2 DEF RosterInv, RosterGoesOn, OnlyBy

\* A step that is no part of a save.
LEMMA StepAside ==
  ASSUME RosterInv, NEW c \in Clients, OnlyBy(c), PendingIsKnown(c)',
         ~disturbed' => SameRoster, ~Saving(c)'
  PROVE  RosterInv'
<1>1. ASSUME ~disturbed'
      PROVE  /\ (RosterIn(stored) \in {{}} \cup Rosters)'
             /\ \A d \in Clients : SaveIsOnItsWay(d)'
             /\ Alone(c)'
  <2>1. RosterGoesOn /\ SameRoster
    BY <1>1 DEF RosterInv, OnlyBy
  <2>2. RosterIn(stored)' = RosterIn(stored)
    BY <2>1, RosterIsItsRows DEF SameRoster, RosterIn
  <2>3. SaveIsOnItsWay(c)'
    BY DEF SaveIsOnItsWay, Saving, AtRows, At
  <2>4. ASSUME NEW d \in Clients \ {c}
        PROVE  SaveIsOnItsWay(d)'
    BY <2>1, <2>4, OthersGoOn DEF RosterGoesOn
  <2>5. Alone(c)'
    BY DEF Alone, Saving, AtRows
  <2>6. (RosterIn(stored) \in {{}} \cup Rosters)'
    BY <2>1, <2>2 DEF RosterGoesOn, Rosters
  <2> QED
    BY <2>3, <2>4, <2>5, <2>6
<1> QED
  BY <1>1, RosterStep

NoYahoo(facts) == facts \cap YahooFacts = {}

\* What a statement of c may do that is none of save_roster's.
Erasable(rm) == NoSpots(rm) /\ Table("players") \notin rm

Addable(add) == NoSpots(add) /\ NoYahoo(add)

WritesNoSpots(c) ==
  \/ Query(c) \/ Refused(c) \/ Rollback(c) \/ Drop(c) \/ UNCHANGED dbVars \/ Commit(c)
  \/ \E rm, add : /\ Erasable(rm) /\ Addable(add)
                  /\ Execute(c, rm, add) \/ ExecuteScript(c, rm, add)

LEMMA FreeStaysFree ==
  ASSUME StorageInv, NEW c \in Clients, RosterFree(conn[c]), WritesNoSpots(c)
  PROVE  RosterFree(conn'[c]) /\ SameRoster
<1>1. DOMAIN conn = Clients
  BY DEF StorageInv, DatabaseIsSane
<1>2. RosterFree(Idle) /\ RosterFree([up |-> FALSE, ins |-> {}, del |-> {}])
  BY DEF RosterFree, NoSpots, Idle
<1>3. RosterFree(Live(c))
  BY <1>2 DEF Live
<1>4. CASE Query(c) \/ Refused(c) \/ Rollback(c) \/ Drop(c) \/ UNCHANGED dbVars
  <2>1. stored' = stored
    BY <1>4 DEF Query, Refused, Rollback, Drop, dbVars
  <2>2. conn'[c] \in {conn[c], Live(c), Idle, [up |-> FALSE, ins |-> {}, del |-> {}]}
    BY <1>1, <1>4 DEF Query, Refused, Rollback, Drop, dbVars
  <2> QED
    BY <1>2, <1>3, <2>1, <2>2 DEF SameRoster
<1>5. CASE Commit(c)
  BY <1>1, <1>2, <1>5 DEF Commit, View, SameRoster, RosterFree, NoSpots
<1>6. ASSUME NEW rm, NEW add, Erasable(rm), Addable(add), Execute(c, rm, add)
      PROVE  RosterFree(conn'[c]) /\ SameRoster
  <2>1. stored' = stored /\ conn'[c] = Writes(c, rm, add)
    BY <1>1, <1>6 DEF Execute
  <2> QED
    BY <1>3, <1>6, <2>1 DEF Writes, SameRoster, RosterFree, NoSpots, Erasable, Addable
<1>7. ASSUME NEW rm, NEW add, Erasable(rm), Addable(add), ExecuteScript(c, rm, add)
      PROVE  RosterFree(conn'[c]) /\ SameRoster
  BY <1>1, <1>2, <1>7 DEF ExecuteScript, View, SameRoster, RosterFree, NoSpots, Erasable, Addable
<1> QED
  BY <1>4, <1>5, <1>6, <1>7 DEF WritesNoSpots

\* The schema is no spot and none of Yahoo's data.
LEMMA AddableFacts ==
  /\ Addable({})
  /\ \A n : Addable({Version(n)})
  /\ \A t : Addable({Table(t)}) /\ Addable({Secured(t)}) /\ Addable({Column(t)})
<1>1. ASSUME NEW k
      PROVE  /\ \A n : Spot(k) # Version(n)
             /\ \A t : Spot(k) # Table(t) /\ Spot(k) # Secured(t) /\ Spot(k) # Column(t)
  BY FactsDiffer
<1>2. \A f \in YahooFacts : \E u : f = Yahoo(u)
  BY DEF YahooFacts
<1>3. ASSUME NEW f \in YahooFacts
      PROVE  /\ \A n : f # Version(n)
             /\ \A t : f # Table(t) /\ f # Secured(t) /\ f # Column(t)
  BY <1>2, FactsDiffer
<1> QED
  BY <1>1, <1>3 DEF Addable, NoSpots, NoYahoo

\* Nor is a table's data, or its security, the table of players.
LEMMA ErasableFacts ==
  /\ Erasable({})
  /\ \A u : Erasable({Yahoo(u)})
  /\ \A t \in Retired : Erasable(Drops(t))
<1>1. \A u, k : Yahoo(u) # Spot(k) /\ Yahoo(u) # Table("players")
  BY FactsDiffer
<1>2. \A t, k : /\ Table(t) # Spot(k) /\ Secured(t) # Spot(k)
                /\ Secured(t) # Table("players") /\ (Table(t) = Table("players") => t = "players")
  BY FactsDiffer
<1>3. "players" \notin Retired
  BY DEF Retired
<1> QED
  BY <1>1, <1>2, <1>3 DEF Erasable, NoSpots, Drops

\* The step of c that is no part of a save, when nothing of c's is pending.
LEMMA FreeStepAside ==
  ASSUME StorageInv, RosterInv, NEW c \in Clients, WritesNoSpots(c), OnlyBy(c),
         RosterFree(conn[c]), ~Saving(c)'
  PROVE  RosterInv'
<1>1. RosterFree(conn'[c]) /\ SameRoster
  BY FreeStaysFree
<1>2. PendingIsKnown(c)'
  BY <1>1 DEF PendingIsKnown, RosterFree, NoSpots
<1> QED
  BY <1>1, <1>2, StepAside

\* What apply() does to the database.
LEMMA ApplyWritesNoSpots ==
  ASSUME StorageInv, NEW c \in Clients, Apply(c)
  PROVE  WritesNoSpots(c)
<1>1. Erasable({}) /\ Addable({}) /\ \A n : Addable({Version(n)})
  BY AddableFacts, ErasableFacts
<1>2. ASSUME NEW view
      PROVE  Addable(Baseline(view)) /\ \A n : Addable(Adds(n, view)) /\ Erasable(Removes(n))
  <2>1. \A t : Addable(Creates(t, view))
    BY AddableFacts DEF Creates, Addable, NoSpots, NoYahoo
  <2>2. Addable(Baseline(view))
    BY <2>1 DEF Baseline, Addable, NoSpots, NoYahoo
  <2>3. \A n : Removes(n) = {} \/ \E t \in Retired : Removes(n) = Drops(t)
    BY DEF Removes, Retired
  <2>4. \A n : Adds(n, view) \in {{}, {Column("played")}} \/ \E t : Adds(n, view) = Creates(t, view)
    BY DEF Adds
  <2>5. \A n : Erasable(Removes(n))
    BY <1>1, <2>3, ErasableFacts
  <2>6. \A n : Addable(Adds(n, view))
    BY <1>1, <2>1, <2>4, AddableFacts
  <2> QED
    BY <2>2, <2>5, <2>6
<1>3. CASE \/ Look(c) \/ ReadVersion(c) \/ CommitStamps(c) \/ ShouldRun(c)
           \/ MigrationFails(c) \/ FindOpen(c) \/ CommitSecured(c) \/ ScriptOnDeadConnection(c)
  BY <1>3 DEF WritesNoSpots, Look, ReadVersion, CommitStamps, ShouldRun,
     MigrationFails, FindOpen, CommitSecured, ScriptOnDeadConnection, StartupFails
<1>4. CASE CreateVersionTable(c)
  <2>1. Addable({Table("schema_version")}) /\ ExecuteScript(c, {}, {Table("schema_version")})
    BY <1>4, AddableFacts DEF CreateVersionTable
  <2> QED
    BY <1>1, <2>1 DEF WritesNoSpots
<1>5. CASE CreateBaseline(c) \/ Replay(c)
  <2>1. ExecuteScript(c, {}, Baseline(View(c)))
    BY <1>5 DEF CreateBaseline, Replay
  <2> QED
    BY <1>1, <1>2, <2>1 DEF WritesNoSpots
<1>6. CASE StampAll(c) \/ Stamp(c)
  <2>1. Execute(c, {}, {Version(run[c].next)})
    BY <1>6 DEF StampAll, Stamp, InsertStamp
  <2> QED
    BY <1>1, <2>1 DEF WritesNoSpots
<1>7. CASE RunMigration(c)
  <2>1. ExecuteScript(c, Removes(run[c].next), Adds(run[c].next, View(c)))
    BY <1>7 DEF RunMigration
  <2> QED
    BY <1>2, <2>1 DEF WritesNoSpots
<1>8. CASE SecureTable(c)
  <2>1. Refused(c) \/ \E t : Execute(c, {}, {Secured(t)})
    BY <1>8 DEF SecureTable
  <2> QED
    BY <1>1, <2>1, AddableFacts DEF WritesNoSpots
<1> QED
  BY <1>3, <1>4, <1>5, <1>6, <1>7, <1>8 DEF Apply

\* The places in apply().
ApplyLabels == {"versions", "look", "baseline", "read", "stampall", "stamped", "migrate",
                "script", "stamp", "rls", "secure", "secured"}

\* apply() goes from one of its places to another, or ends.
LEMMA ApplyMoves ==
  ASSUME StorageInv, NEW c \in Clients, Apply(c)
  PROVE  /\ run[c].at \in ApplyLabels
         /\ run'[c].at \in ApplyLabels \cup {"ready", "off"}
         /\ DOMAIN run' = Clients /\ \A d \in Clients \ {c} : run'[d] = run[d]
         /\ disturbed' = disturbed
<1> USE DEF ApplyLabels
<1>1. DOMAIN run = Clients /\ DOMAIN run[c] = RunFields
  BY DEF StorageInv, PlaceIsTrue
<1>2. CASE CreateVersionTable(c) \/ Look(c) \/ CreateBaseline(c) \/ ReadVersion(c)
  BY <1>1, <1>2 DEF CreateVersionTable, Look, CreateBaseline, ReadVersion, At, Goto,
     Undisturbed, RunFields
<1>3. CASE StampAll(c) \/ CommitStamps(c) \/ ShouldRun(c) \/ RunMigration(c)
  BY <1>1, <1>3 DEF StampAll, CommitStamps, ShouldRun, RunMigration, At, Goto,
     Undisturbed, RunFields
<1>4. CASE MigrationFails(c) \/ ScriptOnDeadConnection(c)
  BY <1>1, <1>4 DEF MigrationFails, ScriptOnDeadConnection, StartupFails, Stopped, At,
     Undisturbed, ScriptLabels
<1>5. CASE Stamp(c) \/ Replay(c) \/ FindOpen(c) \/ CommitSecured(c)
  BY <1>1, <1>5 DEF Stamp, Replay, FindOpen, CommitSecured, At, Goto, Undisturbed, RunFields
<1>6. CASE SecureTable(c)
  BY <1>1, <1>6 DEF SecureTable, At, RunFields
<1> QED
  BY <1>2, <1>3, <1>4, <1>5, <1>6 DEF Apply

\* Statements of c change no other connection.
LEMMA OnlyOwnConnection ==
  ASSUME StorageInv, NEW c \in Clients, WritesNoSpots(c)
  PROVE  /\ dialect' = dialect
         /\ DOMAIN conn' = Clients /\ \A d \in Clients \ {c} : conn'[d] = conn[d]
<1>1. DOMAIN conn = Clients
  BY DEF StorageInv, DatabaseIsSane
<1> QED
  BY <1>1 DEF WritesNoSpots, Query, Refused, Rollback, Drop, Commit, Execute,
     ExecuteScript, dbVars

LEMMA ApplyKeepsRoster ==
  ASSUME StorageInv, RosterInv, NEW c \in Clients, Apply(c)
  PROVE  RosterInv'
<1>1. WritesNoSpots(c)
  BY ApplyWritesNoSpots
<1>2. OnlyBy(c)
  BY <1>1, OnlyOwnConnection, ApplyMoves DEF OnlyBy
<1>3. ~MayHold(c) /\ ~Saving(c)'
  BY ApplyMoves DEF MayHold, AtRows, At, Saving, ApplyLabels
<1>4. RosterFree(conn[c])
  BY <1>3 DEF RosterInv, PendingIsKnown
<1> QED
  BY <1>1, <1>2, <1>3, <1>4, FreeStepAside

\* What begins a step of c's program: one place is left for another.
LEMMA PurgeKeepsRoster ==
  ASSUME StorageInv, RosterInv, NEW c \in Clients, Purge(c)
  PROVE  RosterInv'
<1>1. DOMAIN run = Clients /\ DOMAIN run[c] = RunFields
  BY DEF StorageInv, PlaceIsTrue
<1>2. WritesNoSpots(c)
  <2>1. ASSUME PurgeTable(c)
        PROVE  WritesNoSpots(c)
    <3>1. PICK u : Execute(c, {Yahoo(u)}, {})
      BY <2>1 DEF PurgeTable
    <3> QED
      BY <3>1, AddableFacts, ErasableFacts DEF WritesNoSpots
  <2> QED
    BY <2>1 DEF Purge, BeginPurge, SkipTable, CommitPurge, WritesNoSpots
<1>3. /\ run[c].at \in {"purge", "purged"} \/ (run[c].at = "ready" /\ c \notin Dashboards)
      /\ run'[c].at \in {"purge", "purged", "ready", "record"}
      /\ DOMAIN run' = Clients /\ \A d \in Clients \ {c} : run'[d] = run[d]
      /\ disturbed => disturbed'
  <2>1. CASE BeginPurge(c) \/ PurgeTable(c)
    BY <1>1, <2>1 DEF BeginPurge, PurgeTable, NextTable, At, Undisturbed, RunFields
  <2>2. CASE SkipTable(c)
    BY <1>1, <2>2 DEF SkipTable, NextTable, At, Undisturbed, RunFields
  <2>3. CASE CommitPurge(c)
    BY <1>1, <2>3 DEF CommitPurge, Handled, Goto, At, Undisturbed, RunFields
  <2> QED
    BY <2>1, <2>2, <2>3 DEF Purge
<1>4. ~MayHold(c) /\ ~Saving(c)'
  BY <1>3 DEF MayHold, AtRows, At, Saving
<1>5. RosterFree(conn[c]) /\ OnlyBy(c)
  BY <1>2, <1>3, <1>4, OnlyOwnConnection DEF RosterInv, PendingIsKnown, OnlyBy
<1> QED
  BY <1>2, <1>4, <1>5, FreeStepAside

\* Connecting and finishing, and main's row of job_runs, which stores what an
\* interrupted save has written, but not unnoticed.
LEMMA ProcessKeepsRoster ==
  ASSUME StorageInv, RosterInv, NEW c \in Clients,
         Connect(c) \/ Finish(c) \/ RecordAndClose(c) \/ GoneAtCommit(c)
  PROVE  RosterInv'
<1>1. DOMAIN conn = Clients /\ DOMAIN run = Clients /\ DOMAIN run[c] = RunFields
  BY DEF StorageInv, DatabaseIsSane, PlaceIsTrue
<1>2. CASE Connect(c) \/ Finish(c) \/ GoneAtCommit(c)
  <2>1. WritesNoSpots(c)
    BY <1>2 DEF Connect, Finish, GoneAtCommit, WritesNoSpots, Rollback
  <2>2. /\ DOMAIN run' = Clients /\ \A d \in Clients \ {c} : run'[d] = run[d]
        /\ disturbed' = disturbed
        /\ run'[c].at \in {"versions", "ready", "record"}
    BY <1>1, <1>2 DEF Connect, Finish, GoneAtCommit, Goto, Handled, Stopped, Undisturbed,
       RunFields
  <2>3. RosterFree(conn[c])
    <3>1. CASE Connect(c) \/ Finish(c)
      <4>1. ~MayHold(c)
        BY <3>1 DEF Connect, Finish, MayHold, AtRows, At
      <4> QED
        BY <4>1 DEF RosterInv, PendingIsKnown
    <3>2. CASE GoneAtCommit(c)
      BY <3>2 DEF GoneAtCommit, RosterInv, PendingIsKnown
    <3> QED
      BY <1>2, <3>1, <3>2
  <2>4. OnlyBy(c) /\ ~Saving(c)'
    BY <2>1, <2>2, OnlyOwnConnection DEF OnlyBy, Saving
  <2> QED
    BY <2>1, <2>3, <2>4, FreeStepAside
<1>3. CASE RecordAndClose(c)
  <2>1. /\ conn'[c] = Idle /\ run'[c].at = "off" /\ stored' = Reads(c)
        /\ disturbed' = (disturbed \/ Touched(c) # {})
    BY <1>1, <1>3 DEF RecordAndClose, Stopped
  <2>2. OnlyBy(c) /\ ~Saving(c)'
    BY <1>1, <1>3, <2>1 DEF RecordAndClose, OnlyBy, Saving
  <2>3. PendingIsKnown(c)'
    BY <2>1 DEF PendingIsKnown, RosterFree, NoSpots, Idle
  <2>4. ~disturbed' => SameRoster
    BY <2>1 DEF Touched, Reads, Live, Idle, SameRoster
  <2> QED
    BY <2>2, <2>3, <2>4, StepAside
<1> QED
  BY <1>2, <1>3

\* A save that stays where it is and sees the roster it saw.
LEMMA StaysInPlace ==
  ASSUME StorageInv, RosterInv, NEW c \in Clients, OnlyBy(c), run' = run, stored' = stored,
         PendingIsKnown(c)',
         ~disturbed' => Reads(c)' = Reads(c) /\ (dialect = "sqlite" => Touched(c)' = Touched(c))
  PROVE  RosterInv'
<1>1. ASSUME ~disturbed'
      PROVE  /\ (RosterIn(stored) \in {{}} \cup Rosters)'
             /\ \A d \in Clients : SaveIsOnItsWay(d)'
             /\ Alone(c)'
  <2>1. RosterGoesOn /\ SameRoster
    BY <1>1 DEF RosterInv, OnlyBy, SameRoster
  <2>2. (RosterIn(stored) \in {{}} \cup Rosters)'
    BY <2>1 DEF RosterGoesOn, RosterIn, Rosters
  <2>3. SaveIsOnItsWay(c)'
    <3>1. RosterIn(Reads(c))' = RosterIn(Reads(c)) /\ SpotsIn(Reads(c))' = SpotsIn(Reads(c))
      BY <1>1 DEF RosterIn, SpotsIn
    <3>2. dialect' = dialect /\ (dialect = "sqlite" => Touched(c)' = Touched(c))
      BY <1>1 DEF OnlyBy
    <3>3. SaveIsOnItsWay(c)
      BY <2>1 DEF RosterGoesOn
    <3> QED
      BY <3>1, <3>2, <3>3 DEF SaveIsOnItsWay, At, AtRows
  <2>4. ASSUME NEW d \in Clients \ {c}
        PROVE  SaveIsOnItsWay(d)'
    BY <2>1, <2>4, OthersGoOn DEF RosterGoesOn
  <2>5. Alone(c)'
    BY <2>1 DEF RosterGoesOn, Alone, Saving, AtRows, OnlyBy
  <2> QED
    BY <2>2, <2>3, <2>4, <2>5
<1> QED
  BY <1>1, RosterStep

\* Crashes, interrupts, lost connections and the other pages.
LEMMA FaultsKeepRoster ==
  ASSUME StorageInv, RosterInv, NEW c \in Clients, Faulty(c)
  PROVE  RosterInv'
<1>1. /\ DOMAIN conn = Clients /\ DOMAIN run = Clients /\ DOMAIN run[c] = RunFields
      /\ PendingIsKnown(c) /\ dialect \in Dialects
  BY DEF StorageInv, DatabaseIsSane, PlaceIsTrue, RosterInv
<1>2. CASE Crash(c)
  <2>1. /\ conn'[c] = Idle /\ run'[c].at = "off" /\ stored' = stored
        /\ OnlyBy(c)
    BY <1>1, <1>2 DEF Crash, Rollback, Stopped, OnlyBy
  <2>2. PendingIsKnown(c)' /\ SameRoster /\ ~Saving(c)'
    BY <2>1 DEF PendingIsKnown, RosterFree, NoSpots, Idle, SameRoster, Saving
  <2> QED
    BY <2>1, <2>2, StepAside
<1>3. CASE Interrupt(c)
  <2>1. conn' = conn /\ run'[c].at = "record" /\ stored' = stored /\ OnlyBy(c)
    BY <1>1, <1>3 DEF Interrupt, Goto, dbVars, OnlyBy, RunFields
  <2>2. PendingIsKnown(c)' /\ SameRoster /\ ~Saving(c)'
    BY <1>1, <2>1 DEF PendingIsKnown, MayHold, At, SameRoster, Saving
  <2> QED
    BY <2>1, <2>2, StepAside
<1>4. CASE LoseConnection(c)
  <2> DEFINE gone == [up |-> FALSE, ins |-> {}, del |-> {}]
  <2>1. /\ dialect = "postgres" /\ conn[c].up /\ conn'[c] = gone /\ run' = run
        /\ stored' = stored /\ OnlyBy(c) /\ disturbed' = (disturbed \/ Touched(c) # {})
    BY <1>1, <1>4 DEF LoseConnection, Drop, OnlyBy
  <2>2. PendingIsKnown(c)'
    BY <2>1 DEF PendingIsKnown, RosterFree, NoSpots
  <2>3. Reads(c)' = stored
    BY <2>1 DEF Reads, Live, Idle
  <2>4. ~disturbed' => Reads(c) = stored
    BY <2>1 DEF Reads, Live, Touched
  <2> QED
    BY <2>1, <2>2, <2>3, <2>4, StaysInPlace
<1>5. CASE PageFails(c)
  <2>1. /\ run' = run /\ stored' = stored /\ OnlyBy(c)
        /\ conn'[c] = IF dialect = "postgres" THEN Idle ELSE conn[c]
        /\ disturbed' = (disturbed \/ (dialect = "postgres" /\ Touched(c) # {}))
    BY <1>1, <1>5 DEF PageFails, Refused, OnlyBy
  <2>2. PendingIsKnown(c)'
    BY <1>1, <2>1 DEF PendingIsKnown, MayHold, AtRows, At, RosterFree, NoSpots, Idle, OnlyBy
  <2>3. CASE dialect = "postgres"
    <3>1. conn'[c] = Idle
      BY <2>1, <2>3
    <3>2. Reads(c)' = stored
      BY <2>1, <3>1 DEF Reads, Live, Idle
    <3>3. ~disturbed' => Reads(c) = stored
      BY <2>1, <2>3 DEF Reads, Live, Touched, Idle
    <3> QED
      BY <2>1, <2>2, <2>3, <3>2, <3>3, StaysInPlace
  <2>4. CASE dialect # "postgres"
    <3>1. Reads(c)' = Reads(c) /\ Touched(c)' = Touched(c)
      BY <2>1, <2>4 DEF Reads, Live, Touched
    <3> QED
      BY <2>1, <2>2, <3>1, StaysInPlace
  <2> QED
    BY <2>3, <2>4
<1>6. CASE PageCommits(c)
  <2>1. conn'[c] = Idle /\ OnlyBy(c) /\ disturbed'
    BY <1>1, <1>6 DEF PageCommits, Commit, OnlyBy
  <2>2. PendingIsKnown(c)'
    BY <2>1 DEF PendingIsKnown, RosterFree, NoSpots, Idle
  <2> QED
    BY <2>1, <2>2, RosterStep
<1>7. CASE GoneAtCommit(c)
  BY <1>7, ProcessKeepsRoster
<1> QED
  BY <1>2, <1>3, <1>4, <1>5, <1>6, <1>7 DEF Faulty

\* The players of a sequence, one fewer.
LEMMA NamedHeadAndTail ==
  ASSUME NEW s \in Seq(Players), s # <<>>
  PROVE  /\ Head(s) \in Players /\ Tail(s) \in Seq(Players)
         /\ Named(s) = {Head(s)} \cup Named(Tail(s))
         /\ Tail(s) = <<>> <=> Len(s) = 1
<1>1. /\ Len(s) \in Nat \ {0} /\ DOMAIN s = 1..Len(s) /\ Head(s) = s[1]
      /\ Tail(s) \in Seq(Players) /\ Len(Tail(s)) = Len(s) - 1
      /\ DOMAIN Tail(s) = 1..Len(s) - 1
      /\ \A j \in 1..Len(s) - 1 : Tail(s)[j] = s[j + 1]
  OBVIOUS
<1>2. ASSUME NEW i \in 1..Len(s), i # 1
      PROVE  i - 1 \in 1..Len(s) - 1 /\ s[i] = Tail(s)[i - 1]
  BY <1>1, <1>2
<1>3. \A j \in 1..Len(s) - 1 : j + 1 \in 1..Len(s)
  BY <1>1
<1>4. Named(s) = {Head(s)} \cup Named(Tail(s))
  <2>1. ASSUME NEW x \in Named(s)
        PROVE  x \in {Head(s)} \cup Named(Tail(s))
    <3>1. PICK i \in 1..Len(s) : x = s[i]
      BY <1>1 DEF Named
    <3> QED
      BY <1>1, <1>2, <3>1 DEF Named
  <2>2. Head(s) \in Named(s)
    BY <1>1 DEF Named
  <2>3. ASSUME NEW x \in Named(Tail(s))
        PROVE  x \in Named(s)
    <3>1. PICK j \in 1..Len(s) - 1 : x = Tail(s)[j]
      BY <1>1 DEF Named
    <3> QED
      BY <1>1, <1>3, <3>1 DEF Named
  <2> QED
    BY <2>1, <2>2, <2>3
<1> QED
  BY <1>1, <1>4

\* A paste is a sequence of players, and names one.
LEMMA PastesArePlayers ==
  ASSUME NEW p \in Pastes
  PROVE  /\ p \in Seq(Players) /\ p # <<>> /\ Named(p) \in Rosters
         /\ Players # {}
<1>1. p # <<>> /\ p \in Seq(Named(p))
  BY PastesAssumption
<1>2. Named(p) \subseteq Players /\ Named(p) \in Rosters
  BY DEF Players, Rosters
<1>3. p \in Seq(Players)
  BY <1>1, <1>2
<1>4. p[1] \in Players
  BY <1>1, <1>3
<1> QED
  BY <1>1, <1>2, <1>3, <1>4

\* What a client sees after a statement of its own.
LEMMA SeesItsOwn ==
  ASSUME StorageInv, NEW c \in Clients, NEW rm, NEW add, Execute(c, rm, add), rm \cap add = {}
  PROVE  /\ stored' = stored /\ dialect' = dialect /\ conn'[c].up
         /\ DOMAIN conn' = Clients /\ \A d \in Clients \ {c} : conn'[d] = conn[d]
         /\ Reads(c)' = (Reads(c) \ rm) \cup add
         /\ rm \cup add \subseteq Touched(c)'
<1>1. /\ stored' = stored /\ dialect' = dialect /\ conn'[c] = Writes(c, rm, add)
      /\ DOMAIN conn' = Clients /\ \A d \in Clients \ {c} : conn'[d] = conn[d]
  BY DEF StorageInv, DatabaseIsSane, Execute
<1>2. conn'[c].up = TRUE /\ conn'[c].ins = (Live(c).ins \ rm) \cup add
      /\ conn'[c].del = (Live(c).del \cup rm) \ add
  BY <1>1 DEF Writes
<1>3. Live(c)' = conn'[c]
  BY <1>2 DEF Live
<1>4. Reads(c)' = (stored \ conn'[c].del) \cup conn'[c].ins
  BY <1>1, <1>3 DEF Reads
<1>5. Reads(c)' = (Reads(c) \ rm) \cup add
  BY <1>2, <1>4 DEF Reads
<1> QED
  BY <1>1, <1>2, <1>5 DEF Touched

\* A save begins: its paste is before it, and its DELETE has its rows.
LEMMA BeginSaveKeepsRoster ==
  ASSUME StorageInv, RosterInv, NEW c \in Clients, BeginSave(c)
  PROVE  RosterInv'
<1>1. /\ DOMAIN conn = Clients /\ DOMAIN run = Clients /\ DOMAIN run[c] = RunFields
      /\ PendingIsKnown(c)
  BY DEF StorageInv, DatabaseIsSane, PlaceIsTrue, RosterInv
<1>2. /\ conn'[c] = Live(c) /\ stored' = stored /\ OnlyBy(c)
      /\ run[c].at = "ready" /\ run'[c].at = "delete" /\ run'[c].left \in Pastes
      /\ run'[c].aim = SpotsIn(Reads(c))
  <2>1. PICK p \in Pastes :
          run' = [run EXCEPT ![c].at = "delete", ![c].left = p, ![c].aim = SpotsIn(Reads(c))]
    BY DEF BeginSave
  <2>2. /\ run'[c].at = "delete" /\ run'[c].left \in Pastes
        /\ run'[c].aim = SpotsIn(Reads(c))
        /\ DOMAIN run' = Clients /\ \A d \in Clients \ {c} : run'[d] = run[d]
    BY <1>1, <2>1 DEF RunFields
  <2>3. /\ conn'[c] = Live(c) /\ UNCHANGED <<dialect, stored>>
        /\ DOMAIN conn' = Clients /\ \A d \in Clients \ {c} : conn'[d] = conn[d]
    BY <1>1 DEF BeginSave, Query
  <2>4. run[c].at = "ready" /\ (disturbed => disturbed')
    BY DEF BeginSave, At
  <2> QED
    BY <2>2, <2>3, <2>4 DEF OnlyBy
<1>3. conn'[c] = conn[c] \/ conn'[c] = Idle
  BY <1>2 DEF Live
<1>4. Live(c)' = conn'[c]
  BY <1>2 DEF Live, Idle
<1>5. Reads(c)' = Reads(c)
  BY <1>2, <1>4 DEF Reads
<1>6. PendingIsKnown(c)'
  BY <1>1, <1>2, <1>3 DEF PendingIsKnown, MayHold, AtRows, At, RosterFree, NoSpots, Idle, OnlyBy
<1>7. ASSUME ~disturbed'
      PROVE  /\ (RosterIn(stored) \in {{}} \cup Rosters)'
             /\ \A d \in Clients : SaveIsOnItsWay(d)'
             /\ Alone(c)'
  <2>1. RosterGoesOn /\ SameRoster
    BY <1>2, <1>7 DEF RosterInv, OnlyBy, SameRoster
  <2>2. (RosterIn(stored) \in {{}} \cup Rosters)'
    BY <1>2, <2>1 DEF RosterGoesOn, RosterIn, Rosters
  <2>3. SaveIsOnItsWay(c)'
    <3>1. SpotsIn(Reads(c))' = SpotsIn(Reads(c))
      BY <1>5 DEF SpotsIn, RosterIn
    <3> QED
      BY <1>2, <3>1 DEF SaveIsOnItsWay, At, AtRows
  <2>4. ASSUME NEW d \in Clients \ {c}
        PROVE  SaveIsOnItsWay(d)'
    BY <1>2, <2>1, <2>4, OthersGoOn DEF RosterGoesOn
  <2>5. dialect = "postgres" => \A d \in Clients \ {c} : ~Saving(d)
    BY <1>7 DEF BeginSave
  <2>6. Alone(c)'
    BY <1>2, <2>5 DEF Alone, AtRows, Saving, OnlyBy
  <2> QED
    BY <2>2, <2>3, <2>4, <2>6
<1> QED
  BY <1>2, <1>6, <1>7, RosterStep

\* The DELETE leaves its client no row of the roster.
LEMMA DeleteRosterKeepsRoster ==
  ASSUME StorageInv, RosterInv, NEW c \in Clients, DeleteRoster(c)
  PROVE  RosterInv'
<1>1. DOMAIN run = Clients /\ DOMAIN run[c] = RunFields /\ dialect \in Dialects
  BY DEF StorageInv, PlaceIsTrue, RosterInv
<1>2. /\ run[c].at = "delete" /\ run'[c].at = "insert" /\ run'[c].left = run[c].left
      /\ DOMAIN run' = Clients /\ \A d \in Clients \ {c} : run'[d] = run[d]
      /\ disturbed' = disturbed /\ Execute(c, Doomed(c), {})
  BY <1>1 DEF DeleteRoster, At, Goto, Undisturbed, RunFields
<1>3. /\ stored' = stored /\ OnlyBy(c) /\ conn'[c].up
      /\ Reads(c)' = Reads(c) \ Doomed(c) /\ Doomed(c) \subseteq Touched(c)'
  BY <1>2, SeesItsOwn DEF OnlyBy
<1>4. PendingIsKnown(c)'
  BY <1>2, <1>3 DEF PendingIsKnown, MayHold, AtRows
<1>5. ASSUME ~disturbed'
      PROVE  /\ (RosterIn(stored) \in {{}} \cup Rosters)'
             /\ \A d \in Clients : SaveIsOnItsWay(d)'
             /\ Alone(c)'
  <2>1. /\ RosterGoesOn /\ SameRoster /\ run[c].left \in Pastes
        /\ dialect = "postgres" => run[c].aim = SpotsIn(Reads(c))
    BY <1>2, <1>3, <1>5 DEF RosterInv, RosterGoesOn, SaveIsOnItsWay, At, SameRoster
  <2>2. (RosterIn(stored) \in {{}} \cup Rosters)'
    BY <1>3, <2>1 DEF RosterGoesOn, RosterIn, Rosters
  <2>3. dialect = "sqlite" => Doomed(c) = EverySpot
    BY DEF Doomed
  <2>4. SpotsIn(Reads(c)) \subseteq Doomed(c)
    <3>1. CASE dialect = "sqlite"
      BY <2>3, <3>1 DEF SpotsIn, RosterIn, EverySpot
    <3>2. CASE dialect = "postgres"
      BY <2>1, <3>2 DEF Doomed
    <3> QED
      BY <1>1, <3>1, <3>2 DEF Dialects
  <2>5. \A k \in Players : Spot(k) \notin Reads(c)'
    BY <1>3, <2>4 DEF SpotsIn, RosterIn
  <2>6. RosterIn(Reads(c))' = {}
    BY <2>5 DEF RosterIn
  <2>7. dialect = "sqlite" => Touched(c)' # {}
    BY <1>3, <2>1, <2>3, PastesArePlayers DEF EverySpot
  <2>8. SaveIsOnItsWay(c)'
    <3>1. PICK p \in Pastes : p = run[c].left
      BY <2>1
    <3>2. p \in Seq(Players) /\ p # <<>> /\ Named(p) \in Rosters
      BY PastesArePlayers
    <3>3. run'[c].left = p /\ run'[c].at = "insert" /\ Named(run[c].left)' = Named(p)
      BY <1>2, <3>1 DEF Named
    <3>4. (RosterIn(Reads(c)) \cup Named(run[c].left) \in Rosters)'
      BY <2>6, <3>2, <3>3 DEF Rosters
    <3>5. dialect' = dialect
      BY <1>3 DEF OnlyBy
    <3> QED
      BY <2>7, <3>2, <3>3, <3>4, <3>5 DEF SaveIsOnItsWay, AtRows, At
  <2>9. ASSUME NEW d \in Clients \ {c}
        PROVE  SaveIsOnItsWay(d)'
    BY <1>3, <2>1, <2>9, OthersGoOn DEF RosterGoesOn
  <2>10. ASSUME NEW d \in Clients \ {c}, AtRows(d)
         PROVE  FALSE
    <3>1. CASE dialect = "sqlite"
      <4>1. Touched(d) = {}
        BY <1>2, <2>10, <3>1 DEF Execute, Unlocked
      <4> QED
        BY <2>1, <2>10, <3>1, <4>1 DEF RosterGoesOn, SaveIsOnItsWay
    <3>2. CASE dialect = "postgres"
      BY <1>2, <2>1, <2>10, <3>2 DEF RosterGoesOn, Alone, Saving, AtRows
    <3> QED
      BY <1>1, <3>1, <3>2 DEF Dialects
  <2>11. Alone(c)'
    BY <1>2, <1>3, <2>1, <2>10 DEF RosterGoesOn, Alone, Saving, AtRows, OnlyBy
  <2> QED
    BY <2>2, <2>8, <2>9, <2>11
<1> QED
  BY <1>3, <1>4, <1>5, RosterStep

\* An INSERT takes one player from the paste to what its client sees.
LEMMA InsertSpotKeepsRoster ==
  ASSUME StorageInv, RosterInv, NEW c \in Clients, InsertSpot(c)
  PROVE  RosterInv'
<1>1. DOMAIN run = Clients /\ DOMAIN run[c] = RunFields
  BY DEF StorageInv, PlaceIsTrue
<1>2. PICK k : k = Head(run[c].left)
  OBVIOUS
<1>3. /\ run[c].at = "insert" /\ run'[c].left = Tail(run[c].left)
      /\ run'[c].at = IF Len(run[c].left) = 1 THEN "commit" ELSE "insert"
      /\ DOMAIN run' = Clients /\ \A d \in Clients \ {c} : run'[d] = run[d]
      /\ disturbed' = disturbed /\ Execute(c, {}, {Spot(k)})
  BY <1>1, <1>2 DEF InsertSpot, At, Undisturbed, RunFields
<1>4. /\ stored' = stored /\ OnlyBy(c) /\ conn'[c].up
      /\ Reads(c)' = Reads(c) \cup {Spot(k)} /\ Spot(k) \in Touched(c)'
  BY <1>3, SeesItsOwn DEF OnlyBy
<1>5. AtRows(c) /\ AtRows(c)'
  BY <1>3 DEF AtRows
<1>6. PendingIsKnown(c)'
  BY <1>4, <1>5 DEF PendingIsKnown, MayHold
<1>7. ASSUME ~disturbed'
      PROVE  /\ (RosterIn(stored) \in {{}} \cup Rosters)'
             /\ \A d \in Clients : SaveIsOnItsWay(d)'
             /\ Alone(c)'
  <2>1. RosterGoesOn /\ SameRoster
    BY <1>3, <1>4, <1>7 DEF RosterInv, SameRoster
  <2>2. (RosterIn(stored) \in {{}} \cup Rosters)'
    BY <1>4, <2>1 DEF RosterGoesOn, RosterIn, Rosters
  <2>3. PICK s : s = run[c].left
    OBVIOUS
  <2>4. /\ s \in Seq(Players) /\ s # <<>>
        /\ RosterIn(Reads(c)) \cup Named(s) \in Rosters
    BY <1>3, <1>5, <2>1, <2>3 DEF RosterGoesOn, SaveIsOnItsWay, At
  <2>5. /\ k \in Players /\ Tail(s) \in Seq(Players)
        /\ Named(s) = {k} \cup Named(Tail(s))
        /\ Tail(s) = <<>> <=> Len(s) = 1
    BY <1>2, <2>3, <2>4, NamedHeadAndTail
  <2>6. RosterIn(Reads(c))' = RosterIn(Reads(c)) \cup {k}
    <3>1. \A j : Spot(j) = Spot(k) <=> j = k
      BY DEF Spot
    <3> QED
      BY <1>4, <2>5, <3>1 DEF RosterIn
  <2>7. run'[c].left = Tail(s) /\ Named(run[c].left)' = Named(Tail(s))
    BY <1>3, <2>3 DEF Named
  <2>8. (RosterIn(Reads(c)) \cup Named(run[c].left) \in Rosters)'
    BY <2>4, <2>5, <2>6, <2>7 DEF Rosters
  <2>9. (run[c].left = <<>> <=> At(c, "commit"))'
    BY <1>3, <2>3, <2>5, <2>7 DEF At
  <2>10. ~At(c, "delete")'
    BY <1>3 DEF At
  <2>11. SaveIsOnItsWay(c)'
    BY <1>4, <2>5, <2>7, <2>8, <2>9, <2>10 DEF SaveIsOnItsWay
  <2>12. ASSUME NEW d \in Clients \ {c}
         PROVE  SaveIsOnItsWay(d)'
    BY <1>4, <2>1, <2>12, OthersGoOn DEF RosterGoesOn
  <2>13. Saving(c)
    BY <1>3 DEF Saving
  <2>14. Alone(c)'
    BY <1>4, <1>5, <2>1, <2>13 DEF RosterGoesOn, Alone, Saving, AtRows, OnlyBy
  <2> QED
    BY <2>2, <2>11, <2>12, <2>14
<1> QED
  BY <1>4, <1>6, <1>7, RosterStep

\* A second line for a player ends the save; what is written stays pending
\* on SQLite, and is rolled back on Postgres.
LEMMA DuplicateSpotKeepsRoster ==
  ASSUME StorageInv, RosterInv, NEW c \in Clients, DuplicateSpot(c)
  PROVE  RosterInv'
<1>1. /\ DOMAIN conn = Clients /\ DOMAIN run = Clients /\ DOMAIN run[c] = RunFields
      /\ PendingIsKnown(c) /\ dialect \in Dialects
  BY DEF StorageInv, DatabaseIsSane, PlaceIsTrue, RosterInv
<1>2. /\ stored' = stored /\ OnlyBy(c) /\ run'[c].at = Handled(c)
      /\ conn'[c] = IF dialect = "postgres" THEN Idle ELSE conn[c]
  BY <1>1 DEF DuplicateSpot, Refused, Goto, Undisturbed, OnlyBy, RunFields
<1>3. ~Saving(c)' /\ SameRoster
  BY <1>2 DEF Saving, Handled, SameRoster
<1>4. PendingIsKnown(c)'
  <2>1. CASE dialect = "postgres"
    <3>1. conn'[c] = Idle
      BY <1>2, <2>1
    <3> QED
      BY <3>1 DEF PendingIsKnown, RosterFree, NoSpots, Idle
  <2>2. CASE dialect = "sqlite"
    <3>1. conn'[c] = conn[c] /\ dialect' = "sqlite"
      BY <1>2, <2>2 DEF OnlyBy
    <3>2. MayHold(c)'
      BY <1>2, <3>1 DEF MayHold, Handled, At
    <3> QED
      BY <1>1, <3>1, <3>2 DEF PendingIsKnown, RosterFree, NoSpots
  <2> QED
    BY <1>1, <2>1, <2>2 DEF Dialects
<1> QED
  BY <1>2, <1>3, <1>4, StepAside

\* The commit stores what its client sees, a paste, and no other save on
\* Postgres has its rows already.
LEMMA CommitRosterKeepsRoster ==
  ASSUME StorageInv, RosterInv, NEW c \in Clients, CommitRoster(c)
  PROVE  RosterInv'
<1>1. /\ DOMAIN conn = Clients /\ DOMAIN run = Clients /\ DOMAIN run[c] = RunFields
      /\ dialect \in Dialects
  BY DEF StorageInv, DatabaseIsSane, PlaceIsTrue, RosterInv
<1>2. /\ run[c].at = "commit" /\ run'[c].at = Handled(c) /\ OnlyBy(c)
      /\ conn'[c] = Idle /\ stored' = Reads(c) /\ disturbed' = disturbed
  BY <1>1 DEF CommitRoster, Commit, View, Reads, Live, Goto, At, Undisturbed, OnlyBy, RunFields
<1>3. ~Saving(c)'
  BY <1>2 DEF Saving, Handled
<1>4. PendingIsKnown(c)'
  BY <1>2 DEF PendingIsKnown, RosterFree, NoSpots, Idle
<1>5. ASSUME ~disturbed'
      PROVE  /\ (RosterIn(stored) \in {{}} \cup Rosters)'
             /\ \A d \in Clients : SaveIsOnItsWay(d)'
             /\ Alone(c)'
  <2>1. RosterGoesOn
    BY <1>2, <1>5 DEF RosterInv
  <2>2. AtRows(c) /\ Saving(c)
    BY <1>2 DEF AtRows, Saving
  <2>3. run[c].left = <<>> /\ RosterIn(Reads(c)) \cup Named(run[c].left) \in Rosters
    BY <1>2, <2>1, <2>2 DEF RosterGoesOn, SaveIsOnItsWay, At
  <2>4. Named(run[c].left) = {}
    BY <2>3 DEF Named
  <2>5. RosterIn(stored)' = RosterIn(Reads(c))
    BY <1>2 DEF RosterIn
  <2>6. (RosterIn(stored) \in {{}} \cup Rosters)'
    BY <2>3, <2>4, <2>5 DEF Rosters
  <2>7. SaveIsOnItsWay(c)'
    BY <1>3 DEF SaveIsOnItsWay, Saving, AtRows, At
  <2>8. ASSUME NEW d \in Clients \ {c}
        PROVE  SaveIsOnItsWay(d)'
    <3>1. run'[d] = run[d] /\ dialect' = dialect
      BY <1>2, <2>8 DEF OnlyBy
    <3>2. ~AtRows(d) /\ (dialect = "postgres" => ~Saving(d))
      BY <2>1, <2>2, <2>8 DEF RosterGoesOn, Alone
    <3>3. SaveIsOnItsWay(d)
      BY <2>1, <2>8 DEF RosterGoesOn
    <3> QED
      BY <3>1, <3>2, <3>3 DEF SaveIsOnItsWay, AtRows, Saving, At
  <2>9. Alone(c)'
    BY <1>3 DEF Alone, Saving, AtRows
  <2> QED
    BY <2>6, <2>7, <2>8, <2>9
<1> QED
  BY <1>2, <1>4, <1>5, RosterStep

\* A database a behaviour may start from has a whole roster, or none.
LEMMA RosterInvInit == Init => RosterInv
<1> SUFFICES ASSUME Init
             PROVE  RosterInv
  OBVIOUS
<1>1. RosterIn(stored) \in {{}} \cup Rosters
  BY StartingAssumption DEF Init, Rosters
<1>2. ASSUME NEW c \in Clients
      PROVE  conn[c] = Idle /\ run[c].at = "off"
  BY DEF Init, Stopped
<1>3. ASSUME NEW c \in Clients
      PROVE  SaveIsOnItsWay(c) /\ Alone(c) /\ PendingIsKnown(c)
  BY <1>2 DEF SaveIsOnItsWay, Alone, PendingIsKnown, AtRows, At, Saving, RosterFree,
     NoSpots, Idle
<1> QED
  BY <1>1, <1>3 DEF Init, RosterInv, RosterGoesOn

\* Every step of every process, and every fault, keeps it.
LEMMA RosterInvStep == StorageInv /\ RosterInv /\ [Next]_sessionVars => RosterInv'
<1> SUFFICES ASSUME StorageInv, RosterInv, [Next]_sessionVars
             PROVE  RosterInv'
  OBVIOUS
<1>1. ASSUME NEW c \in Clients, SaveRoster(c)
      PROVE  RosterInv'
  BY <1>1, BeginSaveKeepsRoster, DeleteRosterKeepsRoster, InsertSpotKeepsRoster,
     DuplicateSpotKeepsRoster, CommitRosterKeepsRoster DEF SaveRoster
<1>2. ASSUME NEW c \in Clients, Steps(c) \/ Faulty(c)
      PROVE  RosterInv'
  BY <1>1, <1>2, ApplyKeepsRoster, PurgeKeepsRoster, ProcessKeepsRoster, FaultsKeepRoster
     DEF Steps
<1>3. CASE UNCHANGED sessionVars
  <2>1. UNCHANGED <<dialect, stored, conn, run, disturbed>>
    BY <1>3 DEF sessionVars, dbVars
  <2> QED
    BY <2>1 DEF RosterInv, RosterGoesOn, PendingIsKnown, SaveIsOnItsWay, Alone, MayHold, AtRows,
       At, Saving, Reads, Live, Touched, RosterIn, SpotsIn
<1> QED
  BY <1>2, <1>3 DEF Next

(***************************************************************************)
(* Nobody reads half a roster, for any number of dashboards and commands,  *)
(* any pastes and any faults: unless a transaction was cut in two or two   *)
(* saves overlapped on Postgres, what is stored is one of the pastes, or   *)
(* none (save_roster, src/manual_roster.py:357).                           *)
(***************************************************************************)
THEOREM RosterIsAlwaysWhole == Spec => []WholeRoster
<1>1. RosterInv => WholeRoster
  BY DEF RosterInv, RosterGoesOn, Rosters, WholeRoster
<1> QED
  BY StorageInvInit, StorageInvStep, RosterInvInit, RosterInvStep, <1>1, PTL DEF Spec
-----------------------------------------------------------------------------
(* The purge.  Nobody adds to Yahoo's data, and the table of players is     *)
(* there for every handler, so only a fault can skip it; what the purge has *)
(* been through it no longer sees.                                          *)

\* Before the schema is known to be there, and after the handler.
Early == {"off", "versions", "look", "baseline", "record"}

PlayersAreThere(c) == run[c].at \in Early \/ Table("players") \in stored

PurgeIsOnItsWay(c) ==
  /\ run[c].at \in {"purge", "purged"} => c \notin Dashboards
  /\ run[c].at = "purge" =>
       run[c].left \in {PurgeOrder, <<"players", "job_runs">>, <<"job_runs">>}
  /\ ~disturbed /\ run[c].at = "purge" /\ run[c].left = <<"job_runs">> =>
       Yahoo("players") \notin Reads(c)
  /\ ~disturbed /\ run[c].at = "purged" => NoYahoo(Reads(c))

PurgeInv ==
  /\ Yahoo("rosters") \notin stored
  /\ \A c \in Clients : NoYahoo(conn[c].ins) /\ PlayersAreThere(c) /\ PurgeIsOnItsWay(c)

\* Yahoo's data, one fact for each table.
LEMMA YahooFactsAre == YahooFacts = {Yahoo("rosters"), Yahoo("players"), Yahoo("job_runs")}
<1>1. /\ DOMAIN PurgeOrder = 1..3
      /\ PurgeOrder[1] = "rosters" /\ PurgeOrder[2] = "players" /\ PurgeOrder[3] = "job_runs"
  BY DEF PurgeOrder
<1> QED
  BY <1>1 DEF YahooFacts

\* What any step does to the database in the name of c.
MayWrite(c) ==
  \/ Query(c) \/ Refused(c) \/ Rollback(c) \/ Drop(c) \/ UNCHANGED dbVars \/ Commit(c)
  \/ RecordAndClose(c)
  \/ \E rm, add : /\ Table("players") \notin rm /\ NoYahoo(add)
                  /\ Execute(c, rm, add) \/ ExecuteScript(c, rm, add)

\* Yahoo's data only goes, and the players stay.
LEMMA YahooOnlyGoes ==
  ASSUME StorageInv, PurgeInv, NEW c \in Clients, MayWrite(c)
  PROVE  /\ stored' \cap YahooFacts \subseteq stored
         /\ Table("players") \in stored => Table("players") \in stored'
         /\ NoYahoo(conn'[c].ins)
<1>1. /\ DOMAIN conn = Clients /\ NoYahoo(conn[c].ins) /\ Table("players") \notin conn[c].del
  BY SchemaFactsAre DEF StorageInv, DatabaseIsSane, ConnIsSane, PurgeInv, Tables, Kept
<1>2. NoYahoo(Idle.ins) /\ NoYahoo([up |-> FALSE, ins |-> {}, del |-> {}].ins)
  BY DEF NoYahoo, Idle
<1>3. NoYahoo(Live(c).ins) /\ Table("players") \notin Live(c).del
  BY <1>1, <1>2 DEF Live, Idle
<1>4. CASE Query(c) \/ Refused(c) \/ Rollback(c) \/ Drop(c) \/ UNCHANGED dbVars
  <2>1. stored' = stored
    BY <1>4 DEF Query, Refused, Rollback, Drop, dbVars
  <2>2. conn'[c] \in {conn[c], Live(c), Idle, [up |-> FALSE, ins |-> {}, del |-> {}]}
    BY <1>1, <1>4 DEF Query, Refused, Rollback, Drop, dbVars
  <2> QED
    BY <1>1, <1>2, <1>3, <2>1, <2>2
<1>5. CASE Commit(c) \/ RecordAndClose(c)
  <2>1. conn'[c] = Idle /\ stored' \in {View(c), Reads(c)}
    BY <1>1, <1>5 DEF Commit, RecordAndClose
  <2> QED
    BY <1>1, <1>2, <1>3, <2>1 DEF View, Reads, NoYahoo
<1>6. ASSUME NEW rm, NEW add, Table("players") \notin rm, NoYahoo(add), Execute(c, rm, add)
      PROVE  stored' = stored /\ NoYahoo(conn'[c].ins)
  <2>1. stored' = stored /\ conn'[c] = Writes(c, rm, add)
    BY <1>1, <1>6 DEF Execute
  <2> QED
    BY <1>3, <1>6, <2>1 DEF Writes, NoYahoo
<1>7. ASSUME NEW rm, NEW add, Table("players") \notin rm, NoYahoo(add), ExecuteScript(c, rm, add)
      PROVE  /\ stored' \cap YahooFacts \subseteq stored
             /\ Table("players") \in stored => Table("players") \in stored'
             /\ NoYahoo(conn'[c].ins)
  BY <1>1, <1>2, <1>7 DEF ExecuteScript, View, NoYahoo
<1> QED
  BY <1>4, <1>5, <1>6, <1>7 DEF MayWrite

\* What a step of c has to keep.
LEMMA PurgeStep ==
  ASSUME StorageInv, PurgeInv, NEW c \in Clients, MayWrite(c), OnlyBy(c),
         PlayersAreThere(c)', PurgeIsOnItsWay(c)'
  PROVE  PurgeInv'
<1>1. /\ stored' \cap YahooFacts \subseteq stored
      /\ Table("players") \in stored => Table("players") \in stored'
      /\ NoYahoo(conn'[c].ins)
  BY YahooOnlyGoes
<1>2. Yahoo("rosters") \notin stored'
  BY <1>1, YahooFactsAre DEF PurgeInv
<1>3. ASSUME NEW d \in Clients, d # c
      PROVE  NoYahoo(conn'[d].ins) /\ PlayersAreThere(d)' /\ PurgeIsOnItsWay(d)'
  <2>1. conn'[d] = conn[d] /\ run'[d] = run[d] /\ (~disturbed' => ~disturbed)
    BY <1>3 DEF OnlyBy
  <2>2. NoYahoo(conn[d].ins) /\ PlayersAreThere(d) /\ PurgeIsOnItsWay(d)
    BY DEF PurgeInv
  <2>3. PlayersAreThere(d)'
    BY <1>1, <2>1, <2>2 DEF PlayersAreThere
  <2>4. Live(d)' = Live(d)
    BY <2>1 DEF Live
  <2>5. Reads(d)' \cap YahooFacts \subseteq Reads(d)
    BY <1>1, <2>4 DEF Reads
  <2>6. Yahoo("players") \in YahooFacts
    BY YahooFactsAre
  <2>7. PurgeIsOnItsWay(d)'
    BY <2>1, <2>2, <2>5, <2>6 DEF PurgeIsOnItsWay, NoYahoo
  <2> QED
    BY <2>1, <2>2, <2>3, <2>7
<1> QED
  BY <1>1, <1>2, <1>3 DEF PurgeInv, NoYahoo, OnlyBy

\* A step of c that is no part of a purge.
LEMMA NoPurgeStep ==
  ASSUME StorageInv, PurgeInv, NEW c \in Clients, MayWrite(c), OnlyBy(c),
         run'[c].at \notin {"purge", "purged"}, run'[c].at \in Early \/ run[c].at \notin Early
  PROVE  PurgeInv'
<1>1. PlayersAreThere(c)'
  BY YahooOnlyGoes DEF PlayersAreThere, PurgeInv
<1>2. PurgeIsOnItsWay(c)'
  BY DEF PurgeIsOnItsWay
<1> QED
  BY <1>1, <1>2, PurgeStep

LEMMA NoSpotsIsAllowed ==
  ASSUME NEW c \in Clients, WritesNoSpots(c)
  PROVE  MayWrite(c)
BY DEF WritesNoSpots, MayWrite, Erasable, Addable

\* apply() finds the players' table or creates it before it goes on.
LEMMA ApplyKeepsPurge ==
  ASSUME StorageInv, PurgeInv, NEW c \in Clients, Apply(c)
  PROVE  PurgeInv'
<1>1. MayWrite(c) /\ OnlyBy(c)
  BY ApplyWritesNoSpots, NoSpotsIsAllowed, OnlyOwnConnection, ApplyMoves DEF OnlyBy
<1>2. run'[c].at \notin {"purge", "purged"}
  BY ApplyMoves DEF ApplyLabels
<1>3. DOMAIN run = Clients /\ DOMAIN run[c] = RunFields
  BY DEF StorageInv, PlaceIsTrue
<1>4. CASE Look(c)
  <2>1. /\ stored' = stored
        /\ run'[c].at = "baseline" \/ Table("players") \in Reads(c)
    BY <1>3, <1>4 DEF Look, HasTables, Query, RunFields
  <2>2. Table("players") \in Reads(c) => Table("players") \in stored
    BY EveryoneSees DEF StorageInv, HasTheSchema, Tables, Kept
  <2>3. PlayersAreThere(c)'
    BY <2>1, <2>2 DEF PlayersAreThere, Early
  <2> QED
    BY <1>1, <1>2, <2>3, PurgeStep DEF PurgeIsOnItsWay
<1>5. CASE CreateBaseline(c)
  <2>1. stored' = (View(c) \ {}) \cup Baseline(View(c))
    BY <1>5 DEF CreateBaseline, ExecuteScript
  <2>2. Table("players") \in View(c) \/ Table("players") \in Creates("players", View(c))
    BY DEF Creates
  <2>3. Creates("players", View(c)) \subseteq Baseline(View(c))
    BY DEF Baseline, Kept
  <2>4. PlayersAreThere(c)'
    BY <2>1, <2>2, <2>3 DEF PlayersAreThere
  <2> QED
    BY <1>1, <1>2, <2>4, PurgeStep DEF PurgeIsOnItsWay
<1>6. CASE CreateVersionTable(c)
  <2>1. run'[c].at = "look"
    BY <1>3, <1>6 DEF CreateVersionTable, Goto, RunFields
  <2> QED
    BY <1>1, <1>2, <2>1, NoPurgeStep DEF Early
<1>7. CASE MigrationFails(c) \/ ScriptOnDeadConnection(c)
  <2>1. run'[c].at = "off"
    BY <1>3, <1>7 DEF MigrationFails, ScriptOnDeadConnection, StartupFails, Stopped
  <2> QED
    BY <1>1, <1>2, <2>1, NoPurgeStep DEF Early
<1>8. CASE \/ ReadVersion(c) \/ StampAll(c) \/ CommitStamps(c) \/ ShouldRun(c)
           \/ RunMigration(c) \/ Stamp(c) \/ Replay(c) \/ FindOpen(c) \/ SecureTable(c)
           \/ CommitSecured(c)
  <2>1. run[c].at \notin Early
    BY <1>8 DEF ReadVersion, StampAll, CommitStamps, ShouldRun, RunMigration, Stamp, Replay,
       FindOpen, SecureTable, CommitSecured, At, Early
  <2> QED
    BY <1>1, <1>2, <2>1, NoPurgeStep
<1> QED
  BY <1>4, <1>5, <1>6, <1>7, <1>8 DEF Apply

LEMMA SaveRosterKeepsPurge ==
  ASSUME StorageInv, PurgeInv, NEW c \in Clients, SaveRoster(c)
  PROVE  PurgeInv'
<1>1. DOMAIN run = Clients /\ DOMAIN run[c] = RunFields /\ DOMAIN conn = Clients
  BY DEF StorageInv, DatabaseIsSane, PlaceIsTrue
<1>2. MayWrite(c)
  <2>1. ASSUME NEW rm, NEW add, Execute(c, rm, add), rm \cap SchemaFacts = {}, NoYahoo(add)
        PROVE  MayWrite(c)
    BY <2>1, SchemaFactsAre DEF MayWrite, Tables, Kept
  <2>2. CASE DeleteRoster(c)
    <3>1. Doomed(c) \cap SchemaFacts = {}
      BY <2>2, RowsAreNotSchema DEF Doomed, DeleteRoster, At, StorageInv, PlaceIsTrue
    <3> QED
      BY <2>1, <2>2, <3>1 DEF DeleteRoster, NoYahoo
  <2>3. CASE InsertSpot(c)
    <3>1. PICK k : Execute(c, {}, {Spot(k)})
      BY <2>3 DEF InsertSpot
    <3>2. NoYahoo({Spot(k)})
      BY YahooFactsAre, FactsDiffer DEF NoYahoo
    <3> QED
      BY <2>1, <3>1, <3>2
  <2> QED
    BY <2>2, <2>3 DEF SaveRoster, BeginSave, DuplicateSpot, CommitRoster, MayWrite
<1>3. /\ run[c].at \notin Early /\ run'[c].at \notin {"purge", "purged"}
      /\ DOMAIN run' = Clients /\ \A d \in Clients \ {c} : run'[d] = run[d]
      /\ disturbed => disturbed'
  <2>1. CASE BeginSave(c)
    <3>1. PICK p \in Pastes :
            run' = [run EXCEPT ![c].at = "delete", ![c].left = p, ![c].aim = SpotsIn(Reads(c))]
      BY <2>1 DEF BeginSave
    <3>2. /\ run'[c].at = "delete"
          /\ DOMAIN run' = Clients /\ \A d \in Clients \ {c} : run'[d] = run[d]
      BY <1>1, <3>1 DEF RunFields
    <3> QED
      BY <2>1, <3>2 DEF BeginSave, At, Early
  <2>2. CASE DeleteRoster(c) \/ InsertSpot(c)
    BY <1>1, <2>2 DEF DeleteRoster, InsertSpot, At, Goto, Undisturbed, RunFields, Early
  <2>3. CASE DuplicateSpot(c) \/ CommitRoster(c)
    BY <1>1, <2>3 DEF DuplicateSpot, CommitRoster, Handled, At, Goto, Undisturbed, RunFields,
       Early
  <2> QED
    BY <2>1, <2>2, <2>3 DEF SaveRoster
<1>4. dialect' = dialect /\ DOMAIN conn' = Clients /\ \A d \in Clients \ {c} : conn'[d] = conn[d]
  BY <1>1 DEF SaveRoster, BeginSave, DeleteRoster, InsertSpot, DuplicateSpot, CommitRoster,
     Query, Execute, Refused, Commit
<1> QED
  BY <1>2, <1>3, <1>4, NoPurgeStep DEF OnlyBy

\* The order of the purge.
LEMMA PurgeOrderIs ==
  /\ PurgeOrder # <<"job_runs">>
  /\ Head(PurgeOrder) = "rosters" /\ Tail(PurgeOrder) = <<"players", "job_runs">>
  /\ Len(PurgeOrder) = 3
  /\ Head(<<"players", "job_runs">>) = "players"
  /\ Tail(<<"players", "job_runs">>) = <<"job_runs">> /\ Len(<<"players", "job_runs">>) = 2
  /\ <<"players", "job_runs">> # <<"job_runs">>
  /\ Head(<<"job_runs">>) = "job_runs" /\ Len(<<"job_runs">>) = 1
BY DEF PurgeOrder

\* A purge takes its tables in order, and skips none unnoticed that is there.
LEMMA PurgeKeepsPurge ==
  ASSUME StorageInv, PurgeInv, NEW c \in Clients, Purge(c)
  PROVE  PurgeInv'
<1>1. /\ DOMAIN run = Clients /\ DOMAIN run[c] = RunFields /\ DOMAIN conn = Clients
      /\ PlayersAreThere(c) /\ PurgeIsOnItsWay(c)
  BY DEF StorageInv, DatabaseIsSane, PlaceIsTrue, PurgeInv
<1>2. run[c].at \in {"ready", "purge", "purged"}
  BY DEF Purge, BeginPurge, PurgeTable, SkipTable, CommitPurge, At
<1>3. run[c].at \notin Early /\ Table("players") \in stored
  BY <1>1, <1>2 DEF Early, PlayersAreThere
<1>4. ASSUME MayWrite(c)
      PROVE  PlayersAreThere(c)'
  BY <1>3, <1>4, YahooOnlyGoes DEF PlayersAreThere
<1>5. CASE BeginPurge(c)
  <2>1. MayWrite(c) /\ OnlyBy(c)
    BY <1>1, <1>5 DEF BeginPurge, MayWrite, OnlyBy, dbVars, Undisturbed
  <2>2. run'[c].at = "purge" /\ run'[c].left = PurgeOrder /\ c \notin Dashboards
    BY <1>1, <1>5 DEF BeginPurge, RunFields
  <2>3. PurgeIsOnItsWay(c)'
    BY <2>2, PurgeOrderIs DEF PurgeIsOnItsWay
  <2> QED
    BY <1>4, <2>1, <2>3, PurgeStep
<1>6. CASE PurgeTable(c) \/ SkipTable(c)
  <2>1. PICK s : s = run[c].left
    OBVIOUS
  <2>2. /\ run[c].at = "purge" /\ c \notin Dashboards
        /\ s \in {PurgeOrder, <<"players", "job_runs">>, <<"job_runs">>}
    BY <1>1, <1>6, <2>1 DEF PurgeTable, SkipTable, At, PurgeIsOnItsWay
  <2>3. /\ run'[c].left = Tail(s) /\ run'[c].at = IF Len(s) = 1 THEN "purged" ELSE "purge"
        /\ DOMAIN run' = Clients /\ \A d \in Clients \ {c} : run'[d] = run[d]
        /\ disturbed => disturbed'
    BY <1>1, <1>6, <2>1, <2>2 DEF PurgeTable, SkipTable, NextTable, Undisturbed, RunFields
  <2>4. MayWrite(c)
    <3>1. NoYahoo({}) /\ \A u : Table("players") \notin {Yahoo(u)}
      BY FactsDiffer DEF NoYahoo
    <3> QED
      BY <1>6, <3>1 DEF PurgeTable, SkipTable, MayWrite
  <2>5. OnlyBy(c)
    BY <1>1, <1>6, <2>3 DEF PurgeTable, SkipTable, Execute, Refused, OnlyBy
  <2>6. CASE s = PurgeOrder
    <3>1. run'[c].at = "purge" /\ run'[c].left = <<"players", "job_runs">>
      BY <2>3, <2>6, PurgeOrderIs
    <3>2. PurgeIsOnItsWay(c)'
      BY <2>2, <3>1, PurgeOrderIs DEF PurgeIsOnItsWay
    <3> QED
      BY <1>4, <2>4, <2>5, <3>2, PurgeStep
  <2>7. CASE s = <<"players", "job_runs">>
    <3>1. run'[c].at = "purge" /\ run'[c].left = <<"job_runs">> /\ Head(s) = "players"
      BY <2>3, <2>7, PurgeOrderIs
    <3>2. ~disturbed' => Yahoo("players") \notin Reads(c)'
      <4>1. Table("players") \in Reads(c)
        BY <1>3, EveryoneSees DEF StorageInv, HasTheSchema, Tables, Kept
      <4>2. CASE SkipTable(c)
        BY <2>1, <3>1, <4>1, <4>2 DEF SkipTable
      <4>3. CASE PurgeTable(c)
        <5>1. Execute(c, {Yahoo("players")}, {})
          BY <2>1, <3>1, <4>3 DEF PurgeTable
        <5>2. Reads(c)' = (Reads(c) \ {Yahoo("players")}) \cup {}
          BY <5>1, SeesItsOwn
        <5> QED
          BY <5>2
      <4> QED
        BY <1>6, <4>2, <4>3
    <3>3. PurgeIsOnItsWay(c)'
      BY <2>2, <3>1, <3>2 DEF PurgeIsOnItsWay
    <3> QED
      BY <1>4, <2>4, <2>5, <3>3, PurgeStep
  <2>8. CASE s = <<"job_runs">>
    <3>1. run'[c].at = "purged" /\ Head(s) = "job_runs"
      BY <2>3, <2>8, PurgeOrderIs
    <3>2. ~disturbed' => NoYahoo(Reads(c)')
      <4>1. Table("job_runs") \in Reads(c)
        <5>1. Done(Latest, stored)
          BY <2>2 DEF StorageInv, PlaceIsTrue, Upgraded, HandlerLabels
        <5>2. Table("job_runs") \in stored
          BY <5>1, Effects DEF Done, Latest
        <5> QED
          BY <5>2, EveryoneSees DEF StorageInv, HasTheSchema, Tables, Kept
      <4>2. CASE SkipTable(c)
        BY <2>1, <3>1, <4>1, <4>2 DEF SkipTable
      <4>3. CASE PurgeTable(c)
        <5>1. Execute(c, {Yahoo("job_runs")}, {})
          BY <2>1, <3>1, <4>3 DEF PurgeTable
        <5>2. Reads(c)' = (Reads(c) \ {Yahoo("job_runs")}) \cup {}
          BY <5>1, SeesItsOwn
        <5>3. ~disturbed' => Yahoo("players") \notin Reads(c)
          BY <1>1, <2>1, <2>2, <2>3, <2>8 DEF PurgeIsOnItsWay
        <5>4. Yahoo("rosters") \notin Reads(c)
          BY YahooFactsAre DEF PurgeInv, Reads, Live, Idle, NoYahoo
        <5> QED
          BY <5>2, <5>3, <5>4, YahooFactsAre DEF NoYahoo
      <4> QED
        BY <1>6, <4>2, <4>3
    <3>3. PurgeIsOnItsWay(c)'
      BY <2>2, <3>1, <3>2 DEF PurgeIsOnItsWay, NoYahoo
    <3> QED
      BY <1>4, <2>4, <2>5, <3>3, PurgeStep
  <2> QED
    BY <2>2, <2>6, <2>7, <2>8
<1>7. CASE CommitPurge(c)
  <2>1. MayWrite(c) /\ OnlyBy(c) /\ run'[c].at = Handled(c)
    BY <1>1, <1>7 DEF CommitPurge, Commit, Goto, MayWrite, OnlyBy, Undisturbed, RunFields
  <2> QED
    BY <1>3, <2>1, NoPurgeStep DEF Handled
<1> QED
  BY <1>5, <1>6, <1>7 DEF Purge

\* The rest of a process, and its faults.
LEMMA ProcessKeepsPurge ==
  ASSUME StorageInv, PurgeInv, NEW c \in Clients,
         Connect(c) \/ Finish(c) \/ RecordAndClose(c) \/ Faulty(c)
  PROVE  PurgeInv'
<1>1. /\ DOMAIN run = Clients /\ DOMAIN run[c] = RunFields /\ DOMAIN conn = Clients
      /\ PlayersAreThere(c) /\ PurgeIsOnItsWay(c)
  BY DEF StorageInv, DatabaseIsSane, PlaceIsTrue, PurgeInv
<1>2. CASE Connect(c) \/ Finish(c) \/ RecordAndClose(c) \/ Crash(c) \/ Interrupt(c)
  <2>1. MayWrite(c)
    BY <1>2 DEF Connect, Finish, Crash, Interrupt, MayWrite, Rollback
  <2>2. CASE Connect(c) \/ RecordAndClose(c) \/ Crash(c)
    <3>1. OnlyBy(c) /\ run'[c].at \in {"off", "versions"}
      <4>1. run'[c].at \in {"off", "versions"}
        BY <1>1, <2>2 DEF Connect, RecordAndClose, Crash, Stopped
      <4>2. /\ DOMAIN run' = Clients /\ \A d \in Clients \ {c} : run'[d] = run[d]
            /\ DOMAIN conn' = Clients /\ \A d \in Clients \ {c} : conn'[d] = conn[d]
        BY <1>1, <2>2 DEF Connect, RecordAndClose, Crash, Rollback
      <4>3. dialect' = dialect /\ (disturbed => disturbed')
        <5>1. CASE Connect(c) \/ Crash(c)
          BY <5>1 DEF Connect, Crash, Rollback, Undisturbed
        <5>2. CASE RecordAndClose(c)
          BY <5>2 DEF RecordAndClose
        <5> QED
          BY <2>2, <5>1, <5>2
      <4> QED
        BY <4>1, <4>2, <4>3 DEF OnlyBy
    <3> QED
      BY <2>1, <3>1, NoPurgeStep DEF Early
  <2>3. CASE Finish(c) \/ Interrupt(c)
    <3>1. OnlyBy(c) /\ run'[c].at = "record"
      BY <1>1, <2>3 DEF Finish, Interrupt, Goto, OnlyBy, Undisturbed, dbVars, RunFields
    <3> QED
      BY <2>1, <3>1, NoPurgeStep DEF Early
  <2> QED
    BY <1>2, <2>2, <2>3
<1>3. CASE LoseConnection(c) \/ PageCommits(c) \/ PageFails(c)
  <2>1. MayWrite(c) /\ OnlyBy(c) /\ run' = run
    BY <1>1, <1>3 DEF LoseConnection, PageCommits, PageFails, Drop, Commit, Refused, MayWrite,
       OnlyBy
  <2>2. PlayersAreThere(c)'
    BY <1>1, <2>1, YahooOnlyGoes DEF PlayersAreThere
  <2>3. CASE PageCommits(c) \/ PageFails(c)
    <3>1. run[c].at \notin {"purge", "purged"}
      BY <1>1, <2>3 DEF PageCommits, PageFails, PurgeIsOnItsWay
    <3>2. PurgeIsOnItsWay(c)'
      BY <2>1, <3>1 DEF PurgeIsOnItsWay
    <3> QED
      BY <2>1, <2>2, <3>2, PurgeStep
  <2>4. CASE LoseConnection(c)
    <3>1. /\ conn[c].up /\ conn'[c] = [up |-> FALSE, ins |-> {}, del |-> {}]
          /\ stored' = stored /\ disturbed' = (disturbed \/ Touched(c) # {})
      BY <1>1, <2>4 DEF LoseConnection, Drop
    <3>2. Reads(c)' = stored
      BY <3>1 DEF Reads, Live, Idle
    <3>3. ~disturbed' => ~disturbed /\ Reads(c) = stored
      BY <3>1 DEF Reads, Live, Touched
    <3>4. PurgeIsOnItsWay(c)'
      BY <1>1, <2>1, <3>2, <3>3 DEF PurgeIsOnItsWay, NoYahoo
    <3> QED
      BY <2>1, <2>2, <3>4, PurgeStep
  <2> QED
    BY <1>3, <2>3, <2>4
<1>4. CASE GoneAtCommit(c)
  <2>1. /\ MayWrite(c) /\ OnlyBy(c) /\ run'[c].at = Handled(c)
        /\ run[c].at \in {"commit", "purged"}
    BY <1>1, <1>4 DEF GoneAtCommit, Goto, MayWrite, OnlyBy, Undisturbed, dbVars, RunFields
  <2> QED
    BY <2>1, NoPurgeStep DEF Handled, Early
<1> QED
  BY <1>2, <1>3, <1>4 DEF Faulty

\* No behaviour starts in the middle of a purge.
LEMMA PurgeInvInit == Init => PurgeInv
<1> SUFFICES ASSUME Init
             PROVE  PurgeInv
  OBVIOUS
<1>1. Yahoo("rosters") \notin stored
  BY StartingAssumption DEF Init, Retired
<1>2. ASSUME NEW c \in Clients
      PROVE  conn[c] = Idle /\ run[c].at = "off"
  BY DEF Init, Stopped
<1> QED
  BY <1>1, <1>2 DEF PurgeInv, NoYahoo, Idle, PlayersAreThere, Early, PurgeIsOnItsWay

LEMMA PurgeInvStep == StorageInv /\ PurgeInv /\ [Next]_sessionVars => PurgeInv'
<1> SUFFICES ASSUME StorageInv, PurgeInv, [Next]_sessionVars
             PROVE  PurgeInv'
  OBVIOUS
<1>1. ASSUME NEW c \in Clients, Steps(c) \/ Faulty(c)
      PROVE  PurgeInv'
  BY <1>1, ApplyKeepsPurge, SaveRosterKeepsPurge, PurgeKeepsPurge, ProcessKeepsPurge DEF Steps
<1>2. CASE UNCHANGED sessionVars
  <2>1. UNCHANGED <<stored, conn, run, disturbed>>
    BY <1>2 DEF sessionVars, dbVars
  <2> QED
    BY <2>1 DEF PurgeInv, PlayersAreThere, PurgeIsOnItsWay, NoYahoo, Reads, Live
<1> QED
  BY <1>1, <1>2 DEF Next

(***************************************************************************)
(* A purge that commits and was not cut leaves none of Yahoo's data,       *)
(* whoever else upgrades, saves and crashes on the same database, and      *)
(* although the tables it asks for first are not there (purge_yahoo,       *)
(* src/compliance.py:87).                                                  *)
(***************************************************************************)
THEOREM PurgeIsAlwaysComplete == Spec => PurgeIsComplete
<1> DEFINE A == \A c \in Clients :
                  CommitPurge(c) /\ ~disturbed => YahooFacts \cap stored' = {}
<1>1. PurgeInv /\ [Next]_sessionVars => [A]_sessionVars
  <2> SUFFICES ASSUME PurgeInv, NEW c \in Clients, CommitPurge(c), ~disturbed
               PROVE  YahooFacts \cap stored' = {}
    OBVIOUS
  <2>1. stored' = View(c) /\ conn[c].up /\ run[c].at = "purged"
    BY DEF CommitPurge, Commit, At
  <2>2. View(c) = Reads(c)
    BY <2>1 DEF View, Reads, Live
  <2> QED
    BY <2>1, <2>2 DEF PurgeInv, PurgeIsOnItsWay, NoYahoo
<1> QED
  BY StorageInvInit, StorageInvStep, PurgeInvInit, PurgeInvStep, <1>1, PTL
     DEF Spec, PurgeIsComplete
-----------------------------------------------------------------------------
(* CopyTables.                                                             *)

\* How many rows of the file the copy in progress has behind it.
Behind == Len(Laptop) - Len(copying)

\* The rows still to copy are the end of the file.
CopyIsSuffix ==
  /\ copying \in Seq({Laptop[i] : i \in DOMAIN Laptop})
  /\ Len(copying) <= Len(Laptop)
  /\ \A j \in 1..Len(copying) : copying[j] = Laptop[Behind + j]

\* Each row behind the copy that may cross has crossed.
BehindIsHosted ==
  copying # <<>> =>
    \A i \in 1..Behind : RowIsAllowed(Laptop[i]) => Hosted(Laptop[i]) # {}

\* Whether a row has crossed, is a run recorded there, or neither.
MayBeHosted(h) ==
  /\ h.table # "recommendations" => h.n = 0
  /\ \/ h.table = "job_runs"
     \/ \E i \in DOMAIN Laptop :
          /\ Laptop[i].table = h.table /\ Laptop[i].key = h.key
          /\ RowIsAllowed(Laptop[i])

CopyInv ==
  /\ CopyIsSuffix
  /\ BehindIsHosted
  /\ \A h \in hosted : MayBeHosted(h)

\* The file is a sequence with as many rows as it has.
LEMMA LaptopIsSeq ==
  /\ Len(Laptop) \in Nat
  /\ DOMAIN Laptop = 1..Len(Laptop)
BY LaptopAssumption

\* An insert leaves what is there, and the row it inserts is there after it.
LEMMA InsertHosts ==
  ASSUME NEW r
  PROVE  /\ hosted \subseteq Insert(r)
         /\ \E h \in Insert(r) : h.table = r.table /\ h.key = r.key
<1>1. \A n : Row(r, n).table = r.table /\ Row(r, n).key = r.key
  BY DEF Row
<1>2. \E n : Insert(r) = hosted \cup {Row(r, n)}
  BY DEF Insert
<1> QED
  BY <1>1, <1>2

\* A row the insert adds is numbered only where rows have no key.
LEMMA InsertedMayBeHosted ==
  ASSUME NEW i \in DOMAIN Laptop, RowIsAllowed(Laptop[i]),
         NEW h \in Insert(Laptop[i]) \ hosted
  PROVE  MayBeHosted(h)
<1> DEFINE r == Laptop[i]
<1>1. /\ h.table = r.table /\ h.key = r.key
      /\ r.table # "recommendations" => h.n = 0
  BY DEF Insert, Row, Keyless
<1> HIDE DEF r
<1> QED
  BY <1>1 DEF MayBeHosted, r

\* Initially nothing is hosted and nothing copied.
LEMMA CopyInvInit == CopyInit => CopyInv
BY LaptopIsSeq DEF CopyInit, CopyInv, CopyIsSuffix, BehindIsHosted, MayBeHosted

\* The row a copy is at, and what is behind it after that row.
LEMMA HeadOfCopy ==
  ASSUME CopyIsSuffix, copying # <<>>
  PROVE  /\ Behind + 1 \in DOMAIN Laptop /\ Head(copying) = Laptop[Behind + 1]
         /\ Tail(copying) \in Seq({Laptop[i] : i \in DOMAIN Laptop})
         /\ Len(Tail(copying)) = Len(copying) - 1
         /\ \A j \in 1..Len(Tail(copying)) : Tail(copying)[j] = Laptop[Behind + 1 + j]
<1>1. /\ Len(copying) \in Nat \ {0} /\ Head(copying) = copying[1]
      /\ Tail(copying) \in Seq({Laptop[i] : i \in DOMAIN Laptop})
      /\ Len(Tail(copying)) = Len(copying) - 1
      /\ \A j \in 1..Len(copying) - 1 : Tail(copying)[j] = copying[j + 1]
  BY DEF CopyIsSuffix
<1>2. Behind + 1 \in DOMAIN Laptop /\ Head(copying) = Laptop[Behind + 1] /\ Behind \in Nat
  BY <1>1, LaptopIsSeq DEF CopyIsSuffix, Behind
<1>3. ASSUME NEW j \in 1..Len(copying) - 1
      PROVE  Tail(copying)[j] = Laptop[Behind + 1 + j]
  <2>1. j + 1 \in 1..Len(copying) /\ Behind + (j + 1) = Behind + 1 + j
    BY <1>1, <1>2
  <2> QED
    BY <1>1, <2>1 DEF CopyIsSuffix
<1> QED
  BY <1>1, <1>2, <1>3

\* What is hosted stays hosted.
LEMMA HostedGrows ==
  ASSUME hosted \subseteq hosted', NEW r, Hosted(r) # {}
  PROVE  Hosted(r)' # {}
BY DEF Hosted

\* Every step of a copy, or of a hosted run, keeps the invariant.
LEMMA CopyInvStep == CopyInv /\ [CopyNext]_copyVars => CopyInv'
<1> SUFFICES ASSUME CopyInv, [CopyNext]_copyVars
             PROVE  CopyInv'
  OBVIOUS
<1>1. CASE StartCopy
  <2>1. CopyIsSuffix'
    BY <1>1, LaptopIsSeq, LaptopAssumption DEF StartCopy, CopyIsSuffix, Behind
  <2>2. BehindIsHosted'
    BY <1>1, LaptopIsSeq DEF StartCopy, BehindIsHosted, Behind
  <2> QED
    BY <1>1, <2>1, <2>2 DEF StartCopy, CopyInv, MayBeHosted
<1>2. CASE CopyRow
  <2>1. PICK k : k = Behind + 1
    OBVIOUS
  <2>2. /\ copying # <<>> /\ copying' = Tail(copying)
        /\ k \in DOMAIN Laptop
        /\ hosted' = IF RowIsAllowed(Laptop[k]) THEN Insert(Laptop[k]) ELSE hosted
        /\ Len(copying') = Len(copying) - 1
    BY <1>2, <2>1, HeadOfCopy DEF CopyRow, CopyInv
  <2>3. Behind' = k /\ Behind \in Nat /\ k = Behind + 1
    BY <2>1, <2>2, LaptopIsSeq DEF Behind, CopyInv, CopyIsSuffix
  <2>4. CopyIsSuffix'
    BY <2>1, <2>2, <2>3, HeadOfCopy, LaptopIsSeq DEF CopyInv, CopyIsSuffix
  <2>5. hosted \subseteq hosted' /\ (RowIsAllowed(Laptop[k]) => Hosted(Laptop[k])' # {})
    BY <2>2, InsertHosts DEF Hosted
  <2>6. BehindIsHosted'
    <3> SUFFICES ASSUME NEW i \in 1..k, RowIsAllowed(Laptop[i])
                 PROVE  Hosted(Laptop[i])' # {}
      BY <2>3 DEF BehindIsHosted, Hosted
    <3>1. CASE i = k
      BY <2>5, <3>1
    <3>2. CASE i # k
      <4>1. i \in 1..Behind
        BY <2>3, <3>2
      <4> QED
        BY <2>2, <2>5, <4>1, HostedGrows DEF CopyInv, BehindIsHosted
    <3> QED
      BY <3>1, <3>2
  <2>7. ASSUME NEW h \in hosted'
        PROVE  MayBeHosted(h)
    BY <2>2, <2>7, InsertedMayBeHosted DEF CopyInv
  <2> QED
    BY <2>4, <2>6, <2>7 DEF CopyInv, MayBeHosted
<1>3. CASE CopyRaises \/ CopyCrashes
  <2>1. copying' = <<>> /\ hosted' = hosted
    BY <1>3 DEF CopyRaises, CopyCrashes
  <2>2. CopyIsSuffix'
    BY <2>1, LaptopIsSeq DEF CopyIsSuffix
  <2> QED
    BY <2>1, <2>2 DEF CopyInv, BehindIsHosted, MayBeHosted
<1>4. CASE HostedRun
  <2>1. /\ hosted' = hosted \cup {JobRun(drawn + 1)} /\ copying' = copying
        /\ MayBeHosted(JobRun(drawn + 1))
    BY <1>4 DEF HostedRun, JobRun, MayBeHosted
  <2>2. CopyIsSuffix' /\ Behind' = Behind
    BY <2>1 DEF CopyInv, CopyIsSuffix, Behind
  <2>3. BehindIsHosted'
    BY <2>1, <2>2, HostedGrows DEF CopyInv, BehindIsHosted
  <2> QED
    BY <2>1, <2>2, <2>3 DEF CopyInv, MayBeHosted
<1>5. CASE UNCHANGED copyVars
  BY <1>5 DEF copyVars, CopyInv, CopyIsSuffix, BehindIsHosted, Behind, MayBeHosted, Hosted
<1> QED
  BY <1>1, <1>2, <1>3, <1>4, <1>5 DEF CopyNext

\* What is behind a copy is the beginning of the file.
LEMMA PassedIsBehind ==
  ASSUME CopyIsSuffix
  PROVE  DOMAIN Passed = 1..Behind /\ \A i \in 1..Behind : Passed[i] = Laptop[i]
<1>1. Behind \in Nat /\ Behind <= Len(Laptop) /\ Passed = SubSeq(Laptop, 1, Behind)
  BY LaptopIsSeq DEF CopyIsSuffix, Behind, Passed
<1> QED
  BY <1>1, LaptopIsSeq, LaptopAssumption

(***************************************************************************)
(* Whatever file is copied, and wherever earlier copies were cut short, a  *)
(* copy leaves out no row before the one it is at that may cross           *)
(* (copy_table, src/migrate.py:91).                                        *)
(***************************************************************************)
THEOREM CopyAlwaysTopsUp == CopySpec => []TopsUp
<1>1. CopyInv => TopsUp
  BY PassedIsBehind DEF CopyInv, BehindIsHosted, TopsUp
<1> QED
  BY CopyInvInit, CopyInvStep, <1>1, PTL DEF CopySpec

(***************************************************************************)
(* However often a file is copied, every row with a conflict target is     *)
(* hosted once, and none that is Yahoo's by provenance is hosted, but for  *)
(* the synced draft picks (row_is_allowed, src/migrate.py:86).             *)
(***************************************************************************)
THEOREM CopyIsOnlyOursOnce == CopySpec => []OnlyOursOnce
<1>1. ASSUME CopyInv
      PROVE  OnlyOursOnce
  <2> SUFFICES ASSUME NEW h \in hosted, NEW i \in DOMAIN Laptop,
                      Laptop[i].table = h.table, Laptop[i].key = h.key,
                      Laptop[i].source = "yahoo"
               PROVE  h.table = "draft_picks"
    BY <1>1 DEF CopyInv, MayBeHosted, OnlyOursOnce
  <2>1. h.table \in Provenance \cup {"draft_picks"}
    BY LaptopAssumption DEF YahooRows, Provenance
  <2>2. h.table # "job_runs"
    BY <2>1 DEF Provenance
  <2>3. RowIsAllowed(Laptop[i])
    BY <1>1, <2>2, LaptopAssumption DEF CopyInv, MayBeHosted
  <2> QED
    BY <2>1, <2>3 DEF RowIsAllowed
<1> QED
  BY CopyInvInit, CopyInvStep, <1>1, PTL DEF CopySpec
=============================================================================
